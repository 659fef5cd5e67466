-------------------------- MODULE ExternalGateMC --------------------------
(***************************************************************************)
(* A core block, three small experts and one three times as large.  With a *)
(* budget of four units and two slots, the slots keep the third small      *)
(* expert out and the budget keeps any other out while the large one is    *)
(* in.                                                                     *)
(***************************************************************************)
EXTENDS ExternalGate

CONSTANTS core, small, other, third, large

MCExperts == {small, other, third, large}
MCCore == <<core>>
MCLength == [b \in MCExperts \cup {core} |-> IF b = large THEN 3 ELSE 1]

\* Requests that name the core block, that fill the slots and name a block
\* twice, and that fail on their second block.
MCRequests == {<<core, small>>, <<other, third, other>>, <<large, small>>}

\* Two requests that need each other's room.
MCFewRequests == {<<small, other>>, <<large>>}
=============================================================================
