----------------------------- MODULE LeaseStore -----------------------------
(***************************************************************************)
(* What the native pager promises to the code that computes with experts,  *)
(* without saying how it chooses what to keep in memory.                   *)
(*                                                                         *)
(* A request either becomes a lease on a set of blocks that are all in     *)
(* memory, or it is refused.  From the moment a lease is granted until it  *)
(* is returned its blocks stay in memory.  The blocks in memory never      *)
(* exceed the byte budget.  A lease identifier is never reused.            *)
(***************************************************************************)
CONSTANTS
    Block,    \* the expert blocks of the model
    Fitting,  \* the sets of blocks that fit the store's byte budget
    LeaseId   \* identifiers of requests

ASSUME StoreAssumption == Fitting \subseteq SUBSET Block /\ {} \in Fitting

VARIABLES
    resident,    \* the blocks in memory
    phase,       \* phase[l]: "new", "granted" or "closed"
    granted      \* granted[l]: the blocks leased under l

storeVars == <<resident, phase, granted>>

Pinned == UNION {granted[l] : l \in LeaseId}

StoreTypeOK ==
    /\ resident \subseteq Block
    /\ phase \in [LeaseId -> {"new", "granted", "closed"}]
    /\ granted \in [LeaseId -> SUBSET Block]

StoreInit ==
    /\ resident = {}
    /\ phase = [l \in LeaseId |-> "new"]
    /\ granted = [l \in LeaseId |-> {}]

\* The store brings a block into memory, within the budget.
Load(b) ==
    /\ b \notin resident
    /\ resident \cup {b} \in Fitting
    /\ resident' = resident \cup {b}
    /\ UNCHANGED <<phase, granted>>

\* The store drops a block nobody leases.
Drop(b) ==
    /\ b \in resident \ Pinned
    /\ resident' = resident \ {b}
    /\ UNCHANGED <<phase, granted>>

\* A request succeeds: all its blocks are in memory.
Grant(l, S) ==
    /\ phase[l] = "new"
    /\ S # {} /\ S \subseteq resident
    /\ phase' = [phase EXCEPT ![l] = "granted"]
    /\ granted' = [granted EXCEPT ![l] = S]
    /\ UNCHANGED resident

\* A request fails and pins nothing.
Refuse(l) ==
    /\ phase[l] = "new"
    /\ phase' = [phase EXCEPT ![l] = "closed"]
    /\ UNCHANGED <<resident, granted>>

\* The holder gives its lease back.
GiveBack(l) ==
    /\ phase[l] = "granted"
    /\ phase' = [phase EXCEPT ![l] = "closed"]
    /\ granted' = [granted EXCEPT ![l] = {}]
    /\ UNCHANGED resident

StoreNext ==
    \/ \E b \in Block : Load(b) \/ Drop(b)
    \/ \E l \in LeaseId :
         \/ \E S \in SUBSET Block : Grant(l, S)
         \/ Refuse(l)
         \/ GiveBack(l)

StoreSpec == StoreInit /\ [][StoreNext]_storeVars
=============================================================================
