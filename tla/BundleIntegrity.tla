-------------------------- MODULE BundleIntegrity --------------------------
(***************************************************************************)
(* Files of a bundle that change, and the three guards against that: the   *)
(* digest of each block in the model map, the seal over all files, and the *)
(* integrity mode that says which of them a reader consults.               *)
(*                                                                         *)
(* A sealer ("mmb seal", the end of a conversion) and one reader of blocks *)
(* work on the files at the same time; anything may change them, and the   *)
(* sealer may die.                                                         *)
(*                                                                         *)
(* Abstractions.  A file is read piece by piece, and a piece is known by   *)
(* the version its bytes belong to; a map of version v gives the digests   *)
(* of blocks of that version.  Its id and its revision are strings in it,  *)
(* which a change of its blocks may leave as they are.  Digests do not     *)
(* collide.  A mismatch is found at the piece and not at the end of the    *)
(* block, unless the bytes are handed on.  Sizes, times and file names add *)
(* nothing to the digests.  One sealer works at a time, and what has been  *)
(* written stays written.                                                  *)
(***************************************************************************)
EXTENDS Integers, Sequences, SequencesExt

CONSTANTS
    NBlocks,    \* blocks of the model, all in one shard
    Versions,   \* what the bytes of a file may be
    Alike,      \* those of which the map declares one id and one revision
    Modes,      \* the integrity modes a reader is configured with
    MaxChanges, \* bound on the changes of files
    MaxSeals    \* bound on the attempts to seal

ASSUME BundleAssumption ==
    /\ NBlocks \in Nat \ {0} /\ MaxChanges \in Nat /\ MaxSeals \in Nat
    /\ Alike \subseteq Versions
    /\ Modes \subseteq {"always", "first_load", "none", "seal"}

VARIABLES
    shard, map, layout,  \* the files: the version of each piece of the shard
    seal, tmp,           \* model.verified.json and model.verified.tmp
    sealer,              \* where create_model_seal is, and what it has hashed
    reader,              \* the reader: its interface, its mode, its position
    accepted,            \* the seal that verify_model_seal accepted
    verified,            \* _verified: blocks not to be verified again
    buffer, served,      \* the target of the read under way; the last result
    changes, seals,      \* for the bounds
    touched              \* blocks changed since they were last verified

files == <<shard, map, layout>>
sealing == <<seal, tmp, sealer, seals>>
reading == <<reader, accepted, verified, buffer, served>>
vars == <<files, sealing, reading, changes, touched>>

Blocks == 1 .. NBlocks
Pieces == 1 .. 2 * NBlocks
\* model_id and map_revision, known by the versions of the map that declare them.
Declared(v) == IF v \in Alike THEN Alike ELSE {v}

PiecesOf(b) == <<2 * b - 1, 2 * b>>
BlockOf(p) == (p + 1) \div 2

\* No file, and one that was being written when its writer died.
NoSeal == [state |-> "none"]
Torn == [state |-> "torn"]
-----------------------------------------------------------------------------
(* The files change under everybody's hands.  quiet remembers for the      *)
(* sealer and the reader whether they did since either began.              *)

Changed(b) ==
    /\ changes < MaxChanges /\ changes' = changes + 1
    /\ sealer' = [sealer EXCEPT !.quiet = FALSE]
    /\ reader' = [reader EXCEPT !.quiet = FALSE]
    /\ touched' = IF reader.pc = "off" THEN {} ELSE touched \cup b
    /\ UNCHANGED <<seal, tmp, seals, accepted, verified, buffer, served>>

Change ==
    \E v \in Versions :
        \/ \E p \in Pieces :
             /\ shard' = [shard EXCEPT ![p] = v]
             /\ Changed({BlockOf(p)}) /\ UNCHANGED <<map, layout>>
        \/ map' = v /\ Changed({}) /\ UNCHANGED <<shard, layout>>
        \/ layout' = v /\ Changed({}) /\ UNCHANGED <<shard, map>>
-----------------------------------------------------------------------------
(* create_model_seal                                                       *)

Idle == [pc |-> "idle", quiet |-> TRUE]

SealerOnly == UNCHANGED <<files, reading, changes, touched>>

\* The model map is loaded before the sealing.
SealStart ==
    /\ sealer.pc = "idle" /\ seals < MaxSeals
    /\ seals' = seals + 1
    /\ sealer' = [pc |-> "verify", quiet |-> TRUE, loaded |-> map, at |-> 1,
                  shard |-> <<>>, map |-> map, layout |-> layout]
    /\ UNCHANGED <<seal, tmp>> /\ SealerOnly

\* The first pass compares the blocks with their digests in the loaded map.
VerifyPiece ==
    /\ sealer.pc = "verify"
    /\ sealer' = IF shard[sealer.at] # sealer.loaded THEN Idle
                 ELSE IF sealer.at < Len(shard) THEN [sealer EXCEPT !.at = @ + 1]
                 ELSE [sealer EXCEPT !.pc = "hash"]
    /\ UNCHANGED <<seal, tmp, seals>> /\ SealerOnly

\* The second pass reads the shard again, for its digest.
HashPiece ==
    /\ sealer.pc = "hash"
    /\ LET read == Append(sealer.shard, shard[Len(sealer.shard) + 1])
       IN sealer' = [sealer EXCEPT !.shard = read,
                                   !.pc = IF Len(read) = Len(shard) THEN "map" ELSE @]
    /\ UNCHANGED <<seal, tmp, seals>> /\ SealerOnly

HashMap ==
    /\ sealer.pc = "map"
    /\ sealer' = [sealer EXCEPT !.map = map, !.pc = "layout"]
    /\ UNCHANGED <<seal, tmp, seals>> /\ SealerOnly

HashLayout ==
    /\ sealer.pc = "layout"
    /\ sealer' = [sealer EXCEPT !.layout = layout, !.pc = "write"]
    /\ UNCHANGED <<seal, tmp, seals>> /\ SealerOnly

SealData ==
    [state |-> "whole", revision |-> Declared(sealer.loaded), shard |-> sealer.shard,
     map |-> sealer.map, layout |-> sealer.layout, quiet |-> sealer.quiet]

\* Mutant of BeginWrite: the seal itself is opened for writing.
BeginWriteInPlace == seal' = Torn /\ UNCHANGED tmp

\* write_text truncates the file before it writes.
BeginWrite == tmp' = Torn /\ UNCHANGED seal

WriteSeal ==
    \/ /\ sealer.pc = "write" /\ BeginWrite
       /\ sealer' = [sealer EXCEPT !.pc = "writing"]
       /\ UNCHANGED seals /\ SealerOnly
    \/ /\ sealer.pc = "writing" /\ tmp' = SealData
       /\ sealer' = [sealer EXCEPT !.pc = "replace"]
       /\ UNCHANGED <<seal, seals>> /\ SealerOnly

Replace ==
    /\ sealer.pc = "replace"
    /\ seal' = tmp /\ tmp' = NoSeal
    /\ sealer' = Idle
    /\ UNCHANGED seals /\ SealerOnly

\* The process dies, or a file cannot be read or written.
SealerDies ==
    /\ sealer.pc # "idle" /\ sealer' = Idle
    /\ UNCHANGED <<seal, tmp, seals>> /\ SealerOnly
-----------------------------------------------------------------------------
(* A reader starts                                                         *)

ReaderOnly == UNCHANGED <<files, sealing, changes>>

ReaderTo(pc) == reader' = [reader EXCEPT !.pc = pc]

NoReader == [pc |-> "off", quiet |-> TRUE]

\* "gate" is FileRangeStore in the external gate, which verifies the seal
\* when it is configured to; "direct" is MMBRuntime, which hands the native
\* runtime whether to verify digests, and nothing else.
Start(api, mode) ==
    /\ reader.pc = "off"
    /\ reader' = [pc |-> IF api = "gate" /\ mode = "seal" THEN "seal" ELSE "open",
                  quiet |-> TRUE, api |-> api, mode |-> mode, map |-> map,
                  round |-> 1, at |-> 1]
    /\ UNCHANGED <<accepted, verified, buffer, served, touched>> /\ ReaderOnly

\* verify_model_seal raises or returns a reason, and the gate does not start.
\* Of the seal only the declared id and revision are compared with the loaded
\* map, and of the map that was hashed the bytes.
Refused == reader' = NoReader /\ accepted' = NoSeal

CheckSeal ==
    /\ reader.pc = "seal"
    /\ IF seal.state = "whole" /\ seal.revision = Declared(reader.map)
       THEN accepted' = seal /\ ReaderTo("map")
       ELSE Refused
    /\ UNCHANGED <<verified, buffer, served, touched>> /\ ReaderOnly

CheckMap ==
    /\ reader.pc = "map"
    /\ IF map = accepted.map THEN ReaderTo("shard") /\ UNCHANGED accepted ELSE Refused
    /\ UNCHANGED <<verified, buffer, served, touched>> /\ ReaderOnly

\* Mutant of SameBytes: only the number of pieces is compared.
SameBytesBySize(p) == p \in DOMAIN accepted.shard

SameBytes(p) == shard[p] = accepted.shard[p]

\* The shard is hashed once for every block that lies in it.
CheckShard ==
    /\ reader.pc = "shard"
    /\ IF ~SameBytes(reader.at) THEN Refused
       ELSE /\ UNCHANGED accepted
            /\ reader' =
                 IF reader.at < Len(shard) THEN [reader EXCEPT !.at = @ + 1]
                 ELSE IF reader.round < NBlocks
                      THEN [reader EXCEPT !.round = @ + 1, !.at = 1]
                 ELSE [reader EXCEPT !.pc = "layout"]
    /\ UNCHANGED <<verified, buffer, served, touched>> /\ ReaderOnly

CheckLayout ==
    /\ reader.pc = "layout"
    /\ IF layout = accepted.layout THEN ReaderTo("open") /\ UNCHANGED accepted ELSE Refused
    /\ UNCHANGED <<verified, buffer, served, touched>> /\ ReaderOnly

Stop ==
    /\ reader.pc = "open" /\ reader' = NoReader
    /\ accepted' = NoSeal /\ verified' = {} /\ served' = <<>> /\ touched' = {}
    /\ UNCHANGED buffer /\ ReaderOnly
-----------------------------------------------------------------------------
(* FileRangeStore.read_into and MMBModel::read_expert                      *)

MustVerify(b) ==
    /\ reader.mode # "none"
    /\ \/ reader.mode = "always" \/ reader.api = "direct"
       \/ reader.mode = "first_load" /\ b \notin verified

\* What is decided before the first byte is read.
ReadStart(b) ==
    /\ reader.pc = "open"
    /\ reader' = [reader EXCEPT !.pc = "read", !.at = b, !.round = 1]
    /\ served' = <<>>
    /\ touched' = IF MustVerify(b) THEN touched \ {b} ELSE touched
    /\ UNCHANGED <<accepted, verified, buffer>> /\ ReaderOnly

ReadPiece ==
    /\ reader.pc = "read" /\ Len(buffer) < 2
    /\ buffer' = Append(buffer, shard[PiecesOf(reader.at)[Len(buffer) + 1]])
    /\ UNCHANGED <<reader, accepted, verified, served, touched>> /\ ReaderOnly

\* Mutant of DigestMatches: what is in the file by now is hashed.
DigestOfFileMatches ==
    \A p \in ToSet(PiecesOf(reader.at)) : shard[p] = reader.map

\* The bytes hashed are those in the buffer.
DigestMatches == \A i \in DOMAIN buffer : buffer[i] = reader.map

ReadEnds ==
    /\ reader.pc = "read" /\ Len(buffer) = 2
    /\ IF ~MustVerify(reader.at)
       THEN served' = buffer /\ UNCHANGED verified
       ELSE IF DigestMatches
       THEN served' = buffer /\ verified' = verified \cup {reader.at}
       ELSE UNCHANGED <<served, verified>>
    /\ buffer' = <<>> /\ ReaderTo("open")
    /\ UNCHANGED <<accepted, touched>> /\ ReaderOnly
-----------------------------------------------------------------------------
\* A bundle as converted, not yet sealed or sealed before.
\* A converted bundle, with or without an earlier seal, and with or without what
\* is left of a sealer that died while it wrote.
Init ==
    /\ \E v \in Versions :
         /\ shard = [p \in Pieces |-> v] /\ map = v /\ layout = v
         /\ seal \in {NoSeal, [state |-> "whole", revision |-> Declared(v), shard |-> shard,
                               map |-> v, layout |-> v, quiet |-> TRUE]}
    /\ tmp \in {NoSeal, Torn} /\ sealer = Idle /\ seals = 0
    /\ reader = NoReader /\ accepted = NoSeal /\ verified = {}
    /\ buffer = <<>> /\ served = <<>> /\ changes = 0 /\ touched = {}

Seal ==
    \/ SealStart \/ VerifyPiece \/ HashPiece \/ HashMap \/ HashLayout
    \/ WriteSeal \/ Replace \/ SealerDies

Open ==
    \/ \E api \in {"gate", "direct"}, m \in Modes : Start(api, m)
    \/ CheckSeal \/ CheckMap \/ CheckShard \/ CheckLayout \/ Stop

Read == (\E b \in Blocks : ReadStart(b)) \/ ReadPiece \/ ReadEnds

Next == Change \/ Seal \/ Open \/ Read

Spec == Init /\ [][Next]_vars
-----------------------------------------------------------------------------
(* Properties                                                              *)

Served == reader.pc = "open" /\ served # <<>>
Mapped == \A i \in DOMAIN served : served[i] = reader.map

\* A reader that verifies hands on the bytes the map promises, whatever the
\* file becomes during the read or after it; in mode first_load a block may
\* differ only if it has changed since the read that verified it began.
VerifiedReads ==
    Served /\ reader.mode # "none" /\ (reader.mode # "seal" \/ reader.api = "direct") =>
        Mapped \/ (reader.mode = "first_load" /\ reader.api = "gate"
                                              /\ reader.at \in touched)

\* In mode seal the bytes are those the map promises, provided the files rest
\* while they are sealed and from the start of the gate on.  Of what happens
\* in between, for however long, nothing gets past the verification.
SealedReads ==
    Served /\ reader.mode = "seal" /\ reader.api = "gate" =>
        Mapped \/ ~accepted.quiet \/ ~reader.quiet

\* A sealer that dies, or several that follow each other and find what the last
\* one left, never leave half a seal where readers look for it.
SealWhole == seal # Torn

\* "integrity=seal verifica o conjunto registrado no startup" (SECURITY.md):
\* whoever reads in mode seal has had the seal verified when it started.  The
\* direct runtime has not.
SealedStartup == reader.pc = "open" /\ reader.mode = "seal" => accepted # NoSeal
=============================================================================
