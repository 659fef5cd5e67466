------------------------ MODULE BundleIntegrityProofs ------------------------
(***************************************************************************)
(* What the digests and the seal of a bundle guarantee, for any number of  *)
(* blocks, versions, changes of the files and attempts to seal them: bytes *)
(* handed on as verified are those the map promises, and a seal is whole.  *)
(***************************************************************************)
EXTENDS BundleIntegrity, SequenceTheorems, TLAPS

Seals == [state : {"whole"}, revision : SUBSET Versions, shard : [Pieces -> Versions],
          map : Versions, layout : Versions, quiet : BOOLEAN]

IdleSealers == [pc : {"idle"}, quiet : BOOLEAN]

Hashed == {"map", "layout", "write", "writing", "replace"}

Sealers == [pc : {"verify", "hash"} \cup Hashed, quiet : BOOLEAN,
            loaded : Versions, at : Pieces, shard : Seq(Versions),
            map : Versions, layout : Versions]

OffReaders == [pc : {"off"}, quiet : BOOLEAN]

Readers == [pc : {"seal", "map", "shard", "layout", "open", "read"}, quiet : BOOLEAN,
            api : {"gate", "direct"}, mode : Modes, map : Versions,
            round : Nat \ {0}, at : Pieces]

FileTypes == shard \in [Pieces -> Versions] /\ map \in Versions /\ layout \in Versions

SealTypes ==
    /\ sealer \in IdleSealers \cup Sealers
    /\ seal \in Seals \cup {NoSeal} /\ tmp \in Seals \cup {NoSeal, Torn}

ReadTypes ==
    /\ reader \in OffReaders \cup Readers
    /\ accepted \in Seals \cup {NoSeal}
    /\ verified \subseteq Blocks /\ touched \subseteq Blocks
    /\ buffer \in Seq(Versions) /\ served \in Seq(Versions)

\* A seal of files that rested records blocks that match the digests of the map
\* it records.
Sound(s) == s \in Seals /\ s.quiet => \A p \in Pieces : s.shard[p] = s.map

\* How much of the shard the sealer has hashed, and the seals there are.
SealerPlace ==
    /\ sealer.pc = "verify" => sealer.shard = <<>>
    /\ sealer.pc = "hash" => Len(sealer.shard) < 2 * NBlocks
    /\ sealer.pc \in Hashed => Len(sealer.shard) = 2 * NBlocks
    /\ sealer.pc = "replace" => tmp \in Seals
    /\ Sound(seal) /\ Sound(tmp)

\* As long as the files rest, what the sealer has compared is what it hashes.
SealerRests ==
    sealer.pc # "idle" /\ sealer.quiet =>
        /\ sealer.map = sealer.loaded /\ map = sealer.loaded
        /\ \A p \in Pieces : sealer.pc # "verify" \/ p < sealer.at =>
              shard[p] = sealer.loaded
        /\ \A i \in DOMAIN sealer.shard : sealer.shard[i] = sealer.loaded

Sealed == reader.pc # "off" /\ reader.api = "gate" /\ reader.mode = "seal"

\* Only a gate in mode seal verifies one before it opens; a read is of one
\* block, and fills a buffer for its two pieces.
ReadPlace ==
    /\ reader.pc \in {"seal", "map", "shard", "layout"} => Sealed
    /\ reader.pc \in {"seal", "map"} => reader.round = 1 /\ reader.at = 1
    /\ reader.pc = "read" => reader.at \in Blocks /\ Len(buffer) <= 2
    /\ reader.pc # "read" => buffer = <<>>
    /\ reader.pc # "open" => served = <<>>
    /\ reader.pc \notin {"open", "read"} => verified = {}

\* A gate in mode seal relies on a seal.
SealAccepted ==
    /\ Sound(accepted)
    /\ Sealed /\ reader.pc # "seal" => accepted \in Seals

\* As long as the files rest, what the gate has compared with the seal, once
\* all of it or only its beginning, is what it reads; and the map it has hashed
\* is the one it has loaded.
SealCompared ==
    /\ Sealed /\ reader.quiet => map = reader.map
    /\ Sealed /\ reader.pc \notin {"seal", "map"} /\ reader.quiet =>
        /\ accepted.map = reader.map
        /\ \A p \in Pieces : reader.pc # "shard" \/ reader.round > 1 \/ p < reader.at =>
              shard[p] = accepted.shard[p]
        /\ accepted.quiet => \A i \in DOMAIN buffer : buffer[i] = reader.map

FirstLoad == reader.pc # "off" /\ reader.api = "gate" /\ reader.mode = "first_load"

\* A block that was verified and has not been changed since still matches its
\* digest, and a read of a block that has not been changed is of what is there.
Untouched ==
    /\ FirstLoad =>
          \A b \in verified \ touched :
              \A i \in 1 .. 2 : shard[PiecesOf(b)[i]] = reader.map
    /\ reader.pc = "read" /\ reader.at \notin touched =>
          \A i \in DOMAIN buffer : buffer[i] = shard[PiecesOf(reader.at)[i]]

IInv ==
    /\ FileTypes /\ SealTypes /\ ReadTypes
    /\ SealerPlace /\ SealerRests
    /\ ReadPlace /\ SealAccepted /\ SealCompared /\ Untouched
    /\ VerifiedReads /\ SealedReads
-----------------------------------------------------------------------------
(* Pieces and blocks                                                       *)

\* The shard is a sequence of all pieces.
LEMMA ShardLength ==
    ASSUME NEW f \in [Pieces -> Versions]
    PROVE  Len(f) = 2 * NBlocks /\ DOMAIN f = Pieces
BY BundleAssumption DEF Pieces

\* The two pieces of a block are pieces of the shard, and of no other block.
LEMMA TheirPieces ==
    ASSUME NEW b \in Blocks, NEW i \in 1 .. 2
    PROVE  PiecesOf(b)[i] \in Pieces /\ BlockOf(PiecesOf(b)[i]) = b
<1>1. CASE i = 1
  BY <1>1, BundleAssumption DEF PiecesOf, Pieces, Blocks, BlockOf
<1>2. CASE i = 2
  BY <1>2, BundleAssumption DEF PiecesOf, Pieces, Blocks, BlockOf
<1> QED BY <1>1, <1>2

\* A piece belongs to a block.
LEMMA TheirBlock == ASSUME NEW p \in Pieces PROVE BlockOf(p) \in Blocks
BY BundleAssumption DEF Pieces, Blocks, BlockOf

\* What a map declares is known by versions of it.
LEMMA DeclaredVersions == ASSUME NEW v \in Versions PROVE Declared(v) \in SUBSET Versions
BY BundleAssumption DEF Declared

\* A sequence over Versions as a function, and what appending to it does.
LEMMA Appended ==
    ASSUME NEW s \in Seq(Versions), NEW v \in Versions
    PROVE  /\ Append(s, v) \in Seq(Versions)
           /\ Len(s) \in Nat /\ DOMAIN s = 1 .. Len(s)
           /\ Len(Append(s, v)) = Len(s) + 1
           /\ DOMAIN Append(s, v) = 1 .. Len(s) + 1
           /\ \A i \in 1 .. Len(s) : Append(s, v)[i] = s[i]
           /\ Append(s, v)[Len(s) + 1] = v
BY AppendProperties, LenProperties

\* A sequence of as many versions as there are pieces records the shard.
LEMMA WholeShard ==
    ASSUME NEW s \in Seq(Versions), Len(s) = 2 * NBlocks
    PROVE  s \in [Pieces -> Versions] /\ DOMAIN s = Pieces
BY LenProperties DEF Pieces
-----------------------------------------------------------------------------
(* The sealer                                                              *)

\* What the sealer's steps leave to others.
Sealing == SealTypes /\ SealerPlace /\ SealerRests

\* It starts with the map as it is, and nothing compared.
LEMMA SealStartStep == ASSUME IInv, SealStart PROVE Sealing'
<1> USE BundleAssumption DEF IInv, SealStart, SealerOnly, files
<1>1. 1 \in Pieces /\ <<>> \in Seq(Versions)
  BY EmptySeq DEF Pieces
<1>2. SealTypes' /\ sealer'.pc = "verify" /\ sealer'.at = 1 /\ sealer'.shard = <<>>
  BY <1>1 DEF SealTypes, FileTypes, Sealers
<1>3. SealerPlace'
  BY <1>2 DEF SealerPlace, Hashed, Sound
<1>4. SealerRests'
  BY <1>2 DEF SealerRests, Pieces
<1> QED BY <1>2, <1>3, <1>4 DEF Sealing

\* A piece that matches extends what is compared; another ends the sealing.
LEMMA VerifyPieceStep == ASSUME IInv, VerifyPiece PROVE Sealing'
<1> USE BundleAssumption DEF IInv, VerifyPiece, SealerOnly, files
<1>1. sealer \in Sealers /\ sealer.at \in Pieces /\ sealer.shard = <<>>
  BY DEF SealTypes, SealerPlace, IdleSealers, Sealers
<1>2. Len(shard) = 2 * NBlocks
  BY ShardLength DEF FileTypes
<1>3. CASE shard[sealer.at] # sealer.loaded
  <2>1. sealer' = Idle BY <1>3
  <2> QED BY <2>1 DEF Sealing, Idle, SealTypes, SealerPlace, SealerRests, IdleSealers,
                      Sound, Hashed
<1>4. CASE shard[sealer.at] = sealer.loaded /\ sealer.at < Len(shard)
  <2>1. sealer' = [sealer EXCEPT !.at = @ + 1] BY <1>4
  <2>2. sealer.at + 1 \in Pieces BY <1>1, <1>2, <1>4 DEF Pieces
  <2>3. SealTypes' BY <1>1, <2>1, <2>2 DEF SealTypes, Sealers
  <2>4. sealer'.pc = "verify" /\ sealer'.shard = <<>> /\ sealer'.at = sealer.at + 1
        /\ sealer'.quiet = sealer.quiet /\ sealer'.loaded = sealer.loaded
    BY <1>1, <2>1 DEF Sealers
  <2>5. SealerPlace' BY <2>4 DEF SealerPlace, Sound, Hashed
  <2>6. SealerRests' BY <1>1, <1>4, <2>4 DEF SealerRests, Pieces
  <2> QED BY <2>3, <2>5, <2>6 DEF Sealing
<1>5. CASE shard[sealer.at] = sealer.loaded /\ ~(sealer.at < Len(shard))
  <2>1. sealer' = [sealer EXCEPT !.pc = "hash"] BY <1>5
  <2>2. SealTypes' BY <1>1, <2>1 DEF SealTypes, Sealers
  <2>3. sealer'.pc = "hash" /\ sealer'.shard = <<>>
        /\ sealer'.quiet = sealer.quiet /\ sealer'.loaded = sealer.loaded
    BY <1>1, <2>1 DEF Sealers
  <2>4. SealerPlace' BY <2>3 DEF SealerPlace, Sound, Hashed
  <2>5. sealer.at = 2 * NBlocks BY <1>1, <1>2, <1>5 DEF Pieces
  <2>6. SealerRests' BY <1>1, <1>5, <2>3, <2>5 DEF SealerRests, Pieces
  <2> QED BY <2>2, <2>4, <2>6 DEF Sealing
<1> QED BY <1>3, <1>4, <1>5

\* What the second pass hashes is what the first has compared, if the files rest.
LEMMA HashPieceStep == ASSUME IInv, HashPiece PROVE Sealing'
<1> DEFINE piece == shard[Len(sealer.shard) + 1]
           read == Append(sealer.shard, piece)
<1> USE BundleAssumption DEF IInv, HashPiece, SealerOnly, files
<1>1. sealer \in Sealers /\ sealer.shard \in Seq(Versions)
      /\ Len(sealer.shard) < 2 * NBlocks
  BY DEF SealTypes, SealerPlace, IdleSealers, Sealers
<1>2. Len(sealer.shard) \in Nat BY <1>1, LenProperties
<1>3. Len(sealer.shard) + 1 \in Pieces BY <1>1, <1>2 DEF Pieces
<1>4. piece \in Versions BY <1>3 DEF FileTypes
<1>5. Len(shard) = 2 * NBlocks BY ShardLength DEF FileTypes
<1>6. /\ read \in Seq(Versions) /\ Len(read) = Len(sealer.shard) + 1
      /\ DOMAIN sealer.shard = 1 .. Len(sealer.shard)
      /\ DOMAIN read = 1 .. Len(sealer.shard) + 1
      /\ \A i \in 1 .. Len(sealer.shard) : read[i] = sealer.shard[i]
      /\ read[Len(sealer.shard) + 1] = piece
  BY <1>1, <1>4, Appended
<1>7. sealer' = [sealer EXCEPT !.shard = read,
                               !.pc = IF Len(read) = Len(shard) THEN "map" ELSE @]
  OBVIOUS
<1> HIDE DEF read, piece
<1>8. /\ sealer' \in Sealers /\ sealer'.shard = read
      /\ sealer'.pc = (IF Len(read) = 2 * NBlocks THEN "map" ELSE "hash")
      /\ sealer'.quiet = sealer.quiet /\ sealer'.loaded = sealer.loaded
  BY <1>1, <1>5, <1>6, <1>7 DEF Sealers, Hashed
<1>9. SealTypes' BY <1>8 DEF SealTypes
<1>10. SealerPlace' BY <1>1, <1>2, <1>6, <1>8 DEF SealerPlace, Sound, Hashed
<1>11. SealerRests' BY <1>1, <1>2, <1>3, <1>6, <1>8 DEF SealerRests, piece
<1> QED BY <1>9, <1>10, <1>11 DEF Sealing

\* The map and the layout are hashed; the shard has been.
LEMMA HashRestStep == ASSUME IInv, HashMap \/ HashLayout PROVE Sealing'
<1> USE DEF IInv, HashMap, HashLayout, SealerOnly, files
<1>1. sealer \in Sealers
  BY DEF SealTypes, IdleSealers, Sealers
<1>2. /\ sealer' \in Sealers /\ sealer'.pc \in {"layout", "write"}
      /\ sealer'.shard = sealer.shard
      /\ sealer'.quiet = sealer.quiet /\ sealer'.loaded = sealer.loaded
  BY <1>1, ZenonT(60) DEF FileTypes, Sealers, Hashed
<1>3. SealTypes' BY <1>2 DEF SealTypes
<1>4. SealerPlace' BY <1>1, <1>2 DEF SealerPlace, Sound, Hashed
<1>5. sealer'.map \in {sealer.map, map} /\ map' = map
  BY <1>1 DEF Sealers
<1>6. SealerRests' BY <1>1, <1>2, <1>5 DEF SealerRests
<1> QED BY <1>3, <1>4, <1>6 DEF Sealing

\* The seal is written beside its place, and is sound if the files have rested.
LEMMA WriteSealStep == ASSUME IInv, WriteSeal PROVE Sealing'
<1> USE DEF IInv, SealerOnly, files
<1>1. sealer \in Sealers
  BY DEF WriteSeal, SealTypes, IdleSealers, Sealers
<1>2. CASE BeginWrite /\ sealer.pc = "write" /\ SealerOnly
           /\ sealer' = [sealer EXCEPT !.pc = "writing"]
  <2>1. /\ sealer' \in Sealers /\ sealer'.pc = "writing" /\ sealer'.shard = sealer.shard
        /\ sealer'.quiet = sealer.quiet /\ sealer'.loaded = sealer.loaded
    BY <1>1, <1>2 DEF Sealers, Hashed
  <2>2. SealTypes' BY <1>2, <2>1 DEF SealTypes, BeginWrite
  <2>3. Torn \notin Seals BY DEF Torn, Seals
  <2>4. SealerPlace' BY <1>1, <1>2, <2>1, <2>3 DEF SealerPlace, Sound, BeginWrite, Hashed
  <2>5. SealerRests' BY <1>1, <1>2, <2>1 DEF SealerRests
  <2> QED BY <2>2, <2>4, <2>5 DEF Sealing
<1>3. CASE sealer.pc = "writing" /\ tmp' = SealData /\ SealerOnly /\ UNCHANGED seal
           /\ sealer' = [sealer EXCEPT !.pc = "replace"]
  <2>1. /\ sealer' \in Sealers /\ sealer'.pc = "replace" /\ sealer'.shard = sealer.shard
        /\ sealer'.quiet = sealer.quiet /\ sealer'.loaded = sealer.loaded
    BY <1>1, <1>3 DEF Sealers, Hashed
  <2>2. sealer.shard \in [Pieces -> Versions] /\ DOMAIN sealer.shard = Pieces
    BY <1>1, <1>3, WholeShard DEF SealerPlace, Sealers, Hashed
  <2>3. SealData \in Seals
    BY <1>1, <2>2, DeclaredVersions DEF SealData, Seals, Sealers
  <2>4. SealTypes' BY <1>3, <2>1, <2>3 DEF SealTypes
  <2>5. Sound(SealData)
    BY <1>1, <1>3, <2>2 DEF Sound, SealData, SealerRests
  <2>6. SealerPlace' BY <1>1, <1>3, <2>1, <2>3, <2>5 DEF SealerPlace, Sound, Hashed
  <2>7. SealerRests' BY <1>1, <1>3, <2>1 DEF SealerRests
  <2> QED BY <2>4, <2>6, <2>7 DEF Sealing
<1> QED BY <1>2, <1>3 DEF WriteSeal

\* A whole seal takes its place, or the sealer dies and leaves that place alone.
LEMMA SealEndStep == ASSUME IInv, Replace \/ SealerDies PROVE Sealing'
<1> USE DEF IInv, SealerOnly, files
<1>1. NoSeal \notin Seals BY DEF NoSeal, Seals
<1>2. sealer' = Idle BY DEF Replace, SealerDies
<1>3. sealer' \in IdleSealers /\ sealer'.pc = "idle" BY <1>2 DEF Idle, IdleSealers
<1>4. \/ tmp \in Seals /\ seal' = tmp /\ tmp' = NoSeal
      \/ seal' = seal /\ tmp' = tmp
  BY DEF Replace, SealerDies, SealerPlace
<1>5. SealTypes' BY <1>3, <1>4 DEF SealTypes
<1>6. Sound(seal') /\ Sound(tmp')
  BY <1>1, <1>4 DEF SealerPlace, Sound
<1>7. SealerPlace' BY <1>3, <1>6 DEF SealerPlace, Sound, Hashed
<1>8. SealerRests' BY <1>3 DEF SealerRests
<1> QED BY <1>5, <1>7, <1>8 DEF Sealing

\* Every step of the sealer keeps its part of the invariant.
LEMMA SealStep == ASSUME IInv, Seal PROVE Sealing'
BY SealStartStep, VerifyPieceStep, HashPieceStep, HashRestStep, WriteSealStep,
   SealEndStep DEF Seal
-----------------------------------------------------------------------------
(* The reader                                                              *)

\* What the reader's steps leave to others.
Reading ==
    /\ ReadTypes /\ ReadPlace /\ SealAccepted /\ SealCompared /\ Untouched
    /\ VerifiedReads /\ SealedReads

\* A reader starts with nothing verified, and in mode seal with nothing accepted.
LEMMA StartStep ==
    ASSUME IInv, NEW api \in {"gate", "direct"}, NEW mode \in Modes, Start(api, mode)
    PROVE  Reading'
<1> USE BundleAssumption DEF IInv, Start, ReaderOnly, files
<1>1. 1 \in Pieces BY DEF Pieces
<1>2. /\ reader' \in Readers /\ reader'.api = api /\ reader'.mode = mode
      /\ reader'.round = 1 /\ reader'.at = 1
      /\ reader'.pc = (IF api = "gate" /\ mode = "seal" THEN "seal" ELSE "open")
  BY <1>1 DEF Readers, FileTypes
<1>3. verified = {} /\ buffer = <<>> /\ served = <<>>
  BY DEF ReadPlace
<1>4. ReadTypes' BY <1>2 DEF ReadTypes
<1>5. ReadPlace' BY <1>2, <1>3 DEF ReadPlace, Sealed
<1>6. SealAccepted' BY <1>2 DEF SealAccepted, Sealed, Sound
<1>7. SealCompared' BY <1>2 DEF SealCompared, Sealed
<1>8. Untouched' BY <1>2, <1>3 DEF Untouched
<1>9. VerifiedReads' /\ SealedReads' BY <1>3 DEF VerifiedReads, SealedReads, Served
<1> QED BY <1>4, <1>5, <1>6, <1>7, <1>8, <1>9 DEF Reading

\* A gate that refuses to start leaves nothing to hold.
LEMMA RefusedStep ==
    ASSUME IInv, Refused, UNCHANGED <<verified, buffer, served, touched>>,
           reader.pc \notin {"open", "read"}, UNCHANGED files
    PROVE  Reading'
<1> USE DEF IInv, files
<1>1. reader' \in OffReaders /\ reader'.pc = "off" /\ accepted' = NoSeal
  BY DEF Refused, NoReader, OffReaders
<1>2. NoSeal \notin Seals BY DEF NoSeal, Seals
<1>3. ReadTypes' BY <1>1 DEF ReadTypes
<1>4. ReadPlace' BY <1>1 DEF ReadPlace
<1>5. SealAccepted' BY <1>1, <1>2 DEF SealAccepted, Sealed, Sound
<1>6. SealCompared' /\ Untouched' BY <1>1 DEF SealCompared, Sealed, Untouched, FirstLoad
<1>7. VerifiedReads' /\ SealedReads' BY <1>1 DEF VerifiedReads, SealedReads, Served
<1> QED BY <1>3, <1>4, <1>5, <1>6, <1>7 DEF Reading

\* Between its start and its first read a reader has verified and served nothing.
LEMMA OpeningStep ==
    ASSUME IInv, UNCHANGED <<verified, buffer, served, touched>>, UNCHANGED files,
           reader.pc \in {"seal", "map", "shard", "layout"},
           reader' \in Readers, reader'.pc \in {"map", "shard", "layout", "open"},
           reader'.api = reader.api, reader'.mode = reader.mode, reader'.map = reader.map,
           reader'.pc = "map" => reader'.round = 1 /\ reader'.at = 1,
           accepted' \in Seals, Sound(accepted'),
           SealCompared'
    PROVE  Reading'
<1> USE DEF IInv, files
<1>1. verified = {} /\ buffer = <<>> /\ served = <<>> BY DEF ReadPlace
<1>2. ReadTypes' BY DEF ReadTypes
<1>3. ReadPlace' BY <1>1 DEF ReadPlace, Sealed
<1>4. SealAccepted' BY DEF SealAccepted, Sealed, Sound
<1>5. Untouched' BY <1>1 DEF Untouched
<1>6. VerifiedReads' /\ SealedReads' BY <1>1 DEF VerifiedReads, SealedReads, Served
<1> QED BY <1>2, <1>3, <1>4, <1>5, <1>6 DEF Reading
\* The seal that is accepted is whole and for the map the gate has loaded.
LEMMA CheckSealStep == ASSUME IInv, CheckSeal PROVE Reading'
<1> USE DEF IInv, CheckSeal, ReaderOnly
<1>1. CASE Refused
  BY <1>1, RefusedStep
<1>2. CASE seal.state = "whole" /\ seal.revision = Declared(reader.map)
           /\ accepted' = seal /\ ReaderTo("map")
  <2>1. reader \in Readers BY DEF ReadTypes, OffReaders
  <2>2. /\ reader' \in Readers /\ reader'.pc = "map" /\ reader'.api = reader.api
        /\ reader'.mode = reader.mode /\ reader'.map = reader.map
        /\ reader'.round = 1 /\ reader'.at = 1
        /\ reader'.quiet = reader.quiet /\ map' = map
    BY <1>2, <2>1 DEF ReaderTo, Readers, ReadPlace, files
  <2>3. seal \in Seals BY <1>2 DEF SealTypes, NoSeal
  <2>4. Sound(accepted') BY <1>2 DEF SealerPlace, Sound
  <2>5. SealCompared' BY <2>2 DEF SealCompared, Sealed
  <2> QED BY <1>2, <2>2, <2>3, <2>4, <2>5, OpeningStep
<1> QED BY <1>1, <1>2

\* The map is still the one that was loaded; nothing of the shard is compared yet.
LEMMA CheckMapStep == ASSUME IInv, CheckMap PROVE Reading'
<1> USE DEF IInv, CheckMap, ReaderOnly
<1>1. CASE Refused
  BY <1>1, RefusedStep
<1>2. CASE ReaderTo("shard") /\ UNCHANGED accepted
  <2>1. reader \in Readers BY DEF ReadTypes, OffReaders
  <2>2. /\ reader' = [reader EXCEPT !.pc = "shard"]
        /\ reader' \in Readers /\ reader'.pc = "shard" /\ reader'.api = reader.api
        /\ reader'.mode = reader.mode /\ reader'.map = reader.map
        /\ reader'.round = reader.round /\ reader'.at = reader.at
        /\ reader'.quiet = reader.quiet /\ map' = map
    BY <1>2, <2>1 DEF ReaderTo, Readers, files
  <2>3. accepted \in Seals /\ Sound(accepted)
    BY DEF SealAccepted, ReadPlace, Sealed
  <2>4. reader.round = 1 /\ reader.at = 1
    BY DEF ReadPlace
  <2>5. buffer' = <<>> /\ Sealed BY DEF ReadPlace
  <2>6. map = accepted.map BY <1>2 DEF Refused, NoReader, ReaderTo
  <2>7. SealCompared'
    BY <1>2, <2>2, <2>4, <2>5, <2>6 DEF SealCompared, Sealed, Pieces
  <2> QED BY <1>2, <2>2, <2>3, <2>7, OpeningStep
<1> QED BY <1>1, <1>2

\* A piece that agrees with the seal extends what is compared; one that does
\* not ends the start.
LEMMA CheckShardStep == ASSUME IInv, CheckShard PROVE Reading'
<1> USE DEF IInv, CheckShard, ReaderOnly
<1>1. CASE ~SameBytes(reader.at)
  BY <1>1, RefusedStep
<1>2. CASE SameBytes(reader.at)
  <2>1. reader \in Readers /\ reader.at \in Pieces /\ reader.round \in Nat \ {0}
    BY DEF ReadTypes, OffReaders, Readers
  <2>2. accepted \in Seals /\ Sound(accepted)
    BY DEF SealAccepted, ReadPlace, Sealed
  <2>3. Len(shard) = 2 * NBlocks BY ShardLength DEF FileTypes
  <2>4. UNCHANGED <<accepted, shard, map, buffer>> /\ buffer = <<>> /\ Sealed
    BY <1>2 DEF ReadPlace, files
  <2>5. shard[reader.at] = accepted.shard[reader.at] BY <1>2 DEF SameBytes
  <2>6. CASE reader.at < Len(shard)
    <3>1. reader' = [reader EXCEPT !.at = @ + 1] BY <1>2, <2>6
    <3>2. reader.at + 1 \in Pieces BY <2>1, <2>3, <2>6, BundleAssumption DEF Pieces
    <3>3. /\ reader' \in Readers /\ reader'.pc = "shard" /\ reader'.api = reader.api
          /\ reader'.mode = reader.mode /\ reader'.map = reader.map
          /\ reader'.round = reader.round /\ reader'.at = reader.at + 1
          /\ reader'.quiet = reader.quiet
      BY <2>1, <3>1, <3>2 DEF Readers
    <3>4. SealCompared'
      BY <2>1, <2>4, <2>5, <3>3 DEF SealCompared, Sealed, Pieces
    <3> QED BY <2>2, <2>4, <3>3, <3>4, OpeningStep
  <2>7. CASE ~(reader.at < Len(shard))
    <3>1. reader.at = 2 * NBlocks BY <2>1, <2>3, <2>7, BundleAssumption DEF Pieces
    <3>2. 1 \in Pieces BY BundleAssumption DEF Pieces
    <3>3. \/ reader' = [reader EXCEPT !.round = @ + 1, !.at = 1]
          \/ reader' = [reader EXCEPT !.pc = "layout"]
      BY <1>2, <2>7
    <3>4. /\ reader' \in Readers /\ reader'.pc \in {"shard", "layout"}
          /\ reader'.api = reader.api
          /\ reader'.mode = reader.mode /\ reader'.map = reader.map
          /\ reader'.quiet = reader.quiet
      <4>1. reader.round + 1 \in Nat \ {0} BY <2>1
      <4>2. CASE reader' = [reader EXCEPT !.round = @ + 1, !.at = 1]
        BY <2>1, <3>2, <4>1, <4>2 DEF Readers
      <4>3. CASE reader' = [reader EXCEPT !.pc = "layout"]
        BY <2>1, <4>3 DEF Readers
      <4> QED BY <3>3, <4>2, <4>3
    <3>5. Sealed /\ reader.quiet => \A p \in Pieces : shard[p] = accepted.shard[p]
      BY <2>1, <2>5, <3>1, BundleAssumption DEF SealCompared, Pieces
    <3>6. SealCompared'
      BY <2>4, <3>4, <3>5 DEF SealCompared, Sealed
    <3> QED BY <2>2, <2>4, <3>4, <3>6, OpeningStep
  <2> QED BY <2>6, <2>7
<1> QED BY <1>1, <1>2

\* The gate opens with all of the shard compared.
LEMMA CheckLayoutStep == ASSUME IInv, CheckLayout PROVE Reading'
<1> USE DEF IInv, CheckLayout, ReaderOnly
<1>1. CASE Refused
  BY <1>1, RefusedStep
<1>2. CASE ReaderTo("open") /\ UNCHANGED accepted
  <2>1. reader \in Readers BY DEF ReadTypes, OffReaders
  <2>2. /\ reader' = [reader EXCEPT !.pc = "open"]
        /\ reader' \in Readers /\ reader'.pc = "open" /\ reader'.api = reader.api
        /\ reader'.mode = reader.mode /\ reader'.map = reader.map
        /\ reader'.quiet = reader.quiet
    BY <1>2, <2>1 DEF ReaderTo, Readers
  <2>3. accepted \in Seals /\ Sound(accepted)
    BY DEF SealAccepted, ReadPlace, Sealed
  <2>4. buffer = <<>> /\ UNCHANGED <<shard, map, buffer>> BY DEF ReadPlace, files
  <2>5. SealCompared'
    BY <1>2, <2>2, <2>4 DEF SealCompared, Sealed
  <2> QED BY <1>2, <2>2, <2>3, <2>5, OpeningStep
<1> QED BY <1>1, <1>2

\* A reader that stops forgets all it has verified.
LEMMA StopStep == ASSUME IInv, Stop PROVE Reading'
<1> USE DEF IInv, Stop, ReaderOnly
<1>1. /\ reader' \in OffReaders /\ reader'.pc = "off" /\ accepted' = NoSeal
      /\ verified' = {} /\ served' = <<>> /\ touched' = {} /\ buffer' = <<>>
  BY DEF NoReader, OffReaders, ReadPlace
<1>2. NoSeal \notin Seals BY DEF NoSeal, Seals
<1>3. ReadTypes' BY <1>1, EmptySeq DEF ReadTypes
<1>4. ReadPlace' BY <1>1 DEF ReadPlace
<1>5. SealAccepted' BY <1>1, <1>2 DEF SealAccepted, Sealed, Sound
<1>6. SealCompared' /\ Untouched' BY <1>1 DEF SealCompared, Sealed, Untouched, FirstLoad
<1>7. VerifiedReads' /\ SealedReads' BY <1>1 DEF VerifiedReads, SealedReads, Served
<1> QED BY <1>3, <1>4, <1>5, <1>6, <1>7 DEF Reading
-----------------------------------------------------------------------------
(* Reading a block                                                         *)

\* A block that must be verified counts as untouched from here on; in mode
\* first_load it is one that was not verified before.
LEMMA ReadStartStep == ASSUME IInv, NEW b \in Blocks, ReadStart(b) PROVE Reading'
<1> USE DEF IInv, ReadStart, ReaderOnly, files
<1>1. reader \in Readers /\ reader.pc = "open" /\ buffer = <<>>
  BY DEF ReadTypes, OffReaders, ReadPlace
<1>2. b \in Pieces BY BundleAssumption DEF Blocks, Pieces
<1>3. /\ reader' \in Readers /\ reader'.pc = "read" /\ reader'.at = b
      /\ reader'.api = reader.api /\ reader'.mode = reader.mode
      /\ reader'.map = reader.map /\ reader'.quiet = reader.quiet
  <2>1. reader' = [reader EXCEPT !.pc = "read", !.at = b, !.round = 1] OBVIOUS
  <2> DEFINE first == [reader EXCEPT !.pc = "read"]
             second == [first EXCEPT !.at = b]
  <2>2. reader' = [second EXCEPT !.round = 1] BY <2>1
  <2> HIDE DEF IInv, ReadStart, ReaderOnly
  <2>3. /\ first \in Readers /\ first.pc = "read" /\ first.api = reader.api
        /\ first.mode = reader.mode /\ first.map = reader.map /\ first.quiet = reader.quiet
    BY <1>1 DEF Readers
  <2> HIDE DEF first
  <2>4. /\ second \in Readers /\ second.pc = "read" /\ second.api = reader.api
        /\ second.mode = reader.mode /\ second.map = reader.map
        /\ second.quiet = reader.quiet /\ second.at = b
    BY <1>2, <2>3 DEF Readers
  <2> HIDE DEF second
  <2> QED BY <2>2, <2>4 DEF Readers
<1>4. touched' \subseteq touched /\ served' = <<>> /\ buffer' = <<>>
  BY <1>1
<1>5. ReadTypes' BY <1>1, <1>3, <1>4, EmptySeq DEF ReadTypes
<1>6. ReadPlace' BY <1>1, <1>3, <1>4, EmptySeq DEF ReadPlace
<1>7. SealAccepted' BY <1>1, <1>3 DEF SealAccepted, Sealed, Sound
<1>8. SealCompared' BY <1>1, <1>3, <1>4 DEF SealCompared, Sealed
<1>9. FirstLoad' => FirstLoad /\ verified' \ touched' \subseteq verified \ touched
  <2>1. CASE MustVerify(b) /\ FirstLoad
    <3>1. b \notin verified BY <1>1, <2>1 DEF MustVerify, FirstLoad
    <3> QED BY <2>1, <3>1
  <2>2. CASE ~MustVerify(b)
    BY <1>1, <1>3, <2>2 DEF FirstLoad
  <2> QED BY <1>1, <1>3, <2>1, <2>2 DEF FirstLoad
<1>10. Untouched' BY <1>3, <1>4, <1>9 DEF Untouched
<1>11. VerifiedReads' /\ SealedReads' BY <1>3 DEF VerifiedReads, SealedReads, Served
<1> QED BY <1>5, <1>6, <1>7, <1>8, <1>10, <1>11 DEF Reading

\* The next piece in the buffer is what the shard holds now; if the files have
\* rested since the gate compared them, it is what the seal records.
LEMMA ReadPieceStep == ASSUME IInv, ReadPiece PROVE Reading'
<1> DEFINE next == Len(buffer) + 1
           piece == shard[PiecesOf(reader.at)[next]]
<1> USE DEF IInv, ReadPiece, ReaderOnly, files
<1>1. reader \in Readers /\ reader.at \in Blocks /\ buffer \in Seq(Versions)
  BY DEF ReadTypes, OffReaders, ReadPlace
<1>2. next \in 1 .. 2 BY <1>1, LenProperties
<1>3. PiecesOf(reader.at)[next] \in Pieces BY <1>1, <1>2, TheirPieces
<1>4. piece \in Versions BY <1>3 DEF FileTypes
<1>5. buffer' = Append(buffer, piece) OBVIOUS
<1>6. /\ buffer' \in Seq(Versions) /\ Len(buffer) \in Nat /\ Len(buffer') = next
      /\ DOMAIN buffer = 1 .. Len(buffer) /\ DOMAIN buffer' = 1 .. next
      /\ \A i \in 1 .. Len(buffer) : buffer'[i] = buffer[i]
      /\ buffer'[next] = piece
  BY <1>1, <1>4, <1>5, Appended
<1>7. \A i \in DOMAIN buffer' : i \in DOMAIN buffer \/ i = next
  BY <1>6
<1>8. UNCHANGED <<reader, accepted, verified, served, touched, shard, map>> /\ reader.pc = "read"
  OBVIOUS
<1>9. Sealed /\ reader.quiet /\ accepted.quiet => piece = reader.map
  BY <1>3, <1>8 DEF SealAccepted, SealCompared, Sound
<1>10. reader.at \notin touched =>
         \A i \in DOMAIN buffer : buffer[i] = shard[PiecesOf(reader.at)[i]]
  BY <1>8 DEF Untouched
<1>11. Sealed /\ reader.quiet /\ accepted.quiet =>
         \A i \in DOMAIN buffer : buffer[i] = reader.map
  BY <1>8 DEF SealCompared
<1> HIDE DEF ReadPiece
<1>12. ReadTypes' BY <1>6, <1>8 DEF ReadTypes
<1>13. ReadPlace' BY <1>2, <1>6, <1>8 DEF ReadPlace, Sealed
<1>14. SealAccepted' BY <1>8 DEF SealAccepted, Sealed, Sound
<1>15. Sealed' = Sealed BY <1>8 DEF Sealed
<1>16. Sealed /\ reader.quiet /\ accepted.quiet =>
         \A i \in DOMAIN buffer' : buffer'[i] = reader.map
  <2> HIDE DEF piece, next
  <2> QED BY <1>6, <1>7, <1>9, <1>11
<1>17. SealCompared' BY <1>8, <1>15, <1>16 DEF SealCompared
<1>18. reader.at \notin touched =>
         \A i \in DOMAIN buffer' : buffer'[i] = shard[PiecesOf(reader.at)[i]]
  <2>1. buffer'[next] = shard[PiecesOf(reader.at)[next]] BY <1>6
  <2> HIDE DEF piece, next
  <2> QED BY <1>6, <1>7, <1>10, <2>1
<1>19. Untouched' BY <1>8, <1>18 DEF Untouched, FirstLoad
<1>20. VerifiedReads' /\ SealedReads' BY <1>8 DEF VerifiedReads, SealedReads, Served
<1> QED BY <1>12, <1>13, <1>14, <1>17, <1>19, <1>20 DEF Reading

\* A full buffer is handed on if its digest matches or need not; then it is
\* what the map promises, or the block has changed since it was verified.
LEMMA ReadEndsStep == ASSUME IInv, ReadEnds PROVE Reading'
<1> USE DEF IInv, ReadEnds, ReaderOnly, files
<1>1. reader \in Readers /\ reader.at \in Blocks /\ buffer \in Seq(Versions)
      /\ reader.pc = "read" /\ served = <<>>
  BY DEF ReadTypes, OffReaders, ReadPlace
<1>2. DOMAIN buffer = 1 .. 2 BY <1>1, LenProperties
<1>3. /\ reader' = [reader EXCEPT !.pc = "open"]
      /\ reader' \in Readers /\ reader'.pc = "open" /\ reader'.at = reader.at
      /\ reader'.api = reader.api /\ reader'.mode = reader.mode
      /\ reader'.map = reader.map /\ reader'.quiet = reader.quiet
  BY <1>1 DEF ReaderTo, Readers
<1>4. UNCHANGED <<accepted, touched, shard, map>> /\ buffer' = <<>> OBVIOUS
<1>5. served' \in {<<>>, buffer} /\ verified' \in {verified, verified \cup {reader.at}}
  BY <1>1
<1>6. Sealed' = Sealed /\ FirstLoad' = FirstLoad BY <1>1, <1>3 DEF Sealed, FirstLoad
<1>7. served' # <<>> => (~MustVerify(reader.at) \/ DigestMatches) /\ served' = buffer
  BY <1>1
<1>8. verified' # verified => MustVerify(reader.at) /\ DigestMatches
                              /\ verified' = verified \cup {reader.at}
  OBVIOUS
<1> HIDE DEF ReadEnds
<1>9. ReadTypes' BY <1>1, <1>3, <1>4, <1>5, EmptySeq DEF ReadTypes
<1>10. ReadPlace' BY <1>3, <1>4 DEF ReadPlace
<1>11. SealAccepted' BY <1>1, <1>3, <1>4, <1>6 DEF SealAccepted, Sound
<1>12. SealCompared' BY <1>1, <1>3, <1>4, <1>6 DEF SealCompared
<1>13. reader.at \notin touched => \A i \in 1 .. 2 : buffer[i] = shard[PiecesOf(reader.at)[i]]
  BY <1>1, <1>2 DEF Untouched
<1>14. DigestMatches => \A i \in 1 .. 2 : buffer[i] = reader.map
  BY <1>2 DEF DigestMatches
<1>15. Untouched'
  BY <1>3, <1>4, <1>6, <1>8, <1>13, <1>14 DEF Untouched
<1>16. FirstLoad /\ ~MustVerify(reader.at) /\ reader.at \notin touched =>
         \A i \in 1 .. 2 : buffer[i] = reader.map
  <2>1. FirstLoad /\ ~MustVerify(reader.at) => reader.at \in verified
    BY <1>1 DEF FirstLoad, MustVerify
  <2> QED BY <1>13, <2>1 DEF Untouched
<1>17. reader.mode # "none" /\ (reader.mode # "seal" \/ reader.api = "direct")
         => MustVerify(reader.at) \/ FirstLoad
  <2>1. reader.mode \in {"always", "first_load", "none", "seal"}
    BY <1>1, BundleAssumption DEF Readers
  <2>2. reader.api \in {"gate", "direct"} BY <1>1 DEF Readers
  <2>3. CASE reader.mode # "none" /\ reader.api = "direct"
    BY <2>3 DEF MustVerify
  <2>4. CASE reader.mode = "always"
    BY <2>4 DEF MustVerify
  <2>5. CASE reader.mode = "first_load" /\ reader.api = "gate"
    BY <1>1, <2>5 DEF FirstLoad
  <2> QED BY <2>1, <2>2, <2>3, <2>4, <2>5
<1>18. VerifiedReads'
  BY <1>1, <1>2, <1>3, <1>4, <1>7, <1>14, <1>16, <1>17
     DEF VerifiedReads, Served, Mapped, FirstLoad
<1>19. SealedReads'
  BY <1>1, <1>2, <1>3, <1>4, <1>7 DEF SealedReads, Served, Mapped, SealCompared, Sealed
<1> QED BY <1>9, <1>10, <1>11, <1>12, <1>15, <1>18, <1>19 DEF Reading

\* Every step of the reader keeps its part of the invariant.
LEMMA ReadStep == ASSUME IInv, Open \/ Read PROVE Reading'
BY StartStep, CheckSealStep, CheckMapStep, CheckShardStep, CheckLayoutStep, StopStep,
   ReadStartStep, ReadPieceStep, ReadEndsStep DEF Open, Read
-----------------------------------------------------------------------------
(* Changes of the files, and the theorems                                  *)

\* A change of the shard, the map or the layout touches the block it falls in.
LEMMA Changes ==
    ASSUME IInv, Change
    PROVE  \E b \in SUBSET Blocks :
             /\ Changed(b) /\ FileTypes'
             /\ \A p \in Pieces : shard'[p] # shard[p] => BlockOf(p) \in b
<1> USE DEF IInv, FileTypes
<1>1. PICK v \in Versions :
        \/ \E p \in Pieces : /\ shard' = [shard EXCEPT ![p] = v]
                             /\ Changed({BlockOf(p)}) /\ UNCHANGED <<map, layout>>
        \/ map' = v /\ Changed({}) /\ UNCHANGED <<shard, layout>>
        \/ layout' = v /\ Changed({}) /\ UNCHANGED <<shard, map>>
  BY DEF Change
<1>2. CASE \E p \in Pieces : /\ shard' = [shard EXCEPT ![p] = v]
                             /\ Changed({BlockOf(p)}) /\ UNCHANGED <<map, layout>>
  <2>1. PICK p \in Pieces : /\ shard' = [shard EXCEPT ![p] = v]
                            /\ Changed({BlockOf(p)}) /\ UNCHANGED <<map, layout>>
    BY <1>2
  <2>2. {BlockOf(p)} \in SUBSET Blocks BY TheirBlock
  <2>3. \A q \in Pieces : shard'[q] # shard[q] => BlockOf(q) \in {BlockOf(p)}
    BY <2>1
  <2>4. FileTypes' BY <2>1
  <2> HIDE DEF FileTypes
  <2> QED BY <2>1, <2>2, <2>3, <2>4
<1>3. CASE UNCHANGED shard /\ Changed({}) /\ FileTypes'
  BY <1>3
<1> QED BY <1>1, <1>2, <1>3

\* The others only come to know that the files did not rest.
LEMMA ChangeStep == ASSUME IInv, Change PROVE FileTypes' /\ Sealing' /\ Reading'
<1>1. PICK b \in SUBSET Blocks :
        /\ Changed(b) /\ FileTypes'
        /\ \A p \in Pieces : shard'[p] # shard[p] => BlockOf(p) \in b
  BY Changes
<1>2. /\ sealer' = [sealer EXCEPT !.quiet = FALSE]
      /\ reader' = [reader EXCEPT !.quiet = FALSE]
      /\ UNCHANGED <<seal, tmp, accepted, verified, buffer, served>>
      /\ touched' = IF reader.pc = "off" THEN {} ELSE touched \cup b
  BY <1>1 DEF Changed
<1> USE DEF IInv
<1>3. /\ sealer' \in IdleSealers \cup Sealers /\ sealer'.pc = sealer.pc
      /\ sealer'.quiet = FALSE
  BY <1>2 DEF SealTypes, IdleSealers, Sealers
<1>4. sealer.pc # "idle" => sealer'.shard = sealer.shard
  BY <1>2 DEF SealTypes, IdleSealers, Sealers
<1>5. Sealing'
  BY <1>2, <1>3, <1>4
     DEF Sealing, SealTypes, SealerPlace, SealerRests, Sound, Hashed
<1>6. /\ reader' \in OffReaders \cup Readers /\ reader'.pc = reader.pc
      /\ reader'.quiet = FALSE
  BY <1>2 DEF ReadTypes, OffReaders, Readers
<1>7. reader.pc # "off" =>
        /\ reader'.api = reader.api /\ reader'.mode = reader.mode
        /\ reader'.map = reader.map /\ reader'.at = reader.at
        /\ reader'.round = reader.round
  BY <1>2 DEF ReadTypes, OffReaders, Readers
<1>8. Sealed' = Sealed /\ FirstLoad' = FirstLoad
  BY <1>6, <1>7 DEF Sealed, FirstLoad
<1>9. ReadTypes' BY <1>2, <1>6 DEF ReadTypes
<1>10. ReadPlace' BY <1>2, <1>6, <1>7, <1>8 DEF ReadPlace
<1>11. SealAccepted' BY <1>2, <1>6, <1>7, <1>8 DEF SealAccepted, Sound, Sealed
<1>12. SealCompared' BY <1>6 DEF SealCompared
<1>13. \A c \in Blocks, i \in 1 .. 2 :
         reader.pc # "off" /\ c \notin touched' =>
           c \notin touched /\ shard'[PiecesOf(c)[i]] = shard[PiecesOf(c)[i]]
  BY <1>1, <1>2, TheirPieces
<1>14. reader.pc = "read" => DOMAIN buffer \subseteq 1 .. 2 /\ reader.at \in Blocks
  BY LenProperties DEF ReadTypes, ReadPlace
<1>15. Untouched'
  <2>1. FirstLoad' => \A c \in verified' \ touched' :
                        \A i \in 1 .. 2 : shard'[PiecesOf(c)[i]] = reader'.map
    BY <1>2, <1>7, <1>8, <1>13 DEF Untouched, FirstLoad, ReadTypes
  <2>2. reader'.pc = "read" /\ reader'.at \notin touched' =>
          \A i \in DOMAIN buffer' : buffer'[i] = shard'[PiecesOf(reader'.at)[i]]
    BY <1>2, <1>6, <1>7, <1>13, <1>14 DEF Untouched
  <2> QED BY <2>1, <2>2 DEF Untouched
<1>16. VerifiedReads'
  BY <1>2, <1>6, <1>7 DEF VerifiedReads, Served, Mapped
<1>17. SealedReads' BY <1>6 DEF SealedReads
<1> QED BY <1>1, <1>5, <1>9, <1>10, <1>11, <1>12, <1>15, <1>16, <1>17 DEF Reading

\* The invariant holds of a converted bundle, with or without an earlier seal
\* and the remains of another.
LEMMA InitInv == Init => IInv
<1> SUFFICES ASSUME Init PROVE IInv
  OBVIOUS
<1>1. PICK v \in Versions :
        /\ shard = [p \in Pieces |-> v] /\ map = v /\ layout = v
        /\ seal \in {NoSeal, [state |-> "whole", revision |-> Declared(v), shard |-> shard,
                              map |-> v, layout |-> v, quiet |-> TRUE]}
  BY DEF Init
<1>2. FileTypes BY <1>1 DEF FileTypes
<1>3. /\ tmp \in {NoSeal, Torn} /\ sealer \in IdleSealers /\ sealer.pc = "idle"
      /\ reader \in OffReaders /\ reader.pc = "off" /\ accepted = NoSeal
      /\ verified = {} /\ buffer = <<>> /\ served = <<>> /\ touched = {}
  BY DEF Init, Idle, NoReader, IdleSealers, OffReaders
<1>4. NoSeal \notin Seals /\ Torn \notin Seals BY DEF NoSeal, Torn, Seals
<1>5. SealTypes /\ ReadTypes
  <2>1. [state |-> "whole", revision |-> Declared(v), shard |-> shard,
         map |-> v, layout |-> v, quiet |-> TRUE] \in Seals
    BY <1>1, <1>2, DeclaredVersions DEF FileTypes, Seals
  <2>2. seal \in Seals \cup {NoSeal} BY <1>1, <2>1
  <2>3. SealTypes BY <1>3, <2>2 DEF SealTypes
  <2>4. ReadTypes BY <1>3, EmptySeq DEF ReadTypes
  <2> QED BY <2>3, <2>4
<1>6. Sound(seal) /\ Sound(tmp) /\ Sound(accepted)
  BY <1>1, <1>3, <1>4 DEF Sound
<1>7. SealerPlace /\ SealerRests /\ ReadPlace
  BY <1>3, <1>6 DEF SealerPlace, SealerRests, ReadPlace, Hashed
<1>8. SealAccepted /\ SealCompared /\ Untouched
  BY <1>3, <1>6 DEF SealAccepted, SealCompared, Untouched, Sealed, FirstLoad
<1>9. VerifiedReads /\ SealedReads
  BY <1>3 DEF VerifiedReads, SealedReads, Served
<1> QED BY <1>2, <1>5, <1>7, <1>8, <1>9 DEF IInv

\* Every step keeps it: the sealer and the reader share only the files and the
\* seal, and either leaves to the other what its part speaks of.
LEMMA StepInv == IInv /\ [Next]_vars => IInv'
<1> SUFFICES ASSUME IInv, [Next]_vars PROVE IInv'
  OBVIOUS
<1>1. CASE Change
  BY <1>1, ChangeStep DEF IInv, Sealing, Reading
<1>2. CASE Seal
  <2>1. UNCHANGED <<files, reading, touched>>
    BY <1>2 DEF Seal, SealStart, VerifyPiece, HashPiece, HashMap, HashLayout, WriteSeal,
                Replace, SealerDies, SealerOnly
  <2>2. FileTypes' /\ Reading'
    BY <2>1 DEF IInv, files, reading, FileTypes, Reading, ReadTypes, ReadPlace, Sealed,
                SealAccepted, Sound, SealCompared, Untouched, FirstLoad,
                VerifiedReads, SealedReads, Served, Mapped
  <2> QED BY <1>2, <2>2, SealStep DEF IInv, Sealing, Reading
<1>3. CASE Open \/ Read
  <2>1. UNCHANGED <<files, sealing>>
    BY <1>3 DEF Open, Read, Start, CheckSeal, CheckMap, CheckShard, CheckLayout, Stop,
                ReadStart, ReadPiece, ReadEnds, ReaderOnly
  <2>2. FileTypes' /\ Sealing'
    BY <2>1 DEF IInv, files, sealing, FileTypes, Sealing, SealTypes, SealerPlace,
                SealerRests, Sound, Hashed
  <2> QED BY <1>3, <2>2, ReadStep DEF IInv, Sealing, Reading
<1>4. CASE UNCHANGED vars
  BY <1>4 DEF IInv, vars, files, sealing, reading, FileTypes, SealTypes, SealerPlace,
              SealerRests, Sound, Hashed, ReadTypes, ReadPlace, Sealed, SealAccepted,
              SealCompared, Untouched, FirstLoad, VerifiedReads, SealedReads, Served, Mapped
<1> QED BY <1>1, <1>2, <1>3, <1>4 DEF Next

\* The inductive invariant holds in every reachable state, for any number of
\* blocks, versions, changes and seals.
THEOREM BundleInvariant == Spec => []IInv
<1>1. IInv /\ [Next]_vars => IInv' BY StepInv
<1> QED BY InitInv, <1>1, PTL DEF Spec

\* A reader that verifies (FileRangeStore.read_into, MMBModel::read_expert) hands
\* on the bytes its map promises, however the file changes during or after the
\* read; in mode first_load unless the block has changed since it was verified.
THEOREM ReadsVerified == Spec => []VerifiedReads
<1>1. IInv => VerifiedReads BY DEF IInv
<1> QED BY BundleInvariant, <1>1, PTL

\* What a gate in mode seal hands on is what the map promises, if the files
\* rested while create_model_seal ran and from verify_model_seal on.
THEOREM ReadsSealed == Spec => []SealedReads
<1>1. IInv => SealedReads BY DEF IInv
<1> QED BY BundleInvariant, <1>1, PTL

\* The seal under its name is never half written, whenever a sealer dies.
THEOREM SealsWhole == Spec => []SealWhole
<1>1. IInv => SealWhole
  <2>1. Torn \notin Seals \cup {NoSeal} BY DEF Torn, NoSeal, Seals
  <2> QED BY <2>1 DEF IInv, SealTypes, SealWhole
<1> QED BY BundleInvariant, <1>1, PTL
=============================================================================
