-------------------------- MODULE ChatStreamProofs --------------------------
(***************************************************************************)
(* Safety of streaming for any number of requests and of pieces.           *)
(*                                                                         *)
(* The inductive invariant IInv says of the runtime who has the lock and   *)
(* what close has done (RuntimeAgrees), and of each request where handler  *)
(* and worker may be at once (PlacesAgree), what a handler that still      *)
(* streams finds behind the pieces of its queue (StreamAgrees) and how a   *)
(* response ended (OutcomeAgrees), besides the conservation of pieces.     *)
(***************************************************************************)
EXTENDS ChatStream, TLAPS, SequenceTheorems

Event == {"data", "error", "done"}

\* Places of a handler: no stream yet, reading the stream, past its end.
Before == {"idle", "accepted", "required"}
Reading == {"waiting", "piece", "write"}
AtEnd == {"tail", "writetail"}
Over == {"leaving", "joining", "finished"}

\* The lock has one holder, and the handle lives until close has had it.
RuntimeAgrees ==
    /\ \A c \in Calls : call_lock = c <=> worker[c] \in {"locked", "chat"}
    /\ call_lock = Closer <=> closing = "locked"
    /\ native <=> ~closed
    /\ \A c \in Calls : worker[c] = "chat" => ~closed

\* A handler past the start of its stream has a worker, and has joined it when it
\* has finished; cancel is set by a handler that leaves.
PlacesAgree(c) ==
    /\ handler[c] \in Before => worker[c] = "none"
    /\ handler[c] \in Reading \cup AtEnd \cup {"leaving", "joining"} =>
         worker[c] # "none"
    /\ handler[c] = "finished" => worker[c] \in {"none", "dead"}
    /\ worker[c] = "none" =>
         events[c] = <<>> /\ emitted[c] = 0 /\ ~cancel[c]
    /\ result[c] = "none" <=> worker[c] \in {"none", "started", "locked", "chat"}
    /\ cancel[c] => handler[c] \in {"joining", "finished"} \/ result[c] = "cancelled"

\* What a worker at w whose chat ended with r has queued after the last piece.
Ending(w, r) ==
    IF w = "dead"
    THEN IF r = "ok" THEN <<"done">> ELSE <<"error", "done">>
    ELSE IF w = "unlocked" /\ r = "cancelled" THEN <<"error">> ELSE <<>>

\* Behind the pieces the queue holds what the worker has reported of its end, as
\* long as the handler reads; a handler at the end has read an end that was well.
StreamAgrees(c) ==
    LET ending == Ending(worker[c], result[c])
    IN  /\ worker[c] \notin {"unlocked", "dead"} => Len(events[c]) = Queued(c)
        /\ handler[c] \in Reading =>
             /\ Len(events[c]) = Queued(c) + Len(ending)
             /\ \A i \in 1 .. Len(ending) : events[c][Queued(c) + i] = ending[i]
        /\ handler[c] \in AtEnd =>
             worker[c] = "dead" /\ result[c] = "ok" /\ events[c] = <<>>

\* A response ends once, and as complete only with all its pieces.
OutcomeAgrees(c) ==
    /\ outcome[c] # "none" => handler[c] \in Over
    /\ outcome[c] = "complete" =>
         worker[c] = "dead" /\ result[c] = "ok" /\ delivered[c] = emitted[c]

\* PiecesConserved, of one request.
Conserved(c) ==
    /\ Queued(c) \in 0 .. Len(events[c])
    /\ \A i \in 1 .. Len(events[c]) : events[c][i] = "data" <=> i <= Queued(c)

CallAgrees(c) ==
    PlacesAgree(c) /\ Conserved(c) /\ StreamAgrees(c) /\ OutcomeAgrees(c)

IInv == TypeOK /\ RuntimeAgrees /\ \A c \in Calls : CallAgrees(c)
-----------------------------------------------------------------------------
(* Steps                                                                   *)

\* What a request's own steps do; the others are close's.
Step(c) == Handle(c) \/ Client(c) \/ Generate(c)

\* A step is of one request, of close, or of nobody.
LEMMA Steps ==
    ASSUME [Next]_vars
    PROVE  \/ \E c \in Calls : Step(c)
           \/ CloseRuntime \/ LockToClose \/ Destroy \/ Forget
           \/ UNCHANGED vars
BY DEF Next, Step, Close, AtRest

\* A step of one request leaves the others alone.
LEMMA OthersUntouched ==
    ASSUME TypeOK, NEW c \in Calls, NEW d \in Calls, d # c, Step(c)
    PROVE  /\ handler'[d] = handler[d] /\ worker'[d] = worker[d]
           /\ events'[d] = events[d] /\ cancel'[d] = cancel[d]
           /\ emitted'[d] = emitted[d] /\ kept'[d] = kept[d]
           /\ delivered'[d] = delivered[d] /\ result'[d] = result[d]
           /\ outcome'[d] = outcome[d]
<1> USE DEF TypeOK, HandlerTo, WorkerTo, Ends, HandlerAt
<1>1. CASE Handle(c)
  BY <1>1 DEF Handle, RequireReady, StartStream, GetData, GetError, GetDone, Get,
              AskStats, Leave, Finish
<1>2. CASE Client(c)
  BY <1>2 DEF Client, Accept, Write, WriteFails
<1>3. CASE Generate(c)
  BY <1>3 DEF Generate, TakeLock, EnterChat, FindClosed, Piece, PieceCancelled,
              PieceFails, ChatEnds, ChatFails, Report, Put, Unlock
<1>4. QED
  BY <1>1, <1>2, <1>3 DEF Step

\* The parts of one request have their types.
LEMMA Typed ==
    ASSUME TypeOK, NEW c \in Calls
    PROVE  /\ events[c] \in Seq(Event) /\ Len(events[c]) \in Nat
           /\ emitted[c] \in 0 .. MaxPieces /\ kept[c] \in 0 .. MaxPieces
           /\ delivered[c] \in 0 .. MaxPieces /\ MaxPieces \in Nat
           /\ cancel[c] \in BOOLEAN
           /\ result[c] \in {"none", "ok", "failed", "cancelled"}
BY ChatAssumption, LenProperties DEF TypeOK, Event

\* What the handler reads from the queue, and what it leaves there.
LEMMA Read ==
    ASSUME IInv, NEW c \in Calls, NEW e, Get(c, e)
    PROVE  /\ handler[c] = "waiting"
           /\ events'[c] \in Seq(Event)
           /\ events[c][1] = e /\ Len(events[c]) > 0
           /\ Len(events'[c]) = Len(events[c]) - 1 /\ Len(events'[c]) \in Nat
           /\ \A i \in 1 .. Len(events'[c]) : events'[c][i] = events[c][i + 1]
<1>1. /\ events[c] \in Seq(Event) /\ events[c] # <<>> /\ Head(events[c]) = e
      /\ events'[c] = Tail(events[c]) /\ handler[c] = "waiting"
  BY DEF Get, IInv, TypeOK, Event, HandlerAt
<1>2. events[c][1] = e
  BY <1>1
<1>3. /\ Tail(events[c]) \in Seq(Event)
      /\ Len(Tail(events[c])) = Len(events[c]) - 1
      /\ \A i \in 1 .. Len(Tail(events[c])) : Tail(events[c])[i] = events[c][i + 1]
  BY <1>1, HeadTailProperties
<1>4. Len(events[c]) \in Nat \ {0}
  BY <1>1, EmptySeq
<1>5. QED
  BY <1>1, <1>2, <1>3, <1>4

\* What the first event says of the queue.
LEMMA FirstEvent ==
    ASSUME IInv, NEW c \in Calls, NEW e, Get(c, e)
    PROVE  /\ e = "data" => Queued(c) >= 1
           /\ e # "data" => Queued(c) = 0
           /\ e = "done" => /\ worker[c] = "dead" /\ result[c] = "ok"
                            /\ events'[c] = <<>>
<1>1. /\ handler[c] = "waiting" /\ events[c][1] = e /\ Len(events[c]) > 0
      /\ events'[c] \in Seq(Event) /\ Len(events'[c]) = Len(events[c]) - 1
  BY Read
<1>2. /\ TypeOK /\ Conserved(c) /\ StreamAgrees(c) /\ PlacesAgree(c)
  BY DEF IInv, CallAgrees
<1>3. Len(events[c]) \in Nat /\ Queued(c) \in Int
  BY <1>2, Typed DEF Queued
<1>4. 1 \in 1 .. Len(events[c])
  BY <1>1, <1>3
<1>5. Queued(c) >= 0 /\ (e = "data" <=> 1 <= Queued(c))
  BY <1>1, <1>2, <1>3, <1>4 DEF Conserved
<1>6. ASSUME e = "done"
      PROVE  /\ worker[c] = "dead" /\ result[c] = "ok"
             /\ events'[c] = <<>>
  <2>1. Queued(c) = 0
    BY <1>3, <1>5, <1>6
  <2>2. /\ Len(events[c]) = Len(Ending(worker[c], result[c]))
        /\ \A i \in 1 .. Len(events[c]) : events[c][i] = Ending(worker[c], result[c])[i]
    BY <1>1, <1>2, <1>3, <2>1 DEF StreamAgrees, Reading
  <2>3. Ending(worker[c], result[c])[1] = "done"
    BY <1>1, <1>4, <1>6, <2>2
  <2>4. worker[c] = "dead" /\ result[c] = "ok"
    BY <1>4, <2>2, <2>3 DEF Ending
  <2>5. Len(events'[c]) = 0
    BY <1>1, <2>2, <2>4 DEF Ending
  <2>6. QED
    BY <1>1, <2>4, <2>5, EmptySeq
<1>7. QED
  BY <1>3, <1>5, <1>6

\* Reading a piece makes one piece less of the queue, reading anything else
\* leaves no piece.
LEMMA ReadConserves ==
    ASSUME IInv, NEW c \in Calls, NEW e, Get(c, e),
           Queued(c)' = IF e = "data" THEN Queued(c) - 1 ELSE Queued(c)
    PROVE  Conserved(c)'
<1>1. /\ Len(events'[c]) = Len(events[c]) - 1 /\ Len(events'[c]) \in Nat
      /\ Len(events[c]) \in Nat /\ Queued(c) \in Int
  BY Read, Typed DEF IInv, Queued
<1>2. \A i \in 1 .. Len(events'[c]) : events'[c][i] = events[c][i + 1]
  BY Read
<1>3. /\ Queued(c) \in 0 .. Len(events[c])
      /\ \A i \in 1 .. Len(events[c]) : events[c][i] = "data" <=> i <= Queued(c)
  BY DEF IInv, CallAgrees, Conserved
<1>4. /\ e = "data" => Queued(c) >= 1
      /\ e # "data" => Queued(c) = 0
  BY FirstEvent
<1>5. Queued(c)' \in 0 .. Len(events'[c])
  BY <1>1, <1>3, <1>4
<1>6. ASSUME NEW i \in 1 .. Len(events'[c])
      PROVE  events'[c][i] = "data" <=> i <= Queued(c)'
  <2>1. i + 1 \in 1 .. Len(events[c]) /\ i \in Int /\ i >= 1
    BY <1>1
  <2>2. events'[c][i] = "data" <=> i + 1 <= Queued(c)
    BY <1>2, <1>3, <2>1
  <2>3. QED
    BY <1>1, <1>4, <2>1, <2>2
<1>7. QED
  BY <1>5, <1>6 DEF Conserved
-----------------------------------------------------------------------------
(* The invariant of a request, by the steps of its handler                 *)

\* The handler of a request keeps its agreement with worker and queue.
LEMMA HandlerKeeps ==
    ASSUME IInv, NEW c \in Calls, Handle(c) \/ Client(c)
    PROVE  CallAgrees(c)'
<1> USE DEF Before, Reading, AtEnd, Over
<1>1. /\ TypeOK /\ PlacesAgree(c) /\ Conserved(c) /\ StreamAgrees(c)
      /\ OutcomeAgrees(c)
  BY DEF IInv, CallAgrees
<1>2. /\ events[c] \in Seq(Event) /\ Len(events[c]) \in Nat
      /\ emitted[c] \in 0 .. MaxPieces /\ kept[c] \in 0 .. MaxPieces
      /\ delivered[c] \in 0 .. MaxPieces /\ MaxPieces \in Nat
      /\ result[c] \in {"none", "ok", "failed", "cancelled"}
      /\ Queued(c) \in Int
  BY <1>1, Typed DEF Queued
<1>3. CASE Accept(c) \/ RequireReady(c) \/ StartStream(c)
  <2>1. /\ handler[c] \in Before /\ outcome[c] = "none"
        /\ \/ handler'[c] \in Before /\ worker'[c] = worker[c] /\ outcome'[c] = outcome[c]
           \/ handler'[c] = "waiting" /\ worker'[c] = "started" /\ outcome'[c] = outcome[c]
           \/ /\ handler'[c] = "finished" /\ worker'[c] = worker[c]
              /\ outcome'[c] \in {"error", "crash"}
        /\ events'[c] = events[c] /\ kept'[c] = kept[c] /\ delivered'[c] = delivered[c]
        /\ cancel'[c] = cancel[c] /\ emitted'[c] = emitted[c]
        /\ result'[c] = result[c]
    BY <1>1, <1>3 DEF Accept, RequireReady, StartStream, TypeOK, HandlerAt, HandlerTo, WorkerTo, Ends, runtimeVars, OutcomeAgrees
  <2>2. Queued(c)' = Queued(c)
    BY <1>2, <2>1 DEF Queued
  <2>3. Len(events[c]) = 0 /\ Queued(c) = 0
    BY <1>1, <1>2, <2>1, <2>2 DEF PlacesAgree, Conserved
  <2>4. PlacesAgree(c)'
    BY <1>1, <1>2, <2>1, <2>2, <2>3 DEF PlacesAgree
  <2>5. Conserved(c)'
    BY <1>1, <1>2, <2>1, <2>2, <2>3 DEF Conserved, PlacesAgree
  <2>6. StreamAgrees(c)'
    BY <1>1, <1>2, <2>1, <2>2, <2>3 DEF StreamAgrees, Ending, PlacesAgree
  <2>7. OutcomeAgrees(c)'
    BY <1>1, <1>2, <2>1, <2>2, <2>3 DEF OutcomeAgrees
  <2>8. QED
    BY <2>4, <2>5, <2>6, <2>7 DEF CallAgrees
<1>4. CASE GetData(c)
  <2>1. /\ handler[c] = "waiting"
        /\ handler'[c] \in {"waiting", "piece"} /\ kept'[c] = kept[c] + 1
        /\ outcome'[c] = outcome[c]
        /\ worker'[c] = worker[c] /\ delivered'[c] = delivered[c]
        /\ cancel'[c] = cancel[c] /\ emitted'[c] = emitted[c]
        /\ result'[c] = result[c]
    BY <1>1, <1>4 DEF GetData, Get, TypeOK, HandlerAt, HandlerTo, WorkerTo, Ends, runtimeVars
  <2>2. /\ events'[c] \in Seq(Event)
        /\ Len(events'[c]) = Len(events[c]) - 1 /\ Len(events'[c]) \in Nat
    BY <1>4, Read DEF GetData
  <2>3. Queued(c)' = Queued(c) - 1
    BY <1>2, <2>1, <2>2 DEF Queued
  <2>4. Queued(c) >= 1
    BY <1>4, FirstEvent DEF GetData
  <2>5. PlacesAgree(c)'
    BY <1>1, <1>2, <2>1, <2>2, <2>3, <2>4 DEF PlacesAgree
  <2>6. Conserved(c)'
    BY <1>4, <2>3, ReadConserves DEF GetData
  <2>7. StreamAgrees(c)'
    <3> DEFINE ending == Ending(worker[c], result[c])
    <3>1. Len(ending) \in Nat
      BY DEF Ending
    <3>2. worker[c] \notin {"unlocked", "dead"} => Len(events[c]) = Queued(c)
      BY <1>1 DEF StreamAgrees
    <3>3. Len(events[c]) = Queued(c) + Len(ending)
      BY <1>1, <2>1 DEF StreamAgrees
    <3>4. \A i \in 1 .. Len(ending) : events[c][Queued(c) + i] = ending[i]
      BY <1>1, <2>1 DEF StreamAgrees
    <3> HIDE DEF ending
    <3>5. ASSUME NEW i \in 1 .. Len(ending)
          PROVE  events'[c][Queued(c)' + i] = ending[i]
      <4> DEFINE k == Queued(c) + i - 1
      <4>1. i \in Int /\ i >= 1 /\ i <= Len(ending)
        BY <3>1
      <4>2. k \in 1 .. Len(events'[c])
        BY <1>2, <2>2, <2>4, <3>1, <3>3, <4>1
      <4>3. k = Queued(c)' + i
        BY <1>2, <2>3, <4>1
      <4>4. k + 1 = Queued(c) + i
        BY <1>2, <4>1
      <4> HIDE DEF k
      <4>5. events'[c][k] = events[c][k + 1]
        BY <1>4, <4>2, Read DEF GetData
      <4>6. QED
        BY <3>4, <4>3, <4>4, <4>5
    <3>6. /\ worker'[c] \notin {"unlocked", "dead"} => Len(events'[c]) = Queued(c)'
          /\ Len(events'[c]) = Queued(c)' + Len(ending)
      BY <1>2, <2>1, <2>2, <2>3, <3>1, <3>2, <3>3
    <3>7. Ending(worker'[c], result'[c]) = ending
      BY <2>1 DEF ending
    <3>8. QED
      BY <2>1, <3>5, <3>6, <3>7 DEF StreamAgrees
  <2>8. OutcomeAgrees(c)'
    BY <1>1, <1>2, <2>1, <2>2, <2>3, <2>4 DEF OutcomeAgrees
  <2>9. QED
    BY <2>5, <2>6, <2>7, <2>8 DEF CallAgrees
<1>5. CASE GetError(c)
  <2>1. /\ handler[c] = "waiting"
        /\ handler'[c] = "leaving" /\ kept'[c] = kept[c]
        /\ outcome'[c] = "error"
        /\ worker'[c] = worker[c] /\ delivered'[c] = delivered[c]
        /\ cancel'[c] = cancel[c] /\ emitted'[c] = emitted[c]
        /\ result'[c] = result[c]
    BY <1>1, <1>5 DEF GetError, Get, TypeOK, HandlerAt, HandlerTo, WorkerTo, Ends, runtimeVars
  <2>2. /\ events'[c] \in Seq(Event) /\ Len(events[c]) > 0
        /\ Len(events'[c]) = Len(events[c]) - 1
    BY <1>5, Read DEF GetError
  <2>3. Queued(c)' = Queued(c)
    BY <1>2, <2>1, <2>2 DEF Queued
  <2>4. Queued(c) = 0
    BY <1>5, FirstEvent DEF GetError
  <2>5. PlacesAgree(c)'
    BY <1>1, <1>2, <2>1, <2>2, <2>3, <2>4 DEF PlacesAgree
  <2>6. Conserved(c)'
    BY <1>5, <2>3, ReadConserves DEF GetError
  <2>7. StreamAgrees(c)'
    BY <1>1, <1>2, <2>1, <2>2, <2>3, <2>4 DEF StreamAgrees
  <2>8. OutcomeAgrees(c)'
    BY <1>1, <1>2, <2>1, <2>2, <2>3, <2>4 DEF OutcomeAgrees
  <2>9. QED
    BY <2>5, <2>6, <2>7, <2>8 DEF CallAgrees
<1>6. CASE GetDone(c)
  <2>1. /\ handler[c] = "waiting" /\ kept'[c] = kept[c]
        /\ \/ kept[c] > 0 /\ handler'[c] = "tail" /\ outcome'[c] = outcome[c]
           \/ kept[c] = 0 /\ handler'[c] = "leaving" /\ outcome'[c] = "complete"
        /\ worker'[c] = worker[c] /\ delivered'[c] = delivered[c]
        /\ cancel'[c] = cancel[c] /\ emitted'[c] = emitted[c]
        /\ result'[c] = result[c]
    BY <1>1, <1>6 DEF GetDone, Get, TypeOK, HandlerAt, HandlerTo, WorkerTo, Ends, runtimeVars
  <2>2. /\ events'[c] \in Seq(Event) /\ Len(events[c]) > 0
        /\ Len(events'[c]) = Len(events[c]) - 1
    BY <1>6, Read DEF GetDone
  <2>3. Queued(c)' = Queued(c)
    BY <1>2, <2>1, <2>2 DEF Queued
  <2>4. /\ Queued(c) = 0 /\ worker[c] = "dead" /\ result[c] = "ok"
        /\ events'[c] = <<>>
    BY <1>6, FirstEvent DEF GetDone
  <2>5. PlacesAgree(c)'
    BY <1>1, <1>2, <2>1, <2>2, <2>3, <2>4 DEF PlacesAgree
  <2>6. Conserved(c)'
    BY <1>6, <2>3, ReadConserves DEF GetDone
  <2>7. StreamAgrees(c)'
    BY <1>1, <1>2, <2>1, <2>2, <2>3, <2>4 DEF StreamAgrees
  <2>8. OutcomeAgrees(c)'
    BY <1>1, <1>2, <2>1, <2>2, <2>3, <2>4 DEF OutcomeAgrees, StreamAgrees, PlacesAgree, Conserved, Queued
  <2>9. QED
    BY <2>5, <2>6, <2>7, <2>8 DEF CallAgrees
<1>7. CASE AskStats(c)
  <2>1. /\ handler[c] \in {"piece", "tail"}
        /\ \/ /\ handler'[c] = IF handler[c] = "piece" THEN "write" ELSE "writetail"
              /\ outcome'[c] = outcome[c]
           \/ handler'[c] = "leaving" /\ outcome'[c] = "crash"
        /\ events'[c] = events[c] /\ kept'[c] = kept[c] /\ delivered'[c] = delivered[c]
        /\ worker'[c] = worker[c]
        /\ cancel'[c] = cancel[c] /\ emitted'[c] = emitted[c]
        /\ result'[c] = result[c]
    BY <1>1, <1>7 DEF AskStats, TypeOK, HandlerAt, HandlerTo, WorkerTo, Ends, runtimeVars
  <2>2. Queued(c)' = Queued(c)
    BY <1>2, <2>1 DEF Queued
  <2>3. PlacesAgree(c)'
    BY <1>1, <1>2, <2>1, <2>2 DEF PlacesAgree
  <2>4. Conserved(c)'
    BY <1>1, <1>2, <2>1, <2>2 DEF Conserved
  <2>5. StreamAgrees(c)'
    BY <1>1, <1>2, <2>1, <2>2 DEF StreamAgrees
  <2>6. OutcomeAgrees(c)'
    BY <1>1, <1>2, <2>1, <2>2 DEF OutcomeAgrees
  <2>7. QED
    BY <2>3, <2>4, <2>5, <2>6 DEF CallAgrees
<1>8. CASE Leave(c) \/ Finish(c)
  <2>1. /\ \/ handler[c] = "leaving" /\ handler'[c] = "joining" /\ cancel'[c]
           \/ /\ handler[c] = "joining" /\ worker[c] = "dead" /\ handler'[c] = "finished"
              /\ cancel'[c] = cancel[c]
        /\ outcome'[c] = outcome[c]
        /\ events'[c] = events[c] /\ kept'[c] = kept[c] /\ delivered'[c] = delivered[c]
        /\ worker'[c] = worker[c]
        /\ emitted'[c] = emitted[c] /\ result'[c] = result[c]
    BY <1>1, <1>8 DEF Leave, Finish, TypeOK, HandlerAt, HandlerTo, WorkerTo, Ends, runtimeVars, Join
  <2>2. Queued(c)' = Queued(c)
    BY <1>2, <2>1 DEF Queued
  <2>3. PlacesAgree(c)'
    BY <1>1, <1>2, <2>1, <2>2 DEF PlacesAgree
  <2>4. Conserved(c)'
    BY <1>1, <1>2, <2>1, <2>2 DEF Conserved
  <2>5. StreamAgrees(c)'
    BY <1>1, <1>2, <2>1, <2>2 DEF StreamAgrees
  <2>6. OutcomeAgrees(c)'
    BY <1>1, <1>2, <2>1, <2>2 DEF OutcomeAgrees
  <2>7. QED
    BY <2>3, <2>4, <2>5, <2>6 DEF CallAgrees
<1>9. CASE Write(c)
  <2>1. /\ handler[c] \in {"write", "writetail"}
        /\ delivered'[c] = delivered[c] + kept[c] /\ kept'[c] = 0
        /\ \/ handler[c] = "write" /\ handler'[c] = "waiting" /\ outcome'[c] = outcome[c]
           \/ /\ handler[c] = "writetail" /\ handler'[c] = "leaving"
              /\ outcome'[c] = "complete"
        /\ events'[c] = events[c] /\ worker'[c] = worker[c]
        /\ cancel'[c] = cancel[c] /\ emitted'[c] = emitted[c]
        /\ result'[c] = result[c]
    BY <1>1, <1>9 DEF Write, TypeOK, HandlerAt, HandlerTo, WorkerTo, Ends, runtimeVars
  <2>2. Queued(c)' = Queued(c)
    BY <1>2, <2>1 DEF Queued
  <2>3. PlacesAgree(c)'
    BY <1>1, <1>2, <2>1, <2>2 DEF PlacesAgree
  <2>4. Conserved(c)'
    BY <1>1, <1>2, <2>1, <2>2 DEF Conserved
  <2>5. StreamAgrees(c)'
    BY <1>1, <1>2, <2>1, <2>2 DEF StreamAgrees
  <2>6. OutcomeAgrees(c)'
    <3>1. handler[c] = "writetail" =>
            worker[c] = "dead" /\ result[c] = "ok" /\ Len(events[c]) = 0
      BY <1>1, EmptySeq DEF StreamAgrees
    <3>2. Len(events[c]) = 0 => emitted[c] = delivered[c] + kept[c]
      BY <1>1, <1>2 DEF Conserved, Queued
    <3>3. QED
      BY <1>1, <2>1, <3>1, <3>2 DEF OutcomeAgrees
  <2>7. QED
    BY <2>3, <2>4, <2>5, <2>6 DEF CallAgrees
<1>10. CASE WriteFails(c)
  <2>1. /\ handler[c] \in {"write", "writetail"}
        /\ handler'[c] = "leaving" /\ outcome'[c] = "gone"
        /\ events'[c] = events[c] /\ kept'[c] = kept[c] /\ delivered'[c] = delivered[c]
        /\ worker'[c] = worker[c]
        /\ cancel'[c] = cancel[c] /\ emitted'[c] = emitted[c]
        /\ result'[c] = result[c]
    BY <1>1, <1>10 DEF WriteFails, TypeOK, HandlerAt, HandlerTo, WorkerTo, Ends, runtimeVars
  <2>2. Queued(c)' = Queued(c)
    BY <1>2, <2>1 DEF Queued
  <2>3. PlacesAgree(c)'
    BY <1>1, <1>2, <2>1, <2>2 DEF PlacesAgree
  <2>4. Conserved(c)'
    BY <1>1, <1>2, <2>1, <2>2 DEF Conserved
  <2>5. StreamAgrees(c)'
    BY <1>1, <1>2, <2>1, <2>2 DEF StreamAgrees
  <2>6. OutcomeAgrees(c)'
    BY <1>1, <1>2, <2>1, <2>2 DEF OutcomeAgrees
  <2>7. QED
    BY <2>3, <2>4, <2>5, <2>6 DEF CallAgrees
<1>11. QED
  BY <1>3, <1>4, <1>5, <1>6, <1>7, <1>8, <1>9, <1>10 DEF Handle, Client
-----------------------------------------------------------------------------
(* The invariant of a request, by the steps of its worker                  *)

\* What queueing events does to the queue.
LEMMA Queueing ==
    ASSUME TypeOK, NEW c \in Calls, NEW es \in Seq(Event), Put(c, es)
    PROVE  /\ events'[c] \in Seq(Event)
           /\ Len(events'[c]) = Len(events[c]) + Len(es)
           /\ \A i \in 1 .. Len(events[c]) : events'[c][i] = events[c][i]
           /\ \A i \in 1 .. Len(es) : events'[c][Len(events[c]) + i] = es[i]
<1>1. /\ events[c] \in Seq(Event) /\ events'[c] = events[c] \o es
      /\ Len(events[c]) \in Nat /\ Len(es) \in Nat
  BY LenProperties DEF Put, TypeOK, Event
<1>2. /\ events[c] \o es \in Seq(Event)
      /\ Len(events[c] \o es) = Len(events[c]) + Len(es)
      /\ \A i \in 1 .. Len(events[c]) + Len(es) :
           (events[c] \o es)[i] = IF i <= Len(events[c]) THEN events[c][i]
                                  ELSE es[i - Len(events[c])]
  BY <1>1, ConcatProperties
<1>3. ASSUME NEW i \in 1 .. Len(events[c])
      PROVE  events'[c][i] = events[c][i]
  BY <1>1, <1>2
<1>4. ASSUME NEW i \in 1 .. Len(es)
      PROVE  events'[c][Len(events[c]) + i] = es[i]
  <2> DEFINE k == Len(events[c]) + i
  <2>1. k \in 1 .. Len(events[c]) + Len(es) /\ ~(k <= Len(events[c]))
    BY <1>1
  <2>2. k - Len(events[c]) = i
    BY <1>1
  <2> HIDE DEF k
  <2>3. events'[c][k] = es[i]
    BY <1>1, <1>2, <2>1, <2>2
  <2>4. QED
    BY <2>3 DEF k
<1>5. QED
  BY <1>1, <1>2, <1>3, <1>4

\* Queueing events that are no pieces keeps pieces conserved.
LEMMA QueueingEnds ==
    ASSUME IInv, NEW c \in Calls, NEW es \in Seq(Event), Put(c, es),
           \A i \in 1 .. Len(es) : es[i] # "data", Queued(c)' = Queued(c)
    PROVE  Conserved(c)'
<1>1. /\ Len(events[c]) \in Nat /\ Queued(c) \in Int /\ Len(es) \in Nat
      /\ Len(events'[c]) = Len(events[c]) + Len(es)
      /\ TypeOK /\ Conserved(c)
  BY Queueing, Typed, LenProperties DEF IInv, Queued, CallAgrees
<1>2. Queued(c)' \in 0 .. Len(events'[c])
  BY <1>1 DEF Conserved
<1>3. ASSUME NEW i \in 1 .. Len(events'[c])
      PROVE  events'[c][i] = "data" <=> i <= Queued(c)'
  <2>1. CASE i <= Len(events[c])
    <3>1. i \in 1 .. Len(events[c])
      BY <1>1, <2>1
    <3>2. events'[c][i] = events[c][i]
      BY <1>1, <3>1, Queueing
    <3>3. QED
      BY <1>1, <3>1, <3>2 DEF Conserved
  <2>2. CASE ~(i <= Len(events[c]))
    <3> DEFINE k == i - Len(events[c])
    <3>1. k \in 1 .. Len(es) /\ Len(events[c]) + k = i
      BY <1>1, <2>2
    <3> HIDE DEF k
    <3>2. events'[c][Len(events[c]) + k] = es[k]
      BY <1>1, <3>1, Queueing
    <3>3. events'[c][i] # "data"
      BY <3>1, <3>2
    <3>4. i > Queued(c)
      BY <1>1, <2>2 DEF Conserved
    <3>5. QED
      BY <1>1, <3>3, <3>4
  <2>3. QED
    BY <2>1, <2>2
<1>4. QED
  BY <1>2, <1>3 DEF Conserved

\* new is old followed by es.
Extends(old, es, new) ==
    /\ Len(old) \in Nat /\ Len(new) = Len(old) + Len(es)
    /\ \A i \in 1 .. Len(old) : new[i] = old[i]
    /\ \A i \in 1 .. Len(es) : new[Len(old) + i] = es[i]

\* Queueing events extends what follows the pieces of a stream being read.
LEMMA QueueingEnding ==
    ASSUME IInv, NEW c \in Calls, NEW es \in Seq(Event), Put(c, es),
           Queued(c)' = Queued(c), handler[c] \in Reading,
           Extends(Ending(worker[c], result[c]), es,
                   Ending(worker'[c], result'[c]))
    PROVE  /\ Len(events'[c]) = Queued(c)' + Len(Ending(worker'[c], result'[c]))
           /\ \A i \in 1 .. Len(Ending(worker'[c], result'[c])) :
                events'[c][Queued(c)' + i] = Ending(worker'[c], result'[c])[i]
<1> DEFINE old == Ending(worker[c], result[c])
           new == Ending(worker'[c], result'[c])
<1>1. /\ Len(old) \in Nat /\ Len(new) = Len(old) + Len(es)
      /\ \A i \in 1 .. Len(old) : new[i] = old[i]
      /\ \A i \in 1 .. Len(es) : new[Len(old) + i] = es[i]
  BY DEF Extends
<1>2. /\ Len(events[c]) \in Nat /\ Queued(c) \in Int /\ Len(es) \in Nat
      /\ Len(events'[c]) = Len(events[c]) + Len(es)
      /\ TypeOK /\ Queued(c) \in 0 .. Len(events[c])
  BY Queueing, Typed, LenProperties DEF IInv, Queued, CallAgrees, Conserved
<1>3. /\ Len(events[c]) = Queued(c) + Len(old)
      /\ \A i \in 1 .. Len(old) : events[c][Queued(c) + i] = old[i]
  BY DEF IInv, CallAgrees, StreamAgrees
<1> HIDE DEF old, new
<1>4. ASSUME NEW i \in 1 .. Len(new)
      PROVE  events'[c][Queued(c) + i] = new[i]
  <2>1. CASE i <= Len(old)
    <3>1. i \in 1 .. Len(old) /\ Queued(c) + i \in 1 .. Len(events[c])
      BY <1>1, <1>2, <1>3, <2>1
    <3>2. events'[c][Queued(c) + i] = events[c][Queued(c) + i]
      BY <1>2, <3>1, Queueing
    <3>3. events[c][Queued(c) + i] = old[i]
      BY <1>3, <3>1
    <3>4. QED
      BY <1>1, <3>1, <3>2, <3>3
  <2>2. CASE ~(i <= Len(old))
    <3> DEFINE k == i - Len(old)
    <3>1. k \in 1 .. Len(es) /\ Len(old) + k = i
      BY <1>1, <1>2, <2>2
    <3>2. Queued(c) + i = Len(events[c]) + k
      BY <1>1, <1>2, <1>3
    <3> HIDE DEF k
    <3>3. events'[c][Len(events[c]) + k] = es[k]
      BY <1>2, <3>1, Queueing
    <3>4. new[Len(old) + k] = es[k]
      BY <1>1, <3>1
    <3>5. QED
      BY <3>1, <3>2, <3>3, <3>4
  <2>3. QED
    BY <2>1, <2>2
<1>5. QED
  BY <1>1, <1>2, <1>3, <1>4 DEF new, old

\* Six of the worker's steps queue nothing; a piece, a failure of the callback
\* and the last report queue events.
LEMMA WorkerKeeps ==
    ASSUME IInv, NEW c \in Calls, Generate(c)
    PROVE  CallAgrees(c)'
<1> USE DEF Before, Reading, AtEnd, Over
<1>1. /\ TypeOK /\ PlacesAgree(c) /\ Conserved(c) /\ StreamAgrees(c)
      /\ OutcomeAgrees(c)
  BY DEF IInv, CallAgrees
<1>2. /\ events[c] \in Seq(Event) /\ Len(events[c]) \in Nat
      /\ emitted[c] \in 0 .. MaxPieces /\ kept[c] \in 0 .. MaxPieces
      /\ delivered[c] \in 0 .. MaxPieces /\ MaxPieces \in Nat
      /\ cancel[c] \in BOOLEAN
      /\ result[c] \in {"none", "ok", "failed", "cancelled"}
      /\ Queued(c) \in Int
  BY <1>1, Typed DEF Queued
<1>3. /\ handler'[c] = handler[c] /\ kept'[c] = kept[c]
      /\ delivered'[c] = delivered[c] /\ outcome'[c] = outcome[c]
  BY DEF Generate, TakeLock, EnterChat, FindClosed, Piece, PieceCancelled,
         PieceFails, ChatEnds, ChatFails, Report, Unlock
<1>4. CASE \/ TakeLock(c) \/ EnterChat(c) \/ FindClosed(c)
           \/ PieceCancelled(c) \/ ChatEnds(c) \/ ChatFails(c)
  <2>1. /\ events'[c] = events[c] /\ cancel'[c] = cancel[c]
        /\ emitted'[c] = emitted[c]
        /\ worker[c] \in {"started", "locked", "chat"}
        /\ \/ worker'[c] \in {"locked", "chat"} /\ result'[c] = result[c]
           \/ /\ worker'[c] = "unlocked" /\ result'[c] \in {"ok", "failed"}
           \/ /\ worker'[c] = "unlocked" /\ result'[c] = "cancelled" /\ cancel[c]
    BY <1>1, <1>4 DEF TakeLock, EnterChat, FindClosed, PieceCancelled, ChatEnds,
       ChatFails, Unlock, WorkerTo, TypeOK, runtimeVars
  <2>2. result[c] = "none" /\ (cancel[c] => handler[c] \in {"joining", "finished"})
    BY <1>1, <2>1 DEF PlacesAgree
  <2>3. Queued(c)' = Queued(c)
    BY <1>2, <1>3, <2>1 DEF Queued
  <2>4. PlacesAgree(c)'
    BY <1>1, <1>3, <2>1, <2>2 DEF PlacesAgree
  <2>5. Conserved(c)'
    BY <1>1, <2>1, <2>3 DEF Conserved
  <2>6. StreamAgrees(c)'
    <3>1. Len(events[c]) = Queued(c) /\ handler[c] \notin AtEnd
      BY <1>1, <2>1 DEF StreamAgrees
    <3>2. handler[c] \in Reading => Len(Ending(worker'[c], result'[c])) = 0
      BY <2>1, <2>2 DEF Ending
    <3>3. QED
      BY <1>2, <1>3, <2>1, <2>3, <3>1, <3>2 DEF StreamAgrees
  <2>7. OutcomeAgrees(c)'
    BY <1>1, <1>3, <2>1 DEF OutcomeAgrees
  <2>8. QED
    BY <2>4, <2>5, <2>6, <2>7 DEF CallAgrees
<1>5. CASE Piece(c)
  <2>1. /\ worker[c] = "chat" /\ worker'[c] = worker[c]
        /\ cancel'[c] = cancel[c] /\ result'[c] = result[c]
        /\ emitted'[c] = emitted[c] + 1 /\ Put(c, <<"data">>)
    BY <1>1, <1>5 DEF Piece, TypeOK, runtimeVars
  <2>2. Queued(c)' = Queued(c) + 1
    BY <1>2, <1>3, <2>1 DEF Queued
  <2>3. Queued(c) = Len(events[c]) /\ handler[c] \notin AtEnd
    BY <1>1, <2>1 DEF StreamAgrees
  <2>4. /\ Len(events'[c]) = Len(events[c]) + 1
        /\ \A i \in 1 .. Len(events[c]) : events'[c][i] = events[c][i]
        /\ events'[c][Len(events[c]) + 1] = "data"
    <3>1. <<"data">> \in Seq(Event) /\ Len(<<"data">>) = 1 /\ <<"data">>[1] = "data"
      BY DEF Event
    <3> DEFINE es == <<"data">>
    <3>2. es \in Seq(Event) /\ Len(es) = 1 /\ es[1] = "data" /\ Put(c, es)
      BY <2>1, <3>1
    <3> HIDE DEF es
    <3>3. /\ Len(events'[c]) = Len(events[c]) + Len(es)
          /\ \A i \in 1 .. Len(events[c]) : events'[c][i] = events[c][i]
          /\ \A i \in 1 .. Len(es) : events'[c][Len(events[c]) + i] = es[i]
      BY <1>1, <3>2, Queueing
    <3>4. 1 \in 1 .. Len(es)
      BY <3>2
    <3>5. QED
      BY <3>2, <3>3, <3>4
  <2>5. PlacesAgree(c)'
    BY <1>1, <1>3, <2>1 DEF PlacesAgree
  <2>6. Conserved(c)'
    <3>1. ASSUME NEW i \in 1 .. Len(events'[c])
          PROVE  events'[c][i] = "data"
      <4>1. i \in 1 .. Len(events[c]) \/ i = Len(events[c]) + 1
        BY <1>2, <2>4
      <4>2. QED
        BY <1>1, <1>2, <2>3, <2>4, <4>1 DEF Conserved
    <3>2. QED
      BY <1>2, <2>2, <2>3, <2>4, <3>1 DEF Conserved
  <2>7. StreamAgrees(c)'
    <3>1. Len(Ending(worker'[c], result'[c])) = 0
      BY <2>1 DEF Ending
    <3>2. Len(events'[c]) = Queued(c)'
      BY <2>2, <2>3, <2>4
    <3>3. QED
      BY <1>2, <1>3, <2>2, <2>3, <3>1, <3>2 DEF StreamAgrees
  <2>8. OutcomeAgrees(c)'
    BY <1>1, <1>3, <2>1 DEF OutcomeAgrees
  <2>9. QED
    BY <2>5, <2>6, <2>7, <2>8 DEF CallAgrees
<1>6. CASE PieceFails(c)
  <2>1. /\ worker[c] = "chat" /\ worker'[c] = "unlocked" /\ cancel'[c]
        /\ result'[c] = "cancelled" /\ emitted'[c] = emitted[c]
        /\ Put(c, <<"error">>)
    BY <1>1, <1>6 DEF PieceFails, Unlock, WorkerTo, TypeOK
  <2>2. Queued(c)' = Queued(c)
    BY <1>2, <1>3, <2>1 DEF Queued
  <2>3. Queued(c) = Len(events[c]) /\ handler[c] \notin AtEnd
    BY <1>1, <2>1 DEF StreamAgrees
  <2> DEFINE es == <<"error">>
  <2>4. /\ es \in Seq(Event) /\ Len(es) = 1 /\ es[1] = "error" /\ Put(c, es)
        /\ Ending(worker'[c], result'[c]) = es
    BY <2>1 DEF Event, Ending
  <2> HIDE DEF es
  <2>5. PlacesAgree(c)'
    BY <1>1, <1>3, <2>1 DEF PlacesAgree
  <2>6. Conserved(c)'
    BY <2>2, <2>4, QueueingEnds
  <2>7. StreamAgrees(c)'
    <3>1. /\ Len(events'[c]) = Queued(c)' + 1
          /\ events'[c][Queued(c)' + 1] = es[1]
      BY <1>1, <2>2, <2>3, <2>4, Queueing
    <3>2. \A i \in 1 .. Len(es) : events'[c][Queued(c)' + i] = es[i]
      BY <2>4, <3>1
    <3>3. QED
      BY <1>3, <2>1, <2>3, <2>4, <3>1, <3>2 DEF StreamAgrees
  <2>8. OutcomeAgrees(c)'
    BY <1>1, <1>3, <2>1 DEF OutcomeAgrees
  <2>9. QED
    BY <2>5, <2>6, <2>7, <2>8 DEF CallAgrees
<1>7. CASE Report(c)
  <2>1. /\ worker[c] = "unlocked" /\ worker'[c] = "dead"
        /\ cancel'[c] = cancel[c] /\ result'[c] = result[c]
        /\ emitted'[c] = emitted[c] /\ Put(c, LastEvents(c))
    BY <1>1, <1>7 DEF Report, WorkerTo, TypeOK, runtimeVars
  <2>2. Queued(c)' = Queued(c)
    BY <1>2, <1>3, <2>1 DEF Queued
  <2>3. result[c] \in {"ok", "failed", "cancelled"} /\ handler[c] \notin AtEnd
    BY <1>1, <1>2, <2>1 DEF StreamAgrees, PlacesAgree
  <2> DEFINE es == LastEvents(c)
             old == Ending(worker[c], result[c])
             new == Ending(worker'[c], result'[c])
  <2>4. /\ es \in Seq(Event) /\ Put(c, es)
        /\ \A i \in 1 .. Len(es) : es[i] # "data"
    <3>1. CASE result[c] = "failed"
      <4>1. es = <<"error", "done">>
        BY <3>1 DEF LastEvents
      <4>2. QED
        BY <2>1, <4>1 DEF Event
    <3>2. CASE result[c] # "failed"
      <4>1. es = <<"done">>
        BY <3>2 DEF LastEvents
      <4>2. QED
        BY <2>1, <4>1 DEF Event
    <3>3. QED
      BY <3>1, <3>2
  <2>5. Extends(old, es, new)
    BY <2>1, <2>3 DEF LastEvents, Ending, Extends
  <2> HIDE DEF es
  <2>6. PlacesAgree(c)'
    BY <1>1, <1>3, <2>1, <2>3 DEF PlacesAgree
  <2>7. Conserved(c)'
    BY <2>2, <2>4, QueueingEnds
  <2>8. StreamAgrees(c)'
    <3>1. ASSUME handler[c] \in Reading
          PROVE  /\ Len(events'[c]) = Queued(c)' + Len(new)
                 /\ \A i \in 1 .. Len(new) : events'[c][Queued(c)' + i] = new[i]
      BY <2>2, <2>4, <2>5, <3>1, QueueingEnding
    <3>2. QED
      BY <1>3, <2>1, <2>3, <3>1 DEF StreamAgrees
  <2>9. OutcomeAgrees(c)'
    BY <1>1, <1>3, <2>1 DEF OutcomeAgrees
  <2>10. QED
    BY <2>6, <2>7, <2>8, <2>9 DEF CallAgrees
<1>8. QED
  BY <1>4, <1>5, <1>6, <1>7 DEF Generate
-----------------------------------------------------------------------------
(* The whole invariant                                                     *)

\* The invariant holds before the first request.
LEMMA InitInv == Init => IInv
<1> SUFFICES ASSUME Init PROVE IInv
  OBVIOUS
<1> USE ChatAssumption DEF Init
<1>1. TypeOK
  <2>1. <<>> \in Seq({"data", "error", "done"})
    BY EmptySeq
  <2>2. events \in [Calls -> Seq({"data", "error", "done"})]
    BY <2>1
  <2>3. /\ emitted \in [Calls -> 0 .. MaxPieces] /\ kept \in [Calls -> 0 .. MaxPieces]
        /\ delivered \in [Calls -> 0 .. MaxPieces]
    OBVIOUS
  <2>4. QED
    BY <2>2, <2>3 DEF TypeOK, Outcomes
<1>2. RuntimeAgrees
  BY DEF RuntimeAgrees
<1>3. ASSUME NEW c \in Calls
      PROVE  CallAgrees(c)
  <2>1. /\ handler[c] = "idle" /\ worker[c] = "none" /\ result[c] = "none"
        /\ outcome[c] = "none" /\ events[c] = <<>> /\ Len(events[c]) = 0
        /\ cancel[c] = FALSE /\ emitted[c] = 0 /\ Queued(c) = 0
    BY DEF Queued
  <2>2. QED
    BY <2>1 DEF CallAgrees, PlacesAgree, Conserved, StreamAgrees, OutcomeAgrees,
       Before, Reading, AtEnd, Over
<1>4. QED
  BY <1>1, <1>2, <1>3 DEF IInv

\* Types: a piece more for the decoder or the client was emitted and is
\* nowhere else.
LEMMA TypeStep == IInv /\ [Next]_vars => TypeOK'
<1> SUFFICES ASSUME IInv, [Next]_vars
             PROVE  TypeOK'
  OBVIOUS
<1>1. TypeOK
  BY DEF IInv
<1>2. ASSUME NEW c \in Calls, Handle(c) \/ Client(c)
      PROVE  TypeOK'
  <2> USE DEF HandlerTo, WorkerTo, Ends, HandlerAt, Outcomes, runtimeVars
  <2>1. /\ emitted[c] \in 0 .. MaxPieces /\ kept[c] \in 0 .. MaxPieces
        /\ delivered[c] \in 0 .. MaxPieces /\ MaxPieces \in Nat
        /\ Len(events[c]) \in Nat
    BY <1>1, Typed
  <2>2. Queued(c) \in Nat
    BY <2>1 DEF IInv, CallAgrees, Conserved
  <2>3. CASE Accept(c) \/ RequireReady(c) \/ StartStream(c)
    BY <1>1, <2>3, ZenonT(60) DEF Accept, RequireReady, StartStream, TypeOK
  <2>4. ASSUME NEW e, Get(c, e)
        PROVE  events' \in [Calls -> Seq({"data", "error", "done"})]
    BY <1>1, <2>4, Read DEF Get, TypeOK, Event
  <2>5. CASE GetData(c)
    <3>1. Queued(c) >= 1
      BY <2>5, FirstEvent DEF GetData
    <3>2. kept[c] + 1 \in 0 .. MaxPieces
      BY <2>1, <3>1 DEF Queued
    <3>3. QED
      BY <1>1, <2>4, <2>5, <3>2 DEF GetData, Get, TypeOK
  <2>6. CASE GetError(c) \/ GetDone(c)
    BY <1>1, <2>4, <2>6 DEF GetError, GetDone, Get, TypeOK
  <2>7. CASE AskStats(c) \/ Leave(c) \/ Finish(c)
    BY <1>1, <2>7, ZenonT(60) DEF AskStats, Leave, Finish, TypeOK
  <2>8. CASE Write(c)
    <3>1. delivered[c] + kept[c] \in 0 .. MaxPieces /\ 0 \in 0 .. MaxPieces
      BY <2>1, <2>2 DEF Queued
    <3>2. QED
      BY <1>1, <2>8, <3>1 DEF Write, TypeOK
  <2>9. CASE WriteFails(c)
    BY <1>1, <2>9 DEF WriteFails, TypeOK
  <2>10. QED
    BY <1>2, <2>3, <2>5, <2>6, <2>7, <2>8, <2>9 DEF Handle, Client
<1>3. ASSUME NEW c \in Calls, Generate(c)
      PROVE  TypeOK'
  <2> USE DEF WorkerTo, Outcomes, runtimeVars
  <2>1. CASE TakeLock(c) \/ EnterChat(c)
    BY <1>1, <2>1 DEF TakeLock, EnterChat, TypeOK
  <2>2. CASE FindClosed(c) \/ PieceCancelled(c) \/ ChatEnds(c) \/ ChatFails(c)
    BY <1>1, <2>2 DEF FindClosed, PieceCancelled, ChatEnds, ChatFails, Unlock, TypeOK
  <2>3. ASSUME NEW es \in Seq(Event), Put(c, es)
        PROVE  events' \in [Calls -> Seq({"data", "error", "done"})]
    BY <1>1, <2>3, Queueing DEF Put, TypeOK, Event
  <2>4. CASE Piece(c)
    <3>1. <<"data">> \in Seq(Event)
      BY DEF Event
    <3>2. events' \in [Calls -> Seq({"data", "error", "done"})]
      BY <2>3, <2>4, <3>1 DEF Piece
    <3>3. emitted[c] + 1 \in 0 .. MaxPieces
      BY <1>1, <2>4, Typed DEF Piece
    <3>4. QED
      BY <1>1, <2>4, <3>2, <3>3 DEF Piece, TypeOK
  <2>5. CASE PieceFails(c)
    <3>1. <<"error">> \in Seq(Event)
      BY DEF Event
    <3>2. events' \in [Calls -> Seq({"data", "error", "done"})]
      BY <2>3, <2>5, <3>1 DEF PieceFails
    <3>3. QED
      BY <1>1, <2>5, <3>2 DEF PieceFails, Unlock, TypeOK
  <2>6. CASE Report(c)
    <3>1. LastEvents(c) \in Seq(Event)
      <4>1. <<"done">> \in Seq(Event) /\ <<"error", "done">> \in Seq(Event)
        BY DEF Event
      <4>2. QED
        BY <4>1 DEF LastEvents
    <3>2. events' \in [Calls -> Seq({"data", "error", "done"})]
      BY <2>3, <2>6, <3>1 DEF Report
    <3>3. QED
      BY <1>1, <2>6, <3>2 DEF Report, TypeOK
  <2>7. QED
    BY <1>3, <2>1, <2>2, <2>4, <2>5, <2>6 DEF Generate
<1>4. CASE CloseRuntime \/ LockToClose \/ Destroy \/ Forget
  BY <1>1, <1>4 DEF CloseRuntime, LockToClose, Destroy, Forget, callVars, TypeOK
<1>5. CASE UNCHANGED vars
  BY <1>1, <1>5 DEF vars, runtimeVars, callVars, TypeOK
<1>6. QED
  BY <1>2, <1>3, <1>4, <1>5, Steps DEF Step

\* The lock: a worker's steps and close's.
LEMMA RuntimeStep == IInv /\ [Next]_vars => RuntimeAgrees'
<1> SUFFICES ASSUME IInv, [Next]_vars
             PROVE  RuntimeAgrees'
  OBVIOUS
<1> USE ChatAssumption DEF runtimeVars
<1>1. TypeOK /\ RuntimeAgrees
  BY DEF IInv
<1>2. ASSUME NEW c \in Calls, Handle(c) \/ Client(c)
      PROVE  RuntimeAgrees'
  <2>1. UNCHANGED runtimeVars
    BY <1>2 DEF Handle, Client, Accept, RequireReady, StartStream, GetData, GetError,
       GetDone, Get, AskStats, Leave, Finish, Write, WriteFails
  <2>2. ASSUME NEW d \in Calls
        PROVE  \/ worker'[d] = worker[d]
               \/ worker[d] = "none" /\ worker'[d] = "started"
    <3>1. CASE d # c
      BY <1>1, <1>2, <3>1, OthersUntouched DEF Step
    <3>2. CASE d = c
      <4>1. handler[c] = "required" => worker[c] = "none"
        BY DEF IInv, CallAgrees, PlacesAgree, Before
      <4>2. QED
        BY <1>1, <1>2, <3>2, <4>1 DEF Handle, Client, Accept, RequireReady,
           StartStream, GetData, GetError, GetDone, Get, AskStats, Leave, Finish,
           Write, WriteFails, WorkerTo, HandlerAt, TypeOK
    <3>3. QED
      BY <3>1, <3>2
  <2>3. QED
    BY <1>1, <2>1, <2>2 DEF RuntimeAgrees
<1>3. ASSUME NEW c \in Calls, Generate(c)
      PROVE  RuntimeAgrees'
  <2>1. UNCHANGED <<closed, native, closing>>
    BY <1>3 DEF Generate, TakeLock, EnterChat, FindClosed, Piece, PieceCancelled,
       PieceFails, ChatEnds, ChatFails, Report, Unlock
  <2>2. ASSUME NEW d \in Calls, d # c
        PROVE  worker'[d] = worker[d]
    BY <1>1, <1>3, <2>2, OthersUntouched DEF Step
  <2>3. \/ /\ call_lock = NoOne /\ call_lock' = c
           /\ worker[c] = "started" /\ worker'[c] = "locked"
        \/ /\ call_lock' = call_lock /\ ~closed
           /\ worker[c] \in {"locked", "chat"} /\ worker'[c] = "chat"
        \/ /\ call_lock' = NoOne
           /\ worker[c] \in {"locked", "chat"} /\ worker'[c] = "unlocked"
        \/ /\ call_lock' = call_lock
           /\ worker[c] = "unlocked" /\ worker'[c] = "dead"
    BY <1>1, <1>3 DEF Generate, TakeLock, EnterChat, FindClosed, Piece, RuntimeAgrees,
       PieceCancelled, PieceFails, ChatEnds, ChatFails, Report, Unlock, WorkerTo,
       MayChat, TypeOK
  <2>4. QED
    BY <1>1, <2>1, <2>2, <2>3, SMTT(30) DEF RuntimeAgrees, TypeOK
<1>4. CASE CloseRuntime \/ LockToClose \/ Destroy \/ Forget
  BY <1>1, <1>4 DEF CloseRuntime, LockToClose, LockFree, Destroy, Forget, callVars,
     RuntimeAgrees, TypeOK
<1>5. CASE UNCHANGED vars
  BY <1>1, <1>5 DEF vars, callVars, RuntimeAgrees
<1>6. QED
  BY <1>2, <1>3, <1>4, <1>5, Steps DEF Step

\* Every step keeps what is said of each request.
LEMMA CallStep == IInv /\ [Next]_vars => \A c \in Calls : CallAgrees(c)'
<1> SUFFICES ASSUME IInv, [Next]_vars, NEW c \in Calls
             PROVE  CallAgrees(c)'
  OBVIOUS
<1>1. TypeOK /\ CallAgrees(c)
  BY DEF IInv
<1>2. CASE Step(c)
  BY <1>2, HandlerKeeps, WorkerKeeps DEF Step
<1>3. ASSUME /\ handler'[c] = handler[c] /\ worker'[c] = worker[c]
             /\ events'[c] = events[c] /\ cancel'[c] = cancel[c]
             /\ emitted'[c] = emitted[c] /\ kept'[c] = kept[c]
             /\ delivered'[c] = delivered[c] /\ result'[c] = result[c]
             /\ outcome'[c] = outcome[c]
      PROVE  CallAgrees(c)'
  <2>1. Queued(c)' = Queued(c)
    BY <1>3 DEF Queued
  <2>2. QED
    BY <1>1, <1>3, <2>1 DEF CallAgrees, PlacesAgree, Conserved, StreamAgrees,
       OutcomeAgrees
<1>4. ASSUME NEW d \in Calls, d # c, Step(d)
      PROVE  CallAgrees(c)'
  BY <1>1, <1>3, <1>4, OthersUntouched
<1>5. CASE CloseRuntime \/ LockToClose \/ Destroy \/ Forget \/ UNCHANGED vars
  BY <1>3, <1>5 DEF CloseRuntime, LockToClose, Destroy, Forget, vars, callVars
<1>6. QED
  BY <1>2, <1>4, <1>5, Steps

\* The invariant holds in every reachable state, for any number of requests
\* and any length of their replies.
THEOREM ChatInvariant == Spec => []IInv
<1>1. IInv /\ [Next]_vars => IInv'
  BY TypeStep, RuntimeStep, CallStep DEF IInv
<1>2. QED
  BY <1>1, InitInv, PTL DEF Spec

\* Every state is well typed; no counter of pieces passes the bound of a reply.
THEOREM ChatTypes == Spec => []TypeOK
<1>1. IInv => TypeOK
  BY DEF IInv
<1>2. QED
  BY <1>1, ChatInvariant, PTL

\* The native chat runs on a runtime that exists and holds the lock that close
\* needs to destroy it (native.py: stream_chat's worker and close).
THEOREM ChatLive == Spec => []ChatOnLiveRuntime
<1>1. IInv => ChatOnLiveRuntime
  BY DEF IInv, RuntimeAgrees, ChatOnLiveRuntime
<1>2. QED
  BY <1>1, ChatInvariant, PTL

\* A response that has ended has left no worker behind: the generator's
\* finally joins the thread before it lets the handler go (native.py).
THEOREM WorkersJoined == Spec => []NoOrphanWorker
<1>1. IInv => NoOrphanWorker
  BY DEF IInv, CallAgrees, PlacesAgree, NoOrphanWorker
<1>2. QED
  BY <1>1, ChatInvariant, PTL

\* No piece is lost, doubled or overtaken between the callback on_piece and
\* the client, in whatever order cancel, errors and close arrive.
THEOREM PiecesKept == Spec => []PiecesConserved
<1>1. IInv => PiecesConserved
  BY DEF IInv, CallAgrees, Conserved, PiecesConserved
<1>2. QED
  BY <1>1, ChatInvariant, PTL

\* A response that ends as complete delivered all of a chat that ended well.
THEOREM CompleteResponses == Spec => []CompleteIsWhole
<1>1. IInv => CompleteIsWhole
  BY DEF IInv, CallAgrees, OutcomeAgrees, CompleteIsWhole
<1>2. QED
  BY <1>1, ChatInvariant, PTL
=============================================================================
