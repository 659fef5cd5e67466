----------------------------- MODULE ChatStream -----------------------------
(***************************************************************************)
(* Streaming a chat reply: the HTTP handler thread of a request            *)
(* (server_http.py), the generators it drives (MMBRuntime.stream_chat and  *)
(* NativeMMBRuntime.stream_chat), the worker thread that runs the native   *)
(* chat, and MMBRuntime.close in another thread.                           *)
(*                                                                         *)
(* A handler and its worker talk through an unbounded queue of events and  *)
(* an event flag `cancel'.  Workers and close exclude one another with the *)
(* lock _call_lock; handlers never take it.                                *)
(*                                                                         *)
(* Abstractions.  A piece of text is a tick of a counter.  The decoder may *)
(* keep a piece back until the next one or the end.  The native chat       *)
(* produces up to MaxPieces pieces and then ends well or with an error.    *)
(***************************************************************************)
EXTENDS Integers, Sequences

CONSTANTS
    Calls,      \* the chat requests, one handler thread each
    Closer,     \* the thread that closes the runtime
    NoOne,      \* "the lock is free"
    MaxPieces   \* bound on the pieces of one reply

ASSUME ChatAssumption ==
    /\ Closer \notin Calls /\ NoOne \notin Calls \cup {Closer}
    /\ MaxPieces \in Nat

VARIABLES
    rt_closed,   \* MMBRuntime._closed
    backend,     \* MMBRuntime.backend is not None
    closed,      \* NativeMMBRuntime._closed
    native,      \* the native runtime exists (and _handle points to it)
    call_lock,   \* the holder of NativeMMBRuntime._call_lock
    closing,     \* where the closing thread is
    handler,     \* handler[c]: where the handler thread of c is
    worker,      \* worker[c]: where the worker thread of c is
    events,      \* events[c]: the queue between them
    cancel,      \* cancel[c]: the event flag
    emitted,     \* emitted[c]: pieces the native chat of c produced
    kept,        \* kept[c]: pieces in the decoder
    delivered,   \* delivered[c]: pieces written to the client
    result,      \* result[c]: how the native chat of c ended
    outcome      \* outcome[c]: how the response to c ended

runtimeVars == <<rt_closed, backend, closed, native, call_lock, closing>>
callVars == <<handler, worker, events, cancel, emitted, kept, delivered,
              result, outcome>>
vars == <<runtimeVars, callVars>>

\* "crash" is an exception the handler does not expect: the response ends
\* with [DONE] and nothing else.  "gone" is a client that hung up.
Outcomes == {"none", "complete", "error", "crash", "gone"}

ready == ~rt_closed /\ backend

HandlerAt(c, place) == handler[c] = place
HandlerTo(c, place) == handler' = [handler EXCEPT ![c] = place]
WorkerTo(c, place) == worker' = [worker EXCEPT ![c] = place]
Ends(c, how) == outcome' = [outcome EXCEPT ![c] = how]

\* Mutant of Put: an event is queued twice.
PutTwice(c, es) == events' = [events EXCEPT ![c] = @ \o es \o es]

Put(c, es) == events' = [events EXCEPT ![c] = @ \o es]
-----------------------------------------------------------------------------
(* The handler of a request                                                *)

\* do_POST: without a ready runtime the answer is 503.
Accept(c) ==
    /\ HandlerAt(c, "idle")
    /\ IF ready THEN HandlerTo(c, "accepted") /\ UNCHANGED outcome
                ELSE HandlerTo(c, "finished") /\ Ends(c, "error")
    /\ UNCHANGED <<runtimeVars, worker, events, cancel, emitted, kept,
                   delivered, result>>

\* The first step of MMBRuntime.stream_chat: require_ready.
RequireReady(c) ==
    /\ HandlerAt(c, "accepted")
    /\ IF ready THEN HandlerTo(c, "required") /\ UNCHANGED outcome
                ELSE HandlerTo(c, "finished") /\ Ends(c, "error")
    /\ UNCHANGED <<runtimeVars, worker, events, cancel, emitted, kept,
                   delivered, result>>

\* Then the backend is used, None or not; the native stream looks whether it
\* is closed and starts the worker.
StartStream(c) ==
    /\ HandlerAt(c, "required")
    /\ IF backend /\ ~closed
       THEN HandlerTo(c, "waiting") /\ WorkerTo(c, "started") /\ UNCHANGED outcome
       ELSE /\ HandlerTo(c, "finished")
            /\ Ends(c, IF backend THEN "error" ELSE "crash")
            /\ UNCHANGED worker
    /\ UNCHANGED <<runtimeVars, events, cancel, emitted, kept, delivered,
                   result>>

\* events.get() returns e.
Get(c, e) ==
    /\ HandlerAt(c, "waiting")
    /\ events[c] # <<>> /\ Head(events[c]) = e
    /\ events' = [events EXCEPT ![c] = Tail(@)]
    /\ UNCHANGED <<runtimeVars, worker, cancel, emitted, delivered, result>>

\* A piece goes into the decoder, which yields text or holds it back.
GetData(c) ==
    /\ Get(c, "data")
    /\ kept' = [kept EXCEPT ![c] = @ + 1]
    /\ handler' \in {handler, [handler EXCEPT ![c] = "piece"]}
    /\ UNCHANGED outcome

GetError(c) ==
    /\ Get(c, "error")
    /\ HandlerTo(c, "leaving") /\ Ends(c, "error")
    /\ UNCHANGED kept

\* The end: what the decoder still holds is yielded first.
GetDone(c) ==
    /\ Get(c, "done")
    /\ IF kept[c] > 0
       THEN HandlerTo(c, "tail") /\ UNCHANGED outcome
       ELSE HandlerTo(c, "leaving") /\ Ends(c, "complete")
    /\ UNCHANGED kept

\* Text was yielded: MMBRuntime.stream_chat asks the backend for its stats,
\* and fails when close has set the backend to None.
AskStats(c) ==
    /\ HandlerAt(c, "piece") \/ HandlerAt(c, "tail")
    /\ IF backend
       THEN /\ HandlerTo(c, IF HandlerAt(c, "piece") THEN "write" ELSE "writetail")
            /\ UNCHANGED outcome
       ELSE HandlerTo(c, "leaving") /\ Ends(c, "crash")
    /\ UNCHANGED <<runtimeVars, worker, events, cancel, emitted, kept,
                   delivered, result>>

\* The text reaches the client; the handler comes back for the next event.
Write(c) ==
    /\ HandlerAt(c, "write") \/ HandlerAt(c, "writetail")
    /\ delivered' = [delivered EXCEPT ![c] = @ + kept[c]]
    /\ kept' = [kept EXCEPT ![c] = 0]
    /\ IF HandlerAt(c, "write")
       THEN HandlerTo(c, "waiting") /\ UNCHANGED outcome
       ELSE HandlerTo(c, "leaving") /\ Ends(c, "complete")
    /\ UNCHANGED <<runtimeVars, worker, events, cancel, emitted, result>>

\* The client has hung up: the exception closes both generators.
WriteFails(c) ==
    /\ HandlerAt(c, "write") \/ HandlerAt(c, "writetail")
    /\ HandlerTo(c, "leaving") /\ Ends(c, "gone")
    /\ UNCHANGED <<runtimeVars, worker, events, cancel, emitted, kept,
                   delivered, result>>

\* Mutant of Join: the generator does not wait for its worker.
JoinNot(c) == TRUE

\* Mutant of Join: waits for a "done" in the queue, which may have been read.
JoinOnDone(c) == "done" \in {events[c][i] : i \in 1 .. Len(events[c])}

\* thread.join() returns.
Join(c) == worker[c] = "dead"

\* The generator's finally: cancel is set, then the worker is awaited.
Leave(c) ==
    /\ HandlerAt(c, "leaving")
    /\ cancel' = [cancel EXCEPT ![c] = TRUE]
    /\ HandlerTo(c, "joining")
    /\ UNCHANGED <<runtimeVars, worker, events, emitted, kept, delivered,
                   result, outcome>>

Finish(c) ==
    /\ HandlerAt(c, "joining") /\ Join(c)
    /\ HandlerTo(c, "finished")
    /\ UNCHANGED <<runtimeVars, worker, events, cancel, emitted, kept,
                   delivered, result, outcome>>
-----------------------------------------------------------------------------
(* The worker of a request                                                 *)

TakeLock(c) ==
    /\ worker[c] = "started" /\ call_lock = NoOne
    /\ call_lock' = c
    /\ WorkerTo(c, "locked")
    /\ UNCHANGED <<rt_closed, backend, closed, native, closing, handler, events,
                   cancel, emitted, kept, delivered, result, outcome>>

\* Mutant of MayChat: _closed is not looked at under the lock.
MayChatUnchecked == TRUE

MayChat == ~closed

\* Under the lock _closed is looked at again; then the native chat is called.
EnterChat(c) ==
    /\ worker[c] = "locked" /\ MayChat
    /\ WorkerTo(c, "chat")
    /\ UNCHANGED <<runtimeVars, handler, events, cancel, emitted, kept,
                   delivered, result, outcome>>

\* The native chat of c, or its refusal, is over: the lock is released.
Unlock(c, how) ==
    /\ call_lock' = NoOne
    /\ result' = [result EXCEPT ![c] = how]
    /\ WorkerTo(c, "unlocked")
    /\ UNCHANGED <<rt_closed, backend, closed, native, closing, handler, kept,
                   delivered, outcome>>

FindClosed(c) ==
    /\ worker[c] = "locked" /\ ~MayChat
    /\ Unlock(c, "failed")
    /\ UNCHANGED <<events, cancel, emitted>>

\* on_piece queues a piece.
Piece(c) ==
    /\ worker[c] = "chat" /\ emitted[c] < MaxPieces
    /\ ~cancel[c]
    /\ emitted' = [emitted EXCEPT ![c] = @ + 1]
    /\ Put(c, <<"data">>)
    /\ UNCHANGED <<runtimeVars, handler, worker, cancel, kept, delivered, result,
                   outcome>>

\* on_piece finds cancel set and returns 1: the native chat stops.
PieceCancelled(c) ==
    /\ worker[c] = "chat" /\ emitted[c] < MaxPieces
    /\ cancel[c]
    /\ Unlock(c, "cancelled")
    /\ UNCHANGED <<events, cancel, emitted>>

\* on_piece itself fails: it queues the error, sets cancel and returns 1.
PieceFails(c) ==
    /\ worker[c] = "chat" /\ emitted[c] < MaxPieces
    /\ ~cancel[c]
    /\ Put(c, <<"error">>)
    /\ cancel' = [cancel EXCEPT ![c] = TRUE]
    /\ Unlock(c, "cancelled")
    /\ UNCHANGED emitted

\* An end-of-generation token or max_tokens.
ChatEnds(c) ==
    /\ worker[c] = "chat"
    /\ Unlock(c, "ok")
    /\ UNCHANGED <<events, cancel, emitted>>

\* llama_decode, the prompt or the sampler fails: rc < 0.
ChatFails(c) ==
    /\ worker[c] = "chat"
    /\ Unlock(c, "failed")
    /\ UNCHANGED <<events, cancel, emitted>>

\* Mutant of LastEvents: "done" is queued before the error.
LastEventsSwapped(c) ==
    IF result[c] = "failed" THEN <<"done", "error">> ELSE <<"done">>

LastEvents(c) == IF result[c] = "failed" THEN <<"error", "done">> ELSE <<"done">>

\* The worker queues its last events and ends.
Report(c) ==
    /\ worker[c] = "unlocked"
    /\ Put(c, LastEvents(c))
    /\ WorkerTo(c, "dead")
    /\ UNCHANGED <<runtimeVars, handler, cancel, emitted, kept, delivered, result,
                   outcome>>
-----------------------------------------------------------------------------
(* MMBRuntime.close                                                        *)

CloseRuntime ==
    /\ closing = "open"
    /\ rt_closed' = TRUE
    /\ closing' = "asking"
    /\ UNCHANGED <<backend, closed, native, call_lock, callVars>>

\* Mutant of LockFree: close waits for the streams, and so for their clients.
LockFreeStreamsOver ==
    call_lock = NoOne /\ \A c \in Calls : handler[c] \in {"idle", "finished"}

LockFree == call_lock = NoOne

\* NativeMMBRuntime.close: wait for the lock, mark closed, destroy.
LockToClose ==
    /\ closing = "asking" /\ LockFree
    /\ call_lock' = Closer
    /\ closing' = "locked"
    /\ UNCHANGED <<rt_closed, backend, closed, native, callVars>>

Destroy ==
    /\ closing = "locked"
    /\ closed' = TRUE /\ native' = FALSE
    /\ call_lock' = NoOne
    /\ closing' = "destroyed"
    /\ UNCHANGED <<rt_closed, backend, callVars>>

\* self.backend = None.
Forget ==
    /\ closing = "destroyed"
    /\ backend' = FALSE
    /\ closing' = "closed"
    /\ UNCHANGED <<rt_closed, closed, native, call_lock, callVars>>
-----------------------------------------------------------------------------
Init ==
    /\ rt_closed = FALSE /\ backend = TRUE
    /\ closed = FALSE /\ native = TRUE
    /\ call_lock = NoOne /\ closing = "open"
    /\ handler = [c \in Calls |-> "idle"]
    /\ worker = [c \in Calls |-> "none"]
    /\ events = [c \in Calls |-> <<>>]
    /\ cancel = [c \in Calls |-> FALSE]
    /\ emitted = [c \in Calls |-> 0]
    /\ kept = [c \in Calls |-> 0]
    /\ delivered = [c \in Calls |-> 0]
    /\ result = [c \in Calls |-> "none"]
    /\ outcome = [c \in Calls |-> "none"]

\* The handler's own steps; writing depends on the client.
Handle(c) ==
    \/ RequireReady(c) \/ StartStream(c)
    \/ GetData(c) \/ GetError(c) \/ GetDone(c)
    \/ AskStats(c) \/ Leave(c) \/ Finish(c)

Client(c) == Accept(c) \/ Write(c) \/ WriteFails(c)

Generate(c) ==
    \/ TakeLock(c) \/ EnterChat(c) \/ FindClosed(c)
    \/ Piece(c) \/ PieceCancelled(c) \/ PieceFails(c)
    \/ ChatEnds(c) \/ ChatFails(c) \/ Report(c)

Close == LockToClose \/ Destroy \/ Forget

\* Everybody has ended; no request or close comes any more.
AtRest ==
    /\ \A c \in Calls : handler[c] = "finished"
    /\ closing \in {"open", "closed"}
    /\ UNCHANGED vars

Next ==
    \/ \E c \in Calls : Handle(c) \/ Client(c) \/ Generate(c)
    \/ CloseRuntime \/ Close
    \/ AtRest

Spec == Init /\ [][Next]_vars

\* Threads run.  Nothing makes a client read, hang up or come back.
FairSpec ==
    /\ Spec
    /\ \A c \in Calls : WF_vars(Handle(c)) /\ WF_vars(Generate(c))
    /\ WF_vars(Close)
-----------------------------------------------------------------------------
(* Properties                                                              *)

TypeOK ==
    /\ rt_closed \in BOOLEAN /\ backend \in BOOLEAN
    /\ closed \in BOOLEAN /\ native \in BOOLEAN
    /\ call_lock \in Calls \cup {Closer, NoOne}
    /\ closing \in {"open", "asking", "locked", "destroyed", "closed"}
    /\ handler \in [Calls -> {"idle", "accepted", "required", "waiting",
                              "piece", "tail", "write", "writetail",
                              "leaving", "joining", "finished"}]
    /\ worker \in [Calls -> {"none", "started", "locked", "chat", "unlocked",
                             "dead"}]
    /\ events \in [Calls -> Seq({"data", "error", "done"})]
    /\ cancel \in [Calls -> BOOLEAN]
    /\ emitted \in [Calls -> 0 .. MaxPieces]
    /\ kept \in [Calls -> 0 .. MaxPieces]
    /\ delivered \in [Calls -> 0 .. MaxPieces]
    /\ result \in [Calls -> {"none", "ok", "failed", "cancelled"}]
    /\ outcome \in [Calls -> Outcomes]

\* The native chat runs on a runtime that exists, one call at a time, however
\* close and the calls meet: the handle is re-read under the lock that close
\* needs to destroy it.
ChatOnLiveRuntime ==
    \A c \in Calls : worker[c] = "chat" => native /\ call_lock = c

\* When the response to a request has ended, its worker is gone: no thread
\* generates for a client that left, or calls back into a finished stream.
NoOrphanWorker ==
    \A c \in Calls : handler[c] = "finished" => worker[c] \in {"none", "dead"}

\* No piece is lost, doubled or overtaken: those that the native chat produced
\* and that are neither with the client nor in the decoder are the first events
\* of the queue, before any error or end, also after a cancel or a failure.
Queued(c) == emitted[c] - delivered[c] - kept[c]

PiecesConserved ==
    \A c \in Calls :
        /\ Queued(c) \in 0 .. Len(events[c])
        /\ \A i \in 1 .. Len(events[c]) : events[c][i] = "data" <=> i <= Queued(c)

\* A response called complete carries the whole reply of a chat that ended
\* well: neither an error nor a close in the middle can be taken for its end.
CompleteIsWhole ==
    \A c \in Calls :
        outcome[c] = "complete" =>
            result[c] = "ok" /\ delivered[c] = emitted[c]

\* A reply that is cut short ends with an error, unless the client hung up
\* ("operational failures are returned explicitly", server_http.py).  The code
\* does not keep this: a close while the handler still has pieces to hand on
\* ends the stream in an AttributeError.
FailuresExplicit ==
    \A c \in Calls : outcome[c] = "crash" => delivered[c] = emitted[c]

\* close returns, whatever clients do: it may wait for a generation, which
\* never waits for the client, and not for a lock nobody will release.
CloseEnds == closing = "asking" ~> closing = "closed"

\* A handler that waits gets an event, whoever else holds the lock and
\* whether or not the runtime is closed before its worker's turn comes; and
\* once it gives a stream up, for whatever reason, the stream ends, its worker
\* included.
HandlersGoOn ==
    \A c \in Calls :
        /\ handler[c] = "waiting" ~> handler[c] # "waiting"
        /\ handler[c] = "leaving" ~> handler[c] = "finished"
=============================================================================
