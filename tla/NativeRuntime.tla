---------------------------- MODULE NativeRuntime ----------------------------
(***************************************************************************)
(* The life cycle and the chats of the native runtime: mmb_runtime_open,   *)
(* mmb_runtime_chat and mmb_runtime_close (mmb_c_api.cpp) over             *)
(* MMBLlamaRuntime (mmb_runtime.cpp) and the process-wide registration of  *)
(* its pager as GGML's expert provider (mmb_ggml_bridge.cpp).              *)
(*                                                                         *)
(* Any thread may try to open a runtime at any time; several callers may   *)
(* chat on an open one.  Nobody closes a runtime that is chatting: the     *)
(* Python binding holds its call lock for that.                            *)
(*                                                                         *)
(* Abstractions.  The constructor's work is six parts built in order, each *)
(* of which may fail.  A chat is a number of prompt tokens and a bound on  *)
(* the tokens generated; the context's memory is the number of tokens each *)
(* caller has in it.                                                       *)
(***************************************************************************)
EXTENDS Integers

CONSTANTS
    Runtimes,    \* calls of mmb_runtime_open, by the handle they make
    Callers,     \* threads that chat
    NoOne,       \* no pager, no lock holder, no runtime
    NCtx,        \* n_ctx, the tokens the context has room for
    MaxPrompt    \* bound on the tokens of a prompt

ASSUME NativeRuntimeAssumption ==
    /\ NoOne \notin Runtimes \cup Callers
    /\ NCtx \in Nat \ {0} /\ MaxPrompt \in Nat

VARIABLES
    active,      \* g_runtime_active
    registered,  \* g_registered_pager, by its runtime
    provider,    \* user_data of GGML's expert provider, by its runtime
    phase,       \* phase[r]: where the life of runtime r is
    parts,       \* parts[r]: the parts of r that exist
    lock,        \* lock[r]: the holder of generation_mutex_
    memory,      \* memory[r][c]: tokens of caller c in the context of r
    calling,     \* calling[c]: the runtime c chats on
    place,       \* place[c]: where caller c is
    budget       \* budget[c]: tokens c may still generate

processVars == <<active, registered, provider>>
runtimeVars == <<phase, parts>>
chatVars == <<lock, memory, calling, place, budget>>
vars == <<processVars, runtimeVars, chatVars>>

Parts == {"backend", "index", "model", "pager", "provider", "context"}

\* The constructor's order.
BuildRank == [backend |-> 1, index |-> 2, model |-> 3, pager |-> 4,
              provider |-> 5, context |-> 6]

\* Mutant of CleanupRank: the pager dies before it is unregistered.
CleanupRankPagerFirst ==
    [context |-> 1, pager |-> 2, provider |-> 3, model |-> 4,
     index |-> 5, backend |-> 6]

\* cleanup's order.
CleanupRank == [context |-> 1, provider |-> 2, pager |-> 3, model |-> 4,
                index |-> 5, backend |-> 6]

PhaseTo(r, p) == phase' = [phase EXCEPT ![r] = p]
-----------------------------------------------------------------------------
(* mmb_runtime_open                                                        *)

\* Mutant of Refuse: the refused call clears the flag as a failed one does.
RefuseClearsFlag(r) ==
    /\ phase[r] = "none" /\ active
    /\ active' = FALSE
    /\ UNCHANGED <<registered, provider, runtimeVars, chatVars>>

\* Another runtime is active: the call fails and reserved is still false.
Refuse(r) ==
    /\ phase[r] = "none" /\ active
    /\ UNCHANGED vars

\* The call reserves the process's only runtime.
Reserve(r) ==
    /\ phase[r] = "none" /\ ~active
    /\ active' = TRUE
    /\ PhaseTo(r, "building")
    /\ UNCHANGED <<registered, provider, parts, chatVars>>

\* The constructor's next part is p.
NextPart(r, p) ==
    /\ phase[r] = "building"
    /\ p \in Parts \ parts[r]
    /\ \A q \in Parts \ parts[r] : BuildRank[p] <= BuildRank[q]

Build(r, p) ==
    /\ NextPart(r, p) /\ p # "provider"
    /\ parts' = [parts EXCEPT ![r] = @ \cup {p}]
    /\ UNCHANGED <<processVars, phase, chatVars>>

SetProvider(r) == registered' = r /\ provider' = r

\* MMBGGMLProviderRegistration: throws when a pager is registered already.
Register(r) ==
    /\ NextPart(r, "provider") /\ registered = NoOne
    /\ SetProvider(r)
    /\ parts' = [parts EXCEPT ![r] = @ \cup {"provider"}]
    /\ UNCHANGED <<active, phase, chatVars>>

\* A part cannot be built, or the complete runtime lacks a vocabulary or a
\* chat template: cleanup, then the exception goes on.
BuildFails(r) ==
    /\ phase[r] = "building"
    /\ PhaseTo(r, "unwinding")
    /\ UNCHANGED <<processVars, parts, chatVars>>

Opened(r) ==
    /\ phase[r] = "building" /\ parts[r] = Parts
    /\ PhaseTo(r, "open")
    /\ UNCHANGED <<processVars, parts, chatVars>>
-----------------------------------------------------------------------------
(* cleanup, and mmb_runtime_close                                          *)

\* The runtime is deleted; none of its chats is running.
Close(r) ==
    /\ phase[r] = "open"
    /\ \A c \in Callers : calling[c] # r
    /\ PhaseTo(r, "destroying")
    /\ UNCHANGED <<processVars, parts, chatVars>>

Ending(r) == phase[r] \in {"unwinding", "destroying"}

\* ~MMBGGMLProviderRegistration.
Unregister(r) ==
    IF registered = r THEN registered' = NoOne /\ provider' = NoOne
                      ELSE UNCHANGED <<registered, provider>>

\* cleanup takes down the next part; the context takes its memory with it.
TakeDown(r, p) ==
    /\ Ending(r)
    /\ p \in parts[r]
    /\ \A q \in parts[r] : CleanupRank[p] <= CleanupRank[q]
    /\ parts' = [parts EXCEPT ![r] = @ \ {p}]
    /\ IF p = "provider" THEN Unregister(r) ELSE UNCHANGED <<registered, provider>>
    /\ memory' = IF p = "context"
                 THEN [memory EXCEPT ![r] = [c \in Callers |-> 0]] ELSE memory
    /\ UNCHANGED <<active, phase, lock, calling, place, budget>>

\* Mutant of CleanedUp: a constructor that throws leaves its parts behind.
CleanedUpOrThrown(r) == parts[r] = {} \/ phase[r] = "unwinding"

CleanedUp(r) == parts[r] = {}

ReleaseFlag(r) == active' = FALSE

\* The runtime is gone; now another one may be opened.
Gone(r) ==
    /\ Ending(r) /\ CleanedUp(r)
    /\ ReleaseFlag(r)
    /\ PhaseTo(r, "none")
    /\ UNCHANGED <<registered, provider, parts, chatVars>>
-----------------------------------------------------------------------------
(* mmb_runtime_chat                                                        *)

PlaceTo(c, p) == place' = [place EXCEPT ![c] = p]

\* A caller chats on an open runtime.
Call(c, r) ==
    /\ place[c] = "idle" /\ phase[r] = "open"
    /\ calling' = [calling EXCEPT ![c] = r]
    /\ PlaceTo(c, "waiting")
    /\ UNCHANGED <<processVars, runtimeVars, lock, memory, budget>>

\* Mutant of Clear: the memory of earlier chats is kept.
ClearNot(r) == UNCHANGED memory

\* llama_memory_clear.
Clear(r) == memory' = [memory EXCEPT ![r] = [c \in Callers |-> 0]]

\* The generation mutex is taken and the context cleared.
Begin(c) ==
    LET r == calling[c] IN
    /\ place[c] = "waiting" /\ lock[r] = NoOne
    /\ lock' = [lock EXCEPT ![r] = c]
    /\ Clear(r)
    /\ PlaceTo(c, "locked")
    /\ UNCHANGED <<processVars, runtimeVars, calling, budget>>

Add(c, n) == memory' = [memory EXCEPT ![calling[c]][c] = @ + n]

\* Mutant of Fits: only the prompt is compared with the context.
FitsPromptOnly(prompt, max_tokens) == prompt <= NCtx

Fits(prompt, max_tokens) == prompt + max_tokens <= NCtx

\* The prompt is decoded.
DecodePrompt(c, prompt, max_tokens) ==
    /\ place[c] = "locked" /\ Fits(prompt, max_tokens)
    /\ Add(c, prompt)
    /\ budget' = [budget EXCEPT ![c] = max_tokens]
    /\ PlaceTo(c, "generating")
    /\ UNCHANGED <<processVars, runtimeVars, lock, calling>>

\* A token that is not the end goes to the callback and is decoded.
Token(c) ==
    /\ place[c] = "generating" /\ budget[c] > 0
    /\ Add(c, 1)
    /\ budget' = [budget EXCEPT ![c] = @ - 1]
    /\ UNCHANGED <<processVars, runtimeVars, lock, calling, place>>

\* chat returns or throws; the mutex is released, the memory stays.
Leave(c) ==
    /\ lock' = [lock EXCEPT ![calling[c]] = NoOne]
    /\ calling' = [calling EXCEPT ![c] = NoOne]
    /\ budget' = [budget EXCEPT ![c] = 0]
    /\ PlaceTo(c, "idle")
    /\ UNCHANGED <<processVars, runtimeVars>>

\* The end of the reply, max_tokens, or a callback that cancels.
ChatEnds(c) ==
    /\ place[c] = "generating"
    /\ Leave(c)
    /\ UNCHANGED memory

\* Template, tokens, size or sampler are refused, or the prompt fails to
\* decode after n of its tokens.
PromptFails(c, n) ==
    /\ place[c] = "locked"
    /\ Add(c, n)
    /\ Leave(c)

\* A token fails to decode.
TokenFails(c) ==
    /\ place[c] = "generating" /\ budget[c] > 0
    /\ Leave(c)
    /\ UNCHANGED memory
-----------------------------------------------------------------------------
Init ==
    /\ active = FALSE /\ registered = NoOne /\ provider = NoOne
    /\ phase = [r \in Runtimes |-> "none"]
    /\ parts = [r \in Runtimes |-> {}]
    /\ lock = [r \in Runtimes |-> NoOne]
    /\ memory = [r \in Runtimes |-> [c \in Callers |-> 0]]
    /\ calling = [c \in Callers |-> NoOne]
    /\ place = [c \in Callers |-> "idle"]
    /\ budget = [c \in Callers |-> 0]

\* What a thread inside open or close does.
Live(r) ==
    \/ \E p \in Parts : Build(r, p) \/ TakeDown(r, p)
    \/ Register(r) \/ BuildFails(r) \/ Opened(r) \/ Gone(r)

\* What a caller that holds the mutex does.
Chat(c) ==
    \/ \E prompt \in 1 .. MaxPrompt, max_tokens \in 1 .. NCtx :
         DecodePrompt(c, prompt, max_tokens)
    \/ \E n \in 0 .. NCtx : PromptFails(c, n)
    \/ Token(c) \/ TokenFails(c) \/ ChatEnds(c)

Next ==
    \/ \E r \in Runtimes : Refuse(r) \/ Reserve(r) \/ Close(r) \/ Live(r)
    \/ \E c \in Callers : Begin(c) \/ Chat(c) \/ \E r \in Runtimes : Call(c, r)

Spec == Init /\ [][Next]_vars
-----------------------------------------------------------------------------
(* Properties                                                              *)

TypeOK ==
    /\ active \in BOOLEAN
    /\ registered \in Runtimes \cup {NoOne}
    /\ provider \in Runtimes \cup {NoOne}
    /\ phase \in [Runtimes -> {"none", "building", "unwinding", "open",
                               "destroying"}]
    /\ parts \in [Runtimes -> SUBSET Parts]
    /\ lock \in [Runtimes -> Callers \cup {NoOne}]
    /\ memory \in [Runtimes -> [Callers -> 0 .. NCtx]]
    /\ calling \in [Callers -> Runtimes \cup {NoOne}]
    /\ place \in [Callers -> {"idle", "waiting", "locked", "generating"}]
    /\ budget \in [Callers -> 0 .. NCtx]

\* However opens, failures and closes meet, no two runtimes have parts at the
\* same time: the second is refused until the first is completely gone.
OneRuntime ==
    \A r, q \in Runtimes : parts[r] # {} /\ parts[q] # {} => r = q

\* GGML never holds a pointer to a pager that does not exist, also in the
\* middle of a constructor that failed and of a destructor.
ProviderAlive ==
    provider # NoOne => "pager" \in parts[provider]

\* While a caller generates, the context holds its own tokens only ("unrelated
\* callers cannot inherit stale KV state", native.py), whatever way earlier
\* chats ended.
OwnContextOnly ==
    \A c, d \in Callers :
        place[c] \in {"locked", "generating"} /\ c # d =>
            memory[calling[c]][d] = 0

\* The check made once before decoding is enough: with all that is generated
\* the context is never overrun.
ContextFits ==
    \A c \in Callers :
        place[c] = "generating" => memory[calling[c]][c] + budget[c] <= NCtx

\* An open that failed and a close leave nothing behind: no part, no
\* registration, and the flag is set exactly while some runtime lives.
NothingLeftBehind ==
    /\ \A r \in Runtimes :
         phase[r] = "none" => parts[r] = {} /\ registered # r /\ provider # r
    /\ active <=> \E r \in Runtimes : phase[r] # "none"

\* The flag, the registration and the parts agree with the life of the one
\* runtime there may be.
LifeAgrees ==
    /\ provider = registered
    /\ \A r \in Runtimes : "provider" \in parts[r] <=> registered = r
    /\ \A r \in Runtimes : "provider" \in parts[r] => "pager" \in parts[r]
    /\ \A r, q \in Runtimes : phase[r] # "none" /\ phase[q] # "none" => r = q
    /\ \A r \in Runtimes : phase[r] = "none" => parts[r] = {}
    /\ active <=> \E r \in Runtimes : phase[r] # "none"

\* A caller past the mutex holds it, and starts from an empty context.
ChatAgrees ==
    \A c \in Callers :
        /\ place[c] # "idle" => calling[c] \in Runtimes
        /\ place[c] \in {"locked", "generating"} => lock[calling[c]] = c
        /\ place[c] = "locked" => memory[calling[c]][c] = 0

\* The inductive invariant.
IInv == TypeOK /\ LifeAgrees /\ ChatAgrees /\ OwnContextOnly /\ ContextFits
=============================================================================
