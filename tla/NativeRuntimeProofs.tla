------------------------- MODULE NativeRuntimeProofs -------------------------
(***************************************************************************)
(* Safety of the native runtime's life cycle and chats for any number of   *)
(* opens and callers and any size of context.                              *)
(*                                                                         *)
(* The invariant IInv falls into two halves.  LifeAgrees is about the      *)
(* flag, the registration and the parts; no chat disturbs it.  ChatAgrees, *)
(* OwnContextOnly and ContextFits are about the context; of the life cycle *)
(* only the removal of the context disturbs them, and it only empties it.  *)
(***************************************************************************)
EXTENDS NativeRuntime, TLAPS

\* The actions by what they disturb.
LifeStep ==
    \E r \in Runtimes :
        Refuse(r) \/ Reserve(r) \/ Close(r) \/ Live(r)

ChatStep ==
    \E c \in Callers : Begin(c) \/ Chat(c) \/ \E r \in Runtimes : Call(c, r)

\* A step is of the life of a runtime or of a chat.
LEMMA Steps == Next <=> LifeStep \/ ChatStep
BY DEF Next, LifeStep, ChatStep

\* Chats leave the process and the runtimes alone.
LEMMA ChatKeepsLife ==
    ASSUME ChatStep
    PROVE  UNCHANGED <<processVars, runtimeVars>>
BY DEF ChatStep, Begin, Chat, Call, DecodePrompt, PromptFails, Token,
       TokenFails, ChatEnds, Leave

\* The life of a runtime leaves its callers alone and only ever empties a
\* context.
LEMMA LifeKeepsChats ==
    ASSUME IInv, LifeStep
    PROVE  /\ UNCHANGED <<lock, calling, place, budget>>
           /\ \/ UNCHANGED memory
              \/ \E r \in Runtimes :
                    memory' = [memory EXCEPT ![r] = [c \in Callers |-> 0]]
BY DEF LifeStep, Live, Refuse, Reserve, Close, Build, TakeDown, Register,
       BuildFails, Opened, Gone, chatVars, vars

\* In the middle of a constructor the pager precedes the provider, in the
\* middle of cleanup it survives it.
LEMMA PagerOutlivesProvider ==
    ASSUME IInv, NEW r \in Runtimes
    PROVE  /\ NextPart(r, "provider") => "pager" \in parts[r]
           /\ TakeDown(r, "pager") => "provider" \notin parts[r]
BY DEF NextPart, TakeDown, Parts, BuildRank, CleanupRank

\* Types and agreement of the process and the runtimes are preserved.
LEMMA LifePreserved ==
    ASSUME IInv, LifeStep
    PROVE  /\ LifeAgrees'
           /\ active' \in BOOLEAN
           /\ registered' \in Runtimes \cup {NoOne}
           /\ provider' \in Runtimes \cup {NoOne}
           /\ phase' \in [Runtimes -> {"none", "building", "unwinding", "open",
                                       "destroying"}]
           /\ parts' \in [Runtimes -> SUBSET Parts]
<1> USE NativeRuntimeAssumption DEF IInv, TypeOK
<1> DEFINE Goal == /\ LifeAgrees'
                   /\ active' \in BOOLEAN
                   /\ registered' \in Runtimes \cup {NoOne}
                   /\ provider' \in Runtimes \cup {NoOne}
                   /\ phase' \in [Runtimes -> {"none", "building", "unwinding",
                                               "open", "destroying"}]
                   /\ parts' \in [Runtimes -> SUBSET Parts]
<1>1. ASSUME NEW r \in Runtimes, Refuse(r)
      PROVE  Goal
  BY <1>1 DEF Refuse, vars, processVars, runtimeVars, LifeAgrees
<1>2. ASSUME NEW r \in Runtimes, Reserve(r)
      PROVE  Goal
  BY <1>2 DEF Reserve, PhaseTo, LifeAgrees
<1>3. ASSUME NEW r \in Runtimes, Close(r)
      PROVE  Goal
  BY <1>3 DEF Close, PhaseTo, processVars, LifeAgrees
<1>4. ASSUME NEW r \in Runtimes, NEW p \in Parts, Build(r, p)
      PROVE  Goal
  BY <1>4 DEF Build, NextPart, processVars, LifeAgrees
<1>5. ASSUME NEW r \in Runtimes, NEW p \in Parts, TakeDown(r, p)
      PROVE  Goal
  <2>1. /\ phase[r] # "none" /\ p \in parts[r]
        /\ parts' = [parts EXCEPT ![r] = @ \ {p}]
        /\ UNCHANGED <<active, phase>>
    BY <1>5 DEF TakeDown, Ending
  <2>2. parts' \in [Runtimes -> SUBSET Parts]
    BY <2>1
  <2>3. CASE p = "provider"
    <3>1. registered = r
      BY <2>1, <2>3 DEF LifeAgrees
    <3>2. registered' = NoOne /\ provider' = NoOne
      BY <1>5, <2>3, <3>1 DEF TakeDown, Unregister
    <3>3. LifeAgrees'
      BY <2>1, <2>3, <3>1, <3>2 DEF LifeAgrees
    <3>4. QED
      BY <2>1, <2>2, <3>2, <3>3
  <2>4. CASE p # "provider"
    <3>1. UNCHANGED <<registered, provider>>
      BY <1>5, <2>4 DEF TakeDown
    <3>2. p = "pager" => "provider" \notin parts[r]
      BY <1>5, PagerOutlivesProvider
    <3>3. LifeAgrees'
      BY <2>1, <2>4, <3>1, <3>2 DEF LifeAgrees
    <3>4. QED
      BY <2>1, <2>2, <3>1, <3>3
  <2>5. QED
    BY <2>3, <2>4
<1>6. ASSUME NEW r \in Runtimes, Register(r)
      PROVE  Goal
  BY <1>6, PagerOutlivesProvider DEF Register, NextPart, SetProvider, LifeAgrees, Parts
<1>7. ASSUME NEW r \in Runtimes, BuildFails(r)
      PROVE  Goal
  BY <1>7 DEF BuildFails, PhaseTo, processVars, LifeAgrees
<1>8. ASSUME NEW r \in Runtimes, Opened(r)
      PROVE  Goal
  BY <1>8 DEF Opened, PhaseTo, processVars, LifeAgrees
<1>9. ASSUME NEW r \in Runtimes, Gone(r)
      PROVE  Goal
  BY <1>9 DEF Gone, Ending, CleanedUp, ReleaseFlag, PhaseTo, LifeAgrees
<1>10. QED
  BY <1>1, <1>2, <1>3, <1>4, <1>5, <1>6, <1>7, <1>8, <1>9 DEF LifeStep, Live

\* What the context holds, and who holds the mutex.
ChatPart ==
    /\ lock \in [Runtimes -> Callers \cup {NoOne}]
    /\ memory \in [Runtimes -> [Callers -> 0 .. NCtx]]
    /\ calling \in [Callers -> Runtimes \cup {NoOne}]
    /\ place \in [Callers -> {"idle", "waiting", "locked", "generating"}]
    /\ budget \in [Callers -> 0 .. NCtx]
    /\ ChatAgrees /\ OwnContextOnly /\ ContextFits

\* A chat preserves all that concerns the context.
LEMMA ChatPreserved ==
    ASSUME IInv, ChatStep
    PROVE  ChatPart'
<1> USE NativeRuntimeAssumption
<1>0. ChatPart
  BY DEF IInv, TypeOK, ChatPart
<1> USE <1>0 DEF ChatPart, PlaceTo
<1>1. ASSUME NEW c \in Callers, NEW r \in Runtimes, Call(c, r)
      PROVE  ChatPart'
  BY <1>1 DEF Call, ChatAgrees, OwnContextOnly, ContextFits
<1>2. ASSUME NEW c \in Callers, Begin(c)
      PROVE  ChatPart'
  BY <1>2 DEF Begin, Clear, ChatAgrees, OwnContextOnly, ContextFits
<1>3. ASSUME NEW c \in Callers, NEW prompt \in 1 .. MaxPrompt,
             NEW max_tokens \in 1 .. NCtx, DecodePrompt(c, prompt, max_tokens)
      PROVE  ChatPart'
  BY <1>3 DEF DecodePrompt, Fits, Add, ChatAgrees, OwnContextOnly, ContextFits
<1>4. ASSUME NEW c \in Callers, NEW n \in 0 .. NCtx, PromptFails(c, n)
      PROVE  ChatPart'
  BY <1>4 DEF PromptFails, Leave, Add, ChatAgrees, OwnContextOnly, ContextFits
<1>5. ASSUME NEW c \in Callers, Token(c)
      PROVE  ChatPart'
  BY <1>5 DEF Token, Add, ChatAgrees, OwnContextOnly, ContextFits
<1>6. ASSUME NEW c \in Callers, place[c] = "generating", Leave(c), UNCHANGED memory
      PROVE  ChatPart'
  BY <1>6 DEF Leave, ChatAgrees, OwnContextOnly, ContextFits
<1>7. QED
  BY <1>1, <1>2, <1>3, <1>4, <1>5, <1>6 DEF ChatStep, Chat, TokenFails, ChatEnds

\* So does the life of a runtime, which at most empties a context.
LEMMA LifeKeepsContext ==
    ASSUME IInv, LifeStep
    PROVE  ChatPart'
<1>0. ChatPart
  BY DEF IInv, TypeOK, ChatPart
<1>1. UNCHANGED <<lock, calling, place, budget>>
  BY LifeKeepsChats
<1>2. CASE UNCHANGED memory
  BY <1>0, <1>1, <1>2 DEF ChatPart, ChatAgrees, OwnContextOnly, ContextFits
<1>3. ASSUME NEW r \in Runtimes,
             memory' = [memory EXCEPT ![r] = [c \in Callers |-> 0]]
      PROVE  ChatPart'
  <2>1. memory' \in [Runtimes -> [Callers -> 0 .. NCtx]]
    BY <1>0, <1>3, NativeRuntimeAssumption DEF ChatPart
  <2>2. \A q \in Runtimes, c \in Callers : memory'[q][c] \in {0, memory[q][c]}
    BY <1>0, <1>3 DEF ChatPart
  <2>3. ChatAgrees' /\ OwnContextOnly'
    BY <1>0, <1>1, <2>2 DEF ChatPart, ChatAgrees, OwnContextOnly
  <2>4. ContextFits'
    <3> SUFFICES ASSUME NEW c \in Callers, place[c] = "generating"
                 PROVE  memory'[calling[c]][c] + budget[c] <= NCtx
      BY <1>1 DEF ContextFits
    <3>1. calling[c] \in Runtimes /\ memory[calling[c]][c] + budget[c] <= NCtx
      BY <1>0 DEF ChatPart, ChatAgrees, ContextFits
    <3>2. memory[calling[c]][c] \in 0 .. NCtx /\ budget[c] \in 0 .. NCtx
      BY <1>0, <3>1 DEF ChatPart
    <3>3. QED
      BY <2>2, <3>1, <3>2, NativeRuntimeAssumption
  <2>5. QED
    BY <1>0, <1>1, <2>1, <2>3, <2>4 DEF ChatPart
<1>4. QED
  BY <1>2, <1>3, LifeKeepsChats

\* The inductive invariant holds in every reachable state.
THEOREM NativeRuntimeInvariant == Spec => []IInv
<1>1. Init => IInv
  <2> SUFFICES ASSUME Init
               PROVE  IInv
    OBVIOUS
  <2>1. TypeOK
    <3>1. 0 \in 0 .. NCtx
      BY NativeRuntimeAssumption
    <3>2. /\ memory \in [Runtimes -> [Callers -> 0 .. NCtx]]
          /\ budget \in [Callers -> 0 .. NCtx]
      BY <3>1 DEF Init
    <3>3. /\ active \in BOOLEAN
          /\ registered \in Runtimes \cup {NoOne}
          /\ provider \in Runtimes \cup {NoOne}
          /\ parts \in [Runtimes -> SUBSET Parts]
      BY DEF Init
    <3>4. /\ phase \in [Runtimes -> {"none", "building", "unwinding", "open",
                                     "destroying"}]
          /\ lock \in [Runtimes -> Callers \cup {NoOne}]
          /\ calling \in [Callers -> Runtimes \cup {NoOne}]
          /\ place \in [Callers -> {"idle", "waiting", "locked", "generating"}]
      BY DEF Init
    <3>5. QED
      BY <3>2, <3>3, <3>4 DEF TypeOK
  <2>2. LifeAgrees
    <3>1. \A r \in Runtimes : phase[r] = "none" /\ parts[r] = {}
      BY DEF Init
    <3>2. \A r \in Runtimes : registered # r
      BY NativeRuntimeAssumption DEF Init
    <3>3. ~active /\ provider = registered
      BY DEF Init
    <3>4. QED
      BY <3>1, <3>2, <3>3 DEF LifeAgrees
  <2>3. ChatAgrees /\ OwnContextOnly /\ ContextFits
    BY DEF Init, ChatAgrees, OwnContextOnly, ContextFits
  <2>4. QED
    BY <2>1, <2>2, <2>3 DEF IInv
<1>2. ASSUME IInv, [Next]_vars
      PROVE  IInv'
  <2>1. CASE LifeStep
    <3>1. ChatPart'
      BY <1>2, <2>1, LifeKeepsContext
    <3>2. QED
      BY <1>2, <2>1, <3>1, LifePreserved DEF IInv, TypeOK, ChatPart
  <2>2. CASE ChatStep
    BY <1>2, <2>2, ChatKeepsLife, ChatPreserved
       DEF IInv, TypeOK, LifeAgrees, ChatPart, processVars, runtimeVars
  <2>3. CASE UNCHANGED vars
    BY <1>2, <2>3
       DEF IInv, TypeOK, LifeAgrees, ChatAgrees, OwnContextOnly, ContextFits,
           vars, processVars, runtimeVars, chatVars
  <2>4. QED
    BY <1>2, <2>1, <2>2, <2>3, Steps
<1>3. QED
  BY <1>1, <1>2, PTL DEF Spec

\* The type invariant; it bounds the context by n_ctx.
THEOREM NativeTypes == Spec => []TypeOK
BY NativeRuntimeInvariant, PTL DEF IInv

\* At most one runtime has parts, however opens, failures and closes meet.
THEOREM AtMostOneRuntime == Spec => []OneRuntime
<1>1. IInv => OneRuntime
  BY DEF IInv, LifeAgrees, OneRuntime
<1>2. QED
  BY <1>1, NativeRuntimeInvariant, PTL

\* The pager GGML's provider points to exists.
THEOREM ProviderNeverDangles == Spec => []ProviderAlive
<1>1. IInv => ProviderAlive
  BY DEF IInv, TypeOK, LifeAgrees, ProviderAlive
<1>2. QED
  BY <1>1, NativeRuntimeInvariant, PTL

\* A generating caller shares its context with nobody's tokens.
THEOREM ContextNotShared == Spec => []OwnContextOnly
BY NativeRuntimeInvariant, PTL DEF IInv

\* The tokens in the context and those still allowed never exceed n_ctx.
THEOREM ContextNeverOverrun == Spec => []ContextFits
BY NativeRuntimeInvariant, PTL DEF IInv

\* Failed opens and closes leave no part, no registration and no flag.
THEOREM CleanAfterwards == Spec => []NothingLeftBehind
<1>1. IInv => NothingLeftBehind
  BY DEF IInv, TypeOK, LifeAgrees, NothingLeftBehind
<1>2. QED
  BY <1>1, NativeRuntimeInvariant, PTL
=============================================================================
