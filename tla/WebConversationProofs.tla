------------------------ MODULE WebConversationProofs ------------------------
(***************************************************************************)
(* Safety of the chat page for any number of submissions, conversations,   *)
(* pieces and requests for statistics: one stream at a time, a history     *)
(* that is a dialogue and what the screen shows, and controls that agree   *)
(* with the page.                                                          *)
(***************************************************************************)
EXTENDS WebConversation, FiniteSetTheorems, SequenceTheorems, TLAPS

Messages == [role : {"user", "assistant", "error"}, of : Submissions, text : Nat]

Types ==
    /\ conversationEpoch \in Nat
    /\ history \in Seq(Messages) /\ shown \in Seq(Messages)
    /\ isStreaming \in BOOLEAN /\ runtimeReady \in BOOLEAN /\ typed \in BOOLEAN
    /\ promptDisabled \in BOOLEAN /\ sendDisabled \in BOOLEAN
    /\ abortController \in 0 .. MaxSubmissions
    /\ await \in [Submissions -> {"new", "response", "chunk", "detail", "ended"}]
    /\ epoch \in [Submissions -> Nat]

\* Submissions are made one after the other, none in a conversation to come.
InOrder ==
    \A s \in Submissions :
        /\ epoch[s] <= conversationEpoch
        /\ \A t \in Submissions : t < s /\ await[s] # "new" => await[t] # "new"

\* What is in the history or on screen has been submitted, and what is in the
\* history in this conversation.
Submitted ==
    /\ \A i \in DOMAIN history : await[history[i].of] # "new" /\ Current(history[i].of)
    /\ \A i \in DOMAIN shown : await[shown[i].of] # "new"

\* While a reply streams, its message is the last of the history and its article
\* the last on screen, the only one of the submission beside its message.
Awaited ==
    isStreaming =>
        /\ history # <<>> /\ shown # <<>>
        /\ history[Len(history)] = Message("user", abortController, 1)
        /\ shown[Len(shown)].role = "assistant" /\ shown[Len(shown)].of = abortController
        /\ \A i \in DOMAIN shown :
             shown[i].of = abortController /\ shown[i].role # "user" => i = Len(shown)

\* The history is what the first n articles say.
Agrees(h, articles, n) ==
    /\ Len(h) = Told(articles, n)
    /\ \A i \in 1 .. n : Said(articles[i]) => h[Told(articles, i)] = articles[i]

Screen == Agrees(history, shown, IF isStreaming THEN Len(shown) - 1 ELSE Len(shown))

IInv ==
    /\ Types /\ InOrder /\ Submitted /\ Awaited /\ Screen
    /\ OneStream /\ HistoryIsDialogue /\ ControlsAgree
-----------------------------------------------------------------------------
(* Counting the articles that the model will be told of                    *)

\* The count goes up with each such article.
LEMMA ToldNext ==
    ASSUME NEW a, NEW n \in Nat
    PROVE  /\ Told(a, n) \in Nat /\ Told(a, 0) = 0
           /\ Told(a, n + 1) = Told(a, n) + (IF Said(a[n + 1]) THEN 1 ELSE 0)
<1> DEFINE S(k) == {i \in 1 .. k : Said(a[i])}
<1>1. \A k \in Nat : IsFiniteSet(S(k))
  <2>1. ASSUME NEW k \in Nat
        PROVE  IsFiniteSet(S(k))
    <3>1. IsFiniteSet(1 .. k)
      BY FS_Interval
    <3>2. QED
      BY <3>1, FS_Subset
  <2>2. QED
    BY <2>1
<1>2. S(0) = {}
  OBVIOUS
<1>3. S(n + 1) = IF Said(a[n + 1]) THEN S(n) \cup {n + 1} ELSE S(n)
  OBVIOUS
<1>4. n + 1 \notin S(n)
  OBVIOUS
<1>5. \A k \in Nat : Told(a, k) = Cardinality(S(k))
  BY DEF Told
<1> HIDE DEF S
<1>6. Told(a, n) \in Nat /\ Told(a, 0) = 0
  BY <1>1, <1>2, <1>5, FS_CardinalityType, FS_EmptySet
<1>7. CASE Said(a[n + 1])
  <2>1. Cardinality(S(n) \cup {n + 1}) = Cardinality(S(n)) + 1
    BY <1>1, <1>4, FS_AddElement
  <2>2. S(n + 1) = S(n) \cup {n + 1}
    BY <1>3, <1>7
  <2>3. Told(a, n + 1) = Cardinality(S(n + 1)) /\ Told(a, n) = Cardinality(S(n))
    BY <1>5
  <2>4. QED
    BY <1>6, <1>7, <2>1, <2>2, <2>3
<1>8. CASE ~Said(a[n + 1])
  BY <1>3, <1>5, <1>6, <1>8
<1>9. QED
  BY <1>6, <1>7, <1>8

\* No article is counted before it comes or beyond the last.
LEMMA ToldWithin ==
    ASSUME NEW a, NEW n \in Nat, NEW i \in 1 .. n, Said(a[i])
    PROVE  Told(a, i) \in 1 .. Told(a, n)
<1> DEFINE S == {j \in 1 .. i : Said(a[j])}
           T == {j \in 1 .. n : Said(a[j])}
<1>1. IsFiniteSet(T) /\ S \in SUBSET T /\ i \in S
  <2>1. IsFiniteSet(1 .. n)
    BY FS_Interval
  <2>2. QED
    BY <2>1, FS_Subset
<1>2. Told(a, i) = Cardinality(S) /\ Told(a, n) = Cardinality(T)
  BY DEF Told
<1> HIDE DEF S, T
<1>3. /\ Cardinality(S) <= Cardinality(T) /\ Cardinality(T) \in Nat
      /\ IsFiniteSet(S)
  BY <1>1, FS_Subset, FS_CardinalityType
<1>4. Cardinality(S) \in Nat /\ Cardinality(S) # 0
  BY <1>1, <1>3, FS_CardinalityType, FS_EmptySet
<1>5. QED
  BY <1>2, <1>3, <1>4

\* Only the first n articles count for the history of n articles.
LEMMA AgreesSame ==
    ASSUME NEW h, NEW a, NEW b, NEW n \in Nat, \A i \in 1 .. n : a[i] = b[i],
           Agrees(h, a, n)
    PROVE  Agrees(h, b, n)
<1>1. ASSUME NEW k \in 0 .. n
      PROVE  Told(a, k) = Told(b, k)
  <2>1. {i \in 1 .. k : Said(a[i])} = {i \in 1 .. k : Said(b[i])}
    OBVIOUS
  <2>2. QED
    BY <2>1 DEF Told
<1>2. QED
  BY <1>1 DEF Agrees

\* An article that says nothing leaves the history as it is.
LEMMA AgreesSkip ==
    ASSUME NEW h, NEW a, NEW n \in Nat, Agrees(h, a, n), ~Said(a[n + 1])
    PROVE  Agrees(h, a, n + 1)
<1>1. Told(a, n + 1) = Told(a, n)
  BY ToldNext
<1>2. \A i \in 1 .. n + 1 : Said(a[i]) => i \in 1 .. n
  OBVIOUS
<1>3. QED
  BY <1>1, <1>2 DEF Agrees

\* An article that says something is appended to it.
LEMMA AgreesMore ==
    ASSUME NEW h \in Seq(Messages), NEW a, NEW n \in Nat, Agrees(h, a, n),
           Said(a[n + 1]), a[n + 1] \in Messages
    PROVE  Agrees(Append(h, a[n + 1]), a, n + 1)
<1> DEFINE g == Append(h, a[n + 1])
<1>1. /\ Len(g) = Len(h) + 1 /\ Len(h) \in Nat
      /\ \A i \in 1 .. Len(h) + 1 : g[i] = IF i <= Len(h) THEN h[i] ELSE a[n + 1]
  BY AppendProperties, LenProperties
<1> HIDE DEF g
<1>2. Told(a, n + 1) = Len(h) + 1 /\ Told(a, n) = Len(h)
  BY <1>1, ToldNext DEF Agrees
<1>3. ASSUME NEW i \in 1 .. n + 1, Said(a[i])
      PROVE  g[Told(a, i)] = a[i]
  <2>1. CASE i = n + 1
    BY <1>1, <1>2, <2>1
  <2>2. CASE i # n + 1
    <3>1. i \in 1 .. n
      BY <2>2
    <3>2. Told(a, i) \in 1 .. Len(h) /\ h[Told(a, i)] = a[i]
      BY <1>2, <1>3, <3>1, ToldWithin DEF Agrees
    <3>3. QED
      BY <1>1, <3>2
  <2>3. QED
    BY <2>1, <2>2
<1>4. QED
  BY <1>1, <1>2, <1>3 DEF Agrees, g
-----------------------------------------------------------------------------
(* The steps                                                               *)

\* The steps that leave the conversation and its stream alone; a submission may
\* go on from one await to the next, and one of an earlier conversation end.
Calm ==
    /\ UNCHANGED <<conversation, epoch, isStreaming, abortController>>
    /\ \A s \in Submissions :
         \/ await'[s] = await[s]
         \/ /\ await[s] # "new" /\ await'[s] # "new"
            /\ Live(s) /\ (~Live(s)' => ~Current(s))

\* The reply that streams ends: it is kept, has nothing to say or is removed.
Ends(s) ==
    /\ Live(s) /\ Current(s)
    /\ await' = [await EXCEPT ![s] = "ended"]
    /\ isStreaming' = FALSE /\ abortController' = 0
    /\ UNCHANGED <<conversationEpoch, epoch>>
    /\ \/ Reply(s).text > 0 /\ Keep(s) /\ UNCHANGED shown
       \/ UNCHANGED <<history, shown>> /\ ~(Reply(s).text > 0)
       \/ ShowError(s)
       \/ shown' = RemoveAt(shown, Article(s)) /\ UNCHANGED history

\* Most steps leave the conversation alone; the others are of four kinds.
LEMMA Cases ==
    ASSUME IInv, [Next]_vars
    PROVE  \/ Calm \/ NewChat
           \/ \E s \in Submissions : Submit(s) \/ Chunk(s) \/ Ends(s)
<1> USE DEF conversation, controls, submissions, Live
<1>1. await \in [Submissions -> {"new", "response", "chunk", "detail", "ended"}]
  BY DEF IInv, Types
<1>2. ASSUME NEW b, Type(b)
      PROVE  Calm
  BY <1>2 DEF Type, Calm
<1>3. CASE Stop
  BY <1>3 DEF Stop, Calm
<1>4. ASSUME NEW s \in Submissions, Respond(s)
      PROVE  Calm
  BY <1>1, <1>4 DEF Respond, Calm, ToAwait
<1>5. ASSUME NEW s \in Submissions, AbandonedReply(s)
      PROVE  Calm
  BY <1>1, <1>5 DEF AbandonedReply, Abandoned, Calm, ToAwait
<1>6. CASE Poll \/ (\E q \in Asks : Answer(q) \/ SetRuntimeUI(q)) \/ ServerTurns
  BY <1>6 DEF Poll, Answer, SetRuntimeUI, ServerTurns, Calm
<1>7. ASSUME NEW s \in Submissions, NEW d, Done(s, d)
      PROVE  Ends(s)
  BY <1>7, Zenon DEF Done, Ends, Finally, ToAwait
<1>8. ASSUME NEW s \in Submissions, Fail(s)
      PROVE  Ends(s)
  BY <1>8 DEF Fail, Ends, Finally, ToAwait
<1>9. ASSUME NEW s \in Submissions, Aborted(s)
      PROVE  Ends(s)
  BY <1>9 DEF Aborted, Ends, Finally, ToAwait
<1>10. CASE UNCHANGED vars
  BY <1>10 DEF vars, Calm
<1>11. QED
  BY <1>2, <1>3, <1>4, <1>5, <1>6, <1>7, <1>8, <1>9, <1>10 DEF Next, User, Continue

\* Where the article of the reply is.
LEMMA ArticleOf ==
    ASSUME IInv, NEW s \in Submissions, Live(s), Current(s)
    PROVE  /\ isStreaming /\ s = abortController
           /\ Len(shown) \in Nat \ {0} /\ Article(s) = Len(shown)
           /\ Reply(s) = shown[Len(shown)] /\ Reply(s) \in Messages
           /\ Reply(s).role = "assistant" /\ Reply(s).of = s
           /\ \A i \in DOMAIN shown : shown[i] \in Messages
           /\ DOMAIN shown = 1 .. Len(shown)
<1>1. OneStream /\ Awaited /\ Types
  BY DEF IInv
<1>2. isStreaming /\ s = abortController
  BY <1>1 DEF OneStream
<1>3. /\ Len(shown) \in Nat \ {0} /\ DOMAIN shown = 1 .. Len(shown)
      /\ \A i \in DOMAIN shown : shown[i] \in Messages
  BY <1>1, <1>2, LenProperties, ElementOfSeq, EmptySeq DEF Types, Awaited
<1>4. Len(shown) \in DOMAIN shown
  BY <1>3
<1>5. /\ shown[Len(shown)].role = "assistant" /\ shown[Len(shown)].of = s
      /\ \A i \in DOMAIN shown : shown[i].of = s /\ shown[i].role # "user" => i = Len(shown)
  BY <1>1, <1>2 DEF Awaited
<1>6. Article(s) = Len(shown)
  BY <1>4, <1>5 DEF Article
<1>7. QED
  BY <1>2, <1>3, <1>4, <1>5, <1>6 DEF Reply

\* What is kept of a reply is its article.
LEMMA Kept ==
    ASSUME IInv, NEW s \in Submissions, Live(s), Current(s)
    PROVE  Message("assistant", s, Reply(s).text) = Reply(s)
BY ArticleOf DEF Messages, Message

\* The three ends of a reply.
LEMMA EndCases ==
    ASSUME IInv, NEW s \in Submissions, Ends(s)
    PROVE  LET n == Len(shown) IN
           \/ /\ history' = Append(history, shown[n]) /\ shown' = shown
              /\ Said(shown[n])
           \/ /\ history' = history /\ shown' \in Seq(Messages) /\ Len(shown') = n
              /\ \A i \in 1 .. n - 1 : shown'[i] = shown[i]
              /\ ~Said(shown'[n]) /\ shown'[n].of = s
           \/ /\ history' = history /\ shown' \in Seq(Messages) /\ Len(shown') = n - 1
              /\ \A i \in 1 .. n - 1 : shown'[i] = shown[i]
<1> DEFINE n == Len(shown)
<1>1. Live(s) /\ Current(s) /\ shown \in Seq(Messages)
  BY DEF Ends, IInv, Types
<1>2. /\ n \in Nat \ {0} /\ Article(s) = n /\ Reply(s) = shown[n] /\ shown[n] \in Messages
      /\ shown[n].role = "assistant" /\ shown[n].of = s /\ DOMAIN shown = 1 .. n
      /\ \A i \in 1 .. n : shown[i] \in Messages
  BY <1>1, ArticleOf
<1> HIDE DEF n
<1>3. CASE Reply(s).text > 0 /\ Keep(s) /\ UNCHANGED shown
  <2>1. history' = Append(history, shown[n])
    BY <1>1, <1>2, <1>3, Kept DEF Keep
  <2>2. Said(shown[n])
    BY <1>2, <1>3 DEF Said
  <2>3. QED
    BY <1>3, <2>1, <2>2 DEF n
<1>4. CASE UNCHANGED <<history, shown>> /\ ~(Reply(s).text > 0)
  BY <1>1, <1>2, <1>4 DEF Said, n
<1>5. CASE ShowError(s)
  <2>1. history' = history /\ shown' = [shown EXCEPT ![n] = Message("error", s, 0)]
    BY <1>2, <1>5 DEF ShowError
  <2>2. Message("error", s, 0) \in Messages
    BY DEF Message, Messages
  <2>3. shown' \in [1 .. n -> Messages]
    BY <1>2, <2>1, <2>2
  <2>4. shown' \in Seq(Messages) /\ Len(shown') = n
    BY <1>2, <2>3, SeqDef, LenProperties
  <2>5. shown'[n] = Message("error", s, 0) /\ \A i \in 1 .. n - 1 : shown'[i] = shown[i]
    BY <1>2, <2>1
  <2>6. ~Said(shown'[n]) /\ shown'[n].of = s
    BY <2>5 DEF Said, Message
  <2>7. QED
    BY <2>1, <2>4, <2>5, <2>6 DEF n
<1>6. CASE shown' = RemoveAt(shown, Article(s)) /\ UNCHANGED history
  <2> DEFINE a == SubSeq(shown, 1, n - 1)
             z == SubSeq(shown, n + 1, n)
  <2>1. shown' = a \o z
    BY <1>2, <1>6 DEF RemoveAt, n
  <2>2. /\ a \in Seq(Messages) /\ Len(a) = n - 1
        /\ \A i \in 1 .. n - 1 : a[i] = shown[i]
    <3>1. \A i \in 1 .. n - 1 : shown[i] \in Messages
      BY <1>2
    <3>2. /\ a \in Seq(Messages) /\ Len(a) = IF 1 <= n - 1 THEN (n - 1) - 1 + 1 ELSE 0
          /\ \A i \in 1 .. (n - 1) - 1 + 1 : a[i] = shown[1 + i - 1]
      BY <1>1, <1>2, <3>1, SubSeqProperties
    <3> HIDE DEF a
    <3>3. QED
      BY <1>2, <3>2
  <2>3. z \in Seq(Messages) /\ Len(z) = 0
    <3>1. \A i \in n + 1 .. n : shown[i] \in Messages
      BY <1>2
    <3>2. z \in Seq(Messages) /\ Len(z) = IF n + 1 <= n THEN n - (n + 1) + 1 ELSE 0
      BY <1>1, <1>2, <3>1, SubSeqProperties
    <3> HIDE DEF z
    <3>3. QED
      BY <1>2, <3>2
  <2> HIDE DEF a, z
  <2>4. z = <<>>
    BY <2>3, EmptySeq
  <2>5. shown' = a
    BY <2>1, <2>2, <2>4, ConcatEmptySeq
  <2>6. QED
    BY <1>6, <2>2, <2>5 DEF n
<1>7. QED
  BY <1>3, <1>4, <1>5, <1>6 DEF Ends

\* A submission adds its message and an empty article, at the end.
LEMMA Submits ==
    ASSUME IInv, NEW s \in Submissions, Submit(s)
    PROVE  LET n == Len(shown) IN
           /\ n \in Nat /\ shown' \in Seq(Messages) /\ Len(shown') = n + 2
           /\ \A i \in 1 .. n : shown'[i] = shown[i]
           /\ shown'[n + 1] = Message("user", s, 1) /\ shown'[n + 2] = Message("assistant", s, 0)
           /\ Message("user", s, 1) \in Messages
           /\ history' = Append(history, Message("user", s, 1))
           /\ DOMAIN shown = 1 .. n /\ DOMAIN shown' = 1 .. n + 2
<1> DEFINE n == Len(shown)
           m == <<Message("user", s, 1), Message("assistant", s, 0)>>
<1>1. shown \in Seq(Messages) /\ n \in Nat /\ DOMAIN shown = 1 .. n
  BY LenProperties DEF IInv, Types
<1>2. Message("user", s, 1) \in Messages /\ Message("assistant", s, 0) \in Messages
  BY DEF Message, Messages
<1>3. /\ m \in Seq(Messages) /\ Len(m) = 2
      /\ m[1] = Message("user", s, 1) /\ m[2] = Message("assistant", s, 0)
  BY <1>2
<1>4. shown' = shown \o m /\ history' = Append(history, Message("user", s, 1))
  BY DEF Submit
<1> HIDE DEF m, n
<1>5. /\ shown' \in Seq(Messages) /\ Len(shown') = n + 2
      /\ \A i \in 1 .. n + 2 : shown'[i] = IF i <= n THEN shown[i] ELSE m[i - n]
  <2>1. shown \in Seq(Messages) /\ n = Len(shown)
    BY <1>1 DEF n
  <2>2. /\ shown \o m \in Seq(Messages) /\ Len(shown \o m) = n + Len(m)
        /\ \A i \in 1 .. n + Len(m) : (shown \o m)[i] = IF i <= n THEN shown[i] ELSE m[i - n]
    BY <1>3, <2>1, ConcatProperties
  <2>3. QED
    BY <1>3, <1>4, <2>2
<1>6. shown'[n + 1] = m[1] /\ shown'[n + 2] = m[2] /\ \A i \in 1 .. n : shown'[i] = shown[i]
  <2>1. /\ n + 1 \in 1 .. n + 2 /\ ~(n + 1 <= n) /\ (n + 1) - n = 1
        /\ n + 2 \in 1 .. n + 2 /\ ~(n + 2 <= n) /\ (n + 2) - n = 2
        /\ \A i \in 1 .. n : i \in 1 .. n + 2 /\ i <= n
    BY <1>1
  <2>2. QED
    BY <1>5, <2>1
<1>7. QED
  BY <1>1, <1>2, <1>3, <1>4, <1>5, <1>6, LenProperties DEF n

\* A piece changes the text of the last article, and nothing else.
LEMMA Chunks ==
    ASSUME IInv, NEW s \in Submissions, Chunk(s)
    PROVE  LET n == Len(shown) IN
           /\ n \in Nat \ {0} /\ shown' \in Seq(Messages) /\ Len(shown') = n
           /\ DOMAIN shown = 1 .. n /\ DOMAIN shown' = 1 .. n
           /\ \A i \in 1 .. n - 1 : shown'[i] = shown[i]
           /\ shown'[n].role = "assistant" /\ shown'[n].of = s
           /\ isStreaming /\ s = abortController
<1> DEFINE n == Len(shown)
<1>1. Live(s) /\ Current(s) /\ shown \in Seq(Messages)
  BY DEF Chunk, Live, IInv, Types
<1>2. /\ n \in Nat \ {0} /\ Article(s) = n /\ shown[n] \in Messages
      /\ shown[n].role = "assistant" /\ shown[n].of = s /\ DOMAIN shown = 1 .. n
      /\ \A i \in 1 .. n : shown[i] \in Messages
      /\ isStreaming /\ s = abortController
  BY <1>1, ArticleOf
<1> HIDE DEF n
<1>3. shown' = [shown EXCEPT ![n].text = @ + 1]
  BY <1>2 DEF Chunk
<1>4. /\ shown'[n] = [shown[n] EXCEPT !.text = @ + 1]
      /\ \A i \in 1 .. n - 1 : shown'[i] = shown[i] /\ DOMAIN shown' = 1 .. n
  BY <1>2, <1>3
<1>5. /\ shown'[n] \in Messages /\ shown'[n].role = "assistant" /\ shown'[n].of = s
  BY <1>2, <1>4 DEF Messages
<1>6. shown' \in [1 .. n -> Messages]
  BY <1>2, <1>3, <1>4, <1>5
<1>7. shown' \in Seq(Messages) /\ Len(shown') = n /\ DOMAIN shown' = 1 .. n
  BY <1>2, <1>6, SeqDef, LenProperties
<1>8. QED
  BY <1>2, <1>4, <1>5, <1>7 DEF n
-----------------------------------------------------------------------------
(* Types and controls                                                      *)

\* Every step keeps the types.
LEMMA TypesStep == IInv /\ [Next]_vars => Types'
<1> SUFFICES ASSUME IInv, [Next]_vars
             PROVE  Types'
  OBVIOUS
<1> USE DEF conversation, controls, submissions
<1>1. Types /\ ControlsAgree
  BY DEF IInv
<1>2. ASSUME UpdateSendState, isStreaming' \in BOOLEAN, runtimeReady' \in BOOLEAN,
             typed' \in BOOLEAN
      PROVE  sendDisabled' \in BOOLEAN
  BY <1>2 DEF UpdateSendState
<1>3. ASSUME NEW b \in BOOLEAN, Type(b)
      PROVE  Types'
  BY <1>1, <1>2, <1>3 DEF Type, Types
<1>4. ASSUME NEW s \in Submissions, Submit(s)
      PROVE  Types'
  <2>1. shown' \in Seq(Messages) /\ history' \in Seq(Messages)
    <3>1. history \in Seq(Messages) /\ history' = Append(history, Message("user", s, 1))
          /\ Message("user", s, 1) \in Messages
      BY <1>1, <1>4, Submits DEF Types
    <3>2. QED
      BY <1>4, <3>1, Submits, AppendProperties
  <2>2. s \in 0 .. MaxSubmissions
    BY WebAssumption DEF Submissions
  <2>3. await' \in [Submissions -> {"new", "response", "chunk", "detail", "ended"}]
        /\ epoch' \in [Submissions -> Nat]
    BY <1>1, <1>4 DEF Submit, Types
  <2>4. /\ isStreaming' \in BOOLEAN /\ typed' \in BOOLEAN /\ runtimeReady' \in BOOLEAN
        /\ promptDisabled' \in BOOLEAN /\ abortController' \in 0 .. MaxSubmissions
        /\ conversationEpoch' \in Nat /\ UpdateSendState
    BY <1>1, <1>4, <2>2 DEF Submit, Types
  <2>5. QED
    BY <1>2, <2>1, <2>3, <2>4 DEF Types
<1>5. CASE Stop
  BY <1>1, <1>5 DEF Stop, Types
<1>6. CASE NewChat
  <2>1. <<>> \in Seq(Messages) /\ 0 \in 0 .. MaxSubmissions
    BY EmptySeq, WebAssumption
  <2>2. /\ history' \in Seq(Messages) /\ shown' \in Seq(Messages)
        /\ isStreaming' \in BOOLEAN /\ typed' \in BOOLEAN /\ runtimeReady' \in BOOLEAN
        /\ abortController' \in 0 .. MaxSubmissions
        /\ conversationEpoch' \in Nat /\ UNCHANGED <<await, epoch>>
    <3>1. /\ isStreaming' = FALSE /\ typed' = FALSE /\ runtimeReady' = runtimeReady
          /\ abortController' = 0 /\ conversationEpoch' = conversationEpoch + 1
          /\ history' = <<>> /\ shown' = <<>> /\ UNCHANGED <<await, epoch>>
      BY <1>6, Zenon DEF NewChat, NewConversation
    <3>2. isStreaming' \in BOOLEAN /\ typed' \in BOOLEAN /\ runtimeReady' \in BOOLEAN
      BY <1>1, <3>1 DEF Types
    <3>3. abortController' \in 0 .. MaxSubmissions
      BY <2>1, <3>1
    <3>4. QED
      BY <1>1, <2>1, <3>1, <3>2, <3>3 DEF Types
  <2>3. promptDisabled' \in BOOLEAN /\ UpdateSendState
    BY <1>6, Zenon DEF NewChat, EnablePrompt
  <2>4. QED
    BY <1>1, <1>2, <2>2, <2>3 DEF Types
<1>7. ASSUME NEW s \in Submissions, Respond(s) \/ AbandonedReply(s)
      PROVE  Types'
  BY <1>1, <1>7 DEF Respond, AbandonedReply, Abandoned, ToAwait, Types
<1>8. ASSUME NEW s \in Submissions, Chunk(s)
      PROVE  Types'
  <2>1. shown' \in Seq(Messages)
    BY <1>8, Chunks
  <2>2. QED
    BY <1>1, <1>8, <2>1 DEF Chunk, Types
<1>9. ASSUME NEW s \in Submissions, Finally(s), Ends(s)
      PROVE  Types'
  <2>1. history' \in Seq(Messages) /\ shown' \in Seq(Messages)
    <3>1. history \in Seq(Messages) /\ shown \in Seq(Messages)
      BY <1>1 DEF Types
    <3>2. shown[Len(shown)] \in Messages
      BY <1>9, ArticleOf DEF Ends
    <3>3. Append(history, shown[Len(shown)]) \in Seq(Messages)
      BY <3>1, <3>2, AppendProperties
    <3>4. QED
      BY <1>9, <3>1, <3>3, EndCases
  <2>2. /\ isStreaming' \in BOOLEAN /\ typed' \in BOOLEAN /\ runtimeReady' \in BOOLEAN
        /\ abortController' \in 0 .. MaxSubmissions
        /\ conversationEpoch' \in Nat /\ epoch' = epoch
    <3>1. /\ isStreaming' = FALSE /\ typed' = typed /\ runtimeReady' = runtimeReady
          /\ abortController' = 0 /\ UNCHANGED <<conversationEpoch, epoch>>
      BY <1>9, Zenon DEF Finally
    <3>2. isStreaming' \in BOOLEAN /\ typed' \in BOOLEAN /\ runtimeReady' \in BOOLEAN
      BY <1>1, <3>1 DEF Types
    <3>3. abortController' \in 0 .. MaxSubmissions
      BY <3>1, WebAssumption
    <3>4. QED
      BY <1>1, <3>1, <3>2, <3>3 DEF Types
  <2>3. await' \in [Submissions -> {"new", "response", "chunk", "detail", "ended"}]
    BY <1>1, <1>9 DEF Finally, ToAwait, Types
  <2>4. promptDisabled' \in BOOLEAN /\ UpdateSendState
    BY <1>9, Zenon DEF Finally, EnablePrompt
  <2>5. QED
    BY <1>1, <1>2, <2>1, <2>2, <2>3, <2>4 DEF Types
<1>10. CASE Poll \/ (\E q \in Asks : Answer(q)) \/ ServerTurns \/ UNCHANGED vars
  BY <1>1, <1>10 DEF Poll, Answer, ServerTurns, vars, Types
<1>11. ASSUME NEW q \in Asks, SetRuntimeUI(q)
       PROVE  Types'
  <2>1. /\ isStreaming' \in BOOLEAN /\ typed' \in BOOLEAN /\ runtimeReady' \in BOOLEAN
        /\ promptDisabled' \in BOOLEAN /\ abortController' \in 0 .. MaxSubmissions
        /\ UpdateSendState /\ UNCHANGED <<conversation, await, epoch>>
    BY <1>1, <1>11 DEF SetRuntimeUI, Learn, Types
  <2>2. QED
    BY <1>1, <1>2, <2>1 DEF Types
<1>12. ASSUME NEW s \in Submissions, (\E d \in BOOLEAN : Done(s, d)) \/ Fail(s) \/ Aborted(s)
       PROVE  Finally(s) /\ Ends(s)
  <2>1. Finally(s)
    BY <1>12, Zenon DEF Done, Fail, Aborted
  <2>2. /\ Live(s) /\ Current(s)
        /\ \/ Reply(s).text > 0 /\ Keep(s) /\ UNCHANGED shown
           \/ UNCHANGED <<history, shown>> /\ ~(Reply(s).text > 0)
           \/ ShowError(s)
           \/ shown' = RemoveAt(shown, Article(s)) /\ UNCHANGED history
    BY <1>12 DEF Done, Fail, Aborted, Live
  <2>3. QED
    BY <2>1, <2>2 DEF Ends, Finally, ToAwait
<1>13. QED
  BY <1>3, <1>4, <1>5, <1>6, <1>7, <1>8, <1>9, <1>10, <1>11, <1>12
  DEF Next, User, Continue

\* Every handler that changes what the controls depend on sets them anew.
LEMMA ControlsStep == IInv /\ [Next]_vars => ControlsAgree'
<1> SUFFICES ASSUME IInv, [Next]_vars
             PROVE  ControlsAgree'
  OBVIOUS
<1> USE DEF conversation, controls, submissions
<1>1. Types /\ ControlsAgree
  BY DEF IInv
<1>2. ASSUME UpdateSendState, ~isStreaming' => promptDisabled' = ~runtimeReady'
      PROVE  ControlsAgree'
  BY <1>2 DEF UpdateSendState, ControlsAgree
<1>3. ASSUME NEW b \in BOOLEAN, Type(b)
      PROVE  ControlsAgree'
  BY <1>1, <1>2, <1>3 DEF Type, ControlsAgree
<1>4. ASSUME NEW s \in Submissions, Submit(s)
      PROVE  ControlsAgree'
  BY <1>2, <1>4 DEF Submit
<1>5. CASE NewChat
  BY <1>2, <1>5 DEF NewChat, EnablePrompt
<1>6. ASSUME NEW s \in Submissions, Finally(s)
      PROVE  ControlsAgree'
  BY <1>2, <1>6 DEF Finally, EnablePrompt
<1>7. ASSUME NEW q \in Asks, SetRuntimeUI(q)
      PROVE  ControlsAgree'
  <2>1. UpdateSendState /\ promptDisabled' = (~runtimeReady' \/ isStreaming)
        /\ isStreaming' = isStreaming /\ isStreaming \in BOOLEAN /\ runtimeReady' \in BOOLEAN
    BY <1>1, <1>7 DEF SetRuntimeUI, Learn, Types
  <2>2. QED
    BY <1>2, <2>1
<1>8. CASE UNCHANGED controls
  BY <1>1, <1>8 DEF ControlsAgree
<1>9. ASSUME NEW s \in Submissions, Continue(s)
      PROVE  UNCHANGED controls \/ Finally(s)
  BY <1>9, Zenon DEF Continue, Respond, Chunk, Done, Fail, Aborted, AbandonedReply, Abandoned
<1>10. CASE Stop \/ Poll \/ (\E q \in Asks : Answer(q)) \/ ServerTurns \/ UNCHANGED vars
  BY <1>8, <1>10 DEF Stop, Poll, Answer, ServerTurns, vars
<1>11. QED
  BY <1>3, <1>4, <1>5, <1>6, <1>7, <1>8, <1>9, <1>10 DEF Next, User
-----------------------------------------------------------------------------
(* The conversation                                                        *)

Conversation ==
    InOrder /\ Submitted /\ Awaited /\ Screen /\ OneStream /\ HistoryIsDialogue

\* The members of the history.
LEMMA HistoryOf ==
    ASSUME IInv
    PROVE  /\ Len(history) \in Nat /\ DOMAIN history = 1 .. Len(history)
           /\ \A i \in DOMAIN history : history[i] \in Messages /\ history[i].of \in Submissions
           /\ \A i \in DOMAIN shown : shown[i] \in Messages /\ shown[i].of \in Submissions
           /\ DOMAIN shown = 1 .. Len(shown) /\ Len(shown) \in Nat
<1>1. history \in Seq(Messages) /\ shown \in Seq(Messages)
  BY DEF IInv, Types
<1>2. /\ Len(history) \in Nat /\ DOMAIN history = 1 .. Len(history)
      /\ DOMAIN shown = 1 .. Len(shown) /\ Len(shown) \in Nat
  BY <1>1, LenProperties
<1>3. /\ \A i \in DOMAIN history : history[i] \in Messages
      /\ \A i \in DOMAIN shown : shown[i] \in Messages
  BY <1>1, <1>2, ElementOfSeq
<1>4. QED
  BY <1>2, <1>3 DEF Messages

\* A step that leaves the conversation alone keeps all of it.
LEMMA CalmKeeps == IInv /\ Calm => Conversation'
<1> SUFFICES ASSUME IInv, Calm
             PROVE  Conversation'
  OBVIOUS
<1> USE DEF conversation
<1>1. /\ UNCHANGED <<conversationEpoch, history, shown, epoch, isStreaming, abortController>>
      /\ \A s \in Submissions :
           \/ await'[s] = await[s]
           \/ /\ await[s] # "new" /\ await'[s] # "new"
              /\ Live(s) /\ (~Live(s)' => ~Current(s))
  BY DEF Calm
<1>2. \A s \in Submissions : /\ await'[s] # "new" <=> await[s] # "new"
                             /\ Live(s)' /\ Current(s)' <=> Live(s) /\ Current(s)
  BY <1>1 DEF Live, Current
<1>3. InOrder'
  BY <1>1, <1>2 DEF IInv, InOrder
<1>4. Submitted'
  <2>1. Submitted
    BY DEF IInv
  <2>2. QED
    BY <1>1, <1>2, <2>1, HistoryOf DEF Submitted, Current
<1>5. Awaited' /\ Screen' /\ HistoryIsDialogue'
  BY <1>1 DEF IInv, Awaited, Screen, HistoryIsDialogue, Current
<1>6. OneStream'
  BY <1>1, <1>2 DEF IInv, OneStream
<1>7. QED
  BY <1>3, <1>4, <1>5, <1>6 DEF Conversation

\* A submission starts the only stream, after everything that has been said.
LEMMA SubmitKeeps ==
    ASSUME IInv, NEW s \in Submissions, Submit(s)
    PROVE  Conversation'
<1> DEFINE n == Len(shown)
           m == Len(history)
           u == Message("user", s, 1)
<1>1. /\ InOrder /\ Submitted /\ Screen /\ OneStream /\ HistoryIsDialogue /\ Types
      /\ history \in Seq(Messages)
  BY DEF IInv, Types
<1>2. /\ ~isStreaming /\ await[s] = "new" /\ isStreaming' = TRUE /\ abortController' = s
      /\ conversationEpoch' = conversationEpoch
      /\ await' = [await EXCEPT ![s] = "response"]
      /\ epoch' = [epoch EXCEPT ![s] = conversationEpoch]
  BY DEF Submit
<1>3. /\ await'[s] = "response" /\ epoch'[s] = conversationEpoch
      /\ \A t \in Submissions \ {s} : await'[t] = await[t] /\ epoch'[t] = epoch[t]
  BY <1>1, <1>2 DEF Types
<1>4. /\ n \in Nat /\ shown' \in Seq(Messages) /\ Len(shown') = n + 2
      /\ \A i \in 1 .. n : shown'[i] = shown[i]
      /\ shown'[n + 1] = u /\ shown'[n + 2] = Message("assistant", s, 0)
      /\ u \in Messages /\ history' = Append(history, u)
      /\ DOMAIN shown = 1 .. n /\ DOMAIN shown' = 1 .. n + 2
  BY Submits
<1>5. /\ m \in Nat /\ DOMAIN history = 1 .. m
      /\ \A i \in DOMAIN history : history[i].of \in Submissions
      /\ \A i \in DOMAIN shown : shown[i].of \in Submissions
  BY HistoryOf
<1>6. u.role = "user" /\ u.of = s /\ u.text = 1
  BY DEF Message
<1> HIDE DEF n, m, u
<1>7. /\ DOMAIN history' = 1 .. m + 1 /\ Len(history') = m + 1 /\ history'[m + 1] = u
      /\ \A i \in 1 .. m : history'[i] = history[i]
  <2>1. /\ history' \in Seq(Messages) /\ Len(history') = m + 1
        /\ \A i \in 1 .. m + 1 : history'[i] = IF i <= m THEN history[i] ELSE u
    BY <1>1, <1>4, AppendProperties DEF m
  <2>2. QED
    BY <1>5, <2>1, LenProperties
<1>8. \A t \in Submissions : t >= s => await[t] = "new"
  <2>1. ASSUME NEW t \in Submissions, t > s, await[t] # "new"
        PROVE  FALSE
    BY <1>1, <1>2, <2>1 DEF InOrder, Submissions
  <2>2. QED
    BY <1>2, <2>1, WebAssumption DEF Submissions
<1>9. InOrder'
  <2>1. \A t \in 1 .. s - 1 : await[t] # "new"
    BY DEF Submit
  <2>2. conversationEpoch \in Nat
    BY <1>1 DEF Types
  <2>3. \A r \in Submissions : epoch'[r] <= conversationEpoch'
    BY <1>1, <1>2, <1>3, <2>2 DEF InOrder
  <2>4. ASSUME NEW r \in Submissions, NEW t \in Submissions, t < r, await'[r] # "new"
        PROVE  await'[t] # "new"
    <3>1. CASE r = s
      <4>1. t \in 1 .. s - 1
        BY <2>4, <3>1, WebAssumption DEF Submissions
      <4>2. QED
        BY <1>3, <2>1, <2>4, <3>1, <4>1
    <3>2. CASE r # s
      BY <1>1, <1>3, <2>4, <3>2 DEF InOrder
    <3>3. QED
      BY <3>1, <3>2
  <2>5. QED
    BY <2>3, <2>4 DEF InOrder
<1>10. /\ \A i \in 1 .. m : history[i].of # s /\ await[history[i].of] # "new"
                            /\ Current(history[i].of)
       /\ \A i \in 1 .. n : shown[i].of # s /\ await[shown[i].of] # "new"
  BY <1>1, <1>2, <1>4, <1>5 DEF Submitted
<1>11. Submitted'
  <2>1. ASSUME NEW i \in 1 .. m + 1
        PROVE  await'[history'[i].of] # "new" /\ epoch'[history'[i].of] = conversationEpoch'
    <3>1. CASE i \in 1 .. m
      BY <1>2, <1>3, <1>5, <1>7, <1>10, <3>1 DEF Current
    <3>2. CASE i = m + 1
      BY <1>2, <1>3, <1>6, <1>7, <3>2 DEF Current
    <3>3. QED
      BY <1>5, <3>1, <3>2
  <2>2. ASSUME NEW i \in 1 .. n + 2
        PROVE  await'[shown'[i].of] # "new"
    <3>1. CASE i \in 1 .. n
      BY <1>3, <1>4, <1>5, <1>10, <3>1
    <3>2. CASE i = n + 1 \/ i = n + 2
      BY <1>3, <1>4, <1>6, <3>2 DEF Message
    <3>3. QED
      BY <1>4, <3>1, <3>2
  <2>3. QED
    BY <1>4, <1>7, <2>1, <2>2 DEF Submitted, Current
<1>12. Awaited'
  <2>1. history' # <<>> /\ shown' # <<>>
    BY <1>4, <1>5, <1>7
  <2>2. history'[Len(history')] = u
    BY <1>7
  <2>3. shown'[Len(shown')].role = "assistant" /\ shown'[Len(shown')].of = s
    BY <1>4 DEF Message
  <2>4. ASSUME NEW i \in 1 .. n + 2, shown'[i].of = s, shown'[i].role # "user"
        PROVE  i = n + 2
    <3>1. CASE i \in 1 .. n
      BY <1>4, <1>10, <2>4, <3>1
    <3>2. CASE i = n + 1
      BY <1>4, <1>6, <2>4, <3>2
    <3>3. QED
      BY <1>4, <3>1, <3>2
  <2>5. QED
    BY <1>2, <1>4, <2>1, <2>2, <2>3, <2>4 DEF Awaited, u
<1>13. Screen'
  <2>1. Agrees(history, shown, n)
    BY <1>1, <1>2 DEF Screen, n
  <2>2. Agrees(history, shown', n)
    BY <1>4, <2>1, AgreesSame
  <2>3. Said(shown'[n + 1])
    BY <1>4, <1>6 DEF Said
  <2>4. Agrees(Append(history, shown'[n + 1]), shown', n + 1)
    BY <1>1, <1>4, <2>2, <2>3, AgreesMore
  <2>5. Agrees(history', shown', n + 1)
    BY <1>4, <2>4
  <2>6. Len(shown') - 1 = n + 1
    BY <1>4
  <2>7. QED
    BY <1>2, <2>5, <2>6 DEF Screen
<1>14. OneStream'
  <2>1. \A t \in Submissions : ~(Live(t) /\ Current(t))
    BY <1>1, <1>2 DEF OneStream
  <2>2. \A t \in Submissions : Live(t)' /\ Current(t)' <=> t = s
    BY <1>2, <1>3, <2>1 DEF Live, Current
  <2>3. {t \in Submissions : Live(t)' /\ Current(t)'} = {s}
    BY <2>2
  <2>4. QED
    BY <1>2, <2>3 DEF OneStream
<1>15. HistoryIsDialogue'
  <2>1. ASSUME NEW i \in 1 .. m + 1
        PROVE  /\ history'[i].role = "assistant" =>
                    i > 1 /\ history'[i - 1] = Message("user", history'[i].of, 1)
               /\ \A j \in 1 .. i - 1 : history'[j].of <= history'[i].of
    <3>1. CASE i \in 1 .. m
      <4>1. /\ history[i].role = "assistant" =>
                 i > 1 /\ history[i - 1] = Message("user", history[i].of, 1)
            /\ \A j \in 1 .. i - 1 : history[j].of <= history[i].of
        BY <1>1, <1>5, <3>1 DEF HistoryIsDialogue
      <4>2. \A j \in 1 .. i - 1 : j \in 1 .. m
        BY <1>5, <3>1
      <4>3. i > 1 => i - 1 \in 1 .. i - 1
        BY <1>5, <3>1
      <4>4. QED
        BY <1>7, <3>1, <4>1, <4>2, <4>3
    <3>2. CASE i = m + 1
      <4>1. \A j \in 1 .. m : history[j].of <= s
        BY <1>5, <1>8, <1>10, WebAssumption DEF Submissions
      <4>2. i - 1 = m
        BY <1>5, <3>2
      <4>3. QED
        BY <1>6, <1>7, <3>2, <4>1, <4>2
    <3>3. QED
      BY <1>5, <3>1, <3>2
  <2>2. \A i \in 1 .. m + 1 : epoch'[history'[i].of] = conversationEpoch'
    BY <1>7, <1>11 DEF Submitted, Current
  <2>3. QED
    BY <1>7, <2>1, <2>2 DEF HistoryIsDialogue, Current
<1>16. QED
  BY <1>9, <1>11, <1>12, <1>13, <1>14, <1>15 DEF Conversation

\* A new conversation has no submission under way, though others may be.
LEMMA NewChatKeeps == IInv /\ NewChat => Conversation'
<1> SUFFICES ASSUME IInv, NewChat
             PROVE  Conversation'
  OBVIOUS
<1>1. Types /\ InOrder
  BY DEF IInv
<1>2. /\ conversationEpoch' = conversationEpoch + 1 /\ isStreaming' = FALSE
      /\ history' = <<>> /\ shown' = <<>> /\ UNCHANGED <<await, epoch>>
  BY Zenon DEF NewChat, NewConversation
<1>3. conversationEpoch \in Nat /\ \A s \in Submissions : epoch[s] \in Nat
  BY <1>1 DEF Types
<1>4. \A s \in Submissions : epoch'[s] < conversationEpoch'
  BY <1>1, <1>2, <1>3 DEF InOrder
<1>5. InOrder'
  BY <1>1, <1>2, <1>3 DEF InOrder
<1>6. Submitted' /\ Awaited' /\ HistoryIsDialogue'
  BY <1>2 DEF Submitted, Awaited, HistoryIsDialogue
<1>7. OneStream'
  <2>1. \A s \in Submissions : ~Current(s)'
    BY <1>2, <1>3, <1>4 DEF Current
  <2>2. QED
    BY <1>2, <2>1 DEF OneStream
<1>8. Screen'
  <2>1. Len(<<>>) = 0 /\ Told(<<>>, 0) = 0
    BY ToldNext
  <2>2. Agrees(<<>>, <<>>, 0)
    BY <2>1 DEF Agrees
  <2>3. QED
    BY <1>2, <2>1, <2>2 DEF Screen
<1>9. QED
  BY <1>5, <1>6, <1>7, <1>8 DEF Conversation

\* A piece goes to the article that nothing counts yet.
LEMMA ChunkKeeps ==
    ASSUME IInv, NEW s \in Submissions, Chunk(s)
    PROVE  Conversation'
<1> DEFINE n == Len(shown)
<1>1. InOrder /\ Submitted /\ Awaited /\ Screen /\ OneStream /\ HistoryIsDialogue
  BY DEF IInv
<1>2. UNCHANGED <<conversationEpoch, history, isStreaming, abortController, await, epoch>>
  BY DEF Chunk, controls, submissions
<1>3. /\ n \in Nat \ {0} /\ shown' \in Seq(Messages) /\ Len(shown') = n
      /\ DOMAIN shown = 1 .. n /\ DOMAIN shown' = 1 .. n
      /\ \A i \in 1 .. n - 1 : shown'[i] = shown[i]
      /\ shown'[n].role = "assistant" /\ shown'[n].of = s
      /\ isStreaming /\ s = abortController
  BY Chunks
<1>4. shown[n].of = s
  BY <1>1, <1>3 DEF Awaited
<1> HIDE DEF n
<1>5. \A i \in 1 .. n : shown'[i].of = shown[i].of
  BY <1>3, <1>4
<1>6. InOrder' /\ OneStream' /\ HistoryIsDialogue'
  BY <1>1, <1>2 DEF InOrder, OneStream, HistoryIsDialogue, Live, Current
<1>7. Submitted'
  BY <1>1, <1>2, <1>3, <1>5 DEF Submitted, Current
<1>8. Awaited'
  <2>1. shown' # <<>>
    BY <1>3
  <2>2. ASSUME NEW i \in 1 .. n, shown'[i].of = s, shown'[i].role # "user"
        PROVE  i = n
    BY <1>1, <1>3, <2>2 DEF Awaited, n
  <2>3. QED
    BY <1>1, <1>2, <1>3, <2>1, <2>2 DEF Awaited
<1>9. Screen'
  <2>1. Agrees(history, shown, n - 1)
    BY <1>1, <1>3 DEF Screen, n
  <2>2. Agrees(history, shown', n - 1)
    BY <1>3, <2>1, AgreesSame
  <2>3. QED
    BY <1>2, <1>3, <2>2 DEF Screen
<1>10. QED
  BY <1>6, <1>7, <1>8, <1>9 DEF Conversation

\* A reply that ends leaves the screen and the history in step.
LEMMA EndKeeps ==
    ASSUME IInv, NEW s \in Submissions, Ends(s)
    PROVE  Conversation'
<1> DEFINE n == Len(shown)
           m == Len(history)
<1>1. /\ InOrder /\ Submitted /\ Awaited /\ Screen /\ OneStream /\ HistoryIsDialogue
      /\ Types /\ history \in Seq(Messages)
  BY DEF IInv, Types
<1>2. /\ Live(s) /\ Current(s) /\ isStreaming' = FALSE /\ abortController' = 0
      /\ UNCHANGED <<conversationEpoch, epoch>>
      /\ await' = [await EXCEPT ![s] = "ended"]
  BY Zenon DEF Ends
<1>3. await'[s] = "ended" /\ \A t \in Submissions \ {s} : await'[t] = await[t]
  BY <1>1, <1>2 DEF Types
<1>4. /\ n \in Nat \ {0} /\ isStreaming /\ s = abortController
      /\ shown[n] \in Messages /\ shown[n].role = "assistant" /\ shown[n].of = s
  BY <1>2, ArticleOf
<1>5. /\ m \in Nat /\ DOMAIN history = 1 .. m
      /\ \A i \in 1 .. m : history[i].of \in Submissions
      /\ \A i \in 1 .. n : shown[i].of \in Submissions /\ await[shown[i].of] # "new"
      /\ DOMAIN shown = 1 .. n
  BY <1>1, HistoryOf DEF Submitted
<1>6. Agrees(history, shown, n - 1)
  BY <1>1, <1>4 DEF Screen
<1>7. history # <<>> /\ history[m] = Message("user", s, 1)
  BY <1>1, <1>4 DEF Awaited
<1> HIDE DEF n
<1>8. \/ /\ history' = Append(history, shown[n]) /\ shown' = shown
         /\ Said(shown[n])
      \/ /\ history' = history /\ shown' \in Seq(Messages) /\ Len(shown') = n
         /\ \A i \in 1 .. n - 1 : shown'[i] = shown[i]
         /\ ~Said(shown'[n]) /\ shown'[n].of = s
      \/ /\ history' = history /\ shown' \in Seq(Messages) /\ Len(shown') = n - 1
         /\ \A i \in 1 .. n - 1 : shown'[i] = shown[i]
  BY EndCases DEF n
<1> HIDE DEF m
<1>9. InOrder'
  <2>1. \A t \in Submissions : await'[t] = "new" => t # s /\ await[t] = "new"
    BY <1>3
  <2>2. \A t \in Submissions : await'[t] # "new" => t = s \/ await[t] # "new"
    BY <1>3
  <2>3. await[s] # "new"
    BY <1>2 DEF Live
  <2>4. QED
    BY <1>1, <1>2, <2>1, <2>2, <2>3 DEF InOrder
<1>10. OneStream'
  <2>1. \A t \in Submissions : Live(t) /\ Current(t) => t = s
    BY <1>1, <1>4 DEF OneStream
  <2>2. \A t \in Submissions : ~(Live(t)' /\ Current(t)')
    BY <1>2, <1>3, <2>1 DEF Live, Current
  <2>3. QED
    BY <1>2, <2>2 DEF OneStream
<1>11. Awaited'
  BY <1>2 DEF Awaited
<1>12. \A t \in Submissions : await[t] # "new" => await'[t] # "new"
  BY <1>3
<1>13. \A i \in DOMAIN shown' : shown'[i].of \in Submissions /\ await'[shown'[i].of] # "new"
  <2>1. CASE shown' = shown
    BY <1>5, <1>12, <2>1
  <2>2. CASE /\ shown' \in Seq(Messages) /\ Len(shown') = n
             /\ \A i \in 1 .. n - 1 : shown'[i] = shown[i]
             /\ shown'[n].of = s
    <3>1. DOMAIN shown' = 1 .. n
      BY <2>2, LenProperties
    <3>2. QED
      BY <1>3, <1>4, <1>5, <1>12, <2>2, <3>1
  <2>3. CASE /\ shown' \in Seq(Messages) /\ Len(shown') = n - 1
             /\ \A i \in 1 .. n - 1 : shown'[i] = shown[i]
    <3>1. DOMAIN shown' = 1 .. n - 1
      BY <2>3, LenProperties
    <3>2. QED
      BY <1>4, <1>5, <1>12, <2>3, <3>1
  <2>4. QED
    BY <1>8, <2>1, <2>2, <2>3
<1>14. \/ history' = history
       \/ /\ DOMAIN history' = 1 .. m + 1 /\ history'[m + 1] = shown[n]
          /\ \A i \in 1 .. m : history'[i] = history[i]
  <2>1. CASE history' = Append(history, shown[n])
    <3>1. /\ history' \in Seq(Messages) /\ Len(history') = m + 1
          /\ \A i \in 1 .. m + 1 : history'[i] = IF i <= m THEN history[i] ELSE shown[n]
      BY <1>1, <1>4, <2>1, AppendProperties DEF m
    <3>2. QED
      BY <1>5, <3>1, LenProperties
  <2>2. QED
    BY <1>8, <2>1
<1>15. \A i \in DOMAIN history' :
          /\ await'[history'[i].of] # "new"
          /\ epoch'[history'[i].of] = conversationEpoch'
  <2>1. \A i \in 1 .. m : /\ await[history[i].of] # "new"
                          /\ epoch[history[i].of] = conversationEpoch
    BY <1>1, <1>5 DEF Submitted, Current
  <2>2. CASE history' = history
    BY <1>2, <1>5, <1>12, <2>1, <2>2
  <2>3. CASE /\ DOMAIN history' = 1 .. m + 1 /\ history'[m + 1] = shown[n]
             /\ \A i \in 1 .. m : history'[i] = history[i]
    <3>1. ASSUME NEW i \in 1 .. m + 1
          PROVE  /\ await'[history'[i].of] # "new"
                 /\ epoch'[history'[i].of] = conversationEpoch'
      <4>1. CASE i = m + 1
        BY <1>2, <1>3, <1>4, <2>3, <4>1 DEF Current
      <4>2. CASE i \in 1 .. m
        BY <1>2, <1>5, <1>12, <2>1, <2>3, <4>2
      <4>3. QED
        BY <1>5, <4>1, <4>2
    <3>2. QED
      BY <2>3, <3>1
  <2>4. QED
    BY <1>14, <2>2, <2>3
<1>16. Submitted'
  BY <1>13, <1>15 DEF Submitted, Current
<1>17. HistoryIsDialogue'
  <2>1. CASE history' = history
    BY <1>1, <1>2, <2>1 DEF HistoryIsDialogue, Current
  <2>2. CASE /\ DOMAIN history' = 1 .. m + 1 /\ history'[m + 1] = shown[n]
             /\ \A i \in 1 .. m : history'[i] = history[i]
    <3>1. m > 0
      BY <1>5, <1>7, <1>1, EmptySeq DEF m
    <3>2. ASSUME NEW i \in 1 .. m
          PROVE  /\ history'[i].role = "assistant" =>
                      i > 1 /\ history'[i - 1] = Message("user", history'[i].of, 1)
                 /\ \A j \in 1 .. i - 1 : history'[j].of <= history'[i].of
      <4>1. /\ history[i].role = "assistant" =>
                 i > 1 /\ history[i - 1] = Message("user", history[i].of, 1)
            /\ \A j \in 1 .. i - 1 : history[j].of <= history[i].of
        BY <1>1, <1>5 DEF HistoryIsDialogue
      <4>2. \A j \in 1 .. i - 1 : j \in 1 .. m
        BY <1>5
      <4>3. i > 1 => i - 1 \in 1 .. i - 1
        BY <1>5
      <4>4. QED
        BY <2>2, <4>1, <4>2, <4>3
    <3>3. m \in 1 .. m /\ (m + 1) - 1 = m /\ m + 1 > 1
      BY <1>5, <3>1
    <3>4. history'[(m + 1) - 1] = Message("user", history'[m + 1].of, 1)
      BY <1>4, <1>7, <2>2, <3>3
    <3>5. \A j \in 1 .. (m + 1) - 1 : history'[j].of <= history'[m + 1].of
      <4>1. history[m].of = s
        BY <1>7 DEF Message
      <4>2. \A j \in 1 .. m - 1 : history[j].of <= s
        BY <1>1, <1>5, <3>3, <4>1 DEF HistoryIsDialogue
      <4>3. s <= s
        BY WebAssumption DEF Submissions
      <4>4. \A j \in 1 .. m : j \in 1 .. m - 1 \/ j = m
        BY <1>5
      <4>5. QED
        BY <1>4, <2>2, <3>3, <4>1, <4>2, <4>3, <4>4
    <3>6. ASSUME NEW i \in 1 .. m + 1
          PROVE  /\ history'[i].role = "assistant" =>
                      i > 1 /\ history'[i - 1] = Message("user", history'[i].of, 1)
                 /\ \A j \in 1 .. i - 1 : history'[j].of <= history'[i].of
      <4>1. i \in 1 .. m \/ i = m + 1
        BY <1>5
      <4>2. QED
        BY <3>2, <3>3, <3>4, <3>5, <4>1
    <3>7. QED
      BY <1>15, <2>2, <3>6 DEF HistoryIsDialogue, Current
  <2>3. QED
    BY <1>14, <2>1, <2>2
<1>18. Screen'
  <2>1. n - 1 \in Nat /\ (n - 1) + 1 = n
    BY <1>4
  <2>2. CASE /\ history' = Append(history, shown[n]) /\ shown' = shown
             /\ Said(shown[n])
    <3>1. Agrees(Append(history, shown[(n - 1) + 1]), shown, (n - 1) + 1)
      <4>1. Said(shown[(n - 1) + 1]) /\ shown[(n - 1) + 1] \in Messages
        BY <1>4, <2>1, <2>2
      <4>2. QED
        BY <1>1, <1>6, <2>1, <4>1, AgreesMore
    <3>2. QED
      BY <1>2, <2>1, <2>2, <3>1 DEF Screen, n
  <2>3. CASE /\ history' = history /\ Len(shown') = n
             /\ \A i \in 1 .. n - 1 : shown'[i] = shown[i]
             /\ ~Said(shown'[n])
    <3>1. Agrees(history, shown', n - 1)
      BY <1>6, <2>1, <2>3, AgreesSame
    <3>2. ~Said(shown'[(n - 1) + 1])
      BY <2>1, <2>3
    <3>3. Agrees(history, shown', (n - 1) + 1)
      BY <2>1, <3>1, <3>2, AgreesSkip
    <3>4. QED
      BY <1>2, <2>1, <2>3, <3>3 DEF Screen
  <2>4. CASE /\ history' = history /\ Len(shown') = n - 1
             /\ \A i \in 1 .. n - 1 : shown'[i] = shown[i]
    <3>1. Agrees(history, shown', n - 1)
      BY <1>6, <2>1, <2>4, AgreesSame
    <3>2. QED
      BY <1>2, <2>4, <3>1 DEF Screen
  <2>5. QED
    BY <1>8, <2>2, <2>3, <2>4
<1>19. QED
  BY <1>9, <1>10, <1>11, <1>16, <1>17, <1>18 DEF Conversation
-----------------------------------------------------------------------------
(* The theorems                                                            *)

\* The invariant holds of a page just loaded.
LEMMA InitInv == Init => IInv
<1> SUFFICES ASSUME Init
             PROVE  IInv
  OBVIOUS
<1>1. /\ conversationEpoch = 0 /\ history = <<>> /\ shown = <<>>
      /\ isStreaming = FALSE /\ abortController = 0 /\ runtimeReady = FALSE
      /\ typed = FALSE /\ promptDisabled = TRUE /\ sendDisabled = TRUE
      /\ await = [s \in Submissions |-> "new"]
      /\ epoch = [s \in Submissions |-> 0]
  BY Zenon DEF Init
<1>2. Types
  <2>1. <<>> \in Seq(Messages) /\ 0 \in 0 .. MaxSubmissions
    BY EmptySeq, WebAssumption
  <2>2. QED
    BY <1>1, <2>1 DEF Types
<1>3. InOrder /\ Submitted /\ Awaited /\ HistoryIsDialogue
  BY <1>1 DEF InOrder, Submitted, Awaited, HistoryIsDialogue
<1>4. OneStream /\ ControlsAgree
  BY <1>1 DEF OneStream, Live, ControlsAgree
<1>5. Screen
  <2>1. Len(<<>>) = 0 /\ Told(<<>>, 0) = 0
    BY ToldNext
  <2>2. Agrees(<<>>, <<>>, 0)
    BY <2>1 DEF Agrees
  <2>3. QED
    BY <1>1, <2>1, <2>2 DEF Screen
<1>6. QED
  BY <1>2, <1>3, <1>4, <1>5 DEF IInv

\* Every reachable state of the page satisfies the inductive invariant.
THEOREM PageInvariant == Spec => []IInv
<1>1. Init => IInv
  BY InitInv
<1>2. IInv /\ [Next]_vars => Conversation'
  BY Cases, CalmKeeps, NewChatKeeps, SubmitKeeps, ChunkKeeps, EndKeeps
<1>3. IInv /\ [Next]_vars => IInv'
  BY <1>2, TypesStep, ControlsStep DEF IInv, Conversation
<1>4. QED
  BY <1>1, <1>3, PTL DEF Spec

\* One submission of the conversation on screen at a time, and it is the one
\* that Stop would abort.
THEOREM StreamsAlone == Spec => []OneStream
<1>1. IInv => OneStream
  BY DEF IInv
<1>2. QED
  BY <1>1, PageInvariant, PTL

\* What is sent is a dialogue of this conversation, whatever earlier replies do.
THEOREM DialogueKept == Spec => []HistoryIsDialogue
<1>1. IInv => HistoryIsDialogue
  BY DEF IInv
<1>2. QED
  BY <1>1, PageInvariant, PTL

\* The model is told what the user sees.
THEOREM ScreenKept == Spec => []ScreenIsHistory
<1>1. IInv => ScreenIsHistory
  <2> SUFFICES ASSUME IInv, ~isStreaming
               PROVE  /\ Len(history) = Told(shown, Len(shown))
                      /\ \A i \in DOMAIN shown :
                           Said(shown[i]) => history[Told(shown, i)] = shown[i]
    BY DEF ScreenIsHistory
  <2>1. Agrees(history, shown, Len(shown))
    BY DEF IInv, Screen
  <2>2. DOMAIN shown = 1 .. Len(shown)
    BY HistoryOf
  <2>3. QED
    BY <2>1, <2>2 DEF Agrees
<1>2. QED
  BY <1>1, PageInvariant, PTL

\* The button and the prompt are what the page calls for.
THEOREM ControlsKept == Spec => []ControlsAgree
<1>1. IInv => ControlsAgree
  BY DEF IInv
<1>2. QED
  BY <1>1, PageInvariant, PTL
=============================================================================
