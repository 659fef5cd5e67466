-------------------------- MODULE WebConversation --------------------------
(***************************************************************************)
(* The chat page (the script in server_http.py): one conversation at a     *)
(* time, what it shows, what it will send next, and the replies and        *)
(* statistics that arrive while the user types, stops or starts anew.      *)
(*                                                                         *)
(* A script runs to its next await without interruption, so an action is   *)
(* an event handler or the part of submitMessage or updateStats between    *)
(* two awaits.  In between anything may happen.                            *)
(*                                                                         *)
(* Abstractions.  A user's text is the number of its submission, a reply   *)
(* the number of pieces that have arrived of it; the prompt is empty or    *)
(* not.  apiFetch, with the question for a token that it may ask before it *)
(* repeats a request, is one await.  A read that has been aborted fails or *)
(* still delivers what the browser had of it.                              *)
(***************************************************************************)
EXTENDS Naturals, Sequences, FiniteSets, SequencesExt

CONSTANTS
    MaxSubmissions, \* bound on the messages a user sends
    MaxEpoch,       \* bound on the conversations begun after the first
    MaxPieces,      \* bound on the pieces of one reply
    Asks            \* the requests for statistics that may be under way

ASSUME WebAssumption ==
    MaxSubmissions \in Nat /\ MaxEpoch \in Nat /\ MaxPieces \in Nat

VARIABLES
    conversationEpoch,
    history,          \* what the next request will carry
    shown,            \* the articles in messagesEl
    isStreaming,
    abortController,  \* the submission whose controller it is, 0 for null
    runtimeReady,
    typed,            \* promptEl.value is not blank
    promptDisabled,   \* promptEl.disabled
    sendDisabled,     \* sendEl.disabled
    await,            \* await[s]: what submission s is waiting for
    epoch,            \* epoch[s]: the conversation s was made in
    aborted,          \* submissions whose controller has aborted
    server,           \* the runtime behind the server is ready
    asks              \* asks[q]: on its way, or the answer on its way back

conversation == <<conversationEpoch, history, shown>>
controls == <<isStreaming, abortController, runtimeReady, typed,
              promptDisabled, sendDisabled>>
submissions == <<await, epoch, aborted>>
vars == <<conversation, controls, submissions, server, asks>>

Submissions == 1 .. MaxSubmissions

Message(role, s, n) == [role |-> role, of |-> s, text |-> n]

\* updateSendState, called last in every handler that changes the controls.
UpdateSendState ==
    sendDisabled' = (~isStreaming' /\ (~runtimeReady' \/ ~typed'))

\* Mutant of EnablePrompt: the prompt is left as the last statistics put it.
LeavePrompt == UNCHANGED promptDisabled

\* What newChat and the finally clause do when no reply streams any more.
EnablePrompt == promptDisabled' = ~runtimeReady

\* updateStats up to its await.
Ask(q) == asks[q] = "none" /\ asks' = [asks EXCEPT ![q] = "sent"]
-----------------------------------------------------------------------------
(* The user                                                                *)

Type(b) ==
    /\ ~promptDisabled
    /\ typed' = b
    /\ UNCHANGED <<isStreaming, abortController, runtimeReady, promptDisabled>>
    /\ UpdateSendState
    /\ UNCHANGED <<conversation, submissions, server, asks>>

\* The form is submitted while nothing streams: submitMessage up to its first
\* await.  The prompt stays enabled.
Submit(s) ==
    /\ ~sendDisabled /\ ~isStreaming
    /\ typed /\ runtimeReady
    /\ await[s] = "new" /\ \A t \in 1 .. s - 1 : await[t] # "new"
    /\ epoch' = [epoch EXCEPT ![s] = conversationEpoch]
    /\ await' = [await EXCEPT ![s] = "response"]
    /\ shown' = shown \o <<Message("user", s, 1), Message("assistant", s, 0)>>
    /\ history' = Append(history, Message("user", s, 1))
    /\ isStreaming' = TRUE /\ abortController' = s /\ typed' = FALSE
    /\ UNCHANGED <<runtimeReady, promptDisabled>>
    /\ UpdateSendState
    /\ UNCHANGED <<conversationEpoch, aborted, server, asks>>

\* The form is submitted while a reply streams: the button is Stop.
Stop ==
    /\ ~sendDisabled /\ isStreaming
    /\ aborted' = aborted \cup ({abortController} \ {0})
    /\ UNCHANGED <<conversation, controls, await, epoch, server, asks>>

\* Mutant of NewConversation: the submission under way keeps its claim.
NewConversationSameEpoch == UNCHANGED conversationEpoch

NewConversation == conversationEpoch' = conversationEpoch + 1

\* The click on newChat, a dialog about a reply under way answered with yes.
NewChat ==
    /\ conversationEpoch < MaxEpoch
    /\ NewConversation
    /\ aborted' = aborted \cup ({abortController} \ {0})
    /\ abortController' = 0 /\ isStreaming' = FALSE
    /\ history' = <<>> /\ shown' = <<>>
    /\ typed' = FALSE /\ EnablePrompt
    /\ UNCHANGED runtimeReady
    /\ UpdateSendState
    /\ UNCHANGED <<await, epoch, server, asks>>
-----------------------------------------------------------------------------
(* A submission after its awaits                                           *)

Current(s) == epoch[s] = conversationEpoch

\* The article of the reply; on screen as long as its conversation is.
Article(s) == CHOOSE i \in DOMAIN shown :
                  shown[i].of = s /\ shown[i].role # "user"

Reply(s) == shown[Article(s)]

ToAwait(s, what) == await' = [await EXCEPT ![s] = what]

\* The response has arrived; "detail" is the body of an error.
Respond(s) ==
    /\ await[s] = "response"
    /\ \E what \in {"chunk", "detail"} : ToAwait(s, what)
    /\ UNCHANGED <<conversation, controls, epoch, aborted, server, asks>>

\* A read returns an event with a piece of the reply.
Chunk(s) ==
    /\ await[s] = "chunk"
    /\ Current(s) /\ Reply(s).text < MaxPieces
    /\ shown' = [shown EXCEPT ![Article(s)].text = @ + 1]
    /\ UNCHANGED <<conversationEpoch, history, controls, submissions, server, asks>>

\* The finally clause, with updateStats up to its await.
Finally(s) ==
    /\ ToAwait(s, "ended")
    /\ isStreaming' = FALSE /\ abortController' = 0
    /\ EnablePrompt
    /\ UNCHANGED <<runtimeReady, typed>>
    /\ UpdateSendState
    /\ \E q \in Asks : Ask(q)
    /\ UNCHANGED <<conversationEpoch, epoch, aborted, server>>

\* A submission of an earlier conversation returns without a trace.
Abandoned(s) ==
    /\ ~Current(s) /\ ToAwait(s, "ended")
    /\ UNCHANGED <<conversation, controls, epoch, aborted, server, asks>>

\* Mutant of Keep: an answer in place of the last message.
KeepOverwrites(s) ==
    history' = [history EXCEPT ![Len(history)] = Message("assistant", s, Reply(s).text)]

Keep(s) == history' = Append(history, Message("assistant", s, Reply(s).text))

\* Mutant of ShowError: what had arrived is kept as if it were an answer.
ShowErrorAndKeep(s) ==
    /\ shown' = [shown EXCEPT ![Article(s)] = Message("error", s, 0)]
    /\ Keep(s)

ShowError(s) ==
    /\ shown' = [shown EXCEPT ![Article(s)] = Message("error", s, 0)]
    /\ UNCHANGED history

\* The event [DONE], or the end of the body without it.
Done(s, doneEvent) ==
    /\ await[s] = "chunk" /\ Current(s)
    /\ IF Reply(s).text > 0 THEN Keep(s) /\ UNCHANGED shown
       ELSE IF doneEvent THEN UNCHANGED <<history, shown>>
       ELSE ShowError(s)
    /\ Finally(s)

\* Any exception but AbortError: no connection, the status with its detail, an
\* event with an error, an event that is not JSON.
Fail(s) ==
    /\ await[s] \in {"response", "chunk", "detail"} /\ Current(s)
    /\ ShowError(s)
    /\ Finally(s)

\* AbortError, which the await of the detail does not let through.
Aborted(s) ==
    /\ s \in aborted /\ await[s] \in {"response", "chunk"} /\ Current(s)
    /\ IF Reply(s).text > 0 THEN Keep(s) /\ UNCHANGED shown
       ELSE shown' = RemoveAt(shown, Article(s)) /\ UNCHANGED history
    /\ Finally(s)

AbandonedReply(s) == await[s] \in {"response", "chunk", "detail"} /\ Abandoned(s)
-----------------------------------------------------------------------------
(* Statistics                                                              *)

\* The timer.
Poll ==
    /\ ~isStreaming
    /\ \E q \in Asks : Ask(q)
    /\ UNCHANGED <<conversation, controls, submissions, server>>

\* The server answers; requests overtake each other on their way.
Answer(q) ==
    /\ asks[q] = "sent"
    /\ asks' = [asks EXCEPT ![q] = IF server THEN "ready" ELSE "down"]
    /\ UNCHANGED <<conversation, controls, submissions, server>>

\* Mutant of Learn: a page once ready never hears that it is not.
LearnOnlyGood(q) == runtimeReady' = (runtimeReady \/ asks[q] = "ready")

Learn(q) == runtimeReady' = (asks[q] = "ready")

\* setRuntimeUI.
SetRuntimeUI(q) ==
    /\ asks[q] \in {"ready", "down"}
    /\ asks' = [asks EXCEPT ![q] = "none"]
    /\ Learn(q)
    /\ promptDisabled' = (~runtimeReady' \/ isStreaming)
    /\ UNCHANGED <<isStreaming, abortController, typed>>
    /\ UpdateSendState
    /\ UNCHANGED <<conversation, submissions, server>>

\* The runtime becomes ready, or ceases to be.
ServerTurns ==
    /\ server' = ~server
    /\ UNCHANGED <<conversation, controls, submissions, asks>>
-----------------------------------------------------------------------------
\* The page has run to its end and asked for statistics once.
Init ==
    /\ conversationEpoch = 0 /\ history = <<>> /\ shown = <<>>
    /\ isStreaming = FALSE /\ abortController = 0 /\ runtimeReady = FALSE
    /\ typed = FALSE /\ promptDisabled = TRUE /\ sendDisabled = TRUE
    /\ await = [s \in Submissions |-> "new"]
    /\ epoch = [s \in Submissions |-> 0]
    /\ aborted = {}
    /\ server \in BOOLEAN
    /\ \E first \in Asks : asks = [q \in Asks |-> IF q = first THEN "sent" ELSE "none"]

User == (\E b \in BOOLEAN : Type(b)) \/ (\E s \in Submissions : Submit(s)) \/ Stop \/ NewChat

Continue(s) ==
    \/ Respond(s) \/ Chunk(s) \/ (\E d \in BOOLEAN : Done(s, d))
    \/ Fail(s) \/ Aborted(s) \/ AbandonedReply(s)

Next ==
    \/ User
    \/ \E s \in Submissions : Continue(s)
    \/ Poll \/ (\E q \in Asks : Answer(q) \/ SetRuntimeUI(q))
    \/ ServerTurns

\* The timer ticks, the server answers (HandlersGoOn of ChatStream), and what
\* it answers arrives.  The user need not do anything.
Spec ==
    /\ Init /\ [][Next]_vars
    /\ \A s \in Submissions : WF_vars(Continue(s))
    /\ WF_vars(Poll)
    /\ \A q \in Asks : WF_vars(Answer(q)) /\ WF_vars(SetRuntimeUI(q))
-----------------------------------------------------------------------------
(* Properties                                                              *)

Live(s) == await[s] \notin {"new", "ended"}

\* At most one submission of the conversation on screen is under way; it is
\* the one that Stop would abort, and isStreaming says whether there is one.
\* Replies of earlier conversations may end at any time without disturbing it.
OneStream ==
    {s \in Submissions : Live(s) /\ Current(s)} =
        IF isStreaming THEN {abortController} ELSE {}

\* The history that is sent is a dialogue of this conversation only: texts in
\* the order they were written, each answer right after the message it
\* answers.  Nothing of an earlier conversation ever enters it.
HistoryIsDialogue ==
    \A i \in DOMAIN history :
        /\ Current(history[i].of)
        /\ history[i].role = "assistant" =>
              i > 1 /\ history[i - 1] = Message("user", history[i].of, 1)
        /\ \A j \in 1 .. i - 1 : history[j].of <= history[i].of

\* A message that the model will be told of: no error and no empty answer.
Said(m) == m.role # "error" /\ m.text > 0

\* How many of the first n articles the model will be told of.
Told(articles, n) == Cardinality({i \in 1 .. n : Said(articles[i])})

\* What the model will be told is what the user sees: while nothing streams,
\* history is the messages on screen, in their order, without errors and empty
\* answers.
ScreenIsHistory ==
    ~isStreaming =>
        /\ Len(history) = Told(shown, Len(shown))
        /\ \A i \in DOMAIN shown : Said(shown[i]) => history[Told(shown, i)] = shown[i]

\* Whatever answer about the runtime arrives when, the prompt is disabled only
\* for lack of a runtime once no reply streams, and the button is what
\* updateSendState would make of the page now.
ControlsAgree ==
    /\ ~isStreaming => promptDisabled = ~runtimeReady
    /\ sendDisabled = (~isStreaming /\ (~runtimeReady \/ ~typed))

\* When the runtime stays ready, or stays away, the page comes to know it for
\* good, though answers may overtake each other and none is asked for while a
\* reply streams.
ReadinessCatchesUp ==
    \A b \in BOOLEAN : <>[](server = b) => <>[](runtimeReady = b)
=============================================================================
