------------------------- MODULE PrivilegedRequest -------------------------
(***************************************************************************)
(* The GUI's side of a privileged request: runPrivilegedRequest(), the     *)
(* single-request gate, the cancel dialog and the teardown of the session  *)
(* (MainWindow.cpp).  Everything runs on one thread, but each wait is a    *)
(* nested event loop, so the calls in progress form a stack of frames: a   *)
(* frame can return only when no later frame, and no dialog opened above it, *)
(* is still running.                                                       *)
(***************************************************************************)
EXTENDS SessionProtocol

VARIABLES
    gate,            \* the request that holds the single-request gate, 0 if none
    next,            \* the id the next request takes
    frame,           \* the progress of each request's stack frame
    reply,           \* requestDone and requestExitCode of each frame
    userCancelled,   \* m_privilegedRequestUserCancelled
    abortRequested,  \* m_privilegedRequestAbortRequested
    confirm,         \* the request whose cancel dialog is open, 0 if none
    buried,          \* a prompt's wait loop runs above the open cancel dialog
    inputOn,         \* the prompt's answer line is enabled
    prompts,         \* promptCount
    session,         \* m_privilegedSession, as its owner sees it
    appClosed,       \* the main window was closed
    outcome,         \* what each request reported to its caller
    asked,           \* history: the stages named by the prompt on screen
    cancelled        \* history: requests the user cancelled

requestVars == <<gate, next, frame, reply, userCancelled, abortRequested, confirm, buried,
                 inputOn, prompts, session, appClosed, outcome>>
historyVars == <<asked, cancelled>>

\* "stranded": the prompt's loop of a request that had already timed out.
Frames == {"unused", "claimed", "authorizing", "waiting", "prompting", "timedOut",
           "stranded", "lost", "reviewing", "ended"}
Notices == {"none", "timeout", "aborted", "cancelled", "incomplete"}
NoOutcome == [ok |-> FALSE, notice |-> "pending"]
Outcomes == [ok : BOOLEAN, notice : Notices] \cup {NoOutcome}

RequestTypeOK ==
    /\ gate \in Ids \cup {0}
    /\ next \in 1 .. MaxRequests + 1
    /\ frame \in [Ids -> Frames]
    /\ reply \in [Ids -> Codes]
    /\ userCancelled \in BOOLEAN /\ abortRequested \in BOOLEAN
    /\ confirm \in Ids \cup {0}
    /\ buried \in BOOLEAN /\ inputOn \in BOOLEAN
    /\ prompts \in Nat
    /\ session \in {"none", "asking", "starting", "ready", "closing", "gone"}
    /\ appClosed \in BOOLEAN
    /\ outcome \in [Ids -> Outcomes]
    /\ asked \subseteq Stages
    /\ cancelled \subseteq Ids

RequestInit ==
    /\ gate = 0 /\ next = 1
    /\ frame = [i \in Ids |-> "unused"]
    /\ reply = [i \in Ids |-> "none"]
    /\ userCancelled = FALSE /\ abortRequested = FALSE
    /\ confirm = 0 /\ buried = FALSE /\ inputOn = FALSE
    /\ prompts = 0
    /\ session = "none" /\ appClosed = FALSE
    /\ outcome = [i \in Ids |-> NoOutcome]
    /\ asked = {} /\ cancelled = {}

\* What is written once the process is gone is lost.
Write(r) ==
    toHelper' = IF brokerRunning \/ session = "asking" THEN Append(toHelper, r)
                ELSE toHelper

Live(i) == frame[i] \notin {"unused", "ended"}
OnTop(i) == Live(i) /\ \A j \in Ids : j > i => ~Live(j)

\* The GUI thread is inside waitForFinished, or the process is gone.
Blocked == session \in {"closing", "gone"}

\* No modal dialog is in front of the main window; the watchdog hides the one
\* of its request.
MainWindowUsable ==
    /\ confirm = 0
    /\ \A i \in Ids : Live(i) /\ Modal(kind[i]) => frame[i] \in {"timedOut", "stranded"}

---------------------------------------------------------------------------
\* Claiming the gate

\* A new request takes the gate and clears what an earlier request may have
\* left.  Below a request that gave the gate back early only deferred work
\* runs: a diagnostic, an unlock, a preload or a flush of old logs.
Claim(k) ==
    /\ next \in Ids /\ gate = 0
    /\ ~appClosed /\ session \in {"none", "ready"}
    /\ (\E j \in Ids : Live(j)) => IsDiagnostic(k) \/ k = "plain"
    /\ gate' = next /\ next' = next + 1
    /\ kind' = [kind EXCEPT ![next] = k]
    /\ userCancelled' = FALSE /\ abortRequested' = FALSE
    /\ inputOn' = FALSE /\ prompts' = 0 /\ asked' = {}
    /\ IF session = "ready"
       THEN /\ frame' = [frame EXCEPT ![next] = "waiting"]
            /\ Write(Begin(next))
       ELSE /\ frame' = [frame EXCEPT ![next] = "claimed"]
            /\ toHelper' = toHelper
    /\ UNCHANGED <<toGui, eof, brokerRunning, usr1, reply, confirm, buried, session,
                   appClosed, outcome, cancelled>>

\* pkexec is started: the conversation with Polkit begins, on fresh pipes.
AskAuthorization ==
    /\ gate # 0 /\ frame[gate] = "claimed"
    /\ session = "none" /\ ~brokerRunning /\ ~appClosed
    /\ session' = "asking"
    /\ frame' = [frame EXCEPT ![gate] = "authorizing"]
    /\ toHelper' = <<>> /\ toGui' = <<>> /\ eof' = FALSE
    /\ UNCHANGED <<kind, brokerRunning, usr1, gate, next, reply, userCancelled,
                   abortRequested, confirm, buried, inputOn, prompts, appClosed, outcome,
                   historyVars>>

\* The user cancels the conversation, pkexec fails, or 300 s go by.
Denied ==
    /\ session = "asking"
    /\ session' = "none" /\ toGui' = <<>>
    /\ UNCHANGED <<kind, toHelper, eof, brokerRunning, usr1, gate, next, frame, reply,
                   userCancelled, abortRequested, confirm, buried, inputOn, prompts,
                   appClosed, outcome, historyVars>>

\* SESSION_READY: the session is usable and the request is written.
ReadReady ==
    /\ session = "starting"
    /\ toGui # <<>> /\ Head(toGui).tag = "READY"
    /\ toGui' = Tail(toGui)
    /\ session' = "ready"
    /\ gate # 0 /\ frame[gate] = "authorizing"
    /\ frame' = [frame EXCEPT ![gate] = "waiting"]
    /\ Write(Begin(gate))
    /\ UNCHANGED <<kind, eof, brokerRunning, usr1, gate, next, reply, userCancelled,
                   abortRequested, confirm, buried, inputOn, prompts, appClosed, outcome,
                   historyVars>>

---------------------------------------------------------------------------
\* Cancelling

\* kill(SIGUSR1), which may fail with EPERM, and then the CANCEL record.
SendSignal == \E reaches \in SignalOutcomes : usr1' = (usr1 \/ (brokerRunning /\ reaches))
SendCancel(i) == SendSignal /\ Write(Cancel(i))

\* A read-only diagnostic is cancelled without a question, while it runs or
\* while the authorization is still pending.  Bound: once per request.
CancelDiagnostic ==
    /\ gate # 0 /\ IsDiagnostic(kind[gate]) /\ gate \notin cancelled
    /\ \/ session \in {"asking", "starting"} /\ frame[gate] = "authorizing"
       \/ session = "ready" /\ frame[gate] = "waiting"
    /\ MainWindowUsable
    /\ SendCancel(gate)
    /\ cancelled' = cancelled \cup {gate}
    /\ UNCHANGED <<kind, toGui, eof, brokerRunning, requestVars, asked>>

\* The Cancel button of any other request opens a confirmation dialog.
OpenCancelDialog ==
    /\ gate # 0 /\ ~IsDiagnostic(kind[gate])
    /\ frame[gate] \in {"waiting", "prompting"} /\ session = "ready"
    /\ ~userCancelled /\ confirm = 0
    /\ confirm' = gate /\ buried' = FALSE
    /\ UNCHANGED <<protocolVars, gate, next, frame, reply, userCancelled, abortRequested,
                   inputOn, prompts, session, appClosed, outcome, historyVars>>

\* The dialog returns once nothing runs above it.
UnstackedDialog == TRUE                                                \* mutant
NothingAbove ==
    /\ \A j \in Ids : j > confirm => ~Live(j)
    /\ ~(buried /\ frame[confirm] \in {"prompting", "stranded"})

DialogReturns ==
    /\ confirm # 0 /\ ~Blocked
    /\ NothingAbove
    /\ confirm' = 0 /\ buried' = FALSE

KeepRunning ==
    /\ DialogReturns
    /\ UNCHANGED <<protocolVars, gate, next, frame, reply, userCancelled, abortRequested,
                   inputOn, prompts, session, appClosed, outcome, historyVars>>

\* The cancel goes to the request that holds the gate now; without one the
\* signal alone goes to an idle broker.
ConfirmCancel ==
    /\ DialogReturns
    /\ userCancelled' = TRUE
    /\ inputOn' = FALSE
    /\ \/ session = "ready" /\ gate # 0 /\ SendCancel(gate)
       \/ session = "ready" /\ gate = 0 /\ SendSignal /\ toHelper' = toHelper
       \/ session # "ready" /\ UNCHANGED <<toHelper, usr1>>
    /\ cancelled' = cancelled \cup ({gate} \ {0})
    /\ UNCHANGED <<kind, toGui, eof, brokerRunning, gate, next, frame, reply,
                   abortRequested, prompts, session, appClosed, outcome, asked>>

---------------------------------------------------------------------------
\* Reading the helper's records

Reads(tag) ==
    /\ session \in {"ready", "closing"}
    /\ toGui # <<>> /\ Head(toGui).tag = tag
    /\ toGui' = Tail(toGui)

ForThisRequest == gate # 0 /\ Head(toGui).id = gate

\* A record of another request is skipped.
SkipForeign ==
    /\ \E tag \in HelperTags : Reads(tag)
    /\ ~ForThisRequest
    /\ UNCHANGED <<kind, toHelper, eof, brokerRunning, usr1, requestVars, historyVars>>

\* A prompt opens the answer line and pauses the watchdog.
ReadPrompt ==
    /\ Reads("PROMPT") /\ ForThisRequest
    /\ Interactive(kind[gate]) /\ session = "ready"
    /\ frame[gate] = "waiting" /\ reply[gate] = "none" /\ prompts < PromptBudget
    /\ frame' = [frame EXCEPT ![gate] = "prompting"]
    /\ asked' = {Head(toGui).stage}
    /\ prompts' = prompts + 1
    /\ inputOn' = TRUE
    /\ buried' = (confirm # 0)
    /\ UNCHANGED <<kind, toHelper, eof, brokerRunning, usr1, gate, next, reply,
                   userCancelled, abortRequested, confirm, session, appClosed, outcome, cancelled>>

\* A prompt that arrives while another is on screen only adds to its text.
RefreshPrompt ==
    /\ Reads("PROMPT") /\ ForThisRequest
    /\ frame[gate] \in {"prompting", "stranded"}
    /\ asked' = asked \cup {Head(toGui).stage}
    /\ UNCHANGED <<kind, toHelper, eof, brokerRunning, usr1, requestVars,
                   cancelled>>

\* The prompt branch does not look at requestTimedOut.  The poll timer of a
\* non-modal wait ends the prompt's loop at once, with an empty answer; for a
\* modal request, whose dialog the watchdog has hidden, nobody can.
ReadLatePrompt ==
    /\ Reads("PROMPT") /\ ForThisRequest
    /\ Interactive(kind[gate]) /\ session = "ready"
    /\ frame[gate] = "timedOut" /\ reply[gate] = "none" /\ prompts < PromptBudget
    /\ prompts' = prompts + 1
    /\ IF Modal(kind[gate])
       THEN /\ frame' = [frame EXCEPT ![gate] = "stranded"]
            /\ buried' = (confirm # 0)
            /\ toHelper' = toHelper
       ELSE /\ UNCHANGED <<frame, buried>>
            /\ Write(AnswerRecord(gate, "none", {}))
    /\ UNCHANGED <<kind, eof, brokerRunning, usr1, gate, next, reply, userCancelled,
                   abortRequested, confirm, inputOn, session, appClosed, outcome,
                   historyVars>>

\* A prompt over the budget is answered with an empty ANSWER at once.
RefusePrompt ==
    /\ Reads("PROMPT") /\ ForThisRequest
    /\ Interactive(kind[gate]) /\ session = "ready"
    /\ frame[gate] \in {"waiting", "timedOut"} /\ reply[gate] = "none"
    /\ prompts >= PromptBudget
    /\ prompts' = prompts + 1
    /\ Write(AnswerRecord(gate, "none", {}))
    /\ UNCHANGED <<kind, eof, brokerRunning, usr1, gate, next, frame, reply, userCancelled,
                   abortRequested, confirm, buried, inputOn, session, appClosed, outcome,
                   historyVars>>

\* A prompt nobody waits for any more is dropped.
DropPrompt ==
    /\ Reads("PROMPT") /\ ForThisRequest
    /\ frame[gate] \notin {"prompting", "stranded"}
    /\ session = "closing" \/ reply[gate] # "none"
    /\ UNCHANGED <<kind, toHelper, eof, brokerRunning, usr1, requestVars, historyVars>>

\* DONE ends the wait, a prompt's wait included.  A repair or a rollback that
\* succeeded in its own dialog may give the gate back while its result stays
\* on screen.
AnyDoneReleases(i, c) == ~userCancelled /\ kind[i] \in {"repair", "rollback"} \* mutant
GivesBackGate(i, c) == c = "zero" /\ ~userCancelled /\ kind[i] \in {"repair", "rollback"}

ReadDone ==
    /\ Reads("DONE") /\ ForThisRequest
    /\ LET i == gate
           c == Head(toGui).rc
       IN  /\ reply' = [reply EXCEPT ![i] = c]
           /\ frame' = [frame EXCEPT ![i] =
                          IF @ \in {"waiting", "prompting"} THEN "reviewing"
                          ELSE IF @ = "stranded" THEN "timedOut" ELSE @]
           /\ gate' \in {i} \cup IF GivesBackGate(i, c) THEN {0} ELSE {}
    /\ inputOn' = FALSE /\ asked' = {}
    /\ UNCHANGED <<kind, toHelper, eof, brokerRunning, usr1, next, userCancelled,
                   abortRequested, confirm, buried, prompts, session, appClosed, outcome, cancelled>>

\* The user submits the answer line.  "no" stands for every answer that does
\* not go ahead, the empty line included.
Answer(text) ==
    /\ gate # 0 /\ frame[gate] = "prompting" /\ inputOn
    /\ confirm = 0 \/ buried
    /\ session = "ready"
    /\ Write(AnswerRecord(gate, text, asked))
    /\ frame' = [frame EXCEPT ![gate] = "waiting"]
    /\ inputOn' = FALSE
    /\ asked' = {}
    /\ UNCHANGED <<kind, toGui, eof, brokerRunning, usr1, gate, next, reply, userCancelled,
                   abortRequested, confirm, buried, prompts, session, appClosed, outcome,
                   cancelled>>

---------------------------------------------------------------------------
\* Timeouts, closing and loss of the session

\* The request watchdog, stopped while a prompt waits.
Watchdog ==
    /\ gate # 0 /\ frame[gate] = "waiting" /\ session = "ready"
    /\ frame' = [frame EXCEPT ![gate] = "timedOut"]
    /\ UNCHANGED <<protocolVars, gate, next, reply, userCancelled, abortRequested, confirm,
                   buried, inputOn, prompts, session, appClosed, outcome, historyVars>>

\* QUIT and the end of the pipe; the GUI then blocks until the broker is gone
\* or its grace has expired.
CloseChannel ==
    /\ session' = "closing"
    /\ Write(Quit)
    /\ eof' = TRUE

TimeoutTeardown ==
    /\ \E i \in Ids : frame[i] = "timedOut" /\ OnTop(i)
    /\ confirm = 0 /\ session = "ready"
    /\ CloseChannel
    /\ UNCHANGED <<kind, toGui, brokerRunning, usr1, gate, next, frame, reply, userCancelled,
                   abortRequested, confirm, buried, inputOn, prompts, appClosed, outcome,
                   historyVars>>

\* Lock Administrator Session.
LockSession ==
    /\ session = "ready" /\ MainWindowUsable
    /\ CloseChannel
    /\ UNCHANGED <<kind, toGui, brokerRunning, usr1, gate, next, frame, reply, userCancelled,
                   abortRequested, confirm, buried, inputOn, prompts, appClosed, outcome,
                   asked, cancelled>>

\* The window is closed: a diagnostic is aborted, and the session is closed
\* whatever runs in it.
CloseWindow ==
    /\ ~appClosed /\ MainWindowUsable
    /\ session \in {"none", "asking", "starting", "ready"}
    /\ appClosed' = TRUE
    /\ abortRequested' = (abortRequested \/ (gate # 0 /\ IsDiagnostic(kind[gate])))
    /\ IF session = "none" THEN UNCHANGED <<session, toHelper, eof>> ELSE CloseChannel
    /\ UNCHANGED <<kind, toGui, brokerRunning, usr1, gate, next, frame, reply, userCancelled,
                   confirm, buried, inputOn, prompts, outcome, asked, cancelled>>

\* The GUI crashes or is killed: its pipe ends without a QUIT.
GuiDies ==
    /\ session \in {"starting", "ready"}
    /\ session' = "gone" /\ appClosed' = TRUE /\ eof' = TRUE
    /\ UNCHANGED <<kind, toHelper, toGui, brokerRunning, usr1, gate, next, frame, reply,
                   userCancelled, abortRequested, confirm, buried, inputOn, prompts,
                   outcome, historyVars>>

\* The broker is gone, or waitForFinished, terminate and kill have run out.
SessionClosed ==
    /\ session = "closing"
    /\ session' = "none" /\ toGui' = <<>>
    /\ UNCHANGED <<kind, toHelper, eof, brokerRunning, usr1, gate, next, frame, reply,
                   userCancelled, abortRequested, confirm, buried, inputOn, prompts,
                   appClosed, outcome, historyVars>>

\* The broker ended by itself; what it wrote before is read first.
SessionFinished ==
    /\ session \in {"starting", "ready"} /\ ~brokerRunning /\ toGui = <<>>
    /\ session' = "none" /\ toGui' = <<>>
    /\ UNCHANGED <<kind, toHelper, eof, brokerRunning, usr1, gate, next, frame, reply,
                   userCancelled, abortRequested, confirm, buried, inputOn, prompts,
                   appClosed, outcome, historyVars>>

\* A frame whose session is gone stops waiting, in a prompt's loop as well.
FrameLost ==
    /\ gate # 0
    /\ \/ frame[gate] \in {"authorizing", "waiting", "prompting", "stranded"}
          /\ session = "none"
       \/ frame[gate] = "claimed" /\ appClosed
    /\ frame' = [frame EXCEPT ![gate] = IF @ = "stranded" THEN "timedOut" ELSE "lost"]
    /\ inputOn' = FALSE
    /\ UNCHANGED <<protocolVars, gate, next, reply, userCancelled, abortRequested, confirm,
                   buried, prompts, session, appClosed, outcome, historyVars>>

---------------------------------------------------------------------------
\* The end of a frame

Notice(i) ==
    IF frame[i] = "timedOut" THEN "timeout"
    ELSE IF abortRequested THEN "aborted"
    ELSE IF reply[i] = "nonzero" /\ userCancelled THEN "cancelled"
    ELSE IF reply[i] = "none" THEN "incomplete"
    ELSE "none"

\* A request that timed out ends when its session is closed, DONE or not.
SessionLeftOpen(i) == frame[i] = "timedOut"                            \* mutant
WaitsForDone(i) ==                                                     \* mutant
    frame[i] = "timedOut" /\ session = "none" /\ reply[i] # "none"
TornDown(i) == frame[i] = "timedOut" /\ session = "none"

\* *succeeded: a DONE record with code 0 was read.
NoErrorSeen(i) == reply[i] # "nonzero"                                 \* mutant
Succeeded(i) == reply[i] = "zero"

\* It returns to its caller and, if it still holds the gate, frees it.  The
\* user closes the dialog of a modal request first.
FrameEnds(i) ==
    /\ OnTop(i) /\ confirm # i /\ ~Blocked
    /\ \/ frame[i] \in {"lost", "reviewing"}
       \/ TornDown(i)
    /\ frame' = [frame EXCEPT ![i] = "ended"]
    /\ outcome' = [outcome EXCEPT ![i] = [ok |-> Succeeded(i), notice |-> Notice(i)]]
    /\ IF gate = i
       THEN gate' = 0 /\ userCancelled' = FALSE /\ abortRequested' = FALSE
       ELSE UNCHANGED <<gate, userCancelled, abortRequested>>
    /\ UNCHANGED <<protocolVars, next, reply, confirm, buried, inputOn, prompts, session,
                   appClosed, historyVars>>

\* Steps of the code, and steps only the user takes.
ReadRecord == \/ ReadReady \/ SkipForeign \/ ReadPrompt \/ RefreshPrompt \/ ReadLatePrompt
              \/ RefusePrompt \/ DropPrompt \/ ReadDone
CloseDialog(i) == Modal(kind[i]) /\ FrameEnds(i)
FrameReturns(i) == ~Modal(kind[i]) /\ FrameEnds(i)
GuiSteps == \/ AskAuthorization \/ ReadRecord \/ Watchdog \/ TimeoutTeardown
            \/ SessionClosed \/ SessionFinished \/ FrameLost
            \/ \E i \in Ids : FrameReturns(i)

UserSteps == \/ \E k \in Kinds : Claim(k)
             \/ CancelDiagnostic \/ OpenCancelDialog \/ KeepRunning \/ ConfirmCancel
             \/ \E text \in {"yes", "no"} : Answer(text)
             \/ LockSession \/ CloseWindow \/ Denied \/ GuiDies
             \/ \E i \in Ids : CloseDialog(i)

RequestNext == GuiSteps \/ UserSteps
=============================================================================
