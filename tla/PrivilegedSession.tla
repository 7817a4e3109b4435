------------------------- MODULE PrivilegedSession -------------------------
(***************************************************************************)
(* The privileged session as a whole: the GUI's request frame, the broker  *)
(* with its pump and child, and the two pipes between them.                *)
(***************************************************************************)
EXTENDS PrivilegedRequest, SessionBroker

brokerState == <<brokerVars, childVars>>
requestState == <<requestVars, historyVars>>
vars == <<protocolVars, brokerState, requestState>>

TypeOK == ProtocolTypeOK /\ BrokerTypeOK /\ RequestTypeOK

Init == ProtocolInit /\ BrokerInit /\ RequestInit

\* The user authorizes pkexec, which runs the helper as the session broker.
PolkitGrants ==
    /\ session = "asking" /\ ~brokerRunning
    /\ session' = "starting"
    /\ BrokerStart
    /\ UNCHANGED <<kind, toHelper, eof, usr1, brokerState, gate, next, frame, reply,
                   userCancelled, abortRequested, confirm, buried, inputOn, prompts,
                   appClosed, outcome, historyVars>>

GuiStep == GuiSteps /\ UNCHANGED brokerState
UserStep == UserSteps /\ UNCHANGED brokerState
BrokerStep == BrokerNext /\ UNCHANGED requestState

Next == GuiStep \/ UserStep \/ BrokerStep \/ PolkitGrants

Spec == Init /\ [][Next]_vars

---------------------------------------------------------------------------
\* Fairness.  The event loop, the broker's loop, the pump and the child's own
\* timers always get their turn.  Nothing is assumed of the user, of Polkit,
\* of a broker that may die, or of the child's real work (ChildWorks).
GuiFairness ==
    /\ WF_vars(GuiStep)
    /\ WF_vars(ReadRecord /\ UNCHANGED brokerState)
    /\ WF_vars(FrameLost /\ UNCHANGED brokerState)

BrokerFairness ==
    /\ WF_vars(HeaderLoop /\ UNCHANGED requestState)
    /\ WF_vars(InputPump /\ UNCHANGED requestState)
    /\ WF_vars(PollLoop /\ UNCHANGED requestState)

ChildFairness == WF_vars(ChildReacts /\ UNCHANGED requestState)

FairSpec == Spec /\ GuiFairness /\ BrokerFairness /\ ChildFairness

\* Only what a cancel needs: no watchdog, no prompt window, no dispatch bound,
\* and a child that never looks up from its work.
CancelFairness ==
    /\ WF_vars(ReadRecord /\ UNCHANGED brokerState)
    /\ WF_vars(InputPump /\ UNCHANGED requestState)
    /\ WF_vars(RelayCancel /\ UNCHANGED requestState)
    /\ WF_vars(ChildStops /\ UNCHANGED requestState)
    /\ WF_vars(FinishDispatch /\ UNCHANGED requestState)
    /\ WF_vars(HeaderLoop /\ UNCHANGED requestState)

CancelSpec == Spec /\ CancelFairness

---------------------------------------------------------------------------
\* Safety

\* A request that is reported to its caller as succeeded was carried out to its
\* own end; only a diagnostic the user cancelled may count as succeeded with a
\* part of its sections.  (runPrivilegedRequest: *succeeded; DONE <id> <rc>.)
TruthfulSuccess ==
    \A i \in Ids : outcome[i].ok =>
        /\ result[i] \in Complete
        /\ result[i] = "partial" => i \in cancelled

\* A child is stopped only for a cancel of its own request, or because the GUI
\* closed the session under a mutating one: a cancel meant for an earlier
\* request never reaches a later one, by signal, by record or by marker file.
\* (session_server: "must never bleed into this one".)
CancelIsolation ==
    /\ child = "stopping" => \/ cur \in cancelled
                             \/ eof /\ Mutating(kind[cur])
    /\ \A i \in Ids : result[i] = "partial" => i \in cancelled

\* Whenever the GUI's gate is free and the session is in use, the broker is back
\* in its header loop and nothing of an earlier request is under way: no BEGIN,
\* no prompt, no DONE.  While a pump or a child reads the pipe, it holds records
\* of the running request only: no BEGIN is swallowed, and no answer or cancel
\* reaches another request's child.
OneRequestAtATime ==
    /\ gate = 0 /\ session = "ready" /\ brokerRunning =>
          /\ bpc = "header"
          /\ ~Mentions(toHelper, "BEGIN")
          /\ ~Mentions(toGui, "PROMPT") /\ ~Mentions(toGui, "DONE")
    /\ bpc # "header" =>
          \A n \in DOMAIN toHelper :
              \/ toHelper[n].tag = "QUIT"
              \/ toHelper[n].tag \in {"ANSWER", "CANCEL"} /\ toHelper[n].id = cur

\* The gate is never stuck: its holder is a frame still on the stack, and every
\* other frame on the stack gave it back after a success.  (GateGuard.)
GateDiscipline ==
    /\ gate # 0 => Live(gate)
    /\ \A i \in Ids : Live(i) /\ i # gate =>
          /\ frame[i] \in {"reviewing", "timedOut"}
          /\ reply[i] = "zero" /\ result[i] \in Complete

\* The user's "Cancel Operation" answers the question that was asked: it never
\* cancels another request than the one its dialog was opened for.
DialogCancelsItsRequest ==
    [][confirm # 0 /\ confirm' = 0 => cancelled' \subseteq cancelled \cup {confirm}]_vars

\* A diagnostic cancelled while its authorization was still pending never runs to
\* its end.  (session_server's pending_pre_begin_cancels.)
EarlyCancelHonoured ==
    \A i \in Ids :
        [](i \in cancelled /\ frame[i] = "authorizing" => [](result[i] # "ok"))

---------------------------------------------------------------------------
\* Liveness

Working(i) == frame[i] \in {"waiting", "prompting", "stranded"}

\* A request that was sent is over some day, whatever the user, the child and
\* the broker do: "a helper that never answers must not leave the UI busy
\* forever".
RequestCompletes == \A i \in Ids : Working(i) ~> ~Working(i) \/ session = "gone"

\* A read-only diagnostic always returns to its caller: no answer, dialog or
\* lock of the user's is needed, and a helper that hangs does not prevent it.
DiagnosticReturns ==
    \A i \in Ids :
        IsDiagnostic(kind[i]) /\ Working(i) ~> frame[i] = "ended" \/ session = "gone"

\* A root broker whose GUI closed the session, or died, ends.  Only a foreground
\* dispatch, which has no bound, may keep it.
BrokerExits == eof /\ brokerRunning ~> ~brokerRunning \/ bpc = "foreground"

\* A confirmed cancel of a mutating request ends it, even with a child that is
\* busy and never looks at its marker or its input.
CancelEnds ==
    \A i \in Ids :
        gate = i /\ userCancelled /\ Mutating(kind[i]) /\ Working(i)
            ~> ~Working(i) \/ ~brokerRunning

---------------------------------------------------------------------------
\* Refinement

Status(i) ==
    IF frame[i] = "unused" THEN "idle"
    ELSE IF frame[i] # "ended" THEN "open"
    ELSE IF outcome[i].ok THEN "success" ELSE "failure"

Service == INSTANCE RequestService WITH
    Requests <- Ids,
    holder <- gate,
    status <- [i \in Ids |-> Status(i)],
    done <- {i \in Ids : result[i] \in Complete}

\* The session implements the service its callers rely on.
ImplementsService == Service!ServiceSpec

---------------------------------------------------------------------------
\* What the code or its comments say and the model refutes

\* "Only an explicit y/Y/yes proceeds" (confirm_mutating_stage): a stage that
\* asked is carried out only on a yes given while its question was on screen.
ConsentedStages == misapplied = {}

\* 126 means that a FIFO could not be created: with FIFOs that can always be
\* created, no request is dispatched twice.
DispatchedOnce == \A i \in Ids : dispatches[i] <= 1
=============================================================================
