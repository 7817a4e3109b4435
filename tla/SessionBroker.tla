--------------------------- MODULE SessionBroker ---------------------------
(***************************************************************************)
(* The long-lived root broker (session_server in boot-repair-helper.sh),   *)
(* the input pump it starts beside a cancellable dispatch, and the child   *)
(* that carries out one request.  The broker serves one request at a time; *)
(* while it does, the protocol pipe is read by the pump (a cancellable     *)
(* dispatch) or by the child itself (a foreground dispatch).               *)
(***************************************************************************)
EXTENDS SessionProtocol

VARIABLES
    bpc,         \* where the broker is: its header loop or a dispatch
    cur,         \* the id of the request being dispatched, 0 if none
    pending,     \* pending_pre_begin_cancels: it never shrinks
    marker,      \* the mutating-cancel marker file of cur exists
    pump,        \* the input pump process is alive
    relayed,     \* cancel_sent: the cancel was relayed to the child
    childIn,     \* the FIFO that feeds the child's stdin
    child,       \* the child process
    stage,       \* stages the child has passed
    rc,          \* the child's exit code, "notexec" being 126
    dispatches,  \* history: how often each request was dispatched
    result,      \* history: how each request's last child ended
    misapplied   \* history: stages carried out on a "yes" to another prompt

childVars == <<childIn, child, stage, rc, result, misapplied>>
brokerVars == <<bpc, cur, pending, marker, pump, relayed, dispatches>>

Results ==
    {"none", "ok", "partial", "declined", "failed", "aborted", "killed", "lost"}
Complete == {"ok", "partial", "declined"}
ExitCodes == {"none", "zero", "nonzero", "notexec"}

BrokerTypeOK ==
    /\ bpc \in {"header", "diagnostic", "mutating", "foreground"}
    /\ cur \in Ids \cup {0}
    /\ pending \subseteq Ids \cup {0}
    /\ marker \in BOOLEAN
    /\ pump \in BOOLEAN
    /\ relayed \in BOOLEAN
    /\ childIn \in Seq(GuiRecords)
    /\ child \in {"none", "working", "prompting", "stopping", "exited"}
    /\ stage \in 0 .. NumStages
    /\ rc \in ExitCodes
    /\ dispatches \in [Ids -> Nat]
    /\ result \in [Ids -> Results]
    /\ misapplied \subseteq Stages

BrokerInit ==
    /\ bpc = "header"
    /\ cur = 0
    /\ pending = {}
    /\ marker = FALSE
    /\ pump = FALSE
    /\ relayed = FALSE
    /\ childIn = <<>>
    /\ child = "none"
    /\ stage = 0
    /\ rc = "none"
    /\ dispatches = [i \in Ids |-> 0]
    /\ result = [i \in Ids |-> "none"]
    /\ misapplied = {}

Alive == child \in {"working", "prompting", "stopping"}
Dispatching == bpc \in {"diagnostic", "mutating"}

---------------------------------------------------------------------------
\* The request loop of session_server

\* The broker starts and reports SESSION_READY.
BrokerStart ==
    /\ brokerRunning' = TRUE
    /\ toGui' = Append(toGui, Ready)

\* Broker and child are gone, with everything they kept in memory and the read
\* end of their pipe.
Vanish ==
    /\ brokerRunning' = FALSE
    /\ toHelper' = <<>>
    /\ usr1' = FALSE
    /\ bpc' = "header" /\ cur' = 0 /\ pending' = {}
    /\ marker' = FALSE /\ pump' = FALSE /\ relayed' = FALSE
    /\ childIn' = <<>> /\ child' = "none" /\ stage' = 0 /\ rc' = "none"

InHeader(tag) ==
    /\ brokerRunning /\ bpc = "header"
    /\ toHelper # <<>> /\ Head(toHelper).tag = tag
    /\ toHelper' = Tail(toHelper)

\* A CANCEL between two requests is kept: its BEGIN may still come.
ReadCancel ==
    /\ InHeader("CANCEL")
    /\ pending' = pending \cup {Head(toHelper).id}
    /\ UNCHANGED <<kind, toGui, eof, brokerRunning, usr1, bpc, cur, marker, pump,
                   relayed, dispatches, childVars>>

\* An ANSWER whose request is over is dropped.
ReadStrayAnswer ==
    /\ InHeader("ANSWER")
    /\ UNCHANGED <<kind, toGui, eof, brokerRunning, usr1, brokerVars, childVars>>

ReadQuit ==
    /\ brokerRunning /\ bpc = "header"
    /\ toHelper # <<>> /\ Head(toHelper).tag = "QUIT"
    /\ Vanish
    /\ UNCHANGED <<kind, toGui, eof, dispatches, result, misapplied>>

IgnoresHangUp == FALSE                                                 \* mutant
HungUp == toHelper = <<>> /\ eof

ReadEof ==
    /\ brokerRunning /\ bpc = "header"
    /\ HungUp
    /\ Vanish
    /\ UNCHANGED <<kind, toGui, eof, dispatches, result, misapplied>>

\* The per-disk lock is held elsewhere: SESSION_ERROR and DONE 2.
RefuseBusy ==
    /\ InHeader("BEGIN")
    /\ LET i == Head(toHelper).id
       IN  /\ NeedsDiskLock(kind[i])
           /\ toGui' = Append(toGui, Done(i, "nonzero"))
    /\ UNCHANGED <<kind, eof, brokerRunning, usr1, brokerVars, childVars>>

\* A cancel that was read before this BEGIN is recorded for the child; every
\* other cancel of an earlier request is forgotten here.
ForgottenCancel(i) == FALSE                                            \* mutant
RecordedCancel(i) == i \in pending
KeptSignal(i) == usr1 \/ (IsDiagnostic(kind[i]) /\ RecordedCancel(i))   \* mutant
SignalAtBegin(i) == IsDiagnostic(kind[i]) /\ RecordedCancel(i)

\* Start the child of request i in its dispatch.  A diagnostic child whose
\* cancel came before its BEGIN exits at once, its marker printed.
ReadBegin ==
    /\ InHeader("BEGIN")
    /\ LET i == Head(toHelper).id
           diagnostic == IsDiagnostic(kind[i])
       IN  \E fifo \in IF Cancellable(kind[i]) THEN FifoOutcomes ELSE {FALSE} :
           LET bornCancelled == fifo /\ diagnostic /\ RecordedCancel(i)
           IN  /\ cur' = i
               /\ bpc' = IF ~fifo THEN "foreground"
                         ELSE IF diagnostic THEN "diagnostic" ELSE "mutating"
               /\ pump' = fifo
               /\ usr1' = SignalAtBegin(i)
               /\ marker' = (Mutating(kind[i]) /\ RecordedCancel(i))
               /\ child' = IF bornCancelled THEN "exited" ELSE "working"
               /\ rc' = IF bornCancelled THEN "zero" ELSE "none"
               /\ result' = [result EXCEPT ![i] =
                                IF bornCancelled THEN "partial" ELSE "none"]
               /\ dispatches' = [dispatches EXCEPT ![i] = @ + 1]
    /\ relayed' = FALSE /\ childIn' = <<>> /\ stage' = 0
    /\ UNCHANGED <<kind, toGui, eof, brokerRunning, pending, misapplied>>

---------------------------------------------------------------------------
\* The input pumps of a cancellable dispatch

PumpReads(dispatch, tag) ==
    /\ brokerRunning /\ bpc = dispatch /\ pump
    /\ toHelper # <<>> /\ Head(toHelper).tag = tag
    /\ toHelper' = Tail(toHelper)

\* A write to the child's FIFO is dropped once nobody holds its read end.
Forward(r) == childIn' = IF Alive THEN Append(childIn, r) ELSE childIn

\* CANCEL of the running request: marker, forwarded record, signal.
MutatingPumpCancel ==
    /\ PumpReads("mutating", "CANCEL") /\ Head(toHelper).id = cur
    /\ marker' = TRUE
    /\ Forward(Head(toHelper))
    /\ usr1' = TRUE
    /\ UNCHANGED <<kind, toGui, eof, brokerRunning, bpc, cur, pending, pump, relayed,
                   dispatches, child, stage, rc, result, misapplied>>

MutatingPumpForward ==
    /\ PumpReads("mutating", "ANSWER")
    /\ Forward(Head(toHelper))
    /\ UNCHANGED <<kind, toGui, eof, brokerRunning, usr1, brokerVars,
                   child, stage, rc, result, misapplied>>

\* The pumps' branches for a record of another request, which the mutating one
\* forwards and the diagnostic one drops, are left out: OneRequestAtATime of
\* PrivilegedSession says that no such record meets a pump.
DiagnosticPumpCancel ==
    /\ PumpReads("diagnostic", "CANCEL") /\ Head(toHelper).id = cur
    /\ usr1' = TRUE
    /\ UNCHANGED <<kind, toGui, eof, brokerRunning, brokerVars, childVars>>

\* QUIT or end of file ends the pump.  Only the mutating pump wakes the broker.
PumpEnds ==
    /\ brokerRunning /\ Dispatching /\ pump
    /\ \/ toHelper # <<>> /\ Head(toHelper).tag = "QUIT" /\ toHelper' = Tail(toHelper)
       \/ toHelper = <<>> /\ eof /\ toHelper' = toHelper
    /\ pump' = FALSE
    /\ usr1' = IF bpc = "mutating" THEN TRUE ELSE usr1
    /\ UNCHANGED <<kind, toGui, eof, brokerRunning, bpc, cur, pending, marker, relayed,
                   dispatches, childVars>>

---------------------------------------------------------------------------
\* The child

\* It polls the marker file at every stage boundary.
CancelMarked == Mutating(kind[cur]) /\ marker

ChildCheckpoint ==
    /\ child = "working" /\ CancelMarked
    /\ child' = "stopping"
    /\ UNCHANGED <<protocolVars, brokerVars, childIn, stage, rc, result, misapplied>>

\* One stage, section or step that needs no answer.  A rollback always asks
\* before its transaction, its last stage here; the stage before stands for the
\* question about /home, which is asked only if there is a separate /home.
LastStage == stage + 1 = NumStages

ChildStage ==
    /\ child = "working" /\ stage < NumStages /\ ~CancelMarked
    /\ kind[cur] = "rollback" => ~LastStage
    /\ stage' = stage + 1
    /\ UNCHANGED <<protocolVars, brokerVars, childIn, child, rc, result, misapplied>>

\* A CONFIRM prompt or a menu, right before the stage it is about.
ChildPrompt ==
    /\ child = "working" /\ stage < NumStages /\ ~CancelMarked
    /\ Interactive(kind[cur])
    /\ child' = "prompting"
    /\ toGui' = Append(toGui, Prompt(cur, stage + 1))
    /\ UNCHANGED <<kind, toHelper, eof, brokerRunning, usr1, brokerVars, childIn, stage,
                   rc, result, misapplied>>

\* The child's stdin: the FIFO of a mutating dispatch, the protocol pipe of a
\* foreground one.
Stdin == IF bpc = "mutating" THEN childIn ELSE toHelper
ReadStdin ==
    IF bpc = "mutating"
    THEN childIn' = Tail(childIn) /\ toHelper' = toHelper
    ELSE toHelper' = Tail(toHelper) /\ childIn' = childIn

IsAnswer(r) == r.tag = "ANSWER" /\ r.id = cur
IsYes(r) == IsAnswer(r) /\ r.text = "yes"
IsCancel(r) == r.tag = "CANCEL" /\ r.id = cur
PromptReads == child = "prompting" /\ Stdin # <<>>

\* yes: the stage is carried out.
ChildReadsYes ==
    /\ PromptReads /\ IsYes(Head(Stdin))
    /\ ReadStdin
    /\ child' = "working"
    /\ stage' = stage + 1
    /\ misapplied' = misapplied \cup ({stage + 1} \ Head(Stdin).about)
    /\ UNCHANGED <<kind, toGui, eof, brokerRunning, usr1, brokerVars, rc, result>>

\* CANCEL: abort_mutating_request, whatever else is going on.
ChildReadsCancel ==
    /\ PromptReads /\ IsCancel(Head(Stdin))
    /\ ReadStdin
    /\ child' = "stopping"
    /\ UNCHANGED <<kind, toGui, eof, brokerRunning, usr1, brokerVars, stage, rc, result,
                   misapplied>>

\* The stage is declined.  A repair skips it and goes on, and so does a rollback
\* that asked about /home; a rollback that is not confirmed ends with code 0,
\* nothing changed; a shell command cannot continue and ends with 125.
Decline ==
    IF kind[cur] \in {"repair", "plan"} \/ (kind[cur] = "rollback" /\ ~LastStage)
    THEN /\ child' = "working" /\ stage' = stage + 1
         /\ UNCHANGED <<rc, result>>
    ELSE /\ child' = "exited" /\ stage' = stage
         /\ rc' = IF kind[cur] = "rollback" THEN "zero" ELSE "nonzero"
         /\ result' = [result EXCEPT ![cur] =
                          IF kind[cur] = "rollback" THEN "declined" ELSE "failed"]

\* no, an empty answer, or a record that is neither an answer nor a cancel of
\* this request.
ChildReadsOther ==
    /\ PromptReads
    /\ ~IsYes(Head(Stdin)) /\ ~IsCancel(Head(Stdin))
    /\ ReadStdin
    /\ Decline
    /\ UNCHANGED <<kind, toGui, eof, brokerRunning, usr1, brokerVars, misapplied>>

\* The answer window expires (120 s for a confirmation, 600 s for a menu or a
\* shell question) or, with the pump or the GUI gone, the read meets end of
\* file.  A record that is there is always taken first.
ChildPromptExpires ==
    /\ child = "prompting" /\ Stdin = <<>>
    /\ Decline
    /\ UNCHANGED <<protocolVars, brokerVars, childIn, misapplied>>

\* The child ends by itself.  A host shell hands on the status of its command, a
\* chroot shell only behind a question that was declined, and else exits 1; the
\* kind stands for both, so its failure may or may not be a 126.
ChildSucceeds ==
    /\ child = "working" /\ stage = NumStages
    /\ child' = "exited" /\ rc' = "zero"
    /\ result' = [result EXCEPT ![cur] = "ok"]
    /\ UNCHANGED <<protocolVars, brokerVars, childIn, stage, misapplied>>

ChildFails ==
    /\ child = "working"
    /\ child' = "exited"
    /\ rc' \in {"nonzero"} \cup IF kind[cur] = "shell" THEN {"notexec"} ELSE {}
    /\ result' = [result EXCEPT ![cur] = "failed"]
    /\ UNCHANGED <<protocolVars, brokerVars, childIn, stage, misapplied>>

\* The child has seen its cancel.  A diagnostic stops at the next section with
\* code 0, unless the signal came before its trap was armed; any other child
\* exits 143 through its cleanup, or is killed when the grace has expired.
ChildStops ==
    /\ child = "stopping"
    /\ child' = "exited"
    /\ \/ /\ IsDiagnostic(kind[cur])
          /\ rc' = "zero" /\ result' = [result EXCEPT ![cur] = "partial"]
       \/ /\ IsDiagnostic(kind[cur]) => stage = 0
          /\ rc' = "nonzero" /\ result' = [result EXCEPT ![cur] = "aborted"]
    /\ UNCHANGED <<protocolVars, brokerVars, childIn, stage, misapplied>>

---------------------------------------------------------------------------
\* The poll loop of a cancellable dispatch, and its end

\* The relay ends the child's tree, whatever the child is doing.
OnlyDiagnosticSignalled ==                                             \* mutant
    IF Alive /\ bpc = "diagnostic" THEN "stopping" ELSE child
SignalledChild == IF Alive THEN "stopping" ELSE child

\* The cancel is relayed once; the flag is cleared for whatever comes next.
RelayCancel ==
    /\ brokerRunning /\ Dispatching /\ usr1 /\ ~relayed
    /\ relayed' = TRUE
    /\ usr1' = FALSE
    /\ child' = SignalledChild
    /\ UNCHANGED <<kind, toHelper, toGui, eof, brokerRunning, bpc, cur, pending, marker,
                   pump, dispatches, childIn, stage, rc, result, misapplied>>

\* 7200 s: terminate_helper_tree ends a child that is still there.
DiagnosticsBounded == bpc = "diagnostic"                               \* mutant
Bounded == Dispatching

DispatchBound ==
    /\ brokerRunning /\ Bounded /\ Alive
    /\ child' = "exited"
    /\ rc' = "nonzero"
    /\ result' = [result EXCEPT ![cur] = "killed"]
    /\ UNCHANGED <<protocolVars, brokerVars, childIn, stage, misapplied>>

\* 126 from a cancellable dispatch means "no FIFO": run it in the foreground.
FallBack ==
    /\ brokerRunning /\ Dispatching /\ child = "exited" /\ rc = "notexec"
    /\ bpc' = "foreground"
    /\ pump' = FALSE /\ childIn' = <<>>
    /\ child' = "working" /\ stage' = 0 /\ rc' = "none"
    /\ dispatches' = [dispatches EXCEPT ![cur] = @ + 1]
    /\ UNCHANGED <<protocolVars, cur, pending, marker, relayed, result, misapplied>>

\* The pump is killed, the lock released, the marker removed, DONE written.
LostStatus == "zero"                                                   \* mutant
RawStatus == rc                                                        \* mutant
DoneCode == IF rc = "zero" THEN "zero" ELSE "nonzero"

FinishDispatch ==
    /\ brokerRunning /\ child = "exited"
    /\ Dispatching => rc # "notexec"
    /\ toGui' = Append(toGui, Done(cur, DoneCode))
    /\ bpc' = "header" /\ cur' = 0
    /\ marker' = FALSE /\ pump' = FALSE /\ relayed' = FALSE
    /\ child' = "none" /\ childIn' = <<>> /\ stage' = 0 /\ rc' = "none"
    /\ UNCHANGED <<kind, toHelper, eof, brokerRunning, usr1, pending, dispatches, result,
                   misapplied>>

\* The broker is killed, with its child.
BrokerDies ==
    /\ brokerRunning
    /\ Vanish
    /\ result' = IF Alive THEN [result EXCEPT ![cur] = "lost"] ELSE result
    /\ UNCHANGED <<kind, toGui, eof, dispatches, misapplied>>

HeaderLoop == ReadCancel \/ ReadStrayAnswer \/ ReadQuit \/ ReadEof \/ RefuseBusy \/ ReadBegin

InputPump == \/ MutatingPumpCancel \/ MutatingPumpForward
             \/ DiagnosticPumpCancel \/ PumpEnds

\* Steps the child takes in bounded time, and those that may never come.
ChildReacts == \/ ChildCheckpoint \/ ChildReadsYes \/ ChildReadsCancel
               \/ ChildReadsOther \/ ChildPromptExpires \/ ChildStops
ChildWorks == ChildStage \/ ChildPrompt \/ ChildSucceeds \/ ChildFails

PollLoop == RelayCancel \/ DispatchBound \/ FallBack \/ FinishDispatch

BrokerNext == HeaderLoop \/ InputPump \/ ChildReacts \/ ChildWorks \/ PollLoop \/ BrokerDies
=============================================================================
