-------------------- MODULE PrivilegedSessionRefinement --------------------
(***************************************************************************)
(* The privileged session implements RequestService, for every value of the *)
(* constants: the refinement that the instance Service of PrivilegedSession *)
(* states, proved step by step.                                            *)
(***************************************************************************)
EXTENDS PrivilegedSessionProofs

\* What the mapping of "done" needs beyond the inductive invariant: work that
\* has not started has no result, and work in progress is not yet complete.
WorkInv ==
    /\ \A i \in Ids : ~Past(i) => result[i] = "none"
    /\ \A i \in Ids : InPipe(toHelper, "BEGIN", i) => result[i] = "none"
    /\ Alive => result[cur] \notin Complete
    /\ child = "exited" /\ rc = "notexec" => result[cur] \notin Complete

\* The broker's request is one the GUI sent, and no other BEGIN waits behind it.
LEMMA ServedRequest ==
    ASSUME IInv, bpc # "header"
    PROVE  cur \in Ids /\ Past(cur) /\ \A i : ~InPipe(toHelper, "BEGIN", i)
<1>1. ServesOnly(toHelper, cur) /\ cur # 0 /\ cur \in Ids
  BY DEF IInv, Safe, TypeOK, BrokerInv, BrokerTypeOK
<1>2. Past(cur)
  BY <1>1 DEF IInv, Safe, ResultInv
<1>3. \A i : ~InPipe(toHelper, "BEGIN", i)
  BY <1>1 DEF ServesOnly, InPipe
<1> QED BY <1>1, <1>2, <1>3

\* A child is part of a dispatch.
LEMMA ChildIsServed ==
    ASSUME IInv, child # "none"
    PROVE  bpc # "header"
  BY DEF IInv, Safe, BrokerInv

---------------------------------------------------------------------------
(* What the steps do to the variables the mapping reads.                   *)

\* The GUI steps that neither send a request nor end one.
MinorGuiStep ==
    \/ AskAuthorization \/ SkipForeign \/ ReadPrompt \/ RefreshPrompt
    \/ ReadLatePrompt \/ RefusePrompt \/ DropPrompt \/ Watchdog \/ TimeoutTeardown
    \/ SessionClosed \/ SessionFinished \/ FrameLost
    \/ CancelDiagnostic \/ OpenCancelDialog \/ KeepRunning \/ ConfirmCancel
    \/ (\E text \in {"yes", "no"} : Answer(text))
    \/ LockSession \/ CloseWindow \/ Denied \/ GuiDies \/ PolkitGrants

\* Every step is of one of six sorts.
LEMMA SortsOfSteps ==
    ASSUME Next
    PROVE  \/ \E k \in Kinds : Claim(k) /\ UNCHANGED brokerState
           \/ ReadReady /\ UNCHANGED brokerState
           \/ ReadDone /\ UNCHANGED brokerState
           \/ \E i \in Ids : FrameEnds(i) /\ UNCHANGED brokerState
           \/ MinorGuiStep /\ UNCHANGED brokerState
           \/ BrokerNext /\ UNCHANGED requestState
<1>1. CASE GuiStep
  BY <1>1 DEF GuiStep, GuiSteps, ReadRecord, FrameReturns, MinorGuiStep
<1>2. CASE UserStep
  BY <1>2 DEF UserStep, UserSteps, CloseDialog, MinorGuiStep
<1>3. CASE BrokerStep
  BY <1>3 DEF BrokerStep
<1>4. CASE PolkitGrants
  BY <1>4 DEF PolkitGrants, MinorGuiStep
<1> QED BY <1>1, <1>2, <1>3, <1>4 DEF Next

\* A minor step leaves the gate and every outcome alone, and moves a frame only
\* between states in which its request is open; what has been sent stays sent.
LEMMA MinorSteps ==
    ASSUME IInv, MinorGuiStep
    PROVE  /\ gate' = gate /\ outcome' = outcome
           /\ \A i \in Ids : Status(i)' = Status(i)
           /\ \A i \in Ids : Past(i) => Past(i)'
<1> USE DEF IInv, TypeOK, RequestTypeOK, Frames, Status, Past, historyVars, requestVars
<1>1. CASE SkipForeign \/ RefreshPrompt \/ RefusePrompt \/ DropPrompt
           \/ TimeoutTeardown \/ SessionClosed \/ SessionFinished
           \/ CancelDiagnostic \/ OpenCancelDialog \/ KeepRunning \/ ConfirmCancel
           \/ LockSession \/ CloseWindow \/ Denied \/ GuiDies \/ PolkitGrants
  <2>1. gate' = gate /\ outcome' = outcome /\ frame' = frame
    BY <1>1 DEF SkipForeign, RefreshPrompt, RefusePrompt, DropPrompt,
         TimeoutTeardown, SessionClosed, SessionFinished, CancelDiagnostic,
         OpenCancelDialog, KeepRunning, ConfirmCancel, LockSession, CloseWindow,
         Denied, GuiDies, PolkitGrants
  <2> QED BY <2>1
<1>2. CASE AskAuthorization \/ ReadPrompt \/ ReadLatePrompt \/ Watchdog \/ FrameLost
           \/ (\E text \in {"yes", "no"} : Answer(text))
  <2>1. /\ gate' = gate /\ outcome' = outcome /\ gate \in Ids
        /\ frame[gate] \notin {"unused", "ended"}
        /\ frame'[gate] \notin {"unused", "ended"}
        /\ frame[gate] \notin {"claimed", "authorizing"}
              => frame'[gate] \notin {"claimed", "authorizing"}
        /\ \A i \in Ids : i # gate => frame'[i] = frame[i]
    BY <1>2 DEF AskAuthorization, ReadPrompt, ReadLatePrompt, Watchdog, FrameLost,
         Answer, ForThisRequest
  <2> QED BY <2>1
<1> QED BY <1>1, <1>2 DEF MinorGuiStep

\* Only Claim and ReadReady write a BEGIN.
LEMMA MinorStepsSendNothing ==
    ASSUME IInv, MinorGuiStep
    PROVE  \A i : InPipe(toHelper', "BEGIN", i) => InPipe(toHelper, "BEGIN", i)
<1> USE DEF IInv, TypeOK
<1>1. CASE SkipForeign \/ ReadPrompt \/ RefreshPrompt \/ DropPrompt \/ Watchdog
           \/ SessionClosed \/ SessionFinished \/ FrameLost \/ OpenCancelDialog
           \/ KeepRunning \/ Denied \/ GuiDies \/ PolkitGrants
  BY <1>1 DEF SkipForeign, ReadPrompt, RefreshPrompt, DropPrompt, Watchdog,
       SessionClosed, SessionFinished, FrameLost, OpenCancelDialog, KeepRunning,
       Denied, GuiDies, PolkitGrants, protocolVars
<1>2. CASE AskAuthorization
  BY <1>2, EmptyTags DEF AskAuthorization
<1>3. CASE CancelDiagnostic \/ ConfirmCancel
  <2>1. toHelper' = toHelper \/ (Write(Cancel(gate)) /\ gate \in Ids)
    BY <1>3 DEF CancelDiagnostic, ConfirmCancel, SendCancel, SendSignal, RequestTypeOK
  <2> QED BY <2>1, Written, GuiRecordType DEF Grown, Cancel
<1>4. CASE LockSession \/ CloseWindow \/ TimeoutTeardown
  <2>1. toHelper' = toHelper \/ Write(Quit)
    BY <1>4 DEF LockSession, CloseWindow, TimeoutTeardown, CloseChannel
  <2> QED BY <2>1, Written, GuiRecordType DEF Grown, Quit
<1>5. CASE ReadLatePrompt \/ RefusePrompt
  <2>1. toHelper' = toHelper \/ (Write(AnswerRecord(gate, "none", {})) /\ gate \in Ids)
    BY <1>5 DEF ReadLatePrompt, RefusePrompt, ForThisRequest, RequestTypeOK
  <2> QED BY <2>1, Written, GuiRecordType DEF Grown, AnswerRecord, Texts
<1>6. CASE \E text \in {"yes", "no"} : Answer(text)
  <2>1. PICK text \in {"yes", "no"} : Write(AnswerRecord(gate, text, asked)) /\ gate \in Ids
    BY <1>6 DEF Answer, RequestTypeOK
  <2> QED BY <2>1, Written, GuiRecordType DEF Grown, AnswerRecord, Texts, RequestTypeOK
<1> QED BY <1>1, <1>2, <1>3, <1>4, <1>5, <1>6 DEF MinorGuiStep

\* What a broker step other than ReadBegin does to the results: only that of the
\* request it is serving can change, only once it is over for that child, and
\* then it was not complete.
LEMMA BrokerResults ==
    ASSUME IInv, WorkInv, BrokerNext, ~ReadBegin
    PROVE  /\ \A i \in Ids : i # cur => result'[i] = result[i]
           /\ result' # result => bpc # "header" /\ result[cur] \notin Complete
           /\ Alive' => cur' = cur /\ result'[cur] \notin Complete /\ bpc # "header"
           /\ child' = "exited" /\ rc' = "notexec" =>
                 cur' = cur /\ result'[cur] \notin Complete /\ bpc # "header"
<1> USE DEF IInv, TypeOK, protocolVars, brokerVars, childVars
<1>1. CASE ReadCancel \/ ReadStrayAnswer \/ ReadQuit \/ ReadEof \/ RefuseBusy
           \/ FinishDispatch
  <2>1. result' = result /\ ~Alive' /\ child' # "exited"
    BY <1>1 DEF ReadCancel, ReadStrayAnswer, ReadQuit, ReadEof, RefuseBusy, Vanish,
         InHeader, FinishDispatch, Safe, BrokerInv, Alive
  <2> QED BY <2>1
<1>2. CASE InputPump \/ ChildCheckpoint \/ ChildStage \/ ChildPrompt \/ ChildReadsYes
           \/ ChildReadsCancel \/ RelayCancel
  <2>1. result' = result /\ cur' = cur /\ rc' = rc /\ (child' = child \/ (Alive /\ Alive'))
    BY <1>2 DEF InputPump, MutatingPumpCancel, MutatingPumpForward,
         DiagnosticPumpCancel, PumpEnds, ChildCheckpoint, ChildStage, ChildPrompt,
         ChildReadsYes, ChildReadsCancel, RelayCancel, SignalledChild, PromptReads, Alive
  <2>2. Alive \/ child = "exited" => bpc # "header"
    BY ChildIsServed DEF Alive
  <2> QED BY <2>1, <2>2 DEF WorkInv, Alive
<1>3. CASE ChildReadsOther \/ ChildPromptExpires
  <2>1. bpc # "header" /\ Alive /\ cur' = cur
    BY <1>3, ChildIsServed DEF ChildReadsOther, ChildPromptExpires, PromptReads, Alive
  <2>2. \/ result' = result /\ child' = "working"
        \/ child' = "exited" /\ rc' # "notexec" /\ \A i \in Ids : i # cur => result'[i] = result[i]
    BY <1>3 DEF ChildReadsOther, ChildPromptExpires, Decline, BrokerTypeOK
  <2> QED BY <2>1, <2>2 DEF WorkInv, Alive
<1>4. CASE ChildSucceeds \/ ChildFails \/ ChildStops \/ DispatchBound
  <2>1. bpc # "header" /\ Alive /\ cur' = cur
    BY <1>4, ChildIsServed DEF ChildSucceeds, ChildFails, ChildStops, DispatchBound, Alive
  <2>2. child' = "exited" /\ \A i \in Ids : i # cur => result'[i] = result[i]
    BY <1>4 DEF ChildSucceeds, ChildFails, ChildStops, DispatchBound, BrokerTypeOK
  <2>3. rc' = "notexec" => result'[cur] = "failed"
    BY <1>4, <2>1, ServedRequest DEF ChildSucceeds, ChildFails, ChildStops,
         DispatchBound, BrokerTypeOK
  <2> QED BY <2>1, <2>2, <2>3 DEF WorkInv, Alive, Complete
<1>5. CASE FallBack
  <2>1. result' = result /\ cur' = cur /\ child' = "working" /\ bpc # "header"
    BY <1>5 DEF FallBack, Dispatching
  <2> QED BY <1>5, <2>1 DEF FallBack, WorkInv, Alive
<1>6. CASE BrokerDies
  <2>1. ~Alive' /\ child' # "exited" /\ \A i \in Ids : i # cur => result'[i] = result[i]
    BY <1>6 DEF BrokerDies, Vanish, Alive, BrokerTypeOK
  <2>2. result' # result => Alive
    BY <1>6 DEF BrokerDies
  <2>3. Alive => bpc # "header"
    BY ChildIsServed DEF Alive
  <2> QED BY <2>1, <2>2, <2>3 DEF WorkInv
<1> QED BY <1>1, <1>2, <1>3, <1>4, <1>5, <1>6
        DEF BrokerNext, HeaderLoop, ChildReacts, ChildWorks, PollLoop

\* No broker step adds a BEGIN to its own input.
LEMMA BrokerOnlyReads ==
    ASSUME IInv, BrokerNext
    PROVE  \A i : InPipe(toHelper', "BEGIN", i) => InPipe(toHelper, "BEGIN", i)
<1> USE DEF IInv, TypeOK, protocolVars
<1>1. CASE ReadCancel \/ ReadStrayAnswer \/ RefuseBusy \/ ReadBegin \/ InputPump
  <2>1. toHelper' = toHelper \/ (toHelper # <<>> /\ toHelper' = Tail(toHelper))
    BY <1>1 DEF ReadCancel, ReadStrayAnswer, RefuseBusy, ReadBegin, InHeader, InputPump,
         MutatingPumpCancel, MutatingPumpForward, DiagnosticPumpCancel, PumpEnds, PumpReads
  <2> QED BY <2>1, TailTaken DEF Taken, Shrunk, ProtocolTypeOK
<1>2. CASE ReadQuit \/ ReadEof \/ BrokerDies
  BY <1>2, EmptyTags DEF ReadQuit, ReadEof, BrokerDies, Vanish
<1>3. CASE ChildReadsYes \/ ChildReadsCancel \/ ChildReadsOther
  <2>1. Stdin # <<>> /\ ReadStdin
    BY <1>3 DEF ChildReadsYes, ChildReadsCancel, ChildReadsOther, PromptReads
  <2> QED BY <2>1, StdinRead DEF Shrunk
<1>4. CASE ChildCheckpoint \/ ChildPromptExpires \/ ChildStops \/ ChildWorks \/ PollLoop
  BY <1>4 DEF ChildCheckpoint, ChildPromptExpires, ChildStops, ChildWorks, ChildStage,
       ChildPrompt, ChildSucceeds, ChildFails, PollLoop, RelayCancel, DispatchBound,
       FallBack, FinishDispatch
<1> QED BY <1>1, <1>2, <1>3, <1>4 DEF BrokerNext, HeaderLoop, ChildReacts

---------------------------------------------------------------------------
(* The strengthened invariant is preserved.                                *)

\* Before anything ran there are no results.
LEMMA InitWork == Init => WorkInv
  BY EmptyTags DEF Init, ProtocolInit, BrokerInit, WorkInv, Alive

\* A request that was sent stays sent.
LEMMA PastStays ==
    ASSUME IInv, Next
    PROVE  \A i \in Ids : Past(i) => Past(i)'
<1> USE DEF IInv, TypeOK, RequestTypeOK, Past
<1>1. ASSUME NEW k \in Kinds, Claim(k) PROVE \A i \in Ids : Past(i) => Past(i)'
  <2>1. frame[next] = "unused" /\ next \in Ids
    BY <1>1 DEF Claim, Safe, FrameInv, Ids
  <2>2. \A i \in Ids : i # next => frame'[i] = frame[i]
    BY <1>1, <2>1 DEF Claim
  <2> QED BY <2>1, <2>2
<1>2. CASE ReadReady
  BY <1>2 DEF ReadReady
<1>3. CASE ReadDone
  BY <1>3 DEF ReadDone
<1>4. ASSUME NEW j \in Ids, FrameEnds(j) PROVE \A i \in Ids : Past(i) => Past(i)'
  BY <1>4 DEF FrameEnds
<1>5. CASE MinorGuiStep
  BY <1>5, MinorSteps
<1>6. CASE UNCHANGED requestState
  BY <1>6 DEF requestState, requestVars
<1> QED BY <1>1, <1>2, <1>3, <1>4, <1>5, <1>6, SortsOfSteps

\* A BEGIN is written for a request that has no result yet.
LEMMA BeginsHaveNoResult ==
    ASSUME IInv, WorkInv, Next, UNCHANGED brokerState
    PROVE  \A i \in Ids : InPipe(toHelper', "BEGIN", i) => result[i] = "none"
<1> USE DEF IInv, TypeOK, WorkInv
<1>1. ASSUME NEW k \in Kinds, Claim(k)
      PROVE  \A i \in Ids : InPipe(toHelper', "BEGIN", i) => result[i] = "none"
  <2>1. next \in Ids /\ ~Past(next)
    BY <1>1 DEF Claim, Safe, FrameInv, Past, RequestTypeOK, Ids
  <2>2. toHelper' = toHelper \/ Write(Begin(next))
    BY <1>1 DEF Claim
  <2> QED BY <2>1, <2>2, Written, GuiRecordType DEF Grown, Begin
<1>2. CASE ReadReady
  <2>1. gate \in Ids /\ ~Past(gate)
    BY <1>2 DEF ReadReady, RequestTypeOK, Past
  <2>2. Write(Begin(gate))
    BY <1>2 DEF ReadReady
  <2> QED BY <2>1, <2>2, Written, GuiRecordType DEF Grown, Begin
<1>3. CASE UNCHANGED toHelper
  BY <1>3
<1>4. CASE MinorGuiStep
  BY <1>4, MinorStepsSendNothing
<1>5. CASE BrokerNext
  BY <1>5, BrokerOnlyReads
<1> QED BY <1>1, <1>2, <1>3, <1>4, <1>5, SortsOfSteps
        DEF ReadDone, FrameEnds, protocolVars

\* Every step preserves it.
LEMMA NextWork == IInv /\ WorkInv /\ [Next]_vars => WorkInv'
<1> SUFFICES ASSUME IInv, WorkInv, [Next]_vars PROVE WorkInv'
  OBVIOUS
<1>1. CASE Next /\ UNCHANGED brokerState
  <2>1. \A i \in Ids : ~Past(i)' => ~Past(i)
    BY <1>1, PastStays
  <2>2. UNCHANGED <<result, cur, child, rc>>
    BY <1>1 DEF brokerState, brokerVars, childVars
  <2> QED BY <1>1, <2>1, <2>2, BeginsHaveNoResult DEF WorkInv, Alive
<1>2. CASE BrokerNext /\ ~ReadBegin /\ UNCHANGED requestState
  <2>1. \A i \in Ids : Past(i)' <=> Past(i)
    BY <1>2 DEF requestState, requestVars, Past
  <2>2. \A i \in Ids : result'[i] # result[i] =>
            i = cur /\ Past(i) /\ ~InPipe(toHelper, "BEGIN", i)
    BY <1>2, BrokerResults, ServedRequest
  <2>3. \A i \in Ids : ~Past(i)' => result'[i] = "none"
    BY <2>1, <2>2 DEF WorkInv
  <2>4. \A i \in Ids : InPipe(toHelper', "BEGIN", i) => result'[i] = "none"
    BY <1>2, <2>2, BrokerOnlyReads DEF WorkInv
  <2>5. Alive' => result'[cur'] \notin Complete
    BY <1>2, BrokerResults
  <2>6. child' = "exited" /\ rc' = "notexec" => result'[cur'] \notin Complete
    BY <1>2, BrokerResults
  <2> QED BY <2>3, <2>4, <2>5, <2>6 DEF WorkInv
<1>3. CASE ReadBegin /\ UNCHANGED requestState
  <2> DEFINE i == Head(toHelper).id
  <2>1. /\ toHelper # <<>> /\ toHelper' = Tail(toHelper)
        /\ Head(toHelper).tag = "BEGIN" /\ toHelper \in Seq(GuiRecords)
    BY <1>3 DEF ReadBegin, InHeader, IInv, TypeOK, ProtocolTypeOK
  <2>2. Taken(toHelper, toHelper', Head(toHelper)) /\ i \in Ids \cup {0}
    BY <2>1, TailTaken, RecordFields
  <2>3. i \in Ids /\ Past(i) /\ \A j : ~InPipe(toHelper', "BEGIN", j)
    BY <2>1, <2>2 DEF IInv, Safe, ResultInv, BrokerInv, Taken, Mentions, InPipe
  <2>4. /\ cur' = i /\ \A j \in Ids : j # i => result'[j] = result[j]
        /\ \/ child' = "exited" /\ rc' = "zero"
           \/ child' = "working" /\ result'[i] = "none"
    BY <1>3, <2>3 DEF ReadBegin, IInv, TypeOK, BrokerTypeOK
  <2>5. \A j \in Ids : Past(j)' <=> Past(j)
    BY <1>3 DEF requestState, requestVars, Past
  <2> QED BY <2>3, <2>4, <2>5 DEF WorkInv, Alive, Complete
<1>4. CASE UNCHANGED vars
  BY <1>4 DEF vars, protocolVars, requestState, requestVars, brokerState, brokerVars,
       childVars, WorkInv, Past, Alive
<1> QED BY <1>1, <1>2, <1>3, <1>4, SortsOfSteps DEF PolkitGrants

\* The strengthened invariant holds in every reachable state.
THEOREM WorkIsCounted == Spec => [](IInv /\ WorkInv)
<1>1. Init => IInv /\ WorkInv
  BY InitKeeps, InitWork
<1>2. (IInv /\ WorkInv) /\ [Next]_vars => (IInv /\ WorkInv)'
  BY NextKeeps, NextWork
<1> QED BY <1>1, <1>2, PTL DEF Spec

---------------------------------------------------------------------------
(* The mapping.                                                            *)

\* What the service shows of the session: the status of every request, and the
\* requests carried out to their end.
StatusMap == [i \in Ids |-> Status(i)]
DoneMap == {i \in Ids : result[i] \in Complete}

\* Finished work of a request the GUI sent and was not yet told about is what
\* the service calls Perform.
LEMMA CompletionPerforms ==
    ASSUME IInv, NEW i \in Ids, Past(i), result[i] \notin Complete,
           result'[i] \in Complete, \A j \in Ids : j # i => result'[j] = result[j],
           UNCHANGED requestState
    PROVE  Service!Perform(i)
<1>1. Status(i) \in {"open", "failure"}
  <2>1. ~outcome[i].ok
    BY DEF IInv, Safe, ResultInv, Finished
  <2> QED BY <2>1 DEF Status, Past
<1>2. DoneMap' = DoneMap \cup {i} /\ i \notin DoneMap
  BY DEF DoneMap
<1>3. StatusMap' = StatusMap /\ gate' = gate
  BY DEF StatusMap, Status, requestState, requestVars
<1> QED BY <1>1, <1>2, <1>3 DEF Service!Perform, StatusMap, DoneMap

\* A step of the session is a step of the service, or changes nothing in it.
LEMMA NextRefines ==
    ASSUME IInv, WorkInv, [Next]_vars
    PROVE  [Service!ServiceNext]_Service!serviceVars
<1> DEFINE Stutter == gate' = gate /\ StatusMap' = StatusMap /\ DoneMap' = DoneMap
<1>1. Stutter => [Service!ServiceNext]_Service!serviceVars
  BY DEF Service!serviceVars, StatusMap, DoneMap
<1>2. UNCHANGED brokerState => DoneMap' = DoneMap
  BY DEF DoneMap, brokerState, childVars
<1>3. ASSUME NEW k \in Kinds, Claim(k), UNCHANGED brokerState
      PROVE  Service!ServiceNext
  <2>1. PICK n \in Ids : n = next
    BY <1>3 DEF Claim
  <2>2. gate = 0 /\ frame[n] = "unused" /\ gate' = n
    BY <1>3, <2>1 DEF Claim, IInv, Safe, FrameInv, TypeOK, RequestTypeOK, Ids
  <2>3. frame'[n] \in {"waiting", "claimed"} /\ outcome' = outcome
        /\ \A j \in Ids : j # n => frame'[j] = frame[j]
    BY <1>3, <2>1 DEF Claim, IInv, TypeOK, RequestTypeOK
  <2>4. Status(n) = "idle" /\ Status(n)' = "open"
        /\ \A j \in Ids : j # n => Status(j)' = Status(j)
    BY <2>2, <2>3 DEF Status
  <2>5. StatusMap' = [StatusMap EXCEPT ![n] = "open"]
    BY <2>4 DEF StatusMap
  <2>6. Service!Accept(n)
    BY <2>2, <2>4, <2>5, <1>2, <1>3 DEF Service!Accept, StatusMap, DoneMap
  <2> QED BY <2>6 DEF Service!ServiceNext
<1>4. CASE ReadReady /\ UNCHANGED brokerState
  <2>1. gate' = gate /\ outcome' = outcome /\ gate \in Ids
        /\ frame[gate] = "authorizing" /\ frame'[gate] = "waiting"
        /\ \A j \in Ids : j # gate => frame'[j] = frame[j]
    BY <1>4 DEF ReadReady, IInv, TypeOK, RequestTypeOK
  <2>2. \A j \in Ids : Status(j)' = Status(j)
    BY <2>1 DEF Status
  <2>3. StatusMap' = StatusMap
    BY <2>2 DEF StatusMap
  <2> QED BY <1>1, <1>2, <1>4, <2>1, <2>3
<1>5. CASE ReadDone /\ UNCHANGED brokerState
  <2>1. /\ gate \in Ids /\ outcome' = outcome /\ gate' \in {gate, 0}
        /\ gate' # gate => Head(toGui).rc = "zero"
        /\ \A j \in Ids :
              \/ frame'[j] = frame[j]
              \/ /\ frame[j] \in {"waiting", "prompting", "stranded"}
                 /\ frame'[j] \in {"reviewing", "timedOut"}
    BY <1>5 DEF ReadDone, ForThisRequest, GivesBackGate, IInv, TypeOK, RequestTypeOK
  <2>2. \A j \in Ids : Status(j)' = Status(j)
    BY <2>1 DEF Status
  <2>3. StatusMap' = StatusMap
    BY <2>2 DEF StatusMap
  <2>4. CASE gate' = gate
    BY <1>1, <1>2, <1>5, <2>3, <2>4
  <2>5. CASE gate' # gate
    <3>1. InDone(toGui, gate, "zero")
      <4>1. Taken(toGui, Tail(toGui), Head(toGui))
        BY <1>5, TailTaken DEF ReadDone, Reads, IInv, TypeOK, ProtocolTypeOK
      <4> QED BY <1>5, <2>1, <2>5, <4>1 DEF ReadDone, Reads, ForThisRequest, Taken
    <3>2. gate \in DoneMap
      BY <2>1, <3>1 DEF IInv, Safe, ResultInv, Finished, DoneMap
    <3>3. Service!Release(gate)
      BY <1>2, <1>5, <2>1, <2>3, <2>5, <3>2 DEF Service!Release, StatusMap, DoneMap
    <3> QED BY <2>1, <3>3 DEF Service!ServiceNext
  <2> QED BY <2>4, <2>5
<1>6. ASSUME NEW i \in Ids, FrameEnds(i), UNCHANGED brokerState
      PROVE  Service!Report(i)
  <2>1. frame[i] \notin {"unused", "ended"} /\ frame'[i] = "ended"
        /\ outcome'[i].ok = (reply[i] = "zero")
        /\ \A j \in Ids : j # i => frame'[j] = frame[j] /\ outcome'[j] = outcome[j]
    BY <1>6 DEF FrameEnds, OnTop, Live, Succeeded, IInv, TypeOK, RequestTypeOK
  <2>2. Status(i) = "open" /\ \A j \in Ids : j # i => Status(j)' = Status(j)
    BY <2>1 DEF Status
  <2>3. gate' = IF gate = i THEN 0 ELSE gate
    BY <1>6 DEF FrameEnds
  <2>4. CASE reply[i] = "zero"
    <3>1. i \in DoneMap
      BY <2>4 DEF IInv, Safe, ResultInv, Finished, DoneMap
    <3>2. Status(i)' = "success"
      BY <2>1, <2>4 DEF Status
    <3>3. StatusMap' = [StatusMap EXCEPT ![i] = "success"]
      BY <2>2, <3>2 DEF StatusMap
    <3> QED BY <1>2, <1>6, <2>2, <2>3, <3>1, <3>3 DEF Service!Report, StatusMap, DoneMap
  <2>5. CASE reply[i] # "zero"
    <3>1. gate = i
      BY <2>1, <2>5 DEF IInv, Safe, FrameInv, Live
    <3>2. Status(i)' = "failure"
      BY <2>1, <2>5 DEF Status
    <3>3. StatusMap' = [StatusMap EXCEPT ![i] = "failure"]
      BY <2>2, <3>2 DEF StatusMap
    <3> QED BY <1>2, <1>6, <2>2, <2>3, <3>1, <3>3 DEF Service!Report, StatusMap, DoneMap
  <2> QED BY <2>4, <2>5
<1>7. CASE MinorGuiStep /\ UNCHANGED brokerState
  <2>1. StatusMap' = StatusMap /\ gate' = gate
    BY <1>7, MinorSteps DEF StatusMap
  <2> QED BY <1>1, <1>2, <1>7, <2>1
<1>8. CASE BrokerNext /\ UNCHANGED requestState
  <2>1. StatusMap' = StatusMap /\ gate' = gate
    BY <1>8 DEF requestState, requestVars, StatusMap, Status
  <2>2. PICK i \in Ids \cup {0} :
            /\ \A j \in Ids : j # i => result'[j] = result[j]
            /\ i # 0 => i \in Ids
            /\ DoneMap' # DoneMap => i \in Ids /\ Past(i) /\ result[i] \notin Complete
    <3>1. CASE ~ReadBegin
      <4>1. cur \in Ids \cup {0} /\ (bpc # "header" => cur \in Ids /\ Past(cur))
        BY ServedRequest DEF IInv, TypeOK, BrokerTypeOK
      <4>2. /\ \A j \in Ids : j # cur => result'[j] = result[j]
            /\ result' # result => bpc # "header" /\ result[cur] \notin Complete
        BY <1>8, <3>1, BrokerResults
      <4>3. DoneMap' # DoneMap => result' # result
        BY DEF DoneMap
      <4> WITNESS cur \in Ids \cup {0}
      <4> QED BY <4>1, <4>2, <4>3
    <3>2. CASE ReadBegin
      <4> DEFINE h == Head(toHelper).id
      <4>1. h \in Ids /\ InPipe(toHelper, "BEGIN", h)
        <5>1. Taken(toHelper, Tail(toHelper), Head(toHelper)) /\ h \in Ids \cup {0}
          BY <3>2, TailTaken, RecordFields
             DEF ReadBegin, InHeader, IInv, TypeOK, ProtocolTypeOK
        <5> QED BY <3>2, <5>1 DEF ReadBegin, InHeader, Taken, IInv, Safe, ResultInv
      <4>2. Past(h) /\ result[h] \notin Complete
        BY <4>1 DEF IInv, Safe, ResultInv, WorkInv, Complete
      <4>3. \A j \in Ids : j # h => result'[j] = result[j]
        BY <3>2, <4>1 DEF ReadBegin, IInv, TypeOK, BrokerTypeOK
      <4> WITNESS h \in Ids \cup {0}
      <4> QED BY <4>1, <4>2, <4>3
    <3> QED BY <3>1, <3>2
  <2>3. CASE DoneMap' = DoneMap
    BY <1>1, <2>1, <2>3
  <2>4. CASE DoneMap' # DoneMap
    <3>1. result'[i] \in Complete
      BY <2>2, <2>4 DEF DoneMap
    <3>2. Service!Perform(i)
      BY <1>8, <2>2, <2>4, <3>1, CompletionPerforms
    <3> QED BY <2>2, <2>4, <3>2 DEF Service!ServiceNext
  <2> QED BY <2>3, <2>4
<1>9. CASE UNCHANGED vars
  BY <1>1, <1>9 DEF vars, requestState, requestVars, brokerState, childVars, StatusMap,
     Status, DoneMap
<1>10. ASSUME NEW i \in Ids, FrameEnds(i), UNCHANGED brokerState
       PROVE  Service!ServiceNext
  BY <1>6, <1>10 DEF Service!ServiceNext
<1> QED BY <1>3, <1>4, <1>5, <1>7, <1>8, <1>9, <1>10, SortsOfSteps

\* The session implements the service its callers rely on: every run of the two
\* processes, their pipes and their dialogs looks to a caller like a run of
\* RequestService.
THEOREM SessionImplementsService == Spec => ImplementsService
<1>1. Init => Service!ServiceInit
  BY DEF Init, BrokerInit, RequestInit, Service!ServiceInit, Status, Complete
<1>2. (IInv /\ WorkInv) /\ [Next]_vars => [Service!ServiceNext]_Service!serviceVars
  BY NextRefines
<1> QED BY <1>1, <1>2, WorkIsCounted, PTL DEF Spec, ImplementsService, Service!ServiceSpec
=============================================================================
