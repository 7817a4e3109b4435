------------------------- MODULE EarlyCancelProofs -------------------------
(***************************************************************************)
(* EarlyCancelHonoured, proved for every number of requests and stages,    *)
(* every set of kinds, and whether or not signals reach the broker.  It    *)
(* relates two moments, so it is no invariant: Doomed(i) says at every     *)
(* moment between them where the cancel of request i is (in the pipe ahead *)
(* of its BEGIN, remembered by the broker, or spent on its child), EarlyInv *)
(* that the cancel starts it, and the step lemmas that nothing ends it.    *)
(***************************************************************************)
EXTENDS PrivilegedSessionRefinement

\* Every BEGIN of request i has a CANCEL of request i before it.
CancelFirst(s, i) ==
    \A n \in DOMAIN s : s[n].tag = "BEGIN" /\ s[n].id = i =>
        \E m \in DOMAIN s : m < n /\ s[m].tag = "CANCEL" /\ s[m].id = i

\* The conversation can still end in a session that reads what is written now.
Reachable == session = "asking" \/ (session = "starting" /\ brokerRunning)

\* The cancel is with the broker, or reaches it ahead of the request.
Warned(i) ==
    /\ frame[i] = "authorizing" /\ Reachable =>
          i \in pending \/ InPipe(toHelper, "CANCEL", i)
    /\ i \in pending \/ CancelFirst(toHelper, i)

\* A diagnostic that cannot run to its end any more.
Doomed(i) ==
    /\ frame[i] \notin {"unused", "claimed"}
    /\ IsDiagnostic(kind[i])
    /\ result[i] # "ok"
    /\ Warned(i)
    /\ cur = i => child = "exited" /\ rc = "zero"

\* A cancel that was made while its authorization was pending dooms its request;
\* a dialog was opened for a request that had been sent.
EarlyInv ==
    /\ confirm # 0 => Past(confirm)
    /\ \A i \in Ids : i \in cancelled =>
          /\ frame[i] \notin {"unused", "claimed"}
          /\ frame[i] = "authorizing" => Doomed(i)

---------------------------------------------------------------------------
(* The order of a pipe.                                                    *)

\* A pipe without a BEGIN of the request has its cancel first.
LEMMA NoBegin ==
    ASSUME NEW s, NEW i, ~InPipe(s, "BEGIN", i)
    PROVE  CancelFirst(s, i)
  BY DEF InPipe, CancelFirst

\* Reading anything but the cancel leaves it first, and never meets the BEGIN.
LEMMA TailCancelFirst ==
    ASSUME NEW S, NEW s \in Seq(S), s # <<>>, NEW i, CancelFirst(s, i)
    PROVE  /\ ~(Head(s).tag = "BEGIN" /\ Head(s).id = i)
           /\ ~(Head(s).tag = "CANCEL" /\ Head(s).id = i) => CancelFirst(Tail(s), i)
<1>1. ~(Head(s).tag = "BEGIN" /\ Head(s).id = i)
  <2> SUFFICES ASSUME Head(s).tag = "BEGIN", Head(s).id = i PROVE FALSE
    OBVIOUS
  <2>1. PICK m \in DOMAIN s : m < 1
    BY Removed DEF CancelFirst
  <2> QED BY <2>1
<1>2. ASSUME ~(Head(s).tag = "CANCEL" /\ Head(s).id = i) PROVE CancelFirst(Tail(s), i)
  <2> SUFFICES ASSUME NEW n \in DOMAIN Tail(s), Tail(s)[n].tag = "BEGIN", Tail(s)[n].id = i
               PROVE  \E m \in DOMAIN Tail(s) : /\ m < n
                                                /\ Tail(s)[m].tag = "CANCEL" /\ Tail(s)[m].id = i
    BY DEF CancelFirst
  <2>1. n + 1 \in DOMAIN s /\ Tail(s)[n] = s[n + 1] /\ n \in Nat
    BY Removed
  <2>2. PICK m \in DOMAIN s : m < n + 1 /\ s[m].tag = "CANCEL" /\ s[m].id = i
    BY <2>1 DEF CancelFirst
  <2>3. m # 1
    BY <1>2, <2>2, Removed
  <2>4. m - 1 \in DOMAIN Tail(s) /\ s[m] = Tail(s)[m - 1] /\ m \in Nat
    BY <2>3, Removed
  <2>5. m - 1 < n
    BY <2>1, <2>2, <2>4
  <2> QED BY <2>2, <2>4, <2>5
<1> QED BY <1>1, <1>2

\* A write keeps the cancel first unless it sends the request itself, and even
\* then if the cancel is in the pipe.
LEMMA AppendCancelFirst ==
    ASSUME NEW S, NEW s \in Seq(S), NEW r \in S, NEW i,
           CancelFirst(s, i),
           ~(r.tag = "BEGIN" /\ r.id = i) \/ InPipe(s, "CANCEL", i)
    PROVE  CancelFirst(Append(s, r), i)
<1> SUFFICES ASSUME NEW n \in DOMAIN Append(s, r),
                    Append(s, r)[n].tag = "BEGIN", Append(s, r)[n].id = i
             PROVE  \E m \in DOMAIN Append(s, r) :
                       /\ m < n
                       /\ Append(s, r)[m].tag = "CANCEL" /\ Append(s, r)[m].id = i
  BY DEF CancelFirst
<1>1. CASE n \in DOMAIN s
  <2>1. PICK m \in DOMAIN s : m < n /\ s[m].tag = "CANCEL" /\ s[m].id = i
    BY <1>1, Appended DEF CancelFirst
  <2> QED BY <2>1, Appended
<1>2. CASE n = Len(s) + 1
  <2>1. r.tag = "BEGIN" /\ r.id = i
    BY <1>2, Appended
  <2>2. PICK m \in DOMAIN s : s[m].tag = "CANCEL" /\ s[m].id = i
    BY <2>1 DEF InPipe
  <2> QED BY <1>2, <2>2, Appended
<1> QED BY <1>1, <1>2, Appended

\* A write of anything but the request keeps what was said of its cancel.
LEMMA WriteKeeps ==
    ASSUME IInv, NEW i \in Ids, NEW r \in GuiRecords, r.tag # "BEGIN" \/ r.id # i, Write(r)
    PROVE  /\ CancelFirst(toHelper, i) => CancelFirst(toHelper', i)
           /\ InPipe(toHelper, "CANCEL", i) => InPipe(toHelper', "CANCEL", i)
<1>1. toHelper' = toHelper \/ toHelper' = Append(toHelper, r)
  BY DEF Write
<1>2. toHelper \in Seq(GuiRecords)
  BY DEF IInv, TypeOK, ProtocolTypeOK
<1>3. CancelFirst(toHelper, i) => CancelFirst(Append(toHelper, r), i)
  BY <1>2, AppendCancelFirst
<1>4. InPipe(toHelper, "CANCEL", i) => InPipe(Append(toHelper, r), "CANCEL", i)
  BY <1>2, AppendTags
<1> QED BY <1>1, <1>3, <1>4

---------------------------------------------------------------------------
(* Once a request is doomed, no step of the GUI saves it.                  *)

\* A request that waits for its authorization holds the gate.
LEMMA AuthorizingHolds ==
    ASSUME IInv, NEW i \in Ids, frame[i] = "authorizing"
    PROVE  gate = i
  BY DEF IInv, Safe, FrameInv, Live

\* A GUI step that sends nothing and moves no frame back keeps it doomed, when
\* what it writes is no BEGIN and it brings no session nearer.
LEMMA GuiKeeps ==
    ASSUME IInv, NEW i \in Ids, Doomed(i), UNCHANGED brokerState,
           kind'[i] = kind[i],
           frame'[i] \notin {"unused", "claimed"},
           frame'[i] = "authorizing" => frame[i] = "authorizing" /\ (Reachable' => Reachable),
           CancelFirst(toHelper, i) => CancelFirst(toHelper', i),
           \/ frame[i] # "authorizing"
           \/ InPipe(toHelper, "CANCEL", i) => InPipe(toHelper', "CANCEL", i)
    PROVE  Doomed(i)'
  BY DEF Doomed, Warned, brokerState, brokerVars, childVars

\* A new request has an id of its own, and its BEGIN is of that id.
LEMMA ClaimDooms ==
    ASSUME IInv, NEW i \in Ids, Doomed(i), NEW k \in Kinds, Claim(k), UNCHANGED brokerState
    PROVE  Doomed(i)'
<1>1. next \in Ids /\ frame[next] = "unused" /\ i # next /\ gate = 0
  BY DEF Claim, IInv, Safe, FrameInv, Ids, Doomed
<1>2. frame'[i] = frame[i] /\ kind'[i] = kind[i]
  BY <1>1 DEF Claim, IInv, TypeOK, ProtocolTypeOK, RequestTypeOK
<1>3. frame[i] # "authorizing"
  BY <1>1, AuthorizingHolds, ProtocolAssumption DEF Ids
<1>4. toHelper' = toHelper \/ Write(Begin(next))
  BY DEF Claim
<1>5. CancelFirst(toHelper, i) => CancelFirst(toHelper', i)
  BY <1>1, <1>4, WriteKeeps, GuiRecordType DEF Begin
<1> QED BY <1>2, <1>3, <1>5, GuiKeeps DEF Doomed

\* The BEGIN of the request itself is written behind its cancel.
LEMMA ReadReadyDooms ==
    ASSUME IInv, NEW i \in Ids, Doomed(i), ReadReady, UNCHANGED brokerState
    PROVE  Doomed(i)'
<1>1. gate \in Ids /\ frame[gate] = "authorizing" /\ kind' = kind /\ Write(Begin(gate))
  BY DEF ReadReady, IInv, TypeOK, RequestTypeOK
<1>2. frame'[gate] = "waiting" /\ \A j \in Ids : j # gate => frame'[j] = frame[j]
  BY <1>1 DEF ReadReady, IInv, TypeOK, RequestTypeOK
<1>3. i # gate => frame[i] # "authorizing"
  BY AuthorizingHolds
<1>4. CASE i # gate
  <2>1. CancelFirst(toHelper, i) => CancelFirst(toHelper', i)
    BY <1>1, <1>4, WriteKeeps, GuiRecordType DEF Begin
  <2> QED BY <1>1, <1>2, <1>3, <1>4, <2>1, GuiKeeps DEF Doomed
<1>5. CASE i = gate
  <2>1. i \in pending \/ CancelFirst(toHelper', i)
    <3>1. CASE i \in pending
      BY <3>1
    <3>2. CASE i \notin pending /\ brokerRunning
      <4>1. CancelFirst(toHelper, i) /\ InPipe(toHelper, "CANCEL", i)
        BY <1>1, <1>5, <3>2 DEF Doomed, Warned, Reachable, ReadReady
      <4>2. toHelper \in Seq(GuiRecords) /\ Begin(i) \in GuiRecords
        BY GuiRecordType DEF IInv, TypeOK, ProtocolTypeOK
      <4>3. toHelper' = Append(toHelper, Begin(i))
        BY <1>1, <1>5, <3>2 DEF Write
      <4> QED BY <4>1, <4>2, <4>3, AppendCancelFirst
    <3>3. CASE i \notin pending /\ ~brokerRunning
      <4>1. toHelper' = toHelper
        BY <1>1, <3>3 DEF Write, ReadReady
      <4> QED BY <3>3, <4>1 DEF Doomed, Warned
    <3> QED BY <3>1, <3>2, <3>3
  <2> QED BY <1>1, <1>2, <1>5, <2>1 DEF Doomed, Warned, brokerState, brokerVars, childVars
<1> QED BY <1>4, <1>5

\* A DONE and a return write nothing, and move a frame on.
LEMMA ReturnDooms ==
    ASSUME IInv, NEW i \in Ids, Doomed(i), UNCHANGED brokerState,
           ReadDone \/ \E j \in Ids : FrameEnds(j)
    PROVE  Doomed(i)'
<1>1. toHelper' = toHelper /\ kind' = kind /\ session' = session
         /\ brokerRunning' = brokerRunning
  BY DEF ReadDone, FrameEnds, protocolVars
<1>2. frame'[i] \in {frame[i], "reviewing", "timedOut", "ended"}
  BY DEF ReadDone, ForThisRequest, FrameEnds, IInv, TypeOK, RequestTypeOK
<1> QED BY <1>1, <1>2, GuiKeeps DEF Doomed, Reachable

\* The remaining GUI steps write a CANCEL, an ANSWER, a QUIT or nothing; only the
\* start of a new conversation throws a pipe away, and that is another request's.
LEMMA MinorDooms ==
    ASSUME IInv, NEW i \in Ids, Doomed(i), MinorGuiStep, UNCHANGED brokerState
    PROVE  Doomed(i)'
<1> USE DEF IInv, TypeOK, RequestTypeOK
<1>1. CASE AskAuthorization
  <2>1. gate \in Ids /\ frame[gate] = "claimed" /\ kind' = kind /\ toHelper' = <<>>
           /\ frame' = [frame EXCEPT ![gate] = "authorizing"]
    BY <1>1 DEF AskAuthorization
  <2>2. i # gate /\ frame'[i] = frame[i] /\ frame[i] # "authorizing"
    BY <2>1, AuthorizingHolds DEF Doomed
  <2>3. CancelFirst(toHelper', i)
    BY <2>1 DEF CancelFirst
  <2> QED BY <2>1, <2>2, <2>3, GuiKeeps DEF Doomed
<1>2. CASE SkipForeign \/ ReadPrompt \/ RefreshPrompt \/ DropPrompt \/ Watchdog
           \/ SessionClosed \/ SessionFinished \/ FrameLost \/ OpenCancelDialog
           \/ KeepRunning \/ Denied \/ GuiDies
  <2>1. toHelper' = toHelper /\ kind' = kind /\ brokerRunning' = brokerRunning
           /\ session' \in {session, "none", "gone"}
    BY <1>2 DEF SkipForeign, ReadPrompt, RefreshPrompt, DropPrompt, Watchdog,
         SessionClosed, SessionFinished, FrameLost, OpenCancelDialog, KeepRunning,
         Denied, GuiDies, protocolVars, requestVars
  <2>2. frame'[i] \in {frame[i], "prompting", "timedOut", "lost"}
    BY <1>2 DEF SkipForeign, ReadPrompt, RefreshPrompt, DropPrompt, Watchdog,
         SessionClosed, SessionFinished, FrameLost, OpenCancelDialog, KeepRunning,
         Denied, GuiDies, protocolVars, requestVars, ForThisRequest
  <2> QED BY <2>1, <2>2, GuiKeeps DEF Doomed, Reachable
<1>3. CASE PolkitGrants
  <2>1. toHelper' = toHelper /\ kind' = kind /\ frame' = frame /\ Reachable
    BY <1>3 DEF PolkitGrants, Reachable
  <2> QED BY <2>1, GuiKeeps DEF Doomed
<1>4. ASSUME NEW r \in GuiRecords, r.tag # "BEGIN", Write(r), kind' = kind,
             brokerRunning' = brokerRunning, session' \in {session, "closing"},
             frame'[i] \in {frame[i], "stranded", "waiting"}
      PROVE  Doomed(i)'
  <2>1. /\ CancelFirst(toHelper, i) => CancelFirst(toHelper', i)
        /\ InPipe(toHelper, "CANCEL", i) => InPipe(toHelper', "CANCEL", i)
    BY <1>4, WriteKeeps
  <2> QED BY <1>4, <2>1, GuiKeeps DEF Doomed, Reachable
<1>5. ASSUME toHelper' = toHelper, kind' = kind,
             brokerRunning' = brokerRunning, session' \in {session, "closing"},
             frame'[i] \in {frame[i], "stranded", "waiting"}
      PROVE  Doomed(i)'
  BY <1>5, GuiKeeps DEF Doomed, Reachable
<1>6. CASE CancelDiagnostic \/ ConfirmCancel
  <2>1. /\ toHelper' = toHelper \/ (Write(Cancel(gate)) /\ gate \in Ids)
        /\ kind' = kind /\ brokerRunning' = brokerRunning /\ session' = session
        /\ frame' = frame
    BY <1>6 DEF CancelDiagnostic, ConfirmCancel, SendCancel, SendSignal, requestVars
  <2> QED BY <2>1, <1>4, <1>5, GuiRecordType DEF Cancel
<1>7. CASE LockSession \/ CloseWindow \/ TimeoutTeardown
  <2>1. /\ toHelper' = toHelper \/ Write(Quit)
        /\ kind' = kind /\ brokerRunning' = brokerRunning
        /\ session' \in {session, "closing"} /\ frame' = frame
    BY <1>7 DEF LockSession, CloseWindow, TimeoutTeardown, CloseChannel
  <2> QED BY <2>1, <1>4, <1>5, GuiRecordType DEF Quit
<1>8. CASE ReadLatePrompt \/ RefusePrompt
  <2>1. /\ toHelper' = toHelper \/ (Write(AnswerRecord(gate, "none", {})) /\ gate \in Ids)
        /\ kind' = kind /\ brokerRunning' = brokerRunning /\ session' = session
        /\ frame'[i] \in {frame[i], "stranded"}
    BY <1>8 DEF ReadLatePrompt, RefusePrompt, ForThisRequest
  <2> QED BY <2>1, <1>4, <1>5, GuiRecordType DEF AnswerRecord, Texts
<1>9. CASE \E text \in {"yes", "no"} : Answer(text)
  <2>1. PICK text \in {"yes", "no"} : Answer(text)
    BY <1>9
  <2>2. /\ Write(AnswerRecord(gate, text, asked)) /\ gate \in Ids /\ asked \in SUBSET Stages
        /\ kind' = kind /\ brokerRunning' = brokerRunning /\ session' = session
        /\ frame'[i] \in {frame[i], "waiting"}
    BY <2>1 DEF Answer
  <2> QED BY <2>2, <1>4, GuiRecordType DEF AnswerRecord, Texts
<1> QED BY <1>1, <1>2, <1>3, <1>6, <1>7, <1>8, <1>9 DEF MinorGuiStep

---------------------------------------------------------------------------
(* Nor does a step of the broker or of its child.                          *)

\* While a session is being set up the broker serves nobody.
LEMMA NotServedYet ==
    ASSUME IInv, Reachable
    PROVE  bpc = "header" /\ ~Mentions(toHelper, "BEGIN")
  BY DEF IInv, Safe, SessionInv, Idle, Reachable

\* The broker's steps change neither frames nor kinds; what else they must keep.
LEMMA BrokerKeeps ==
    ASSUME NEW i \in Ids, Doomed(i), UNCHANGED requestState, kind' = kind,
           result'[i] # "ok", Warned(i)', cur' = i => child' = "exited" /\ rc' = "zero"
    PROVE  Doomed(i)'
  BY DEF Doomed, requestState, requestVars

\* The header loop remembers a cancel it reads, and never meets the BEGIN first.
LEMMA HeaderDooms ==
    ASSUME IInv, NEW i \in Ids, Doomed(i), UNCHANGED requestState,
           ReadCancel \/ ReadStrayAnswer \/ RefuseBusy
    PROVE  Doomed(i)'
<1>1. /\ toHelper # <<>> /\ toHelper' = Tail(toHelper) /\ toHelper \in Seq(GuiRecords)
      /\ brokerRunning' = brokerRunning /\ kind' = kind
      /\ cur' = cur /\ child' = child /\ rc' = rc /\ result' = result
  BY DEF ReadCancel, ReadStrayAnswer, RefuseBusy, InHeader, brokerVars, childVars,
     IInv, TypeOK, ProtocolTypeOK
<1>2. frame'[i] = frame[i] /\ session' = session
  BY DEF requestState, requestVars
<1>3. /\ pending \subseteq pending'
      /\ Head(toHelper).tag = "CANCEL" /\ Head(toHelper).id = i => i \in pending'
  BY DEF ReadCancel, ReadStrayAnswer, RefuseBusy, InHeader, brokerVars
<1>4. i \in pending' \/ CancelFirst(toHelper', i)
  BY <1>1, <1>3, TailCancelFirst DEF Doomed, Warned
<1>5. InPipe(toHelper, "CANCEL", i) => i \in pending' \/ InPipe(toHelper', "CANCEL", i)
  BY <1>1, <1>3, TailTags
<1>6. Warned(i)'
  BY <1>1, <1>2, <1>3, <1>4, <1>5 DEF Doomed, Warned, Reachable
<1> QED BY <1>1, <1>6, BrokerKeeps DEF Doomed

\* The child of a doomed request is born cancelled, given that its FIFO could be
\* made: it is over before its first section.
LEMMA ReadBeginDooms ==
    ASSUME IInv, FifoOutcomes = {TRUE}, NEW i \in Ids, Doomed(i), UNCHANGED requestState,
           ReadBegin
    PROVE  Doomed(i)'
<1> DEFINE j == Head(toHelper).id
<1>1. /\ toHelper # <<>> /\ toHelper' = Tail(toHelper) /\ toHelper \in Seq(GuiRecords)
      /\ Head(toHelper).tag = "BEGIN"
      /\ brokerRunning' = brokerRunning /\ kind' = kind /\ pending' = pending
      /\ cur' = j
  BY DEF ReadBegin, InHeader, IInv, TypeOK, ProtocolTypeOK
<1>2. frame'[i] = frame[i] /\ session' = session
  BY DEF requestState, requestVars
<1>3. Mentions(toHelper, "BEGIN")
  BY <1>1, TailTags
<1>4. ~Reachable'
  BY <1>1, <1>2, <1>3, NotServedYet DEF Reachable
<1>5. i \in pending' \/ CancelFirst(toHelper', i)
  BY <1>1, TailCancelFirst DEF Doomed, Warned
<1>6. Warned(i)'
  BY <1>4, <1>5 DEF Warned
<1>7. CASE j # i
  BY <1>1, <1>6, <1>7, BrokerKeeps DEF ReadBegin, Doomed, IInv, TypeOK, BrokerTypeOK
<1>8. CASE j = i
  <2>1. i \in pending
    BY <1>1, <1>8, TailCancelFirst DEF Doomed, Warned
  <2>2. IsDiagnostic(kind[i]) /\ Cancellable(kind[i])
    BY DEF Doomed, Cancellable
  <2>3. child' = "exited" /\ rc' = "zero" /\ result'[i] = "partial"
    BY <1>8, <2>1, <2>2 DEF ReadBegin, RecordedCancel, IInv, TypeOK, BrokerTypeOK
  <2> QED BY <1>1, <1>6, <2>3, BrokerKeeps
<1> QED BY <1>7, <1>8

\* A broker that ends takes its pipe and the session that was to come with it.
LEMMA VanishDooms ==
    ASSUME IInv, NEW i \in Ids, Doomed(i), UNCHANGED requestState,
           ReadQuit \/ ReadEof \/ BrokerDies
    PROVE  Doomed(i)'
<1>1. brokerRunning /\ Vanish /\ kind' = kind
  BY DEF ReadQuit, ReadEof, BrokerDies
<1>2. toHelper' = <<>> /\ ~brokerRunning' /\ cur' = 0
  BY <1>1 DEF Vanish
<1>3. session' = session /\ session # "asking"
  BY <1>1 DEF requestState, requestVars, IInv, Safe, SessionInv
<1>4. Warned(i)'
  BY <1>2, <1>3 DEF Warned, Reachable, CancelFirst
<1>5. result'[i] # "ok"
  BY DEF ReadQuit, ReadEof, BrokerDies, Doomed, IInv, TypeOK, BrokerTypeOK
<1>6. cur' # i
  BY <1>2, ProtocolAssumption DEF Ids
<1> QED BY <1>1, <1>4, <1>5, <1>6, BrokerKeeps

\* In a dispatch no BEGIN is in the pipe, and no session is being set up: whatever
\* pump and child read, the request stays doomed; its own child is already over.
LEMMA DispatchDooms ==
    ASSUME IInv, NEW i \in Ids, Doomed(i), UNCHANGED requestState,
           InputPump \/ ChildReacts \/ ChildWorks \/ PollLoop
    PROVE  Doomed(i)'
<1> USE DEF IInv, TypeOK, BrokerTypeOK
<1>1. bpc # "header" /\ cur \in Ids /\ ~InPipe(toHelper, "BEGIN", i)
  <2>1. bpc # "header" \/ child # "none"
    BY DEF InputPump, MutatingPumpCancel, MutatingPumpForward, DiagnosticPumpCancel,
       PumpEnds, PumpReads, ChildReacts, ChildCheckpoint, ChildReadsYes,
       ChildReadsCancel, ChildReadsOther, ChildPromptExpires, ChildStops, PromptReads,
       ChildWorks, ChildStage, ChildPrompt, ChildSucceeds, ChildFails, PollLoop,
       RelayCancel, DispatchBound, FallBack, FinishDispatch, Dispatching, Alive
  <2> QED BY <2>1, ChildIsServed, ServedRequest
<1>2. kind' = kind /\ brokerRunning' = brokerRunning /\ session' = session
  BY DEF InputPump, MutatingPumpCancel, MutatingPumpForward, DiagnosticPumpCancel,
     PumpEnds, ChildReacts, ChildCheckpoint, ChildReadsYes,
     ChildReadsCancel, ChildReadsOther, ChildPromptExpires, ChildStops,
     ChildWorks, ChildStage, ChildPrompt, ChildSucceeds, ChildFails, PollLoop,
     RelayCancel, DispatchBound, FallBack, FinishDispatch, protocolVars,
     requestState, requestVars
<1>3. Warned(i)'
  <2>1. ~Reachable'
    BY <1>1, <1>2, NotServedYet DEF Reachable
  <2>2. ~InPipe(toHelper', "BEGIN", i)
    BY <1>1, BrokerOnlyReads DEF BrokerNext
  <2> QED BY <2>1, <2>2, NoBegin DEF Warned
<1>4. CASE InputPump
  <2>1. cur' = cur /\ child' = child /\ rc' = rc /\ result' = result
    BY <1>4 DEF InputPump, MutatingPumpCancel, MutatingPumpForward,
       DiagnosticPumpCancel, PumpEnds, brokerVars, childVars
  <2> QED BY <1>2, <1>3, <2>1, BrokerKeeps DEF Doomed
<1>5. CASE ChildReacts \/ ChildWorks
  <2>1. cur' = cur /\ child \in {"working", "prompting", "stopping"}
    BY <1>5 DEF ChildReacts, ChildCheckpoint, ChildReadsYes, ChildReadsCancel,
       ChildReadsOther, ChildPromptExpires, ChildStops, PromptReads, ChildWorks,
       ChildStage, ChildPrompt, ChildSucceeds, ChildFails, brokerVars
  <2>2. cur # i
    BY <2>1 DEF Doomed
  <2>3. result'[i] = result[i]
    BY <1>1, <1>5, <2>2 DEF ChildReacts, ChildCheckpoint, ChildReadsYes,
       ChildReadsCancel, ChildReadsOther, ChildPromptExpires, Decline, ChildStops,
       ChildWorks, ChildStage, ChildPrompt, ChildSucceeds, ChildFails
  <2> QED BY <1>2, <1>3, <2>1, <2>2, <2>3, BrokerKeeps DEF Doomed
<1>6. CASE RelayCancel \/ DispatchBound \/ FallBack
  <2>1. cur' = cur /\ (result' = result \/ Alive)
    BY <1>6 DEF RelayCancel, DispatchBound, FallBack, brokerVars
  <2>2. cur = i => child' = child /\ rc' = rc /\ ~Alive
    BY <1>6 DEF RelayCancel, DispatchBound, FallBack, SignalledChild, Alive, Doomed
  <2>3. result'[i] # "ok"
    BY <1>1, <1>6, <2>1, <2>2 DEF RelayCancel, DispatchBound, FallBack, Doomed
  <2> QED BY <1>2, <1>3, <2>1, <2>2, <2>3, BrokerKeeps DEF Doomed
<1>7. CASE FinishDispatch
  <2>1. cur' = 0 /\ result' = result
    BY <1>7 DEF FinishDispatch
  <2> QED BY <1>2, <1>3, <2>1, BrokerKeeps, ProtocolAssumption DEF Doomed, Ids
<1> QED BY <1>4, <1>5, <1>6, <1>7 DEF PollLoop

\* Once a request is doomed, every step leaves it so.
LEMMA DoomedStays ==
    ASSUME FifoOutcomes = {TRUE}, NEW i \in Ids
    PROVE  IInv /\ Doomed(i) /\ [Next]_vars => Doomed(i)'
<1> SUFFICES ASSUME IInv, Doomed(i), [Next]_vars PROVE Doomed(i)'
  OBVIOUS
<1>1. CASE BrokerNext /\ UNCHANGED requestState
  BY <1>1, HeaderDooms, ReadBeginDooms, VanishDooms, DispatchDooms
     DEF BrokerNext, HeaderLoop
<1>2. CASE UNCHANGED vars
  BY <1>2 DEF vars, protocolVars, requestState, requestVars, brokerState, brokerVars,
     childVars, Doomed, Warned, Reachable
<1> QED BY <1>1, <1>2, ClaimDooms, ReadReadyDooms, ReturnDooms, MinorDooms, SortsOfSteps

---------------------------------------------------------------------------
(* A cancel that is made during the authorization dooms its request.       *)

\* Only two steps cancel a request, and a dialog cancels one that was sent.
LEMMA WhoCancels ==
    ASSUME IInv, EarlyInv, Next
    PROVE  \/ cancelled' = cancelled
           \/ CancelDiagnostic /\ UNCHANGED brokerState
           \/ cancelled' = cancelled \cup {confirm} /\ confirm # 0
<1>1. \/ cancelled' = cancelled
      \/ CancelDiagnostic /\ UNCHANGED brokerState
      \/ ConfirmCancel
  BY DEF Next, GuiStep, GuiSteps, UserStep, UserSteps, BrokerStep, PolkitGrants,
     ReadRecord, ReadReady, SkipForeign, ReadPrompt, RefreshPrompt, ReadLatePrompt,
     RefusePrompt, DropPrompt, ReadDone, AskAuthorization, Watchdog, TimeoutTeardown,
     SessionClosed, SessionFinished, FrameLost, FrameReturns, CloseDialog, FrameEnds,
     Claim, OpenCancelDialog, KeepRunning, Answer, LockSession, CloseWindow,
     Denied, GuiDies, requestState, requestVars, historyVars
<1>2. CASE ConfirmCancel
  <2>1. gate # 0 => Live(gate) /\ gate \in Ids /\ confirm \in Ids /\ confirm <= gate
    BY <1>2 DEF ConfirmCancel, DialogReturns, IInv, TypeOK, RequestTypeOK, Safe, FrameInv
  <2>2. gate # 0 => gate = confirm
    BY <1>2, <2>1 DEF ConfirmCancel, DialogReturns, NothingAbove, Ids
  <2> QED BY <1>2, <2>2 DEF ConfirmCancel
<1> QED BY <1>1, <1>2

\* The cancel of a diagnostic that waits for its authorization goes into the pipe
\* the helper will read, and the request has done nothing yet.
LEMMA CancelDooms ==
    ASSUME IInv, WorkInv, CancelDiagnostic, UNCHANGED brokerState,
           frame[gate] = "authorizing"
    PROVE  Doomed(gate)'
<1>1. /\ gate \in Ids /\ gate' = gate /\ frame' = frame /\ kind' = kind
      /\ session' = session /\ brokerRunning' = brokerRunning
      /\ IsDiagnostic(kind[gate]) /\ Write(Cancel(gate))
  BY DEF CancelDiagnostic, SendCancel, SendSignal, requestVars, IInv, TypeOK, RequestTypeOK
<1>2. result[gate] = "none" /\ cur # gate /\ ~InPipe(toHelper, "BEGIN", gate)
  <2>1. ~Past(gate)
    BY DEF Past
  <2> QED BY <1>1, <2>1 DEF WorkInv, IInv, Safe, ResultInv, Ids
<1>3. toHelper \in Seq(GuiRecords) /\ Cancel(gate) \in GuiRecords
  BY <1>1, GuiRecordType DEF IInv, TypeOK, ProtocolTypeOK
<1>4. Reachable => InPipe(toHelper', "CANCEL", gate)
  BY <1>1, <1>3, AppendTags DEF Reachable, Write, Cancel
<1>5. CancelFirst(toHelper', gate)
  BY <1>1, <1>2, <1>3, NoBegin, WriteKeeps DEF Cancel
<1> QED BY <1>1, <1>2, <1>4, <1>5
       DEF Doomed, Warned, Reachable, brokerState, brokerVars, childVars

\* A frame waits for an authorization only after it was claimed.
LEMMA FramesMoveOn ==
    ASSUME IInv, [Next]_vars, NEW i \in Ids, frame[i] \notin {"unused", "claimed"}
    PROVE  /\ frame'[i] \notin {"unused", "claimed"}
           /\ frame'[i] = "authorizing" => frame[i] = "authorizing"
<1> USE DEF IInv, TypeOK, RequestTypeOK
<1>1. CASE UNCHANGED vars \/ UNCHANGED requestState
  BY <1>1 DEF vars, requestState, requestVars
<1>2. ASSUME NEW k \in Kinds, Claim(k)
      PROVE  frame'[i] = frame[i]
  <2>1. next \in Ids /\ frame[next] = "unused"
    BY <1>2 DEF Claim, Safe, FrameInv, Ids
  <2> QED BY <1>2, <2>1 DEF Claim
<1>3. CASE ReadReady \/ ReadDone \/ \E j \in Ids : FrameEnds(j)
  BY <1>3 DEF ReadReady, ReadDone, ForThisRequest, FrameEnds
<1>4. CASE MinorGuiStep
  <2>1. frame'[i] \in {frame[i], "prompting", "stranded", "waiting", "timedOut", "lost"}
    BY <1>4 DEF MinorGuiStep, AskAuthorization, SkipForeign, ReadPrompt, RefreshPrompt,
       ReadLatePrompt, RefusePrompt, DropPrompt, Watchdog, TimeoutTeardown,
       SessionClosed, SessionFinished, FrameLost, CancelDiagnostic, OpenCancelDialog,
       KeepRunning, ConfirmCancel, Answer, LockSession, CloseWindow, Denied, GuiDies,
       PolkitGrants, ForThisRequest, requestVars
  <2> QED BY <2>1
<1> QED BY <1>1, <1>2, <1>3, <1>4, SortsOfSteps

\* A dialog is opened for a request that was sent.
LEMMA DialogsAreLate ==
    ASSUME IInv, confirm # 0 => Past(confirm), [Next]_vars
    PROVE  (confirm # 0 => Past(confirm))'
<1>1. CASE Next
  <2>1. confirm' \in {0, confirm} \/ OpenCancelDialog
    BY <1>1 DEF Next, GuiStep, GuiSteps, UserStep, UserSteps, BrokerStep, PolkitGrants,
       ReadRecord, ReadReady, SkipForeign, ReadPrompt, RefreshPrompt, ReadLatePrompt,
       RefusePrompt, DropPrompt, ReadDone, AskAuthorization, Watchdog, TimeoutTeardown,
       SessionClosed, SessionFinished, FrameLost, FrameReturns, CloseDialog, FrameEnds,
       Claim, CancelDiagnostic, KeepRunning, ConfirmCancel, DialogReturns, Answer,
       LockSession, CloseWindow, Denied, GuiDies, requestState, requestVars
  <2>2. CASE confirm' \in {0, confirm}
    BY <1>1, <2>2, PastStays DEF IInv, TypeOK, RequestTypeOK
  <2>3. CASE OpenCancelDialog
    BY <2>3 DEF OpenCancelDialog, Past
  <2> QED BY <2>1, <2>2, <2>3
<1>2. CASE UNCHANGED vars
  BY <1>2 DEF vars, requestState, requestVars, Past
<1> QED BY <1>1, <1>2

\* Every step preserves it.
LEMMA NextEarly ==
    ASSUME FifoOutcomes = {TRUE}
    PROVE  (IInv /\ WorkInv /\ EarlyInv) /\ [Next]_vars => EarlyInv'
<1> SUFFICES ASSUME IInv, WorkInv, EarlyInv, [Next]_vars PROVE EarlyInv'
  OBVIOUS
<1>1. (confirm # 0 => Past(confirm))'
  BY DialogsAreLate DEF EarlyInv
<1>2. ASSUME NEW i \in Ids, i \in cancelled
      PROVE  frame'[i] \notin {"unused", "claimed"} /\ (frame'[i] = "authorizing" => Doomed(i)')
  BY <1>2, FramesMoveOn, DoomedStays DEF EarlyInv
<1>3. ASSUME NEW i \in Ids, i \notin cancelled, i \in cancelled'
      PROVE  frame'[i] \notin {"unused", "claimed"} /\ (frame'[i] = "authorizing" => Doomed(i)')
  <2>1. Next
    BY <1>3 DEF vars, requestState, historyVars
  <2>2. CASE CancelDiagnostic /\ UNCHANGED brokerState
    <3>1. i = gate /\ frame' = frame /\ gate' = gate /\ frame[gate] \in {"authorizing", "waiting"}
      BY <1>3, <2>2 DEF CancelDiagnostic, requestVars
    <3> QED BY <2>2, <3>1, CancelDooms
  <2>3. CASE cancelled' = cancelled \cup {confirm} /\ confirm # 0
    <3>1. i = confirm /\ Past(i)
      BY <1>3, <2>3 DEF EarlyInv
    <3>2. Past(i)'
      BY <2>1, <3>1, PastStays
    <3> QED BY <3>2 DEF Past
  <2> QED BY <1>3, <2>1, <2>2, <2>3, WhoCancels
<1> QED BY <1>1, <1>2, <1>3 DEF EarlyInv

\* A diagnostic cancelled while its authorization was pending never runs to its
\* end, where the broker can make its FIFOs (session_server's
\* pending_pre_begin_cancels and the CANCEL that the GUI writes into the pipe
\* before the helper is up).  Without a FIFO the broker forgets the cancel: the
\* assumption is what the foreground dispatch costs.
THEOREM EarlyCancelsHold ==
    ASSUME FifoOutcomes = {TRUE}
    PROVE  Spec => EarlyCancelHonoured
<1>1. Init => EarlyInv
  BY DEF Init, RequestInit, EarlyInv
<1>2. (IInv /\ WorkInv /\ EarlyInv) /\ [Next]_vars => EarlyInv'
  BY NextEarly
<1>3. Spec => []EarlyInv
  BY <1>1, <1>2, WorkIsCounted, PTL DEF Spec
<1>4. ASSUME NEW i \in Ids
      PROVE  Spec => [](i \in cancelled /\ frame[i] = "authorizing" => [](result[i] # "ok"))
  <2>1. EarlyInv /\ i \in cancelled /\ frame[i] = "authorizing" => Doomed(i)
    BY DEF EarlyInv
  <2>2. IInv /\ Doomed(i) /\ [Next]_vars => Doomed(i)'
    BY DoomedStays
  <2>3. Doomed(i) => result[i] # "ok"
    BY DEF Doomed
  <2> QED BY <1>3, <2>1, <2>2, <2>3, Inductive, PTL DEF Spec
<1> QED BY <1>4 DEF EarlyCancelHonoured
=============================================================================
