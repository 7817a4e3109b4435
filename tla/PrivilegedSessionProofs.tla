---------------------- MODULE PrivilegedSessionProofs ----------------------
(***************************************************************************)
(* The safety properties of PrivilegedSession, proved for every number of  *)
(* requests, stages and prompts.  The inductive invariant IInv says, part  *)
(* by part, how the GUI's stack of frames, the two pipes and the broker's  *)
(* dispatch agree; one lemma per action says that the action keeps it.     *)
(*                                                                         *)
(* In each of those lemmas the first steps say what the action does to the *)
(* pipes (PipeLemmas), one step covers the parts that mention no variable  *)
(* it changes, and the others take the parts it can disturb, one by one.   *)
(***************************************************************************)
EXTENDS PrivilegedSession, PipeLemmas, TLAPS

\* A prompt names a stage of its request, one that is still to come, and every
\* DONE carries a code.
PromptInv ==
    /\ WellFormed(toGui)
    /\ child = "prompting" => stage < NumStages

\* The BEGIN of request i was written.
Past(i) == frame[i] \notin {"unused", "claimed", "authorizing"}

\* The broker waits for a request, and none is on its way to or from it.
Idle ==
    /\ bpc = "header"
    /\ ~Mentions(toHelper, "BEGIN")
    /\ ~Mentions(toGui, "PROMPT") /\ ~Mentions(toGui, "DONE")

\* The frames: the gate's holder is the one frame that may still be waiting, every
\* other live frame only shows a success, ids are given in order, and the cancel
\* dialog was opened for a frame that is not above the holder.
FrameInv ==
    /\ gate # 0 => Live(gate)
    /\ \A i \in Ids : Live(i) /\ i # gate =>
          frame[i] \in {"reviewing", "timedOut"} /\ reply[i] = "zero"
    /\ \A i \in Ids : i >= next => frame[i] = "unused"
    /\ \A i \in Ids : reply[i] # "none" => frame[i] \in {"reviewing", "timedOut", "ended"}
    /\ \A i \in Ids : frame[i] = "reviewing" => reply[i] # "none"
    /\ confirm # 0 => confirm < next /\ (gate # 0 => confirm <= gate)

\* The session, as its owner sees it: while it is being set up the gate's holder
\* waits for it and the broker is idle; while it is in use its pipe is open.
SessionInv ==
    /\ session \in {"asking", "starting"} => gate # 0 /\ frame[gate] = "authorizing"
    /\ session # "none" /\ gate # 0 => frame[gate] \notin {"claimed", "lost"}
    /\ session = "ready" /\ gate # 0 => frame[gate] # "authorizing"
    /\ session \in {"asking", "starting", "ready"} => ~eof
    /\ session \in {"asking", "starting"} => Idle
    /\ session = "asking" => ~brokerRunning
    /\ Mentions(toHelper, "QUIT") => eof

\* The broker: it dispatches one request, in the way of its kind, and the records
\* behind a BEGIN, or in the pipe of a dispatch, are of that request.
BrokerInv ==
    /\ ~brokerRunning => bpc = "header"
    /\ bpc = "header" <=> cur = 0
    /\ bpc = "header" <=> child = "none"
    /\ bpc = "mutating" => Mutating(kind[cur])
    /\ bpc = "diagnostic" => IsDiagnostic(kind[cur])
    /\ BeginLast(toHelper)
    /\ bpc # "header" => ServesOnly(toHelper, cur)

\* Frames and broker together: a request is in at most one of four places, a BEGIN
\* in the pipe, a dispatch, a DONE in the pipe, or a frame that has read it.
ExchangeInv ==
    /\ session = "ready" /\ gate = 0 => Idle
    /\ session = "ready" /\ gate # 0 =>
          /\ reply[gate] # "none" => Idle
          /\ cur # 0 => cur = gate /\ ~Mentions(toGui, "DONE")
          /\ \A i \in Ids : InPipe(toHelper, "BEGIN", i) => i = gate
          /\ Mentions(toHelper, "BEGIN") => ~Mentions(toGui, "DONE")
          /\ DoneLast(toGui)

\* Request i was carried out to its end and will not be dispatched again.
Finished(i) ==
    /\ result[i] \in Complete
    /\ cur # i /\ ~InPipe(toHelper, "BEGIN", i) /\ Past(i)

\* Code 0, wherever it is on its way from the child to the caller, is the code of
\* finished work.
ResultInv ==
    /\ \A i \in Ids \cup {0} : InPipe(toHelper, "BEGIN", i) => i # 0 /\ Past(i)
    /\ cur # 0 => Past(cur)
    /\ \A i \in Ids \cup {0} : InPipe(toGui, "DONE", i) => i # 0 /\ Past(i)
    /\ child = "exited" /\ rc = "zero" => result[cur] \in Complete
    /\ \A i \in Ids : InDone(toGui, i, "zero") => Finished(i)
    /\ \A i \in Ids : reply[i] = "zero" => Finished(i)
    /\ \A i \in Ids : outcome[i].ok => Finished(i)

\* A cancel, in whatever form it travels (record, signal, marker, remembered id),
\* is one the user made for that request; the only other thing that stops a child
\* is the end of the pipe under a mutating one.
CancelInv ==
    /\ \A i \in Ids \cup {0} : InPipe(toHelper, "CANCEL", i) => i \in cancelled
    /\ \A i \in Ids \cup {0} : InPipe(childIn, "CANCEL", i) => i \in cancelled
    /\ pending \subseteq cancelled
    /\ marker => cur \in cancelled
    /\ usr1 /\ bpc # "header" => cur \in cancelled \/ (eof /\ Mutating(kind[cur]))
    /\ child = "stopping" => cur \in cancelled \/ (eof /\ Mutating(kind[cur]))
    /\ \A i \in Ids : result[i] = "partial" => i \in cancelled

Safe == /\ PromptInv /\ FrameInv /\ SessionInv /\ BrokerInv
        /\ ExchangeInv /\ ResultInv /\ CancelInv

\* The inductive invariant.
IInv == TypeOK /\ Safe

---------------------------------------------------------------------------
(* The records and the pipes.                                              *)

\* The records the GUI writes are records of its pipe.
LEMMA GuiRecordType ==
    /\ \A i \in Ids : Begin(i) \in GuiRecords /\ Cancel(i) \in GuiRecords
    /\ Quit \in GuiRecords
    /\ \A i \in Ids, t \in Texts, a \in SUBSET Stages : AnswerRecord(i, t, a) \in GuiRecords
  BY DEF Begin, Cancel, Quit, AnswerRecord, GuiRecords, GuiTags, Texts

\* So are those of the broker.
LEMMA HelperRecordType ==
    /\ Ready \in HelperRecords
    /\ \A i \in Ids \cup {0} : \A s \in Stages : Prompt(i, s) \in HelperRecords
    /\ \A i \in Ids \cup {0} : \A c \in Codes : Done(i, c) \in HelperRecords
<1> USE DEF HelperRecords, HelperTags, Codes
<1>1. Ready \in HelperRecords  BY ProtocolAssumption DEF Ready
<1>2. \A i \in Ids \cup {0} : \A s \in Stages : Prompt(i, s) \in HelperRecords
  BY ProtocolAssumption DEF Prompt, Stages
<1>3. \A i \in Ids \cup {0} : \A c \in Codes : Done(i, c) \in HelperRecords
  BY ProtocolAssumption DEF Done
<1> QED BY <1>1, <1>2, <1>3

\* The fields of a record have their types.
LEMMA RecordFields ==
    /\ \A r \in GuiRecords : /\ r.tag \in GuiTags /\ r.id \in Ids \cup {0}
                            /\ r.text \in Texts /\ r.about \in SUBSET Stages
    /\ \A r \in HelperRecords : r.tag \in HelperTags /\ r.id \in Ids \cup {0}
          /\ r.stage \in 0 .. NumStages /\ r.rc \in Codes
  BY DEF GuiRecords, HelperRecords


\* What a write of the GUI leaves in the pipe: the record, or nothing new.
LEMMA Written ==
    ASSUME ProtocolTypeOK, NEW r \in GuiRecords, Write(r)
    PROVE  toHelper' \in Seq(GuiRecords) /\ Grown(toHelper, toHelper', r)
  BY AppendGrown, SameGrown DEF ProtocolTypeOK, Write

\* A child that reads takes one record from the pipe it is fed by.
LEMMA StdinRead ==
    ASSUME ProtocolTypeOK, BrokerTypeOK, Stdin # <<>>, ReadStdin
    PROVE  /\ toHelper' \in Seq(GuiRecords) /\ Shrunk(toHelper, toHelper')
           /\ childIn' \in Seq(GuiRecords) /\ Shrunk(childIn, childIn')
           /\ Head(Stdin) \in GuiRecords
           /\ InPipe(Stdin, Head(Stdin).tag, Head(Stdin).id)
  BY TailTaken, SameShrunk DEF ProtocolTypeOK, BrokerTypeOK, Stdin, ReadStdin, Taken

\* What the pump forwards is all the child's FIFO can gain.
LEMMA Forwarded ==
    ASSUME BrokerTypeOK, NEW r \in GuiRecords, Forward(r)
    PROVE  childIn' \in Seq(GuiRecords) /\ Grown(childIn, childIn', r)
  BY AppendGrown, SameGrown DEF BrokerTypeOK, Forward

\* Every record is of some request, or of none.
LEMMA InPipeIds ==
    ASSUME ProtocolTypeOK, BrokerTypeOK
    PROVE  \A g, i : InPipe(toHelper, g, i) \/ InPipe(childIn, g, i) \/ InPipe(toGui, g, i)
                        => i \in Ids \cup {0}
  BY RecordFields DEF ProtocolTypeOK, BrokerTypeOK, InPipe

\* An emptied pipe is a pipe.
LEMMA EmptyPipes == \A S : <<>> \in Seq(S)
  OBVIOUS

---------------------------------------------------------------------------
(* One lemma per action.                                                   *)

\* A request takes the gate only while the broker is idle, so its BEGIN is the
\* only one in the pipe, and its frame is new: nothing carries its id yet.
LEMMA ClaimKeeps ==
    ASSUME IInv, NEW k \in Kinds, Claim(k), UNCHANGED brokerState
    PROVE  IInv'
<1> USE ProtocolAssumption DEF IInv, Safe, TypeOK, Claim, Live, Begin
<1> USE DEF protocolVars, requestVars, historyVars, requestState, childVars,
        brokerVars, brokerState
<1>1. toHelper' \in Seq(GuiRecords) /\ Grown(toHelper, toHelper', Begin(next))
  BY Written, SameGrown, GuiRecordType DEF ProtocolTypeOK
<1>2. next \in Ids /\ gate = 0 /\ frame[next] = "unused"
  BY DEF FrameInv, Ids
<1>3. frame' = [frame EXCEPT ![next] = IF session = "ready" THEN "waiting" ELSE "claimed"]
  OBVIOUS
<1>4. frame'[next] \in {"waiting", "claimed"} /\ (session # "ready" => frame'[next] = "claimed")
             /\ (session = "ready" => frame'[next] = "waiting")
             /\ \A j \in Ids : j # next => frame'[j] = frame[j]
  BY DEF RequestTypeOK
<1>5. \A j \in Ids : Past(j) => j # next /\ Past(j)' /\ kind'[j] = kind[j]
  BY <1>2, <1>4 DEF Past
<1>6. toHelper' = toHelper \/ session = "ready"
  OBVIOUS
<1>7. session = "ready" => Idle /\ reply[next] = "none" /\ DoneLast(toGui)
  BY <1>2 DEF ExchangeInv, FrameInv, Idle, DoneLast, Mentions
<1>8. session = "ready" => \A i : ~InPipe(toHelper, "BEGIN", i)
  BY <1>7 DEF Idle, Mentions, InPipe
<1>9. BrokerTypeOK' /\ PromptInv'
  BY DEF BrokerTypeOK, PromptInv
<1>10. ProtocolTypeOK'
  BY <1>1 DEF ProtocolTypeOK
<1>11. RequestTypeOK'
  <2>1. /\ (reply \in [Ids -> Codes])'
        /\ (confirm \in Ids \cup {0})'
        /\ (session \in {"none", "asking", "starting", "ready", "closing", "gone"})'
        /\ (appClosed \in BOOLEAN)'
        /\ (outcome \in [Ids -> Outcomes])'
        /\ (cancelled \subseteq Ids)'
    BY DEF RequestTypeOK
  <2>2. /\ (gate \in Ids \cup {0})'
        /\ (next \in 1 .. MaxRequests + 1)'
    BY DEF RequestTypeOK, Ids
  <2>3. /\ (frame \in [Ids -> Frames])'
        /\ (userCancelled \in BOOLEAN /\ abortRequested \in BOOLEAN)'
    BY <1>8, RecordFields DEF RequestTypeOK, ProtocolTypeOK, Frames, Ids, Outcomes,
       Notices
  <2>4. /\ (buried \in BOOLEAN /\ inputOn \in BOOLEAN)'
        /\ (prompts \in Nat)'
    BY <1>8, RecordFields DEF RequestTypeOK, ProtocolTypeOK, Frames, Ids, Outcomes,
       Notices
  <2>5. (asked \subseteq Stages)'
    BY DEF RequestTypeOK
  <2> QED BY <2>1, <2>2, <2>3, <2>4, <2>5 DEF RequestTypeOK
<1>12. FrameInv'
  BY <1>8 DEF FrameInv, RequestTypeOK, Frames, Ids
<1>13. SessionInv'
  BY <1>1 DEF SessionInv, RequestTypeOK, Grown
<1>14. BrokerInv'
  BY <1>1, <1>5 DEF BrokerInv, ExchangeInv, ResultInv, Idle, Grown
<1>15. ExchangeInv'
  <2>1. (session = "ready" /\ gate = 0 => Idle)'
    BY <1>1, <1>4, <1>6, <1>7, <1>8, EmptyTags DEF ExchangeInv, Idle, BrokerInv,
       RequestTypeOK, Grown
  <2>2. (session = "ready" /\ gate # 0 /\ reply[gate] # "none" => Idle)'
    BY <1>1, <1>4, <1>6, <1>7, <1>8, EmptyTags DEF ExchangeInv, Idle, BrokerInv,
       RequestTypeOK, Grown
  <2>3. (session = "ready" /\ gate # 0 /\ cur # 0 => cur = gate /\ ~Mentions(toGui, "DONE"))'
    BY <1>1, <1>4, <1>6, <1>7, <1>8, EmptyTags DEF ExchangeInv, Idle, BrokerInv,
       RequestTypeOK, Grown
  <2>4. (session = "ready" /\ gate # 0 => \A i \in Ids : InPipe(toHelper, "BEGIN", i) => i = gate)'
    BY <1>1, <1>4, <1>6, <1>7, <1>8, EmptyTags DEF ExchangeInv, Idle, BrokerInv,
       RequestTypeOK, Grown
  <2>5. (session = "ready" /\ gate # 0 /\ Mentions(toHelper, "BEGIN") => ~Mentions(toGui, "DONE"))'
    BY <1>1, <1>4, <1>6, <1>7, <1>8, EmptyTags DEF ExchangeInv, Idle, BrokerInv,
       RequestTypeOK, Grown
  <2>6. (session = "ready" /\ gate # 0 => DoneLast(toGui))'
    BY <1>1, <1>4, <1>6, <1>7, <1>8, EmptyTags DEF ExchangeInv, Idle, BrokerInv,
       RequestTypeOK, Grown
  <2> QED BY <2>1, <2>2, <2>3, <2>4, <2>5, <2>6 DEF ExchangeInv
<1>16. ResultInv'
  <2>1. (child = "exited" /\ rc = "zero" => result[cur] \in Complete)'
    BY DEF ResultInv
  <2>2. (\A i \in Ids \cup {0} : InPipe(toHelper, "BEGIN", i) => i # 0 /\ Past(i))'
    BY <1>1 DEF ResultInv, Past, FrameInv, RequestTypeOK, Grown, Serves
  <2>3. (cur # 0 => Past(cur))'
    BY DEF ResultInv, Past, FrameInv, BrokerTypeOK, RequestTypeOK
  <2>4. (\A i \in Ids \cup {0} : InPipe(toGui, "DONE", i) => i # 0 /\ Past(i))'
    BY DEF ResultInv, Past, FrameInv, RequestTypeOK
  <2>5. (\A i \in Ids : InDone(toGui, i, "zero") => Finished(i))'
    BY <1>1, EmptyTags DEF ResultInv, Finished, Past, FrameInv, RequestTypeOK,
       Grown, Serves
  <2>6. (\A i \in Ids : reply[i] = "zero" => Finished(i))'
    BY <1>1 DEF ResultInv, Finished, Past, FrameInv, BrokerInv, ExchangeInv,
       RequestTypeOK, Grown, Serves
  <2>7. (\A i \in Ids : outcome[i].ok => Finished(i))'
    BY <1>1 DEF ResultInv, Finished, Past, FrameInv, RequestTypeOK, Grown, Serves
  <2> QED BY <2>1, <2>2, <2>3, <2>4, <2>5, <2>6, <2>7 DEF ResultInv
<1>17. CancelInv'
  <2>1. /\ (\A i \in Ids \cup {0} : InPipe(childIn, "CANCEL", i) => i \in cancelled)'
        /\ (pending \subseteq cancelled)'
        /\ (marker => cur \in cancelled)'
        /\ (\A i \in Ids : result[i] = "partial" => i \in cancelled)'
    BY DEF CancelInv
  <2>2. (\A i \in Ids \cup {0} : InPipe(toHelper, "CANCEL", i) => i \in cancelled)'
    BY <1>1, <1>6, <1>7, InPipeIds DEF CancelInv, ExchangeInv, ResultInv, Grown
  <2>3. (usr1 /\ bpc # "header" => cur \in cancelled \/ (eof /\ Mutating(kind[cur])))'
    BY <1>5 DEF CancelInv, ResultInv, RequestTypeOK
  <2>4. (child = "stopping" => cur \in cancelled \/ (eof /\ Mutating(kind[cur])))'
    BY <1>5 DEF CancelInv, ResultInv, RequestTypeOK
  <2> QED BY <2>1, <2>2, <2>3, <2>4 DEF CancelInv
<1> QED BY <1>9, <1>10, <1>11, <1>12, <1>13, <1>14, <1>15, <1>16, <1>17

\* A new session starts on fresh pipes, with no broker left.
LEMMA AskAuthorizationKeeps ==
    ASSUME IInv, AskAuthorization, UNCHANGED brokerState
    PROVE  IInv'
<1> USE ProtocolAssumption DEF IInv, Safe, TypeOK, AskAuthorization
<1> USE DEF protocolVars, requestVars, historyVars, requestState, childVars,
        brokerVars, brokerState
<1>1. toHelper' \in Seq(GuiRecords) /\ Shrunk(toHelper, toHelper')
  BY EmptyShrunk
<1>2. toGui' \in Seq(HelperRecords) /\ Shrunk(toGui, toGui')
  BY EmptyShrunk
<1>3. BrokerTypeOK'
  BY DEF BrokerTypeOK
<1>4. ProtocolTypeOK'
  BY <1>1, <1>2 DEF ProtocolTypeOK, Ids, BrokerTypeOK, RequestTypeOK
<1>5. RequestTypeOK'
  BY DEF RequestTypeOK, Frames
<1>6. PromptInv'
  BY EmptyTags DEF PromptInv
<1>7. FrameInv'
  BY DEF FrameInv, Live
<1>8. SessionInv'
  BY EmptyTags DEF SessionInv, BrokerInv, RequestTypeOK, Idle
<1>9. BrokerInv'
  BY EmptyTags DEF BrokerInv
<1>10. ExchangeInv'
  BY DEF ExchangeInv
<1>11. ResultInv'
  BY EmptyTags DEF ResultInv, Finished, Past
<1>12. CancelInv'
  BY EmptyTags DEF CancelInv, BrokerInv
<1> QED BY <1>3, <1>4, <1>5, <1>6, <1>7, <1>8, <1>9, <1>10, <1>11, <1>12

\* Without authorization there is no session, and no broker to disagree with it.
LEMMA DeniedKeeps ==
    ASSUME IInv, Denied, UNCHANGED brokerState
    PROVE  IInv'
<1> USE ProtocolAssumption DEF IInv, Safe, TypeOK, Denied
<1> USE DEF protocolVars, requestVars, historyVars, requestState, childVars,
        brokerVars, brokerState
<1>1. toGui' \in Seq(HelperRecords) /\ Shrunk(toGui, toGui')
  BY EmptyShrunk
<1>2. BrokerTypeOK' /\ FrameInv' /\ BrokerInv' /\ CancelInv'
  BY DEF BrokerTypeOK, FrameInv, Live, BrokerInv, CancelInv
<1>3. ProtocolTypeOK'
  BY DEF ProtocolTypeOK
<1>4. RequestTypeOK'
  BY DEF RequestTypeOK
<1>5. PromptInv'
  BY EmptyTags DEF PromptInv
<1>6. SessionInv'
  BY DEF SessionInv
<1>7. ExchangeInv'
  BY DEF ExchangeInv
<1>8. ResultInv'
  BY EmptyTags DEF ResultInv, Finished, Past
<1> QED BY <1>2, <1>3, <1>4, <1>5, <1>6, <1>7, <1>8

\* The BEGIN that waited for the authorization is the first of its session.
LEMMA ReadReadyKeeps ==
    ASSUME IInv, ReadReady, UNCHANGED brokerState
    PROVE  IInv'
<1> USE ProtocolAssumption DEF IInv, Safe, TypeOK, ReadReady, Begin
<1> USE DEF protocolVars, requestVars, historyVars, requestState, childVars,
        brokerVars, brokerState
<1>1. toGui' \in Seq(HelperRecords) /\ Head(toGui) \in HelperRecords /\ Taken(toGui, toGui', Head(toGui))
  BY TailTaken DEF ProtocolTypeOK
<1>2. toHelper' \in Seq(GuiRecords) /\ Grown(toHelper, toHelper', Begin(gate))
  BY Written, GuiRecordType DEF RequestTypeOK
<1>3. gate \in Ids /\ Idle /\ reply[gate] = "none"
  BY DEF SessionInv, FrameInv, RequestTypeOK
<1>4. ~Mentions(toGui, "DONE") => DoneLast(toGui)
  BY DEF DoneLast, Mentions
<1>5. \A i : ~InPipe(toHelper, "BEGIN", i)
  BY <1>3 DEF Idle, Mentions, InPipe
<1>6. BrokerTypeOK'
  BY DEF BrokerTypeOK
<1>7. ProtocolTypeOK'
  BY <1>2 DEF ProtocolTypeOK
<1>8. RequestTypeOK'
  BY DEF RequestTypeOK, Frames
<1>9. PromptInv'
  BY <1>1 DEF PromptInv, Shrunk, Taken
<1>10. FrameInv'
  BY DEF FrameInv, Live
<1>11. SessionInv'
  BY <1>2 DEF SessionInv, RequestTypeOK, Grown
<1>12. BrokerInv'
  BY <1>2 DEF BrokerInv, SessionInv, Idle, Grown
<1>13. ExchangeInv'
  BY <1>1, <1>2, <1>3, <1>4, <1>5 DEF ExchangeInv, Idle, BrokerInv, Grown, Shrunk,
     Taken
<1>14. ResultInv'
  <2>1. (child = "exited" /\ rc = "zero" => result[cur] \in Complete)'
    BY DEF ResultInv
  <2>2. (\A i \in Ids \cup {0} : InPipe(toHelper, "BEGIN", i) => i # 0 /\ Past(i))'
    BY <1>2 DEF ResultInv, Past, RequestTypeOK, Grown, Taken
  <2>3. (cur # 0 => Past(cur))'
    BY DEF ResultInv, SessionInv, BrokerInv, Idle
  <2>4. (\A i \in Ids \cup {0} : InPipe(toGui, "DONE", i) => i # 0 /\ Past(i))'
    BY <1>1 DEF ResultInv, Past, Shrunk, Taken
  <2>5. (\A i \in Ids : InDone(toGui, i, "zero") => Finished(i))'
    BY <1>1, <1>2 DEF ResultInv, Finished, Past, Grown, Shrunk, Taken
  <2>6. (\A i \in Ids : reply[i] = "zero" => Finished(i))'
    BY <1>2 DEF ResultInv, Finished, Past, Grown, Taken
  <2>7. (\A i \in Ids : outcome[i].ok => Finished(i))'
    BY <1>2 DEF ResultInv, Finished, Past, Grown, Taken
  <2> QED BY <2>1, <2>2, <2>3, <2>4, <2>5, <2>6, <2>7 DEF ResultInv
<1>15. CancelInv'
  BY <1>2 DEF CancelInv, Grown
<1> QED BY <1>6, <1>7, <1>8, <1>9, <1>10, <1>11, <1>12, <1>13, <1>14, <1>15

\* The cancel and its signal are for the request that holds the gate, and so is
\* whatever the broker is dispatching.
LEMMA CancelDiagnosticKeeps ==
    ASSUME IInv, CancelDiagnostic, UNCHANGED brokerState
    PROVE  IInv'
<1> USE ProtocolAssumption DEF IInv, Safe, TypeOK, CancelDiagnostic, MainWindowUsable,
        Live, SendCancel, SendSignal, Cancel
<1> USE DEF protocolVars, requestVars, historyVars, requestState, childVars,
        brokerVars, brokerState
<1>1. toHelper' \in Seq(GuiRecords) /\ Grown(toHelper, toHelper', Cancel(gate))
  BY Written, SameGrown, GuiRecordType DEF RequestTypeOK
<1>2. BrokerTypeOK' /\ PromptInv' /\ FrameInv'
  BY DEF BrokerTypeOK, PromptInv, FrameInv, Live
<1>3. ProtocolTypeOK'
  BY <1>1 DEF ProtocolTypeOK
<1>4. RequestTypeOK'
  BY DEF RequestTypeOK
<1>5. SessionInv'
  BY <1>1 DEF SessionInv, Idle, Grown
<1>6. BrokerInv'
  BY <1>1, InPipeIds DEF BrokerInv, ExchangeInv, SessionInv, ResultInv, Idle, Grown,
     Serves
<1>7. ExchangeInv'
  BY <1>1 DEF ExchangeInv, Idle, Grown
<1>8. ResultInv'
  BY <1>1 DEF ResultInv, Finished, Past, Grown
<1>9. CancelInv'
  BY <1>1 DEF CancelInv, BrokerInv, SessionInv, ExchangeInv, Idle, BrokerTypeOK, Grown
<1> QED BY <1>2, <1>3, <1>4, <1>5, <1>6, <1>7, <1>8, <1>9

\* The dialog is opened for the holder of the gate, the latest frame.
LEMMA OpenCancelDialogKeeps ==
    ASSUME IInv, OpenCancelDialog, UNCHANGED brokerState
    PROVE  IInv'
<1> USE ProtocolAssumption DEF IInv, Safe, TypeOK, OpenCancelDialog
<1> USE DEF protocolVars, requestVars, historyVars, requestState, childVars,
        brokerVars, brokerState
<1>1. ProtocolTypeOK' /\ BrokerTypeOK' /\ PromptInv' /\ SessionInv' /\ BrokerInv' /\ ExchangeInv' /\ ResultInv' /\ CancelInv'
  BY DEF ProtocolTypeOK, BrokerTypeOK, PromptInv, SessionInv, Idle, BrokerInv,
     ExchangeInv, ResultInv, Past, Finished, CancelInv
<1>2. RequestTypeOK'
  BY DEF RequestTypeOK, Ids, Outcomes, Notices
<1>3. FrameInv'
  BY DEF FrameInv, Live, RequestTypeOK
<1> QED BY <1>1, <1>2, <1>3

\* Closing the dialog unanswered changes nothing else.
LEMMA KeepRunningKeeps ==
    ASSUME IInv, KeepRunning, UNCHANGED brokerState
    PROVE  IInv'
<1> USE ProtocolAssumption DEF IInv, Safe, TypeOK, KeepRunning, DialogReturns,
        Blocked, NothingAbove, Live
<1> USE DEF protocolVars, requestVars, historyVars, requestState, childVars,
        brokerVars, brokerState
<1>1. ProtocolTypeOK' /\ BrokerTypeOK' /\ PromptInv' /\ SessionInv' /\ BrokerInv' /\ ExchangeInv' /\ ResultInv' /\ CancelInv'
  BY DEF ProtocolTypeOK, BrokerTypeOK, PromptInv, SessionInv, Idle, BrokerInv,
     ExchangeInv, ResultInv, Past, Finished, CancelInv
<1>2. RequestTypeOK'
  BY DEF RequestTypeOK, Ids, Outcomes, Notices
<1>3. FrameInv'
  BY DEF FrameInv
<1> QED BY <1>1, <1>2, <1>3

\* The cancel goes to the holder of the gate, whose id joins "cancelled"; a signal
\* without a holder meets an idle broker.
LEMMA ConfirmCancelKeeps ==
    ASSUME IInv, ConfirmCancel, UNCHANGED brokerState
    PROVE  IInv'
<1> USE ProtocolAssumption DEF IInv, Safe, TypeOK, ConfirmCancel, DialogReturns,
        Blocked, NothingAbove, Live, SendCancel, SendSignal, Cancel
<1> USE DEF protocolVars, requestVars, historyVars, requestState, childVars,
        brokerVars, brokerState
<1>1. Cancel(gate) \in GuiRecords
  BY DEF GuiRecords, GuiTags, Texts, RequestTypeOK
<1>2. toHelper' \in Seq(GuiRecords) /\ Grown(toHelper, toHelper', Cancel(gate))
  BY <1>1, Written, SameGrown DEF ProtocolTypeOK
<1>3. BrokerTypeOK' /\ PromptInv'
  BY DEF BrokerTypeOK, PromptInv
<1>4. ProtocolTypeOK'
  BY <1>2 DEF ProtocolTypeOK
<1>5. RequestTypeOK'
  BY DEF RequestTypeOK, Frames, Ids, Outcomes, Notices
<1>6. FrameInv'
  BY DEF FrameInv
<1>7. SessionInv'
  BY <1>2 DEF SessionInv, Idle, Grown
<1>8. BrokerInv'
  BY <1>2, InPipeIds DEF BrokerInv, ExchangeInv, ResultInv, Grown, Serves
<1>9. ExchangeInv'
  BY <1>2 DEF ExchangeInv, Idle, Grown
<1>10. ResultInv'
  BY <1>2 DEF ResultInv, Finished, Past, Grown
<1>11. CancelInv'
  <2>1. CASE gate = 0
    <3>1. session = "ready" => bpc = "header"
      BY <2>1 DEF ExchangeInv, Idle
    <3>2. UNCHANGED <<toHelper, cancelled>> /\ (session # "ready" => usr1' = usr1)
      BY <2>1
    <3> QED BY <3>1, <3>2 DEF CancelInv
  <2>2. CASE gate # 0
    BY <1>2, <2>2 DEF CancelInv, BrokerInv, ExchangeInv, Grown
  <2> QED BY <2>1, <2>2
<1> QED BY <1>3, <1>4, <1>5, <1>6, <1>7, <1>8, <1>9, <1>10, <1>11

\* A record that is skipped was of no request the broker still serves.
LEMMA SkipForeignKeeps ==
    ASSUME IInv, SkipForeign, UNCHANGED brokerState
    PROVE  IInv'
<1> USE ProtocolAssumption DEF IInv, Safe, TypeOK, SkipForeign, Reads, ForThisRequest
<1> USE DEF protocolVars, requestVars, historyVars, requestState, childVars,
        brokerVars, brokerState
<1>1. toGui' \in Seq(HelperRecords) /\ Head(toGui) \in HelperRecords /\ Taken(toGui, toGui', Head(toGui))
  BY TailTaken DEF ProtocolTypeOK
<1>2. BrokerTypeOK' /\ RequestTypeOK' /\ FrameInv' /\ BrokerInv' /\ CancelInv'
  BY DEF BrokerTypeOK, RequestTypeOK, FrameInv, Live, BrokerInv, CancelInv
<1>3. ProtocolTypeOK'
  BY DEF ProtocolTypeOK
<1>4. PromptInv'
  BY <1>1 DEF PromptInv, Shrunk, Taken
<1>5. SessionInv'
  BY DEF SessionInv
<1>6. ExchangeInv'
  BY <1>1 DEF ExchangeInv, Idle, Shrunk, Taken
<1>7. ResultInv'
  BY <1>1 DEF ResultInv, Finished, Past, Shrunk, Taken
<1> QED BY <1>2, <1>3, <1>4, <1>5, <1>6, <1>7

\* A prompt that reaches its frame names a stage of the request.
LEMMA ReadPromptKeeps ==
    ASSUME IInv, ReadPrompt, UNCHANGED brokerState
    PROVE  IInv'
<1> USE ProtocolAssumption DEF IInv, Safe, TypeOK, ReadPrompt, Reads, ForThisRequest
<1> USE DEF protocolVars, requestVars, historyVars, requestState, childVars,
        brokerVars, brokerState
<1>1. toGui' \in Seq(HelperRecords) /\ Head(toGui) \in HelperRecords /\ Taken(toGui, toGui', Head(toGui))
  BY TailTaken DEF ProtocolTypeOK
<1>2. BrokerTypeOK' /\ BrokerInv' /\ CancelInv'
  BY DEF BrokerTypeOK, BrokerInv, CancelInv
<1>3. ProtocolTypeOK'
  BY DEF ProtocolTypeOK
<1>4. RequestTypeOK'
  BY <1>1 DEF RequestTypeOK, Frames, PromptInv, Taken
<1>5. PromptInv'
  BY <1>1 DEF PromptInv, Shrunk, Taken
<1>6. FrameInv'
  BY DEF FrameInv, Live
<1>7. SessionInv'
  BY DEF SessionInv
<1>8. ExchangeInv'
  BY <1>1 DEF ExchangeInv, Shrunk, Taken
<1>9. ResultInv'
  BY <1>1 DEF ResultInv, Finished, Past, Shrunk, Taken
<1> QED BY <1>2, <1>3, <1>4, <1>5, <1>6, <1>7, <1>8, <1>9

\* A second prompt on screen names a stage too.
LEMMA RefreshPromptKeeps ==
    ASSUME IInv, RefreshPrompt, UNCHANGED brokerState
    PROVE  IInv'
<1> USE ProtocolAssumption DEF IInv, Safe, TypeOK, RefreshPrompt, Reads, ForThisRequest
<1> USE DEF protocolVars, requestVars, historyVars, requestState, childVars,
        brokerVars, brokerState
<1>1. toGui' \in Seq(HelperRecords) /\ Head(toGui) \in HelperRecords /\ Taken(toGui, toGui', Head(toGui))
  BY TailTaken DEF ProtocolTypeOK
<1>2. BrokerTypeOK' /\ FrameInv' /\ BrokerInv' /\ CancelInv'
  BY DEF BrokerTypeOK, FrameInv, Live, BrokerInv, CancelInv
<1>3. ProtocolTypeOK'
  BY DEF ProtocolTypeOK
<1>4. RequestTypeOK'
  BY <1>1 DEF RequestTypeOK, PromptInv, Taken
<1>5. PromptInv'
  BY <1>1 DEF PromptInv, Shrunk, Taken
<1>6. SessionInv'
  BY DEF SessionInv
<1>7. ExchangeInv'
  BY <1>1 DEF ExchangeInv, Idle, Shrunk, Taken
<1>8. ResultInv'
  BY <1>1 DEF ResultInv, Finished, Past, Shrunk, Taken
<1> QED BY <1>2, <1>3, <1>4, <1>5, <1>6, <1>7, <1>8

\* A prompt read after the watchdog leaves the request open.
LEMMA ReadLatePromptKeeps ==
    ASSUME IInv, ReadLatePrompt, UNCHANGED brokerState
    PROVE  IInv'
<1> USE ProtocolAssumption DEF IInv, Safe, TypeOK, ReadLatePrompt, Reads,
        ForThisRequest, AnswerRecord
<1> USE DEF protocolVars, requestVars, historyVars, requestState, childVars,
        brokerVars, brokerState
<1>1. toGui' \in Seq(HelperRecords) /\ Head(toGui) \in HelperRecords /\ Taken(toGui, toGui', Head(toGui))
  BY TailTaken DEF ProtocolTypeOK
<1>2. toHelper' \in Seq(GuiRecords) /\ Grown(toHelper, toHelper', AnswerRecord(gate, "none", {}))
  BY Written, SameGrown, GuiRecordType DEF ProtocolTypeOK, RequestTypeOK, Texts
<1>3. /\ gate \in Ids /\ frame'[gate] \in {"timedOut", "stranded"}
      /\ \A j \in Ids : j # gate => frame'[j] = frame[j]
  BY DEF RequestTypeOK
<1>4. \A j \in Ids : (Past(j) <=> Past(j)') /\ (Live(j) <=> Live(j)')
  BY <1>3 DEF Past, Live
<1>5. BrokerTypeOK'
  BY DEF BrokerTypeOK
<1>6. ProtocolTypeOK'
  BY <1>2 DEF ProtocolTypeOK
<1>7. RequestTypeOK'
  <2>1. /\ (gate \in Ids \cup {0})'
        /\ (next \in 1 .. MaxRequests + 1)'
        /\ (reply \in [Ids -> Codes])'
        /\ (userCancelled \in BOOLEAN /\ abortRequested \in BOOLEAN)'
        /\ (confirm \in Ids \cup {0})'
        /\ (session \in {"none", "asking", "starting", "ready", "closing", "gone"})'
        /\ (appClosed \in BOOLEAN)'
        /\ (outcome \in [Ids -> Outcomes])'
        /\ (asked \subseteq Stages)'
        /\ (cancelled \subseteq Ids)'
    BY DEF RequestTypeOK
  <2>2. (frame \in [Ids -> Frames])'
    BY DEF RequestTypeOK, Frames
  <2>3. (buried \in BOOLEAN /\ inputOn \in BOOLEAN)'
    BY DEF RequestTypeOK, ProtocolTypeOK, Frames, Ids, Outcomes, Notices
  <2>4. (prompts \in Nat)'
    BY DEF RequestTypeOK
  <2> QED BY <2>1, <2>2, <2>3, <2>4 DEF RequestTypeOK
<1>8. PromptInv'
  BY <1>1 DEF PromptInv, Shrunk, Taken
<1>9. FrameInv'
  BY DEF FrameInv, Live, RequestTypeOK, Frames
<1>10. SessionInv'
  BY <1>2 DEF SessionInv, RequestTypeOK, Grown
<1>11. BrokerInv'
  BY <1>2, InPipeIds DEF BrokerInv, ExchangeInv, ResultInv, Grown, Serves
<1>12. ExchangeInv'
  BY <1>1, <1>2 DEF ExchangeInv, Grown, Shrunk, Taken
<1>13. ResultInv'
  BY <1>1, <1>2 DEF ResultInv, Finished, Past, BrokerTypeOK, RequestTypeOK, Grown,
     Shrunk, Taken
<1>14. CancelInv'
  BY <1>2 DEF CancelInv, Grown
<1> QED BY <1>5, <1>6, <1>7, <1>8, <1>9, <1>10, <1>11, <1>12, <1>13, <1>14

\* The empty answer is of the request that asked.
LEMMA RefusePromptKeeps ==
    ASSUME IInv, RefusePrompt, UNCHANGED brokerState
    PROVE  IInv'
<1> USE ProtocolAssumption DEF IInv, Safe, TypeOK, RefusePrompt, Reads,
        ForThisRequest, AnswerRecord
<1> USE DEF protocolVars, requestVars, historyVars, requestState, childVars,
        brokerVars, brokerState
<1>1. toGui' \in Seq(HelperRecords) /\ Head(toGui) \in HelperRecords /\ Taken(toGui, toGui', Head(toGui))
  BY TailTaken DEF ProtocolTypeOK
<1>2. toHelper' \in Seq(GuiRecords) /\ Grown(toHelper, toHelper', AnswerRecord(gate, "none", {}))
  BY Written, GuiRecordType DEF RequestTypeOK, Texts
<1>3. BrokerTypeOK' /\ FrameInv'
  BY DEF BrokerTypeOK, FrameInv, Live
<1>4. ProtocolTypeOK'
  BY <1>2 DEF ProtocolTypeOK
<1>5. RequestTypeOK'
  BY DEF RequestTypeOK
<1>6. PromptInv'
  BY <1>1 DEF PromptInv, Shrunk, Taken
<1>7. SessionInv'
  BY <1>2 DEF SessionInv, Grown
<1>8. BrokerInv'
  BY <1>2, InPipeIds DEF BrokerInv, ExchangeInv, ResultInv, Grown, Serves
<1>9. ExchangeInv'
  BY <1>1, <1>2 DEF ExchangeInv, Grown, Shrunk, Taken
<1>10. ResultInv'
  BY <1>1, <1>2 DEF ResultInv, Finished, Past, Grown, Shrunk, Taken
<1>11. CancelInv'
  BY <1>2 DEF CancelInv, Grown
<1> QED BY <1>3, <1>4, <1>5, <1>6, <1>7, <1>8, <1>9, <1>10, <1>11

\* A prompt nobody waits for changes no frame.
LEMMA DropPromptKeeps ==
    ASSUME IInv, DropPrompt, UNCHANGED brokerState
    PROVE  IInv'
<1> USE ProtocolAssumption DEF IInv, Safe, TypeOK, DropPrompt, Reads, ForThisRequest
<1> USE DEF protocolVars, requestVars, historyVars, requestState, childVars,
        brokerVars, brokerState
<1>1. toGui' \in Seq(HelperRecords) /\ Head(toGui) \in HelperRecords /\ Taken(toGui, toGui', Head(toGui))
  BY TailTaken DEF ProtocolTypeOK
<1>2. BrokerTypeOK' /\ RequestTypeOK' /\ FrameInv' /\ BrokerInv' /\ CancelInv'
  BY DEF BrokerTypeOK, RequestTypeOK, FrameInv, Live, BrokerInv, CancelInv
<1>3. ProtocolTypeOK'
  BY DEF ProtocolTypeOK
<1>4. PromptInv'
  BY <1>1 DEF PromptInv, Shrunk, Taken
<1>5. SessionInv'
  BY DEF SessionInv
<1>6. ExchangeInv'
  BY <1>1 DEF ExchangeInv, Idle, Taken
<1>7. ResultInv'
  BY <1>1 DEF ResultInv, Finished, Past, Shrunk, Taken
<1> QED BY <1>2, <1>3, <1>4, <1>5, <1>6, <1>7

\* DONE is the last record of its request: when the gate is given back, both
\* pipes hold nothing of it and the broker is in its header loop.
LEMMA ReadDoneKeeps ==
    ASSUME IInv, ReadDone, UNCHANGED brokerState
    PROVE  IInv'
<1> USE ProtocolAssumption DEF IInv, Safe, TypeOK, ReadDone, Reads, ForThisRequest,
        GivesBackGate
<1> USE DEF protocolVars, requestVars, historyVars, requestState, childVars,
        brokerVars, brokerState
<1>1. toGui' \in Seq(HelperRecords) /\ Head(toGui) \in HelperRecords /\ Taken(toGui, toGui', Head(toGui))
  BY TailTaken DEF ProtocolTypeOK
<1>2. gate \in Ids
  BY DEF RequestTypeOK
<1>3. session = "ready" => Idle'
  BY <1>1, EmptyTags DEF Taken, ExchangeInv, BrokerInv, Idle
<1>4. frame[gate] \in {"waiting", "prompting", "stranded", "timedOut", "reviewing"}
  BY <1>1 DEF Taken, RequestTypeOK, Frames, SessionInv, FrameInv, ResultInv, Past,
     Live
<1>5. /\ frame'[gate] \in {"reviewing", "timedOut"}
      /\ reply'[gate] = Head(toGui).rc /\ Head(toGui).rc # "none"
      /\ gate' # gate => gate' = 0 /\ Head(toGui).rc = "zero"
      /\ \A j \in Ids : j # gate => frame'[j] = frame[j] /\ reply'[j] = reply[j]
  BY <1>1, <1>4 DEF Taken, RequestTypeOK, PromptInv
<1>6. BrokerTypeOK' /\ BrokerInv' /\ CancelInv'
  BY DEF BrokerTypeOK, BrokerInv, CancelInv
<1>7. ProtocolTypeOK'
  BY DEF ProtocolTypeOK
<1>8. RequestTypeOK'
  <2>1. reply' \in [Ids -> Codes]
    BY <1>1, <1>2, RecordFields DEF RequestTypeOK
  <2>2. frame' \in [Ids -> Frames]
    BY <1>2, <1>4 DEF RequestTypeOK, Frames
  <2>3. gate' \in Ids \cup {0}
    BY <1>2
  <2>4. inputOn' \in BOOLEAN /\ asked' \subseteq Stages
    OBVIOUS
  <2> QED BY <2>1, <2>2, <2>3, <2>4 DEF RequestTypeOK
<1>9. PromptInv'
  BY <1>1 DEF PromptInv, Shrunk, Taken
<1>10. FrameInv'
  BY <1>5 DEF FrameInv, Live
<1>11. SessionInv'
  BY DEF SessionInv
<1>12. ExchangeInv'
  BY <1>1, <1>3 DEF ExchangeInv, Shrunk, Taken
<1>13. ResultInv'
  BY <1>1 DEF ResultInv, Finished, Past, Shrunk, Taken
<1> QED BY <1>6, <1>7, <1>8, <1>9, <1>10, <1>11, <1>12, <1>13

\* An answer carries the id of the request that asked.
LEMMA AnswerKeeps ==
    ASSUME IInv, NEW text \in {"yes", "no"}, Answer(text), UNCHANGED brokerState
    PROVE  IInv'
<1> USE ProtocolAssumption DEF IInv, Safe, TypeOK, Answer, AnswerRecord
<1> USE DEF protocolVars, requestVars, historyVars, requestState, childVars,
        brokerVars, brokerState
<1>1. toHelper' \in Seq(GuiRecords) /\ Grown(toHelper, toHelper', AnswerRecord(gate, text, asked))
  BY Written, GuiRecordType DEF RequestTypeOK, Texts
<1>2. BrokerTypeOK' /\ PromptInv'
  BY DEF BrokerTypeOK, PromptInv
<1>3. ProtocolTypeOK'
  BY <1>1 DEF ProtocolTypeOK
<1>4. RequestTypeOK'
  BY DEF RequestTypeOK, Frames, Ids, Outcomes, Notices
<1>5. FrameInv'
  BY DEF FrameInv, Live
<1>6. SessionInv'
  BY <1>1 DEF SessionInv, Grown
<1>7. BrokerInv'
  BY <1>1, InPipeIds DEF BrokerInv, ExchangeInv, ResultInv, Grown, Serves
<1>8. ExchangeInv'
  BY <1>1 DEF ExchangeInv, Idle, Grown
<1>9. ResultInv'
  BY <1>1 DEF ResultInv, Finished, Past, Grown
<1>10. CancelInv'
  BY <1>1 DEF CancelInv, Grown
<1> QED BY <1>2, <1>3, <1>4, <1>5, <1>6, <1>7, <1>8, <1>9, <1>10

\* The watchdog leaves its frame on the stack, still holding the gate.
LEMMA WatchdogKeeps ==
    ASSUME IInv, Watchdog, UNCHANGED brokerState
    PROVE  IInv'
<1> USE ProtocolAssumption DEF IInv, Safe, TypeOK, Watchdog
<1> USE DEF protocolVars, requestVars, historyVars, requestState, childVars,
        brokerVars, brokerState
<1>1. ProtocolTypeOK' /\ BrokerTypeOK' /\ PromptInv' /\ BrokerInv' /\ ExchangeInv' /\ CancelInv'
  BY DEF ProtocolTypeOK, BrokerTypeOK, PromptInv, BrokerInv, ExchangeInv, Idle,
     CancelInv
<1>2. RequestTypeOK'
  BY DEF RequestTypeOK, Frames
<1>3. FrameInv'
  BY DEF FrameInv, Live
<1>4. SessionInv'
  BY DEF SessionInv
<1>5. ResultInv'
  BY DEF ResultInv, Finished, Past
<1> QED BY <1>1, <1>2, <1>3, <1>4, <1>5

\* A teardown only adds QUIT and the end of the pipe.
LEMMA TimeoutTeardownKeeps ==
    ASSUME IInv, TimeoutTeardown, UNCHANGED brokerState
    PROVE  IInv'
<1> USE ProtocolAssumption DEF IInv, Safe, TypeOK, TimeoutTeardown, OnTop, Live,
        CloseChannel, Quit
<1> USE DEF protocolVars, requestVars, historyVars, requestState, childVars,
        brokerVars, brokerState
<1>1. toHelper' \in Seq(GuiRecords) /\ Grown(toHelper, toHelper', Quit)
  BY Written, GuiRecordType
<1>2. BrokerTypeOK' /\ PromptInv' /\ FrameInv'
  BY DEF BrokerTypeOK, PromptInv, FrameInv, Live
<1>3. ProtocolTypeOK'
  BY <1>1 DEF ProtocolTypeOK
<1>4. RequestTypeOK'
  BY DEF RequestTypeOK
<1>5. SessionInv'
  BY DEF SessionInv
<1>6. BrokerInv'
  BY <1>1 DEF BrokerInv, Grown, Serves
<1>7. ExchangeInv'
  BY DEF ExchangeInv
<1>8. ResultInv'
  BY <1>1 DEF ResultInv, Finished, Past, Grown
<1>9. CancelInv'
  BY <1>1 DEF CancelInv, Grown
<1> QED BY <1>2, <1>3, <1>4, <1>5, <1>6, <1>7, <1>8, <1>9

\* Locking only adds QUIT and the end of the pipe.
LEMMA LockSessionKeeps ==
    ASSUME IInv, LockSession, UNCHANGED brokerState
    PROVE  IInv'
<1> USE ProtocolAssumption DEF IInv, Safe, TypeOK, LockSession, MainWindowUsable,
        Live, CloseChannel, Quit
<1> USE DEF protocolVars, requestVars, historyVars, requestState, childVars,
        brokerVars, brokerState
<1>1. toHelper' \in Seq(GuiRecords) /\ Grown(toHelper, toHelper', Quit)
  BY Written, GuiRecordType
<1>2. BrokerTypeOK' /\ PromptInv' /\ FrameInv'
  BY DEF BrokerTypeOK, PromptInv, FrameInv, Live
<1>3. ProtocolTypeOK'
  BY <1>1 DEF ProtocolTypeOK
<1>4. RequestTypeOK'
  BY DEF RequestTypeOK
<1>5. SessionInv'
  BY DEF SessionInv
<1>6. BrokerInv'
  BY <1>1 DEF BrokerInv, Grown, Serves
<1>7. ExchangeInv'
  BY DEF ExchangeInv
<1>8. ResultInv'
  BY <1>1 DEF ResultInv, Finished, Past, Grown
<1>9. CancelInv'
  BY <1>1 DEF CancelInv, Grown
<1> QED BY <1>2, <1>3, <1>4, <1>5, <1>6, <1>7, <1>8, <1>9

\* Closing only adds QUIT and the end of the pipe; from then on a mutating child
\* may be stopped without a cancel.
LEMMA CloseWindowKeeps ==
    ASSUME IInv, CloseWindow, UNCHANGED brokerState
    PROVE  IInv'
<1> USE ProtocolAssumption DEF IInv, Safe, TypeOK, CloseWindow, MainWindowUsable,
        Live, CloseChannel, Quit
<1> USE DEF protocolVars, requestVars, historyVars, requestState, childVars,
        brokerVars, brokerState
<1>1. toHelper' \in Seq(GuiRecords) /\ Grown(toHelper, toHelper', Quit)
  BY Written, SameGrown, GuiRecordType DEF ProtocolTypeOK
<1>2. BrokerTypeOK' /\ PromptInv' /\ FrameInv'
  BY DEF BrokerTypeOK, PromptInv, FrameInv, Live
<1>3. ProtocolTypeOK'
  BY <1>1 DEF ProtocolTypeOK, Ids, BrokerTypeOK, RequestTypeOK
<1>4. RequestTypeOK'
  BY DEF RequestTypeOK
<1>5. SessionInv'
  BY DEF SessionInv
<1>6. BrokerInv'
  BY <1>1 DEF BrokerInv, Grown, Serves
<1>7. ExchangeInv'
  BY DEF ExchangeInv
<1>8. ResultInv'
  BY <1>1 DEF ResultInv, Finished, Past, Grown
<1>9. CancelInv'
  BY <1>1 DEF CancelInv, Grown
<1> QED BY <1>2, <1>3, <1>4, <1>5, <1>6, <1>7, <1>8, <1>9

\* A GUI that dies closes the pipe.
LEMMA GuiDiesKeeps ==
    ASSUME IInv, GuiDies, UNCHANGED brokerState
    PROVE  IInv'
<1> USE ProtocolAssumption DEF IInv, Safe, TypeOK, GuiDies
<1> USE DEF protocolVars, requestVars, historyVars, requestState, childVars,
        brokerVars, brokerState
<1>1. BrokerTypeOK' /\ PromptInv' /\ FrameInv' /\ BrokerInv' /\ ResultInv'
  BY DEF BrokerTypeOK, PromptInv, FrameInv, Live, BrokerInv, ResultInv, Past, Finished
<1>2. ProtocolTypeOK'
  BY DEF ProtocolTypeOK
<1>3. RequestTypeOK'
  BY DEF RequestTypeOK
<1>4. SessionInv'
  BY DEF SessionInv
<1>5. ExchangeInv'
  BY DEF ExchangeInv
<1>6. CancelInv'
  BY DEF CancelInv
<1> QED BY <1>1, <1>2, <1>3, <1>4, <1>5, <1>6

\* Once the session is given up its records are of no interest.
LEMMA SessionClosedKeeps ==
    ASSUME IInv, SessionClosed, UNCHANGED brokerState
    PROVE  IInv'
<1> USE ProtocolAssumption DEF IInv, Safe, TypeOK, SessionClosed
<1> USE DEF protocolVars, requestVars, historyVars, requestState, childVars,
        brokerVars, brokerState
<1>1. toGui' \in Seq(HelperRecords) /\ Shrunk(toGui, toGui')
  BY EmptyShrunk
<1>2. BrokerTypeOK' /\ FrameInv' /\ BrokerInv' /\ CancelInv'
  BY DEF BrokerTypeOK, FrameInv, Live, BrokerInv, CancelInv
<1>3. ProtocolTypeOK'
  BY DEF ProtocolTypeOK
<1>4. RequestTypeOK'
  BY DEF RequestTypeOK
<1>5. PromptInv'
  BY EmptyTags DEF PromptInv
<1>6. SessionInv'
  BY DEF SessionInv
<1>7. ExchangeInv'
  BY DEF ExchangeInv
<1>8. ResultInv'
  BY EmptyTags DEF ResultInv, Finished, Past
<1> QED BY <1>2, <1>3, <1>4, <1>5, <1>6, <1>7, <1>8

\* A session that ended by itself has been read to its last record.
LEMMA SessionFinishedKeeps ==
    ASSUME IInv, SessionFinished, UNCHANGED brokerState
    PROVE  IInv'
<1> USE ProtocolAssumption DEF IInv, Safe, TypeOK, SessionFinished
<1> USE DEF protocolVars, requestVars, historyVars, requestState, childVars,
        brokerVars, brokerState
<1>1. toGui' \in Seq(HelperRecords) /\ Shrunk(toGui, toGui')
  BY SameShrunk
<1>2. BrokerTypeOK' /\ FrameInv' /\ BrokerInv' /\ CancelInv'
  BY DEF BrokerTypeOK, FrameInv, Live, BrokerInv, CancelInv
<1>3. ProtocolTypeOK'
  BY DEF ProtocolTypeOK
<1>4. RequestTypeOK'
  BY DEF RequestTypeOK
<1>5. PromptInv'
  BY DEF PromptInv
<1>6. SessionInv'
  BY DEF SessionInv
<1>7. ExchangeInv'
  BY DEF ExchangeInv
<1>8. ResultInv'
  BY DEF ResultInv, Finished, Past
<1> QED BY <1>2, <1>3, <1>4, <1>5, <1>6, <1>7, <1>8

\* A frame is lost only while it holds the gate and the session is gone.
LEMMA FrameLostKeeps ==
    ASSUME IInv, FrameLost, UNCHANGED brokerState
    PROVE  IInv'
<1> USE ProtocolAssumption DEF IInv, Safe, TypeOK, FrameLost
<1> USE DEF protocolVars, requestVars, historyVars, requestState, childVars,
        brokerVars, brokerState
<1>1. ProtocolTypeOK' /\ BrokerTypeOK' /\ PromptInv' /\ BrokerInv' /\ ExchangeInv' /\ CancelInv'
  BY DEF ProtocolTypeOK, BrokerTypeOK, PromptInv, BrokerInv, ExchangeInv, Idle,
     CancelInv
<1>2. RequestTypeOK'
  BY RecordFields DEF RequestTypeOK, ProtocolTypeOK, Frames, Ids, Outcomes, Notices
<1>3. FrameInv'
  BY DEF FrameInv, Live
<1>4. SessionInv'
  BY DEF SessionInv
<1>5. ResultInv'
  BY DEF ResultInv, Finished, Past
<1> QED BY <1>1, <1>2, <1>3, <1>4, <1>5

\* A frame that ends with a success was finished; any other holds the gate
\* and frees it.
LEMMA FrameEndsKeeps ==
    ASSUME IInv, NEW i \in Ids, FrameEnds(i), UNCHANGED brokerState
    PROVE  IInv'
<1> USE ProtocolAssumption DEF IInv, Safe, TypeOK, FrameEnds, OnTop, Live, Blocked,
        TornDown, Succeeded, Notice
<1> USE DEF protocolVars, requestVars, historyVars, requestState, childVars,
        brokerVars, brokerState
<1>1. \A j \in Ids : outcome'[j].ok => reply[j] = "zero" \/ outcome[j].ok
  BY DEF RequestTypeOK
<1>2. ProtocolTypeOK' /\ BrokerTypeOK' /\ PromptInv' /\ BrokerInv' /\ CancelInv'
  BY DEF ProtocolTypeOK, BrokerTypeOK, PromptInv, BrokerInv, CancelInv
<1>3. RequestTypeOK'
  BY DEF RequestTypeOK, Frames, Ids, Outcomes, Notices
<1>4. FrameInv'
  BY DEF FrameInv, RequestTypeOK
<1>5. SessionInv'
  BY DEF SessionInv, Idle
<1>6. ExchangeInv'
  BY DEF ExchangeInv, Idle, FrameInv, SessionInv
<1>7. ResultInv'
  BY <1>1 DEF ResultInv, Finished, Past
<1> QED BY <1>2, <1>3, <1>4, <1>5, <1>6, <1>7

\* The broker starts in its header loop, for a session nobody has used yet.
LEMMA PolkitGrantsKeeps ==
    ASSUME IInv, PolkitGrants
    PROVE  IInv'
<1> USE ProtocolAssumption DEF IInv, Safe, TypeOK, PolkitGrants, BrokerStart, Ready
<1> USE DEF protocolVars, requestVars, historyVars, requestState, childVars,
        brokerVars, brokerState
<1>1. toGui' \in Seq(HelperRecords) /\ Grown(toGui, toGui', Ready)
  BY AppendGrown, HelperRecordType DEF ProtocolTypeOK
<1>2. BrokerTypeOK' /\ FrameInv' /\ CancelInv'
  BY DEF BrokerTypeOK, FrameInv, Live, CancelInv
<1>3. ProtocolTypeOK'
  BY <1>1 DEF ProtocolTypeOK
<1>4. RequestTypeOK'
  BY DEF RequestTypeOK
<1>5. PromptInv'
  BY <1>1 DEF PromptInv, Grown
<1>6. SessionInv'
  BY <1>1 DEF SessionInv, Idle, Grown
<1>7. BrokerInv'
  BY DEF BrokerInv
<1>8. ExchangeInv'
  BY DEF ExchangeInv
<1>9. ResultInv'
  BY <1>1 DEF ResultInv, Finished, Past, Grown
<1> QED BY <1>2, <1>3, <1>4, <1>5, <1>6, <1>7, <1>8, <1>9

\* A cancel kept for its BEGIN is a cancel the user made.
LEMMA ReadCancelKeeps ==
    ASSUME IInv, ReadCancel, UNCHANGED requestState
    PROVE  IInv'
<1> USE ProtocolAssumption DEF IInv, Safe, TypeOK, ReadCancel, InHeader
<1> USE DEF protocolVars, requestVars, historyVars, requestState, childVars,
        brokerVars, brokerState
<1>1. toHelper' \in Seq(GuiRecords) /\ Head(toHelper) \in GuiRecords /\ Taken(toHelper, toHelper', Head(toHelper))
  BY TailTaken DEF ProtocolTypeOK
<1>2. RequestTypeOK' /\ PromptInv' /\ FrameInv'
  BY DEF RequestTypeOK, PromptInv, FrameInv, Live
<1>3. ProtocolTypeOK'
  BY DEF ProtocolTypeOK
<1>4. BrokerTypeOK'
  BY RecordFields DEF BrokerTypeOK, ProtocolTypeOK
<1>5. SessionInv'
  BY <1>1 DEF SessionInv, Idle, Shrunk, Taken
<1>6. BrokerInv'
  BY <1>1 DEF BrokerInv, Shrunk, Taken
<1>7. ExchangeInv'
  BY <1>1 DEF ExchangeInv, Idle, Shrunk, Taken
<1>8. ResultInv'
  BY <1>1 DEF ResultInv, Finished, Past, Shrunk, Taken
<1>9. CancelInv'
  BY <1>1, InPipeIds DEF CancelInv, Shrunk, Taken
<1> QED BY <1>2, <1>3, <1>4, <1>5, <1>6, <1>7, <1>8, <1>9

\* An answer to a request that is over is lost without effect.
LEMMA ReadStrayAnswerKeeps ==
    ASSUME IInv, ReadStrayAnswer, UNCHANGED requestState
    PROVE  IInv'
<1> USE ProtocolAssumption DEF IInv, Safe, TypeOK, ReadStrayAnswer, InHeader
<1> USE DEF protocolVars, requestVars, historyVars, requestState, childVars,
        brokerVars, brokerState
<1>1. toHelper' \in Seq(GuiRecords) /\ Head(toHelper) \in GuiRecords /\ Taken(toHelper, toHelper', Head(toHelper))
  BY TailTaken DEF ProtocolTypeOK
<1>2. BrokerTypeOK' /\ RequestTypeOK' /\ PromptInv' /\ FrameInv'
  BY DEF BrokerTypeOK, RequestTypeOK, PromptInv, FrameInv, Live
<1>3. ProtocolTypeOK'
  BY DEF ProtocolTypeOK
<1>4. SessionInv'
  BY <1>1 DEF SessionInv, Idle, Shrunk, Taken
<1>5. BrokerInv'
  BY <1>1 DEF BrokerInv, Shrunk, Taken
<1>6. ExchangeInv'
  BY <1>1 DEF ExchangeInv, Idle, Shrunk, Taken
<1>7. ResultInv'
  BY <1>1 DEF ResultInv, Finished, Past, Shrunk, Taken
<1>8. CancelInv'
  BY <1>1 DEF CancelInv, Shrunk, Taken
<1> QED BY <1>2, <1>3, <1>4, <1>5, <1>6, <1>7, <1>8

\* A broker that quits leaves nothing behind in its pipe.
LEMMA ReadQuitKeeps ==
    ASSUME IInv, ReadQuit, UNCHANGED requestState
    PROVE  IInv'
<1> USE ProtocolAssumption DEF IInv, Safe, TypeOK, ReadQuit, Vanish
<1> USE DEF protocolVars, requestVars, historyVars, requestState, childVars,
        brokerVars, brokerState
<1>1. toHelper' \in Seq(GuiRecords) /\ Shrunk(toHelper, toHelper')
  BY EmptyShrunk
<1>2. childIn' \in Seq(GuiRecords) /\ Shrunk(childIn, childIn')
  BY EmptyShrunk
<1>3. RequestTypeOK' /\ FrameInv'
  BY DEF RequestTypeOK, FrameInv, Live
<1>4. ProtocolTypeOK'
  BY <1>1, <1>2 DEF ProtocolTypeOK, Ids, BrokerTypeOK, RequestTypeOK
<1>5. BrokerTypeOK'
  <2>1. /\ (dispatches \in [Ids -> Nat])'
        /\ (result \in [Ids -> Results])'
        /\ (misapplied \subseteq Stages)'
    BY DEF BrokerTypeOK
  <2>2. /\ (bpc \in {"header", "diagnostic", "mutating", "foreground"})'
        /\ (cur \in Ids \cup {0})'
        /\ (pending \subseteq Ids \cup {0})'
        /\ (marker \in BOOLEAN)'
    BY DEF BrokerTypeOK, ProtocolTypeOK, ExitCodes, Results
  <2>3. /\ (pump \in BOOLEAN)'
        /\ (relayed \in BOOLEAN)'
        /\ (childIn \in Seq(GuiRecords))'
        /\ (child \in {"none", "working", "prompting", "stopping", "exited"})'
    BY <1>1, <1>2, RecordFields DEF BrokerTypeOK, ProtocolTypeOK, ExitCodes, Results
  <2>4. /\ (stage \in 0 .. NumStages)'
        /\ (rc \in ExitCodes)'
    BY DEF BrokerTypeOK, ExitCodes
  <2> QED BY <2>1, <2>2, <2>3, <2>4 DEF BrokerTypeOK
<1>6. PromptInv'
  BY DEF PromptInv
<1>7. SessionInv'
  BY EmptyTags DEF SessionInv, Idle
<1>8. BrokerInv'
  BY EmptyTags DEF BrokerInv
<1>9. ExchangeInv'
  BY EmptyTags DEF ExchangeInv, Idle
<1>10. ResultInv'
  BY EmptyTags DEF ResultInv, Finished, Past, BrokerInv
<1>11. CancelInv'
  BY EmptyTags DEF CancelInv
<1> QED BY <1>3, <1>4, <1>5, <1>6, <1>7, <1>8, <1>9, <1>10, <1>11

\* A broker that meets the end of its pipe was told so by the GUI.
LEMMA ReadEofKeeps ==
    ASSUME IInv, ReadEof, UNCHANGED requestState
    PROVE  IInv'
<1> USE ProtocolAssumption DEF IInv, Safe, TypeOK, ReadEof, HungUp, Vanish
<1> USE DEF protocolVars, requestVars, historyVars, requestState, childVars,
        brokerVars, brokerState
<1>1. toHelper' \in Seq(GuiRecords) /\ Shrunk(toHelper, toHelper')
  BY SameShrunk
<1>2. childIn' \in Seq(GuiRecords) /\ Shrunk(childIn, childIn')
  BY EmptyShrunk
<1>3. RequestTypeOK' /\ FrameInv'
  BY DEF RequestTypeOK, FrameInv, Live
<1>4. ProtocolTypeOK'
  BY DEF ProtocolTypeOK, Ids, BrokerTypeOK, RequestTypeOK
<1>5. BrokerTypeOK'
  <2>1. /\ (dispatches \in [Ids -> Nat])'
        /\ (result \in [Ids -> Results])'
        /\ (misapplied \subseteq Stages)'
    BY DEF BrokerTypeOK
  <2>2. /\ (bpc \in {"header", "diagnostic", "mutating", "foreground"})'
        /\ (cur \in Ids \cup {0})'
        /\ (pending \subseteq Ids \cup {0})'
        /\ (marker \in BOOLEAN)'
    BY DEF BrokerTypeOK, ProtocolTypeOK, ExitCodes, Results
  <2>3. /\ (pump \in BOOLEAN)'
        /\ (relayed \in BOOLEAN)'
        /\ (childIn \in Seq(GuiRecords))'
        /\ (child \in {"none", "working", "prompting", "stopping", "exited"})'
    BY DEF BrokerTypeOK, ProtocolTypeOK, ExitCodes, Results
  <2>4. /\ (stage \in 0 .. NumStages)'
        /\ (rc \in ExitCodes)'
    BY DEF BrokerTypeOK, ExitCodes
  <2> QED BY <2>1, <2>2, <2>3, <2>4 DEF BrokerTypeOK
<1>6. PromptInv'
  BY DEF PromptInv
<1>7. SessionInv'
  BY DEF SessionInv
<1>8. BrokerInv'
  BY DEF BrokerInv
<1>9. ExchangeInv'
  BY DEF ExchangeInv, SessionInv
<1>10. ResultInv'
  BY DEF ResultInv, Finished, Past, BrokerInv
<1>11. CancelInv'
  BY DEF CancelInv
<1> QED BY <1>3, <1>4, <1>5, <1>6, <1>7, <1>8, <1>9, <1>10, <1>11

\* A refused request is answered like any other, with one DONE, and never ran.
LEMMA RefuseBusyKeeps ==
    ASSUME IInv, RefuseBusy, UNCHANGED requestState
    PROVE  IInv'
<1> USE ProtocolAssumption DEF IInv, Safe, TypeOK, RefuseBusy, InHeader, Done
<1> USE DEF protocolVars, requestVars, historyVars, requestState, childVars,
        brokerVars, brokerState
<1>1. toHelper' \in Seq(GuiRecords) /\ Head(toHelper) \in GuiRecords /\ Taken(toHelper, toHelper', Head(toHelper))
  BY TailTaken DEF ProtocolTypeOK
<1>2. toGui' \in Seq(HelperRecords) /\ Grown(toGui, toGui', Done(Head(toHelper).id, "nonzero"))
  BY <1>1, AppendGrown, HelperRecordType, RecordFields DEF ProtocolTypeOK, Codes
<1>3. BrokerTypeOK' /\ RequestTypeOK' /\ FrameInv'
  BY DEF BrokerTypeOK, RequestTypeOK, FrameInv, Live
<1>4. ProtocolTypeOK'
  BY <1>2 DEF ProtocolTypeOK
<1>5. PromptInv'
  BY <1>2 DEF PromptInv, Grown
<1>6. SessionInv'
  BY <1>1 DEF SessionInv, Idle, Shrunk, Taken
<1>7. BrokerInv'
  BY <1>1 DEF BrokerInv, Shrunk, Taken
<1>8. ExchangeInv'
  BY <1>1, <1>2 DEF ExchangeInv, Idle, BrokerInv, Grown, Shrunk, Taken
<1>9. ResultInv'
  BY <1>1, <1>2 DEF ResultInv, Finished, Past, Grown, Serves, Shrunk, Taken
<1>10. CancelInv'
  BY <1>1 DEF CancelInv, Shrunk, Taken
<1> QED BY <1>3, <1>4, <1>5, <1>6, <1>7, <1>8, <1>9, <1>10

\* What follows a BEGIN in the pipe is of the same request, so the dispatch
\* starts with its own records only, and with its own cancel or none.
LEMMA ReadBeginKeeps ==
    ASSUME IInv, ReadBegin, UNCHANGED requestState
    PROVE  IInv'
<1> USE ProtocolAssumption DEF IInv, Safe, TypeOK, ReadBegin, InHeader,
        RecordedCancel, SignalAtBegin
<1> USE DEF protocolVars, requestVars, historyVars, requestState, childVars,
        brokerVars, brokerState
<1>1. toHelper' \in Seq(GuiRecords) /\ Head(toHelper) \in GuiRecords /\ Taken(toHelper, toHelper', Head(toHelper))
  BY TailTaken DEF ProtocolTypeOK
<1>2. childIn' \in Seq(GuiRecords) /\ Shrunk(childIn, childIn')
  BY EmptyShrunk
<1>3. Head(toHelper).id \in Ids
  BY <1>1, RecordFields DEF ResultInv, Taken
<1>4. RequestTypeOK' /\ FrameInv'
  BY DEF RequestTypeOK, FrameInv, Live
<1>5. ProtocolTypeOK'
  BY DEF ProtocolTypeOK
<1>6. BrokerTypeOK'
  <2>1. /\ (pending \subseteq Ids \cup {0})'
        /\ (misapplied \subseteq Stages)'
    BY DEF BrokerTypeOK
  <2>2. /\ (bpc \in {"header", "diagnostic", "mutating", "foreground"})'
        /\ (cur \in Ids \cup {0})'
    BY RecordFields DEF BrokerTypeOK, ProtocolTypeOK
  <2>3. /\ (marker \in BOOLEAN)'
        /\ (pump \in BOOLEAN)'
    BY DEF BrokerTypeOK, ProtocolTypeOK, ExitCodes, Results, BrokerInv, ResultInv
  <2>4. /\ (relayed \in BOOLEAN)'
        /\ (childIn \in Seq(GuiRecords))'
    BY <1>1, <1>2, <1>3, RecordFields DEF BrokerTypeOK, ProtocolTypeOK, ExitCodes,
       Results, BrokerInv, ResultInv
  <2>5. /\ (child \in {"none", "working", "prompting", "stopping", "exited"})'
        /\ (stage \in 0 .. NumStages)'
    BY DEF BrokerTypeOK
  <2>6. /\ (rc \in ExitCodes)'
        /\ (dispatches \in [Ids -> Nat])'
    BY <1>3 DEF BrokerTypeOK, ExitCodes
  <2>7. (result \in [Ids -> Results])'
    BY DEF BrokerTypeOK, ProtocolTypeOK, ExitCodes, Results, BrokerInv, ResultInv
  <2> QED BY <2>1, <2>2, <2>3, <2>4, <2>5, <2>6, <2>7 DEF BrokerTypeOK
<1>7. PromptInv'
  BY DEF PromptInv
<1>8. SessionInv'
  BY <1>1 DEF SessionInv, Idle, Shrunk, Taken
<1>9. BrokerInv'
  <2>1. (~brokerRunning => bpc = "header")'
    BY DEF BrokerInv
  <2>2. (bpc = "header" <=> cur = 0)'
    BY <1>1 DEF BrokerInv, ResultInv, Taken
  <2>3. (bpc = "header" <=> child = "none")'
    BY DEF BrokerInv
  <2>4. (bpc = "mutating" => Mutating(kind[cur]))'
    BY DEF BrokerInv, ResultInv, Idle, ProtocolTypeOK, Serves, Shrunk, Taken,
       Cancellable, BrokerTypeOK
  <2>5. (bpc = "diagnostic" => IsDiagnostic(kind[cur]))'
    BY DEF BrokerInv
  <2>6. (BeginLast(toHelper))'
    BY <1>1 DEF BrokerInv, Shrunk, Taken
  <2>7. (bpc # "header" => ServesOnly(toHelper, cur))'
    BY <1>1 DEF BrokerInv, Taken
  <2> QED BY <2>1, <2>2, <2>3, <2>4, <2>5, <2>6, <2>7 DEF BrokerInv
<1>10. ExchangeInv'
  BY <1>1, InPipeIds DEF ExchangeInv, Idle, Shrunk, Taken
<1>11. ResultInv'
  <2>1. /\ cur = 0 /\ cur' = Head(toHelper).id /\ Past(cur') /\ toGui' = toGui
        /\ \A i \in Ids : i # cur' => result'[i] = result[i]
    BY <1>1, <1>3 DEF BrokerInv, BrokerTypeOK, ResultInv, Taken, Past
  <2>2. \A i : ~InPipe(toHelper', "BEGIN", i)
    BY <1>1 DEF BrokerInv, Taken, Mentions, InPipe
  <2>3. child' = "exited" /\ rc' = "zero" => result'[cur'] \in Complete
    BY <1>3 DEF BrokerTypeOK, Complete
  <2>4. \A i \in Ids : Finished(i) => Finished(i)'
    BY <1>1, <2>1, <2>2 DEF Finished, Past, Taken
  <2> QED BY <2>1, <2>2, <2>3, <2>4 DEF ResultInv, Past
<1>12. CancelInv'
  <2>1. /\ cur' = Head(toHelper).id /\ child' # "stopping"
        /\ marker' \/ usr1' => cur' \in pending
        /\ result' = [result EXCEPT ![cur'] = result'[cur']]
        /\ result'[cur'] = "partial" => cur' \in pending
    BY <1>3 DEF BrokerTypeOK
  <2>2. \A i : ~InPipe(childIn', "CANCEL", i)
    BY EmptyTags
  <2> QED BY <1>1, <1>3, <2>1, <2>2 DEF CancelInv, BrokerTypeOK, Shrunk, Taken
<1> QED BY <1>4, <1>5, <1>6, <1>7, <1>8, <1>9, <1>10, <1>11, <1>12

\* The pump hands on a cancel of the running request.
LEMMA MutatingPumpCancelKeeps ==
    ASSUME IInv, MutatingPumpCancel, UNCHANGED requestState
    PROVE  IInv'
<1> USE ProtocolAssumption DEF IInv, Safe, TypeOK, MutatingPumpCancel, PumpReads
<1> USE DEF protocolVars, requestVars, historyVars, requestState, childVars,
        brokerVars, brokerState
<1>1. toHelper' \in Seq(GuiRecords) /\ Head(toHelper) \in GuiRecords /\ Taken(toHelper, toHelper', Head(toHelper))
  BY TailTaken DEF ProtocolTypeOK
<1>2. childIn' \in Seq(GuiRecords) /\ Grown(childIn, childIn', Head(toHelper))
  BY <1>1, Forwarded
<1>3. RequestTypeOK' /\ PromptInv' /\ FrameInv'
  BY DEF RequestTypeOK, PromptInv, FrameInv, Live
<1>4. ProtocolTypeOK'
  BY DEF ProtocolTypeOK
<1>5. BrokerTypeOK'
  BY <1>2 DEF BrokerTypeOK
<1>6. SessionInv'
  BY <1>1 DEF SessionInv, Idle, Shrunk, Taken
<1>7. BrokerInv'
  BY <1>1 DEF BrokerInv, Shrunk, Taken
<1>8. ExchangeInv'
  BY <1>1 DEF ExchangeInv, Idle, Shrunk, Taken
<1>9. ResultInv'
  BY <1>1 DEF ResultInv, Finished, Past, Shrunk, Taken
<1>10. CancelInv'
  BY <1>1, <1>2 DEF CancelInv, BrokerTypeOK, Grown, Shrunk, Taken
<1> QED BY <1>3, <1>4, <1>5, <1>6, <1>7, <1>8, <1>9, <1>10

\* The pump hands on an answer of the running request.
LEMMA MutatingPumpForwardKeeps ==
    ASSUME IInv, MutatingPumpForward, UNCHANGED requestState
    PROVE  IInv'
<1> USE ProtocolAssumption DEF IInv, Safe, TypeOK, MutatingPumpForward, PumpReads
<1> USE DEF protocolVars, requestVars, historyVars, requestState, childVars,
        brokerVars, brokerState
<1>1. toHelper' \in Seq(GuiRecords) /\ Head(toHelper) \in GuiRecords /\ Taken(toHelper, toHelper', Head(toHelper))
  BY TailTaken DEF ProtocolTypeOK
<1>2. childIn' \in Seq(GuiRecords) /\ Grown(childIn, childIn', Head(toHelper))
  BY <1>1, Forwarded
<1>3. RequestTypeOK' /\ PromptInv' /\ FrameInv'
  BY DEF RequestTypeOK, PromptInv, FrameInv, Live
<1>4. ProtocolTypeOK'
  BY DEF ProtocolTypeOK
<1>5. BrokerTypeOK'
  BY <1>2 DEF BrokerTypeOK
<1>6. SessionInv'
  BY <1>1 DEF SessionInv, Idle, Shrunk, Taken
<1>7. BrokerInv'
  BY <1>1 DEF BrokerInv, Shrunk, Taken
<1>8. ExchangeInv'
  BY <1>1 DEF ExchangeInv, Idle, Shrunk, Taken
<1>9. ResultInv'
  BY <1>1 DEF ResultInv, Finished, Past, Shrunk, Taken
<1>10. CancelInv'
  BY <1>1, <1>2 DEF CancelInv, Grown, Shrunk, Taken
<1> QED BY <1>3, <1>4, <1>5, <1>6, <1>7, <1>8, <1>9, <1>10

\* The pump signals a cancel of the running request.
LEMMA DiagnosticPumpCancelKeeps ==
    ASSUME IInv, DiagnosticPumpCancel, UNCHANGED requestState
    PROVE  IInv'
<1> USE ProtocolAssumption DEF IInv, Safe, TypeOK, DiagnosticPumpCancel, PumpReads
<1> USE DEF protocolVars, requestVars, historyVars, requestState, childVars,
        brokerVars, brokerState
<1>1. toHelper' \in Seq(GuiRecords) /\ Head(toHelper) \in GuiRecords /\ Taken(toHelper, toHelper', Head(toHelper))
  BY TailTaken DEF ProtocolTypeOK
<1>2. BrokerTypeOK' /\ RequestTypeOK' /\ PromptInv' /\ FrameInv'
  BY DEF BrokerTypeOK, RequestTypeOK, PromptInv, FrameInv, Live
<1>3. ProtocolTypeOK'
  BY DEF ProtocolTypeOK
<1>4. SessionInv'
  BY <1>1 DEF SessionInv, Idle, Shrunk, Taken
<1>5. BrokerInv'
  BY <1>1 DEF BrokerInv, Shrunk, Taken
<1>6. ExchangeInv'
  BY <1>1 DEF ExchangeInv, Idle, Shrunk, Taken
<1>7. ResultInv'
  BY <1>1 DEF ResultInv, Finished, Past, Shrunk, Taken
<1>8. CancelInv'
  BY <1>1 DEF CancelInv, BrokerTypeOK, Shrunk, Taken
<1> QED BY <1>2, <1>3, <1>4, <1>5, <1>6, <1>7, <1>8

\* A pump that ends saw QUIT or the end of the pipe: the session is closing.
LEMMA PumpEndsKeeps ==
    ASSUME IInv, PumpEnds, UNCHANGED requestState
    PROVE  IInv'
<1> USE ProtocolAssumption DEF IInv, Safe, TypeOK, PumpEnds, Dispatching
<1> USE DEF protocolVars, requestVars, historyVars, requestState, childVars,
        brokerVars, brokerState
<1>1. toHelper' \in Seq(GuiRecords) /\ Shrunk(toHelper, toHelper')
  BY TailTaken, SameShrunk DEF ProtocolTypeOK, Taken
<1>2. eof
  BY TailTaken DEF Taken, SessionInv, ProtocolTypeOK
<1>3. RequestTypeOK' /\ PromptInv' /\ FrameInv'
  BY DEF RequestTypeOK, PromptInv, FrameInv, Live
<1>4. ProtocolTypeOK'
  BY <1>1, <1>2 DEF ProtocolTypeOK, Ids, BrokerTypeOK, RequestTypeOK
<1>5. BrokerTypeOK'
  BY DEF BrokerTypeOK, ProtocolTypeOK, ExitCodes, Results
<1>6. SessionInv'
  BY <1>2 DEF SessionInv
<1>7. BrokerInv'
  BY <1>1 DEF BrokerInv, Shrunk
<1>8. ExchangeInv'
  BY <1>2 DEF ExchangeInv, SessionInv
<1>9. ResultInv'
  BY <1>1 DEF ResultInv, Finished, Past, Shrunk
<1>10. CancelInv'
  BY <1>1, <1>2 DEF CancelInv, BrokerInv, Shrunk
<1> QED BY <1>3, <1>4, <1>5, <1>6, <1>7, <1>8, <1>9, <1>10

\* A child that finds its marker was cancelled.
LEMMA ChildCheckpointKeeps ==
    ASSUME IInv, ChildCheckpoint, UNCHANGED requestState
    PROVE  IInv'
<1> USE ProtocolAssumption DEF IInv, Safe, TypeOK, ChildCheckpoint, CancelMarked
<1> USE DEF protocolVars, requestVars, historyVars, requestState, childVars,
        brokerVars, brokerState
<1>1. ProtocolTypeOK' /\ RequestTypeOK' /\ FrameInv' /\ SessionInv' /\ ExchangeInv'
  BY DEF ProtocolTypeOK, RequestTypeOK, FrameInv, Live, SessionInv, Idle, ExchangeInv
<1>2. BrokerTypeOK'
  BY DEF BrokerTypeOK
<1>3. PromptInv'
  BY DEF PromptInv
<1>4. BrokerInv'
  BY DEF BrokerInv
<1>5. ResultInv'
  BY DEF ResultInv, Finished, Past
<1>6. CancelInv'
  BY DEF CancelInv
<1> QED BY <1>1, <1>2, <1>3, <1>4, <1>5, <1>6

\* A stage that needs no answer is one of the request's stages.
LEMMA ChildStageKeeps ==
    ASSUME IInv, ChildStage, UNCHANGED requestState
    PROVE  IInv'
<1> USE ProtocolAssumption DEF IInv, Safe, TypeOK, ChildStage, CancelMarked, LastStage
<1> USE DEF protocolVars, requestVars, historyVars, requestState, childVars,
        brokerVars, brokerState
<1>1. RequestTypeOK' /\ FrameInv' /\ SessionInv' /\ BrokerInv' /\ ExchangeInv' /\ ResultInv' /\ CancelInv'
  BY DEF RequestTypeOK, FrameInv, Live, SessionInv, Idle, BrokerInv, ExchangeInv,
     ResultInv, Past, Finished, CancelInv
<1>2. ProtocolTypeOK'
  BY DEF ProtocolTypeOK
<1>3. BrokerTypeOK'
  BY DEF BrokerTypeOK
<1>4. PromptInv'
  BY DEF PromptInv
<1> QED BY <1>1, <1>2, <1>3, <1>4

\* A prompt names the stage that comes next.
LEMMA ChildPromptKeeps ==
    ASSUME IInv, ChildPrompt, UNCHANGED requestState
    PROVE  IInv'
<1> USE ProtocolAssumption DEF IInv, Safe, TypeOK, ChildPrompt, CancelMarked, Prompt
<1> USE DEF protocolVars, requestVars, historyVars, requestState, childVars,
        brokerVars, brokerState
<1>1. stage + 1 \in Stages
  BY DEF BrokerTypeOK, Stages
<1>2. toGui' \in Seq(HelperRecords) /\ Grown(toGui, toGui', Prompt(cur, stage + 1))
  BY <1>1, AppendGrown, HelperRecordType DEF ProtocolTypeOK, BrokerTypeOK
<1>3. RequestTypeOK' /\ FrameInv'
  BY DEF RequestTypeOK, FrameInv, Live
<1>4. ProtocolTypeOK'
  BY <1>2 DEF ProtocolTypeOK
<1>5. BrokerTypeOK'
  BY DEF BrokerTypeOK
<1>6. PromptInv'
  BY <1>1, <1>2 DEF PromptInv, Grown
<1>7. SessionInv'
  BY DEF SessionInv, BrokerInv, Idle
<1>8. BrokerInv'
  BY DEF BrokerInv
<1>9. ExchangeInv'
  BY <1>2 DEF ExchangeInv, Idle, BrokerInv, Grown
<1>10. ResultInv'
  BY <1>2 DEF ResultInv, Finished, Past, Grown
<1>11. CancelInv'
  BY DEF CancelInv
<1> QED BY <1>3, <1>4, <1>5, <1>6, <1>7, <1>8, <1>9, <1>10, <1>11

\* The record a child reads is of its own request.
LEMMA ChildReadsYesKeeps ==
    ASSUME IInv, ChildReadsYes, UNCHANGED requestState
    PROVE  IInv'
<1> USE ProtocolAssumption DEF IInv, Safe, TypeOK, ChildReadsYes, PromptReads, IsYes,
        IsAnswer
<1> USE DEF protocolVars, requestVars, historyVars, requestState, childVars,
        brokerVars, brokerState
<1>1. /\ toHelper' \in Seq(GuiRecords) /\ Shrunk(toHelper, toHelper')
      /\ childIn' \in Seq(GuiRecords) /\ Shrunk(childIn, childIn')
      /\ Head(Stdin) \in GuiRecords
  BY StdinRead
<1>2. stage + 1 \in Stages
  BY DEF PromptInv, BrokerTypeOK, Stages
<1>3. RequestTypeOK' /\ FrameInv'
  BY DEF RequestTypeOK, FrameInv, Live
<1>4. ProtocolTypeOK'
  BY <1>1 DEF ProtocolTypeOK
<1>5. BrokerTypeOK'
  <2>1. /\ (bpc \in {"header", "diagnostic", "mutating", "foreground"})'
        /\ (cur \in Ids \cup {0})'
        /\ (pending \subseteq Ids \cup {0})'
        /\ (marker \in BOOLEAN)'
        /\ (pump \in BOOLEAN)'
        /\ (relayed \in BOOLEAN)'
        /\ (rc \in ExitCodes)'
        /\ (dispatches \in [Ids -> Nat])'
        /\ (result \in [Ids -> Results])'
    BY DEF BrokerTypeOK
  <2>2. (childIn \in Seq(GuiRecords))'
    BY <1>1 DEF BrokerTypeOK
  <2>3. (child \in {"none", "working", "prompting", "stopping", "exited"})'
    BY DEF BrokerTypeOK
  <2>4. (stage \in 0 .. NumStages)'
    BY DEF BrokerTypeOK, PromptInv
  <2>5. (misapplied \subseteq Stages)'
    BY <1>1, <1>2, RecordFields DEF BrokerTypeOK, ProtocolTypeOK, ExitCodes,
       Results, PromptInv
  <2> QED BY <2>1, <2>2, <2>3, <2>4, <2>5 DEF BrokerTypeOK
<1>6. PromptInv'
  BY DEF PromptInv
<1>7. SessionInv'
  BY <1>1 DEF SessionInv, Idle, Shrunk
<1>8. BrokerInv'
  BY <1>1 DEF BrokerInv, Shrunk
<1>9. ExchangeInv'
  BY <1>1 DEF ExchangeInv, Idle, Shrunk
<1>10. ResultInv'
  BY <1>1 DEF ResultInv, Finished, Past, Shrunk
<1>11. CancelInv'
  BY <1>1 DEF CancelInv, Shrunk
<1> QED BY <1>3, <1>4, <1>5, <1>6, <1>7, <1>8, <1>9, <1>10, <1>11

\* The cancel a child reads is of its own request.
LEMMA ChildReadsCancelKeeps ==
    ASSUME IInv, ChildReadsCancel, UNCHANGED requestState
    PROVE  IInv'
<1> USE ProtocolAssumption DEF IInv, Safe, TypeOK, ChildReadsCancel, PromptReads,
        Stdin, IsCancel
<1> USE DEF protocolVars, requestVars, historyVars, requestState, childVars,
        brokerVars, brokerState
<1>1. /\ toHelper' \in Seq(GuiRecords) /\ Shrunk(toHelper, toHelper')
      /\ childIn' \in Seq(GuiRecords) /\ Shrunk(childIn, childIn')
      /\ Head(Stdin) \in GuiRecords
      /\ InPipe(Stdin, "CANCEL", cur)
  BY StdinRead
<1>2. RequestTypeOK' /\ FrameInv'
  BY DEF RequestTypeOK, FrameInv, Live
<1>3. ProtocolTypeOK'
  BY <1>1 DEF ProtocolTypeOK
<1>4. BrokerTypeOK'
  BY <1>1 DEF BrokerTypeOK
<1>5. PromptInv'
  BY DEF PromptInv
<1>6. SessionInv'
  BY <1>1 DEF SessionInv, Idle, Shrunk
<1>7. BrokerInv'
  BY <1>1 DEF BrokerInv, Shrunk
<1>8. ExchangeInv'
  BY <1>1 DEF ExchangeInv, Idle, Shrunk
<1>9. ResultInv'
  BY <1>1 DEF ResultInv, Finished, Past, Shrunk
<1>10. CancelInv'
  BY <1>1 DEF CancelInv, BrokerTypeOK, Shrunk
<1> QED BY <1>2, <1>3, <1>4, <1>5, <1>6, <1>7, <1>8, <1>9, <1>10

\* Whatever else a child reads declines the stage it asked about.
LEMMA ChildReadsOtherKeeps ==
    ASSUME IInv, ChildReadsOther, UNCHANGED requestState
    PROVE  IInv'
<1> USE ProtocolAssumption DEF IInv, Safe, TypeOK, ChildReadsOther, PromptReads, Stdin,
        IsYes, IsAnswer, IsCancel, Decline, LastStage
<1> USE DEF protocolVars, requestVars, historyVars, requestState, childVars,
        brokerVars, brokerState
<1>1. /\ toHelper' \in Seq(GuiRecords) /\ Shrunk(toHelper, toHelper')
      /\ childIn' \in Seq(GuiRecords) /\ Shrunk(childIn, childIn')
      /\ Head(Stdin) \in GuiRecords
  BY StdinRead
<1>2. cur \in Ids
  BY DEF BrokerInv, BrokerTypeOK
<1>3. RequestTypeOK' /\ FrameInv'
  BY DEF RequestTypeOK, FrameInv, Live
<1>4. ProtocolTypeOK'
  BY <1>1 DEF ProtocolTypeOK
<1>5. BrokerTypeOK'
  <2>1. /\ (bpc \in {"header", "diagnostic", "mutating", "foreground"})'
        /\ (cur \in Ids \cup {0})'
        /\ (pending \subseteq Ids \cup {0})'
        /\ (marker \in BOOLEAN)'
        /\ (pump \in BOOLEAN)'
        /\ (relayed \in BOOLEAN)'
        /\ (dispatches \in [Ids -> Nat])'
        /\ (misapplied \subseteq Stages)'
    BY DEF BrokerTypeOK
  <2>2. /\ (childIn \in Seq(GuiRecords))'
        /\ (child \in {"none", "working", "prompting", "stopping", "exited"})'
        /\ (stage \in 0 .. NumStages)'
        /\ (rc \in ExitCodes)'
    BY <1>1 DEF BrokerTypeOK, ExitCodes, PromptInv
  <2>3. (result \in [Ids -> Results])'
    BY DEF BrokerTypeOK, Results
  <2> QED BY <2>1, <2>2, <2>3 DEF BrokerTypeOK
<1>6. PromptInv'
  BY DEF PromptInv
<1>7. SessionInv'
  BY <1>1 DEF SessionInv, Idle, Shrunk
<1>8. BrokerInv'
  BY <1>1 DEF BrokerInv, Shrunk
<1>9. ExchangeInv'
  BY <1>1 DEF ExchangeInv, Idle, Shrunk
<1>10. ResultInv'
  BY <1>1 DEF ResultInv, Finished, Past, BrokerInv, Complete, BrokerTypeOK, Shrunk
<1>11. CancelInv'
  BY <1>1 DEF CancelInv, BrokerTypeOK, Shrunk
<1> QED BY <1>3, <1>4, <1>5, <1>6, <1>7, <1>8, <1>9, <1>10, <1>11

\* A prompt that expires declines the stage it asked about.
LEMMA ChildPromptExpiresKeeps ==
    ASSUME IInv, ChildPromptExpires, UNCHANGED requestState
    PROVE  IInv'
<1> USE ProtocolAssumption DEF IInv, Safe, TypeOK, ChildPromptExpires, Stdin, Decline,
        LastStage
<1> USE DEF protocolVars, requestVars, historyVars, requestState, childVars,
        brokerVars, brokerState
<1>1. cur \in Ids
  BY DEF BrokerInv, BrokerTypeOK
<1>2. RequestTypeOK' /\ FrameInv' /\ SessionInv' /\ ExchangeInv'
  BY DEF RequestTypeOK, FrameInv, Live, SessionInv, Idle, ExchangeInv
<1>3. ProtocolTypeOK'
  BY DEF ProtocolTypeOK
<1>4. BrokerTypeOK'
  <2>1. /\ (bpc \in {"header", "diagnostic", "mutating", "foreground"})'
        /\ (cur \in Ids \cup {0})'
        /\ (pending \subseteq Ids \cup {0})'
        /\ (marker \in BOOLEAN)'
        /\ (pump \in BOOLEAN)'
        /\ (relayed \in BOOLEAN)'
        /\ (childIn \in Seq(GuiRecords))'
        /\ (dispatches \in [Ids -> Nat])'
        /\ (misapplied \subseteq Stages)'
    BY DEF BrokerTypeOK
  <2>2. /\ (child \in {"none", "working", "prompting", "stopping", "exited"})'
        /\ (stage \in 0 .. NumStages)'
    BY DEF BrokerTypeOK, PromptInv
  <2>3. /\ (rc \in ExitCodes)'
        /\ (result \in [Ids -> Results])'
    BY DEF BrokerTypeOK, ExitCodes, Results
  <2> QED BY <2>1, <2>2, <2>3 DEF BrokerTypeOK
<1>5. PromptInv'
  BY DEF PromptInv
<1>6. BrokerInv'
  BY DEF BrokerInv
<1>7. ResultInv'
  BY DEF ResultInv, Finished, Past, BrokerInv, Complete, BrokerTypeOK
<1>8. CancelInv'
  BY DEF CancelInv, BrokerTypeOK
<1> QED BY <1>2, <1>3, <1>4, <1>5, <1>6, <1>7, <1>8

\* A child that succeeds has passed all its stages.
LEMMA ChildSucceedsKeeps ==
    ASSUME IInv, ChildSucceeds, UNCHANGED requestState
    PROVE  IInv'
<1> USE ProtocolAssumption DEF IInv, Safe, TypeOK, ChildSucceeds
<1> USE DEF protocolVars, requestVars, historyVars, requestState, childVars,
        brokerVars, brokerState
<1>1. cur \in Ids
  BY DEF BrokerInv, BrokerTypeOK
<1>2. RequestTypeOK' /\ FrameInv' /\ SessionInv' /\ ExchangeInv'
  BY DEF RequestTypeOK, FrameInv, Live, SessionInv, Idle, ExchangeInv
<1>3. ProtocolTypeOK'
  BY DEF ProtocolTypeOK
<1>4. BrokerTypeOK'
  BY DEF BrokerTypeOK, ProtocolTypeOK, ExitCodes, Results
<1>5. PromptInv'
  BY DEF PromptInv
<1>6. BrokerInv'
  BY DEF BrokerInv
<1>7. ResultInv'
  BY DEF ResultInv, Finished, Past, BrokerInv, Complete, BrokerTypeOK
<1>8. CancelInv'
  BY DEF CancelInv
<1> QED BY <1>2, <1>3, <1>4, <1>5, <1>6, <1>7, <1>8

\* A child that fails leaves no complete result.
LEMMA ChildFailsKeeps ==
    ASSUME IInv, ChildFails, UNCHANGED requestState
    PROVE  IInv'
<1> USE ProtocolAssumption DEF IInv, Safe, TypeOK, ChildFails
<1> USE DEF protocolVars, requestVars, historyVars, requestState, childVars,
        brokerVars, brokerState
<1>1. RequestTypeOK' /\ FrameInv' /\ SessionInv' /\ ExchangeInv'
  BY DEF RequestTypeOK, FrameInv, Live, SessionInv, Idle, ExchangeInv
<1>2. ProtocolTypeOK'
  BY DEF ProtocolTypeOK
<1>3. BrokerTypeOK'
  BY DEF BrokerTypeOK, ExitCodes, Results
<1>4. PromptInv'
  BY DEF PromptInv
<1>5. BrokerInv'
  BY DEF BrokerInv
<1>6. ResultInv'
  BY DEF ResultInv, Finished, Past
<1>7. CancelInv'
  BY DEF CancelInv
<1> QED BY <1>1, <1>2, <1>3, <1>4, <1>5, <1>6, <1>7

\* A diagnostic that stops early with code 0 was cancelled.
LEMMA ChildStopsKeeps ==
    ASSUME IInv, ChildStops, UNCHANGED requestState
    PROVE  IInv'
<1> USE ProtocolAssumption DEF IInv, Safe, TypeOK, ChildStops
<1> USE DEF protocolVars, requestVars, historyVars, requestState, childVars,
        brokerVars, brokerState
<1>1. cur \in Ids
  BY DEF BrokerInv, BrokerTypeOK
<1>2. RequestTypeOK' /\ FrameInv' /\ SessionInv' /\ ExchangeInv'
  BY DEF RequestTypeOK, FrameInv, Live, SessionInv, Idle, ExchangeInv
<1>3. ProtocolTypeOK'
  BY DEF ProtocolTypeOK
<1>4. BrokerTypeOK'
  BY DEF BrokerTypeOK, ExitCodes, Results
<1>5. PromptInv'
  BY DEF PromptInv
<1>6. BrokerInv'
  BY DEF BrokerInv
<1>7. ResultInv'
  BY DEF ResultInv, Finished, Past, BrokerInv, Complete, BrokerTypeOK
<1>8. CancelInv'
  BY DEF CancelInv, BrokerTypeOK, IsDiagnostic, Mutating
<1> QED BY <1>2, <1>3, <1>4, <1>5, <1>6, <1>7, <1>8

\* A signal that is relayed was meant for the child it stops.
LEMMA RelayCancelKeeps ==
    ASSUME IInv, RelayCancel, UNCHANGED requestState
    PROVE  IInv'
<1> USE ProtocolAssumption DEF IInv, Safe, TypeOK, RelayCancel, Dispatching,
        SignalledChild, Alive
<1> USE DEF protocolVars, requestVars, historyVars, requestState, childVars,
        brokerVars, brokerState
<1>1. RequestTypeOK' /\ FrameInv' /\ SessionInv' /\ ExchangeInv'
  BY DEF RequestTypeOK, FrameInv, Live, SessionInv, Idle, ExchangeInv
<1>2. ProtocolTypeOK'
  BY DEF ProtocolTypeOK, BrokerTypeOK, RequestTypeOK
<1>3. BrokerTypeOK'
  BY DEF BrokerTypeOK
<1>4. PromptInv'
  BY DEF PromptInv
<1>5. BrokerInv'
  BY DEF BrokerInv
<1>6. ResultInv'
  BY DEF ResultInv, Finished, Past
<1>7. CancelInv'
  BY DEF CancelInv
<1> QED BY <1>1, <1>2, <1>3, <1>4, <1>5, <1>6, <1>7

\* A child ended by the bound leaves no complete result.
LEMMA DispatchBoundKeeps ==
    ASSUME IInv, DispatchBound, UNCHANGED requestState
    PROVE  IInv'
<1> USE ProtocolAssumption DEF IInv, Safe, TypeOK, DispatchBound, Bounded,
        Dispatching, Alive
<1> USE DEF protocolVars, requestVars, historyVars, requestState, childVars,
        brokerVars, brokerState
<1>1. RequestTypeOK' /\ FrameInv' /\ SessionInv' /\ ExchangeInv'
  BY DEF RequestTypeOK, FrameInv, Live, SessionInv, Idle, ExchangeInv
<1>2. ProtocolTypeOK'
  BY DEF ProtocolTypeOK
<1>3. BrokerTypeOK'
  BY DEF BrokerTypeOK, ExitCodes, Results
<1>4. PromptInv'
  BY DEF PromptInv
<1>5. BrokerInv'
  BY DEF BrokerInv
<1>6. ResultInv'
  BY DEF ResultInv, Finished, Past
<1>7. CancelInv'
  BY DEF CancelInv
<1> QED BY <1>1, <1>2, <1>3, <1>4, <1>5, <1>6, <1>7

\* The second dispatch of a request is still of that request.
LEMMA FallBackKeeps ==
    ASSUME IInv, FallBack, UNCHANGED requestState
    PROVE  IInv'
<1> USE ProtocolAssumption DEF IInv, Safe, TypeOK, FallBack, Dispatching
<1> USE DEF protocolVars, requestVars, historyVars, requestState, childVars,
        brokerVars, brokerState
<1>1. childIn' \in Seq(GuiRecords) /\ Shrunk(childIn, childIn')
  BY EmptyShrunk
<1>2. cur \in Ids
  BY DEF BrokerInv, BrokerTypeOK
<1>3. RequestTypeOK' /\ FrameInv'
  BY DEF RequestTypeOK, FrameInv, Live
<1>4. ProtocolTypeOK'
  BY DEF ProtocolTypeOK
<1>5. BrokerTypeOK'
  <2>1. /\ (cur \in Ids \cup {0})'
        /\ (pending \subseteq Ids \cup {0})'
        /\ (marker \in BOOLEAN)'
        /\ (relayed \in BOOLEAN)'
        /\ (result \in [Ids -> Results])'
        /\ (misapplied \subseteq Stages)'
    BY DEF BrokerTypeOK
  <2>2. /\ (bpc \in {"header", "diagnostic", "mutating", "foreground"})'
        /\ (pump \in BOOLEAN)'
        /\ (childIn \in Seq(GuiRecords))'
        /\ (child \in {"none", "working", "prompting", "stopping", "exited"})'
    BY <1>1, <1>2, RecordFields DEF BrokerTypeOK, ProtocolTypeOK, ExitCodes,
       Results, BrokerInv, ResultInv
  <2>3. /\ (stage \in 0 .. NumStages)'
        /\ (rc \in ExitCodes)'
        /\ (dispatches \in [Ids -> Nat])'
    BY DEF BrokerTypeOK, ExitCodes, BrokerInv
  <2> QED BY <2>1, <2>2, <2>3 DEF BrokerTypeOK
<1>6. PromptInv'
  BY DEF PromptInv
<1>7. SessionInv'
  BY DEF SessionInv, Idle
<1>8. BrokerInv'
  BY DEF BrokerInv
<1>9. ExchangeInv'
  BY DEF ExchangeInv, Idle
<1>10. ResultInv'
  BY DEF ResultInv, Finished, Past
<1>11. CancelInv'
  BY EmptyTags DEF CancelInv
<1> QED BY <1>3, <1>4, <1>5, <1>6, <1>7, <1>8, <1>9, <1>10, <1>11

\* The only DONE of a request carries code 0 only if its child completed.
LEMMA FinishDispatchKeeps ==
    ASSUME IInv, FinishDispatch, UNCHANGED requestState
    PROVE  IInv'
<1> USE ProtocolAssumption DEF IInv, Safe, TypeOK, FinishDispatch, Dispatching, Done,
        DoneCode
<1> USE DEF protocolVars, requestVars, historyVars, requestState, childVars,
        brokerVars, brokerState
<1>1. DoneCode \in Codes
  BY DEF Codes
<1>2. toGui' \in Seq(HelperRecords) /\ Grown(toGui, toGui', Done(cur, DoneCode))
  BY <1>1, AppendGrown, HelperRecordType DEF ProtocolTypeOK, BrokerTypeOK
<1>3. childIn' \in Seq(GuiRecords) /\ Shrunk(childIn, childIn')
  BY EmptyShrunk
<1>4. cur \in Ids
  BY DEF BrokerInv, BrokerTypeOK
<1>5. 0 \notin Ids
  BY DEF Ids
<1>6. ~Mentions(toHelper, "BEGIN")
  BY DEF BrokerInv, ServesOnly, Mentions
<1>7. \A i : ~InPipe(toHelper, "BEGIN", i)
  BY <1>6 DEF Mentions, InPipe
<1>8. RequestTypeOK' /\ FrameInv'
  BY DEF RequestTypeOK, FrameInv, Live
<1>9. ProtocolTypeOK'
  BY <1>2 DEF ProtocolTypeOK
<1>10. BrokerTypeOK'
  <2>1. /\ (pending \subseteq Ids \cup {0})'
        /\ (dispatches \in [Ids -> Nat])'
        /\ (result \in [Ids -> Results])'
        /\ (misapplied \subseteq Stages)'
    BY DEF BrokerTypeOK
  <2>2. /\ (bpc \in {"header", "diagnostic", "mutating", "foreground"})'
        /\ (cur \in Ids \cup {0})'
    BY DEF BrokerTypeOK
  <2>3. /\ (marker \in BOOLEAN)'
        /\ (pump \in BOOLEAN)'
    BY <1>6, <1>7, RecordFields DEF BrokerTypeOK, ProtocolTypeOK, ExitCodes, Results
  <2>4. /\ (relayed \in BOOLEAN)'
        /\ (childIn \in Seq(GuiRecords))'
    BY <1>1, <1>2, <1>3, <1>4, <1>5, <1>6, <1>7, RecordFields DEF BrokerTypeOK,
       ProtocolTypeOK, ExitCodes, Results
  <2>5. /\ (child \in {"none", "working", "prompting", "stopping", "exited"})'
        /\ (stage \in 0 .. NumStages)'
    BY DEF BrokerTypeOK
  <2>6. (rc \in ExitCodes)'
    BY DEF BrokerTypeOK, ExitCodes
  <2> QED BY <2>1, <2>2, <2>3, <2>4, <2>5, <2>6 DEF BrokerTypeOK
<1>11. PromptInv'
  BY <1>2 DEF PromptInv, Grown
<1>12. SessionInv'
  BY DEF SessionInv, BrokerInv, Idle
<1>13. BrokerInv'
  BY DEF BrokerInv
<1>14. ExchangeInv'
  BY <1>2, <1>6 DEF ExchangeInv, Idle, BrokerInv, Grown
<1>15. ResultInv'
  BY <1>2, <1>5, <1>7 DEF ResultInv, Finished, Past, BrokerInv, Grown, Serves, Shrunk
<1>16. CancelInv'
  BY EmptyTags DEF CancelInv
<1> QED BY <1>8, <1>9, <1>10, <1>11, <1>12, <1>13, <1>14, <1>15, <1>16

\* A broker that dies takes its request with it, unfinished.
LEMMA BrokerDiesKeeps ==
    ASSUME IInv, BrokerDies, UNCHANGED requestState
    PROVE  IInv'
<1> USE ProtocolAssumption DEF IInv, Safe, TypeOK, BrokerDies, Vanish, Alive
<1> USE DEF protocolVars, requestVars, historyVars, requestState, childVars,
        brokerVars, brokerState
<1>1. toHelper' \in Seq(GuiRecords) /\ Shrunk(toHelper, toHelper')
  BY EmptyShrunk
<1>2. childIn' \in Seq(GuiRecords) /\ Shrunk(childIn, childIn')
  BY EmptyShrunk
<1>3. 0 \notin Ids
  BY DEF Ids
<1>4. \A i \in Ids : i # cur => result'[i] = result[i]
  OBVIOUS
<1>5. RequestTypeOK' /\ FrameInv'
  BY DEF RequestTypeOK, FrameInv, Live
<1>6. ProtocolTypeOK'
  BY <1>1, <1>2, <1>3, <1>4 DEF ProtocolTypeOK, Ids, BrokerTypeOK, RequestTypeOK
<1>7. BrokerTypeOK'
  <2>1. /\ (dispatches \in [Ids -> Nat])'
        /\ (misapplied \subseteq Stages)'
    BY DEF BrokerTypeOK
  <2>2. /\ (bpc \in {"header", "diagnostic", "mutating", "foreground"})'
        /\ (cur \in Ids \cup {0})'
    BY DEF BrokerTypeOK
  <2>3. /\ (pending \subseteq Ids \cup {0})'
        /\ (marker \in BOOLEAN)'
    BY RecordFields DEF BrokerTypeOK, ProtocolTypeOK, ExitCodes, Results
  <2>4. /\ (pump \in BOOLEAN)'
        /\ (relayed \in BOOLEAN)'
    BY RecordFields DEF BrokerTypeOK, ProtocolTypeOK, ExitCodes, Results
  <2>5. /\ (childIn \in Seq(GuiRecords))'
        /\ (child \in {"none", "working", "prompting", "stopping", "exited"})'
    BY DEF BrokerTypeOK
  <2>6. /\ (stage \in 0 .. NumStages)'
        /\ (rc \in ExitCodes)'
    BY DEF BrokerTypeOK, ExitCodes
  <2>7. (result \in [Ids -> Results])'
    BY RecordFields DEF BrokerTypeOK, ProtocolTypeOK, ExitCodes, Results
  <2> QED BY <2>1, <2>2, <2>3, <2>4, <2>5, <2>6, <2>7 DEF BrokerTypeOK
<1>8. PromptInv'
  BY DEF PromptInv
<1>9. SessionInv'
  BY EmptyTags DEF SessionInv, Idle
<1>10. BrokerInv'
  BY EmptyTags DEF BrokerInv
<1>11. ExchangeInv'
  BY EmptyTags DEF ExchangeInv, Idle
<1>12. ResultInv'
  BY <1>3, EmptyTags DEF ResultInv, Finished, Past
<1>13. CancelInv'
  BY EmptyTags DEF CancelInv
<1> QED BY <1>5, <1>6, <1>7, <1>8, <1>9, <1>10, <1>11, <1>12, <1>13


---------------------------------------------------------------------------
(* The steps put together.                                                 *)

\* Nothing moves, nothing breaks.
LEMMA StutterKeeps ==
    ASSUME IInv, UNCHANGED vars
    PROVE  IInv'
<1> USE DEF IInv, Safe, TypeOK, vars, protocolVars, requestVars, historyVars,
        requestState, childVars, brokerVars, brokerState
<1>1. ProtocolTypeOK' /\ BrokerTypeOK' /\ RequestTypeOK'
  BY DEF ProtocolTypeOK, BrokerTypeOK, RequestTypeOK
<1>2. PromptInv' /\ FrameInv' /\ SessionInv' /\ BrokerInv'
  BY DEF PromptInv, FrameInv, SessionInv, BrokerInv, Live, Idle
<1>3. ExchangeInv' /\ ResultInv' /\ CancelInv'
  BY DEF ExchangeInv, ResultInv, CancelInv, Idle, Finished, Past
<1> QED BY <1>1, <1>2, <1>3

\* The initial state: nobody has asked anything of anybody.
LEMMA InitKeeps == Init => IInv
<1> SUFFICES ASSUME Init PROVE IInv
  OBVIOUS
<1> USE ProtocolAssumption DEF Init, ProtocolInit, BrokerInit, RequestInit
<1>1. ProtocolTypeOK
  BY EmptyPipes DEF ProtocolTypeOK
<1>2. BrokerTypeOK
  <2>1. dispatches \in [Ids -> Nat] /\ result \in [Ids -> Results]
    BY DEF Results
  <2>2. stage \in 0 .. NumStages /\ childIn \in Seq(GuiRecords) /\ rc \in ExitCodes
    BY EmptyPipes DEF ExitCodes
  <2> QED BY <2>1, <2>2 DEF BrokerTypeOK
<1>3. RequestTypeOK
  <2>1. frame \in [Ids -> Frames] /\ reply \in [Ids -> Codes]
    BY DEF Frames, Codes
  <2>2. outcome \in [Ids -> Outcomes]
    BY DEF Outcomes
  <2>3. next \in 1 .. MaxRequests + 1 /\ prompts \in Nat
    OBVIOUS
  <2> QED BY <2>1, <2>2, <2>3 DEF RequestTypeOK
<1>4. PromptInv
  BY EmptyTags DEF PromptInv
<1>5. FrameInv
  BY DEF FrameInv, Live
<1>6. SessionInv
  BY EmptyTags DEF SessionInv, Idle
<1>7. BrokerInv
  BY EmptyTags DEF BrokerInv
<1>8. ExchangeInv
  BY EmptyTags DEF ExchangeInv
<1>9. ResultInv
  BY EmptyTags DEF ResultInv, NoOutcome
<1>10. CancelInv
  BY EmptyTags DEF CancelInv
<1> QED BY <1>1, <1>2, <1>3, <1>4, <1>5, <1>6, <1>7, <1>8, <1>9, <1>10
        DEF IInv, Safe, TypeOK

\* Every step of the session preserves the inductive invariant.
LEMMA NextKeeps == IInv /\ [Next]_vars => IInv'
<1> SUFFICES ASSUME IInv, [Next]_vars PROVE IInv'
  OBVIOUS
<1>1. CASE GuiStep
  <2> USE <1>1 DEF GuiStep
  <2>1. CASE ReadRecord
    BY <2>1, ReadReadyKeeps, SkipForeignKeeps, ReadPromptKeeps,
       RefreshPromptKeeps, ReadLatePromptKeeps, RefusePromptKeeps,
       DropPromptKeeps, ReadDoneKeeps DEF ReadRecord
  <2>2. CASE AskAuthorization \/ Watchdog \/ TimeoutTeardown
    BY <2>2, AskAuthorizationKeeps, WatchdogKeeps, TimeoutTeardownKeeps
  <2>3. CASE SessionClosed \/ SessionFinished \/ FrameLost
    BY <2>3, SessionClosedKeeps, SessionFinishedKeeps, FrameLostKeeps
  <2>4. CASE \E i \in Ids : FrameReturns(i)
    BY <2>4, FrameEndsKeeps DEF FrameReturns
  <2> QED BY <2>1, <2>2, <2>3, <2>4 DEF GuiSteps
<1>2. CASE UserStep
  <2> USE <1>2 DEF UserStep
  <2>1. CASE \E k \in Kinds : Claim(k)
    BY <2>1, ClaimKeeps
  <2>2. CASE \E text \in {"yes", "no"} : Answer(text)
    BY <2>2, AnswerKeeps
  <2>3. CASE \E i \in Ids : CloseDialog(i)
    BY <2>3, FrameEndsKeeps DEF CloseDialog
  <2>4. CASE CancelDiagnostic \/ OpenCancelDialog \/ KeepRunning \/ ConfirmCancel
    BY <2>4, CancelDiagnosticKeeps, OpenCancelDialogKeeps, KeepRunningKeeps,
       ConfirmCancelKeeps
  <2>5. CASE LockSession \/ CloseWindow \/ Denied \/ GuiDies
    BY <2>5, LockSessionKeeps, CloseWindowKeeps, DeniedKeeps, GuiDiesKeeps
  <2> QED BY <2>1, <2>2, <2>3, <2>4, <2>5 DEF UserSteps
<1>3. CASE BrokerStep
  <2> USE <1>3 DEF BrokerStep
  <2>1. CASE HeaderLoop
    BY <2>1, ReadCancelKeeps, ReadStrayAnswerKeeps, ReadQuitKeeps, ReadEofKeeps,
       RefuseBusyKeeps, ReadBeginKeeps DEF HeaderLoop
  <2>2. CASE InputPump
    BY <2>2, MutatingPumpCancelKeeps, MutatingPumpForwardKeeps,
       DiagnosticPumpCancelKeeps, PumpEndsKeeps DEF InputPump
  <2>3. CASE ChildReacts
    BY <2>3, ChildCheckpointKeeps, ChildReadsYesKeeps, ChildReadsCancelKeeps,
       ChildReadsOtherKeeps, ChildPromptExpiresKeeps, ChildStopsKeeps DEF ChildReacts
  <2>4. CASE ChildWorks
    BY <2>4, ChildStageKeeps, ChildPromptKeeps, ChildSucceedsKeeps,
       ChildFailsKeeps DEF ChildWorks
  <2>5. CASE PollLoop
    BY <2>5, RelayCancelKeeps, DispatchBoundKeeps, FallBackKeeps,
       FinishDispatchKeeps DEF PollLoop
  <2>6. CASE BrokerDies
    BY <2>6, BrokerDiesKeeps
  <2> QED BY <2>1, <2>2, <2>3, <2>4, <2>5, <2>6 DEF BrokerNext
<1>4. CASE PolkitGrants
  BY <1>4, PolkitGrantsKeeps
<1>5. CASE UNCHANGED vars
  BY <1>5, StutterKeeps
<1> QED BY <1>1, <1>2, <1>3, <1>4, <1>5 DEF Next

\* The inductive invariant holds in every reachable state.
THEOREM Inductive == Spec => []IInv
  BY InitKeeps, NextKeeps, PTL DEF Spec

---------------------------------------------------------------------------
(* The safety properties of the session, for every number of requests,     *)
(* stages and prompts, every set of kinds, and whether or not signals and  *)
(* FIFOs work.                                                             *)

\* Every variable keeps its type: ids, prompts and stages stay within their bounds
\* and every record in a pipe is one its writer can write (the parser of
\* handleHelperLine and the broker's header loop accept no other).
THEOREM TypeCorrect == Spec => []TypeOK
<1>1. IInv => TypeOK
  BY DEF IInv
<1> QED BY <1>1, Inductive, PTL

\* A request reported as succeeded was carried out to its end
\* (runPrivilegedRequest's *succeeded against the helper's exit code).
THEOREM SuccessIsTruthful == Spec => []TruthfulSuccess
<1>1. IInv => TruthfulSuccess
  BY DEF IInv, Safe, ResultInv, CancelInv, Finished, TruthfulSuccess
<1> QED BY <1>1, Inductive, PTL

\* A cancel never bleeds into another request (session_server's
\* pending_pre_begin_cancels, SESSION_CANCEL_REQUESTED and marker file).
THEOREM CancelIsIsolated == Spec => []CancelIsolation
<1>1. IInv => CancelIsolation
  BY DEF IInv, Safe, CancelInv, CancelIsolation
<1> QED BY <1>1, Inductive, PTL

\* The gate and the protocol pipes agree: when the gate is free the broker is
\* idle, and a dispatch finds records of its own request only.
THEOREM GateMatchesBroker == Spec => []OneRequestAtATime
<1>1. IInv => OneRequestAtATime
  BY DEF IInv, Safe, ExchangeInv, BrokerInv, Idle, ServesOnly, OneRequestAtATime
<1> QED BY <1>1, Inductive, PTL

\* The gate is never left behind by a request that is over, and is given back
\* early only after a success (GateGuard).
THEOREM GateIsDisciplined == Spec => []GateDiscipline
<1>1. IInv => GateDiscipline
  BY DEF IInv, Safe, FrameInv, ResultInv, Finished, GateDiscipline
<1> QED BY <1>1, Inductive, PTL

\* Confirming "Cancel Operation" cancels the request the dialog was opened for,
\* or nothing: the dialogs are stacked above the frames they belong to.
THEOREM DialogIsHonest == Spec => DialogCancelsItsRequest
<1> DEFINE Honest == confirm # 0 /\ confirm' = 0 => cancelled' \subseteq cancelled \cup {confirm}
<1>1. IInv /\ Next => Honest
  <2> SUFFICES ASSUME IInv, Next, confirm # 0, confirm' = 0
               PROVE  cancelled' \subseteq cancelled \cup {confirm}
    OBVIOUS
  <2>1. KeepRunning \/ ConfirmCancel
    BY DEF Next, GuiStep, GuiSteps, UserStep, UserSteps, BrokerStep, PolkitGrants,
       ReadRecord, ReadReady, SkipForeign, ReadPrompt, RefreshPrompt, ReadLatePrompt,
       RefusePrompt, DropPrompt, ReadDone, AskAuthorization, Watchdog, TimeoutTeardown,
       SessionClosed, SessionFinished, FrameLost, FrameReturns, CloseDialog, FrameEnds,
       Claim, CancelDiagnostic, OpenCancelDialog, Answer, LockSession, CloseWindow,
       Denied, GuiDies, MainWindowUsable, requestState, requestVars, historyVars
  <2>2. CASE KeepRunning
    BY <2>2 DEF KeepRunning, historyVars
  <2>3. CASE ConfirmCancel
    <3>1. gate # 0 => Live(gate) /\ gate \in Ids /\ confirm \in Ids /\ confirm <= gate
      BY DEF IInv, TypeOK, RequestTypeOK, Safe, FrameInv
    <3>2. gate # 0 => gate = confirm
      BY <2>3, <3>1 DEF ConfirmCancel, DialogReturns, NothingAbove, Ids
    <3> QED BY <2>3, <3>2 DEF ConfirmCancel
  <2> QED BY <2>1, <2>2, <2>3
<1>2. UNCHANGED vars => Honest
  BY DEF vars, requestState, requestVars, historyVars
<1>3. IInv /\ [Next]_vars => [Honest]_vars
  BY <1>1, <1>2
<1> QED BY <1>3, Inductive, PTL DEF Spec, DialogCancelsItsRequest

=============================================================================
