-------------------------- MODULE SessionProtocol --------------------------
(***************************************************************************)
(* The line protocol between the unprivileged GUI and the root session     *)
(* broker: two pipes of records.  The GUI writes BEGIN (with its ARG and   *)
(* END lines, which are always written in one go and read in one go),      *)
(* ANSWER, CANCEL and QUIT; the broker writes SESSION_READY, PROMPT (MENU  *)
(* records are answered the same way) and DONE.  OUT records carry display *)
(* text only and are left out.                                             *)
(***************************************************************************)
EXTENDS Integers, Sequences, FiniteSets

CONSTANTS MaxRequests,     \* bound: requests one run of the application makes
          NumStages,       \* bound: stages (sections) of one request
          PromptBudget,    \* prompts the GUI accepts per request; 8 in the code
          Kinds,           \* the kinds of request this instance makes
          SignalOutcomes,  \* may the GUI's kill(SIGUSR1) reach the broker?
          FifoOutcomes     \* may the broker's mkfifo succeed?

ASSUME ProtocolAssumption ==
    /\ MaxRequests \in Nat \ {0}
    /\ NumStages \in Nat \ {0}
    /\ PromptBudget \in Nat
    /\ Kinds \subseteq {"diagnostic", "repair", "plan", "shell", "rollback", "plain"}
    /\ Kinds # {}
    /\ SignalOutcomes \subseteq BOOLEAN /\ SignalOutcomes # {}
    /\ FifoOutcomes \subseteq BOOLEAN /\ FifoOutcomes # {}

Ids == 1 .. MaxRequests
Stages == 1 .. NumStages

\* The request kinds, by what the code does with them.
\*   diagnostic  diagnose, host-diagnose
\*   repair      a cancellable request with a modal dialog of its own: repair,
\*               fs-repair, copy and their host forms; the last two ask nothing
\*   plan        one repair request of a Full Repair plan (shared dialog)
\*   shell       the chroot or host shell, rendered in the Shell tab
\*   rollback    a snapshot rollback, dispatched in the foreground
\*   plain       the other foreground requests: unlock, config-write, ...
IsDiagnostic(k) == k = "diagnostic"
Mutating(k) == k \in {"repair", "plan", "shell"}
Interactive(k) == Mutating(k) \/ k = "rollback"
Modal(k) == k \in {"repair", "rollback", "plain"}
NeedsDiskLock(k) == ~IsDiagnostic(k)
Cancellable(k) == Mutating(k) \/ IsDiagnostic(k)

\* "about" is history: the stages whose prompt was on screen at an answer.
Texts == {"yes", "no", "none"}
GuiTags == {"BEGIN", "ANSWER", "CANCEL", "QUIT"}
GuiRecords ==
    [tag : GuiTags, id : Ids \cup {0}, text : Texts, about : SUBSET Stages]

HelperTags == {"READY", "PROMPT", "DONE"}
Codes == {"none", "zero", "nonzero"}
HelperRecords ==
    [tag : HelperTags, id : Ids \cup {0}, stage : 0 .. NumStages, rc : Codes]

Begin(i) == [tag |-> "BEGIN", id |-> i, text |-> "none", about |-> {}]
AnswerRecord(i, t, a) == [tag |-> "ANSWER", id |-> i, text |-> t, about |-> a]
Cancel(i) == [tag |-> "CANCEL", id |-> i, text |-> "none", about |-> {}]
Quit == [tag |-> "QUIT", id |-> 0, text |-> "none", about |-> {}]

Ready == [tag |-> "READY", id |-> 0, stage |-> 0, rc |-> "none"]
Prompt(i, s) == [tag |-> "PROMPT", id |-> i, stage |-> s, rc |-> "none"]
Done(i, c) == [tag |-> "DONE", id |-> i, stage |-> 0, rc |-> c]

VARIABLES
    kind,           \* the command each request id carries
    toHelper,       \* the broker's stdin: GUI records not yet read
    toGui,          \* the broker's stdout: helper records not yet read
    eof,            \* the GUI closed its write end
    brokerRunning,  \* the broker process exists
    usr1            \* SESSION_CANCEL_REQUESTED: a SIGUSR1 reached the broker

protocolVars == <<kind, toHelper, toGui, eof, brokerRunning, usr1>>

ProtocolTypeOK ==
    /\ kind \in [Ids -> Kinds \cup {"unset"}]
    /\ toHelper \in Seq(GuiRecords)
    /\ toGui \in Seq(HelperRecords)
    /\ eof \in BOOLEAN
    /\ brokerRunning \in BOOLEAN
    /\ usr1 \in BOOLEAN

ProtocolInit ==
    /\ kind = [i \in Ids |-> "unset"]
    /\ toHelper = <<>>
    /\ toGui = <<>>
    /\ eof = FALSE
    /\ brokerRunning = FALSE
    /\ usr1 = FALSE

\* Records of a pipe with a given tag and id.
InPipe(pipe, tag, i) == \E n \in DOMAIN pipe : pipe[n].tag = tag /\ pipe[n].id = i
Mentions(pipe, tag) == \E n \in DOMAIN pipe : pipe[n].tag = tag
=============================================================================
