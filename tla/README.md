# Formal models of Boot Bitch

Boot Bitch is a Qt application that diagnoses and repairs installations that no longer
boot. It runs unprivileged. Everything that needs root goes through one long-lived helper,
a Bash script started through `pkexec`, that serves requests over its standard input and
output. This directory holds TLA+ models of four parts of it, the TLC configurations that
check them and TLAPS proofs about them:

* the **privileged session**: the GUI's request frames, the root broker and the line
  protocol between them;
* the **snapshot rollback**: the transaction that exchanges the root subvolume of a target
  or of the running host, with its recovery;
* the **EFI boot entries**: reorder, delete, rename and host-default on the firmware's
  variables, with their verification and rollback;
* the **evidence cache**: which diagnostic results the GUI holds for which system, when it
  takes them for stale, and which repairs it offers on them.

Paths below are relative to the repository; line numbers refer to
`src/src/MainWindow.cpp` ("GUI") and `src/scripts/boot-repair-helper.sh` ("helper").

1. [The system](#1-the-system)
2. [What is hard here](#2-what-is-hard-here)
3. [The modules and the code](#3-the-modules-and-the-code)
4. [What is checked](#4-what-is-checked)
5. [What is proved](#5-what-is-proved)
6. [Where the code and its comments disagree](#6-where-the-code-and-its-comments-disagree)
7. [What is left out](#7-what-is-left-out)
8. [The plan](#8-the-plan)

## 1. The system

| Part | Where | State it keeps | Operations | Correct when |
|---|---|---|---|---|
| Request frame | GUI 15137-16052 `runPrivilegedRequest` | gate (`m_privilegedRequestRunning`, the active id), cancel and abort flags, the frame's `requestDone`, `requestExitCode`, `requestTimedOut`, prompt counter | claim the gate, send, read OUT / PROMPT / MENU / DONE, answer, time out, tear down, return | one request at a time; a success is a success; every wait ends |
| Session owner | GUI 13966-14540 (`ensurePrivilegedSession`, `closePrivilegedSession`), `closeEvent` | the `QProcess`, ready and failure flags | ask Polkit, become ready, close (QUIT, wait, terminate, kill), lose | nothing of an old session reaches a new one |
| Cancelling | GUI 14542-14640 | confirmation dialog, `m_privilegedRequestUserCancelled` | SIGUSR1 and CANCEL | the cancel ends its own request, and only that |
| Root broker | helper 48164-48700 `session_server` | pending early cancels, `SESSION_CANCEL_REQUESTED`, marker file, input pump, child | BEGIN, ANSWER, CANCEL, QUIT, dispatch, relay, DONE | serves one request; never outlives its GUI |
| Child of a request | helper, e.g. `helper_menu_prompt` 36739, `confirm_mutating_stage` 36796, `abort_mutating_request` | position in its stages | stage, prompt, read an answer, stop, end | a stage that asks runs only on a yes to its question |
| Disk sessions | helper 411-893, 1095-1221, 4411, 4713, 5096 | per-disk lock, registered children, mounts, mappers | lock, reap, prepare, promote, clean up, sweep | no two writers on a disk; nothing left mounted |
| Evidence cache | GUI 20951-24549, 13131-13704, 30677-30803 | one register per scope (sections, report, capabilities, stale marks, need of regeneration), the scope, latches and timer of the automatic refresh | run one, some or all, commit, cancel, switch scope, repair, run a shell command, invalidate, refresh | no repair is offered on another system's or an outdated result; a wanted refresh comes |
| Full Repair plan | GUI 30352-31330 | plan position, skipped and failed stages | run the plan's requests, abort, resume | the report tells what was really done |
| Deferred work | GUI 16054-16350, 24532 | queue of deferred preloads, refreshes, unlocks | defer, run when the gate is free | runs once, for the current scope |
| Snapshot rollback | helper 34240-34771, 35900-36209; GUI 17305-18250 | the subvolumes' names, the Btrfs default, `.snapshots`, `/home`, the boot stack | plan, create, preserve, promote, switch `/home`, set the default, reconcile, recover | no root and no `/home` is ever lost; what is reported is what was done |
| EFI and host boot entries | helper 39535-42288, 45736-47250; `efi-label.py`; GUI 11148-11600, 22865-22917 | entries, BootOrder, BootNext, BootCurrent, the state the rollback works from | reorder, delete, rename, host-default | a reported change was made, a failed one is undone, every drive stays bootable |
| Progressive assembler | `src/src/ProgressiveDiagnosticAssembler.h` | line buffer, open section | append, complete a section | sections come out whole |
| Stage order and validation | helper 38394-38700 | none | rank, conflict check, preflight | a conflicting plan is refused |
| Scanner, capabilities, widgets, settings, packaging, legacy edition | the other files | - | - | not modelled, see section 7 |

How they interact. A user action calls `runPrivilegedRequest`, which claims the gate, makes
sure there is a session, and writes `BEGIN`, its `ARG` lines and `END` to the broker. It
then waits in a nested Qt event loop, so button presses, timers, the window's close event
and even a second request run *inside* the first call, and calls return in the opposite
order. The broker reads requests one by one. For a cancellable one it makes FIFOs, starts
the child and an *input pump* that now reads the protocol pipe on the child's behalf, and
polls the child; for any other (and if no FIFO can be made) the child runs in the
foreground and reads the protocol pipe itself. A cancel travels three ways at once: a
SIGUSR1, a CANCEL record and, written by the pump, a marker file. The child's exit code
becomes `DONE <id> <rc>`.

## 2. What is hard here

`PROJECT.json` lists every hazard with its line. The ones the models are about:

* nested event loops: what a dialog or a wait meant when it was opened need not be what is
  true when it returns;
* two processes that each have timers: the GUI's watchdog and the helper's answer windows
  know nothing of each other;
* a signal, a record and a file that mean the same cancel and arrive in any order, before
  the request they are for, or after it;
* the same pipe read by three processes in turn, so that a record written too early meets
  the wrong reader;
* exit codes with two meanings (126), and results that arrive during a teardown;
* transactions without a log: a rollback is a series of renames, a host-default a series of
  NVRAM writes, and the code has to know from its local variables alone what to undo, when
  any call may fail, when the helper may be killed between any two, and when `fail` ends a
  Bash process even inside a condition;
* rollbacks of rollbacks: a second one that replaces a first one not yet booted;
* firmware that accepts a write and does not keep it, and lists that were read earlier;
* evidence that belongs to a system: while a diagnostic runs the user switches drive or
  scope, and perhaps back; while it is read a repair changes what it says; while a result
  dialog is open the refresh for that result already runs;
* a refresh that is handed from latch to latch (busy gate, missing authorization, timer).

## 3. The modules and the code

| Module | Models | Lines it grew from |
|---|---|---|
| `SessionProtocol` | the two pipes, their records, the kinds of request | GUI 14000-14060, 15137-15300; helper 48164-48260 |
| `SessionBroker` | request loop, pumps, child, poll loop | helper 36739-36860, 47700-48700 |
| `PrivilegedRequest` | the GUI: gate, frames, dialog, prompts, watchdog, teardown | GUI 13966-16052, 8000-8060 |
| `PrivilegedSession` | both and Polkit; fairness and properties | - |
| `RequestService` | the abstract service callers rely on | - |
| `MCPrivilegedSession` | values for TLC | - |
| `PipeLemmas`, `PrivilegedSessionProofs`, `PrivilegedSessionRefinement`, `EarlyCancelProofs` | the proofs | - |
| `SnapshotRollback` | the transaction of both scopes, its recovery, kills and reboots | helper 34240-34771, 35900-36209 |
| `SnapshotRollbackProofs` | its proofs | - |
| `EfiBootEntries` | the four operations, the firmware's calls and their faults | helper 39535-42288, 45736-47250; `src/scripts/boot-repair-efi-label.py` |
| `MCEfiBootEntries`, `EfiBootEntriesProofs`, `EfiReportProofs` | values for TLC, the proofs | - |
| `EvidenceCache` | both registers, diagnostics, mutations and the refresh | GUI 13131-13704, 20951-24549, 30677-30803 |
| `MCEvidenceCache`, `EvidenceCacheProofs` | values for TLC, the proofs | - |

`PROJECT.json` maps every definition to its lines.

### The privileged session

**State.** `frame[i]` is how far the call of request `i` has come on the GUI's stack
(`claimed`, `authorizing`, `waiting`, `prompting`, `timedOut`, `lost`, `reviewing` for a
result dialog, `ended`). `OnTop(i)` says that no later call is on the stack, which is when a
nested loop may return. `gate` is the active request id. `session` is `m_privilegedSession`
as its owner sees it, `brokerRunning` whether the process exists: the two differ exactly
when they differ in the code. `bpc` and `cur` are the broker's place and its request;
`childIn` is the child's FIFO. `result[i]`, `dispatches`, `misapplied`, `asked` and
`cancelled` are history: nothing in the model reads them to decide what to do (the one
exception, a bound: a diagnostic is cancelled once per request).

**Actions.** One per branch of the code: `ReadPrompt`, `RefreshPrompt`, `ReadLatePrompt`,
`RefusePrompt` and `DropPrompt` are the ways the PROMPT branch (GUI 15431-15560) can go;
`ReadCancel`, `ReadStrayAnswer`, `RefuseBusy`, `ReadBegin`, `ReadQuit`, `ReadEof` those of
the broker's header loop; `MutatingPumpCancel`, `MutatingPumpForward`,
`DiagnosticPumpCancel`, `PumpEnds` those of the pumps.

**Kinds.** Requests differ in what the code does with them, not in their names:
`diagnostic` (cancelled without asking, no disk lock), `repair` (own dialog, may give the
gate back early), `plan` (a repair of the Full Repair plan, shared dialog), `shell` (hands
on its command's status), `rollback` (foreground, always asks), `plain` (other foreground
requests).

**Abstractions**, each chosen so that what the properties tell apart is kept:

* a request is a fixed number of stages (`NumStages`); a stage is one step of the child,
  preceded by a prompt or not;
* BEGIN, ARG and END are one record: they are written in one call and the broker reads on
  until END. OUT, warning and SESSION_ERROR text is left out, malformed records too;
* timers may fire at any time they are armed; their lengths are not modelled;
* every way to answer that does not go ahead is "no";
* one broker at a time: a new session is asked for only after the old broker is gone. Old
  and new brokers side by side belong to the planned `DiskSessions`;
* a PROMPT read while the session is closing is dropped;
* a broker that dies takes its child with it (the child's next write or read would fail);
* the question about `/home` of a rollback is the stage before the last; the last stage is
  the transaction and always asks;
* a grant by Polkit after the session was closed is omitted (`pkexec` is terminated then);
* below a repair that gave the gate back early, a diagnostic or a `plain` request may claim
  it: the deferred unlock, the preload of snapshots and the flush of old logs are of that
  kind, and like every `plain` request they have a dialog of their own in the model (the run
  `gate` has the diagnostic only, the theorems speak of both);
* the `shell` kind stands for both shells. A host shell always ends with the status of its
  command; a chroot shell does so only behind a question that was declined, and else with 1.
  A failed child of the kind may therefore end with 126 or not;
* the pumps' branches for a record of another request are left out, because no such record
  meets a pump: that is the second half of `OneRequestAtATime`, which is proved.

One observation that is not a finding: a PROMPT that is read after a cancel was confirmed
enables the answer line again (GUI 15531), although the comment at 14572 says that a
cancelled request takes no further input. It is harmless, since the CANCEL record precedes
the answer on the same pipe.

### The snapshot rollback

**State.** Subvolumes are named by the rollback that created them, 0 being the installed
root; `root`, `before`, `new` and `failed` say which subvolume has which name on the disk's
top level. `default`, `store` (what `.snapshots` is nested in), `home`, `homeUndo` and
`boot` (the root the boot stack was built for) are the other things a rollback switches.
`running` is the root the host executes, which after a rollback of the host is not `root`
until it reboots. `txn` holds the transaction's locals and, as history, what it found.

**Actions.** One per command that changes the disk or can fail, in the order of the code
(`Begin` to `Reconcile`), and one per step of the recovery (`RecHome` to `RecReconcile`).
Each may succeed or fail; a failure takes the branch the code takes, with the three kinds
of ending kept apart: a recovery that is reported (`restored`, `critical`), one that is
attempted and not reported on (`attempted`), and a `fail` inside a function that was called
as a condition, which ends the helper on the spot (`exited`). `Killed` ends the helper at
any step; `Reboot` runs the root name. A rollback of the host may replace a staged one
(`Chained`), with the renames that exchange three roots between two names.

**Abstractions.** The plan's parsing of fstab, crypttab and the layout is `Refuse`; the
text of prompts is left out; the reconcile of the boot stack is one step that may leave it
half built. A stamp is the number of the rollback: the code's stamps are seconds and it
refuses a name that exists.

### The EFI boot entries

**State.** `entry[i]` is what the number leads to (drive, role, label), `order`, `next` and
`current` are the firmware's variables. `op` holds the locals of the operation and `pre`
what the variables were, which for `host-default` is also what its rollback works from.

**Actions.** One per call of `efibootmgr` or of the label updater. A call goes through, or
is a `Fault`: it fails, is accepted without effect, or a listing comes back empty. Where the
code takes an empty list for an answer, so does the model.
`host-default` is followed through its stages: reconcile, reuse, relabel or create the
entry, restore the order the reconcile changed, annotate (labels, then `FindWfai` and
`CreateWfai` for the recovery loader), promote, prune duplicates, group, annotate again,
verify. Any of them may fail into the rollback: `UndoCheck` lists the active entries,
`UndoOrder` writes the old order, `UndoCreate` deletes what was created unless it was seen
to be active, `UndoNext` writes the old BootNext. The listing of `UndoCheck` is one of the
firmware's calls like any other, and one that fails shows no active entry (`op.blind`). The
request of the other three operations comes from a list that may be old: any number and any
order.

**Whose entry it is.** Deleting and renaming with a repair target selected spare entries of
class "host". The class compares the ESP of an entry with that of the host, which the helper
looks for at `/boot/efi` and takes only if a FAT filesystem is mounted there, and with that
of the target. A request's `scope` is what comes out of this: "host" without a target,
"target" when the host's ESP was found and the target has another, "shared" when they have
the same one (its entries are then of class "repair"), "lost" when it was not found (they
are "foreign"). `InClassHost` is the helper's verdict; `entry[i].drive` is the truth.

**Labels.** The updater puts the old bytes back if a call fails or the label it reads is
another one, and not if the record it reads cannot be parsed: the label is then "torn".

**Abstractions.** A device path is its drive and role. Two drives and four roles are what
the pruning and the promotion tell apart. An entry without a hard-drive node (a network or
CD entry), whose class is "unknown" and which is nobody's drive, is not modelled. The BIOS paths of `host-default` (grubenv,
extlinux), the guarded `grub-install` and the shim rules of the pruning are left out, and
so is the GUI's batch of pending edits, which sends these operations one by one.

### The evidence cache

**State.** `reg.target` and `reg.host` are the two registers: for each section, the report
and the capability preamble a text or none, the stale marks, the need of a regeneration
and, for the target, the identity of the drive. A text carries, for the properties only,
the system it came from and whether that system was changed since; `is` says whether it is
what the gate takes for evidence. `run` is the request that holds the gate with the scope
and drive it was started for, `refresh` the switches and latches of the automatic refresh,
`popup` the result dialog of a repair that gave the gate back early, with its hook, and
`handled` the latch `m_repairSuccessTerminalHandled`.

**Actions.** The user switches scope or drive, runs one section or everything, cancels,
repairs, runs a shell command, clears the log, toggles the refresh. Between the start and
the end of a request the event loop runs whatever is due. A diagnostic's sections are
committed one by one (`Stream`); its end (`AllEnds`, `OneEnds`, `SomeEnds`) takes every
branch of the code for a whole, cut, failed, erroneous or empty capture, a cancel and a
changed scope, in the code's order. A mutation ends unchanged, successful, failed or
cancelled; `WorldChanges` is the helper changing the system at some moment in between.

**Abstractions.** A tool is the sections it needs, the keys it makes stale and whether its
failure is targeted (the rows of `src/data/repair-diagnostic-map.tsv`); a shell class is
the keys it makes stale. Sections' texts are good or bad. A request ends at any moment.
An outdated text that the code does not mean to invalidate, or fails to, becomes `missed`:
a targeted failure, a cancel that reported no change and a mutation that ended after the
user had moved between host and target (see section 6). `OutdatedEvidenceIsGated` is about
the others.

## 4. What is checked

| Run | Shows |
|---|---|
| `all_kinds` | one request of every kind, with and without FIFOs and signals: the types, and `TruthfulSuccess` whatever happens to GUI, broker, session or child |
| `gate` | a repair that gives the gate back early and the diagnostic that starts below its dialog, with signals that may arrive: `OneRequestAtATime`, `GateDiscipline`, `DialogCancelsItsRequest`, `CancelIsolation`, and the refinement `ImplementsService` (2,009,655 states) |
| `liveness` | under fairness, with a user who does nothing: `RequestCompletes`, `DiagnosticReturns`, `BrokerExits`; and `EarlyCancelHonoured` |
| `cancel_ends` | `CancelEnds` under the little fairness a cancel needs, with signals that never arrive and a child that never looks up |
| `rollback` | three rollbacks in a row in both scopes, with failures, kills and reboots: `RestoredIsRestored`, `SuccessIsSwitched`, `NeverRootless`, `RootsKept`, `HomesKept` (1,103,342 states) |
| `efi` | the four operations on three numbers with two faults: `PruningKeepsRoutes`, `ReportIsTrue`, `FailureIsUndone`, `ActiveKept`, `HostKept` (5,537,288 states up to symmetry) |
| `evidence` | two drives and the host: `ForeignEvidenceIsGated`, `OutdatedEvidenceIsGated`, `NoSecondInvalidation`, `InvalidationIsServed` (1,136,685 states) |
| `stale_answer`, `redispatch`, `rollback_exit`, `efi_routes`, `failed_run_all` | the disagreements of section 6 |

**Bounds of the session.** Every run uses two or fewer requests and stages.

* `MaxRequests`: the interesting overlaps are between a request and its successor: the
  gate, the broker and every flag remember at most one predecessor. Two requests give every
  such pair; one is enough where the question is about a single request.
* `NumStages = 2` where a second prompt is the point (`stale_answer`, `all_kinds`); 1
  elsewhere.
* `PromptBudget` is 8 in the code; 1 or 2 here, so that its exhaustion (`RefusePrompt`) is
  reached with few prompts.
* `SignalOutcomes` says whether the GUI's `kill(SIGUSR1)` may reach the root broker (it
  normally fails with EPERM), `FifoOutcomes` whether `mkfifo` may fail.

**Bounds of the rollback.** `MaxRollbacks = 3`: with two, a rollback replaces a staged one;
with three, it replaces a replacement, or follows one that was restored or killed.

**Bounds of the boot entries.** Three numbers: one entry, its duplicate and a free number
to create in, or one entry per drive and a third. Two faults: one in the operation and one
on the way back. The numbers are interchangeable, so the run uses their symmetry; it checks
no liveness.

**Bounds of the evidence cache.** Two drives, so that one can be left for another; two
sections, so that one is fresh and one stale; a scoped tool, whose failure is targeted, and
a broad one. `MaxTurns = 4`: the user starts things or switches at most four times, enough
for "collect, repair, switch, switch back" and for the five steps of `failed_run_all`,
whose last is the helper's. Cancelling, closing a dialog and a refused repair are not
counted, nor is anything the event loop does.

**Deadlock** is not checked where a system may stop for good: the session with the window
closed, or with all requests made and the user idle; the rollback after its last attempt;
the firmware after an operation. The runs of the evidence cache check it.

**Fairness.** `FairSpec` of the session assumes weak fairness of the GUI's own steps (its
event loop and timers run), of the broker's loop, of the pump and of the child's bounded
reactions (its answer window, its trap). Qt's event loop and the Bash loops justify it:
they poll with timeouts and never wait for one another without one, except as listed here.
Nothing is assumed of the user, of Polkit, of a broker that may die at any moment, or of
the child's real work, which may take forever. `CancelSpec` assumes still less: no
watchdog, no answer window, no dispatch bound. The `liveness` run leaves out shells and
rollbacks, whose waits the code does not bound (section 6), and assumes that FIFOs can be
made: a foreground dispatch has neither a pump nor a bound.

The evidence cache assumes that a request ends (it has a watchdog, and `RequestCompletes`
is the same claim one level down) and that the event loop runs posted calls, the hook, the
return of a dialog whose nested request has ended, the refresh timer and the deferred work.
Nothing is assumed of the user, of the session's coming or of its going:
`InvalidationIsServed` allows for a session that is lost. Rollback and boot entries are
about safety only and state no fairness.

Each property is paired in `PROJECT.json` with a mutant, a plausible bug in one mapped
definition, that violates it under the same configuration. The operators marked
`\* mutant` in the modules are those variants; nothing else uses them.

## 5. What is proved

TLC checks small instances; TLAPS proves the following for all of them. The assumptions are
the named `ASSUME`s of the modules, which only say what the constants are.

### The privileged session

For every number of requests, stages and prompts, every set of kinds and, unless the
statement says otherwise, every behaviour of signals and FIFOs (`ProtocolAssumption`):

| Theorem | Statement |
|---|---|
| `TypeCorrect` | `Spec => []TypeOK` |
| `SuccessIsTruthful` | `Spec => []TruthfulSuccess` |
| `CancelIsIsolated` | `Spec => []CancelIsolation` |
| `GateMatchesBroker` | `Spec => []OneRequestAtATime` |
| `GateIsDisciplined` | `Spec => []GateDiscipline` |
| `DialogIsHonest` | `Spec => DialogCancelsItsRequest` |
| `SessionImplementsService` | `Spec => ImplementsService`, the refinement of `RequestService` |
| `EarlyCancelsHold` | `Spec => EarlyCancelHonoured`, for `FifoOutcomes = {TRUE}` |

None of these is inductive: each says something about two processes, and to keep it one has
to know what is on its way between them. The inductive invariant `IInv` of
`PrivilegedSessionProofs` is `TypeOK` and seven parts.

* `PromptInv`: the records on the way to the GUI name stages and carry codes.
* `FrameInv`: ids are given in order; only the holder of the gate may be waiting, every
  other live frame has a success to show; an open cancel dialog was opened for the holder
  or for a frame below it.
* `SessionInv`: while a session is being set up the broker is idle; while it is in use its
  pipe is open; a QUIT implies the end of the pipe.
* `BrokerInv`: the broker dispatches in the way of the request's kind, and everything that
  follows a BEGIN in the pipe, or is in the pipe during a dispatch, is of the same request.
* `ExchangeInv`: frames and broker together. While the session is in use a request is in at
  most one of four places: a BEGIN in the pipe, a dispatch, a DONE on its way back, or a
  frame that has read it. From this follows that the gate is free only if the broker is.
* `ResultInv`: wherever a code 0 is on its way (the child's exit code, a DONE, a frame, an
  outcome), the work was carried out to its end and will not be dispatched again.
* `CancelInv`: in whatever form a cancel travels (record in either pipe, remembered id,
  marker, signal, stopping child), the user cancelled that very request; the one other
  thing that stops a child is the end of the pipe under a mutating request.

One lemma per action shows that it preserves `IInv`; `NextKeeps` puts them together and
`Inductive` concludes. The lemmas never look into the sequences: `PipeLemmas` says once
what taking a record from a pipe (`Taken`), losing records (`Shrunk`) and adding one
(`Grown`) do to the facts the invariant states about pipes.

The refinement needs one more fact, `WorkInv`: work that has not started has no result and
work in progress is not complete, so that the set of finished requests only grows. Each
step of the session then is an `Accept`, `Perform`, `Release` or `Report` of the service,
or leaves it alone (`NextRefines`). It matters that `FrameEnds` may report a failure only
while it holds the gate, and that a frame that gave the gate back early has a success to
report.

`EarlyCancelHonoured` speaks of two moments: a diagnostic that is cancelled while its
authorization is pending never, from then on, runs to its end. `Doomed(i)` of
`EarlyCancelProofs` is what holds at every moment after the cancel: every BEGIN of the
request has a CANCEL of it ahead in the pipe (`CancelFirst`), or the broker remembers the
cancel, or its child was born cancelled and is over. `EarlyInv`, an invariant, says that
such a cancel makes `Doomed(i)` true; `DoomedStays` says that no step makes it false. The
cancel and the BEGIN may be far apart (the one is written while Polkit still asks, the
other when SESSION_READY is read), so the proof rests on `IInv` for what cannot come
between them: another request's BEGIN, a second BEGIN of the same id, a dispatch that reads
the pipe, a confirmed dialog of an older request. The theorem assumes that FIFOs can be
created (`FifoOutcomes = {TRUE}`): the foreground dispatch, which the broker falls back to
without one, does not look at the remembered cancel, and there the property fails.

Checked by TLC only: the liveness properties, which the prover cannot treat.

### The snapshot rollback

For any number of rollbacks and either scope (`RollbackAssumption`), in
`SnapshotRollbackProofs`:

| Theorem | Statement |
|---|---|
| `RollbackInvariant` | `Spec => []IInv` |
| `RollbackTypes` | `Spec => []TypeOK` |
| `RestoredHolds` | `Spec => []RestoredIsRestored` |
| `SuccessHolds` | `Spec => []SuccessIsSwitched` |
| `RootlessHolds` | `Spec => []NeverRootless` |
| `RootsAreKept` | `Spec => RootsKept` |
| `HomesAreKept` | `Spec => HomesKept` |

The properties of an end of a transaction need to know, at every step in the middle, what
has been done. `IInv` says it part by part: `IFresh` (no name with a later stamp exists,
so a rename never meets one), `IName` (step by step: where the old root, the candidate and,
in a chain, the running root are), `IStore`, `IDefault`, `IHome` (where the store, the
default and the two `/home` subvolumes are) and `IDone` (the three properties of the end).
The renaming steps are where it matters: that `RecAside` succeeds before `RecName` is what
keeps `RootsKept`, and that a `/home` is deleted only after it was created by this rollback
is `HomesKept`. All of the run's properties are proved.

### The EFI boot entries

For any finite set of numbers, any set of operations and any number of faults
(`EfiAssumption`), in `EfiBootEntriesProofs`:

| Theorem | Statement |
|---|---|
| `EfiInvariant` | `Spec => []IInv` |
| `RoutesHold` | `Spec => []PruningKeepsRoutes` |
| `ActiveHolds` | `Spec => ActiveKept` |
| `HostHolds` | `Spec => HostKept` |

`IInv` has the types (`IType`), which operation may be at which step (`IKind`), what an
operation may still write to (`IOwned`: its own entry, checked against the active and the
next one before the first write, and against the host's where the helper knows it), that
whatever is still to be pruned has an entry that
stays on the same drive (`IDoomed`), and the routes themselves (`IRoutes`).

Both `ActiveKept` and `HostKept` say no more than the helper can keep. A rollback that could
not list the active entries may delete one (`op.blind`), and the host's entries are spared
when its ESP was found and is not the target's; section 6 says what happens otherwise.

`EfiReportProofs` adds what an operation reports:

| Theorem | Statement |
|---|---|
| `ReportInvariant` | `Spec => []RInv` |
| `EfiTypes` | `Spec => []TypeOK` |
| `ReportHolds` | `Spec => []ReportIsTrue` |
| `FailureHolds` | `Spec => []FailureIsUndone` |

A report is given at the end of a sequence of calls, so `RInv` has to say at each step what
the calls so far have done. Its parts, beside `IInv`:

* `IOrder`: the order is one, and what was recorded at the start cannot change.
* `IUser`: for a reorder and a rename, what the firmware holds at each step, and that a
  write is only put back after a call has gone wrong. This is why one fault is undone: the
  write that puts it back would have to be a second one. The exception in the property is
  the label that the updater leaves torn.
* `IListed`, `IOther`: at each forward step of `host-default` BootOrder names everything it
  named that exists, and the other drive's entries are as they were or pruned. There is one
  exception: a deletion that the firmware accepted and did not keep has already been struck
  from the order, and `ConfirmPrune` fails on it.
* `IWfai`: a recovery loader that is on the ESP has an entry from the end of the first pass
  on, so that the second pass creates none if it can list it. A listing that fails makes it
  create a second one, perhaps on the number of an entry pruned from the other drive, which
  the final check, asking only whether the number exists, would take for the old one. It
  does not come to that: `ConfirmWfai` fails on two entries (`Doubled`, in `IOther`).
* `INew`: what exists now and did not before is a recovery entry or the one that the state
  file says was created; that is why undoing this one is enough.
* `IChecked`, `IUndone`: what the final check has seen, and what the steps of the rollback
  have done so far.

The lemmas on orders (`OrderIs`, `RankCounts`, `KeepIs`, `KeepAll`, `FrontOrder`,
`BackOrder`) say what taking elements out of a list without repetition leaves. `Keep` is
the library's `SelectSeq`, written by position instead of by recursion so that this can be
proved without an induction; `KeepIsSelectSeq` makes TLC compare the two on all orders of
the run. There is one lemma for each call, and then one for each step. All of the run's
properties are proved.

### The evidence cache

For any drives, sections, tools, maps of needs and changes, shell classes and any number of
turns (`EvidenceAssumption`), in `EvidenceCacheProofs`:

| Theorem | Statement |
|---|---|
| `EvidenceInvariant` | `Spec => []IInv` |
| `EvidenceTypes` | `Spec => []TypeOK` |
| `ForeignIsGated` | `Spec => []ForeignEvidenceIsGated` |
| `OutdatedIsGated` | `Spec => []OutdatedEvidenceIsGated` |
| `InvalidatedOnce` | `Spec => NoSecondInvalidation` |

`IOwn` says whose texts a register holds: the host's are the host's, the target's are the
committed drive's or the register asks for a regeneration. `IRun` carries this through a
running diagnostic: it is still for the committed drive, or the drive's change has already
raised that flag, so a late commit cannot be taken for evidence. `IDated` says who owes
the invalidation of each outdated text: the mutation that still holds the gate, or the
hook that is due; `IPlace` that the debtor will look at the right register (a modal repair
pins the scope), and `IHandled` that once the hook has run the latch is set, however many
requests start and end before the dialog returns. The lemmas of the first part say what
clearing, marking and committing do to a register, whoever calls them.

Checked by TLC only: `InvalidationIsServed`, a liveness property.

## 6. Where the code and its comments disagree

### Found by a run

Each is a run of its own, quoted in `PROJECT.json` with its line.

* `stale_answer`: an ANSWER names its request but not its prompt. One that is sent after
  the helper's answer window expired is read by the next prompt, and a stage runs on a yes
  given to another question.
* `redispatch`: 126 means "no FIFO" to the broker, but also is what a shell returns for a
  command that cannot be executed. The host shell always hands that status on, the chroot
  shell only behind a question that was declined; a request that ends with it runs twice.
* `rollback_exit`: `fail` exits the process. The mount of the promoted root and the restore
  of the `/boot` capture are called as conditions whose other branch is the recovery, but
  report their own errors with `fail`: the helper ends with the candidate promoted and the
  recovery behind the condition never runs.
* `efi_routes`: a host drive that only has a record of the firmware's own gets a managed
  entry, then loses the record as redundant; if a later call fails, the rollback deletes
  the managed entry and nothing recreates the record.
* `failed_run_all`: a manual Run All clears the target's register without asking for a
  regeneration. If it fails behind its capability preamble after an earlier success, its
  error stands under every section, nothing is marked stale, and repairs are offered.

### Met while modelling, and not a run

The privileged session:

* The watchdog is stopped while a prompt is on screen (GUI 15522), and nobody tells the GUI
  that the helper gave the prompt up. A rollback that hangs afterwards is waited for
  without end, where GUI 15238 promises a bounded safety net.
* The cancel dialog is a nested loop. If DONE with a failure arrives while it is open,
  confirming it (GUI 14570) relabels the failure as stopped by the user, although GUI 15910
  says that such a request keeps its real result.
* Closing the window sends QUIT, which makes the mutating pump stop a running shell
  command; GUI 8036 says that mutating work is never silently aborted.
* A DONE 0 read while a timed-out session is torn down makes the request successful, with
  the text of an aborted one.

The rollback:

* Where the recovery is called as `... || true` before "restoration was attempted", and
  where nothing could be put back, no recovery line is printed, and the GUI (18090) then
  says that the preserved root was restored automatically.
* When a staged root cannot be moved aside and the running root's name cannot be put back
  either (36083-36085), the message still says it was.
* A `/home` swap that cannot be undone is only logged: the outcome is "restored", although
  the comment at 34648 says that a half-swapped `/home` is never left. This is why
  `RestoredIsRestored` has its last disjunct.

The boot entries:

* The host's entries are read from a pipeline whose failure is an empty list (45758), so one
  is created although there is one. If the firmware accepts the creation and does not keep
  it, the old entry is the only one listed, is recorded as created (45830), and is deleted by
  the rollback of a later failure, which "never removes an entry that existed before the
  run" (45892). The model has this behaviour; hence the premise of `FailureIsUndone` that
  the entries that were there are there.
* The rollback asks for the active entries with a listing whose failure means that there is
  none (45903). A created entry whose number an old BootNext names is then deleted, against
  45891. The model has this too; it is the last exception of `ActiveKept`.
* With a target selected and the host's ESP not mounted as FAT at `/boot/efi` (40458), the
  host's entries are "foreign" and can be deleted and renamed, against 47123 (the scope
  "lost", of which `HostKept` does not speak).
* A deletion whose second listing cannot be read is reported as done, and so is one whose
  last listing cannot be read when the order it wrote was empty (`op.blind`).
* When host and target share an ESP, its entries are of class "repair" and can be deleted
  with the target selected, whether the host boots from them or not; only the active and the
  next one are spared.
* A label whose record cannot be parsed when it is read back is left as it is.
* A deletion that the firmware did not keep is answered by recreating the entry, which is
  then there twice.
* A creation whose listing fails ends before the state file is written: the rollback does
  not know of it.
* The rollback neither recreates pruned entries nor undoes relabels; its order may name an
  entry that is gone and be refused; an empty BootOrder cannot be put back. Hence the
  premises of `FailureIsUndone`.
* A record of the firmware's own that is pruned from another drive always fails the final
  check of preserved ids.
* The restore of a failed reorder is not verified.

The evidence cache:

* A mutation that ends after the user has moved between host and target invalidates the
  register of the live scope, not of the system it changed (GUI 19430, 31290).
* A scope that is changed and changed back during an individual or a section run is not
  noticed at its end: sections cut by the cancel are cached, although the comment at 14447
  says they are discarded.
* An individual full report of the host that fails caches its part of a bundle without
  stale marks.
* While a combined run is in flight after a change of drive its sections may enter the new
  drive's register; they are kept from the gate by the need of a regeneration alone.
* Invalidating `capabilities` has no effect on the gate as long as the report has a
  preamble to fall back on.
* A queued Run All is lost when the run before it returns early because of a scope change;
  one that is clicked during an individual diagnostic or a shell command is refused and
  shows its refusal as a failed run, where the comment at 23877 says it is queued.
* After a failed Run All of the host its `report` stays marked stale for good, so the
  automatic refresh never finds everything fresh.
* `src/src/MainWindow.h:2220` says that the latch of the handled terminal is reset when the
  next request starts; the code (15065) resets it for requests with a terminal hook only,
  which is what `NoSecondInvalidation` needs.

## 7. What is left out

Not modelled, and not planned: the scanner and capability checker (parsing, no state),
widgets, settings, themes, translations and log views (presentation), the distribution
tools run by a stage, build and packaging scripts, and the legacy Qt3 edition.

Of the session: the re-exec of the broker between requests, malformed records, descendants
of the child that keep its FIFOs open, and the moment between a pump's read and its
forward. Of the boot entries: see their abstractions above. Of the evidence cache: the
single invalidation at the end of a Full Repair plan, File Copy, package installation and
the Boot entries Save, which use the same functions with other keys; the preload of
snapshots and boot entries behind a run; and a file system inspection, which has no
capability preamble and is no section of a report.

## 8. The plan

In this order; each module is written to be proved about (no RECURSIVE operators,
invariants as conjunctions of named parts) and gets its own MC module.

1. `Authorization`: `ensurePrivilegedSession`'s loop, its safety timer, the stale failure
   flag, two session processes at once (GUI 13846-14195). Property: a finished handler
   never decides for another session. Composed with the request frame.
2. `DiskSessions` and `TargetMounts`: per-disk locks across brokers, the orphan registry,
   `prepare_target`, `promote_target_rw`, cleanup and the sweep after a crash. Abstract
   specification: at most one writer per disk. Theorem: mutual exclusion.
3. `RepairPlan`: the plan loop over `RequestService`, which stands for the session, with
   its accumulated invalidation handed to `EvidenceCache`.
4. `DeferredWork`: deferral while the gate is held, also over `RequestService`.
5. `Assembler`, `RepairStages`: pure algorithms against reference definitions, as
   recursive functions or folds.
6. The broker's re-exec and the split of the pump's read and forward, in `SessionBroker`;
   the GUI's batch of pending boot-entry edits, over `EfiBootEntries`.
