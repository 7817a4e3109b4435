--------------------------- MODULE EvidenceCache ----------------------------
(***************************************************************************)
(* The GUI's cache of diagnostic evidence: one register for the committed  *)
(* repair drive and one for the running host, the flags that say which     *)
(* sections are stale, the automatic refresh, and the repairs and shell    *)
(* commands that make evidence obsolete.  A repair is offered on what the  *)
(* register of the live scope holds.                                       *)
(*                                                                         *)
(* A request is one frame on the GUI's stack: it starts, its end is        *)
(* handled when the helper has answered, and in between the event loop     *)
(* runs whatever else is due.  A text in a register carries, for the       *)
(* properties, whose system it came from, what it is, and whether the      *)
(* system has changed since.                                               *)
(***************************************************************************)
EXTENDS Naturals, FiniteSets

CONSTANTS
    Drives,        \* the drives that can be committed as repair target
    None,          \* no drive, no text
    Sections,      \* the runnable diagnostic sections
    Tools,         \* the repair tools
    Needs,         \* the sections that each tool consumes
    Invalidates,   \* the keys that each tool's change makes stale
    Targeted,      \* the tools whose failure invalidates only their needs
    ShellClasses,  \* the keys that the classes of shell commands make stale
    MaxTurns       \* bound: how many times the user may act

Keys == Sections \cup {"report", "capabilities"}

\* A section is "good" when it is genuine and whole; the report is "good" when
\* it begins with the capability preamble.
Texts == [from : Drives \cup {"host"}, is : {"good", "bad"}, age : {"current", "outdated", "missed"}]

ASSUME EvidenceAssumption ==
    /\ None \notin Drives \cup Texts /\ "host" \notin Drives \cup {None}
    /\ Sections \cap {"report", "capabilities"} = {}
    /\ Needs \in [Tools -> SUBSET Sections] /\ \A t \in Tools : Needs[t] # {}
    /\ Invalidates \in [Tools -> SUBSET Keys]
    /\ Targeted \subseteq Tools
    /\ ShellClasses \subseteq SUBSET Keys
    /\ MaxTurns \in Nat

VARIABLES
    scope,          \* m_hostMaintenanceMode and the committed drive
    reg,            \* the two registers
    refresh,        \* the automatic refresh: its switches, latches and timer
    run,            \* the request that holds the gate
    popup,          \* the result dialog of a repair that gave the gate back
    handled,        \* m_repairSuccessTerminalHandled
    inFlight,       \* m_inFlightDiagnosticKey
    userCancelled,  \* m_diagnosticsUserCancelled
    queued,         \* m_runAllDiagnosticsQueued, or the call it posted
    turns           \* how many times the user has acted

vars == <<scope, reg, refresh, run, popup, handled, inFlight, userCancelled, queued, turns>>

Text(from, is) == [from |-> from, is |-> is, age |-> "current"]

NoRun == [kind |-> "none", host |-> FALSE, drive |-> None, keys |-> {}, onFailure |-> {},
          auto |-> FALSE, done |-> {}, kept |-> {}, stopping |-> FALSE,
          changed |-> FALSE]
Diagnostics == {"all", "one", "some"}
Mutators    == {"repair", "shell"}
NoPopup     == [shown |-> "none", hook |-> "none", keys |-> {}]

-----------------------------------------------------------------------------
(* The scope and the registers.  The drive is m_previewTargetPath, or      *)
(* m_rememberedTargetPath, where it is parked during Host Maintenance.     *)

Register(host) == IF host THEN "host" ELSE "target"
Live(sc)       == Register(sc.host)
Ready(sc)      == sc.host \/ sc.drive # None
Subject(r)     == IF r.host THEN "host" ELSE r.drive
CurrentIdentity(sc) == sc.drive

NoBody == [k \in Keys |-> None]

ClearTarget(rg, sc) ==
    [rg EXCEPT !.target.body = NoBody, !.target.stale = {}, !.target.identity = CurrentIdentity(sc)]
ClearHost(rg) == [rg EXCEPT !.host.body = NoBody, !.host.stale = {}]
\* mutant: no regeneration is asked for.
InvalidateByClearing(rg, sc) == ClearTarget(rg, sc)

InvalidateTarget(rg, sc) == [ClearTarget(rg, sc) EXCEPT !.target.need = TRUE]
InvalidateActive(rg, sc) == IF sc.host THEN ClearHost(rg) ELSE InvalidateTarget(rg, sc)

MarkStale(rg, R, S) ==
    [rg EXCEPT ![R].body  = [k \in Keys |-> IF k \in S \ {"report"} THEN None ELSE @[k]],
               ![R].stale = @ \cup (S \cap Sections)]

\* mutant: the complete set always means the target's register.
InvalidateTargets(rg, sc, S) ==
    IF "report" \in S THEN InvalidateTarget(rg, sc) ELSE MarkStale(rg, Live(sc), S)

\* A mapping to the complete set is one that contains the report.
Invalidate(rg, sc, S) ==
    IF "report" \in S THEN InvalidateActive(rg, sc) ELSE MarkStale(rg, Live(sc), S)

Revert(rg, R, S) == [rg EXCEPT ![R].body = [k \in Keys |-> IF k \in S THEN None ELSE @[k]]]

-----------------------------------------------------------------------------
(* What the repair gate reads.                                             *)

HasPreamble(t) == t # None /\ t.is = "good"
CapabilityEvidence(body) ==
    IF body["capabilities"] # None THEN body["capabilities"] ELSE body["report"]

MissingSections(tool) ==
    LET r == reg[Live(scope)]
    IN  {s \in Needs[tool] : r.body[s] = None \/ r.need \/ s \in r.stale}

RepairOffered(tool) ==
    /\ inFlight = None
    /\ Ready(scope)
    /\ scope.host \/ reg.target.identity = CurrentIdentity(scope)
    /\ HasPreamble(CapabilityEvidence(reg[Live(scope)].body))
    /\ MissingSections(tool) = {}

EvidenceStale(sc, rg) ==
    LET r == rg[Live(sc)]
    IN  \/ r.need \/ r.stale # {}
        \/ ~sc.host /\ r.identity # CurrentIdentity(sc)
        \/ r.body["report"] = None

-----------------------------------------------------------------------------
(* scheduleEvidenceRefresh.                                                *)

Schedule(rf, force, sc, rg, busy) ==
    LET f == rf.force \/ force
    IN  CASE ~rf.auto -> rf
          [] rf.auto /\ busy ->
               [rf EXCEPT !.force = f, !.deferred = @ \/ Ready(sc)]
          [] rf.auto /\ ~busy /\ ~(Ready(sc) /\ (f \/ EvidenceStale(sc, rg))) ->
               [rf EXCEPT !.force = f]
          [] rf.auto /\ ~busy /\ Ready(sc) /\ (f \/ EvidenceStale(sc, rg)) ->
               [rf EXCEPT !.force = f,
                          !.awaiting = ~rf.session, !.due = @ \/ rf.session]

GateHeld == run # NoRun
\* m_diagnosticsRunInProgress; m_evidenceRefreshInProgress is run.auto.
RunInProgress == run.kind \in {"all", "some"}
\* A modal dialog is open, or its caller has not returned yet.
Blocked ==
    \/ popup.shown = "open" \/ popup.hook = "pending"
    \/ popup.shown = "closing" /\ ~GateHeld
    \/ run.kind = "repair"

Init ==
    /\ scope = [host |-> FALSE, drive |-> None]
    /\ reg = [target |-> [identity |-> None, need |-> FALSE, stale |-> {}, body |-> NoBody],
              host |-> [identity |-> "host", need |-> FALSE, stale |-> {}, body |-> NoBody]]
    /\ refresh \in [auto : BOOLEAN, session : {FALSE}, force : {FALSE}, deferred : {FALSE},
                    awaiting : {FALSE}, due : {FALSE}]
    /\ run = NoRun /\ popup = NoPopup /\ handled = FALSE
    /\ inFlight = None /\ userCancelled = FALSE /\ queued = "no" /\ turns = 0

-----------------------------------------------------------------------------
(* The user moves between scopes.  A diagnostic on the way is told to stop *)
(* and its result is expected to be discarded at its end.                  *)

CancelInFlight ==
    run' = IF run.kind \in Diagnostics THEN [run EXCEPT !.stopping = TRUE] ELSE run

Turn == turns < MaxTurns /\ turns' = turns + 1

ScopeChange ==
    /\ ~Blocked /\ CancelInFlight /\ Turn
    /\ UNCHANGED <<popup, handled, inFlight, userCancelled, queued>>

EnterHost ==
    /\ ~scope.host /\ ScopeChange
    /\ scope' = [scope EXCEPT !.host = TRUE]
    /\ reg' = reg
    /\ refresh' = Schedule(refresh, TRUE, scope', reg, GateHeld)

ExitHost ==
    /\ scope.host /\ ScopeChange
    /\ scope' = [scope EXCEPT !.host = FALSE]
    /\ reg' = reg
    /\ refresh' = Schedule(refresh, TRUE, scope', reg, GateHeld)

SelectDrive(d) ==
    /\ scope.host \/ d # scope.drive
    /\ ScopeChange
    /\ scope' = [host |-> FALSE, drive |-> d]
    /\ reg' = InvalidateTarget(reg, scope')
    /\ LET left == IF scope.host
                   THEN Schedule(refresh, TRUE, [scope EXCEPT !.host = FALSE], reg, GateHeld)
                   ELSE refresh
       IN  refresh' = Schedule(left, TRUE, scope', reg', GateHeld)

-----------------------------------------------------------------------------
(* Diagnostics start.                                                      *)

Begin(kind, keys, auto) ==
    /\ run' = [NoRun EXCEPT !.kind = kind, !.host = scope.host, !.drive = scope.drive,
                            !.keys = keys, !.auto = auto]
    /\ userCancelled' = FALSE

BeginAll(auto) ==
    /\ Begin("all", Sections, auto)
    /\ reg' = IF scope.host THEN ClearHost(reg) ELSE ClearTarget(reg, scope)
    /\ inFlight' = "report"

RunOne(k) ==
    /\ Turn /\ ~Blocked /\ ~GateHeld /\ Ready(scope)
    /\ k \in Sections \cup {"report"}
    /\ Begin("one", {k}, FALSE)
    /\ reg' = Invalidate(reg, scope, {k})
    /\ inFlight' = k
    /\ UNCHANGED <<scope, refresh, popup, handled, queued>>

\* The text of a failed Run All is shown under the report and every section.
ShowFailure(rg, R, text) ==
    LET shown == [rg EXCEPT ![R].body =
                    [k \in Keys |-> CASE k = "capabilities" -> @[k] [] k = "report" -> text
                                      [] OTHER -> [text EXCEPT !.is = "bad"]]]
    IN  IF R = "host" THEN [shown EXCEPT !.host.stale = Sections \cup {"report"}] ELSE shown

\* Run All: queued behind another run, but not behind an individual
\* diagnostic or a shell command, whose gate refuses its request.
RunAllDiagnostics ==
    /\ \/ /\ RunInProgress
          /\ queued' = IF ~run.auto THEN "yes" ELSE IF queued = "posted" THEN "no" ELSE queued
          /\ UNCHANGED <<reg, run, inFlight, userCancelled>>
       \/ /\ ~RunInProgress /\ ~Ready(scope)
          /\ queued' = "no"
          /\ UNCHANGED <<reg, run, inFlight, userCancelled>>
       \/ /\ ~RunInProgress /\ Ready(scope) /\ ~GateHeld
          /\ BeginAll(FALSE) /\ queued' = "no"
       \/ /\ ~RunInProgress /\ Ready(scope) /\ GateHeld
          /\ LET cleared == IF scope.host THEN ClearHost(reg) ELSE ClearTarget(reg, scope)
             IN  reg' = ShowFailure(cleared, Live(scope), Text(Subject(scope), "bad"))
          /\ userCancelled' = FALSE /\ inFlight' = None /\ queued' = "no" /\ run' = run
    /\ UNCHANGED <<scope, refresh, popup, handled>>

ClickRunAll == Turn /\ ~Blocked /\ queued # "posted" /\ RunAllDiagnostics
PostedRunAll ==
    /\ queued = "posted" /\ (GateHeld \/ popup.shown # "closing")
    /\ RunAllDiagnostics /\ UNCHANGED turns

\* cancelRunningPrivilegedOperation.  A diagnostic may be cancelled again, also
\* when a scope change has told it to stop: the key in flight is then made
\* stale in the scope that is live now.
UserCancel ==
    /\ GateHeld /\ (run.stopping => run.kind \in Diagnostics)
    /\ run.kind = "repair" \/ ~Blocked
    /\ run' = [run EXCEPT !.stopping = TRUE]
    /\ IF run.kind \in Diagnostics
       THEN /\ userCancelled' = TRUE
            /\ reg' = IF inFlight = None THEN reg ELSE Invalidate(reg, scope, {inFlight})
       ELSE UNCHANGED <<userCancelled, reg>>
    /\ UNCHANGED <<scope, refresh, popup, handled, inFlight, queued, turns>>

-----------------------------------------------------------------------------
(* Diagnostics run and end.                                                *)

\* A section of a combined run is complete and is shown at once.
Stream(s) ==
    /\ RunInProgress /\ s \in run.keys \ run.done /\ Cardinality(run.keys) > 1
    /\ IF scope.host = run.host /\ reg.target.identity = CurrentIdentity(scope)
       THEN /\ run' = [run EXCEPT !.done = @ \cup {s}, !.kept = @ \cup {s}]
            /\ reg' = [reg EXCEPT ![Register(run.host)].body[s] = Text(Subject(run), "good")]
       ELSE run' = [run EXCEPT !.done = @ \cup {s}] /\ reg' = reg
    /\ UNCHANGED <<scope, refresh, popup, handled, inFlight, userCancelled, queued, turns>>

\* How a diagnostic's request may end: with its whole output, with what it
\* had when it was told to stop, with an error behind or without its
\* preamble, or with nothing.
Outcomes == {"whole", "cut"} \cup {"failed", "error", "empty"}
Possible(outcome) ==
    /\ outcome \in {"whole", "cut"} => refresh.session
    /\ outcome = "cut" => run.stopping
    /\ outcome = "whole" => Cardinality(run.keys) = 1 \/ run.done = run.keys

\* The sections that an output contains.
Slices(keys, outcome) ==
    CASE outcome = "whole" -> {[k \in keys |-> "good"]}
      [] outcome \in {"cut", "failed"} ->
           {f \in [keys -> {"good", "bad", "none"}] :
              /\ Cardinality({k \in keys : f[k] = "bad"}) <= 1
              /\ run.done \subseteq {k \in keys : f[k] = "good"}}
      [] OTHER -> {[k \in keys |-> "none"]}

Quality(outcome) == IF outcome = "error" THEN "bad" ELSE "good"

\* cacheTargetDiagnosticBundle and cacheHostDiagnosticBundle
Bundle(rg, R, outcome, f) ==
    LET cleared == IF R = "host" THEN ClearHost(rg) ELSE ClearTarget(rg, scope)
        text(is) == Text(Subject(run), is)
    IN  [cleared EXCEPT ![R].body =
           [k \in Keys |->
              CASE k \in Sections -> IF f[k] = "none" THEN None ELSE text(f[k])
                [] k = "report" -> IF outcome = "empty" THEN None ELSE text(Quality(outcome))
                [] k = "capabilities" ->
                     IF outcome \in {"error", "empty"} THEN None ELSE text("good")]]

\* Sections that a scoped run brought are cached and no longer stale.
CacheSections(rg, R, f) ==
    LET fresh == {k \in DOMAIN f : f[k] # "none"}
    IN  [rg EXCEPT ![R].body = [k \in Keys |->
                        CASE k \in fresh -> Text(Subject(run), f[k])
                          [] k = "capabilities" -> Text(Subject(run), "good")
                          [] OTHER -> @[k]],
                   ![R].stale = @ \ fresh]

ScopeChanged == scope.host # run.host \/ CurrentIdentity(scope) # run.drive

\* runTargetDiagnosticHelper reports a failure when the drive changed.
Succeeded(outcome) ==
    outcome \in {"whole", "cut"} /\ (run.host \/ CurrentIdentity(scope) = run.drive)

\* mutant: the early return of a changed scope leaves the key in flight.
RunEndsInFlight(rg, cancelSeen, posts) ==
    /\ reg' = IF ScopeChanged
              THEN InvalidateActive(Revert(rg, Register(run.host), run.kept), scope) ELSE rg
    /\ refresh' = [refresh EXCEPT !.deferred = @ \/ ScopeChanged,
                                  !.force = @ /\ ~run.auto]
    /\ run' = NoRun /\ inFlight' = IF ScopeChanged THEN inFlight ELSE None
    /\ userCancelled' = (userCancelled /\ ~cancelSeen)
    /\ queued' = IF queued = "yes" /\ posts /\ ~ScopeChanged THEN "posted" ELSE queued
    /\ UNCHANGED <<scope, popup, handled, turns>>

\* The end of a diagnostic's frame.
RunEnds(rg, cancelSeen, posts) ==
    /\ reg' = IF ScopeChanged
              THEN InvalidateActive(Revert(rg, Register(run.host), run.kept), scope) ELSE rg
    /\ refresh' = [refresh EXCEPT !.deferred = @ \/ ScopeChanged,
                                  !.force = @ /\ ~run.auto]
    /\ run' = NoRun /\ inFlight' = None
    /\ userCancelled' = (userCancelled /\ ~cancelSeen)
    /\ queued' = IF queued = "yes" /\ posts /\ ~ScopeChanged THEN "posted" ELSE queued
    /\ UNCHANGED <<scope, popup, handled, turns>>

AllEnds ==
    /\ run.kind = "all"
    /\ \E outcome \in Outcomes :
       /\ Possible(outcome)
       /\ \E f \in Slices(Sections, outcome) :
          LET R == Register(run.host)
              cancelled == outcome = "cut" \/ userCancelled
              bundle == Bundle(reg, R, outcome, f)
              ended == IF cancelled
                       THEN IF run.host THEN ClearHost(reg) ELSE InvalidateTarget(reg, scope)
                       ELSE IF Succeeded(outcome)
                       THEN IF run.host THEN bundle ELSE [bundle EXCEPT !.target.need = FALSE]
                       ELSE IF outcome = "empty" THEN Revert(reg, R, run.kept)
                       ELSE ShowFailure(Revert(reg, R, run.kept), R,
                              Text(Subject(run), IF outcome = "error" THEN "bad" ELSE "good"))
          IN  RunEnds(ended, cancelled, TRUE)

OneEnds ==
    /\ run.kind = "one"
    /\ \E outcome \in Outcomes, k \in run.keys :
       /\ Possible(outcome)
       /\ \E f \in Slices(IF k = "report" THEN Sections ELSE {k}, outcome) :
          LET R == Register(run.host)
              bundle == Bundle(reg, R, outcome, f)
              ended == IF ScopeChanged THEN reg
                       ELSE IF userCancelled THEN Invalidate(reg, scope, {k})
                       ELSE IF k = "report"
                       THEN IF ~run.host /\ Succeeded(outcome)
                            THEN [bundle EXCEPT !.target.need = FALSE] ELSE bundle
                       ELSE IF Succeeded(outcome) /\ f[k] # "none" THEN CacheSections(reg, R, f)
                       ELSE IF outcome \in {"failed", "error"}
                       THEN [reg EXCEPT ![R].body[k] = Text(Subject(run), "bad")]
                       ELSE reg
          IN  RunEnds(ended, ~ScopeChanged, ~userCancelled)

SomeEnds ==
    /\ run.kind = "some"
    /\ \E outcome \in Outcomes :
       /\ Possible(outcome)
       /\ \E f \in Slices(run.keys, outcome) :
          LET R == Register(run.host)
              ended == IF ScopeChanged THEN reg
                       ELSE IF userCancelled THEN InvalidateActive(reg, scope)
                       ELSE IF Succeeded(outcome) THEN CacheSections(reg, R, f)
                       ELSE Revert(reg, R, run.kept)
          IN  RunEnds(ended, ~ScopeChanged, TRUE)

-----------------------------------------------------------------------------
(* Repairs and shell commands.                                             *)

BeginMutation(kind, keys, onFailure) ==
    /\ Turn
    /\ run' = [NoRun EXCEPT !.kind = kind, !.host = scope.host, !.drive = scope.drive,
                            !.keys = keys, !.onFailure = onFailure]

\* What a failure makes stale: everything, except for a targeted tool.
FailureKeys(tool) == IF tool \in Targeted THEN Needs[tool] ELSE Keys

\* m_repairSuccessTerminalHandled is reset by a request that can set it.
StartRepair(tool) ==
    /\ ~Blocked /\ ~GateHeld /\ RepairOffered(tool) /\ refresh.session
    /\ BeginMutation("repair", Invalidates[tool], FailureKeys(tool))
    /\ handled' = FALSE
    /\ UNCHANGED <<scope, reg, refresh, popup, inFlight, userCancelled, queued>>

StartShell(class) ==
    /\ ~Blocked /\ ~GateHeld /\ Ready(scope) /\ refresh.session
    /\ BeginMutation("shell", class, class)
    /\ UNCHANGED <<scope, reg, refresh, popup, handled, inFlight, userCancelled, queued>>

\* A repair that is offered while a request holds the gate is refused, and
\* the refusal is handled as a failed repair.
RefusedRepair(tool) ==
    /\ ~Blocked /\ GateHeld /\ RepairOffered(tool)
    /\ reg' = Invalidate(reg, scope, FailureKeys(tool))
    /\ refresh' = Schedule(refresh, FALSE, scope, reg', TRUE)
    /\ UNCHANGED <<scope, run, popup, handled, inFlight, userCancelled, queued, turns>>

Aged(rg, R, S, was, now) ==
    [rg EXCEPT ![R].body = [k \in Keys |->
        IF k \in S \cap Sections /\ @[k] # None /\ @[k].is = "good" /\ @[k].age = was
        THEN [@[k] EXCEPT !.age = now] ELSE @[k]]]

\* What the request does to the system that it works on.
WorldChanges ==
    /\ run.kind \in Mutators /\ ~run.changed
    /\ run' = [run EXCEPT !.changed = TRUE]
    /\ reg' = IF run.host \/ scope.drive = run.drive
              THEN Aged(reg, Register(run.host), IF "report" \in run.keys THEN Keys ELSE run.keys,
                        "current", "outdated")
              ELSE reg
    /\ UNCHANGED <<scope, refresh, popup, handled, inFlight, userCancelled, queued, turns>>

\* The end of its frame.  When it leaves evidence behind that it should have
\* invalidated, the texts are known to the properties as missed.
MutationEnds(rg, rf, misses) ==
    /\ reg' = IF misses THEN Aged(rg, Register(run.host), Keys, "outdated", "missed") ELSE rg
    /\ refresh' = rf
    /\ run' = NoRun
    /\ UNCHANGED <<scope, handled, inFlight, userCancelled, queued, turns>>

InvalidateAndSchedule(S, misses) ==
    LET rg == Invalidate(reg, scope, S)
    IN  MutationEnds(rg, Schedule(refresh, FALSE, scope, rg, FALSE), misses)

\* The helper's verdict is that nothing changed.
MutationUnchanged ==
    /\ run.kind \in Mutators /\ ~run.changed
    /\ MutationEnds(reg, refresh, FALSE) /\ popup' = popup

\* Success: the gate is given back while the result dialog is open, unless
\* the user had asked for a cancel.
RepairSucceeds ==
    /\ run.kind = "repair" /\ refresh.session
    /\ IF run.stopping
       THEN InvalidateAndSchedule(run.keys, FALSE) /\ popup' = popup
       ELSE /\ MutationEnds(reg, refresh, FALSE)
            /\ popup' = [shown |-> "open", hook |-> "pending", keys |-> run.keys]

RepairFails ==
    /\ run.kind = "repair"
    /\ InvalidateAndSchedule(run.onFailure, "report" \notin run.onFailure)
    /\ popup' = popup

ShellEnds ==
    /\ run.kind = "shell"
    /\ InvalidateAndSchedule(run.keys, scope.host # run.host)
    /\ popup' = popup

\* Only a cancelled request that reported a change invalidates anything; its
\* mapped sections are marked in the register that the request was for.
MutationCancelled ==
    /\ run.kind \in Mutators /\ run.stopping
    /\ \E reported \in BOOLEAN :
       /\ reported => run.changed
       /\ IF ~reported THEN MutationEnds(reg, refresh, run.changed)
          ELSE IF "report" \in run.keys
          THEN MutationEnds(InvalidateActive(reg, scope), refresh, scope.host # run.host)
          ELSE LET rg == MarkStale(reg, Register(run.host), run.keys)
               IN  MutationEnds(rg, Schedule(refresh, FALSE, scope, rg, TRUE), FALSE)
    /\ popup' = popup

\* mutant: the hook only takes responsibility when it schedules at once.
HookWhenFree ==
    /\ popup.hook = "pending"
    /\ handled' = ~refresh.auto
    /\ reg' = Invalidate(reg, scope, popup.keys)
    /\ refresh' = Schedule(refresh, FALSE, scope, reg', GateHeld)
    /\ popup' = IF popup.shown = "none" THEN NoPopup ELSE [popup EXCEPT !.hook = "ran"]
    /\ UNCHANGED <<scope, run, inFlight, userCancelled, queued, turns>>

\* handleIndividualRepairSuccessTerminal, 20 ms after the DONE record.
Hook ==
    /\ popup.hook = "pending"
    /\ handled' = TRUE
    /\ reg' = Invalidate(reg, scope, popup.keys)
    /\ refresh' = Schedule(refresh, FALSE, scope, reg', GateHeld)
    /\ popup' = IF popup.shown = "none" THEN NoPopup ELSE [popup EXCEPT !.hook = "ran"]
    /\ UNCHANGED <<scope, run, inFlight, userCancelled, queued, turns>>

\* The completion behind the result dialog.
CompleteRepair ==
    /\ IF handled
       THEN handled' = FALSE /\ UNCHANGED <<reg, refresh>>
       ELSE /\ reg' = Invalidate(reg, scope, popup.keys)
            /\ refresh' = Schedule(refresh, FALSE, scope, reg', GateHeld)
            /\ handled' = handled
    /\ popup' = IF popup.hook = "pending" THEN [popup EXCEPT !.shown = "none"] ELSE NoPopup
    /\ UNCHANGED <<scope, run, inFlight, userCancelled, queued, turns>>

\* A refresh that runs above the dialog's loop has to end before it returns.
CloseResult ==
    /\ popup.shown = "open"
    /\ \/ ~GateHeld /\ CompleteRepair
       \/ /\ GateHeld
          /\ popup' = [popup EXCEPT !.shown = "closing"]
          /\ UNCHANGED <<scope, reg, refresh, run, handled, inFlight, userCancelled, queued, turns>>

FinishResult == popup.shown = "closing" /\ ~GateHeld /\ CompleteRepair

-----------------------------------------------------------------------------
(* The automatic refresh.                                                  *)

\* The gate is free, also in the 20 ms before the hook.
CanTurn == ~GateHeld /\ popup.shown # "closing"

\* runScheduledEvidenceRefresh.  A report that alone is stale is no section: it
\* is not run again.
TimerFires ==
    /\ refresh.due /\ CanTurn
    /\ LET wanted == refresh.auto /\ Ready(scope) /\ (refresh.force \/ EvidenceStale(scope, reg))
           full == refresh.force \/ reg[Live(scope)].need \/ reg[Live(scope)].body["report"] = None
           stale == reg[Live(scope)].stale \cap Sections
           over == [refresh EXCEPT !.due = FALSE]
       IN  \/ /\ ~wanted
              /\ refresh' = [over EXCEPT !.force = FALSE]
              /\ UNCHANGED <<reg, run, inFlight, userCancelled, queued>>
           \/ /\ wanted /\ ~refresh.session
              /\ refresh' = [over EXCEPT !.awaiting = TRUE]
              /\ UNCHANGED <<reg, run, inFlight, userCancelled, queued>>
           \/ /\ wanted /\ refresh.session /\ full
              /\ BeginAll(TRUE) /\ refresh' = over /\ queued' = "no"
           \/ /\ wanted /\ refresh.session /\ ~full /\ stale # {}
              /\ Begin("some", stale, TRUE) /\ refresh' = over
              /\ inFlight' = "report"
              /\ UNCHANGED <<reg, queued>>
           \/ /\ wanted /\ refresh.session /\ ~full /\ stale = {}
              /\ refresh' = [over EXCEPT !.force = FALSE]
              /\ UNCHANGED <<reg, run, inFlight, userCancelled, queued>>
    /\ UNCHANGED <<scope, popup, handled, turns>>

\* mutant: the posted call forgets the reason and schedules nothing.
RunDeferredForgets ==
    /\ refresh.deferred /\ CanTurn
    /\ refresh' = [refresh EXCEPT !.deferred = FALSE]
    /\ UNCHANGED <<scope, reg, run, popup, handled, inFlight, userCancelled, queued, turns>>

\* runDeferredPrivilegedWork; while the gate is held it does nothing and is
\* posted again at the release.
RunDeferred ==
    /\ refresh.deferred /\ CanTurn
    /\ refresh' = Schedule([refresh EXCEPT !.deferred = FALSE], FALSE, scope, reg, FALSE)
    /\ UNCHANGED <<scope, reg, run, popup, handled, inFlight, userCancelled, queued, turns>>

\* handlePrivilegedSessionEstablished
SessionEstablished ==
    /\ ~refresh.session
    /\ LET up == [refresh EXCEPT !.session = TRUE]
       IN  refresh' = IF ~refresh.awaiting THEN up
                      ELSE IF ~refresh.auto THEN [up EXCEPT !.awaiting = FALSE]
                      ELSE IF ~Ready(scope) THEN up
                      ELSE Schedule([up EXCEPT !.awaiting = FALSE], FALSE, scope, reg, GateHeld)
    /\ UNCHANGED <<scope, reg, run, popup, handled, inFlight, userCancelled, queued, turns>>

SessionLost ==
    /\ refresh.session /\ refresh' = [refresh EXCEPT !.session = FALSE]
    /\ UNCHANGED <<scope, reg, run, popup, handled, inFlight, userCancelled, queued, turns>>

ToggleAutoRefresh ==
    /\ ~Blocked /\ Turn
    /\ refresh' = IF refresh.auto
                  THEN [refresh EXCEPT !.auto = FALSE, !.awaiting = FALSE, !.due = FALSE]
                  ELSE Schedule([refresh EXCEPT !.auto = TRUE], FALSE, scope, reg, GateHeld)
    /\ UNCHANGED <<scope, reg, run, popup, handled, inFlight, userCancelled, queued>>

\* Clear Log clears both registers.
ClearLog ==
    /\ ~Blocked /\ Turn
    /\ reg' = InvalidateTarget(ClearHost(reg), scope)
    /\ UNCHANGED <<scope, refresh, run, popup, handled, inFlight, userCancelled, queued>>

-----------------------------------------------------------------------------
User ==
    \/ EnterHost \/ ExitHost \/ \E d \in Drives : SelectDrive(d)
    \/ \E k \in Keys : RunOne(k)
    \/ ClickRunAll \/ UserCancel
    \/ \E t \in Tools : StartRepair(t) \/ RefusedRepair(t)
    \/ \E class \in ShellClasses : StartShell(class)
    \/ CloseResult \/ ToggleAutoRefresh \/ ClearLog

DiagnosticEnds == AllEnds \/ OneEnds \/ SomeEnds
MutatorEnds ==
    MutationUnchanged \/ RepairSucceeds \/ RepairFails \/ ShellEnds \/ MutationCancelled

Next ==
    \/ User
    \/ PostedRunAll \/ \E s \in Sections : Stream(s)
    \/ DiagnosticEnds \/ MutatorEnds \/ WorldChanges
    \/ Hook \/ FinishResult
    \/ TimerFires \/ RunDeferred
    \/ SessionEstablished \/ SessionLost

\* A request ends, since it has a watchdog, and the event loop runs what is
\* due.  Nothing is assumed of the user or of the session.
Ends == GateHeld /\ run' = NoRun
Fairness ==
    /\ WF_run(Ends)
    /\ WF_vars(PostedRunAll) /\ WF_vars(Hook) /\ WF_vars(FinishResult)
    /\ WF_vars(TimerFires) /\ WF_vars(RunDeferred)

Spec == Init /\ [][Next]_vars /\ Fairness

-----------------------------------------------------------------------------
Scopes  == [host : BOOLEAN, drive : Drives \cup {None}]
Bodies  == [Keys -> Texts \cup {None}]
Registers(d) ==
    [target : [identity : {d}, need : BOOLEAN, stale : SUBSET Sections, body : Bodies],
     host : [identity : {"host"}, need : {FALSE}, stale : SUBSET (Sections \cup {"report"}),
             body : Bodies]]
Refreshes ==
    [auto : BOOLEAN, session : BOOLEAN, force : BOOLEAN, deferred : BOOLEAN,
     awaiting : BOOLEAN, due : BOOLEAN]
Requests ==
    [kind : {"none"} \cup Diagnostics \cup Mutators, host : BOOLEAN, drive : Drives \cup {None},
     keys : SUBSET Keys, onFailure : SUBSET Keys, auto : BOOLEAN, done : SUBSET Sections,
     kept : SUBSET Sections, stopping : BOOLEAN, changed : BOOLEAN]
Popups ==
    [shown : {"none", "open", "closing"}, hook : {"none", "pending", "ran"}, keys : SUBSET Keys]

\* Every variable has its type; the identity of the target's register is
\* always the committed drive, and a diagnostic holds the gate whenever a key
\* is in flight.
TypeOK ==
    /\ scope \in Scopes
    /\ reg \in Registers(scope.drive)
    /\ refresh \in Refreshes /\ run \in Requests /\ popup \in Popups
    /\ handled \in BOOLEAN /\ userCancelled \in BOOLEAN
    /\ inFlight \in Sections \cup {"report", None}
    /\ queued \in {"no", "yes", "posted"} /\ turns \in 0..MaxTurns
    /\ inFlight # None => run.kind \in Diagnostics

\* A repair that can be started now.
Startable(tool) == ~Blocked /\ ~GateHeld /\ RepairOffered(tool)

Evidence(tool) ==
    LET body == reg[Live(scope)].body
    IN  {body[s] : s \in Needs[tool]} \cup {CapabilityEvidence(body)}

\* A repair is never offered on another system's evidence: whatever the user
\* switched while a diagnostic ran, what the gate reads came from the system
\* that is live now.
ForeignEvidenceIsGated ==
    \A t \in Tools : RepairOffered(t) => \A e \in Evidence(t) : e.from = Subject(scope)

\* A repair cannot be started on a section that a repair or a shell command
\* changed since, except where the code knowingly or by mistake invalidates
\* something else: the targeted failures, a cancel that reported no change,
\* and a request that ended after the user had moved between host and target.
OutdatedEvidenceIsGated ==
    \A t \in Tools : Startable(t) =>
        \A s \in Needs[t] : reg[Live(scope)].body[s].age # "outdated"

\* One repair is followed by one invalidation: once the hook of a success has
\* run, the return from its dialog changes neither register, whatever the
\* refresh that the hook scheduled has brought in the meantime.
NoSecondInvalidation ==
    [][popup.shown # "none" /\ popup'.shown = "none" /\ popup.hook = "ran"
         => reg' = reg]_vars

\* A refresh that was accepted is attempted, or is no longer needed, unless
\* the session is down: no hand-over between the busy gate, the missing
\* authorization and the timer loses it.  The user acts a bounded number of
\* times, so this is about what happens once the user pauses.
Accepted == refresh.deferred \/ refresh.awaiting \/ refresh.due
Wanted ==
    LET r == reg[Live(scope)]
    IN  refresh.auto /\ Ready(scope)
        /\ (r.need \/ r.stale \cap Sections # {} \/ r.body["report"] = None)
InvalidationIsServed == Accepted ~> run.auto \/ ~Wanted \/ ~refresh.session

\* What the code documents (src/src/MainWindow.cpp:24060) and does not keep:
\* when a Run All fails and its error is shown under the report and under
\* every section, every repair gate stays closed.
FailedRunAllClosesGates ==
    [][(/\ run.kind = "all" /\ ~run.host /\ run' = NoRun
        /\ \A k \in Sections : reg'.target.body[k] # None /\ reg'.target.body[k].is = "bad")
            => \A t \in Tools : ~RepairOffered(t)']_vars
=============================================================================
