-------------------------- MODULE EfiBootEntries ---------------------------
(***************************************************************************)
(* The helper's changes to the UEFI boot entries: efi-reorder, efi-delete, *)
(* efi-rename and host-default.  Each is a sequence of efibootmgr calls on *)
(* the firmware's variables.  A call may fail, a write may be accepted and *)
(* not retained, and a listing may come back empty.                        *)
(*                                                                         *)
(* An entry carries the PARTUUID of the ESP of a drive; its role is "main" *)
(* (the loader that host-default promotes: a UKI or a vendor loader),      *)
(* "fallback" (the managed BOOTX64.EFI), "wfai" (the recovery loader) or   *)
(* "devpath" (a record the firmware made itself, with no loader path).     *)
(* Its label is "good" when it is the one the helper writes for the        *)
(* running host's entries, "old" when it is another and "torn" when the    *)
(* record cannot be parsed; initially only a main entry has a good one.    *)
(***************************************************************************)
EXTENDS Integers, Sequences, FiniteSets

CONSTANTS
    Ids,        \* the Boot#### numbers
    None,       \* no number
    Operations, \* which of the four are modelled
    MaxFaults   \* bound: how many calls may go wrong

Kinds == {"reorder", "delete", "rename", "default"}

ASSUME EfiAssumption ==
    None \notin Ids /\ IsFiniteSet(Ids) /\ Operations \subseteq Kinds /\ MaxFaults \in Nat

Roles   == {"main", "fallback", "wfai", "devpath"}
Texts   == {"old", "good"}
Labels  == Texts \cup {"torn"}
Scopes  == {"host", "target", "shared", "lost"}
Entries == [drive : {"host", "other"}, role : Roles, label : Labels]
Absent  == [drive |-> "none", role |-> "none", label |-> "none"]

VARIABLES
    entry,     \* the entry of each number, or Absent
    order,     \* BootOrder; it may name entries that are gone
    next,      \* BootNext, or None
    current,   \* BootCurrent, or None
    pc,        \* the next step of the operation
    op,        \* the request and the helper's local variables
    pre,       \* the variables before the operation
    outcome,   \* what the operation reported
    faults     \* how many calls went wrong

nvram == <<entry, order, next>>
vars  == <<entry, order, next, current, pc, op, pre, outcome, faults>>

Listed(s) == {s[n] : n \in DOMAIN s}
Orders == {s \in UNION {[1..n -> Ids] : n \in 0..Cardinality(Ids)} :
             \A m, n \in DOMAIN s : s[m] = s[n] => m = n}

(* The elements of s that are in S, in the order of s: SelectSeq, but given *)
(* by position, which can be reasoned about without induction.             *)
Positions(s, S) == {n \in DOMAIN s : s[n] \in S}
Rank(P, n) == Cardinality({m \in P : m <= n})
Keep(s, S) ==
    LET P == Positions(s, S)
    IN  [k \in 1..Cardinality(P) |-> s[CHOOSE n \in P : Rank(P, n) = k]]

Existing  == {i \in Ids : entry[i] # Absent}
Protected == {current, next}
On(drive, role) == {i \in Existing : entry[i].drive = drive /\ entry[i].role = role}
HasLoader(e) == e.role # "devpath"

(* Locals of an operation: the host's entry that becomes the default, what *)
(* host-default-entry.tsv says was done to it, whether its loader is the   *)
(* UKI, whether labels can be updated, whether a recovery loader is on the *)
(* ESP, whether the second pass over the order runs, the entries to prune, *)
(* those pruned; whether a deletion was decided or reported without a      *)
(* listing; and, as history, the faults before the rollback.               *)
NoOp == [kind |-> "none", scope |-> "host", id |-> None, label |-> "old", req |-> <<>>,
         state |-> "", uki |-> FALSE, labels |-> FALSE, ipxe |-> FALSE,
         second |-> FALSE, doomed |-> {}, gone |-> {}, blind |-> FALSE, before |-> 0]

Init ==
    /\ entry \in [Ids -> {e \in Entries : e.role # "wfai" /\ e.label \in Texts} \cup {Absent}]
    /\ \A i \in Existing : entry[i].label = "good" => entry[i].drive = "host" /\ entry[i].role = "main"
    /\ Existing # Ids
    /\ order \in Orders
    /\ next \in Ids \cup {None} /\ current \in Existing \cup {None}
    /\ pc = "idle" /\ op = NoOp /\ outcome = "none" /\ faults = 0
    /\ pre = [entry |-> entry, order |-> order, next |-> next]

-----------------------------------------------------------------------------
(* The calls.                                                              *)

Fine  == faults' = faults
Fault == faults < MaxFaults /\ faults' = faults + 1

\* efibootmgr -v: whether the caller sees the firmware's variables.
Reads(seen) == IF seen THEN Fine ELSE Fault

\* efibootmgr -o: done is its exit status.  It may refuse an empty list or
\* one that names an entry that is gone.
SetOrder(s, done) ==
    /\ \/ done /\ order' = s /\ Fine
       \/ done /\ order' = order /\ Fault
       \/ ~done /\ order' = order /\ Fault
       \/ ~done /\ order' = order /\ (s = <<>> \/ ~(Listed(s) \subseteq Existing)) /\ Fine
    /\ UNCHANGED <<entry, next>>

\* efibootmgr -b -B: some versions take the number out of BootOrder as well.
Remove(i, done) ==
    /\ \/ /\ done /\ Fine
          /\ entry' = [entry EXCEPT ![i] = Absent]
          /\ order' \in {order, Keep(order, Ids \ {i})}
       \/ Fault /\ UNCHANGED <<entry, order>>
    /\ next' = next

\* efibootmgr --create: the firmware picks a free number and puts it first.
Create(e, i, done) ==
    /\ \/ /\ done /\ Fine /\ i \notin Existing
          /\ entry' = [entry EXCEPT ![i] = e]
          /\ order' = <<i>> \o Keep(order, Ids \ {i})
       \/ Fault /\ UNCHANGED <<entry, order>>
       \/ ~done /\ Existing = Ids /\ Fine /\ UNCHANGED <<entry, order>>
    /\ next' = next

\* The label updater writes and reads back.  It puts the old bytes back if a
\* call fails or the label is another, and not if the record cannot be parsed.
Relabel(i, label, done) ==
    /\ \/ done /\ Fine /\ entry' = [entry EXCEPT ![i].label = label]
       \/ ~done /\ Fault /\ entry' \in {entry, [entry EXCEPT ![i].label = "torn"]}
       \/ /\ ~done /\ faults + 2 <= MaxFaults /\ faults' = faults + 2
          /\ entry' = [entry EXCEPT ![i].label = label]
    /\ UNCHANGED <<order, next>>

Same == UNCHANGED nvram
Goto(step) == pc' = step /\ UNCHANGED <<op, outcome, current, pre>>
Set(step, o) == pc' = step /\ op' = o /\ UNCHANGED <<outcome, current, pre>>
End(result) == pc' = "idle" /\ outcome' = result /\ UNCHANGED <<op, current, pre>>
EndBlind ==
    /\ pc' = "idle" /\ outcome' = "changed" /\ op' = [op EXCEPT !.blind = TRUE]
    /\ UNCHANGED <<current, pre>>

-----------------------------------------------------------------------------
(* Requests.  The identifiers and the order come from a list that the GUI  *)
(* read earlier, so they need not fit what the firmware has now.           *)

Asked(o) == pc = "idle" /\ outcome = "none" /\ o.kind \in Operations /\ Same
Start(o, step) == Set(step, o)

-----------------------------------------------------------------------------
(* run_efi_reorder                                                         *)

Reorder(s) ==
    LET o == [NoOp EXCEPT !.kind = "reorder", !.req = s]
    IN  /\ Asked(o)
        /\ \E seen \in BOOLEAN :
            /\ Reads(seen)
            /\ LET fits == /\ seen /\ Listed(s) = Existing
                           /\ Protected \ {None} \subseteq Existing
               IN  \/ ~fits /\ End("refused")
                   \/ fits /\ s = order /\ End("unchanged")
                   \/ fits /\ s # order /\ Start(o, "setOrder")

WriteOrder ==
    /\ pc = "setOrder"
    /\ \E done \in BOOLEAN :
        /\ SetOrder(op.req, done)
        /\ IF done THEN Goto("confirmOrder") ELSE End("failed")

\* mutant: the confirmation compares the entries and not their order.
ConfirmOrderAsSet ==
    /\ pc = "confirmOrder" /\ Same
    /\ \E seen \in BOOLEAN :
        /\ Reads(seen)
        /\ IF seen /\ Listed(order) = Listed(op.req) THEN End("changed") ELSE Goto("putOrderBack")

ConfirmOrder ==
    /\ pc = "confirmOrder" /\ Same
    /\ \E seen \in BOOLEAN :
        /\ Reads(seen)
        /\ IF seen /\ order = op.req THEN End("changed") ELSE Goto("putOrderBack")

PutOrderBack ==
    /\ pc = "putOrderBack"
    /\ \E done \in BOOLEAN : SetOrder(pre.order, done)
    /\ End("failed")

-----------------------------------------------------------------------------
(* run_efi_delete                                                          *)

(* The scope of a request is "host" without a repair target.  With one, an *)
(* entry of the host's ESP is in class "host" only if the helper could     *)
(* find that ESP, which it looks for at /boot/efi ("lost" if it is not     *)
(* there, not mounted or not FAT), and if the target has not the same one  *)
(* ("shared": the entry is then in class "repair").                        *)
InClassHost(i, scope) == entry[i].drive = "host" /\ scope \notin {"shared", "lost"}

\* mutant: the host's entries are spared without a repair target only.
MayTouchHost(i, scope) ==
    /\ i \in Existing \ Protected
    /\ scope = "host" => ~InClassHost(i, scope)

(* Deleting and renaming spare the active and the next entry, and with a   *)
(* repair target selected also the entries of class "host".                *)
MayTouch(i, scope) ==
    /\ i \in Existing \ Protected
    /\ scope # "host" => ~InClassHost(i, scope)

Delete(scope, i) ==
    LET o == [NoOp EXCEPT !.kind = "delete", !.scope = scope, !.id = i]
    IN  /\ Asked(o)
        /\ \E seen \in BOOLEAN :
            /\ Reads(seen)
            /\ IF seen /\ MayTouch(i, scope) THEN Start(o, "remove") ELSE End("refused")

RemoveEntry ==
    /\ pc = "remove"
    /\ \E done \in BOOLEAN :
        /\ Remove(op.id, done)
        /\ IF done THEN Goto("confirmRemoved") ELSE End("failed")

(* A listing that fails is empty: the entry then counts as removed.        *)
ConfirmRemoved ==
    /\ pc = "confirmRemoved" /\ Same
    /\ \E seen \in BOOLEAN :
        /\ Reads(seen)
        /\ \/ ~seen /\ EndBlind
           \/ seen /\ op.id \in Existing /\ Goto("recreate")
           \/ /\ seen /\ op.id \notin Existing
              /\ IF op.id \in Listed(order) THEN Goto("tidyOrder") ELSE End("changed")

(* The entry is still there and is created again.                          *)
Recreate ==
    /\ pc = "recreate"
    /\ \/ /\ HasLoader(pre.entry[op.id])
          /\ \E i \in Ids, done \in BOOLEAN : Create(pre.entry[op.id], i, done)
       \/ ~HasLoader(pre.entry[op.id]) /\ Fine /\ Same
    /\ End("failed")

TidyOrder ==
    /\ pc = "tidyOrder"
    /\ \E done \in BOOLEAN :
        /\ SetOrder(Keep(order, Ids \ {op.id}), done)
        /\ IF done THEN Goto("confirmTidied") ELSE End("failed")

(* A listing that fails has an empty BootOrder, which may be the one that  *)
(* was written.                                                            *)
ConfirmTidied ==
    /\ pc = "confirmTidied" /\ Same
    /\ \E seen \in BOOLEAN :
        /\ Reads(seen)
        /\ \/ seen /\ End(IF op.id \notin Listed(order) THEN "changed" ELSE "failed")
           \/ ~seen /\ Listed(order) \subseteq {op.id} /\ EndBlind
           \/ ~seen /\ ~(Listed(order) \subseteq {op.id}) /\ End("failed")

-----------------------------------------------------------------------------
(* run_efi_rename                                                          *)

Rename(scope, i, label) ==
    LET o == [NoOp EXCEPT !.kind = "rename", !.scope = scope, !.id = i, !.label = label]
    IN  /\ Asked(o)
        /\ \E seen \in BOOLEAN :
            /\ Reads(seen)
            /\ LET fits == seen /\ MayTouch(i, scope) /\ HasLoader(entry[i])
               IN  \/ ~fits /\ End("refused")
                   \/ fits /\ entry[i].label = label /\ End("unchanged")
                   \/ fits /\ entry[i].label # label /\ Start(o, "relabel")

WriteLabel ==
    /\ pc = "relabel"
    /\ \E done \in BOOLEAN :
        /\ Relabel(op.id, op.label, done)
        /\ IF done THEN Goto("confirmLabel") ELSE End("failed")

ConfirmLabel ==
    /\ pc = "confirmLabel" /\ Same
    /\ \E seen \in BOOLEAN :
        /\ Reads(seen)
        /\ IF seen /\ entry[op.id].label = op.label THEN End("changed")
                                                    ELSE Goto("putLabelBack")

PutLabelBack ==
    /\ pc = "putLabelBack"
    /\ \E done \in BOOLEAN : Relabel(op.id, pre.entry[op.id].label, done)
    /\ End("failed")

-----------------------------------------------------------------------------
(* run_host_default: what was there, and the host's entry.                 *)

PreExisting == {i \in Ids : pre.entry[i] # Absent}
Mains == On("host", "main")

(* A failed stage rolls back, but only if the state file was written.      *)
Fail ==
    IF op.state = "" THEN End("failed") ELSE Goto("undoCheck")

HostDefault(uki, labels, ipxe) ==
    LET o == [NoOp EXCEPT !.kind = "default", !.uki = uki, !.labels = labels, !.ipxe = ipxe]
    IN  /\ Asked(o)
        /\ \E seen \in BOOLEAN :
            Reads(seen) /\ IF seen THEN Start(o, "reconcile") ELSE End("refused")

(* Nothing has changed since the capture: every entry maps to itself.      *)
Reconcile ==
    /\ pc = "reconcile" /\ Same
    /\ \E seen \in BOOLEAN : Reads(seen) /\ IF seen THEN Goto("ensure") ELSE Fail

(* ensure_host_default_entry_for_loader: one entry is used, several only   *)
(* if one of them is active or next, and without any one is created.       *)
Ensure ==
    /\ pc = "ensure" /\ Same
    /\ \E seen \in BOOLEAN :
        /\ Reads(seen)
        /\ LET ids == IF seen THEN Mains ELSE {}
               Use(i, state, step) == Set(step, [op EXCEPT !.id = i, !.state = state])
           IN  \/ ids = {} /\ Goto("create")
               \/ /\ Cardinality(ids) = 1
                  /\ \E i \in ids :
                        \/ entry[i].label = "good" /\ Use(i, "reused", "restoreOrder")
                        \/ entry[i].label = "old" /\ op.labels /\ Use(i, "", "relabelMain")
                        \/ entry[i].label = "old" /\ ~op.labels /\ Fail
               \/ /\ Cardinality(ids) > 1
                  /\ IF ids \cap Protected = {}
                     THEN Fail
                     ELSE \E i \in ids \cap Protected : Use(i, "reused", "restoreOrder")

RelabelMain ==
    /\ pc = "relabelMain"
    /\ \E done \in BOOLEAN :
        /\ Relabel(op.id, "good", done)
        /\ IF done THEN Set("restoreOrder", [op EXCEPT !.state = "relabeled"]) ELSE Fail

CreateMain ==
    /\ pc = "create"
    /\ \E i \in Ids, done \in BOOLEAN :
        /\ Create([drive |-> "host", role |-> "main", label |-> "good"], i, done)
        /\ IF done THEN Goto("listCreated") ELSE Fail

ListCreated ==
    /\ pc = "listCreated" /\ Same
    /\ \E seen \in BOOLEAN : Reads(seen) /\ IF seen THEN Goto("identify") ELSE Fail

(* A created entry that is not the only one is rolled back, if it can be   *)
(* told from the others.                                                   *)
Identify ==
    /\ pc = "identify" /\ Same
    /\ \E seen \in BOOLEAN :
        /\ Reads(seen)
        /\ LET ids == IF seen THEN Mains ELSE {}
               new == Existing \ PreExisting
           IN  \/ \E i \in ids : ids = {i} /\ Set("restoreOrder",
                                     [op EXCEPT !.id = i, !.state = "created"])
               \/ /\ Cardinality(ids) # 1
                  /\ IF Cardinality(new) = 1
                     THEN \E i \in new :
                            Set("undoCheck", [op EXCEPT !.id = i, !.state = "created"])
                     ELSE Fail

-----------------------------------------------------------------------------
(* Order, labels and duplicates.                                           *)

\* A listing that cannot be read, or one that fails a check, fails the stage.
Unread == Fault /\ Same /\ Fail
Refused(check) == ~check /\ Fine /\ Same /\ Fail

\* The last call of a stage: the stage fails with it.
Then(step, done) == IF done THEN Goto(step) ELSE Fail

\* mutant: the host's entry is appended even if the order names it.
RestoreOrderAppends ==
    /\ pc = "restoreOrder"
    /\ LET known == Listed(pre.order) \subseteq PreExisting
           out == Append(pre.order, op.id)
       IN  \/ pre.order # <<>> /\ Unread
           \/ Refused(known)
           \/ known /\ \E done \in BOOLEAN : SetOrder(out, done) /\ Then("restoreNext", done)

(* efi_restore_reconciled_order: BootOrder first ...                       *)
RestoreOrder ==
    /\ pc = "restoreOrder"
    /\ LET known == Listed(pre.order) \subseteq PreExisting
           out == IF op.id \in Listed(pre.order) THEN pre.order ELSE Append(pre.order, op.id)
       IN  \/ pre.order # <<>> /\ Unread
           \/ Refused(known)
           \/ known /\ \E done \in BOOLEAN : SetOrder(out, done) /\ Then("restoreNext", done)

(* ... then BootNext, which no stage has touched.                          *)
RestoreNext ==
    /\ pc = "restoreNext" /\ Same
    /\ \/ pre.next \in PreExisting \cup {None} /\ Fine /\ Goto("annotate")
       \/ pre.next # None /\ pre.next \notin PreExisting /\ Fine /\ Fail
       \/ pre.next # None /\ Fault /\ Fail

Unlabelled == {i \in Existing : entry[i].drive = "host" /\ HasLoader(entry[i])
                                /\ entry[i].label = "old"}

AfterAnnotate == IF op.second THEN "verifyLabels" ELSE "promote"

(* efi_annotate_selected_entries: one label after the other ...            *)
Annotate ==
    /\ pc = "annotate"
    /\ \/ (op.labels \/ ~op.second \/ Unlabelled = {}) /\ Unread
       \/ /\ op.labels
          /\ \E i \in Unlabelled, done \in BOOLEAN :
                Relabel(i, "good", done) /\ Then("annotate", done)
       \/ (op.labels => Unlabelled = {}) /\ Fine /\ Same /\ Goto("findWfai")

(* ... then the recovery loader, if it is on the ESP and has no entry, or  *)
(* none that a listing shows.                                              *)
FindWfai ==
    /\ pc = "findWfai" /\ Same
    /\ \E seen \in BOOLEAN :
        /\ Reads(seen) /\ (seen \/ op.ipxe)
        /\ Goto(IF op.ipxe /\ (seen => On("host", "wfai") = {})
                THEN "createWfai" ELSE AfterAnnotate)

CreateWfai ==
    /\ pc = "createWfai"
    /\ \E i \in Ids, done \in BOOLEAN :
        /\ Create([drive |-> "host", role |-> "wfai", label |-> "good"], i, done)
        /\ Then("confirmWfai", done)

ConfirmWfai ==
    /\ pc = "confirmWfai" /\ Same
    /\ \E seen \in BOOLEAN :
        /\ Reads(seen)
        /\ IF seen /\ Cardinality(On("host", "wfai")) = 1 THEN Goto(AfterAnnotate) ELSE Fail

(* efi_promote_entry_first: the entries that BootOrder left out follow.    *)
Promoted(s) ==
    /\ s # <<>> /\ s[1] = op.id
    /\ Listed(s) = Existing
    /\ LET kept == Keep(order, Existing \ {op.id})
       IN  SubSeq(s, 2, 1 + Len(kept)) = kept

(* If only the write fails, the caller does not notice: it runs where the  *)
(* shell ignores errors.                                                   *)
Promote ==
    /\ pc = "promote"
    /\ \/ Unread
       \/ Refused(op.id \in Existing)
       \/ /\ op.id \in Existing
          /\ \E s \in Orders, done \in BOOLEAN :
              /\ Promoted(s) /\ SetOrder(s, done)
              /\ IF done THEN Set("confirmPromote", [op EXCEPT !.req = s])
                         ELSE Goto(IF op.second THEN "annotate" ELSE "prune")

ConfirmPromote ==
    /\ pc = "confirmPromote" /\ Same
    /\ \E seen \in BOOLEAN :
        /\ Reads(seen)
        /\ IF seen /\ order = op.req
           THEN Goto(IF op.second THEN "annotate" ELSE "prune") ELSE Fail

(* efi_prune_selected_duplicate_destinations keeps one entry of each role  *)
(* on the host's ESP, the active or next one if there is one.  A record of *)
(* the firmware's own is redundant beside a managed destination on the     *)
(* same drive, even if it is active; without one, one of them is kept.     *)
BootFile(drive) ==
    On(drive, "fallback") # {} \/ (drive = "host" /\ op.uki /\ Mains # {})

Kept(i, S) == i \in S /\ (S \cap Protected # {} => i \in Protected)
\* mutant: no record of the firmware's own is kept.
NoneKept(S) == {S}

OneKept(S) == IF S \cap Protected # {} THEN {S \ Protected} ELSE {S \ {i} : i \in S}

\* On another drive a record that is listed before the active one stays too.
OneOrTwoKept(S) ==
    OneKept(S) \cup IF S \cap Protected = {} THEN {}
                    ELSE {S \ (Protected \cup {i}) : i \in S}

Doomed(D) ==
    /\ \A role \in {"main", "fallback", "wfai"} :
        LET S == On("host", role)
        IN  S = {} \/ \E i \in S : Kept(i, S) /\ D \cap S = S \ {i}
    /\ \A role \in {"main", "fallback", "wfai"} : D \cap On("other", role) = {}
    /\ LET S == On("host", "devpath")
       IN  D \cap S \in IF S = {} \/ BootFile("host") THEN {S} ELSE OneKept(S)
    /\ LET S == On("other", "devpath")
       IN  D \cap S \in IF S = {} \/ BootFile("other") THEN {S} ELSE OneOrTwoKept(S)

Prune ==
    /\ pc = "prune" /\ Same
    /\ \/ Fault /\ Fail
       \/ /\ Fine
          /\ \E D \in SUBSET Existing :
              /\ Doomed(D)
              /\ IF D = {} THEN Goto("group") ELSE Set("pruning", [op EXCEPT !.doomed = D])

PruneOne ==
    /\ pc = "pruning"
    /\ \E i \in op.doomed :
        \/ Refused(~(i \in Protected /\ HasLoader(entry[i])))
        \/ /\ ~(i \in Protected /\ HasLoader(entry[i]))
           /\ \E done \in BOOLEAN :
                /\ Remove(i, done)
                /\ IF done
                   THEN Set(IF op.doomed = {i} THEN "tidy" ELSE "pruning",
                            [op EXCEPT !.doomed = @ \ {i}, !.gone = @ \cup {i}])
                   ELSE Fail

Tidy ==
    /\ pc = "tidy"
    /\ LET s == Keep(order, Existing \ op.gone)
       IN  \/ Unread
           \/ s = <<>> /\ Fine /\ Same /\ Goto("confirmPrune")
           \/ s # <<>> /\ \E done \in BOOLEAN : SetOrder(s, done) /\ Then("confirmPrune", done)

ConfirmPrune ==
    /\ pc = "confirmPrune" /\ Same
    /\ \E seen \in BOOLEAN :
        /\ Reads(seen)
        /\ IF /\ seen /\ op.gone \cap Existing = {}
              /\ \A role \in {"fallback", "wfai"} \cup (IF op.uki THEN {"main"} ELSE {}) :
                    Cardinality(On("host", role)) <= 1
           THEN Goto("group") ELSE Fail

(* efi_group_firmware_boot_order sorts by use and drive; what it writes is *)
(* some order of the entries that BootOrder names.                         *)
Group ==
    /\ pc = "group"
    /\ LET named == IF order = <<>> THEN Existing ELSE Existing \cap Listed(order)
       IN  \/ Unread
           \/ Fine /\ Same /\ Goto("again")
           \/ \E s \in Orders, done \in BOOLEAN :
                Listed(s) = named /\ s \notin {order, <<>>} /\ SetOrder(s, done) /\ Then("again", done)

Again ==
    /\ pc = "again" /\ Same
    /\ \E seen \in BOOLEAN :
        /\ Reads(seen)
        /\ LET first == seen /\ order # <<>> /\ order[1] = op.id
           IN  Set(IF first THEN "annotate" ELSE "promote", [op EXCEPT !.second = TRUE])

VerifyLabels ==
    /\ pc = "verifyLabels" /\ Same
    /\ \/ ~op.labels /\ Fine /\ Goto("finalCheck")
       \/ /\ op.labels
          /\ \E seen \in BOOLEAN :
              Reads(seen) /\ IF seen /\ Unlabelled = {} THEN Goto("finalCheck") ELSE Fail

-----------------------------------------------------------------------------
(* The final check, and the way back.                                      *)

(* host_default_verify_preserved_ids: what may be missing.                 *)
MayBeGone(e) ==
    /\ e.drive = "host"
    /\ IF HasLoader(e) THEN On("host", e.role) # {}
       ELSE BootFile("host") \/ On("host", "devpath") # {}

FinalCheck ==
    /\ pc = "finalCheck" /\ Same
    /\ \E seen \in BOOLEAN :
        /\ Reads(seen)
        /\ IF /\ seen /\ Mains = {op.id} /\ order # <<>> /\ order[1] = op.id
              /\ \A i \in PreExisting : i \in Existing \/ MayBeGone(pre.entry[i])
              /\ next = pre.next
           THEN Goto("compare") ELSE Fail

Compare ==
    /\ pc = "compare" /\ Same
    /\ \E seen \in BOOLEAN :
        /\ Reads(seen)
        /\ End(IF seen /\ pre = [entry |-> entry, order |-> order, next |-> next]
               THEN "unchanged" ELSE "changed")

(* host_default_rollback: every call is tried, and none stops the others.  *)
(* Which entries are active is read first; a listing that fails has none.  *)
UndoCheck ==
    /\ pc = "undoCheck" /\ Same
    /\ \E seen \in BOOLEAN :
        /\ Reads(seen) /\ (seen \/ op.state = "created")
        /\ Set("undoOrder", [op EXCEPT !.before = faults, !.blind = ~seen])

\* mutant: the rollback only deletes what was created.
UndoOrderSkipped ==
    /\ pc = "undoOrder" /\ Fine /\ Same
    /\ Goto("undoCreate")

UndoOrder ==
    /\ pc = "undoOrder"
    /\ \/ pre.order = <<>> /\ Fine /\ Same
       \/ pre.order # <<>> /\ \E done \in BOOLEAN : SetOrder(pre.order, done)
    /\ Goto("undoCreate")

\* mutant: the created entry is deleted even if it was found active.
UndoCreateActive ==
    /\ pc = "undoCreate"
    /\ IF op.state = "created"
       THEN \E done \in BOOLEAN : Remove(op.id, done)
       ELSE Fine /\ Same
    /\ Goto("undoNext")

UndoCreate ==
    /\ pc = "undoCreate"
    /\ IF op.state = "created" /\ (op.blind \/ op.id \notin Protected)
       THEN \E done \in BOOLEAN : Remove(op.id, done)
       ELSE Fine /\ Same
    /\ Goto("undoNext")

(* The old BootNext is written again, which no stage has touched.          *)
UndoNext ==
    /\ pc = "undoNext" /\ Same
    /\ \/ Fine
       \/ pre.next # None /\ Fault
    /\ End("failed")

Next ==
    \/ \E s \in Orders \ {<<>>} : Reorder(s)
    \/ \E scope \in Scopes, i \in Ids :
          Delete(scope, i) \/ \E label \in Texts : Rename(scope, i, label)
    \/ \E uki, labels, ipxe \in BOOLEAN : HostDefault(uki, labels, ipxe)
    \/ WriteOrder \/ ConfirmOrder \/ PutOrderBack
    \/ RemoveEntry \/ ConfirmRemoved \/ Recreate \/ TidyOrder \/ ConfirmTidied
    \/ WriteLabel \/ ConfirmLabel \/ PutLabelBack
    \/ Reconcile \/ Ensure \/ RelabelMain \/ CreateMain \/ ListCreated \/ Identify
    \/ RestoreOrder \/ RestoreNext \/ Annotate \/ FindWfai \/ CreateWfai \/ ConfirmWfai
    \/ Promote \/ ConfirmPromote \/ Prune \/ PruneOne \/ Tidy \/ ConfirmPrune
    \/ Group \/ Again \/ VerifyLabels \/ FinalCheck \/ Compare
    \/ UndoCheck \/ UndoOrder \/ UndoCreate \/ UndoNext

(* No fairness: a helper that is killed takes no further step, so what an  *)
(* invariant says of the states within an operation it says of a crash.    *)
Spec == Init /\ [][Next]_vars

-----------------------------------------------------------------------------
(* Properties.                                                             *)

(* Every variable has its type. *)
TypeOK ==
    /\ entry \in [Ids -> Entries \cup {Absent}]
    /\ order \in Orders
    /\ next \in Ids \cup {None} /\ current \in Ids \cup {None}
    /\ op.id \in Ids \cup {None} /\ op.doomed \subseteq Ids /\ op.gone \subseteq Ids
    /\ faults \in 0..MaxFaults

(* No step deletes the entry the machine runs from or boots next, nor sends *)
(* it elsewhere, except a record of the firmware's own that a managed entry *)
(* of the same drive replaces, and what a rollback takes for its own entry  *)
(* when it could not list the active ones; and a user's request never      *)
(* relabels one.                                                           *)
ActiveKept ==
    [][\A i \in Protected \cap Existing :
          \/ entry'[i] = entry[i]
          \/ op.kind = "default" /\ entry'[i] = [entry[i] EXCEPT !.label = entry'[i].label]
          \/ /\ op.kind = "default" /\ ~HasLoader(entry[i])
             /\ \E j \in Ids : entry'[j] # Absent /\ HasLoader(entry'[j])
                                /\ entry'[j].drive = entry[i].drive
          \/ pc = "undoCreate" /\ op.blind /\ i = op.id]_vars

(* While a repair target with an ESP of its own is selected and the host's *)
(* ESP could be found, the entries of the host's ESP stay exactly as they  *)
(* are, from the first check to the last attempt to undo.                  *)
HostKept ==
    [][op.scope = "target" =>
          \A i \in Existing : entry[i].drive = "host" => entry'[i] = entry[i]]_vars

RouteKept(drive) ==
    (\E i \in PreExisting : pre.entry[i].drive = drive) =>
        \E i \in Existing : entry[i].drive = drive

(* At every moment of a host-default, even if it is killed there, each     *)
(* drive that had an entry has one; the entry that a rollback deletes is    *)
(* another matter.                                                         *)
PruningKeepsRoutes ==
    op.kind = "default" /\ outcome # "failed" /\ pc # "undoNext" =>
        \A drive \in {"host", "other"} : RouteKept(drive)

(* An operation that reports a change made it, whatever calls went wrong:  *)
(* the order and the label are those asked for, a deleted entry is gone    *)
(* from the list and from BootOrder, and the host's one main entry is      *)
(* first while every other drive's entries and everything that BootOrder   *)
(* named and that still exists is where it was.                            *)
ReportIsTrue ==
    pc = "idle" /\ outcome = "changed" =>
        CASE op.kind = "reorder" -> order = op.req /\ entry = pre.entry
          [] op.kind = "delete"  -> op.blind \/ op.id \notin Existing \cup Listed(order)
          [] op.kind = "rename"  -> entry = [pre.entry EXCEPT ![op.id].label = op.label]
          [] op.kind = "default" ->
                /\ Mains = {op.id} /\ order[1] = op.id /\ next = pre.next
                /\ Listed(pre.order) \cap Existing \subseteq Listed(order)
                /\ \A i \in PreExisting :
                      pre.entry[i].drive = "other" => entry[i] = pre.entry[i]

(* If the old BootOrder can be written at all, a reorder or a rename that  *)
(* fails through a single fault leaves the firmware as it was, save for a   *)
(* record that the label updater could not parse when it read it back.  So  *)
(* does a host-default that had got as far as its state file, pruned       *)
(* nothing and met no fault on the way back, save for labels and for a     *)
(* recovery entry that it added, or a new entry that an old BootNext       *)
(* happens to name.                                                        *)
FailureIsUndone ==
    /\ pc = "idle" /\ outcome = "failed"
    /\ pre.order # <<>> /\ Listed(pre.order) \subseteq PreExisting
    =>
    /\ op.kind \in {"reorder", "rename"} /\ faults <= 1 =>
          /\ order = pre.order /\ next = pre.next
          /\ \/ entry = pre.entry
             \/ op.kind = "rename" /\ entry = [pre.entry EXCEPT ![op.id].label = "torn"]
    /\ op.kind = "default" /\ op.state # "" /\ faults = op.before
          /\ PreExisting \subseteq Existing =>
          /\ order = pre.order /\ next = pre.next
          /\ Existing \ PreExisting \subseteq On("host", "wfai") \cup Protected

(* What the code documents and does not keep: whatever host-default does   *)
(* and puts back, each drive that had a boot route has one.                *)
RoutesSurvive ==
    op.kind = "default" => \A drive \in {"host", "other"} : RouteKept(drive)
=============================================================================
