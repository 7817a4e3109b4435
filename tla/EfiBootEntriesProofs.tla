------------------------ MODULE EfiBootEntriesProofs ------------------------
(***************************************************************************)
(* Which entries a step of EfiBootEntries may touch, proved for any number *)
(* of entries and of faults.  The inductive invariant says what each       *)
(* operation knows of the entry it is about to change: it is not the       *)
(* active or next one, it is not the host's when a target is selected, and *)
(* a duplicate that is about to go has another entry of its drive beside   *)
(* it.                                                                     *)
(***************************************************************************)
EXTENDS EfiBootEntries, FiniteSetTheorems, TLAPS

DefaultSteps ==
    {"reconcile", "ensure", "relabelMain", "create", "listCreated", "identify",
     "restoreOrder", "restoreNext", "annotate", "findWfai", "createWfai", "confirmWfai",
     "promote", "confirmPromote", "prune", "pruning", "tidy", "confirmPrune", "group",
     "again", "verifyLabels", "finalCheck", "compare", "undoCheck", "undoOrder",
     "undoCreate", "undoNext"}
LabelSteps == {"relabel", "confirmLabel", "putLabelBack"}
DeleteSteps == {"remove", "confirmRemoved", "recreate", "tidyOrder", "confirmTidied"}
ReorderSteps == {"setOrder", "confirmOrder", "putOrderBack"}

Tables == [Ids -> Entries \cup {Absent}]
Ops == [kind : Kinds \cup {"none"}, scope : Scopes, id : Ids \cup {None},
        label : Labels, req : Orders, state : {"", "reused", "relabeled", "created"},
        uki : BOOLEAN, labels : BOOLEAN, ipxe : BOOLEAN, second : BOOLEAN,
        doomed : SUBSET Ids, gone : SUBSET Ids, blind : BOOLEAN, before : Nat]

IType ==
    /\ entry \in Tables /\ pre.entry \in Tables
    /\ op \in Ops /\ faults \in Nat

IKind ==
    /\ pc \in {"idle"} \cup DefaultSteps \cup LabelSteps \cup DeleteSteps \cup ReorderSteps
    /\ pc \in DefaultSteps => op.kind = "default"
    /\ pc \in LabelSteps => op.kind = "rename"
    /\ pc \in DeleteSteps => op.kind = "delete"
    /\ pc \in ReorderSteps => op.kind = "reorder"
    /\ op.scope = "target" => op.kind \in {"delete", "rename"}
    /\ outcome = "none" \/ pc = "idle"

(* The entry that a deletion or a rename works on.                         *)
IOwned ==
    /\ pc \in LabelSteps \cup DeleteSteps =>
          op.id \in Ids \ Protected /\ pre.entry[op.id] \in Entries
    /\ pc \in LabelSteps \cup {"remove"} =>
          /\ entry[op.id] \in Entries
          /\ op.scope = "target" => entry[op.id].drive # "host"
    /\ pc = "relabelMain" => op.id \in Ids /\ entry[op.id] \in Entries

(* A duplicate leaves another entry of its drive, and one with a loader if *)
(* it is the active or next entry.                                         *)
Stays(i) ==
    \E j \in Ids \ op.doomed :
        /\ entry[j] # Absent /\ entry[j].drive = entry[i].drive
        /\ i \in Protected /\ ~HasLoader(entry[i]) => HasLoader(entry[j])

IDoomed == pc = "pruning" => \A i \in op.doomed : entry[i] # Absent => Stays(i)

IRoutes ==
    /\ pc = "idle" /\ outcome = "none" => pre.entry = entry
    /\ PruningKeepsRoutes

IInv == IType /\ IKind /\ IOwned /\ IDoomed /\ IRoutes

-----------------------------------------------------------------------------
(* The calls.                                                              *)

LEMMA AbsentIsNone == Absent \notin Entries
  BY DEF Absent, Entries

(* A number that exists has an entry. *)
LEMMA Exists ==
    ASSUME entry \in Tables
    PROVE  /\ Existing \subseteq Ids
           /\ \A i \in Ids : i \in Existing <=> entry[i] \in Entries
  BY AbsentIsNone DEF Existing, Tables

(* Removing touches one entry. *)
LEMMA RemoveEffect ==
    ASSUME entry \in Tables, NEW i, NEW done \in BOOLEAN, Remove(i, done), faults \in Nat
    PROVE  /\ entry' \in Tables /\ next' = next /\ faults' \in Nat
           /\ \A j \in Ids : j # i => entry'[j] = entry[j]
           /\ i \in Ids => entry'[i] \in {entry[i], Absent}
  BY DEF Remove, Fine, Fault, Tables

(* Creating touches none that exists. *)
LEMMA CreateEffect ==
    ASSUME entry \in Tables, NEW e \in Entries, NEW i \in Ids, NEW done \in BOOLEAN,
           Create(e, i, done), faults \in Nat
    PROVE  /\ entry' \in Tables /\ next' = next /\ faults' \in Nat
           /\ \A j \in Existing : entry'[j] = entry[j]
  BY Exists DEF Create, Fine, Fault, Tables

(* Relabelling touches one label. *)
LEMMA RelabelEffect ==
    ASSUME entry \in Tables, NEW i \in Existing, NEW label \in Labels,
           NEW done \in BOOLEAN, Relabel(i, label, done), faults \in Nat
    PROVE  /\ entry' \in Tables /\ next' = next /\ faults' \in Nat
           /\ \A j \in Ids : j # i => entry'[j] = entry[j]
           /\ entry'[i] \in Entries /\ entry'[i].drive = entry[i].drive
           /\ entry'[i] = [entry[i] EXCEPT !.label = entry'[i].label]
<1>1. i \in Ids /\ entry[i] \in Entries
  BY Exists
<1>2. faults' \in Nat /\ next' = next
  BY DEF Relabel, Fine, Fault
<1>3. \/ entry' = entry
      \/ \E l \in {label, "torn"} : entry' = [entry EXCEPT ![i] = [entry[i] EXCEPT !.label = l]]
  BY DEF Relabel
<1>4. \A l \in {label, "torn"} : [entry[i] EXCEPT !.label = l] \in Entries
  BY <1>1 DEF Entries, Labels
<1> QED
  BY <1>1, <1>2, <1>3, <1>4 DEF Tables, Entries

(* Writing the order touches no entry. *)
LEMMA OrderEffect ==
    ASSUME NEW s, NEW done \in BOOLEAN, SetOrder(s, done), faults \in Nat
    PROVE  entry' = entry /\ next' = next /\ faults' \in Nat
  BY DEF SetOrder, Fine, Fault

(* Nor does reading. *)
LEMMA ReadEffect ==
    ASSUME NEW seen \in BOOLEAN, Reads(seen), faults \in Nat
    PROVE  faults' \in Nat
  BY DEF Reads, Fine, Fault

-----------------------------------------------------------------------------
(* The steps.                                                              *)

Touch(i) ==
    \/ entry'[i] = entry[i]
    \/ /\ op.kind = "default" /\ entry'[i] \in Entries
       /\ entry'[i] = [entry[i] EXCEPT !.label = entry'[i].label]
    \/ pc \in LabelSteps \cup {"remove"} /\ i = op.id
    \/ pc = "pruning" /\ i \in op.doomed /\ i \notin op'.doomed /\ ~(i \in Protected /\ HasLoader(entry[i]))
    \/ pc = "undoCreate" /\ i = op.id /\ (op.blind \/ i \notin Protected) /\ pc' = "undoNext"

Frame == entry' = entry /\ next' = next /\ current' = current /\ pre' = pre /\ faults' \in Nat

(* What a step may do to the entries that exist.                           *)
Effect ==
    /\ entry' \in Tables /\ next' = next /\ current' = current /\ pre' = pre /\ faults' \in Nat
    /\ \A i \in Existing : Touch(i)

LEMMA FrameEffect == IType /\ Frame => Effect
  BY DEF IType, Frame, Effect, Touch, Existing

LEMMA FailSteady ==
    Fail => /\ current' = current /\ pre' = pre /\ op' = op
            /\ \/ pc' = "idle" /\ outcome' = "failed"
               \/ pc' = "undoCheck" /\ outcome' = outcome
  BY DEF Fail, End, Goto

(* Most steps touch no entry. *)
Quiet ==
    \/ \E s \in Orders \ {<<>>} : Reorder(s)
    \/ \E scope \in Scopes, i \in Ids :
                 Delete(scope, i) \/ \E label \in Texts : Rename(scope, i, label)
    \/ \E uki, labels, ipxe \in BOOLEAN : HostDefault(uki, labels, ipxe)
    \/ WriteOrder \/ ConfirmOrder \/ PutOrderBack \/ ConfirmRemoved
    \/ TidyOrder \/ ConfirmTidied \/ ConfirmLabel \/ Reconcile \/ Ensure
    \/ ListCreated \/ Identify \/ RestoreOrder \/ RestoreNext \/ ConfirmWfai
    \/ Promote \/ ConfirmPromote \/ Prune \/ Tidy \/ ConfirmPrune \/ Group
    \/ Again \/ VerifyLabels \/ FinalCheck \/ Compare \/ UndoOrder
    \/ FindWfai \/ UndoCheck \/ UndoNext

LEMMA QuietStep ==
    ASSUME faults \in Nat, Quiet
    PROVE  Frame
<1> USE FailSteady DEF Frame, Same, nvram, Fine, Fault, Reads
<1>1. CASE \E s \in Orders \ {<<>>} : Reorder(s)
  BY <1>1 DEF Reorder, Asked, Start, Set, End
<1>2. CASE \E scope \in Scopes, i \in Ids : Delete(scope, i)
  BY <1>2 DEF Delete, Asked, Start, Set, End
<1>3. CASE \E scope \in Scopes, i \in Ids, label \in Texts : Rename(scope, i, label)
  BY <1>3 DEF Rename, Asked, Start, Set, End
<1>4. CASE \E uki, labels, ipxe \in BOOLEAN : HostDefault(uki, labels, ipxe)
  BY <1>4 DEF HostDefault, Asked, Start, Set, End
<1>5. CASE WriteOrder
  BY <1>5 DEF WriteOrder, Goto, Set, End, Then, Unread, Refused, SetOrder
<1>6. CASE ConfirmOrder
  BY <1>6 DEF ConfirmOrder, Goto, Set, End, Unread, Refused
<1>7. CASE PutOrderBack
  BY <1>7 DEF PutOrderBack, Goto, Set, End, Then, Unread, Refused, SetOrder
<1>8. CASE ConfirmRemoved
  BY <1>8 DEF ConfirmRemoved, Goto, Set, EndBlind, End, Unread, Refused
<1>9. CASE TidyOrder
  BY <1>9 DEF TidyOrder, Goto, Set, End, Then, Unread, Refused, SetOrder
<1>10. CASE ConfirmTidied
  BY <1>10 DEF ConfirmTidied, Goto, Set, EndBlind, End, Unread, Refused
<1>11. CASE ConfirmLabel
  BY <1>11 DEF ConfirmLabel, Goto, Set, End, Unread, Refused
<1>12. CASE Reconcile
  BY <1>12 DEF Reconcile, Goto, Set, End, Unread, Refused
<1>13. CASE Ensure
  <2>1. entry' = entry /\ next' = next
    BY <1>13 DEF Ensure
  <2> HIDE DEF Reads, Fine, Fault
  <2>2. faults' \in Nat
    BY <1>13, ReadEffect DEF Ensure
  <2>3. current' = current /\ pre' = pre
    BY <1>13 DEF Ensure, Goto, Set
  <2> QED
    BY <2>1, <2>2, <2>3
<1>14. CASE ListCreated
  BY <1>14 DEF ListCreated, Goto, Set, End, Unread, Refused
<1>15. CASE Identify
  <2>1. entry' = entry /\ next' = next
    BY <1>15 DEF Identify
  <2> HIDE DEF Reads, Fine, Fault
  <2>2. faults' \in Nat
    BY <1>15, ReadEffect DEF Identify
  <2>3. current' = current /\ pre' = pre
    BY <1>15 DEF Identify, Goto, Set
  <2> QED
    BY <2>1, <2>2, <2>3
<1>16. CASE RestoreOrder
  BY <1>16 DEF RestoreOrder, Goto, Set, End, Then, Unread, Refused, SetOrder
<1>17. CASE RestoreNext
  BY <1>17 DEF RestoreNext, Goto, Set, End, Unread, Refused
<1>18. CASE ConfirmWfai
  BY <1>18 DEF ConfirmWfai, Goto, Set, End, Unread, Refused
<1>19. CASE Promote
  BY <1>19 DEF Promote, Goto, Set, End, Then, Unread, Refused, SetOrder
<1>20. CASE ConfirmPromote
  BY <1>20 DEF ConfirmPromote, Goto, Set, End, Unread, Refused
<1>21. CASE Prune
  BY <1>21 DEF Prune, Goto, Set, End, Unread, Refused
<1>22. CASE Tidy
  BY <1>22 DEF Tidy, Goto, Set, End, Then, Unread, Refused, SetOrder
<1>23. CASE ConfirmPrune
  BY <1>23 DEF ConfirmPrune, Goto, Set, End, Unread, Refused
<1>24. CASE Group
  BY <1>24 DEF Group, Goto, Set, End, Then, Unread, Refused, SetOrder
<1>25. CASE Again
  BY <1>25 DEF Again, Goto, Set, End, Unread, Refused
<1>26. CASE VerifyLabels
  BY <1>26 DEF VerifyLabels, Goto, Set, End, Unread, Refused
<1>27. CASE FinalCheck
  BY <1>27 DEF FinalCheck, Goto, Set, End, Unread, Refused
<1>28. CASE Compare
  BY <1>28 DEF Compare, Goto, Set, End, Unread, Refused
<1>29. CASE UndoOrder
  BY <1>29 DEF UndoOrder, Goto, Set, End, Then, Unread, Refused, SetOrder
<1>30. CASE FindWfai
  BY <1>30 DEF FindWfai, Goto
<1>31. CASE UndoCheck
  BY <1>31 DEF UndoCheck, Set
<1>32. CASE UndoNext
  BY <1>32 DEF UndoNext, End
<1> QED
  BY <1>1, <1>2, <1>3, <1>4, <1>5, <1>6, <1>7, <1>8, <1>9, <1>10, <1>11, <1>12,
     <1>13, <1>14, <1>15, <1>16, <1>17, <1>18, <1>19, <1>20, <1>21, <1>22,
     <1>23, <1>24, <1>25, <1>26, <1>27, <1>28, <1>29, <1>30, <1>31, <1>32 DEF Quiet

LEMMA NoOpType == NoOp \in Ops
<1>1. <<>> \in Orders
  <2>1. Cardinality(Ids) \in Nat
    BY FS_CardinalityType, EfiAssumption
  <2>2. 0 \in 0..Cardinality(Ids)
    BY <2>1
  <2>3. <<>> \in [1..0 -> Ids]
    OBVIOUS
  <2>4. <<>> \in UNION {[1..n -> Ids] : n \in 0..Cardinality(Ids)}
    BY <2>2, <2>3
  <2> QED
    BY <2>4 DEF Orders
<1> QED
  BY <1>1 DEF NoOp, Ops, Kinds, Labels, Texts, Scopes

-----------------------------------------------------------------------------
(* The locals: the requests, and what each step changes of them.           *)

States == {"", "reused", "relabeled", "created"}
SameRequest(o) == o \in Ops /\ o.kind = op.kind /\ o.scope = op.scope

LEMMA UseOp ==
    ASSUME op \in Ops, NEW i \in Ids, NEW state \in States
    PROVE  LET o == [op EXCEPT !.id = i, !.state = state] IN SameRequest(o) /\ o.id = i
  BY DEF Ops, States, SameRequest

LEMMA StateOp ==
    ASSUME op \in Ops, NEW state \in States
    PROVE  LET o == [op EXCEPT !.state = state] IN SameRequest(o) /\ o.id = op.id
  BY DEF Ops, States, SameRequest

LEMMA DoomedOp ==
    ASSUME op \in Ops, NEW D \in SUBSET Ids
    PROVE  LET o == [op EXCEPT !.doomed = D] IN SameRequest(o) /\ o.doomed = D
  BY DEF Ops, SameRequest

LEMMA GoneOp ==
    ASSUME op \in Ops, NEW i \in Ids
    PROVE  LET o == [op EXCEPT !.doomed = @ \ {i}, !.gone = @ \cup {i}]
           IN  SameRequest(o) /\ o.doomed = op.doomed \ {i}
  BY DEF Ops, SameRequest

LEMMA ReqOp ==
    ASSUME op \in Ops, NEW s \in Orders
    PROVE  SameRequest([op EXCEPT !.req = s])
  BY DEF Ops, SameRequest

LEMMA FlagOp ==
    ASSUME op \in Ops, NEW f \in Nat, NEW b \in BOOLEAN
    PROVE  /\ SameRequest([op EXCEPT !.second = TRUE])
           /\ SameRequest([op EXCEPT !.blind = TRUE])
           /\ SameRequest([op EXCEPT !.before = f, !.blind = b])
           /\ SameRequest(op)
  BY DEF Ops, SameRequest

LEMMA OnIds == \A drive, role : On(drive, role) \subseteq Existing /\ Existing \subseteq Ids
  BY DEF On, Existing

LEMMA DeleteStep ==
    ASSUME NEW scope \in Scopes, NEW i \in Ids, Delete(scope, i)
    PROVE  /\ pc = "idle" /\ outcome = "none"
           /\ \/ op' = op /\ pc' = "idle" /\ outcome' # "none"
              \/ /\ op' \in Ops /\ op'.kind = "delete" /\ op'.scope = scope /\ op'.id = i
                 /\ pc' = "remove" /\ outcome' = outcome
<1> DEFINE o == [NoOp EXCEPT !.kind = "delete", !.scope = scope, !.id = i]
<1>1. o \in Ops /\ o.kind = "delete" /\ o.scope = scope /\ o.id = i
  BY NoOpType DEF Ops, NoOp, Kinds, Labels
<1>2. /\ pc = "idle" /\ outcome = "none"
      /\ \/ op' = op /\ pc' = "idle" /\ outcome' # "none"
         \/ op' = o /\ pc' = "remove" /\ outcome' = outcome
  BY DEF Delete, Asked, Start, Set, End
<1> HIDE DEF o
<1> QED
  BY <1>1, <1>2

LEMMA RenameStep ==
    ASSUME NEW scope \in Scopes, NEW i \in Ids, NEW label \in Texts, Rename(scope, i, label)
    PROVE  /\ pc = "idle" /\ outcome = "none"
           /\ \/ op' = op /\ pc' = "idle" /\ outcome' # "none"
              \/ /\ op' \in Ops /\ op'.kind = "rename" /\ op'.scope = scope /\ op'.id = i
                 /\ pc' = "relabel" /\ outcome' = outcome
<1> DEFINE o == [NoOp EXCEPT !.kind = "rename", !.scope = scope, !.id = i,
                            !.label = label]
<1>1. o \in Ops /\ o.kind = "rename" /\ o.scope = scope /\ o.id = i
  BY NoOpType DEF Ops, NoOp, Kinds, Labels
<1>2. /\ pc = "idle" /\ outcome = "none"
      /\ \/ op' = op /\ pc' = "idle" /\ outcome' # "none"
         \/ op' = o /\ pc' = "relabel" /\ outcome' = outcome
  BY DEF Rename, Asked, Start, Set, End
<1> HIDE DEF o
<1> QED
  BY <1>1, <1>2

LEMMA HostDefaultStep ==
    ASSUME NEW uki \in BOOLEAN, NEW labels \in BOOLEAN, NEW ipxe \in BOOLEAN, HostDefault(uki, labels, ipxe)
    PROVE  /\ pc = "idle" /\ outcome = "none"
           /\ \/ op' = op /\ pc' = "idle" /\ outcome' # "none"
              \/ /\ op' \in Ops /\ op'.kind = "default" /\ op'.scope = "host"
                 /\ pc' = "reconcile" /\ outcome' = outcome
<1> DEFINE o == [NoOp EXCEPT !.kind = "default", !.uki = uki,
                            !.labels = labels, !.ipxe = ipxe]
<1>1. o \in Ops /\ o.kind = "default" /\ o.scope = "host"
  BY NoOpType DEF Ops, NoOp, Kinds, Labels
<1>2. /\ pc = "idle" /\ outcome = "none"
      /\ \/ op' = op /\ pc' = "idle" /\ outcome' # "none"
         \/ op' = o /\ pc' = "reconcile" /\ outcome' = outcome
  BY DEF HostDefault, Asked, Start, Set, End
<1> HIDE DEF o
<1> QED
  BY <1>1, <1>2

LEMMA ReorderStep ==
    ASSUME NEW s \in Orders \ {<<>>}, Reorder(s)
    PROVE  /\ pc = "idle" /\ outcome = "none"
           /\ \/ op' = op /\ pc' = "idle" /\ outcome' # "none"
              \/ /\ op' \in Ops /\ op'.kind = "reorder" /\ op'.scope = "host"
                 /\ pc' = "setOrder" /\ outcome' = outcome
<1> DEFINE o == [NoOp EXCEPT !.kind = "reorder", !.req = s]
<1>1. o \in Ops /\ o.kind = "reorder" /\ o.scope = "host"
  BY NoOpType DEF Ops, NoOp, Kinds, Labels
<1>2. /\ pc = "idle" /\ outcome = "none"
      /\ \/ op' = op /\ pc' = "idle" /\ outcome' # "none"
         \/ op' = o /\ pc' = "setOrder" /\ outcome' = outcome
  BY DEF Reorder, Asked, Start, Set, End
<1> HIDE DEF o
<1> QED
  BY <1>1, <1>2

(* The locals keep their types, and a running operation its request. *)
LEMMA OpStep ==
    ASSUME op \in Ops, faults \in Nat, [Next]_vars
    PROVE  op' \in Ops /\ (pc # "idle" => SameRequest(op'))
<1>0. SameRequest(op)
  BY DEF SameRequest
<1> USE <1>0 DEF SameRequest
<1>1. CASE \E s \in Orders \ {<<>>} : Reorder(s)
  BY <1>1, ReorderStep
<1>2. CASE \E scope \in Scopes, i \in Ids : Delete(scope, i)
  BY <1>2, DeleteStep
<1>3. CASE \E scope \in Scopes, i \in Ids, label \in Texts : Rename(scope, i, label)
  BY <1>3, RenameStep
<1>4. CASE \E uki, labels, ipxe \in BOOLEAN : HostDefault(uki, labels, ipxe)
  BY <1>4, HostDefaultStep
<1>5. CASE WriteOrder
  BY <1>5 DEF WriteOrder, Goto, End
<1>6. CASE ConfirmOrder
  BY <1>6 DEF ConfirmOrder, Goto, End
<1>7. CASE PutOrderBack
  BY <1>7 DEF PutOrderBack, End
<1>8. CASE RemoveEntry
  BY <1>8 DEF RemoveEntry, Goto, End
<1>9. CASE ConfirmRemoved
  BY <1>9, FlagOp DEF ConfirmRemoved, Goto, EndBlind, End
<1>10. CASE Recreate
  BY <1>10 DEF Recreate, End
<1>11. CASE TidyOrder
  BY <1>11 DEF TidyOrder, Goto, End
<1>12. CASE ConfirmTidied
  BY <1>12, FlagOp DEF ConfirmTidied, EndBlind, End
<1>13. CASE WriteLabel
  BY <1>13 DEF WriteLabel, Goto, End
<1>14. CASE ConfirmLabel
  BY <1>14 DEF ConfirmLabel, Goto, End
<1>15. CASE PutLabelBack
  BY <1>15 DEF PutLabelBack, End
<1>16. CASE Reconcile
  BY <1>16, FailSteady DEF Reconcile, Goto
<1>17. CASE Ensure
  <2>1. \/ op' = op
        \/ \E i \in Ids, state \in States : op' = [op EXCEPT !.id = i, !.state = state]
    BY <1>17, FailSteady, OnIds DEF Ensure, Goto, Set, Mains, States
  <2>2. CASE op' # op
    <3>1. PICK i \in Ids, state \in States : op' = [op EXCEPT !.id = i, !.state = state]
      BY <2>1, <2>2
    <3> QED
      BY <3>1, UseOp
  <2> QED
    BY <2>2
<1>18. CASE RelabelMain
  BY <1>18, FailSteady, StateOp DEF RelabelMain, Set, States
<1>19. CASE CreateMain
  BY <1>19, FailSteady DEF CreateMain, Goto
<1>20. CASE ListCreated
  BY <1>20, FailSteady DEF ListCreated, Goto
<1>21. CASE Identify
  <2>1. op' = op \/ \E i \in Ids, state \in States : op' = [op EXCEPT !.id = i, !.state = state]
    BY <1>21, FailSteady, OnIds DEF Identify, Set, Mains, States
  <2>2. CASE op' # op
    <3>1. PICK i \in Ids, state \in States : op' = [op EXCEPT !.id = i, !.state = state]
      BY <2>1, <2>2
    <3> QED
      BY <3>1, UseOp
  <2> QED
    BY <2>2
<1>22. CASE RestoreOrder
  BY <1>22, FailSteady DEF RestoreOrder, Then, Unread, Refused, Goto
<1>23. CASE RestoreNext
  BY <1>23, FailSteady DEF RestoreNext, Goto
<1>24. CASE Annotate
  BY <1>24, FailSteady DEF Annotate, Goto, Then, Unread
<1>25. CASE ConfirmWfai
  BY <1>25, FailSteady DEF ConfirmWfai, Goto
<1>26. CASE Promote
  <2>1. op' = op \/ \E s \in Orders : op' = [op EXCEPT !.req = s]
    BY <1>26, FailSteady DEF Promote, Goto, Set, Unread, Refused
  <2>2. CASE op' # op
    <3>1. PICK s \in Orders : op' = [op EXCEPT !.req = s]
      BY <2>1, <2>2
    <3> QED
      BY <3>1, ReqOp
  <2> QED
    BY <2>2
<1>27. CASE ConfirmPromote
  BY <1>27, FailSteady DEF ConfirmPromote, Goto
<1>28. CASE Prune
  <2>1. op' = op \/ \E D \in SUBSET Ids : op' = [op EXCEPT !.doomed = D]
    BY <1>28, FailSteady DEF Prune, Goto, Set, Existing
  <2>2. CASE op' # op
    <3>1. PICK D \in SUBSET Ids : op' = [op EXCEPT !.doomed = D]
      BY <2>1, <2>2
    <3> QED
      BY <3>1, DoomedOp
  <2> QED
    BY <2>2
<1>29. CASE PruneOne
  <2>1. op' = op \/ \E i \in op.doomed : op' = [op EXCEPT !.doomed = op.doomed \ {i}, !.gone = op.gone \cup {i}]
    BY <1>29, FailSteady DEF PruneOne, Set, Refused
  <2>2. CASE op' # op
    <3>1. PICK i \in op.doomed : op' = [op EXCEPT !.doomed = op.doomed \ {i}, !.gone = op.gone \cup {i}]
      BY <2>1, <2>2
    <3> QED
      BY <3>1, GoneOp DEF Ops
  <2> QED
    BY <2>2
<1>30. CASE Tidy
  BY <1>30, FailSteady DEF Tidy, Goto, Then, Unread
<1>31. CASE ConfirmPrune
  BY <1>31, FailSteady DEF ConfirmPrune, Goto
<1>32. CASE Group
  BY <1>32, FailSteady DEF Group, Goto, Then, Unread
<1>33. CASE Again
  BY <1>33, FlagOp DEF Again, Set
<1>34. CASE VerifyLabels
  BY <1>34, FailSteady DEF VerifyLabels, Goto
<1>35. CASE FinalCheck
  BY <1>35, FailSteady DEF FinalCheck, Goto
<1>36. CASE Compare
  BY <1>36 DEF Compare, End
<1>37. CASE UndoOrder
  BY <1>37 DEF UndoOrder, Goto
<1>38. CASE UndoCreate
  BY <1>38 DEF UndoCreate, Goto
<1>39. CASE UNCHANGED vars
  BY <1>39 DEF vars
<1>41. CASE FindWfai
  BY <1>41 DEF FindWfai, Goto
<1>42. CASE CreateWfai
  BY <1>42, FailSteady DEF CreateWfai, Goto, Then
<1>43. CASE UndoCheck
  BY <1>43, FlagOp DEF UndoCheck, Set
<1>44. CASE UndoNext
  BY <1>44 DEF UndoNext, End
<1> QED
  BY <1>1, <1>2, <1>3, <1>4, <1>5, <1>6, <1>7, <1>8, <1>9, <1>10,
     <1>11, <1>12, <1>13, <1>14, <1>15, <1>16, <1>17, <1>18, <1>19, <1>20,
     <1>21, <1>22, <1>23, <1>24, <1>25, <1>26, <1>27, <1>28, <1>29, <1>30,
     <1>31, <1>32, <1>33, <1>34, <1>35, <1>36, <1>37, <1>38, <1>39,
     <1>41, <1>42, <1>43, <1>44 DEF Next

(* Each operation keeps to its own steps. *)
LEMMA KindStep ==
    ASSUME op \in Ops, faults \in Nat, IKind, [Next]_vars
    PROVE  IKind'
<1>0. pc # "idle" => op'.kind = op.kind /\ op'.scope = op.scope
  BY OpStep DEF SameRequest
<1> USE <1>0 DEF IKind, DefaultSteps, LabelSteps, DeleteSteps, ReorderSteps
<1>1. CASE \E s \in Orders \ {<<>>} : Reorder(s)
  BY <1>1, ReorderStep
<1>2. CASE \E scope \in Scopes, i \in Ids : Delete(scope, i)
  BY <1>2, DeleteStep
<1>3. CASE \E scope \in Scopes, i \in Ids, label \in Texts : Rename(scope, i, label)
  BY <1>3, RenameStep
<1>4. CASE \E uki, labels, ipxe \in BOOLEAN : HostDefault(uki, labels, ipxe)
  BY <1>4, HostDefaultStep
<1>5. CASE WriteOrder
  BY <1>5 DEF WriteOrder, Goto, End
<1>6. CASE ConfirmOrder
  BY <1>6 DEF ConfirmOrder, Goto, End
<1>7. CASE PutOrderBack
  BY <1>7 DEF PutOrderBack, End
<1>8. CASE RemoveEntry
  BY <1>8 DEF RemoveEntry, Goto, End
<1>9. CASE ConfirmRemoved
  BY <1>9 DEF ConfirmRemoved, Goto, EndBlind, End
<1>10. CASE Recreate
  BY <1>10 DEF Recreate, End
<1>11. CASE TidyOrder
  BY <1>11 DEF TidyOrder, Goto, End
<1>12. CASE ConfirmTidied
  BY <1>12, FlagOp DEF ConfirmTidied, EndBlind, End
<1>13. CASE WriteLabel
  BY <1>13 DEF WriteLabel, Goto, End
<1>14. CASE ConfirmLabel
  BY <1>14 DEF ConfirmLabel, Goto, End
<1>15. CASE PutLabelBack
  BY <1>15 DEF PutLabelBack, End
<1>16. CASE Reconcile
  BY <1>16, FailSteady DEF Reconcile, Goto
<1>17. CASE Ensure
  BY <1>17, FailSteady DEF Ensure, Goto, Set
<1>18. CASE RelabelMain
  BY <1>18, FailSteady DEF RelabelMain, Set
<1>19. CASE CreateMain
  BY <1>19, FailSteady DEF CreateMain, Goto
<1>20. CASE ListCreated
  BY <1>20, FailSteady DEF ListCreated, Goto
<1>21. CASE Identify
  BY <1>21, FailSteady DEF Identify, Set
<1>22. CASE RestoreOrder
  BY <1>22, FailSteady DEF RestoreOrder, Then, Unread, Refused, Goto
<1>23. CASE RestoreNext
  BY <1>23, FailSteady DEF RestoreNext, Goto
<1>24. CASE Annotate
  BY <1>24, FailSteady DEF Annotate, Goto, Then, Unread, AfterAnnotate
<1>25. CASE ConfirmWfai
  BY <1>25, FailSteady DEF ConfirmWfai, Goto, AfterAnnotate
<1>26. CASE Promote
  BY <1>26, FailSteady DEF Promote, Goto, Set, Unread, Refused
<1>27. CASE ConfirmPromote
  BY <1>27, FailSteady DEF ConfirmPromote, Goto
<1>28. CASE Prune
  BY <1>28, FailSteady DEF Prune, Goto, Set
<1>29. CASE PruneOne
  BY <1>29, FailSteady DEF PruneOne, Set, Refused
<1>30. CASE Tidy
  BY <1>30, FailSteady DEF Tidy, Goto, Then, Unread
<1>31. CASE ConfirmPrune
  BY <1>31, FailSteady DEF ConfirmPrune, Goto
<1>32. CASE Group
  BY <1>32, FailSteady DEF Group, Goto, Then, Unread
<1>33. CASE Again
  BY <1>33 DEF Again, Set
<1>34. CASE VerifyLabels
  BY <1>34, FailSteady DEF VerifyLabels, Goto
<1>35. CASE FinalCheck
  BY <1>35, FailSteady DEF FinalCheck, Goto
<1>36. CASE Compare
  BY <1>36 DEF Compare, End
<1>37. CASE UndoOrder
  BY <1>37 DEF UndoOrder, Goto
<1>38. CASE UndoCreate
  BY <1>38 DEF UndoCreate, Goto
<1>39. CASE UNCHANGED vars
  BY <1>39 DEF vars
<1>41. CASE FindWfai
  BY <1>41 DEF FindWfai, Goto, AfterAnnotate
<1>42. CASE CreateWfai
  BY <1>42, FailSteady DEF CreateWfai, Goto, Then
<1>43. CASE UndoCheck
  BY <1>43 DEF UndoCheck, Set
<1>44. CASE UndoNext
  BY <1>44 DEF UndoNext, End
<1> QED
  BY <1>1, <1>2, <1>3, <1>4, <1>5, <1>6, <1>7, <1>8, <1>9, <1>10,
     <1>11, <1>12, <1>13, <1>14, <1>15, <1>16, <1>17, <1>18, <1>19, <1>20,
     <1>21, <1>22, <1>23, <1>24, <1>25, <1>26, <1>27, <1>28, <1>29, <1>30,
     <1>31, <1>32, <1>33, <1>34, <1>35, <1>36, <1>37, <1>38, <1>39,
     <1>41, <1>42, <1>43, <1>44 DEF Next

-----------------------------------------------------------------------------
(* The entries.                                                            *)

LEMMA RemoveEntryTouch == ASSUME IInv, RemoveEntry PROVE Effect
<1>1. PICK done \in BOOLEAN : Remove(op.id, done)
  BY DEF RemoveEntry
<1>2. entry \in Tables /\ faults \in Nat
  BY DEF IInv, IType
<1>3. /\ entry' \in Tables /\ next' = next /\ faults' \in Nat
      /\ \A j \in Ids : j # op.id => entry'[j] = entry[j]
  BY <1>1, <1>2, RemoveEffect
<1>4. pc = "remove" /\ current' = current /\ pre' = pre
  BY DEF RemoveEntry, Goto, End
<1> QED
  BY <1>2, <1>3, <1>4, Exists DEF Effect, Touch

LEMMA RecreateTouch == ASSUME IInv, Recreate PROVE Effect
<1>1. entry \in Tables /\ faults \in Nat /\ pc = "recreate" /\ pre.entry[op.id] \in Entries
  BY DEF IInv, IType, IOwned, Recreate, DeleteSteps
<1>2. current' = current /\ pre' = pre
  BY DEF Recreate, End
<1>3. CASE \E i \in Ids, done \in BOOLEAN : Create(pre.entry[op.id], i, done)
  <2>1. PICK i \in Ids, done \in BOOLEAN : Create(pre.entry[op.id], i, done)
    BY <1>3
  <2>2. /\ entry' \in Tables /\ next' = next /\ faults' \in Nat
        /\ \A j \in Existing : entry'[j] = entry[j]
    BY <1>1, <2>1, CreateEffect
  <2> QED
    BY <1>2, <2>2 DEF Effect, Touch
<1>4. CASE Fine /\ Same
  BY <1>1, <1>2, <1>4 DEF Fine, Same, nvram, Effect, Touch, Existing
<1> QED
  BY <1>3, <1>4 DEF Recreate

LEMMA LabelTouch ==
    ASSUME IInv, NEW label \in Labels, NEW done \in BOOLEAN,
           pc \in {"relabel", "putLabelBack"}, Relabel(op.id, label, done),
           current' = current, pre' = pre
    PROVE  /\ Effect
           /\ entry'[op.id] \in Entries /\ entry'[op.id].drive = entry[op.id].drive
<1>1. entry \in Tables /\ faults \in Nat /\ op.id \in Existing
  BY AbsentIsNone DEF IInv, IType, IOwned, LabelSteps, Existing
<1>2. /\ entry' \in Tables /\ next' = next /\ faults' \in Nat
      /\ \A j \in Ids : j # op.id => entry'[j] = entry[j]
      /\ entry'[op.id] \in Entries /\ entry'[op.id].drive = entry[op.id].drive
  BY <1>1, RelabelEffect
<1> QED
  BY <1>1, <1>2, Exists DEF Effect, Touch, LabelSteps

LEMMA WriteLabelTouch ==
    ASSUME IInv, WriteLabel
    PROVE  Effect /\ entry'[op.id] \in Entries /\ entry'[op.id].drive = entry[op.id].drive
<1>1. PICK done \in BOOLEAN : Relabel(op.id, op.label, done)
  BY DEF WriteLabel
<1>2. op.label \in Labels
  BY DEF IInv, IType, Ops
<1>3. pc = "relabel" /\ current' = current /\ pre' = pre
  BY DEF WriteLabel, Goto, End
<1> QED
  BY <1>1, <1>2, <1>3, LabelTouch

LEMMA PutLabelBackTouch ==
    ASSUME IInv, PutLabelBack
    PROVE  Effect /\ entry'[op.id] \in Entries /\ entry'[op.id].drive = entry[op.id].drive
<1>1. PICK done \in BOOLEAN : Relabel(op.id, pre.entry[op.id].label, done)
  BY DEF PutLabelBack
<1>2. pre.entry[op.id].label \in Labels
  BY DEF IInv, IOwned, PutLabelBack, LabelSteps, Entries
<1>3. pc = "putLabelBack" /\ current' = current /\ pre' = pre
  BY DEF PutLabelBack, End
<1> QED
  BY <1>1, <1>2, <1>3, LabelTouch

LEMMA DefaultLabelTouch ==
    ASSUME IInv, op.kind = "default", NEW i \in Existing, NEW done \in BOOLEAN,
           Relabel(i, "good", done), current' = current, pre' = pre
    PROVE  Effect
<1>1. entry \in Tables /\ faults \in Nat /\ "good" \in Labels
  BY DEF IInv, IType, Labels, Texts
<1>2. /\ entry' \in Tables /\ next' = next /\ faults' \in Nat
      /\ \A j \in Ids : j # i => entry'[j] = entry[j]
      /\ entry'[i] \in Entries
      /\ entry'[i] = [entry[i] EXCEPT !.label = entry'[i].label]
  BY <1>1, RelabelEffect
<1>3. ASSUME NEW j \in Existing
      PROVE  Touch(j)
  <2>1. CASE j = i
    BY <1>2, <2>1 DEF Touch
  <2>2. CASE j # i
    BY <1>1, <1>2, <2>2, Exists DEF Touch
  <2> QED
    BY <2>1, <2>2
<1> QED
  BY <1>2, <1>3 DEF Effect

LEMMA DefaultCreateTouch ==
    ASSUME IInv, NEW e \in Entries, NEW i \in Ids, NEW done \in BOOLEAN,
           Create(e, i, done), current' = current, pre' = pre
    PROVE  Effect
<1>1. entry \in Tables /\ faults \in Nat
  BY DEF IInv, IType
<1>2. /\ entry' \in Tables /\ next' = next /\ faults' \in Nat
      /\ \A j \in Existing : entry'[j] = entry[j]
  BY <1>1, CreateEffect
<1> QED
  BY <1>2 DEF Effect, Touch

LEMMA RelabelMainTouch == ASSUME IInv, RelabelMain PROVE Effect
<1>1. PICK done \in BOOLEAN : Relabel(op.id, "good", done)
  BY DEF RelabelMain
<1>2. pc = "relabelMain" /\ current' = current /\ pre' = pre
  BY FailSteady DEF RelabelMain, Set
<1>3. op.id \in Existing /\ op.kind = "default"
  BY <1>2, AbsentIsNone DEF IInv, IOwned, IKind, DefaultSteps, Existing
<1> QED
  BY <1>1, <1>2, <1>3, DefaultLabelTouch

LEMMA CreateMainTouch == ASSUME IInv, CreateMain PROVE Effect
<1> DEFINE e == [drive |-> "host", role |-> "main", label |-> "good"]
<1>1. e \in Entries
  BY DEF Entries, Roles, Labels, Texts
<1>2. PICK i \in Ids, done \in BOOLEAN : Create(e, i, done)
  BY DEF CreateMain
<1>3. current' = current /\ pre' = pre
  BY FailSteady DEF CreateMain, Goto
<1> HIDE DEF e
<1> QED
  BY <1>1, <1>2, <1>3, DefaultCreateTouch

LEMMA AnnotateTouch == ASSUME IInv, Annotate PROVE Effect
<1>1. pc = "annotate" /\ current' = current /\ pre' = pre
  BY FailSteady DEF Annotate, Goto, Then, Unread
<1>2. op.kind = "default" /\ IType
  BY <1>1 DEF IInv, IKind, DefaultSteps
<1>3. CASE Same /\ (Fine \/ Fault)
  BY <1>1, <1>2, <1>3, FrameEffect, EfiAssumption
     DEF Same, nvram, Frame, Fine, Fault, IType
<1>4. CASE \E i \in Unlabelled, done \in BOOLEAN : Relabel(i, "good", done)
  <2>1. PICK i \in Unlabelled, done \in BOOLEAN : Relabel(i, "good", done)
    BY <1>4
  <2>2. i \in Existing
    BY DEF Unlabelled
  <2> QED
    BY <1>1, <1>2, <2>1, <2>2, DefaultLabelTouch
<1> QED
  BY <1>3, <1>4 DEF Annotate, Unread

LEMMA CreateWfaiTouch == ASSUME IInv, CreateWfai PROVE Effect
<1> DEFINE e == [drive |-> "host", role |-> "wfai", label |-> "good"]
<1>1. e \in Entries
  BY DEF Entries, Roles, Labels, Texts
<1>2. PICK i \in Ids, done \in BOOLEAN : Create(e, i, done)
  BY DEF CreateWfai
<1>3. current' = current /\ pre' = pre
  BY FailSteady DEF CreateWfai, Goto, Then
<1> HIDE DEF e
<1> QED
  BY <1>1, <1>2, <1>3, DefaultCreateTouch

(* What happens to the duplicates, besides.                                *)
LEMMA PruneOneTouch ==
    ASSUME IInv, PruneOne
    PROVE  /\ Effect /\ op'.doomed \subseteq op.doomed
           /\ \A j \in Ids \ op.doomed : entry'[j] = entry[j]
<1>1. entry \in Tables /\ faults \in Nat /\ op \in Ops /\ op.doomed \subseteq Ids
  BY DEF IInv, IType, Ops
<1>2. PICK i \in op.doomed :
        \/ Refused(~(i \in Protected /\ HasLoader(entry[i])))
        \/ /\ ~(i \in Protected /\ HasLoader(entry[i]))
           /\ \E done \in BOOLEAN :
                /\ Remove(i, done)
                /\ IF done
                   THEN Set(IF op.doomed = {i} THEN "tidy" ELSE "pruning",
                            [op EXCEPT !.doomed = @ \ {i}, !.gone = @ \cup {i}])
                   ELSE Fail
  BY DEF PruneOne
<1>3. pc = "pruning" /\ current' = current /\ pre' = pre
  BY FailSteady DEF PruneOne, Set, Refused
<1>4. CASE Refused(~(i \in Protected /\ HasLoader(entry[i])))
  <2>1. entry' = entry /\ next' = next /\ op' = op /\ faults' = faults
    BY <1>4, FailSteady DEF Refused, Same, nvram, Fine
  <2> QED
    BY <1>1, <1>3, <2>1 DEF Effect, Touch, Existing
<1>5. CASE ~Refused(~(i \in Protected /\ HasLoader(entry[i])))
  <2>1. PICK done \in BOOLEAN :
          /\ Remove(i, done)
          /\ IF done
             THEN op' = [op EXCEPT !.doomed = @ \ {i}, !.gone = @ \cup {i}]
             ELSE Fail
    BY <1>2, <1>5 DEF Set
  <2>2. ~(i \in Protected /\ HasLoader(entry[i]))
    BY <1>2, <1>5
  <2>3. /\ entry' \in Tables /\ next' = next /\ faults' \in Nat
        /\ \A j \in Ids : j # i => entry'[j] = entry[j]
    BY <1>1, <2>1, RemoveEffect
  <2>4. CASE ~done
    <3>1. entry' = entry /\ op' = op
      BY <2>1, <2>4, FailSteady DEF Remove
    <3> QED
      BY <1>1, <1>3, <2>3, <3>1 DEF Effect, Touch, Existing
  <2>5. CASE done
    <3>1. op'.doomed = op.doomed \ {i}
      BY <1>1, <2>1, <2>5, GoneOp DEF Ops
    <3> QED
      BY <1>1, <1>3, <2>2, <2>3, <3>1, Exists DEF Effect, Touch
  <2> QED
    BY <2>4, <2>5
<1> QED
  BY <1>4, <1>5

LEMMA UndoCreateTouch == ASSUME IInv, UndoCreate PROVE Effect
<1>1. entry \in Tables /\ faults \in Nat
  BY DEF IInv, IType
<1>2. /\ pc = "undoCreate" /\ pc' = "undoNext"
      /\ current' = current /\ pre' = pre
  BY DEF UndoCreate, Goto
<1>3. CASE Fine /\ Same
  BY <1>1, <1>2, <1>3 DEF Fine, Same, nvram, Effect, Touch, Existing
<1>4. CASE (op.blind \/ op.id \notin Protected) /\ \E done \in BOOLEAN : Remove(op.id, done)
  <2>1. PICK done \in BOOLEAN : Remove(op.id, done)
    BY <1>4
  <2>2. /\ entry' \in Tables /\ next' = next /\ faults' \in Nat
        /\ \A j \in Ids : j # op.id => entry'[j] = entry[j]
    BY <1>1, <2>1, RemoveEffect
  <2> QED
    BY <1>1, <1>2, <1>4, <2>2, Exists DEF Effect, Touch
<1> QED
  BY <1>2, <1>3, <1>4 DEF UndoCreate

(* No step does more to an entry than Touch says. *)
LEMMA TouchStep == ASSUME IInv, [Next]_vars PROVE Effect
<1>1. CASE Quiet
  BY <1>1, QuietStep, FrameEffect DEF IInv, IType
<1>2. CASE UNCHANGED vars
  BY <1>2, FrameEffect DEF vars, Frame, IInv, IType
<1> QED
  BY <1>1, <1>2, RemoveEntryTouch, RecreateTouch, WriteLabelTouch,
     PutLabelBackTouch,
     RelabelMainTouch, CreateMainTouch, AnnotateTouch, CreateWfaiTouch, PruneOneTouch, UndoCreateTouch
     DEF Next, Quiet

(* Where the steps of a deletion or a rename come from.                    *)
LEMMA OwnedFrom ==
    ASSUME IInv, [Next]_vars, pc' \in LabelSteps \cup DeleteSteps
    PROVE  \/ /\ pc = "idle" /\ outcome = "none" /\ entry' = entry
              /\ pc' \in {"remove", "relabel"}
              /\ \E scope \in Scopes, i \in Ids :
                    MayTouch(i, scope) /\ op'.id = i /\ op'.scope = scope
           \/ /\ pc \in LabelSteps \cup DeleteSteps /\ op' = op
              /\ pc' \in LabelSteps \cup {"remove"} =>
                    /\ pc \in LabelSteps \cup {"remove"}
                    /\ entry'[op.id] \in Entries /\ entry'[op.id].drive = entry[op.id].drive
<1>a. pc' # "idle"
  BY DEF LabelSteps, DeleteSteps
<1>b. pc \notin DefaultSteps \cup ReorderSteps
  <2>1. IKind' /\ (pc # "idle" => op'.kind = op.kind)
    BY KindStep, OpStep DEF IInv, IType, SameRequest
  <2> QED
    BY <2>1 DEF IInv, IKind, DefaultSteps, ReorderSteps
<1>c. pc \in LabelSteps \cup {"remove"} => entry[op.id] \in Entries
  BY DEF IInv, IOwned
<1>1. CASE \E s \in Orders \ {<<>>} : Reorder(s)
  BY <1>1, <1>a, ReorderStep DEF LabelSteps, DeleteSteps
<1>2. CASE \E scope \in Scopes, i \in Ids : Delete(scope, i)
  <2>1. PICK scope \in Scopes, i \in Ids : Delete(scope, i)
    BY <1>2
  <2>2. op'.id = i /\ op'.scope = scope
    BY <2>1, DeleteStep DEF LabelSteps, DeleteSteps
  <2>3. MayTouch(i, scope)
    BY <2>1, <1>a, DeleteStep DEF Delete, End, LabelSteps, DeleteSteps
  <2>4. entry' = entry /\ pc' \in {"remove", "relabel"} /\ pc = "idle" /\ outcome = "none"
    BY <2>1, DeleteStep DEF Delete, Asked, Same, nvram, LabelSteps, DeleteSteps
  <2> QED
    BY <2>1, <2>2, <2>3, <2>4
<1>3. CASE \E scope \in Scopes, i \in Ids, label \in Texts : Rename(scope, i, label)
  <2>1. PICK scope \in Scopes, i \in Ids, label \in Texts :
           Rename(scope, i, label)
    BY <1>3
  <2>2. op'.id = i /\ op'.scope = scope
    BY <2>1, RenameStep DEF LabelSteps, DeleteSteps
  <2>3. MayTouch(i, scope)
    BY <2>1, <1>a, RenameStep DEF Rename, End, LabelSteps, DeleteSteps
  <2>4. entry' = entry /\ pc' \in {"remove", "relabel"} /\ pc = "idle" /\ outcome = "none"
    BY <2>1, RenameStep DEF Rename, Asked, Same, nvram, LabelSteps, DeleteSteps
  <2> QED
    BY <2>1, <2>2, <2>3, <2>4
<1>4. CASE \E uki, labels, ipxe \in BOOLEAN : HostDefault(uki, labels, ipxe)
  BY <1>4, <1>a, HostDefaultStep DEF LabelSteps, DeleteSteps
<1>5. CASE WriteOrder
  BY <1>5, <1>b DEF WriteOrder, ReorderSteps
<1>6. CASE ConfirmOrder
  BY <1>6, <1>b DEF ConfirmOrder, ReorderSteps
<1>7. CASE PutOrderBack
  BY <1>7, <1>b DEF PutOrderBack, ReorderSteps
<1>8. CASE RemoveEntry
  BY <1>8, <1>a DEF RemoveEntry, Goto, End, LabelSteps, DeleteSteps
<1>9. CASE ConfirmRemoved
  BY <1>9, <1>a DEF ConfirmRemoved, Goto, EndBlind, End, LabelSteps, DeleteSteps
<1>10. CASE Recreate
  BY <1>10, <1>a DEF Recreate, End, LabelSteps, DeleteSteps
<1>11. CASE TidyOrder
  BY <1>11, <1>a DEF TidyOrder, Goto, End, LabelSteps, DeleteSteps
<1>12. CASE ConfirmTidied
  BY <1>12, <1>a DEF ConfirmTidied, EndBlind, End, LabelSteps, DeleteSteps
<1>13. CASE WriteLabel
  BY <1>13, <1>a, WriteLabelTouch DEF WriteLabel, Goto, End, LabelSteps, DeleteSteps
<1>14. CASE ConfirmLabel
  BY <1>14, <1>a, <1>c DEF ConfirmLabel, Goto, End, LabelSteps, DeleteSteps,
     Same, nvram
<1>15. CASE PutLabelBack
  BY <1>15, <1>a, PutLabelBackTouch DEF PutLabelBack, End, LabelSteps, DeleteSteps
<1>16. CASE Reconcile
  BY <1>16, <1>b DEF Reconcile, DefaultSteps
<1>17. CASE Ensure
  BY <1>17, <1>b DEF Ensure, DefaultSteps
<1>18. CASE RelabelMain
  BY <1>18, <1>b DEF RelabelMain, DefaultSteps
<1>19. CASE CreateMain
  BY <1>19, <1>b DEF CreateMain, DefaultSteps
<1>20. CASE ListCreated
  BY <1>20, <1>b DEF ListCreated, DefaultSteps
<1>21. CASE Identify
  BY <1>21, <1>b DEF Identify, DefaultSteps
<1>22. CASE RestoreOrder
  BY <1>22, <1>b DEF RestoreOrder, DefaultSteps
<1>23. CASE RestoreNext
  BY <1>23, <1>b DEF RestoreNext, DefaultSteps
<1>24. CASE Annotate
  BY <1>24, <1>b DEF Annotate, DefaultSteps
<1>25. CASE ConfirmWfai
  BY <1>25, <1>b DEF ConfirmWfai, DefaultSteps
<1>26. CASE Promote
  BY <1>26, <1>b DEF Promote, DefaultSteps
<1>27. CASE ConfirmPromote
  BY <1>27, <1>b DEF ConfirmPromote, DefaultSteps
<1>28. CASE Prune
  BY <1>28, <1>b DEF Prune, DefaultSteps
<1>29. CASE PruneOne
  BY <1>29, <1>b DEF PruneOne, DefaultSteps
<1>30. CASE Tidy
  BY <1>30, <1>b DEF Tidy, DefaultSteps
<1>31. CASE ConfirmPrune
  BY <1>31, <1>b DEF ConfirmPrune, DefaultSteps
<1>32. CASE Group
  BY <1>32, <1>b DEF Group, DefaultSteps
<1>33. CASE Again
  BY <1>33, <1>b DEF Again, DefaultSteps
<1>34. CASE VerifyLabels
  BY <1>34, <1>b DEF VerifyLabels, DefaultSteps
<1>35. CASE FinalCheck
  BY <1>35, <1>b DEF FinalCheck, DefaultSteps
<1>36. CASE Compare
  BY <1>36, <1>b DEF Compare, DefaultSteps
<1>37. CASE UndoOrder
  BY <1>37, <1>b DEF UndoOrder, DefaultSteps
<1>38. CASE UndoCreate
  BY <1>38, <1>b DEF UndoCreate, DefaultSteps
<1>39. CASE UNCHANGED vars
  BY <1>39, <1>a, <1>c DEF vars
<1>41. CASE FindWfai
  BY <1>41, <1>b DEF FindWfai, DefaultSteps
<1>42. CASE CreateWfai
  BY <1>42, <1>b DEF CreateWfai, DefaultSteps
<1>43. CASE UndoCheck
  BY <1>43, <1>b DEF UndoCheck, DefaultSteps
<1>44. CASE UndoNext
  BY <1>44, <1>b DEF UndoNext, DefaultSteps
<1> QED
  BY <1>1, <1>2, <1>3, <1>4, <1>5, <1>6, <1>7, <1>8, <1>9, <1>10,
     <1>11, <1>12, <1>13, <1>14, <1>15, <1>16, <1>17, <1>18, <1>19, <1>20,
     <1>21, <1>22, <1>23, <1>24, <1>25, <1>26, <1>27, <1>28, <1>29, <1>30,
     <1>31, <1>32, <1>33, <1>34, <1>35, <1>36, <1>37, <1>38, <1>39,
     <1>41, <1>42, <1>43, <1>44 DEF Next

(* Only Ensure leads to the relabelling of the host's entry.               *)
LEMMA FromEnsure ==
    ASSUME [Next]_vars, pc' = "relabelMain"
    PROVE  Ensure \/ UNCHANGED vars
<1>1. CASE \E s \in Orders \ {<<>>} : Reorder(s)
  BY <1>1, ReorderStep
<1>2. CASE \E scope \in Scopes, i \in Ids : Delete(scope, i)
  BY <1>2, DeleteStep
<1>3. CASE \E scope \in Scopes, i \in Ids, label \in Texts : Rename(scope, i, label)
  BY <1>3, RenameStep
<1>4. CASE \E uki, labels, ipxe \in BOOLEAN : HostDefault(uki, labels, ipxe)
  BY <1>4, HostDefaultStep
<1>5. CASE WriteOrder
  BY <1>5 DEF WriteOrder, Goto, End
<1>6. CASE ConfirmOrder
  BY <1>6 DEF ConfirmOrder, Goto, End
<1>7. CASE PutOrderBack
  BY <1>7 DEF PutOrderBack, End
<1>8. CASE RemoveEntry
  BY <1>8 DEF RemoveEntry, Goto, End
<1>9. CASE ConfirmRemoved
  BY <1>9 DEF ConfirmRemoved, Goto, EndBlind, End
<1>10. CASE Recreate
  BY <1>10 DEF Recreate, End
<1>11. CASE TidyOrder
  BY <1>11 DEF TidyOrder, Goto, End
<1>12. CASE ConfirmTidied
  BY <1>12, FlagOp DEF ConfirmTidied, EndBlind, End
<1>13. CASE WriteLabel
  BY <1>13 DEF WriteLabel, Goto, End
<1>14. CASE ConfirmLabel
  BY <1>14 DEF ConfirmLabel, Goto, End
<1>15. CASE PutLabelBack
  BY <1>15 DEF PutLabelBack, End
<1>16. CASE Reconcile
  BY <1>16, FailSteady DEF Reconcile, Goto
<1>17. CASE Ensure
  BY <1>17
<1>18. CASE RelabelMain
  BY <1>18, FailSteady DEF RelabelMain, Set
<1>19. CASE CreateMain
  BY <1>19, FailSteady DEF CreateMain, Goto
<1>20. CASE ListCreated
  BY <1>20, FailSteady DEF ListCreated, Goto
<1>21. CASE Identify
  BY <1>21, FailSteady DEF Identify, Set
<1>22. CASE RestoreOrder
  BY <1>22, FailSteady DEF RestoreOrder, Then, Unread, Refused, Goto
<1>23. CASE RestoreNext
  BY <1>23, FailSteady DEF RestoreNext, Goto
<1>24. CASE Annotate
  BY <1>24, FailSteady DEF Annotate, Goto, Then, Unread, AfterAnnotate
<1>25. CASE ConfirmWfai
  BY <1>25, FailSteady DEF ConfirmWfai, Goto, AfterAnnotate
<1>26. CASE Promote
  BY <1>26, FailSteady DEF Promote, Goto, Set, Unread, Refused
<1>27. CASE ConfirmPromote
  BY <1>27, FailSteady DEF ConfirmPromote, Goto
<1>28. CASE Prune
  BY <1>28, FailSteady DEF Prune, Goto, Set
<1>29. CASE PruneOne
  BY <1>29, FailSteady DEF PruneOne, Set, Refused
<1>30. CASE Tidy
  BY <1>30, FailSteady DEF Tidy, Goto, Then, Unread
<1>31. CASE ConfirmPrune
  BY <1>31, FailSteady DEF ConfirmPrune, Goto
<1>32. CASE Group
  BY <1>32, FailSteady DEF Group, Goto, Then, Unread
<1>33. CASE Again
  BY <1>33 DEF Again, Set
<1>34. CASE VerifyLabels
  BY <1>34, FailSteady DEF VerifyLabels, Goto
<1>35. CASE FinalCheck
  BY <1>35, FailSteady DEF FinalCheck, Goto
<1>36. CASE Compare
  BY <1>36 DEF Compare, End
<1>37. CASE UndoOrder
  BY <1>37 DEF UndoOrder, Goto
<1>38. CASE UndoCreate
  BY <1>38 DEF UndoCreate, Goto
<1>39. CASE UNCHANGED vars
  BY <1>39
<1>41. CASE FindWfai
  BY <1>41 DEF FindWfai, Goto, AfterAnnotate
<1>42. CASE CreateWfai
  BY <1>42, FailSteady DEF CreateWfai, Goto, Then
<1>43. CASE UndoCheck
  BY <1>43 DEF UndoCheck, Set
<1>44. CASE UndoNext
  BY <1>44 DEF UndoNext, End
<1> QED
  BY <1>1, <1>2, <1>3, <1>4, <1>5, <1>6, <1>7, <1>8, <1>9, <1>10,
     <1>11, <1>12, <1>13, <1>14, <1>15, <1>16, <1>17, <1>18, <1>19, <1>20,
     <1>21, <1>22, <1>23, <1>24, <1>25, <1>26, <1>27, <1>28, <1>29, <1>30,
     <1>31, <1>32, <1>33, <1>34, <1>35, <1>36, <1>37, <1>38, <1>39,
     <1>41, <1>42, <1>43, <1>44 DEF Next

(* Only Prune and PruneOne lead to a deletion of duplicates.               *)
LEMMA FromPrune ==
    ASSUME [Next]_vars, pc' = "pruning"
    PROVE  Prune \/ PruneOne \/ UNCHANGED vars
<1>1. CASE \E s \in Orders \ {<<>>} : Reorder(s)
  BY <1>1, ReorderStep
<1>2. CASE \E scope \in Scopes, i \in Ids : Delete(scope, i)
  BY <1>2, DeleteStep
<1>3. CASE \E scope \in Scopes, i \in Ids, label \in Texts : Rename(scope, i, label)
  BY <1>3, RenameStep
<1>4. CASE \E uki, labels, ipxe \in BOOLEAN : HostDefault(uki, labels, ipxe)
  BY <1>4, HostDefaultStep
<1>5. CASE WriteOrder
  BY <1>5 DEF WriteOrder, Goto, End
<1>6. CASE ConfirmOrder
  BY <1>6 DEF ConfirmOrder, Goto, End
<1>7. CASE PutOrderBack
  BY <1>7 DEF PutOrderBack, End
<1>8. CASE RemoveEntry
  BY <1>8 DEF RemoveEntry, Goto, End
<1>9. CASE ConfirmRemoved
  BY <1>9 DEF ConfirmRemoved, Goto, EndBlind, End
<1>10. CASE Recreate
  BY <1>10 DEF Recreate, End
<1>11. CASE TidyOrder
  BY <1>11 DEF TidyOrder, Goto, End
<1>12. CASE ConfirmTidied
  BY <1>12, FlagOp DEF ConfirmTidied, EndBlind, End
<1>13. CASE WriteLabel
  BY <1>13 DEF WriteLabel, Goto, End
<1>14. CASE ConfirmLabel
  BY <1>14 DEF ConfirmLabel, Goto, End
<1>15. CASE PutLabelBack
  BY <1>15 DEF PutLabelBack, End
<1>16. CASE Reconcile
  BY <1>16, FailSteady DEF Reconcile, Goto
<1>17. CASE Ensure
  BY <1>17, FailSteady DEF Ensure, Goto, Set
<1>18. CASE RelabelMain
  BY <1>18, FailSteady DEF RelabelMain, Set
<1>19. CASE CreateMain
  BY <1>19, FailSteady DEF CreateMain, Goto
<1>20. CASE ListCreated
  BY <1>20, FailSteady DEF ListCreated, Goto
<1>21. CASE Identify
  BY <1>21, FailSteady DEF Identify, Set
<1>22. CASE RestoreOrder
  BY <1>22, FailSteady DEF RestoreOrder, Then, Unread, Refused, Goto
<1>23. CASE RestoreNext
  BY <1>23, FailSteady DEF RestoreNext, Goto
<1>24. CASE Annotate
  BY <1>24, FailSteady DEF Annotate, Goto, Then, Unread, AfterAnnotate
<1>25. CASE ConfirmWfai
  BY <1>25, FailSteady DEF ConfirmWfai, Goto, AfterAnnotate
<1>26. CASE Promote
  BY <1>26, FailSteady DEF Promote, Goto, Set, Unread, Refused
<1>27. CASE ConfirmPromote
  BY <1>27, FailSteady DEF ConfirmPromote, Goto
<1>28. CASE Prune
  BY <1>28
<1>29. CASE PruneOne
  BY <1>29
<1>30. CASE Tidy
  BY <1>30, FailSteady DEF Tidy, Goto, Then, Unread
<1>31. CASE ConfirmPrune
  BY <1>31, FailSteady DEF ConfirmPrune, Goto
<1>32. CASE Group
  BY <1>32, FailSteady DEF Group, Goto, Then, Unread
<1>33. CASE Again
  BY <1>33 DEF Again, Set
<1>34. CASE VerifyLabels
  BY <1>34, FailSteady DEF VerifyLabels, Goto
<1>35. CASE FinalCheck
  BY <1>35, FailSteady DEF FinalCheck, Goto
<1>36. CASE Compare
  BY <1>36 DEF Compare, End
<1>37. CASE UndoOrder
  BY <1>37 DEF UndoOrder, Goto
<1>38. CASE UndoCreate
  BY <1>38 DEF UndoCreate, Goto
<1>39. CASE UNCHANGED vars
  BY <1>39
<1>41. CASE FindWfai
  BY <1>41 DEF FindWfai, Goto, AfterAnnotate
<1>42. CASE CreateWfai
  BY <1>42, FailSteady DEF CreateWfai, Goto, Then
<1>43. CASE UndoCheck
  BY <1>43 DEF UndoCheck, Set
<1>44. CASE UndoNext
  BY <1>44 DEF UndoNext, End
<1> QED
  BY <1>1, <1>2, <1>3, <1>4, <1>5, <1>6, <1>7, <1>8, <1>9, <1>10,
     <1>11, <1>12, <1>13, <1>14, <1>15, <1>16, <1>17, <1>18, <1>19, <1>20,
     <1>21, <1>22, <1>23, <1>24, <1>25, <1>26, <1>27, <1>28, <1>29, <1>30,
     <1>31, <1>32, <1>33, <1>34, <1>35, <1>36, <1>37, <1>38, <1>39,
     <1>41, <1>42, <1>43, <1>44 DEF Next

(* An operation that ends reports something.                               *)
LEMMA NotNone ==
    ASSUME [Next]_vars, pc' = "idle", outcome' = "none"
    PROVE  UNCHANGED vars
<1>0. pc' = "idle" /\ outcome' = "none"
  OBVIOUS
<1>1. CASE \E s \in Orders \ {<<>>} : Reorder(s)
  BY <1>1, ReorderStep
<1>2. CASE \E scope \in Scopes, i \in Ids : Delete(scope, i)
  BY <1>2, DeleteStep
<1>3. CASE \E scope \in Scopes, i \in Ids, label \in Texts : Rename(scope, i, label)
  BY <1>3, RenameStep
<1>4. CASE \E uki, labels, ipxe \in BOOLEAN : HostDefault(uki, labels, ipxe)
  BY <1>4, HostDefaultStep
<1>5. CASE WriteOrder
  BY <1>5, <1>0 DEF WriteOrder, Goto, End, DefaultSteps, LabelSteps,
     DeleteSteps, ReorderSteps
<1>6. CASE ConfirmOrder
  BY <1>6, <1>0 DEF ConfirmOrder, Goto, End, DefaultSteps, LabelSteps,
     DeleteSteps, ReorderSteps
<1>7. CASE PutOrderBack
  BY <1>7, <1>0 DEF PutOrderBack, End, DefaultSteps, LabelSteps, DeleteSteps,
     ReorderSteps
<1>8. CASE RemoveEntry
  BY <1>8, <1>0 DEF RemoveEntry, Goto, End, DefaultSteps, LabelSteps,
     DeleteSteps, ReorderSteps
<1>9. CASE ConfirmRemoved
  BY <1>9, <1>0 DEF ConfirmRemoved, Goto, EndBlind, End, DefaultSteps, LabelSteps,
     DeleteSteps, ReorderSteps
<1>10. CASE Recreate
  BY <1>10, <1>0 DEF Recreate, End, DefaultSteps, LabelSteps, DeleteSteps,
     ReorderSteps
<1>11. CASE TidyOrder
  BY <1>11, <1>0 DEF TidyOrder, Goto, End, DefaultSteps, LabelSteps,
     DeleteSteps, ReorderSteps
<1>12. CASE ConfirmTidied
  BY <1>12, <1>0 DEF ConfirmTidied, EndBlind, End, DefaultSteps, LabelSteps, DeleteSteps,
     ReorderSteps
<1>13. CASE WriteLabel
  BY <1>13, <1>0 DEF WriteLabel, Goto, End, DefaultSteps, LabelSteps,
     DeleteSteps, ReorderSteps
<1>14. CASE ConfirmLabel
  BY <1>14, <1>0 DEF ConfirmLabel, Goto, End, DefaultSteps, LabelSteps,
     DeleteSteps, ReorderSteps
<1>15. CASE PutLabelBack
  BY <1>15, <1>0 DEF PutLabelBack, End, DefaultSteps, LabelSteps, DeleteSteps,
     ReorderSteps
<1>16. CASE Reconcile
  BY <1>16, FailSteady, <1>0 DEF Reconcile, Goto, DefaultSteps, LabelSteps,
     DeleteSteps, ReorderSteps
<1>17. CASE Ensure
  BY <1>17, FailSteady, <1>0 DEF Ensure, Goto, Set, DefaultSteps, LabelSteps,
     DeleteSteps, ReorderSteps
<1>18. CASE RelabelMain
  BY <1>18, FailSteady, <1>0 DEF RelabelMain, Set, DefaultSteps, LabelSteps,
     DeleteSteps, ReorderSteps
<1>19. CASE CreateMain
  BY <1>19, FailSteady, <1>0 DEF CreateMain, Goto, DefaultSteps, LabelSteps,
     DeleteSteps, ReorderSteps
<1>20. CASE ListCreated
  BY <1>20, FailSteady, <1>0 DEF ListCreated, Goto, DefaultSteps, LabelSteps,
     DeleteSteps, ReorderSteps
<1>21. CASE Identify
  BY <1>21, FailSteady, <1>0 DEF Identify, Set, DefaultSteps, LabelSteps,
     DeleteSteps, ReorderSteps
<1>22. CASE RestoreOrder
  BY <1>22, FailSteady, <1>0 DEF RestoreOrder, Then, Unread, Refused, Goto,
     DefaultSteps, LabelSteps, DeleteSteps, ReorderSteps
<1>23. CASE RestoreNext
  BY <1>23, FailSteady, <1>0 DEF RestoreNext, Goto, DefaultSteps, LabelSteps,
     DeleteSteps, ReorderSteps
<1>24. CASE Annotate
  BY <1>24, FailSteady, <1>0 DEF Annotate, Goto, Then, Unread, AfterAnnotate,
     DefaultSteps, LabelSteps, DeleteSteps, ReorderSteps
<1>25. CASE ConfirmWfai
  BY <1>25, FailSteady, <1>0 DEF ConfirmWfai, Goto, AfterAnnotate, DefaultSteps,
     LabelSteps, DeleteSteps, ReorderSteps
<1>26. CASE Promote
  BY <1>26, FailSteady, <1>0 DEF Promote, Goto, Set, Unread, Refused,
     DefaultSteps, LabelSteps, DeleteSteps, ReorderSteps
<1>27. CASE ConfirmPromote
  BY <1>27, FailSteady, <1>0 DEF ConfirmPromote, Goto, DefaultSteps, LabelSteps,
     DeleteSteps, ReorderSteps
<1>28. CASE Prune
  BY <1>28, FailSteady, <1>0 DEF Prune, Goto, Set, DefaultSteps, LabelSteps,
     DeleteSteps, ReorderSteps
<1>29. CASE PruneOne
  BY <1>29, FailSteady, <1>0 DEF PruneOne, Set, Refused, DefaultSteps,
     LabelSteps, DeleteSteps, ReorderSteps
<1>30. CASE Tidy
  BY <1>30, FailSteady, <1>0 DEF Tidy, Goto, Then, Unread, DefaultSteps,
     LabelSteps, DeleteSteps, ReorderSteps
<1>31. CASE ConfirmPrune
  BY <1>31, FailSteady, <1>0 DEF ConfirmPrune, Goto, DefaultSteps, LabelSteps,
     DeleteSteps, ReorderSteps
<1>32. CASE Group
  BY <1>32, FailSteady, <1>0 DEF Group, Goto, Then, Unread, DefaultSteps,
     LabelSteps, DeleteSteps, ReorderSteps
<1>33. CASE Again
  BY <1>33, <1>0 DEF Again, Set, DefaultSteps, LabelSteps, DeleteSteps, ReorderSteps
<1>34. CASE VerifyLabels
  BY <1>34, FailSteady, <1>0 DEF VerifyLabels, Goto, DefaultSteps, LabelSteps,
     DeleteSteps, ReorderSteps
<1>35. CASE FinalCheck
  BY <1>35, FailSteady, <1>0 DEF FinalCheck, Goto, DefaultSteps, LabelSteps,
     DeleteSteps, ReorderSteps
<1>36. CASE Compare
  BY <1>36, <1>0 DEF Compare, End, DefaultSteps, LabelSteps, DeleteSteps,
     ReorderSteps
<1>37. CASE UndoOrder
  BY <1>37, <1>0 DEF UndoOrder, Goto, DefaultSteps, LabelSteps, DeleteSteps,
     ReorderSteps
<1>38. CASE UndoCreate
  BY <1>38, <1>0 DEF UndoCreate, Goto, DefaultSteps, LabelSteps, DeleteSteps,
     ReorderSteps
<1>39. CASE UNCHANGED vars
  BY <1>39
<1>41. CASE FindWfai
  BY <1>41, <1>0 DEF FindWfai, Goto, AfterAnnotate
<1>42. CASE CreateWfai
  BY <1>42, <1>0, FailSteady DEF CreateWfai, Goto, Then
<1>43. CASE UndoCheck
  BY <1>43, <1>0 DEF UndoCheck, Set
<1>44. CASE UndoNext
  BY <1>44, <1>0 DEF UndoNext, End
<1> QED
  BY <1>1, <1>2, <1>3, <1>4, <1>5, <1>6, <1>7, <1>8, <1>9, <1>10,
     <1>11, <1>12, <1>13, <1>14, <1>15, <1>16, <1>17, <1>18, <1>19, <1>20,
     <1>21, <1>22, <1>23, <1>24, <1>25, <1>26, <1>27, <1>28, <1>29, <1>30,
     <1>31, <1>32, <1>33, <1>34, <1>35, <1>36, <1>37, <1>38, <1>39,
     <1>41, <1>42, <1>43, <1>44 DEF Next

(* Only a request begins anything, on the firmware as it was found.        *)
LEMMA AtIdle ==
    ASSUME [Next]_vars, pc = "idle"
    PROVE  \/ UNCHANGED vars
           \/ outcome = "none" /\ entry' = entry
<1>0. pc = "idle"
  OBVIOUS
<1>1. CASE \E s \in Orders \ {<<>>} : Reorder(s)
  BY <1>1, ReorderStep DEF Reorder, Asked, Same, nvram
<1>2. CASE \E scope \in Scopes, i \in Ids : Delete(scope, i)
  BY <1>2, DeleteStep DEF Delete, Asked, Same, nvram
<1>3. CASE \E scope \in Scopes, i \in Ids, label \in Texts : Rename(scope, i, label)
  BY <1>3, RenameStep DEF Rename, Asked, Same, nvram
<1>4. CASE \E uki, labels, ipxe \in BOOLEAN : HostDefault(uki, labels, ipxe)
  BY <1>4, HostDefaultStep DEF HostDefault, Asked, Same, nvram
<1>5. CASE WriteOrder
  BY <1>5, <1>0 DEF WriteOrder
<1>6. CASE ConfirmOrder
  BY <1>6, <1>0 DEF ConfirmOrder
<1>7. CASE PutOrderBack
  BY <1>7, <1>0 DEF PutOrderBack
<1>8. CASE RemoveEntry
  BY <1>8, <1>0 DEF RemoveEntry
<1>9. CASE ConfirmRemoved
  BY <1>9, <1>0 DEF ConfirmRemoved
<1>10. CASE Recreate
  BY <1>10, <1>0 DEF Recreate
<1>11. CASE TidyOrder
  BY <1>11, <1>0 DEF TidyOrder
<1>12. CASE ConfirmTidied
  BY <1>12, <1>0 DEF ConfirmTidied
<1>13. CASE WriteLabel
  BY <1>13, <1>0 DEF WriteLabel
<1>14. CASE ConfirmLabel
  BY <1>14, <1>0 DEF ConfirmLabel
<1>15. CASE PutLabelBack
  BY <1>15, <1>0 DEF PutLabelBack
<1>16. CASE Reconcile
  BY <1>16, <1>0 DEF Reconcile
<1>17. CASE Ensure
  BY <1>17, <1>0 DEF Ensure
<1>18. CASE RelabelMain
  BY <1>18, <1>0 DEF RelabelMain
<1>19. CASE CreateMain
  BY <1>19, <1>0 DEF CreateMain
<1>20. CASE ListCreated
  BY <1>20, <1>0 DEF ListCreated
<1>21. CASE Identify
  BY <1>21, <1>0 DEF Identify
<1>22. CASE RestoreOrder
  BY <1>22, <1>0 DEF RestoreOrder
<1>23. CASE RestoreNext
  BY <1>23, <1>0 DEF RestoreNext
<1>24. CASE Annotate
  BY <1>24, <1>0 DEF Annotate
<1>25. CASE ConfirmWfai
  BY <1>25, <1>0 DEF ConfirmWfai
<1>26. CASE Promote
  BY <1>26, <1>0 DEF Promote
<1>27. CASE ConfirmPromote
  BY <1>27, <1>0 DEF ConfirmPromote
<1>28. CASE Prune
  BY <1>28, <1>0 DEF Prune
<1>29. CASE PruneOne
  BY <1>29, <1>0 DEF PruneOne
<1>30. CASE Tidy
  BY <1>30, <1>0 DEF Tidy
<1>31. CASE ConfirmPrune
  BY <1>31, <1>0 DEF ConfirmPrune
<1>32. CASE Group
  BY <1>32, <1>0 DEF Group
<1>33. CASE Again
  BY <1>33, <1>0 DEF Again
<1>34. CASE VerifyLabels
  BY <1>34, <1>0 DEF VerifyLabels
<1>35. CASE FinalCheck
  BY <1>35, <1>0 DEF FinalCheck
<1>36. CASE Compare
  BY <1>36, <1>0 DEF Compare
<1>37. CASE UndoOrder
  BY <1>37, <1>0 DEF UndoOrder
<1>38. CASE UndoCreate
  BY <1>38, <1>0 DEF UndoCreate
<1>39. CASE UNCHANGED vars
  BY <1>39
<1>41. CASE FindWfai
  BY <1>41, <1>0 DEF FindWfai
<1>42. CASE CreateWfai
  BY <1>42, <1>0 DEF CreateWfai
<1>43. CASE UndoCheck
  BY <1>43, <1>0 DEF UndoCheck
<1>44. CASE UndoNext
  BY <1>44, <1>0 DEF UndoNext
<1> QED
  BY <1>1, <1>2, <1>3, <1>4, <1>5, <1>6, <1>7, <1>8, <1>9, <1>10,
     <1>11, <1>12, <1>13, <1>14, <1>15, <1>16, <1>17, <1>18, <1>19, <1>20,
     <1>21, <1>22, <1>23, <1>24, <1>25, <1>26, <1>27, <1>28, <1>29, <1>30,
     <1>31, <1>32, <1>33, <1>34, <1>35, <1>36, <1>37, <1>38, <1>39,
     <1>41, <1>42, <1>43, <1>44 DEF Next

(* Only PruneOne works through the duplicates, and only UndoNext follows   *)
(* the deletion of a created entry.                                        *)
LEMMA AtPruning ==
    ASSUME [Next]_vars, pc \in {"pruning", "undoNext"}
    PROVE  PruneOne \/ UndoNext \/ UNCHANGED vars
<1>0. pc \in {"pruning", "undoNext"}
  OBVIOUS
<1>1. CASE \E s \in Orders \ {<<>>} : Reorder(s)
  BY <1>1, <1>0 DEF Reorder, Asked
<1>2. CASE \E scope \in Scopes, i \in Ids : Delete(scope, i)
  BY <1>2, <1>0 DEF Delete, Asked
<1>3. CASE \E scope \in Scopes, i \in Ids, label \in Texts : Rename(scope, i, label)
  BY <1>3, <1>0 DEF Rename, Asked
<1>4. CASE \E uki, labels, ipxe \in BOOLEAN : HostDefault(uki, labels, ipxe)
  BY <1>4, <1>0 DEF HostDefault, Asked
<1>5. CASE WriteOrder
  BY <1>5, <1>0 DEF WriteOrder
<1>6. CASE ConfirmOrder
  BY <1>6, <1>0 DEF ConfirmOrder
<1>7. CASE PutOrderBack
  BY <1>7, <1>0 DEF PutOrderBack
<1>8. CASE RemoveEntry
  BY <1>8, <1>0 DEF RemoveEntry
<1>9. CASE ConfirmRemoved
  BY <1>9, <1>0 DEF ConfirmRemoved
<1>10. CASE Recreate
  BY <1>10, <1>0 DEF Recreate
<1>11. CASE TidyOrder
  BY <1>11, <1>0 DEF TidyOrder
<1>12. CASE ConfirmTidied
  BY <1>12, <1>0 DEF ConfirmTidied
<1>13. CASE WriteLabel
  BY <1>13, <1>0 DEF WriteLabel
<1>14. CASE ConfirmLabel
  BY <1>14, <1>0 DEF ConfirmLabel
<1>15. CASE PutLabelBack
  BY <1>15, <1>0 DEF PutLabelBack
<1>16. CASE Reconcile
  BY <1>16, <1>0 DEF Reconcile
<1>17. CASE Ensure
  BY <1>17, <1>0 DEF Ensure
<1>18. CASE RelabelMain
  BY <1>18, <1>0 DEF RelabelMain
<1>19. CASE CreateMain
  BY <1>19, <1>0 DEF CreateMain
<1>20. CASE ListCreated
  BY <1>20, <1>0 DEF ListCreated
<1>21. CASE Identify
  BY <1>21, <1>0 DEF Identify
<1>22. CASE RestoreOrder
  BY <1>22, <1>0 DEF RestoreOrder
<1>23. CASE RestoreNext
  BY <1>23, <1>0 DEF RestoreNext
<1>24. CASE Annotate
  BY <1>24, <1>0 DEF Annotate
<1>25. CASE ConfirmWfai
  BY <1>25, <1>0 DEF ConfirmWfai
<1>26. CASE Promote
  BY <1>26, <1>0 DEF Promote
<1>27. CASE ConfirmPromote
  BY <1>27, <1>0 DEF ConfirmPromote
<1>28. CASE Prune
  BY <1>28, <1>0 DEF Prune
<1>29. CASE PruneOne
  BY <1>29
<1>30. CASE Tidy
  BY <1>30, <1>0 DEF Tidy
<1>31. CASE ConfirmPrune
  BY <1>31, <1>0 DEF ConfirmPrune
<1>32. CASE Group
  BY <1>32, <1>0 DEF Group
<1>33. CASE Again
  BY <1>33, <1>0 DEF Again
<1>34. CASE VerifyLabels
  BY <1>34, <1>0 DEF VerifyLabels
<1>35. CASE FinalCheck
  BY <1>35, <1>0 DEF FinalCheck
<1>36. CASE Compare
  BY <1>36, <1>0 DEF Compare
<1>37. CASE UndoOrder
  BY <1>37, <1>0 DEF UndoOrder
<1>38. CASE UndoCreate
  BY <1>38, <1>0 DEF UndoCreate
<1>39. CASE UNCHANGED vars
  BY <1>39
<1>41. CASE FindWfai
  BY <1>41, <1>0 DEF FindWfai
<1>42. CASE CreateWfai
  BY <1>42, <1>0 DEF CreateWfai
<1>43. CASE UndoCheck
  BY <1>43, <1>0 DEF UndoCheck
<1>44. CASE UndoNext
  BY <1>44
<1> QED
  BY <1>1, <1>2, <1>3, <1>4, <1>5, <1>6, <1>7, <1>8, <1>9, <1>10,
     <1>11, <1>12, <1>13, <1>14, <1>15, <1>16, <1>17, <1>18, <1>19, <1>20,
     <1>21, <1>22, <1>23, <1>24, <1>25, <1>26, <1>27, <1>28, <1>29, <1>30,
     <1>31, <1>32, <1>33, <1>34, <1>35, <1>36, <1>37, <1>38, <1>39,
     <1>41, <1>42, <1>43, <1>44 DEF Next

(* What Doomed leaves: for every entry it names, another of its drive.     *)
LEMMA DoomedLeaves ==
    ASSUME entry \in Tables, NEW D \in SUBSET Existing, Doomed(D), NEW i \in D
    PROVE  \E j \in Ids \ D :
              /\ entry[j] # Absent /\ entry[j].drive = entry[i].drive
              /\ i \in Protected /\ ~HasLoader(entry[i]) => HasLoader(entry[j])
<1>1. i \in Ids /\ entry[i] \in Entries /\ i \in Existing
  BY Exists
<1>2. ASSUME NEW role \in {"main", "fallback", "wfai"}, On("host", role) # {}
      PROVE  \E j \in Ids \ D : j \in On("host", role)
  <2>1. PICK j \in On("host", role) : D \cap On("host", role) = On("host", role) \ {j}
    BY <1>2 DEF Doomed
  <2> QED
    BY <2>1, OnIds
<1>3. ASSUME NEW drive \in {"host", "other"}, NEW role \in Roles, NEW j \in On(drive, role)
      PROVE  entry[j] # Absent /\ entry[j].drive = drive /\ (role # "devpath" => HasLoader(entry[j]))
  BY DEF On, Existing, HasLoader
<1>4. ASSUME NEW drive \in {"host", "other"}, BootFile(drive), entry[i].drive = drive
      PROVE  \E j \in Ids \ D : entry[j] # Absent /\ entry[j].drive = drive /\ HasLoader(entry[j])
  <2>1. CASE drive = "host"
    <3>1. \E role \in {"main", "fallback"} : On("host", role) # {}
      BY <1>4, <2>1 DEF BootFile, Mains
    <3> QED
      BY <1>2, <1>3, <2>1, <3>1 DEF Roles
  <2>2. CASE drive = "other"
    <3>1. PICK j \in On("other", "fallback") : j \notin D
      BY <1>4, <2>2 DEF BootFile, Doomed
    <3> QED
      BY <1>3, <2>2, <3>1, OnIds DEF Roles
  <2> QED
    BY <2>1, <2>2
<1>5. ASSUME NEW S \in SUBSET Existing, i \in S,
             D \cap S \in OneKept(S) \cup OneOrTwoKept(S)
      PROVE  \E j \in S \ D : i \notin Protected
  <2>1. CASE S \cap Protected # {}
    <3>1. D \cap S \cap Protected = {}
      BY <1>5, <2>1 DEF OneKept, OneOrTwoKept
    <3> QED
      BY <1>5, <2>1, <3>1
  <2>2. CASE S \cap Protected = {}
    <3>1. PICK j \in S : D \cap S = S \ {j}
      BY <1>5, <2>2 DEF OneKept, OneOrTwoKept
    <3> QED
      BY <1>5, <2>2, <3>1
  <2> QED
    BY <2>1, <2>2
<1>6. CASE entry[i].drive = "host" /\ entry[i].role # "devpath"
  <2>1. entry[i].role \in {"main", "fallback", "wfai"} /\ i \in On("host", entry[i].role)
    BY <1>1, <1>6 DEF Entries, Roles, On
  <2>2. PICK j \in Ids \ D : j \in On("host", entry[i].role)
    BY <1>2, <2>1
  <2> QED
    BY <1>3, <1>6, <2>1, <2>2 DEF HasLoader, Roles
<1>7. CASE entry[i].drive = "other" /\ entry[i].role \in {"main", "fallback", "wfai"}
  <2>1. i \in On("other", entry[i].role)
    BY <1>1, <1>7 DEF On
  <2> QED
    BY <1>7, <2>1 DEF Doomed
<1>8. CASE entry[i].drive \in {"host", "other"} /\ entry[i].role = "devpath"
  <2> DEFINE S == On(entry[i].drive, "devpath")
  <2>1. i \in S /\ S \in SUBSET Existing
    BY <1>1, <1>8, OnIds DEF On
  <2>2. BootFile(entry[i].drive) \/ D \cap S \in OneKept(S) \cup OneOrTwoKept(S)
    BY <1>8, <2>1 DEF Doomed
  <2>3. CASE BootFile(entry[i].drive)
    BY <1>4, <1>8, <2>3
  <2>4. CASE D \cap S \in OneKept(S) \cup OneOrTwoKept(S)
    <3>1. PICK j \in S \ D : i \notin Protected
      BY <1>5, <2>1, <2>4
    <3> QED
      BY <1>3, <1>8, <3>1, OnIds DEF Roles
  <2> QED
    BY <2>2, <2>3, <2>4
<1> QED
  BY <1>1, <1>6, <1>7, <1>8 DEF Entries, Roles

(* What PruneOne does not delete, it leaves as it is.                      *)
LEMMA PruneOneOther ==
    ASSUME entry \in Tables, faults \in Nat, PruneOne, NEW i \in Ids, entry'[i] # Absent
    PROVE  entry'[i] = entry[i]
<1>1. CASE Same
  BY <1>1 DEF Same, nvram
<1>2. CASE \E j \in op.doomed, done \in BOOLEAN : Remove(j, done)
  <2>1. PICK j \in op.doomed, done \in BOOLEAN : Remove(j, done)
    BY <1>2
  <2>2. \A m \in Ids : m # j => entry'[m] = entry[m]
    BY <2>1, RemoveEffect
  <2>3. j \in Ids => entry'[j] \in {entry[j], Absent}
    BY <2>1, RemoveEffect
  <2> QED
    BY <2>2, <2>3
<1> QED
  BY <1>1, <1>2 DEF PruneOne, Refused

LEMMA OwnedStep == ASSUME IInv, [Next]_vars PROVE IOwned'
<1>1. /\ entry' \in Tables /\ next' = next /\ current' = current /\ pre' = pre
      /\ Protected' = Protected
  BY TouchStep DEF Effect, Protected
<1>2. entry \in Tables /\ pre.entry \in Tables
  BY DEF IInv, IType
<1>3. ASSUME pc' \in LabelSteps \cup DeleteSteps
      PROVE  /\ op'.id \in Ids \ Protected /\ pre.entry[op'.id] \in Entries
             /\ pc' \in LabelSteps \cup {"remove"} =>
                    /\ entry'[op'.id] \in Entries
                    /\ op'.scope = "target" => entry'[op'.id].drive # "host"
  <2>1. CASE pc = "idle"
    <3>1. /\ outcome = "none" /\ entry' = entry
          /\ \E scope \in Scopes, i \in Ids :
                MayTouch(i, scope) /\ op'.id = i /\ op'.scope = scope
      BY <1>3, <2>1, OwnedFrom DEF LabelSteps, DeleteSteps
    <3>2. pre.entry = entry
      BY <2>1, <3>1 DEF IInv, IRoutes
    <3> QED
      BY <1>2, <3>1, <3>2, Exists DEF MayTouch, InClassHost
  <2>2. CASE pc # "idle"
    BY <1>3, <2>2, OwnedFrom DEF IInv, IOwned
  <2> QED
    BY <2>1, <2>2
<1>4. ASSUME pc' = "relabelMain", Ensure
      PROVE  op'.id \in Ids /\ entry'[op'.id] \in Entries
  <2>2. entry' = entry
    BY <1>4 DEF Ensure, Same, nvram
  <2>3. PICK i \in Mains : op' = [op EXCEPT !.id = i, !.state = ""]
    BY <1>4, FailSteady DEF Ensure, Goto, Set
  <2>4. i \in Ids /\ entry[i] \in Entries
    BY <1>2, OnIds, Exists DEF Mains
  <2>5. op'.id = i
    BY <2>3 DEF IInv, IType, Ops
  <2> QED
    BY <2>2, <2>4, <2>5
<1>5. ASSUME pc' = "relabelMain"
      PROVE  op'.id \in Ids /\ entry'[op'.id] \in Entries
  <2>1. CASE UNCHANGED vars
    BY <1>5, <2>1 DEF vars, IInv, IOwned
  <2> QED
    BY <1>4, <1>5, <2>1, FromEnsure
<1>6. (pc' \in LabelSteps \cup DeleteSteps =>
          op'.id \in Ids \ Protected' /\ pre'.entry[op'.id] \in Entries)
  BY <1>1, <1>3
<1>7. (pc' \in LabelSteps \cup {"remove"} =>
          /\ entry'[op'.id] \in Entries
          /\ op'.scope = "target" => entry'[op'.id].drive # "host")
  BY <1>3 DEF DeleteSteps
<1> QED
  BY <1>5, <1>6, <1>7 DEF IOwned

LEMMA DoomedStep == ASSUME IInv, [Next]_vars PROVE IDoomed'
<1>1. /\ entry' \in Tables /\ next' = next /\ current' = current
      /\ Protected' = Protected
  BY TouchStep DEF Effect, Protected
<1>2. entry \in Tables /\ op \in Ops
  BY DEF IInv, IType
<1>3. ASSUME pc' = "pruning", Prune
      PROVE  \A i \in op'.doomed : entry'[i] # Absent => Stays(i)'
  <2>1. entry' = entry /\ pc = "prune"
    BY <1>3 DEF Prune, Same, nvram
  <2>2. PICK D \in SUBSET Existing : Doomed(D) /\ op' = [op EXCEPT !.doomed = D]
    BY <1>3, FailSteady DEF Prune, Goto, Set
  <2>3. op'.doomed = D
    BY <1>2, <2>2, OnIds DEF Ops
  <2>4. ASSUME NEW i \in D
        PROVE  \E j \in Ids \ D :
                  /\ entry[j] # Absent /\ entry[j].drive = entry[i].drive
                  /\ i \in Protected /\ ~HasLoader(entry[i]) => HasLoader(entry[j])
    BY <1>2, <2>2, DoomedLeaves
  <2> QED
    BY <1>1, <2>1, <2>3, <2>4 DEF Stays
<1>4. ASSUME pc' = "pruning", PruneOne
      PROVE  \A i \in op'.doomed : entry'[i] # Absent => Stays(i)'
  <2>1. /\ op'.doomed \subseteq op.doomed /\ pc = "pruning"
        /\ \A j \in Ids \ op.doomed : entry'[j] = entry[j]
    BY <1>4, PruneOneTouch DEF PruneOne
  <2>2. ASSUME NEW i \in op'.doomed, entry'[i] # Absent
        PROVE  Stays(i)'
    <3>1. i \in Ids /\ i \in op.doomed
      BY <1>2, <2>1 DEF Ops
    <3>2. entry'[i] = entry[i] /\ entry[i] # Absent
      BY <1>2, <1>4, <2>1, <2>2, <3>1, PruneOneOther DEF IInv, IType
    <3>3. PICK j \in Ids \ op.doomed :
            /\ entry[j] # Absent /\ entry[j].drive = entry[i].drive
            /\ i \in Protected /\ ~HasLoader(entry[i]) => HasLoader(entry[j])
      BY <2>1, <3>1, <3>2 DEF IInv, IDoomed, Stays
    <3>4. j \in Ids \ op'.doomed /\ entry'[j] = entry[j]
      BY <2>1
    <3> QED
      BY <1>1, <3>2, <3>3, <3>4 DEF Stays
  <2> QED
    BY <2>2
<1>5. CASE UNCHANGED vars
  BY <1>5 DEF vars, IInv, IDoomed, Stays, Protected
<1> QED
  BY <1>3, <1>4, <1>5, FromPrune DEF IDoomed

LEMMA RoutesStep == ASSUME IInv, [Next]_vars PROVE IRoutes'
<1>1. /\ entry' \in Tables /\ pre' = pre
      /\ \A i \in Existing : Touch(i)
  BY TouchStep DEF Effect
<1>2. entry \in Tables /\ pre.entry \in Tables /\ op \in Ops
  BY DEF IInv, IType
<1>3. pc' = "idle" /\ outcome' = "none" => pre'.entry = entry'
  <2>1. CASE UNCHANGED vars
    BY <2>1 DEF vars, IInv, IRoutes
  <2> QED
    BY <2>1, NotNone
<1>4. ASSUME op'.kind = "default", outcome' # "failed", pc' # "undoNext",
             NEW drive \in {"host", "other"},
             NEW i \in PreExisting, pre.entry[i].drive = drive
      PROVE  \E j \in Ids : entry'[j] # Absent /\ entry'[j].drive = drive
  <2>1. PICK j \in Existing : entry[j].drive = drive
    <3>0. CASE UNCHANGED vars
      <4>1. op.kind = "default" /\ outcome # "failed" /\ pc # "undoNext"
        BY <1>4, <3>0 DEF vars
      <4> QED
        BY <1>4, <4>1 DEF IInv, IRoutes, PruningKeepsRoutes, RouteKept, PreExisting
    <3>1. CASE pc = "idle" /\ ~(UNCHANGED vars)
      <4>1. pre.entry = entry
        BY <3>1, AtIdle DEF IInv, IRoutes
      <4> QED
        BY <1>4, <4>1 DEF PreExisting, Existing
    <3>2. CASE pc # "idle"
      <4>1. op.kind = "default" /\ outcome # "failed"
        BY <1>4, <3>2, OpStep DEF IInv, IType, IKind, SameRequest
      <4>2. pc # "undoNext"
        BY <1>4, AtPruning DEF PruneOne, UndoNext, End, vars
      <4> QED
        BY <1>4, <4>1, <4>2 DEF IInv, IRoutes, PruningKeepsRoutes, RouteKept, PreExisting
    <3> QED
      BY <3>0, <3>1, <3>2
  <2>2. j \in Ids /\ entry[j] \in Entries
    BY <1>2, Exists
  <2>3. CASE entry'[j] = entry[j]
    BY <2>1, <2>2, <2>3, AbsentIsNone
  <2>4. CASE entry'[j] \in Entries /\ entry'[j] = [entry[j] EXCEPT !.label = entry'[j].label]
    BY <2>1, <2>2, <2>4, AbsentIsNone DEF Entries
  <2>5. CASE pc \in LabelSteps \cup {"remove"}
    <3>1. op.kind # "default" /\ pc # "idle"
      BY <2>5 DEF IInv, IKind, LabelSteps, DeleteSteps
    <3> QED
      BY <1>2, <1>4, <3>1, OpStep DEF SameRequest, IInv, IType
  <2>6. CASE pc = "pruning" /\ j \in op.doomed
    <3>1. PICK m \in Ids \ op.doomed : entry[m] # Absent /\ entry[m].drive = entry[j].drive
      BY <2>2, <2>6, AbsentIsNone DEF IInv, IDoomed, Stays
    <3>2. CASE UNCHANGED vars
      BY <2>1, <2>2, <3>2, AbsentIsNone DEF vars
    <3>3. CASE PruneOne
      BY <2>1, <3>1, <3>3, PruneOneTouch
    <3> QED
      BY <2>6, <3>2, <3>3, AtPruning DEF UndoNext
  <2>7. CASE pc = "undoCreate" /\ pc' = "undoNext"
    BY <1>4, <2>7
  <2> QED
    BY <1>1, <2>1, <2>3, <2>4, <2>5, <2>6, <2>7 DEF Touch
<1>5. PruningKeepsRoutes'
  BY <1>1, <1>4 DEF PruningKeepsRoutes, RouteKept, PreExisting, Existing
<1> QED
  BY <1>3, <1>5 DEF IRoutes

-----------------------------------------------------------------------------
(* The theorems.                                                           *)

LEMMA InitInv == Init => IInv
<1> SUFFICES ASSUME Init PROVE IInv
  OBVIOUS
<1>1. entry \in Tables /\ pre.entry = entry
  BY DEF Init, Tables
<1>2. pc = "idle" /\ op = NoOp /\ outcome = "none" /\ faults = 0
  BY DEF Init
<1>3. op.kind = "none" /\ op.scope = "host" /\ op.doomed = {}
  BY <1>2 DEF NoOp
<1>4. IType
  BY <1>1, <1>2, NoOpType DEF IType
<1>5. IKind
  BY <1>2, <1>3 DEF IKind, DefaultSteps, LabelSteps, DeleteSteps, ReorderSteps
<1>6. IOwned /\ IDoomed
  BY <1>2 DEF IOwned, IDoomed, LabelSteps, DeleteSteps
<1>7. IRoutes
  BY <1>1, <1>3 DEF IRoutes, PruningKeepsRoutes
<1> QED
  BY <1>4, <1>5, <1>6, <1>7 DEF IInv

LEMMA StepInv == IInv /\ [Next]_vars => IInv'
<1> SUFFICES ASSUME IInv, [Next]_vars PROVE IInv'
  OBVIOUS
<1>1. IType'
  <2>1. op' \in Ops
    BY OpStep DEF IInv, IType
  <2>2. entry' \in Tables /\ pre' = pre /\ faults' \in Nat
    BY TouchStep DEF Effect
  <2> QED
    BY <2>1, <2>2 DEF IInv, IType
<1>2. IKind'
  BY KindStep DEF IInv, IType
<1> QED
  BY <1>1, <1>2, OwnedStep, DoomedStep, RoutesStep DEF IInv

(* The inductive invariant holds in every behaviour.                       *)
THEOREM EfiInvariant == Spec => []IInv
  BY InitInv, StepInv, PTL DEF Spec

(* Whatever calls go wrong, a host-default that does not roll back leaves  *)
(* every drive a boot entry, at each moment at which it may be killed.     *)
THEOREM RoutesHold == Spec => []PruningKeepsRoutes
<1>1. IInv => PruningKeepsRoutes
  BY DEF IInv, IRoutes
<1> QED
  BY <1>1, EfiInvariant, PTL

LEMMA ActiveStep ==
    ASSUME IInv, [Next]_vars, NEW i \in Protected \cap Existing
    PROVE  \/ entry'[i] = entry[i]
           \/ op.kind = "default" /\ entry'[i] = [entry[i] EXCEPT !.label = entry'[i].label]
           \/ /\ op.kind = "default" /\ ~HasLoader(entry[i])
              /\ \E j \in Ids : entry'[j] # Absent /\ HasLoader(entry'[j])
                                 /\ entry'[j].drive = entry[i].drive
           \/ pc = "undoCreate" /\ op.blind /\ i = op.id
<1>1. Touch(i)
  BY TouchStep DEF Effect
<1>2. ~(pc \in LabelSteps \cup {"remove"} /\ i = op.id)
  BY DEF IInv, IOwned, DeleteSteps
<1>3. CASE pc = "pruning" /\ i \in op.doomed /\ i \notin op'.doomed /\ ~HasLoader(entry[i])
  <2>1. op.kind = "default"
    BY <1>3 DEF IInv, IKind, DefaultSteps
  <2>2. PruneOne
    BY <1>3, AtPruning DEF vars, UndoNext
  <2>3. PICK j \in Ids \ op.doomed :
          entry[j] # Absent /\ entry[j].drive = entry[i].drive /\ HasLoader(entry[j])
    BY <1>3 DEF IInv, IDoomed, Stays, Existing
  <2>4. entry'[j] = entry[j]
    BY <2>2, <2>3, PruneOneTouch
  <2> QED
    BY <1>3, <2>1, <2>3, <2>4
<1> QED
  BY <1>1, <1>2, <1>3 DEF Touch

(* No step deletes or redirects the entry the machine runs from or boots   *)
(* next, save a record of the firmware's own beside a managed entry, and   *)
(* the entry of a rollback that could not list the active ones.            *)
THEOREM ActiveHolds == Spec => ActiveKept
<1>1. IInv /\ [Next]_vars =>
        [\A i \in Protected \cap Existing :
          \/ entry'[i] = entry[i]
          \/ op.kind = "default" /\ entry'[i] = [entry[i] EXCEPT !.label = entry'[i].label]
          \/ /\ op.kind = "default" /\ ~HasLoader(entry[i])
             /\ \E j \in Ids : entry'[j] # Absent /\ HasLoader(entry'[j])
                                /\ entry'[j].drive = entry[i].drive
          \/ pc = "undoCreate" /\ op.blind /\ i = op.id]_vars
  BY ActiveStep
<1> QED
  BY <1>1, EfiInvariant, PTL DEF Spec, ActiveKept

LEMMA HostStep ==
    ASSUME IInv, [Next]_vars, op.scope = "target", NEW i \in Existing,
           entry[i].drive = "host"
    PROVE  entry'[i] = entry[i]
<1>1. Touch(i)
  BY TouchStep DEF Effect
<1>2. op.kind # "default"
  BY DEF IInv, IKind
<1>3. pc \notin DefaultSteps
  BY <1>2 DEF IInv, IKind
<1>4. ~(pc \in LabelSteps \cup {"remove"} /\ i = op.id)
  BY DEF IInv, IOwned
<1> QED
  BY <1>1, <1>2, <1>3, <1>4 DEF Touch, DefaultSteps

(* While a repair target is selected, the host's ESP is known and is not   *)
(* the target's, no step changes an entry of the host.                     *)
THEOREM HostHolds == Spec => HostKept
<1>1. IInv /\ [Next]_vars =>
        [op.scope = "target" =>
            \A i \in Existing : entry[i].drive = "host" => entry'[i] = entry[i]]_vars
  BY HostStep
<1> QED
  BY <1>1, EfiInvariant, PTL DEF Spec, HostKept
=============================================================================
