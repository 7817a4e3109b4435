----------------------- MODULE SnapshotRollbackProofs -----------------------
(***************************************************************************)
(* The properties of SnapshotRollback, proved for any number of rollbacks  *)
(* and both scopes.  The inductive invariant says, for every step of the   *)
(* transaction and of its recovery, where each subvolume is: IName for the *)
(* roots, IStore, IDefault and IHome for what is switched with them.       *)
(***************************************************************************)
EXTENDS SnapshotRollback, TLAPS

Early == {"ask", "create", "detach", "preserve"}
Between == {"demote", "represerve", "promote", "unpromote", "unpromoteRunning"}
Switched == {"identify", "homeAside", "homeCreate", "homeFill", "setDefault",
             "mount", "bootRestore", "reconcile"}
Recovering == {"recHome", "recDetach", "recStore", "recAside"}
Rebuilding == {"recMount", "recBoot", "recReconcile"}
Renaming == {"recName", "recRunning", "recDefault"}

(* Nothing carries the stamp of a rollback that has not begun.             *)
IFree == \A s \in Stamps : s > k => before[s] = None /\ homeUndo[s] = None

IStamp ==
    /\ store <= k /\ running # None
    /\ pc # "idle" => /\ k \in Stamps /\ txn.undo < k /\ txn.prev \in Subvols
                      /\ txn.prevStore < k
                      /\ txn.nested => txn.prevStore = txn.prev

IFresh == IFree /\ IStamp

IName ==
    /\ pc \in Early => /\ root = txn.prev /\ before[k] = None
                       /\ Chained => before[txn.undo] = running
    /\ pc \in {"demote", "represerve", "unpromoteRunning", "recRunning"} =>
           /\ Chained /\ root = txn.prev
           /\ before[txn.undo] = None /\ before[k] = running
    /\ pc \in {"promote", "unpromote", "recName"} =>
           /\ root = None /\ before[Aside] = txn.prev
           /\ Chained => before[k] = running
    /\ pc \in {"migrate"} \cup Switched \cup Recovering =>
           /\ root = k /\ before[Aside] = txn.prev
           /\ Chained => before[k] = running
    /\ pc \in {"recDefault"} \cup Rebuilding =>
           /\ root = txn.prev
           /\ Chained => before[txn.undo] = running

IStore ==
    /\ pc \in Early \cup Between \cup {"migrate", "recAside"} \cup Renaming \cup Rebuilding
           => store = txn.prevStore
    /\ pc = "migrate" => txn.nested
    /\ pc \in Switched => store = IF txn.nested THEN k ELSE txn.prevStore
    /\ pc \in {"recHome", "recDetach", "recStore"} =>
           store = txn.prevStore \/ (txn.nested /\ store = k)

IDefault ==
    /\ pc \in Early \cup Between \cup {"migrate", "identify", "homeAside",
                                       "homeCreate", "homeFill", "setDefault"}
           => default = txn.prevDefault
    /\ pc \in {"mount", "bootRestore", "reconcile"} => default = k
    /\ pc \in Rebuilding => default = IF txn.known THEN txn.prevDefault ELSE root

IHome ==
    /\ pc \in Early \cup Between \cup {"migrate", "identify", "homeAside"} =>
           home = txn.prevHome /\ ~txn.swapped /\ homeUndo[k] = None
    /\ pc = "homeCreate" => home = None /\ ~txn.swapped
    /\ pc = "homeFill" => home = k /\ txn.swapped
    /\ pc \in {"homeCreate", "homeFill"} => txn.optIn /\ homeUndo[k] = txn.prevHome
    /\ pc = "homeAside" => txn.optIn
    /\ pc \in {"setDefault", "mount", "bootRestore", "reconcile"} =>
           IF txn.optIn THEN home = k /\ homeUndo[k] = txn.prevHome /\ txn.swapped
                        ELSE home = txn.prevHome /\ ~txn.swapped
    /\ pc \in Recovering \cup Renaming \cup Rebuilding =>
           /\ txn.swapped => homeUndo[k] = txn.prevHome /\ home \in {k, None}
           /\ txn.reports /\ ~txn.swapped => home = txn.prevHome

IDone == RestoredIsRestored /\ SuccessIsSwitched /\ NeverRootless

IInv == TypeOK /\ IFresh /\ IName /\ IStore /\ IDefault /\ IHome /\ IDone

(* The parts of the type invariant, proved apart.                          *)
TControl == scope \in {"host", "target"} /\ pc \in Steps /\ outcome \in Outcomes

TDisk ==
    /\ root \in Maybe
    /\ new \subseteq Stamps /\ failed \subseteq Stamps
    /\ before \in [Stamps -> Maybe]
    /\ default \in Maybe /\ store \in Maybe
    /\ home \in Maybe /\ homeUndo \in [Stamps -> Maybe]
    /\ boot \in Maybe /\ running \in Maybe

TTxn == txn \in Txns

(* The values that the steps move around have their types.                 *)
LEMMA Values ==
    ASSUME TypeOK, IFresh
    PROVE  /\ k \in Subvols /\ k \in Nat /\ txn.undo \in Subvols
           /\ pc # "idle" => k \in Stamps /\ Aside \in Stamps
           /\ Chained => txn.undo \in Subvols \ {0}
           /\ pc # "idle" /\ Chained => txn.undo \in Stamps /\ txn.undo # k
           /\ txn.prev \in Maybe /\ txn.prevDefault \in Maybe
           /\ txn.prevStore \in Maybe /\ txn.prevHome \in Maybe
           /\ None \in Maybe /\ Subvols \subseteq Maybe /\ Stamps \subseteq Subvols
           /\ None \notin Subvols
           /\ \A f \in {"known", "nested", "optIn", "swapped", "reports"} : txn[f] \in BOOLEAN
           /\ DOMAIN txn = DOMAIN NoTxn
  BY RollbackAssumption DEF TypeOK, IFresh, IStamp, Txns, NoTxn, k, Chained,
     Aside,
     Stamps, Subvols, Maybe, None

(* A step keeps the types of the control state. *)
LEMMA ControlStep ==
    ASSUME TControl, [Next]_vars
    PROVE  TControl'
<1> USE DEF Steps, Outcomes, TControl
<1>1. CASE Begin
  BY <1>1 DEF Begin, Goto, RootNameFits, StagedBy, k, names, homes, disk
<1>2. CASE Refuse
  BY <1>2 DEF Refuse, End, names, homes, disk
<1>3. CASE Confirm
  BY <1>3 DEF Confirm, Goto, names, homes, disk
<1>4. CASE Create
  BY <1>4 DEF Create, Goto, End, Continue, k, homes
<1>5. CASE Detach
  BY <1>5 DEF Detach, Goto, End, Continue, GiveUp, k, names, homes, disk
<1>6. CASE Preserve
  BY <1>6 DEF Preserve, Goto, End, Continue, GiveUp, k, Chained, homes
<1>7. CASE Demote
  BY <1>7 DEF Demote, Goto, Continue, homes
<1>8. CASE Represerve
  BY <1>8 DEF Represerve, End, k, homes
<1>9. CASE Promote
  BY <1>9 DEF Promote, Goto, Continue, k, homes
<1>10. CASE Unpromote
  BY <1>10 DEF Unpromote, Goto, End, Continue, k, Chained, Aside, homes
<1>11. CASE UnpromoteRunning
  BY <1>11 DEF UnpromoteRunning, End, k, homes
<1>12. CASE Migrate
  BY <1>12 DEF Migrate, Goto, Continue, Recover, k, names, homes
<1>13. CASE Identify
  BY <1>13 DEF Identify, Goto, Continue, Recover, names, homes, disk
<1>14. CASE HomeAside
  BY <1>14 DEF HomeAside, Goto, Continue, Recover, k, names, homes
<1>15. CASE HomeCreate
  BY <1>15 DEF HomeCreate, Goto, Recover, k, names, homes
<1>16. CASE HomeFill
  BY <1>16 DEF HomeFill, Goto, Continue, HomeSwapRestore, k, names, homes
<1>17. CASE SetDefault
  BY <1>17 DEF SetDefault, Goto, Continue, Recover, k, names, homes
<1>18. CASE Mount
  BY <1>18 DEF Mount, Goto, End, Continue, Recover, names, homes, disk
<1>19. CASE BootRestore
  BY <1>19 DEF BootRestore, Goto, End, Continue, names, homes
<1>20. CASE Reconcile
  BY <1>20 DEF Reconcile, Goto, End, Recover, names, homes
<1>21. CASE RecHome
  BY <1>21 DEF RecHome, Goto, HomeSwapRestore, k, names, homes
<1>22. CASE RecDetach
  BY <1>22 DEF RecDetach, Goto, End, Continue, RecoveryEnds, names, homes, disk
<1>23. CASE RecStore
  BY <1>23 DEF RecStore, Goto, End, Continue, RecoveryEnds, k, Chained,
     Aside, names, homes
<1>24. CASE RecAside
  BY <1>24 DEF RecAside, Goto, End, Continue, RecoveryEnds, k, homes
<1>25. CASE RecName
  BY <1>25 DEF RecName, Goto, End, Continue, RecoveryEnds, k, Chained,
     Aside, homes
<1>26. CASE RecRunning
  BY <1>26 DEF RecRunning, Goto, End, Continue, RecoveryEnds, k, homes
<1>27. CASE RecDefault
  BY <1>27 DEF RecDefault, Goto, End, Continue, RecoveryEnds, names, homes
<1>28. CASE RecMount
  BY <1>28 DEF RecMount, Goto, End, Continue, RecoveryEnds, names, homes, disk
<1>29. CASE RecBoot
  BY <1>29 DEF RecBoot, Goto, End, Continue, names, homes
<1>30. CASE RecReconcile
  BY <1>30 DEF RecReconcile, End, RecoveryEnds, names, homes
<1>31. CASE Killed
  BY <1>31 DEF Killed, End, names, homes, disk
<1>32. CASE Reboot
  BY <1>32 DEF Reboot, names, homes, disk
<1>33. CASE UNCHANGED vars
  BY <1>33 DEF vars
<1> QED
  BY <1>1, <1>2, <1>3, <1>4, <1>5, <1>6, <1>7, <1>8, <1>9, <1>10, <1>11,
     <1>12, <1>13, <1>14, <1>15, <1>16, <1>17, <1>18, <1>19, <1>20, <1>21,
     <1>22, <1>23, <1>24, <1>25, <1>26, <1>27, <1>28, <1>29, <1>30, <1>31,
     <1>32, <1>33 DEF Next

(* A step keeps the types of what is on the disk. *)
LEMMA DiskStep ==
    ASSUME TypeOK, IFresh, [Next]_vars
    PROVE  TDisk'
<1> USE Values DEF TDisk, TypeOK, RootNameFits, StagedBy
<1>1. CASE Begin
  BY <1>1 DEF Begin, Goto, k, names, homes, disk
<1>2. CASE Refuse
  BY <1>2 DEF Refuse, End, names, homes, disk
<1>3. CASE Confirm
  BY <1>3 DEF Confirm, Goto, names, homes, disk
<1>4. CASE Create
  BY <1>4 DEF Create, Goto, End, Continue, k, homes
<1>5. CASE Detach
  BY <1>5 DEF Detach, Goto, End, Continue, GiveUp, k, names, homes, disk
<1>6. CASE Preserve
  BY <1>6 DEF Preserve, Goto, End, Continue, GiveUp, k, Chained, homes
<1>7. CASE Demote
  BY <1>7 DEF Demote, Goto, Continue, homes
<1>8. CASE Represerve
  BY <1>8 DEF Represerve, End, k, homes
<1>9. CASE Promote
  BY <1>9 DEF Promote, Goto, Continue, k, homes
<1>10. CASE Unpromote
  BY <1>10 DEF Unpromote, Goto, End, Continue, k, Chained, Aside, homes
<1>11. CASE UnpromoteRunning
  BY <1>11 DEF UnpromoteRunning, End, k, homes
<1>12. CASE Migrate
  BY <1>12 DEF Migrate, Goto, Continue, Recover, k, names, homes
<1>13. CASE Identify
  BY <1>13 DEF Identify, Goto, Continue, Recover, names, homes, disk
<1>14. CASE HomeAside
  BY <1>14 DEF HomeAside, Goto, Continue, Recover, k, names, homes
<1>15. CASE HomeCreate
  BY <1>15 DEF HomeCreate, Goto, Recover, k, names, homes
<1>16. CASE HomeFill
  BY <1>16 DEF HomeFill, Goto, Continue, HomeSwapRestore, k, names, homes
<1>17. CASE SetDefault
  BY <1>17 DEF SetDefault, Goto, Continue, Recover, k, names, homes
<1>18. CASE Mount
  BY <1>18 DEF Mount, Goto, End, Continue, Recover, names, homes, disk
<1>19. CASE BootRestore
  BY <1>19 DEF BootRestore, Goto, End, Continue, names, homes
<1>20. CASE Reconcile
  BY <1>20 DEF Reconcile, Goto, End, Recover, names, homes
<1>21. CASE RecHome
  BY <1>21 DEF RecHome, Goto, HomeSwapRestore, k, names, homes
<1>22. CASE RecDetach
  BY <1>22 DEF RecDetach, Goto, End, Continue, RecoveryEnds, names, homes, disk
<1>23. CASE RecStore
  BY <1>23 DEF RecStore, Goto, End, Continue, RecoveryEnds, k, Chained,
     Aside, names, homes
<1>24. CASE RecAside
  BY <1>24 DEF RecAside, Goto, End, Continue, RecoveryEnds, k, homes
<1>25. CASE RecName
  BY <1>25 DEF RecName, Goto, End, Continue, RecoveryEnds, k, Chained,
     Aside, homes
<1>26. CASE RecRunning
  BY <1>26 DEF RecRunning, Goto, End, Continue, RecoveryEnds, k, homes
<1>27. CASE RecDefault
  BY <1>27 DEF RecDefault, Goto, End, Continue, RecoveryEnds, names, homes
<1>28. CASE RecMount
  BY <1>28 DEF RecMount, Goto, End, Continue, RecoveryEnds, names, homes, disk
<1>29. CASE RecBoot
  BY <1>29 DEF RecBoot, Goto, End, Continue, names, homes
<1>30. CASE RecReconcile
  BY <1>30 DEF RecReconcile, End, RecoveryEnds, names, homes
<1>31. CASE Killed
  BY <1>31 DEF Killed, End, names, homes, disk
<1>32. CASE Reboot
  BY <1>32 DEF Reboot, names, homes, disk
<1>33. CASE UNCHANGED vars
  BY <1>33 DEF vars
<1> QED
  BY <1>1, <1>2, <1>3, <1>4, <1>5, <1>6, <1>7, <1>8, <1>9, <1>10, <1>11,
     <1>12, <1>13, <1>14, <1>15, <1>16, <1>17, <1>18, <1>19, <1>20, <1>21,
     <1>22, <1>23, <1>24, <1>25, <1>26, <1>27, <1>28, <1>29, <1>30, <1>31,
     <1>32, <1>33 DEF Next

(* A step keeps the type of the locals of the transaction. *)
LEMMA TxnStep ==
    ASSUME TTxn, TDisk, [Next]_vars
    PROVE  TTxn'
<1> USE DEF TTxn, Txns, Stamps, Subvols, Maybe, None, RootNameFits,
   StagedBy, TDisk
<1>1. CASE Begin
  <2>1. PICK undo \in Subvols, known \in BOOLEAN :
            /\ pc = "idle" /\ k < MaxRollbacks /\ RootNameFits(undo)
            /\ txn' = [stamp |-> k + 1, undo |-> undo, known |-> known,
                       nested |-> store = root, optIn |-> FALSE, swapped |-> FALSE,
                       reports |-> FALSE, prev |-> root, prevDefault |-> default,
                       prevStore |-> store, prevHome |-> home]
            /\ Goto("ask") /\ UNCHANGED disk
    BY <1>1 DEF Begin
  <2>2. k + 1 \in Subvols
    BY <2>1, RollbackAssumption DEF k
  <2> QED
    BY <2>1, <2>2
<1>2. CASE Refuse
  BY <1>2 DEF Refuse, End, names, homes, disk
<1>3. CASE Confirm
  BY <1>3 DEF Confirm, Goto, names, homes, disk
<1>4. CASE Create
  BY <1>4 DEF Create, Goto, End, Continue, k, homes
<1>5. CASE Detach
  BY <1>5 DEF Detach, Goto, End, Continue, GiveUp, k, names, homes, disk
<1>6. CASE Preserve
  BY <1>6 DEF Preserve, Goto, End, Continue, GiveUp, k, Chained, homes
<1>7. CASE Demote
  BY <1>7 DEF Demote, Goto, Continue, homes
<1>8. CASE Represerve
  BY <1>8 DEF Represerve, End, k, homes
<1>9. CASE Promote
  BY <1>9 DEF Promote, Goto, Continue, k, homes
<1>10. CASE Unpromote
  BY <1>10 DEF Unpromote, Goto, End, Continue, k, Chained, Aside, homes
<1>11. CASE UnpromoteRunning
  BY <1>11 DEF UnpromoteRunning, End, k, homes
<1>12. CASE Migrate
  BY <1>12 DEF Migrate, Goto, Continue, Recover, k, names, homes
<1>13. CASE Identify
  BY <1>13 DEF Identify, Goto, Continue, Recover, names, homes, disk
<1>14. CASE HomeAside
  BY <1>14 DEF HomeAside, Goto, Continue, Recover, k, names, homes
<1>15. CASE HomeCreate
  BY <1>15 DEF HomeCreate, Goto, Recover, k, names, homes
<1>16. CASE HomeFill
  BY <1>16 DEF HomeFill, Goto, Continue, HomeSwapRestore, k, names, homes
<1>17. CASE SetDefault
  BY <1>17 DEF SetDefault, Goto, Continue, Recover, k, names, homes
<1>18. CASE Mount
  BY <1>18 DEF Mount, Goto, End, Continue, Recover, names, homes, disk
<1>19. CASE BootRestore
  BY <1>19 DEF BootRestore, Goto, End, Continue, names, homes
<1>20. CASE Reconcile
  BY <1>20 DEF Reconcile, Goto, End, Recover, names, homes
<1>21. CASE RecHome
  BY <1>21 DEF RecHome, Goto, HomeSwapRestore, k, names, homes
<1>22. CASE RecDetach
  BY <1>22 DEF RecDetach, Goto, End, Continue, RecoveryEnds, names, homes, disk
<1>23. CASE RecStore
  BY <1>23 DEF RecStore, Goto, End, Continue, RecoveryEnds, k, Chained,
     Aside, names, homes
<1>24. CASE RecAside
  BY <1>24 DEF RecAside, Goto, End, Continue, RecoveryEnds, k, homes
<1>25. CASE RecName
  BY <1>25 DEF RecName, Goto, End, Continue, RecoveryEnds, k, Chained,
     Aside, homes
<1>26. CASE RecRunning
  BY <1>26 DEF RecRunning, Goto, End, Continue, RecoveryEnds, k, homes
<1>27. CASE RecDefault
  BY <1>27 DEF RecDefault, Goto, End, Continue, RecoveryEnds, names, homes
<1>28. CASE RecMount
  BY <1>28 DEF RecMount, Goto, End, Continue, RecoveryEnds, names, homes, disk
<1>29. CASE RecBoot
  BY <1>29 DEF RecBoot, Goto, End, Continue, names, homes
<1>30. CASE RecReconcile
  BY <1>30 DEF RecReconcile, End, RecoveryEnds, names, homes
<1>31. CASE Killed
  BY <1>31 DEF Killed, End, names, homes, disk
<1>32. CASE Reboot
  BY <1>32 DEF Reboot, names, homes, disk
<1>33. CASE UNCHANGED vars
  BY <1>33 DEF vars
<1> QED
  BY <1>1, <1>2, <1>3, <1>4, <1>5, <1>6, <1>7, <1>8, <1>9, <1>10, <1>11,
     <1>12, <1>13, <1>14, <1>15, <1>16, <1>17, <1>18, <1>19, <1>20, <1>21,
     <1>22, <1>23, <1>24, <1>25, <1>26, <1>27, <1>28, <1>29, <1>30, <1>31,
     <1>32, <1>33 DEF Next

(* Only the rollback that begins takes a new stamp. *)
LEMMA StampStep ==
    ASSUME TypeOK, IFresh, IName, IStore, [Next]_vars
    PROVE  IStamp'
<1> USE DEF IFresh, IStamp, IStore, k, Chained, Chained, Aside, Early,
   Between, Switched, Recovering, Renaming, Rebuilding
<1>1. CASE Begin
  <2>1. PICK undo \in Subvols, known \in BOOLEAN :
            /\ pc = "idle" /\ k < MaxRollbacks /\ RootNameFits(undo)
            /\ txn' = [stamp |-> k + 1, undo |-> undo, known |-> known,
                       nested |-> store = root, optIn |-> FALSE, swapped |-> FALSE,
                       reports |-> FALSE, prev |-> root, prevDefault |-> default,
                       prevStore |-> store, prevHome |-> home]
            /\ Goto("ask") /\ UNCHANGED disk
    BY <1>1 DEF Begin
  <2>2. k + 1 \in Stamps /\ k \in Nat
    BY Values, <2>1, RollbackAssumption DEF Stamps
  <2>3. undo < k + 1
    BY <2>1, <2>2, Values DEF RootNameFits, StagedBy, IFree, Stamps,
       Subvols, TypeOK
  <2>4. root \in Subvols
    BY <2>1 DEF RootNameFits, StagedBy, TypeOK, Maybe
  <2>5. store < k + 1
    BY <2>2 DEF TypeOK, Maybe, Subvols, None
  <2>6. /\ txn'.stamp = k + 1 /\ txn'.undo = undo
        /\ txn'.prev = root /\ txn'.prevStore = store
        /\ txn'.nested => store = root
    BY <2>1
  <2>7. running' = running /\ store' = store /\ pc' # "idle"
    BY <2>1 DEF Goto, disk
  <2> QED
    BY <2>2, <2>3, <2>4, <2>5, <2>6, <2>7 DEF TypeOK, Maybe, Subvols, None
<1>2. CASE Refuse
  BY <1>2 DEF Refuse, End, names, homes, disk
<1>3. CASE Confirm
  BY <1>3 DEF Confirm, TypeOK, Txns, Goto, names, homes, disk
<1>4. CASE Create
  BY <1>4 DEF Create, Goto, End, Continue, homes
<1>5. CASE Detach
  BY <1>5 DEF Detach, Goto, End, Continue, GiveUp, names, homes, disk
<1>6. CASE Preserve
  BY <1>6 DEF Preserve, Goto, End, Continue, GiveUp, homes
<1>7. CASE Demote
  BY <1>7 DEF Demote, Goto, Continue, homes
<1>8. CASE Represerve
  BY <1>8 DEF Represerve, End, homes
<1>9. CASE Promote
  BY <1>9 DEF Promote, Goto, Continue, homes
<1>10. CASE Unpromote
  BY <1>10 DEF Unpromote, Goto, End, Continue, homes
<1>11. CASE UnpromoteRunning
  BY <1>11 DEF UnpromoteRunning, End, homes
<1>12. CASE Migrate
  BY Values, <1>12 DEF Migrate, TypeOK, Txns, Goto, Continue, Recover,
     names, homes, TypeOK
<1>13. CASE Identify
  BY <1>13 DEF Identify, TypeOK, Txns, Goto, Continue, Recover, names,
     homes, disk
<1>14. CASE HomeAside
  BY <1>14 DEF HomeAside, TypeOK, Txns, Goto, Continue, Recover, names, homes
<1>15. CASE HomeCreate
  BY <1>15 DEF HomeCreate, TypeOK, Txns, Goto, Recover, names, homes
<1>16. CASE HomeFill
  BY <1>16 DEF HomeFill, TypeOK, Txns, Goto, Continue, HomeSwapRestore,
     names, homes
<1>17. CASE SetDefault
  BY <1>17 DEF SetDefault, TypeOK, Txns, Goto, Continue, Recover, names, homes
<1>18. CASE Mount
  BY <1>18 DEF Mount, TypeOK, Txns, Goto, End, Continue, Recover, names,
     homes, disk
<1>19. CASE BootRestore
  BY <1>19 DEF BootRestore, Goto, End, Continue, names, homes
<1>20. CASE Reconcile
  BY <1>20 DEF Reconcile, TypeOK, Txns, Goto, End, Recover, names, homes
<1>21. CASE RecHome
  BY <1>21 DEF RecHome, TypeOK, Txns, Goto, HomeSwapRestore, names, homes
<1>22. CASE RecDetach
  BY <1>22 DEF RecDetach, Goto, End, Continue, RecoveryEnds, names, homes, disk
<1>23. CASE RecStore
  <2>1. store = k => before[Aside] = txn.prev /\ txn.prevStore = txn.prev
    BY Values, <1>23 DEF RecStore, IName, Recovering
  <2>2. store' \in {store, txn.prevStore} /\ txn' = txn /\ running' = running
    BY <2>1, <1>23 DEF RecStore, Goto, End, Continue, RecoveryEnds, IName,
       Recovering
  <2>3. txn.prevStore < k /\ k \in Nat /\ store \in Int /\ txn.prevStore \in Int
    BY Values, <1>23 DEF RecStore, TypeOK, Maybe, Subvols, None
  <2>4. store' <= k /\ UNCHANGED <<txn, running>>
    BY <2>2, <2>3
  <2> QED
    BY <2>4, <1>23 DEF RecStore
<1>24. CASE RecAside
  BY <1>24 DEF RecAside, Goto, End, Continue, RecoveryEnds, homes
<1>25. CASE RecName
  BY <1>25 DEF RecName, Goto, End, Continue, RecoveryEnds, homes
<1>26. CASE RecRunning
  BY <1>26 DEF RecRunning, Goto, End, Continue, RecoveryEnds, homes
<1>27. CASE RecDefault
  BY <1>27 DEF RecDefault, Goto, End, Continue, RecoveryEnds, names, homes
<1>28. CASE RecMount
  BY <1>28 DEF RecMount, Goto, End, Continue, RecoveryEnds, names, homes, disk
<1>29. CASE RecBoot
  BY <1>29 DEF RecBoot, Goto, End, Continue, names, homes
<1>30. CASE RecReconcile
  BY <1>30 DEF RecReconcile, End, RecoveryEnds, names, homes
<1>31. CASE Killed
  BY <1>31 DEF Killed, End, names, homes, disk
<1>32. CASE Reboot
  BY <1>32 DEF Reboot, names, homes, disk
<1>33. CASE UNCHANGED vars
  BY <1>33 DEF vars
<1> QED
  BY <1>1, <1>2, <1>3, <1>4, <1>5, <1>6, <1>7, <1>8, <1>9, <1>10, <1>11,
     <1>12, <1>13, <1>14, <1>15, <1>16, <1>17, <1>18, <1>19, <1>20, <1>21,
     <1>22, <1>23, <1>24, <1>25, <1>26, <1>27, <1>28, <1>29, <1>30, <1>31,
     <1>32, <1>33 DEF Next

(* Every rename leaves each root under the name the next step expects. *)
LEMMA NameStep ==
    ASSUME TypeOK, IFresh, IName, [Next]_vars
    PROVE  IName'
<1> USE DEF IFresh, IFree, IStamp, IName, k, Chained, Aside, Early,
   Switched, Recovering, Rebuilding
<1>1. CASE Begin
  <2>1. PICK undo \in Subvols, known \in BOOLEAN :
            /\ pc = "idle" /\ k < MaxRollbacks /\ RootNameFits(undo)
            /\ txn' = [stamp |-> k + 1, undo |-> undo, known |-> known,
                       nested |-> store = root, optIn |-> FALSE, swapped |-> FALSE,
                       reports |-> FALSE, prev |-> root, prevDefault |-> default,
                       prevStore |-> store, prevHome |-> home]
            /\ Goto("ask") /\ UNCHANGED disk
    BY <1>1 DEF Begin
  <2>2. /\ k + 1 \in Stamps /\ txn.stamp + 1 = k + 1
        /\ before[k + 1] = None /\ homeUndo[k + 1] = None
    BY Values, <2>1, RollbackAssumption DEF Stamps, IFresh, IFree, k
  <2> QED
    BY Values, <2>1, <2>2 DEF Goto, RootNameFits, StagedBy, names, homes,
       disk, TypeOK
<1>2. CASE Refuse
  BY <1>2 DEF Refuse, End, names, homes, disk
<1>3. CASE Confirm
  BY <1>3 DEF Confirm, TypeOK, Txns, Goto, names, homes, disk
<1>4. CASE Create
  BY <1>4 DEF Create, Goto, End, Continue, homes
<1>5. CASE Detach
  BY <1>5 DEF Detach, Goto, End, Continue, GiveUp, names, homes, disk
<1>6. CASE Preserve
  BY Values, <1>6 DEF Preserve, Goto, End, Continue, GiveUp, homes, TypeOK
<1>7. CASE Demote
  BY Values, <1>7 DEF Demote, Goto, Continue, homes, TypeOK
<1>8. CASE Represerve
  BY <1>8 DEF Represerve, End, homes
<1>9. CASE Promote
  BY <1>9 DEF Promote, Goto, Continue, homes
<1>10. CASE Unpromote
  BY Values, <1>10 DEF Unpromote, Goto, End, Continue, homes, TypeOK
<1>11. CASE UnpromoteRunning
  BY <1>11 DEF UnpromoteRunning, End, homes
<1>12. CASE Migrate
  BY <1>12 DEF Migrate, TypeOK, Txns, Goto, Continue, Recover, names, homes
<1>13. CASE Identify
  BY <1>13 DEF Identify, TypeOK, Txns, Goto, Continue, Recover, names,
     homes, disk
<1>14. CASE HomeAside
  BY <1>14 DEF HomeAside, TypeOK, Txns, Goto, Continue, Recover, names, homes
<1>15. CASE HomeCreate
  BY <1>15 DEF HomeCreate, TypeOK, Txns, Goto, Recover, names, homes
<1>16. CASE HomeFill
  BY <1>16 DEF HomeFill, TypeOK, Txns, Goto, Continue, HomeSwapRestore,
     names, homes
<1>17. CASE SetDefault
  BY <1>17 DEF SetDefault, TypeOK, Txns, Goto, Continue, Recover, names, homes
<1>18. CASE Mount
  BY <1>18 DEF Mount, TypeOK, Txns, Goto, End, Continue, Recover, names,
     homes, disk
<1>19. CASE BootRestore
  BY <1>19 DEF BootRestore, Goto, End, Continue, names, homes
<1>20. CASE Reconcile
  BY <1>20 DEF Reconcile, TypeOK, Txns, Goto, End, Recover, names, homes
<1>21. CASE RecHome
  BY <1>21 DEF RecHome, TypeOK, Txns, Goto, HomeSwapRestore, names, homes
<1>22. CASE RecDetach
  BY <1>22 DEF RecDetach, Goto, End, Continue, RecoveryEnds, names, homes, disk
<1>23. CASE RecStore
  BY <1>23 DEF RecStore, Goto, End, Continue, RecoveryEnds, names, homes
<1>24. CASE RecAside
  BY <1>24 DEF RecAside, Goto, End, Continue, RecoveryEnds, homes
<1>25. CASE RecName
  BY Values, <1>25 DEF RecName, Goto, End, Continue, RecoveryEnds, homes, TypeOK
<1>26. CASE RecRunning
  BY Values, <1>26 DEF RecRunning, Goto, End, Continue, RecoveryEnds, homes,
     TypeOK
<1>27. CASE RecDefault
  BY <1>27 DEF RecDefault, Goto, End, Continue, RecoveryEnds, names, homes
<1>28. CASE RecMount
  BY <1>28 DEF RecMount, Goto, End, Continue, RecoveryEnds, names, homes, disk
<1>29. CASE RecBoot
  BY <1>29 DEF RecBoot, Goto, End, Continue, names, homes
<1>30. CASE RecReconcile
  BY <1>30 DEF RecReconcile, End, RecoveryEnds, names, homes
<1>31. CASE Killed
  BY <1>31 DEF Killed, End, names, homes, disk
<1>32. CASE Reboot
  BY <1>32 DEF Reboot, names, homes, disk
<1>33. CASE UNCHANGED vars
  BY <1>33 DEF vars
<1> QED
  BY <1>1, <1>2, <1>3, <1>4, <1>5, <1>6, <1>7, <1>8, <1>9, <1>10, <1>11,
     <1>12, <1>13, <1>14, <1>15, <1>16, <1>17, <1>18, <1>19, <1>20, <1>21,
     <1>22, <1>23, <1>24, <1>25, <1>26, <1>27, <1>28, <1>29, <1>30, <1>31,
     <1>32, <1>33 DEF Next

(* The nested store follows the root and comes back with it. *)
LEMMA StoreStep ==
    ASSUME TypeOK, IFresh, IName, IStore, [Next]_vars
    PROVE  IStore'
<1> USE DEF IFresh, IStamp, IName, IStore, k, Chained, Aside, Early,
   Between, Switched, Recovering, Renaming, Rebuilding
<1>1. CASE Begin
  BY <1>1 DEF Begin, Goto, RootNameFits, StagedBy, names, homes, disk
<1>2. CASE Refuse
  BY <1>2 DEF Refuse, End, names, homes, disk
<1>3. CASE Confirm
  BY <1>3 DEF Confirm, TypeOK, Txns, Goto, names, homes, disk
<1>4. CASE Create
  BY <1>4 DEF Create, Goto, End, Continue, homes
<1>5. CASE Detach
  BY <1>5 DEF Detach, Goto, End, Continue, GiveUp, names, homes, disk
<1>6. CASE Preserve
  BY <1>6 DEF Preserve, Goto, End, Continue, GiveUp, homes
<1>7. CASE Demote
  BY <1>7 DEF Demote, Goto, Continue, homes
<1>8. CASE Represerve
  BY <1>8 DEF Represerve, End, homes
<1>9. CASE Promote
  BY <1>9 DEF Promote, Goto, Continue, homes
<1>10. CASE Unpromote
  BY <1>10 DEF Unpromote, Goto, End, Continue, homes
<1>11. CASE UnpromoteRunning
  BY <1>11 DEF UnpromoteRunning, End, homes
<1>12. CASE Migrate
  BY <1>12 DEF Migrate, TypeOK, Txns, Goto, Continue, Recover, names, homes
<1>13. CASE Identify
  BY <1>13 DEF Identify, TypeOK, Txns, Goto, Continue, Recover, names,
     homes, disk
<1>14. CASE HomeAside
  BY <1>14 DEF HomeAside, TypeOK, Txns, Goto, Continue, Recover, names, homes
<1>15. CASE HomeCreate
  BY <1>15 DEF HomeCreate, TypeOK, Txns, Goto, Recover, names, homes
<1>16. CASE HomeFill
  BY <1>16 DEF HomeFill, TypeOK, Txns, Goto, Continue, HomeSwapRestore,
     names, homes
<1>17. CASE SetDefault
  BY <1>17 DEF SetDefault, TypeOK, Txns, Goto, Continue, Recover, names, homes
<1>18. CASE Mount
  BY <1>18 DEF Mount, TypeOK, Txns, Goto, End, Continue, Recover, names,
     homes, disk
<1>19. CASE BootRestore
  BY <1>19 DEF BootRestore, Goto, End, Continue, names, homes
<1>20. CASE Reconcile
  BY <1>20 DEF Reconcile, TypeOK, Txns, Goto, End, Recover, names, homes
<1>21. CASE RecHome
  BY <1>21 DEF RecHome, TypeOK, Txns, Goto, HomeSwapRestore, names, homes
<1>22. CASE RecDetach
  BY <1>22 DEF RecDetach, Goto, End, Continue, RecoveryEnds, names, homes, disk
<1>23. CASE RecStore
  BY Values, <1>23 DEF RecStore, Goto, End, Continue, RecoveryEnds, names,
     homes, TypeOK
<1>24. CASE RecAside
  BY <1>24 DEF RecAside, Goto, End, Continue, RecoveryEnds, homes
<1>25. CASE RecName
  BY <1>25 DEF RecName, Goto, End, Continue, RecoveryEnds, homes
<1>26. CASE RecRunning
  BY <1>26 DEF RecRunning, Goto, End, Continue, RecoveryEnds, homes
<1>27. CASE RecDefault
  BY <1>27 DEF RecDefault, Goto, End, Continue, RecoveryEnds, names, homes
<1>28. CASE RecMount
  BY <1>28 DEF RecMount, Goto, End, Continue, RecoveryEnds, names, homes, disk
<1>29. CASE RecBoot
  BY <1>29 DEF RecBoot, Goto, End, Continue, names, homes
<1>30. CASE RecReconcile
  BY <1>30 DEF RecReconcile, End, RecoveryEnds, names, homes
<1>31. CASE Killed
  BY <1>31 DEF Killed, End, names, homes, disk
<1>32. CASE Reboot
  BY <1>32 DEF Reboot, names, homes, disk
<1>33. CASE UNCHANGED vars
  BY <1>33 DEF vars
<1> QED
  BY <1>1, <1>2, <1>3, <1>4, <1>5, <1>6, <1>7, <1>8, <1>9, <1>10, <1>11,
     <1>12, <1>13, <1>14, <1>15, <1>16, <1>17, <1>18, <1>19, <1>20, <1>21,
     <1>22, <1>23, <1>24, <1>25, <1>26, <1>27, <1>28, <1>29, <1>30, <1>31,
     <1>32, <1>33 DEF Next

(* The default changes after the root and is put back after it. *)
LEMMA DefaultStep ==
    ASSUME TypeOK, IFresh, IName, IDefault, [Next]_vars
    PROVE  IDefault'
<1> USE DEF IDefault, k, Early, Between, Switched, Recovering, Renaming,
   Rebuilding
<1>1. CASE Begin
  BY <1>1 DEF Begin, Goto, RootNameFits, StagedBy, names, homes, disk
<1>2. CASE Refuse
  BY <1>2 DEF Refuse, End, names, homes, disk
<1>3. CASE Confirm
  BY <1>3 DEF Confirm, TypeOK, Txns, Goto, names, homes, disk
<1>4. CASE Create
  BY <1>4 DEF Create, Goto, End, Continue, homes
<1>5. CASE Detach
  BY <1>5 DEF Detach, Goto, End, Continue, GiveUp, names, homes, disk
<1>6. CASE Preserve
  BY <1>6 DEF Preserve, Goto, End, Continue, GiveUp, Chained, homes
<1>7. CASE Demote
  BY <1>7 DEF Demote, Goto, Continue, homes
<1>8. CASE Represerve
  BY <1>8 DEF Represerve, End, homes
<1>9. CASE Promote
  BY <1>9 DEF Promote, Goto, Continue, homes
<1>10. CASE Unpromote
  BY <1>10 DEF Unpromote, Goto, End, Continue, Chained, Aside, homes
<1>11. CASE UnpromoteRunning
  BY <1>11 DEF UnpromoteRunning, End, homes
<1>12. CASE Migrate
  BY <1>12 DEF Migrate, TypeOK, Txns, Goto, Continue, Recover, names, homes
<1>13. CASE Identify
  BY <1>13 DEF Identify, TypeOK, Txns, Goto, Continue, Recover, names,
     homes, disk
<1>14. CASE HomeAside
  BY <1>14 DEF HomeAside, TypeOK, Txns, Goto, Continue, Recover, names, homes
<1>15. CASE HomeCreate
  BY <1>15 DEF HomeCreate, TypeOK, Txns, Goto, Recover, names, homes
<1>16. CASE HomeFill
  BY <1>16 DEF HomeFill, TypeOK, Txns, Goto, Continue, HomeSwapRestore,
     names, homes
<1>17. CASE SetDefault
  BY <1>17 DEF SetDefault, TypeOK, Txns, Goto, Continue, Recover, names, homes
<1>18. CASE Mount
  BY <1>18 DEF Mount, TypeOK, Txns, Goto, End, Continue, Recover, names,
     homes, disk
<1>19. CASE BootRestore
  BY <1>19 DEF BootRestore, Goto, End, Continue, names, homes
<1>20. CASE Reconcile
  BY <1>20 DEF Reconcile, TypeOK, Txns, Goto, End, Recover, names, homes
<1>21. CASE RecHome
  BY <1>21 DEF RecHome, TypeOK, Txns, Goto, HomeSwapRestore, names, homes
<1>22. CASE RecDetach
  BY <1>22 DEF RecDetach, Goto, End, Continue, RecoveryEnds, names, homes, disk
<1>23. CASE RecStore
  BY <1>23 DEF RecStore, Goto, End, Continue, RecoveryEnds, Chained, Aside,
     names, homes
<1>24. CASE RecAside
  BY <1>24 DEF RecAside, Goto, End, Continue, RecoveryEnds, homes
<1>25. CASE RecName
  BY <1>25 DEF RecName, Goto, End, Continue, RecoveryEnds, Chained, Aside, homes
<1>26. CASE RecRunning
  BY <1>26 DEF RecRunning, Goto, End, Continue, RecoveryEnds, homes
<1>27. CASE RecDefault
  BY <1>27 DEF RecDefault, Goto, End, Continue, RecoveryEnds, names, homes
<1>28. CASE RecMount
  BY <1>28 DEF RecMount, Goto, End, Continue, RecoveryEnds, names, homes, disk
<1>29. CASE RecBoot
  BY <1>29 DEF RecBoot, Goto, End, Continue, names, homes
<1>30. CASE RecReconcile
  BY <1>30 DEF RecReconcile, End, RecoveryEnds, names, homes
<1>31. CASE Killed
  BY <1>31 DEF Killed, End, names, homes, disk
<1>32. CASE Reboot
  BY <1>32 DEF Reboot, names, homes, disk
<1>33. CASE UNCHANGED vars
  BY <1>33 DEF vars
<1> QED
  BY <1>1, <1>2, <1>3, <1>4, <1>5, <1>6, <1>7, <1>8, <1>9, <1>10, <1>11,
     <1>12, <1>13, <1>14, <1>15, <1>16, <1>17, <1>18, <1>19, <1>20, <1>21,
     <1>22, <1>23, <1>24, <1>25, <1>26, <1>27, <1>28, <1>29, <1>30, <1>31,
     <1>32, <1>33 DEF Next

(* The swap of /home is done, undone, or remembered as half undone. *)
LEMMA HomeStep ==
    ASSUME TypeOK, IFresh, IHome, [Next]_vars
    PROVE  IHome'
<1> USE DEF IFresh, IFree, IStamp, IHome, k, Early, Between, Switched,
   Recovering, Renaming, Rebuilding
<1>1. CASE Begin
  <2>1. PICK undo \in Subvols, known \in BOOLEAN :
            /\ pc = "idle" /\ k < MaxRollbacks /\ RootNameFits(undo)
            /\ txn' = [stamp |-> k + 1, undo |-> undo, known |-> known,
                       nested |-> store = root, optIn |-> FALSE, swapped |-> FALSE,
                       reports |-> FALSE, prev |-> root, prevDefault |-> default,
                       prevStore |-> store, prevHome |-> home]
            /\ Goto("ask") /\ UNCHANGED disk
    BY <1>1 DEF Begin
  <2>2. /\ k + 1 \in Stamps /\ txn.stamp + 1 = k + 1
        /\ before[k + 1] = None /\ homeUndo[k + 1] = None
    BY Values, <2>1, RollbackAssumption DEF Stamps, IFresh, IFree, k
  <2> QED
    BY Values, <2>1, <2>2 DEF Goto, RootNameFits, StagedBy, names, homes,
       disk, TypeOK
<1>2. CASE Refuse
  BY <1>2 DEF Refuse, End, names, homes, disk
<1>3. CASE Confirm
  BY <1>3 DEF Confirm, TypeOK, Txns, Goto, names, homes, disk
<1>4. CASE Create
  BY <1>4 DEF Create, Goto, End, Continue, homes
<1>5. CASE Detach
  BY <1>5 DEF Detach, Goto, End, Continue, GiveUp, names, homes, disk
<1>6. CASE Preserve
  BY <1>6 DEF Preserve, Goto, End, Continue, GiveUp, Chained, homes
<1>7. CASE Demote
  BY <1>7 DEF Demote, Goto, Continue, homes
<1>8. CASE Represerve
  BY <1>8 DEF Represerve, End, homes
<1>9. CASE Promote
  BY <1>9 DEF Promote, Goto, Continue, homes
<1>10. CASE Unpromote
  BY <1>10 DEF Unpromote, Goto, End, Continue, Chained, Aside, homes
<1>11. CASE UnpromoteRunning
  BY <1>11 DEF UnpromoteRunning, End, homes
<1>12. CASE Migrate
  BY <1>12 DEF Migrate, TypeOK, Txns, Goto, Continue, Recover, names, homes
<1>13. CASE Identify
  BY <1>13 DEF Identify, TypeOK, Txns, Goto, Continue, Recover, names,
     homes, disk
<1>14. CASE HomeAside
  BY <1>14 DEF HomeAside, TypeOK, Txns, Goto, Continue, Recover, names, homes
<1>15. CASE HomeCreate
  BY <1>15 DEF HomeCreate, TypeOK, Txns, Goto, Recover, names, homes
<1>16. CASE HomeFill
  BY <1>16 DEF HomeFill, TypeOK, Txns, Goto, Continue, HomeSwapRestore,
     names, homes
<1>17. CASE SetDefault
  BY <1>17 DEF SetDefault, TypeOK, Txns, Goto, Continue, Recover, names, homes
<1>18. CASE Mount
  BY <1>18 DEF Mount, TypeOK, Txns, Goto, End, Continue, Recover, names,
     homes, disk
<1>19. CASE BootRestore
  BY <1>19 DEF BootRestore, Goto, End, Continue, names, homes
<1>20. CASE Reconcile
  BY <1>20 DEF Reconcile, TypeOK, Txns, Goto, End, Recover, names, homes
<1>21. CASE RecHome
  BY <1>21 DEF RecHome, TypeOK, Txns, Goto, HomeSwapRestore, names, homes
<1>22. CASE RecDetach
  BY <1>22 DEF RecDetach, Goto, End, Continue, RecoveryEnds, names, homes, disk
<1>23. CASE RecStore
  BY <1>23 DEF RecStore, Goto, End, Continue, RecoveryEnds, Chained, Aside,
     names, homes
<1>24. CASE RecAside
  BY <1>24 DEF RecAside, Goto, End, Continue, RecoveryEnds, homes
<1>25. CASE RecName
  BY <1>25 DEF RecName, Goto, End, Continue, RecoveryEnds, Chained, Aside, homes
<1>26. CASE RecRunning
  BY <1>26 DEF RecRunning, Goto, End, Continue, RecoveryEnds, homes
<1>27. CASE RecDefault
  BY <1>27 DEF RecDefault, Goto, End, Continue, RecoveryEnds, names, homes
<1>28. CASE RecMount
  BY <1>28 DEF RecMount, Goto, End, Continue, RecoveryEnds, names, homes, disk
<1>29. CASE RecBoot
  BY <1>29 DEF RecBoot, Goto, End, Continue, names, homes
<1>30. CASE RecReconcile
  BY <1>30 DEF RecReconcile, End, RecoveryEnds, names, homes
<1>31. CASE Killed
  BY <1>31 DEF Killed, End, names, homes, disk
<1>32. CASE Reboot
  BY <1>32 DEF Reboot, names, homes, disk
<1>33. CASE UNCHANGED vars
  BY <1>33 DEF vars
<1> QED
  BY <1>1, <1>2, <1>3, <1>4, <1>5, <1>6, <1>7, <1>8, <1>9, <1>10, <1>11,
     <1>12, <1>13, <1>14, <1>15, <1>16, <1>17, <1>18, <1>19, <1>20, <1>21,
     <1>22, <1>23, <1>24, <1>25, <1>26, <1>27, <1>28, <1>29, <1>30, <1>31,
     <1>32, <1>33 DEF Next

(* The names with later stamps stay free. *)
LEMMA FreeStep ==
    ASSUME TypeOK, IFresh, IName, [Next]_vars
    PROVE  IFree'
<1> USE DEF IFresh, IFree, IStamp, k
<1>1. CASE Begin
  <2>1. PICK undo \in Subvols, known \in BOOLEAN :
            /\ pc = "idle" /\ k < MaxRollbacks /\ RootNameFits(undo)
            /\ txn' = [stamp |-> k + 1, undo |-> undo, known |-> known,
                       nested |-> store = root, optIn |-> FALSE, swapped |-> FALSE,
                       reports |-> FALSE, prev |-> root, prevDefault |-> default,
                       prevStore |-> store, prevHome |-> home]
            /\ Goto("ask") /\ UNCHANGED disk
    BY <1>1 DEF Begin
  <2>2. /\ k + 1 \in Stamps /\ txn.stamp + 1 = k + 1
        /\ before[k + 1] = None /\ homeUndo[k + 1] = None
    BY Values, <2>1, RollbackAssumption DEF Stamps, IFresh, IFree, k
  <2> QED
    BY Values, <2>1, <2>2 DEF Goto, RootNameFits, StagedBy, names, homes,
       disk, TypeOK, Subvols, Stamps
<1>2. CASE Refuse
  BY Values, <1>2 DEF Refuse, End, names, homes, disk, TypeOK
<1>3. CASE Confirm
  BY Values, <1>3 DEF Confirm, TypeOK, Txns, Goto, names, homes, disk, TypeOK
<1>4. CASE Create
  BY Values, <1>4 DEF Create, Goto, End, Continue, homes, TypeOK
<1>5. CASE Detach
  BY Values, <1>5 DEF Detach, Goto, End, Continue, GiveUp, names, homes,
     disk, TypeOK
<1>6. CASE Preserve
  BY Values, <1>6 DEF Preserve, Goto, End, Continue, GiveUp, Chained, homes,
     TypeOK
<1>7. CASE Demote
  <2>1. k \in Stamps /\ txn.undo \in Stamps /\ txn.undo < k
    BY Values, <1>7 DEF Demote, IName, Chained
  <2>2. /\ \A s \in Stamps : s # k /\ s # txn.undo => before'[s] = before[s]
        /\ homeUndo' = homeUndo /\ txn' = txn
    BY <2>1, <1>7 DEF Demote, Goto, Continue, homes, TypeOK
  <2> QED
    BY <2>1, <2>2, RollbackAssumption DEF Stamps
<1>8. CASE Represerve
  <2>1. k \in Stamps /\ txn.undo \in Stamps /\ txn.undo < k
    BY Values, <1>8 DEF Represerve, IName, Chained
  <2>2. /\ \A s \in Stamps : s # k /\ s # txn.undo => before'[s] = before[s]
        /\ homeUndo' = homeUndo /\ txn' = txn
    BY <2>1, <1>8 DEF Represerve, End, homes, TypeOK
  <2> QED
    BY <2>1, <2>2, RollbackAssumption DEF Stamps
<1>9. CASE Promote
  BY Values, <1>9 DEF Promote, Goto, Continue, homes, TypeOK
<1>10. CASE Unpromote
  BY Values, <1>10 DEF Unpromote, Goto, End, Continue, Chained, Aside,
     homes, TypeOK
<1>11. CASE UnpromoteRunning
  <2>1. k \in Stamps /\ txn.undo \in Stamps /\ txn.undo < k
    BY Values, <1>11 DEF UnpromoteRunning, IName, Chained
  <2>2. /\ \A s \in Stamps : s # k /\ s # txn.undo => before'[s] = before[s]
        /\ homeUndo' = homeUndo /\ txn' = txn
    BY <2>1, <1>11 DEF UnpromoteRunning, End, homes, TypeOK
  <2> QED
    BY <2>1, <2>2, RollbackAssumption DEF Stamps
<1>12. CASE Migrate
  BY Values, <1>12 DEF Migrate, TypeOK, Txns, Goto, Continue, Recover,
     names, homes, TypeOK
<1>13. CASE Identify
  BY Values, <1>13 DEF Identify, TypeOK, Txns, Goto, Continue, Recover,
     names, homes, disk, TypeOK
<1>14. CASE HomeAside
  BY Values, <1>14 DEF HomeAside, TypeOK, Txns, Goto, Continue, Recover,
     names, homes, TypeOK
<1>15. CASE HomeCreate
  BY Values, <1>15 DEF HomeCreate, TypeOK, Txns, Goto, Recover, names,
     homes, TypeOK
<1>16. CASE HomeFill
  BY Values, <1>16 DEF HomeFill, TypeOK, Txns, Goto, Continue,
     HomeSwapRestore, names, homes, TypeOK
<1>17. CASE SetDefault
  BY Values, <1>17 DEF SetDefault, TypeOK, Txns, Goto, Continue, Recover,
     names, homes, TypeOK
<1>18. CASE Mount
  BY Values, <1>18 DEF Mount, TypeOK, Txns, Goto, End, Continue, Recover,
     names, homes, disk, TypeOK
<1>19. CASE BootRestore
  BY Values, <1>19 DEF BootRestore, Goto, End, Continue, names, homes, TypeOK
<1>20. CASE Reconcile
  BY Values, <1>20 DEF Reconcile, TypeOK, Txns, Goto, End, Recover, names,
     homes, TypeOK
<1>21. CASE RecHome
  BY Values, <1>21 DEF RecHome, TypeOK, Txns, Goto, HomeSwapRestore, names,
     homes, TypeOK
<1>22. CASE RecDetach
  BY Values, <1>22 DEF RecDetach, Goto, End, Continue, RecoveryEnds, names,
     homes, disk, TypeOK
<1>23. CASE RecStore
  BY Values, <1>23 DEF RecStore, Goto, End, Continue, RecoveryEnds, Chained,
     Aside, names, homes, TypeOK
<1>24. CASE RecAside
  BY Values, <1>24 DEF RecAside, Goto, End, Continue, RecoveryEnds, homes,
     TypeOK
<1>25. CASE RecName
  BY Values, <1>25 DEF RecName, Goto, End, Continue, RecoveryEnds, Chained,
     Aside, homes, TypeOK
<1>26. CASE RecRunning
  <2>1. k \in Stamps /\ txn.undo \in Stamps /\ txn.undo < k
    BY Values, <1>26 DEF RecRunning, IName, Chained
  <2>2. /\ \A s \in Stamps : s # k /\ s # txn.undo => before'[s] = before[s]
        /\ homeUndo' = homeUndo /\ txn' = txn
    BY <2>1, <1>26 DEF RecRunning, Goto, End, Continue, RecoveryEnds, homes,
       TypeOK
  <2> QED
    BY <2>1, <2>2, RollbackAssumption DEF Stamps
<1>27. CASE RecDefault
  BY Values, <1>27 DEF RecDefault, Goto, End, Continue, RecoveryEnds, names,
     homes, TypeOK
<1>28. CASE RecMount
  BY Values, <1>28 DEF RecMount, Goto, End, Continue, RecoveryEnds, names,
     homes, disk, TypeOK
<1>29. CASE RecBoot
  BY Values, <1>29 DEF RecBoot, Goto, End, Continue, names, homes, TypeOK
<1>30. CASE RecReconcile
  BY Values, <1>30 DEF RecReconcile, End, RecoveryEnds, names, homes, TypeOK
<1>31. CASE Killed
  BY Values, <1>31 DEF Killed, End, names, homes, disk, TypeOK
<1>32. CASE Reboot
  BY Values, <1>32 DEF Reboot, names, homes, disk, TypeOK
<1>33. CASE UNCHANGED vars
  BY <1>33 DEF vars
<1> QED
  BY <1>1, <1>2, <1>3, <1>4, <1>5, <1>6, <1>7, <1>8, <1>9, <1>10, <1>11,
     <1>12, <1>13, <1>14, <1>15, <1>16, <1>17, <1>18, <1>19, <1>20, <1>21,
     <1>22, <1>23, <1>24, <1>25, <1>26, <1>27, <1>28, <1>29, <1>30, <1>31,
     <1>32, <1>33 DEF Next

(* What a rollback reports as unchanged or restored is so. *)
LEMMA RestoredStep ==
    ASSUME TypeOK, IFresh, IName, IStore, IDefault, IHome, RestoredIsRestored, [Next]_vars
    PROVE  RestoredIsRestored'
<1> USE DEF RestoredIsRestored, IName, IStore, IDefault, IHome, k, Chained,
   Aside, Early, Between, Recovering, Renaming, Rebuilding
<1>1. CASE Begin
  BY <1>1 DEF Begin, Goto, RootNameFits, StagedBy, names, homes, disk
<1>2. CASE Refuse
  BY <1>2 DEF Refuse, End, names, homes, disk
<1>3. CASE Confirm
  BY <1>3 DEF Confirm, Goto, names, homes, disk
<1>4. CASE Create
  BY <1>4 DEF Create, Goto, End, Continue, homes
<1>5. CASE Detach
  BY <1>5 DEF Detach, Goto, End, Continue, GiveUp, names, homes, disk
<1>6. CASE Preserve
  BY <1>6 DEF Preserve, Goto, End, Continue, GiveUp, homes
<1>7. CASE Demote
  BY <1>7 DEF Demote, Goto, Continue, homes
<1>8. CASE Represerve
  BY Values, <1>8 DEF Represerve, End, homes, TypeOK
<1>9. CASE Promote
  BY <1>9 DEF Promote, Goto, Continue, homes
<1>10. CASE Unpromote
  BY <1>10 DEF Unpromote, Goto, End, Continue, homes
<1>11. CASE UnpromoteRunning
  BY Values, <1>11 DEF UnpromoteRunning, End, homes, TypeOK
<1>12. CASE Migrate
  BY <1>12 DEF Migrate, Goto, Continue, Recover, names, homes
<1>13. CASE Identify
  BY <1>13 DEF Identify, Goto, Continue, Recover, names, homes, disk
<1>14. CASE HomeAside
  BY <1>14 DEF HomeAside, Goto, Continue, Recover, names, homes
<1>15. CASE HomeCreate
  BY <1>15 DEF HomeCreate, Goto, Recover, names, homes
<1>16. CASE HomeFill
  BY <1>16 DEF HomeFill, Goto, Continue, HomeSwapRestore, names, homes
<1>17. CASE SetDefault
  BY <1>17 DEF SetDefault, Goto, Continue, Recover, names, homes
<1>18. CASE Mount
  BY <1>18 DEF Mount, Goto, End, Continue, Recover, names, homes, disk
<1>19. CASE BootRestore
  BY <1>19 DEF BootRestore, Goto, End, Continue, names, homes
<1>20. CASE Reconcile
  BY <1>20 DEF Reconcile, Goto, End, Recover, names, homes
<1>21. CASE RecHome
  BY <1>21 DEF RecHome, Goto, HomeSwapRestore, names, homes
<1>22. CASE RecDetach
  BY <1>22 DEF RecDetach, Goto, End, Continue, RecoveryEnds, names, homes, disk
<1>23. CASE RecStore
  BY <1>23 DEF RecStore, Goto, End, Continue, RecoveryEnds, names, homes
<1>24. CASE RecAside
  BY <1>24 DEF RecAside, Goto, End, Continue, RecoveryEnds, homes
<1>25. CASE RecName
  BY <1>25 DEF RecName, Goto, End, Continue, RecoveryEnds, homes
<1>26. CASE RecRunning
  BY <1>26 DEF RecRunning, Goto, End, Continue, RecoveryEnds, homes
<1>27. CASE RecDefault
  BY <1>27 DEF RecDefault, Goto, End, Continue, RecoveryEnds, names, homes
<1>28. CASE RecMount
  BY <1>28 DEF RecMount, Goto, End, Continue, RecoveryEnds, names, homes, disk
<1>29. CASE RecBoot
  BY <1>29 DEF RecBoot, Goto, End, Continue, names, homes
<1>30. CASE RecReconcile
  BY <1>30 DEF RecReconcile, End, RecoveryEnds, names, homes
<1>31. CASE Killed
  BY <1>31 DEF Killed, End, names, homes, disk
<1>32. CASE Reboot
  BY <1>32 DEF Reboot, names, homes, disk
<1>33. CASE UNCHANGED vars
  BY <1>33 DEF vars
<1> QED
  BY <1>1, <1>2, <1>3, <1>4, <1>5, <1>6, <1>7, <1>8, <1>9, <1>10, <1>11,
     <1>12, <1>13, <1>14, <1>15, <1>16, <1>17, <1>18, <1>19, <1>20, <1>21,
     <1>22, <1>23, <1>24, <1>25, <1>26, <1>27, <1>28, <1>29, <1>30, <1>31,
     <1>32, <1>33 DEF Next

(* A rollback that reports success has switched everything. *)
LEMMA SuccessStep ==
    ASSUME TypeOK, IFresh, IName, IStore, IDefault, IHome, SuccessIsSwitched, [Next]_vars
    PROVE  SuccessIsSwitched'
<1> USE DEF SuccessIsSwitched, IName, IStore, IDefault, IHome, k, Chained,
   Aside, Switched
<1>1. CASE Begin
  BY <1>1 DEF Begin, Goto, RootNameFits, StagedBy, names, homes, disk
<1>2. CASE Refuse
  BY <1>2 DEF Refuse, End, names, homes, disk
<1>3. CASE Confirm
  BY <1>3 DEF Confirm, Goto, names, homes, disk
<1>4. CASE Create
  BY <1>4 DEF Create, Goto, End, Continue, homes
<1>5. CASE Detach
  BY <1>5 DEF Detach, Goto, End, Continue, GiveUp, names, homes, disk
<1>6. CASE Preserve
  BY <1>6 DEF Preserve, Goto, End, Continue, GiveUp, homes
<1>7. CASE Demote
  BY <1>7 DEF Demote, Goto, Continue, homes
<1>8. CASE Represerve
  BY <1>8 DEF Represerve, End, homes
<1>9. CASE Promote
  BY <1>9 DEF Promote, Goto, Continue, homes
<1>10. CASE Unpromote
  BY <1>10 DEF Unpromote, Goto, End, Continue, homes
<1>11. CASE UnpromoteRunning
  BY <1>11 DEF UnpromoteRunning, End, homes
<1>12. CASE Migrate
  BY <1>12 DEF Migrate, Goto, Continue, Recover, names, homes
<1>13. CASE Identify
  BY <1>13 DEF Identify, Goto, Continue, Recover, names, homes, disk
<1>14. CASE HomeAside
  BY <1>14 DEF HomeAside, Goto, Continue, Recover, names, homes
<1>15. CASE HomeCreate
  BY <1>15 DEF HomeCreate, Goto, Recover, names, homes
<1>16. CASE HomeFill
  BY <1>16 DEF HomeFill, Goto, Continue, HomeSwapRestore, names, homes
<1>17. CASE SetDefault
  BY <1>17 DEF SetDefault, Goto, Continue, Recover, names, homes
<1>18. CASE Mount
  BY <1>18 DEF Mount, Goto, End, Continue, Recover, names, homes, disk
<1>19. CASE BootRestore
  BY <1>19 DEF BootRestore, Goto, End, Continue, names, homes
<1>20. CASE Reconcile
  BY <1>20 DEF Reconcile, Goto, End, Recover, names, homes
<1>21. CASE RecHome
  BY <1>21 DEF RecHome, Goto, HomeSwapRestore, names, homes
<1>22. CASE RecDetach
  BY <1>22 DEF RecDetach, Goto, End, Continue, RecoveryEnds, names, homes, disk
<1>23. CASE RecStore
  BY <1>23 DEF RecStore, Goto, End, Continue, RecoveryEnds, names, homes
<1>24. CASE RecAside
  BY <1>24 DEF RecAside, Goto, End, Continue, RecoveryEnds, homes
<1>25. CASE RecName
  BY <1>25 DEF RecName, Goto, End, Continue, RecoveryEnds, homes
<1>26. CASE RecRunning
  BY <1>26 DEF RecRunning, Goto, End, Continue, RecoveryEnds, homes
<1>27. CASE RecDefault
  BY <1>27 DEF RecDefault, Goto, End, Continue, RecoveryEnds, names, homes
<1>28. CASE RecMount
  BY <1>28 DEF RecMount, Goto, End, Continue, RecoveryEnds, names, homes, disk
<1>29. CASE RecBoot
  BY <1>29 DEF RecBoot, Goto, End, Continue, names, homes
<1>30. CASE RecReconcile
  BY <1>30 DEF RecReconcile, End, RecoveryEnds, names, homes
<1>31. CASE Killed
  BY <1>31 DEF Killed, End, names, homes, disk
<1>32. CASE Reboot
  BY <1>32 DEF Reboot, names, homes, disk
<1>33. CASE UNCHANGED vars
  BY <1>33 DEF vars
<1> QED
  BY <1>1, <1>2, <1>3, <1>4, <1>5, <1>6, <1>7, <1>8, <1>9, <1>10, <1>11,
     <1>12, <1>13, <1>14, <1>15, <1>16, <1>17, <1>18, <1>19, <1>20, <1>21,
     <1>22, <1>23, <1>24, <1>25, <1>26, <1>27, <1>28, <1>29, <1>30, <1>31,
     <1>32, <1>33 DEF Next

(* Only a rollback that says so, or was killed, leaves no root. *)
LEMMA RootlessStep ==
    ASSUME TypeOK, IFresh, IName, NeverRootless, [Next]_vars
    PROVE  NeverRootless'
<1> USE DEF NeverRootless, IFresh, IStamp, IName, k, Early, Switched,
   Recovering, Rebuilding
<1>1. CASE Begin
  BY Values, <1>1 DEF Begin, Goto, RootNameFits, StagedBy, names, homes,
     disk, TypeOK
<1>2. CASE Refuse
  BY Values, <1>2 DEF Refuse, End, names, homes, disk, TypeOK
<1>3. CASE Confirm
  BY Values, <1>3 DEF Confirm, Goto, names, homes, disk, TypeOK
<1>4. CASE Create
  BY Values, <1>4 DEF Create, Goto, End, Continue, homes, TypeOK
<1>5. CASE Detach
  BY Values, <1>5 DEF Detach, Goto, End, Continue, GiveUp, names, homes,
     disk, TypeOK
<1>6. CASE Preserve
  BY Values, <1>6 DEF Preserve, Goto, End, Continue, GiveUp, Chained, homes,
     TypeOK
<1>7. CASE Demote
  BY Values, <1>7 DEF Demote, Goto, Continue, homes, TypeOK
<1>8. CASE Represerve
  BY Values, <1>8 DEF Represerve, End, homes, TypeOK
<1>9. CASE Promote
  BY Values, <1>9 DEF Promote, Goto, Continue, homes, TypeOK
<1>10. CASE Unpromote
  BY Values, <1>10 DEF Unpromote, Goto, End, Continue, Chained, Aside,
     homes, TypeOK
<1>11. CASE UnpromoteRunning
  BY Values, <1>11 DEF UnpromoteRunning, End, homes, TypeOK
<1>12. CASE Migrate
  BY Values, <1>12 DEF Migrate, Goto, Continue, Recover, names, homes, TypeOK
<1>13. CASE Identify
  BY Values, <1>13 DEF Identify, Goto, Continue, Recover, names, homes,
     disk, TypeOK
<1>14. CASE HomeAside
  BY Values, <1>14 DEF HomeAside, Goto, Continue, Recover, names, homes, TypeOK
<1>15. CASE HomeCreate
  BY Values, <1>15 DEF HomeCreate, Goto, Recover, names, homes, TypeOK
<1>16. CASE HomeFill
  BY Values, <1>16 DEF HomeFill, Goto, Continue, HomeSwapRestore, names,
     homes, TypeOK
<1>17. CASE SetDefault
  BY Values, <1>17 DEF SetDefault, Goto, Continue, Recover, names, homes, TypeOK
<1>18. CASE Mount
  BY Values, <1>18 DEF Mount, Goto, End, Continue, Recover, names, homes,
     disk, TypeOK
<1>19. CASE BootRestore
  BY Values, <1>19 DEF BootRestore, Goto, End, Continue, names, homes, TypeOK
<1>20. CASE Reconcile
  BY Values, <1>20 DEF Reconcile, Goto, End, Recover, names, homes, TypeOK
<1>21. CASE RecHome
  BY Values, <1>21 DEF RecHome, Goto, HomeSwapRestore, names, homes, TypeOK
<1>22. CASE RecDetach
  BY Values, <1>22 DEF RecDetach, Goto, End, Continue, RecoveryEnds, names,
     homes, disk, TypeOK
<1>23. CASE RecStore
  BY Values, <1>23 DEF RecStore, Goto, End, Continue, RecoveryEnds, Chained,
     Aside, names, homes, TypeOK
<1>24. CASE RecAside
  BY Values, <1>24 DEF RecAside, Goto, End, Continue, RecoveryEnds, homes,
     TypeOK
<1>25. CASE RecName
  BY Values, <1>25 DEF RecName, Goto, End, Continue, RecoveryEnds, Chained,
     Aside, homes, TypeOK
<1>26. CASE RecRunning
  BY Values, <1>26 DEF RecRunning, Goto, End, Continue, RecoveryEnds, homes,
     TypeOK
<1>27. CASE RecDefault
  BY Values, <1>27 DEF RecDefault, Goto, End, Continue, RecoveryEnds, names,
     homes, TypeOK
<1>28. CASE RecMount
  BY Values, <1>28 DEF RecMount, Goto, End, Continue, RecoveryEnds, names,
     homes, disk, TypeOK
<1>29. CASE RecBoot
  BY Values, <1>29 DEF RecBoot, Goto, End, Continue, names, homes, TypeOK
<1>30. CASE RecReconcile
  BY Values, <1>30 DEF RecReconcile, End, RecoveryEnds, names, homes, TypeOK
<1>31. CASE Killed
  BY Values, <1>31 DEF Killed, End, names, homes, disk, TypeOK
<1>32. CASE Reboot
  BY Values, <1>32 DEF Reboot, names, homes, disk, TypeOK
<1>33. CASE UNCHANGED vars
  BY <1>33 DEF vars
<1> QED
  BY <1>1, <1>2, <1>3, <1>4, <1>5, <1>6, <1>7, <1>8, <1>9, <1>10, <1>11,
     <1>12, <1>13, <1>14, <1>15, <1>16, <1>17, <1>18, <1>19, <1>20, <1>21,
     <1>22, <1>23, <1>24, <1>25, <1>26, <1>27, <1>28, <1>29, <1>30, <1>31,
     <1>32, <1>33 DEF Next

(* A step keeps every root under one of the names. *)
LEMMA KeptStep ==
    ASSUME TypeOK, IFresh, IName, [Next]_vars, NEW v \in Kept \cap Subvols
    PROVE  v \in Kept' \/ (v = k /\ v \in failed')
<1> USE DEF Kept
<1>1. CASE Begin
  BY <1>1 DEF Begin, Goto, RootNameFits, StagedBy, k, names, homes, disk
<1>2. CASE Refuse
  BY <1>2 DEF Refuse, End, names, homes, disk
<1>3. CASE Confirm
  BY <1>3 DEF Confirm, Goto, names, homes, disk
<1>4. CASE Create
  BY <1>4 DEF Create, Goto, End, Continue, k, homes
<1>5. CASE Detach
  BY <1>5 DEF Detach, Goto, End, Continue, GiveUp, k, names, homes, disk
<1>6. CASE Preserve
  BY Values, <1>6 DEF Preserve, Goto, End, Continue, GiveUp, k, Chained,
     homes, TypeOK, IName, Early, Recovering
<1>7. CASE Demote
  BY Values, <1>7 DEF Demote, Goto, Continue, homes, TypeOK, IName, Early,
     Recovering
<1>8. CASE Represerve
  BY Values, <1>8 DEF Represerve, End, k, homes, TypeOK, IName, Early,
     Recovering
<1>9. CASE Promote
  BY Values, <1>9 DEF Promote, Goto, Continue, k, homes, TypeOK, IName,
     Early, Recovering
<1>10. CASE Unpromote
  BY Values, <1>10 DEF Unpromote, Goto, End, Continue, k, Chained, Aside,
     homes, TypeOK, IName, Early, Recovering
<1>11. CASE UnpromoteRunning
  BY Values, <1>11 DEF UnpromoteRunning, End, k, homes, TypeOK, IName,
     Early, Recovering
<1>12. CASE Migrate
  BY <1>12 DEF Migrate, Goto, Continue, Recover, k, names, homes
<1>13. CASE Identify
  BY <1>13 DEF Identify, Goto, Continue, Recover, names, homes, disk
<1>14. CASE HomeAside
  BY <1>14 DEF HomeAside, Goto, Continue, Recover, k, names, homes
<1>15. CASE HomeCreate
  BY <1>15 DEF HomeCreate, Goto, Recover, k, names, homes
<1>16. CASE HomeFill
  BY <1>16 DEF HomeFill, Goto, Continue, HomeSwapRestore, k, names, homes
<1>17. CASE SetDefault
  BY <1>17 DEF SetDefault, Goto, Continue, Recover, k, names, homes
<1>18. CASE Mount
  BY <1>18 DEF Mount, Goto, End, Continue, Recover, names, homes, disk
<1>19. CASE BootRestore
  BY <1>19 DEF BootRestore, Goto, End, Continue, names, homes
<1>20. CASE Reconcile
  BY <1>20 DEF Reconcile, Goto, End, Recover, names, homes
<1>21. CASE RecHome
  BY <1>21 DEF RecHome, Goto, HomeSwapRestore, k, names, homes
<1>22. CASE RecDetach
  BY <1>22 DEF RecDetach, Goto, End, Continue, RecoveryEnds, names, homes, disk
<1>23. CASE RecStore
  BY <1>23 DEF RecStore, Goto, End, Continue, RecoveryEnds, k, Chained,
     Aside, names, homes
<1>24. CASE RecAside
  BY Values, <1>24 DEF RecAside, Goto, End, Continue, RecoveryEnds, k,
     homes, TypeOK, IName, Early, Recovering
<1>25. CASE RecName
  BY Values, <1>25 DEF RecName, Goto, End, Continue, RecoveryEnds, k,
     Chained, Aside, homes, TypeOK, IName, Early, Recovering
<1>26. CASE RecRunning
  BY Values, <1>26 DEF RecRunning, Goto, End, Continue, RecoveryEnds, k,
     homes, TypeOK, IName, Early, Recovering
<1>27. CASE RecDefault
  BY <1>27 DEF RecDefault, Goto, End, Continue, RecoveryEnds, names, homes
<1>28. CASE RecMount
  BY <1>28 DEF RecMount, Goto, End, Continue, RecoveryEnds, names, homes, disk
<1>29. CASE RecBoot
  BY <1>29 DEF RecBoot, Goto, End, Continue, names, homes
<1>30. CASE RecReconcile
  BY <1>30 DEF RecReconcile, End, RecoveryEnds, names, homes
<1>31. CASE Killed
  BY <1>31 DEF Killed, End, names, homes, disk
<1>32. CASE Reboot
  BY <1>32 DEF Reboot, names, homes, disk
<1>33. CASE UNCHANGED vars
  BY <1>33 DEF vars
<1> QED
  BY <1>1, <1>2, <1>3, <1>4, <1>5, <1>6, <1>7, <1>8, <1>9, <1>10, <1>11,
     <1>12, <1>13, <1>14, <1>15, <1>16, <1>17, <1>18, <1>19, <1>20, <1>21,
     <1>22, <1>23, <1>24, <1>25, <1>26, <1>27, <1>28, <1>29, <1>30, <1>31,
     <1>32, <1>33 DEF Next

(* A step keeps every /home under one of the names. *)
LEMMA HomesStep ==
    ASSUME TypeOK, IFresh, IName, IHome, [Next]_vars, NEW v \in Homes \cap Subvols
    PROVE  v \in Homes' \/ (v = k /\ pc # "idle")
<1> USE DEF Homes
<1>1. CASE Begin
  BY <1>1 DEF Begin, Goto, RootNameFits, StagedBy, k, names, homes, disk
<1>2. CASE Refuse
  BY <1>2 DEF Refuse, End, names, homes, disk
<1>3. CASE Confirm
  BY <1>3 DEF Confirm, Goto, names, homes, disk
<1>4. CASE Create
  BY <1>4 DEF Create, Goto, End, Continue, k, homes
<1>5. CASE Detach
  BY <1>5 DEF Detach, Goto, End, Continue, GiveUp, k, names, homes, disk
<1>6. CASE Preserve
  BY <1>6 DEF Preserve, Goto, End, Continue, GiveUp, k, Chained, homes
<1>7. CASE Demote
  BY <1>7 DEF Demote, Goto, Continue, homes
<1>8. CASE Represerve
  BY <1>8 DEF Represerve, End, k, homes
<1>9. CASE Promote
  BY <1>9 DEF Promote, Goto, Continue, k, homes
<1>10. CASE Unpromote
  BY <1>10 DEF Unpromote, Goto, End, Continue, k, Chained, Aside, homes
<1>11. CASE UnpromoteRunning
  BY <1>11 DEF UnpromoteRunning, End, k, homes
<1>12. CASE Migrate
  BY <1>12 DEF Migrate, Goto, Continue, Recover, k, names, homes
<1>13. CASE Identify
  BY <1>13 DEF Identify, Goto, Continue, Recover, names, homes, disk
<1>14. CASE HomeAside
  BY Values, <1>14 DEF HomeAside, Goto, Continue, Recover, k, names, homes,
     TypeOK, IHome, Early, Between, Recovering, Txns
<1>15. CASE HomeCreate
  BY Values, <1>15 DEF HomeCreate, Goto, Recover, k, names, homes, TypeOK,
     IHome, Early, Between, Recovering, Txns
<1>16. CASE HomeFill
  BY Values, <1>16 DEF HomeFill, Goto, Continue, HomeSwapRestore, k, names,
     homes, TypeOK, IHome, Early, Between, Recovering, Txns
<1>17. CASE SetDefault
  BY <1>17 DEF SetDefault, Goto, Continue, Recover, k, names, homes
<1>18. CASE Mount
  BY <1>18 DEF Mount, Goto, End, Continue, Recover, names, homes, disk
<1>19. CASE BootRestore
  BY <1>19 DEF BootRestore, Goto, End, Continue, names, homes
<1>20. CASE Reconcile
  BY <1>20 DEF Reconcile, Goto, End, Recover, names, homes
<1>21. CASE RecHome
  BY Values, <1>21 DEF RecHome, Goto, HomeSwapRestore, k, names, homes,
     TypeOK, IHome, Early, Between, Recovering, Txns
<1>22. CASE RecDetach
  BY <1>22 DEF RecDetach, Goto, End, Continue, RecoveryEnds, names, homes, disk
<1>23. CASE RecStore
  BY <1>23 DEF RecStore, Goto, End, Continue, RecoveryEnds, k, Chained,
     Aside, names, homes
<1>24. CASE RecAside
  BY <1>24 DEF RecAside, Goto, End, Continue, RecoveryEnds, k, homes
<1>25. CASE RecName
  BY <1>25 DEF RecName, Goto, End, Continue, RecoveryEnds, k, Chained,
     Aside, homes
<1>26. CASE RecRunning
  BY <1>26 DEF RecRunning, Goto, End, Continue, RecoveryEnds, k, homes
<1>27. CASE RecDefault
  BY <1>27 DEF RecDefault, Goto, End, Continue, RecoveryEnds, names, homes
<1>28. CASE RecMount
  BY <1>28 DEF RecMount, Goto, End, Continue, RecoveryEnds, names, homes, disk
<1>29. CASE RecBoot
  BY <1>29 DEF RecBoot, Goto, End, Continue, names, homes
<1>30. CASE RecReconcile
  BY <1>30 DEF RecReconcile, End, RecoveryEnds, names, homes
<1>31. CASE Killed
  BY <1>31 DEF Killed, End, names, homes, disk
<1>32. CASE Reboot
  BY <1>32 DEF Reboot, names, homes, disk
<1>33. CASE UNCHANGED vars
  BY <1>33 DEF vars
<1> QED
  BY <1>1, <1>2, <1>3, <1>4, <1>5, <1>6, <1>7, <1>8, <1>9, <1>10, <1>11,
     <1>12, <1>13, <1>14, <1>15, <1>16, <1>17, <1>18, <1>19, <1>20, <1>21,
     <1>22, <1>23, <1>24, <1>25, <1>26, <1>27, <1>28, <1>29, <1>30, <1>31,
     <1>32, <1>33 DEF Next

(* The facts that the steps above establish together.                      *)
LEMMA InitInv == Init => IInv
<1> SUFFICES ASSUME Init PROVE IInv
  OBVIOUS
<1>1. 0 \in Subvols /\ Subvols \subseteq Maybe /\ None \in Maybe
  BY RollbackAssumption DEF Subvols, Maybe
<1>2. NoTxn \in Txns
  BY <1>1 DEF NoTxn, Txns
<1>3. before \in [Stamps -> Maybe] /\ homeUndo \in [Stamps -> Maybe]
  BY <1>1 DEF Init
<1>4. scope \in {"host", "target"} /\ pc \in Steps /\ outcome \in Outcomes
  BY RollbackAssumption DEF Init, Steps, Outcomes
<1>5. {root, default, store, home, boot, running} \subseteq Maybe
  BY <1>1 DEF Init
<1>6. TypeOK
  BY <1>2, <1>3, <1>4, <1>5 DEF Init, TypeOK
<1>7. IFree
  BY DEF Init, IFree
<1>8. IStamp
  <2>1. k = 0
    BY DEF Init, NoTxn, k
  <2> QED
    BY <2>1 DEF Init, IStamp, None
<1>9. pc = "idle" /\ outcome = "none"
  BY DEF Init
<1>10. IName /\ IStore /\ IDefault
  BY <1>9 DEF IName, IStore, IDefault, Early, Between, Switched, Recovering,
     Renaming, Rebuilding
<1>11. IHome
  BY <1>9 DEF IHome, Early, Between, Recovering, Renaming, Rebuilding
<1>12. IDone
  BY <1>9 DEF Init, IDone, RestoredIsRestored, SuccessIsSwitched,
     NeverRootless, None
<1> QED
  BY <1>6, <1>7, <1>8, <1>10, <1>11, <1>12 DEF IInv, IFresh

LEMMA StepInv == IInv /\ [Next]_vars => IInv'
<1> SUFFICES ASSUME IInv, [Next]_vars PROVE IInv'
  OBVIOUS
<1>1. TypeOK /\ IFresh /\ TControl /\ TDisk /\ TTxn
  BY DEF IInv, TypeOK, TControl, TDisk, TTxn
<1>2. TControl' /\ TDisk' /\ TTxn'
  BY <1>1, ControlStep, DiskStep, TxnStep
<1>6. TypeOK'
  BY <1>2 DEF TypeOK, TControl, TDisk, TTxn
<1>3. IFresh'
  BY <1>1, StampStep, FreeStep DEF IInv, IFresh
<1>4. IName' /\ IStore' /\ IDefault' /\ IHome'
  BY <1>1, NameStep, StoreStep, DefaultStep, HomeStep DEF IInv
<1>5. IDone'
  BY <1>1, RestoredStep, SuccessStep, RootlessStep DEF IInv, IDone
<1> QED
  BY <1>3, <1>4, <1>5, <1>6 DEF IInv

(* The inductive invariant holds in every behaviour.                       *)
THEOREM RollbackInvariant == Spec => []IInv
  BY InitInv, StepInv, PTL DEF Spec

(* Every variable has its type, for any number of rollbacks.               *)
THEOREM RollbackTypes == Spec => []TypeOK
<1>1. IInv => TypeOK
  BY DEF IInv
<1> QED
  BY <1>1, RollbackInvariant, PTL

(* A rollback that says that nothing changed, or that everything was       *)
(* restored, is right.                                                     *)
THEOREM RestoredHolds == Spec => []RestoredIsRestored
<1>1. IInv => RestoredIsRestored
  BY DEF IInv, IDone
<1> QED
  BY <1>1, RollbackInvariant, PTL

(* A rollback that reports success switched root, default, store, /home    *)
(* and boot stack together.                                                *)
THEOREM SuccessHolds == Spec => []SuccessIsSwitched
<1>1. IInv => SuccessIsSwitched
  BY DEF IInv, IDone
<1> QED
  BY <1>1, RollbackInvariant, PTL

(* No rollback ends without a root unless it was killed or says so.        *)
THEOREM RootlessHolds == Spec => []NeverRootless
<1>1. IInv => NeverRootless
  BY DEF IInv, IDone
<1> QED
  BY <1>1, RollbackInvariant, PTL

(* No chain of rollbacks, recoveries and crashes ever loses a root.        *)
THEOREM RootsAreKept == Spec => RootsKept
<1>1. ASSUME IInv, [Next]_vars, NEW v \in Subvols, v \in Kept
      PROVE  v \in Kept' \/ (v = k /\ v \in failed')
  BY <1>1, KeptStep DEF IInv
<1>2. IInv /\ [Next]_vars =>
        [\A v \in Subvols : v \in Kept => v \in Kept' \/ (v = k /\ v \in failed')]_vars
  BY <1>1
<1> QED
  BY <1>2, RollbackInvariant, PTL DEF Spec, RootsKept

(* No undo of a /home swap ever deletes the user's /home.                  *)
THEOREM HomesAreKept == Spec => HomesKept
<1>1. ASSUME IInv, [Next]_vars, NEW v \in Subvols, v \in Homes
      PROVE  v \in Homes' \/ (v = k /\ pc # "idle")
  BY <1>1, HomesStep DEF IInv
<1>2. IInv /\ [Next]_vars =>
        [\A v \in Subvols : v \in Homes => v \in Homes' \/ (v = k /\ pc # "idle")]_vars
  BY <1>1
<1> QED
  BY <1>2, RollbackInvariant, PTL DEF Spec, HomesKept
=============================================================================
