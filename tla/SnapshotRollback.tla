-------------------------- MODULE SnapshotRollback --------------------------
(***************************************************************************)
(* The transactional Btrfs rollback of the helper: rollback_snapshot for a *)
(* repair target and host_rollback_snapshot for the running host, with     *)
(* their recovery functions.  Every command of the transaction may fail,   *)
(* and the helper may be killed, or the machine lose its power, between any *)
(* two of them.                                                            *)
(*                                                                         *)
(* A subvolume that can be a root is named by the rollback that made it:   *)
(* 0 is the installed root, k the writable candidate of rollback k.  The   *)
(* date stamp in the names <root>-rollback-before-<stamp> is that k.       *)
(***************************************************************************)
EXTENDS Integers

CONSTANTS
    MaxRollbacks,   \* bound: how many rollbacks are tried
    Scopes          \* which of "host" and "target" are modelled

ASSUME RollbackAssumption ==
    /\ MaxRollbacks \in Nat
    /\ Scopes \subseteq {"host", "target"}

Stamps  == 1..MaxRollbacks
None    == -1
Subvols == 0..MaxRollbacks
Maybe   == Subvols \cup {None}

VARIABLES
    scope,     \* the scope the transaction works in
    root,      \* subvolume that carries the root name (@), or None
    new,       \* stamps s whose candidate is still called <root>-rollback-new-s
    before,    \* what is called <root>-rollback-before-s
    failed,    \* stamps s whose candidate is called <root>-rollback-failed-s
    default,   \* the Btrfs default subvolume; None is the top level
    store,     \* the root that .snapshots is nested in; None: it is not nested
    home,      \* what carries the name of the separate /home; 0: the user's
    homeUndo,  \* what is called <home>-rollback-before-s
    boot,      \* the root the boot stack was last built for; None: half built
    running,   \* the root the running host executes
    pc,        \* the next step of the transaction
    txn,       \* its local variables
    outcome    \* how the last transaction ended

names == <<root, new, before, failed>>
homes == <<home, homeUndo>>
disk  == <<names, default, store, homes, boot>>
vars  == <<scope, root, new, before, failed, default, store, home, homeUndo, boot,
           running, pc, txn, outcome>>

(* Locals of a transaction: its stamp, the undo point that the running     *)
(* root is called after (0 unless this rollback replaces a staged one),    *)
(* the old default (unknown if it could not be read), whether /home was    *)
(* swapped, whether the result of the recovery is reported; and, as        *)
(* history, what the disk was before the transaction.                      *)
Txns == [stamp : Subvols, undo : Subvols, known : BOOLEAN, nested : BOOLEAN,
         optIn : BOOLEAN, swapped : BOOLEAN, reports : BOOLEAN,
         prev : Maybe, prevDefault : Maybe, prevStore : Maybe, prevHome : Maybe]

NoTxn == [stamp |-> 0, undo |-> 0, known |-> FALSE, nested |-> FALSE,
          optIn |-> FALSE, swapped |-> FALSE, reports |-> FALSE,
          prev |-> 0, prevDefault |-> None, prevStore |-> None, prevHome |-> 0]

Steps == {"idle", "ask", "create", "detach", "preserve", "demote", "represerve",
          "promote", "unpromote", "unpromoteRunning", "migrate", "identify",
          "homeAside", "homeCreate", "homeFill", "setDefault", "mount",
          "bootRestore", "reconcile", "recHome", "recDetach", "recStore",
          "recAside", "recName", "recRunning", "recDefault", "recMount",
          "recBoot", "recReconcile"}

Outcomes == {"none", "refused", "declined", "unchanged", "stuck", "success",
             "restored", "critical", "attempted", "exited", "killed"}

k == txn.stamp
Chained == txn.undo # 0

\* The undo name the root to be restored waits under.
Aside == IF Chained THEN txn.undo ELSE k

Init ==
    /\ scope \in Scopes
    /\ root = 0 /\ new = {} /\ failed = {}
    /\ before = [s \in Stamps |-> None]
    /\ default \in {0, None}
    /\ store \in {0, None}
    /\ home = 0 /\ homeUndo = [s \in Stamps |-> None]
    /\ boot = 0 /\ running = 0
    /\ pc = "idle" /\ txn = NoTxn /\ outcome = "none"

-----------------------------------------------------------------------------
(* How a transaction goes on and how it ends.                              *)

Goto(step) == pc' = step /\ UNCHANGED <<scope, running, outcome>>

End(result) == pc' = "idle" /\ outcome' = result /\ UNCHANGED <<scope, running>>

Continue(step) == Goto(step) /\ UNCHANGED txn

(* A step that fails before the switch deletes the candidate if it can and *)
(* leaves the rest alone.                                                  *)
GiveUp ==
    /\ End("unchanged")
    /\ new' \in {new, new \ {k}}
    /\ UNCHANGED <<root, before, failed, default, store, homes, boot, txn>>

(* The call of the recovery function.  Its result is either reported, or   *)
(* ignored for a final "restoration was attempted".                        *)
Recover(reports) == Goto("recHome") /\ txn' = [txn EXCEPT !.reports = reports]

RecoveryEnds(result) ==
    /\ End(IF txn.reports THEN result ELSE "attempted")
    /\ UNCHANGED txn

-----------------------------------------------------------------------------
(* Preflight and the question.                                             *)

(* The running host is staged: it executes an undo point, and the default  *)
(* is the root a rollback promoted.                                        *)
StagedBy(s) ==
    /\ s \in Stamps
    /\ before[s] = running
    /\ default = root /\ root \notin {None, running}

(* The snapshot's fstab has to name the root that would be replaced: the   *)
(* target's, the running one, or the one that is staged.                   *)
RootNameFits(undo) ==
    \/ undo = 0 /\ root # None /\ (scope = "host" => root = running)
    \/ scope = "host" /\ StagedBy(undo)

Begin ==
    \E undo \in Subvols, known \in BOOLEAN :
        /\ pc = "idle" /\ k < MaxRollbacks
        /\ RootNameFits(undo)
        /\ txn' = [stamp |-> k + 1, undo |-> undo, known |-> known,
                   nested |-> store = root, optIn |-> FALSE, swapped |-> FALSE,
                   reports |-> FALSE, prev |-> root, prevDefault |-> default,
                   prevStore |-> store, prevHome |-> home]
        /\ Goto("ask")
        /\ UNCHANGED disk

(* The plan, the free space or the capture of a separate /boot may still   *)
(* refuse the rollback, and the user may decline it.                       *)
Refuse ==
    /\ pc = "ask"
    /\ \E result \in {"refused", "declined"} : End(result)
    /\ UNCHANGED <<disk, txn>>

(* Only for a repair target is the user asked whether /home goes back too. *)
Confirm ==
    \E optIn \in BOOLEAN :
        /\ pc = "ask"
        /\ optIn => scope = "target" /\ home # None
        /\ txn' = [txn EXCEPT !.optIn = optIn]
        /\ Goto("create")
        /\ UNCHANGED disk

-----------------------------------------------------------------------------
(* Before the switch.                                                      *)

Create ==
    /\ pc = "create"
    /\ \/ /\ new' = new \cup {k}
          /\ Continue(IF scope = "target" THEN "detach" ELSE "preserve")
       \/ new' \in {new, new \cup {k}} /\ End("unchanged") /\ UNCHANGED txn
    /\ UNCHANGED <<root, before, failed, default, store, homes, boot>>

Detach ==
    /\ pc = "detach"
    /\ \/ Continue("preserve") /\ UNCHANGED disk
       \/ GiveUp

(* The current root is kept under the undo name.  A host that is staged    *)
(* keeps the root it executes, which is called after the earlier rollback. *)
Preserve ==
    /\ pc = "preserve"
    /\ \/ /\ before' = IF Chained
                       THEN [before EXCEPT ![k] = before[txn.undo], ![txn.undo] = None]
                       ELSE [before EXCEPT ![k] = root]
          /\ root' = IF Chained THEN root ELSE None
          /\ Continue(IF Chained THEN "demote" ELSE "promote")
          /\ UNCHANGED <<new, failed, default, store, homes, boot>>
       \/ GiveUp

(* A replaced staged root takes the name the running root has just left.   *)
Demote ==
    /\ pc = "demote"
    /\ \/ /\ before' = [before EXCEPT ![txn.undo] = root]
          /\ root' = None
          /\ Continue("promote")
       \/ Continue("represerve") /\ UNCHANGED <<root, before>>
    /\ UNCHANGED <<new, failed, default, store, homes, boot>>

Represerve ==
    /\ pc = "represerve"
    /\ before' \in {before, [before EXCEPT ![txn.undo] = before[k], ![k] = None]}
    /\ new' \in {new, new \ {k}}
    /\ End("unchanged")
    /\ UNCHANGED <<root, failed, default, store, homes, boot, txn>>

\* mutant: a nested store of snapshots is left behind.
PromoteOnly ==
    /\ pc = "promote"
    /\ \/ /\ root' = k /\ new' = new \ {k}
          /\ Continue("identify")
       \/ Continue("unpromote") /\ UNCHANGED <<root, new>>
    /\ UNCHANGED <<before, failed, default, store, homes, boot>>

Promote ==
    /\ pc = "promote"
    /\ \/ /\ root' = k /\ new' = new \ {k}
          /\ Continue(IF txn.nested THEN "migrate" ELSE "identify")
       \/ Continue("unpromote") /\ UNCHANGED <<root, new>>
    /\ UNCHANGED <<before, failed, default, store, homes, boot>>

Unpromote ==
    /\ pc = "unpromote"
    /\ \/ /\ root' = before[Aside]
          /\ before' = [before EXCEPT ![Aside] = None]
          /\ IF Chained THEN Continue("unpromoteRunning")
                        ELSE End("unchanged") /\ UNCHANGED txn
       \/ End("stuck") /\ UNCHANGED <<root, before, txn>>
    /\ UNCHANGED <<new, failed, default, store, homes, boot>>

UnpromoteRunning ==
    /\ pc = "unpromoteRunning"
    /\ \/ /\ before' = [before EXCEPT ![txn.undo] = before[k], ![k] = None]
          /\ End("unchanged")
       \/ End("stuck") /\ UNCHANGED before
    /\ UNCHANGED <<root, new, failed, default, store, homes, boot, txn>>

-----------------------------------------------------------------------------
(* After the switch.                                                       *)

Migrate ==
    /\ pc = "migrate"
    /\ \/ store' = k /\ Continue("identify")
       \/ Recover(FALSE) /\ UNCHANGED store
    /\ UNCHANGED <<names, default, homes, boot>>

Identify ==
    /\ pc = "identify"
    /\ \/ Continue(IF txn.optIn THEN "homeAside" ELSE "setDefault")
       \/ Recover(FALSE)
    /\ UNCHANGED disk

\* mutant: the swap counts as begun before the old /home is aside.
HomeAsideEager ==
    /\ pc = "homeAside"
    /\ \/ /\ homeUndo' = [homeUndo EXCEPT ![k] = home] /\ home' = None
          /\ Continue("homeCreate")
       \/ Goto("recHome") /\ txn' = [txn EXCEPT !.swapped = TRUE] /\ UNCHANGED homes
    /\ UNCHANGED <<names, default, store, boot>>

HomeAside ==
    /\ pc = "homeAside"
    /\ \/ /\ homeUndo' = [homeUndo EXCEPT ![k] = home] /\ home' = None
          /\ Continue("homeCreate")
       \/ Recover(FALSE) /\ UNCHANGED homes
    /\ UNCHANGED <<names, default, store, boot>>

HomeCreate ==
    /\ pc = "homeCreate"
    /\ \/ /\ home' = k /\ UNCHANGED homeUndo
          /\ txn' = [txn EXCEPT !.swapped = TRUE] /\ Goto("homeFill")
       \/ /\ \/ home' = homeUndo[k] /\ homeUndo' = [homeUndo EXCEPT ![k] = None]
             \/ UNCHANGED homes
          /\ Recover(FALSE)
    /\ UNCHANGED <<names, default, store, boot>>

(* snapshot_home_swap_restore: the new /home is deleted and the kept one   *)
(* gets its name back; either command may fail.                            *)
HomeSwapRestore(t) ==
    \/ /\ home' = homeUndo[k] /\ homeUndo' = [homeUndo EXCEPT ![k] = None]
       /\ txn' = [t EXCEPT !.swapped = FALSE]
    \/ home' \in {home, None} /\ homeUndo' = homeUndo /\ txn' = t

HomeFill ==
    /\ pc = "homeFill"
    /\ \/ Continue("setDefault") /\ UNCHANGED homes
       \/ HomeSwapRestore([txn EXCEPT !.reports = FALSE]) /\ Goto("recHome")
    /\ UNCHANGED <<names, default, store, boot>>

SetDefault ==
    /\ pc = "setDefault"
    /\ \/ default' = k /\ Continue("mount")
       \/ Recover(TRUE) /\ UNCHANGED default
    /\ UNCHANGED <<names, store, homes, boot>>

(* The mount ends the helper by `fail` when a mount or a check fails.  It  *)
(* is called as a condition, where the shell ignores other failures: only  *)
(* the last command can make it return an error.                           *)
Mount ==
    /\ pc = "mount"
    /\ \/ Continue("bootRestore")
       \/ Recover(TRUE)
       \/ End("exited") /\ UNCHANGED txn
    /\ UNCHANGED disk

(* Every error of snapshot_boot_restore_capture is a `fail` as well.       *)
BootRestore ==
    /\ pc = "bootRestore"
    /\ \/ Continue("reconcile") /\ UNCHANGED boot
       \/ boot' = None /\ End("exited") /\ UNCHANGED txn
    /\ UNCHANGED <<names, default, store, homes>>

(* The reconcile runs in a subshell, so its `fail` is seen here.           *)
Reconcile ==
    /\ pc = "reconcile"
    /\ \/ boot' = root /\ End("success") /\ UNCHANGED txn
       \/ boot' = None /\ Recover(TRUE)
    /\ UNCHANGED <<names, default, store, homes>>

-----------------------------------------------------------------------------
(* snapshot_restore_preserved_root and its host and chained variants.      *)

RecHome ==
    /\ pc = "recHome"
    /\ IF txn.swapped THEN HomeSwapRestore(txn) ELSE UNCHANGED <<homes, txn>>
    /\ Goto("recDetach")
    /\ UNCHANGED <<names, default, store, boot>>

RecDetach ==
    /\ pc = "recDetach"
    /\ Continue("recStore") \/ RecoveryEnds("critical")
    /\ UNCHANGED disk

\* mutant: the store goes to the last undo point, chained or not.
RecStoreNewest ==
    /\ pc = "recStore"
    /\ \/ /\ store' = IF store = root THEN before[k] ELSE store
          /\ Continue("recAside")
       \/ store = root /\ RecoveryEnds("critical") /\ UNCHANGED store
    /\ UNCHANGED <<names, default, homes, boot>>

RecStore ==
    /\ pc = "recStore"
    /\ \/ /\ store' = IF store = root THEN before[Aside] ELSE store
          /\ Continue("recAside")
       \/ store = root /\ RecoveryEnds("critical") /\ UNCHANGED store
    /\ UNCHANGED <<names, default, homes, boot>>

\* mutant: the failed candidate gets the stamp of the undo point.
RecAsideStamp ==
    /\ pc = "recAside"
    /\ \/ failed' = failed \cup {txn.undo} /\ root' = None /\ Continue("recName")
       \/ RecoveryEnds("critical") /\ UNCHANGED <<failed, root>>
    /\ UNCHANGED <<new, before, default, store, homes, boot>>

\* mutant: a root that could not be moved aside is renamed over.
RecAsideUnchecked ==
    /\ pc = "recAside"
    /\ \/ failed' = failed \cup {k} /\ root' = None
       \/ UNCHANGED <<failed, root>>
    /\ Continue("recName")
    /\ UNCHANGED <<new, before, default, store, homes, boot>>

RecAside ==
    /\ pc = "recAside"
    /\ \/ failed' = failed \cup {k} /\ root' = None /\ Continue("recName")
       \/ RecoveryEnds("critical") /\ UNCHANGED <<failed, root>>
    /\ UNCHANGED <<new, before, default, store, homes, boot>>

\* mutant: the failed rename ends the helper like any other error.
RecNameFails ==
    /\ pc = "recName"
    /\ \/ /\ root' = before[Aside]
          /\ before' = [before EXCEPT ![Aside] = None]
          /\ Continue(IF Chained THEN "recRunning" ELSE "recDefault")
       \/ End("exited") /\ UNCHANGED <<root, before, txn>>
    /\ UNCHANGED <<new, failed, default, store, homes, boot>>

RecName ==
    /\ pc = "recName"
    /\ \/ /\ root' = before[Aside]
          /\ before' = [before EXCEPT ![Aside] = None]
          /\ Continue(IF Chained THEN "recRunning" ELSE "recDefault")
       \/ RecoveryEnds("critical") /\ UNCHANGED <<root, before>>
    /\ UNCHANGED <<new, failed, default, store, homes, boot>>

RecRunning ==
    /\ pc = "recRunning"
    /\ \/ /\ before' = [before EXCEPT ![txn.undo] = before[k], ![k] = None]
          /\ Continue("recDefault")
       \/ RecoveryEnds("critical") /\ UNCHANGED before
    /\ UNCHANGED <<root, new, failed, default, store, homes, boot>>

(* A target whose own root was damaged before has no boot stack to rebuild.*)
RecDefault ==
    /\ pc = "recDefault"
    /\ \/ /\ default' = IF txn.known THEN txn.prevDefault ELSE root
          /\ \/ Continue("recMount")
             \/ scope = "target" /\ RecoveryEnds("restored")
       \/ RecoveryEnds("critical") /\ UNCHANGED default
    /\ UNCHANGED <<names, store, homes, boot>>

RecMount ==
    /\ pc = "recMount"
    /\ \/ Continue("recBoot")
       \/ RecoveryEnds("critical")
       \/ End("exited") /\ UNCHANGED txn
    /\ UNCHANGED disk

RecBoot ==
    /\ pc = "recBoot"
    /\ \/ Continue("recReconcile") /\ UNCHANGED boot
       \/ boot' = None /\ End("exited") /\ UNCHANGED txn
    /\ UNCHANGED <<names, default, store, homes>>

RecReconcile ==
    /\ pc = "recReconcile"
    /\ \/ boot' = root /\ RecoveryEnds("restored")
       \/ boot' = None /\ RecoveryEnds("critical")
    /\ UNCHANGED <<names, default, store, homes>>

-----------------------------------------------------------------------------
(* The helper is killed, or the power fails; and a reboot of the host.     *)

Killed ==
    /\ pc # "idle"
    /\ End("killed")
    /\ UNCHANGED <<disk, txn>>

Reboot ==
    /\ scope = "host" /\ pc = "idle" /\ root # None
    /\ running' = root
    /\ UNCHANGED <<scope, disk, pc, txn, outcome>>

Next ==
    \/ Begin \/ Refuse \/ Confirm
    \/ Create \/ Detach \/ Preserve \/ Demote \/ Represerve
    \/ Promote \/ Unpromote \/ UnpromoteRunning
    \/ Migrate \/ Identify \/ HomeAside \/ HomeCreate \/ HomeFill
    \/ SetDefault \/ Mount \/ BootRestore \/ Reconcile
    \/ RecHome \/ RecDetach \/ RecStore \/ RecAside \/ RecName \/ RecRunning
    \/ RecDefault \/ RecMount \/ RecBoot \/ RecReconcile
    \/ Killed \/ Reboot

Spec == Init /\ [][Next]_vars

-----------------------------------------------------------------------------
(* Properties.                                                             *)

(* Every variable has its type. *)
TypeOK ==
    /\ scope \in {"host", "target"}
    /\ root \in Maybe
    /\ new \subseteq Stamps /\ failed \subseteq Stamps
    /\ before \in [Stamps -> Maybe]
    /\ default \in Maybe /\ store \in Maybe
    /\ home \in Maybe /\ homeUndo \in [Stamps -> Maybe]
    /\ boot \in Maybe /\ running \in Maybe
    /\ pc \in Steps /\ txn \in Txns /\ outcome \in Outcomes

Kept == {root} \cup {before[s] : s \in Stamps}

(* No step of a rollback, of its recovery or of a chain of rollbacks loses *)
(* a root: whatever was the root or an undo point keeps one of these names,*)
(* and only the candidate of the rollback itself may be called failed.     *)
RootsKept ==
    [][\A v \in Subvols : v \in Kept => v \in Kept' \/ (v = k /\ v \in failed')]_vars

Homes == {home} \cup {homeUndo[s] : s \in Stamps}

(* Undoing the swap of /home deletes a subvolume: it is never one that the *)
(* user's files are in, only the /home that this very rollback created.    *)
HomesKept ==
    [][\A v \in Subvols : v \in Homes => v \in Homes' \/ (v = k /\ pc # "idle")]_vars

(* A rollback that ends with "nothing was changed" or "restored" left the  *)
(* root, the store of the snapshots and the default as they were, and the  *)
(* running root still has an undo name if it had one; /home is back too,   *)
(* unless the recovery could not undo its swap.                            *)
RestoredIsRestored ==
    pc = "idle" /\ outcome \in {"refused", "declined", "unchanged", "restored"} =>
        /\ root = txn.prev
        /\ store = txn.prevStore
        /\ default = txn.prevDefault \/ (~txn.known /\ default = root)
        /\ Chained => running \in {root, before[txn.undo], before[k]}
        /\ home = txn.prevHome \/ txn.swapped

(* A rollback that reports success switched everything together: the root, *)
(* the default, a nested store and the boot stack are the candidate's, the *)
(* replaced root and the replaced /home wait under the undo names.         *)
SuccessIsSwitched ==
    pc = "idle" /\ outcome = "success" =>
        /\ root = k /\ default = k /\ boot = k
        /\ store = IF txn.nested THEN k ELSE txn.prevStore
        /\ before[Aside] = txn.prev
        /\ IF txn.optIn THEN home = k /\ homeUndo[k] = txn.prevHome
                        ELSE home = txn.prevHome

(* No rollback leaves the disk without a root unless it was killed or says *)
(* that it could not put the root back.                                    *)
NeverRootless ==
    pc = "idle" /\ root = None => outcome \in {"stuck", "critical", "attempted", "killed"}

(* What the code documents and does not keep: when a stage after the       *)
(* switch ends the helper with an error, the preserved root was put back.  *)
AutomaticRestore == pc = "idle" /\ outcome = "exited" => root = txn.prev
=============================================================================
