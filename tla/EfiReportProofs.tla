-------------------------- MODULE EfiReportProofs ---------------------------
(***************************************************************************)
(* What an operation of EfiBootEntries reports is true and what a failed   *)
(* one did is undone, proved for any number of entries and of faults.      *)
(***************************************************************************)
EXTENDS EfiBootEntriesProofs

(* The order is one, and the record of what was there is complete.         *)
IOrder ==
    /\ order \in Orders /\ pre.order \in Orders
    /\ next \in Ids \cup {None} /\ current \in Ids \cup {None}
    /\ faults <= MaxFaults
    /\ pre = [entry |-> pre.entry, order |-> pre.order, next |-> next]

Relabelled == [pre.entry EXCEPT ![op.id].label = op.label]

(* The operations of a user: what has been done at each step.              *)
IUser ==
    /\ pc \in {"setOrder", "relabel"} \/ (pc = "idle" /\ outcome = "none") =>
          entry = pre.entry /\ order = pre.order
    /\ pc \in {"confirmOrder", "putOrderBack"} => entry = pre.entry
    /\ pc = "confirmOrder" /\ faults = 0 => order = op.req
    /\ pc \in {"confirmLabel", "putLabelBack"} => entry = Relabelled /\ order = pre.order
    /\ pc \in {"putOrderBack", "putLabelBack"} => faults >= 1
    /\ pc \in {"tidyOrder", "confirmTidied"} => op.id \notin Existing

Early == {"reconcile", "ensure", "relabelMain", "create", "listCreated", "identify"}
Late == DefaultSteps \ Early
Setup == Early \cup {"restoreOrder", "restoreNext"}
FirstPass == Setup \cup {"prune"}
BothPasses == {"annotate", "findWfai", "createWfai", "confirmWfai", "promote", "confirmPromote"}
Undo == {"undoCheck", "undoOrder", "undoCreate", "undoNext"}
Forward == DefaultSteps \ Undo

(* BootOrder still names what it named; a deletion that the firmware did   *)
(* not keep is noticed one step later.                                     *)
ListedBut(S) == Listed(pre.order) \cap Existing \subseteq Listed(order) \cup S

IListed == pc \in Forward => ListedBut(IF pc = "confirmPrune" THEN op.gone ELSE {})

(* The other drive's entries are untouched, or pruned.  A second recovery  *)
(* entry may take the number of one that was, and fails the stage.         *)
Recovery == On("host", "wfai")
Doubled == \E i, j \in Recovery : i # j
Others == {i \in PreExisting : pre.entry[i].drive = "other"}
OtherSame == \A i \in Others : entry[i] = pre.entry[i]
OtherKept == \A i \in Others : entry[i] \in {pre.entry[i], Absent}

Unpruned == pc \in FirstPass \/ (pc \in BothPasses /\ ~op.second)

IOther ==
    /\ pc \in Forward => IF Unpruned THEN OtherSame
                                     ELSE OtherKept \/ (pc = "confirmWfai" /\ Doubled)
    /\ pc = "relabelMain" => op.id \in Mains

(* In the second pass the recovery loader has its entry.                   *)
HasWfai == {"promote", "confirmPromote", "prune", "pruning", "tidy", "confirmPrune", "group", "again"}

IWfai ==
    /\ pc \in FirstPass => ~op.second
    /\ pc = "createWfai" => op.ipxe
    /\ op.ipxe /\ (pc \in HasWfai \/ (pc \in {"annotate", "findWfai", "createWfai"} /\ op.second)) =>
          Recovery \ (IF pc = "pruning" THEN op.doomed ELSE {}) # {}

(* What is new is what the rollback knows of, or a recovery entry.         *)
NewKnown ==
    \A i \in Existing \ PreExisting : i \in Recovery \/ (op.state = "created" /\ i = op.id)

INew ==
    /\ pc \in Early => op.state = ""
    /\ pc \in {"reconcile", "ensure", "relabelMain", "create"} => Existing \subseteq PreExisting
    /\ pc \in {"listCreated", "identify"} => Existing \ PreExisting \subseteq Mains
    /\ pc \in Late => op.state # "" /\ op.id \in Ids /\ NewKnown

(* What the final check has seen; what the steps back have done.           *)
IChecked == pc = "compare" => Mains = {op.id} /\ order[1] = op.id /\ OtherSame

Undone ==
    pre.order # <<>> /\ Listed(pre.order) \subseteq PreExisting /\ PreExisting \subseteq Existing =>
        order = pre.order /\ Existing \ PreExisting \subseteq Recovery \cup Protected

IUndone ==
    /\ pc \in {"undoOrder", "undoCreate", "undoNext"} => op.before <= faults
    /\ pc = "undoCreate" /\ faults = op.before /\ pre.order # <<>>
          /\ Listed(pre.order) \subseteq Existing => order = pre.order
    /\ pc = "undoNext" /\ faults = op.before => Undone

IDefault == IListed /\ IOther /\ IWfai /\ INew /\ IChecked /\ IUndone
IEnd == ReportIsTrue /\ FailureIsUndone

RInv == IInv /\ IOrder /\ IUser /\ IDefault /\ IEnd

-----------------------------------------------------------------------------
(* Boot orders: what the elements of a list are, and what Keep returns.     *)

(* An order is an injective sequence; the bound on its length follows.     *)
LEMMA OrderIs ==
    ASSUME NEW s
    PROVE  s \in Orders <=>
              \E n \in Nat : s \in [1..n -> Ids] /\ \A a, b \in 1..n : s[a] = s[b] => a = b
<1>1. Cardinality(Ids) \in Nat /\ IsFiniteSet(Ids)
  BY FS_CardinalityType, EfiAssumption
<1>2. ASSUME s \in Orders
      PROVE  \E n \in Nat : s \in [1..n -> Ids] /\ \A a, b \in 1..n : s[a] = s[b] => a = b
  <2>1. PICK n \in 0..Cardinality(Ids) : s \in [1..n -> Ids]
    BY <1>2 DEF Orders
  <2>2. n \in Nat /\ DOMAIN s = 1..n
    BY <1>1, <2>1
  <2> QED
    BY <1>2, <2>1, <2>2 DEF Orders
<1>3. ASSUME NEW n \in Nat, s \in [1..n -> Ids], \A a, b \in 1..n : s[a] = s[b] => a = b
      PROVE  s \in Orders
  <2>1. s \in Injection(1..n, Ids)
    BY <1>3 DEF Injection, IsInjective
  <2>2. Cardinality(1..n) <= Cardinality(Ids)
    BY <1>1, <2>1, FS_Injection
  <2>3. Cardinality(1..n) = n
    BY FS_Interval
  <2>4. n \in 0..Cardinality(Ids) /\ DOMAIN s = 1..n
    BY <1>1, <1>3, <2>2, <2>3
  <2>5. s \in UNION {[1..m -> Ids] : m \in 0..Cardinality(Ids)}
    BY <1>3, <2>4
  <2> QED
    BY <1>3, <2>4, <2>5 DEF Orders
<1> QED
  BY <1>2, <1>3

(* Counting up from the bottom numbers the members of a set of positions.  *)
LEMMA RankCounts ==
    ASSUME NEW n \in Nat, NEW P \in SUBSET (1..n)
    PROVE  /\ Cardinality(P) \in Nat
           /\ \A a \in P : Rank(P, a) \in 1..Cardinality(P)
           /\ \A a, b \in P : a < b => Rank(P, a) < Rank(P, b)
           /\ \A k \in 1..Cardinality(P) : \E a \in P : Rank(P, a) = k
<1> DEFINE Below(a) == {m \in P : m <= a}
           rank == [a \in P |-> Cardinality(Below(a))]
<1>0. P \subseteq Int
  OBVIOUS
<1>1. IsFiniteSet(P) /\ Cardinality(P) \in Nat
  <2>1. IsFiniteSet(1..n)
    BY FS_Interval
  <2>2. IsFiniteSet(P)
    BY <2>1, FS_Subset
  <2> QED
    BY <2>2, FS_CardinalityType
<1>2. ASSUME NEW a \in P
      PROVE  /\ IsFiniteSet(Below(a)) /\ Cardinality(Below(a)) \in Nat
             /\ Cardinality(Below(a)) \in 1..Cardinality(P)
  <2>1. Below(a) \in SUBSET P /\ a \in Below(a)
    BY <1>2
  <2>2. IsFiniteSet(Below(a)) /\ Cardinality(Below(a)) <= Cardinality(P)
    BY <1>1, <2>1, FS_Subset
  <2>3. Cardinality(Below(a)) \in Nat /\ Cardinality(Below(a)) # 0
    BY <2>1, <2>2, FS_CardinalityType, FS_EmptySet
  <2> QED
    BY <1>1, <2>2, <2>3
<1>3. ASSUME NEW a \in P, NEW b \in P, a < b
      PROVE  Cardinality(Below(a)) < Cardinality(Below(b))
  <2>0. a \in Int /\ b \in Int /\ a < b
    BY <1>0, <1>3
  <2>a. ASSUME NEW m \in P, m <= a
        PROVE  m <= b
    <3>1. m \in Int
      BY <1>0
    <3> QED
      BY <2>0, <2>a, <3>1
  <2>1. Below(a) \in SUBSET Below(b) /\ b \in Below(b) /\ b \notin Below(a)
    <3>1. b <= b /\ ~(b <= a)
      BY <2>0
    <3> QED
      BY <2>a, <3>1
  <2>2. Below(a) # Below(b)
    BY <2>1
  <2>3. Cardinality(Below(a)) <= Cardinality(Below(b))
        /\ Cardinality(Below(a)) # Cardinality(Below(b))
    BY <1>2, <2>1, <2>2, FS_Subset
  <2> QED
    BY <1>2, <2>3
<1>4. \A a \in P : Rank(P, a) = rank[a]
  BY DEF Rank
<1>5. rank \in Injection(P, 1..Cardinality(P))
  <2>1. rank \in [P -> 1..Cardinality(P)]
    BY <1>2
  <2>2. ASSUME NEW a \in P, NEW b \in P, rank[a] = rank[b]
        PROVE  a = b
    <3>1. rank[a] = Cardinality(Below(a)) /\ rank[b] = Cardinality(Below(b))
      OBVIOUS
    <3>2. Cardinality(Below(a)) \in Nat /\ Cardinality(Below(b)) \in Nat
      BY <1>2
    <3>a. Cardinality(Below(a)) = Cardinality(Below(b))
      BY <2>2, <3>1
    <3>3. ~(a < b) /\ ~(b < a)
      <4> HIDE DEF rank, Below
      <4>1. ASSUME a < b PROVE FALSE
        <5>1. Cardinality(Below(a)) < Cardinality(Below(b))
          BY <1>3, <4>1
        <5> QED
          BY <3>2, <3>a, <5>1
      <4>2. ASSUME b < a PROVE FALSE
        <5>1. Cardinality(Below(b)) < Cardinality(Below(a))
          BY <1>3, <4>2
        <5> QED
          BY <3>2, <3>a, <5>1
      <4> QED
        BY <4>1, <4>2
    <3>4. a \in Int /\ b \in Int
      BY <1>0
    <3> QED
      BY <3>3, <3>4
  <2> QED
    BY <2>1, <2>2 DEF Injection, IsInjective
<1>6. rank \in Surjection(P, 1..Cardinality(P))
  <2>1. IsFiniteSet(1..Cardinality(P)) /\ Cardinality(1..Cardinality(P)) = Cardinality(P)
    BY <1>1, FS_Interval
  <2> HIDE DEF rank
  <2> QED
    BY <1>5, <2>1, FS_Injection
<1>7. \A k \in 1..Cardinality(P) : \E a \in P : rank[a] = k
  BY <1>6 DEF Surjection
<1> HIDE DEF rank, Below
<1>8. \A a \in P : rank[a] \in 1..Cardinality(P)
  BY <1>5 DEF Injection
<1>9. \A a, b \in P : a < b => rank[a] < rank[b]
  BY <1>3 DEF rank
<1> QED
  BY <1>1, <1>4, <1>7, <1>8, <1>9

(* Keep returns the elements of the list that are in the set, each once ... *)
LEMMA KeepIs ==
    ASSUME NEW s \in Orders, NEW S
    PROVE  Keep(s, S) \in Orders /\ Listed(Keep(s, S)) = Listed(s) \cap S
<1>1. PICK n \in Nat : s \in [1..n -> Ids] /\ \A a, b \in 1..n : s[a] = s[b] => a = b
  BY OrderIs
<1> DEFINE P == Positions(s, S)
           N == Cardinality(P)
           At(k) == CHOOSE a \in P : Rank(P, a) = k
           t == [k \in 1..N |-> s[At(k)]]
<1>2. P \in SUBSET (1..n) /\ \A a \in 1..n : a \in P <=> s[a] \in S
  BY <1>1 DEF Positions
<1>3. Keep(s, S) = t
  BY DEF Keep
<1> HIDE DEF P
<1>4. /\ N \in Nat
      /\ \A a \in P : Rank(P, a) \in 1..N
      /\ \A a, b \in P : a < b => Rank(P, a) < Rank(P, b)
      /\ \A k \in 1..N : \E a \in P : Rank(P, a) = k
  BY <1>2, RankCounts
<1>5. \A k \in 1..N : At(k) \in P /\ Rank(P, At(k)) = k
  BY <1>4
<1>6. \A a \in P : At(Rank(P, a)) = a
  <2> SUFFICES ASSUME NEW a \in P PROVE At(Rank(P, a)) = a
    OBVIOUS
  <2>1. PICK b \in P : b = At(Rank(P, a)) /\ Rank(P, b) = Rank(P, a)
    BY <1>4, <1>5
  <2>2. a \in Int /\ b \in Int /\ Rank(P, a) \in Int
    BY <1>2, <1>4
  <2>3. ~(a < b) /\ ~(b < a)
    BY <1>4, <2>1, <2>2
  <2> QED
    BY <2>1, <2>2, <2>3
<1> HIDE DEF N, At
<1>7. t \in [1..N -> Ids] /\ DOMAIN t = 1..N
  BY <1>1, <1>2, <1>5
<1>8. \A k, m \in 1..N : t[k] = t[m] => k = m
  BY <1>1, <1>2, <1>5
<1>9. t \in Orders
  BY <1>4, <1>7, <1>8, OrderIs
<1>10. ASSUME NEW x
       PROVE  x \in Listed(t) <=> x \in Listed(s) \cap S
  <2>1. ASSUME x \in Listed(t)
        PROVE  x \in Listed(s) \cap S
    <3>1. PICK k \in 1..N : x = t[k]
      BY <1>7, <2>1 DEF Listed
    <3>2. x = s[At(k)] /\ At(k) \in P
      BY <1>5, <3>1
    <3> QED
      BY <1>1, <1>2, <3>2 DEF Listed
  <2>2. ASSUME x \in Listed(s) \cap S
        PROVE  x \in Listed(t)
    <3>1. PICK a \in 1..n : x = s[a]
      BY <1>1, <2>2 DEF Listed
    <3>2. a \in P
      BY <1>2, <2>2, <3>1
    <3>3. Rank(P, a) \in 1..N /\ t[Rank(P, a)] = x
      BY <1>4, <1>6, <3>1, <3>2
    <3> QED
      BY <1>7, <3>3 DEF Listed
  <2> QED
    BY <2>1, <2>2
<1> QED
  BY <1>3, <1>9, <1>10

(* ... and the list itself if all of them are.                             *)
LEMMA KeepAll ==
    ASSUME NEW s \in Orders, NEW S, Listed(s) \subseteq S
    PROVE  Keep(s, S) = s
<1>1. PICK n \in Nat : s \in [1..n -> Ids] /\ \A a, b \in 1..n : s[a] = s[b] => a = b
  BY OrderIs
<1> DEFINE P == Positions(s, S)
           At(k) == CHOOSE a \in P : Rank(P, a) = k
<1>2. P = 1..n
  BY <1>1 DEF Positions, Listed
<1>3. Keep(s, S) = [k \in 1..Cardinality(P) |-> s[At(k)]]
  BY DEF Keep
<1> HIDE DEF P
<1>4. Cardinality(P) = n
  BY <1>2, FS_Interval
<1>5. ASSUME NEW a \in P
      PROVE  Rank(P, a) = a
  <2>1. {m \in P : m <= a} = 1..a /\ a \in Nat
    BY <1>2
  <2>2. Cardinality(1..a) = a
    BY <2>1, FS_Interval
  <2> QED
    BY <2>1, <2>2 DEF Rank
<1>6. \A k \in 1..n : At(k) = k
  BY <1>2, <1>5
<1> HIDE DEF At
<1> QED
  BY <1>1, <1>3, <1>4, <1>6

(* A number that is not in the list goes in front of it, or behind it.     *)
LEMMA FrontOrder ==
    ASSUME NEW s \in Orders, NEW i \in Ids, i \notin Listed(s)
    PROVE  <<i>> \o s \in Orders /\ Listed(<<i>> \o s) = Listed(s) \cup {i}
<1>1. PICK n \in Nat : s \in [1..n -> Ids] /\ \A a, b \in 1..n : s[a] = s[b] => a = b
  BY OrderIs
<1> DEFINE t == <<i>> \o s
<1>2. s \in Seq(Ids) /\ Len(s) = n
  BY <1>1
<1>3. t = [k \in 1..(n+1) |-> IF k = 1 THEN i ELSE s[k-1]]
  BY <1>1, <1>2
<1>4. \A a \in 1..n : s[a] # i
  BY <1>1 DEF Listed
<1> HIDE DEF t
<1>5. t \in [1..(n+1) -> Ids] /\ t[1] = i /\ \A k \in 2..(n+1) : k-1 \in 1..n /\ t[k] = s[k-1]
  BY <1>1, <1>3
<1>6. \A a, b \in 1..(n+1) : t[a] = t[b] => a = b
  BY <1>1, <1>4, <1>5
<1>7. t \in Orders
  BY <1>5, <1>6, OrderIs
<1>8. ASSUME NEW x
      PROVE  x \in Listed(t) <=> x \in Listed(s) \cup {i}
  <2>1. x \in Listed(t) <=> \E k \in 1..(n+1) : x = t[k]
    BY <1>5 DEF Listed
  <2>2. x \in Listed(s) <=> \E a \in 1..n : x = s[a]
    BY <1>1 DEF Listed
  <2>3. \A a \in 1..n : a+1 \in 1..(n+1) /\ t[a+1] = s[a]
    BY <1>3
  <2> QED
    BY <1>5, <2>1, <2>2, <2>3
<1> QED
  BY <1>7, <1>8 DEF t

LEMMA BackOrder ==
    ASSUME NEW s \in Orders, NEW i \in Ids, i \notin Listed(s)
    PROVE  Append(s, i) \in Orders /\ Listed(Append(s, i)) = Listed(s) \cup {i}
<1>1. PICK n \in Nat : s \in [1..n -> Ids] /\ \A a, b \in 1..n : s[a] = s[b] => a = b
  BY OrderIs
<1> DEFINE t == Append(s, i)
<1>2. s \in Seq(Ids) /\ Len(s) = n
  BY <1>1
<1>3. /\ t \in Seq(Ids) /\ Len(t) = n+1
      /\ \A k \in 1..n : t[k] = s[k]
      /\ t[n+1] = i
  BY <1>2
<1>4. \A a \in 1..n : s[a] # i
  BY <1>1 DEF Listed
<1> HIDE DEF t
<1>5. t \in [1..(n+1) -> Ids] /\ t[n+1] = i /\ \A k \in 1..n : t[k] = s[k]
  BY <1>3
<1>6. \A a, b \in 1..(n+1) : t[a] = t[b] => a = b
  BY <1>1, <1>4, <1>5
<1>7. t \in Orders
  BY <1>5, <1>6, OrderIs
<1>8. ASSUME NEW x
      PROVE  x \in Listed(t) <=> x \in Listed(s) \cup {i}
  <2>1. x \in Listed(t) <=> \E k \in 1..(n+1) : x = t[k]
    BY <1>5 DEF Listed
  <2>2. x \in Listed(s) <=> \E a \in 1..n : x = s[a]
    BY <1>1 DEF Listed
  <2> QED
    BY <1>5, <2>1, <2>2
<1> QED
  BY <1>7, <1>8 DEF t

-----------------------------------------------------------------------------
(* What the calls do to the order, the entries that exist and the faults.  *)

OneMore == faults < MaxFaults /\ faults' = faults + 1

LEMMA SetOrderIs ==
    ASSUME faults \in Nat, order \in Orders, NEW s \in Orders, NEW done \in BOOLEAN, SetOrder(s, done)
    PROVE  /\ order' \in {order, s} /\ entry' = entry /\ next' = next
           /\ faults' = faults \/ OneMore
           /\ done => order' = s \/ OneMore
           /\ ~done => order' = order
           /\ ~done /\ faults' = faults => s = <<>> \/ ~(Listed(s) \subseteq Existing)
  BY DEF SetOrder, Fine, Fault, OneMore

LEMMA RemoveIs ==
    ASSUME entry \in Tables, order \in Orders, NEW i \in Ids, NEW done \in BOOLEAN, Remove(i, done)
    PROVE  /\ order' \in Orders /\ next' = next
           /\ Listed(order) \ {i} \subseteq Listed(order')
           /\ \/ /\ done /\ faults' = faults
                 /\ entry' = [entry EXCEPT ![i] = Absent] /\ entry'[i] = Absent
                 /\ order' \in {order, Keep(order, Ids \ {i})}
              \/ OneMore /\ entry' = entry /\ order' = order
           /\ \A j \in Ids : j # i => entry'[j] = entry[j]
           /\ Existing \ {i} \subseteq Existing' /\ Existing' \subseteq Existing
           /\ \A drive, role : On(drive, role) \ {i} \subseteq On(drive, role)'
<1>1. \/ /\ done /\ faults' = faults
         /\ entry' = [entry EXCEPT ![i] = Absent]
         /\ order' \in {order, Keep(order, Ids \ {i})}
      \/ OneMore /\ entry' = entry /\ order' = order
  BY DEF Remove, Fine, Fault, OneMore
<1>2. next' = next
  BY DEF Remove
<1>3. /\ \A j \in Ids : j # i => entry'[j] = entry[j]
      /\ entry'[i] \in {entry[i], Absent}
      /\ entry' = [entry EXCEPT ![i] = Absent] => entry'[i] = Absent
  BY <1>1 DEF Tables
<1>4. order' \in Orders /\ Listed(order) \ {i} \subseteq Listed(order')
  <2>1. CASE order' = order
    BY <2>1
  <2>2. CASE order' = Keep(order, Ids \ {i})
    <3>1. Listed(order) \subseteq Ids
      BY OrderIs DEF Listed
    <3> QED
      BY <2>2, <3>1, KeepIs
  <2> QED
    BY <1>1, <2>1, <2>2
<1>5. Existing \ {i} \subseteq Existing' /\ Existing' \subseteq Existing
  BY <1>3 DEF Existing
<1>6. \A drive, role : On(drive, role) \ {i} \subseteq On(drive, role)'
  BY <1>3 DEF On, Existing
<1> QED
  BY <1>1, <1>2, <1>3, <1>4, <1>5, <1>6

LEMMA CreateIs ==
    ASSUME entry \in Tables, order \in Orders, NEW e \in Entries, NEW i \in Ids,
           NEW done \in BOOLEAN, Create(e, i, done)
    PROVE  /\ order' \in Orders /\ next' = next
           /\ faults' = faults \/ OneMore
           /\ Listed(order) \subseteq Listed(order')
           /\ \A j \in Existing : entry'[j] = entry[j]
           /\ \/ /\ done /\ i \notin Existing /\ Existing' = Existing \cup {i}
                 /\ entry' = [entry EXCEPT ![i] = e] /\ entry'[i] = e /\ i \in Listed(order')
              \/ entry' = entry /\ order' = order /\ Existing' = Existing
           /\ \A drive, role : On(drive, role) \subseteq On(drive, role)'
<1>1. \/ /\ done /\ i \notin Existing
         /\ entry' = [entry EXCEPT ![i] = e]
         /\ order' = <<i>> \o Keep(order, Ids \ {i})
      \/ entry' = entry /\ order' = order
  BY DEF Create
<1>2. next' = next /\ (faults' = faults \/ OneMore)
  BY DEF Create, Fine, Fault, OneMore
<1>3. ASSUME i \notin Existing, entry' = [entry EXCEPT ![i] = e],
             order' = <<i>> \o Keep(order, Ids \ {i})
      PROVE  /\ order' \in Orders /\ Listed(order') = Listed(order) \cup {i}
             /\ entry'[i] = e /\ Existing' = Existing \cup {i}
             /\ \A j \in Ids : j # i => entry'[j] = entry[j]
  <2>1. Listed(order) \subseteq Ids
    BY OrderIs DEF Listed
  <2>2. /\ Keep(order, Ids \ {i}) \in Orders
        /\ Listed(Keep(order, Ids \ {i})) = Listed(order) \ {i}
    BY <2>1, KeepIs
  <2>3. order' \in Orders /\ Listed(order') = Listed(order) \cup {i}
    <3> DEFINE t == Keep(order, Ids \ {i})
    <3>1. t \in Orders /\ i \notin Listed(t) /\ Listed(t) \cup {i} = Listed(order) \cup {i}
      BY <2>2
    <3>2. order' = <<i>> \o t
      BY <1>3
    <3> HIDE DEF t
    <3> QED
      BY <3>1, <3>2, FrontOrder
  <2>4. entry'[i] = e /\ e # Absent /\ \A j \in Ids : j # i => entry'[j] = entry[j]
    BY <1>3, AbsentIsNone DEF Tables
  <2>5. Existing' = Existing \cup {i}
    BY <2>4 DEF Existing
  <2> QED
    BY <2>3, <2>4, <2>5
<1>4. \A j \in Existing : entry'[j] = entry[j]
  BY <1>1, <1>3 DEF Existing
<1>5. \A drive, role : On(drive, role) \subseteq On(drive, role)'
  BY <1>4 DEF On, Existing
<1>6. entry' = entry => Existing' = Existing
  BY DEF Existing
<1> QED
  BY <1>1, <1>2, <1>3, <1>4, <1>5, <1>6

LEMMA RelabelIs ==
    ASSUME entry \in Tables, NEW i \in Existing, NEW label \in Labels,
           NEW done \in BOOLEAN, Relabel(i, label, done), faults \in Nat
    PROVE  /\ order' = order /\ next' = next
           /\ faults' = faults \/ OneMore \/ (faults + 2 <= MaxFaults /\ faults' = faults + 2)
           /\ done => entry' = [entry EXCEPT ![i].label = label] /\ faults' = faults
           /\ ~done => \/ /\ OneMore
                          /\ entry' = entry \/ entry' = [entry EXCEPT ![i].label = "torn"]
                       \/ faults + 2 <= MaxFaults /\ faults' = faults + 2
           /\ \A j \in Ids : j # i => entry'[j] = entry[j]
           /\ Existing' = Existing
           /\ \A drive, role : On(drive, role)' = On(drive, role)
<1>1. /\ order' = order /\ next' = next
      /\ faults' = faults \/ OneMore \/ (faults + 2 <= MaxFaults /\ faults' = faults + 2)
      /\ done => entry' = [entry EXCEPT ![i].label = label] /\ faults' = faults
      /\ ~done => \/ /\ OneMore
                     /\ entry' = entry \/ entry' = [entry EXCEPT ![i].label = "torn"]
                  \/ faults + 2 <= MaxFaults /\ faults' = faults + 2
  BY DEF Relabel, Fine, Fault, OneMore
<1>2. /\ \A j \in Ids : j # i => entry'[j] = entry[j]
      /\ entry'[i] \in Entries
      /\ entry'[i] = [entry[i] EXCEPT !.label = entry'[i].label]
  BY RelabelEffect
<1>3. i \in Ids /\ entry[i] \in Entries
  BY Exists
<1>4. entry'[i].drive = entry[i].drive /\ entry'[i].role = entry[i].role
  BY <1>2, <1>3 DEF Entries
<1>5. Existing' = Existing
  BY <1>2, <1>3, AbsentIsNone DEF Existing
<1>6. ASSUME NEW drive, NEW role
      PROVE  On(drive, role)' = On(drive, role)
  BY <1>2, <1>4, <1>5, Exists DEF On
<1> QED
  BY <1>1, <1>2, <1>5, <1>6

LEMMA ReadIs ==
    ASSUME NEW seen \in BOOLEAN, Reads(seen)
    PROVE  (seen /\ faults' = faults) \/ (~seen /\ OneMore)
  BY DEF Reads, Fine, Fault, OneMore

(* Where nothing is written the entries stay as they are.                  *)
LEMMA SameEntries ==
    ASSUME entry' = entry
    PROVE  Existing' = Existing /\ Mains' = Mains /\ \A drive, role : On(drive, role)' = On(drive, role)
<1>1. Existing' = Existing
  BY DEF Existing
<1>2. \A drive, role : On(drive, role)' = On(drive, role)
  BY <1>1 DEF On
<1> QED
  BY <1>1, <1>2 DEF Mains

LEMMA SameOrder ==
    ASSUME order' = order
    PROVE  Listed(order)' = Listed(order)
  BY DEF Listed

-----------------------------------------------------------------------------
(* The order stays one, and no more calls go wrong than may.               *)

(* These steps only read.                                                  *)
Reading ==
    \/ \E s \in Orders \ {<<>>} : Reorder(s)
    \/ \E scope \in Scopes, i \in Ids :
          Delete(scope, i) \/ \E label \in Texts : Rename(scope, i, label)
    \/ \E uki, labels, ipxe \in BOOLEAN : HostDefault(uki, labels, ipxe)
    \/ ConfirmOrder \/ ConfirmRemoved \/ ConfirmTidied \/ ConfirmLabel
    \/ Reconcile \/ Ensure \/ ListCreated \/ Identify \/ RestoreNext \/ ConfirmWfai
    \/ ConfirmPromote \/ Prune \/ ConfirmPrune \/ Again \/ VerifyLabels \/ FinalCheck
    \/ Compare \/ FindWfai \/ UndoCheck \/ UndoNext

LEMMA ReadingStep ==
    ASSUME Reading
    PROVE  entry' = entry /\ order' = order /\ (faults' = faults \/ OneMore)
<1> USE ReadIs DEF Same, nvram
<1>1. CASE \E s \in Orders \ {<<>>} : Reorder(s)
  BY <1>1 DEF Reorder, Asked
<1>2. CASE \E scope \in Scopes, i \in Ids : Delete(scope, i)
  BY <1>2 DEF Delete, Asked
<1>3. CASE \E scope \in Scopes, i \in Ids, label \in Texts : Rename(scope, i, label)
  BY <1>3 DEF Rename, Asked
<1>4. CASE \E uki, labels, ipxe \in BOOLEAN : HostDefault(uki, labels, ipxe)
  BY <1>4 DEF HostDefault, Asked
<1>5. CASE ConfirmOrder
  BY <1>5 DEF ConfirmOrder
<1>6. CASE ConfirmRemoved
  BY <1>6 DEF ConfirmRemoved
<1>7. CASE ConfirmTidied
  BY <1>7 DEF ConfirmTidied
<1>8. CASE ConfirmLabel
  BY <1>8 DEF ConfirmLabel
<1>9. CASE Reconcile
  BY <1>9 DEF Reconcile
<1>10. CASE Ensure
  BY <1>10 DEF Ensure
<1>11. CASE ListCreated
  BY <1>11 DEF ListCreated
<1>12. CASE Identify
  BY <1>12 DEF Identify
<1>13. CASE RestoreNext
  BY <1>13 DEF RestoreNext, Fine, Fault, OneMore
<1>14. CASE ConfirmWfai
  BY <1>14 DEF ConfirmWfai
<1>15. CASE ConfirmPromote
  BY <1>15 DEF ConfirmPromote
<1>16. CASE Prune
  BY <1>16 DEF Prune, Fine, Fault, OneMore
<1>17. CASE ConfirmPrune
  BY <1>17 DEF ConfirmPrune
<1>18. CASE Again
  BY <1>18 DEF Again
<1>19. CASE VerifyLabels
  BY <1>19 DEF VerifyLabels, Fine, Fault, OneMore
<1>20. CASE FinalCheck
  BY <1>20 DEF FinalCheck
<1>21. CASE Compare
  BY <1>21 DEF Compare
<1>22. CASE FindWfai
  BY <1>22 DEF FindWfai
<1>23. CASE UndoCheck
  BY <1>23 DEF UndoCheck
<1>24. CASE UndoNext
  BY <1>24 DEF UndoNext, Fine, Fault, OneMore
<1> QED
  BY <1>1, <1>2, <1>3, <1>4, <1>5, <1>6, <1>7, <1>8, <1>9, <1>10, <1>11, <1>12, <1>13, <1>14, <1>15, <1>16, <1>17, <1>18, <1>19, <1>20, <1>21,
     <1>22, <1>23, <1>24 DEF Reading

LEMMA Fits ==
    ASSUME IInv, IOrder, order' \in Orders,
           \/ faults' = faults \/ OneMore
           \/ faults + 2 <= MaxFaults /\ faults' = faults + 2
    PROVE  order' \in Orders /\ faults' <= MaxFaults
  BY EfiAssumption DEF IInv, IType, IOrder, OneMore

(* Every order that is written is one.                                     *)
LEMMA WritesFit ==
    ASSUME IInv, IOrder, NEW s \in Orders, NEW done \in BOOLEAN, SetOrder(s, done)
    PROVE  order' \in Orders /\ faults' <= MaxFaults
<1>1. order' \in Orders /\ (faults' = faults \/ OneMore)
  BY SetOrderIs DEF IInv, IType, IOrder
<1> QED
  BY <1>1, Fits

LEMMA RemovesFit ==
    ASSUME IInv, IOrder, NEW i \in Ids, NEW done \in BOOLEAN, Remove(i, done)
    PROVE  order' \in Orders /\ faults' <= MaxFaults
<1>1. order' \in Orders /\ (faults' = faults \/ OneMore)
  BY RemoveIs DEF IInv, IType, IOrder
<1> QED
  BY <1>1, Fits

LEMMA CreatesFit ==
    ASSUME IInv, IOrder, NEW e \in Entries, NEW i \in Ids, NEW done \in BOOLEAN, Create(e, i, done)
    PROVE  order' \in Orders /\ faults' <= MaxFaults
<1>1. order' \in Orders /\ (faults' = faults \/ OneMore)
  BY CreateIs DEF IInv, IType, IOrder
<1> QED
  BY <1>1, Fits

LEMMA RelabelsFit ==
    ASSUME IInv, IOrder, NEW i, NEW label, NEW done \in BOOLEAN, Relabel(i, label, done)
    PROVE  order' \in Orders /\ faults' <= MaxFaults
<1>1. order' = order
  BY DEF Relabel
<1>2. \/ faults' = faults \/ OneMore
      \/ faults + 2 <= MaxFaults /\ faults' = faults + 2
  BY DEF Relabel, Fine, Fault, OneMore
<1> QED
  BY <1>1, <1>2, Fits DEF IOrder

LEMMA StillFits ==
    ASSUME IInv, IOrder, order' = order, faults' = faults \/ OneMore
    PROVE  order' \in Orders /\ faults' <= MaxFaults
  BY Fits DEF IOrder

NewEntry(role) == [drive |-> "host", role |-> role, label |-> "good"]

LEMMA NewIsEntry ==
    ASSUME NEW role \in {"main", "wfai"}
    PROVE  /\ NewEntry(role) \in Entries /\ HasLoader(NewEntry(role))
           /\ NewEntry(role).drive = "host" /\ NewEntry(role).role = role
  BY DEF NewEntry, Entries, Roles, Labels, Texts, HasLoader

LEMMA OrderStep == ASSUME IInv, IOrder, INew, [Next]_vars PROVE IOrder'
<1> DEFINE Fit == order' \in Orders /\ faults' <= MaxFaults
<1>z. next' = next /\ current' = current /\ pre' = pre
  BY TouchStep DEF Effect
<1> SUFFICES Fit
  BY <1>z DEF IOrder
<1>0. op.req \in Orders /\ op.id \in Ids \cup {None} /\ op.doomed \subseteq Ids
  BY DEF IInv, IType, Ops
<1>a. pc \in LabelSteps \cup DeleteSteps => op.id \in Ids /\ pre.entry[op.id] \in Entries
  BY DEF IInv, IOwned
<1>1. CASE Reading
  BY <1>1, ReadingStep, StillFits
<1>2. CASE WriteOrder
  BY <1>0, <1>2, WritesFit DEF WriteOrder
<1>3. CASE PutOrderBack
  BY <1>3, WritesFit DEF PutOrderBack, IOrder
<1>4. CASE RemoveEntry
  BY <1>a, <1>4, RemovesFit DEF RemoveEntry, DeleteSteps
<1>5. CASE Recreate
  <2>1. CASE \E i \in Ids, done \in BOOLEAN : Create(pre.entry[op.id], i, done)
    BY <1>a, <1>5, <2>1, CreatesFit DEF Recreate, DeleteSteps
  <2>2. CASE Fine /\ Same
    BY <2>2, StillFits DEF Fine, Same, nvram
  <2> QED
    BY <1>5, <2>1, <2>2 DEF Recreate
<1>6. CASE TidyOrder
  <2>1. Keep(order, Ids \ {op.id}) \in Orders
    BY KeepIs DEF IOrder
  <2> QED
    BY <1>6, <2>1, WritesFit DEF TidyOrder
<1>7. CASE WriteLabel
  BY <1>7, RelabelsFit DEF WriteLabel
<1>8. CASE PutLabelBack
  BY <1>8, RelabelsFit DEF PutLabelBack
<1>9. CASE RelabelMain
  BY <1>9, RelabelsFit DEF RelabelMain
<1>10. CASE CreateMain
  <2>1. PICK i \in Ids, done \in BOOLEAN : Create(NewEntry("main"), i, done)
    BY <1>10 DEF CreateMain, NewEntry
  <2> QED
    BY <2>1, CreatesFit, NewIsEntry
<1>11. CASE RestoreOrder
  <2>1. CASE Same /\ (Fine \/ Fault)
    BY <2>1, StillFits DEF Fine, Fault, OneMore, Same, nvram
  <2>2. CASE ~(Same /\ (Fine \/ Fault))
    <3> DEFINE out == IF op.id \in Listed(pre.order) THEN pre.order ELSE Append(pre.order, op.id)
    <3>1. PICK done \in BOOLEAN : SetOrder(out, done)
      BY <1>11, <2>2 DEF RestoreOrder, Unread, Refused
    <3>2. op.id \in Ids
      BY <1>11 DEF RestoreOrder, INew, DefaultSteps, Early, Late
    <3>3. out \in Orders
      BY <3>2, BackOrder DEF IOrder
    <3> HIDE DEF out
    <3> QED
      BY <3>1, <3>3, WritesFit
  <2> QED
    BY <2>1, <2>2
<1>12. CASE Annotate
  <2>1. CASE Same /\ (Fine \/ Fault)
    BY <2>1, StillFits DEF Fine, Fault, OneMore, Same, nvram
  <2>2. CASE \E i \in Unlabelled, done \in BOOLEAN : Relabel(i, "good", done)
    BY <2>2, RelabelsFit
  <2> QED
    BY <1>12, <2>1, <2>2 DEF Annotate, Unread
<1>13. CASE Promote
  <2>1. CASE Same /\ (Fine \/ Fault)
    BY <2>1, StillFits DEF Fine, Fault, OneMore, Same, nvram
  <2> QED
    BY <1>13, <2>1, WritesFit DEF Promote, Unread, Refused
<1>14. CASE PruneOne
  <2>1. CASE Same /\ Fine
    BY <2>1, StillFits DEF Fine, Same, nvram
  <2> QED
    BY <1>0, <1>14, <2>1, RemovesFit DEF PruneOne, Refused
<1>15. CASE Tidy
  <2>1. CASE Same /\ (Fine \/ Fault)
    BY <2>1, StillFits DEF Fine, Fault, OneMore, Same, nvram
  <2>2. Keep(order, Existing \ op.gone) \in Orders
    BY KeepIs DEF IOrder
  <2> QED
    BY <1>15, <2>1, <2>2, WritesFit DEF Tidy, Unread
<1>16. CASE Group
  <2>1. CASE Same /\ (Fine \/ Fault)
    BY <2>1, StillFits DEF Fine, Fault, OneMore, Same, nvram
  <2> QED
    BY <1>16, <2>1, WritesFit DEF Group, Unread
<1>17. CASE UndoOrder
  <2>1. CASE Same /\ Fine
    BY <2>1, StillFits DEF Fine, Same, nvram
  <2> QED
    BY <1>17, <2>1, WritesFit DEF UndoOrder, IOrder
<1>18. CASE UndoCreate
  <2>1. CASE Same /\ Fine
    BY <2>1, StillFits DEF Fine, Same, nvram
  <2>2. op.id \in Ids
    BY <1>18 DEF UndoCreate, INew, DefaultSteps, Early, Late
  <2> QED
    BY <1>18, <2>1, <2>2, RemovesFit DEF UndoCreate
<1>19. CASE UNCHANGED vars
  BY <1>19, StillFits DEF vars
<1>20. CASE CreateWfai
  <2>1. PICK i \in Ids, done \in BOOLEAN : Create(NewEntry("wfai"), i, done)
    BY <1>20 DEF CreateWfai, NewEntry
  <2> QED
    BY <2>1, CreatesFit, NewIsEntry
<1> QED
  BY <1>1, <1>2, <1>3, <1>4, <1>5, <1>6, <1>7, <1>8, <1>9, <1>10, <1>11, <1>12, <1>13,
     <1>14, <1>15, <1>16, <1>17, <1>18, <1>19, <1>20 DEF Next, Reading

-----------------------------------------------------------------------------
(* The operations of a user.                                               *)

UserSteps == LabelSteps \cup DeleteSteps \cup ReorderSteps

LEMMA NotDefault == ASSUME pc' \notin DefaultSteps PROVE IDefault'
  BY DEF IDefault, IListed, IOther, IWfai, INew, IChecked, IUndone, Forward, Setup, FirstPass,
         Early, Late, HasWfai, DefaultSteps

LEMMA NotUser == ASSUME pc' \in DefaultSteps PROVE IUser'
  BY DEF IUser, DefaultSteps

LEMMA NotEnded == ASSUME pc' # "idle" PROVE IEnd'
  BY DEF IEnd, ReportIsTrue, FailureIsUndone

(* An operation that ends without a change, and has not failed.            *)
LEMMA Untouched == ASSUME pc' = "idle", outcome' \in {"refused", "unchanged"} PROVE IUser' /\ IEnd'
  BY DEF IUser, IEnd, ReportIsTrue, FailureIsUndone

(* What a step of a user's operation knows.                                *)
LEMMA Known ==
    ASSUME RInv, Next
    PROVE  /\ pre = [entry |-> pre.entry, order |-> pre.order, next |-> next]
           /\ pre.order \in Orders /\ order \in Orders /\ faults \in Nat
           /\ entry \in Tables /\ pre.entry \in Tables /\ op \in Ops
           /\ next' = next /\ current' = current /\ pre' = pre
  BY TouchStep DEF RInv, IOrder, IInv, IType, Effect

LEMMA StartUser ==
    ASSUME RInv, Next,
           \/ \E s \in Orders \ {<<>>} : Reorder(s)
           \/ \E scope \in Scopes, i \in Ids :
                 Delete(scope, i) \/ \E label \in Texts : Rename(scope, i, label)
    PROVE  IUser' /\ IEnd'
<1>1. /\ pc = "idle" /\ outcome = "none" /\ entry' = entry /\ order' = order
      /\ \/ pc' = "idle" /\ outcome' \in {"refused", "unchanged"}
         \/ pc' \in {"setOrder", "remove", "relabel"}
  BY DEF Reorder, Delete, Rename, Asked, Start, Set, End, Same, nvram
<1>2. entry = pre.entry /\ order = pre.order /\ pre' = pre
  BY <1>1, Known DEF RInv, IUser
<1>3. CASE pc' \in {"setOrder", "remove", "relabel"}
  BY <1>1, <1>2, <1>3, NotEnded DEF IUser
<1> QED
  BY <1>1, <1>3, Untouched

(* A reorder.                                                              *)
LEMMA WriteOrderUser == ASSUME RInv, Next, WriteOrder PROVE IUser' /\ IEnd'
<1>0. op \in Ops /\ op.req \in Orders
  BY Known DEF Ops
<1>1. pc = "setOrder" /\ op.kind = "reorder" /\ entry = pre.entry /\ order = pre.order /\ op' = op
  BY DEF WriteOrder, RInv, IUser, IInv, IKind, ReorderSteps, Goto, End
<1>2. PICK done \in BOOLEAN : /\ SetOrder(op.req, done)
                              /\ IF done THEN Goto("confirmOrder") ELSE End("failed")
  BY DEF WriteOrder
<1>3. /\ order' \in {order, op.req} /\ entry' = entry
      /\ faults' = faults \/ OneMore
      /\ done => order' = op.req \/ OneMore
      /\ ~done => order' = order
  BY <1>0, <1>2, Known, SetOrderIs
<1>4. CASE done
  <2>1. pc' = "confirmOrder"
    BY <1>2, <1>4 DEF Goto
  <2>2. faults' = 0 => order' = op.req
    BY <1>3, <1>4, Known DEF OneMore
  <2> QED
    BY <1>1, <1>3, <2>1, <2>2, Known, NotEnded DEF IUser
<1>5. CASE ~done
  <2>1. pc' = "idle" /\ outcome' = "failed"
    BY <1>2, <1>5 DEF End
  <2>2. entry' = pre'.entry /\ order' = pre'.order /\ next' = pre'.next
    BY <1>1, <1>3, <1>5, Known
  <2> QED
    BY <1>1, <2>1, <2>2 DEF IUser, IEnd, ReportIsTrue, FailureIsUndone
<1> QED
  BY <1>4, <1>5

LEMMA ConfirmOrderUser == ASSUME RInv, Next, ConfirmOrder PROVE IUser' /\ IEnd'
<1>1. /\ pc = "confirmOrder" /\ op.kind = "reorder" /\ entry = pre.entry /\ op' = op
      /\ faults = 0 => order = op.req
      /\ entry' = entry /\ order' = order
  BY DEF ConfirmOrder, RInv, IUser, IInv, IKind, ReorderSteps, Goto, End, Same, nvram
<1>2. PICK seen \in BOOLEAN :
        /\ Reads(seen)
        /\ IF seen /\ order = op.req THEN End("changed") ELSE Goto("putOrderBack")
  BY DEF ConfirmOrder
<1>3. (seen /\ faults' = faults) \/ (~seen /\ OneMore)
  BY <1>2, ReadIs
<1>4. CASE seen /\ order = op.req
  <2>1. pc' = "idle" /\ outcome' = "changed"
    BY <1>2, <1>4 DEF End
  <2> QED
    BY <1>1, <1>4, <2>1, Known DEF IUser, IEnd, ReportIsTrue, FailureIsUndone
<1>5. CASE ~(seen /\ order = op.req)
  <2>1. pc' = "putOrderBack"
    BY <1>2, <1>5 DEF Goto
  <2>2. faults' >= 1
    BY <1>1, <1>3, <1>5, Known DEF OneMore
  <2> QED
    BY <1>1, <2>1, <2>2, Known, NotEnded DEF IUser
<1> QED
  BY <1>4, <1>5

LEMMA PutOrderBackUser == ASSUME RInv, Next, PutOrderBack PROVE IUser' /\ IEnd'
<1>1. /\ pc = "putOrderBack" /\ op.kind = "reorder" /\ entry = pre.entry /\ op' = op
      /\ faults >= 1 /\ pc' = "idle" /\ outcome' = "failed"
  BY DEF PutOrderBack, RInv, IUser, IInv, IKind, ReorderSteps, End
<1>2. PICK done \in BOOLEAN : SetOrder(pre.order, done)
  BY DEF PutOrderBack
<1>3. /\ entry' = entry
      /\ faults' = faults \/ OneMore
      /\ done => order' = pre.order \/ OneMore
      /\ ~done /\ faults' = faults => pre.order = <<>> \/ ~(Listed(pre.order) \subseteq Existing)
  BY <1>2, Known, SetOrderIs
<1>4. ASSUME pre.order # <<>>, Listed(pre.order) \subseteq PreExisting, faults' <= 1
      PROVE  entry' = pre'.entry /\ order' = pre'.order
  <2>1. ~OneMore
    BY <1>1, <1>4, Known DEF OneMore
  <2>2. PreExisting = Existing
    BY <1>1 DEF PreExisting, Existing
  <2>3. order' = pre.order
    BY <1>3, <1>4, <2>1, <2>2
  <2> QED
    BY <1>1, <1>3, <2>3, Known
<1>5. /\ Listed(pre.order)' = Listed(pre.order) /\ PreExisting' = PreExisting
      /\ pre'.order = pre.order /\ next' = pre'.next
  BY Known DEF Listed, PreExisting
<1> QED
  BY <1>1, <1>4, <1>5 DEF IUser, IEnd, ReportIsTrue, FailureIsUndone

(* A deletion.                                                             *)
LEMMA DeleteUser ==
    ASSUME RInv, Next, RemoveEntry \/ ConfirmRemoved \/ Recreate \/ TidyOrder \/ ConfirmTidied
    PROVE  IUser' /\ IEnd'
<1>1. pc \in DeleteSteps /\ op.kind = "delete" /\ op \in Ops
  BY DEF RemoveEntry, ConfirmRemoved, Recreate, TidyOrder, ConfirmTidied, DeleteSteps, RInv,
         IInv, IKind, IType
<1>2. op'.kind = "delete"
  BY <1>1, OpStep DEF RInv, IInv, IType, SameRequest, DeleteSteps
<1>3. CASE RemoveEntry
  <2>1. pc' = "confirmRemoved" \/ (pc' = "idle" /\ outcome' = "failed")
    BY <1>3 DEF RemoveEntry, Goto, End
  <2> QED
    BY <1>2, <2>1 DEF IUser, IEnd, ReportIsTrue, FailureIsUndone
<1>4. CASE ConfirmRemoved
  <2>1. entry' = entry /\ order' = order
    BY <1>4 DEF ConfirmRemoved, Same, nvram
  <2>2. \/ pc' = "idle" /\ outcome' = "changed" /\ op' = [op EXCEPT !.blind = TRUE]
        \/ pc' = "recreate"
        \/ /\ op' = op /\ op.id \notin Existing
           /\ \/ pc' = "tidyOrder"
              \/ pc' = "idle" /\ outcome' = "changed" /\ op.id \notin Listed(order)
    BY <1>4 DEF ConfirmRemoved, Goto, End, EndBlind
  <2>3. op' = [op EXCEPT !.blind = TRUE] => op'.blind
    BY <1>1 DEF Ops
  <2>4. Existing' = Existing /\ Listed(order)' = Listed(order)
    BY <2>1, SameEntries, SameOrder
  <2> QED
    BY <1>2, <2>2, <2>3, <2>4 DEF IUser, IEnd, ReportIsTrue, FailureIsUndone
<1>5. CASE Recreate
  <2>1. pc' = "idle" /\ outcome' = "failed"
    BY <1>5 DEF Recreate, End
  <2> QED
    BY <1>2, <2>1 DEF IUser, IEnd, ReportIsTrue, FailureIsUndone
<1>6. CASE TidyOrder
  <2>1. entry' = entry /\ op' = op
    BY <1>6 DEF TidyOrder, SetOrder, Goto, End
  <2>2. pc' = "confirmTidied" \/ (pc' = "idle" /\ outcome' = "failed")
    BY <1>6 DEF TidyOrder, Goto, End
  <2>3. op.id \notin Existing
    BY <1>6 DEF TidyOrder, RInv, IUser
  <2>4. Existing' = Existing
    BY <2>1, SameEntries
  <2> QED
    BY <1>2, <2>1, <2>2, <2>3, <2>4 DEF IUser, IEnd, ReportIsTrue, FailureIsUndone
<1>7. CASE ConfirmTidied
  <2>1. entry' = entry /\ order' = order /\ pc' = "idle"
    BY <1>7 DEF ConfirmTidied, Same, nvram, End, EndBlind
  <2>2. \/ outcome' = "failed"
        \/ outcome' = "changed" /\ op' = op /\ op.id \notin Listed(order)
        \/ outcome' = "changed" /\ op' = [op EXCEPT !.blind = TRUE]
    BY <1>7 DEF ConfirmTidied, End, EndBlind
  <2>5. op' = [op EXCEPT !.blind = TRUE] => op'.blind
    BY <1>1 DEF Ops
  <2>3. op.id \notin Existing
    BY <1>7 DEF ConfirmTidied, RInv, IUser
  <2>4. Existing' = Existing /\ Listed(order)' = Listed(order)
    BY <2>1, SameEntries, SameOrder
  <2> QED
    BY <1>2, <2>1, <2>2, <2>3, <2>4, <2>5 DEF IUser, IEnd, ReportIsTrue, FailureIsUndone
<1> QED
  BY <1>3, <1>4, <1>5, <1>6, <1>7

(* A rename.                                                               *)
LEMMA RelabelledBack ==
    ASSUME entry = Relabelled, pre.entry \in Tables, op.id \in Ids, pre.entry[op.id] \in Entries
    PROVE  /\ entry[op.id].label = op.label
           /\ [entry EXCEPT ![op.id].label = pre.entry[op.id].label] = pre.entry
<1>1. entry[op.id] = [pre.entry[op.id] EXCEPT !.label = op.label]
  BY DEF Relabelled, Tables
<1>2. entry[op.id].label = op.label
  BY <1>1 DEF Entries
<1>3. [entry[op.id] EXCEPT !.label = pre.entry[op.id].label] = pre.entry[op.id]
  BY <1>1 DEF Entries
<1> DEFINE back == [entry EXCEPT ![op.id].label = pre.entry[op.id].label]
<1>4. back[op.id] = pre.entry[op.id]
  BY <1>3 DEF Relabelled, Tables
<1>5. \A j \in Ids : j # op.id => back[j] = pre.entry[j]
  BY DEF Relabelled, Tables
<1>6. DOMAIN back = Ids /\ DOMAIN pre.entry = Ids
  BY DEF Relabelled, Tables
<1>7. back = [j \in DOMAIN back |-> back[j]] /\ pre.entry = [j \in DOMAIN pre.entry |-> pre.entry[j]]
  BY DEF Tables
<1> HIDE DEF back
<1>8. back = pre.entry
  BY <1>4, <1>5, <1>6, <1>7
<1> QED
  BY <1>2, <1>8 DEF back

LEMMA LabelUser ==
    ASSUME RInv, Next, WriteLabel \/ ConfirmLabel \/ PutLabelBack
    PROVE  IUser' /\ IEnd'
<1>1. pc \in LabelSteps /\ op.kind = "rename" /\ op' = op
  BY DEF WriteLabel, ConfirmLabel, PutLabelBack, LabelSteps, RInv, IInv, IKind, Goto, End
<1>2. op.id \in Existing /\ op.id \in Ids /\ pre.entry[op.id] \in Entries
  BY <1>1, Known, Exists DEF RInv, IInv, IOwned
<1>3. op.label \in Labels /\ pre.entry[op.id].label \in Labels
  BY <1>2, Known DEF Ops, Entries
<1>a. pre' = pre /\ next' = pre.next
  BY Known
<1>4. CASE WriteLabel
  <2>1. PICK done \in BOOLEAN : /\ Relabel(op.id, op.label, done)
                                /\ IF done THEN Goto("confirmLabel") ELSE End("failed")
    BY <1>4 DEF WriteLabel
  <2>2. entry = pre.entry /\ order = pre.order
    BY <1>4 DEF WriteLabel, RInv, IUser
  <2>3. /\ order' = order
        /\ done => entry' = [entry EXCEPT ![op.id].label = op.label]
        /\ ~done => \/ entry' = entry \/ entry' = [entry EXCEPT ![op.id].label = "torn"]
                    \/ faults' = faults + 2
    BY <1>2, <1>3, <2>1, Known, RelabelIs
  <2>4. CASE done
    <3>1. pc' = "confirmLabel"
      BY <2>1, <2>4 DEF Goto
    <3>2. entry' = Relabelled'
      BY <1>1, <2>2, <2>3, <2>4, Known DEF Relabelled
    <3> QED
      BY <2>2, <2>3, <3>1, <3>2, Known, NotEnded DEF IUser
  <2>5. CASE ~done
    <3>1. pc' = "idle" /\ outcome' = "failed"
      BY <2>1, <2>5 DEF End
    <3>2. faults' <= 1 => \/ entry' = pre.entry
                          \/ entry' = [pre.entry EXCEPT ![op.id].label = "torn"]
      BY <2>2, <2>3, <2>5, Known
    <3> QED
      BY <1>1, <1>a, <2>2, <2>3, <3>1, <3>2 DEF IUser, IEnd, ReportIsTrue, FailureIsUndone
  <2> QED
    BY <2>4, <2>5
<1>5. CASE ConfirmLabel
  <2>1. /\ entry = Relabelled /\ order = pre.order
        /\ entry' = entry /\ order' = order
    BY <1>5 DEF ConfirmLabel, RInv, IUser, Same, nvram
  <2>2. PICK seen \in BOOLEAN :
          /\ Reads(seen)
          /\ IF seen /\ entry[op.id].label = op.label THEN End("changed") ELSE Goto("putLabelBack")
    BY <1>5 DEF ConfirmLabel
  <2>3. entry' = Relabelled'
    BY <1>1, <2>1, Known DEF Relabelled
  <2>4. CASE seen
    <3>1. pc' = "idle" /\ outcome' = "changed"
      BY <1>2, <2>1, <2>2, <2>4, Known, RelabelledBack DEF End
    <3> QED
      BY <1>1, <2>3, <3>1 DEF IUser, IEnd, ReportIsTrue, FailureIsUndone, Relabelled
  <2>5. CASE ~seen
    <3>1. pc' = "putLabelBack"
      BY <2>2, <2>5 DEF Goto
    <3>2. faults' >= 1
      BY <2>2, <2>5, ReadIs, Known DEF OneMore
    <3> QED
      BY <2>1, <2>3, <3>1, <3>2, Known, NotEnded DEF IUser
  <2> QED
    BY <2>4, <2>5
<1>6. CASE PutLabelBack
  <2>1. /\ entry = Relabelled /\ order = pre.order /\ faults >= 1
        /\ pc' = "idle" /\ outcome' = "failed"
    BY <1>6 DEF PutLabelBack, RInv, IUser, End
  <2>2. PICK done \in BOOLEAN : Relabel(op.id, pre.entry[op.id].label, done)
    BY <1>6 DEF PutLabelBack
  <2>3. /\ order' = order
        /\ done => entry' = [entry EXCEPT ![op.id].label = pre.entry[op.id].label]
        /\ ~done => OneMore \/ faults' = faults + 2
    BY <1>2, <1>3, <2>2, Known, RelabelIs
  <2>4. faults' <= 1 => entry' = pre.entry /\ order' = pre.order
    <3>1. faults' <= 1 => done
      BY <2>1, <2>3, Known DEF OneMore
    <3>2. done => entry' = pre.entry
      BY <1>2, <2>1, <2>3, Known, RelabelledBack
    <3> QED
      BY <2>1, <2>3, <3>1, <3>2
  <2> QED
    BY <1>1, <1>a, <2>1, <2>4 DEF IUser, IEnd, ReportIsTrue, FailureIsUndone
<1> QED
  BY <1>4, <1>5, <1>6

-----------------------------------------------------------------------------
(* A host-default: the locals that its steps set, and how it goes on.      *)

LEMMA UseLocals ==
    ASSUME op \in Ops, NEW i \in Ids, NEW state \in States
    PROVE  LET o == [op EXCEPT !.id = i, !.state = state]
           IN  o.id = i /\ o.state = state /\ o.second = op.second /\ o.ipxe = op.ipxe
  BY DEF Ops, States

LEMMA StateLocals ==
    ASSUME op \in Ops, NEW state \in States
    PROVE  LET o == [op EXCEPT !.state = state]
           IN  o.id = op.id /\ o.state = state /\ o.second = op.second /\ o.ipxe = op.ipxe
  BY DEF Ops, States

LEMMA ReqLocals ==
    ASSUME op \in Ops, NEW s \in Orders
    PROVE  LET o == [op EXCEPT !.req = s]
           IN  o.id = op.id /\ o.state = op.state /\ o.second = op.second /\ o.ipxe = op.ipxe
  BY DEF Ops

LEMMA DoomedLocals ==
    ASSUME op \in Ops, NEW D \in SUBSET Ids
    PROVE  LET o == [op EXCEPT !.doomed = D]
           IN  o.id = op.id /\ o.state = op.state /\ o.ipxe = op.ipxe /\ o.doomed = D
  BY DEF Ops

LEMMA GoneLocals ==
    ASSUME op \in Ops, NEW i \in Ids
    PROVE  LET o == [op EXCEPT !.doomed = @ \ {i}, !.gone = @ \cup {i}]
           IN  o.id = op.id /\ o.state = op.state /\ o.ipxe = op.ipxe /\ o.doomed = op.doomed \ {i}
  BY DEF Ops

LEMMA SecondLocals ==
    ASSUME op \in Ops
    PROVE  LET o == [op EXCEPT !.second = TRUE]
           IN  o.id = op.id /\ o.state = op.state /\ o.ipxe = op.ipxe /\ o.second
  BY DEF Ops

LEMMA BeforeLocals ==
    ASSUME op \in Ops, NEW f \in Nat, NEW b \in BOOLEAN
    PROVE  LET o == [op EXCEPT !.before = f, !.blind = b]
           IN  o.id = op.id /\ o.state = op.state /\ o.before = f
  BY DEF Ops

(* What a step of a host-default knows.                                    *)
LEMMA Default ==
    ASSUME RInv, Next, pc \in DefaultSteps
    PROVE  /\ op.kind = "default" /\ op'.kind = "default"
           /\ PreExisting' = PreExisting /\ Others' = Others
           /\ Listed(pre.order)' = Listed(pre.order)
           /\ pc \in Late => op.state # "" /\ op.id \in Ids /\ NewKnown
           /\ pc \in Early => op.state = ""
           /\ Others \subseteq PreExisting /\ PreExisting \subseteq Ids
<1>1. op.kind = "default" /\ pc # "idle"
  BY DEF RInv, IInv, IKind, DefaultSteps
<1>2. op'.kind = "default"
  BY <1>1, Known, OpStep DEF SameRequest
<1>3. PreExisting' = PreExisting /\ PreExisting \subseteq Ids
  BY Known DEF PreExisting
<1>4. Others' = Others /\ Others \subseteq PreExisting /\ Listed(pre.order)' = Listed(pre.order)
  BY <1>3, Known DEF Others, Listed
<1>5. /\ pc \in Late => op.state # "" /\ op.id \in Ids /\ NewKnown
      /\ pc \in Early => op.state = ""
  BY DEF RInv, IDefault, INew
<1> QED
  BY <1>1, <1>2, <1>3, <1>4, <1>5

LEMMA KeptIsSame == OtherSame => OtherKept
  BY DEF OtherSame, OtherKept

(* What a step forward knows.                                              *)
LEMMA AtForward ==
    ASSUME RInv, pc \in Forward
    PROVE  /\ pc # "confirmPrune" => ListedBut({})
           /\ pc = "confirmPrune" => ListedBut(op.gone)
           /\ pc # "confirmWfai" => OtherKept
           /\ pc = "confirmWfai" => OtherKept \/ Doubled
           /\ Unpruned => OtherSame
           /\ pc \in FirstPass => ~op.second
           /\ op.ipxe /\ (pc \in HasWfai \ {"pruning"}
                      \/ (pc \in {"annotate", "findWfai", "createWfai"} /\ op.second)) => Recovery # {}
<1>1. IListed /\ IOther /\ IWfai
  BY DEF RInv, IDefault
<1>2. /\ pc # "confirmWfai" => OtherKept
      /\ pc = "confirmWfai" => OtherKept \/ Doubled
      /\ Unpruned => OtherSame
  BY <1>1, KeptIsSame DEF IOther
<1> QED
  BY <1>1, <1>2 DEF IListed, IWfai

(* What a step forward has to show.                                        *)
LEMMA ToEarly ==
    ASSUME pc' \in Early, ListedBut({})', OtherSame', ~op'.second, op'.state = "",
           pc' = "relabelMain" => op'.id \in Mains',
           pc' \in {"listCreated", "identify"} => Existing' \ PreExisting' \subseteq Mains',
           pc' \notin {"listCreated", "identify"} => Existing' \subseteq PreExisting'
    PROVE  IDefault' /\ IEnd'
<1>1. IEnd'
  BY NotEnded DEF Early
<1>2. IListed' /\ IOther'
  BY KeptIsSame DEF IListed, IOther, Forward, DefaultSteps, Early, Undo, Unpruned, Setup, FirstPass
<1>3. IWfai' /\ IChecked' /\ IUndone'
  BY DEF IWfai, HasWfai, IChecked, IUndone, Early, Setup
<1>4. INew'
  BY DEF INew, Late, Early
<1> QED
  BY <1>1, <1>2, <1>3, <1>4 DEF IDefault

LEMMA ToLate ==
    ASSUME pc' \in Late \ (Undo \cup {"compare"}),
           IF pc' = "confirmPrune" THEN ListedBut(op.gone)' ELSE ListedBut({})',
           IF Unpruned' THEN OtherSame' ELSE OtherKept' \/ (pc' = "confirmWfai" /\ Doubled'),
           IWfai', op'.state # "", op'.id \in Ids, NewKnown'
    PROVE  IDefault' /\ IEnd'
<1>0. pc' \in DefaultSteps /\ pc' \notin Early
  BY DEF Late
<1>1. IEnd'
  BY <1>0, NotEnded DEF DefaultSteps
<1>2. IListed' /\ IOther'
  BY <1>0 DEF IListed, IOther, Forward, Early
<1>3. IChecked' /\ IUndone'
  BY DEF IChecked, IUndone, Undo
<1>4. INew'
  BY <1>0 DEF INew, Early
<1> QED
  BY <1>1, <1>2, <1>3, <1>4 DEF IDefault

LEMMA FailDefault ==
    ASSUME RInv, Next, pc \in DefaultSteps, Fail, pc \in Late => NewKnown'
    PROVE  IDefault' /\ IEnd'
<1>1. /\ op' = op
      /\ \/ pc' = "idle" /\ outcome' = "failed" /\ op.state = ""
         \/ pc' = "undoCheck" /\ op.state # ""
  BY DEF Fail, End, Goto
<1>2. CASE pc' = "idle"
  <2>1. IDefault'
    BY <1>2, NotDefault DEF DefaultSteps
  <2> QED
    BY <1>1, <1>2, <2>1, Default DEF IEnd, ReportIsTrue, FailureIsUndone
<1>3. CASE pc' = "undoCheck"
  <2>1. pc \in Late
    BY <1>1, <1>3, Default DEF Late
  <2> QED
    BY <1>1, <1>3, <2>1, Default, NotEnded
       DEF IDefault, IListed, IOther, IWfai, INew, IChecked, IUndone, Forward, Undo, Setup,
           FirstPass, Early, HasWfai
<1> QED
  BY <1>1, <1>2, <1>3

(* A step that writes no entry.                                            *)
LEMMA EntriesKept ==
    ASSUME RInv, Next, pc \in DefaultSteps, entry' = entry
    PROVE  /\ Existing' = Existing /\ Mains' = Mains /\ Recovery' = Recovery
           /\ OtherSame => OtherSame'
           /\ OtherKept => OtherKept'
           /\ NewKnown /\ op'.state = op.state /\ op'.id = op.id => NewKnown'
<1>1. Existing' = Existing /\ Mains' = Mains /\ Recovery' = Recovery
  BY SameEntries DEF Recovery
<1>2. (OtherSame => OtherSame') /\ (OtherKept => OtherKept')
  BY Default, Known DEF OtherSame, OtherKept
<1>3. NewKnown /\ op'.state = op.state /\ op'.id = op.id => NewKnown'
  BY <1>1, Default DEF NewKnown
<1> QED
  BY <1>1, <1>2, <1>3

LEMMA OrderKept ==
    ASSUME RInv, Next, pc \in DefaultSteps, entry' = entry, order' = order, NEW CONSTANT S, ListedBut(S)
    PROVE  ListedBut(S)'
  BY SameEntries, SameOrder, Default DEF ListedBut

(* A listing that shows a stage what it wants, or not, and fails it then.  *)
LEMMA FailReading ==
    ASSUME RInv, Next, pc \in DefaultSteps, Same, Fail
    PROVE  IDefault' /\ IEnd'
<1>1. op' = op /\ entry' = entry
  BY FailSteady DEF Same, nvram
<1> QED
  BY <1>1, Default, EntriesKept, FailDefault

(* The entry that becomes the default is found, or created.                *)
LEMMA StartDefault ==
    ASSUME RInv, Next, NEW uki \in BOOLEAN, NEW labels \in BOOLEAN, NEW ipxe \in BOOLEAN,
           HostDefault(uki, labels, ipxe)
    PROVE  IUser' /\ IDefault' /\ IEnd'
<1> DEFINE o == [NoOp EXCEPT !.kind = "default", !.uki = uki, !.labels = labels, !.ipxe = ipxe]
<1>1. o.state = "" /\ ~o.second
  BY DEF NoOp
<1>2. /\ pc = "idle" /\ outcome = "none" /\ entry' = entry /\ order' = order
      /\ \/ pc' = "idle" /\ outcome' = "refused"
         \/ pc' = "reconcile" /\ op' = o
  BY DEF HostDefault, Asked, Start, Set, End, Same, nvram
<1> HIDE DEF o
<1>3. CASE pc' = "idle"
  BY <1>2, <1>3, Untouched, NotDefault DEF DefaultSteps
<1>4. CASE pc' = "reconcile"
  <2>1. entry = pre.entry /\ order = pre.order /\ pre' = pre
    BY <1>2, Known DEF RInv, IUser
  <2>2. Existing' \subseteq PreExisting' /\ OtherSame'
    BY <1>2, <2>1 DEF Existing, PreExisting, OtherSame, Others
  <2>3. ListedBut({})'
    BY <1>2, <2>1 DEF ListedBut, Listed
  <2>4. pc' \in Early /\ pc' \in DefaultSteps
    BY <1>4 DEF Early, DefaultSteps
  <2> QED
    BY <1>1, <1>2, <1>4, <2>2, <2>3, <2>4, ToEarly, NotUser
<1> QED
  BY <1>2, <1>3, <1>4

(* What the first stages know.                                             *)
LEMMA AtEarly ==
    ASSUME RInv, Next, pc \in Early
    PROVE  /\ pc \in DefaultSteps /\ pc \notin Late /\ op.state = "" /\ ~op.second
           /\ ListedBut({}) /\ OtherSame
           /\ pc = "relabelMain" => op.id \in Mains
           /\ pc \in {"reconcile", "ensure", "relabelMain", "create"} => Existing \subseteq PreExisting
           /\ pc \in {"listCreated", "identify"} => Existing \ PreExisting \subseteq Mains
<1>1. /\ pc \in DefaultSteps /\ pc \notin Late /\ pc \in Forward /\ pc \in FirstPass /\ Unpruned
      /\ pc # "confirmPrune"
  BY DEF Early, DefaultSteps, Late, Forward, Undo, FirstPass, Setup, Unpruned
<1>2. IOther /\ INew
  BY DEF RInv, IDefault
<1> QED
  BY <1>1, <1>2, AtForward, Default DEF IOther, INew

LEMMA ToSetup ==
    ASSUME RInv, Next, pc \in Early, pc' = "restoreOrder", ListedBut({})', OtherSame',
           op'.state # "", op'.id \in Ids, NewKnown', ~op'.second
    PROVE  IDefault' /\ IEnd'
<1>1. pc' \in Late \ (Undo \cup {"compare"}) /\ pc' \in FirstPass /\ pc' \notin HasWfai
  BY DEF Late, DefaultSteps, Early, Undo, FirstPass, Setup, HasWfai
<1>2. IWfai' /\ OtherKept'
  BY <1>1, KeptIsSame DEF IWfai, OtherSame, OtherKept
<1> QED
  BY <1>1, <1>2, ToLate

LEMMA ReconcileDefault == ASSUME RInv, Next, Reconcile PROVE IDefault' /\ IEnd'
<1>1. pc = "reconcile" /\ pc \in Early /\ Same /\ entry' = entry /\ order' = order
  BY DEF Reconcile, Early, Same, nvram
<1>2. CASE Fail
  BY <1>1, <1>2, AtEarly, FailReading
<1>3. CASE Goto("ensure")
  <2>1. pc' = "ensure" /\ pc' \in Early /\ op' = op
    BY <1>3 DEF Goto, Early
  <2> QED
    BY <1>1, <2>1, AtEarly, EntriesKept, OrderKept, Default, ToEarly
<1> QED
  BY <1>2, <1>3 DEF Reconcile

LEMMA EnsureDefault == ASSUME RInv, Next, Ensure PROVE IDefault' /\ IEnd'
<1>1. pc = "ensure" /\ pc \in Early /\ Same /\ entry' = entry /\ order' = order
  BY DEF Ensure, Early, Same, nvram
<1> DEFINE Use(i, state, step) == Set(step, [op EXCEPT !.id = i, !.state = state])
<1>2. \/ Fail \/ Goto("create")
      \/ \E i \in Mains : Use(i, "reused", "restoreOrder") \/ Use(i, "", "relabelMain")
  BY DEF Ensure
<1>3. CASE Fail
  BY <1>1, <1>3, AtEarly, FailReading
<1>4. CASE Goto("create")
  <2>1. pc' = "create" /\ pc' \in Early /\ op' = op
    BY <1>4 DEF Goto, Early
  <2> QED
    BY <1>1, <2>1, AtEarly, EntriesKept, OrderKept, Default, ToEarly
<1>5. CASE \E i \in Mains : Use(i, "", "relabelMain")
  <2>1. PICK i \in Mains : pc' = "relabelMain" /\ op' = [op EXCEPT !.id = i, !.state = ""]
    BY <1>5 DEF Set
  <2>2. i \in Ids /\ "" \in States /\ pc' \in Early
    BY <2>1, OnIds DEF Mains, States, Early
  <2>3. op'.id = i /\ op'.state = "" /\ op'.second = op.second
    BY <2>1, <2>2, UseLocals, Known
  <2> QED
    BY <1>1, <2>1, <2>2, <2>3, AtEarly, EntriesKept, OrderKept, Default, ToEarly
<1>6. CASE \E i \in Mains : Use(i, "reused", "restoreOrder")
  <2>1. PICK i \in Mains : pc' = "restoreOrder" /\ op' = [op EXCEPT !.id = i, !.state = "reused"]
    BY <1>6 DEF Set
  <2>2. i \in Ids /\ "reused" \in States
    BY <2>1, OnIds DEF Mains, States
  <2>3. op'.id = i /\ op'.state = "reused" /\ op'.second = op.second
    BY <2>1, <2>2, UseLocals, Known
  <2>4. NewKnown'
    BY <1>1, AtEarly, EntriesKept, Default DEF NewKnown
  <2> QED
    BY <1>1, <2>1, <2>2, <2>3, <2>4, AtEarly, EntriesKept, OrderKept, ToSetup
<1> QED
  BY <1>2, <1>3, <1>4, <1>5, <1>6

(* An entry of the host is relabelled: the other drive's stay as they are. *)
LEMMA RelabelHost ==
    ASSUME RInv, Next, pc \in DefaultSteps, NEW i \in Existing, entry[i].drive = "host",
           NEW done \in BOOLEAN, Relabel(i, "good", done)
    PROVE  /\ Existing' = Existing /\ Mains' = Mains /\ Recovery' = Recovery
           /\ OtherSame => OtherSame'
           /\ OtherKept => OtherKept'
           /\ NewKnown /\ op'.state = op.state /\ op'.id = op.id => NewKnown'
           /\ \A S \in SUBSET Ids : ListedBut(S) => ListedBut(S)'
<1>1. /\ order' = order /\ Existing' = Existing
      /\ \A j \in Ids : j # i => entry'[j] = entry[j]
      /\ \A drive, role : On(drive, role)' = On(drive, role)
  BY Known, RelabelIs DEF Labels, Texts
<1>2. Mains' = Mains /\ Recovery' = Recovery
  BY <1>1 DEF Mains, Recovery
<1>3. entry[i] # Absent /\ i \in Ids
  BY DEF Existing
<1>4. \A j \in Others : j \in Ids /\ (entry[j] \in {pre.entry[j], Absent} => j # i)
  BY <1>3, Default DEF Others
<1>5. OtherSame => OtherSame'
  BY <1>1, <1>4, Default, Known DEF OtherSame
<1>6. OtherKept => OtherKept'
  BY <1>1, <1>4, Default, Known DEF OtherKept
<1>7. NewKnown /\ op'.state = op.state /\ op'.id = op.id => NewKnown'
  BY <1>1, <1>2, Default DEF NewKnown
<1>8. \A S \in SUBSET Ids : ListedBut(S) => ListedBut(S)'
  BY <1>1, Default, SameOrder DEF ListedBut
<1> QED
  BY <1>1, <1>2, <1>5, <1>6, <1>7, <1>8

LEMMA RelabelMainDefault == ASSUME RInv, Next, RelabelMain PROVE IDefault' /\ IEnd'
<1>1. pc = "relabelMain" /\ pc \in Early
  BY DEF RelabelMain, Early
<1>2. op.id \in Existing /\ op.id \in Ids /\ entry[op.id].drive = "host"
  BY <1>1, AtEarly, OnIds DEF Mains, On
<1>3. PICK done \in BOOLEAN :
        /\ Relabel(op.id, "good", done)
        /\ IF done THEN Set("restoreOrder", [op EXCEPT !.state = "relabeled"]) ELSE Fail
  BY DEF RelabelMain
<1>4. CASE done
  <2>1. pc' = "restoreOrder" /\ op' = [op EXCEPT !.state = "relabeled"]
    BY <1>3, <1>4 DEF Set
  <2>2. op'.id = op.id /\ op'.state = "relabeled" /\ op'.second = op.second
    BY <2>1, StateLocals, Known DEF States
  <2>3. Existing' = Existing /\ OtherSame' /\ ListedBut({})'
    BY <1>1, <1>2, <1>3, AtEarly, RelabelHost
  <2>4. NewKnown'
    BY <1>1, <2>3, AtEarly, Default DEF NewKnown
  <2> QED
    BY <1>1, <1>2, <2>1, <2>2, <2>3, <2>4, AtEarly, ToSetup
<1>5. CASE ~done
  BY <1>1, <1>3, <1>5, AtEarly, FailDefault
<1> QED
  BY <1>4, <1>5

(* An entry is created: what BootOrder named and the others stay.          *)
LEMMA CreateHost ==
    ASSUME RInv, Next, pc \in DefaultSteps, NEW role \in {"main", "wfai"}, NEW i \in Ids,
           NEW done \in BOOLEAN, Create(NewEntry(role), i, done)
    PROVE  /\ \A S \in SUBSET Ids : ListedBut(S) => ListedBut(S)'
           /\ OtherSame => OtherSame'
           /\ OtherKept /\ Existing' = Existing => OtherKept'
           /\ Recovery \subseteq Recovery'
           /\ \/ Existing' = Existing
              \/ /\ i \notin Existing /\ Existing' = Existing \cup {i}
                 /\ i \in On("host", role)'
<1>1. /\ Listed(order) \subseteq Listed(order')
      /\ \A j \in Existing : entry'[j] = entry[j]
      /\ \/ /\ i \notin Existing /\ Existing' = Existing \cup {i}
            /\ entry'[i] = NewEntry(role) /\ i \in Listed(order')
         \/ Existing' = Existing /\ entry' = entry
      /\ \A drive, r : On(drive, r) \subseteq On(drive, r)'
  BY Known, CreateIs, NewIsEntry
<1>2. \A S \in SUBSET Ids : ListedBut(S) => ListedBut(S)'
  BY <1>1, Default DEF ListedBut, Listed
<1>3. OtherSame => OtherSame'
  BY <1>1, Default, Known DEF OtherSame, Others, PreExisting, Existing
<1>4. Existing' = Existing \cup {i} /\ entry'[i] = NewEntry(role) => i \in On("host", role)'
  BY NewIsEntry DEF On
<1>5. Recovery \subseteq Recovery'
  BY <1>1 DEF Recovery
<1>6. OtherKept /\ Existing' = Existing => OtherKept'
  BY <1>1, Default, Known DEF OtherKept
<1> QED
  BY <1>1, <1>2, <1>3, <1>4, <1>5, <1>6

LEMMA CreateMainDefault == ASSUME RInv, Next, CreateMain PROVE IDefault' /\ IEnd'
<1>1. pc = "create" /\ pc \in Early
  BY DEF CreateMain, Early
<1>2. PICK i \in Ids, done \in BOOLEAN :
        /\ Create(NewEntry("main"), i, done)
        /\ IF done THEN Goto("listCreated") ELSE Fail
  BY DEF CreateMain, NewEntry
<1>3. CASE done
  <2>1. pc' = "listCreated" /\ pc' \in Early /\ op' = op
    BY <1>2, <1>3 DEF Goto, Early
  <2>2. /\ ListedBut({})' /\ OtherSame'
        /\ Existing' = Existing \/ (Existing' = Existing \cup {i} /\ i \in Mains')
    BY <1>1, <1>2, AtEarly, CreateHost DEF Mains
  <2>3. Existing' \ PreExisting' \subseteq Mains'
    BY <1>1, <2>2, AtEarly, Default
  <2> QED
    BY <1>1, <2>1, <2>2, <2>3, AtEarly, ToEarly
<1>4. CASE ~done
  BY <1>1, <1>2, <1>4, AtEarly, FailDefault
<1> QED
  BY <1>3, <1>4

LEMMA ListCreatedDefault == ASSUME RInv, Next, ListCreated PROVE IDefault' /\ IEnd'
<1>1. pc = "listCreated" /\ pc \in Early /\ Same /\ entry' = entry /\ order' = order
  BY DEF ListCreated, Early, Same, nvram
<1>2. CASE Fail
  BY <1>1, <1>2, AtEarly, FailReading
<1>3. CASE Goto("identify")
  <2>1. pc' = "identify" /\ pc' \in Early /\ op' = op
    BY <1>3 DEF Goto, Early
  <2> QED
    BY <1>1, <2>1, AtEarly, EntriesKept, OrderKept, Default, ToEarly
<1> QED
  BY <1>2, <1>3 DEF ListCreated

(* If several entries may be the new one, the only new one is undone.      *)
LEMMA IdentifyDefault == ASSUME RInv, Next, Identify PROVE IDefault' /\ IEnd'
<1>1. pc = "identify" /\ pc \in Early /\ Same /\ entry' = entry /\ order' = order
  BY DEF Identify, Early, Same, nvram
<1> DEFINE new == Existing \ PreExisting
           found(i) == [op EXCEPT !.id = i, !.state = "created"]
<1>2. \/ Fail
      \/ \E i \in Mains : Mains = {i} /\ Set("restoreOrder", found(i))
      \/ Cardinality(new) = 1 /\ \E i \in new : Set("undoCheck", found(i))
  BY DEF Identify
<1>a. \A i \in Ids : found(i).id = i /\ found(i).state = "created" /\ found(i).second = op.second
  BY UseLocals, Known DEF States
<1>b. \A i \in new : i \in Ids /\ i \in Mains
  BY <1>1, AtEarly, OnIds
<1>3. CASE Fail
  BY <1>1, <1>3, AtEarly, FailReading
<1>4. CASE \E i \in Mains : Mains = {i} /\ Set("restoreOrder", found(i))
  <2>1. PICK i \in Mains : Mains = {i} /\ pc' = "restoreOrder" /\ op' = found(i)
    BY <1>4 DEF Set
  <2>2. i \in Ids
    BY OnIds DEF Mains
  <2>3. NewKnown'
    BY <1>1, <1>a, <1>b, <2>1, <2>2, AtEarly, EntriesKept, Default DEF NewKnown
  <2> QED
    BY <1>1, <1>a, <2>1, <2>2, <2>3, AtEarly, EntriesKept, OrderKept, ToSetup
<1>5. CASE Cardinality(new) = 1 /\ \E i \in new : Set("undoCheck", found(i))
  <2>1. PICK i \in new : pc' = "undoCheck" /\ op' = found(i)
    BY <1>5 DEF Set
  <2>2. \A j \in new : j = i
    <3>1. new \subseteq Ids
      BY <1>b
    <3>2. IsFiniteSet(new)
      BY <3>1, FS_Subset, EfiAssumption
    <3>3. PICK x : new = {x}
      BY <1>5, <3>2, FS_Singleton
    <3> HIDE DEF new
    <3> QED
      BY <2>1, <3>3
  <2>3. NewKnown'
    BY <1>1, <1>a, <1>b, <2>1, <2>2, AtEarly, EntriesKept, Default DEF NewKnown
  <2>4. op'.id \in Ids /\ op'.state # ""
    BY <1>a, <1>b, <2>1
  <2> QED
    BY <2>1, <2>3, <2>4, NotEnded
       DEF IDefault, IListed, IOther, IWfai, INew, IChecked, IUndone, Forward, Undo, Setup,
           FirstPass, Early, HasWfai
<1> QED
  BY <1>2, <1>3, <1>4, <1>5

-----------------------------------------------------------------------------
(* Order, labels and duplicates.                                           *)

LEMMA AtLate ==
    ASSUME RInv, Next, pc \in Late \ Undo
    PROVE  /\ pc \in DefaultSteps /\ pc \in Forward
           /\ op.state # "" /\ op.id \in Ids /\ NewKnown
           /\ pc # "confirmPrune" => ListedBut({})
           /\ pc = "confirmPrune" => ListedBut(op.gone)
           /\ pc # "confirmWfai" => OtherKept
           /\ pc = "confirmWfai" => OtherKept \/ Doubled
           /\ Unpruned => OtherSame
           /\ pc \in FirstPass => ~op.second
           /\ op.ipxe /\ (pc \in HasWfai \ {"pruning"}
                      \/ (pc \in {"annotate", "findWfai", "createWfai"} /\ op.second)) => Recovery # {}
<1>1. pc \in DefaultSteps /\ pc \in Forward /\ pc \in Late
  BY DEF Late, Forward
<1> QED
  BY <1>1, AtForward, Default

(* A step that writes no entry and keeps the locals that matter.           *)
LEMMA OrderLate ==
    ASSUME RInv, Next, pc \in Late \ Undo, entry' = entry,
           pc' \in Late \ (Undo \cup {"compare"}), op'.state = op.state, op'.id = op.id,
           IF pc' = "confirmPrune" THEN ListedBut(op.gone)' ELSE ListedBut({})',
           Unpruned' => Unpruned, IWfai', pc = "confirmWfai" => OtherKept
    PROVE  IDefault' /\ IEnd'
<1>1. OtherKept' /\ (Unpruned' => OtherSame')
  BY AtLate, EntriesKept
<1>2. op'.state # "" /\ op'.id \in Ids /\ NewKnown'
  BY AtLate, EntriesKept
<1> QED
  BY <1>1, <1>2, ToLate

LEMMA ReadLate ==
    ASSUME RInv, Next, pc \in Late \ Undo, pc # "confirmPrune", Same,
           pc' \in Late \ (Undo \cup {"compare", "confirmPrune"}), op'.state = op.state, op'.id = op.id,
           Unpruned' => Unpruned, IWfai', pc = "confirmWfai" => OtherKept
    PROVE  IDefault' /\ IEnd'
<1>1. entry' = entry /\ order' = order
  BY DEF Same, nvram
<1>2. ListedBut({})'
  BY <1>1, AtLate, OrderKept
<1> QED
  BY <1>1, <1>2, OrderLate

(* A stage that fails without having written an entry.                     *)
LEMMA FailLate ==
    ASSUME RInv, Next, pc \in Late \ Undo, entry' = entry, Fail
    PROVE  IDefault' /\ IEnd'
  BY AtLate, EntriesKept, FailSteady, FailDefault

LEMMA SetOrderLate ==
    ASSUME RInv, Next, pc \in Late \ Undo, NEW s \in Orders, NEW done \in BOOLEAN, SetOrder(s, done)
    PROVE  /\ entry' = entry /\ order' \in {order, s} /\ Existing' = Existing
           /\ Listed(order)' \in {Listed(order), Listed(s)}
           /\ Listed(pre.order)' = Listed(pre.order)
<1>1. entry' = entry /\ order' \in {order, s}
  BY Known, SetOrderIs
<1> QED
  BY <1>1, SameEntries, AtLate, Default DEF Listed

LEMMA RestoreOrderDefault == ASSUME RInv, Next, RestoreOrder PROVE IDefault' /\ IEnd'
<1>1. pc = "restoreOrder" /\ pc \in Late \ Undo /\ Unpruned
  BY DEF RestoreOrder, Late, DefaultSteps, Early, Undo, Unpruned, FirstPass, Setup
<1> DEFINE out == IF op.id \in Listed(pre.order) THEN pre.order ELSE Append(pre.order, op.id)
<1>2. \/ Same /\ Fail
      \/ \E done \in BOOLEAN : SetOrder(out, done) /\ Then("restoreNext", done)
  BY DEF RestoreOrder, Unread, Refused
<1>3. CASE Same /\ Fail
  BY <1>1, <1>3, FailLate DEF Same, nvram
<1>4. CASE \E done \in BOOLEAN : SetOrder(out, done) /\ Then("restoreNext", done)
  <2>1. out \in Orders /\ Listed(pre.order) \subseteq Listed(out)
    BY <1>1, AtLate, Known, BackOrder
  <2> HIDE DEF out
  <2>2. PICK done \in BOOLEAN : SetOrder(out, done) /\ Then("restoreNext", done)
    BY <1>4
  <2>3. entry' = entry /\ ListedBut({})'
    BY <1>1, <2>1, <2>2, SetOrderLate, AtLate DEF ListedBut
  <2>4. CASE done
    <3>1. pc' = "restoreNext" /\ op' = op
      BY <2>2, <2>4 DEF Then, Goto
    <3>2. pc' \in Late \ (Undo \cup {"compare"}) /\ IWfai'
      BY <1>1, <3>1, AtLate DEF Late, DefaultSteps, Early, Undo, IWfai, FirstPass, Setup, HasWfai
    <3> QED
      BY <1>1, <2>3, <3>1, <3>2, OrderLate
  <2>5. CASE ~done
    BY <1>1, <2>2, <2>3, <2>5, FailLate DEF Then
  <2> QED
    BY <2>4, <2>5
<1> QED
  BY <1>2, <1>3, <1>4

LEMMA RestoreNextDefault == ASSUME RInv, Next, RestoreNext PROVE IDefault' /\ IEnd'
<1>1. pc = "restoreNext" /\ pc \in Late \ Undo /\ Same /\ entry' = entry
  BY DEF RestoreNext, Late, DefaultSteps, Early, Undo, Same, nvram
<1>2. CASE Fail
  BY <1>1, <1>2, FailLate
<1>3. CASE Goto("annotate")
  <2>1. pc' = "annotate" /\ op' = op
    BY <1>3 DEF Goto
  <2>2. pc' \in Late \ (Undo \cup {"compare", "confirmPrune"}) /\ IWfai' /\ Unpruned
    BY <1>1, <2>1, AtLate
       DEF Late, DefaultSteps, Early, Undo, IWfai, FirstPass, Setup, HasWfai, Unpruned
  <2> QED
    BY <1>1, <2>1, <2>2, ReadLate
<1> QED
  BY <1>2, <1>3 DEF RestoreNext

(* The labels, then the recovery entry.                                    *)
LEMMA ToAfterAnnotate ==
    ASSUME RInv, Next, pc \in {"findWfai", "confirmWfai"}, Same, Goto(AfterAnnotate),
           pc = "confirmWfai" => OtherKept,
           op.ipxe /\ ~op.second => Recovery # {}
    PROVE  IDefault' /\ IEnd'
<1>1. pc \in Late \ Undo
  BY DEF Late, DefaultSteps, Early, Undo
<1>2. op' = op /\ pc' = IF op.second THEN "verifyLabels" ELSE "promote"
  BY DEF Goto, AfterAnnotate
<1>3. pc' \in Late \ (Undo \cup {"compare", "confirmPrune"})
  BY <1>2 DEF Late, DefaultSteps, Early, Undo
<1>4. Unpruned' => Unpruned
  BY <1>2 DEF Unpruned, BothPasses, FirstPass, Setup, Early
<1>5. Recovery' = Recovery
  BY <1>1, AtLate, EntriesKept DEF Same, nvram
<1>6. IWfai'
  BY <1>2, <1>5 DEF IWfai, HasWfai, FirstPass, Setup, Early
<1> QED
  BY <1>1, <1>2, <1>3, <1>4, <1>6, ReadLate

LEMMA AnnotateDefault == ASSUME RInv, Next, Annotate PROVE IDefault' /\ IEnd'
<1>1. pc = "annotate" /\ pc \in Late \ Undo /\ pc \in DefaultSteps
  BY DEF Annotate, Late, DefaultSteps, Early, Undo
<1>a. Unpruned <=> ~op.second
  BY <1>1 DEF Unpruned, FirstPass, Setup, Early, BothPasses
<1>2. CASE Unread
  BY <1>1, <1>2, FailLate DEF Unread, Same, nvram
<1>3. CASE \E i \in Unlabelled, done \in BOOLEAN : Relabel(i, "good", done) /\ Then("annotate", done)
  <2>1. PICK i \in Unlabelled, done \in BOOLEAN : Relabel(i, "good", done) /\ Then("annotate", done)
    BY <1>3
  <2>2. i \in Existing /\ entry[i].drive = "host"
    BY DEF Unlabelled
  <2>3. op' = op
    BY <2>1, FailSteady DEF Then, Goto
  <2>4. /\ Recovery' = Recovery /\ NewKnown' /\ ListedBut({})'
        /\ OtherKept' /\ (OtherSame => OtherSame')
    BY <1>1, <2>1, <2>2, <2>3, AtLate, RelabelHost
  <2>5. CASE done
    <3>1. pc' = "annotate"
      BY <2>1, <2>5 DEF Then, Goto
    <3>2. pc' \in Late \ (Undo \cup {"compare"}) /\ IWfai' /\ (Unpruned' <=> ~op.second)
      BY <1>1, <2>3, <2>4, <3>1, AtLate
         DEF Late, DefaultSteps, Early, Undo, IWfai, FirstPass, Setup, HasWfai, Unpruned, BothPasses
    <3> QED
      BY <1>1, <1>a, <2>3, <2>4, <3>1, <3>2, AtLate, ToLate
  <2>6. CASE ~done
    BY <1>1, <2>1, <2>4, <2>6, FailDefault DEF Then
  <2> QED
    BY <2>5, <2>6
<1>4. CASE Same /\ Goto("findWfai")
  <2>1. pc' = "findWfai" /\ op' = op /\ entry' = entry
    BY <1>4 DEF Goto, Same, nvram
  <2>2. Recovery' = Recovery
    BY <1>1, <2>1, AtLate, EntriesKept
  <2>3. pc' \in Late \ (Undo \cup {"compare", "confirmPrune"}) /\ IWfai' /\ (Unpruned' => Unpruned)
    BY <1>1, <2>1, <2>2, AtLate
       DEF Late, DefaultSteps, Early, Undo, IWfai, FirstPass, Setup, HasWfai, Unpruned, BothPasses
  <2> QED
    BY <1>1, <1>4, <2>1, <2>3, ReadLate
<1> QED
  BY <1>2, <1>3, <1>4 DEF Annotate

LEMMA FindWfaiDefault == ASSUME RInv, Next, FindWfai PROVE IDefault' /\ IEnd'
<1>1. pc = "findWfai" /\ pc \in Late \ Undo /\ Same /\ entry' = entry
  BY DEF FindWfai, Late, DefaultSteps, Early, Undo, Same, nvram
<1>2. CASE Goto("createWfai") /\ op.ipxe
  <2>1. pc' = "createWfai" /\ op' = op
    BY <1>2 DEF Goto
  <2>2. Recovery' = Recovery
    BY <1>1, AtLate, EntriesKept
  <2>3. pc' \in Late \ (Undo \cup {"compare", "confirmPrune"}) /\ IWfai' /\ (Unpruned' => Unpruned)
    BY <1>1, <1>2, <2>1, <2>2, AtLate
       DEF Late, DefaultSteps, Early, Undo, IWfai, FirstPass, Setup, HasWfai, Unpruned, BothPasses
  <2> QED
    BY <1>1, <2>1, <2>3, ReadLate
<1>3. CASE Goto(AfterAnnotate) /\ (op.ipxe => Recovery # {})
  BY <1>1, <1>3, ToAfterAnnotate
<1> QED
  BY <1>2, <1>3 DEF FindWfai, Recovery

LEMMA CreateWfaiDefault == ASSUME RInv, Next, CreateWfai PROVE IDefault' /\ IEnd'
<1>1. /\ pc = "createWfai" /\ pc \in Late \ Undo /\ pc \in DefaultSteps
      /\ Unpruned <=> ~op.second
  BY DEF CreateWfai, Late, DefaultSteps, Early, Undo, Unpruned, FirstPass, Setup, BothPasses
<1>2. PICK i \in Ids, done \in BOOLEAN :
        Create(NewEntry("wfai"), i, done) /\ Then("confirmWfai", done)
  BY DEF CreateWfai, NewEntry
<1>3. op' = op
  BY <1>2, FailSteady DEF Then, Goto
<1>4. /\ ListedBut({})' /\ (OtherSame => OtherSame') /\ Recovery \subseteq Recovery'
      /\ OtherKept /\ Existing' = Existing => OtherKept'
      /\ \/ Existing' = Existing
         \/ i \notin Existing /\ Existing' = Existing \cup {i} /\ i \in Recovery'
  BY <1>1, <1>2, AtLate, CreateHost DEF Recovery
<1>5. NewKnown'
  BY <1>1, <1>3, <1>4, AtLate, Default DEF NewKnown
<1>6. CASE done
  <2>1. pc' = "confirmWfai"
    BY <1>2, <1>6 DEF Then, Goto
  <2>2. pc' \in Late \ (Undo \cup {"compare"}) /\ IWfai' /\ (Unpruned' <=> ~op.second)
    BY <1>3, <2>1
       DEF Late, DefaultSteps, Early, Undo, IWfai, FirstPass, Setup, HasWfai, Unpruned, BothPasses
  <2>3. op.second => OtherKept' \/ Doubled'
    <3>1. op.second => Recovery # {}
      BY <1>1 DEF RInv, IDefault, IWfai
    <3>2. Recovery \subseteq Existing
      BY DEF Recovery, On
    <3> QED
      BY <1>1, <1>4, <3>1, <3>2, AtLate DEF Doubled
  <2> QED
    BY <1>1, <1>3, <1>4, <1>5, <2>1, <2>2, <2>3, AtLate, ToLate
<1>7. CASE ~done
  BY <1>1, <1>2, <1>5, <1>7, FailDefault DEF Then
<1> QED
  BY <1>6, <1>7

LEMMA ConfirmWfaiDefault == ASSUME RInv, Next, ConfirmWfai PROVE IDefault' /\ IEnd'
<1>1. pc = "confirmWfai" /\ pc \in Late \ Undo /\ Same /\ entry' = entry
  BY DEF ConfirmWfai, Late, DefaultSteps, Early, Undo, Same, nvram
<1>2. CASE Fail
  BY <1>1, <1>2, FailLate
<1>3. CASE Cardinality(Recovery) = 1 /\ Goto(AfterAnnotate)
  <2>1. Recovery # {}
    BY <1>3, FS_EmptySet
  <2>2. ~Doubled
    <3>1. IsFiniteSet(Recovery)
      BY FS_Subset, EfiAssumption DEF Recovery, On, Existing
    <3>2. PICK x : Recovery = {x}
      BY <1>3, <3>1, FS_Singleton
    <3> QED
      BY <3>2 DEF Doubled
  <2>3. OtherKept
    BY <1>1, <2>2, AtLate
  <2> QED
    BY <1>1, <1>3, <2>1, <2>3, ToAfterAnnotate
<1> QED
  BY <1>2, <1>3 DEF ConfirmWfai, Recovery

(* The entry goes first, and the others follow.                            *)
LEMMA PromoteDefault == ASSUME RInv, Next, Promote PROVE IDefault' /\ IEnd'
<1>1. pc = "promote" /\ pc \in Late \ Undo
  BY DEF Promote, Late, DefaultSteps, Early, Undo
<1>2. CASE Same /\ Fail
  BY <1>1, <1>2, FailLate DEF Same, nvram
<1>3. CASE \E s \in Orders, done \in BOOLEAN :
             /\ Promoted(s) /\ SetOrder(s, done)
             /\ IF done THEN Set("confirmPromote", [op EXCEPT !.req = s])
                        ELSE Goto(IF op.second THEN "annotate" ELSE "prune")
  <2>1. PICK s \in Orders, done \in BOOLEAN :
             /\ Promoted(s) /\ SetOrder(s, done)
             /\ IF done THEN Set("confirmPromote", [op EXCEPT !.req = s])
                        ELSE Goto(IF op.second THEN "annotate" ELSE "prune")
    BY <1>3
  <2>2. entry' = entry /\ ListedBut({})'
    BY <1>1, <2>1, SetOrderLate, AtLate DEF ListedBut, Promoted
  <2>3. /\ op'.id = op.id /\ op'.state = op.state /\ op'.second = op.second /\ op'.ipxe = op.ipxe
        /\ pc' = IF done THEN "confirmPromote" ELSE IF op.second THEN "annotate" ELSE "prune"
    <3>1. /\ op' = op \/ op' = [op EXCEPT !.req = s]
          /\ pc' = IF done THEN "confirmPromote" ELSE IF op.second THEN "annotate" ELSE "prune"
      BY <2>1 DEF Set, Goto
    <3>2. op' = [op EXCEPT !.req = s] =>
            /\ op'.id = op.id /\ op'.state = op.state
            /\ op'.second = op.second /\ op'.ipxe = op.ipxe
      BY ReqLocals, Known
    <3> QED
      BY <3>1, <3>2
  <2>4. Recovery' = Recovery
    BY <1>1, <2>2, AtLate, EntriesKept
  <2>5. pc' \in Late \ (Undo \cup {"compare", "confirmPrune"}) /\ IWfai' /\ (Unpruned' => Unpruned)
    BY <1>1, <2>3, <2>4, AtLate
       DEF Late, DefaultSteps, Early, Undo, IWfai, FirstPass, Setup, HasWfai, Unpruned, BothPasses
  <2> QED
    BY <1>1, <2>2, <2>3, <2>5, OrderLate
<1> QED
  BY <1>2, <1>3 DEF Promote, Unread, Refused

LEMMA ConfirmPromoteDefault == ASSUME RInv, Next, ConfirmPromote PROVE IDefault' /\ IEnd'
<1>1. pc = "confirmPromote" /\ pc \in Late \ Undo /\ Same /\ entry' = entry
  BY DEF ConfirmPromote, Late, DefaultSteps, Early, Undo, Same, nvram
<1>2. CASE Fail
  BY <1>1, <1>2, FailLate
<1>3. CASE Goto(IF op.second THEN "annotate" ELSE "prune")
  <2>1. op' = op /\ pc' = IF op.second THEN "annotate" ELSE "prune"
    BY <1>3 DEF Goto
  <2>2. Recovery' = Recovery
    BY <1>1, AtLate, EntriesKept
  <2>3. pc' \in Late \ (Undo \cup {"compare", "confirmPrune"}) /\ IWfai' /\ (Unpruned' => Unpruned)
    BY <1>1, <2>1, <2>2, AtLate
       DEF Late, DefaultSteps, Early, Undo, IWfai, FirstPass, Setup, HasWfai, Unpruned, BothPasses
  <2> QED
    BY <1>1, <2>1, <2>3, ReadLate
<1> QED
  BY <1>2, <1>3 DEF ConfirmPromote

(* The duplicates go, one after the other.                                 *)
LEMMA PruneDefault == ASSUME RInv, Next, Prune PROVE IDefault' /\ IEnd'
<1>1. pc = "prune" /\ pc \in Late \ Undo /\ Same /\ entry' = entry
  BY DEF Prune, Late, DefaultSteps, Early, Undo, Same, nvram
<1>a. Recovery' = Recovery /\ (op.ipxe => Recovery # {})
  BY <1>1, AtLate, EntriesKept DEF HasWfai
<1>2. CASE Fail
  BY <1>1, <1>2, FailLate
<1>3. CASE Goto("group")
  <2>1. pc' = "group" /\ op' = op
    BY <1>3 DEF Goto
  <2>2. pc' \in Late \ (Undo \cup {"compare", "confirmPrune"}) /\ IWfai' /\ ~Unpruned'
    BY <1>a, <2>1
       DEF Late, DefaultSteps, Early, Undo, IWfai, FirstPass, Setup, HasWfai, Unpruned, BothPasses
  <2> QED
    BY <1>1, <2>1, <2>2, ReadLate
<1>4. CASE \E D \in SUBSET Existing : Doomed(D) /\ Set("pruning", [op EXCEPT !.doomed = D])
  <2>1. PICK D \in SUBSET Existing : /\ Doomed(D) /\ pc' = "pruning"
                                     /\ op' = [op EXCEPT !.doomed = D]
    BY <1>4 DEF Set
  <2>2. op'.id = op.id /\ op'.state = op.state /\ op'.ipxe = op.ipxe /\ op'.doomed = D
    BY <2>1, OnIds, DoomedLocals, Known
  <2>3. Recovery # {} => Recovery \ D # {}
    BY <2>1 DEF Doomed, Recovery
  <2>4. pc' \in Late \ (Undo \cup {"compare", "confirmPrune"}) /\ IWfai' /\ ~Unpruned'
    BY <1>a, <2>1, <2>2, <2>3
       DEF Late, DefaultSteps, Early, Undo, IWfai, FirstPass, Setup, HasWfai, Unpruned, BothPasses
  <2> QED
    BY <1>1, <2>1, <2>2, <2>4, ReadLate
<1> QED
  BY <1>2, <1>3, <1>4 DEF Prune

LEMMA PruneOneDefault == ASSUME RInv, Next, PruneOne PROVE IDefault' /\ IEnd'
<1>1. pc = "pruning" /\ pc \in Late \ Undo
  BY DEF PruneOne, Late, DefaultSteps, Early, Undo
<1>2. CASE Same /\ Fail
  BY <1>1, <1>2, FailLate DEF Same, nvram
<1>3. CASE \E i \in op.doomed, done \in BOOLEAN :
             /\ Remove(i, done)
             /\ IF done THEN Set(IF op.doomed = {i} THEN "tidy" ELSE "pruning",
                                 [op EXCEPT !.doomed = @ \ {i}, !.gone = @ \cup {i}])
                        ELSE Fail
  <2>1. PICK i \in op.doomed, done \in BOOLEAN :
             /\ Remove(i, done)
             /\ IF done THEN Set(IF op.doomed = {i} THEN "tidy" ELSE "pruning",
                                 [op EXCEPT !.doomed = @ \ {i}, !.gone = @ \cup {i}])
                        ELSE Fail
    BY <1>3
  <2>2. i \in Ids
    BY Known DEF Ops
  <2>3. /\ Listed(order) \ {i} \subseteq Listed(order')
        /\ (entry' = entry /\ order' = order) \/ entry'[i] = Absent
        /\ \A j \in Ids : j # i => entry'[j] = entry[j]
        /\ Existing' \subseteq Existing
        /\ \A drive, role : On(drive, role) \ {i} \subseteq On(drive, role)'
    BY <2>1, <2>2, Known, RemoveIs
  <2>4. i \notin Existing' \/ (entry' = entry /\ order' = order)
    BY <2>3 DEF Existing
  <2>5. Recovery \ {i} \subseteq Recovery'
    BY <2>3 DEF Recovery
  <2>6. ListedBut({})'
    <3>1. Listed(pre.order) \cap Existing \subseteq Listed(order)
      BY <1>1, AtLate DEF ListedBut
    <3>2. Listed(pre.order)' = Listed(pre.order)
      BY <1>1, AtLate, Default
    <3>3. Listed(order)' = Listed(order')
      BY DEF Listed
    <3>4. order' = order => Listed(order') = Listed(order)
      OBVIOUS
    <3> QED
      BY <2>3, <2>4, <3>1, <3>2, <3>3, <3>4 DEF ListedBut
  <2>7. OtherKept'
    <3>1. \A j \in Others : j \in Ids /\ (entry'[j] = entry[j] \/ entry'[j] = Absent)
      BY <1>1, <2>2, <2>3, AtLate, Default
    <3> QED
      BY <1>1, <3>1, AtLate, Default, Known DEF OtherKept
  <2>8. op'.state = op.state /\ op'.id = op.id => NewKnown'
    <3>1. ASSUME NEW j \in Existing', j \notin PreExisting, j \in Recovery
          PROVE  j \in Recovery'
      <4>1. CASE j # i
        BY <2>5, <3>1, <4>1
      <4>2. CASE entry' = entry
        BY <3>1, <4>2, SameEntries DEF Recovery
      <4> QED
        BY <2>4, <3>1, <4>1, <4>2
    <3> QED
      BY <1>1, <2>3, <3>1, AtLate, Default DEF NewKnown
  <2>9. CASE done
    <3> DEFINE o == [op EXCEPT !.doomed = @ \ {i}, !.gone = @ \cup {i}]
    <3>1. o.id = op.id /\ o.state = op.state /\ o.ipxe = op.ipxe /\ o.doomed = op.doomed \ {i}
      BY <2>2, GoneLocals, Known
    <3>2. op' = o /\ pc' = IF op.doomed = {i} THEN "tidy" ELSE "pruning"
      BY <2>1, <2>9 DEF Set
    <3> HIDE DEF o
    <3>3. op.ipxe => Recovery \ op.doomed # {}
      BY <1>1 DEF RInv, IDefault, IWfai, HasWfai
    <3>4. pc' \in Late \ (Undo \cup {"compare"}) /\ pc' # "confirmPrune" /\ ~Unpruned'
      BY <3>2 DEF Late, DefaultSteps, Early, Undo, FirstPass, Setup, Unpruned, BothPasses
    <3>5. op.ipxe => Recovery' # {} /\ Recovery' \ (op.doomed \ {i}) # {}
      BY <2>5, <3>3
    <3>6. IWfai'
      BY <3>1, <3>2, <3>5 DEF IWfai, FirstPass, Setup, Early, HasWfai
    <3> QED
      BY <1>1, <2>6, <2>7, <2>8, <3>1, <3>2, <3>4, <3>6, AtLate, ToLate
  <2>10. CASE ~done
    BY <1>1, <2>1, <2>8, <2>10, AtLate, FailSteady, FailDefault
  <2> QED
    BY <2>9, <2>10
<1> QED
  BY <1>2, <1>3 DEF PruneOne, Refused

LEMMA TidyDefault == ASSUME RInv, Next, Tidy PROVE IDefault' /\ IEnd'
<1>1. pc = "tidy" /\ pc \in Late \ Undo
  BY DEF Tidy, Late, DefaultSteps, Early, Undo
<1> DEFINE s == Keep(order, Existing \ op.gone)
<1>2. s \in Orders /\ Listed(s) = Listed(order) \cap (Existing \ op.gone)
  BY Known, KeepIs
<1>3. \/ Same /\ Fail
      \/ Same /\ Goto("confirmPrune")
      \/ \E done \in BOOLEAN : SetOrder(s, done) /\ Then("confirmPrune", done)
  BY DEF Tidy, Unread
<1> HIDE DEF s
<1>4. ASSUME pc' = "confirmPrune", op' = op, entry' = entry, order' \in {order, s}
      PROVE  IDefault' /\ IEnd'
  <2>1. Listed(order)' \in {Listed(order), Listed(s)} /\ Listed(pre.order)' = Listed(pre.order)
    BY <1>1, <1>4, AtLate, Default DEF Listed
  <2>2. Existing' = Existing /\ Recovery' = Recovery
    BY <1>1, <1>4, AtLate, EntriesKept
  <2>3. ListedBut(op.gone)'
    BY <1>1, <1>2, <1>4, <2>1, <2>2, AtLate DEF ListedBut
  <2>4. op.ipxe => Recovery # {}
    BY <1>1, AtLate DEF HasWfai
  <2>5. pc' \in Late \ (Undo \cup {"compare"}) /\ IWfai' /\ ~Unpruned'
    BY <1>4, <2>2, <2>4
       DEF Late, DefaultSteps, Early, Undo, IWfai, FirstPass, Setup, HasWfai, Unpruned, BothPasses
  <2> QED
    BY <1>1, <1>4, <2>3, <2>5, OrderLate
<1>5. CASE Same /\ Fail
  BY <1>1, <1>5, FailLate DEF Same, nvram
<1>6. CASE Same /\ Goto("confirmPrune")
  BY <1>4, <1>6 DEF Same, nvram, Goto
<1>7. CASE \E done \in BOOLEAN : SetOrder(s, done) /\ Then("confirmPrune", done)
  <2>1. PICK done \in BOOLEAN : SetOrder(s, done) /\ Then("confirmPrune", done)
    BY <1>7
  <2>2. entry' = entry /\ order' \in {order, s}
    BY <1>1, <1>2, <2>1, SetOrderLate
  <2>3. CASE done
    BY <1>4, <2>1, <2>2, <2>3 DEF Then, Goto
  <2>4. CASE ~done
    BY <1>1, <2>1, <2>2, <2>4, FailLate DEF Then
  <2> QED
    BY <2>3, <2>4
<1> QED
  BY <1>3, <1>5, <1>6, <1>7

(* A deletion that the firmware did not keep fails the stage.              *)
LEMMA ConfirmPruneDefault == ASSUME RInv, Next, ConfirmPrune PROVE IDefault' /\ IEnd'
<1>1. pc = "confirmPrune" /\ pc \in Late \ Undo /\ entry' = entry /\ order' = order
  BY DEF ConfirmPrune, Late, DefaultSteps, Early, Undo, Same, nvram
<1>2. CASE Fail
  BY <1>1, <1>2, FailLate
<1>3. CASE op.gone \cap Existing = {} /\ Goto("group")
  <2>1. pc' = "group" /\ op' = op
    BY <1>3 DEF Goto
  <2>2. ListedBut({})
    BY <1>1, <1>3, AtLate DEF ListedBut
  <2>3. ListedBut({})'
    BY <1>1, <2>2, AtLate, OrderKept
  <2>4. Recovery' = Recovery /\ (op.ipxe => Recovery # {})
    BY <1>1, AtLate, EntriesKept DEF HasWfai
  <2>5. pc' \in Late \ (Undo \cup {"compare"}) /\ IWfai' /\ ~Unpruned'
    BY <2>1, <2>4
       DEF Late, DefaultSteps, Early, Undo, IWfai, FirstPass, Setup, HasWfai, Unpruned, BothPasses
  <2> QED
    BY <1>1, <2>1, <2>3, <2>5, OrderLate
<1> QED
  BY <1>2, <1>3 DEF ConfirmPrune

LEMMA GroupDefault == ASSUME RInv, Next, Group PROVE IDefault' /\ IEnd'
<1>1. pc = "group" /\ pc \in Late \ Undo
  BY DEF Group, Late, DefaultSteps, Early, Undo
<1> DEFINE named == IF order = <<>> THEN Existing ELSE Existing \cap Listed(order)
<1>2. \/ Same /\ Fail
      \/ Same /\ Goto("again")
      \/ \E s \in Orders, done \in BOOLEAN :
            Listed(s) = named /\ SetOrder(s, done) /\ Then("again", done)
  BY DEF Group, Unread
<1>3. Existing \cap Listed(order) \subseteq named
  OBVIOUS
<1> HIDE DEF named
<1>4. ASSUME pc' = "again", op' = op, entry' = entry, ListedBut({})'
      PROVE  IDefault' /\ IEnd'
  <2>1. Recovery' = Recovery /\ (op.ipxe => Recovery # {})
    BY <1>1, <1>4, AtLate, EntriesKept DEF HasWfai
  <2>2. pc' \in Late \ (Undo \cup {"compare"}) /\ IWfai' /\ ~Unpruned'
    BY <1>4, <2>1
       DEF Late, DefaultSteps, Early, Undo, IWfai, FirstPass, Setup, HasWfai, Unpruned, BothPasses
  <2> QED
    BY <1>1, <1>4, <2>2, OrderLate
<1>5. CASE Same /\ Fail
  BY <1>1, <1>5, FailLate DEF Same, nvram
<1>6. CASE Same /\ Goto("again")
  <2>1. ListedBut({})'
    BY <1>1, <1>6, AtLate, OrderKept DEF Same, nvram
  <2> QED
    BY <1>4, <1>6, <2>1 DEF Same, nvram, Goto
<1>7. CASE \E s \in Orders, done \in BOOLEAN :
              Listed(s) = named /\ SetOrder(s, done) /\ Then("again", done)
  <2>1. PICK s \in Orders, done \in BOOLEAN :
              Listed(s) = named /\ SetOrder(s, done) /\ Then("again", done)
    BY <1>7
  <2>2. entry' = entry
    BY <1>1, <2>1, SetOrderLate
  <2>3. ListedBut({})'
    BY <1>1, <1>3, <2>1, SetOrderLate, AtLate DEF ListedBut
  <2>4. CASE done
    BY <1>4, <2>1, <2>2, <2>3, <2>4 DEF Then, Goto
  <2>5. CASE ~done
    BY <1>1, <2>1, <2>2, <2>5, FailLate DEF Then
  <2> QED
    BY <2>4, <2>5
<1> QED
  BY <1>2, <1>5, <1>6, <1>7

LEMMA AgainDefault == ASSUME RInv, Next, Again PROVE IDefault' /\ IEnd'
<1>1. pc = "again" /\ pc \in Late \ Undo /\ Same /\ entry' = entry
  BY DEF Again, Late, DefaultSteps, Early, Undo, Same, nvram
<1>2. op' = [op EXCEPT !.second = TRUE] /\ pc' \in {"annotate", "promote"}
  BY DEF Again, Set
<1>3. op'.id = op.id /\ op'.state = op.state /\ op'.ipxe = op.ipxe /\ op'.second
  BY <1>2, SecondLocals, Known
<1>4. Recovery' = Recovery /\ (op.ipxe => Recovery # {})
  BY <1>1, AtLate, EntriesKept DEF HasWfai
<1>5. pc' \in Late \ (Undo \cup {"compare", "confirmPrune"}) /\ IWfai' /\ ~Unpruned'
  BY <1>2, <1>3, <1>4
     DEF Late, DefaultSteps, Early, Undo, IWfai, FirstPass, Setup, HasWfai, Unpruned, BothPasses
<1> QED
  BY <1>1, <1>3, <1>5, ReadLate

-----------------------------------------------------------------------------
(* The final check, and the way back.                                      *)

LEMMA VerifyLabelsDefault == ASSUME RInv, Next, VerifyLabels PROVE IDefault' /\ IEnd'
<1>1. pc = "verifyLabels" /\ pc \in Late \ Undo /\ Same /\ entry' = entry
  BY DEF VerifyLabels, Late, DefaultSteps, Early, Undo, Same, nvram
<1>2. CASE Fail
  BY <1>1, <1>2, FailLate
<1>3. CASE Goto("finalCheck")
  <2>1. pc' = "finalCheck" /\ op' = op
    BY <1>3 DEF Goto
  <2>2. pc' \in Late \ (Undo \cup {"compare", "confirmPrune"}) /\ IWfai' /\ ~Unpruned'
    BY <2>1 DEF Late, DefaultSteps, Early, Undo, IWfai, FirstPass, Setup, HasWfai, Unpruned, BothPasses
  <2> QED
    BY <1>1, <2>1, <2>2, ReadLate
<1> QED
  BY <1>2, <1>3 DEF VerifyLabels

(* An entry of the other drive that is there is the one that was.          *)
LEMMA FinalCheckDefault == ASSUME RInv, Next, FinalCheck PROVE IDefault' /\ IEnd'
<1>1. pc = "finalCheck" /\ pc \in Late \ Undo /\ pc \in Late /\ entry' = entry /\ order' = order
  BY DEF FinalCheck, Late, DefaultSteps, Early, Undo, Same, nvram
<1>2. CASE Fail
  BY <1>1, <1>2, FailLate
<1>3. CASE /\ Mains = {op.id} /\ order[1] = op.id
           /\ \A i \in PreExisting : i \in Existing \/ MayBeGone(pre.entry[i])
           /\ Goto("compare")
  <2>1. pc' = "compare" /\ op' = op
    BY <1>3 DEF Goto
  <2>2. OtherSame
    BY <1>1, <1>3, AtLate DEF OtherSame, OtherKept, Others, MayBeGone, Existing
  <2>3. OtherSame' /\ Mains' = Mains /\ NewKnown' /\ ListedBut({})'
    BY <1>1, <2>1, <2>2, AtLate, EntriesKept, OrderKept
  <2>4. IChecked'
    BY <1>1, <1>3, <2>1, <2>3 DEF IChecked
  <2>5. IListed' /\ IOther'
    BY <2>1, <2>3, KeptIsSame
       DEF IListed, IOther, OtherSame, OtherKept
  <2>6. IWfai' /\ IUndone'
    BY <2>1 DEF IWfai, IUndone, FirstPass, Setup, Early, HasWfai
  <2>7. INew'
    BY <1>1, <2>1, <2>3, AtLate DEF INew, Early
  <2> QED
    BY <2>1, <2>4, <2>5, <2>6, <2>7, NotEnded DEF IDefault
<1> QED
  BY <1>2, <1>3 DEF FinalCheck

LEMMA CompareDefault == ASSUME RInv, Next, Compare PROVE IUser' /\ IDefault' /\ IEnd'
<1>1. /\ pc = "compare" /\ pc \in Late \ Undo /\ pc \in DefaultSteps
      /\ entry' = entry /\ order' = order
      /\ pc' = "idle" /\ outcome' \in {"changed", "unchanged"} /\ op' = op
  BY DEF Compare, Late, DefaultSteps, Early, Undo, Same, nvram, End
<1>2. Mains = {op.id} /\ order[1] = op.id /\ OtherSame /\ ListedBut({})
  BY <1>1, AtLate DEF RInv, IDefault, IChecked
<1>3. /\ Mains' = {op.id} /\ order'[1] = op.id /\ OtherSame' /\ ListedBut({})'
  BY <1>1, <1>2, EntriesKept, OrderKept
<1>4. next' = pre'.next
  BY Known
<1>5. ReportIsTrue'
  BY <1>1, <1>3, <1>4, Default DEF ReportIsTrue, OtherSame, Others, ListedBut
<1> QED
  BY <1>1, <1>5, NotDefault DEF IUser, IEnd, FailureIsUndone, DefaultSteps

LEMMA ToUndo ==
    ASSUME pc' \in Undo, op'.state # "", op'.id \in Ids, NewKnown', IUndone'
    PROVE  IDefault' /\ IEnd'
<1>1. IEnd'
  BY NotEnded DEF Undo
<1>2. INew'
  BY DEF INew, Early, Undo
<1>3. IListed' /\ IOther' /\ IWfai' /\ IChecked'
  BY DEF IListed, IOther, IWfai, IChecked, Forward, Undo, FirstPass, Setup, Early, HasWfai
<1> QED
  BY <1>1, <1>2, <1>3 DEF IDefault

LEMMA UndoCheckDefault == ASSUME RInv, Next, UndoCheck PROVE IDefault' /\ IEnd'
<1>1. PICK seen \in BOOLEAN :
        /\ Reads(seen)
        /\ pc' = "undoOrder" /\ op' = [op EXCEPT !.before = faults, !.blind = ~seen]
  BY DEF UndoCheck, Set
<1>2. pc \in Late /\ pc \in DefaultSteps /\ entry' = entry
  BY DEF UndoCheck, Late, DefaultSteps, Early, Same, nvram
<1>3. op'.id = op.id /\ op'.state = op.state /\ op'.before = faults
  BY <1>1, BeforeLocals, Known
<1>4. NewKnown' /\ op'.state # "" /\ op'.id \in Ids
  BY <1>2, <1>3, Default, EntriesKept
<1>5. IUndone'
  BY <1>1, <1>3, ReadIs, Known DEF OneMore, IUndone
<1> QED
  BY <1>1, <1>4, <1>5, ToUndo DEF Undo

LEMMA UndoOrderDefault == ASSUME RInv, Next, UndoOrder PROVE IDefault' /\ IEnd'
<1>1. /\ pc = "undoOrder" /\ pc \in Late /\ pc \in DefaultSteps
      /\ pc' = "undoCreate" /\ op' = op
  BY DEF UndoOrder, Late, DefaultSteps, Early, Goto
<1>2. op.before <= faults /\ op.before \in Nat
  BY <1>1, Known DEF RInv, IDefault, IUndone, Ops
<1>3. /\ entry' = entry /\ (faults' = faults \/ OneMore)
      /\ faults' = faults /\ pre.order # <<>> /\ Listed(pre.order) \subseteq Existing =>
            order' = pre.order
  <2>1. CASE pre.order = <<>> /\ Fine /\ Same
    BY <2>1 DEF Fine, Same, nvram
  <2>2. CASE \E done \in BOOLEAN : SetOrder(pre.order, done)
    <3>1. PICK done \in BOOLEAN : SetOrder(pre.order, done)
      BY <2>2
    <3> QED
      BY <3>1, SetOrderIs, Known DEF OneMore
  <2> QED
    BY <2>1, <2>2 DEF UndoOrder
<1>4. Existing' = Existing /\ NewKnown' /\ op'.state # "" /\ op'.id \in Ids
  BY <1>1, <1>3, Default, EntriesKept
<1>5. IUndone'
  <2>1. op'.before <= faults' /\ (faults' = op'.before => faults' = faults)
    BY <1>1, <1>2, <1>3, Known DEF OneMore
  <2>2. pre' = pre /\ Listed(pre.order)' = Listed(pre.order)
    BY <1>1, Default, Known
  <2> QED
    BY <1>1, <1>3, <1>4, <2>1, <2>2 DEF IUndone
<1> QED
  BY <1>1, <1>4, <1>5, ToUndo DEF Undo

LEMMA UndoCreateDefault == ASSUME RInv, Next, UndoCreate PROVE IDefault' /\ IEnd'
<1> DEFINE Spared == ~(op.state = "created" /\ (op.blind \/ op.id \notin Protected))
<1>1. /\ pc = "undoCreate" /\ pc \in Late /\ pc \in DefaultSteps
      /\ pc' = "undoNext" /\ op' = op
  BY DEF UndoCreate, Late, DefaultSteps, Early, Goto
<1>2. /\ op.before <= faults /\ op.before \in Nat
      /\ faults = op.before /\ pre.order # <<>> /\ Listed(pre.order) \subseteq Existing =>
            order = pre.order
  BY <1>1, Known DEF RInv, IDefault, IUndone, Ops
<1>3. op.id \in Ids /\ op.state # "" /\ NewKnown
  BY <1>1, Default
<1>a. /\ pre' = pre /\ Protected' = Protected /\ PreExisting' = PreExisting
      /\ Listed(pre.order)' = Listed(pre.order)
  BY <1>1, Default, Known DEF Protected
<1>4. CASE ~Spared
  <2>1. PICK done \in BOOLEAN : Remove(op.id, done)
    BY <1>4 DEF UndoCreate
  <2>2. /\ \/ /\ faults' = faults /\ entry'[op.id] = Absent
              /\ order' \in {order, Keep(order, Ids \ {op.id})}
           \/ OneMore
        /\ Existing' \subseteq Existing
        /\ \A drive, role : On(drive, role) \ {op.id} \subseteq On(drive, role)'
    BY <1>3, <2>1, Known, RemoveIs
  <2>3. NewKnown'
    BY <1>1, <1>3, <1>4, <1>a, <2>2 DEF NewKnown, Recovery
  <2>4. op.before <= faults' /\ (faults' = op.before => ~OneMore /\ faults' = faults)
    BY <1>2, <2>2, Known DEF OneMore
  <2>5. ASSUME faults' = op.before, pre.order # <<>>, Listed(pre.order) \subseteq PreExisting,
               PreExisting \subseteq Existing'
        PROVE  order' = pre.order /\ Existing' \ PreExisting \subseteq Recovery'
    <3>1. op.id \notin Existing' /\ faults = op.before
      BY <2>2, <2>4, <2>5 DEF Existing
    <3>2. order = pre.order /\ op.id \notin Listed(pre.order)
      BY <1>2, <2>2, <2>5, <3>1
    <3>3. Listed(pre.order) \subseteq Ids \ {op.id}
      BY <1>1, <2>5, <3>2, Default
    <3>4. order' = pre.order
      BY <2>2, <2>4, <2>5, <3>2, <3>3, KeepAll, Known
    <3>5. Existing' \ PreExisting \subseteq Recovery'
      BY <1>3, <2>2, <3>1 DEF NewKnown, Recovery
    <3> QED
      BY <3>4, <3>5
  <2>6. IUndone'
    BY <1>1, <1>a, <2>4, <2>5 DEF IUndone, Undone
  <2> QED
    BY <1>1, <1>3, <2>3, <2>6, ToUndo DEF Undo
<1>5. CASE Spared
  <2>1. entry' = entry /\ order' = order /\ faults' = faults
    BY <1>5 DEF UndoCreate, Fine, Same, nvram
  <2>2. Existing' = Existing /\ Recovery' = Recovery /\ NewKnown'
    BY <1>1, <1>3, <2>1, EntriesKept
  <2>3. Existing \ PreExisting \subseteq Recovery \cup Protected
    BY <1>3, <1>5 DEF NewKnown
  <2>4. IUndone'
    BY <1>1, <1>2, <1>a, <2>1, <2>2, <2>3 DEF IUndone, Undone
  <2> QED
    BY <1>1, <1>3, <2>2, <2>4, ToUndo DEF Undo
<1> QED
  BY <1>4, <1>5

LEMMA UndoNextDefault == ASSUME RInv, Next, UndoNext PROVE IUser' /\ IDefault' /\ IEnd'
<1>1. /\ pc = "undoNext" /\ pc \in DefaultSteps /\ entry' = entry /\ order' = order
      /\ pc' = "idle" /\ outcome' = "failed" /\ op' = op
      /\ faults' = faults \/ OneMore
  BY DEF UndoNext, DefaultSteps, Same, nvram, End, Fine, Fault, OneMore
<1>2. op.before <= faults /\ op.before \in Nat /\ (faults = op.before => Undone)
  BY <1>1, Known DEF RInv, IDefault, IUndone, Ops
<1>3. faults' = op.before => faults = op.before
  BY <1>1, <1>2, Known DEF OneMore
<1>4. /\ Existing' = Existing /\ Recovery' = Recovery /\ PreExisting' = PreExisting
      /\ Listed(pre.order)' = Listed(pre.order)
  BY <1>1, EntriesKept, Default
<1>a. Protected' = Protected /\ pre' = pre /\ next' = pre.next
  BY Known DEF Protected
<1>5. FailureIsUndone'
  BY <1>1, <1>2, <1>3, <1>4, <1>a, Default DEF FailureIsUndone, Recovery, Undone
<1> QED
  BY <1>1, <1>5, NotDefault DEF IUser, IEnd, ReportIsTrue, DefaultSteps

-----------------------------------------------------------------------------
(* The theorems.                                                           *)

LEMMA InitReport == Init => RInv
<1> SUFFICES ASSUME Init PROVE RInv
  OBVIOUS
<1>1. /\ pc = "idle" /\ outcome = "none" /\ faults = 0 /\ order \in Orders
      /\ next \in Ids \cup {None} /\ current \in Existing \cup {None}
      /\ pre = [entry |-> entry, order |-> order, next |-> next]
  BY DEF Init
<1>2. IOrder
  BY <1>1, EfiAssumption DEF IOrder, Existing
<1>3. IUser
  BY <1>1 DEF IUser
<1>4. IDefault
  BY <1>1 DEF IDefault, IListed, IOther, IWfai, INew, IChecked, IUndone, Forward, Setup, FirstPass,
              Early, Late, HasWfai, DefaultSteps
<1>5. IEnd
  BY <1>1 DEF IEnd, ReportIsTrue, FailureIsUndone
<1> QED
  BY <1>2, <1>3, <1>4, <1>5, InitInv DEF RInv

LEMMA StillReport == RInv /\ UNCHANGED vars => RInv'
<1> SUFFICES ASSUME RInv, UNCHANGED vars PROVE RInv'
  OBVIOUS
<1>1. IInv'
  BY StepInv DEF RInv
<1>2. Existing' = Existing /\ Mains' = Mains /\ \A drive, role : On(drive, role)' = On(drive, role)
  BY SameEntries DEF vars
<1>3. /\ PreExisting' = PreExisting /\ Others' = Others /\ Recovery' = Recovery
      /\ Protected' = Protected
      /\ Listed(order)' = Listed(order) /\ Listed(pre.order)' = Listed(pre.order)
  BY <1>2 DEF vars, PreExisting, Others, Listed, Recovery, Protected
<1>4. IOrder' /\ IUser'
  BY <1>2, <1>3 DEF vars, RInv, IOrder, IUser, Relabelled
<1>5. IListed' /\ IOther' /\ IWfai'
  BY <1>2, <1>3 DEF vars, RInv, IDefault, IListed, ListedBut, IOther, OtherSame, OtherKept,
                    Unpruned, IWfai, Doubled
<1>6. INew' /\ IChecked' /\ IUndone'
  BY <1>2, <1>3 DEF vars, RInv, IDefault, INew, NewKnown, IChecked, OtherSame, IUndone, Undone
<1>7. IEnd'
  BY <1>2, <1>3 DEF vars, RInv, IEnd, ReportIsTrue, FailureIsUndone
<1> QED
  BY <1>1, <1>4, <1>5, <1>6, <1>7 DEF RInv, IDefault

LEMMA UserStep ==
    ASSUME RInv, Next,
           \/ \E s \in Orders \ {<<>>} : Reorder(s)
           \/ \E scope \in Scopes, i \in Ids :
                 Delete(scope, i) \/ \E label \in Texts : Rename(scope, i, label)
           \/ WriteOrder \/ ConfirmOrder \/ PutOrderBack
           \/ RemoveEntry \/ ConfirmRemoved \/ Recreate \/ TidyOrder \/ ConfirmTidied
           \/ WriteLabel \/ ConfirmLabel \/ PutLabelBack
    PROVE  IUser' /\ IDefault' /\ IEnd'
<1>1. pc' \notin DefaultSteps
  <2> USE DEF DefaultSteps
  <2>1. CASE \E s \in Orders \ {<<>>} : Reorder(s)
    BY <2>1, ReorderStep
  <2>2. CASE \E scope \in Scopes, i \in Ids : Delete(scope, i)
    BY <2>2, DeleteStep
  <2>3. CASE \E scope \in Scopes, i \in Ids, label \in Texts : Rename(scope, i, label)
    BY <2>3, RenameStep
  <2>4. CASE WriteOrder \/ ConfirmOrder \/ PutOrderBack
    BY <2>4 DEF WriteOrder, ConfirmOrder, PutOrderBack, Goto, End
  <2>5. CASE RemoveEntry \/ ConfirmRemoved \/ Recreate \/ TidyOrder \/ ConfirmTidied
    BY <2>5 DEF RemoveEntry, ConfirmRemoved, Recreate, TidyOrder, ConfirmTidied, Goto, End, EndBlind
  <2>6. CASE WriteLabel \/ ConfirmLabel \/ PutLabelBack
    BY <2>6 DEF WriteLabel, ConfirmLabel, PutLabelBack, Goto, End
  <2> QED
    BY <2>1, <2>2, <2>3, <2>4, <2>5, <2>6
<1> QED
  BY <1>1, NotDefault, StartUser, WriteOrderUser, ConfirmOrderUser, PutOrderBackUser,
     DeleteUser, LabelUser

LEMMA DefaultStep ==
    ASSUME RInv, Next, pc \in DefaultSteps, IDefault' /\ IEnd'
    PROVE  IUser' /\ IDefault' /\ IEnd'
<1>1. IKind' /\ op'.kind = "default"
  BY Default, KindStep, Known DEF RInv, IInv
<1>2. ~(pc' = "idle" /\ outcome' = "none")
  BY NotNone DEF vars, DefaultSteps
<1>3. pc' \in {"idle"} \cup DefaultSteps
  BY <1>1 DEF IKind
<1> QED
  BY <1>2, <1>3 DEF IUser, DefaultSteps

LEMMA ReportStep == RInv /\ [Next]_vars => RInv'
<1> SUFFICES ASSUME RInv, [Next]_vars PROVE RInv'
  OBVIOUS
<1>1. CASE UNCHANGED vars
  BY <1>1, StillReport
<1>2. CASE Next
  <2>1. IInv' /\ IOrder'
    BY StepInv, OrderStep DEF RInv, IDefault
  <2>2. CASE \/ \E s \in Orders \ {<<>>} : Reorder(s)
             \/ \E scope \in Scopes, i \in Ids :
                   Delete(scope, i) \/ \E label \in Texts : Rename(scope, i, label)
             \/ WriteOrder \/ ConfirmOrder \/ PutOrderBack
             \/ RemoveEntry \/ ConfirmRemoved \/ Recreate \/ TidyOrder \/ ConfirmTidied
             \/ WriteLabel \/ ConfirmLabel \/ PutLabelBack
    BY <1>2, <2>1, <2>2, UserStep DEF RInv
  <2>3. CASE \E uki, labels, ipxe \in BOOLEAN : HostDefault(uki, labels, ipxe)
    BY <1>2, <2>1, <2>3, StartDefault DEF RInv
  <2>4. CASE Compare \/ UndoNext
    BY <1>2, <2>1, <2>4, CompareDefault, UndoNextDefault DEF RInv
  <2>5. CASE \/ Reconcile \/ Ensure \/ RelabelMain \/ CreateMain \/ ListCreated \/ Identify
             \/ RestoreOrder \/ RestoreNext \/ Annotate \/ FindWfai \/ CreateWfai \/ ConfirmWfai
             \/ Promote \/ ConfirmPromote \/ Prune \/ PruneOne \/ Tidy \/ ConfirmPrune
             \/ Group \/ Again \/ VerifyLabels \/ FinalCheck
             \/ UndoCheck \/ UndoOrder \/ UndoCreate
    <3>1. pc \in DefaultSteps
      BY <2>5 DEF Reconcile, Ensure, RelabelMain, CreateMain, ListCreated, Identify, RestoreOrder,
                  RestoreNext, Annotate, FindWfai, CreateWfai, ConfirmWfai, Promote,
                  ConfirmPromote, Prune, PruneOne, Tidy, ConfirmPrune, Group, Again,
                  VerifyLabels, FinalCheck, UndoCheck, UndoOrder, UndoCreate, DefaultSteps
    <3>2. IDefault' /\ IEnd'
      BY <1>2, <2>5, ReconcileDefault, EnsureDefault, RelabelMainDefault, CreateMainDefault,
         ListCreatedDefault, IdentifyDefault, RestoreOrderDefault, RestoreNextDefault,
         AnnotateDefault, FindWfaiDefault, CreateWfaiDefault, ConfirmWfaiDefault, PromoteDefault, ConfirmPromoteDefault, PruneDefault,
         PruneOneDefault, TidyDefault, ConfirmPruneDefault, GroupDefault, AgainDefault,
         VerifyLabelsDefault, FinalCheckDefault, UndoCheckDefault, UndoOrderDefault,
         UndoCreateDefault
    <3> QED
      BY <1>2, <2>1, <3>1, <3>2, DefaultStep DEF RInv
  <2> QED
    BY <1>2, <2>2, <2>3, <2>4, <2>5 DEF Next
<1> QED
  BY <1>1, <1>2

(* What each step of each operation knows, in every behaviour.             *)
THEOREM ReportInvariant == Spec => []RInv
  BY InitReport, ReportStep, PTL DEF Spec

(* Every variable keeps its type, and no more calls go wrong than may.     *)
THEOREM EfiTypes == Spec => []TypeOK
<1>1. ASSUME RInv PROVE TypeOK
  <2>1. /\ entry \in [Ids -> Entries \cup {Absent}] /\ op \in Ops
        /\ faults \in Nat /\ faults <= MaxFaults
        /\ order \in Orders /\ next \in Ids \cup {None} /\ current \in Ids \cup {None}
    BY <1>1 DEF RInv, IOrder, IInv, IType, Tables
  <2>2. op.id \in Ids \cup {None} /\ op.doomed \subseteq Ids /\ op.gone \subseteq Ids
    BY <2>1 DEF Ops
  <2>3. faults \in 0..MaxFaults
    BY <2>1, EfiAssumption
  <2> QED
    BY <2>1, <2>2, <2>3 DEF TypeOK
<1> QED
  BY <1>1, ReportInvariant, PTL

(* An operation that reports a change has made it, whatever calls went     *)
(* wrong: the requested order or label is what the firmware has, a deleted *)
(* entry is gone, and a host-default has put the host's one main entry     *)
(* first without touching another drive's entries or losing what BootOrder *)
(* named.                                                                  *)
THEOREM ReportHolds == Spec => []ReportIsTrue
<1>1. RInv => ReportIsTrue
  BY DEF RInv, IEnd
<1> QED
  BY <1>1, ReportInvariant, PTL

(* An operation that reports a failure has left the firmware as it was, as *)
(* far as a single fault, or the rollback of a host-default, allows.       *)
THEOREM FailureHolds == Spec => []FailureIsUndone
<1>1. RInv => FailureIsUndone
  BY DEF RInv, IEnd
<1> QED
  BY <1>1, ReportInvariant, PTL
=============================================================================
