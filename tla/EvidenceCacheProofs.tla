------------------------- MODULE EvidenceCacheProofs ------------------------
(***************************************************************************)
(* Proofs about EvidenceCache: the types, that no repair is offered on the *)
(* evidence of another system or started on evidence that a change has     *)
(* overtaken, and that one success invalidates once.                       *)
(*                                                                         *)
(* The inductive invariant says of every text in a register whose it is    *)
(* (IOwn), what a diagnostic that is under way may still write (IRun), and *)
(* who is going to invalidate a text that is outdated (IDated).            *)
(***************************************************************************)
EXTENDS EvidenceCache, TLAPS

Sides == {"target", "host"}

\* The host's texts are from the host; the target's are from the committed
\* drive, or the register asks for a regeneration.
Own(rg, d) ==
    /\ \A k \in Keys : rg.host.body[k] # None => rg.host.body[k].from = "host"
    /\ ~rg.target.need =>
           \A k \in Keys : rg.target.body[k] # None => rg.target.body[k].from = d

Dated(rg, R, k) == rg[R].body[k] # None /\ rg[R].body[k].age = "outdated"

\* Who is going to invalidate the text k of register R.
Covers(keys, k) == k \in keys \/ "report" \in keys
Owed(rn, pp, sc, R, k) ==
    \/ rn.kind \in Mutators /\ rn.changed /\ R = Register(rn.host) /\ Covers(rn.keys, k)
    \/ pp.hook = "pending" /\ R = Live(sc) /\ Covers(pp.keys, k)

DatedIsOwed(rg, rn, pp, sc) ==
    \A R \in Sides, k \in Keys : Dated(rg, R, k) =>
        k \in Sections /\ rg[R].body[k].is = "good" /\ Owed(rn, pp, sc, R, k)

IOwn == Own(reg, scope.drive)
IRun ==
    run.kind \in Diagnostics =>
        run.host \/ (run.drive \in Drives /\ (run.drive = scope.drive \/ reg.target.need))
IDated == DatedIsOwed(reg, run, popup, scope)
IPlace ==
    /\ run.kind = "repair" => scope.host = run.host
    /\ run.kind \in Mutators => popup.hook # "pending"
IHandled == popup.hook = "ran" => handled /\ popup.shown # "none"

IInv == TypeOK /\ IOwn /\ IRun /\ IDated /\ IPlace /\ IHandled

-----------------------------------------------------------------------------
(* What the operations on registers do, whoever calls them.                *)

\* Texts may go, and the need of a regeneration stays.
Clears(rg, new) ==
    /\ \A R \in Sides, k \in Keys : new[R].body[k] = None \/ new[R].body[k] = rg[R].body[k]
    /\ rg.target.need => new.target.need

\* Texts may go, or come to register R from the system src.
Writes(rg, new, R, src) ==
    /\ \A Q \in Sides, k \in Keys :
          \/ new[Q].body[k] = None
          \/ new[Q].body[k] = rg[Q].body[k]
          \/ Q = R /\ new[Q].body[k].from = src /\ new[Q].body[k].age = "current"
    /\ rg.target.need => new.target.need

LEMMA ClearHostClears ==
  ASSUME NEW d, NEW rg \in Registers(d)
  PROVE  ClearHost(rg) \in Registers(d) /\ Clears(rg, ClearHost(rg))
BY DEF Registers, Bodies, ClearHost, Clears, NoBody, Sides

LEMMA ClearTargetClears ==
  ASSUME NEW d, NEW rg \in Registers(d), NEW sc \in Scopes
  PROVE  ClearTarget(rg, sc) \in Registers(sc.drive) /\ Clears(rg, ClearTarget(rg, sc))
BY DEF Registers, Bodies, Scopes, ClearTarget, CurrentIdentity, Clears, NoBody, Sides

LEMMA InvalidateTargetClears ==
  ASSUME NEW d, NEW rg \in Registers(d), NEW sc \in Scopes
  PROVE  /\ InvalidateTarget(rg, sc) \in Registers(sc.drive)
         /\ Clears(rg, InvalidateTarget(rg, sc))
         /\ InvalidateTarget(rg, sc).target.need
         /\ \A k \in Keys : InvalidateTarget(rg, sc).target.body[k] = None
BY ClearTargetClears
   DEF InvalidateTarget, Registers, Bodies, Scopes, ClearTarget, CurrentIdentity, Clears,
       NoBody, Sides

LEMMA InvalidateActiveClears ==
  ASSUME NEW sc \in Scopes, NEW rg \in Registers(sc.drive)
  PROVE  /\ InvalidateActive(rg, sc) \in Registers(sc.drive)
         /\ Clears(rg, InvalidateActive(rg, sc))
         /\ \A k \in Keys : InvalidateActive(rg, sc)[Live(sc)].body[k] = None
<1>1. CASE sc.host
  <2>1. InvalidateActive(rg, sc) = ClearHost(rg) /\ Live(sc) = "host"
    BY <1>1 DEF InvalidateActive, Live, Register
  <2>2. \A k \in Keys : ClearHost(rg)["host"].body[k] = None
    BY DEF ClearHost, NoBody, Registers
  <2>3. QED  BY <2>1, <2>2, ClearHostClears
<1>2. CASE ~sc.host
  BY <1>2, InvalidateTargetClears DEF InvalidateActive, Live, Register
<1>3. QED  BY <1>1, <1>2

LEMMA MarkStaleClears ==
  ASSUME NEW d, NEW rg \in Registers(d), NEW R \in Sides, NEW S \in SUBSET Keys
  PROVE  /\ MarkStale(rg, R, S) \in Registers(d)
         /\ Clears(rg, MarkStale(rg, R, S))
         /\ \A k \in Keys : k \in S \ {"report"} => MarkStale(rg, R, S)[R].body[k] = None
BY DEF MarkStale, Registers, Bodies, Clears, Sides

LEMMA InvalidateClears ==
  ASSUME NEW sc \in Scopes, NEW rg \in Registers(sc.drive), NEW S \in SUBSET Keys
  PROVE  /\ Invalidate(rg, sc, S) \in Registers(sc.drive)
         /\ Clears(rg, Invalidate(rg, sc, S))
         /\ \A k \in Sections : Covers(S, k) => Invalidate(rg, sc, S)[Live(sc)].body[k] = None
<1>1. Live(sc) \in Sides  BY DEF Live, Register, Sides
<1>2. CASE "report" \in S
  BY <1>2, InvalidateActiveClears DEF Invalidate, Keys
<1>3. CASE "report" \notin S
  BY <1>1, <1>3, MarkStaleClears DEF Invalidate, Keys, Covers
<1>4. QED  BY <1>2, <1>3

LEMMA RevertClears ==
  ASSUME NEW d, NEW rg \in Registers(d), NEW R \in Sides, NEW S
  PROVE  Revert(rg, R, S) \in Registers(d) /\ Clears(rg, Revert(rg, R, S))
BY DEF Revert, Registers, Bodies, Clears, Sides

LEMMA ClearsTransitive ==
  ASSUME NEW r1, NEW r2, NEW r3, Clears(r1, r2), Clears(r2, r3)
  PROVE  Clears(r1, r3)
BY DEF Clears

LEMMA ClearsWrites ==
  ASSUME NEW r1, NEW r2, NEW R, NEW src, Clears(r1, r2)
  PROVE  Writes(r1, r2, R, src)
BY DEF Clears, Writes

LEMMA WritesThenClears ==
  ASSUME NEW r1, NEW r2, NEW r3, NEW R, NEW src, Writes(r1, r2, R, src), Clears(r2, r3)
  PROVE  Writes(r1, r3, R, src)
BY DEF Clears, Writes

LEMMA ClearsThenWrites ==
  ASSUME NEW r1, NEW r2, NEW r3, NEW R, NEW src, Clears(r1, r2), Writes(r2, r3, R, src)
  PROVE  Writes(r1, r3, R, src)
BY DEF Clears, Writes

-----------------------------------------------------------------------------
(* Texts that a diagnostic brings.                                         *)

Sources == Drives \cup {"host"}

LEMMA TextIsText ==
  ASSUME NEW src \in Sources, NEW is \in {"good", "bad"}
  PROVE  Text(src, is) \in Texts /\ Text(src, is).from = src /\ Text(src, is).age = "current"
BY DEF Text, Texts, Sources

LEMMA BadTextIsText ==
  ASSUME NEW t \in Texts
  PROVE  /\ [t EXCEPT !.is = "bad"] \in Texts /\ [t EXCEPT !.is = "bad"].from = t.from
         /\ [t EXCEPT !.is = "bad"].age = t.age
BY DEF Texts

LEMMA ShowFailureWrites ==
  ASSUME NEW d, NEW rg \in Registers(d), NEW R \in Sides, NEW src \in Sources,
         NEW is \in {"good", "bad"}
  PROVE  /\ ShowFailure(rg, R, Text(src, is)) \in Registers(d)
         /\ Writes(rg, ShowFailure(rg, R, Text(src, is)), R, src)
<1> DEFINE t == Text(src, is)
<1> DEFINE b == [k \in Keys |-> CASE k = "capabilities" -> rg[R].body[k]
                                  [] k = "report" -> t [] OTHER -> [t EXCEPT !.is = "bad"]]
<1> DEFINE shown == [rg EXCEPT ![R].body = b]
<1>0. t \in Texts /\ t.from = src /\ t.age = "current"
  BY TextIsText
<1>1. t \in Texts /\ t.from = src /\ t.age = "current" /\ [t EXCEPT !.is = "bad"] \in Texts
      /\ [t EXCEPT !.is = "bad"].from = src /\ [t EXCEPT !.is = "bad"].age = "current"
  BY <1>0, BadTextIsText
<1>2. b \in Bodies /\ \A k \in Keys : b[k] = rg[R].body[k] \/ (b[k].from = src /\ b[k].age = "current")
  BY <1>1 DEF Bodies, Registers, Sides
<1> HIDE DEF b, t
<1>3. shown \in Registers(d) /\ Writes(rg, shown, R, src)
  BY <1>2 DEF Registers, Sides, Writes
<1>4. ShowFailure(rg, R, t) =
        IF R = "host" THEN [shown EXCEPT !.host.stale = Sections \cup {"report"}] ELSE shown
  BY DEF ShowFailure, b
<1> HIDE DEF shown
<1>5. /\ [shown EXCEPT !.host.stale = Sections \cup {"report"}] \in Registers(d)
      /\ Writes(rg, [shown EXCEPT !.host.stale = Sections \cup {"report"}], R, src)
  BY <1>3 DEF Registers, Sides, Writes
<1>6. QED  BY <1>3, <1>4, <1>5 DEF t

Slice(K) == [K -> {"good", "bad", "none"}]

LEMMA SlicesAreSlices ==
  ASSUME NEW K, NEW outcome, NEW f \in Slices(K, outcome)
  PROVE  f \in Slice(K)
<1>1. CASE outcome = "whole"
  BY <1>1 DEF Slices, Slice
<1>2. CASE outcome \in {"cut", "failed"}
  BY <1>2 DEF Slices, Slice
<1>3. CASE outcome \notin {"whole", "cut", "failed"}
  BY <1>3 DEF Slices, Slice
<1>4. QED  BY <1>1, <1>2, <1>3

LEMMA BundleWrites ==
  ASSUME TypeOK, NEW R \in Sides, NEW outcome, NEW f \in Slice(Sections), Subject(run) \in Sources
  PROVE  /\ Bundle(reg, R, outcome, f) \in Registers(scope.drive)
         /\ Writes(reg, Bundle(reg, R, outcome, f), R, Subject(run))
         /\ \A k \in Keys : LET t == Bundle(reg, R, outcome, f)[R].body[k]
                            IN  t = None \/ t.from = Subject(run)
<1> DEFINE src == Subject(run)
<1> DEFINE text(is) == Text(src, is)
<1> DEFINE cleared == IF R = "host" THEN ClearHost(reg) ELSE ClearTarget(reg, scope)
<1> DEFINE b == [k \in Keys |->
              CASE k \in Sections -> IF f[k] = "none" THEN None ELSE text(f[k])
                [] k = "report" -> IF outcome = "empty" THEN None ELSE text(Quality(outcome))
                [] k = "capabilities" ->
                     IF outcome \in {"error", "empty"} THEN None ELSE text("good")]
<1>1. cleared \in Registers(scope.drive) /\ Clears(reg, cleared)
  BY ClearHostClears, ClearTargetClears DEF TypeOK
<1>2. \A is \in {"good", "bad"} : text(is) \in Texts /\ text(is).from = src /\ text(is).age = "current"
  BY TextIsText
<1>3. Quality(outcome) \in {"good", "bad"}
  BY DEF Quality
<1> HIDE DEF text
<1>4. \A k \in Keys : b[k] = None \/ (b[k] \in Texts /\ b[k].from = src /\ b[k].age = "current")
  BY <1>2, <1>3, EvidenceAssumption DEF Keys, Slice
<1> HIDE DEF b, src, cleared
<1>5. b \in Bodies
  BY <1>4 DEF Bodies, b
<1>6. Bundle(reg, R, outcome, f) = [cleared EXCEPT ![R].body = b]
  BY DEF Bundle, b, text, src, cleared
<1>7. /\ [cleared EXCEPT ![R].body = b] \in Registers(scope.drive)
      /\ Writes(cleared, [cleared EXCEPT ![R].body = b], R, src)
      /\ [cleared EXCEPT ![R].body = b][R].body = b
  BY <1>1, <1>4, <1>5 DEF Registers, Sides, Writes
<1>8. QED  BY <1>1, <1>4, <1>6, <1>7, ClearsThenWrites DEF src

LEMMA CacheSectionsWrites ==
  ASSUME NEW d, NEW rg \in Registers(d), NEW R \in Sides, NEW K \in SUBSET Keys,
         NEW f \in Slice(K), Subject(run) \in Sources
  PROVE  /\ CacheSections(rg, R, f) \in Registers(d)
         /\ Writes(rg, CacheSections(rg, R, f), R, Subject(run))
<1> DEFINE src == Subject(run)
<1> DEFINE fresh == {k \in DOMAIN f : f[k] # "none"}
<1> DEFINE b == [k \in Keys |-> CASE k \in fresh -> Text(src, f[k])
                                  [] k = "capabilities" -> Text(src, "good")
                                  [] OTHER -> rg[R].body[k]]
<1>1. \A is \in {"good", "bad"} :
        Text(src, is) \in Texts /\ Text(src, is).from = src /\ Text(src, is).age = "current"
  BY TextIsText
<1>2. \A k \in fresh : f[k] \in {"good", "bad"}
  BY DEF Slice
<1>3. \A k \in Keys : \/ b[k] = rg[R].body[k]
                      \/ b[k] \in Texts /\ b[k].from = src /\ b[k].age = "current"
  BY <1>1, <1>2
<1>4. rg[R].body \in Bodies
  BY DEF Registers, Sides
<1> HIDE DEF b, fresh, src
<1>5. b \in Bodies
  BY <1>3, <1>4 DEF Bodies, b
<1>6. CacheSections(rg, R, f) = [rg EXCEPT ![R].body = b, ![R].stale = @ \ fresh]
  BY DEF CacheSections, Registers, Sides, b, fresh, src
<1> DEFINE new == [rg EXCEPT ![R].body = b, ![R].stale = @ \ fresh]
<1>7. /\ new \in Registers(d) /\ new.target.need = rg.target.need
      /\ new[R].body = b /\ \A Q \in Sides : Q # R => new[Q].body = rg[Q].body
  BY <1>5 DEF Registers, Sides
<1> HIDE DEF new
<1>8. Writes(rg, new, R, src)
  BY <1>3, <1>7 DEF Writes
<1>9. QED  BY <1>6, <1>7, <1>8 DEF src, new

LEMMA OneTextWrites ==
  ASSUME NEW d, NEW rg \in Registers(d), NEW R \in Sides, NEW k \in Keys, NEW src \in Sources,
         NEW is \in {"good", "bad"}
  PROVE  /\ [rg EXCEPT ![R].body[k] = Text(src, is)] \in Registers(d)
         /\ Writes(rg, [rg EXCEPT ![R].body[k] = Text(src, is)], R, src)
<1> DEFINE t == Text(src, is)
<1> DEFINE b == [rg[R].body EXCEPT ![k] = t]
<1> DEFINE new == [rg EXCEPT ![R].body[k] = t]
<1>1. t \in Texts /\ t.from = src /\ t.age = "current"
  BY TextIsText
<1> HIDE DEF t
<1>2. b \in Bodies /\ \A j \in Keys : b[j] = IF j = k THEN t ELSE rg[R].body[j]
  BY <1>1 DEF Registers, Sides, Bodies
<1>3. new = [rg EXCEPT ![R].body = b]
  BY DEF Registers, Sides
<1> HIDE DEF new, b
<1>4. /\ new \in Registers(d) /\ new.target.need = rg.target.need
      /\ new[R].body = b /\ \A Q \in Sides : Q # R => new[Q].body = rg[Q].body
  BY <1>2, <1>3 DEF Registers, Sides
<1>5. Writes(rg, new, R, src)
  BY <1>1, <1>2, <1>4 DEF Writes
<1>6. QED  BY <1>4, <1>5 DEF new, t

LEMMA AgedKeeps ==
  ASSUME NEW d, NEW rg \in Registers(d), NEW R \in Sides, NEW S \in SUBSET Keys,
         NEW was \in {"current", "outdated"}, NEW now \in {"outdated", "missed"}
  PROVE  /\ Aged(rg, R, S, was, now) \in Registers(d)
         /\ Aged(rg, R, S, was, now).target.need = rg.target.need
         /\ \A Q \in Sides, k \in Keys :
              LET old == rg[Q].body[k] new == Aged(rg, R, S, was, now)[Q].body[k]
              IN  \/ new = old /\ ~(Q = R /\ k \in S \cap Sections /\ old # None
                                    /\ old.is = "good" /\ old.age = was)
                  \/ /\ Q = R /\ k \in S \cap Sections /\ old # None /\ old.is = "good" /\ old.age = was
                     /\ new # None /\ new.is = "good" /\ new.age = now /\ new.from = old.from
<1> DEFINE b == [k \in Keys |->
        IF k \in S \cap Sections /\ rg[R].body[k] # None /\ rg[R].body[k].is = "good"
           /\ rg[R].body[k].age = was
        THEN [rg[R].body[k] EXCEPT !.age = now] ELSE rg[R].body[k]]
<1>1. rg[R].body \in Bodies
  BY DEF Registers, Sides
<1>2. \A x \in Texts : [x EXCEPT !.age = now] \in Texts /\ [x EXCEPT !.age = now].age = now
                       /\ [x EXCEPT !.age = now].is = x.is /\ [x EXCEPT !.age = now].from = x.from
  BY DEF Texts
<1>3. \A k \in Keys : rg[R].body[k] # None => rg[R].body[k] \in Texts
  BY <1>1 DEF Bodies
<1>4. \A k \in Keys :
        \/ b[k] = rg[R].body[k] /\ ~(k \in S \cap Sections /\ rg[R].body[k] # None
                                     /\ rg[R].body[k].is = "good" /\ rg[R].body[k].age = was)
        \/ /\ k \in S \cap Sections /\ rg[R].body[k] # None /\ rg[R].body[k].is = "good"
           /\ rg[R].body[k].age = was
           /\ b[k] \in Texts /\ b[k].is = "good" /\ b[k].age = now
           /\ b[k].from = rg[R].body[k].from
  BY <1>2, <1>3
<1> HIDE DEF b
<1>5. b \in Bodies
  BY <1>1, <1>4 DEF Bodies, b
<1>6. \A k \in Keys : b[k] \in Texts => b[k] # None
  BY EvidenceAssumption
<1>7. Aged(rg, R, S, was, now) = [rg EXCEPT ![R].body = b]
  BY DEF Aged, Registers, Sides, b
<1>8. /\ [rg EXCEPT ![R].body = b] \in Registers(d)
      /\ [rg EXCEPT ![R].body = b].target.need = rg.target.need
      /\ [rg EXCEPT ![R].body = b][R].body = b
      /\ \A Q \in Sides : Q # R => [rg EXCEPT ![R].body = b][Q].body = rg[Q].body
  BY <1>5 DEF Registers, Sides
<1>9. QED  BY <1>4, <1>6, <1>7, <1>8

-----------------------------------------------------------------------------
(* What a step does to the parts of the invariant.                         *)

\* May a text from src be written to register R?
Allowed(R, src) ==
    \/ R = "host" /\ src = "host"
    \/ R = "target" /\ (src = scope.drive \/ reg.target.need)

LEMMA NothingWritten ==
  ASSUME NEW rg
  PROVE  Clears(rg, rg)
BY DEF Clears

LEMMA OwnClears ==
  ASSUME NEW d, NEW rg, NEW new, Own(rg, d), Clears(rg, new)
  PROVE  Own(new, d)
BY DEF Own, Clears, Sides

LEMMA OwnWrites ==
  ASSUME NEW new, NEW R \in Sides, NEW src, Own(reg, scope.drive), Writes(reg, new, R, src),
         Allowed(R, src)
  PROVE  Own(new, scope.drive)
BY DEF Own, Writes, Allowed, Sides

LEMMA DatedStays ==
  ASSUME NEW rg, NEW new, NEW R, NEW src, Writes(rg, new, R, src),
         NEW rn, NEW rn2, NEW pp, NEW pp2, NEW sc, NEW sc2, DatedIsOwed(rg, rn, pp, sc),
         rn.kind \in Mutators =>
             /\ rn2.kind \in Mutators /\ rn2.host = rn.host /\ rn2.keys = rn.keys
             /\ rn2.changed = rn.changed,
         pp.hook = "pending" =>
             pp2.hook = "pending" /\ pp2.keys = pp.keys /\ sc2.host = sc.host
  PROVE  DatedIsOwed(new, rn2, pp2, sc2)
<1> SUFFICES ASSUME NEW Q \in Sides, NEW k \in Keys, Dated(new, Q, k)
             PROVE  k \in Sections /\ new[Q].body[k].is = "good" /\ Owed(rn2, pp2, sc2, Q, k)
  BY DEF DatedIsOwed
<1>1. new[Q].body[k] = rg[Q].body[k] /\ Dated(rg, Q, k)
  BY DEF Writes, Dated
<1>2. k \in Sections /\ rg[Q].body[k].is = "good" /\ Owed(rn, pp, sc, Q, k)
  BY <1>1 DEF DatedIsOwed
<1>3. Owed(rn2, pp2, sc2, Q, k)
  BY <1>2 DEF Owed, Live
<1>4. QED  BY <1>1, <1>2, <1>3

\* Steps that bring no mutation to its end and leave the drive alone.
LEMMA Steady ==
  ASSUME IInv, TypeOK', IPlace', IHandled', scope'.drive = scope.drive,
         NEW R \in Sides, NEW src, Writes(reg, reg', R, src), Allowed(R, src),
         run.kind \in Mutators =>
             /\ run'.kind \in Mutators /\ run'.host = run.host /\ run'.keys = run.keys
             /\ run'.changed = run.changed,
         run'.kind \in Diagnostics =>
             \/ run.kind \in Diagnostics /\ run'.host = run.host /\ run'.drive = run.drive
             \/ run'.host \/ (run'.drive = scope.drive /\ run'.drive \in Drives),
         popup.hook = "pending" =>
             popup'.hook = "pending" /\ popup'.keys = popup.keys /\ scope'.host = scope.host
  PROVE  IInv'
<1>1. IOwn'
  BY OwnWrites DEF IInv, IOwn
<1>2. IRun'
  BY DEF IInv, IRun, Writes
<1>3. IDated'
  BY DatedStays DEF IInv, IDated
<1>4. QED  BY <1>1, <1>2, <1>3 DEF IInv

LEMMA RunIsAllowed ==
  ASSUME IInv, run.kind \in Diagnostics
  PROVE  /\ Allowed(Register(run.host), Subject(run)) /\ Subject(run) \in Sources
         /\ Register(run.host) \in Sides
<1>1. CASE run.host
  <2>1. Subject(run) = "host" /\ Register(run.host) = "host"
    BY <1>1 DEF Subject, Register
  <2>2. QED  BY <2>1 DEF Allowed, Sources, Sides
<1>2. CASE ~run.host
  <2>1. run.drive \in Drives /\ (run.drive = scope.drive \/ reg.target.need)
    BY <1>2 DEF IInv, IRun
  <2>2. Subject(run) = run.drive /\ Register(run.host) = "target"
    BY <1>2 DEF Subject, Register
  <2>3. QED  BY <2>1, <2>2 DEF Allowed, Sources, Sides
<1>3. QED  BY <1>1, <1>2

LEMMA LiveIsAllowed ==
  ASSUME IInv, Ready(scope)
  PROVE  /\ Allowed(Live(scope), Subject(scope)) /\ Subject(scope) \in Sources
         /\ Live(scope) \in Sides
<1>1. CASE scope.host
  <2>1. Subject(scope) = "host" /\ Live(scope) = "host"
    BY <1>1 DEF Subject, Register, Live
  <2>2. QED  BY <2>1 DEF Allowed, Sources, Sides
<1>2. CASE ~scope.host
  <2>1. scope.drive \in Drives
    BY <1>2 DEF IInv, TypeOK, Scopes, Ready
  <2>2. Subject(scope) = scope.drive /\ Live(scope) = "target"
    BY <1>2 DEF Subject, Register, Live
  <2>3. QED  BY <2>1, <2>2 DEF Allowed, Sources, Sides
<1>3. QED  BY <1>1, <1>2

LEMMA ScheduleIsRefresh ==
  ASSUME NEW rf \in Refreshes, NEW force \in BOOLEAN, NEW busy \in BOOLEAN, NEW sc, NEW rg
  PROVE  Schedule(rf, force, sc, rg, busy) \in Refreshes
<1> DEFINE stale == EvidenceStale(sc, rg)
<1>1. Ready(sc) \in BOOLEAN
  BY DEF Ready
<1> HIDE DEF stale
<1>2. CASE ~rf.auto
  BY <1>2 DEF Schedule
<1>3. CASE rf.auto /\ busy
  BY <1>1, <1>3 DEF Schedule, Refreshes
<1>4. CASE rf.auto /\ ~busy /\ ~(Ready(sc) /\ ((rf.force \/ force) \/ EvidenceStale(sc, rg)))
  BY <1>1, <1>4 DEF Schedule, Refreshes
<1>5. CASE rf.auto /\ ~busy /\ Ready(sc) /\ ((rf.force \/ force) \/ EvidenceStale(sc, rg))
  BY <1>1, <1>5 DEF Schedule, Refreshes
<1>6. QED  BY <1>2, <1>3, <1>4, <1>5

-----------------------------------------------------------------------------
(* One lemma for each action: the user's moves.                            *)

LEMMA GateIsBoolean == GateHeld \in BOOLEAN
BY DEF GateHeld

LEMMA HostIsAllowed ==
  /\ Allowed("host", "host") /\ "host" \in Sides
  /\ Writes(reg, reg, "host", "host")
BY NothingWritten, ClearsWrites DEF Allowed, Sides

LEMMA NotBlocked ==
  ASSUME TypeOK, ~Blocked
  PROVE  /\ popup.hook # "pending" /\ run.kind # "repair" /\ popup.shown # "open"
         /\ ~GateHeld => popup.shown = "none"
BY DEF Blocked, TypeOK, Popups

LEMMA TurnCounts ==
  ASSUME TypeOK, Turn
  PROVE  turns' \in 0..MaxTurns
BY EvidenceAssumption DEF TypeOK, Turn

LEMMA CancelInFlightKeeps ==
  ASSUME TypeOK, CancelInFlight
  PROVE  /\ run' \in Requests /\ run'.kind = run.kind /\ run'.host = run.host
         /\ run'.drive = run.drive /\ run'.keys = run.keys /\ run'.changed = run.changed
<1>1. run' = run \/ run' = [run EXCEPT !.stopping = TRUE]
  BY DEF CancelInFlight
<1>2. QED  BY <1>1 DEF TypeOK, Requests

LEMMA MoveKeeps ==
  ASSUME IInv, NEW h \in BOOLEAN, ScopeChange, scope' = [scope EXCEPT !.host = h], reg' = reg,
         refresh' \in Refreshes
  PROVE  IInv'
<1>1. TypeOK  BY DEF IInv
<1>2. /\ run' \in Requests /\ run'.kind = run.kind /\ run'.host = run.host
      /\ run'.drive = run.drive /\ run'.keys = run.keys /\ run'.changed = run.changed
  BY <1>1, CancelInFlightKeeps DEF ScopeChange
<1>3. popup.hook # "pending" /\ run.kind # "repair" /\ UNCHANGED popup /\ UNCHANGED handled
  BY <1>1, NotBlocked DEF ScopeChange
<1>4. scope' \in Scopes /\ scope'.drive = scope.drive
  BY <1>1 DEF TypeOK, Scopes
<1>5. TypeOK'
  BY <1>1, <1>2, <1>4, TurnCounts DEF TypeOK, ScopeChange
<1>6. IPlace' /\ IHandled'
  BY <1>2, <1>3 DEF IInv, IPlace, IHandled
<1>7. Writes(reg, reg', "host", "host") /\ Allowed("host", "host") /\ "host" \in Sides
  BY HostIsAllowed
<1>8. QED  BY <1>2, <1>3, <1>4, <1>5, <1>6, <1>7, Steady

LEMMA EnterHostKeeps ==
  ASSUME IInv, EnterHost
  PROVE  IInv'
<1>1. refresh' \in Refreshes
  BY ScheduleIsRefresh, GateIsBoolean DEF IInv, TypeOK, EnterHost
<1>2. QED  BY <1>1, MoveKeeps DEF EnterHost

LEMMA ExitHostKeeps ==
  ASSUME IInv, ExitHost
  PROVE  IInv'
<1>1. refresh' \in Refreshes
  BY ScheduleIsRefresh, GateIsBoolean DEF IInv, TypeOK, ExitHost
<1>2. QED  BY <1>1, MoveKeeps DEF ExitHost

\* Another drive: the register is emptied and asks for a regeneration, which
\* is what a diagnostic for the old drive may still write under.
LEMMA SelectDriveKeeps ==
  ASSUME IInv, NEW d \in Drives, SelectDrive(d)
  PROVE  IInv'
<1>1. TypeOK  BY DEF IInv
<1>2. /\ run' \in Requests /\ run'.kind = run.kind /\ run'.host = run.host
      /\ run'.drive = run.drive /\ run'.keys = run.keys /\ run'.changed = run.changed
  BY <1>1, CancelInFlightKeeps DEF SelectDrive, ScopeChange
<1>3. popup.hook # "pending" /\ run.kind # "repair" /\ UNCHANGED popup /\ UNCHANGED handled
  BY <1>1, NotBlocked DEF SelectDrive, ScopeChange
<1>4. scope' \in Scopes /\ scope'.drive = d /\ ~scope'.host
  BY DEF SelectDrive, Scopes
<1>5. /\ reg' \in Registers(d) /\ Clears(reg, reg') /\ reg'.target.need
      /\ \A k \in Keys : reg'.target.body[k] = None
  BY <1>1, <1>4, InvalidateTargetClears DEF SelectDrive, TypeOK
<1>6. refresh' \in Refreshes
  <2> DEFINE left == IF scope.host
                     THEN Schedule(refresh, TRUE, [scope EXCEPT !.host = FALSE], reg, GateHeld)
                     ELSE refresh
  <2>1. left \in Refreshes
    BY <1>1, ScheduleIsRefresh, GateIsBoolean DEF TypeOK
  <2>2. refresh' = Schedule(left, TRUE, scope', reg', GateHeld)
    BY DEF SelectDrive
  <2> HIDE DEF left
  <2>3. QED  BY <2>1, <2>2, ScheduleIsRefresh, GateIsBoolean
<1>7. TypeOK'
  BY <1>1, <1>2, <1>4, <1>5, <1>6, TurnCounts DEF TypeOK, SelectDrive, ScopeChange
<1>8. IPlace' /\ IHandled'
  BY <1>2, <1>3 DEF IInv, IPlace, IHandled
<1>9. IOwn'
  BY <1>5 DEF IInv, IOwn, Own, Clears, Sides
<1>10. IRun'
  BY <1>2, <1>5 DEF IInv, IRun
<1>11. IDated'
  BY <1>2, <1>3, <1>5, ClearsWrites, DatedStays DEF IInv, IDated
<1>12. QED  BY <1>7, <1>8, <1>9, <1>10, <1>11 DEF IInv

-----------------------------------------------------------------------------
(* The actions that start a diagnostic, or ask for one.                    *)

LEMMA BeginBegins ==
  ASSUME TypeOK, Ready(scope), NEW kind \in Diagnostics, NEW keys \in SUBSET Keys,
         NEW auto \in BOOLEAN, Begin(kind, keys, auto)
  PROVE  /\ run' \in Requests /\ run'.kind = kind /\ run'.kind \in Diagnostics
         /\ run'.host \/ (run'.drive = scope.drive /\ run'.drive \in Drives)
         /\ userCancelled' = FALSE
<1>1. run' = [NoRun EXCEPT !.kind = kind, !.host = scope.host, !.drive = scope.drive,
                           !.keys = keys, !.auto = auto]
      /\ userCancelled' = FALSE
  BY DEF Begin
<1>2. run' = [kind |-> kind, host |-> scope.host, drive |-> scope.drive, keys |-> keys,
              onFailure |-> {}, auto |-> auto, done |-> {}, kept |-> {}, stopping |-> FALSE,
              changed |-> FALSE]
  BY <1>1 DEF NoRun
<1>3. run' \in Requests
  BY <1>2 DEF TypeOK, Scopes, Requests
<1>4. run'.kind = kind /\ (run'.host \/ (run'.drive = scope.drive /\ run'.drive \in Drives))
  BY <1>2 DEF TypeOK, Scopes, Ready
<1>5. QED  BY <1>1, <1>3, <1>4

\* What every start of a diagnostic and every other request for one has in
\* common: no mutation and no dialog is touched.
LEMMA AskKeeps ==
  ASSUME IInv, TypeOK', UNCHANGED <<scope, popup, handled>>,
         NEW R \in Sides, NEW src, Writes(reg, reg', R, src), Allowed(R, src),
         \/ run' = run
         \/ /\ run = NoRun /\ run'.kind \in Diagnostics
            /\ run'.host \/ (run'.drive = scope.drive /\ run'.drive \in Drives)
  PROVE  IInv'
<1>1. run' # run => run.kind = "none" /\ run'.kind \in Diagnostics
  BY DEF NoRun
<1>2. IPlace' /\ IHandled'
  BY <1>1 DEF IInv, IPlace, IHandled, Diagnostics, Mutators
<1>3. run.kind \in Mutators \/ run' = run => run' = run
  BY <1>1 DEF Mutators
<1>4. QED  BY <1>1, <1>2, <1>3, Steady DEF Mutators

LEMMA RunOneKeeps ==
  ASSUME IInv, NEW k \in Keys, RunOne(k)
  PROVE  IInv'
<1>1. TypeOK  BY DEF IInv
<1>2. k \in Keys /\ {k} \in SUBSET Keys
  OBVIOUS
<1>3. reg' \in Registers(scope.drive) /\ Clears(reg, reg')
  BY <1>1, <1>2, InvalidateClears DEF RunOne, TypeOK
<1>4. /\ run' \in Requests /\ run'.kind \in Diagnostics /\ userCancelled' = FALSE
      /\ run'.host \/ (run'.drive = scope.drive /\ run'.drive \in Drives)
  BY <1>1, <1>2, BeginBegins DEF RunOne, Diagnostics
<1>5. TypeOK'
  BY <1>1, <1>3, <1>4, TurnCounts DEF RunOne, TypeOK
<1>6. Writes(reg, reg', "host", "host")
  BY <1>3, ClearsWrites
<1>7. QED  BY <1>4, <1>5, <1>6, HostIsAllowed, AskKeeps DEF RunOne, GateHeld

LEMMA BeginAllKeeps ==
  ASSUME IInv, ~GateHeld, Ready(scope), NEW auto \in BOOLEAN, BeginAll(auto),
         UNCHANGED <<scope, popup, handled>>, refresh' \in Refreshes,
         queued' \in {"no", "yes", "posted"}, turns' \in 0..MaxTurns
  PROVE  IInv'
<1>1. TypeOK  BY DEF IInv
<1>2. reg' \in Registers(scope.drive) /\ Clears(reg, reg')
  BY <1>1, ClearHostClears, ClearTargetClears DEF BeginAll, TypeOK
<1>3. /\ run' \in Requests /\ run'.kind \in Diagnostics /\ userCancelled' = FALSE
      /\ run'.host \/ (run'.drive = scope.drive /\ run'.drive \in Drives)
  BY <1>1, BeginBegins DEF BeginAll, Diagnostics, Keys
<1>4. TypeOK'
  BY <1>1, <1>2, <1>3 DEF BeginAll, TypeOK
<1>5. Writes(reg, reg', "host", "host")
  BY <1>2, ClearsWrites
<1>6. QED  BY <1>3, <1>4, <1>5, HostIsAllowed, AskKeeps DEF GateHeld

LEMMA RunAllDiagnosticsKeeps ==
  ASSUME IInv, RunAllDiagnostics, turns' \in 0..MaxTurns
  PROVE  IInv'
<1>1. TypeOK  BY DEF IInv
<1>2. UNCHANGED <<scope, refresh, popup, handled>>
  BY DEF RunAllDiagnostics
<1>3. queued' \in {"no", "yes", "posted"}
  BY <1>1 DEF RunAllDiagnostics, TypeOK
<1>4. CASE UNCHANGED <<reg, run, inFlight, userCancelled>>
  <2>1. TypeOK'
    BY <1>1, <1>2, <1>3, <1>4 DEF TypeOK
  <2>2. QED  BY <1>2, <1>4, <2>1, HostIsAllowed, AskKeeps
<1>5. CASE ~GateHeld /\ Ready(scope) /\ BeginAll(FALSE)
  BY <1>1, <1>2, <1>3, <1>5, BeginAllKeeps DEF TypeOK
<1>6. ASSUME Ready(scope), userCancelled' = FALSE, inFlight' = None, run' = run,
             reg' = ShowFailure(IF scope.host THEN ClearHost(reg) ELSE ClearTarget(reg, scope),
                                Live(scope), Text(Subject(scope), "bad"))
      PROVE  IInv'
  <2> DEFINE cleared == IF scope.host THEN ClearHost(reg) ELSE ClearTarget(reg, scope)
  <2>1. cleared \in Registers(scope.drive) /\ Clears(reg, cleared)
    BY <1>1, ClearHostClears, ClearTargetClears DEF TypeOK
  <2> HIDE DEF cleared
  <2>2. Allowed(Live(scope), Subject(scope)) /\ Subject(scope) \in Sources /\ Live(scope) \in Sides
    BY <1>6, LiveIsAllowed
  <2>3. reg' \in Registers(scope.drive) /\ Writes(cleared, reg', Live(scope), Subject(scope))
    BY <1>6, <2>1, <2>2, ShowFailureWrites DEF cleared
  <2>4. Writes(reg, reg', Live(scope), Subject(scope))
    BY <2>1, <2>3, ClearsThenWrites
  <2>5. TypeOK'
    BY <1>1, <1>2, <1>3, <1>6, <2>3 DEF TypeOK
  <2>6. QED  BY <1>2, <1>6, <2>2, <2>4, <2>5, AskKeeps
<1>7. QED  BY <1>4, <1>5, <1>6 DEF RunAllDiagnostics

LEMMA ClickRunAllKeeps ==
  ASSUME IInv, ClickRunAll
  PROVE  IInv'
BY RunAllDiagnosticsKeeps, TurnCounts DEF ClickRunAll, IInv

LEMMA PostedRunAllKeeps ==
  ASSUME IInv, PostedRunAll
  PROVE  IInv'
BY RunAllDiagnosticsKeeps DEF PostedRunAll, IInv, TypeOK

\* Steps that leave the frame on the stack as it is, or tell it to stop.
LEMMA StoppingKeeps ==
  ASSUME IInv, TypeOK', UNCHANGED <<scope, popup, handled>>,
         run'.kind = run.kind, run'.host = run.host, run'.drive = run.drive,
         run'.keys = run.keys, run'.changed = run.changed,
         NEW R \in Sides, NEW src, Writes(reg, reg', R, src), Allowed(R, src)
  PROVE  IInv'
<1>1. IPlace' /\ IHandled'
  BY DEF IInv, IPlace, IHandled
<1>2. QED  BY <1>1, Steady

LEMMA UserCancelKeeps ==
  ASSUME IInv, UserCancel
  PROVE  IInv'
<1>1. TypeOK  BY DEF IInv
<1>2. UNCHANGED <<scope, refresh, popup, handled, inFlight, queued, turns>>
      /\ userCancelled' \in BOOLEAN /\ run' = [run EXCEPT !.stopping = TRUE]
  BY <1>1 DEF UserCancel, TypeOK
<1>3. /\ run' \in Requests /\ run'.kind = run.kind /\ run'.host = run.host
      /\ run'.drive = run.drive /\ run'.keys = run.keys /\ run'.changed = run.changed
  BY <1>1, <1>2 DEF TypeOK, Requests
<1>4. reg' \in Registers(scope.drive) /\ Clears(reg, reg')
  <2>1. CASE reg' = reg
    BY <1>1, <2>1, NothingWritten DEF TypeOK
  <2>2. CASE inFlight # None /\ reg' = Invalidate(reg, scope, {inFlight})
    <3>1. {inFlight} \in SUBSET Keys
      BY <1>1, <2>2 DEF TypeOK, Keys
    <3>2. QED  BY <1>1, <2>2, <3>1, InvalidateClears DEF TypeOK
  <2>3. QED  BY <2>1, <2>2 DEF UserCancel
<1>5. TypeOK'
  BY <1>1, <1>2, <1>3, <1>4 DEF TypeOK
<1>6. Writes(reg, reg', "host", "host")
  BY <1>4, ClearsWrites
<1>7. QED  BY <1>2, <1>3, <1>5, <1>6, HostIsAllowed, StoppingKeeps

LEMMA ToggleAutoRefreshKeeps ==
  ASSUME IInv, ToggleAutoRefresh
  PROVE  IInv'
<1>1. TypeOK /\ [refresh EXCEPT !.auto = TRUE] \in Refreshes
  BY DEF IInv, TypeOK, Refreshes
<1>2. refresh' \in Refreshes
  <2>1. [refresh EXCEPT !.auto = FALSE, !.awaiting = FALSE, !.due = FALSE] \in Refreshes
    BY <1>1 DEF TypeOK, Refreshes
  <2>2. Schedule([refresh EXCEPT !.auto = TRUE], FALSE, scope, reg, GateHeld) \in Refreshes
    BY <1>1, ScheduleIsRefresh, GateIsBoolean
  <2>3. QED  BY <2>1, <2>2 DEF ToggleAutoRefresh
<1>3. TypeOK'
  BY <1>1, <1>2, TurnCounts DEF ToggleAutoRefresh, TypeOK
<1>4. QED  BY <1>3, HostIsAllowed, StoppingKeeps DEF ToggleAutoRefresh

LEMMA ClearLogKeeps ==
  ASSUME IInv, ClearLog
  PROVE  IInv'
<1>1. TypeOK  BY DEF IInv
<1>2. reg' \in Registers(scope.drive) /\ Clears(reg, reg')
  BY <1>1, ClearHostClears, InvalidateTargetClears, ClearsTransitive DEF ClearLog, TypeOK
<1>3. TypeOK'
  BY <1>1, <1>2, TurnCounts DEF ClearLog, TypeOK
<1>4. QED  BY <1>2, <1>3, HostIsAllowed, ClearsWrites, StoppingKeeps DEF ClearLog

\* The sections that a combined run shows at once.
LEMMA StreamKeeps ==
  ASSUME IInv, NEW s \in Sections, Stream(s)
  PROVE  IInv'
<1>1. TypeOK /\ run.kind \in Diagnostics
  BY DEF IInv, Stream, RunInProgress, Diagnostics
<1>2. Allowed(Register(run.host), Subject(run)) /\ Subject(run) \in Sources
      /\ Register(run.host) \in Sides
  BY <1>1, RunIsAllowed
<1>3. UNCHANGED <<scope, refresh, popup, handled, inFlight, userCancelled, queued, turns>>
  BY DEF Stream
<1>4. \/ run' = [run EXCEPT !.done = @ \cup {s}, !.kept = @ \cup {s}]
      \/ run' = [run EXCEPT !.done = @ \cup {s}]
  BY DEF Stream
<1>5. /\ run' \in Requests /\ run'.kind = run.kind /\ run'.host = run.host
      /\ run'.drive = run.drive /\ run'.keys = run.keys /\ run'.changed = run.changed
  <2>1. run.done \cup {s} \in SUBSET Sections /\ run.kept \cup {s} \in SUBSET Sections
    BY <1>1 DEF TypeOK, Requests
  <2>2. QED  BY <1>1, <1>4, <2>1 DEF TypeOK, Requests
<1>6. s \in Keys
  BY DEF Keys
<1>7. reg' \in Registers(scope.drive) /\ Writes(reg, reg', Register(run.host), Subject(run))
  <2>1. CASE reg' = reg
    BY <1>1, <2>1, NothingWritten, ClearsWrites DEF TypeOK
  <2>2. CASE reg' = [reg EXCEPT ![Register(run.host)].body[s] = Text(Subject(run), "good")]
    BY <1>1, <1>2, <1>6, <2>2, OneTextWrites DEF TypeOK
  <2>3. QED  BY <2>1, <2>2 DEF Stream
<1>8. TypeOK'
  BY <1>1, <1>3, <1>5, <1>7 DEF TypeOK
<1>9. QED  BY <1>2, <1>3, <1>5, <1>7, <1>8, StoppingKeeps

-----------------------------------------------------------------------------
(* The ends of the diagnostics.                                            *)

LEMMA RunEndsKeeps ==
  ASSUME IInv, run.kind \in Diagnostics, NEW rg \in Registers(scope.drive),
         Own(rg, scope.drive), Writes(reg, [rg EXCEPT !.target.need = reg.target.need],
                                      Register(run.host), Subject(run)),
         NEW c \in BOOLEAN, NEW p \in BOOLEAN, RunEnds(rg, c, p)
  PROVE  IInv'
<1>1. TypeOK  BY DEF IInv
<1>2. Register(run.host) \in Sides
  BY RunIsAllowed
<1>3. UNCHANGED <<scope, popup, handled, turns>> /\ run' = NoRun /\ inFlight' = None
      /\ queued' \in {"no", "yes", "posted"} /\ userCancelled' \in BOOLEAN
  BY <1>1 DEF RunEnds, TypeOK
<1>4. refresh' \in Refreshes
  <2>1. ScopeChanged \in BOOLEAN
    BY DEF ScopeChanged
  <2>2. refresh' = [refresh EXCEPT !.deferred = @ \/ ScopeChanged, !.force = @ /\ ~run.auto]
    BY DEF RunEnds
  <2>3. QED  BY <1>1, <2>1, <2>2 DEF TypeOK, Refreshes
<1>5. reg' \in Registers(scope.drive) /\ Clears(rg, reg')
  <2> DEFINE reverted == Revert(rg, Register(run.host), run.kept)
  <2>1. reverted \in Registers(scope.drive) /\ Clears(rg, reverted)
    BY <1>2, RevertClears
  <2>2. InvalidateActive(reverted, scope) \in Registers(scope.drive)
        /\ Clears(reverted, InvalidateActive(reverted, scope))
    BY <1>1, <2>1, InvalidateActiveClears DEF TypeOK
  <2>3. reg' = IF ScopeChanged THEN InvalidateActive(reverted, scope) ELSE rg
    BY DEF RunEnds
  <2>4. QED  BY <2>1, <2>2, <2>3, ClearsTransitive, NothingWritten
<1>6. NoRun \in Requests /\ NoRun.kind = "none"
  BY DEF NoRun, Requests
<1>7. TypeOK'
  BY <1>1, <1>3, <1>4, <1>5, <1>6 DEF TypeOK
<1>8. IOwn'
  BY <1>3, <1>5, OwnClears DEF IOwn
<1>9. IRun' /\ IPlace' /\ IHandled'
  BY <1>3, <1>6 DEF IInv, IRun, IPlace, IHandled, Diagnostics, Mutators
<1>10. IDated'
  <2> DEFINE same == [rg EXCEPT !.target.need = reg.target.need]
  <2>1. \A R \in Sides : same[R].body = rg[R].body
    BY DEF Registers, Sides
  <2>2. DatedIsOwed(same, run, popup, scope)
    BY DatedStays DEF IInv, IDated
  <2> HIDE DEF same
  <2>3. DatedIsOwed(rg, run, popup, scope)
    BY <2>1, <2>2 DEF DatedIsOwed, Dated
  <2>4. Writes(rg, reg', "host", "host")
    BY <1>5, ClearsWrites
  <2>5. QED  BY <1>3, <2>3, <2>4, DatedStays DEF IDated, Diagnostics, Mutators
<1>11. QED  BY <1>7, <1>8, <1>9, <1>10 DEF IInv

LEMMA RunEndsWriting ==
  ASSUME IInv, run.kind \in Diagnostics, NEW rg \in Registers(scope.drive),
         Writes(reg, rg, Register(run.host), Subject(run)),
         NEW c \in BOOLEAN, NEW p \in BOOLEAN, RunEnds(rg, c, p)
  PROVE  IInv'
<1> DEFINE same == [rg EXCEPT !.target.need = reg.target.need]
<1>1. \A R \in Sides : same[R].body = rg[R].body
  BY DEF Registers, Sides
<1>2. same.target.need = reg.target.need
  BY DEF Registers
<1> HIDE DEF same
<1>3. Writes(reg, same, Register(run.host), Subject(run))
  BY <1>1, <1>2 DEF Writes
<1>4. Own(rg, scope.drive)
  BY RunIsAllowed, OwnWrites DEF IInv, IOwn
<1>5. QED  BY <1>3, <1>4, RunEndsKeeps DEF same

\* A whole report from the committed drive, after which none is asked for.
LEMMA RunEndsRegenerated ==
  ASSUME IInv, run.kind \in Diagnostics, ~run.host, run.drive = scope.drive,
         NEW outcome, NEW f \in Slice(Sections), NEW c \in BOOLEAN, NEW p \in BOOLEAN,
         RunEnds([Bundle(reg, "target", outcome, f) EXCEPT !.target.need = FALSE], c, p)
  PROVE  IInv'
<1> DEFINE bundle == Bundle(reg, "target", outcome, f)
<1> DEFINE rg == [bundle EXCEPT !.target.need = FALSE]
<1> DEFINE same == [rg EXCEPT !.target.need = reg.target.need]
<1>1. TypeOK /\ Subject(run) \in Sources /\ Register(run.host) = "target"
      /\ Subject(run) = scope.drive
  BY RunIsAllowed DEF IInv, Register, Subject
<1>2. /\ bundle \in Registers(scope.drive) /\ Writes(reg, bundle, "target", scope.drive)
      /\ \A k \in Keys : bundle.target.body[k] = None \/ bundle.target.body[k].from = scope.drive
  BY <1>1, BundleWrites DEF Sides
<1>3. Own(bundle, scope.drive)
  BY <1>1, <1>2, RunIsAllowed, OwnWrites DEF IInv, IOwn
<1> HIDE DEF bundle
<1>4. rg \in Registers(scope.drive) /\ \A R \in Sides : rg[R].body = bundle[R].body
  BY <1>2 DEF Registers, Sides
<1>5. Own(rg, scope.drive)
  BY <1>2, <1>3, <1>4 DEF Own, Sides
<1>6. same.target.need = reg.target.need /\ \A R \in Sides : same[R].body = rg[R].body
  BY <1>2 DEF Registers, Sides
<1> HIDE DEF same, rg
<1>7. Writes(reg, same, "target", scope.drive)
  BY <1>2, <1>4, <1>6 DEF Writes
<1>8. QED  BY <1>1, <1>4, <1>5, <1>7, RunEndsKeeps DEF same, rg, bundle

LEMMA AllEndsKeeps ==
  ASSUME IInv, AllEnds
  PROVE  IInv'
<1>1. TypeOK /\ run.kind \in Diagnostics /\ run.host \in BOOLEAN
  BY DEF IInv, AllEnds, Diagnostics, TypeOK, Requests
<1>2. Subject(run) \in Sources /\ Register(run.host) \in Sides
  BY <1>1, RunIsAllowed
<1> DEFINE R == Register(run.host)
<1> DEFINE cancelled(outcome) == outcome = "cut" \/ userCancelled
<1> DEFINE gone == IF run.host THEN ClearHost(reg) ELSE InvalidateTarget(reg, scope)
<1> DEFINE reverted == Revert(reg, R, run.kept)
<1> DEFINE shown(outcome) ==
             ShowFailure(reverted, R, Text(Subject(run), IF outcome = "error" THEN "bad" ELSE "good"))
<1> DEFINE bundle(outcome, f) == Bundle(reg, R, outcome, f)
<1> DEFINE End(outcome, f) ==
        \/ RunEnds(gone, cancelled(outcome), TRUE)
        \/ Succeeded(outcome) /\ run.host /\ RunEnds(bundle(outcome, f), cancelled(outcome), TRUE)
        \/ /\ Succeeded(outcome) /\ ~run.host
           /\ RunEnds([bundle(outcome, f) EXCEPT !.target.need = FALSE], cancelled(outcome), TRUE)
        \/ RunEnds(reverted, cancelled(outcome), TRUE)
        \/ RunEnds(shown(outcome), cancelled(outcome), TRUE)
<1>2a. PICK outcome \in Outcomes : \E f \in Slices(Sections, outcome) : End(outcome, f)
  BY DEF AllEnds
<1>3. PICK f \in Slices(Sections, outcome) : End(outcome, f)
  BY <1>2a
<1>4. f \in Slice(Sections) /\ cancelled(outcome) \in BOOLEAN
  BY <1>3, SlicesAreSlices
<1>5. gone \in Registers(scope.drive) /\ Writes(reg, gone, R, Subject(run))
  BY <1>1, ClearHostClears, InvalidateTargetClears, ClearsWrites DEF TypeOK
<1>6. reverted \in Registers(scope.drive) /\ Clears(reg, reverted)
  BY <1>1, <1>2, RevertClears DEF TypeOK
<1>7. Writes(reg, reverted, R, Subject(run))
  BY <1>6, ClearsWrites
<1>8. shown(outcome) \in Registers(scope.drive) /\ Writes(reg, shown(outcome), R, Subject(run))
  <2>1. (IF outcome = "error" THEN "bad" ELSE "good") \in {"good", "bad"}
    OBVIOUS
  <2> HIDE DEF reverted
  <2>2. shown(outcome) \in Registers(scope.drive) /\ Writes(reverted, shown(outcome), R, Subject(run))
    BY <1>2, <1>6, <2>1, ShowFailureWrites
  <2>3. QED  BY <1>6, <2>2, ClearsThenWrites
<1>9. /\ bundle(outcome, f) \in Registers(scope.drive)
      /\ Writes(reg, bundle(outcome, f), R, Subject(run))
  BY <1>1, <1>2, <1>4, BundleWrites
<1>10. CASE Succeeded(outcome) /\ ~run.host
            /\ RunEnds([bundle(outcome, f) EXCEPT !.target.need = FALSE], cancelled(outcome), TRUE)
  <2>1. run.drive = scope.drive /\ R = "target"
    BY <1>10 DEF Succeeded, CurrentIdentity, Register
  <2>2. QED  BY <1>1, <1>4, <1>10, <2>1, RunEndsRegenerated
<1> HIDE DEF gone, reverted, shown, bundle, cancelled
<1>11. QED
  BY <1>1, <1>3, <1>4, <1>5, <1>6, <1>7, <1>8, <1>9, <1>10, RunEndsWriting DEF R

LEMMA OneEndsKeeps ==
  ASSUME IInv, OneEnds
  PROVE  IInv'
<1>1. TypeOK /\ run.kind \in Diagnostics /\ run.host \in BOOLEAN /\ run.keys \in SUBSET Keys
  BY DEF IInv, OneEnds, Diagnostics, TypeOK, Requests
<1>2. Subject(run) \in Sources /\ Register(run.host) \in Sides
  BY <1>1, RunIsAllowed
<1> DEFINE R == Register(run.host)
<1> DEFINE K(k) == IF k = "report" THEN Sections ELSE {k}
<1> DEFINE gone(k) == Invalidate(reg, scope, {k})
<1> DEFINE bundle(outcome, f) == Bundle(reg, R, outcome, f)
<1> DEFINE cached(f) == CacheSections(reg, R, f)
<1> DEFINE error(k) == [reg EXCEPT ![R].body[k] = Text(Subject(run), "bad")]
<1> DEFINE c == ~ScopeChanged
<1> DEFINE p == ~userCancelled
<1> DEFINE End(k, outcome, f) ==
        \/ RunEnds(reg, c, p)
        \/ RunEnds(gone(k), c, p)
        \/ k = "report" /\ RunEnds(bundle(outcome, f), c, p)
        \/ /\ k = "report" /\ ~run.host /\ Succeeded(outcome)
           /\ RunEnds([bundle(outcome, f) EXCEPT !.target.need = FALSE], c, p)
        \/ k # "report" /\ RunEnds(cached(f), c, p)
        \/ RunEnds(error(k), c, p)
<1>3. PICK outcome \in Outcomes, k \in run.keys : \E f \in Slices(K(k), outcome) : End(k, outcome, f)
  BY DEF OneEnds
<1>4. PICK f \in Slices(K(k), outcome) : End(k, outcome, f)
  BY <1>3
<1>5. k \in Keys /\ c \in BOOLEAN /\ p \in BOOLEAN
  BY <1>1, <1>3 DEF ScopeChanged
<1>6. f \in Slice(K(k))
  BY <1>4, SlicesAreSlices
<1>7. reg \in Registers(scope.drive) /\ Writes(reg, reg, R, Subject(run))
  BY <1>1, NothingWritten, ClearsWrites DEF TypeOK
<1>8. gone(k) \in Registers(scope.drive) /\ Writes(reg, gone(k), R, Subject(run))
  <2>1. {k} \in SUBSET Keys
    BY <1>5
  <2>2. QED  BY <1>1, <2>1, InvalidateClears, ClearsWrites DEF TypeOK
<1>9. k = "report" =>
        /\ bundle(outcome, f) \in Registers(scope.drive)
        /\ Writes(reg, bundle(outcome, f), R, Subject(run))
  BY <1>1, <1>2, <1>6, BundleWrites
<1>10. k # "report" =>
        cached(f) \in Registers(scope.drive) /\ Writes(reg, cached(f), R, Subject(run))
  <2>1. {k} \in SUBSET Keys
    BY <1>5
  <2>2. k # "report" => f \in Slice({k})
    BY <1>6
  <2>3. QED  BY <1>2, <1>7, <2>1, <2>2, CacheSectionsWrites
<1>11. error(k) \in Registers(scope.drive) /\ Writes(reg, error(k), R, Subject(run))
  BY <1>2, <1>5, <1>7, OneTextWrites
<1>12. CASE /\ k = "report" /\ ~run.host /\ Succeeded(outcome)
            /\ RunEnds([bundle(outcome, f) EXCEPT !.target.need = FALSE], c, p)
  <2>1. run.drive = scope.drive /\ R = "target"
    BY <1>12 DEF Succeeded, CurrentIdentity, Register
  <2>2. QED  BY <1>1, <1>5, <1>6, <1>12, <2>1, RunEndsRegenerated
<1> HIDE DEF gone, bundle, cached, error, c, p
<1>13. QED
  BY <1>1, <1>4, <1>5, <1>7, <1>8, <1>9, <1>10, <1>11, <1>12, RunEndsWriting DEF R

LEMMA SomeEndsKeeps ==
  ASSUME IInv, SomeEnds
  PROVE  IInv'
<1>1. TypeOK /\ run.kind \in Diagnostics /\ run.keys \in SUBSET Keys
  BY DEF IInv, SomeEnds, Diagnostics, TypeOK, Requests
<1>2. Subject(run) \in Sources /\ Register(run.host) \in Sides
  BY <1>1, RunIsAllowed
<1> DEFINE R == Register(run.host)
<1> DEFINE gone == InvalidateActive(reg, scope)
<1> DEFINE cached(f) == CacheSections(reg, R, f)
<1> DEFINE reverted == Revert(reg, R, run.kept)
<1> DEFINE c == ~ScopeChanged
<1>3. PICK outcome \in Outcomes : \E f \in Slices(run.keys, outcome) :
        \/ RunEnds(reg, c, TRUE) \/ RunEnds(gone, c, TRUE)
        \/ RunEnds(cached(f), c, TRUE) \/ RunEnds(reverted, c, TRUE)
  BY DEF SomeEnds
<1>4. PICK f \in Slices(run.keys, outcome) :
        \/ RunEnds(reg, c, TRUE) \/ RunEnds(gone, c, TRUE)
        \/ RunEnds(cached(f), c, TRUE) \/ RunEnds(reverted, c, TRUE)
  BY <1>3
<1>5. f \in Slice(run.keys) /\ c \in BOOLEAN
  BY <1>4, SlicesAreSlices DEF ScopeChanged
<1>6. reg \in Registers(scope.drive) /\ Writes(reg, reg, R, Subject(run))
  BY <1>1, NothingWritten, ClearsWrites DEF TypeOK
<1>7. gone \in Registers(scope.drive) /\ Writes(reg, gone, R, Subject(run))
  BY <1>1, InvalidateActiveClears, ClearsWrites DEF TypeOK
<1>8. cached(f) \in Registers(scope.drive) /\ Writes(reg, cached(f), R, Subject(run))
  BY <1>1, <1>2, <1>5, <1>6, CacheSectionsWrites
<1>9. reverted \in Registers(scope.drive) /\ Writes(reg, reverted, R, Subject(run))
  BY <1>2, <1>6, RevertClears, ClearsWrites
<1> HIDE DEF gone, cached, reverted, c
<1>10. QED
  BY <1>1, <1>4, <1>5, <1>6, <1>7, <1>8, <1>9, RunEndsWriting DEF R

-----------------------------------------------------------------------------
(* Repairs and shell commands.                                             *)

LEMMA NoRunIsRequest ==
  NoRun \in Requests /\ NoRun.kind = "none"
BY DEF NoRun, Requests

LEMMA FreeGate ==
  ASSUME TypeOK, ~Blocked, ~GateHeld
  PROVE  run.kind = "none" /\ popup.hook # "pending" /\ popup.shown = "none"
BY NotBlocked, NoRunIsRequest DEF GateHeld

LEMMA BeginMutationKeeps ==
  ASSUME IInv, NEW kind \in Mutators, NEW keys \in SUBSET Keys, NEW onFailure \in SUBSET Keys,
         ~Blocked, ~GateHeld, BeginMutation(kind, keys, onFailure), handled' \in BOOLEAN,
         UNCHANGED <<scope, reg, refresh, popup, inFlight, userCancelled, queued>>
  PROVE  IInv'
<1>1. TypeOK  BY DEF IInv
<1>2. run.kind = "none" /\ popup.hook # "pending" /\ popup.shown = "none"
  BY <1>1, FreeGate
<1>3. run' = [kind |-> kind, host |-> scope.host, drive |-> scope.drive, keys |-> keys,
              onFailure |-> onFailure, auto |-> FALSE, done |-> {}, kept |-> {},
              stopping |-> FALSE, changed |-> FALSE]
  BY DEF BeginMutation, NoRun
<1>4. run' \in Requests /\ run'.kind = kind /\ run'.host = scope.host
  BY <1>1, <1>3 DEF TypeOK, Scopes, Requests
<1>5. inFlight = None
  BY <1>1, <1>2 DEF TypeOK, Diagnostics
<1>6. TypeOK'
  BY <1>1, <1>4, <1>5, TurnCounts DEF TypeOK, BeginMutation
<1>7. IPlace' /\ IHandled'
  BY <1>2, <1>4 DEF IInv, IPlace, IHandled
<1>8. run'.kind \notin Diagnostics /\ run.kind \notin Mutators
  BY <1>2, <1>4 DEF Diagnostics, Mutators
<1>9. QED  BY <1>2, <1>6, <1>7, <1>8, HostIsAllowed, Steady

LEMMA StartRepairKeeps ==
  ASSUME IInv, NEW tool \in Tools, StartRepair(tool)
  PROVE  IInv'
<1>1. FailureKeys(tool) \in SUBSET Keys /\ Invalidates[tool] \in SUBSET Keys
  BY EvidenceAssumption DEF FailureKeys, Keys
<1>2. QED  BY <1>1, BeginMutationKeeps DEF StartRepair, Mutators

LEMMA StartShellKeeps ==
  ASSUME IInv, NEW class \in ShellClasses, StartShell(class)
  PROVE  IInv'
<1>1. class \in SUBSET Keys
  BY EvidenceAssumption
<1>2. QED  BY <1>1, BeginMutationKeeps DEF StartShell, Mutators, IInv, TypeOK

LEMMA RefusedRepairKeeps ==
  ASSUME IInv, NEW tool \in Tools, RefusedRepair(tool)
  PROVE  IInv'
<1>1. TypeOK  BY DEF IInv
<1>2. FailureKeys(tool) \in SUBSET Keys
  BY EvidenceAssumption DEF FailureKeys, Keys
<1>3. reg' \in Registers(scope.drive) /\ Clears(reg, reg')
  BY <1>1, <1>2, InvalidateClears DEF RefusedRepair, TypeOK
<1>4. refresh' \in Refreshes
  BY <1>1, ScheduleIsRefresh DEF RefusedRepair, TypeOK
<1>5. TypeOK'
  BY <1>1, <1>3, <1>4 DEF RefusedRepair, TypeOK
<1>6. QED  BY <1>3, <1>5, HostIsAllowed, ClearsWrites, StoppingKeeps DEF RefusedRepair

\* A change ages the texts that the request's end is going to invalidate.
LEMMA WorldChangesKeeps ==
  ASSUME IInv, WorldChanges
  PROVE  IInv'
<1>1. TypeOK /\ run.kind \in Mutators /\ run.keys \in SUBSET Keys
  BY DEF IInv, WorldChanges, TypeOK, Requests
<1>2. UNCHANGED <<scope, refresh, popup, handled, inFlight, userCancelled, queued, turns>>
  BY DEF WorldChanges
<1>3. /\ run' \in Requests /\ run'.kind = run.kind /\ run'.host = run.host
      /\ run'.keys = run.keys /\ run'.changed
  BY <1>1 DEF WorldChanges, TypeOK, Requests
<1> DEFINE R == Register(run.host)
<1> DEFINE S == IF "report" \in run.keys THEN Keys ELSE run.keys
<1>4. R \in Sides /\ S \in SUBSET Keys
  BY <1>1 DEF Register, Sides
<1>5. reg' = reg \/ reg' = Aged(reg, R, S, "current", "outdated")
  BY DEF WorldChanges
<1> HIDE DEF R, S
<1>6. /\ reg' \in Registers(scope.drive) /\ reg'.target.need = reg.target.need
      /\ \A Q \in Sides, k \in Keys :
           \/ reg'[Q].body[k] = reg[Q].body[k]
           \/ /\ Q = R /\ k \in S \cap Sections /\ reg[Q].body[k] # None
              /\ reg'[Q].body[k] # None /\ reg'[Q].body[k].is = "good"
              /\ reg'[Q].body[k].from = reg[Q].body[k].from
  BY <1>1, <1>4, <1>5, AgedKeeps DEF TypeOK
<1>7. TypeOK'
  BY <1>1, <1>2, <1>3, <1>6 DEF TypeOK
<1>8. IOwn'
  BY <1>2, <1>6 DEF IInv, IOwn, Own, Sides
<1>9. IRun' /\ IPlace' /\ IHandled'
  BY <1>1, <1>2, <1>3 DEF IInv, IRun, IPlace, IHandled, Mutators, Diagnostics
<1>10. IDated'
  <2> SUFFICES ASSUME NEW Q \in Sides, NEW k \in Keys, Dated(reg', Q, k)
               PROVE  k \in Sections /\ reg'[Q].body[k].is = "good" /\ Owed(run', popup', scope', Q, k)
    BY DEF IDated, DatedIsOwed
  <2>1. CASE reg'[Q].body[k] = reg[Q].body[k]
    <3>1. k \in Sections /\ reg[Q].body[k].is = "good" /\ Owed(run, popup, scope, Q, k)
      BY <2>1 DEF IInv, IDated, DatedIsOwed, Dated
    <3>2. QED  BY <1>2, <1>3, <2>1, <3>1 DEF Owed
  <2>2. CASE Q = R /\ k \in S \cap Sections /\ reg'[Q].body[k].is = "good"
    <3>1. Covers(run.keys, k)
      BY <2>2 DEF S, Covers
    <3>2. QED  BY <1>1, <1>3, <2>2, <3>1 DEF Owed, R
  <2>3. QED  BY <1>6, <2>1, <2>2
<1>11. QED  BY <1>7, <1>8, <1>9, <1>10 DEF IInv

\* The end of a mutation's frame: what it outdated is gone or known as missed.
LEMMA MutationEndsKeeps ==
  ASSUME IInv, run.kind \in Mutators, NEW rg \in Registers(scope.drive), Clears(reg, rg),
         NEW rf \in Refreshes, NEW misses \in BOOLEAN, MutationEnds(rg, rf, misses),
         popup' = popup,
         \/ misses \/ ~run.changed
         \/ \A k \in Sections :
               Covers(run.keys, k) => rg[Register(run.host)].body[k] = None
  PROVE  IInv'
<1>1. TypeOK /\ popup.hook # "pending" /\ Register(run.host) \in Sides
  BY DEF IInv, IPlace, Register, Sides
<1>2. /\ UNCHANGED <<scope, popup, handled, inFlight, userCancelled, queued, turns>>
      /\ refresh' = rf /\ run' = NoRun
  BY DEF MutationEnds
<1> DEFINE aged == Aged(rg, Register(run.host), Keys, "outdated", "missed")
<1>3. reg' = IF misses THEN aged ELSE rg
  BY DEF MutationEnds
<1>4. /\ aged \in Registers(scope.drive) /\ aged.target.need = rg.target.need
      /\ \A Q \in Sides, k \in Keys :
           \/ aged[Q].body[k] = rg[Q].body[k]
           \/ aged[Q].body[k] # None /\ aged[Q].body[k].age = "missed" /\ rg[Q].body[k] # None
              /\ aged[Q].body[k].from = rg[Q].body[k].from
  BY <1>1, AgedKeeps
<1>5. \A k \in Sections : aged[Register(run.host)].body[k] # None =>
        aged[Register(run.host)].body[k].age # "outdated"
        \/ aged[Register(run.host)].body[k].is # "good"
  <2>1. Sections \subseteq Keys
    BY DEF Keys
  <2>2. QED  BY <1>1, <2>1, AgedKeeps
<1> HIDE DEF aged
<1>6. inFlight = None
  BY <1>1 DEF TypeOK, Diagnostics, Mutators
<1>7. TypeOK'
  BY <1>1, <1>2, <1>3, <1>4, <1>6, NoRunIsRequest DEF TypeOK
<1>8. Own(rg, scope.drive)
  BY OwnClears DEF IInv, IOwn
<1>9. IOwn'
  BY <1>2, <1>3, <1>4, <1>8 DEF IOwn, Own, Sides
<1>10. IRun' /\ IPlace' /\ IHandled'
  BY <1>2, NoRunIsRequest DEF IInv, IRun, IPlace, IHandled, Mutators, Diagnostics
<1>11. IDated'
  <2> SUFFICES ASSUME NEW Q \in Sides, NEW k \in Keys, Dated(reg', Q, k)
               PROVE  FALSE
    BY DEF IDated, DatedIsOwed
  <2>1. Dated(rg, Q, k) /\ reg'[Q].body[k] = rg[Q].body[k]
    BY <1>3, <1>4 DEF Dated
  <2>2. Dated(reg, Q, k) /\ rg[Q].body[k] = reg[Q].body[k]
    BY <2>1 DEF Dated, Clears
  <2>3. k \in Sections /\ reg[Q].body[k].is = "good" /\ Owed(run, popup, scope, Q, k)
    BY <2>2 DEF IInv, IDated, DatedIsOwed
  <2>4. run.changed /\ Q = Register(run.host) /\ Covers(run.keys, k)
    BY <1>1, <2>3 DEF Owed
  <2>5. CASE misses
    BY <1>3, <1>5, <2>1, <2>2, <2>3, <2>4, <2>5 DEF Dated
  <2>6. CASE ~misses
    BY <2>1, <2>3, <2>4, <2>6 DEF Dated
  <2>7. QED  BY <2>5, <2>6
<1>12. QED  BY <1>7, <1>9, <1>10, <1>11 DEF IInv

LEMMA InvalidateAndScheduleKeeps ==
  ASSUME IInv, run.kind \in Mutators, NEW S \in SUBSET Keys, NEW misses \in BOOLEAN,
         InvalidateAndSchedule(S, misses), popup' = popup,
         \/ misses
         \/ /\ scope.host = run.host
            /\ \A k \in Sections : Covers(run.keys, k) => Covers(S, k)
  PROVE  IInv'
<1> DEFINE rg == Invalidate(reg, scope, S)
<1> DEFINE rf == Schedule(refresh, FALSE, scope, rg, FALSE)
<1>1. /\ rg \in Registers(scope.drive) /\ Clears(reg, rg)
      /\ \A k \in Sections : Covers(S, k) => rg[Live(scope)].body[k] = None
  BY InvalidateClears DEF IInv, TypeOK
<1>2. rf \in Refreshes
  BY ScheduleIsRefresh DEF IInv, TypeOK
<1>3. MutationEnds(rg, rf, misses)
  BY DEF InvalidateAndSchedule
<1>4. scope.host = run.host => Live(scope) = Register(run.host)
  BY DEF Live
<1> HIDE DEF rg, rf
<1>5. QED  BY <1>1, <1>2, <1>3, <1>4, MutationEndsKeeps

LEMMA MutationUnchangedKeeps ==
  ASSUME IInv, MutationUnchanged
  PROVE  IInv'
<1>1. TypeOK  BY DEF IInv
<1>2. QED  BY <1>1, NothingWritten, MutationEndsKeeps DEF MutationUnchanged, TypeOK

LEMMA RepairSucceedsKeeps ==
  ASSUME IInv, RepairSucceeds
  PROVE  IInv'
<1>1. TypeOK /\ run.kind = "repair" /\ run.kind \in Mutators /\ run.keys \in SUBSET Keys
  BY DEF IInv, RepairSucceeds, TypeOK, Requests, Mutators
<1>2. scope.host = run.host /\ popup.hook # "pending"
  BY <1>1 DEF IInv, IPlace
<1>3. CASE run.stopping
  BY <1>1, <1>2, <1>3, InvalidateAndScheduleKeeps DEF RepairSucceeds
<1>4. CASE ~run.stopping
  <2>1. /\ UNCHANGED <<scope, reg, refresh, handled, inFlight, userCancelled, queued, turns>>
        /\ run' = NoRun /\ popup' = [shown |-> "open", hook |-> "pending", keys |-> run.keys]
    BY <1>4 DEF RepairSucceeds, MutationEnds
  <2>2. popup' \in Popups /\ popup'.hook = "pending" /\ popup'.keys = run.keys
    BY <1>1, <2>1 DEF Popups
  <2>3. TypeOK'
    BY <1>1, <2>1, <2>2, NoRunIsRequest DEF TypeOK, Diagnostics
  <2>4. IOwn' /\ IRun' /\ IPlace' /\ IHandled'
    BY <2>1, <2>2, NoRunIsRequest DEF IInv, IOwn, IRun, IPlace, IHandled, Diagnostics, Mutators
  <2>5. IDated'
    <3>1. \A Q \in Sides, k \in Keys : Owed(run, popup, scope, Q, k) => Owed(run', popup', scope', Q, k)
      BY <1>2, <2>1, <2>2 DEF Owed, Live
    <3>2. QED  BY <2>1, <3>1 DEF IInv, IDated, DatedIsOwed
  <2>6. QED  BY <2>3, <2>4, <2>5 DEF IInv
<1>5. QED  BY <1>3, <1>4

LEMMA RepairFailsKeeps ==
  ASSUME IInv, RepairFails
  PROVE  IInv'
<1>1. /\ run.kind = "repair" /\ run.kind \in Mutators /\ run.onFailure \in SUBSET Keys
      /\ scope.host = run.host
  BY DEF IInv, IPlace, RepairFails, TypeOK, Requests, Mutators
<1>2. "report" \in run.onFailure => \A k \in Sections : Covers(run.onFailure, k)
  BY DEF Covers
<1>3. QED  BY <1>1, <1>2, InvalidateAndScheduleKeeps DEF RepairFails

LEMMA ShellEndsKeeps ==
  ASSUME IInv, ShellEnds
  PROVE  IInv'
<1>1. run.kind \in Mutators /\ run.keys \in SUBSET Keys
  BY DEF IInv, ShellEnds, TypeOK, Requests, Mutators
<1>2. (scope.host # run.host) \in BOOLEAN
  OBVIOUS
<1>3. QED  BY <1>1, <1>2, InvalidateAndScheduleKeeps DEF ShellEnds

LEMMA MutationCancelledKeeps ==
  ASSUME IInv, MutationCancelled
  PROVE  IInv'
<1>1. /\ TypeOK /\ run.kind \in Mutators /\ run.keys \in SUBSET Keys /\ run.changed \in BOOLEAN
      /\ run.host \in BOOLEAN /\ Register(run.host) \in Sides /\ popup' = popup
  BY DEF IInv, MutationCancelled, TypeOK, Requests, Register, Sides
<1>2. CASE MutationEnds(reg, refresh, run.changed)
  BY <1>1, <1>2, NothingWritten, MutationEndsKeeps DEF TypeOK
<1>3. CASE "report" \in run.keys
           /\ MutationEnds(InvalidateActive(reg, scope), refresh, scope.host # run.host)
  <2> DEFINE rg == InvalidateActive(reg, scope)
  <2>1. /\ rg \in Registers(scope.drive) /\ Clears(reg, rg)
        /\ \A k \in Keys : rg[Live(scope)].body[k] = None
    BY <1>1, InvalidateActiveClears DEF TypeOK
  <2>2. scope.host = run.host => Live(scope) = Register(run.host)
    BY DEF Live
  <2>3. Sections \subseteq Keys /\ (scope.host # run.host) \in BOOLEAN
    BY DEF Keys
  <2> HIDE DEF rg
  <2>4. QED  BY <1>1, <1>3, <2>1, <2>2, <2>3, MutationEndsKeeps DEF TypeOK, rg
<1>4. CASE "report" \notin run.keys
           /\ LET rg == MarkStale(reg, Register(run.host), run.keys)
              IN  MutationEnds(rg, Schedule(refresh, FALSE, scope, rg, TRUE), FALSE)
  <2> DEFINE rg == MarkStale(reg, Register(run.host), run.keys)
  <2> DEFINE rf == Schedule(refresh, FALSE, scope, rg, TRUE)
  <2>1. /\ rg \in Registers(scope.drive) /\ Clears(reg, rg)
        /\ \A k \in Keys : k \in run.keys \ {"report"} => rg[Register(run.host)].body[k] = None
    BY <1>1, MarkStaleClears DEF TypeOK
  <2>2. rf \in Refreshes
    BY <1>1, ScheduleIsRefresh DEF TypeOK
  <2>3. \A k \in Sections : Covers(run.keys, k) => rg[Register(run.host)].body[k] = None
    BY <1>4, <2>1 DEF Covers, Keys
  <2>4. MutationEnds(rg, rf, FALSE)
    BY <1>4
  <2> HIDE DEF rg, rf
  <2>5. QED  BY <1>1, <2>1, <2>2, <2>3, <2>4, MutationEndsKeeps
<1>5. QED  BY <1>2, <1>3, <1>4 DEF MutationCancelled

-----------------------------------------------------------------------------
(* The hook of a success and the return from its dialog.                   *)

LEMMA HookKeeps ==
  ASSUME IInv, Hook
  PROVE  IInv'
<1>1. TypeOK /\ popup.hook = "pending" /\ popup.keys \in SUBSET Keys /\ run.kind \notin Mutators
  BY DEF IInv, IPlace, Hook, TypeOK, Popups
<1>2. /\ UNCHANGED <<scope, run, inFlight, userCancelled, queued, turns>>
      /\ handled' = TRUE
      /\ reg' = Invalidate(reg, scope, popup.keys)
  BY DEF Hook
<1>3. /\ reg' \in Registers(scope.drive) /\ Clears(reg, reg')
      /\ \A k \in Sections : Covers(popup.keys, k) => reg'[Live(scope)].body[k] = None
  BY <1>1, <1>2, InvalidateClears DEF TypeOK
<1>4. refresh' \in Refreshes
  BY <1>1, ScheduleIsRefresh, GateIsBoolean DEF Hook, TypeOK
<1>5. popup' \in Popups /\ popup'.hook # "pending" /\ (popup'.hook = "ran" => popup'.shown # "none")
  BY <1>1 DEF Hook, NoPopup, TypeOK, Popups
<1>6. TypeOK'
  BY <1>1, <1>2, <1>3, <1>4, <1>5 DEF TypeOK
<1>7. IOwn'
  BY <1>2, <1>3, OwnClears DEF IInv, IOwn
<1>8. IRun' /\ IPlace' /\ IHandled'
  BY <1>2, <1>3, <1>5 DEF IInv, IRun, IPlace, IHandled, Clears
<1>9. IDated'
  <2> SUFFICES ASSUME NEW Q \in Sides, NEW k \in Keys, Dated(reg', Q, k)
               PROVE  FALSE
    BY DEF IDated, DatedIsOwed
  <2>1. Dated(reg, Q, k)
    BY <1>3 DEF Dated, Clears
  <2>2. k \in Sections /\ Q = Live(scope) /\ Covers(popup.keys, k)
    BY <1>1, <2>1 DEF IInv, IDated, DatedIsOwed, Owed
  <2>3. QED  BY <1>3, <2>2 DEF Dated
<1>10. QED  BY <1>6, <1>7, <1>8, <1>9 DEF IInv

LEMMA CompleteRepairKeeps ==
  ASSUME IInv, CompleteRepair
  PROVE  IInv'
<1>1. TypeOK /\ popup.keys \in SUBSET Keys
  BY DEF IInv, TypeOK, Popups
<1>2. UNCHANGED <<scope, run, inFlight, userCancelled, queued, turns>>
  BY DEF CompleteRepair
<1>3. /\ reg' \in Registers(scope.drive) /\ Clears(reg, reg') /\ refresh' \in Refreshes
      /\ handled' \in BOOLEAN
  <2>1. CASE handled
    BY <1>1, <2>1, NothingWritten DEF CompleteRepair, TypeOK
  <2>2. CASE ~handled
    <3>1. reg' = Invalidate(reg, scope, popup.keys) /\ handled' = handled
          /\ refresh' = Schedule(refresh, FALSE, scope, reg', GateHeld)
      BY <2>2 DEF CompleteRepair
    <3>2. QED  BY <1>1, <3>1, InvalidateClears, ScheduleIsRefresh, GateIsBoolean DEF TypeOK
  <2>3. QED  BY <2>1, <2>2
<1>4. /\ popup' \in Popups /\ popup'.hook # "ran"
      /\ popup.hook = "pending" => popup'.hook = "pending" /\ popup'.keys = popup.keys
      /\ popup'.hook = "pending" => popup.hook = "pending"
  BY <1>1 DEF CompleteRepair, NoPopup, TypeOK, Popups
<1>5. TypeOK'
  BY <1>1, <1>2, <1>3, <1>4 DEF TypeOK
<1>6. IPlace' /\ IHandled'
  BY <1>2, <1>4 DEF IInv, IPlace, IHandled
<1>7. Writes(reg, reg', "host", "host")
  BY <1>3, ClearsWrites
<1>8. QED  BY <1>2, <1>4, <1>5, <1>6, <1>7, HostIsAllowed, Steady

LEMMA CloseResultKeeps ==
  ASSUME IInv, CloseResult
  PROVE  IInv'
<1>1. CASE CompleteRepair
  BY <1>1, CompleteRepairKeeps
<1>2. CASE /\ popup' = [popup EXCEPT !.shown = "closing"]
           /\ UNCHANGED <<scope, reg, refresh, run, handled, inFlight, userCancelled, queued, turns>>
  <2>1. /\ popup' \in Popups /\ popup'.hook = popup.hook /\ popup'.keys = popup.keys
        /\ popup'.shown # "none"
    BY <1>2 DEF IInv, TypeOK, Popups
  <2>2. TypeOK' /\ IPlace' /\ IHandled'
    BY <1>2, <2>1 DEF IInv, TypeOK, IPlace, IHandled
  <2>3. QED  BY <1>2, <2>1, <2>2, HostIsAllowed, Steady
<1>3. QED  BY <1>1, <1>2 DEF CloseResult

LEMMA FinishResultKeeps ==
  ASSUME IInv, FinishResult
  PROVE  IInv'
BY CompleteRepairKeeps DEF FinishResult

-----------------------------------------------------------------------------
(* The automatic refresh and the session.                                  *)

LEMMA RefreshKeeps ==
  ASSUME IInv, refresh' \in Refreshes, queued' \in {"no", "yes", "posted"},
         UNCHANGED <<scope, reg, run, popup, handled, inFlight, userCancelled, turns>>
  PROVE  IInv'
<1>1. TypeOK'
  BY DEF IInv, TypeOK
<1>2. QED  BY <1>1, HostIsAllowed, StoppingKeeps

LEMMA TimerFiresKeeps ==
  ASSUME IInv, TimerFires
  PROVE  IInv'
<1>1. TypeOK  BY DEF IInv
<1> DEFINE stale == reg[Live(scope)].stale \cap Sections
<1> DEFINE over == [refresh EXCEPT !.due = FALSE]
<1>2. /\ over \in Refreshes /\ [over EXCEPT !.force = FALSE] \in Refreshes
      /\ [over EXCEPT !.awaiting = TRUE] \in Refreshes
  BY <1>1 DEF TypeOK, Refreshes
<1>3. UNCHANGED <<scope, popup, handled, turns>> /\ ~GateHeld
  BY DEF TimerFires, CanTurn
<1> HIDE DEF over, stale
<1>4. CASE /\ refresh' \in {over, [over EXCEPT !.force = FALSE], [over EXCEPT !.awaiting = TRUE]}
           /\ queued' \in {"no", "yes", "posted"}
           /\ UNCHANGED <<reg, run, inFlight, userCancelled>>
  BY <1>2, <1>3, <1>4, RefreshKeeps
<1>5. CASE Ready(scope) /\ BeginAll(TRUE) /\ refresh' = over /\ queued' = "no"
  BY <1>1, <1>2, <1>3, <1>5, BeginAllKeeps DEF TypeOK
<1>6. CASE /\ Ready(scope) /\ Begin("some", stale, TRUE) /\ refresh' = over /\ inFlight' = "report"
           /\ UNCHANGED <<reg, queued>>
  <2>1. stale \in SUBSET Keys
    BY DEF stale, Keys
  <2>2. /\ run' \in Requests /\ run'.kind \in Diagnostics /\ userCancelled' = FALSE
        /\ run'.host \/ (run'.drive = scope.drive /\ run'.drive \in Drives)
    BY <1>1, <1>6, <2>1, BeginBegins DEF Diagnostics
  <2>3. TypeOK'
    BY <1>1, <1>2, <1>3, <1>6, <2>2 DEF TypeOK
  <2>4. QED  BY <1>3, <1>6, <2>2, <2>3, HostIsAllowed, AskKeeps DEF GateHeld
<1>7. QED  BY <1>1, <1>4, <1>5, <1>6 DEF TimerFires, TypeOK, over, stale

LEMMA RunDeferredKeeps ==
  ASSUME IInv, RunDeferred
  PROVE  IInv'
<1>1. [refresh EXCEPT !.deferred = FALSE] \in Refreshes
  BY DEF IInv, TypeOK, Refreshes
<1>2. refresh' \in Refreshes
  BY <1>1, ScheduleIsRefresh DEF RunDeferred
<1>3. QED  BY <1>2, RefreshKeeps DEF RunDeferred, IInv, TypeOK

LEMMA SessionEstablishedKeeps ==
  ASSUME IInv, SessionEstablished
  PROVE  IInv'
<1> DEFINE up == [refresh EXCEPT !.session = TRUE]
<1>1. up \in Refreshes /\ [up EXCEPT !.awaiting = FALSE] \in Refreshes
  BY DEF IInv, TypeOK, Refreshes
<1> HIDE DEF up
<1>2. Schedule([up EXCEPT !.awaiting = FALSE], FALSE, scope, reg, GateHeld) \in Refreshes
  BY <1>1, ScheduleIsRefresh, GateIsBoolean
<1>3. refresh' \in Refreshes
  BY <1>1, <1>2 DEF SessionEstablished, up
<1>4. QED  BY <1>3, RefreshKeeps DEF SessionEstablished, IInv, TypeOK

LEMMA SessionLostKeeps ==
  ASSUME IInv, SessionLost
  PROVE  IInv'
<1>1. refresh' \in Refreshes
  BY DEF SessionLost, IInv, TypeOK, Refreshes
<1>2. QED  BY <1>1, RefreshKeeps DEF SessionLost, IInv, TypeOK

-----------------------------------------------------------------------------
(* The theorems.                                                           *)

LEMMA InitHolds ==
  ASSUME Init
  PROVE  IInv
<1>1. NoBody \in Bodies /\ \A k \in Keys : NoBody[k] = None
  BY DEF NoBody, Bodies
<1>2. scope \in Scopes /\ reg \in Registers(scope.drive) /\ refresh \in Refreshes
  BY <1>1 DEF Init, Scopes, Registers, Refreshes
<1>3. popup \in Popups /\ popup.hook = "none"
  BY DEF Init, NoPopup, Popups
<1>4. TypeOK
  <2>1. 0 \in 0..MaxTurns
    BY EvidenceAssumption
  <2>2. QED  BY <1>2, <1>3, <2>1, NoRunIsRequest DEF Init, TypeOK
<1>5. IOwn /\ IRun /\ IPlace /\ IHandled
  BY <1>1, <1>3, NoRunIsRequest
     DEF Init, IOwn, Own, IRun, IPlace, IHandled, Diagnostics, Mutators
<1>6. IDated
  <2>1. \A R \in Sides, k \in Keys : reg[R].body[k] = None
    BY <1>1 DEF Init, Sides
  <2>2. QED  BY <2>1 DEF IDated, DatedIsOwed, Dated
<1>7. QED  BY <1>4, <1>5, <1>6 DEF IInv

LEMMA NextKeeps ==
  ASSUME IInv, [Next]_vars
  PROVE  IInv'
<1>1. CASE UNCHANGED vars
  <2>1. TypeOK' /\ IOwn' /\ IRun' /\ IPlace' /\ IHandled'
    BY <1>1 DEF vars, IInv, TypeOK, IOwn, IRun, IPlace, IHandled
  <2>2. IDated'
    BY <1>1 DEF vars, IInv, IDated
  <2>3. QED  BY <2>1, <2>2 DEF IInv
<1>2. CASE User
  BY <1>2, EnterHostKeeps, ExitHostKeeps, SelectDriveKeeps, RunOneKeeps, ClickRunAllKeeps,
     UserCancelKeeps, StartRepairKeeps, RefusedRepairKeeps, StartShellKeeps, CloseResultKeeps,
     ToggleAutoRefreshKeeps, ClearLogKeeps
     DEF User
<1>3. CASE DiagnosticEnds \/ MutatorEnds \/ WorldChanges
  BY <1>3, AllEndsKeeps, OneEndsKeeps, SomeEndsKeeps, MutationUnchangedKeeps, RepairSucceedsKeeps,
     RepairFailsKeeps, ShellEndsKeeps, MutationCancelledKeeps, WorldChangesKeeps
     DEF DiagnosticEnds, MutatorEnds
<1>4. CASE PostedRunAll \/ \E s \in Sections : Stream(s)
  BY <1>4, PostedRunAllKeeps, StreamKeeps
<1>5. CASE Hook \/ FinishResult \/ TimerFires \/ RunDeferred
  BY <1>5, HookKeeps, FinishResultKeeps, TimerFiresKeeps, RunDeferredKeeps
<1>6. CASE SessionEstablished \/ SessionLost
  BY <1>6, SessionEstablishedKeeps, SessionLostKeeps
<1>7. QED  BY <1>1, <1>2, <1>3, <1>4, <1>5, <1>6 DEF Next

(* The inductive invariant holds in every reachable state. *)
THEOREM EvidenceInvariant == Spec => []IInv
<1>1. Init => IInv
  BY InitHolds
<1>2. IInv /\ [Next]_vars => IInv'
  BY NextKeeps
<1>3. QED  BY <1>1, <1>2, PTL DEF Spec

(* Every variable of the cache has its type, whatever the sets of drives,  *)
(* sections, tools and classes of commands.                                *)
THEOREM EvidenceTypes == Spec => []TypeOK
<1>1. IInv => TypeOK
  BY DEF IInv
<1>2. QED  BY <1>1, EvidenceInvariant, PTL

(* No repair is offered on another system's evidence: a text of a register *)
(* that asks for no regeneration is the live system's, and a repair needs  *)
(* such a text.                                                            *)
THEOREM ForeignIsGated == Spec => []ForeignEvidenceIsGated
<1>1. IInv => ForeignEvidenceIsGated
  <2> SUFFICES ASSUME IInv, NEW t \in Tools, RepairOffered(t), NEW e \in Evidence(t)
               PROVE  e.from = Subject(scope)
    BY DEF ForeignEvidenceIsGated
  <2>1. TypeOK /\ Live(scope) \in Sides /\ Needs[t] \subseteq Sections /\ Needs[t] # {}
    BY EvidenceAssumption DEF IInv, Live, Register, Sides
  <2>2. /\ \A s \in Needs[t] : reg[Live(scope)].body[s] # None
        /\ ~reg[Live(scope)].need
    BY <2>1 DEF RepairOffered, MissingSections
  <2>3. CapabilityEvidence(reg[Live(scope)].body) # None
    BY DEF RepairOffered, HasPreamble
  <2>4. PICK k \in Keys : e = reg[Live(scope)].body[k] /\ e # None
    <3>1. \A s \in Needs[t] : s \in Keys
      BY <2>1 DEF Keys
    <3>2. "capabilities" \in Keys /\ "report" \in Keys
      BY DEF Keys
    <3>3. QED  BY <2>2, <2>3, <3>1, <3>2 DEF Evidence, CapabilityEvidence
  <2>5. CASE scope.host
    <3>1. Live(scope) = "host" /\ Subject(scope) = "host"
      BY <2>5 DEF Live, Register, Subject
    <3>2. QED  BY <2>4, <3>1 DEF IInv, IOwn, Own
  <2>6. CASE ~scope.host
    <3>1. Live(scope) = "target" /\ Subject(scope) = scope.drive
      BY <2>6 DEF Live, Register, Subject
    <3>2. QED  BY <2>2, <2>4, <3>1 DEF IInv, IOwn, Own
  <2>7. QED  BY <2>5, <2>6
<1>2. QED  BY <1>1, EvidenceInvariant, PTL

(* No repair is started on a section that a change has overtaken and that  *)
(* somebody is still going to invalidate.                                  *)
THEOREM OutdatedIsGated == Spec => []OutdatedEvidenceIsGated
<1>1. IInv => OutdatedEvidenceIsGated
  <2> SUFFICES ASSUME IInv, NEW t \in Tools, Startable(t), NEW s \in Needs[t]
               PROVE  reg[Live(scope)].body[s].age # "outdated"
    BY DEF OutdatedEvidenceIsGated
  <2>1. TypeOK /\ Live(scope) \in Sides /\ s \in Sections /\ s \in Keys
    BY EvidenceAssumption DEF IInv, Live, Register, Sides, Keys
  <2>2. run.kind = "none" /\ popup.hook # "pending"
    BY <2>1, FreeGate DEF Startable
  <2>3. reg[Live(scope)].body[s] # None
    BY DEF Startable, RepairOffered, MissingSections
  <2>4. ~Dated(reg, Live(scope), s)
    BY <2>1, <2>2 DEF IInv, IDated, DatedIsOwed, Owed, Mutators
  <2>5. QED  BY <2>3, <2>4 DEF Dated
<1>2. QED  BY <1>1, EvidenceInvariant, PTL

(* The return from the dialog of a success invalidates nothing once the    *)
(* hook has run.                                                           *)
THEOREM InvalidatedOnce == Spec => NoSecondInvalidation
<1>1. ASSUME IInv, [Next]_vars, popup.shown # "none", popup'.shown = "none", popup.hook = "ran"
      PROVE  reg' = reg
  <2>1. handled
    BY <1>1 DEF IInv, IHandled
  <2>2. CASE CompleteRepair
    BY <2>1, <2>2 DEF CompleteRepair
  <2>3. CASE ~CompleteRepair
    <3>1. popup' # popup
      BY <1>1
    <3>2. ~User
      BY <1>1, <2>3, <3>1
         DEF User, EnterHost, ExitHost, SelectDrive, ScopeChange, RunOne, ClickRunAll,
             RunAllDiagnostics, UserCancel, StartRepair, RefusedRepair, StartShell, CloseResult,
             ToggleAutoRefresh, ClearLog, IInv, TypeOK, Popups
    <3>3. ~DiagnosticEnds /\ ~WorldChanges
      BY <3>1 DEF DiagnosticEnds, AllEnds, OneEnds, SomeEnds, RunEnds, WorldChanges
    <3>4. ~MutatorEnds
      <4>1. ~MutationUnchanged /\ ~RepairFails /\ ~ShellEnds /\ ~MutationCancelled
        BY <3>1 DEF MutationUnchanged, RepairFails, ShellEnds, MutationCancelled
      <4>2. ~RepairSucceeds
        <5>1. ASSUME RepairSucceeds
              PROVE  popup' = popup \/ popup' = [shown |-> "open", hook |-> "pending", keys |-> run.keys]
          BY <5>1 DEF RepairSucceeds
        <5>2. QED  BY <1>1, <3>1, <5>1
      <4>3. QED  BY <4>1, <4>2 DEF MutatorEnds
    <3>5. ~PostedRunAll /\ ~FinishResult /\ \A s \in Sections : ~Stream(s)
      BY <2>3, <3>1 DEF PostedRunAll, RunAllDiagnostics, FinishResult, Stream
    <3>6. ~TimerFires /\ ~RunDeferred /\ ~SessionEstablished /\ ~SessionLost
      BY <3>1 DEF TimerFires, RunDeferred, SessionEstablished, SessionLost
    <3>7. ~Hook
      BY <1>1 DEF Hook
    <3>8. QED  BY <1>1, <3>1, <3>2, <3>3, <3>4, <3>5, <3>6, <3>7 DEF Next, vars
  <2>4. QED  BY <2>2, <2>3
<1>2. IInv /\ [Next]_vars =>
        [popup.shown # "none" /\ popup'.shown = "none" /\ popup.hook = "ran" => reg' = reg]_vars
  BY <1>1
<1>3. QED  BY <1>2, EvidenceInvariant, PTL DEF Spec, NoSecondInvalidation
=============================================================================
