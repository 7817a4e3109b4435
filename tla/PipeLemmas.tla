---------------------------- MODULE PipeLemmas ----------------------------
(***************************************************************************)
(* What the proofs about the session say of a pipe, and what appending a   *)
(* record to it and taking one from it do to what is said.  Proofs of the  *)
(* actions use only Taken, Shrunk and Grown, never the sequences themselves. *)
(***************************************************************************)
EXTENDS SessionProtocol, SequenceTheorems, TLAPS

\* Only records that a dispatch of request i understands.
ServesOnly(s, i) ==
    \A n \in DOMAIN s :
        \/ s[n].tag = "QUIT"
        \/ s[n].tag \in {"ANSWER", "CANCEL"} /\ s[n].id = i

\* What follows a BEGIN is of the same request.
BeginLast(s) ==
    \A n, m \in DOMAIN s :
        s[n].tag = "BEGIN" /\ m > n =>
            \/ s[m].tag = "QUIT"
            \/ s[m].tag \in {"ANSWER", "CANCEL"} /\ s[m].id = s[n].id

\* Nothing follows a DONE.
DoneLast(s) == \A n \in DOMAIN s : s[n].tag = "DONE" => n = Len(s)

\* A DONE of request i with code c.
InDone(s, i, c) == \E n \in DOMAIN s : s[n].tag = "DONE" /\ s[n].id = i /\ s[n].rc = c

\* A PROMPT names a stage and a DONE carries a code.
WellFormed(s) ==
    \A n \in DOMAIN s :
        /\ s[n].tag = "PROMPT" => s[n].stage \in Stages
        /\ s[n].tag = "DONE" => s[n].rc # "none"

\* Append, index by index.
LEMMA Appended ==
    ASSUME NEW S, NEW s \in Seq(S), NEW r \in S
    PROVE  /\ Append(s, r) \in Seq(S)
           /\ DOMAIN Append(s, r) = DOMAIN s \cup {Len(s) + 1}
           /\ \A n \in DOMAIN s : /\ Append(s, r)[n] = s[n]
                                 /\ n # Len(s) + 1 /\ n < Len(s) + 1 /\ n \in Nat
           /\ Append(s, r)[Len(s) + 1] = r
           /\ Len(Append(s,r)) = Len(s) + 1 /\ Len(s) \in Nat
  OBVIOUS

\* Head and Tail, index by index.
LEMMA Removed ==
    ASSUME NEW S, NEW s \in Seq(S), s # <<>>
    PROVE  /\ Tail(s) \in Seq(S) /\ Head(s) \in S
           /\ Head(s) = s[1] /\ 1 \in DOMAIN s
           /\ \A n \in DOMAIN Tail(s) :
                 n + 1 \in DOMAIN s /\ Tail(s)[n] = s[n + 1] /\ n \in Nat /\ n > 0
           /\ \A n \in DOMAIN s : n # 1 => n - 1 \in DOMAIN Tail(s) /\ s[n] = Tail(s)[n - 1]
           /\ \A n \in DOMAIN s : n \in Nat
           /\ Len(Tail(s)) = Len(s) - 1 /\ Len(s) \in Nat
           /\ Len(s) = 1 => Tail(s) = <<>>
<1>1. /\ Tail(s) \in Seq(S) /\ Head(s) \in S
      /\ Head(s) = s[1] /\ 1 \in DOMAIN s
      /\ \A n \in DOMAIN Tail(s) :
            n + 1 \in DOMAIN s /\ Tail(s)[n] = s[n + 1] /\ n \in Nat /\ n > 0
      /\ \A n \in DOMAIN s : n # 1 => n - 1 \in DOMAIN Tail(s) /\ s[n] = Tail(s)[n - 1]
      /\ \A n \in DOMAIN s : n \in Nat
      /\ Len(Tail(s)) = Len(s) - 1 /\ Len(s) \in Nat
  OBVIOUS
<1>2. Len(s) = 1 => Tail(s) = <<>>
  BY <1>1, EmptySeq
<1> QED BY <1>1, <1>2

\* The records of a pipe after a write are the old ones and the new one.
LEMMA AppendTags ==
    ASSUME NEW S, NEW s \in Seq(S), NEW r \in S
    PROVE  /\ \A t : Mentions(Append(s, r), t) <=> Mentions(s, t) \/ r.tag = t
           /\ \A t, i : InPipe(Append(s, r), t, i) <=>
                            InPipe(s, t, i) \/ (r.tag = t /\ r.id = i)
           /\ \A i, c : InDone(Append(s, r), i, c) <=>
                            InDone(s, i, c) \/ (r.tag = "DONE" /\ r.id = i /\ r.rc = c)
  BY Appended DEF Mentions, InPipe, InDone

\* The records of a pipe are its head and those of its tail.
LEMMA TailTags ==
    ASSUME NEW S, NEW s \in Seq(S), s # <<>>
    PROVE  /\ \A t : Mentions(s, t) <=> Mentions(Tail(s), t) \/ Head(s).tag = t
           /\ \A t, i : InPipe(s, t, i) <=>
                            InPipe(Tail(s), t, i) \/ (Head(s).tag = t /\ Head(s).id = i)
           /\ \A i, c : InDone(s, i, c) <=>
                  \/ InDone(Tail(s), i, c)
                  \/ Head(s).tag = "DONE" /\ Head(s).id = i /\ Head(s).rc = c
<1>1. \A n \in DOMAIN s : s[n] = Head(s) \/ \E m \in DOMAIN Tail(s) : s[n] = Tail(s)[m]
  <2> TAKE n \in DOMAIN s
  <2>1. CASE n = 1  BY <2>1, Removed
  <2>2. CASE n # 1
    <3>1. n - 1 \in DOMAIN Tail(s) /\ s[n] = Tail(s)[n - 1]  BY <2>2, Removed
    <3> QED BY <3>1
  <2> QED BY <2>1, <2>2
<1>2. \A m \in DOMAIN Tail(s) : \E n \in DOMAIN s : s[n] = Tail(s)[m]
  BY Removed
<1>3. \E n \in DOMAIN s : s[n] = Head(s)
  BY Removed
<1>4. \A t : Mentions(s, t) <=> Mentions(Tail(s), t) \/ Head(s).tag = t
  BY <1>1, <1>2, <1>3 DEF Mentions
<1>5. \A t, i : InPipe(s, t, i) <=>
                    InPipe(Tail(s), t, i) \/ (Head(s).tag = t /\ Head(s).id = i)
  BY <1>1, <1>2, <1>3 DEF InPipe
<1>6. \A i, c : InDone(s, i, c) <=>
          \/ InDone(Tail(s), i, c)
          \/ Head(s).tag = "DONE" /\ Head(s).id = i /\ Head(s).rc = c
  <2> TAKE i, c
  <2>1. InDone(s, i, c) => \/ InDone(Tail(s), i, c)
                           \/ Head(s).tag = "DONE" /\ Head(s).id = i /\ Head(s).rc = c
    BY <1>1 DEF InDone
  <2>2. InDone(Tail(s), i, c) => InDone(s, i, c)
    BY <1>2 DEF InDone
  <2>3. Head(s).tag = "DONE" /\ Head(s).id = i /\ Head(s).rc = c => InDone(s, i, c)
    BY <1>3 DEF InDone
  <2> QED BY <2>1, <2>2, <2>3
<1> QED BY <1>4, <1>5, <1>6

\* An empty pipe mentions nothing and is in every order.
LEMMA EmptyTags ==
    /\ \A t : ~Mentions(<<>>, t)
    /\ \A t, i : ~InPipe(<<>>, t, i)
    /\ \A i, c : ~InDone(<<>>, i, c)
    /\ \A i : ServesOnly(<<>>, i)
    /\ BeginLast(<<>>) /\ DoneLast(<<>>) /\ WellFormed(<<>>)
  BY DEF Mentions, InPipe, InDone, ServesOnly, BeginLast, DoneLast, WellFormed

\* When a write keeps what is said of the order of a pipe.
LEMMA AppendOrder ==
    ASSUME NEW S, NEW s \in Seq(S), NEW r \in S
    PROVE  /\ \A i : ServesOnly(Append(s, r), i) <=>
                  /\ ServesOnly(s, i)
                  /\ r.tag = "QUIT" \/ (r.tag \in {"ANSWER", "CANCEL"} /\ r.id = i)
           /\ BeginLast(s) /\ ~Mentions(s, "BEGIN") => BeginLast(Append(s, r))
           /\ BeginLast(s) /\ r.tag = "QUIT" => BeginLast(Append(s, r))
           /\ /\ BeginLast(s) /\ r.tag \in {"ANSWER", "CANCEL"}
              /\ \A i : InPipe(s, "BEGIN", i) => i = r.id
              => BeginLast(Append(s, r))
           /\ ~Mentions(s, "DONE") => DoneLast(Append(s, r))
           /\ /\ WellFormed(s)
              /\ r.tag = "PROMPT" => r.stage \in Stages
              /\ r.tag = "DONE" => r.rc # "none"
              => WellFormed(Append(s, r))
<1>1. \A i : ServesOnly(Append(s, r), i) <=>
                  /\ ServesOnly(s, i)
                  /\ r.tag = "QUIT" \/ (r.tag \in {"ANSWER", "CANCEL"} /\ r.id = i)
  BY Appended DEF ServesOnly
<1>2. BeginLast(s) /\ ~Mentions(s, "BEGIN") => BeginLast(Append(s, r))
  BY Appended DEF BeginLast, Mentions
<1>3. BeginLast(s) /\ r.tag = "QUIT" => BeginLast(Append(s, r))
  BY Appended DEF BeginLast
<1>4. /\ BeginLast(s) /\ r.tag \in {"ANSWER", "CANCEL"}
      /\ \A i : InPipe(s, "BEGIN", i) => i = r.id
      => BeginLast(Append(s, r))
  BY Appended DEF BeginLast, InPipe
<1>5. ~Mentions(s, "DONE") => DoneLast(Append(s, r))
  BY Appended DEF DoneLast, Mentions
<1>6. /\ WellFormed(s)
      /\ r.tag = "PROMPT" => r.stage \in Stages
      /\ r.tag = "DONE" => r.rc # "none"
      => WellFormed(Append(s, r))
  BY Appended DEF WellFormed
<1> QED BY <1>1, <1>2, <1>3, <1>4, <1>5, <1>6

\* A read keeps what is said of the order of a pipe.
LEMMA TailOrder ==
    ASSUME NEW S, NEW s \in Seq(S), s # <<>>
    PROVE  /\ \A i : ServesOnly(s, i) => ServesOnly(Tail(s), i)
           /\ \A i : ServesOnly(s, i) => ~Mentions(s, "BEGIN")
           /\ BeginLast(s) => BeginLast(Tail(s))
           /\ BeginLast(s) /\ Head(s).tag = "BEGIN" => ServesOnly(Tail(s), Head(s).id)
           /\ DoneLast(s) => DoneLast(Tail(s))
           /\ DoneLast(s) /\ Head(s).tag = "DONE" => Tail(s) = <<>>
           /\ WellFormed(s) => WellFormed(Tail(s))
           /\ WellFormed(s) =>
                 /\ Head(s).tag = "PROMPT" => Head(s).stage \in Stages
                 /\ Head(s).tag = "DONE" => Head(s).rc # "none"
<1>1. \A i : ServesOnly(s, i) => ServesOnly(Tail(s), i)
  BY Removed DEF ServesOnly
<1>2. \A i : ServesOnly(s, i) => ~Mentions(s, "BEGIN")
  BY DEF ServesOnly, Mentions
<1>3. BeginLast(s) => BeginLast(Tail(s))
  BY Removed DEF BeginLast
<1>4. BeginLast(s) /\ Head(s).tag = "BEGIN" => ServesOnly(Tail(s), Head(s).id)
  BY Removed DEF BeginLast, ServesOnly
<1>5. DoneLast(s) => DoneLast(Tail(s))
  BY Removed DEF DoneLast
<1>6. DoneLast(s) /\ Head(s).tag = "DONE" => Tail(s) = <<>>
  BY Removed DEF DoneLast
<1>7. WellFormed(s) => WellFormed(Tail(s))
  BY Removed DEF WellFormed
<1>8. WellFormed(s) =>
          /\ Head(s).tag = "PROMPT" => Head(s).stage \in Stages
          /\ Head(s).tag = "DONE" => Head(s).rc # "none"
  BY Removed DEF WellFormed
<1> QED BY <1>1, <1>2, <1>3, <1>4, <1>5, <1>6, <1>7, <1>8

---------------------------------------------------------------------------
(* One step of a pipe.                                                     *)

\* t is s with some records gone.
Shrunk(s, t) ==
    /\ \A g, i : InPipe(t, g, i) => InPipe(s, g, i)
    /\ \A g : Mentions(t, g) => Mentions(s, g)
    /\ \A i, c : InDone(t, i, c) => InDone(s, i, c)
    /\ \A i : ServesOnly(s, i) => ServesOnly(t, i)
    /\ BeginLast(s) => BeginLast(t)
    /\ DoneLast(s) => DoneLast(t)
    /\ WellFormed(s) => WellFormed(t)

\* Record r is one that a dispatch of request i understands.
Serves(r, i) == r.tag = "QUIT" \/ (r.tag \in {"ANSWER", "CANCEL"} /\ r.id = i)

\* t is s without its first record, r.
Taken(s, t, r) ==
    /\ Shrunk(s, t)
    /\ InPipe(s, r.tag, r.id) /\ Mentions(s, r.tag)
    /\ r.tag = "DONE" => InDone(s, r.id, r.rc)
    /\ \A i : ServesOnly(s, i) => Serves(r, i) /\ ~Mentions(s, "BEGIN")
    /\ BeginLast(s) /\ r.tag = "BEGIN" => ServesOnly(t, r.id) /\ ~Mentions(t, "BEGIN")
    /\ DoneLast(s) /\ r.tag = "DONE" => t = <<>>
    /\ WellFormed(s) =>
          /\ r.tag = "PROMPT" => r.stage \in Stages
          /\ r.tag = "DONE" => r.rc # "none"

\* t is s, or s and the record r.
Grown(s, t, r) ==
    /\ \A g, i : InPipe(t, g, i) => InPipe(s, g, i) \/ (r.tag = g /\ r.id = i)
    /\ \A g : Mentions(t, g) => Mentions(s, g) \/ r.tag = g
    /\ \A i, c : InDone(t, i, c) => InDone(s, i, c) \/ (r.tag = "DONE" /\ r.id = i /\ r.rc = c)
    /\ \A i : ServesOnly(s, i) /\ Serves(r, i) => ServesOnly(t, i)
    /\ BeginLast(s) /\ (r.tag = "QUIT" \/ ~Mentions(s, "BEGIN")) => BeginLast(t)
    /\ BeginLast(s) /\ Serves(r, r.id) /\ (\A i : InPipe(s, "BEGIN", i) => i = r.id) => BeginLast(t)
    /\ ~Mentions(s, "DONE") => DoneLast(t)
    /\ /\ WellFormed(s)
       /\ r.tag = "PROMPT" => r.stage \in Stages
       /\ r.tag = "DONE" => r.rc # "none"
       => WellFormed(t)

\* Reading takes the first record.
LEMMA TailTaken ==
    ASSUME NEW S, NEW s \in Seq(S), s # <<>>
    PROVE  Tail(s) \in Seq(S) /\ Head(s) \in S /\ Taken(s, Tail(s), Head(s))
<1>1. Tail(s) \in Seq(S) /\ Head(s) \in S
  BY Removed
<1>2. Shrunk(s, Tail(s))
  BY TailTags, TailOrder DEF Shrunk
<1>3. \A i : ServesOnly(s, i) => Serves(Head(s), i) /\ ~Mentions(s, "BEGIN")
  <2>1. \A i : ServesOnly(s, i) => Serves(Head(s), i)
    BY Removed DEF ServesOnly, Serves
  <2> QED BY <2>1, TailOrder
<1>4. InPipe(s, Head(s).tag, Head(s).id) /\ Mentions(s, Head(s).tag)
  BY TailTags
<1>5. Head(s).tag = "DONE" => InDone(s, Head(s).id, Head(s).rc)
  BY TailTags
<1>6. BeginLast(s) /\ Head(s).tag = "BEGIN"
        => ServesOnly(Tail(s), Head(s).id) /\ ~Mentions(Tail(s), "BEGIN")
  BY TailOrder DEF ServesOnly, Mentions
<1> QED BY <1>1, <1>2, <1>3, <1>4, <1>5, <1>6, TailOrder DEF Taken

\* A pipe that is thrown away has lost records.
LEMMA EmptyShrunk ==
    ASSUME NEW s
    PROVE  Shrunk(s, <<>>)
  BY EmptyTags DEF Shrunk

\* A pipe that is left alone has lost none.
LEMMA SameShrunk ==
    ASSUME NEW s
    PROVE  Shrunk(s, s)
  BY DEF Shrunk

\* Writing adds one record.
LEMMA AppendGrown ==
    ASSUME NEW S, NEW s \in Seq(S), NEW r \in S
    PROVE  Append(s, r) \in Seq(S) /\ Grown(s, Append(s, r), r)
<1>1. BeginLast(s) /\ Serves(r, r.id) /\ (\A i : InPipe(s, "BEGIN", i) => i = r.id)
        => BeginLast(Append(s, r))
  BY AppendOrder DEF Serves
<1>2. \A i : ServesOnly(s, i) /\ Serves(r, i) => ServesOnly(Append(s, r), i)
  BY AppendOrder DEF Serves
<1> QED BY <1>1, <1>2, Appended, AppendTags, AppendOrder DEF Grown

\* A write to a broken pipe adds none.
LEMMA SameGrown ==
    ASSUME NEW s, NEW r
    PROVE  Grown(s, s, r)
  BY DEF Grown, BeginLast, DoneLast, Mentions
=============================================================================
