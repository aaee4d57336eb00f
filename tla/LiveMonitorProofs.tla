-------------------------- MODULE LiveMonitorProofs --------------------------
(***************************************************************************)
(* Proofs about LiveMonitor, for any tree and any number of changes: once  *)
(* the events are handled no file is missing from the index, the index is  *)
(* exact for every file not in doubt, with inotify or fanotify, and the    *)
(* inotify watcher watches every directory under its present path. Q is    *)
(* the queue with the second event of a rename that is about to join it.   *)
(* The invariants of inotify are TableInv (directories), RemInv, PairInv   *)
(* and PendInv (the order of events), FileInv (no file is missing) and     *)
(* RowInv (no row too many), with their types in Typed; those of fanotify  *)
(* are FanTyped, FanFile and FanRows.                                      *)
(***************************************************************************)
EXTENDS LiveMonitor, FiniteSetTheorems, SequenceTheorems, TLAPS

-----------------------------------------------------------------------------
(* Paths.                                                                  *)

Path == Seq(STRING)

LEMMA PathsType == \A p \in Paths : p \in Path /\ p # Root
BY PathsAssumption DEF Path

\* One path is above another one, or equal.
LEMMA PrefixIs ==
    ASSUME NEW a \in Path, NEW p \in Path
    PROVE  IsPrefix(a, p) <=> Len(a) <= Len(p) /\ \A i \in 1..Len(a) : a[i] = p[i]
<1>1. Len(a) \in Nat /\ Len(p) \in Nat
  BY DEF Path
<1>2. SubSeq(a, 1, Len(a)) = a
  BY SubSeqFull DEF Path
<1>3. CASE Len(a) <= Len(p)
  <2>1. \A i \in 1..Len(a) : p[i] \in STRING
    BY <1>1, <1>3, ElementOfSeq DEF Path
  <2>2. /\ SubSeq(p, 1, Len(a)) \in Seq(STRING) /\ Len(SubSeq(p, 1, Len(a))) = Len(a)
        /\ \A i \in 1..Len(a) : SubSeq(p, 1, Len(a))[i] = p[i]
    <3> DEFINE n == Len(a)
    <3>1. n \in Nat /\ \A i \in 1..n : p[i] \in STRING
      BY <1>1, <2>1
    <3> HIDE DEF n
    <3>2. /\ SubSeq(p, 1, n) \in Seq(STRING)
          /\ Len(SubSeq(p, 1, n)) = IF 1 <= n THEN n - 1 + 1 ELSE 0
          /\ \A i \in 1..(n - 1 + 1) : SubSeq(p, 1, n)[i] = p[1 + i - 1]
      BY <3>1, SubSeqProperties
    <3>3. Len(SubSeq(p, 1, n)) = n /\ \A i \in 1..n : SubSeq(p, 1, n)[i] = p[i]
      BY <3>1, <3>2
    <3> QED
      BY <3>2, <3>3 DEF n
  <2>3. a = SubSeq(p, 1, Len(a)) <=> \A i \in 1..Len(a) : a[i] = SubSeq(p, 1, Len(a))[i]
    BY <2>2, SeqEqual DEF Path
  <2> QED
    BY <1>1, <1>2, <1>3, <2>2, <2>3 DEF IsPrefix
<1> QED
  BY <1>1, <1>3 DEF IsPrefix

LEMMA PrefixReflexive == \A p \in Path : IsPrefix(p, p)
<1> SUFFICES ASSUME NEW p \in Path PROVE IsPrefix(p, p)
  OBVIOUS
<1>1. Len(p) \in Nat
  BY DEF Path
<1> QED
  BY <1>1, PrefixIs

LEMMA PrefixTransitive ==
    \A a, b, c \in Path : IsPrefix(a, b) /\ IsPrefix(b, c) => IsPrefix(a, c)
<1> SUFFICES ASSUME NEW a \in Path, NEW b \in Path, NEW c \in Path, IsPrefix(a, b), IsPrefix(b, c)
             PROVE  IsPrefix(a, c)
  OBVIOUS
<1>1. Len(a) \in Nat /\ Len(b) \in Nat /\ Len(c) \in Nat
  BY DEF Path
<1> QED
  BY <1>1, PrefixIs

LEMMA PrefixAntisymmetric ==
    \A a, b \in Path : IsPrefix(a, b) /\ IsPrefix(b, a) => a = b
<1> SUFFICES ASSUME NEW a \in Path, NEW b \in Path, IsPrefix(a, b), IsPrefix(b, a)
             PROVE  a = b
  OBVIOUS
<1>1. Len(a) \in Nat /\ Len(b) \in Nat
  BY DEF Path
<1>2. Len(a) = Len(b) /\ \A i \in 1..Len(a) : a[i] = b[i]
  BY <1>1, PrefixIs
<1> QED
  BY <1>2, SeqEqual DEF Path

\* Two paths above the same one are above each other.
LEMMA PrefixChain ==
    \A a, b, c \in Path : IsPrefix(a, c) /\ IsPrefix(b, c) => IsPrefix(a, b) \/ IsPrefix(b, a)
<1> SUFFICES ASSUME NEW a \in Path, NEW b \in Path, NEW c \in Path, IsPrefix(a, c), IsPrefix(b, c)
             PROVE  IsPrefix(a, b) \/ IsPrefix(b, a)
  OBVIOUS
<1>1. Len(a) \in Nat /\ Len(b) \in Nat /\ Len(c) \in Nat
  BY DEF Path
<1> QED
  BY <1>1, PrefixIs

LEMMA RootPrefix == Root \in Path /\ \A p \in Path : IsPrefix(Root, p) /\ (IsPrefix(p, Root) => p = Root)
<1>1. Root \in Path /\ Len(Root) = 0
  BY EmptySeq DEF Root, Path
<1>2. ASSUME NEW p \in Path PROVE IsPrefix(Root, p)
  <2>1. Len(p) \in Nat
    BY DEF Path
  <2> QED
    BY <1>1, <2>1, PrefixIs
<1> QED
  BY <1>1, <1>2, PrefixAntisymmetric

LEMMA AppendOne ==
    ASSUME NEW S, NEW s \in Seq(S), NEW e \in S
    PROVE  /\ Append(s, e) \in Seq(S) /\ Len(Append(s, e)) = Len(s) + 1 /\ Len(s) \in Nat
           /\ \A k \in 1..Len(s) : k \in 1..Len(Append(s, e)) /\ Append(s, e)[k] = s[k]
           /\ Append(s, e)[Len(s) + 1] = e
           /\ \A k \in 1..Len(Append(s, e)) : k \in 1..Len(s) \/ k = Len(s) + 1
<1>1. /\ Append(s, e) \in Seq(S) /\ Len(Append(s, e)) = Len(s) + 1 /\ Len(s) \in Nat
  OBVIOUS
<1>2. \A k \in 1..Len(Append(s, e)) : k \in 1..Len(s) \/ k = Len(s) + 1
  BY <1>1
<1>3. \A k \in 1..Len(s) : k \in 1..Len(Append(s, e)) /\ Append(s, e)[k] = s[k]
  BY <1>1
<1>4. Append(s, e)[Len(s) + 1] = e
  OBVIOUS
<1> QED
  BY <1>1, <1>2, <1>3, <1>4

LEMMA AppendElements ==
    ASSUME NEW d \in Path, NEW n \in STRING
    PROVE  /\ Append(d, n) \in Path /\ Len(Append(d, n)) = Len(d) + 1
           /\ \A i \in 1..Len(d) : Append(d, n)[i] = d[i]
           /\ Append(d, n)[Len(d) + 1] = n
<1>1. d \in Seq(STRING)
  BY DEF Path
<1>2. /\ Append(d, n) \in Seq(STRING) /\ Len(Append(d, n)) = Len(d) + 1 /\ Len(d) \in Nat
      /\ \A k \in 1..Len(d) : k \in 1..Len(Append(d, n)) /\ Append(d, n)[k] = d[k]
      /\ Append(d, n)[Len(d) + 1] = n
      /\ \A k \in 1..Len(Append(d, n)) : k \in 1..Len(d) \/ k = Len(d) + 1
  <2>1. PICK S : S = STRING
    OBVIOUS
  <2>2. d \in Seq(S) /\ n \in S
    BY <1>1, <2>1
  <2> QED
    BY <2>1, <2>2, AppendOne
<1> QED
  BY <1>2 DEF Path

\* An entry and its directory.
LEMMA AppendIs ==
    \A d \in Path, n \in STRING :
        /\ Append(d, n) \in Path /\ Append(d, n) # Root
        /\ Front(Append(d, n)) = d /\ Last(Append(d, n)) = n
        /\ Len(Append(d, n)) = Len(d) + 1
<1> SUFFICES ASSUME NEW d \in Path, NEW n \in STRING
             PROVE  /\ Append(d, n) \in Path /\ Append(d, n) # Root
                    /\ Front(Append(d, n)) = d /\ Last(Append(d, n)) = n
                    /\ Len(Append(d, n)) = Len(d) + 1
  OBVIOUS
<1> DEFINE a == Append(d, n)
<1>1. /\ a \in Path /\ Len(a) = Len(d) + 1
      /\ \A i \in 1..Len(d) : a[i] = d[i]
      /\ a[Len(d) + 1] = n
  BY AppendElements
<1>2. Len(d) \in Nat
  BY DEF Path
<1>7. a # <<>>
  <2>1. Len(<<>>) = 0
    OBVIOUS
  <2> HIDE DEF a
  <2> QED
    BY <1>1, <1>2, <2>1
<1>3. SubSeq(a, 1, Len(d)) = d
  <2>1. \A i \in 1..Len(d) : a[i] \in STRING
    BY <1>1, <1>2, ElementOfSeq DEF Path
  <2> DEFINE m == Len(d)
  <2>2. m \in Nat /\ \A i \in 1..m : a[i] \in STRING
    BY <1>2, <2>1
  <2> HIDE DEF m, a
  <2>3. /\ SubSeq(a, 1, m) \in Seq(STRING)
        /\ Len(SubSeq(a, 1, m)) = IF 1 <= m THEN m - 1 + 1 ELSE 0
        /\ \A i \in 1..(m - 1 + 1) : SubSeq(a, 1, m)[i] = a[1 + i - 1]
    BY <2>2, SubSeqProperties
  <2>4. Len(SubSeq(a, 1, m)) = m /\ \A i \in 1..m : SubSeq(a, 1, m)[i] = a[i]
    BY <2>2, <2>3
  <2>5. \A i \in 1..m : SubSeq(a, 1, m)[i] = d[i]
    BY <2>4, <1>1 DEF m
  <2>6. SubSeq(a, 1, m) = d
    BY <2>3, <2>4, <2>5, SeqEqual DEF m, Path
  <2> QED
    BY <2>6 DEF m
<1>4. Front(a) = SubSeq(a, 1, Len(a) - 1) /\ Last(a) = a[Len(a)] /\ Len(a) - 1 = Len(d)
  BY <1>1, <1>2 DEF Front, Last
<1> HIDE DEF a
<1>5. Front(a) = d /\ Last(a) = n
  BY <1>1, <1>2, <1>3, <1>4
<1> QED
  BY <1>1, <1>5, <1>7 DEF a, Root

LEMMA EntryIs ==
    \A p \in Path : p # Root =>
        /\ Front(p) \in Path /\ Last(p) \in STRING
        /\ p = Append(Front(p), Last(p))
<1> SUFFICES ASSUME NEW p \in Path, p # Root
             PROVE  Front(p) \in Path /\ Last(p) \in STRING /\ p = Append(Front(p), Last(p))
  OBVIOUS
<1>1. PICK s \in Seq(STRING), elt \in STRING : p = Append(s, elt)
  BY SequenceEmptyOrAppend DEF Path, Root
<1> QED
  BY <1>1, AppendIs DEF Path

LEMMA AppendInjects ==
    \A d, e \in Path, m, n \in STRING : Append(d, m) = Append(e, n) => d = e /\ m = n
<1> SUFFICES ASSUME NEW d \in Path, NEW e \in Path, NEW m \in STRING, NEW n \in STRING,
                    Append(d, m) = Append(e, n)
             PROVE  d = e /\ m = n
  OBVIOUS
<1>1. d = Front(Append(d, m)) /\ m = Last(Append(d, m))
  BY AppendIs
<1>2. e = Front(Append(e, n)) /\ n = Last(Append(e, n))
  BY AppendIs
<1> QED
  BY <1>1, <1>2

\* What is above an entry is the entry, or above its directory.
LEMMA PrefixAppend ==
    \A a, d \in Path, n \in STRING :
        IsPrefix(a, Append(d, n)) <=> IsPrefix(a, d) \/ a = Append(d, n)
<1> SUFFICES ASSUME NEW a \in Path, NEW d \in Path, NEW n \in STRING
             PROVE  IsPrefix(a, Append(d, n)) <=> IsPrefix(a, d) \/ a = Append(d, n)
  OBVIOUS
<1> DEFINE p == Append(d, n)
<1>1. /\ p \in Path /\ Len(p) = Len(d) + 1 /\ p[Len(d) + 1] = n
      /\ \A i \in 1..Len(d) : p[i] = d[i]
  BY AppendElements
<1>2. Len(a) \in Nat /\ Len(d) \in Nat
  BY DEF Path
<1> HIDE DEF p
<1>3. IsPrefix(p, p)
  BY <1>1, PrefixReflexive
<1>4. CASE Len(a) <= Len(d)
  <2>1. IsPrefix(a, p) <=> IsPrefix(a, d)
    BY <1>1, <1>2, <1>4, PrefixIs
  <2>2. a # p
    BY <1>1, <1>2, <1>4
  <2> QED
    BY <2>1, <2>2 DEF p
<1>5. CASE ~(Len(a) <= Len(d))
  <2>1. ~IsPrefix(a, d)
    BY <1>2, <1>5, PrefixIs
  <2>2. ASSUME IsPrefix(a, p) PROVE a = p
    <3>1. Len(a) = Len(p) /\ \A i \in 1..Len(a) : a[i] = p[i]
      BY <1>1, <1>2, <1>5, <2>2, PrefixIs
    <3> QED
      BY <1>1, <3>1, SeqEqual DEF Path
  <2> QED
    BY <1>3, <2>1, <2>2 DEF p
<1> QED
  BY <1>4, <1>5

LEMMA AppendNotPrefix == \A d \in Path, n \in STRING : ~IsPrefix(Append(d, n), d) /\ IsPrefix(d, Append(d, n))
<1> SUFFICES ASSUME NEW d \in Path, NEW n \in STRING
             PROVE  ~IsPrefix(Append(d, n), d) /\ IsPrefix(d, Append(d, n))
  OBVIOUS
<1> DEFINE p == Append(d, n)
<1>1. p \in Path /\ Len(p) = Len(d) + 1
  BY AppendIs
<1>2. Len(d) \in Nat
  BY DEF Path
<1>3. IsPrefix(d, p)
  BY PrefixAppend, PrefixReflexive
<1> HIDE DEF p
<1>4. ~IsPrefix(p, d)
  BY <1>1, <1>2, PrefixIs
<1> QED
  BY <1>3, <1>4 DEF p

\* The way down to a path has a next step.
LEMMA NextStep ==
    \A d, p \in Path : IsStrictPrefix(d, p) =>
        \E n \in STRING : IsPrefix(Append(d, n), p) /\ Append(d, n) = SubSeq(p, 1, Len(d) + 1)
<1> SUFFICES ASSUME NEW d \in Path, NEW p \in Path, IsPrefix(d, p), d # p
             PROVE  \E n \in STRING : IsPrefix(Append(d, n), p) /\ Append(d, n) = SubSeq(p, 1, Len(d) + 1)
  BY DEF IsStrictPrefix
<1>1. Len(d) \in Nat /\ Len(p) \in Nat
  BY DEF Path
<1>2. Len(d) <= Len(p) /\ \A i \in 1..Len(d) : d[i] = p[i]
  BY PrefixIs
<1>3. Len(d) < Len(p)
  BY <1>1, <1>2, SeqEqual DEF Path
<1> DEFINE n == p[Len(d) + 1]  a == Append(d, n)
<1>4. n \in STRING
  BY <1>1, <1>3, ElementOfSeq DEF Path
<1>5. /\ a \in Path /\ Len(a) = Len(d) + 1 /\ a[Len(d) + 1] = n
      /\ \A i \in 1..Len(d) : a[i] = d[i]
  BY <1>4, AppendProperties DEF Path
<1>6. \A i \in 1..Len(a) : a[i] = p[i]
  BY <1>1, <1>2, <1>5
<1>7. IsPrefix(a, p)
  <2>1. Len(a) <= Len(p)
    BY <1>1, <1>3, <1>5
  <2> HIDE DEF a
  <2> QED
    BY <1>5, <1>6, <2>1, PrefixIs
<1>8. a = SubSeq(p, 1, Len(d) + 1)
  <2> HIDE DEF a
  <2>1. SubSeq(a, 1, Len(a)) = a
    BY <1>5, SubSeqFull DEF Path
  <2> QED
    BY <1>5, <1>7, <2>1 DEF IsPrefix
<1> QED
  BY <1>4, <1>7, <1>8

\* A path that is renamed: what is below p comes to be below q.
LEMMA RenamedElements ==
    ASSUME NEW p \in Path, NEW q \in Path, NEW r \in Path, IsPrefix(p, r)
    PROVE  /\ Renamed(p, q, r) \in Path
           /\ Len(Renamed(p, q, r)) = Len(q) + (Len(r) - Len(p))
           /\ Len(p) <= Len(r)
           /\ \A i \in 1..Len(q) : Renamed(p, q, r)[i] = q[i]
           /\ \A i \in 1..(Len(r) - Len(p)) : Renamed(p, q, r)[Len(q) + i] = r[Len(p) + i]
<1>1. Len(p) \in Nat /\ Len(q) \in Nat /\ Len(r) \in Nat
  BY DEF Path
<1>2. Len(p) <= Len(r)
  BY PrefixIs
<1> DEFINE m == Len(p) + 1  n == Len(r)  s == SubSeq(r, m, n)
<1>3. \A i \in m..n : r[i] \in STRING
  BY <1>1, ElementOfSeq DEF Path
<1>4. /\ s \in Seq(STRING) /\ Len(s) = n - Len(p)
      /\ \A i \in 1..(n - Len(p)) : s[i] = r[Len(p) + i]
  <2>1. m \in Int /\ n \in Int
    BY <1>1
  <2>2. m = Len(p) + 1
    OBVIOUS
  <2> HIDE DEF m, n
  <2>3. /\ SubSeq(r, m, n) \in Seq(STRING)
        /\ Len(SubSeq(r, m, n)) = IF m <= n THEN n - m + 1 ELSE 0
        /\ \A i \in 1..(n - m + 1) : SubSeq(r, m, n)[i] = r[m + i - 1]
    BY <1>3, <2>1, SubSeqProperties
  <2>4. n = Len(r)
    BY DEF n
  <2> QED
    BY <1>1, <1>2, <2>1, <2>2, <2>3, <2>4
<1>5. Renamed(p, q, r) = q \o s
  BY DEF Renamed, IsStrictPrefix
<1>6. q \in Seq(STRING)
  BY DEF Path
<1> HIDE DEF s
<1>7. /\ q \o s \in Seq(STRING)
      /\ Len(q \o s) = Len(q) + Len(s)
      /\ \A i \in 1..Len(q) + Len(s) : (q \o s)[i] = IF i <= Len(q) THEN q[i] ELSE s[i - Len(q)]
  BY <1>4, <1>6, ConcatProperties
<1>8. \A i \in 1..Len(q) : (q \o s)[i] = q[i]
  BY <1>1, <1>4, <1>7
<1>9. \A i \in 1..Len(s) : (q \o s)[Len(q) + i] = s[i]
  BY <1>1, <1>2, <1>4, <1>7
<1> QED
  BY <1>2, <1>4, <1>5, <1>7, <1>8, <1>9 DEF Path

LEMMA RenamedType ==
    \A p, q, r \in Path :
        /\ Renamed(p, q, r) \in Path
        /\ IsPrefix(p, r) => IsPrefix(q, Renamed(p, q, r))
        /\ ~IsPrefix(p, r) => Renamed(p, q, r) = r
<1> SUFFICES ASSUME NEW p \in Path, NEW q \in Path, NEW r \in Path
             PROVE  /\ Renamed(p, q, r) \in Path
                    /\ IsPrefix(p, r) => IsPrefix(q, Renamed(p, q, r))
                    /\ ~IsPrefix(p, r) => Renamed(p, q, r) = r
  OBVIOUS
<1>1. CASE IsPrefix(p, r)
  <2> DEFINE x == Renamed(p, q, r)
  <2>1. /\ x \in Path /\ Len(x) = Len(q) + (Len(r) - Len(p)) /\ Len(p) <= Len(r)
        /\ \A i \in 1..Len(q) : x[i] = q[i]
    BY <1>1, RenamedElements
  <2>2. Len(p) \in Nat /\ Len(q) \in Nat /\ Len(r) \in Nat
    BY DEF Path
  <2> HIDE DEF x
  <2>3. IsPrefix(q, x)
    BY <2>1, <2>2, PrefixIs
  <2> QED
    BY <1>1, <2>1, <2>3 DEF x
<1>2. CASE ~IsPrefix(p, r)
  BY <1>2, PrefixReflexive DEF Renamed, IsStrictPrefix
<1> QED
  BY <1>1, <1>2

LEMMA RenamedTop == \A p, q \in Path : Renamed(p, q, p) = q
<1> SUFFICES ASSUME NEW p \in Path, NEW q \in Path PROVE Renamed(p, q, p) = q
  OBVIOUS
<1> DEFINE x == Renamed(p, q, p)
<1>1. /\ x \in Path /\ Len(x) = Len(q) + (Len(p) - Len(p))
      /\ \A i \in 1..Len(q) : x[i] = q[i]
  BY PrefixReflexive, RenamedElements
<1>2. Len(p) \in Nat /\ Len(q) \in Nat
  BY DEF Path
<1> HIDE DEF x
<1>3. x = q
  BY <1>1, <1>2, SeqEqual DEF Path
<1> QED
  BY <1>3 DEF x

\* Renaming back.
LEMMA RenamedBack ==
    \A p, q, r \in Path : IsPrefix(p, r) => Renamed(q, p, Renamed(p, q, r)) = r
<1> SUFFICES ASSUME NEW p \in Path, NEW q \in Path, NEW r \in Path, IsPrefix(p, r)
             PROVE  Renamed(q, p, Renamed(p, q, r)) = r
  OBVIOUS
<1> DEFINE x == Renamed(p, q, r)  y == Renamed(q, p, x)
<1>1. /\ x \in Path /\ Len(x) = Len(q) + (Len(r) - Len(p)) /\ Len(p) <= Len(r)
      /\ \A i \in 1..(Len(r) - Len(p)) : x[Len(q) + i] = r[Len(p) + i]
  BY RenamedElements
<1>2. IsPrefix(q, x)
  BY RenamedType
<1>3. Len(p) \in Nat /\ Len(q) \in Nat /\ Len(r) \in Nat
  BY DEF Path
<1> HIDE DEF x
<1>4. /\ y \in Path /\ Len(y) = Len(p) + (Len(x) - Len(q))
      /\ \A i \in 1..Len(p) : y[i] = p[i]
      /\ \A i \in 1..(Len(x) - Len(q)) : y[Len(p) + i] = x[Len(q) + i]
  BY <1>1, <1>2, RenamedElements
<1> HIDE DEF y
<1>5. Len(y) = Len(r)
  BY <1>1, <1>3, <1>4
<1>6. \A i \in 1..Len(p) : p[i] = r[i]
  BY PrefixIs
<1>7. ASSUME NEW i \in 1..Len(r) PROVE y[i] = r[i]
  <2>1. CASE i <= Len(p)
    BY <1>3, <1>4, <1>6, <2>1
  <2>2. CASE ~(i <= Len(p))
    <3> DEFINE j == i - Len(p)
    <3>1. j \in 1..(Len(r) - Len(p)) /\ j \in 1..(Len(x) - Len(q)) /\ i = Len(p) + j
      BY <1>1, <1>3, <2>2
    <3> HIDE DEF j
    <3> QED
      BY <1>1, <1>4, <3>1
  <2> QED
    BY <2>1, <2>2
<1>8. y = r
  BY <1>4, <1>5, <1>7, SeqEqual DEF Path
<1> QED
  BY <1>8 DEF x, y

LEMMA RenamedPrefix ==
    \A p, q, a, b \in Path : IsPrefix(p, a) /\ IsPrefix(a, b) => IsPrefix(Renamed(p, q, a), Renamed(p, q, b))
<1> SUFFICES ASSUME NEW p \in Path, NEW q \in Path, NEW a \in Path, NEW b \in Path,
                    IsPrefix(p, a), IsPrefix(a, b)
             PROVE  IsPrefix(Renamed(p, q, a), Renamed(p, q, b))
  OBVIOUS
<1> DEFINE x == Renamed(p, q, a)  y == Renamed(p, q, b)
<1>1. /\ x \in Path /\ Len(x) = Len(q) + (Len(a) - Len(p)) /\ Len(p) <= Len(a)
      /\ \A i \in 1..Len(q) : x[i] = q[i]
      /\ \A i \in 1..(Len(a) - Len(p)) : x[Len(q) + i] = a[Len(p) + i]
  BY RenamedElements
<1>2. IsPrefix(p, b)
  BY PrefixTransitive
<1>3. /\ y \in Path /\ Len(y) = Len(q) + (Len(b) - Len(p)) /\ Len(p) <= Len(b)
      /\ \A i \in 1..Len(q) : y[i] = q[i]
      /\ \A i \in 1..(Len(b) - Len(p)) : y[Len(q) + i] = b[Len(p) + i]
  BY <1>2, RenamedElements
<1>4. Len(p) \in Nat /\ Len(q) \in Nat /\ Len(a) \in Nat /\ Len(b) \in Nat
  BY DEF Path
<1>5. Len(a) <= Len(b) /\ \A i \in 1..Len(a) : a[i] = b[i]
  BY PrefixIs
<1> HIDE DEF x, y
<1>6. ASSUME NEW i \in 1..Len(x) PROVE x[i] = y[i]
  <2>1. CASE i <= Len(q)
    BY <1>1, <1>3, <1>4, <2>1
  <2>2. CASE ~(i <= Len(q))
    <3> DEFINE j == i - Len(q)
    <3>1. /\ j \in 1..(Len(a) - Len(p)) /\ j \in 1..(Len(b) - Len(p)) /\ i = Len(q) + j
          /\ Len(p) + j \in 1..Len(a)
      BY <1>1, <1>3, <1>4, <1>5, <2>2
    <3> HIDE DEF j
    <3> QED
      BY <1>1, <1>3, <1>5, <3>1
  <2> QED
    BY <2>1, <2>2
<1>7. Len(x) <= Len(y)
  BY <1>1, <1>3, <1>4, <1>5
<1>8. IsPrefix(x, y)
  BY <1>1, <1>3, <1>6, <1>7, PrefixIs
<1> QED
  BY <1>8 DEF x, y

LEMMA RenamedAppend ==
    \A p, q, d \in Path, n \in STRING :
        IsPrefix(p, d) => Renamed(p, q, Append(d, n)) = Append(Renamed(p, q, d), n)
<1> SUFFICES ASSUME NEW p \in Path, NEW q \in Path, NEW d \in Path, NEW n \in STRING, IsPrefix(p, d)
             PROVE  Renamed(p, q, Append(d, n)) = Append(Renamed(p, q, d), n)
  OBVIOUS
<1> DEFINE e == Append(d, n)  x == Renamed(p, q, d)  y == Renamed(p, q, e)  z == Append(x, n)
<1>1. /\ x \in Path /\ Len(x) = Len(q) + (Len(d) - Len(p)) /\ Len(p) <= Len(d)
      /\ \A i \in 1..Len(q) : x[i] = q[i]
      /\ \A i \in 1..(Len(d) - Len(p)) : x[Len(q) + i] = d[Len(p) + i]
  BY RenamedElements
<1>2. /\ e \in Path /\ Len(e) = Len(d) + 1
      /\ \A i \in 1..Len(d) : e[i] = d[i]
      /\ e[Len(d) + 1] = n
  BY AppendElements
<1>3. IsPrefix(p, e)
  BY PrefixAppend
<1> HIDE DEF e, x
<1>4. /\ y \in Path /\ Len(y) = Len(q) + (Len(e) - Len(p))
      /\ \A i \in 1..Len(q) : y[i] = q[i]
      /\ \A i \in 1..(Len(e) - Len(p)) : y[Len(q) + i] = e[Len(p) + i]
  BY <1>2, <1>3, RenamedElements
<1>5. /\ z \in Path /\ Len(z) = Len(x) + 1
      /\ \A i \in 1..Len(x) : z[i] = x[i]
      /\ z[Len(x) + 1] = n
  BY <1>1, AppendElements
<1> HIDE DEF y, z
<1>6. Len(p) \in Nat /\ Len(q) \in Nat /\ Len(d) \in Nat
  BY DEF Path
<1>7. Len(y) = Len(z) /\ Len(z) = Len(q) + (Len(d) - Len(p)) + 1
  BY <1>1, <1>2, <1>4, <1>5, <1>6
<1>8. ASSUME NEW i \in 1..Len(y) PROVE y[i] = z[i]
  <2>1. CASE i <= Len(q)
    BY <1>1, <1>4, <1>5, <1>6, <2>1
  <2>2. CASE Len(q) < i /\ i <= Len(x)
    <3> DEFINE j == i - Len(q)
    <3>1. /\ j \in 1..(Len(d) - Len(p)) /\ j \in 1..(Len(e) - Len(p)) /\ i = Len(q) + j
          /\ Len(p) + j \in 1..Len(d) /\ i \in 1..Len(x)
      BY <1>1, <1>2, <1>6, <2>2
    <3> HIDE DEF j
    <3> QED
      BY <1>1, <1>2, <1>4, <1>5, <3>1
  <2>3. CASE i = Len(x) + 1
    <3> DEFINE j == i - Len(q)
    <3>1. j \in 1..(Len(e) - Len(p)) /\ i = Len(q) + j /\ Len(p) + j = Len(d) + 1
      BY <1>1, <1>2, <1>6, <2>3
    <3> HIDE DEF j
    <3> QED
      BY <1>2, <1>4, <1>5, <2>3, <3>1
  <2> QED
    BY <1>1, <1>5, <1>6, <1>7, <2>1, <2>2, <2>3
<1>9. y = z
  BY <1>4, <1>5, <1>7, <1>8, SeqEqual DEF Path
<1> QED
  BY <1>9 DEF e, x, y, z

-----------------------------------------------------------------------------
(* Functions and sequences.                                                *)

LEMMA SetToSeqsIs ==
    ASSUME NEW S, IsFiniteSet(S), NEW f \in SetToSeqs(S)
    PROVE  /\ f \in Seq(S) /\ DOMAIN f = 1..Cardinality(S)
           /\ Range(f) = S
           /\ \A i, j \in DOMAIN f : f[i] = f[j] => i = j
<1> DEFINE n == Cardinality(S)
<1>1. n \in Nat
  BY FS_CardinalityType
<1>2. f \in [1..n -> S] /\ \A i, j \in 1..n : i # j => f[i] # f[j]
  BY DEF SetToSeqs
<1> HIDE DEF n
<1>3. f \in Seq(S)
  BY <1>1, <1>2
<1>4. Range(f) \subseteq S /\ IsFiniteSet(Range(f))
  BY <1>2, FS_Subset DEF Range
<1>5. f \in Surjection(1..n, Range(f)) /\ f \in Injection(1..n, Range(f))
  <2>1. \A i \in 1..n : f[i] \in Range(f)
    BY <1>2 DEF Range
  <2>2. f \in [1..n -> Range(f)]
    BY <1>2, <2>1
  <2>3. \A x \in Range(f) : \E i \in 1..n : f[i] = x
    BY <1>2 DEF Range
  <2> QED
    BY <1>2, <2>2, <2>3 DEF Surjection, Injection, IsInjective
<1>6. IsFiniteSet(1..n) /\ Cardinality(1..n) = n
  <2>1. 1 \in Int /\ n \in Int
    BY <1>1
  <2>2. IsFiniteSet(1..n) /\ Cardinality(1..n) = IF 1 > n THEN 0 ELSE n - 1 + 1
    BY <2>1, FS_Interval
  <2> QED
    BY <1>1, <2>2
<1>7. Cardinality(Range(f)) = n
  BY <1>5, <1>6, FS_Surjection
<1>8. Range(f) = S
  BY <1>4, <1>7, FS_Subset DEF n
<1> QED
  BY <1>2, <1>3, <1>8 DEF n

LEMMA WithoutIs ==
    ASSUME NEW f, NEW x
    PROVE  /\ DOMAIN Without(f, x) = DOMAIN f \ {x}
           /\ \A z \in DOMAIN f \ {x} : Without(f, x)[z] = f[z]
BY DEF Without, Restrict

\* A sequence that is extended, and one that loses its head.
LEMMA LongerIs ==
    ASSUME NEW S, NEW s \in Seq(S), NEW t \in Seq(S)
    PROVE  /\ s \o t \in Seq(S) /\ Len(s \o t) = Len(s) + Len(t)
           /\ \A k \in 1..Len(s) : (s \o t)[k] = s[k]
           /\ \A k \in 1..Len(t) : (s \o t)[Len(s) + k] = t[k]
<1>1. /\ s \o t \in Seq(S) /\ Len(s \o t) = Len(s) + Len(t)
      /\ \A i \in 1..Len(s) + Len(t) : (s \o t)[i] = IF i <= Len(s) THEN s[i] ELSE t[i - Len(s)]
  BY ConcatProperties
<1>2. Len(s) \in Nat /\ Len(t) \in Nat
  OBVIOUS
<1>3. \A k \in 1..Len(s) : (s \o t)[k] = s[k]
  BY <1>1, <1>2
<1>4. ASSUME NEW k \in 1..Len(t) PROVE (s \o t)[Len(s) + k] = t[k]
  <2>1. Len(s) + k \in 1..Len(s) + Len(t) /\ ~(Len(s) + k <= Len(s)) /\ (Len(s) + k) - Len(s) = k
    BY <1>2
  <2> QED
    BY <1>1, <2>1
<1> QED
  BY <1>1, <1>3, <1>4

LEMMA ShorterIs ==
    ASSUME NEW S, NEW s \in Seq(S), s # <<>>
    PROVE  /\ Head(s) \in S /\ Head(s) = s[1] /\ Tail(s) \in Seq(S) /\ Len(s) \in Nat \ {0}
           /\ Len(Tail(s)) = Len(s) - 1
           /\ \A k \in 1..(Len(s) - 1) : Tail(s)[k] = s[k + 1]
<1>1. Head(s) \in S /\ Head(s) = s[1] /\ Tail(s) \in Seq(S) /\ Len(s) \in Nat \ {0} /\ Len(Tail(s)) = Len(s) - 1
  OBVIOUS
<1> QED
  BY <1>1, HeadTailProperties

LEMMA RangeIs ==
    ASSUME NEW S, NEW s \in Seq(S)
    PROVE  /\ Range(s) \subseteq S
           /\ s # <<>> => Range(s) = {Head(s)} \cup Range(Tail(s)) /\ Head(s) \in Range(s)
<1>1. Range(s) = {s[i] : i \in 1..Len(s)}
  BY DEF Range
<1>2. ASSUME s # <<>> PROVE Range(s) = {Head(s)} \cup Range(Tail(s)) /\ Head(s) \in Range(s)
  <2> DEFINE n == Len(s)
  <2>1. /\ Head(s) = s[1] /\ Tail(s) \in Seq(S) /\ n \in Nat \ {0} /\ Len(Tail(s)) = n - 1
        /\ \A k \in 1..(n - 1) : Tail(s)[k] = s[k + 1]
    BY <1>2, ShorterIs
  <2>2. Range(Tail(s)) = {Tail(s)[i] : i \in 1..(n - 1)}
    <3> DEFINE t == Tail(s)
    <3>1. t \in Seq(S) /\ Len(t) = n - 1
      BY <2>1
    <3> HIDE DEF t, n
    <3>2. DOMAIN t = 1..(n - 1)
      BY <3>1
    <3>3. Range(t) = {t[i] : i \in 1..(n - 1)}
      BY <3>2 DEF Range
    <3> QED
      BY <3>3 DEF t
  <2>3. Range(Tail(s)) = {s[i + 1] : i \in 1..(n - 1)}
    BY <2>1, <2>2
  <2>4. ASSUME NEW i \in 1..n PROVE i = 1 \/ (i - 1 \in 1..(n - 1) /\ (i - 1) + 1 = i)
    BY <2>1
  <2>5. ASSUME NEW i \in 1..(n - 1) PROVE i + 1 \in 1..n
    BY <2>1
  <2>6. 1 \in 1..n
    BY <2>1
  <2>7. Range(s) \subseteq {s[1]} \cup Range(Tail(s))
    <3> SUFFICES ASSUME NEW x \in Range(s) PROVE x = s[1] \/ x \in Range(Tail(s))
      OBVIOUS
    <3>1. PICK i \in 1..n : x = s[i]
      BY <1>1
    <3> QED
      BY <2>3, <2>4, <3>1
  <2>8. Range(Tail(s)) \subseteq Range(s)
    BY <1>1, <2>3, <2>5
  <2> QED
    BY <1>1, <2>1, <2>6, <2>7, <2>8
<1>3. Range(s) \subseteq S
  BY <1>1
<1> QED
  BY <1>2, <1>3

LEMMA SingletonIs ==
    ASSUME NEW S, NEW x \in S
    PROVE  <<x>> \in Seq(S) /\ Len(<<x>>) = 1 /\ <<x>>[1] = x
OBVIOUS

LEMMA RangeOfBoth ==
    ASSUME NEW S, NEW s \in Seq(S), NEW t \in Seq(S)
    PROVE  Range(s \o t) = Range(s) \cup Range(t)
BY RangeConcatenation

-----------------------------------------------------------------------------
(* The file system.                                                        *)

\* What is there has its directories there, each with an inode of its own.
DiskInv ==
    /\ files \subseteq FilePaths /\ DirsNow \subseteq DirPaths \cup {Root}
    /\ \A p \in files \cup DirsNow, a \in Paths \cup {Root} : IsStrictPrefix(a, p) => a \in DirsNow
    /\ inodes \in Nat /\ DOMAIN dirs \subseteq 1..inodes
    /\ \A i, j \in DOMAIN dirs : dirs[i] = dirs[j] => i = j
    /\ changes \in Nat

LEMMA DirsNowIs == \A x : x \in DirsNow <=> \E i \in DOMAIN dirs : dirs[i] = x
BY DEF DirsNow, Range

LEMMA InodeIs ==
    ASSUME NEW p \in DirsNow
    PROVE  Inode(p) \in DOMAIN dirs /\ dirs[Inode(p)] = p
BY DirsNowIs DEF Inode

LEMMA DiskType ==
    ASSUME DiskInv
    PROVE  /\ files \subseteq Path /\ DirsNow \subseteq Path
           /\ \A i \in DOMAIN dirs : dirs[i] \in Path /\ dirs[i] \in DirsNow
           /\ \A p \in files : p # Root /\ p \notin DirsNow
           /\ IsFiniteSet(files \cup DirsNow)
<1>1. files \subseteq Path /\ DirsNow \subseteq Path
  BY PathsType, RootPrefix DEF DiskInv, Paths
<1>2. \A i \in DOMAIN dirs : dirs[i] \in DirsNow
  BY DirsNowIs
<1>3. \A p \in files : p # Root /\ p \notin DirsNow
  BY PathsType, PathsAssumption DEF DiskInv, Paths
<1>4. IsFiniteSet(files \cup DirsNow)
  <2>1. IsFiniteSet(Paths \cup {Root})
    BY PathsAssumption, FS_AddElement
  <2>2. files \cup DirsNow \subseteq Paths \cup {Root}
    BY DEF DiskInv, Paths
  <2> QED
    BY <2>1, <2>2, FS_Subset
<1> QED
  BY <1>1, <1>2, <1>3, <1>4

\* A path above one of Paths is a directory's.
LEMMA AboveIsDir ==
    \A p \in Paths, a \in Path : IsStrictPrefix(a, p) => a \in DirPaths \cup {Root}
<1> SUFFICES ASSUME NEW p \in Paths, NEW a \in Path, IsPrefix(a, p), a # p, a # Root
             PROVE  a \in DirPaths
  BY DEF IsStrictPrefix
<1>1. p \in Path
  BY PathsType
<1>2. Len(a) \in Nat /\ Len(p) \in Nat /\ Len(a) <= Len(p)
  BY <1>1, PrefixIs DEF Path
<1>3. a = SubSeq(p, 1, Len(a))
  BY SubSeqFull DEF IsPrefix, Path
<1>4. Len(a) # Len(p)
  BY <1>1, <1>3, SubSeqFull DEF Path
<1>5. Len(a) # 0
  BY DEF Root, Path
<1>6. Len(a) \in 1..(Len(p) - 1)
  BY <1>2, <1>4, <1>5
<1> QED
  BY <1>3, <1>6, PathsAssumption

LEMMA Above ==
    ASSUME DiskInv
    PROVE  \A p \in files \cup DirsNow, a \in Path : IsStrictPrefix(a, p) => a \in DirsNow
<1> SUFFICES ASSUME NEW p \in files \cup DirsNow, NEW a \in Path, IsStrictPrefix(a, p)
             PROVE  a \in DirsNow
  OBVIOUS
<1>1. p # Root
  BY RootPrefix DEF IsStrictPrefix
<1>2. p \in Paths
  BY <1>1 DEF DiskInv, Paths
<1>3. a \in Paths \cup {Root}
  BY <1>2, AboveIsDir DEF Paths
<1> QED
  BY <1>3 DEF DiskInv

LEMMA SureType == \A x \in FilePaths : /\ x \in Paths /\ x \in Path /\ x # Root /\ x \notin DirPaths
                                       /\ Front(x) \in Path /\ Last(x) \in STRING /\ x = Append(Front(x), Last(x))
                                       /\ IsStrictPrefix(Front(x), x)
<1> SUFFICES ASSUME NEW x \in FilePaths
             PROVE  /\ x \in Paths /\ x \in Path /\ x # Root /\ x \notin DirPaths
                    /\ Front(x) \in Path /\ Last(x) \in STRING /\ x = Append(Front(x), Last(x))
                    /\ IsStrictPrefix(Front(x), x)
  OBVIOUS
<1>1. x \in Paths /\ x \in Path /\ x # Root /\ x \notin DirPaths
  BY PathsType, PathsAssumption DEF Paths
<1>2. Front(x) \in Path /\ Last(x) \in STRING /\ x = Append(Front(x), Last(x))
  BY <1>1, EntryIs
<1>3. IsPrefix(Front(x), x) /\ ~IsPrefix(x, Front(x))
  BY <1>2, AppendNotPrefix
<1>4. IsPrefix(x, x)
  BY <1>1, PrefixReflexive
<1>5. IsStrictPrefix(Front(x), x)
  BY <1>3, <1>4 DEF IsStrictPrefix
<1> QED
  BY <1>1, <1>2, <1>5

\* A file has its directory.
LEMMA FrontThere ==
    ASSUME DiskInv, NEW x \in files
    PROVE  x \in FilePaths /\ x \in Paths /\ Front(x) \in DirsNow /\ \E i \in DOMAIN dirs : dirs[i] = Front(x)
<1>1. x \in FilePaths
  BY DEF DiskInv
<1>2. x \in Paths /\ Front(x) \in Path /\ IsStrictPrefix(Front(x), x)
  BY <1>1, SureType
<1>3. Front(x) \in DirsNow
  BY <1>2, Above
<1> QED
  BY <1>1, <1>2, <1>3, DirsNowIs

LEMMA ChildrenAre ==
    ASSUME DiskInv, NEW d \in Path
    PROVE  /\ \A c : c \in Children(d) <=>
                  c \in files \cup DirsNow /\ \E n \in STRING : c = Append(d, n)
           /\ IsFiniteSet(Children(d)) /\ IsFiniteSet(Children(d) \cap DirPaths)
<1>1. ASSUME NEW c \in files \cup DirsNow, IsStrictPrefix(d, c), Len(c) = Len(d) + 1
      PROVE  \E n \in STRING : c = Append(d, n)
  <2>1. c \in Path
    BY DiskType
  <2>2. PICK n \in STRING : Append(d, n) = SubSeq(c, 1, Len(d) + 1)
    BY <1>1, <2>1, NextStep
  <2>3. SubSeq(c, 1, Len(c)) = c
    BY <2>1, SubSeqFull DEF Path
  <2> QED
    BY <1>1, <2>2, <2>3
<1>2. ASSUME NEW c \in files \cup DirsNow, NEW n \in STRING, c = Append(d, n)
      PROVE  IsStrictPrefix(d, c) /\ Len(c) = Len(d) + 1
  BY <1>2, AppendIs, AppendNotPrefix DEF IsStrictPrefix
<1>3. \A c : c \in Children(d) <=> c \in files \cup DirsNow /\ \E n \in STRING : c = Append(d, n)
  BY <1>1, <1>2 DEF Children, Below
<1>4. IsFiniteSet(Children(d))
  BY <1>3, DiskType, FS_Subset
<1> QED
  BY <1>3, <1>4, FS_Subset

\* Towards what is below it, a directory has a child there.
LEMMA ChildTowards ==
    ASSUME DiskInv, NEW d \in Path, NEW p \in files \cup DirsNow, IsStrictPrefix(d, p)
    PROVE  /\ d \in DirsNow
           /\ \E c \in Children(d) : IsPrefix(c, p) /\ (p \in DirsNow => c \in DirPaths)
<1>1. p \in Path
  BY DiskType
<1>2. PICK n \in STRING : IsPrefix(Append(d, n), p)
  BY <1>1, NextStep
<1> DEFINE c == Append(d, n)
<1>3. c \in Path /\ c # Root
  BY AppendIs
<1> HIDE DEF c
<1>4. IsPrefix(c, p)
  BY <1>2 DEF c
<1>5. c \in files \cup DirsNow
  BY <1>1, <1>3, <1>4, Above DEF IsStrictPrefix
<1>6. c \in Children(d)
  BY <1>5, ChildrenAre DEF c
<1>7. p \in DirsNow => c \in DirsNow
  BY <1>1, <1>3, <1>4, Above DEF IsStrictPrefix
<1>8. c \in DirsNow => c \in DirPaths
  BY <1>3 DEF DiskInv
<1> QED
  BY <1>1, <1>4, <1>6, <1>7, <1>8, Above

\* What is renamed moves away from where it was, to where there is nothing
\* else: only a file may be replaced.
LEMMA RenameIs ==
    ASSUME DiskInv, NEW p \in Paths, NEW q \in Paths, Rename(p, q)
    PROVE  /\ p \in Path /\ q \in Path /\ p # Root /\ q # Root /\ p # q
           /\ Front(p) \in DirsNow /\ Front(q) \in DirsNow
           /\ ~IsPrefix(p, Front(p)) /\ ~IsPrefix(p, Front(q)) /\ ~IsPrefix(p, q)
           /\ \A x \in files \cup DirsNow : IsPrefix(q, x) => x = q /\ q \in files
           /\ p \in files => \A x \in files \cup DirsNow : IsPrefix(p, x) => x = p
           /\ p \in files => q \in FilePaths
           /\ p \notin files => p \in DirsNow /\ q \in DirPaths /\ q \notin files
           /\ \A r \in files : Renamed(p, q, r) \in FilePaths
           /\ \A d \in DirsNow : Renamed(p, q, d) \in DirPaths \cup {Root}
<1> USE DEF Rename, Change
<1>1. p \in Path /\ q \in Path /\ p # Root /\ q # Root /\ p # q /\ Front(p) \in DirsNow /\ Front(q) \in DirsNow
  BY PathsType
<1>2. Front(p) \in Path /\ Last(p) \in STRING /\ p = Append(Front(p), Last(p))
  BY <1>1, EntryIs
<1>3. Front(q) \in Path /\ Last(q) \in STRING /\ q = Append(Front(q), Last(q))
  BY <1>1, EntryIs
<1>4. ~IsPrefix(p, Front(p)) /\ IsPrefix(Front(q), q) /\ ~IsPrefix(q, Front(q))
  BY <1>2, <1>3, AppendNotPrefix
<1>5. files \cap DirsNow = {} /\ files \cap DirPaths = {} /\ DirsNow \cap FilePaths = {}
  BY DiskType, PathsAssumption, PathsType DEF DiskInv, Paths
<1>6. p \in files => \A x \in files \cup DirsNow : IsPrefix(p, x) => x = p
  BY <1>1, <1>5, Above DEF IsStrictPrefix
<1>7. ~IsPrefix(p, Front(q))
  <2>1. CASE p \in files
    BY <1>1, <1>5, <1>6, <2>1
  <2>2. CASE p \notin files
    <3>1. ~IsStrictPrefix(p, q)
      BY <2>2
    <3>2. IsPrefix(p, Front(q)) => IsPrefix(p, q)
      BY <1>1, <1>3, <1>4, PrefixTransitive
    <3> QED
      BY <1>1, <3>1, <3>2 DEF IsStrictPrefix
  <2> QED
    BY <2>1, <2>2
<1>8. ~IsPrefix(p, q)
  BY <1>1, <1>3, <1>7, PrefixAppend
<1>9. ASSUME NEW x \in files \cup DirsNow, IsPrefix(q, x) PROVE x = q /\ q \in files
  <2>1. x # q => q \in DirsNow
    BY <1>1, <1>9, Above DEF IsStrictPrefix
  <2>2. q \notin DirsNow
    BY <1>5
  <2> QED
    BY <2>1, <2>2
<1>10. p \in files => q \in FilePaths
  BY <1>5
<1>11. p \notin files => p \in DirsNow /\ q \in DirPaths /\ q \notin files
  BY <1>5
<1>12. ASSUME NEW r \in files \cup DirsNow
       PROVE  \/ r = p /\ Renamed(p, q, r) = q
              \/ r \in Below(p) /\ Renamed(p, q, r) \in IF r \in files THEN FilePaths ELSE DirPaths
              \/ Renamed(p, q, r) = r
  <2>1. r \in Path
    BY DiskType
  <2> QED
    BY <1>1, <2>1, RenamedTop, RenamedType DEF Below, IsStrictPrefix
<1>13. ASSUME NEW r \in files PROVE Renamed(p, q, r) \in FilePaths
  BY <1>5, <1>10, <1>12 DEF DiskInv
<1>14. ASSUME NEW d \in DirsNow PROVE Renamed(p, q, d) \in DirPaths \cup {Root}
  BY <1>5, <1>11, <1>12 DEF DiskInv
<1> QED
  BY <1>1, <1>4, <1>6, <1>7, <1>8, <1>9, <1>10, <1>11, <1>13, <1>14

LEMMA RenamedDirs ==
    ASSUME NEW p \in Paths, NEW q \in Paths, Rename(p, q)
    PROVE  /\ DOMAIN dirs' = DOMAIN dirs
           /\ \A i \in DOMAIN dirs : dirs'[i] = Renamed(p, q, dirs[i])
           /\ files' = {Renamed(p, q, r) : r \in files}
           /\ inodes' = inodes
BY DEF Rename

LEMMA RenameDisk ==
    ASSUME DiskInv, NEW p \in Paths, NEW q \in Paths, Rename(p, q)
    PROVE  DiskInv'
<1> USE RenamedDirs
<1>1. /\ p \in Path /\ q \in Path /\ p # Root /\ q # Root /\ p # q
      /\ Front(p) \in DirsNow /\ Front(q) \in DirsNow
      /\ ~IsPrefix(p, Front(q))
      /\ \A x \in files \cup DirsNow : IsPrefix(q, x) => x = q /\ q \in files
  BY RenameIs
<1>2. files' \subseteq FilePaths
  BY RenameIs
<1>3. \A x : x \in DirsNow' <=> \E i \in DOMAIN dirs : Renamed(p, q, dirs[i]) = x
  BY DEF DirsNow, Range
<1>4. \A x : x \in DirsNow' <=> \E d \in DirsNow : Renamed(p, q, d) = x
  BY <1>3, DirsNowIs
<1>5. DirsNow' \subseteq DirPaths \cup {Root}
  BY <1>4, RenameIs
<1>6. ASSUME NEW a \in DirsNow, ~IsPrefix(p, a) PROVE a \in DirsNow'
  BY <1>1, <1>4, <1>6, DiskType, RenamedType
<1>7. ASSUME NEW x \in files' \cup DirsNow', NEW a \in Paths \cup {Root}, IsStrictPrefix(a, x)
      PROVE  a \in DirsNow'
  <2>1. PICK r \in files \cup DirsNow : x = Renamed(p, q, r)
    BY <1>4
  <2>2. r \in Path /\ a \in Path /\ IsPrefix(a, x) /\ a # x /\ x \in Path
    BY <1>1, <1>7, <2>1, DiskType, PathsType, RootPrefix, RenamedType DEF IsStrictPrefix
  <2>3. CASE ~IsPrefix(p, r)
    <3>1. x = r
      BY <1>1, <2>1, <2>2, <2>3, RenamedType
    <3>2. a \in DirsNow
      BY <2>2, <3>1, Above DEF IsStrictPrefix
    <3>3. ~IsPrefix(p, a)
      BY <1>1, <2>2, <2>3, <3>1, PrefixTransitive
    <3> QED
      BY <1>6, <3>2, <3>3
  <2>4. CASE IsPrefix(p, r)
    <3>1. IsPrefix(q, x)
      BY <1>1, <2>1, <2>2, <2>4, RenamedType
    <3>2. CASE IsPrefix(a, q) /\ a # q
      <4>1. Front(q) \in Path /\ Last(q) \in STRING /\ q = Append(Front(q), Last(q))
        BY <1>1, EntryIs
      <4>2. IsPrefix(a, Front(q))
        BY <2>2, <3>2, <4>1, PrefixAppend
      <4>3. a \in DirsNow
        BY <1>1, <2>2, <4>2, Above DEF IsStrictPrefix
      <4>4. ~IsPrefix(p, a)
        BY <1>1, <2>2, <4>1, <4>2, PrefixTransitive
      <4> QED
        BY <1>6, <4>3, <4>4
    <3>3. CASE a = q
      <4>1. r # p
        BY <1>1, <2>1, <2>2, <3>3, RenamedTop
      <4>2. p \in DirsNow
        BY <1>1, <2>2, <2>4, <4>1, Above DEF IsStrictPrefix
      <4> QED
        BY <1>1, <1>4, <3>3, <4>2, RenamedTop
    <3>4. CASE IsPrefix(q, a)
      <4> DEFINE b == Renamed(q, p, a)
      <4>1. b \in Path /\ Renamed(p, q, b) = a
        BY <1>1, <2>2, <3>4, RenamedType, RenamedBack
      <4>2. Renamed(q, p, x) = r
        BY <1>1, <2>1, <2>2, <2>4, RenamedBack
      <4>3. IsPrefix(b, r)
        BY <1>1, <2>2, <3>4, <4>2, RenamedPrefix
      <4>4. b # r
        BY <2>1, <2>2, <4>1
      <4> HIDE DEF b
      <4>5. b \in DirsNow
        BY <2>2, <4>1, <4>3, <4>4, Above DEF IsStrictPrefix
      <4> QED
        BY <1>4, <4>1, <4>5
    <3> QED
      BY <1>1, <2>2, <3>1, <3>2, <3>3, <3>4, PrefixChain
  <2> QED
    BY <2>3, <2>4
<1>8. ASSUME NEW i \in DOMAIN dirs, NEW j \in DOMAIN dirs, dirs'[i] = dirs'[j] PROVE i = j
  <2>1. dirs[i] \in Path /\ dirs[j] \in Path /\ dirs[i] \in DirsNow /\ dirs[j] \in DirsNow
    BY DiskType
  <2>2. Renamed(p, q, dirs[i]) = Renamed(p, q, dirs[j])
    BY <1>8
  <2>3. \A d \in DirsNow : ~IsPrefix(q, d)
    BY <1>1, DiskType
  <2>4. CASE IsPrefix(p, dirs[i]) <=> IsPrefix(p, dirs[j])
    <3>1. dirs[i] = dirs[j]
      <4>1. CASE IsPrefix(p, dirs[i]) /\ IsPrefix(p, dirs[j])
        <5>1. Renamed(q, p, Renamed(p, q, dirs[i])) = dirs[i] /\ Renamed(q, p, Renamed(p, q, dirs[j])) = dirs[j]
          BY <1>1, <2>1, <4>1, RenamedBack
        <5> QED
          BY <2>2, <5>1
      <4>2. CASE ~IsPrefix(p, dirs[i]) /\ ~IsPrefix(p, dirs[j])
        BY <1>1, <2>1, <2>2, <4>2, RenamedType
      <4> QED
        BY <2>4, <4>1, <4>2
    <3> QED
      BY <3>1 DEF DiskInv
  <2>5. CASE ~(IsPrefix(p, dirs[i]) <=> IsPrefix(p, dirs[j]))
    BY <1>1, <2>1, <2>2, <2>3, <2>5, RenamedType
  <2> QED
    BY <2>4, <2>5
<1>9. changes' \in Nat
  BY DEF Rename, Change, DiskInv
<1> QED
  BY <1>2, <1>5, <1>7, <1>8, <1>9 DEF DiskInv

LEMMA DiskStep == DiskInv /\ [Next]_vars => DiskInv'
<1> SUFFICES ASSUME DiskInv, [Next]_vars PROVE DiskInv'
  OBVIOUS
<1>1. CASE UNCHANGED disk
  BY <1>1 DEF disk, DiskInv, DirsNow
<1>2. ASSUME NEW p \in FilePaths, Create(p) \/ Modify(p) \/ Delete(p) PROVE DiskInv'
  <2>1. dirs' = dirs /\ inodes' = inodes /\ changes' \in Nat /\ files' \subseteq files \cup {p} /\ Front(p) \in DirsNow
    BY <1>2 DEF Create, Modify, Delete, Change, DiskInv
  <2>2. DirsNow' = DirsNow
    BY <2>1 DEF DirsNow
  <2>3. p \in Path /\ p # Root
    BY PathsType DEF Paths
  <2>4. ASSUME NEW a \in Paths \cup {Root}, IsStrictPrefix(a, p) PROVE a \in DirsNow
    <3>1. Front(p) \in Path /\ Last(p) \in STRING /\ p = Append(Front(p), Last(p)) /\ a \in Path
      BY <2>3, EntryIs, PathsType, RootPrefix
    <3>2. IsPrefix(a, Front(p))
      BY <2>4, <3>1, PrefixAppend DEF IsStrictPrefix
    <3> QED
      BY <2>1, <3>1, <3>2, Above DEF IsStrictPrefix
  <2> QED
    BY <2>1, <2>2, <2>4 DEF DiskInv
<1>3. ASSUME NEW p \in DirPaths, MakeDir(p) PROVE DiskInv'
  <2>1. /\ dirs' = Put(dirs, inodes + 1, p) /\ inodes' = inodes + 1 /\ changes' \in Nat /\ files' = files
        /\ Front(p) \in DirsNow /\ p \notin DirsNow
    BY <1>3 DEF MakeDir, Change, DiskInv
  <2>2. inodes + 1 \notin DOMAIN dirs
    BY DEF DiskInv
  <2>3. /\ DOMAIN dirs' = DOMAIN dirs \cup {inodes + 1} /\ dirs'[inodes + 1] = p
        /\ \A i \in DOMAIN dirs : dirs'[i] = dirs[i]
    BY <2>1, <2>2 DEF Put
  <2>4. DirsNow' = DirsNow \cup {p}
    BY <2>3 DEF DirsNow, Range
  <2>5. p \in Path /\ p # Root
    BY PathsType DEF Paths
  <2>6. ASSUME NEW a \in Paths \cup {Root}, IsStrictPrefix(a, p) PROVE a \in DirsNow
    <3>1. Front(p) \in Path /\ Last(p) \in STRING /\ p = Append(Front(p), Last(p)) /\ a \in Path
      BY <2>5, EntryIs, PathsType, RootPrefix
    <3>2. IsPrefix(a, Front(p))
      BY <2>6, <3>1, PrefixAppend DEF IsStrictPrefix
    <3> QED
      BY <2>1, <3>1, <3>2, Above DEF IsStrictPrefix
  <2>7. \A i, j \in DOMAIN dirs' : dirs'[i] = dirs'[j] => i = j
    BY <2>1, <2>3, DirsNowIs DEF DiskInv
  <2>8. inodes' \in Nat /\ DOMAIN dirs' \subseteq 1..inodes'
    BY <2>1, <2>3 DEF DiskInv
  <2> QED
    BY <2>1, <2>4, <2>6, <2>7, <2>8 DEF DiskInv
<1>4. ASSUME NEW p \in DirPaths, RemoveDir(p) PROVE DiskInv'
  <2>1. /\ dirs' = Without(dirs, Inode(p)) /\ inodes' = inodes /\ changes' \in Nat /\ files' = files
        /\ p \in DirsNow /\ Children(p) = {}
    BY <1>4 DEF RemoveDir, Change, DiskInv
  <2>2. DOMAIN dirs' = DOMAIN dirs \ {Inode(p)} /\ \A i \in DOMAIN dirs' : dirs'[i] = dirs[i]
    BY <2>1, WithoutIs
  <2>3. Inode(p) \in DOMAIN dirs /\ dirs[Inode(p)] = p
    BY <2>1, InodeIs
  <2>4. \A x : x \in DirsNow' <=> x \in DirsNow /\ x # p
    BY <2>2, <2>3, DirsNowIs DEF DiskInv, DirsNow, Range
  <2>5. \A x \in files \cup DirsNow : ~IsStrictPrefix(p, x)
    BY <2>1, ChildTowards, PathsType DEF Paths
  <2> QED
    BY <2>1, <2>2, <2>4, <2>5 DEF DiskInv
<1>5. ASSUME NEW p \in Paths, NEW q \in Paths, Rename(p, q) PROVE DiskInv'
  BY <1>5, RenameDisk
<1>6. CASE QueueMovedTo
  BY <1>1, <1>6 DEF QueueMovedTo
<1>7. CASE Watcher
  BY <1>1, <1>7 DEF Watcher, ReadFanotify, HandleEvent, EndBatch, WatchNext, ReadSubtree, EmitNext, Leave, notWalk
<1>8. CASE Rest \/ UNCHANGED vars
  BY <1>1, <1>8 DEF Rest, vars
<1> QED
  BY <1>2, <1>3, <1>4, <1>5, <1>6, <1>7, <1>8 DEF Next, Others

-----------------------------------------------------------------------------
(* inotify: the events that have not been handled.                         *)

\* As long as no directory has left the root, and no walk was broken off.
Inotify == backend = "inotify" /\ gaps = {}

InotifyKinds == {"create", "modify", "delete", "movedFrom", "movedTo", "ignored"}

InotifyEvent ==
    [kind : InotifyKinds, wd : Nat, name : STRING \cup {""}, isDir : BOOLEAN, cookie : Nat]

Q == queue \o movedTo

Ev(kind, i, path, cookie) ==
    [kind |-> kind, wd |-> watches[i], name |-> Last(path), isDir |-> path \in DirPaths, cookie |-> cookie]

QueueType ==
    /\ queue \in Seq(InotifyEvent) /\ movedTo \in Seq(InotifyEvent)
    /\ \A k \in 1..Len(Q) :
           /\ Q[k].wd <= descriptors /\ Q[k].cookie <= changes
           /\ Q[k].kind # "ignored" => Q[k].name \in STRING

\* A descriptor is one directory's, and the table has a path for it.
WatchType ==
    /\ descriptors \in Nat
    /\ DOMAIN watches \subseteq DOMAIN dirs
    /\ \A i \in DOMAIN watches : watches[i] \in 1..descriptors /\ watches[i] \in DOMAIN wdToPath
    /\ \A i, j \in DOMAIN watches : watches[i] = watches[j] => i = j
    /\ \A wd \in DOMAIN wdToPath : wdToPath[wd] \in Path

PendingType ==
    \A c \in DOMAIN pendingMovedFrom : c \in 0..changes /\ pendingMovedFrom[c] \in Path

\* What is still to be watched, or emitted, lies in the directory that came.
WalkInv ==
    /\ toWatch \in Seq(Path) /\ toEmit \in Seq(Path)
    /\ walkRoot # None => walkRoot \in Path /\ walkRoot # Root /\ toEmit = <<>>
    /\ toWatch # <<>> => walkRoot # None
    /\ \A a \in Range(toWatch) : a # Root /\ IsPrefix(walkRoot, a)
    /\ \A e \in Range(toEmit) : e # Root

LEMMA QType ==
    ASSUME QueueType
    PROVE  Q \in Seq(InotifyEvent) /\ Len(Q) \in Nat /\ \A k \in 1..Len(Q) : Q[k] \in InotifyEvent
<1>1. Q \in Seq(InotifyEvent)
  BY ConcatProperties DEF QueueType, Q
<1> QED
  BY <1>1

LEMMA NotMerged ==
    ASSUME backend = "inotify", NEW events, Queue(events)
    PROVE  queue' = queue \o events
BY DEF Queue, Merges

LEMMA EventIs ==
    ASSUME DiskInv, DOMAIN watches \subseteq DOMAIN dirs, backend = "inotify",
           NEW p \in Paths, Front(p) \in DirsNow, NEW kind, NEW cookie
    PROVE  \/ /\ Event(kind, p, cookie) = <<>>
              /\ \A i \in DOMAIN watches : dirs[i] # Front(p)
           \/ \E i \in DOMAIN watches :
                  dirs[i] = Front(p) /\ Event(kind, p, cookie) = <<Ev(kind, i, p, cookie)>>
<1>1. Inode(Front(p)) \in DOMAIN dirs /\ dirs[Inode(Front(p))] = Front(p)
  BY InodeIs
<1>2. \A i \in DOMAIN watches : dirs[i] = Front(p) => i = Inode(Front(p))
  BY <1>1 DEF DiskInv
<1> QED
  BY <1>1, <1>2 DEF Event, Ev

LEMMA EvType ==
    ASSUME WatchType, NEW kind \in InotifyKinds, NEW i \in DOMAIN watches,
           NEW p \in Paths, NEW cookie \in Nat
    PROVE  Ev(kind, i, p, cookie) \in InotifyEvent
<1>1. Last(p) \in STRING
  BY PathsType, EntryIs
<1>2. watches[i] \in Nat /\ (p \in DirPaths) \in BOOLEAN
  BY DEF WatchType
<1> QED
  BY <1>1, <1>2 DEF Ev, InotifyEvent

\* Nothing is read ...
Later == Len(Q) <= Len(Q') /\ \A k \in 1..Len(Q) : Q'[k] = Q[k]

\* ... and the one event there is about a change has been queued.
Told(kind, p, cookie) ==
    /\ \A k \in 1..Len(Q') : k > Len(Q) =>
           \E i \in DOMAIN watches : dirs[i] = Front(p) /\ Q'[k] = Ev(kind, i, p, cookie)
    /\ \A i \in DOMAIN watches : dirs[i] = Front(p) =>
           \E k \in 1..Len(Q') : k > Len(Q) /\ Q'[k] = Ev(kind, i, p, cookie)

LEMMA LaterIs ==
    ASSUME QueueType, NEW N \in Seq(InotifyEvent), Q' = Q \o N
    PROVE  /\ Later /\ Len(Q') = Len(Q) + Len(N)
           /\ \A k \in 1..Len(N) : Q'[Len(Q) + k] = N[k]
           /\ \A k \in 1..Len(Q') : k > Len(Q) => k - Len(Q) \in 1..Len(N) /\ Q'[k] = N[k - Len(Q)]
<1>1. Q \in Seq(InotifyEvent) /\ Len(Q) \in Nat
  BY QType
<1>2. /\ Len(Q') = Len(Q) + Len(N)
      /\ \A k \in 1..Len(Q) : Q'[k] = Q[k]
      /\ \A k \in 1..Len(N) : Q'[Len(Q) + k] = N[k]
  BY <1>1, LongerIs
<1>3. Len(N) \in Nat
  OBVIOUS
<1>4. ASSUME NEW k \in 1..Len(Q'), k > Len(Q)
      PROVE  k - Len(Q) \in 1..Len(N) /\ Q'[k] = N[k - Len(Q)]
  <2>1. k - Len(Q) \in 1..Len(N) /\ Len(Q) + (k - Len(Q)) = k
    BY <1>1, <1>2, <1>3, <1>4
  <2> QED
    BY <1>2, <2>1
<1>5. Later
  BY <1>1, <1>2, <1>3 DEF Later
<1> QED
  BY <1>2, <1>4, <1>5

LEMMA OneTold ==
    ASSUME DiskInv, QueueType, WatchType, backend = "inotify", NEW p \in Paths, Change(p),
           NEW kind \in InotifyKinds, Queue(Event(kind, p, 0)), movedTo' = movedTo
    PROVE  Later /\ Told(kind, p, 0)
<1> DEFINE N == Event(kind, p, 0)
<1>1. movedTo = <<>> /\ Front(p) \in DirsNow
  BY DEF Change
<1>2. Q' = Q \o N
  <2>1. queue' = queue \o N /\ queue \in Seq(InotifyEvent)
    BY NotMerged DEF QueueType
  <2>2. \/ N = <<>>
        \/ \E i \in DOMAIN watches : N = <<Ev(kind, i, p, 0)>>
    BY <1>1, EventIs DEF WatchType
  <2>3. N \in Seq(InotifyEvent)
    <3>1. \A i \in DOMAIN watches : Ev(kind, i, p, 0) \in InotifyEvent
      BY EvType
    <3>2. \A i \in DOMAIN watches : <<Ev(kind, i, p, 0)>> \in Seq(InotifyEvent)
      BY <3>1, SingletonIs
    <3> HIDE DEF N
    <3> QED
      BY <2>2, <3>2, EmptySeq
  <2> HIDE DEF N
  <2>4. queue \o N \in Seq(InotifyEvent)
    BY <2>1, <2>3, ConcatProperties
  <2> QED
    BY <1>1, <2>1, <2>4, ConcatEmptySeq DEF Q
<1>3. CASE N = <<>> /\ \A i \in DOMAIN watches : dirs[i] # Front(p)
  <2>1. N \in Seq(InotifyEvent) /\ Len(N) = 0
    BY <1>3, EmptySeq
  <2> HIDE DEF N
  <2>2. Later /\ \A k \in 1..Len(Q') : k > Len(Q) => k - Len(Q) \in 1..0
    BY <1>2, <2>1, LaterIs
  <2> QED
    BY <1>3, <2>2 DEF Told
<1>4. ASSUME NEW i \in DOMAIN watches, dirs[i] = Front(p), N = <<Ev(kind, i, p, 0)>>
      PROVE  Later /\ Told(kind, p, 0)
  <2>1. N \in Seq(InotifyEvent) /\ Len(N) = 1 /\ N[1] = Ev(kind, i, p, 0)
    <3>1. Ev(kind, i, p, 0) \in InotifyEvent
      BY EvType
    <3> HIDE DEF N
    <3> QED
      BY <1>4, <3>1, SingletonIs
  <2> HIDE DEF N
  <2>2. /\ Later /\ Len(Q') = Len(Q) + 1 /\ Q'[Len(Q) + 1] = Ev(kind, i, p, 0)
        /\ \A k \in 1..Len(Q') : k > Len(Q) => Q'[k] = N[k - Len(Q)] /\ k - Len(Q) \in 1..1
    <3>1. /\ Later /\ Len(Q') = Len(Q) + Len(N)
          /\ \A k \in 1..Len(N) : Q'[Len(Q) + k] = N[k]
          /\ \A k \in 1..Len(Q') : k > Len(Q) => k - Len(Q) \in 1..Len(N) /\ Q'[k] = N[k - Len(Q)]
      BY <1>2, <2>1, LaterIs
    <3> QED
      BY <2>1, <3>1
  <2>3. Len(Q) \in Nat
    BY QType
  <2>4. \A j \in DOMAIN watches : dirs[j] = Front(p) => j = i
    BY <1>4 DEF WatchType, DiskInv
  <2> QED
    BY <1>4, <2>1, <2>2, <2>3, <2>4 DEF Told
<1> QED
  BY <1>1, <1>3, <1>4, EventIs DEF WatchType

LEMMA EventType ==
    ASSUME DiskInv, WatchType, backend = "inotify", NEW p \in Paths, Front(p) \in DirsNow,
           NEW kind \in InotifyKinds, NEW cookie \in Nat
    PROVE  LET N == Event(kind, p, cookie)
           IN  /\ N \in Seq(InotifyEvent) /\ Len(N) \in 0..1
               /\ \A k \in 1..Len(N) : \E i \in DOMAIN watches : dirs[i] = Front(p) /\ N[k] = Ev(kind, i, p, cookie)
               /\ \A i \in DOMAIN watches : dirs[i] = Front(p) => Len(N) = 1 /\ N[1] = Ev(kind, i, p, cookie)
<1> DEFINE N == Event(kind, p, cookie)
<1>1. \A i \in DOMAIN watches : Ev(kind, i, p, cookie) \in InotifyEvent
  BY EvType
<1>2. CASE N = <<>> /\ \A i \in DOMAIN watches : dirs[i] # Front(p)
  <2>1. N \in Seq(InotifyEvent) /\ Len(N) = 0
    BY <1>2, EmptySeq
  <2> HIDE DEF N
  <2>2. \A k \in 1..Len(N) : FALSE
    BY <2>1
  <2> QED
    BY <1>2, <2>1, <2>2 DEF N
<1>3. ASSUME NEW i \in DOMAIN watches, dirs[i] = Front(p), N = <<Ev(kind, i, p, cookie)>>
      PROVE  /\ N \in Seq(InotifyEvent) /\ Len(N) \in 0..1
             /\ \A k \in 1..Len(N) : \E j \in DOMAIN watches : dirs[j] = Front(p) /\ N[k] = Ev(kind, j, p, cookie)
             /\ \A j \in DOMAIN watches : dirs[j] = Front(p) => Len(N) = 1 /\ N[1] = Ev(kind, j, p, cookie)
  <2> HIDE DEF N
  <2>1. N \in Seq(InotifyEvent) /\ Len(N) = 1 /\ N[1] = Ev(kind, i, p, cookie)
    BY <1>1, <1>3, SingletonIs
  <2>2. \A k \in 1..Len(N) : k = 1
    BY <2>1
  <2>3. \A j \in DOMAIN watches : dirs[j] = Front(p) => j = i
    BY <1>3 DEF WatchType, DiskInv
  <2> QED
    BY <1>3, <2>1, <2>2, <2>3
<1>4. \/ N = <<>> /\ \A i \in DOMAIN watches : dirs[i] # Front(p)
      \/ \E i \in DOMAIN watches : dirs[i] = Front(p) /\ N = <<Ev(kind, i, p, cookie)>>
  BY EventIs DEF WatchType
<1> HIDE DEF N
<1>5. /\ N \in Seq(InotifyEvent) /\ Len(N) \in 0..1
      /\ \A k \in 1..Len(N) : \E i \in DOMAIN watches : dirs[i] = Front(p) /\ N[k] = Ev(kind, i, p, cookie)
      /\ \A i \in DOMAIN watches : dirs[i] = Front(p) => Len(N) = 1 /\ N[1] = Ev(kind, i, p, cookie)
  BY <1>2, <1>3, <1>4
<1> QED
  BY <1>5 DEF N

LEMMA TwoLater ==
    ASSUME NEW S, NEW s \in Seq(S), NEW t \in Seq(S), NEW u \in Seq(S),
           Len(t) \in 0..1, Len(u) \in 0..1, NEW w, w = (s \o t) \o u
    PROVE  /\ Len(w) = Len(s) + Len(t) + Len(u)
           /\ \A k \in 1..Len(s) : w[k] = s[k]
           /\ Len(t) = 1 => w[Len(s) + 1] = t[1]
           /\ Len(u) = 1 => w[Len(w)] = u[1]
           /\ \A k \in 1..Len(w) : k > Len(s) =>
                  \/ Len(t) = 1 /\ k = Len(s) + 1
                  \/ Len(u) = 1 /\ k = Len(w)
<1> DEFINE v == s \o t
<1>1. v \in Seq(S) /\ Len(v) = Len(s) + Len(t) /\ \A k \in 1..Len(s) : v[k] = s[k]
  BY LongerIs
<1>2. \A k \in 1..Len(t) : v[Len(s) + k] = t[k]
  BY LongerIs
<1> HIDE DEF v
<1>3. Len(w) = Len(v) + Len(u) /\ \A k \in 1..Len(v) : w[k] = v[k]
  <2>1. w = v \o u
    BY DEF v
  <2>2. Len(v \o u) = Len(v) + Len(u) /\ \A k \in 1..Len(v) : (v \o u)[k] = v[k]
    BY <1>1, LongerIs
  <2> QED
    BY <2>1, <2>2
<1>4. \A k \in 1..Len(u) : w[Len(v) + k] = u[k]
  <2>1. w = v \o u
    BY DEF v
  <2>2. \A k \in 1..Len(u) : (v \o u)[Len(v) + k] = u[k]
    BY <1>1, LongerIs
  <2> QED
    BY <2>1, <2>2
<1>5. Len(s) \in Nat /\ Len(t) \in Nat /\ Len(u) \in Nat
  OBVIOUS
<1>6. \A k \in 1..Len(s) : w[k] = s[k]
  BY <1>1, <1>3, <1>5
<1>7. Len(t) = 1 => w[Len(s) + 1] = t[1]
  BY <1>1, <1>2, <1>3, <1>5
<1>8. Len(u) = 1 => w[Len(w)] = u[1]
  BY <1>1, <1>3, <1>4, <1>5
<1>9. ASSUME NEW k \in 1..Len(w), k > Len(s)
      PROVE  (Len(t) = 1 /\ k = Len(s) + 1) \/ (Len(u) = 1 /\ k = Len(w))
  <2> DEFINE a == Len(s)  b == Len(t)  c == Len(u)  d == Len(w)
  <2>1. a \in Nat /\ (b = 0 \/ b = 1) /\ (c = 0 \/ c = 1) /\ d = a + b + c /\ k \in Int /\ k <= d /\ k > a
    BY <1>1, <1>3, <1>5, <1>9
  <2> HIDE DEF a, b, c, d
  <2>2. (b = 1 /\ k = a + 1) \/ (c = 1 /\ k = d)
    BY <2>1
  <2> QED
    BY <2>2 DEF a, b, c, d
<1>10. Len(w) = Len(s) + Len(t) + Len(u)
  BY <1>1, <1>3, <1>5
<1> QED
  BY <1>6, <1>7, <1>8, <1>9, <1>10

\* The events of a directory that is removed: its own, and its watch's last.
LEMMA RemoveDirTold ==
    ASSUME DiskInv, QueueType, WatchType, backend = "inotify", NEW p \in DirPaths, RemoveDir(p)
    PROVE  /\ Later
           /\ \A k \in 1..Len(Q') : k > Len(Q) =>
                  \/ \E i \in DOMAIN watches : dirs[i] = Front(p) /\ Q'[k] = Ev("delete", i, p, 0)
                  \/ /\ Inode(p) \in DOMAIN watches /\ Q'[k] \in InotifyEvent
                     /\ Q'[k].kind = "ignored" /\ Q'[k].wd = watches[Inode(p)] /\ Q'[k].cookie = 0
                     /\ k = Len(Q')
           /\ \A j \in DOMAIN watches : dirs[j] = Front(p) =>
                  \E k \in 1..Len(Q') : k > Len(Q) /\ Q'[k] = Ev("delete", j, p, 0)
<1> DEFINE i == Inode(p)
           N == Event("delete", p, 0)
           M == IF i \in DOMAIN watches THEN Ignored(watches[i]) ELSE <<>>
<1>1. movedTo = <<>> /\ movedTo' = movedTo /\ Front(p) \in DirsNow /\ Queue(N \o M) /\ p \in Paths
  BY DEF RemoveDir, Change, Paths
<1>2. /\ N \in Seq(InotifyEvent) /\ Len(N) \in 0..1
      /\ \A k \in 1..Len(N) : \E j \in DOMAIN watches : dirs[j] = Front(p) /\ N[k] = Ev("delete", j, p, 0)
      /\ \A j \in DOMAIN watches : dirs[j] = Front(p) => Len(N) = 1 /\ N[1] = Ev("delete", j, p, 0)
  BY <1>1, EventType DEF InotifyKinds
<1>3. /\ M \in Seq(InotifyEvent) /\ Len(M) \in 0..1
      /\ Len(M) = 1 => /\ i \in DOMAIN watches /\ M[1] \in InotifyEvent
                       /\ M[1].kind = "ignored" /\ M[1].wd = watches[i] /\ M[1].cookie = 0
  <2>1. CASE i \in DOMAIN watches
    <3> DEFINE e == [kind |-> "ignored", wd |-> watches[i], name |-> "", isDir |-> FALSE, cookie |-> 0]
    <3>1. e \in InotifyEvent
      <4>1. watches[i] \in Nat
        BY <2>1 DEF WatchType
      <4>2. "ignored" \in InotifyKinds /\ 0 \in Nat /\ FALSE \in BOOLEAN
        BY DEF InotifyKinds
      <4> HIDE DEF i
      <4> QED
        BY <4>1, <4>2 DEF InotifyEvent
    <3>2. e.kind = "ignored" /\ e.wd = watches[i] /\ e.cookie = 0
      OBVIOUS
    <3>3. M = <<e>>
      BY <2>1 DEF Ignored
    <3> HIDE DEF e, M
    <3> QED
      BY <2>1, <3>1, <3>2, <3>3, SingletonIs
  <2>2. CASE i \notin DOMAIN watches
    BY <2>2, EmptySeq
  <2> QED
    BY <2>1, <2>2
<1> HIDE DEF N, M
<1>4. Q' = (queue \o N) \o M /\ Q = queue /\ queue \in Seq(InotifyEvent)
  <2>1. queue' = queue \o (N \o M) /\ queue \in Seq(InotifyEvent)
    BY <1>1, NotMerged DEF QueueType
  <2>2. queue \o (N \o M) = (queue \o N) \o M /\ queue \o (N \o M) \in Seq(InotifyEvent)
    BY <1>2, <1>3, <2>1, ConcatProperties, ConcatAssociative, SMTT(30)
  <2> QED
    BY <1>1, <2>1, <2>2, ConcatEmptySeq DEF Q
<1>5. /\ Len(Q') = Len(queue) + Len(N) + Len(M)
      /\ \A k \in 1..Len(queue) : Q'[k] = queue[k]
      /\ Len(N) = 1 => Q'[Len(queue) + 1] = N[1]
      /\ Len(M) = 1 => Q'[Len(Q')] = M[1]
      /\ \A k \in 1..Len(Q') : k > Len(queue) =>
             \/ Len(N) = 1 /\ k = Len(queue) + 1
             \/ Len(M) = 1 /\ k = Len(Q')
  <2> DEFINE w == Q'
  <2>1. /\ queue \in Seq(InotifyEvent) /\ N \in Seq(InotifyEvent) /\ M \in Seq(InotifyEvent)
        /\ Len(N) \in 0..1 /\ Len(M) \in 0..1 /\ w = (queue \o N) \o M
    BY <1>2, <1>3, <1>4
  <2> HIDE DEF w
  <2>2. /\ Len(w) = Len(queue) + Len(N) + Len(M)
        /\ \A k \in 1..Len(queue) : w[k] = queue[k]
        /\ Len(N) = 1 => w[Len(queue) + 1] = N[1]
        /\ Len(M) = 1 => w[Len(w)] = M[1]
        /\ \A k \in 1..Len(w) : k > Len(queue) =>
               \/ Len(N) = 1 /\ k = Len(queue) + 1
               \/ Len(M) = 1 /\ k = Len(w)
    BY <2>1, TwoLater, SMTT(30)
  <2> QED
    BY <2>2 DEF w
<1>6. Len(queue) \in Nat
  BY <1>4
<1>7. Later
  BY <1>2, <1>3, <1>4, <1>5, <1>6 DEF Later
<1>8. ASSUME NEW j \in DOMAIN watches, dirs[j] = Front(p)
      PROVE  \E k \in 1..Len(Q') : k > Len(Q) /\ Q'[k] = Ev("delete", j, p, 0)
  <2>1. Len(N) = 1 /\ Q'[Len(queue) + 1] = Ev("delete", j, p, 0)
    BY <1>2, <1>5, <1>8
  <2>2. Len(queue) + 1 \in 1..Len(Q') /\ Len(queue) + 1 > Len(Q)
    BY <1>3, <1>4, <1>5, <1>6, <2>1
  <2> QED
    BY <2>1, <2>2
<1>9. ASSUME NEW k \in 1..Len(Q'), k > Len(Q)
      PROVE  \/ \E j \in DOMAIN watches : dirs[j] = Front(p) /\ Q'[k] = Ev("delete", j, p, 0)
             \/ /\ i \in DOMAIN watches /\ Q'[k] \in InotifyEvent
                /\ Q'[k].kind = "ignored" /\ Q'[k].wd = watches[i] /\ Q'[k].cookie = 0
                /\ k = Len(Q')
  <2>1. CASE Len(N) = 1 /\ k = Len(queue) + 1
    <3>1. 1 \in 1..Len(N) /\ Q'[k] = N[1]
      BY <1>5, <2>1
    <3> QED
      BY <1>2, <3>1
  <2>2. CASE Len(M) = 1 /\ k = Len(Q')
    BY <1>3, <1>5, <2>2
  <2> QED
    BY <1>4, <1>5, <1>9, <2>1, <2>2
<1> QED
  BY <1>7, <1>8, <1>9

\* The events of a rename, from p to q: the last one is q's.
RenameTold(p, q) ==
    /\ \A k \in 1..Len(Q') : k > Len(Q) =>
           \/ \E i \in DOMAIN watches :
                  dirs[i] = Front(p) /\ Q'[k] = Ev("movedFrom", i, p, changes + 1) /\ k = Len(Q) + 1
           \/ \E i \in DOMAIN watches :
                  dirs[i] = Front(q) /\ Q'[k] = Ev("movedTo", i, q, changes + 1) /\ k = Len(Q')
    /\ \A j, k \in 1..Len(Q') :
           j > Len(Q) /\ k > Len(Q) /\ Q'[j].kind = "movedFrom" /\ Q'[k].kind = "movedTo" => k = j + 1
    /\ \A i \in DOMAIN watches : dirs[i] = Front(p) =>
           \E k \in 1..Len(Q') : k = Len(Q) + 1 /\ Q'[k] = Ev("movedFrom", i, p, changes + 1)
    /\ \A i \in DOMAIN watches : dirs[i] = Front(q) =>
           \E k \in 1..Len(Q') : k > Len(Q) /\ k = Len(Q') /\ Q'[k] = Ev("movedTo", i, q, changes + 1)

LEMMA RenameTells ==
    ASSUME DiskInv, QueueType, WatchType, backend = "inotify",
           NEW p \in Paths, NEW q \in Paths, Rename(p, q)
    PROVE  Later /\ RenameTold(p, q)
<1> DEFINE N == Event("movedFrom", p, changes + 1)  M == Event("movedTo", q, changes + 1)
<1>1. /\ movedTo = <<>> /\ Front(p) \in DirsNow /\ Front(q) \in DirsNow
      /\ changes' = changes + 1 /\ changes + 1 \in Nat
      /\ Queue(N) /\ movedTo' = M
  BY DEF Rename, Change, DiskInv
<1>2. /\ N \in Seq(InotifyEvent) /\ Len(N) \in 0..1
      /\ \A k \in 1..Len(N) : \E i \in DOMAIN watches : dirs[i] = Front(p) /\ N[k] = Ev("movedFrom", i, p, changes + 1)
      /\ \A i \in DOMAIN watches : dirs[i] = Front(p) => Len(N) = 1 /\ N[1] = Ev("movedFrom", i, p, changes + 1)
  BY <1>1, EventType DEF InotifyKinds
<1>3. /\ M \in Seq(InotifyEvent) /\ Len(M) \in 0..1
      /\ \A k \in 1..Len(M) : \E i \in DOMAIN watches : dirs[i] = Front(q) /\ M[k] = Ev("movedTo", i, q, changes + 1)
      /\ \A i \in DOMAIN watches : dirs[i] = Front(q) => Len(M) = 1 /\ M[1] = Ev("movedTo", i, q, changes + 1)
  BY <1>1, EventType DEF InotifyKinds
<1> HIDE DEF N, M
<1>4. Q' = (queue \o N) \o M /\ Q = queue /\ queue \in Seq(InotifyEvent)
  <2>1. queue' = queue \o N /\ queue \in Seq(InotifyEvent)
    BY <1>1, NotMerged DEF QueueType
  <2> QED
    BY <1>1, <2>1, ConcatEmptySeq DEF Q
<1>5. /\ Len(Q') = Len(queue) + Len(N) + Len(M)
      /\ \A k \in 1..Len(queue) : Q'[k] = queue[k]
      /\ Len(N) = 1 => Q'[Len(queue) + 1] = N[1]
      /\ Len(M) = 1 => Q'[Len(Q')] = M[1]
      /\ \A k \in 1..Len(Q') : k > Len(queue) =>
             \/ Len(N) = 1 /\ k = Len(queue) + 1
             \/ Len(M) = 1 /\ k = Len(Q')
  <2> DEFINE w == Q'
  <2>1. /\ queue \in Seq(InotifyEvent) /\ N \in Seq(InotifyEvent) /\ M \in Seq(InotifyEvent)
        /\ Len(N) \in 0..1 /\ Len(M) \in 0..1 /\ w = (queue \o N) \o M
    BY <1>2, <1>3, <1>4
  <2> HIDE DEF w
  <2>2. /\ Len(w) = Len(queue) + Len(N) + Len(M)
        /\ \A k \in 1..Len(queue) : w[k] = queue[k]
        /\ Len(N) = 1 => w[Len(queue) + 1] = N[1]
        /\ Len(M) = 1 => w[Len(w)] = M[1]
        /\ \A k \in 1..Len(w) : k > Len(queue) =>
               \/ Len(N) = 1 /\ k = Len(queue) + 1
               \/ Len(M) = 1 /\ k = Len(w)
    BY <2>1, TwoLater, SMTT(30)
  <2> QED
    BY <2>2 DEF w
<1>6. Len(queue) \in Nat
  BY <1>4
<1>7. Later
  BY <1>2, <1>3, <1>4, <1>5, <1>6 DEF Later
<1>8. \A x, j, y, k : Ev("movedFrom", j, x, k).kind = "movedFrom" /\ Ev("movedTo", y, x, k).kind = "movedTo"
  BY DEF Ev
<1>9. Len(N) = 1 => N[1].kind = "movedFrom"
  BY <1>2, <1>8
<1>10. Len(M) = 1 => M[1].kind = "movedTo"
  BY <1>3, <1>8
<1>11. ASSUME NEW j \in 1..Len(Q'), NEW k \in 1..Len(Q'), j > Len(Q), k > Len(Q),
              Q'[j].kind = "movedFrom", Q'[k].kind = "movedTo"
       PROVE  k = j + 1
  <2>1. Len(N) = 1 /\ j = Len(queue) + 1
    BY <1>4, <1>5, <1>10, <1>11
  <2>2. Len(M) = 1 /\ k = Len(Q')
    BY <1>4, <1>5, <1>9, <1>11
  <2> QED
    BY <1>5, <1>6, <2>1, <2>2
<1>12. ASSUME NEW k \in 1..Len(Q'), k > Len(Q)
       PROVE  \/ \E i \in DOMAIN watches :
                     dirs[i] = Front(p) /\ Q'[k] = Ev("movedFrom", i, p, changes + 1) /\ k = Len(Q) + 1
              \/ \E i \in DOMAIN watches :
                     dirs[i] = Front(q) /\ Q'[k] = Ev("movedTo", i, q, changes + 1) /\ k = Len(Q')
  BY <1>2, <1>3, <1>4, <1>5, <1>12, SMTT(30)
<1>13. ASSUME NEW i \in DOMAIN watches, dirs[i] = Front(p)
       PROVE  \E k \in 1..Len(Q') : k = Len(Q) + 1 /\ Q'[k] = Ev("movedFrom", i, p, changes + 1)
  <2>1. Len(N) = 1 /\ N[1] = Ev("movedFrom", i, p, changes + 1)
    BY <1>2, <1>13
  <2>2. Len(Q) + 1 \in 1..Len(Q')
    BY <1>3, <1>4, <1>5, <1>6, <2>1
  <2> QED
    BY <1>4, <1>5, <2>1, <2>2
<1>14. ASSUME NEW i \in DOMAIN watches, dirs[i] = Front(q)
       PROVE  \E k \in 1..Len(Q') : k > Len(Q) /\ k = Len(Q') /\ Q'[k] = Ev("movedTo", i, q, changes + 1)
  <2>1. Len(M) = 1 /\ M[1] = Ev("movedTo", i, q, changes + 1)
    BY <1>3, <1>14
  <2>2. Len(Q') \in 1..Len(Q') /\ Len(Q') > Len(Q)
    BY <1>2, <1>4, <1>5, <1>6, <2>1
  <2> QED
    BY <1>5, <2>1, <2>2
<1> QED
  BY <1>7, <1>11, <1>12, <1>13, <1>14 DEF RenameTold

-----------------------------------------------------------------------------
(* The index.                                                              *)

IndexType == index \in [Paths -> Nat]

LEMMA AddedIs ==
    ASSUME NEW ix \in [Paths -> Nat], NEW p
    PROVE  /\ Added(ix, p) \in [Paths -> Nat]
           /\ \A r \in Paths : Added(ix, p)[r] = IF r = p THEN ix[r] + 1 ELSE ix[r]
<1>1. ASSUME p \in Paths PROVE ix[p] + 1 \in Nat
  BY <1>1
<1>2. \A r \in Paths : Added(ix, p)[r] = IF r = p THEN ix[r] + 1 ELSE ix[r]
  BY DEF Added
<1>3. Added(ix, p) \in [Paths -> Nat]
  BY <1>1 DEF Added
<1> QED
  BY <1>2, <1>3

LEMMA RemovedIs ==
    ASSUME NEW ix \in [Paths -> Nat], NEW p
    PROVE  /\ Removed(ix, p) \in [Paths -> Nat]
           /\ \A r \in Paths : Removed(ix, p)[r] = IF r = p /\ ix[r] > 0 THEN ix[r] - 1 ELSE ix[r]
<1> DEFINE n == IF ix[p] > 0 THEN ix[p] - 1 ELSE 0
<1>1. ASSUME p \in Paths PROVE n \in Nat /\ (~(ix[p] > 0) => ix[p] = 0)
  <2>1. ix[p] \in Nat
    BY <1>1
  <2> QED
    BY <2>1
<1>2. Removed(ix, p) = [ix EXCEPT ![p] = n]
  BY DEF Removed
<1>3. ASSUME NEW r \in Paths
      PROVE  Removed(ix, p)[r] = IF r = p /\ ix[r] > 0 THEN ix[r] - 1 ELSE ix[r]
  <2>1. CASE r = p
    BY <1>1, <1>2, <2>1
  <2>2. CASE r # p
    BY <1>2, <2>2
  <2> QED
    BY <2>1, <2>2
<1> HIDE DEF n
<1>4. Removed(ix, p) \in [Paths -> Nat]
  BY <1>1, <1>2
<1> QED
  BY <1>3, <1>4

LEMMA RescannedIs ==
    ASSUME NEW ix \in [Paths -> Nat], NEW p, NEW iy \in Rescanned(ix, p)
    PROVE  /\ iy \in [Paths -> Nat]
           /\ \A r \in Paths : iy[r] \in {ix[r], ix[r] + 1}
           /\ p \in files => iy = Added(ix, p)
           /\ p \notin files => \A r \in Paths : iy[r] # ix[r] => p \in DirsNow /\ r \in Below(p)
<1>1. CASE p \in files
  BY <1>1, AddedIs DEF Rescanned
<1>2. ASSUME p \notin files, p \in DirsNow, NEW r \in Below(p), iy = Added(ix, r)
      PROVE  /\ iy \in [Paths -> Nat]
             /\ \A x \in Paths : iy[x] \in {ix[x], ix[x] + 1}
             /\ \A x \in Paths : iy[x] # ix[x] => x \in Below(p)
  BY <1>2, AddedIs
<1>3. CASE iy = ix
  <2>1. p \in files => ix = Added(ix, p)
    BY <1>1, <1>3
  <2> QED
    BY <1>3, <2>1
<1> QED
  BY <1>1, <1>2, <1>3 DEF Rescanned

-----------------------------------------------------------------------------
(* inotify: types.                                                         *)

InotifyNext ==
    \/ \E p \in FilePaths : Create(p) \/ Modify(p) \/ Delete(p)
    \/ \E p \in DirPaths : MakeDir(p) \/ RemoveDir(p)
    \/ \E p, q \in Paths : Rename(p, q)
    \/ QueueMovedTo \/ HandleEvent \/ EndBatch \/ WatchNext \/ ReadSubtree \/ EmitNext
    \/ UNCHANGED vars

LEMMA InotifySteps ==
    ASSUME Inotify', [Next]_vars
    PROVE  Inotify /\ InotifyNext
<1> USE DEF Inotify, InotifyNext, Change, kernel, walk, table, ghosts, notWalk
<1>1. CASE Others
  BY <1>1 DEF Others, Create, Modify, Delete, MakeDir, RemoveDir, Rename
<1>2. CASE QueueMovedTo
  BY <1>2 DEF QueueMovedTo
<1>3. CASE Watcher
  BY <1>3 DEF Watcher, ReadFanotify, HandleEvent, EndBatch, WatchNext, ReadSubtree, EmitNext, Leave
<1>4. CASE Rest \/ UNCHANGED vars
  BY <1>4 DEF Rest, vars
<1> QED
  BY <1>1, <1>2, <1>3, <1>4 DEF Next

\* An event that closes a watch is the last one of it.
IgnInv ==
    \A k \in 1..Len(Q) : Q[k].kind = "ignored" => \A i \in DOMAIN watches : watches[i] # Q[k].wd

Typed ==
    /\ backend = "inotify"
    /\ DiskInv /\ IndexType /\ QueueType /\ WatchType /\ PendingType /\ WalkInv /\ IgnInv

\* An event is handled: the queue loses its head.
LEMMA QueueShift ==
    ASSUME NEW S, queue \in Seq(S), movedTo \in Seq(S), queue # <<>>,
           queue' = Tail(queue), movedTo' = movedTo
    PROVE  /\ Len(Q) \in Nat \ {0} /\ Q[1] = Head(queue) /\ Q[1] \in S
           /\ queue' \in Seq(S) /\ movedTo' = movedTo
           /\ Len(Q') = Len(Q) - 1
           /\ \A k \in 1..Len(Q') : Q'[k] = Q[k + 1] /\ k + 1 \in 1..Len(Q) /\ k + 1 > 1
           /\ \A k \in 1..Len(Q) : k > 1 => k - 1 \in 1..Len(Q') /\ Q'[k - 1] = Q[k]
<1>1. queue # <<>> /\ queue' = Tail(queue) /\ movedTo' = movedTo /\ queue \in Seq(S) /\ movedTo \in Seq(S)
  OBVIOUS
<1>2. /\ Head(queue) = queue[1] /\ Head(queue) \in S /\ Tail(queue) \in Seq(S)
      /\ Len(queue) \in Nat \ {0} /\ Len(Tail(queue)) = Len(queue) - 1
      /\ \A k \in 1..(Len(queue) - 1) : Tail(queue)[k] = queue[k + 1]
  BY <1>1, ShorterIs
<1>3. /\ Len(Q) = Len(queue) + Len(movedTo)
      /\ \A k \in 1..Len(queue) : Q[k] = queue[k]
      /\ \A k \in 1..Len(movedTo) : Q[Len(queue) + k] = movedTo[k]
  BY <1>1, LongerIs DEF Q
<1>4. /\ Len(Q') = Len(Tail(queue)) + Len(movedTo)
      /\ \A k \in 1..Len(Tail(queue)) : Q'[k] = Tail(queue)[k]
      /\ \A k \in 1..Len(movedTo) : Q'[Len(Tail(queue)) + k] = movedTo[k]
  <2>1. Q' = Tail(queue) \o movedTo
    BY <1>1 DEF Q
  <2> DEFINE t == Tail(queue)
  <2>2. t \in Seq(S)
    BY <1>2
  <2>3. Q' = t \o movedTo
    BY <2>1
  <2> HIDE DEF t
  <2>4. Len(t \o movedTo) = Len(t) + Len(movedTo) /\ \A k \in 1..Len(t) : (t \o movedTo)[k] = t[k]
    BY <1>1, <2>2, LongerIs
  <2>5. \A k \in 1..Len(movedTo) : (t \o movedTo)[Len(t) + k] = movedTo[k]
    BY <1>1, <2>2, LongerIs
  <2>6. Len(Q') = Len(t) + Len(movedTo) /\ \A k \in 1..Len(t) : Q'[k] = t[k]
    BY <2>3, <2>4
  <2>7. \A k \in 1..Len(movedTo) : Q'[Len(t) + k] = movedTo[k]
    BY <2>3, <2>5
  <2> QED
    BY <2>6, <2>7 DEF t
<1>5. Len(movedTo) \in Nat
  BY <1>1
<1> DEFINE l == Len(queue)  m == Len(movedTo)
<1>6. Len(Q) = l + m /\ Len(Q') = (l - 1) + m /\ l \in Nat \ {0} /\ m \in Nat
  BY <1>2, <1>3, <1>4, <1>5
<1>7. ASSUME NEW k \in 1..Len(Q')
      PROVE  Q'[k] = Q[k + 1] /\ k + 1 \in 1..Len(Q) /\ k + 1 > 1
  <2>1. k \in 1..((l - 1) + m)
    BY <1>6
  <2>2. k + 1 \in 1..Len(Q) /\ k + 1 > 1
    BY <1>6, <2>1
  <2>3. CASE k <= l - 1
    <3>1. k \in 1..(l - 1) /\ k + 1 \in 1..l
      BY <1>6, <2>1, <2>3
    <3>2. Q'[k] = Tail(queue)[k] /\ Tail(queue)[k] = queue[k + 1] /\ Q[k + 1] = queue[k + 1]
      BY <1>2, <1>3, <1>4, <3>1
    <3> QED
      BY <2>2, <3>2
  <2>4. CASE ~(k <= l - 1)
    <3> DEFINE j == k - (l - 1)
    <3>1. j \in 1..m /\ k = (l - 1) + j /\ k + 1 = l + j
      BY <1>6, <2>1, <2>4
    <3> HIDE DEF j
    <3>2. Q'[k] = movedTo[j] /\ Q[k + 1] = movedTo[j]
      BY <1>2, <1>3, <1>4, <3>1
    <3> QED
      BY <2>2, <3>2
  <2> QED
    BY <2>3, <2>4
<1>8. ASSUME NEW k \in 1..Len(Q), k > 1
      PROVE  k - 1 \in 1..Len(Q') /\ Q'[k - 1] = Q[k]
  <2>1. k - 1 \in 1..Len(Q') /\ (k - 1) + 1 = k
    BY <1>6, <1>8
  <2> QED
    BY <1>7, <2>1
<1>9. Q[1] = Head(queue) /\ Len(Q) \in Nat \ {0} /\ Len(Q') = Len(Q) - 1
  BY <1>2, <1>3, <1>6
<1> QED
  BY <1>1, <1>2, <1>7, <1>8, <1>9

LEMMA HandleShift ==
    ASSUME QueueType, HandleEvent
    PROVE  /\ Len(Q) \in Nat \ {0} /\ Q[1] = Head(queue) /\ Q[1] \in InotifyEvent
           /\ queue' \in Seq(InotifyEvent) /\ movedTo' = movedTo
           /\ Len(Q') = Len(Q) - 1
           /\ \A k \in 1..Len(Q') : Q'[k] = Q[k + 1] /\ k + 1 \in 1..Len(Q) /\ k + 1 > 1
           /\ \A k \in 1..Len(Q) : k > 1 => k - 1 \in 1..Len(Q') /\ Q'[k - 1] = Q[k]
<1>1. queue # <<>> /\ queue' = Tail(queue) /\ movedTo' = movedTo /\ queue \in Seq(InotifyEvent) /\ movedTo \in Seq(InotifyEvent)
  BY DEF HandleEvent, QueueType
<1> QED
  BY <1>1, QueueShift

\* What handling an event does to the watcher's own state.
LEMMA HandleIs ==
    ASSUME Typed, HandleEvent
    PROVE  /\ Idle /\ batch /\ batch' = batch /\ UNCHANGED <<disk, watches, descriptors, backend, gaps>>
           /\ misreported' = Misled
           /\ \/ HandleIgnored(Q[1]) \/ HandleUntracked(Q[1])
              \/ /\ Q[1].kind # "ignored" /\ Q[1].wd \in DOMAIN wdToPath
                 /\ PathOf(Q[1]) \in Path /\ PathOf(Q[1]) # Root
                 /\ PathOf(Q[1]) = Append(wdToPath[Q[1].wd], Q[1].name)
                 /\ UNCHANGED table
                 /\ \/ HandleCreate(Q[1], PathOf(Q[1])) \/ HandleDelete(Q[1], PathOf(Q[1]))
                    \/ HandleModify(Q[1], PathOf(Q[1]))
                    \/ HandleMovedFrom(Q[1], PathOf(Q[1])) \/ HandleMovedTo(Q[1], PathOf(Q[1]))
<1>1. Q[1] = Head(queue) /\ Len(Q) \in Nat \ {0}
  BY HandleShift DEF Typed
<1>2. Q[1].kind # "ignored" => Q[1].name \in STRING
  BY <1>1 DEF Typed, QueueType
<1>3. ASSUME Q[1].kind # "ignored", Q[1].wd \in DOMAIN wdToPath
      PROVE  PathOf(Q[1]) \in Path /\ PathOf(Q[1]) # Root /\ PathOf(Q[1]) = Append(wdToPath[Q[1].wd], Q[1].name)
  BY <1>2, <1>3, AppendIs DEF PathOf, Typed, WatchType
<1>4. Handle(Q[1])
  BY <1>1 DEF HandleEvent
<1>5. \/ HandleIgnored(Q[1]) \/ HandleUntracked(Q[1])
      \/ /\ Q[1].kind # "ignored" /\ Q[1].wd \in DOMAIN wdToPath
         /\ \/ HandleCreate(Q[1], PathOf(Q[1])) \/ HandleDelete(Q[1], PathOf(Q[1]))
            \/ HandleModify(Q[1], PathOf(Q[1]))
            \/ HandleMovedFrom(Q[1], PathOf(Q[1])) \/ HandleMovedTo(Q[1], PathOf(Q[1]))
  BY <1>4 DEF Handle, Tracked
<1>6. /\ HandleCreate(Q[1], PathOf(Q[1])) => UNCHANGED table
      /\ HandleDelete(Q[1], PathOf(Q[1])) => UNCHANGED table
      /\ HandleModify(Q[1], PathOf(Q[1])) => UNCHANGED table
      /\ HandleMovedFrom(Q[1], PathOf(Q[1])) => UNCHANGED table
      /\ HandleMovedTo(Q[1], PathOf(Q[1])) => UNCHANGED table
  BY DEF HandleCreate, HandleDelete, HandleModify, HandleMovedFrom, HandleMovedTo
<1>7. Idle /\ batch /\ batch' = batch /\ UNCHANGED <<disk, watches, descriptors, backend, gaps>> /\ misreported' = Misled
  BY DEF HandleEvent
<1> QED
  BY <1>3, <1>5, <1>6, <1>7

LEMMA IndexTypeStep == Typed /\ InotifyNext => IndexType'
<1> SUFFICES ASSUME Typed, InotifyNext PROVE IndexType'
  OBVIOUS
<1>0. IndexType
  BY DEF Typed
<1>1. CASE UNCHANGED index
  BY <1>0, <1>1 DEF IndexType
<1>2. ASSUME NEW p, index' \in Rescanned(index, p) PROVE IndexType'
  BY <1>0, <1>2, RescannedIs DEF IndexType
<1>3. ASSUME NEW p, index' = Removed(index, p) PROVE IndexType'
  BY <1>0, <1>3, RemovedIs DEF IndexType
<1>4. ASSUME NEW p, index' \in Rescanned(Removed(index, p), p) PROVE IndexType'
  <2>1. Removed(index, p) \in [Paths -> Nat]
    BY <1>0, RemovedIs DEF IndexType
  <2> QED
    BY <1>4, <2>1, RescannedIs DEF IndexType
<1>5. ASSUME NEW p, NEW q, index' = Added(Removed(index, p), q) PROVE IndexType'
  <2>1. Removed(index, p) \in [Paths -> Nat]
    BY <1>0, RemovedIs DEF IndexType
  <2> QED
    BY <1>5, <2>1, AddedIs DEF IndexType
<1>6. CASE HandleEvent
  <2> USE DEF ApplyAdded, ApplyModified, ApplyRemoved, ApplyRenamed
  <2>1. CASE HandleIgnored(Q[1]) \/ HandleUntracked(Q[1]) \/ HandleMovedFrom(Q[1], PathOf(Q[1]))
    BY <1>1, <2>1 DEF HandleIgnored, HandleUntracked, HandleMovedFrom
  <2>2. CASE HandleCreate(Q[1], PathOf(Q[1]))
    BY <1>2, <2>2 DEF HandleCreate
  <2>3. CASE HandleDelete(Q[1], PathOf(Q[1]))
    BY <1>3, <2>3 DEF HandleDelete
  <2>4. CASE HandleModify(Q[1], PathOf(Q[1]))
    BY <1>4, <2>4 DEF HandleModify
  <2>5. CASE HandleMovedTo(Q[1], PathOf(Q[1]))
    BY <1>2, <1>5, <2>5 DEF HandleMovedTo
  <2> QED
    BY <1>6, <2>1, <2>2, <2>3, <2>4, <2>5, HandleIs
<1>7. CASE EmitNext
  BY <1>2, <1>7 DEF EmitNext
<1>8. CASE UNCHANGED vars
  BY <1>1, <1>8 DEF vars
<1>9. ASSUME NEW p \in FilePaths, Create(p) \/ Modify(p) \/ Delete(p) PROVE IndexType'
  BY <1>1, <1>9 DEF Create, Modify, Delete, Change
<1>10. ASSUME NEW p \in DirPaths, MakeDir(p) \/ RemoveDir(p) PROVE IndexType'
  BY <1>1, <1>10 DEF MakeDir, RemoveDir, Change
<1>11. ASSUME NEW p \in Paths, NEW q \in Paths, Rename(p, q) PROVE IndexType'
  BY <1>1, <1>11 DEF Rename, Change
<1>12. CASE QueueMovedTo \/ EndBatch \/ WatchNext \/ ReadSubtree
  BY <1>1, <1>12 DEF QueueMovedTo, EndBatch, WatchNext, ReadSubtree, ghosts
<1> QED
  BY <1>6, <1>7, <1>8, <1>9, <1>10, <1>11, <1>12 DEF InotifyNext

LEMMA QueueTypeStep == Typed /\ InotifyNext => QueueType'
<1> SUFFICES ASSUME Typed, InotifyNext PROVE QueueType'
  OBVIOUS
<1>0. DiskInv /\ QueueType /\ WatchType /\ backend = "inotify" /\ changes \in Nat
  BY DEF Typed, DiskInv
<1>1. CASE UNCHANGED <<queue, movedTo, changes>> /\ descriptors' >= descriptors /\ descriptors' \in Nat
  <2>1. Q' = Q
    BY <1>1 DEF Q
  <2>2. \A k \in 1..Len(Q) : Q[k].wd \in Nat /\ Q[k].wd <= descriptors
    BY <1>0, QType DEF QueueType, InotifyEvent
  <2>3. descriptors \in Nat
    BY <1>0 DEF WatchType
  <2>4. \A k \in 1..Len(Q) : Q[k].wd <= descriptors'
    BY <1>1, <2>2, <2>3
  <2> QED
    BY <1>0, <1>1, <2>1, <2>4 DEF QueueType
<1>2. \A k \in 1..Len(Q) : Q[k].cookie <= changes /\ Q[k].cookie \in Nat
  BY <1>0, QType DEF QueueType, InotifyEvent
<1>3. ASSUME NEW p \in Paths, Change(p), NEW kind \in InotifyKinds, Queue(Event(kind, p, 0)), movedTo' = movedTo
      PROVE  QueueType'
  <2>1. Later /\ Told(kind, p, 0)
    BY <1>0, <1>3, OneTold
  <2>2. changes' = changes + 1 /\ descriptors' = descriptors /\ Front(p) \in DirsNow
    BY <1>3 DEF Change
  <2>3. queue' \in Seq(InotifyEvent)
    <3> DEFINE N == Event(kind, p, 0)
    <3>1. N \in Seq(InotifyEvent)
      BY <1>0, <2>2, EventType
    <3>2. queue' = queue \o N
      BY <1>0, <1>3, NotMerged
    <3> HIDE DEF N
    <3> QED
      BY <1>0, <3>1, <3>2, ConcatProperties DEF QueueType
  <2>4. ASSUME NEW k \in 1..Len(Q')
        PROVE  Q'[k].wd <= descriptors /\ Q'[k].cookie <= changes + 1 /\ (Q'[k].kind # "ignored" => Q'[k].name \in STRING)
    <3>1. CASE k <= Len(Q)
      <4>1. k \in 1..Len(Q) /\ Q'[k] = Q[k]
        BY <1>0, <2>1, <3>1, QType DEF Later
      <4> QED
        BY <1>0, <1>2, <4>1 DEF QueueType
    <3>2. CASE k > Len(Q)
      <4>1. PICK i \in DOMAIN watches : Q'[k] = Ev(kind, i, p, 0)
        BY <2>1, <3>2 DEF Told
      <4>2. Ev(kind, i, p, 0).wd = watches[i] /\ Ev(kind, i, p, 0).cookie = 0 /\ Ev(kind, i, p, 0).name = Last(p)
        BY DEF Ev
      <4>3. Last(p) \in STRING
        BY PathsType, EntryIs
      <4> QED
        BY <1>0, <4>1, <4>2, <4>3 DEF WatchType
    <3> QED
      BY <1>0, <3>1, <3>2, QType
  <2> QED
    BY <1>0, <1>3, <2>2, <2>3, <2>4 DEF QueueType
<1>4. ASSUME NEW p \in FilePaths, Create(p) \/ Modify(p) \/ Delete(p) PROVE QueueType'
  BY <1>3, <1>4 DEF Create, Modify, Delete, InotifyKinds, Paths
<1>5. ASSUME NEW p \in DirPaths, MakeDir(p) PROVE QueueType'
  BY <1>3, <1>5 DEF MakeDir, InotifyKinds, Paths
<1>6. ASSUME NEW p \in DirPaths, RemoveDir(p) PROVE QueueType'
  <2> DEFINE N == Event("delete", p, 0)
             M == IF Inode(p) \in DOMAIN watches THEN Ignored(watches[Inode(p)]) ELSE <<>>
  <2>1. /\ Later
        /\ \A k \in 1..Len(Q') : k > Len(Q) =>
               \/ \E i \in DOMAIN watches : dirs[i] = Front(p) /\ Q'[k] = Ev("delete", i, p, 0)
               \/ /\ Inode(p) \in DOMAIN watches /\ Q'[k] \in InotifyEvent
                  /\ Q'[k].kind = "ignored" /\ Q'[k].wd = watches[Inode(p)] /\ Q'[k].cookie = 0
    BY <1>0, <1>6, RemoveDirTold
  <2>2. /\ changes' = changes + 1 /\ descriptors' = descriptors /\ Front(p) \in DirsNow
        /\ movedTo' = movedTo /\ Queue(N \o M) /\ p \in Paths
    BY <1>6 DEF RemoveDir, Change, Paths
  <2>3. queue' \in Seq(InotifyEvent)
    <3>1. N \in Seq(InotifyEvent)
      BY <1>0, <2>2, EventType DEF InotifyKinds
    <3>2. M \in Seq(InotifyEvent)
      <4>1. CASE Inode(p) \in DOMAIN watches
        <5> DEFINE w == watches[Inode(p)]
                   e == [kind |-> "ignored", wd |-> w, name |-> "", isDir |-> FALSE, cookie |-> 0]
        <5>1. w \in Nat
          BY <1>0, <4>1 DEF WatchType
        <5>2. "ignored" \in InotifyKinds /\ 0 \in Nat /\ FALSE \in BOOLEAN
          BY DEF InotifyKinds
        <5>3. M = <<e>>
          BY <4>1 DEF Ignored
        <5> HIDE DEF w, M
        <5>4. e \in InotifyEvent
          BY <5>1, <5>2 DEF InotifyEvent
        <5> HIDE DEF e
        <5> QED
          BY <5>3, <5>4, SingletonIs
      <4>2. CASE Inode(p) \notin DOMAIN watches
        BY <4>2, EmptySeq
      <4> QED
        BY <4>1, <4>2
    <3>3. queue' = queue \o (N \o M)
      BY <1>0, <2>2, NotMerged
    <3> HIDE DEF N, M
    <3>4. N \o M \in Seq(InotifyEvent)
      BY <3>1, <3>2, ConcatProperties
    <3> QED
      BY <1>0, <3>3, <3>4, ConcatProperties DEF QueueType
  <2>4. ASSUME NEW k \in 1..Len(Q')
        PROVE  Q'[k].wd <= descriptors /\ Q'[k].cookie <= changes + 1 /\ (Q'[k].kind # "ignored" => Q'[k].name \in STRING)
    <3>1. CASE k <= Len(Q)
      <4>1. k \in 1..Len(Q) /\ Q'[k] = Q[k]
        BY <1>0, <2>1, <3>1, QType DEF Later
      <4> QED
        BY <1>0, <1>2, <4>1 DEF QueueType
    <3>2. ASSUME NEW i \in DOMAIN watches, Q'[k] = Ev("delete", i, p, 0)
          PROVE  Q'[k].wd <= descriptors /\ Q'[k].cookie <= changes + 1 /\ (Q'[k].kind # "ignored" => Q'[k].name \in STRING)
      <4>1. Ev("delete", i, p, 0).wd = watches[i] /\ Ev("delete", i, p, 0).cookie = 0 /\ Ev("delete", i, p, 0).name = Last(p)
        BY DEF Ev
      <4>2. Last(p) \in STRING
        BY <2>2, PathsType, EntryIs
      <4> QED
        BY <1>0, <3>2, <4>1, <4>2 DEF WatchType
    <3>3. CASE /\ Inode(p) \in DOMAIN watches /\ Q'[k].kind = "ignored"
               /\ Q'[k].wd = watches[Inode(p)] /\ Q'[k].cookie = 0
      BY <1>0, <3>3 DEF WatchType
    <3> QED
      BY <1>0, <2>1, <3>1, <3>2, <3>3, QType
  <2> QED
    BY <1>0, <2>2, <2>3, <2>4 DEF QueueType
<1>7. ASSUME NEW p \in Paths, NEW q \in Paths, Rename(p, q) PROVE QueueType'
  <2> DEFINE N == Event("movedFrom", p, changes + 1)  M == Event("movedTo", q, changes + 1)
  <2>1. Later /\ RenameTold(p, q)
    BY <1>0, <1>7, RenameTells
  <2>2. /\ changes' = changes + 1 /\ changes + 1 \in Nat /\ descriptors' = descriptors
        /\ Front(p) \in DirsNow /\ Front(q) \in DirsNow
        /\ movedTo' = M /\ Queue(N)
    BY <1>0, <1>7 DEF Rename, Change
  <2>3. queue' \in Seq(InotifyEvent) /\ movedTo' \in Seq(InotifyEvent)
    <3>1. N \in Seq(InotifyEvent) /\ M \in Seq(InotifyEvent)
      BY <1>0, <2>2, EventType DEF InotifyKinds
    <3>2. queue' = queue \o N
      BY <1>0, <2>2, NotMerged
    <3> HIDE DEF N, M
    <3> QED
      BY <1>0, <2>2, <3>1, <3>2, ConcatProperties DEF QueueType
  <2>4. ASSUME NEW k \in 1..Len(Q')
        PROVE  Q'[k].wd <= descriptors /\ Q'[k].cookie <= changes + 1 /\ (Q'[k].kind # "ignored" => Q'[k].name \in STRING)
    <3>1. CASE k <= Len(Q)
      <4>1. k \in 1..Len(Q) /\ Q'[k] = Q[k]
        BY <1>0, <2>1, <3>1, QType DEF Later
      <4> QED
        BY <1>0, <1>2, <4>1 DEF QueueType
    <3>2. ASSUME NEW i \in DOMAIN watches, NEW r \in Paths, NEW kind, Q'[k] = Ev(kind, i, r, changes + 1)
          PROVE  Q'[k].wd <= descriptors /\ Q'[k].cookie <= changes + 1 /\ (Q'[k].kind # "ignored" => Q'[k].name \in STRING)
      <4>1. /\ Ev(kind, i, r, changes + 1).wd = watches[i] /\ Ev(kind, i, r, changes + 1).cookie = changes + 1
            /\ Ev(kind, i, r, changes + 1).name = Last(r)
        BY DEF Ev
      <4>2. Last(r) \in STRING
        BY PathsType, EntryIs
      <4> QED
        BY <1>0, <3>2, <4>1, <4>2 DEF WatchType
    <3> QED
      BY <1>0, <2>1, <3>1, <3>2, QType DEF RenameTold
  <2> QED
    BY <2>2, <2>3, <2>4 DEF QueueType
<1>8. CASE QueueMovedTo
  <2>1. queue' = queue \o movedTo /\ movedTo' = <<>> /\ UNCHANGED <<changes, descriptors>>
    BY <1>0, <1>8, NotMerged DEF QueueMovedTo, disk
  <2>2. queue' \in Seq(InotifyEvent) /\ movedTo' \in Seq(InotifyEvent) /\ Q' = Q
    BY <1>0, <2>1, ConcatProperties, ConcatEmptySeq, EmptySeq DEF QueueType, Q
  <2> QED
    BY <1>0, <2>1, <2>2 DEF QueueType
<1>9. CASE HandleEvent
  <2>1. /\ queue' \in Seq(InotifyEvent) /\ movedTo' = movedTo
        /\ \A k \in 1..Len(Q') : Q'[k] = Q[k + 1] /\ k + 1 \in 1..Len(Q)
    BY <1>0, <1>9, HandleShift
  <2>2. UNCHANGED <<descriptors, changes>>
    BY <1>9 DEF HandleEvent, disk
  <2> QED
    BY <1>0, <2>1, <2>2 DEF QueueType
<1>10. CASE EndBatch \/ ReadSubtree \/ EmitNext
  BY <1>0, <1>1, <1>10 DEF EndBatch, ReadSubtree, EmitNext, notWalk, disk, kernel, WatchType
<1>11. CASE WatchNext
  <2>1. UNCHANGED <<queue, movedTo, changes>>
    BY <1>11 DEF WatchNext, notWalk, disk
  <2>2. descriptors' = descriptors \/ descriptors' = descriptors + 1
    BY <1>11 DEF WatchNext, AddWatch
  <2> QED
    BY <1>0, <1>1, <2>1, <2>2 DEF WatchType
<1>12. CASE UNCHANGED vars
  BY <1>0, <1>1, <1>12 DEF vars, disk, kernel, WatchType
<1> QED
  BY <1>4, <1>5, <1>6, <1>7, <1>8, <1>9, <1>10, <1>11, <1>12 DEF InotifyNext

LEMMA WatchTypeStep == Typed /\ InotifyNext => WatchType'
<1> SUFFICES ASSUME Typed, InotifyNext PROVE WatchType'
  OBVIOUS
<1>0. DiskInv /\ QueueType /\ WatchType /\ backend = "inotify"
  BY DEF Typed
<1>1. CASE UNCHANGED <<watches, descriptors, wdToPath>> /\ DOMAIN dirs \subseteq DOMAIN dirs'
  BY <1>0, <1>1 DEF WatchType
<1>2. ASSUME NEW p \in FilePaths, Create(p) \/ Modify(p) \/ Delete(p) PROVE WatchType'
  BY <1>1, <1>2 DEF Create, Modify, Delete, Change, table
<1>3. ASSUME NEW p \in DirPaths, MakeDir(p) PROVE WatchType'
  <2>1. UNCHANGED <<watches, descriptors, wdToPath>> /\ dirs' = Put(dirs, inodes + 1, p)
    BY <1>3 DEF MakeDir, Change, table
  <2> QED
    BY <1>1, <2>1 DEF Put
<1>4. ASSUME NEW p \in DirPaths, RemoveDir(p) PROVE WatchType'
  <2> DEFINE i == Inode(p)
  <2>1. /\ dirs' = Without(dirs, i) /\ UNCHANGED <<descriptors, wdToPath>>
        /\ watches' = IF i \in DOMAIN watches THEN Without(watches, i) ELSE watches
    BY <1>4 DEF RemoveDir, Change, table
  <2>2. DOMAIN dirs' = DOMAIN dirs \ {i}
    BY <2>1, WithoutIs
  <2>3. DOMAIN watches' = DOMAIN watches \ {i} /\ \A j \in DOMAIN watches' : watches'[j] = watches[j]
    <3>1. CASE i \in DOMAIN watches
      BY <2>1, <3>1, WithoutIs
    <3>2. CASE i \notin DOMAIN watches
      BY <2>1, <3>2
    <3> QED
      BY <3>1, <3>2
  <2> HIDE DEF i
  <2> QED
    BY <1>0, <2>1, <2>2, <2>3 DEF WatchType
<1>5. ASSUME NEW p \in Paths, NEW q \in Paths, Rename(p, q) PROVE WatchType'
  BY <1>1, <1>5, RenamedDirs DEF Rename, Change, table
<1>6. CASE QueueMovedTo \/ EndBatch \/ ReadSubtree \/ EmitNext \/ UNCHANGED vars
  BY <1>1, <1>6 DEF QueueMovedTo, EndBatch, ReadSubtree, EmitNext, vars, table, kernel, disk, notWalk
<1>7. CASE HandleEvent
  <2>1. UNCHANGED <<dirs, watches, descriptors>>
    BY <1>7 DEF HandleEvent, disk
  <2>2. CASE wdToPath' = wdToPath
    BY <1>1, <2>1, <2>2
  <2>3. CASE HandleIgnored(Q[1])
    <3>1. CASE wdToPath' = Without(wdToPath, Q[1].wd)
      <4>1. DOMAIN wdToPath' = DOMAIN wdToPath \ {Q[1].wd} /\ \A wd \in DOMAIN wdToPath' : wdToPath'[wd] = wdToPath[wd]
        BY <3>1, WithoutIs
      <4>2. 1 \in 1..Len(Q) /\ Q[1].kind = "ignored"
        BY <1>0, <1>7, <2>3, HandleShift DEF HandleIgnored
      <4>3. \A i \in DOMAIN watches : watches[i] # Q[1].wd
        BY <4>2 DEF Typed, IgnInv
      <4> QED
        BY <1>0, <2>1, <4>1, <4>3 DEF WatchType
    <3> QED
      BY <2>2, <2>3, <3>1 DEF HandleIgnored, RemoveByWd, table
  <2> QED
    BY <1>7, <2>2, <2>3, HandleIs DEF HandleUntracked, table
<1>8. CASE WatchNext
  <2> DEFINE path == Head(toWatch)  i == Inode(path)  fresh == i \notin DOMAIN watches
             wd == IF fresh THEN descriptors + 1 ELSE watches[i]
  <2>1. dirs' = dirs
    BY <1>8 DEF WatchNext, notWalk, disk
  <2>2. CASE UNCHANGED <<watches, descriptors, table>>
    BY <1>1, <2>1, <2>2 DEF table
  <2>3. CASE path \in DirsNow /\ AddWatch(path)
    <3>1. i \in DOMAIN dirs /\ path \in Path
      BY <1>0, <2>3, InodeIs, DiskType
    <3>2. /\ watches' = Put(watches, i, wd) /\ wdToPath' = Put(wdToPath, wd, path)
          /\ descriptors' = IF fresh THEN wd ELSE descriptors
      BY <2>3 DEF AddWatch
    <3>3. descriptors \in Nat /\ \A j \in DOMAIN watches : watches[j] \in 1..descriptors
      BY <1>0 DEF WatchType
    <3>4. wd \in 1..descriptors' /\ descriptors' \in Nat /\ descriptors' >= descriptors
      BY <3>2, <3>3
    <3>5. \A j \in DOMAIN watches : j # i => watches[j] # wd
      BY <1>0, <3>3 DEF WatchType
    <3> HIDE DEF path, i, fresh, wd
    <3>6. /\ DOMAIN watches' = DOMAIN watches \cup {i} /\ watches'[i] = wd
          /\ \A j \in DOMAIN watches : j # i => watches'[j] = watches[j]
      BY <3>2 DEF Put
    <3>7. /\ DOMAIN wdToPath' = DOMAIN wdToPath \cup {wd} /\ wdToPath'[wd] = path
          /\ \A x \in DOMAIN wdToPath : x # wd => wdToPath'[x] = wdToPath[x]
      BY <3>2 DEF Put
    <3>8. \A j \in DOMAIN watches' : watches'[j] \in 1..descriptors' /\ watches'[j] \in DOMAIN wdToPath'
      <4>1. \A n \in 1..descriptors : n \in 1..descriptors'
        BY <3>3, <3>4
      <4> QED
        BY <1>0, <3>3, <3>4, <3>6, <3>7, <4>1 DEF WatchType
    <3>9. \A j, k \in DOMAIN watches' : watches'[j] = watches'[k] => j = k
      BY <1>0, <3>5, <3>6 DEF WatchType
    <3>10. \A x \in DOMAIN wdToPath' : wdToPath'[x] \in Path
      BY <1>0, <3>1, <3>7 DEF WatchType
    <3> QED
      BY <1>0, <2>1, <3>1, <3>4, <3>6, <3>8, <3>9, <3>10 DEF WatchType
  <2> QED
    BY <1>8, <2>2, <2>3 DEF WatchNext
<1> QED
  BY <1>2, <1>3, <1>4, <1>5, <1>6, <1>7, <1>8 DEF InotifyNext

LEMMA PendingTypeStep == Typed /\ InotifyNext => PendingType'
<1> SUFFICES ASSUME Typed, InotifyNext PROVE PendingType'
  OBVIOUS
<1>0. PendingType /\ changes \in Nat /\ QueueType
  BY DEF Typed, DiskInv
<1>1. CASE pendingMovedFrom' = pendingMovedFrom /\ (changes' = changes \/ changes' = changes + 1)
  <2>1. \A c \in 0..changes : c \in 0..changes'
    BY <1>0, <1>1
  <2> QED
    BY <1>0, <1>1, <2>1 DEF PendingType
<1>2. CASE \/ \E p \in FilePaths : Create(p) \/ Modify(p) \/ Delete(p)
           \/ \E p \in DirPaths : MakeDir(p) \/ RemoveDir(p)
           \/ \E p, q \in Paths : Rename(p, q)
  BY <1>1, <1>2 DEF Create, Modify, Delete, MakeDir, RemoveDir, Rename, Change
<1>3. CASE QueueMovedTo \/ EndBatch \/ WatchNext \/ ReadSubtree \/ EmitNext \/ UNCHANGED vars
  BY <1>1, <1>3 DEF QueueMovedTo, EndBatch, WatchNext, ReadSubtree, EmitNext, vars, disk, notWalk
<1>4. CASE HandleEvent
  <2>1. changes' = changes
    BY <1>4 DEF HandleEvent, disk
  <2>2. CASE pendingMovedFrom' = pendingMovedFrom
    BY <1>1, <2>1, <2>2
  <2>3. ASSUME NEW c, pendingMovedFrom' = Without(pendingMovedFrom, c) PROVE PendingType'
    <3>1. /\ DOMAIN pendingMovedFrom' = DOMAIN pendingMovedFrom \ {c}
          /\ \A x \in DOMAIN pendingMovedFrom' : pendingMovedFrom'[x] = pendingMovedFrom[x]
      BY <2>3, WithoutIs
    <3> QED
      BY <1>0, <2>1, <3>1 DEF PendingType
  <2>4. CASE PathOf(Q[1]) \in Path /\ HandleMovedFrom(Q[1], PathOf(Q[1]))
    <3> DEFINE path == PathOf(Q[1])  c == Q[1].cookie
    <3>1. pendingMovedFrom' = Put(pendingMovedFrom, c, path)
      BY <2>4 DEF HandleMovedFrom
    <3>2. c \in 0..changes
      <4>1. 1 \in 1..Len(Q) /\ Q[1] \in InotifyEvent
        BY <1>0, <1>4, HandleShift
      <4>2. c \in Nat /\ c <= changes
        BY <1>0, <4>1 DEF QueueType, InotifyEvent
      <4> QED
        BY <1>0, <4>2
    <3> HIDE DEF path, c
    <3>3. /\ DOMAIN pendingMovedFrom' = DOMAIN pendingMovedFrom \cup {c} /\ pendingMovedFrom'[c] = path
          /\ \A x \in DOMAIN pendingMovedFrom : x # c => pendingMovedFrom'[x] = pendingMovedFrom[x]
      BY <3>1 DEF Put
    <3>4. path \in Path
      BY <2>4 DEF path
    <3> QED
      BY <1>0, <2>1, <3>2, <3>3, <3>4 DEF PendingType
  <2>5. CASE HandleMovedTo(Q[1], PathOf(Q[1]))
    BY <2>2, <2>3, <2>5 DEF HandleMovedTo, NoMove
  <2>6. CASE \/ HandleIgnored(Q[1]) \/ HandleUntracked(Q[1]) \/ HandleCreate(Q[1], PathOf(Q[1]))
             \/ HandleDelete(Q[1], PathOf(Q[1])) \/ HandleModify(Q[1], PathOf(Q[1]))
    BY <2>2, <2>6 DEF HandleIgnored, HandleUntracked, HandleCreate, HandleDelete, HandleModify, NoMove
  <2> QED
    BY <1>4, <2>4, <2>5, <2>6, HandleIs
<1> QED
  BY <1>2, <1>3, <1>4 DEF InotifyNext

LEMMA SeqOfPaths ==
    ASSUME DiskInv, NEW d \in Path, NEW S \in SUBSET Children(d), NEW f \in SetToSeqs(S)
    PROVE  /\ f \in Seq(Path) /\ Range(f) = S
           /\ \A c \in Range(f) : c # Root /\ c \in Path /\ IsPrefix(d, c)
<1>1. S \subseteq Path /\ \A c \in S : c # Root /\ IsPrefix(d, c)
  <2> SUFFICES ASSUME NEW c \in S PROVE c \in Path /\ c # Root /\ IsPrefix(d, c)
    OBVIOUS
  <2>1. PICK n \in STRING : c = Append(d, n)
    BY ChildrenAre
  <2> QED
    BY <2>1, AppendIs, AppendNotPrefix
<1>2. IsFiniteSet(S)
  BY ChildrenAre, FS_Subset
<1>3. f \in Seq(S) /\ Range(f) = S
  BY <1>2, SetToSeqsIs
<1>4. f \in Seq(Path)
  BY <1>1, <1>3, SeqMonotonic
<1> QED
  BY <1>1, <1>3, <1>4

LEMMA WalkStep == Typed /\ InotifyNext => WalkInv'
<1> SUFFICES ASSUME Typed, InotifyNext PROVE WalkInv'
  OBVIOUS
<1>0. WalkInv /\ DiskInv
  BY DEF Typed
<1>1. CASE UNCHANGED walk
  BY <1>0, <1>1 DEF WalkInv, walk
<1>2. CASE \/ \E p \in FilePaths : Create(p) \/ Modify(p) \/ Delete(p)
           \/ \E p \in DirPaths : MakeDir(p) \/ RemoveDir(p)
           \/ \E p, q \in Paths : Rename(p, q)
  BY <1>1, <1>2 DEF Create, Modify, Delete, MakeDir, RemoveDir, Rename, Change
<1>3. CASE QueueMovedTo \/ EndBatch \/ UNCHANGED vars
  BY <1>1, <1>3 DEF QueueMovedTo, EndBatch, vars
<1>4. CASE HandleEvent
  <2>1. ASSUME NEW p \in Path, p # Root, NEW d, WalkSubtree(d, p) PROVE WalkInv'
    <3>1. CASE toWatch' = <<p>> /\ walkRoot' = p /\ toEmit' = toEmit
      <4>1. <<p>> \in Seq(Path) /\ Range(<<p>>) = {p}
        BY SingletonIs DEF Range
      <4>2. toEmit = <<>> /\ Range(<<>>) = {}
        BY <1>4 DEF HandleEvent, Idle, Range
      <4>3. p # None
        BY PathsAssumption DEF Path
      <4> QED
        BY <1>0, <2>1, <3>1, <4>1, <4>2, <4>3, PrefixReflexive DEF WalkInv
    <3> QED
      BY <1>1, <2>1, <3>1 DEF WalkSubtree
  <2>2. CASE \/ HandleIgnored(Q[1]) \/ HandleUntracked(Q[1])
             \/ HandleDelete(Q[1], PathOf(Q[1])) \/ HandleModify(Q[1], PathOf(Q[1]))
             \/ HandleMovedFrom(Q[1], PathOf(Q[1]))
    BY <1>1, <2>2 DEF HandleIgnored, HandleUntracked, HandleDelete, HandleModify, HandleMovedFrom
  <2> QED
    BY <1>4, <2>1, <2>2, HandleIs DEF HandleCreate, HandleMovedTo
<1>5. CASE WatchNext
  <2> DEFINE path == Head(toWatch)
  <2>1. /\ toWatch # <<>> /\ UNCHANGED <<walkRoot, toEmit>>
    BY <1>5 DEF WatchNext
  <2>2. /\ path \in Range(toWatch) /\ path \in Path /\ Tail(toWatch) \in Seq(Path)
        /\ Range(Tail(toWatch)) \subseteq Range(toWatch)
    BY <1>0, <2>1, RangeIs, ShorterIs DEF WalkInv
  <2>3. walkRoot # None /\ walkRoot \in Path
    BY <1>0, <2>1 DEF WalkInv
  <2> HIDE DEF path
  <2>4. CASE toWatch' = <<>>
    <3>1. Range(<<>>) = {} /\ <<>> \in Seq(Path)
      BY EmptySeq DEF Range
    <3> QED
      BY <1>0, <2>1, <2>4, <3>1 DEF WalkInv
  <2>5. ASSUME NEW f \in SetToSeqs(Children(path) \cap DirPaths), toWatch' = f \o Tail(toWatch)
        PROVE  WalkInv'
    <3>1. f \in Seq(Path) /\ \A c \in Range(f) : c # Root /\ c \in Path /\ IsPrefix(path, c)
      BY <1>0, <2>2, <2>5, SeqOfPaths
    <3>2. toWatch' \in Seq(Path) /\ Range(toWatch') = Range(f) \cup Range(Tail(toWatch))
      <4> DEFINE t == Tail(toWatch)
      <4>1. t \in Seq(Path) /\ f \in Seq(Path)
        BY <2>2, <3>1
      <4>2. toWatch' = f \o t
        BY <2>5
      <4> HIDE DEF t
      <4>3. f \o t \in Seq(Path)
        BY <4>1, ConcatProperties
      <4>4. Range(f \o t) = Range(f) \cup Range(t)
        BY <4>1, RangeOfBoth
      <4> QED
        BY <4>2, <4>3, <4>4 DEF t
    <3>3. \A a \in Range(toWatch) : a # Root /\ IsPrefix(walkRoot, a)
      BY <1>0 DEF WalkInv
    <3>4. \A c \in Range(f) : IsPrefix(walkRoot, c)
      BY <2>2, <2>3, <3>1, <3>3, PrefixTransitive
    <3> QED
      BY <1>0, <2>1, <2>2, <2>3, <3>1, <3>2, <3>3, <3>4 DEF WalkInv
  <2> QED
    BY <1>5, <2>4, <2>5 DEF WatchNext, path
<1>6. CASE ReadSubtree
  <2>1. toWatch = <<>> /\ toWatch' = toWatch /\ walkRoot # None /\ walkRoot' = None
    BY <1>6 DEF ReadSubtree
  <2>2. Range(<<>>) = {} /\ <<>> \in Seq(Path)
    BY EmptySeq DEF Range
  <2>3. CASE toEmit' = toEmit
    BY <1>0, <2>1, <2>2, <2>3 DEF WalkInv
  <2>4. ASSUME NEW f \in SetToSeqs(Children(walkRoot)), toEmit' = f PROVE WalkInv'
    <3>1. f \in Seq(Path) /\ \A c \in Range(f) : c # Root
      BY <1>0, <2>1, SeqOfPaths DEF WalkInv
    <3> QED
      BY <2>1, <2>2, <2>4, <3>1 DEF WalkInv
  <2> QED
    BY <1>6, <2>3, <2>4 DEF ReadSubtree
<1>7. CASE EmitNext
  <2> DEFINE path == Head(toEmit)
  <2>1. toEmit # <<>> /\ UNCHANGED <<toWatch, walkRoot>>
    BY <1>7 DEF EmitNext
  <2>2. /\ path \in Range(toEmit) /\ path \in Path /\ Tail(toEmit) \in Seq(Path)
        /\ Range(Tail(toEmit)) \subseteq Range(toEmit)
    BY <1>0, <2>1, RangeIs, ShorterIs DEF WalkInv
  <2>3. walkRoot = None
    BY <1>0, <2>1 DEF WalkInv
  <2> HIDE DEF path
  <2>4. CASE toEmit' = <<>>
    <3>1. Range(<<>>) = {} /\ <<>> \in Seq(Path)
      BY EmptySeq DEF Range
    <3> QED
      BY <1>0, <2>1, <2>3, <2>4, <3>1 DEF WalkInv
  <2>5. ASSUME NEW f \in SetToSeqs(Children(path)), toEmit' = f \o Tail(toEmit)
        PROVE  WalkInv'
    <3>1. f \in Seq(Path) /\ \A c \in Range(f) : c # Root
      BY <1>0, <2>2, <2>5, SeqOfPaths
    <3>2. toEmit' \in Seq(Path) /\ Range(toEmit') = Range(f) \cup Range(Tail(toEmit))
      <4> DEFINE t == Tail(toEmit)
      <4>1. t \in Seq(Path) /\ f \in Seq(Path)
        BY <2>2, <3>1
      <4>2. toEmit' = f \o t
        BY <2>5
      <4> HIDE DEF t
      <4>3. f \o t \in Seq(Path)
        BY <4>1, ConcatProperties
      <4>4. Range(f \o t) = Range(f) \cup Range(t)
        BY <4>1, RangeOfBoth
      <4> QED
        BY <4>2, <4>3, <4>4 DEF t
    <3> QED
      BY <1>0, <2>1, <2>2, <2>3, <3>1, <3>2 DEF WalkInv
  <2> QED
    BY <1>7, <2>4, <2>5 DEF EmitNext, path
<1> QED
  BY <1>2, <1>3, <1>4, <1>5, <1>6, <1>7 DEF InotifyNext

LEMMA IgnStep == Typed /\ InotifyNext => IgnInv'
<1> SUFFICES ASSUME Typed, InotifyNext PROVE IgnInv'
  OBVIOUS
<1>0. DiskInv /\ QueueType /\ WatchType /\ IgnInv /\ backend = "inotify" /\ Len(Q) \in Nat
  BY QType DEF Typed
<1>1. CASE UNCHANGED <<queue, movedTo, watches>>
  BY <1>0, <1>1 DEF IgnInv, Q
<1>2. ASSUME NEW p \in Paths, Change(p), NEW kind \in InotifyKinds \ {"ignored"}, Queue(Event(kind, p, 0)),
             movedTo' = movedTo, watches' = watches
      PROVE  IgnInv'
  <2>1. Later /\ Told(kind, p, 0)
    BY <1>0, <1>2, OneTold
  <2>2. \A i : Ev(kind, i, p, 0).kind # "ignored"
    BY <1>2 DEF Ev
  <2> QED
    BY <1>0, <1>2, <2>1, <2>2 DEF IgnInv, Later, Told
<1>3. ASSUME NEW p \in FilePaths, Create(p) \/ Modify(p) \/ Delete(p) PROVE IgnInv'
  BY <1>2, <1>3 DEF Create, Modify, Delete, InotifyKinds, Paths
<1>4. ASSUME NEW p \in DirPaths, MakeDir(p) PROVE IgnInv'
  BY <1>2, <1>4 DEF MakeDir, InotifyKinds, Paths
<1>5. ASSUME NEW p \in DirPaths, RemoveDir(p) PROVE IgnInv'
  <2> DEFINE i == Inode(p)
  <2>1. watches' = IF i \in DOMAIN watches THEN Without(watches, i) ELSE watches
    BY <1>5 DEF RemoveDir
  <2>2. DOMAIN watches' = DOMAIN watches \ {i} /\ \A j \in DOMAIN watches' : watches'[j] = watches[j]
    <3>1. CASE i \in DOMAIN watches
      BY <2>1, <3>1, WithoutIs
    <3>2. CASE i \notin DOMAIN watches
      BY <2>1, <3>2
    <3> QED
      BY <3>1, <3>2
  <2>3. /\ Later
        /\ \A k \in 1..Len(Q') : k > Len(Q) =>
               \/ \E j \in DOMAIN watches : dirs[j] = Front(p) /\ Q'[k] = Ev("delete", j, p, 0)
               \/ i \in DOMAIN watches /\ Q'[k].kind = "ignored" /\ Q'[k].wd = watches[i]
    BY <1>0, <1>5, RemoveDirTold
  <2>4. \A j : Ev("delete", j, p, 0).kind # "ignored"
    BY DEF Ev
  <2> HIDE DEF i
  <2>5. ASSUME NEW k \in 1..Len(Q'), Q'[k].kind = "ignored", NEW j \in DOMAIN watches'
        PROVE  watches'[j] # Q'[k].wd
    <3>1. CASE k <= Len(Q)
      BY <1>0, <2>2, <2>3, <2>5, <3>1 DEF IgnInv, Later
    <3>2. CASE k > Len(Q)
      <4>1. i \in DOMAIN watches /\ Q'[k].wd = watches[i]
        BY <2>3, <2>4, <2>5, <3>2
      <4> QED
        BY <1>0, <2>2, <2>5, <4>1 DEF WatchType
    <3> QED
      BY <1>0, <3>1, <3>2
  <2> QED
    BY <2>5 DEF IgnInv
<1>6. ASSUME NEW p \in Paths, NEW q \in Paths, Rename(p, q) PROVE IgnInv'
  <2>1. Later /\ RenameTold(p, q) /\ watches' = watches
    BY <1>0, <1>6, RenameTells DEF Rename
  <2>2. \A j, r, c : Ev("movedFrom", j, r, c).kind # "ignored" /\ Ev("movedTo", j, r, c).kind # "ignored"
    BY DEF Ev
  <2>3. \A k \in 1..Len(Q') : k > Len(Q) => Q'[k].kind # "ignored"
    BY <2>1, <2>2 DEF RenameTold
  <2> QED
    BY <1>0, <2>1, <2>3 DEF IgnInv, Later
<1>7. CASE QueueMovedTo
  <2>1. queue' = queue \o movedTo /\ movedTo' = <<>> /\ watches' = watches
    BY <1>0, <1>7, NotMerged DEF QueueMovedTo
  <2>2. Q' = Q
    BY <1>0, <2>1, ConcatProperties, ConcatEmptySeq DEF QueueType, Q
  <2> QED
    BY <1>0, <2>1, <2>2 DEF IgnInv
<1>8. CASE HandleEvent
  <2>1. /\ watches' = watches
        /\ \A k \in 1..Len(Q') : Q'[k] = Q[k + 1] /\ k + 1 \in 1..Len(Q)
    BY <1>0, <1>8, HandleShift DEF HandleEvent
  <2> QED
    BY <1>0, <2>1 DEF IgnInv
<1>9. CASE EndBatch \/ ReadSubtree \/ EmitNext \/ UNCHANGED vars
  BY <1>1, <1>9 DEF EndBatch, ReadSubtree, EmitNext, notWalk, kernel, vars
<1>10. CASE WatchNext
  <2> DEFINE path == Head(toWatch)  i == Inode(path)  fresh == i \notin DOMAIN watches
             wd == IF fresh THEN descriptors + 1 ELSE watches[i]
  <2>1. UNCHANGED <<queue, movedTo>>
    BY <1>10 DEF WatchNext, notWalk
  <2>2. CASE watches' = watches
    BY <1>1, <2>1, <2>2
  <2>3. CASE watches' = Put(watches, i, wd)
    <3>1. \A k \in 1..Len(Q) : Q[k].wd \in Nat /\ Q[k].wd <= descriptors
      BY <1>0, QType DEF QueueType, InotifyEvent
    <3>2. descriptors \in Nat
      BY <1>0 DEF WatchType
    <3>3. \A k \in 1..Len(Q) : Q[k].kind = "ignored" => Q[k].wd # wd
      BY <1>0, <3>1, <3>2 DEF IgnInv
    <3> HIDE DEF path, i, fresh, wd
    <3>4. /\ DOMAIN watches' = DOMAIN watches \cup {i} /\ watches'[i] = wd
          /\ \A j \in DOMAIN watches : j # i => watches'[j] = watches[j]
      BY <2>3 DEF Put
    <3>5. Q' = Q
      BY <2>1 DEF Q
    <3> QED
      BY <1>0, <3>3, <3>4, <3>5 DEF IgnInv
  <2> QED
    BY <1>10, <2>2, <2>3 DEF WatchNext, AddWatch
<1> QED
  BY <1>3, <1>4, <1>5, <1>6, <1>7, <1>8, <1>9, <1>10 DEF InotifyNext

LEMMA TypedStep == Typed /\ Inotify' /\ [Next]_vars => Typed'
<1> SUFFICES ASSUME Typed, Inotify', [Next]_vars PROVE Typed'
  OBVIOUS
<1>1. InotifyNext /\ backend' = "inotify"
  BY InotifySteps DEF Inotify
<1>2. DiskInv'
  BY DiskStep DEF Typed
<1> QED
  BY <1>1, <1>2, IndexTypeStep, QueueTypeStep, WatchTypeStep, PendingTypeStep, WalkStep, IgnStep DEF Typed

-----------------------------------------------------------------------------
(* inotify: every directory is watched, or will be.                        *)

Arrivals == {"create", "movedTo"}
Removals == {"delete", "movedFrom"}

\* The table has the path of a directory that is watched.
Known(i) == i \in DOMAIN watches /\ wdToPath[watches[i]] = dirs[i]

WalkAbove(x) == \E a \in Range(toWatch) : IsPrefix(a, x)

\* A directory above x has arrived, in one the table knows.
Announced(x) ==
    \E j \in DOMAIN watches, k \in 1..Len(Q) :
        /\ Known(j) /\ Q[k].wd = watches[j] /\ Q[k].kind \in Arrivals /\ Q[k].isDir
        /\ IsPrefix(Append(dirs[j], Q[k].name), x)

TableInv == \A i \in DOMAIN dirs : Known(i) \/ WalkAbove(dirs[i]) \/ Announced(dirs[i])

LEMMA SameQueue ==
    ASSUME QueueType, backend = "inotify",
           QueueMovedTo \/ EndBatch \/ WatchNext \/ ReadSubtree \/ EmitNext \/ UNCHANGED vars
    PROVE  Q' = Q /\ UNCHANGED <<files, dirs, inodes, changes>>
<1>1. CASE QueueMovedTo
  <2>1. queue' = queue \o movedTo /\ movedTo' = <<>> /\ UNCHANGED disk
    BY <1>1, NotMerged DEF QueueMovedTo
  <2> QED
    BY <2>1, ConcatProperties, ConcatEmptySeq DEF QueueType, Q, disk
<1>2. CASE EndBatch \/ WatchNext \/ ReadSubtree \/ EmitNext \/ UNCHANGED vars
  BY <1>2 DEF EndBatch, WatchNext, ReadSubtree, EmitNext, vars, kernel, notWalk, disk, Q
<1> QED
  BY <1>1, <1>2

LEMMA RemoveDirIs ==
    ASSUME DiskInv, NEW p \in DirPaths, RemoveDir(p)
    PROVE  /\ p \in DirsNow /\ p \in Path /\ Inode(p) \in DOMAIN dirs /\ dirs[Inode(p)] = p
           /\ \A x \in files \cup DirsNow : ~IsStrictPrefix(p, x)
           /\ DOMAIN dirs' = DOMAIN dirs \ {Inode(p)}
           /\ \A j \in DOMAIN dirs' : dirs'[j] = dirs[j]
           /\ DOMAIN watches' = DOMAIN watches \ {Inode(p)}
           /\ \A j \in DOMAIN watches' : watches'[j] = watches[j]
           /\ UNCHANGED <<files, table, batch, pendingMovedFrom, walk, index, gaps, misreported>>
<1>1. /\ p \in DirsNow /\ Children(p) = {} /\ p \in Path
      /\ dirs' = Without(dirs, Inode(p))
      /\ watches' = IF Inode(p) \in DOMAIN watches THEN Without(watches, Inode(p)) ELSE watches
      /\ UNCHANGED <<files, table, batch, pendingMovedFrom, walk, index, gaps, misreported>>
  BY PathsType DEF RemoveDir, Change, Paths
<1>2. Inode(p) \in DOMAIN dirs /\ dirs[Inode(p)] = p
  BY <1>1, InodeIs
<1>3. \A x \in files \cup DirsNow : ~IsStrictPrefix(p, x)
  BY <1>1, ChildTowards
<1> DEFINE i == Inode(p)
<1>4. DOMAIN watches' = DOMAIN watches \ {i} /\ \A j \in DOMAIN watches' : watches'[j] = watches[j]
  <2>1. CASE i \in DOMAIN watches
    BY <1>1, <2>1, WithoutIs
  <2>2. CASE i \notin DOMAIN watches
    BY <1>1, <2>2
  <2> QED
    BY <2>1, <2>2
<1>5. DOMAIN dirs' = DOMAIN dirs \ {Inode(p)} /\ \A j \in DOMAIN dirs' : dirs'[j] = dirs[j]
  BY <1>1, WithoutIs
<1> QED
  BY <1>1, <1>2, <1>3, <1>4, <1>5

LEMMA MakeDirIs ==
    ASSUME DiskInv, NEW p \in DirPaths, MakeDir(p)
    PROVE  /\ p \in Path /\ p # Root /\ p \notin DirsNow /\ Front(p) \in DirsNow
           /\ \E n \in DOMAIN dirs' :
                  /\ n \notin DOMAIN dirs /\ DOMAIN dirs' = DOMAIN dirs \cup {n} /\ dirs'[n] = p
                  /\ \A i \in DOMAIN dirs : dirs'[i] = dirs[i]
           /\ UNCHANGED <<files, watches, descriptors, table, batch, pendingMovedFrom, walk, index, ghosts>>
<1>1. /\ p \in Path /\ p # Root /\ p \notin DirsNow /\ Front(p) \in DirsNow
      /\ dirs' = Put(dirs, inodes + 1, p)
      /\ UNCHANGED <<files, watches, descriptors, table, batch, pendingMovedFrom, walk, index, ghosts>>
  BY PathsType DEF MakeDir, Change, Paths
<1>2. inodes + 1 \notin DOMAIN dirs
  BY DEF DiskInv
<1>3. /\ DOMAIN dirs' = DOMAIN dirs \cup {inodes + 1} /\ dirs'[inodes + 1] = p
      /\ \A i \in DOMAIN dirs : dirs'[i] = dirs[i]
  BY <1>1, <1>2 DEF Put
<1> QED
  BY <1>1, <1>2, <1>3

\* A directory is watched: under its present path.
LEMMA AddWatchIs ==
    ASSUME DiskInv, QueueType, WatchType, NEW path \in DirsNow, AddWatch(path)
    PROVE  \E i \in DOMAIN dirs :
               /\ dirs[i] = path
               /\ DOMAIN watches' = DOMAIN watches \cup {i}
               /\ \A j \in DOMAIN watches : watches'[j] = watches[j]
               /\ \A j \in DOMAIN watches : j # i => wdToPath'[watches[j]] = wdToPath[watches[j]]
               /\ wdToPath'[watches'[i]] = path
               /\ DOMAIN wdToPath' = DOMAIN wdToPath \cup {watches'[i]}
               /\ \A wd \in DOMAIN wdToPath : wd # watches'[i] => wdToPath'[wd] = wdToPath[wd]
               /\ i \notin DOMAIN watches => \A k \in 1..Len(Q) : Q[k].wd # watches'[i]
<1> DEFINE i == Inode(path)
           fresh == i \notin DOMAIN watches
           wd == IF fresh THEN descriptors + 1 ELSE watches[i]
<1>1. i \in DOMAIN dirs /\ dirs[i] = path
  BY InodeIs
<1>2. /\ watches' = Put(watches, i, wd) /\ wdToPath' = Put(wdToPath, wd, path)
  BY DEF AddWatch
<1>3. descriptors \in Nat /\ \A j \in DOMAIN watches : watches[j] \in 1..descriptors
  BY DEF WatchType
<1>4. \A j \in DOMAIN watches : j # i => watches[j] # wd
  BY <1>3 DEF WatchType
<1>5. fresh => \A k \in 1..Len(Q) : Q[k].wd # wd
  <2>1. \A k \in 1..Len(Q) : Q[k].wd \in Nat /\ Q[k].wd <= descriptors
    BY QType DEF QueueType, InotifyEvent
  <2> QED
    BY <1>3, <2>1
<1>6. i \in DOMAIN watches => wd = watches[i]
  OBVIOUS
<1>7. fresh <=> i \notin DOMAIN watches
  OBVIOUS
<1> HIDE DEF i, fresh, wd
<1>8. /\ DOMAIN watches' = DOMAIN watches \cup {i} /\ watches'[i] = wd
      /\ \A j \in DOMAIN watches : j # i => watches'[j] = watches[j]
  BY <1>2 DEF Put
<1>9. /\ DOMAIN wdToPath' = DOMAIN wdToPath \cup {wd} /\ wdToPath'[wd] = path
      /\ \A x \in DOMAIN wdToPath : x # wd => wdToPath'[x] = wdToPath[x]
  BY <1>2 DEF Put
<1>10. \A j \in DOMAIN watches : watches[j] \in DOMAIN wdToPath
  BY DEF WatchType
<1> QED
  BY <1>1, <1>4, <1>5, <1>6, <1>7, <1>8, <1>9, <1>10

\* The queue loses only its head: what another event announced still is.
LEMMA TableHandle ==
    ASSUME Typed, TableInv, HandleEvent
    PROVE  TableInv'
<1>0. DiskInv /\ QueueType /\ WatchType
  BY DEF Typed
<1>1. /\ Len(Q) \in Nat \ {0} /\ Q[1] \in InotifyEvent
      /\ \A k \in 1..Len(Q) : k > 1 => k - 1 \in 1..Len(Q') /\ Q'[k - 1] = Q[k]
  BY <1>0, HandleShift
<1>2. toWatch = <<>> /\ dirs' = dirs /\ watches' = watches
  BY HandleIs DEF Idle, disk
<1>3. \A i \in DOMAIN watches : watches[i] \in DOMAIN wdToPath /\ wdToPath'[watches[i]] = wdToPath[watches[i]]
  <2>1. CASE wdToPath' = wdToPath
    BY <1>0, <2>1 DEF WatchType
  <2>2. CASE HandleIgnored(Q[1])
    <3>1. CASE wdToPath' = Without(wdToPath, Q[1].wd)
      <4>1. \A wd \in DOMAIN wdToPath \ {Q[1].wd} : wdToPath'[wd] = wdToPath[wd]
        BY <3>1, WithoutIs
      <4>2. \A i \in DOMAIN watches : watches[i] # Q[1].wd
        BY <1>1, <2>2 DEF HandleIgnored, Typed, IgnInv
      <4> QED
        BY <1>0, <4>1, <4>2 DEF WatchType
    <3> QED
      BY <2>1, <2>2, <3>1 DEF HandleIgnored, RemoveByWd, table
  <2> QED
    BY <2>1, <2>2, HandleIs DEF HandleUntracked, table
<1>4. \A i \in DOMAIN watches : Known(i) => Known(i)'
  BY <1>2, <1>3 DEF Known
<1>5. Range(<<>>) = {}
  BY DEF Range
<1>6. ASSUME NEW i \in DOMAIN dirs, ~Known(i)
      PROVE  WalkAbove(dirs[i])' \/ Announced(dirs[i])'
  <2>1. PICK j \in DOMAIN watches, k \in 1..Len(Q) :
            /\ Known(j) /\ Q[k].wd = watches[j] /\ Q[k].kind \in Arrivals /\ Q[k].isDir
            /\ IsPrefix(Append(dirs[j], Q[k].name), dirs[i])
    BY <1>2, <1>5, <1>6 DEF TableInv, WalkAbove, Announced
  <2>2. CASE k > 1
    <3>1. k - 1 \in 1..Len(Q') /\ Q'[k - 1] = Q[k]
      BY <1>1, <2>2
    <3> QED
      BY <1>2, <1>4, <2>1, <3>1 DEF Announced
  <2>3. CASE k = 1
    <3>1. Q[1].kind \in Arrivals /\ Q[1].isDir /\ Q[1].wd = watches[j] /\ Q[1].wd \in DOMAIN wdToPath
      BY <1>0, <2>1, <2>3 DEF WatchType
    <3>2. PathOf(Q[1]) = Append(dirs[j], Q[1].name)
      BY <2>1, <3>1 DEF PathOf, Known
    <3>3. WalkSubtree(Q[1].isDir, PathOf(Q[1]))
      BY <3>1, HandleIs DEF Arrivals, HandleIgnored, HandleUntracked, Tracked, HandleCreate, HandleDelete,
         HandleModify, HandleMovedFrom, HandleMovedTo
    <3>4. toWatch' = <<PathOf(Q[1])>> /\ PathOf(Q[1]) \in Range(<<PathOf(Q[1])>>)
      BY <3>1, <3>3 DEF WalkSubtree, Range
    <3>5. IsPrefix(PathOf(Q[1]), dirs[i]) /\ PathOf(Q[1]) \in Range(toWatch')
      BY <2>1, <2>3, <3>2, <3>4
    <3> QED
      BY <1>2, <3>5 DEF WalkAbove
  <2> QED
    BY <1>1, <2>2, <2>3
<1> QED
  BY <1>2, <1>4, <1>6 DEF TableInv, Known

LEMMA TableRename ==
    ASSUME Typed, TableInv, NEW p \in Paths, NEW q \in Paths, Rename(p, q)
    PROVE  TableInv'
<1>0. DiskInv /\ QueueType /\ WatchType /\ backend = "inotify" /\ Len(Q) \in Nat
  BY QType DEF Typed
<1>1. /\ p \in Path /\ q \in Path /\ q # Root /\ Front(q) \in DirsNow /\ Front(q) \in Path
      /\ ~IsPrefix(p, Front(q)) /\ IsPrefix(Front(q), q)
      /\ p \in files => \A x \in files \cup DirsNow : IsPrefix(p, x) => x = p
      /\ p \notin files => q \in DirPaths
  <2>1. /\ p \in Path /\ q \in Path /\ q # Root /\ Front(q) \in DirsNow /\ ~IsPrefix(p, Front(q))
        /\ p \in files => \A x \in files \cup DirsNow : IsPrefix(p, x) => x = p
        /\ p \notin files => q \in DirPaths
    BY <1>0, RenameIs
  <2>2. Front(q) \in Path /\ Last(q) \in STRING /\ q = Append(Front(q), Last(q))
    BY <2>1, EntryIs
  <2>3. IsPrefix(Front(q), q)
    BY <2>2, AppendNotPrefix
  <2> QED
    BY <2>1, <2>2, <2>3
<1>2. /\ DOMAIN dirs' = DOMAIN dirs /\ UNCHANGED <<watches, wdToPath, toWatch>>
      /\ \A i \in DOMAIN dirs : dirs'[i] = Renamed(p, q, dirs[i])
  BY RenamedDirs DEF Rename, Change, table, walk
<1>3. Later /\ RenameTold(p, q)
  BY <1>0, RenameTells
<1>4. \A i \in DOMAIN dirs : dirs[i] \in Path /\ dirs[i] \in DirsNow
  BY <1>0, DiskType
\* What is not below p stays as it was.
<1>5. ASSUME NEW i \in DOMAIN dirs, ~IsPrefix(p, dirs[i]) PROVE dirs'[i] = dirs[i]
  BY <1>1, <1>2, <1>4, <1>5, RenamedType
<1>6. ASSUME NEW x \in Path, ~IsPrefix(p, x), Announced(x), NEW y \in Path, IsPrefix(x, y)
      PROVE  Announced(y)'
  <2>1. PICK j \in DOMAIN watches, k \in 1..Len(Q) :
            /\ Known(j) /\ Q[k].wd = watches[j] /\ Q[k].kind \in Arrivals /\ Q[k].isDir
            /\ IsPrefix(Append(dirs[j], Q[k].name), x)
    BY <1>6 DEF Announced
  <2>2. j \in DOMAIN dirs /\ dirs[j] \in Path
    BY <1>0, <1>4 DEF WatchType
  <2>3. Q[k].name \in STRING
    BY <1>0, <2>1 DEF QueueType, Arrivals
  <2>4. Append(dirs[j], Q[k].name) \in Path /\ IsPrefix(dirs[j], Append(dirs[j], Q[k].name))
    BY <2>2, <2>3, AppendIs, AppendNotPrefix
  <2>5. ~IsPrefix(p, dirs[j])
    BY <1>1, <1>6, <2>1, <2>2, <2>4, PrefixTransitive
  <2>6. dirs'[j] = dirs[j]
    BY <1>5, <2>2, <2>5
  <2>7. IsPrefix(Append(dirs[j], Q[k].name), y)
    BY <1>6, <2>1, <2>4, PrefixTransitive
  <2>8. k \in 1..Len(Q') /\ Q'[k] = Q[k]
    BY <1>0, <1>3 DEF Later
  <2>9. Known(j)'
    BY <1>2, <2>1, <2>6 DEF Known
  <2> QED
    BY <1>2, <2>1, <2>6, <2>7, <2>8, <2>9 DEF Announced
<1>7. ASSUME NEW x \in Path, WalkAbove(x), NEW y \in Path, IsPrefix(x, y) PROVE WalkAbove(y)'
  <2>1. PICK a \in Range(toWatch) : IsPrefix(a, x)
    BY <1>7 DEF WalkAbove
  <2>2. a \in Path
    BY RangeIs DEF Typed, WalkInv
  <2> QED
    BY <1>2, <1>7, <2>1, <2>2, PrefixTransitive DEF WalkAbove
<1>8. ASSUME NEW i \in DOMAIN dirs PROVE (Known(i) \/ WalkAbove(dirs[i]) \/ Announced(dirs[i]))'
  <2>1. CASE ~IsPrefix(p, dirs[i])
    <3>1. dirs'[i] = dirs[i] /\ IsPrefix(dirs[i], dirs[i])
      BY <1>4, <1>5, <2>1, PrefixReflexive
    <3>2. Known(i) => Known(i)'
      BY <1>2, <3>1 DEF Known
    <3> QED
      BY <1>4, <1>6, <1>7, <2>1, <3>1, <3>2 DEF TableInv
  <2>2. CASE IsPrefix(p, dirs[i])
    <3>1. dirs'[i] \in Path /\ IsPrefix(q, dirs'[i]) /\ IsPrefix(Front(q), dirs'[i])
      BY <1>1, <1>2, <1>4, <2>2, RenamedType, PrefixTransitive
    <3>2. q \in DirPaths
      BY <1>0, <1>1, <1>4, <2>2, DiskType
    <3>3. PICK d \in DOMAIN dirs : dirs[d] = Front(q)
      BY <1>1, DirsNowIs
    <3>4. dirs'[d] = Front(q)
      BY <1>1, <1>5, <3>3
    <3>5. CASE Known(d)
      <4>1. PICK k \in 1..Len(Q') : Q'[k] = Ev("movedTo", d, q, changes + 1)
        BY <1>3, <3>3, <3>5 DEF Known, RenameTold
      <4>2. Q'[k].kind \in Arrivals /\ Q'[k].isDir /\ Q'[k].wd = watches[d] /\ Q'[k].name = Last(q)
        <5>1. Ev("movedTo", d, q, changes + 1).isDir = (q \in DirPaths)
          BY DEF Ev
        <5>2. /\ Ev("movedTo", d, q, changes + 1).kind = "movedTo" /\ Ev("movedTo", d, q, changes + 1).wd = watches[d]
              /\ Ev("movedTo", d, q, changes + 1).name = Last(q)
          BY DEF Ev
        <5> QED
          BY <3>2, <4>1, <5>1, <5>2 DEF Arrivals
      <4>3. Append(dirs'[d], Q'[k].name) = q
        BY <1>1, <3>4, <4>2, EntryIs
      <4>4. Known(d)'
        BY <1>2, <3>3, <3>4, <3>5 DEF Known
      <4>5. d \in DOMAIN watches'
        BY <1>2, <3>5 DEF Known
      <4> QED
        BY <1>2, <3>1, <4>2, <4>3, <4>4, <4>5 DEF Announced
    <3>6. CASE ~Known(d)
      <4>1. WalkAbove(Front(q)) \/ Announced(Front(q))
        BY <3>3, <3>6 DEF TableInv
      <4>2. PICK y \in Path : y = dirs'[i]
        BY <3>1
      <4>3. WalkAbove(y)' \/ Announced(y)'
        BY <1>1, <1>6, <1>7, <3>1, <4>1, <4>2
      <4> QED
        BY <4>2, <4>3 DEF WalkAbove, Announced
    <3> QED
      BY <3>5, <3>6
  <2> QED
    BY <2>1, <2>2
<1> QED
  BY <1>2, <1>8 DEF TableInv

\* What announced x still does, as the directories above x stay known.
LEMMA AnnouncedStays ==
    ASSUME Typed, Later, NEW x \in Path, Announced(x),
           \A j \in DOMAIN watches : Known(j) /\ IsStrictPrefix(dirs[j], x) =>
               /\ j \in DOMAIN watches' /\ watches'[j] = watches[j] /\ dirs'[j] = dirs[j]
               /\ wdToPath'[watches[j]] = dirs[j]
    PROVE  Announced(x)'
<1>1. PICK j \in DOMAIN watches, k \in 1..Len(Q) :
          /\ Known(j) /\ Q[k].wd = watches[j] /\ Q[k].kind \in Arrivals /\ Q[k].isDir
          /\ IsPrefix(Append(dirs[j], Q[k].name), x)
  BY DEF Announced
<1>2. dirs[j] \in Path
  BY DiskType DEF Typed, WatchType
<1>3. Q[k].name \in STRING
  BY <1>1 DEF Typed, QueueType, Arrivals
<1>4. Append(dirs[j], Q[k].name) \in Path /\ IsPrefix(dirs[j], Append(dirs[j], Q[k].name))
      /\ ~IsPrefix(Append(dirs[j], Q[k].name), dirs[j])
  BY <1>2, <1>3, AppendIs, AppendNotPrefix
<1>5. IsPrefix(dirs[j], x)
  BY <1>1, <1>2, <1>4, PrefixTransitive
<1>6. IsStrictPrefix(dirs[j], x)
  BY <1>1, <1>4, <1>5 DEF IsStrictPrefix
<1>7. /\ j \in DOMAIN watches' /\ watches'[j] = watches[j] /\ dirs'[j] = dirs[j]
      /\ wdToPath'[watches[j]] = dirs[j]
  BY <1>1, <1>6
<1>8. Known(j)'
  BY <1>7 DEF Known
<1>9. k \in 1..Len(Q') /\ Q'[k] = Q[k]
  BY QType DEF Later, Typed
<1> QED
  BY <1>1, <1>7, <1>8, <1>9 DEF Announced

LEMMA TableMakeDir ==
    ASSUME Typed, TableInv, NEW p \in DirPaths, MakeDir(p)
    PROVE  TableInv'
<1>0. DiskInv /\ QueueType /\ WatchType /\ backend = "inotify" /\ p \in Paths
  BY DEF Typed, Paths
<1>1. /\ p \in Path /\ p # Root /\ p \notin DirsNow /\ Front(p) \in DirsNow
      /\ UNCHANGED <<files, watches, descriptors, table, batch, pendingMovedFrom, walk, index, ghosts>>
  BY <1>0, MakeDirIs
<1>2. PICK n \in DOMAIN dirs' :
          /\ n \notin DOMAIN dirs /\ DOMAIN dirs' = DOMAIN dirs \cup {n} /\ dirs'[n] = p
          /\ \A i \in DOMAIN dirs : dirs'[i] = dirs[i]
  BY <1>0, MakeDirIs
<1>3. Later /\ Told("create", p, 0)
  BY <1>0, OneTold DEF MakeDir, InotifyKinds
<1>4. watches' = watches /\ wdToPath' = wdToPath /\ toWatch' = toWatch
  BY <1>1 DEF table, walk
<1>5. \A i \in DOMAIN dirs : Known(i) => Known(i)'
  BY <1>2, <1>4 DEF Known
<1>6. \A j \in DOMAIN watches : Known(j) => j \in DOMAIN watches' /\ watches'[j] = watches[j]
          /\ dirs'[j] = dirs[j] /\ wdToPath'[watches[j]] = dirs[j]
  BY <1>0, <1>2, <1>4 DEF Known, WatchType
<1>7. ASSUME NEW x \in Path, WalkAbove(x) \/ Announced(x) PROVE (WalkAbove(x) \/ Announced(x))'
  <2>1. CASE WalkAbove(x)
    BY <1>4, <2>1 DEF WalkAbove
  <2>2. CASE Announced(x)
    BY <1>3, <1>6, <2>2, AnnouncedStays
  <2> QED
    BY <1>7, <2>1, <2>2
<1>8. \A i \in DOMAIN dirs : dirs[i] \in Path
  BY <1>0, DiskType
<1>9. ASSUME NEW i \in DOMAIN dirs PROVE (Known(i) \/ WalkAbove(dirs[i]) \/ Announced(dirs[i]))'
  <2>1. PICK y \in Path : y = dirs[i] /\ y = dirs'[i]
    BY <1>2, <1>8
  <2>2. Known(i) \/ WalkAbove(y) \/ Announced(y)
    BY <2>1 DEF TableInv
  <2>3. Known(i)' \/ WalkAbove(y)' \/ Announced(y)'
    BY <1>5, <1>7, <2>2
  <2> QED
    BY <2>1, <2>3 DEF WalkAbove, Announced
<1>10. (Known(n) \/ WalkAbove(dirs[n]) \/ Announced(dirs[n]))'
  <2>1. PICK f \in DOMAIN dirs : dirs[f] = Front(p)
    BY <1>1, DirsNowIs
  <2>2. Front(p) \in Path /\ Last(p) \in STRING /\ p = Append(Front(p), Last(p)) /\ IsPrefix(Front(p), p)
    <3>1. Front(p) \in Path /\ Last(p) \in STRING /\ p = Append(Front(p), Last(p))
      BY <1>1, EntryIs
    <3> QED
      BY <3>1, AppendNotPrefix
  <2>3. CASE Known(f)
    <3>1. PICK k \in 1..Len(Q') : Q'[k] = Ev("create", f, p, 0)
      BY <1>3, <2>1, <2>3 DEF Told, Known
    <3>2. Ev("create", f, p, 0).isDir = (p \in DirPaths)
      BY DEF Ev
    <3>3. /\ Ev("create", f, p, 0).kind = "create" /\ Ev("create", f, p, 0).wd = watches[f]
          /\ Ev("create", f, p, 0).name = Last(p)
      BY DEF Ev
    <3>4. Q'[k].kind \in Arrivals /\ Q'[k].isDir /\ Q'[k].wd = watches'[f] /\ Q'[k].name = Last(p)
      BY <1>4, <3>1, <3>2, <3>3 DEF Arrivals
    <3>5. Append(dirs'[f], Q'[k].name) = p /\ IsPrefix(p, p)
      BY <1>1, <1>2, <2>1, <2>2, <3>4, PrefixReflexive
    <3>6. Known(f)' /\ f \in DOMAIN watches'
      BY <1>4, <1>5, <2>3 DEF Known
    <3> QED
      BY <1>2, <3>4, <3>5, <3>6 DEF Announced
  <2>4. CASE ~Known(f)
    <3>1. WalkAbove(dirs[f]) \/ Announced(dirs[f])
      BY <2>4 DEF TableInv
    <3>2. WalkAbove(Front(p)) \/ Announced(Front(p))
      BY <2>1, <3>1
    <3>3. WalkAbove(p) \/ Announced(p)
      <4>1. ASSUME NEW a \in Path, IsPrefix(a, Front(p)) PROVE IsPrefix(a, p)
        BY <1>1, <2>2, <4>1, PrefixTransitive
      <4>2. \A a \in Range(toWatch) : a \in Path
        BY RangeIs DEF Typed, WalkInv
      <4>3. CASE WalkAbove(Front(p))
        BY <4>1, <4>2, <4>3 DEF WalkAbove
      <4>4. CASE Announced(Front(p))
        <5>1. PICK j \in DOMAIN watches, k \in 1..Len(Q) :
                  /\ Known(j) /\ Q[k].wd = watches[j] /\ Q[k].kind \in Arrivals /\ Q[k].isDir
                  /\ IsPrefix(Append(dirs[j], Q[k].name), Front(p))
          BY <4>4 DEF Announced
        <5>2. dirs[j] \in Path /\ Q[k].name \in STRING
          BY <1>0, <1>8, <5>1 DEF WatchType, QueueType, Arrivals
        <5>3. IsPrefix(Append(dirs[j], Q[k].name), p)
          BY <4>1, <5>1, <5>2, AppendIs
        <5> QED
          BY <5>1, <5>3 DEF Announced
      <4> QED
        BY <3>2, <4>3, <4>4
    <3>4. WalkAbove(p)' \/ Announced(p)'
      BY <1>1, <1>7, <3>3
    <3> QED
      BY <1>2, <3>4 DEF WalkAbove, Announced
  <2> QED
    BY <2>3, <2>4
<1> QED
  BY <1>2, <1>9, <1>10 DEF TableInv

LEMMA TableRemoveDir ==
    ASSUME Typed, TableInv, NEW p \in DirPaths, RemoveDir(p)
    PROVE  TableInv'
<1>0. DiskInv /\ QueueType /\ WatchType /\ backend = "inotify"
  BY DEF Typed
<1>1. /\ \A x \in files \cup DirsNow : ~IsStrictPrefix(p, x)
      /\ DOMAIN dirs' = DOMAIN dirs \ {Inode(p)} /\ dirs[Inode(p)] = p
      /\ \A j \in DOMAIN dirs' : dirs'[j] = dirs[j]
      /\ DOMAIN watches' = DOMAIN watches \ {Inode(p)}
      /\ \A j \in DOMAIN watches' : watches'[j] = watches[j]
      /\ UNCHANGED <<files, table, batch, pendingMovedFrom, walk, index, gaps, misreported>>
  BY <1>0, RemoveDirIs
<1>2. wdToPath' = wdToPath /\ toWatch' = toWatch
  BY <1>1 DEF table, walk
<1>3. Later
  BY <1>0, RemoveDirTold
<1>4. \A i \in DOMAIN dirs : dirs[i] \in Path /\ dirs[i] \in DirsNow
  BY <1>0, DiskType
<1>5. ASSUME NEW i \in DOMAIN dirs' PROVE (Known(i) \/ WalkAbove(dirs[i]) \/ Announced(dirs[i]))'
  <2>1. i \in DOMAIN dirs /\ i # Inode(p)
    BY <1>1
  <2>2. PICK y \in Path : y = dirs[i] /\ y = dirs'[i]
    BY <1>1, <1>4, <2>1
  <2>3. Known(i) => Known(i)'
    BY <1>1, <1>2, <2>1 DEF Known
  <2>4. WalkAbove(y) => WalkAbove(y)'
    BY <1>2 DEF WalkAbove
  <2>5. ASSUME NEW j \in DOMAIN watches, Known(j), IsStrictPrefix(dirs[j], y)
        PROVE  /\ j \in DOMAIN watches' /\ watches'[j] = watches[j] /\ dirs'[j] = dirs[j]
               /\ wdToPath'[watches[j]] = dirs[j]
    <3>1. dirs[j] # p
      BY <1>1, <1>4, <2>1, <2>2, <2>5
    <3>2. j # Inode(p) /\ j \in DOMAIN dirs
      BY <1>0, <1>1, <3>1 DEF WatchType
    <3> QED
      BY <1>1, <1>2, <2>5, <3>2 DEF Known
  <2>6. Announced(y) => Announced(y)'
    BY <1>3, <2>5, AnnouncedStays
  <2>7. Known(i) \/ WalkAbove(y) \/ Announced(y)
    BY <2>1, <2>2 DEF TableInv
  <2>8. Known(i)' \/ WalkAbove(y)' \/ Announced(y)'
    BY <2>3, <2>4, <2>6, <2>7
  <2> QED
    BY <2>2, <2>8 DEF WalkAbove, Announced
<1> QED
  BY <1>5 DEF TableInv

LEMMA TableWatchNext ==
    ASSUME Typed, TableInv, WatchNext, gaps' = {}
    PROVE  TableInv'
<1>0. DiskInv /\ QueueType /\ WatchType /\ backend = "inotify" /\ toWatch \in Seq(Path) /\ toWatch # <<>>
  BY DEF Typed, WalkInv, WatchNext
<1>1. Q' = Q /\ dirs' = dirs /\ files' = files
  BY <1>0, SameQueue
<1>2. Later
  BY <1>0, <1>1, QType DEF Later
<1>3. /\ Head(toWatch) \in Path /\ Tail(toWatch) \in Seq(Path)
      /\ \A a \in Range(toWatch) : a = Head(toWatch) \/ a \in Range(Tail(toWatch))
  BY <1>0, RangeOfBoth, ShorterIs, RangeIs
<1>4. \A i \in DOMAIN dirs : dirs[i] \in Path /\ dirs[i] \in DirsNow
  BY <1>0, DiskType
<1>5. CASE Head(toWatch) \in DirsNow
  <2>1. PICK path \in DirsNow : path = Head(toWatch) /\ AddWatch(path)
    BY <1>5 DEF WatchNext
  <2>2. PICK c \in DOMAIN dirs :
            /\ dirs[c] = path
            /\ DOMAIN watches' = DOMAIN watches \cup {c}
            /\ \A j \in DOMAIN watches : watches'[j] = watches[j]
            /\ \A j \in DOMAIN watches : j # c => wdToPath'[watches[j]] = wdToPath[watches[j]]
            /\ wdToPath'[watches'[c]] = path
    BY <1>0, <2>1, AddWatchIs
  <2>3. PICK subdirs \in SetToSeqs(Children(path) \cap DirPaths) : toWatch' = subdirs \o Tail(toWatch)
    BY <1>5, <2>1 DEF WatchNext
  <2>4. path \in Path
    BY <1>3, <2>1
  <2>5. IsFiniteSet(Children(path) \cap DirPaths)
    BY <1>0, <2>4, ChildrenAre
  <2>6. Children(path) \cap DirPaths \subseteq Path
    BY PathsType DEF Paths
  <2>7. subdirs \in Seq(Path) /\ Range(subdirs) = Children(path) \cap DirPaths
    BY <2>5, <2>6, SeqOfPaths, SetToSeqsIs
  <2>8. Range(toWatch') = (Children(path) \cap DirPaths) \cup Range(Tail(toWatch))
    <3> DEFINE t == Tail(toWatch)
    <3>1. t \in Seq(Path) /\ subdirs \in Seq(Path)
      BY <1>3, <2>7
    <3> HIDE DEF t
    <3>2. Range(subdirs \o t) = Range(subdirs) \cup Range(t)
      BY <3>1, RangeOfBoth
    <3> QED
      BY <2>3, <2>7, <3>2 DEF t
  <2>9. \A i \in DOMAIN dirs : Known(i) \/ i = c => Known(i)'
    BY <1>1, <2>2 DEF Known
  <2>10. \A j \in DOMAIN watches : Known(j) => j \in DOMAIN watches' /\ watches'[j] = watches[j]
             /\ dirs'[j] = dirs[j] /\ wdToPath'[watches[j]] = dirs[j]
    BY <1>1, <2>2 DEF Known
  <2>11. ASSUME NEW i \in DOMAIN dirs, i # c, WalkAbove(dirs[i]) PROVE WalkAbove(dirs[i])'
    <3>1. PICK a \in Range(toWatch) : IsPrefix(a, dirs[i])
      BY <2>11 DEF WalkAbove
    <3>2. CASE a \in Range(Tail(toWatch))
      BY <1>1, <2>8, <3>1, <3>2 DEF WalkAbove
    <3>3. CASE a = path
      <4>1. IsStrictPrefix(path, dirs[i]) /\ dirs[i] \in DirsNow
        BY <1>0, <1>4, <2>2, <2>11, <3>1, <3>3 DEF IsStrictPrefix, DiskInv
      <4>2. PICK x \in Children(path) : IsPrefix(x, dirs[i]) /\ x \in DirPaths
        BY <1>0, <2>4, <4>1, ChildTowards
      <4> QED
        BY <1>1, <2>8, <4>2 DEF WalkAbove
    <3> QED
      BY <1>3, <2>1, <3>1, <3>2, <3>3
  <2>12. ASSUME NEW i \in DOMAIN dirs PROVE (Known(i) \/ WalkAbove(dirs[i]) \/ Announced(dirs[i]))'
    <3>1. PICK y \in Path : y = dirs[i] /\ y = dirs'[i]
      BY <1>1, <1>4
    <3>2. Announced(y) => Announced(y)'
      BY <1>2, <2>10, AnnouncedStays
    <3>3. Known(i) \/ WalkAbove(dirs[i]) \/ Announced(y)
      BY <3>1 DEF TableInv
    <3>4. Known(i)' \/ WalkAbove(dirs[i])' \/ Announced(y)'
      BY <2>9, <2>11, <3>2, <3>3
    <3> QED
      BY <3>1, <3>4 DEF Announced
  <2> QED
    BY <1>1, <2>12 DEF TableInv
<1>6. CASE Head(toWatch) \notin DirsNow
  <2>1. Tail(toWatch) = <<>> /\ UNCHANGED <<watches, table>>
    BY <1>6 DEF WatchNext
  <2>2. wdToPath' = wdToPath /\ watches' = watches
    BY <2>1 DEF table
  <2>3. Range(Tail(toWatch)) = {}
    BY <2>1 DEF Range
  <2>4. \A i \in DOMAIN dirs : ~WalkAbove(dirs[i])
    <3>1. ASSUME NEW i \in DOMAIN dirs, WalkAbove(dirs[i]) PROVE FALSE
      <4>1. IsPrefix(Head(toWatch), dirs[i])
        BY <1>3, <2>3, <3>1 DEF WalkAbove
      <4>2. Head(toWatch) # dirs[i]
        BY <1>4, <1>6
      <4>3. IsStrictPrefix(Head(toWatch), dirs[i])
        BY <4>1, <4>2 DEF IsStrictPrefix
      <4> QED
        BY <1>0, <1>3, <1>4, <1>6, <4>3, Above
    <3> QED
      BY <3>1
  <2>5. \A i \in DOMAIN dirs : Known(i) => Known(i)'
    BY <1>1, <2>2 DEF Known
  <2>6. \A j \in DOMAIN watches : Known(j) => j \in DOMAIN watches' /\ watches'[j] = watches[j]
             /\ dirs'[j] = dirs[j] /\ wdToPath'[watches[j]] = dirs[j]
    BY <1>1, <2>2 DEF Known
  <2>7. ASSUME NEW i \in DOMAIN dirs PROVE (Known(i) \/ WalkAbove(dirs[i]) \/ Announced(dirs[i]))'
    <3>1. PICK y \in Path : y = dirs[i] /\ y = dirs'[i]
      BY <1>1, <1>4
    <3>2. Announced(y) => Announced(y)'
      BY <1>2, <2>6, AnnouncedStays
    <3>3. Known(i) \/ Announced(y)
      BY <2>4, <3>1 DEF TableInv
    <3>4. Known(i)' \/ Announced(y)'
      BY <2>5, <3>2, <3>3
    <3> QED
      BY <3>1, <3>4 DEF Announced
  <2> QED
    BY <1>1, <2>7 DEF TableInv
<1> QED
  BY <1>5, <1>6

\* No directory changes, and no watch: it is enough that no event is lost.
LEMMA TableSame ==
    ASSUME TableInv, Later, Len(Q) \in Nat, UNCHANGED <<dirs, watches, wdToPath, toWatch>>
    PROVE  TableInv'
<1>1. \A i \in DOMAIN dirs : Known(i) => Known(i)'
  BY DEF Known
<1>2. \A k \in 1..Len(Q) : k \in 1..Len(Q') /\ Q'[k] = Q[k]
  BY DEF Later
<1>3. ASSUME NEW i \in DOMAIN dirs, Announced(dirs[i]) PROVE Announced(dirs[i])'
  <2>1. PICK j \in DOMAIN watches, k \in 1..Len(Q) :
            /\ Known(j) /\ Q[k].wd = watches[j] /\ Q[k].kind \in Arrivals /\ Q[k].isDir
            /\ IsPrefix(Append(dirs[j], Q[k].name), dirs[i])
    BY <1>3 DEF Announced
  <2>2. Known(j)' /\ j \in DOMAIN watches'
    BY <2>1 DEF Known
  <2> QED
    BY <1>2, <2>1, <2>2 DEF Announced
<1>4. \A i \in DOMAIN dirs : WalkAbove(dirs[i]) => WalkAbove(dirs[i])'
  BY DEF WalkAbove
<1> QED
  BY <1>1, <1>3, <1>4 DEF TableInv

LEMMA TableStep == Typed /\ TableInv /\ Inotify' /\ [Next]_vars => TableInv'
<1> SUFFICES ASSUME Typed, TableInv, Inotify', [Next]_vars PROVE TableInv'
  OBVIOUS
<1>0. DiskInv /\ QueueType /\ WatchType /\ backend = "inotify" /\ Len(Q) \in Nat /\ gaps' = {}
  BY QType DEF Typed, Inotify
<1>1. InotifyNext
  BY InotifySteps
<1>2. ASSUME NEW p \in FilePaths, Create(p) \/ Modify(p) \/ Delete(p) PROVE TableInv'
  <2>1. p \in Paths
    BY DEF Paths
  <2>2. UNCHANGED <<dirs, watches, wdToPath, toWatch>>
    BY <1>2 DEF Create, Modify, Delete, Change, table, walk
  <2>3. Later
    BY <1>0, <1>2, <2>1, OneTold DEF Create, Modify, Delete, InotifyKinds
  <2> QED
    BY <1>0, <2>2, <2>3, TableSame
<1>3. ASSUME NEW p \in DirPaths, MakeDir(p) \/ RemoveDir(p) PROVE TableInv'
  BY <1>3, TableMakeDir, TableRemoveDir
<1>4. ASSUME NEW p \in Paths, NEW q \in Paths, Rename(p, q) PROVE TableInv'
  BY <1>4, TableRename
<1>5. CASE QueueMovedTo \/ EndBatch \/ ReadSubtree \/ EmitNext \/ UNCHANGED vars
  <2>1. Q' = Q
    BY <1>0, <1>5, SameQueue
  <2>2. UNCHANGED <<dirs, watches, wdToPath, toWatch>>
    BY <1>5 DEF QueueMovedTo, EndBatch, ReadSubtree, EmitNext, vars, kernel, notWalk, disk, table, walk
  <2>3. Later
    BY <1>0, <2>1 DEF Later
  <2> QED
    BY <1>0, <2>2, <2>3, TableSame
<1>6. CASE HandleEvent
  BY <1>6, TableHandle
<1>7. CASE WatchNext
  BY <1>0, <1>7, TableWatchNext
<1> QED
  BY <1>1, <1>2, <1>3, <1>4, <1>5, <1>6, <1>7 DEF InotifyNext

LEMMA StartIs ==
    ASSUME NEW order \in SetToSeqs(StartDirs)
    PROVE  /\ IsFiniteSet(StartDirs) /\ StartDirs \subseteq DirPaths \cup {Root}
           /\ DOMAIN order = 1..Cardinality(StartDirs) /\ Cardinality(StartDirs) \in Nat
           /\ Range(order) = StartDirs /\ \A i \in DOMAIN order : order[i] \in StartDirs
           /\ \A i, j \in DOMAIN order : order[i] = order[j] => i = j
<1>1. StartDirs \subseteq DirPaths \cup {Root}
  BY DEF StartDirs
<1>2. IsFiniteSet(StartDirs)
  <2>1. IsFiniteSet(Paths \cup {Root})
    BY PathsAssumption, FS_AddElement
  <2>2. StartDirs \subseteq Paths \cup {Root}
    BY <1>1 DEF Paths
  <2> QED
    BY <2>1, <2>2, FS_Subset
<1>3. /\ DOMAIN order = 1..Cardinality(StartDirs) /\ Range(order) = StartDirs
      /\ \A i, j \in DOMAIN order : order[i] = order[j] => i = j
  BY <1>2, SetToSeqsIs
<1>4. Cardinality(StartDirs) \in Nat
  BY <1>2, FS_CardinalityType
<1>5. \A i \in DOMAIN order : order[i] \in StartDirs
  BY <1>3 DEF Range
<1> QED
  BY <1>1, <1>2, <1>3, <1>4, <1>5

LEMMA DiskInit == Init => DiskInv
<1> SUFFICES ASSUME Init PROVE DiskInv
  OBVIOUS
<1>1. PICK order \in SetToSeqs(StartDirs) : dirs = order
  BY DEF Init
<1>2. /\ files = Start \cap FilePaths /\ inodes = Cardinality(StartDirs) /\ changes = 0
  BY DEF Init
<1>3. DirsNow = StartDirs
  BY <1>1, StartIs DEF DirsNow
<1>4. /\ DirsNow \subseteq DirPaths \cup {Root} /\ inodes \in Nat /\ DOMAIN dirs \subseteq 1..inodes
      /\ \A i, j \in DOMAIN dirs : dirs[i] = dirs[j] => i = j
  BY <1>1, <1>2, <1>3, StartIs
<1>5. ASSUME NEW p \in files \cup DirsNow, NEW a \in Paths \cup {Root}, IsStrictPrefix(a, p)
      PROVE  a \in DirsNow
  <2>1. CASE a = Root
    BY <1>3, <2>1 DEF StartDirs
  <2>2. CASE a # Root
    <3>1. p \in Start /\ p \in Paths /\ p \in Path /\ a \in Path /\ IsPrefix(a, p) /\ a # p
      BY <1>2, <1>3, <1>5, <2>2, RootPrefix, PathsType, StartAssumption DEF StartDirs, IsStrictPrefix
    <3>2. Len(a) \in Nat /\ Len(p) \in Nat /\ Len(a) <= Len(p)
      BY <3>1, PrefixIs DEF Path
    <3>3. a = SubSeq(p, 1, Len(a))
      BY <3>1, SubSeqFull DEF IsPrefix, Path
    <3>4. Len(a) # Len(p)
      BY <3>1, <3>3, SubSeqFull DEF Path
    <3>5. Len(a) # 0
      BY <2>2, <3>1 DEF Root, Path
    <3>6. Len(a) \in 1..(Len(p) - 1)
      BY <3>2, <3>4, <3>5
    <3>7. a \in Start /\ a \in DirPaths
      BY <3>1, <3>3, <3>6, StartAssumption, PathsAssumption
    <3> QED
      BY <1>3, <3>7 DEF StartDirs
  <2> QED
    BY <2>1, <2>2
<1> QED
  BY <1>2, <1>4, <1>5 DEF DiskInv

LEMMA TypedInit == Init /\ Inotify => Typed /\ TableInv
<1> SUFFICES ASSUME Init, backend = "inotify" PROVE Typed /\ TableInv
  BY DEF Inotify
<1>1. DiskInv
  BY DiskInit
<1>2. PICK order \in SetToSeqs(StartDirs) :
          /\ dirs = order /\ watches = [i \in DOMAIN order |-> i]
          /\ wdToPath = [i \in DOMAIN order |-> order[i]]
          /\ descriptors = Cardinality(DOMAIN order)
  BY DEF Init
<1>3. /\ queue = <<>> /\ movedTo = <<>> /\ pendingMovedFrom = <<>> /\ changes = 0
      /\ toWatch = <<>> /\ walkRoot = None /\ toEmit = <<>>
      /\ index = [p \in Paths |-> IF p \in Start THEN 1 ELSE 0]
  BY DEF Init
<1>4. DOMAIN order = 1..Cardinality(StartDirs) /\ Cardinality(StartDirs) \in Nat
  BY StartIs
<1>5. descriptors = Cardinality(StartDirs)
  BY <1>2, <1>4, FS_Interval
<1>6. WatchType
  <2>1. \A i \in DOMAIN watches : watches[i] = i /\ i \in 1..descriptors
    BY <1>2, <1>4, <1>5
  <2>2. \A wd \in DOMAIN wdToPath : wdToPath[wd] \in Path
    BY <1>1, <1>2, DiskType
  <2> QED
    BY <1>2, <1>4, <1>5, <2>1, <2>2 DEF WatchType
<1>7. Q = <<>>
  BY <1>3 DEF Q
<1>8. QueueType /\ IgnInv
  <2>1. Len(Q) = 0 /\ <<>> \in Seq(InotifyEvent)
    BY <1>7, EmptySeq
  <2> QED
    BY <1>3, <2>1 DEF QueueType, IgnInv
<1>9. IndexType
  BY <1>3 DEF IndexType
<1>10. PendingType
  BY <1>3 DEF PendingType
<1>11. WalkInv
  <2>1. Range(<<>>) = {} /\ <<>> \in Seq(Path)
    BY DEF Range
  <2> QED
    BY <1>3, <2>1 DEF WalkInv
<1>12. TableInv
  BY <1>2 DEF TableInv, Known
<1> QED
  BY <1>1, <1>6, <1>8, <1>9, <1>10, <1>11, <1>12 DEF Typed

WatchInv == Inotify => Typed /\ TableInv

LEMMA WatchInvHolds == Spec => []WatchInv
<1>1. Init => WatchInv
  BY TypedInit DEF WatchInv
<1>2. WatchInv /\ [Next]_vars => WatchInv'
  <2> SUFFICES ASSUME WatchInv, [Next]_vars, Inotify' PROVE (Typed /\ TableInv)'
    BY DEF WatchInv
  <2>1. Typed /\ TableInv
    BY InotifySteps DEF WatchInv
  <2> QED
    BY <2>1, TypedStep, TableStep
<1> QED
  BY <1>1, <1>2, PTL DEF Spec

\* Once the events are handled the inotify watcher watches every directory,
\* and its table has each under its present name, however many were made,
\* removed and renamed around and above it: InotifyWatcher's WatchTable, and
\* the walk of WatchAndEmitNewSubtree.
THEOREM DirectoriesWatchedHolds == Spec => []DirectoriesWatched
<1>1. WatchInv => DirectoriesWatched
  <2> SUFFICES ASSUME WatchInv, Settled, gaps = {}, backend = "inotify", NEW i \in DOMAIN dirs
               PROVE  i \in DOMAIN watches /\ wdToPath[watches[i]] = dirs[i]
    BY DEF DirectoriesWatched
  <2>1. TableInv
    BY DEF WatchInv, Inotify
  <2>2. Range(toWatch) = {}
    BY DEF Settled, Idle, Range
  <2>3. Q = <<>>
    BY DEF Settled, Q
  <2>4. 1..Len(Q) = {}
    BY <2>3
  <2> QED
    BY <2>1, <2>2, <2>4 DEF TableInv, Known, WalkAbove, Announced
<1> QED
  BY <1>1, WatchInvHolds, PTL

-----------------------------------------------------------------------------
(* inotify: the two events of a rename.                                    *)

Moves == {"movedFrom", "movedTo"}

\* They are next to each other, and a movedFrom that waits was before all of
\* those not read.
PairInv ==
    /\ \A j, k \in 1..Len(Q) : Q[j].kind \in Moves /\ Q[k].kind \in Moves /\ Q[j].cookie = Q[k].cookie =>
           /\ Q[j].kind = Q[k].kind => j = k
           /\ Q[j].kind = "movedFrom" /\ Q[k].kind = "movedTo" => k = j + 1
    /\ \A j \in 1..Len(Q) : Q[j].kind = "movedFrom" => Q[j].cookie \notin DOMAIN pendingMovedFrom

LEMMA OthersKeep ==
    ASSUME Typed, Others
    PROVE  /\ Later /\ UNCHANGED <<wdToPath, pendingMovedFrom, batch, toWatch, walkRoot, toEmit, index>>
           /\ changes' = changes + 1 /\ misreported' = misreported
<1>0. DiskInv /\ QueueType /\ WatchType /\ backend = "inotify"
  BY DEF Typed
<1>1. ASSUME NEW p \in FilePaths, Create(p) \/ Modify(p) \/ Delete(p)
      PROVE  /\ Later /\ UNCHANGED <<wdToPath, pendingMovedFrom, batch, toWatch, walkRoot, toEmit, index>>
             /\ changes' = changes + 1 /\ misreported' = misreported
  <2>1. p \in Paths
    BY DEF Paths
  <2>2. Later
    BY <1>0, <1>1, <2>1, OneTold DEF Create, Modify, Delete, InotifyKinds
  <2> QED
    BY <1>1, <2>2 DEF Create, Modify, Delete, Change, table, walk, ghosts
<1>2. ASSUME NEW p \in DirPaths, MakeDir(p)
      PROVE  /\ Later /\ UNCHANGED <<wdToPath, pendingMovedFrom, batch, toWatch, walkRoot, toEmit, index>>
             /\ changes' = changes + 1 /\ misreported' = misreported
  <2>1. p \in Paths
    BY DEF Paths
  <2>2. Later
    BY <1>0, <1>2, <2>1, OneTold DEF MakeDir, InotifyKinds
  <2> QED
    BY <1>2, <2>2 DEF MakeDir, Change, table, walk, ghosts
<1>3. ASSUME NEW p \in DirPaths, RemoveDir(p)
      PROVE  /\ Later /\ UNCHANGED <<wdToPath, pendingMovedFrom, batch, toWatch, walkRoot, toEmit, index>>
             /\ changes' = changes + 1 /\ misreported' = misreported
  <2>1. Later
    BY <1>0, <1>3, RemoveDirTold
  <2> QED
    BY <1>3, <2>1 DEF RemoveDir, Change, table, walk
<1>4. ASSUME NEW p \in Paths, NEW q \in Paths, Rename(p, q)
      PROVE  /\ Later /\ UNCHANGED <<wdToPath, pendingMovedFrom, batch, toWatch, walkRoot, toEmit, index>>
             /\ changes' = changes + 1 /\ misreported' = misreported
  <2>1. Later
    BY <1>0, <1>4, RenameTells
  <2>2. misreported' = misreported
    BY <1>0, <1>4 DEF Rename
  <2> QED
    BY <1>4, <2>1, <2>2 DEF Rename, Change, table, walk
<1> QED
  BY <1>1, <1>2, <1>3, <1>4 DEF Others

\* The moves a change tells of are of one cookie, that is new.
LEMMA NewMoves ==
    ASSUME Typed, Others
    PROVE  /\ \A k \in 1..Len(Q') : k > Len(Q) /\ Q'[k].kind \in Moves => Q'[k].cookie = changes + 1
           /\ \A j, k \in 1..Len(Q') :
                  j > Len(Q) /\ k > Len(Q) /\ Q'[j].kind \in Moves /\ Q'[k].kind \in Moves =>
                  /\ Q'[j].kind = Q'[k].kind => j = k
                  /\ Q'[j].kind = "movedFrom" /\ Q'[k].kind = "movedTo" => k = j + 1
<1>0. DiskInv /\ QueueType /\ WatchType /\ backend = "inotify"
  BY DEF Typed
<1>1. \A kind, i, p, c : Ev(kind, i, p, c).kind = kind /\ Ev(kind, i, p, c).cookie = c
  BY DEF Ev
<1>2. ASSUME NEW p \in FilePaths, Create(p) \/ Modify(p) \/ Delete(p), NEW k \in 1..Len(Q'), k > Len(Q)
      PROVE  Q'[k].kind \notin Moves
  <2>1. p \in Paths
    BY DEF Paths
  <2>2. Told("create", p, 0) \/ Told("modify", p, 0) \/ Told("delete", p, 0)
    BY <1>0, <1>2, <2>1, OneTold DEF Create, Modify, Delete, InotifyKinds
  <2> QED
    BY <1>1, <1>2, <2>2 DEF Told, Moves
<1>3. ASSUME NEW p \in DirPaths, MakeDir(p), NEW k \in 1..Len(Q'), k > Len(Q)
      PROVE  Q'[k].kind \notin Moves
  <2>1. p \in Paths
    BY DEF Paths
  <2>2. Told("create", p, 0)
    BY <1>0, <1>3, <2>1, OneTold DEF MakeDir, InotifyKinds
  <2> QED
    BY <1>1, <1>3, <2>2 DEF Told, Moves
<1>4. ASSUME NEW p \in DirPaths, RemoveDir(p), NEW k \in 1..Len(Q'), k > Len(Q)
      PROVE  Q'[k].kind \notin Moves
  <2>1. (\E i \in DOMAIN watches : Q'[k] = Ev("delete", i, p, 0)) \/ Q'[k].kind = "ignored"
    BY <1>0, <1>4, RemoveDirTold
  <2> QED
    BY <1>1, <2>1 DEF Moves
<1>5. ASSUME NEW p \in Paths, NEW q \in Paths, Rename(p, q)
      PROVE  /\ \A k \in 1..Len(Q') : k > Len(Q) /\ Q'[k].kind \in Moves => Q'[k].cookie = changes + 1
             /\ \A j, k \in 1..Len(Q') :
                    j > Len(Q) /\ k > Len(Q) /\ Q'[j].kind \in Moves /\ Q'[k].kind \in Moves =>
                    /\ Q'[j].kind = Q'[k].kind => j = k
                    /\ Q'[j].kind = "movedFrom" /\ Q'[k].kind = "movedTo" => k = j + 1
  <2>1. RenameTold(p, q)
    BY <1>0, <1>5, RenameTells
  <2>2. ASSUME NEW k \in 1..Len(Q'), k > Len(Q)
        PROVE  /\ Q'[k].cookie = changes + 1
               /\ Q'[k].kind = "movedFrom" => k = Len(Q) + 1
               /\ Q'[k].kind = "movedTo" => k = Len(Q')
    <3>1. \/ \E i \in DOMAIN watches : Q'[k] = Ev("movedFrom", i, p, changes + 1) /\ k = Len(Q) + 1
          \/ \E i \in DOMAIN watches : Q'[k] = Ev("movedTo", i, q, changes + 1) /\ k = Len(Q')
      BY <2>1, <2>2 DEF RenameTold
    <3> QED
      BY <1>1, <3>1
  <2>3. \A j, k \in 1..Len(Q') :
           j > Len(Q) /\ k > Len(Q) /\ Q'[j].kind = "movedFrom" /\ Q'[k].kind = "movedTo" => k = j + 1
    BY <2>1 DEF RenameTold
  <2>4. \A k \in 1..Len(Q') : k > Len(Q) /\ Q'[k].kind \in Moves => Q'[k].cookie = changes + 1
    BY <2>2
  <2>5. \A j, k \in 1..Len(Q') : j > Len(Q) /\ k > Len(Q) /\ Q'[j].kind \in Moves /\ Q'[k].kind = Q'[j].kind => j = k
    BY <2>2 DEF Moves
  <2> QED
    BY <2>3, <2>4, <2>5
<1> QED
  BY <1>2, <1>3, <1>4, <1>5 DEF Others

LEMMA PairOthers ==
    ASSUME Typed, PairInv, Others
    PROVE  PairInv'
<1>0. Len(Q) \in Nat /\ changes \in Nat /\ pendingMovedFrom' = pendingMovedFrom /\ Later
  BY QType, OthersKeep DEF Typed, DiskInv
<1>1. \A k \in 1..Len(Q') : k > Len(Q) \/ k \in 1..Len(Q)
  BY <1>0
<1>2. \A k \in 1..Len(Q) : Q'[k] = Q[k] /\ Q[k].cookie \in Nat /\ Q[k].cookie <= changes
  BY <1>0, QType DEF Later, Typed, QueueType, InotifyEvent
<1>3. \A k \in 1..Len(Q') : k > Len(Q) /\ Q'[k].kind \in Moves => Q'[k].cookie = changes + 1
  BY NewMoves
<1>4. \A j \in 1..Len(Q), k \in 1..Len(Q') : k > Len(Q) /\ Q'[k].kind \in Moves => Q[j].cookie # Q'[k].cookie
  BY <1>0, <1>2, <1>3
<1>5. ASSUME NEW j \in 1..Len(Q'), NEW k \in 1..Len(Q'), Q'[j].kind \in Moves, Q'[k].kind \in Moves,
             Q'[j].cookie = Q'[k].cookie
      PROVE  /\ Q'[j].kind = Q'[k].kind => j = k
             /\ Q'[j].kind = "movedFrom" /\ Q'[k].kind = "movedTo" => k = j + 1
  <2>1. CASE j \in 1..Len(Q) /\ k \in 1..Len(Q)
    BY <1>2, <1>5, <2>1 DEF PairInv
  <2>2. CASE j > Len(Q) /\ k > Len(Q)
    BY <1>5, <2>2, NewMoves
  <2>3. CASE j \in 1..Len(Q) /\ k > Len(Q)
    BY <1>2, <1>4, <1>5, <2>3
  <2>4. CASE k \in 1..Len(Q) /\ j > Len(Q)
    BY <1>2, <1>4, <1>5, <2>4
  <2> QED
    BY <1>1, <2>1, <2>2, <2>3, <2>4
<1>6. ASSUME NEW j \in 1..Len(Q'), Q'[j].kind = "movedFrom"
      PROVE  Q'[j].cookie \notin DOMAIN pendingMovedFrom
  <2>1. CASE j \in 1..Len(Q)
    BY <1>2, <1>6, <2>1 DEF PairInv
  <2>2. CASE j > Len(Q)
    <3>1. Q'[j].cookie = changes + 1
      BY <1>3, <1>6, <2>2 DEF Moves
    <3> QED
      BY <1>0, <3>1 DEF Typed, PendingType
  <2> QED
    BY <1>1, <2>1, <2>2
<1> QED
  BY <1>0, <1>5, <1>6 DEF PairInv

LEMMA PairStep == Typed /\ PairInv /\ InotifyNext => PairInv'
<1> SUFFICES ASSUME Typed, PairInv, InotifyNext PROVE PairInv'
  OBVIOUS
<1>0. DiskInv /\ QueueType /\ backend = "inotify" /\ Len(Q) \in Nat
  BY QType DEF Typed
<1>1. CASE Others
  BY <1>1, PairOthers
<1>2. CASE HandleEvent
  <2>1. /\ Len(Q) \in Nat \ {0} /\ 1 \in 1..Len(Q)
        /\ \A k \in 1..Len(Q') : Q'[k] = Q[k + 1] /\ k + 1 \in 1..Len(Q) /\ k \in Int
    BY <1>0, <1>2, HandleShift
  <2>2. \/ DOMAIN pendingMovedFrom' \subseteq DOMAIN pendingMovedFrom
        \/ Q[1].kind = "movedFrom" /\ DOMAIN pendingMovedFrom' = DOMAIN pendingMovedFrom \cup {Q[1].cookie}
    <3>1. CASE HandleIgnored(Q[1]) \/ HandleUntracked(Q[1])
      BY <3>1 DEF HandleIgnored, HandleUntracked, NoMove
    <3>2. CASE HandleCreate(Q[1], PathOf(Q[1])) \/ HandleDelete(Q[1], PathOf(Q[1])) \/ HandleModify(Q[1], PathOf(Q[1]))
      BY <3>2 DEF HandleCreate, HandleDelete, HandleModify, NoMove
    <3>3. CASE HandleMovedFrom(Q[1], PathOf(Q[1]))
      BY <3>3 DEF HandleMovedFrom, Put
    <3>4. CASE HandleMovedTo(Q[1], PathOf(Q[1]))
      <4>1. pendingMovedFrom' = pendingMovedFrom \/ pendingMovedFrom' = Without(pendingMovedFrom, Q[1].cookie)
        BY <3>4 DEF HandleMovedTo, NoMove
      <4>2. DOMAIN Without(pendingMovedFrom, Q[1].cookie) \subseteq DOMAIN pendingMovedFrom
        BY DEF Without, Restrict
      <4> QED
        BY <4>1, <4>2
    <3> QED
      BY <1>2, <3>1, <3>2, <3>3, <3>4, HandleIs
  <2>3. ASSUME NEW j \in 1..Len(Q'), Q'[j].kind = "movedFrom"
        PROVE  Q'[j].cookie \notin DOMAIN pendingMovedFrom'
    <3>1. Q'[j] = Q[j + 1] /\ j + 1 \in 1..Len(Q) /\ j + 1 # 1
      BY <2>1
    <3>2. Q[j + 1].cookie \notin DOMAIN pendingMovedFrom
      BY <2>3, <3>1 DEF PairInv
    <3>3. Q[1].kind = "movedFrom" => Q[j + 1].cookie # Q[1].cookie
      BY <2>1, <2>3, <3>1 DEF PairInv, Moves
    <3> QED
      BY <2>2, <3>1, <3>2, <3>3
  <2>4. ASSUME NEW j \in 1..Len(Q'), NEW k \in 1..Len(Q'), Q'[j].kind \in Moves, Q'[k].kind \in Moves,
               Q'[j].cookie = Q'[k].cookie
        PROVE  /\ Q'[j].kind = Q'[k].kind => j = k
               /\ Q'[j].kind = "movedFrom" /\ Q'[k].kind = "movedTo" => k = j + 1
    <3>1. /\ Q'[j] = Q[j + 1] /\ j + 1 \in 1..Len(Q) /\ j \in Int
          /\ Q'[k] = Q[k + 1] /\ k + 1 \in 1..Len(Q) /\ k \in Int
      BY <2>1
    <3>2. /\ Q[j + 1].kind = Q[k + 1].kind => j + 1 = k + 1
          /\ Q[j + 1].kind = "movedFrom" /\ Q[k + 1].kind = "movedTo" => k + 1 = (j + 1) + 1
      BY <2>4, <3>1 DEF PairInv
    <3>3. (j + 1 = k + 1 => j = k) /\ (k + 1 = (j + 1) + 1 => k = j + 1)
      BY <3>1
    <3> QED
      BY <3>1, <3>2, <3>3
  <2> QED
    BY <2>3, <2>4 DEF PairInv
<1>3. CASE QueueMovedTo \/ EndBatch \/ WatchNext \/ ReadSubtree \/ EmitNext \/ UNCHANGED vars
  <2>1. Q' = Q
    BY <1>0, <1>3, SameQueue
  <2>2. pendingMovedFrom' = pendingMovedFrom
    BY <1>3 DEF QueueMovedTo, EndBatch, WatchNext, ReadSubtree, EmitNext, vars, notWalk
  <2> QED
    BY <2>1, <2>2 DEF PairInv
<1> QED
  BY <1>1, <1>2, <1>3 DEF InotifyNext, Others

-----------------------------------------------------------------------------
(* inotify: every file is listed, or will be.                              *)

\* There is a file under the name in the directory of the watch.
Present(wd, n) == \E i \in DOMAIN watches : watches[i] = wd /\ Append(dirs[i], n) \in files

Arrives(k, wd, n) == Q[k].kind \in Arrivals /\ Q[k].wd = wd /\ Q[k].name = n

\* If what was removed is there again, its arrival follows.
RemInv ==
    \A k \in 1..Len(Q) : Q[k].kind \in Removals /\ Present(Q[k].wd, Q[k].name) =>
        \E m \in 1..Len(Q) : m > k /\ Arrives(m, Q[k].wd, Q[k].name)

LEMMA PresentRename ==
    ASSUME Typed, NEW p \in Paths, NEW q \in Paths, Rename(p, q), NEW i \in DOMAIN dirs, NEW n \in STRING,
           Append(dirs'[i], n) \in files'
    PROVE  Append(dirs[i], n) \in files \/ (dirs[i] = Front(q) /\ n = Last(q))
<1>0. DiskInv
  BY DEF Typed
<1>1. /\ p \in Path /\ q \in Path
      /\ \A x \in files \cup DirsNow : IsPrefix(q, x) => x = q /\ q \in files
      /\ p \in files => \A x \in files \cup DirsNow : IsPrefix(p, x) => x = p
      /\ p \notin files => q \notin files
  BY <1>0, RenameIs
<1>2. \A f \in files : f \in Path /\ f \notin DirsNow
  BY <1>0, DiskType
<1>3. PICK d \in Path : d = dirs[i] /\ d \in DirsNow
  BY <1>0, DiskType
<1>4. PICK e \in Path : e = Renamed(p, q, d) /\ e = dirs'[i]
  BY <1>1, <1>3, RenamedType, RenamedDirs
<1>5. PICK r \in files : Append(e, n) = Renamed(p, q, r)
  <2>1. files' = {Renamed(p, q, r) : r \in files}
    BY RenamedDirs
  <2>2. Append(e, n) \in files'
    BY <1>4
  <2> QED
    BY <2>1, <2>2
<1>6. r \in Path /\ Append(d, n) \in Path
  BY <1>2, AppendIs
<1>7. CASE IsPrefix(p, d)
  <2>1. p \notin files
    BY <1>1, <1>2, <1>3, <1>7
  <2>2. IsPrefix(q, e) /\ Append(e, n) = Renamed(p, q, Append(d, n))
    <3>1. IsPrefix(q, Renamed(p, q, d))
      BY <1>1, <1>7, RenamedType
    <3>2. Renamed(p, q, Append(d, n)) = Append(Renamed(p, q, d), n)
      BY <1>1, <1>7, RenamedAppend
    <3> QED
      BY <1>4, <3>1, <3>2
  <2>3. IsPrefix(q, Append(e, n)) /\ IsPrefix(p, Append(d, n))
    BY <1>1, <1>7, <2>2, PrefixAppend
  <2>4. IsPrefix(p, r)
    <3>1. ~IsPrefix(p, r) => Append(e, n) = r
      BY <1>1, <1>5, <1>6, RenamedType
    <3> QED
      BY <1>1, <2>1, <2>3, <3>1
  <2>5. Renamed(q, p, Renamed(p, q, r)) = r /\ Renamed(q, p, Renamed(p, q, Append(d, n))) = Append(d, n)
    BY <1>1, <1>6, <2>3, <2>4, RenamedBack
  <2> QED
    BY <1>3, <1>5, <2>2, <2>5
<1>8. CASE ~IsPrefix(p, d)
  <2>1. e = d
    BY <1>1, <1>4, <1>8, RenamedType
  <2>2. CASE ~IsPrefix(p, r)
    <3>1. Renamed(p, q, r) = r
      BY <1>1, <1>6, <2>2, RenamedType
    <3> QED
      BY <1>3, <1>5, <2>1, <3>1
  <2>3. CASE IsPrefix(p, r)
    <3>1. IsPrefix(q, Append(d, n))
      <4>1. IsPrefix(q, Renamed(p, q, r))
        BY <1>1, <1>6, <2>3, RenamedType
      <4> QED
        BY <1>5, <2>1, <4>1
    <3>2. ~IsPrefix(q, d)
      BY <1>1, <1>2, <1>3
    <3>3. q = Append(d, n)
      BY <1>1, <3>1, <3>2, PrefixAppend
    <3> QED
      BY <1>3, <3>3, AppendIs
  <2> QED
    BY <2>2, <2>3
<1> QED
  BY <1>7, <1>8

LEMMA EvIs ==
    \A kind, i, p, c : /\ Ev(kind, i, p, c).kind = kind /\ Ev(kind, i, p, c).wd = watches[i]
                       /\ Ev(kind, i, p, c).name = Last(p) /\ Ev(kind, i, p, c).cookie = c
                       /\ Ev(kind, i, p, c).isDir = (p \in DirPaths)
<1>1. \A kind, i, p, c : /\ Ev(kind, i, p, c).kind = kind /\ Ev(kind, i, p, c).wd = watches[i]
                         /\ Ev(kind, i, p, c).name = Last(p) /\ Ev(kind, i, p, c).cookie = c
  BY DEF Ev
<1>2. \A kind, i, p, c : Ev(kind, i, p, c).isDir = (p \in DirPaths)
  BY DEF Ev
<1> QED
  BY <1>1, <1>2

\* A file that is new has its arrival told.
LEMMA PresentNew ==
    ASSUME Typed, Others, NEW wd, NEW n \in STRING, Present(wd, n)'
    PROVE  Present(wd, n) \/ \E m \in 1..Len(Q') : m > Len(Q) /\ Arrives(m, wd, n)'
<1>0. DiskInv /\ QueueType /\ WatchType /\ backend = "inotify" /\ \A i \in DOMAIN dirs : dirs[i] \in Path
  BY DiskType DEF Typed
<1>1. PICK i \in DOMAIN watches' : watches'[i] = wd /\ Append(dirs'[i], n) \in files'
  BY DEF Present
<1>2. ASSUME NEW p \in FilePaths, Create(p)
      PROVE  Present(wd, n) \/ \E m \in 1..Len(Q') : m > Len(Q) /\ Arrives(m, wd, n)'
  <2>1. p \in Paths /\ p \in Path /\ p # Root
    BY PathsType DEF Paths
  <2>2. files' = files \cup {p} /\ UNCHANGED <<dirs, watches>>
    BY <1>2 DEF Create
  <2>3. CASE Append(dirs[i], n) = p
    <3>1. Front(p) = dirs[i] /\ Last(p) = n /\ i \in DOMAIN watches
      BY <1>0, <1>1, <2>2, <2>3, AppendIs DEF WatchType
    <3>2. Told("create", p, 0)
      BY <1>0, <1>2, <2>1, OneTold DEF Create, InotifyKinds
    <3>3. PICK m \in 1..Len(Q') : m > Len(Q) /\ Q'[m] = Ev("create", i, p, 0)
      BY <3>1, <3>2 DEF Told
    <3>4. Arrives(m, wd, n)'
      BY <1>1, <2>2, <3>1, <3>3, EvIs DEF Arrives, Arrivals
    <3> QED
      BY <3>3, <3>4
  <2>4. CASE Append(dirs[i], n) # p
    BY <1>1, <2>2, <2>4 DEF Present
  <2> QED
    BY <2>3, <2>4
<1>3. ASSUME NEW p \in FilePaths, Modify(p) \/ Delete(p) PROVE Present(wd, n)
  <2>1. files' \subseteq files /\ UNCHANGED <<dirs, watches>>
    BY <1>3 DEF Modify, Delete
  <2> QED
    BY <1>1, <2>1 DEF Present
<1>4. ASSUME NEW p \in DirPaths, MakeDir(p) PROVE Present(wd, n)
  <2>1. UNCHANGED <<files, watches>> /\ \A j \in DOMAIN dirs : dirs'[j] = dirs[j]
    BY <1>0, <1>4, MakeDirIs
  <2> QED
    BY <1>0, <1>1, <2>1 DEF Present, WatchType
<1>5. ASSUME NEW p \in DirPaths, RemoveDir(p) PROVE Present(wd, n)
  <2>1. /\ files' = files /\ DOMAIN watches' = DOMAIN watches \ {Inode(p)}
        /\ DOMAIN dirs' = DOMAIN dirs \ {Inode(p)}
        /\ \A j \in DOMAIN dirs' : dirs'[j] = dirs[j]
        /\ \A j \in DOMAIN watches' : watches'[j] = watches[j]
    BY <1>0, <1>5, RemoveDirIs
  <2> QED
    BY <1>0, <1>1, <2>1 DEF Present, WatchType
<1>6. ASSUME NEW p \in Paths, NEW q \in Paths, Rename(p, q)
      PROVE  Present(wd, n) \/ \E m \in 1..Len(Q') : m > Len(Q) /\ Arrives(m, wd, n)'
  <2>1. watches' = watches /\ i \in DOMAIN watches /\ i \in DOMAIN dirs
    BY <1>0, <1>1, <1>6 DEF Rename, WatchType
  <2>2. Append(dirs[i], n) \in files \/ (dirs[i] = Front(q) /\ n = Last(q))
    BY <1>1, <1>6, <2>1, PresentRename
  <2>3. CASE dirs[i] = Front(q) /\ n = Last(q)
    <3>1. RenameTold(p, q)
      BY <1>0, <1>6, RenameTells
    <3>2. PICK m \in 1..Len(Q') : m > Len(Q) /\ Q'[m] = Ev("movedTo", i, q, changes + 1)
      BY <2>1, <2>3, <3>1 DEF RenameTold
    <3>3. Arrives(m, wd, n)'
      BY <1>1, <2>1, <2>3, <3>2, EvIs DEF Arrives, Arrivals
    <3> QED
      BY <3>2, <3>3
  <2> QED
    BY <1>1, <2>1, <2>2, <2>3 DEF Present
<1> QED
  BY <1>2, <1>3, <1>4, <1>5, <1>6 DEF Others

\* What a change tells is removed, is.
LEMMA RemovedGone ==
    ASSUME Typed, Others, NEW k \in 1..Len(Q'), k > Len(Q), Q'[k].kind \in Removals,
           NEW wd, wd = Q'[k].wd, NEW n, n = Q'[k].name
    PROVE  ~Present(wd, n)'
<1>0. DiskInv /\ QueueType /\ WatchType /\ backend = "inotify" /\ \A i \in DOMAIN dirs : dirs[i] \in Path
  BY DiskType DEF Typed
<1>1. ASSUME NEW p \in FilePaths, Create(p) \/ Modify(p) PROVE FALSE
  <2>1. p \in Paths
    BY DEF Paths
  <2>2. Told("create", p, 0) \/ Told("modify", p, 0)
    BY <1>0, <1>1, <2>1, OneTold DEF Create, Modify, InotifyKinds
  <2> QED
    BY <2>2, EvIs DEF Told, Removals
<1>2. ASSUME NEW p \in DirPaths, MakeDir(p) PROVE FALSE
  <2>1. p \in Paths
    BY DEF Paths
  <2>2. Told("create", p, 0)
    BY <1>0, <1>2, <2>1, OneTold DEF MakeDir, InotifyKinds
  <2> QED
    BY <2>2, EvIs DEF Told, Removals
<1>3. ASSUME NEW p \in FilePaths, Delete(p) PROVE ~Present(wd, n)'
  <2>1. p \in Paths /\ p \in Path /\ p # Root
    BY PathsType DEF Paths
  <2>2. Told("delete", p, 0) /\ files' = files \ {p} /\ UNCHANGED <<dirs, watches>>
    BY <1>0, <1>3, <2>1, OneTold DEF Delete, InotifyKinds
  <2>3. PICK i \in DOMAIN watches : dirs[i] = Front(p) /\ Q'[k] = Ev("delete", i, p, 0)
    BY <2>2 DEF Told
  <2>4. wd = watches[i] /\ n = Last(p) /\ Append(dirs[i], n) = p
    BY <2>1, <2>3, EvIs, EntryIs
  <2>5. \A j \in DOMAIN watches : watches[j] = wd => j = i
    BY <1>0, <2>4 DEF WatchType
  <2> QED
    BY <2>2, <2>4, <2>5 DEF Present
<1>4. ASSUME NEW p \in DirPaths, RemoveDir(p) PROVE ~Present(wd, n)'
  <2>1. p \in Paths /\ p \in Path /\ p # Root /\ p \notin files
    BY PathsType, PathsAssumption, <1>0 DEF Paths, DiskInv
  <2>2. PICK i \in DOMAIN watches : dirs[i] = Front(p) /\ Q'[k] = Ev("delete", i, p, 0)
    BY <1>0, <1>4, RemoveDirTold DEF Removals
  <2>3. wd = watches[i] /\ n = Last(p) /\ Append(dirs[i], n) = p
    BY <2>1, <2>2, EvIs, EntryIs
  <2>4. /\ files' = files /\ DOMAIN watches' = DOMAIN watches \ {Inode(p)}
        /\ DOMAIN dirs' = DOMAIN dirs \ {Inode(p)}
        /\ \A j \in DOMAIN dirs' : dirs'[j] = dirs[j]
        /\ \A j \in DOMAIN watches' : watches'[j] = watches[j]
    BY <1>0, <1>4, RemoveDirIs
  <2>5. ASSUME NEW j \in DOMAIN watches', watches'[j] = wd PROVE Append(dirs'[j], n) \notin files'
    <3>1. j = i /\ j \in DOMAIN dirs'
      BY <1>0, <2>3, <2>4, <2>5 DEF WatchType
    <3> QED
      BY <2>1, <2>3, <2>4, <3>1
  <2> QED
    BY <2>5 DEF Present
<1>5. ASSUME NEW p \in Paths, NEW q \in Paths, Rename(p, q) PROVE ~Present(wd, n)'
  <2>1. /\ p \in Path /\ p # Root /\ q \in Path /\ q # Root /\ p # q /\ ~IsPrefix(p, Front(p))
        /\ \A x \in files \cup DirsNow : IsPrefix(q, x) => x = q /\ q \in files
        /\ p \in files => \A x \in files \cup DirsNow : IsPrefix(p, x) => x = p
        /\ p \notin files => p \in DirsNow /\ q \notin files
    BY <1>0, <1>5, RenameIs
  <2>2. RenameTold(p, q) /\ watches' = watches
    BY <1>0, <1>5, RenameTells DEF Rename
  <2>3. PICK i \in DOMAIN watches : dirs[i] = Front(p) /\ Q'[k] = Ev("movedFrom", i, p, changes + 1)
    BY <2>2, EvIs DEF RenameTold, Removals
  <2>4. wd = watches[i] /\ n = Last(p) /\ Append(Front(p), n) = p
    BY <2>1, <2>3, EvIs, EntryIs
  <2>5. dirs'[i] = Front(p)
    <3>1. i \in DOMAIN dirs /\ dirs[i] \in Path
      BY <1>0 DEF WatchType
    <3>2. dirs'[i] = Renamed(p, q, dirs[i]) /\ ~IsPrefix(p, dirs[i])
      BY <1>5, <2>1, <2>3, <3>1, RenamedDirs
    <3> QED
      BY <2>1, <2>3, <3>1, <3>2, RenamedType
  <2>6. p \notin files'
    <3> SUFFICES ASSUME p \in files' PROVE FALSE
      OBVIOUS
    <3>1. PICK r \in files : p = Renamed(p, q, r)
      BY <1>5, RenamedDirs
    <3>2. r \in Path
      BY <1>0, DiskType
    <3>3. IsPrefix(p, r)
      BY <2>1, <3>1, <3>2, RenamedType, PrefixReflexive
    <3>4. IsPrefix(q, p)
      BY <2>1, <3>1, <3>2, <3>3, RenamedType
    <3>5. CASE p \in files
      <4>1. r = p
        BY <2>1, <3>3, <3>5
      <4> QED
        BY <2>1, <3>1, <4>1, RenamedTop
    <3>6. CASE p \notin files
      BY <2>1, <3>4, <3>6
    <3> QED
      BY <3>5, <3>6
  <2>7. \A j \in DOMAIN watches : watches[j] = wd => j = i
    BY <1>0, <2>4 DEF WatchType
  <2> QED
    BY <2>2, <2>4, <2>5, <2>6, <2>7 DEF Present
<1> QED
  BY <1>1, <1>2, <1>3, <1>4, <1>5 DEF Others

\* Watching one more directory is none of the business of the events there are.
LEMMA WatchNextIs ==
    ASSUME Typed, WatchNext
    PROVE  /\ Q' = Q /\ UNCHANGED <<files, dirs>>
           /\ \A i \in DOMAIN watches : i \in DOMAIN watches' /\ watches'[i] = watches[i]
           /\ \A i \in DOMAIN watches' : i \in DOMAIN watches \/ \A k \in 1..Len(Q) : Q[k].wd # watches'[i]
<1>0. DiskInv /\ QueueType /\ WatchType /\ backend = "inotify"
  BY DEF Typed
<1>1. Q' = Q /\ UNCHANGED <<files, dirs>>
  BY <1>0, SameQueue
<1>2. CASE Head(toWatch) \in DirsNow
  <2>1. PICK path \in DirsNow : AddWatch(path)
    BY <1>2 DEF WatchNext
  <2>2. PICK c \in DOMAIN dirs :
            /\ DOMAIN watches' = DOMAIN watches \cup {c}
            /\ \A j \in DOMAIN watches : watches'[j] = watches[j]
            /\ c \notin DOMAIN watches => \A k \in 1..Len(Q) : Q[k].wd # watches'[c]
    BY <1>0, <2>1, AddWatchIs
  <2> QED
    BY <1>1, <2>2
<1>3. CASE Head(toWatch) \notin DirsNow
  BY <1>1, <1>3 DEF WatchNext
<1> QED
  BY <1>2, <1>3

LEMMA PresentSame ==
    ASSUME Typed, QueueMovedTo \/ EndBatch \/ WatchNext \/ ReadSubtree \/ EmitNext \/ UNCHANGED vars,
           NEW k \in 1..Len(Q), NEW wd, wd = Q[k].wd, NEW n, Present(wd, n)'
    PROVE  Present(wd, n)
<1>1. CASE WatchNext
  <2>1. /\ UNCHANGED <<files, dirs>>
        /\ \A i \in DOMAIN watches : watches'[i] = watches[i]
        /\ \A i \in DOMAIN watches' : i \in DOMAIN watches \/ \A m \in 1..Len(Q) : Q[m].wd # watches'[i]
    BY <1>1, WatchNextIs
  <2> QED
    BY <2>1 DEF Present
<1>2. CASE QueueMovedTo \/ EndBatch \/ ReadSubtree \/ EmitNext \/ UNCHANGED vars
  <2>1. UNCHANGED <<files, dirs, watches>>
    BY <1>2 DEF QueueMovedTo, EndBatch, ReadSubtree, EmitNext, vars, notWalk, disk, kernel
  <2> QED
    BY <2>1 DEF Present
<1> QED
  BY <1>1, <1>2

LEMMA RemStep == Typed /\ RemInv /\ InotifyNext => RemInv'
<1> SUFFICES ASSUME Typed, RemInv, InotifyNext PROVE RemInv'
  OBVIOUS
<1>0. DiskInv /\ QueueType /\ backend = "inotify" /\ Len(Q) \in Nat
  BY QType DEF Typed
<1>1. CASE Others
  <2>1. \A k \in 1..Len(Q) : k \in 1..Len(Q') /\ Q'[k] = Q[k]
    BY <1>0, <1>1, OthersKeep DEF Later
  <2>2. ASSUME NEW k \in 1..Len(Q'), Q'[k].kind \in Removals, NEW wd, wd = Q'[k].wd, NEW n, n = Q'[k].name,
               Present(wd, n)'
        PROVE  \E m \in 1..Len(Q') : m > k /\ Arrives(m, wd, n)'
    <3>1. k \in 1..Len(Q)
      <4>1. ~(k > Len(Q))
        BY <1>1, <2>2, RemovedGone
      <4> QED
        BY <1>0, <4>1
    <3>2. Q[k].kind \in Removals /\ wd = Q[k].wd /\ n = Q[k].name /\ n \in STRING
      BY <1>0, <2>1, <2>2, <3>1 DEF QueueType, Removals
    <3>3. CASE Present(wd, n)
      <4>1. PICK m \in 1..Len(Q) : m > k /\ Arrives(m, wd, n)
        BY <3>1, <3>2, <3>3 DEF RemInv
      <4>2. m \in 1..Len(Q') /\ Arrives(m, wd, n)'
        BY <2>1, <4>1 DEF Arrives
      <4> QED
        BY <4>1, <4>2
    <3>4. CASE \E m \in 1..Len(Q') : m > Len(Q) /\ Arrives(m, wd, n)'
      <4>1. PICK m \in 1..Len(Q') : m > Len(Q) /\ Arrives(m, wd, n)'
        BY <3>4
      <4>2. m > k
        BY <1>0, <3>1, <4>1
      <4> QED
        BY <4>1, <4>2
    <3> QED
      BY <1>1, <2>2, <3>2, <3>3, <3>4, PresentNew
  <2>3. ASSUME NEW k \in 1..Len(Q'), Q'[k].kind \in Removals, Present(Q[k].wd, Q[k].name)'
        PROVE  \E m \in 1..Len(Q') : m > k /\ Arrives(m, Q[k].wd, Q[k].name)'
    <3>1. PICK wd : wd = Q'[k].wd
      OBVIOUS
    <3>2. PICK n : n = Q'[k].name
      OBVIOUS
    <3>3. Present(wd, n)'
      BY <2>3, <3>1, <3>2 DEF Present
    <3>4. \E m \in 1..Len(Q') : m > k /\ Arrives(m, wd, n)'
      BY <2>2, <2>3, <3>1, <3>2, <3>3
    <3> QED
      BY <3>1, <3>2, <3>4 DEF Arrives
  <2> QED
    BY <2>3 DEF RemInv
<1>2. CASE HandleEvent
  <2>1. /\ \A k \in 1..Len(Q') : Q'[k] = Q[k + 1] /\ k + 1 \in 1..Len(Q) /\ k \in Int
        /\ \A k \in 1..Len(Q) : k > 1 => k - 1 \in 1..Len(Q') /\ Q'[k - 1] = Q[k]
    BY <1>0, <1>2, HandleShift
  <2>2. UNCHANGED <<files, dirs, watches>>
    BY <1>2, HandleIs DEF disk
  <2>3. ASSUME NEW k \in 1..Len(Q'), Q'[k].kind \in Removals, Present(Q[k].wd, Q[k].name)'
        PROVE  \E m \in 1..Len(Q') : m > k /\ Arrives(m, Q[k].wd, Q[k].name)'
    <3>1. Q'[k] = Q[k + 1] /\ k + 1 \in 1..Len(Q) /\ Present(Q[k + 1].wd, Q[k + 1].name)
      BY <2>1, <2>2, <2>3 DEF Present
    <3>2. PICK m \in 1..Len(Q) : m > k + 1 /\ Arrives(m, Q[k + 1].wd, Q[k + 1].name)
      BY <2>3, <3>1 DEF RemInv
    <3>3. m > 1 /\ m - 1 > k
      BY <3>2
    <3>4. m - 1 \in 1..Len(Q') /\ Q'[m - 1] = Q[m]
      BY <2>1, <3>3
    <3>5. Arrives(m - 1, Q[k].wd, Q[k].name)'
      BY <3>1, <3>2, <3>4 DEF Arrives
    <3> QED
      BY <3>3, <3>4, <3>5
  <2> QED
    BY <2>3 DEF RemInv
<1>3. CASE QueueMovedTo \/ EndBatch \/ WatchNext \/ ReadSubtree \/ EmitNext \/ UNCHANGED vars
  <2>1. Q' = Q
    BY <1>0, <1>3, SameQueue
  <2>2. ASSUME NEW k \in 1..Len(Q), Q[k].kind \in Removals, Present(Q[k].wd, Q[k].name)'
        PROVE  Present(Q[k].wd, Q[k].name)
    <3>1. PICK wd : wd = Q[k].wd /\ wd = Q'[k].wd
      BY <2>1
    <3>2. PICK n : n = Q[k].name /\ n = Q'[k].name
      BY <2>1
    <3>3. Present(wd, n)'
      BY <2>2, <3>1, <3>2 DEF Present
    <3>4. Present(wd, n)
      BY <1>3, <3>1, <3>3, PresentSame
    <3> QED
      BY <3>1, <3>2, <3>4
  <2> QED
    BY <2>1, <2>2 DEF RemInv, Arrives
<1> QED
  BY <1>1, <1>2, <1>3 DEF InotifyNext, Others

\* A movedFrom that waits for a movedTo is one event ahead of it, so the table
\* still gives its path; and if the file is there again, its arrival follows.
PendInv ==
    \A c \in DOMAIN pendingMovedFrom, k \in 1..Len(Q) : Q[k].kind = "movedTo" /\ Q[k].cookie = c =>
        /\ k = 1 /\ Idle
        /\ \E wd \in DOMAIN wdToPath, n \in STRING :
               /\ pendingMovedFrom[c] = Append(wdToPath[wd], n)
               /\ Present(wd, n) => \E m \in 1..Len(Q) : Arrives(m, wd, n)

LEMMA PendOthers ==
    ASSUME Typed, PendInv, Others
    PROVE  PendInv'
<1>0. Len(Q) \in Nat /\ changes \in Nat
  BY QType DEF Typed, DiskInv
<1>1. /\ UNCHANGED <<wdToPath, pendingMovedFrom, toWatch, walkRoot, toEmit>>
      /\ \A k \in 1..Len(Q) : k \in 1..Len(Q') /\ Q'[k] = Q[k]
  BY <1>0, OthersKeep DEF Later
<1>2. ASSUME NEW c \in DOMAIN pendingMovedFrom, NEW k \in 1..Len(Q'), Q'[k].kind = "movedTo", Q'[k].cookie = c
      PROVE  /\ k = 1 /\ Idle'
             /\ \E wd \in DOMAIN wdToPath, n \in STRING :
                    /\ pendingMovedFrom[c] = Append(wdToPath[wd], n)
                    /\ Present(wd, n)' => \E m \in 1..Len(Q') : Arrives(m, wd, n)'
  <2>1. c \in Nat /\ c <= changes
    BY <1>0 DEF Typed, PendingType
  <2>2. k \in 1..Len(Q)
    <3>1. k > Len(Q) => Q'[k].cookie = changes + 1
      BY <1>2, NewMoves DEF Moves
    <3> QED
      BY <1>0, <1>2, <2>1, <3>1
  <2>3. Q[k].kind = "movedTo" /\ Q[k].cookie = c
    BY <1>1, <1>2, <2>2
  <2>4. k = 1 /\ Idle
    BY <2>2, <2>3 DEF PendInv
  <2>5. PICK wd \in DOMAIN wdToPath, n \in STRING :
            /\ pendingMovedFrom[c] = Append(wdToPath[wd], n)
            /\ Present(wd, n) => \E m \in 1..Len(Q) : Arrives(m, wd, n)
    BY <2>2, <2>3 DEF PendInv
  <2>6. ASSUME Present(wd, n)' PROVE \E m \in 1..Len(Q') : Arrives(m, wd, n)'
    <3>1. CASE Present(wd, n)
      BY <1>1, <2>5, <3>1 DEF Arrives
    <3>2. CASE \E m \in 1..Len(Q') : m > Len(Q) /\ Arrives(m, wd, n)'
      BY <3>2
    <3> QED
      BY <2>6, <3>1, <3>2, PresentNew
  <2>7. Idle'
    BY <1>1, <2>4 DEF Idle
  <2> QED
    BY <2>4, <2>5, <2>6, <2>7
<1> QED
  BY <1>1, <1>2 DEF PendInv

LEMMA PendHandle ==
    ASSUME Typed, RemInv, PairInv, PendInv, HandleEvent
    PROVE  PendInv'
<1>0. QueueType /\ WatchType
  BY DEF Typed
<1>1. /\ Len(Q) \in Nat \ {0} /\ 1 \in 1..Len(Q)
      /\ \A k \in 1..Len(Q') : Q'[k] = Q[k + 1] /\ k + 1 \in 1..Len(Q) /\ k \in Int /\ k + 1 > 1
      /\ \A k \in 1..Len(Q) : k > 1 => k - 1 \in 1..Len(Q') /\ Q'[k - 1] = Q[k]
  BY <1>0, HandleShift
<1>2. ASSUME NEW c \in DOMAIN pendingMovedFrom, NEW k \in 1..Len(Q'), Q'[k].kind = "movedTo", Q'[k].cookie = c
      PROVE  FALSE
  <2>1. k + 1 \in 1..Len(Q) /\ Q[k + 1].kind = "movedTo" /\ Q[k + 1].cookie = c /\ k + 1 > 1
    BY <1>1, <1>2
  <2>2. k + 1 = 1
    BY <2>1 DEF PendInv
  <2> QED
    BY <2>1, <2>2
<1>3. CASE DOMAIN pendingMovedFrom' \subseteq DOMAIN pendingMovedFrom
  BY <1>2, <1>3 DEF PendInv
<1>4. CASE HandleMovedFrom(Q[1], PathOf(Q[1])) /\ Q[1].wd \in DOMAIN wdToPath
  <2>1. /\ Q[1].kind = "movedFrom" /\ pendingMovedFrom' = Put(pendingMovedFrom, Q[1].cookie, PathOf(Q[1]))
        /\ wdToPath' = wdToPath /\ UNCHANGED walk
    BY <1>4 DEF HandleMovedFrom, table
  <2>2. Idle'
    BY <2>1, HandleIs DEF Idle, walk
  <2>3. UNCHANGED <<files, dirs, watches>>
    BY HandleIs DEF disk
  <2>4. Q[1].name \in STRING /\ PathOf(Q[1]) = Append(wdToPath[Q[1].wd], Q[1].name)
    BY <1>0, <1>1, <2>1 DEF PathOf, QueueType
  <2>5. ASSUME NEW c \in DOMAIN pendingMovedFrom', NEW k \in 1..Len(Q'), Q'[k].kind = "movedTo", Q'[k].cookie = c
        PROVE  k = 1 /\ c = Q[1].cookie
    <3>1. c = Q[1].cookie
      BY <1>2, <2>1, <2>5 DEF Put
    <3>2. k + 1 \in 1..Len(Q) /\ Q[k + 1].kind = "movedTo" /\ Q[k + 1].cookie = c /\ k \in Int
      BY <1>1, <2>5
    <3>3. k + 1 = 1 + 1
      BY <1>1, <2>1, <3>1, <3>2 DEF PairInv, Moves
    <3> QED
      BY <3>1, <3>2, <3>3
  <2>6. ASSUME Present(Q[1].wd, Q[1].name) PROVE \E m \in 1..Len(Q') : Q'[m].kind \in Arrivals /\ Q'[m].wd = Q[1].wd /\ Q'[m].name = Q[1].name
    <3>1. PICK m \in 1..Len(Q) : m > 1 /\ Arrives(m, Q[1].wd, Q[1].name)
      BY <1>1, <2>1, <2>6 DEF RemInv, Removals
    <3>2. m - 1 \in 1..Len(Q') /\ Q'[m - 1] = Q[m]
      BY <1>1, <3>1
    <3> QED
      BY <3>1, <3>2 DEF Arrives
  <2>7. PICK wd \in DOMAIN wdToPath : wd = Q[1].wd
    BY <1>4
  <2>8. PICK n \in STRING : n = Q[1].name
    BY <2>4
  <2>9. Present(wd, n)' => \E m \in 1..Len(Q') : Arrives(m, wd, n)'
    <3>1. Present(wd, n)' => Present(wd, n)
      BY <2>3 DEF Present
    <3>2. Present(wd, n) => Present(Q[1].wd, Q[1].name)
      BY <2>7, <2>8
    <3> QED
      BY <2>6, <2>7, <2>8, <3>1, <3>2 DEF Arrives
  <2>10. \A c \in DOMAIN pendingMovedFrom' : c = Q[1].cookie => pendingMovedFrom'[c] = Append(wdToPath'[wd], n)
    BY <2>1, <2>4, <2>7, <2>8 DEF Put
  <2>11. wd \in DOMAIN wdToPath'
    BY <2>1
  <2>12. ASSUME NEW c \in DOMAIN pendingMovedFrom', NEW k \in 1..Len(Q'), Q'[k].kind = "movedTo", Q'[k].cookie = c
         PROVE  /\ k = 1 /\ Idle'
                /\ \E x \in DOMAIN wdToPath', y \in STRING :
                       /\ pendingMovedFrom'[c] = Append(wdToPath'[x], y)
                       /\ Present(x, y)' => \E m \in 1..Len(Q') : Arrives(m, x, y)'
    <3>1. k = 1 /\ c = Q[1].cookie
      BY <2>5, <2>12
    <3>2. pendingMovedFrom'[c] = Append(wdToPath'[wd], n)
      BY <2>10, <3>1
    <3> QED
      BY <2>2, <2>9, <2>11, <3>1, <3>2
  <2> QED
    BY <2>12 DEF PendInv
<1>5. \/ DOMAIN pendingMovedFrom' \subseteq DOMAIN pendingMovedFrom
      \/ HandleMovedFrom(Q[1], PathOf(Q[1])) /\ Q[1].wd \in DOMAIN wdToPath
  <2>1. CASE HandleIgnored(Q[1]) \/ HandleUntracked(Q[1])
    BY <2>1 DEF HandleIgnored, HandleUntracked, NoMove
  <2>2. CASE HandleCreate(Q[1], PathOf(Q[1])) \/ HandleDelete(Q[1], PathOf(Q[1])) \/ HandleModify(Q[1], PathOf(Q[1]))
    BY <2>2 DEF HandleCreate, HandleDelete, HandleModify, NoMove
  <2>3. CASE HandleMovedTo(Q[1], PathOf(Q[1]))
    <3>1. pendingMovedFrom' = pendingMovedFrom \/ pendingMovedFrom' = Without(pendingMovedFrom, Q[1].cookie)
      BY <2>3 DEF HandleMovedTo, NoMove
    <3>2. DOMAIN Without(pendingMovedFrom, Q[1].cookie) \subseteq DOMAIN pendingMovedFrom
      BY DEF Without, Restrict
    <3> QED
      BY <3>1, <3>2
  <2> QED
    BY <2>1, <2>2, <2>3, HandleIs
<1> QED
  BY <1>3, <1>4, <1>5

LEMMA PendStep == Typed /\ RemInv /\ PairInv /\ PendInv /\ InotifyNext => PendInv'
<1> SUFFICES ASSUME Typed, RemInv, PairInv, PendInv, InotifyNext PROVE PendInv'
  OBVIOUS
<1>1. CASE Others
  BY <1>1, PendOthers
<1>2. CASE HandleEvent
  BY <1>2, PendHandle
<1>3. CASE WatchNext \/ ReadSubtree \/ EmitNext
  <2>1. Q' = Q
    BY <1>3, SameQueue DEF Typed
  <2>2. ~Idle /\ pendingMovedFrom' = pendingMovedFrom
    BY <1>3 DEF WatchNext, ReadSubtree, EmitNext, Idle, notWalk
  <2> QED
    BY <2>1, <2>2 DEF PendInv
<1>4. CASE QueueMovedTo \/ EndBatch \/ UNCHANGED vars
  <2>1. Q' = Q
    BY <1>4, SameQueue DEF Typed
  <2>2. UNCHANGED <<files, dirs, watches, wdToPath, pendingMovedFrom, toWatch, walkRoot, toEmit>>
    BY <1>4 DEF QueueMovedTo, EndBatch, vars, disk, kernel, table, walk
  <2> QED
    BY <2>1, <2>2 DEF PendInv, Idle, Present, Arrives
<1> QED
  BY <1>1, <1>2, <1>3, <1>4 DEF InotifyNext, Others

\* The walk under way will come by p.
WalkTo(p) ==
    \/ walkRoot # None /\ IsStrictPrefix(walkRoot, p)
    \/ \E e \in Range(toEmit) : IsPrefix(e, p)

\* An event tells that p, or a directory above it, has arrived.
Sent(p) ==
    \E j \in DOMAIN watches, k \in 1..Len(Q) :
        /\ Q[k].kind \in Arrivals /\ Q[k].wd = watches[j]
        /\ \/ Append(dirs[j], Q[k].name) = p
           \/ Q[k].isDir /\ IsPrefix(Append(dirs[j], Q[k].name), p)

FileInv == \A p \in files \ misreported : index[p] > 0 \/ WalkTo(p) \/ Sent(p)

LEMMA SentStays ==
    ASSUME Typed, Later, NEW p \in Path, Sent(p),
           \A j \in DOMAIN watches : IsStrictPrefix(dirs[j], p) =>
               j \in DOMAIN watches' /\ watches'[j] = watches[j] /\ dirs'[j] = dirs[j]
    PROVE  Sent(p)'
<1>1. PICK j \in DOMAIN watches, k \in 1..Len(Q) :
          /\ Q[k].kind \in Arrivals /\ Q[k].wd = watches[j]
          /\ \/ Append(dirs[j], Q[k].name) = p
             \/ Q[k].isDir /\ IsPrefix(Append(dirs[j], Q[k].name), p)
  BY DEF Sent
<1>2. dirs[j] \in Path
  BY DiskType DEF Typed, WatchType
<1>3. Q[k].name \in STRING
  BY <1>1 DEF Typed, QueueType, Arrivals
<1>4. Append(dirs[j], Q[k].name) \in Path /\ IsPrefix(dirs[j], Append(dirs[j], Q[k].name))
      /\ ~IsPrefix(Append(dirs[j], Q[k].name), dirs[j])
  BY <1>2, <1>3, AppendIs, AppendNotPrefix
<1>5. IsPrefix(Append(dirs[j], Q[k].name), p)
  BY <1>1, PrefixReflexive
<1>6. IsPrefix(dirs[j], p)
  BY <1>2, <1>4, <1>5, PrefixTransitive
<1>7. IsStrictPrefix(dirs[j], p)
  BY <1>4, <1>5, <1>6 DEF IsStrictPrefix
<1>8. k \in 1..Len(Q') /\ Q'[k] = Q[k]
  BY QType DEF Later, Typed
<1>9. j \in DOMAIN watches' /\ watches'[j] = watches[j] /\ dirs'[j] = dirs[j]
  BY <1>7
<1> QED
  BY <1>1, <1>8, <1>9 DEF Sent

\* What is below a directory that is not known will be come by.
LEMMA Reached ==
    ASSUME Typed, TableInv, NEW d \in DOMAIN dirs, ~Known(d), NEW p \in Path, IsStrictPrefix(dirs[d], p)
    PROVE  \/ WalkTo(p)
           \/ \E j \in DOMAIN watches, k \in 1..Len(Q) :
                  /\ Known(j) /\ Q[k].kind \in Arrivals /\ Q[k].wd = watches[j]
                  /\ Q[k].isDir /\ IsPrefix(Append(dirs[j], Q[k].name), dirs[d])
                  /\ IsPrefix(Append(dirs[j], Q[k].name), p)
<1>0. dirs[d] \in Path /\ IsPrefix(dirs[d], p) /\ dirs[d] # p
  BY DiskType DEF Typed, IsStrictPrefix
<1>1. CASE WalkAbove(dirs[d])
  <2>1. PICK a \in Range(toWatch) : IsPrefix(a, dirs[d])
    BY <1>1 DEF WalkAbove
  <2>2. a \in Path /\ toWatch # <<>> /\ IsPrefix(walkRoot, a) /\ walkRoot # None /\ walkRoot \in Path
    BY RangeIs DEF Typed, WalkInv, Range
  <2>3. IsPrefix(walkRoot, dirs[d]) /\ IsPrefix(walkRoot, p)
    BY <1>0, <2>1, <2>2, PrefixTransitive
  <2>4. walkRoot # p
    BY <1>0, <2>2, <2>3, PrefixAntisymmetric
  <2> QED
    BY <2>2, <2>3, <2>4 DEF WalkTo, IsStrictPrefix
<1>2. CASE Announced(dirs[d])
  <2>1. PICK j \in DOMAIN watches, k \in 1..Len(Q) :
            /\ Known(j) /\ Q[k].wd = watches[j] /\ Q[k].kind \in Arrivals /\ Q[k].isDir
            /\ IsPrefix(Append(dirs[j], Q[k].name), dirs[d])
    BY <1>2 DEF Announced
  <2>2. dirs[j] \in Path /\ Q[k].name \in STRING
    BY <2>1, DiskType DEF Typed, WatchType, QueueType, Arrivals
  <2>3. Append(dirs[j], Q[k].name) \in Path
    BY <2>2, AppendIs
  <2>4. IsPrefix(Append(dirs[j], Q[k].name), p)
    BY <1>0, <2>1, <2>3, PrefixTransitive
  <2> QED
    BY <2>1, <2>4
<1> QED
  BY <1>1, <1>2 DEF TableInv

LEMMA FileRename ==
    ASSUME Typed, TableInv, FileInv, NEW p \in Paths, NEW q \in Paths, Rename(p, q)
    PROVE  FileInv'
<1>0. DiskInv /\ QueueType /\ WatchType /\ backend = "inotify" /\ \A i \in DOMAIN dirs : dirs[i] \in Path
  BY DiskType DEF Typed
<1>1. Others
  BY DEF Others
<1>2. /\ Later /\ UNCHANGED <<toWatch, walkRoot, toEmit, index, misreported, watches>>
  BY <1>1, OthersKeep DEF Rename
<1>3. /\ p \in Path /\ q \in Path /\ q # Root /\ Front(q) \in DirsNow /\ ~IsPrefix(p, Front(q))
      /\ p \in files => \A x \in files \cup DirsNow : IsPrefix(p, x) => x = p
      /\ p \notin files => q \in DirPaths
  BY <1>0, RenameIs
<1>4. Front(q) \in Path /\ Last(q) \in STRING /\ q = Append(Front(q), Last(q)) /\ IsStrictPrefix(Front(q), q)
  <2>1. Front(q) \in Path /\ Last(q) \in STRING /\ q = Append(Front(q), Last(q))
    BY <1>3, EntryIs
  <2>2. IsPrefix(Front(q), q) /\ ~IsPrefix(q, Front(q))
    BY <2>1, AppendNotPrefix
  <2> QED
    BY <1>3, <2>1, <2>2, PrefixReflexive DEF IsStrictPrefix
\* What is not below p stays as it was.
<1>5. ASSUME NEW i \in DOMAIN dirs, ~IsPrefix(p, dirs[i]) PROVE dirs'[i] = dirs[i]
  <2>1. dirs'[i] = Renamed(p, q, dirs[i]) /\ dirs[i] \in Path
    BY <1>0, RenamedDirs
  <2> QED
    BY <1>3, <1>5, <2>1, RenamedType
<1>6. files' = {Renamed(p, q, r) : r \in files}
  BY RenamedDirs
<1>7. RenameTold(p, q)
  BY <1>0, RenameTells
<1>8. ASSUME NEW r \in files, NEW x \in Path, x = Renamed(p, q, r), x \notin misreported
      PROVE  (index[x] > 0 \/ WalkTo(x) \/ Sent(x))'
  <2>0. r \in Path
    BY <1>0, DiskType
  <2>1. CASE ~IsPrefix(p, r)
    <3>1. x = r
      BY <1>3, <1>8, <2>0, <2>1, RenamedType
    <3>2. index[x] > 0 \/ WalkTo(x) \/ Sent(x)
      BY <1>8, <3>1 DEF FileInv
    <3>3. ASSUME NEW j \in DOMAIN watches, IsStrictPrefix(dirs[j], x)
          PROVE  j \in DOMAIN watches' /\ watches'[j] = watches[j] /\ dirs'[j] = dirs[j]
      <4>1. j \in DOMAIN dirs /\ dirs[j] \in Path
        BY <1>0 DEF WatchType
      <4>2. ~IsPrefix(p, dirs[j])
        BY <1>3, <2>0, <2>1, <3>1, <3>3, <4>1, PrefixTransitive DEF IsStrictPrefix
      <4> QED
        BY <1>2, <1>5, <4>1, <4>2
    <3>4. Sent(x) => Sent(x)'
      BY <1>2, <3>3, SentStays
    <3>5. WalkTo(x) => WalkTo(x)'
      BY <1>2 DEF WalkTo
    <3> QED
      BY <1>2, <3>2, <3>4, <3>5
  <2>2. CASE IsPrefix(p, r)
    <3>1. IsPrefix(q, x)
      BY <1>3, <1>8, <2>0, <2>2, RenamedType
    <3>2. x = q \/ q \in DirPaths
      BY <1>3, <1>8, <2>2, RenamedTop
    <3>3. PICK d \in DOMAIN dirs : dirs[d] = Front(q)
      BY <1>3, DirsNowIs
    <3>4. dirs'[d] = Front(q)
      BY <1>3, <1>5, <3>3
    <3>5. IsStrictPrefix(Front(q), x)
      <4>1. IsPrefix(Front(q), x) /\ (x = Front(q) => q = x)
        BY <1>3, <1>4, <3>1, PrefixTransitive, PrefixAntisymmetric DEF IsStrictPrefix
      <4> QED
        BY <1>4, <4>1 DEF IsStrictPrefix
    <3>6. CASE d \in DOMAIN watches
      <4>1. PICK k \in 1..Len(Q') : Q'[k] = Ev("movedTo", d, q, changes + 1)
        BY <1>7, <3>3, <3>6 DEF RenameTold
      <4>2. /\ Q'[k].kind \in Arrivals /\ Q'[k].wd = watches[d] /\ Q'[k].name = Last(q)
            /\ q \in DirPaths => Q'[k].isDir
        <5>1. /\ Q'[k].kind \in Arrivals /\ Q'[k].wd = watches[d] /\ Q'[k].name = Last(q)
          BY <4>1, EvIs DEF Arrivals
        <5>2. Q'[k].isDir = (q \in DirPaths)
          BY <4>1, EvIs
        <5> QED
          BY <5>1, <5>2
      <4>3. Append(dirs'[d], Q'[k].name) = q
        BY <1>4, <3>4, <4>2
      <4> QED
        BY <1>2, <3>1, <3>2, <3>6, <4>2, <4>3 DEF Sent
    <3>7. CASE d \notin DOMAIN watches
      <4>1. ~Known(d) /\ IsStrictPrefix(dirs[d], x)
        BY <3>3, <3>5, <3>7 DEF Known
      <4>2. CASE WalkTo(x)
        BY <1>2, <4>2 DEF WalkTo
      <4>3. ASSUME NEW j \in DOMAIN watches, NEW k \in 1..Len(Q),
                   Q[k].kind \in Arrivals, Q[k].wd = watches[j], Q[k].isDir,
                   IsPrefix(Append(dirs[j], Q[k].name), dirs[d]), IsPrefix(Append(dirs[j], Q[k].name), x)
            PROVE  Sent(x)'
        <5>1. j \in DOMAIN dirs /\ dirs[j] \in Path /\ Q[k].name \in STRING
          BY <1>0, <4>3 DEF WatchType, QueueType, Arrivals
        <5>2. Append(dirs[j], Q[k].name) \in Path /\ IsPrefix(dirs[j], Append(dirs[j], Q[k].name))
          BY <5>1, AppendIs, AppendNotPrefix
        <5>3. IsPrefix(dirs[j], Front(q))
          BY <1>4, <3>3, <4>3, <5>1, <5>2, PrefixTransitive
        <5>4. ~IsPrefix(p, dirs[j])
          BY <1>3, <1>4, <5>1, <5>3, PrefixTransitive
        <5>5. dirs'[j] = dirs[j] /\ k \in 1..Len(Q') /\ Q'[k] = Q[k]
          BY <1>0, <1>2, <1>5, <5>1, <5>4, QType DEF Later
        <5> QED
          BY <1>2, <4>3, <5>5 DEF Sent
      <4> QED
        BY <4>1, <4>2, <4>3, Reached
    <3> QED
      BY <3>6, <3>7
  <2> QED
    BY <2>1, <2>2
<1>9. ASSUME NEW x \in files', x \notin misreported' PROVE (index[x] > 0 \/ WalkTo(x) \/ Sent(x))'
  <2>1. PICK r \in files : x = Renamed(p, q, r)
    BY <1>6
  <2>2. r \in Path /\ Renamed(p, q, r) \in Path
    BY <1>0, <1>3, DiskType, RenamedType
  <2>3. PICK y \in Path : y = x
    BY <2>1, <2>2
  <2>4. (index[y] > 0 \/ WalkTo(y) \/ Sent(y))'
    BY <1>2, <1>8, <1>9, <2>1, <2>3
  <2> QED
    BY <2>3, <2>4
<1> QED
  BY <1>9 DEF FileInv

LEMMA FileOthers ==
    ASSUME Typed, TableInv, FileInv, Others
    PROVE  FileInv'
<1>0. DiskInv /\ QueueType /\ WatchType /\ backend = "inotify" /\ \A i \in DOMAIN dirs : dirs[i] \in Path
  BY DiskType DEF Typed
<1>1. /\ Later /\ UNCHANGED <<toWatch, walkRoot, toEmit, index, misreported>>
  BY OthersKeep
<1>2. \A x : (WalkTo(x) => WalkTo(x)') /\ (index[x] > 0 => index'[x] > 0)
  BY <1>1 DEF WalkTo
<1>3. \A f \in files : f \in Path
  BY <1>0, DiskType
<1>4. ASSUME NEW p \in FilePaths, Create(p) \/ Modify(p) \/ Delete(p) PROVE FileInv'
  <2>1. UNCHANGED <<dirs, watches>>
    BY <1>4 DEF Create, Modify, Delete
  <2>2. \A x \in Path : Sent(x) => Sent(x)'
    BY <1>1, <2>1, SentStays
  <2>3. \A x \in files \ misreported : (index[x] > 0 \/ WalkTo(x) \/ Sent(x))'
    BY <1>2, <1>3, <2>2 DEF FileInv
  <2>4. CASE files' \subseteq files
    BY <1>1, <2>3, <2>4 DEF FileInv
  <2>5. CASE Create(p)
    <3>1. p \in Paths /\ p \in Path /\ p # Root /\ files' = files \cup {p} /\ Front(p) \in DirsNow
      BY <2>5, PathsType DEF Paths, Create, Change
    <3>2. Told("create", p, 0)
      BY <1>0, <2>5, <3>1, OneTold DEF Create, InotifyKinds
    <3>3. Front(p) \in Path /\ Last(p) \in STRING /\ p = Append(Front(p), Last(p))
      BY <3>1, EntryIs
    <3>4. IsStrictPrefix(Front(p), p)
      BY <3>1, <3>3, AppendNotPrefix DEF IsStrictPrefix
    <3>5. PICK d \in DOMAIN dirs : dirs[d] = Front(p)
      BY <3>1, DirsNowIs
    <3>6. ASSUME d \in DOMAIN watches PROVE Sent(p)'
      <4>1. PICK k \in 1..Len(Q') : Q'[k] = Ev("create", d, p, 0)
        BY <3>2, <3>5, <3>6 DEF Told
      <4>2. Q'[k].kind \in Arrivals /\ Q'[k].wd = watches[d] /\ Append(dirs[d], Q'[k].name) = p
        BY <3>3, <3>5, <4>1, EvIs DEF Arrivals
      <4> QED
        BY <2>1, <3>6, <4>2 DEF Sent
    <3>7. ASSUME d \notin DOMAIN watches PROVE WalkTo(p)' \/ Sent(p)'
      <4>1. ~Known(d) /\ IsStrictPrefix(dirs[d], p)
        BY <3>4, <3>5, <3>7 DEF Known
      <4>2. WalkTo(p) \/ Sent(p)
        BY <3>1, <4>1, Reached DEF Sent
      <4> QED
        BY <1>2, <2>2, <3>1, <4>2
    <3>8. (index[p] > 0 \/ WalkTo(p) \/ Sent(p))'
      BY <3>6, <3>7
    <3> QED
      BY <1>1, <2>3, <3>1, <3>8 DEF FileInv
  <2> QED
    BY <1>4, <2>4, <2>5 DEF Modify, Delete
<1>5. ASSUME NEW p \in DirPaths, MakeDir(p) PROVE FileInv'
  <2>1. UNCHANGED <<files, watches>> /\ \A j \in DOMAIN dirs : dirs'[j] = dirs[j]
    BY <1>0, <1>5, MakeDirIs
  <2>2. \A x \in Path : Sent(x) => Sent(x)'
    BY <1>0, <1>1, <2>1, SentStays DEF WatchType
  <2> QED
    BY <1>1, <1>2, <1>3, <2>1, <2>2 DEF FileInv
<1>6. ASSUME NEW p \in DirPaths, RemoveDir(p) PROVE FileInv'
  <2>1. /\ files' = files /\ DOMAIN watches' = DOMAIN watches \ {Inode(p)}
        /\ DOMAIN dirs' = DOMAIN dirs \ {Inode(p)} /\ dirs[Inode(p)] = p
        /\ \A j \in DOMAIN dirs' : dirs'[j] = dirs[j]
        /\ \A j \in DOMAIN watches' : watches'[j] = watches[j]
        /\ \A x \in files \cup DirsNow : ~IsStrictPrefix(p, x)
    BY <1>0, <1>6, RemoveDirIs
  <2>2. ASSUME NEW x \in files, Sent(x) PROVE Sent(x)'
    <3>1. ASSUME NEW j \in DOMAIN watches, IsStrictPrefix(dirs[j], x)
          PROVE  j \in DOMAIN watches' /\ watches'[j] = watches[j] /\ dirs'[j] = dirs[j]
      <4>1. j # Inode(p)
        BY <2>1, <3>1
      <4> QED
        BY <1>0, <2>1, <4>1 DEF WatchType
    <3> QED
      BY <1>1, <1>3, <2>2, <3>1, SentStays
  <2> QED
    BY <1>1, <1>2, <1>3, <2>1, <2>2 DEF FileInv
<1>7. ASSUME NEW p \in Paths, NEW q \in Paths, Rename(p, q) PROVE FileInv'
  BY <1>7, FileRename
<1> QED
  BY <1>4, <1>5, <1>6, <1>7 DEF Others

\* An event lists a file that has arrived, and takes the row of one only if it
\* tells that it went.
LEMMA HandleIndex ==
    ASSUME Typed, HandleEvent, NEW p \in files
    PROVE  /\ index[p] \in Nat /\ index'[p] \in Nat
           /\ Q[1].kind \in Arrivals /\ Q[1].wd \in DOMAIN wdToPath /\ PathOf(Q[1]) = p => index'[p] > 0
           /\ \/ index'[p] >= index[p] \/ index'[p] > 0
              \/ Q[1].kind = "delete" /\ Q[1].wd \in DOMAIN wdToPath /\ PathOf(Q[1]) = p
              \/ /\ Q[1].kind = "movedTo" /\ Q[1].cookie \in DOMAIN pendingMovedFrom
                 /\ pendingMovedFrom[Q[1].cookie] = p
<1>0. p \in Paths /\ index \in [Paths -> Nat]
  BY DEF Typed, DiskInv, Paths, IndexType
<1>1. \A ix \in [Paths -> Nat] : \A x : \A iy \in Rescanned(ix, x) :
          iy[p] \in Nat /\ iy[p] >= ix[p] /\ (x = p => iy[p] > 0)
  <2> SUFFICES ASSUME NEW ix \in [Paths -> Nat], NEW x, NEW iy \in Rescanned(ix, x)
               PROVE  iy[p] \in Nat /\ iy[p] >= ix[p] /\ (x = p => iy[p] > 0)
    OBVIOUS
  <2>1. ix[p] \in Nat /\ iy[p] \in {ix[p], ix[p] + 1} /\ (x \in files => iy = Added(ix, x))
    BY <1>0, RescannedIs
  <2>2. x = p => iy[p] = ix[p] + 1
    BY <1>0, <2>1, AddedIs
  <2> QED
    BY <2>1, <2>2
<1>2. \A x : /\ Removed(index, x) \in [Paths -> Nat]
             /\ Removed(index, x)[p] \in Nat /\ (x # p => Removed(index, x)[p] = index[p])
  BY <1>0, RemovedIs
<1>3. index[p] \in Nat
  BY <1>0
<1>4. ASSUME NEW x, ApplyAdded(x) PROVE index'[p] \in Nat /\ index'[p] >= index[p] /\ (x = p => index'[p] > 0)
  BY <1>0, <1>1, <1>4 DEF ApplyAdded
<1>5. ASSUME NEW x, ApplyModified(x) PROVE index'[p] \in Nat /\ (index'[p] >= index[p] \/ index'[p] > 0)
  <2>1. /\ index' \in Rescanned(Removed(index, x), x)
        /\ Removed(index, x) \in [Paths -> Nat] /\ (x # p => Removed(index, x)[p] = index[p])
    BY <1>2, <1>5 DEF ApplyModified
  <2>2. index'[p] \in Nat /\ index'[p] >= Removed(index, x)[p] /\ (x = p => index'[p] > 0)
    BY <1>1, <2>1
  <2> QED
    BY <1>3, <2>1, <2>2
<1>6. ASSUME NEW x, ApplyRemoved(x) PROVE index'[p] \in Nat /\ (x # p => index'[p] = index[p])
  BY <1>2, <1>6 DEF ApplyRemoved
<1>7. ASSUME NEW x, NEW y, ApplyRenamed(x, y)
      PROVE  index'[p] \in Nat /\ (x # p => index'[p] >= index[p]) /\ (y = p => index'[p] > 0)
  <2>1. PICK ix \in [Paths -> Nat] : ix = Removed(index, x)
    BY <1>2
  <2>2. index' = Added(ix, y)
    BY <1>7, <2>1 DEF ApplyRenamed
  <2>3. ix[p] \in Nat /\ index'[p] = (IF p = y THEN ix[p] + 1 ELSE ix[p]) /\ (x # p => ix[p] = index[p])
    BY <1>0, <1>2, <2>1, <2>2, AddedIs
  <2> QED
    BY <1>3, <2>3
<1>8. CASE index' = index
  <2>1. index'[p] \in Nat /\ index'[p] >= index[p]
    BY <1>3, <1>8
  <2>2. ~(Q[1].kind \in Arrivals /\ Q[1].wd \in DOMAIN wdToPath /\ PathOf(Q[1]) = p) \/ index'[p] > 0
    <3>1. CASE Q[1].kind \notin Arrivals \/ Q[1].wd \notin DOMAIN wdToPath
      BY <3>1
    <3>2. CASE Q[1].kind \in Arrivals /\ Q[1].wd \in DOMAIN wdToPath
      <4>1. HandleCreate(Q[1], PathOf(Q[1])) \/ HandleMovedTo(Q[1], PathOf(Q[1]))
        BY <3>2, HandleIs DEF Arrivals, HandleIgnored, HandleUntracked, Tracked, HandleDelete, HandleModify, HandleMovedFrom
      <4>2. \/ ApplyAdded(PathOf(Q[1])) \/ ApplyRenamed(pendingMovedFrom[Q[1].cookie], PathOf(Q[1]))
        BY <4>1 DEF HandleCreate, HandleMovedTo
      <4> QED
        BY <1>4, <1>7, <4>2
    <3> QED
      BY <3>1, <3>2
  <2> QED
    BY <1>3, <2>1, <2>2
<1>9. CASE HandleCreate(Q[1], PathOf(Q[1]))
  <2>1. ApplyAdded(PathOf(Q[1]))
    BY <1>9 DEF HandleCreate
  <2> QED
    BY <1>3, <1>4, <2>1
<1>10. CASE HandleDelete(Q[1], PathOf(Q[1])) /\ Q[1].wd \in DOMAIN wdToPath
  <2>1. ApplyRemoved(PathOf(Q[1])) /\ Q[1].kind = "delete"
    BY <1>10 DEF HandleDelete
  <2>2. index'[p] \in Nat /\ (PathOf(Q[1]) # p => index'[p] = index[p])
    BY <1>6, <2>1
  <2>3. PathOf(Q[1]) # p => index'[p] >= index[p]
    BY <1>3, <2>2
  <2> QED
    BY <1>3, <1>10, <2>1, <2>2, <2>3 DEF Arrivals
<1>11. CASE HandleModify(Q[1], PathOf(Q[1]))
  <2>1. ApplyModified(PathOf(Q[1])) /\ Q[1].kind = "modify"
    BY <1>11 DEF HandleModify
  <2> QED
    BY <1>3, <1>5, <2>1 DEF Arrivals
<1>12. CASE HandleMovedTo(Q[1], PathOf(Q[1]))
  <2>1. CASE Q[1].cookie \in DOMAIN pendingMovedFrom
    <3>1. Q[1].kind = "movedTo" /\ ApplyRenamed(pendingMovedFrom[Q[1].cookie], PathOf(Q[1]))
      BY <1>12, <2>1 DEF HandleMovedTo
    <3>2. /\ index'[p] \in Nat /\ (PathOf(Q[1]) = p => index'[p] > 0)
          /\ pendingMovedFrom[Q[1].cookie] # p => index'[p] >= index[p]
      BY <1>7, <3>1
    <3> QED
      BY <1>3, <2>1, <3>1, <3>2
  <2>2. CASE Q[1].cookie \notin DOMAIN pendingMovedFrom
    <3>1. ApplyAdded(PathOf(Q[1]))
      BY <1>12, <2>2 DEF HandleMovedTo
    <3> QED
      BY <1>3, <1>4, <3>1
  <2> QED
    BY <2>1, <2>2
<1>13. HandleIgnored(Q[1]) \/ HandleUntracked(Q[1]) \/ HandleMovedFrom(Q[1], PathOf(Q[1])) => index' = index
  BY DEF HandleIgnored, HandleUntracked, HandleMovedFrom
<1> QED
  BY <1>8, <1>9, <1>10, <1>11, <1>12, <1>13, HandleIs

LEMMA FileHandle ==
    ASSUME Typed, TableInv, RemInv, PendInv, FileInv, HandleEvent
    PROVE  FileInv'
<1>0. DiskInv /\ QueueType /\ WatchType /\ \A i \in DOMAIN dirs : dirs[i] \in Path
  BY DiskType DEF Typed
<1>1. /\ Len(Q) \in Nat \ {0} /\ 1 \in 1..Len(Q)
      /\ \A k \in 1..Len(Q) : k > 1 => k - 1 \in 1..Len(Q') /\ Q'[k - 1] = Q[k]
  BY <1>0, HandleShift
<1>2. UNCHANGED <<files, dirs, watches>> /\ Idle /\ misreported' = Misled
  BY HandleIs DEF disk
\* What a later event tells, it still does.
<1>3. ASSUME NEW x, NEW j \in DOMAIN watches, NEW k \in 1..Len(Q), k > 1,
             Q[k].kind \in Arrivals, Q[k].wd = watches[j],
             \/ Append(dirs[j], Q[k].name) = x
             \/ Q[k].isDir /\ IsPrefix(Append(dirs[j], Q[k].name), x)
      PROVE  Sent(x)'
  <2>1. k - 1 \in 1..Len(Q') /\ Q'[k - 1] = Q[k]
    BY <1>1, <1>3
  <2>2. /\ Q'[k - 1].kind \in Arrivals /\ Q'[k - 1].wd = watches'[j] /\ j \in DOMAIN watches'
        /\ \/ Append(dirs'[j], Q'[k - 1].name) = x
           \/ Q'[k - 1].isDir /\ IsPrefix(Append(dirs'[j], Q'[k - 1].name), x)
    BY <1>2, <1>3, <2>1
  <2> QED
    BY <2>1, <2>2 DEF Sent
<1>4. ASSUME NEW p \in files, p \notin Misled
      PROVE  index'[p] > 0 \/ WalkTo(p)' \/ Sent(p)'
  <2>0. /\ index[p] \in Nat /\ index'[p] \in Nat
        /\ Q[1].kind \in Arrivals /\ Q[1].wd \in DOMAIN wdToPath /\ PathOf(Q[1]) = p => index'[p] > 0
        /\ \/ index'[p] >= index[p] \/ index'[p] > 0
           \/ Q[1].kind = "delete" /\ Q[1].wd \in DOMAIN wdToPath /\ PathOf(Q[1]) = p
           \/ /\ Q[1].kind = "movedTo" /\ Q[1].cookie \in DOMAIN pendingMovedFrom
              /\ pendingMovedFrom[Q[1].cookie] = p
    BY HandleIndex
  <2>1. p \in Path /\ p # Root
    BY <1>0, DiskType
  <2>2. CASE index'[p] > 0
    BY <2>2
  <2>3. CASE index'[p] = index[p] /\ ~(index'[p] > 0)
    <3>1. p \notin misreported
      BY <1>4, <2>3 DEF Misled
    <3>2. ~WalkTo(p)
      BY <1>2 DEF Idle, WalkTo, Range
    <3>3. PICK j \in DOMAIN watches, k \in 1..Len(Q) :
              /\ Q[k].kind \in Arrivals /\ Q[k].wd = watches[j]
              /\ \/ Append(dirs[j], Q[k].name) = p
                 \/ Q[k].isDir /\ IsPrefix(Append(dirs[j], Q[k].name), p)
      BY <2>3, <3>1, <3>2 DEF FileInv, Sent
    <3>4. CASE k > 1
      BY <1>3, <3>3, <3>4
    <3>5. CASE k = 1
      <4>1. Q[1].kind \in Arrivals /\ Q[1].wd \in DOMAIN wdToPath /\ dirs[j] \in Path /\ Q[1].name \in STRING
        BY <1>0, <1>1, <3>3, <3>5 DEF WatchType, QueueType, Arrivals
      <4>2. Append(dirs[j], Q[1].name) \in Path /\ IsPrefix(dirs[j], Append(dirs[j], Q[1].name))
            /\ ~IsPrefix(Append(dirs[j], Q[1].name), dirs[j])
        BY <4>1, AppendIs, AppendNotPrefix
      <4>3. IsPrefix(Append(dirs[j], Q[1].name), p)
        BY <2>1, <3>3, <3>5, PrefixReflexive
      <4>4. CASE Known(j)
        <5>1. PathOf(Q[1]) = Append(dirs[j], Q[1].name)
          BY <3>3, <3>5, <4>4 DEF Known, PathOf
        <5>2. PathOf(Q[1]) # p
          BY <2>0, <2>3, <4>1
        <5>3. Q[1].isDir /\ IsStrictPrefix(PathOf(Q[1]), p)
          BY <3>3, <3>5, <5>1, <5>2 DEF IsStrictPrefix
        <5>4. WalkSubtree(Q[1].isDir, PathOf(Q[1]))
          BY <4>1, HandleIs DEF Arrivals, HandleIgnored, HandleUntracked, Tracked, HandleCreate, HandleDelete,
             HandleModify, HandleMovedFrom, HandleMovedTo
        <5>5. walkRoot' = PathOf(Q[1]) /\ walkRoot' # None
          <6>1. walkRoot' = PathOf(Q[1])
            BY <5>3, <5>4 DEF WalkSubtree
          <6>2. PathOf(Q[1]) # None
            BY <4>2, <5>1, PathsAssumption DEF Path
          <6> QED
            BY <6>1, <6>2
        <5> QED
          BY <5>3, <5>5 DEF WalkTo
      <4>5. CASE ~Known(j)
        <5>1. j \in DOMAIN dirs /\ IsStrictPrefix(dirs[j], p)
          <6>1. IsPrefix(dirs[j], p)
            BY <2>1, <4>1, <4>2, <4>3, PrefixTransitive
          <6>2. dirs[j] # p
            BY <4>2, <4>3
          <6> QED
            BY <1>0, <6>1, <6>2 DEF WatchType, IsStrictPrefix
        <5>2. PICK i \in DOMAIN watches, m \in 1..Len(Q) :
                  /\ Known(i) /\ Q[m].kind \in Arrivals /\ Q[m].wd = watches[i]
                  /\ Q[m].isDir /\ IsPrefix(Append(dirs[i], Q[m].name), p)
          BY <2>1, <3>2, <4>5, <5>1, Reached
        <5>3. m # 1
          BY <1>0, <3>3, <3>5, <4>5, <5>2 DEF WatchType
        <5>4. m > 1
          BY <1>1, <5>3
        <5> QED
          BY <1>3, <5>2, <5>4
      <4> QED
        BY <4>4, <4>5
    <3> QED
      BY <1>1, <3>4, <3>5
  <2>4. CASE index'[p] < index[p] /\ ~(index'[p] > 0)
    <3>1. ~Astray(p)
      BY <1>4, <2>0, <2>4 DEF Misled
    <3>2. ASSUME NEW wd \in DOMAIN wdToPath, NEW n \in STRING, p = Append(wdToPath[wd], n)
          PROVE  \E i \in DOMAIN watches : watches[i] = wd /\ Append(dirs[i], n) = p
      <4>1. wdToPath[wd] \in Path
        BY <1>0 DEF WatchType
      <4>2. Front(p) = wdToPath[wd]
        BY <3>2, <4>1, AppendIs
      <4>3. PICK i \in DOMAIN watches : watches[i] = wd /\ dirs[i] = Front(p)
        BY <3>1, <4>2 DEF Astray
      <4> QED
        BY <3>2, <4>2, <4>3
    <3>3. CASE Q[1].kind = "delete" /\ Q[1].wd \in DOMAIN wdToPath /\ PathOf(Q[1]) = p
      <4>1. Q[1].name \in STRING /\ p = Append(wdToPath[Q[1].wd], Q[1].name)
        BY <1>0, <1>1, <3>3 DEF QueueType, PathOf
      <4>2. PICK i \in DOMAIN watches : watches[i] = Q[1].wd /\ Append(dirs[i], Q[1].name) = p
        BY <3>2, <3>3, <4>1
      <4>3. PICK m \in 1..Len(Q) : m > 1 /\ Arrives(m, Q[1].wd, Q[1].name)
        BY <1>1, <3>3, <4>2 DEF RemInv, Removals, Present
      <4> QED
        BY <1>3, <4>2, <4>3 DEF Arrives
    <3>4. CASE /\ Q[1].kind = "movedTo" /\ Q[1].cookie \in DOMAIN pendingMovedFrom
               /\ pendingMovedFrom[Q[1].cookie] = p
      <4>1. PICK wd \in DOMAIN wdToPath, n \in STRING :
                /\ p = Append(wdToPath[wd], n)
                /\ Present(wd, n) => \E m \in 1..Len(Q) : Arrives(m, wd, n)
        BY <1>1, <3>4 DEF PendInv
      <4>2. PICK i \in DOMAIN watches : watches[i] = wd /\ Append(dirs[i], n) = p
        BY <3>2, <4>1
      <4>3. PICK m \in 1..Len(Q) : Arrives(m, wd, n)
        BY <4>1, <4>2 DEF Present
      <4>4. CASE m > 1
        BY <1>3, <4>2, <4>3, <4>4 DEF Arrives
      <4>5. CASE m = 1
        <5>1. PathOf(Q[1]) = p /\ Q[1].wd \in DOMAIN wdToPath /\ Q[1].kind \in Arrivals
          BY <4>1, <4>3, <4>5 DEF Arrives, PathOf
        <5> QED
          BY <2>0, <2>4, <5>1
      <4> QED
        BY <1>1, <4>4, <4>5
    <3>5. ~(index'[p] >= index[p])
      BY <2>0, <2>4
    <3> QED
      BY <2>0, <2>4, <3>3, <3>4, <3>5
  <2>5. index'[p] > 0 \/ index'[p] = index[p] \/ index'[p] < index[p]
    BY <2>0
  <2> QED
    BY <2>2, <2>3, <2>4, <2>5
<1> QED
  BY <1>2, <1>4 DEF FileInv

LEMMA FileEmit ==
    ASSUME Typed, FileInv, EmitNext, gaps' = {}
    PROVE  FileInv'
<1>0. DiskInv /\ QueueType /\ backend = "inotify" /\ toEmit \in Seq(Path) /\ toEmit # <<>> /\ walkRoot = None
  BY DEF Typed, WalkInv, EmitNext
<1>1. Q' = Q /\ UNCHANGED <<files, dirs, watches, walkRoot>>
  <2>1. UNCHANGED <<files, dirs, watches, walkRoot>>
    BY DEF EmitNext, notWalk, disk
  <2> QED
    BY <1>0, <2>1, SameQueue
<1>2. /\ Head(toEmit) \in Path /\ Tail(toEmit) \in Seq(Path)
      /\ \A e \in Range(toEmit) : e = Head(toEmit) \/ e \in Range(Tail(toEmit))
  BY <1>0, ShorterIs, RangeIs
<1>3. PICK path \in Path : path = Head(toEmit)
  BY <1>2
<1>4. index' \in Rescanned(index, path) /\ misreported' = Misled /\ index \in [Paths -> Nat]
  BY <1>3 DEF EmitNext, Typed, IndexType
<1>5. ASSUME NEW p \in files
      PROVE  /\ index[p] \in Nat /\ index'[p] \in {index[p], index[p] + 1}
             /\ p = path => index'[p] > 0
  <2>1. p \in Paths
    BY <1>0 DEF DiskInv, Paths
  <2>2. index[p] \in Nat /\ index'[p] \in {index[p], index[p] + 1} /\ (path \in files => index' = Added(index, path))
    BY <1>4, <2>1, RescannedIs
  <2>3. p = path => index'[p] = index[p] + 1
    BY <1>4, <2>1, <2>2, AddedIs
  <2> QED
    BY <2>2, <2>3
<1>6. ASSUME NEW p \in files, NEW e \in Range(toEmit), IsPrefix(e, p), p # path
      PROVE  WalkTo(p)'
  <2>1. p \in Path
    BY <1>0, DiskType
  <2>2. e = path => path \in DirsNow /\ \E c \in Children(path) : IsPrefix(c, p)
    <3>1. e = path => IsStrictPrefix(path, p)
      BY <1>6 DEF IsStrictPrefix
    <3> QED
      BY <1>0, <3>1, ChildTowards
  <2>3. CASE path \in DirPaths \ DirsNow
    <3>1. Tail(toEmit) = <<>>
      BY <1>3, <2>3 DEF EmitNext
    <3>2. Range(Tail(toEmit)) = {}
      BY <3>1 DEF Range
    <3> QED
      BY <1>2, <1>3, <1>6, <2>2, <2>3, <3>2
  <2>4. CASE ~(path \in DirPaths \ DirsNow)
    <3>1. PICK entries \in SetToSeqs(Children(path)) : toEmit' = entries \o Tail(toEmit)
      BY <1>3, <2>4 DEF EmitNext
    <3>2. entries \in Seq(Path) /\ Range(entries) = Children(path)
      BY <1>0, SeqOfPaths
    <3> DEFINE t == Tail(toEmit)
    <3>3. t \in Seq(Path)
      BY <1>2
    <3> HIDE DEF t
    <3>4. Range(entries \o t) = Range(entries) \cup Range(t)
      BY <3>2, <3>3, RangeOfBoth
    <3>5. Range(toEmit') = Children(path) \cup Range(Tail(toEmit))
      BY <3>1, <3>2, <3>4 DEF t
    <3> QED
      BY <1>2, <1>3, <1>6, <2>2, <3>5 DEF WalkTo
  <2> QED
    BY <2>3, <2>4
<1>7. \A p : Sent(p) => Sent(p)'
  BY <1>1 DEF Sent
<1>8. ASSUME NEW p \in files, p \notin Misled PROVE index'[p] > 0 \/ WalkTo(p)' \/ Sent(p)'
  <2>1. CASE index'[p] = index[p]
    <3>1. p \notin misreported
      BY <1>8, <2>1 DEF Misled
    <3>2. index[p] > 0 \/ WalkTo(p) \/ Sent(p)
      BY <3>1 DEF FileInv
    <3>3. CASE WalkTo(p)
      <4>1. PICK e \in Range(toEmit) : IsPrefix(e, p)
        BY <1>0, <3>3 DEF WalkTo
      <4> QED
        BY <1>5, <1>6, <4>1
    <3> QED
      BY <1>7, <2>1, <3>2, <3>3
  <2>2. CASE index'[p] # index[p]
    BY <1>5, <2>2
  <2> QED
    BY <2>1, <2>2
<1> QED
  BY <1>1, <1>4, <1>8 DEF FileInv

LEMMA FileStep ==
    Typed /\ TableInv /\ RemInv /\ PendInv /\ FileInv /\ Inotify' /\ [Next]_vars => FileInv'
<1> SUFFICES ASSUME Typed, TableInv, RemInv, PendInv, FileInv, Inotify', [Next]_vars PROVE FileInv'
  OBVIOUS
<1>0. DiskInv /\ QueueType /\ backend = "inotify" /\ gaps' = {}
  BY DEF Typed, Inotify
<1>1. InotifyNext
  BY InotifySteps
<1>2. CASE Others
  BY <1>2, FileOthers
<1>3. CASE HandleEvent
  BY <1>3, FileHandle
<1>4. CASE EmitNext
  BY <1>0, <1>4, FileEmit
<1>5. CASE WatchNext
  <2>1. /\ Q' = Q /\ UNCHANGED <<files, dirs>>
        /\ \A i \in DOMAIN watches : i \in DOMAIN watches' /\ watches'[i] = watches[i]
    BY <1>5, WatchNextIs
  <2>2. UNCHANGED <<walkRoot, toEmit, index, misreported>>
    BY <1>5 DEF WatchNext
  <2>3. \A p : (WalkTo(p) => WalkTo(p)') /\ (Sent(p) => Sent(p)')
    BY <2>1, <2>2 DEF WalkTo, Sent
  <2> QED
    BY <2>1, <2>2, <2>3 DEF FileInv
<1>6. CASE ReadSubtree
  <2>1. Q' = Q /\ UNCHANGED <<files, dirs>>
    BY <1>0, <1>6, SameQueue
  <2>2. UNCHANGED <<watches, index, misreported>> /\ walkRoot # None
    BY <1>6 DEF ReadSubtree, ghosts
  <2>3. \A p : Sent(p) => Sent(p)'
    BY <2>1, <2>2 DEF Sent
  <2>4. ASSUME NEW p \in files, WalkTo(p) PROVE WalkTo(p)'
    <3>1. walkRoot \in Path /\ IsStrictPrefix(walkRoot, p)
      <4>1. walkRoot \in Path /\ toEmit = <<>>
        BY <2>2 DEF Typed, WalkInv
      <4>2. Range(toEmit) = {}
        BY <4>1 DEF Range
      <4> QED
        BY <2>4, <4>1, <4>2 DEF WalkTo
    <3>2. walkRoot \in DirsNow /\ \E c \in Children(walkRoot) : IsPrefix(c, p)
      BY <1>0, <3>1, ChildTowards
    <3>3. PICK entries \in SetToSeqs(Children(walkRoot)) : toEmit' = entries
      BY <1>6, <3>2 DEF ReadSubtree
    <3>4. Range(entries) = Children(walkRoot)
      BY <1>0, <3>1, SeqOfPaths
    <3> QED
      BY <3>2, <3>3, <3>4 DEF WalkTo
  <2> QED
    BY <2>1, <2>2, <2>3, <2>4 DEF FileInv
<1>7. CASE QueueMovedTo \/ EndBatch \/ UNCHANGED vars
  <2>1. Q' = Q
    BY <1>0, <1>7, SameQueue
  <2>2. UNCHANGED <<files, dirs, watches, walkRoot, toEmit, index, misreported>>
    BY <1>7 DEF QueueMovedTo, EndBatch, vars, disk, kernel, walk, ghosts
  <2> QED
    BY <2>1, <2>2 DEF FileInv, WalkTo, Sent
<1> QED
  BY <1>1, <1>2, <1>3, <1>4, <1>5, <1>6, <1>7 DEF InotifyNext, Others

-----------------------------------------------------------------------------
(* fanotify: events that name their directory by its inode.                *)

FanKinds == {"create", "modify", "delete", "movedFrom", "movedTo"}

\* What is of one kind only has not been merged.
FanEvent ==
    {e \in [kinds : (SUBSET FanKinds) \ {{}}, dir : Nat, name : STRING, isDir : BOOLEAN, merged : BOOLEAN] :
        e.merged \/ \E x \in FanKinds : e.kinds = {x}}

FanTyped ==
    /\ backend = "fanotify" /\ DiskInv /\ IndexType
    /\ watches = <<>> /\ Idle /\ batch /\ pendingMovedFrom = <<>>
    /\ queue \in Seq(FanEvent)
    /\ movedTo = <<>> \/ \E e \in FanEvent : movedTo = <<e>> /\ e.kinds = {"movedTo"}

FanEv(kind, path) ==
    [kinds |-> {kind}, dir |-> Inode(Front(path)), name |-> Last(path),
     isDir |-> path \in DirPaths, merged |-> FALSE]

LEMMA FanEvIs ==
    ASSUME DiskInv, NEW p \in Paths, Front(p) \in DirsNow, NEW kind \in FanKinds
    PROVE  /\ FanEv(kind, p) \in FanEvent /\ FanEv(kind, p).kinds = {kind}
           /\ FanEv(kind, p).dir = Inode(Front(p)) /\ FanEv(kind, p).name = Last(p)
<1>1. Last(p) \in STRING
  BY PathsType, EntryIs
<1>2. Inode(Front(p)) \in Nat
  BY InodeIs DEF DiskInv
<1>3. {kind} \in (SUBSET FanKinds) \ {{}} /\ (p \in DirPaths) \in BOOLEAN
  OBVIOUS
<1> DEFINE e == FanEv(kind, p)
<1>4. e \in [kinds : (SUBSET FanKinds) \ {{}}, dir : Nat, name : STRING, isDir : BOOLEAN, merged : BOOLEAN]
  BY <1>1, <1>2, <1>3 DEF FanEv
<1>5. e.kinds = {kind} /\ e.dir = Inode(Front(p)) /\ e.name = Last(p)
  BY DEF FanEv
<1> HIDE DEF e
<1>6. e \in FanEvent
  BY <1>4, <1>5 DEF FanEvent
<1> QED
  BY <1>5, <1>6 DEF e

\* How an event is queued: last, or merged with one about the same entry.
MergedAt(s, j, e) == [s EXCEPT ![j].kinds = @ \cup e.kinds, ![j].merged = TRUE]

Queued(s, e, t) ==
    \/ t = Append(s, e)
    \/ \E j \in 1..Len(s) :
           /\ s[j].dir = e.dir /\ s[j].name = e.name
           /\ t = MergedAt(s, j, e)

LEMMA QueueIs ==
    ASSUME FanTyped, NEW e, Queue(<<e>>)
    PROVE  Queued(queue, e, queue')
<1>1. CASE queue' = queue \o <<e>>
  BY <1>1 DEF FanTyped, Queued
<1>2. ASSUME NEW j \in Merges(<<e>>),
             queue' = [queue EXCEPT ![j].kinds = @ \cup Head(<<e>>).kinds, ![j].merged = TRUE]
      PROVE  Queued(queue, e, queue')
  <2>1. j \in 1..Len(queue) /\ Head(<<e>>) = e /\ queue[j]["dir"] = e["dir"] /\ queue[j]["name"] = e["name"]
    BY <1>2 DEF Merges
  <2>2. queue[j].dir = e.dir /\ queue[j].name = e.name
    BY <2>1
  <2>3. queue' = MergedAt(queue, j, e)
    BY <1>2, <2>1 DEF MergedAt
  <2> QED
    BY <2>1, <2>2, <2>3 DEF Queued
<1> QED
  BY <1>1, <1>2 DEF Queue

\* The entry n of the directory with inode i is listed, or will be: none of the
\* events in s about it was merged, and none that removes it is the last.
Of(e, kinds, i, n) == e.kinds \subseteq kinds /\ e.dir = i /\ e.name = n

Ok(s, i, n, listed) ==
    \/ \E k \in 1..Len(s) : s[k].merged /\ s[k].dir = i /\ s[k].name = n
    \/ /\ listed \/ \E k \in 1..Len(s) : Of(s[k], Arrivals, i, n)
       /\ \A k \in 1..Len(s) : Of(s[k], Removals, i, n) =>
              \E m \in 1..Len(s) : m > k /\ Of(s[m], Arrivals, i, n)

LEMMA ExceptIs ==
    ASSUME NEW S, NEW s \in Seq(S), NEW j \in 1..Len(s), NEW g \in S, NEW t, t = [s EXCEPT ![j] = g]
    PROVE  t \in Seq(S) /\ Len(t) = Len(s) /\ t[j] = g /\ \A k \in 1..Len(s) : k # j => t[k] = s[k]
BY ExceptSeq

LEMMA MergedIs ==
    ASSUME NEW s \in Seq(FanEvent), NEW e \in FanEvent, NEW j \in 1..Len(s),
           s[j].dir = e.dir, s[j].name = e.name, NEW t,
           t = MergedAt(s, j, e)
    PROVE  /\ t \in Seq(FanEvent) /\ Len(t) = Len(s)
           /\ t[j].merged /\ t[j].dir = e.dir /\ t[j].name = e.name
           /\ \A k \in 1..Len(s) : k # j => t[k] = s[k]
<1> DEFINE g == [s[j] EXCEPT !.kinds = @ \cup e.kinds, !.merged = TRUE]
<1>1. s[j] \in FanEvent
  OBVIOUS
<1>2. g \in [kinds : (SUBSET FanKinds) \ {{}}, dir : Nat, name : STRING, isDir : BOOLEAN, merged : BOOLEAN]
  BY <1>1 DEF FanEvent
<1>3. g.merged /\ g.dir = s[j].dir /\ g.name = s[j].name
  BY <1>1 DEF FanEvent
<1>4. t = [s EXCEPT ![j] = g]
  BY DEF MergedAt
<1> HIDE DEF g
<1>5. g \in FanEvent
  BY <1>2, <1>3 DEF FanEvent
<1>6. t \in Seq(FanEvent) /\ Len(t) = Len(s) /\ t[j] = g /\ \A k \in 1..Len(s) : k # j => t[k] = s[k]
  BY <1>4, <1>5, ExceptIs
<1> QED
  BY <1>3, <1>6

Names(e, i, n) == e.dir = i /\ e.name = n

LEMMA MergedOther ==
    ASSUME NEW s \in Seq(FanEvent), NEW e \in FanEvent, NEW j \in 1..Len(s),
           s[j].dir = e.dir, s[j].name = e.name, NEW t,
           t = MergedAt(s, j, e), NEW i, NEW n, ~Names(e, i, n)
    PROVE  /\ \A k \in 1..Len(s) : Names(s[k], i, n) => k \in 1..Len(t) /\ t[k] = s[k]
           /\ \A k \in 1..Len(t) : Names(t[k], i, n) => k \in 1..Len(s) /\ t[k] = s[k]
<1>1. /\ t \in Seq(FanEvent) /\ Len(t) = Len(s)
      /\ t[j].merged /\ t[j].dir = e.dir /\ t[j].name = e.name
      /\ \A k \in 1..Len(s) : k # j => t[k] = s[k]
  BY MergedIs
<1> QED
  BY <1>1 DEF Names

LEMMA OtherKept ==
    ASSUME NEW s \in Seq(FanEvent), NEW e \in FanEvent, NEW t, Queued(s, e, t),
           NEW i, NEW n, ~Names(e, i, n)
    PROVE  /\ Len(s) \in Nat
           /\ \A k \in 1..Len(s) : Names(s[k], i, n) => k \in 1..Len(t) /\ t[k] = s[k]
           /\ \A k \in 1..Len(t) : Names(t[k], i, n) => k \in 1..Len(s) /\ t[k] = s[k]
<1>1. CASE t = Append(s, e)
  <2>1. /\ Len(s) \in Nat
        /\ \A k \in 1..Len(s) : k \in 1..Len(t) /\ t[k] = s[k]
        /\ t[Len(s) + 1] = e /\ \A k \in 1..Len(t) : k \in 1..Len(s) \/ k = Len(s) + 1
    <3>1. /\ Append(s, e) \in Seq(FanEvent) /\ Len(Append(s, e)) = Len(s) + 1 /\ Len(s) \in Nat
          /\ \A k \in 1..Len(s) : k \in 1..Len(Append(s, e)) /\ Append(s, e)[k] = s[k]
          /\ Append(s, e)[Len(s) + 1] = e
          /\ \A k \in 1..Len(Append(s, e)) : k \in 1..Len(s) \/ k = Len(s) + 1
      BY AppendOne
    <3> QED
      BY <1>1, <3>1
  <2>2. ASSUME NEW k \in 1..Len(t), Names(t[k], i, n)
        PROVE  k \in 1..Len(s) /\ t[k] = s[k]
    <3>1. k # Len(s) + 1
      BY <2>1, <2>2
    <3> QED
      BY <2>1, <3>1
  <2> QED
    BY <2>1, <2>2
<1>2. ASSUME NEW j \in 1..Len(s), s[j].dir = e.dir, s[j].name = e.name,
             t = MergedAt(s, j, e)
      PROVE  /\ \A k \in 1..Len(s) : Names(s[k], i, n) => k \in 1..Len(t) /\ t[k] = s[k]
             /\ \A k \in 1..Len(t) : Names(t[k], i, n) => k \in 1..Len(s) /\ t[k] = s[k]
  BY <1>2, MergedOther
<1>3. Len(s) \in Nat
  OBVIOUS
<1> QED
  BY <1>1, <1>2, <1>3 DEF Queued

\* An event about one entry does nothing to another one.
LEMMA OkOther ==
    ASSUME NEW s \in Seq(FanEvent), NEW e \in FanEvent, NEW t, Queued(s, e, t),
           NEW i, NEW n, e.dir # i \/ e.name # n, NEW listed \in BOOLEAN, Ok(s, i, n, listed)
    PROVE  Ok(t, i, n, listed)
<1>1. /\ Len(s) \in Nat
      /\ \A k \in 1..Len(s) : s[k].dir = i /\ s[k].name = n => k \in 1..Len(t) /\ t[k] = s[k]
      /\ \A k \in 1..Len(t) : t[k].dir = i /\ t[k].name = n => k \in 1..Len(s) /\ t[k] = s[k]
  <2>1. ~Names(e, i, n)
    BY DEF Names
  <2>2. /\ Len(s) \in Nat
        /\ \A k \in 1..Len(s) : Names(s[k], i, n) => k \in 1..Len(t) /\ t[k] = s[k]
        /\ \A k \in 1..Len(t) : Names(t[k], i, n) => k \in 1..Len(s) /\ t[k] = s[k]
    BY <2>1, OtherKept
  <2> QED
    BY <2>2 DEF Names
<1>2. CASE \E k \in 1..Len(s) : s[k].merged /\ s[k].dir = i /\ s[k].name = n
  BY <1>1, <1>2 DEF Ok
<1>3. CASE /\ listed \/ \E k \in 1..Len(s) : Of(s[k], Arrivals, i, n)
           /\ \A k \in 1..Len(s) : Of(s[k], Removals, i, n) =>
                  \E m \in 1..Len(s) : m > k /\ Of(s[m], Arrivals, i, n)
  <2>1. listed \/ \E k \in 1..Len(t) : Of(t[k], Arrivals, i, n)
    BY <1>1, <1>3 DEF Of
  <2>2. ASSUME NEW k \in 1..Len(t), Of(t[k], Removals, i, n)
        PROVE  \E m \in 1..Len(t) : m > k /\ Of(t[m], Arrivals, i, n)
    <3>1. k \in 1..Len(s) /\ Of(s[k], Removals, i, n)
      BY <1>1, <2>2 DEF Of
    <3>2. PICK m \in 1..Len(s) : m > k /\ Of(s[m], Arrivals, i, n)
      BY <1>3, <3>1
    <3> QED
      BY <1>1, <3>2 DEF Of
  <2> QED
    BY <2>1, <2>2 DEF Ok
<1> QED
  BY <1>2, <1>3 DEF Ok

\* One that tells that the entry arrived will list it.
LEMMA OkArrival ==
    ASSUME NEW s \in Seq(FanEvent), NEW e \in FanEvent, NEW t, Queued(s, e, t),
           NEW x \in Arrivals, e.kinds = {x}, NEW listed \in BOOLEAN
    PROVE  Ok(t, e.dir, e.name, listed)
<1>1. CASE t = Append(s, e)
  <2>1. /\ Len(s) \in Nat /\ Len(s) + 1 \in 1..Len(t)
        /\ t[Len(s) + 1] = e /\ \A k \in 1..Len(t) : k \in 1..Len(s) \/ k = Len(s) + 1
    BY <1>1, AppendOne
  <2>2. Of(t[Len(s) + 1], Arrivals, e.dir, e.name) /\ ~Of(t[Len(s) + 1], Removals, e.dir, e.name)
    BY <2>1 DEF Of, Arrivals, Removals
  <2>3. \A k \in 1..Len(t) : Of(t[k], Removals, e.dir, e.name) => Len(s) + 1 > k
    BY <2>1, <2>2
  <2> QED
    BY <2>1, <2>2, <2>3 DEF Ok
<1>2. ASSUME NEW j \in 1..Len(s), s[j].dir = e.dir, s[j].name = e.name,
             t = MergedAt(s, j, e)
      PROVE  Ok(t, e.dir, e.name, listed)
  <2>1. Len(t) = Len(s) /\ t[j].merged /\ t[j].dir = e.dir /\ t[j].name = e.name
    BY <1>2, MergedIs
  <2> QED
    BY <2>1 DEF Ok
<1> QED
  BY <1>1, <1>2 DEF Queued

\* One that tells of a change changes nothing.
LEMMA OkModify ==
    ASSUME NEW s \in Seq(FanEvent), NEW e \in FanEvent, NEW t, Queued(s, e, t),
           e.kinds = {"modify"}, NEW listed \in BOOLEAN, Ok(s, e.dir, e.name, listed)
    PROVE  Ok(t, e.dir, e.name, listed)
<1> DEFINE i == e.dir  n == e.name
<1>1. CASE t = Append(s, e)
  <2>1. /\ Len(s) \in Nat /\ Len(s) + 1 \in 1..Len(t)
        /\ \A k \in 1..Len(s) : k \in 1..Len(t) /\ t[k] = s[k]
        /\ t[Len(s) + 1] = e /\ \A k \in 1..Len(t) : k \in 1..Len(s) \/ k = Len(s) + 1
    BY <1>1, AppendOne
  <2>2. ~Of(e, Removals, i, n)
    BY DEF Of, Removals
  <2>3. CASE \E k \in 1..Len(s) : s[k].merged /\ s[k].dir = i /\ s[k].name = n
    BY <2>1, <2>3 DEF Ok
  <2>4. CASE /\ listed \/ \E k \in 1..Len(s) : Of(s[k], Arrivals, i, n)
             /\ \A k \in 1..Len(s) : Of(s[k], Removals, i, n) =>
                    \E m \in 1..Len(s) : m > k /\ Of(s[m], Arrivals, i, n)
    <3>1. listed \/ \E k \in 1..Len(t) : Of(t[k], Arrivals, i, n)
      BY <2>1, <2>4
    <3>2. ASSUME NEW k \in 1..Len(t), Of(t[k], Removals, i, n)
          PROVE  \E m \in 1..Len(t) : m > k /\ Of(t[m], Arrivals, i, n)
      <4>1. k \in 1..Len(s) /\ Of(s[k], Removals, i, n)
        BY <2>1, <2>2, <3>2
      <4> QED
        BY <2>1, <2>4, <4>1
    <3> QED
      BY <3>1, <3>2 DEF Ok
  <2> QED
    BY <2>3, <2>4 DEF Ok
<1>2. ASSUME NEW j \in 1..Len(s), s[j].dir = e.dir, s[j].name = e.name,
             t = MergedAt(s, j, e)
      PROVE  Ok(t, e.dir, e.name, listed)
  <2>1. Len(t) = Len(s) /\ t[j].merged /\ t[j].dir = e.dir /\ t[j].name = e.name
    BY <1>2, MergedIs
  <2> QED
    BY <2>1 DEF Ok
<1> QED
  BY <1>1, <1>2 DEF Queued

\* The events about other entries matter to none.
LEMMA OkBut ==
    ASSUME NEW s \in Seq(FanEvent), NEW e \in FanEvent, NEW i, NEW n, e.dir # i \/ e.name # n,
           NEW listed \in BOOLEAN, Ok(Append(s, e), i, n, listed)
    PROVE  Ok(s, i, n, listed)
<1> DEFINE t == Append(s, e)
<1>1. /\ Len(s) \in Nat
      /\ \A k \in 1..Len(s) : k \in 1..Len(t) /\ t[k] = s[k]
      /\ t[Len(s) + 1] = e /\ \A k \in 1..Len(t) : k \in 1..Len(s) \/ k = Len(s) + 1
  BY AppendOne
<1>2. Ok(t, i, n, listed)
  OBVIOUS
<1> HIDE DEF t
<1>3. \A k \in 1..Len(t) : t[k].dir = i /\ t[k].name = n => k \in 1..Len(s) /\ t[k] = s[k]
  BY <1>1
<1>4. CASE \E k \in 1..Len(t) : t[k].merged /\ t[k].dir = i /\ t[k].name = n
  BY <1>3, <1>4 DEF Ok
<1>5. CASE /\ listed \/ \E k \in 1..Len(t) : Of(t[k], Arrivals, i, n)
           /\ \A k \in 1..Len(t) : Of(t[k], Removals, i, n) =>
                  \E m \in 1..Len(t) : m > k /\ Of(t[m], Arrivals, i, n)
  <2>1. listed \/ \E k \in 1..Len(s) : Of(s[k], Arrivals, i, n)
    BY <1>3, <1>5 DEF Of
  <2>2. ASSUME NEW k \in 1..Len(s), Of(s[k], Removals, i, n)
        PROVE  \E m \in 1..Len(s) : m > k /\ Of(s[m], Arrivals, i, n)
    <3>1. PICK m \in 1..Len(t) : m > k /\ Of(t[m], Arrivals, i, n)
      BY <1>1, <1>5, <2>2
    <3> QED
      BY <1>3, <3>1 DEF Of
  <2> QED
    BY <2>1, <2>2 DEF Ok
<1> QED
  BY <1>2, <1>4, <1>5 DEF Ok

LEMMA QueuedType ==
    ASSUME NEW s \in Seq(FanEvent), NEW e \in FanEvent, NEW t, Queued(s, e, t)
    PROVE  t \in Seq(FanEvent)
<1>1. CASE t = Append(s, e)
  BY <1>1, AppendOne
<1>2. ASSUME NEW j \in 1..Len(s), s[j].dir = e.dir, s[j].name = e.name, t = MergedAt(s, j, e)
      PROVE  t \in Seq(FanEvent)
  BY <1>2, MergedIs
<1> QED
  BY <1>1, <1>2 DEF Queued

LEMMA FanQ ==
    ASSUME FanTyped
    PROVE  /\ movedTo \in Seq(FanEvent) /\ Q \in Seq(FanEvent) /\ Len(Q) \in Nat
           /\ movedTo = <<>> => Q = queue
           /\ \A e : movedTo = <<e>> => Q = Append(queue, e)
<1>1. movedTo \in Seq(FanEvent) /\ queue \in Seq(FanEvent)
  <2>1. CASE movedTo = <<>>
    BY <2>1, EmptySeq DEF FanTyped
  <2>2. ASSUME NEW e \in FanEvent, movedTo = <<e>> PROVE movedTo \in Seq(FanEvent)
    BY <2>2
  <2> QED
    BY <2>1, <2>2 DEF FanTyped
<1>2. Q \in Seq(FanEvent)
  BY <1>1, ConcatProperties DEF Q
<1>3. movedTo = <<>> => Q = queue
  BY <1>1, ConcatEmptySeq DEF Q
<1>4. ASSUME NEW e, movedTo = <<e>> PROVE Q = Append(queue, e)
  BY <1>1, <1>4 DEF Q
<1> QED
  BY <1>1, <1>2, <1>3, <1>4

LEMMA FanSteps ==
    ASSUME FanTyped, [Next]_vars
    PROVE  Others \/ QueueMovedTo \/ ReadFanotify \/ UNCHANGED vars
<1>1. DOMAIN pendingMovedFrom = {}
  BY DEF FanTyped
<1>2. CASE Watcher
  BY <1>1, <1>2 DEF Watcher, FanTyped, Idle, HandleEvent, EndBatch, WatchNext, ReadSubtree, EmitNext
<1> QED
  BY <1>2 DEF Next, Rest

\* What a change does under fanotify: its event is queued.
FanTold(kind, p) == Queued(queue, FanEv(kind, p), queue') /\ FanEv(kind, p) \in FanEvent

LEMMA FanChange ==
    ASSUME FanTyped, Others
    PROVE  /\ UNCHANGED <<backend, watches, batch, pendingMovedFrom, walk, index>>
           /\ movedTo = <<>> /\ Q = queue
<1>1. movedTo = <<>> /\ UNCHANGED <<backend, batch, pendingMovedFrom, walk, index>>
  BY DEF Others, Create, Modify, Delete, MakeDir, RemoveDir, Rename, Change
<1>2. DOMAIN watches = {}
  BY DEF FanTyped
<1>3. watches' = watches
  BY <1>2 DEF Others, Create, Modify, Delete, MakeDir, RemoveDir, Rename
<1> QED
  BY <1>1, <1>3, FanQ

LEMMA FanEvent1 ==
    ASSUME FanTyped, NEW p \in Paths, Front(p) \in DirsNow, NEW kind \in FanKinds, NEW c, Queue(Event(kind, p, c))
    PROVE  FanTold(kind, p)
<1>1. Event(kind, p, c) = <<FanEv(kind, p)>>
  BY DEF Event, FanEv, FanTyped
<1>2. Queued(queue, FanEv(kind, p), queue')
  BY <1>1, QueueIs
<1>3. FanEv(kind, p) \in FanEvent
  BY FanEvIs DEF FanTyped
<1> QED
  BY <1>2, <1>3 DEF FanTold

LEMMA FanTells ==
    ASSUME FanTyped, NEW p \in Paths
    PROVE  /\ Create(p) => FanTold("create", p)
           /\ Modify(p) => FanTold("modify", p)
           /\ Delete(p) => FanTold("delete", p)
           /\ MakeDir(p) => FanTold("create", p)
           /\ RemoveDir(p) => FanTold("delete", p)
           /\ \A q \in Paths : Rename(p, q) =>
                  /\ FanTold("movedFrom", p)
                  /\ movedTo' = <<FanEv("movedTo", q)>> /\ FanEv("movedTo", q) \in FanEvent
                  /\ FanEv("movedTo", q).kinds = {"movedTo"}
<1>1. \A kind \in FanKinds : \A c : Queue(Event(kind, p, c)) /\ Front(p) \in DirsNow => FanTold(kind, p)
  BY FanEvent1
<1>2. Create(p) => FanTold("create", p)
  BY <1>1 DEF Create, Change, FanKinds
<1>3. Modify(p) => FanTold("modify", p)
  BY <1>1 DEF Modify, Change, FanKinds
<1>4. Delete(p) => FanTold("delete", p)
  BY <1>1 DEF Delete, Change, FanKinds
<1>5. MakeDir(p) => FanTold("create", p)
  BY <1>1 DEF MakeDir, Change, FanKinds
<1>6. RemoveDir(p) => FanTold("delete", p)
  <2> SUFFICES ASSUME RemoveDir(p) PROVE FanTold("delete", p)
    OBVIOUS
  <2>1. DOMAIN watches = {}
    BY DEF FanTyped
  <2>2. Queue(Event("delete", p, 0) \o <<>>) /\ Front(p) \in DirsNow
    BY <2>1 DEF RemoveDir, Change
  <2>3. Event("delete", p, 0) = <<FanEv("delete", p)>>
    BY DEF Event, FanEv, FanTyped
  <2>4. <<FanEv("delete", p)>> \o <<>> = <<FanEv("delete", p)>>
    <3>1. <<FanEv("delete", p)>> \in Seq({FanEv("delete", p)})
      OBVIOUS
    <3> QED
      BY <3>1, ConcatEmptySeq
  <2>5. Queue(Event("delete", p, 0))
    BY <2>2, <2>3, <2>4
  <2> QED
    BY <1>1, <2>2, <2>5 DEF FanKinds
<1>7. ASSUME NEW q \in Paths, Rename(p, q)
      PROVE  /\ FanTold("movedFrom", p)
             /\ movedTo' = <<FanEv("movedTo", q)>> /\ FanEv("movedTo", q) \in FanEvent
             /\ FanEv("movedTo", q).kinds = {"movedTo"}
  <2>1. /\ Queue(Event("movedFrom", p, changes')) /\ movedTo' = Event("movedTo", q, changes')
        /\ Front(p) \in DirsNow /\ Front(q) \in DirsNow
    BY <1>7 DEF Rename, Change
  <2>2. movedTo' = <<FanEv("movedTo", q)>>
    BY <2>1 DEF Event, FanEv, FanTyped
  <2>3. PICK c : c = changes'
    OBVIOUS
  <2>4. Queue(Event("movedFrom", p, c))
    BY <2>1, <2>3
  <2>5. FanTold("movedFrom", p)
    BY <1>1, <2>1, <2>4 DEF FanKinds
  <2>6. FanEv("movedTo", q) \in FanEvent /\ FanEv("movedTo", q).kinds = {"movedTo"}
    BY <2>1, FanEvIs DEF FanTyped, FanKinds
  <2> QED
    BY <2>2, <2>5, <2>6
<1> QED
  BY <1>2, <1>3, <1>4, <1>5, <1>6, <1>7

\* An event is reported: by its kind, of the entry it names in the present
\* path of its directory.
LEMMA ReportIs ==
    ASSUME FanTyped, ReadFanotify
    PROVE  LET e == Head(queue)
           IN  /\ queue # <<>> /\ e \in FanEvent /\ queue' = Tail(queue) /\ queue' \in Seq(FanEvent)
               /\ UNCHANGED <<disk, watches, movedTo, backend, batch, pendingMovedFrom, walk, gaps>>
               /\ \/ UNCHANGED <<index, misreported>> /\ e.dir \notin DOMAIN dirs
                  \/ \E path \in Path :
                         /\ e.dir \in DOMAIN dirs /\ path = Append(dirs[e.dir], e.name)
                         /\ misreported' = misreported \cup IF e.merged THEN {path} ELSE {}
                         /\ \/ /\ index' \in Rescanned(index, path)
                               /\ e.merged \/ \E x \in Arrivals : e.kinds = {x}
                            \/ /\ index' = Removed(index, path)
                               /\ e.merged \/ \E x \in Removals : e.kinds = {x}
                            \/ /\ index' \in Rescanned(Removed(index, path), path)
                               /\ e.merged \/ e.kinds = {"modify"}
<1> DEFINE e == Head(queue)
           type == ClassifyMask(e.kinds)
<1>1. queue # <<>> /\ e \in FanEvent /\ queue' = Tail(queue) /\ queue' \in Seq(FanEvent)
  <2>1. queue # <<>> /\ queue' = Tail(queue) /\ queue \in Seq(FanEvent)
    BY DEF ReadFanotify, FanTyped
  <2> QED
    BY <2>1, ShorterIs
<1>2. UNCHANGED <<disk, watches, movedTo, backend, batch, pendingMovedFrom, walk, gaps>> /\ Report(e)
  BY DEF ReadFanotify
<1>3. /\ e.merged \in BOOLEAN /\ e.name \in STRING /\ e.kinds \in (SUBSET FanKinds) \ {{}}
      /\ e.merged \/ \E x \in FanKinds : e.kinds = {x}
  BY <1>1 DEF FanEvent
<1>4. /\ type \in {"Added", "Removed", "Modified"}
      /\ type = "Added" => e.merged \/ \E x \in Arrivals : e.kinds = {x}
      /\ type = "Removed" => e.merged \/ \E x \in Removals : e.kinds = {x}
      /\ type = "Modified" => e.merged \/ e.kinds = {"modify"}
  <2> DEFINE K == e.kinds
  <2>1. K \in (SUBSET FanKinds) \ {{}} /\ (e.merged \/ \E x \in FanKinds : K = {x})
    BY <1>3
  <2>2. type = ClassifyMask(K)
    OBVIOUS
  <2>3. None \notin {"Added", "Removed", "Modified"}
    BY PathsAssumption
  <2> HIDE DEF K, type, e
  <2>4. type \in {"Added", "Removed", "Modified"}
    <3>1. \E x \in FanKinds : x \in K
      BY <2>1
    <3>2. "create" \in K \/ "delete" \in K \/ "movedFrom" \in K \/ "movedTo" \in K \/ "modify" \in K
      BY <3>1 DEF FanKinds
    <3> QED
      BY <2>2, <3>2 DEF ClassifyMask
  <2>5. ASSUME NEW x \in FanKinds, K = {x}
        PROVE  /\ type = "Added" => x \in Arrivals
               /\ type = "Removed" => x \in Removals
               /\ type = "Modified" => x = "modify"
    <3>1. CASE x = "create"
      BY <2>2, <2>3, <2>5, <3>1 DEF ClassifyMask, Arrivals
    <3>2. CASE x = "movedTo"
      BY <2>2, <2>3, <2>5, <3>2 DEF ClassifyMask, Arrivals
    <3>3. CASE x \in {"delete", "movedFrom"}
      BY <2>2, <2>3, <2>5, <3>3 DEF ClassifyMask, Removals
    <3>4. CASE x = "modify"
      BY <2>2, <2>3, <2>5, <3>4 DEF ClassifyMask
    <3> QED
      BY <3>1, <3>2, <3>3, <3>4 DEF FanKinds
  <2> QED
    BY <2>1, <2>4, <2>5 DEF K
<1>5. CASE e.dir \notin DOMAIN dirs
  <2>1. UNCHANGED <<index, misreported>>
    BY <1>2, <1>5 DEF Report, ResolveDirPath
  <2> QED
    BY <1>1, <1>2, <1>4, <1>5, <2>1
<1>6. CASE e.dir \in DOMAIN dirs
  <2>1. PICK path : path = Append(dirs[e.dir], e.name)
    OBVIOUS
  <2>5. type # None
    <3> HIDE DEF type
    <3> QED
      BY <1>4, PathsAssumption
  <2>2. path \in Path
    <3>1. dirs[e.dir] \in Path
      BY <1>6, DiskType DEF FanTyped
    <3> QED
      BY <1>3, <2>1, <3>1, AppendIs
  <2>3. /\ index' \in CASE type = "Added"    -> Rescanned(index, path)
                       [] type = "Removed"  -> {Removed(index, path)}
                       [] type = "Modified" -> Rescanned(Removed(index, path), path)
        /\ misreported' = misreported \cup IF e.merged THEN {path} ELSE {}
    <3>1. ResolveDirPath(e.dir) = {dirs[e.dir]}
      BY <1>6 DEF ResolveDirPath
    <3> QED
      BY <1>2, <1>6, <2>1, <2>5, <3>1 DEF Report, JoinPath
  <2>4. \/ type = "Added" /\ index' \in Rescanned(index, path)
        \/ type = "Removed" /\ index' = Removed(index, path)
        \/ type = "Modified" /\ index' \in Rescanned(Removed(index, path), path)
    <3> HIDE DEF type
    <3>1. CASE type = "Added"
      BY <2>3, <3>1
    <3>2. CASE type = "Removed"
      BY <2>3, <3>2
    <3>3. CASE type = "Modified"
      BY <2>3, <3>3
    <3> QED
      BY <1>4, <1>6, <3>1, <3>2, <3>3
  <2> HIDE DEF type
  <2> QED
    BY <1>1, <1>2, <1>4, <1>6, <2>1, <2>2, <2>3, <2>4
<1> QED
  BY <1>5, <1>6

\* The second event of a rename is queued.
LEMMA FanMoves ==
    ASSUME FanTyped, QueueMovedTo
    PROVE  /\ UNCHANGED <<disk, watches, backend, batch, pendingMovedFrom, walk, index, misreported>>
           /\ \E e \in FanEvent :
                  /\ movedTo = <<e>> /\ e.kinds = {"movedTo"} /\ movedTo' = <<>>
                  /\ Queued(queue, e, queue') /\ queue' \in Seq(FanEvent)
<1>1. /\ UNCHANGED <<disk, watches, backend, batch, pendingMovedFrom, walk, index, misreported>>
      /\ movedTo # <<>> /\ movedTo' = <<>> /\ Queue(movedTo)
  BY DEF QueueMovedTo, ghosts
<1>2. PICK e \in FanEvent : movedTo = <<e>> /\ e.kinds = {"movedTo"}
  BY <1>1 DEF FanTyped
<1>3. Queued(queue, e, queue')
  BY <1>1, <1>2, QueueIs
<1>4. queue' \in Seq(FanEvent)
  BY <1>3, QueuedType DEF FanTyped
<1> QED
  BY <1>1, <1>2, <1>3, <1>4

LEMMA FanTypedStep == FanTyped /\ [Next]_vars => FanTyped'
<1> SUFFICES ASSUME FanTyped, [Next]_vars PROVE FanTyped'
  OBVIOUS
<1>1. DiskInv'
  BY DiskStep DEF FanTyped
<1>2. CASE Others
  <2>1. /\ UNCHANGED <<backend, watches, batch, pendingMovedFrom, walk, index>> /\ movedTo = <<>>
    BY <1>2, FanChange
  <2>2. /\ queue' \in Seq(FanEvent)
        /\ movedTo' = <<>> \/ \E e \in FanEvent : movedTo' = <<e>> /\ e.kinds = {"movedTo"}
    <3>1. ASSUME NEW kind, NEW p, FanTold(kind, p) PROVE queue' \in Seq(FanEvent)
      BY <3>1, QueuedType DEF FanTold, FanTyped
    <3>2. ASSUME NEW p \in FilePaths, Create(p) \/ Modify(p) \/ Delete(p)
          PROVE  queue' \in Seq(FanEvent) /\ movedTo' = <<>>
      <4>1. \E kind : FanTold(kind, p)
        BY <3>2, FanTells DEF Paths
      <4> QED
        BY <2>1, <3>1, <3>2, <4>1 DEF Create, Modify, Delete
    <3>3. ASSUME NEW p \in DirPaths, MakeDir(p) \/ RemoveDir(p)
          PROVE  queue' \in Seq(FanEvent) /\ movedTo' = <<>>
      <4>1. \E kind : FanTold(kind, p)
        BY <3>3, FanTells DEF Paths
      <4> QED
        BY <2>1, <3>1, <3>3, <4>1 DEF MakeDir, RemoveDir
    <3>4. ASSUME NEW p \in Paths, NEW q \in Paths, Rename(p, q)
          PROVE  /\ queue' \in Seq(FanEvent)
                 /\ \E e \in FanEvent : movedTo' = <<e>> /\ e.kinds = {"movedTo"}
      BY <3>1, <3>4, FanTells
    <3> QED
      BY <1>2, <3>2, <3>3, <3>4 DEF Others
  <2> QED
    BY <1>1, <2>1, <2>2 DEF FanTyped, IndexType, Idle, walk
<1>3. CASE QueueMovedTo
  BY <1>1, <1>3, FanMoves DEF FanTyped, IndexType, Idle, walk
<1>4. CASE ReadFanotify
  <2>1. /\ queue' \in Seq(FanEvent)
        /\ UNCHANGED <<watches, movedTo, backend, batch, pendingMovedFrom, walk>>
    BY <1>4, ReportIs
  <2>2. index' \in [Paths -> Nat]
    <3>1. index \in [Paths -> Nat]
      BY DEF FanTyped, IndexType
    <3>2. \/ index' = index
          \/ \E path : \/ index' \in Rescanned(index, path) \/ index' = Removed(index, path)
                       \/ index' \in Rescanned(Removed(index, path), path)
      BY <1>4, ReportIs
    <3>3. \A path : Removed(index, path) \in [Paths -> Nat]
      BY <3>1, RemovedIs
    <3>4. \A path : \A iy \in Rescanned(index, path) : iy \in [Paths -> Nat]
      BY <3>1, RescannedIs
    <3>5. \A path : \A iy \in Rescanned(Removed(index, path), path) : iy \in [Paths -> Nat]
      BY <3>3, RescannedIs
    <3> QED
      BY <3>1, <3>2, <3>3, <3>4, <3>5
  <2> QED
    BY <1>1, <2>1, <2>2 DEF FanTyped, IndexType, Idle, walk
<1>5. CASE UNCHANGED vars
  BY <1>1, <1>5 DEF FanTyped, vars, kernel, walk, IndexType, Idle
<1> QED
  BY <1>2, <1>3, <1>4, <1>5, FanSteps

\* What is there and not misreported is listed, or will be when the queue is read.
FanFile ==
    \A i \in DOMAIN dirs, x \in files \ misreported :
        dirs[i] = Front(x) => Ok(Q, i, Last(x), index[x] > 0)

LEMMA FanLater ==
    ASSUME FanTyped'
    PROVE  /\ Q' \in Seq(FanEvent)
           /\ movedTo' = <<>> => Q' = queue'
           /\ \A e : movedTo' = <<e>> => Q' = Append(queue', e)
<1>1. movedTo' \in Seq(FanEvent) /\ queue' \in Seq(FanEvent)
  <2>1. CASE movedTo' = <<>>
    BY <2>1, EmptySeq DEF FanTyped
  <2>2. ASSUME NEW e \in FanEvent, movedTo' = <<e>> PROVE movedTo' \in Seq(FanEvent)
    BY <2>2
  <2> QED
    BY <2>1, <2>2 DEF FanTyped
<1>2. Q' \in Seq(FanEvent)
  BY <1>1, ConcatProperties DEF Q
<1>3. movedTo' = <<>> => Q' = queue'
  BY <1>1, ConcatEmptySeq DEF Q
<1>4. ASSUME NEW e, movedTo' = <<e>> PROVE Q' = Append(queue', e)
  BY <1>1, <1>4 DEF Q
<1> QED
  BY <1>2, <1>3, <1>4

\* The event of a change of p names what is there under p, and nothing else.
LEMMA FanAbout ==
    ASSUME DiskInv, NEW p \in Paths, Front(p) \in DirsNow, NEW kind,
           NEW x \in Paths, NEW i \in DOMAIN dirs, dirs[i] = Front(x)
    PROVE  LET e == FanEv(kind, p)
           IN  (e.dir = i /\ e.name = Last(x)) <=> x = p
<1>1. p = Append(Front(p), Last(p)) /\ x = Append(Front(x), Last(x))
  BY PathsType, EntryIs
<1>2. FanEv(kind, p).dir = Inode(Front(p)) /\ FanEv(kind, p).name = Last(p)
  BY DEF FanEv
<1>3. Inode(Front(p)) \in DOMAIN dirs /\ dirs[Inode(Front(p))] = Front(p)
  BY InodeIs
<1>4. ASSUME x = p PROVE Inode(Front(p)) = i
  BY <1>3, <1>4 DEF DiskInv
<1> QED
  BY <1>1, <1>2, <1>3, <1>4
\* What is queued about p leaves every other file as it is.
LEMMA FanFileOther ==
    ASSUME FanTyped, FanFile, movedTo = <<>>, NEW p \in Paths, Front(p) \in DirsNow, NEW kind,
           FanTold(kind, p), NEW x \in files \ misreported, x # p,
           NEW i \in DOMAIN dirs, dirs[i] = Front(x)
    PROVE  Ok(queue', i, Last(x), index[x] > 0)
<1> DEFINE e == FanEv(kind, p)
<1>1. x \in Paths
  BY DEF FanTyped, DiskInv, Paths
<1>2. e.dir # i \/ e.name # Last(x)
  BY <1>1, FanAbout DEF FanTyped
<1>3. Ok(queue, i, Last(x), index[x] > 0) /\ queue \in Seq(FanEvent)
  BY FanQ DEF FanFile, FanTyped
<1>4. Queued(queue, e, queue') /\ e \in FanEvent
  BY DEF FanTold
<1>8. (index[x] > 0) \in BOOLEAN
  OBVIOUS
<1>5. PICK listed \in BOOLEAN : listed = (index[x] > 0)
  BY <1>8
<1>6. Ok(queue, i, Last(x), listed)
  BY <1>3, <1>5
<1> HIDE DEF e
<1>7. Ok(queue', i, Last(x), listed)
  BY <1>2, <1>3, <1>4, <1>6, OkOther
<1> QED
  BY <1>5, <1>7

LEMMA FanFileEntry ==
    ASSUME FanTyped, FanFile, FanTyped', Others, NEW p \in FilePaths,
           Create(p) \/ Modify(p) \/ Delete(p)
    PROVE  FanFile'
<1>1. p \in Paths /\ Front(p) \in DirsNow
  BY DEF Paths, Create, Modify, Delete, Change
<1>2. UNCHANGED <<dirs, misreported>> /\ movedTo' = movedTo /\ files' \subseteq files \cup {p}
  BY DEF Create, Modify, Delete, ghosts
<1>3. index' = index /\ movedTo = <<>> /\ Q = queue /\ Q' = queue'
  BY <1>2, FanChange, FanLater
<1>4. ASSUME NEW i \in DOMAIN dirs, NEW x \in files' \ misreported, dirs[i] = Front(x)
      PROVE  Ok(queue', i, Last(x), index[x] > 0)
  <2>1. CASE x # p
    <3>1. x \in files \ misreported
      BY <1>2, <1>4, <2>1
    <3>2. PICK kind : FanTold(kind, p)
      BY <1>1, FanTells
    <3> QED
      BY <1>1, <1>3, <1>4, <2>1, <3>1, <3>2, FanFileOther
  <2>2. ASSUME x = p, Create(p) PROVE Ok(queue', i, Last(x), index[x] > 0)
    <3> DEFINE e == FanEv("create", p)
    <3>1. Queued(queue, e, queue') /\ e \in FanEvent
      BY <1>1, <2>2, FanTells DEF FanTold
    <3>2. e.dir = i /\ e.name = Last(x)
      BY <1>1, <1>4, <2>2, FanAbout DEF FanTyped
    <3>3. e.kinds = {"create"} /\ "create" \in Arrivals
      BY DEF FanEv, Arrivals
    <3>4. (index[x] > 0) \in BOOLEAN /\ queue \in Seq(FanEvent)
      BY DEF FanTyped
    <3> HIDE DEF e
    <3> QED
      BY <3>1, <3>2, <3>3, <3>4, OkArrival
  <2>3. ASSUME x = p, Modify(p) PROVE Ok(queue', i, Last(x), index[x] > 0)
    <3> DEFINE e == FanEv("modify", p)
    <3>1. Queued(queue, e, queue') /\ e \in FanEvent
      BY <1>1, <2>3, FanTells DEF FanTold
    <3>2. e.dir = i /\ e.name = Last(x)
      BY <1>1, <1>4, <2>3, FanAbout DEF FanTyped
    <3>3. e.kinds = {"modify"}
      BY DEF FanEv
    <3>4. (index[x] > 0) \in BOOLEAN /\ queue \in Seq(FanEvent)
      BY DEF FanTyped
    <3>5. x \in files
      BY <2>3 DEF Modify
    <3>6. Ok(queue, i, Last(x), index[x] > 0)
      BY <1>3, <1>4, <3>5 DEF FanFile
    <3>7. PICK listed \in BOOLEAN : listed = (index[x] > 0)
      BY <3>4
    <3> HIDE DEF e
    <3>8. Ok(queue, e.dir, e.name, listed)
      BY <3>2, <3>6, <3>7
    <3>9. Ok(queue', e.dir, e.name, listed)
      BY <3>1, <3>3, <3>4, <3>8, OkModify
    <3> QED
      BY <3>2, <3>7, <3>9
  <2>4. x = p => ~Delete(p)
    BY <1>4 DEF Delete
  <2> QED
    BY <2>1, <2>2, <2>3, <2>4
<1> QED
  BY <1>2, <1>3, <1>4 DEF FanFile

LEMMA FanFileDir ==
    ASSUME FanTyped, FanFile, FanTyped', Others, NEW p \in DirPaths,
           MakeDir(p) \/ RemoveDir(p)
    PROVE  FanFile'
<1>1. p \in Paths /\ Front(p) \in DirsNow
  BY DEF Paths, MakeDir, RemoveDir, Change
<1>2. UNCHANGED <<files, misreported>> /\ movedTo' = movedTo
  BY DEF MakeDir, RemoveDir, ghosts
<1>3. index' = index /\ movedTo = <<>> /\ Q = queue /\ Q' = queue'
  BY <1>2, FanChange, FanLater
<1>4. ASSUME NEW i \in DOMAIN dirs', NEW x \in files \ misreported, dirs'[i] = Front(x)
      PROVE  i \in DOMAIN dirs /\ dirs[i] = Front(x)
  <2>1. CASE RemoveDir(p)
    BY <1>4, <2>1, RemoveDirIs DEF FanTyped
  <2>2. CASE MakeDir(p)
    <3>1. p \notin DirsNow
      BY <2>2 DEF MakeDir
    <3>2. PICK n \in DOMAIN dirs' : /\ DOMAIN dirs' = DOMAIN dirs \cup {n} /\ dirs'[n] = p
                                    /\ \A j \in DOMAIN dirs : dirs'[j] = dirs[j]
      BY <2>2, MakeDirIs DEF FanTyped
    <3>3. Front(x) \in DirsNow
      BY FrontThere DEF FanTyped
    <3> QED
      BY <1>4, <3>1, <3>2, <3>3
  <2> QED
    BY <2>1, <2>2
<1>5. \A x \in files : x # p
  BY PathsAssumption DEF FanTyped, DiskInv, Paths
<1>6. PICK kind : FanTold(kind, p)
  BY <1>1, FanTells
<1>7. \A i \in DOMAIN dirs, x \in files \ misreported : dirs[i] = Front(x) => Ok(queue', i, Last(x), index[x] > 0)
  BY <1>1, <1>3, <1>5, <1>6, FanFileOther
<1> QED
  BY <1>2, <1>3, <1>4, <1>7 DEF FanFile

LEMMA FanFileRename ==
    ASSUME FanTyped, FanFile, FanTyped', Others, NEW p \in Paths, NEW q \in Paths, Rename(p, q)
    PROVE  FanFile'
<1> DEFINE e == FanEv("movedTo", q)
<1>1. /\ p \in Path /\ q \in Path /\ Front(p) \in DirsNow /\ Front(q) \in DirsNow
      /\ p \in files => \A x \in files \cup DirsNow : IsPrefix(p, x) => x = p
  BY RenameIs DEF FanTyped
<1>2. /\ DOMAIN dirs' = DOMAIN dirs
      /\ \A i \in DOMAIN dirs : dirs'[i] = Renamed(p, q, dirs[i])
      /\ files' = {Renamed(p, q, r) : r \in files}
  BY RenamedDirs
<1>3. /\ FanTold("movedFrom", p) /\ movedTo' = <<e>> /\ e \in FanEvent /\ e.kinds = {"movedTo"}
  BY FanTells
<1>4. index' = index /\ movedTo = <<>> /\ Q = queue /\ Q' = Append(queue', e)
  BY <1>3, FanChange, FanLater
<1>5. misreported' = misreported \cup {r \in files' : backend = "fanotify" /\ IsStrictPrefix(q, r)}
  BY DEF Rename
<1>6. queue' \in Seq(FanEvent) /\ Queued(queue', e, Append(queue', e)) /\ "movedTo" \in Arrivals
  <2>1. queue' \in Seq(FanEvent)
    BY DEF FanTyped
  <2> QED
    BY <2>1 DEF Queued, Arrivals
<1>7. ASSUME NEW i \in DOMAIN dirs', NEW x \in files' \ misreported', dirs'[i] = Front(x)
      PROVE  Ok(Append(queue', e), i, Last(x), index[x] > 0)
  <2>1. PICK r \in files : x = Renamed(p, q, r)
    BY <1>2
  <2>2. r \in Path /\ i \in DOMAIN dirs /\ dirs[i] \in Path /\ dirs[i] \in DirsNow /\ r \notin DirsNow
    BY <1>2, DiskType DEF FanTyped
  <2>3. ~IsStrictPrefix(q, x) /\ x \notin misreported
    BY <1>5 DEF FanTyped
  <2>4. x \in Path /\ x # Root /\ x \in Paths
    <3>1. x \in files'
      OBVIOUS
    <3>2. files' \subseteq Paths
      BY DEF FanTyped, DiskInv, Paths
    <3> QED
      BY <3>1, <3>2, PathsType
  <2>5. ASSUME x = q, dirs[i] = Front(q) PROVE Ok(Append(queue', e), i, Last(x), index[x] > 0)
    <3>1. e.dir = i /\ e.name = Last(x)
      BY <1>1, <2>2, <2>5, FanAbout DEF FanTyped
    <3>2. (index[x] > 0) \in BOOLEAN
      OBVIOUS
    <3> HIDE DEF e
    <3> QED
      BY <1>3, <1>6, <3>1, <3>2, OkArrival
  <2>6. CASE IsPrefix(p, r)
    <3>1. IsPrefix(q, x)
      BY <1>1, <2>1, <2>2, <2>6, RenamedType
    <3>2. x = q
      BY <2>3, <3>1 DEF IsStrictPrefix
    <3>3. r = p
      <4>1. Renamed(q, p, Renamed(p, q, r)) = r
        BY <1>1, <2>2, <2>6, RenamedBack
      <4>2. Renamed(q, p, q) = p
        BY <1>1, RenamedTop
      <4> QED
        BY <2>1, <3>2, <4>1, <4>2
    <3>4. ~IsPrefix(p, dirs[i])
      BY <1>1, <2>2, <3>3
    <3>5. dirs[i] = Front(q)
      BY <1>1, <1>2, <1>7, <2>2, <3>2, <3>4, RenamedType
    <3> QED
      BY <2>5, <3>2, <3>5
  <2>7. CASE ~IsPrefix(p, r)
    <3>1. x = r
      BY <1>1, <2>1, <2>2, <2>7, RenamedType
    <3>2. ~IsPrefix(p, dirs[i])
      <4> SUFFICES ASSUME IsPrefix(p, dirs[i]) PROVE FALSE
        OBVIOUS
      <4>1. IsPrefix(q, Front(x))
        BY <1>1, <1>2, <1>7, <2>2, RenamedType
      <4>2. Front(x) \in Path /\ Last(x) \in STRING /\ x = Append(Front(x), Last(x))
        BY <2>4, EntryIs
      <4>3. IsPrefix(q, x)
        <5>1. \A d \in Path, n \in STRING : IsPrefix(q, d) => IsPrefix(q, Append(d, n))
          BY <1>1, PrefixAppend
        <5> QED
          BY <4>1, <4>2, <5>1
      <4>4. x # q
        BY <4>1, <4>2, AppendNotPrefix
      <4> QED
        BY <2>3, <4>3, <4>4 DEF IsStrictPrefix
    <3>3. dirs[i] = Front(x)
      BY <1>1, <1>2, <1>7, <2>2, <3>2, RenamedType
    <3>4. x # p
      BY <1>1, <2>7, <3>1, PrefixReflexive
    <3>5. Ok(queue', i, Last(x), index[x] > 0)
      BY <1>1, <1>3, <1>4, <2>2, <2>3, <3>1, <3>3, <3>4, FanFileOther
    <3>6. CASE x = q
      BY <2>5, <3>3, <3>6
    <3>7. CASE x # q
      <4>1. e.dir # i \/ e.name # Last(x)
        BY <1>1, <2>2, <2>4, <3>3, <3>7, FanAbout DEF FanTyped
      <4>5. (index[x] > 0) \in BOOLEAN
        OBVIOUS
      <4>2. PICK listed \in BOOLEAN : listed = (index[x] > 0)
        BY <4>5
      <4>3. Ok(queue', i, Last(x), listed)
        BY <3>5, <4>2
      <4> HIDE DEF e
      <4>4. Ok(Append(queue', e), i, Last(x), listed)
        BY <1>3, <1>6, <4>1, <4>3, OkOther
      <4> QED
        BY <4>2, <4>4
    <3> QED
      BY <3>6, <3>7
  <2> QED
    BY <2>6, <2>7
<1> QED
  BY <1>4, <1>7 DEF FanFile
LEMMA FanFileMoved ==
    ASSUME FanTyped, FanFile, FanTyped', QueueMovedTo
    PROVE  FanFile'
<1>1. UNCHANGED <<files, dirs, index, misreported>>
  BY FanMoves DEF disk
<1>2. PICK e \in FanEvent :
          /\ movedTo = <<e>> /\ e.kinds = {"movedTo"} /\ movedTo' = <<>>
          /\ Queued(queue, e, queue') /\ queue' \in Seq(FanEvent)
  BY FanMoves
<1>3. Q = Append(queue, e) /\ Q' = queue' /\ queue \in Seq(FanEvent)
  BY <1>2, FanQ, FanLater DEF FanTyped
<1>4. ASSUME NEW i \in DOMAIN dirs, NEW x \in files \ misreported, dirs[i] = Front(x)
      PROVE  Ok(queue', i, Last(x), index[x] > 0)
  <2>1. Ok(Append(queue, e), i, Last(x), index[x] > 0) /\ (index[x] > 0) \in BOOLEAN
    BY <1>3, <1>4 DEF FanFile
  <2>2. CASE e.dir = i /\ e.name = Last(x)
    <3>1. "movedTo" \in Arrivals
      BY DEF Arrivals
    <3> QED
      BY <1>2, <1>3, <2>1, <2>2, <3>1, OkArrival
  <2>3. CASE e.dir # i \/ e.name # Last(x)
    <3>2. PICK listed \in BOOLEAN : listed = (index[x] > 0)
      BY <2>1
    <3>3. Ok(Append(queue, e), i, Last(x), listed)
      BY <2>1, <3>2
    <3>4. Ok(queue, i, Last(x), listed)
      BY <1>2, <1>3, <2>3, <3>3, OkBut
    <3>1. Ok(queue', i, Last(x), listed)
      <4>1. Queued(queue, e, queue') /\ queue \in Seq(FanEvent)
        BY <1>2, <1>3
      <4> QED
        BY <2>3, <3>4, <4>1, OkOther
    <3> QED
      BY <3>1, <3>2
  <2> QED
    BY <2>2, <2>3
<1> QED
  BY <1>1, <1>3, <1>4 DEF FanFile

\* The first event is read: it was about another entry and took no row, or it
\* was about this one and either listed it or had an arrival behind it.
LEMMA OkShift ==
    ASSUME NEW s \in Seq(FanEvent), NEW t \in Seq(FanEvent), Len(s) \in Nat \ {0}, Len(t) = Len(s) - 1,
           \A k \in 1..Len(t) : t[k] = s[k + 1],
           NEW i, NEW n, NEW listed \in BOOLEAN, NEW now \in BOOLEAN, Ok(s, i, n, listed),
           \/ (s[1].dir # i \/ s[1].name # n) /\ (listed => now)
           \/ ~s[1].merged /\ now
           \/ ~s[1].merged /\ Of(s[1], Removals, i, n)
    PROVE  Ok(t, i, n, now)
<1>1. /\ \A k \in 1..Len(t) : t[k] = s[k + 1] /\ k + 1 \in 1..Len(s) /\ k + 1 > 1
      /\ \A k \in 1..Len(s) : k > 1 => k - 1 \in 1..Len(t) /\ t[k - 1] = s[k]
  OBVIOUS
<1>2. CASE \E k \in 1..Len(s) : s[k].merged /\ s[k].dir = i /\ s[k].name = n
  <2>1. PICK k \in 1..Len(s) : s[k].merged /\ s[k].dir = i /\ s[k].name = n
    BY <1>2
  <2>2. k # 1
    BY <2>1
  <2>3. k - 1 \in 1..Len(t) /\ t[k - 1] = s[k]
    BY <1>1, <2>2
  <2> QED
    BY <2>1, <2>3 DEF Ok
<1>3. CASE /\ listed \/ \E k \in 1..Len(s) : Of(s[k], Arrivals, i, n)
           /\ \A k \in 1..Len(s) : Of(s[k], Removals, i, n) =>
                  \E m \in 1..Len(s) : m > k /\ Of(s[m], Arrivals, i, n)
  <2>1. ASSUME NEW k \in 1..Len(t), Of(t[k], Removals, i, n)
        PROVE  \E m \in 1..Len(t) : m > k /\ Of(t[m], Arrivals, i, n)
    <3>1. k + 1 \in 1..Len(s) /\ Of(s[k + 1], Removals, i, n)
      BY <1>1, <2>1
    <3>2. PICK m \in 1..Len(s) : m > k + 1 /\ Of(s[m], Arrivals, i, n)
      BY <1>3, <3>1
    <3>3. m - 1 \in 1..Len(t) /\ t[m - 1] = s[m] /\ m - 1 > k
      BY <1>1, <3>2
    <3> QED
      BY <3>2, <3>3
  <2>2. now \/ \E k \in 1..Len(t) : Of(t[k], Arrivals, i, n)
    <3>1. ASSUME NEW k \in 1..Len(s), Of(s[k], Arrivals, i, n), k > 1
          PROVE  \E m \in 1..Len(t) : Of(t[m], Arrivals, i, n)
      BY <1>1, <3>1
    <3>2. CASE (s[1].dir # i \/ s[1].name # n) /\ (listed => now)
      <4>1. CASE listed
        BY <3>2, <4>1
      <4>2. ASSUME NEW k \in 1..Len(s), Of(s[k], Arrivals, i, n)
            PROVE  \E m \in 1..Len(t) : Of(t[m], Arrivals, i, n)
        <5>1. k # 1
          BY <3>2, <4>2 DEF Of
        <5> QED
          BY <3>1, <4>2, <5>1
      <4> QED
        BY <1>3, <4>1, <4>2
    <3>3. CASE Of(s[1], Removals, i, n)
      <4>1. PICK m \in 1..Len(s) : m > 1 /\ Of(s[m], Arrivals, i, n)
        BY <1>3, <3>3
      <4> QED
        BY <3>1, <4>1
    <3> QED
      BY <3>2, <3>3
  <2> QED
    BY <2>1, <2>2 DEF Ok
<1> QED
  BY <1>2, <1>3 DEF Ok

LEMMA FanFileRead ==
    ASSUME FanTyped, FanFile, FanTyped', ReadFanotify
    PROVE  FanFile'
<1> DEFINE e == Head(queue)
<1>1. /\ queue # <<>> /\ e \in FanEvent /\ queue' = Tail(queue) /\ queue' \in Seq(FanEvent)
      /\ UNCHANGED <<files, dirs, movedTo>>
  BY ReportIs DEF disk
<1>2. /\ Len(Q) \in Nat \ {0} /\ Q[1] = e /\ Len(Q') = Len(Q) - 1
      /\ \A k \in 1..Len(Q') : Q'[k] = Q[k + 1]
  <2>1. queue \in Seq(FanEvent) /\ movedTo \in Seq(FanEvent)
    BY FanQ DEF FanTyped
  <2> QED
    BY <1>1, <2>1, QueueShift
<1>3. Q \in Seq(FanEvent) /\ Q' \in Seq(FanEvent)
  BY FanQ, FanLater
<1>4. ASSUME NEW i \in DOMAIN dirs, NEW x \in files \ misreported', dirs[i] = Front(x)
      PROVE  Ok(Q', i, Last(x), index'[x] > 0)
  <2>1. x \in Paths /\ x \in Path /\ x # Root /\ x = Append(Front(x), Last(x))
    <3>1. x \in Paths
      BY DEF FanTyped, DiskInv, Paths
    <3> QED
      BY <3>1, PathsType, EntryIs
  <2>2. index[x] \in Nat /\ index'[x] \in Nat
    BY <2>1 DEF FanTyped, IndexType
  <2>3. x \notin misreported
    BY <1>4, ReportIs
  <2>4. Ok(Q, i, Last(x), index[x] > 0)
    BY <1>4, <2>3 DEF FanFile
  <2>5. \/ (e.dir # i \/ e.name # Last(x)) /\ index'[x] >= index[x]
        \/ ~e.merged /\ index'[x] > 0
        \/ ~e.merged /\ Of(e, Removals, i, Last(x))
    <3>1. CASE index' = index /\ e.dir \notin DOMAIN dirs
      BY <2>2, <3>1
    <3>2. ASSUME NEW path \in Path,
                 /\ e.dir \in DOMAIN dirs /\ path = Append(dirs[e.dir], e.name)
                 /\ misreported' = misreported \cup IF e.merged THEN {path} ELSE {}
                 /\ \/ /\ index' \in Rescanned(index, path)
                       /\ e.merged \/ \E y \in Arrivals : e.kinds = {y}
                    \/ /\ index' = Removed(index, path)
                       /\ e.merged \/ \E y \in Removals : e.kinds = {y}
                    \/ /\ index' \in Rescanned(Removed(index, path), path)
                       /\ e.merged \/ e.kinds = {"modify"}
          PROVE  \/ (e.dir # i \/ e.name # Last(x)) /\ index'[x] >= index[x]
                 \/ ~e.merged /\ index'[x] > 0
                 \/ ~e.merged /\ Of(e, Removals, i, Last(x))
      <4>1. index \in [Paths -> Nat] /\ Removed(index, path) \in [Paths -> Nat]
            /\ Removed(index, path)[x] = IF x = path /\ index[x] > 0 THEN index[x] - 1 ELSE index[x]
        <5>1. index \in [Paths -> Nat]
          BY DEF FanTyped, IndexType
        <5> QED
          BY <2>1, <5>1, RemovedIs
      <4>2. CASE x # path
        <5>1. e.dir # i \/ e.name # Last(x)
          BY <1>4, <2>1, <3>2, <4>2
        <5>2. Removed(index, path)[x] = index[x]
          BY <4>1, <4>2
        <5>3. index' \in Rescanned(index, path) => index'[x] \in {index[x], index[x] + 1}
          BY <2>1, <4>1, RescannedIs
        <5>4. index' \in Rescanned(Removed(index, path), path) =>
                  index'[x] \in {Removed(index, path)[x], Removed(index, path)[x] + 1}
          BY <2>1, <4>1, RescannedIs
        <5>5. index'[x] \in {index[x], index[x] + 1}
          BY <3>2, <5>2, <5>3, <5>4
        <5>6. index'[x] >= index[x]
          BY <2>2, <5>5
        <5> QED
          BY <5>1, <5>6
      <4>3. CASE x = path
        <5>1. e.dir = i /\ e.name = Last(x)
          <6>1. dirs[e.dir] \in Path /\ e.name \in STRING /\ dirs[i] \in Path /\ Last(x) \in STRING
            BY <1>1, <1>4, <2>1, <3>2, DiskType, EntryIs DEF FanTyped, FanEvent
          <6>2. Append(dirs[e.dir], e.name) = Append(dirs[i], Last(x))
            BY <1>4, <2>1, <3>2, <4>3
          <6>3. dirs[e.dir] = dirs[i] /\ e.name = Last(x)
            BY <6>1, <6>2, AppendInjects
          <6> QED
            BY <1>4, <3>2, <6>3 DEF FanTyped, DiskInv
        <5>2. ~e.merged
          BY <1>4, <3>2, <4>3
        <5>3. CASE index' \in Rescanned(index, path)
          <6>1. index' = Added(index, path)
            BY <1>4, <4>1, <4>3, <5>3, RescannedIs
          <6>2. index'[x] = index[x] + 1
            BY <2>1, <4>1, <4>3, <6>1, AddedIs
          <6> QED
            BY <2>2, <5>2, <6>2
        <5>4. CASE index' \in Rescanned(Removed(index, path), path)
          <6> DEFINE iy == Removed(index, path)
          <6>1. iy \in [Paths -> Nat] /\ iy[x] \in Nat
            BY <2>1, <4>1
          <6> HIDE DEF iy
          <6>2. index' \in Rescanned(iy, path)
            BY <5>4 DEF iy
          <6>3. index' = Added(iy, path)
            BY <1>4, <4>3, <6>1, <6>2, RescannedIs
          <6>4. index'[x] = iy[x] + 1
            BY <2>1, <4>3, <6>1, <6>3, AddedIs
          <6> QED
            BY <5>2, <6>1, <6>4
        <5>5. CASE \E y \in Removals : e.kinds = {y}
          <6>1. Of(e, Removals, i, Last(x))
            BY <5>1, <5>5 DEF Of
          <6> QED
            BY <5>2, <6>1
        <5> QED
          BY <3>2, <5>2, <5>3, <5>4, <5>5
      <4> QED
        BY <4>2, <4>3
    <3> HIDE DEF e
    <3>3. \/ index' = index /\ e.dir \notin DOMAIN dirs
          \/ \E path \in Path :
                 /\ e.dir \in DOMAIN dirs /\ path = Append(dirs[e.dir], e.name)
                 /\ misreported' = misreported \cup IF e.merged THEN {path} ELSE {}
                 /\ \/ /\ index' \in Rescanned(index, path)
                       /\ e.merged \/ \E y \in Arrivals : e.kinds = {y}
                    \/ /\ index' = Removed(index, path)
                       /\ e.merged \/ \E y \in Removals : e.kinds = {y}
                    \/ /\ index' \in Rescanned(Removed(index, path), path)
                       /\ e.merged \/ e.kinds = {"modify"}
      BY ReportIs DEF e
    <3> QED
      BY <3>1, <3>2, <3>3
  <2>6. /\ (index[x] > 0) \in BOOLEAN /\ (index'[x] > 0) \in BOOLEAN
        /\ index'[x] >= index[x] => (index[x] > 0 => index'[x] > 0)
    BY <2>2
  <2> HIDE DEF e
  <2>7. PICK s : s = Q
    OBVIOUS
  <2>8. PICK t : t = Q'
    OBVIOUS
  <2>9. PICK listed \in BOOLEAN : listed = (index[x] > 0)
    BY <2>6
  <2>10. PICK now \in BOOLEAN : now = (index'[x] > 0)
    BY <2>6
  <2>11. /\ s \in Seq(FanEvent) /\ t \in Seq(FanEvent) /\ Len(s) \in Nat \ {0} /\ Len(t) = Len(s) - 1
         /\ \A k \in 1..Len(t) : t[k] = s[k + 1]
         /\ s[1] = e
    BY <1>2, <1>3, <2>7, <2>8
  <2>12. Ok(s, i, Last(x), listed)
    BY <2>4, <2>7, <2>9
  <2>13. \/ (s[1].dir # i \/ s[1].name # Last(x)) /\ (listed => now)
         \/ ~s[1].merged /\ now
         \/ ~s[1].merged /\ Of(s[1], Removals, i, Last(x))
    BY <2>5, <2>6, <2>9, <2>10, <2>11
  <2>14. Ok(t, i, Last(x), now)
    BY <2>11, <2>12, <2>13, OkShift
  <2> QED
    BY <2>8, <2>10, <2>14
<1> QED
  BY <1>1, <1>4 DEF FanFile

LEMMA FanFileStep == FanTyped /\ FanFile /\ [Next]_vars => FanFile'
<1> SUFFICES ASSUME FanTyped, FanFile, [Next]_vars PROVE FanFile'
  OBVIOUS
<1>1. FanTyped'
  BY FanTypedStep
<1>2. CASE Others
  BY <1>1, <1>2, FanFileEntry, FanFileDir, FanFileRename DEF Others
<1>3. CASE QueueMovedTo
  BY <1>1, <1>3, FanFileMoved
<1>4. CASE ReadFanotify
  BY <1>1, <1>4, FanFileRead
<1>5. CASE UNCHANGED vars
  BY <1>5 DEF FanFile, Q, vars, disk, kernel, ghosts
<1> QED
  BY <1>2, <1>3, <1>4, <1>5, FanSteps

-----------------------------------------------------------------------------
(* Nothing is missing.                                                     *)

ListInv ==
    /\ backend \in {"inotify", "fanotify"}
    /\ Inotify => Typed /\ TableInv /\ PairInv /\ RemInv /\ PendInv /\ FileInv
    /\ backend = "fanotify" => FanTyped /\ FanFile

LEMMA StartListed ==
    ASSUME Init
    PROVE  /\ backend \in {"inotify", "fanotify"} /\ Q = <<>> /\ Len(Q) = 0 /\ DOMAIN pendingMovedFrom = {}
           /\ index \in [Paths -> Nat] /\ \A p \in files : p \in Paths /\ index[p] = 1
<1>1. /\ files = Start \cap FilePaths /\ queue = <<>> /\ movedTo = <<>> /\ pendingMovedFrom = <<>>
      /\ index = [p \in Paths |-> IF p \in Start THEN 1 ELSE 0]
      /\ backend \in {ChooseMonitor(markable) : markable \in BOOLEAN}
  BY DEF Init
<1>2. backend \in {"inotify", "fanotify"}
  BY <1>1 DEF ChooseMonitor
<1>3. Q = <<>> /\ Len(Q) = 0
  BY <1>1 DEF Q
<1> QED
  BY <1>1, <1>2, <1>3, StartAssumption

LEMMA FanInit == Init /\ backend = "fanotify" => FanTyped /\ FanFile
<1> SUFFICES ASSUME Init, backend = "fanotify" PROVE FanTyped /\ FanFile
  OBVIOUS
<1>1. /\ queue = <<>> /\ movedTo = <<>> /\ batch = TRUE /\ pendingMovedFrom = <<>>
      /\ toWatch = <<>> /\ walkRoot = None /\ toEmit = <<>>
  BY DEF Init
<1>2. DiskInv /\ IndexType
  BY DiskInit, StartListed DEF IndexType
<1>3. watches = <<>>
  BY DEF Init
<1>4. queue \in Seq(FanEvent)
  BY <1>1, EmptySeq
<1>5. FanTyped
  BY <1>1, <1>2, <1>3, <1>4 DEF FanTyped, Idle
<1>6. FanFile
  <2> SUFFICES ASSUME NEW i \in DOMAIN dirs, NEW x \in files PROVE Ok(Q, i, Last(x), index[x] > 0)
    BY DEF FanFile
  <2>1. index[x] > 0
    BY StartListed
  <2>2. 1..Len(Q) = {}
    BY StartListed
  <2> QED
    BY <2>1, <2>2 DEF Ok
<1> QED
  BY <1>5, <1>6

LEMMA ListInit == Init => ListInv
<1> SUFFICES ASSUME Init PROVE ListInv
  OBVIOUS
<1>1. backend \in {"inotify", "fanotify"} /\ 1..Len(Q) = {} /\ DOMAIN pendingMovedFrom = {}
  BY StartListed
<1>2. PairInv /\ RemInv /\ PendInv
  BY <1>1 DEF PairInv, RemInv, PendInv
<1>3. FileInv
  BY StartListed DEF FileInv
<1> QED
  BY <1>1, <1>2, <1>3, TypedInit, FanInit DEF ListInv

\* The monitor is the one that was chosen.
LEMMA BackendStays == [Next]_vars => backend' = backend
<1> SUFFICES ASSUME [Next]_vars PROVE backend' = backend
  OBVIOUS
<1> USE DEF Change, kernel, vars, notWalk
<1>1. CASE Others
  BY <1>1 DEF Others, Create, Modify, Delete, MakeDir, RemoveDir, Rename
<1>2. CASE QueueMovedTo
  BY <1>2 DEF QueueMovedTo
<1>3. CASE ReadFanotify \/ HandleEvent
  BY <1>3 DEF ReadFanotify, HandleEvent
<1>4. CASE EndBatch \/ WatchNext \/ ReadSubtree \/ EmitNext
  BY <1>4 DEF EndBatch, WatchNext, ReadSubtree, EmitNext
<1>5. ASSUME NEW cookie, Leave(cookie) PROVE backend' = backend
  BY <1>5 DEF Leave
<1>6. CASE Rest \/ UNCHANGED vars
  BY <1>6 DEF Rest
<1> QED
  BY <1>1, <1>2, <1>3, <1>4, <1>5, <1>6 DEF Next, Watcher

LEMMA ListStep == ListInv /\ [Next]_vars => ListInv'
<1> SUFFICES ASSUME ListInv, [Next]_vars PROVE ListInv'
  OBVIOUS
<1>1. backend' = backend
  BY BackendStays
<1>2. ASSUME Inotify' PROVE (Typed /\ TableInv /\ PairInv /\ RemInv /\ PendInv /\ FileInv)'
  <2>1. Inotify /\ InotifyNext
    BY <1>2, InotifySteps
  <2>2. Typed /\ TableInv /\ PairInv /\ RemInv /\ PendInv /\ FileInv
    BY <2>1 DEF ListInv
  <2>3. Typed' /\ TableInv'
    BY <1>2, <2>2, TypedStep, TableStep
  <2>4. PairInv' /\ RemInv' /\ PendInv'
    BY <2>1, <2>2, PairStep, RemStep, PendStep
  <2>5. FileInv'
    BY <1>2, <2>2, FileStep
  <2> QED
    BY <2>3, <2>4, <2>5
<1>3. ASSUME backend = "fanotify" PROVE (FanTyped /\ FanFile)'
  BY <1>3, FanTypedStep, FanFileStep DEF ListInv
<1> QED
  BY <1>1, <1>2, <1>3 DEF ListInv

LEMMA ListInvHolds == Spec => []ListInv
BY ListInit, ListStep, PTL DEF Spec

\* Once the events are handled every file is listed that no event was taken
\* for in error, with either monitor and however the files and directories
\* were made, removed, renamed and overwritten: the events of InotifyWatcher
\* with its walks of new directories, and those of FanotifyMonitor with their
\* handles, applied by Indexer::ApplyChangeEvent.
THEOREM NothingMissingHolds == Spec => []NothingMissing
<1>1. ListInv => NothingMissing
  <2> SUFFICES ASSUME ListInv, Settled, gaps = {}, NEW p \in files \ misreported
               PROVE  index[p] > 0
    BY DEF NothingMissing
  <2>1. Q = <<>> /\ walkRoot = None /\ toEmit = <<>>
    BY DEF Settled, Idle, Q
  <2>2. 1..Len(Q) = {}
    BY <2>1
  <2>3. CASE backend = "inotify"
    <3>1. FileInv
      BY <2>3 DEF ListInv, Inotify
    <3>2. ~Sent(p)
      BY <2>2 DEF Sent
    <3>3. ~WalkTo(p)
      BY <2>1 DEF WalkTo, Range
    <3> QED
      BY <3>1, <3>2, <3>3 DEF FileInv
  <2>4. CASE backend = "fanotify"
    <3>1. FanTyped /\ FanFile
      BY <2>4 DEF ListInv
    <3>6. PICK i \in DOMAIN dirs : dirs[i] = Front(p)
      BY <3>1, FrontThere DEF FanTyped
    <3>7. Ok(Q, i, Last(p), index[p] > 0)
      BY <3>1, <3>6 DEF FanFile
    <3> QED
      BY <2>2, <3>7 DEF Ok
  <2> QED
    BY <2>3, <2>4 DEF ListInv
<1> QED
  BY <1>1, ListInvHolds, PTL

-----------------------------------------------------------------------------
(* inotify: where the events of a file not in doubt are about.             *)

Tells == Arrivals \cup {"modify"}
Sure == FilePaths \ doubtful

\* What a rename does to a file it does not put in doubt.
LEMMA SureRename ==
    ASSUME DiskInv, NEW p \in Paths, NEW q \in Paths, Rename(p, q), NEW x \in Sure'
    PROVE  /\ x \in Sure
           /\ \A j \in DOMAIN dirs : IsPrefix(p, dirs[j]) =>
                  ~IsPrefix(dirs[j], x) /\ ~IsPrefix(dirs'[j], x)
           /\ \A j \in DOMAIN dirs : ~IsPrefix(p, dirs[j]) => dirs'[j] = dirs[j]
           /\ x \in files => x # q
           /\ x \in files' <=> (x \in files /\ x # p) \/ x = q
<1>0. x \in FilePaths /\ x \in Path /\ x \notin doubtful'
  BY SureType DEF Sure
<1>1. /\ p \in Path /\ q \in Path /\ p # q
      /\ \A r \in files \cup DirsNow : IsPrefix(q, r) => r = q /\ q \in files
      /\ p \in files => \A r \in files \cup DirsNow : IsPrefix(p, r) => r = p
      /\ p \in files => q \in FilePaths
      /\ p \notin files => p \in DirsNow /\ q \in DirPaths /\ q \notin files
  BY RenameIs
<1>2. doubtful' = doubtful \cup (files \cap {q}) \cup
                   {r \in FilePaths : p \in DirsNow /\ (IsStrictPrefix(p, r) \/ IsStrictPrefix(q, r))}
  BY DEF Rename
<1>3. x \in Sure /\ (x \in files => x # q)
  BY <1>0, <1>2 DEF Sure
<1>4. p \in DirsNow => ~IsStrictPrefix(p, x) /\ ~IsStrictPrefix(q, x)
  BY <1>0, <1>2
<1>5. \A i \in DOMAIN dirs : dirs[i] \in Path /\ dirs[i] \in DirsNow
  BY DiskType
<1>6. \A f \in files : f \in Path /\ f \notin DirsNow /\ f \in FilePaths
  BY DiskType DEF DiskInv
<1>7. DirsNow \subseteq DirPaths \cup {Root} /\ x \notin DirPaths /\ x # Root
  BY <1>0, SureType DEF DiskInv
<1>8. ASSUME NEW j \in DOMAIN dirs, IsPrefix(p, dirs[j])
      PROVE  ~IsPrefix(dirs[j], x) /\ ~IsPrefix(dirs'[j], x)
  <2>1. p \notin files
    BY <1>1, <1>5, <1>6, <1>8
  <2>2. p \in DirsNow /\ q \in DirPaths
    BY <1>1, <2>1
  <2>3. p # x /\ q # x
    BY <1>7, <2>2
  <2>4. ~IsPrefix(p, x) /\ ~IsPrefix(q, x)
    BY <1>4, <2>2, <2>3 DEF IsStrictPrefix
  <2>5. PICK d \in Path : d = dirs[j]
    BY <1>5
  <2>6. dirs'[j] = Renamed(p, q, d)
    BY <2>5, RenamedDirs
  <2>7. Renamed(p, q, d) \in Path /\ IsPrefix(q, Renamed(p, q, d))
    BY <1>1, <1>8, <2>5, RenamedType
  <2> QED
    BY <1>0, <1>1, <1>8, <2>4, <2>5, <2>6, <2>7, PrefixTransitive
<1>9. ASSUME NEW j \in DOMAIN dirs, ~IsPrefix(p, dirs[j]) PROVE dirs'[j] = dirs[j]
  <2>1. dirs'[j] = Renamed(p, q, dirs[j])
    BY RenamedDirs
  <2> QED
    BY <1>1, <1>5, <1>9, <2>1, RenamedType
<1>10. files' = {Renamed(p, q, r) : r \in files}
  BY RenamedDirs
<1>11. ASSUME x \in files, x # p PROVE x \in files'
  <2>1. ~IsPrefix(p, x)
    <3>1. CASE p \in files
      BY <1>1, <1>11, <3>1
    <3>2. CASE p \notin files
      BY <1>1, <1>4, <1>11, <3>2 DEF IsStrictPrefix
    <3> QED
      BY <3>1, <3>2
  <2>2. Renamed(p, q, x) = x
    BY <1>0, <1>1, <2>1, RenamedType
  <2> QED
    BY <1>10, <1>11, <2>2
<1>12. ASSUME x = q PROVE x \in files'
  <2>1. p \in files
    BY <1>1, <1>7, <1>12
  <2>2. Renamed(p, q, p) = q
    BY <1>1, RenamedTop
  <2> QED
    BY <1>10, <1>12, <2>1, <2>2
<1>13. ASSUME x \in files', x # q PROVE x \in files /\ x # p
  <2>1. PICK r \in files : x = Renamed(p, q, r)
    BY <1>10, <1>13
  <2>2. r \in Path
    BY <1>6
  <2>3. ~IsPrefix(p, r)
    <3> SUFFICES ASSUME IsPrefix(p, r) PROVE FALSE
      OBVIOUS
    <3>1. IsPrefix(q, x)
      BY <1>1, <2>1, <2>2, RenamedType
    <3>2. p \notin DirsNow
      BY <1>4, <1>13, <3>1 DEF IsStrictPrefix
    <3>3. p \in files /\ r = p
      BY <1>1, <3>2
    <3>4. x = q
      BY <1>1, <2>1, <3>3, RenamedTop
    <3> QED
      BY <1>13, <3>4
  <2>4. x = r
    BY <1>1, <2>1, <2>2, <2>3, RenamedType
  <2>5. x # p
    BY <1>1, <2>3, <2>4, PrefixReflexive
  <2> QED
    BY <2>4, <2>5
<1> QED
  BY <1>3, <1>8, <1>9, <1>11, <1>12, <1>13


\* Events of a watch that is gone end with "ignored".
LastInv == \A k, m \in 1..Len(Q) : Q[k].kind = "ignored" /\ m > k => Q[m].wd # Q[k].wd

\* The table has the watch wd under the directory of x.
At(wd, x) == wd \in DOMAIN wdToPath /\ wdToPath[wd] = Front(x)

\* The watches the table has under the directory of a file not in doubt are on
\* that directory.
Home == \A x \in Sure, i \in DOMAIN watches : At(watches[i], x) <=> dirs[i] = Front(x)

\* There is something under the name in the directory of the watch.
Exists(wd, n) ==
    \E i \in DOMAIN watches : watches[i] = wd /\ Append(dirs[i], n) \in files \cup DirsNow

\* If what arrived is gone, its removal follows.
ArrInv ==
    \A k \in 1..Len(Q) : Q[k].kind \in Tells /\ ~Exists(Q[k].wd, Q[k].name) =>
        \E m \in 1..Len(Q) :
            m > k /\ Q[m].kind \in Removals /\ Q[m].wd = Q[k].wd /\ Q[m].name = Q[k].name

\* New events are of watches there are, and "ignored" is the last of its watch.
LEMMA NewWd ==
    ASSUME Typed, Others, NEW k \in 1..Len(Q'), k > Len(Q)
    PROVE  \E i \in DOMAIN watches : Q'[k].wd = watches[i]
<1>0. DiskInv /\ QueueType /\ WatchType /\ backend = "inotify"
  BY DEF Typed
<1>1. ASSUME NEW p \in FilePaths, Create(p) \/ Modify(p) \/ Delete(p)
      PROVE  \E i \in DOMAIN watches : Q'[k].wd = watches[i]
  <2>1. p \in Paths
    BY DEF Paths
  <2>2. Told("create", p, 0) \/ Told("modify", p, 0) \/ Told("delete", p, 0)
    BY <1>0, <1>1, <2>1, OneTold DEF Create, Modify, Delete, InotifyKinds
  <2> QED
    BY <2>2, EvIs DEF Told
<1>2. ASSUME NEW p \in DirPaths, MakeDir(p) PROVE \E i \in DOMAIN watches : Q'[k].wd = watches[i]
  <2>1. p \in Paths
    BY DEF Paths
  <2>2. Told("create", p, 0)
    BY <1>0, <1>2, <2>1, OneTold DEF MakeDir, InotifyKinds
  <2> QED
    BY <2>2, EvIs DEF Told
<1>3. ASSUME NEW p \in DirPaths, RemoveDir(p) PROVE \E i \in DOMAIN watches : Q'[k].wd = watches[i]
  <2>1. \/ \E i \in DOMAIN watches : Q'[k] = Ev("delete", i, p, 0)
        \/ Inode(p) \in DOMAIN watches /\ Q'[k].wd = watches[Inode(p)]
    BY <1>0, <1>3, RemoveDirTold
  <2> QED
    BY <2>1, EvIs
<1>4. ASSUME NEW p \in Paths, NEW q \in Paths, Rename(p, q)
      PROVE  \E i \in DOMAIN watches : Q'[k].wd = watches[i]
  <2>1. RenameTold(p, q)
    BY <1>0, <1>4, RenameTells
  <2>2. \/ \E i \in DOMAIN watches : Q'[k] = Ev("movedFrom", i, p, changes + 1)
        \/ \E i \in DOMAIN watches : Q'[k] = Ev("movedTo", i, q, changes + 1)
    BY <2>1 DEF RenameTold
  <2> QED
    BY <2>2, EvIs
<1> QED
  BY <1>1, <1>2, <1>3, <1>4 DEF Others

LEMMA NewIgnored ==
    ASSUME Typed, Others, NEW k \in 1..Len(Q'), k > Len(Q), Q'[k].kind = "ignored", NEW m \in 1..Len(Q'), m > k
    PROVE  FALSE
<1>0. DiskInv /\ QueueType /\ WatchType /\ backend = "inotify"
  BY DEF Typed
<1>1. ASSUME NEW p \in FilePaths, Create(p) \/ Modify(p) \/ Delete(p) PROVE FALSE
  <2>1. p \in Paths
    BY DEF Paths
  <2>2. Told("create", p, 0) \/ Told("modify", p, 0) \/ Told("delete", p, 0)
    BY <1>0, <1>1, <2>1, OneTold DEF Create, Modify, Delete, InotifyKinds
  <2> QED
    BY <2>2, EvIs DEF Told
<1>2. ASSUME NEW p \in DirPaths, MakeDir(p) PROVE FALSE
  <2>1. p \in Paths
    BY DEF Paths
  <2>2. Told("create", p, 0)
    BY <1>0, <1>2, <2>1, OneTold DEF MakeDir, InotifyKinds
  <2> QED
    BY <2>2, EvIs DEF Told
<1>3. ASSUME NEW p \in DirPaths, RemoveDir(p) PROVE FALSE
  <2>1. \A i : Q'[k] # Ev("delete", i, p, 0)
    BY EvIs
  <2>2. k = Len(Q')
    BY <1>0, <1>3, <2>1, RemoveDirTold
  <2> QED
    BY <2>2
<1>4. ASSUME NEW p \in Paths, NEW q \in Paths, Rename(p, q) PROVE FALSE
  <2>1. RenameTold(p, q)
    BY <1>0, <1>4, RenameTells
  <2>2. \/ \E i \in DOMAIN watches : Q'[k] = Ev("movedFrom", i, p, changes + 1)
        \/ \E i \in DOMAIN watches : Q'[k] = Ev("movedTo", i, q, changes + 1)
    BY <2>1 DEF RenameTold
  <2> QED
    BY <2>2, EvIs
<1> QED
  BY <1>1, <1>2, <1>3, <1>4 DEF Others


LEMMA LastStep == Typed /\ LastInv /\ InotifyNext => LastInv'
<1> SUFFICES ASSUME Typed, LastInv, InotifyNext PROVE LastInv'
  OBVIOUS
<1>0. DiskInv /\ QueueType /\ backend = "inotify" /\ Len(Q) \in Nat
  BY QType DEF Typed
<1>1. CASE Others
  <2>1. \A k \in 1..Len(Q) : k \in 1..Len(Q') /\ Q'[k] = Q[k]
    BY <1>0, <1>1, OthersKeep DEF Later
  <2>2. ASSUME NEW k \in 1..Len(Q'), NEW m \in 1..Len(Q'), Q'[k].kind = "ignored", m > k
        PROVE  Q'[m].wd # Q'[k].wd
    <3>1. ~(k > Len(Q))
      BY <1>1, <2>2, NewIgnored
    <3>2. k \in 1..Len(Q) /\ Q'[k] = Q[k]
      BY <1>0, <2>1, <3>1
    <3>3. CASE m \in 1..Len(Q)
      BY <2>1, <2>2, <3>2, <3>3 DEF LastInv
    <3>4. CASE m > Len(Q)
      <4>1. PICK i \in DOMAIN watches : Q'[m].wd = watches[i]
        BY <1>1, <3>4, NewWd
      <4> QED
        BY <2>2, <3>2, <4>1 DEF Typed, IgnInv
    <3> QED
      BY <1>0, <3>3, <3>4
  <2> QED
    BY <2>2 DEF LastInv
<1>2. CASE HandleEvent
  <2>1. \A k \in 1..Len(Q') : Q'[k] = Q[k + 1] /\ k + 1 \in 1..Len(Q) /\ k \in Int
    BY <1>0, <1>2, HandleShift
  <2>2. ASSUME NEW k \in 1..Len(Q'), NEW m \in 1..Len(Q'), Q'[k].kind = "ignored", m > k
        PROVE  Q'[m].wd # Q'[k].wd
    <3>1. m + 1 > k + 1
      BY <2>1, <2>2
    <3> QED
      BY <2>1, <2>2, <3>1 DEF LastInv
  <2> QED
    BY <2>2 DEF LastInv
<1>3. CASE QueueMovedTo \/ EndBatch \/ WatchNext \/ ReadSubtree \/ EmitNext \/ UNCHANGED vars
  <2>1. Q' = Q
    BY <1>0, <1>3, SameQueue
  <2> QED
    BY <2>1 DEF LastInv
<1> QED
  BY <1>1, <1>2, <1>3 DEF InotifyNext, Others

LEMMA DoubtGrows == InotifyNext => doubtful \subseteq doubtful' /\ Sure' \subseteq Sure
<1> SUFFICES ASSUME InotifyNext PROVE doubtful \subseteq doubtful'
  BY DEF Sure
<1>1. CASE \E p \in FilePaths : Create(p) \/ Modify(p) \/ Delete(p)
  BY <1>1 DEF Create, Modify, Delete, ghosts
<1>2. CASE \E p \in DirPaths : MakeDir(p) \/ RemoveDir(p)
  BY <1>2 DEF MakeDir, RemoveDir, ghosts
<1>3. CASE \E p, q \in Paths : Rename(p, q)
  BY <1>3 DEF Rename
<1>4. CASE HandleEvent
  <2>1. \A path : ApplyAdded(path) \/ ApplyModified(path) => doubtful \subseteq doubtful'
    BY DEF ApplyAdded, ApplyModified, DoubtBelow
  <2>2. \A p, q : ApplyRemoved(p) \/ ApplyRenamed(p, q) => doubtful \subseteq doubtful'
    BY DEF ApplyRemoved, ApplyRenamed
  <2>3. Handle(Head(queue))
    BY <1>4 DEF HandleEvent
  <2> QED
    BY <2>1, <2>2, <2>3 DEF Handle, HandleIgnored, HandleUntracked, HandleCreate, HandleDelete, HandleModify,
       HandleMovedFrom, HandleMovedTo
<1>5. CASE WatchNext \/ EmitNext
  BY <1>5 DEF WatchNext, EmitNext
<1>6. CASE QueueMovedTo \/ EndBatch \/ ReadSubtree \/ UNCHANGED vars
  BY <1>6 DEF QueueMovedTo, EndBatch, ReadSubtree, vars, ghosts
<1> QED
  BY <1>1, <1>2, <1>3, <1>4, <1>5, <1>6 DEF InotifyNext

\* What an event does to the table: only the end of a watch takes it out.
LEMMA HandleTable ==
    ASSUME Typed, HandleEvent
    PROVE  /\ DOMAIN wdToPath' \subseteq DOMAIN wdToPath
           /\ \A wd \in DOMAIN wdToPath' : wdToPath'[wd] = wdToPath[wd]
           /\ \A wd \in DOMAIN wdToPath \ DOMAIN wdToPath' : Q[1].kind = "ignored" /\ Q[1].wd = wd
<1>1. CASE HandleIgnored(Q[1])
  <2>1. Q[1].kind = "ignored" /\ (wdToPath' = Without(wdToPath, Q[1].wd) \/ wdToPath' = wdToPath)
    BY <1>1 DEF HandleIgnored, RemoveByWd, table
  <2>2. /\ DOMAIN Without(wdToPath, Q[1].wd) = DOMAIN wdToPath \ {Q[1].wd}
        /\ \A z \in DOMAIN wdToPath \ {Q[1].wd} : Without(wdToPath, Q[1].wd)[z] = wdToPath[z]
    BY WithoutIs
  <2> QED
    BY <2>1, <2>2
<1>2. CASE HandleUntracked(Q[1])
  BY <1>2 DEF HandleUntracked, table
<1>3. CASE UNCHANGED table
  BY <1>3 DEF table
<1> QED
  BY <1>1, <1>2, <1>3, HandleIs

\* A walk watches directories, and the table has them at their paths.
LEMMA WatchNextTable ==
    ASSUME Typed, WatchNext
    PROVE  \/ UNCHANGED <<watches, wdToPath>>
           \/ \E i \in DOMAIN dirs :
                  /\ DOMAIN watches' = DOMAIN watches \cup {i}
                  /\ \A j \in DOMAIN watches : watches'[j] = watches[j]
                  /\ wdToPath'[watches'[i]] = dirs[i]
                  /\ DOMAIN wdToPath' = DOMAIN wdToPath \cup {watches'[i]}
                  /\ \A wd \in DOMAIN wdToPath : wd # watches'[i] => wdToPath'[wd] = wdToPath[wd]
                  /\ i \notin DOMAIN watches => \A k \in 1..Len(Q) : Q[k].wd # watches'[i]
<1>0. DiskInv /\ QueueType /\ WatchType /\ backend = "inotify"
  BY DEF Typed
<1>1. CASE Head(toWatch) \in DirsNow
  <2>1. PICK path \in DirsNow : AddWatch(path)
    BY <1>1 DEF WatchNext
  <2>2. PICK i \in DOMAIN dirs :
               /\ dirs[i] = path
               /\ DOMAIN watches' = DOMAIN watches \cup {i}
               /\ \A j \in DOMAIN watches : watches'[j] = watches[j]
               /\ \A j \in DOMAIN watches : j # i => wdToPath'[watches[j]] = wdToPath[watches[j]]
               /\ wdToPath'[watches'[i]] = path
               /\ DOMAIN wdToPath' = DOMAIN wdToPath \cup {watches'[i]}
               /\ \A wd \in DOMAIN wdToPath : wd # watches'[i] => wdToPath'[wd] = wdToPath[wd]
               /\ i \notin DOMAIN watches => \A k \in 1..Len(Q) : Q[k].wd # watches'[i]
    BY <1>0, <2>1, AddWatchIs
  <2> QED
    BY <2>2
<1>2. CASE Head(toWatch) \notin DirsNow
  BY <1>2 DEF WatchNext, table
<1> QED
  BY <1>1, <1>2

LEMMA HomeStep == Typed /\ Home /\ InotifyNext => Home'
<1> SUFFICES ASSUME Typed, Home, InotifyNext, NEW x \in Sure', NEW i \in DOMAIN watches'
             PROVE  At(watches[i], x)' <=> dirs'[i] = Front(x)
  BY DEF Home
<1>0. /\ DiskInv /\ QueueType /\ WatchType /\ backend = "inotify" /\ IgnInv
      /\ Len(Q) \in Nat /\ x \in Sure /\ x \in FilePaths
  BY QType, DoubtGrows DEF Typed, Sure
<1>1. \A j \in DOMAIN watches : j \in DOMAIN dirs /\ (At(watches[j], x) <=> dirs[j] = Front(x))
  BY <1>0 DEF Home, WatchType
<1>2. CASE \E p \in FilePaths : Create(p) \/ Modify(p) \/ Delete(p)
  <2>1. UNCHANGED <<dirs, watches, wdToPath>>
    BY <1>2 DEF Create, Modify, Delete, Change, table
  <2> QED
    BY <1>1, <2>1 DEF At
<1>3. ASSUME NEW p \in DirPaths, MakeDir(p) PROVE At(watches[i], x)' <=> dirs'[i] = Front(x)
  <2>1. UNCHANGED <<watches, wdToPath>> /\ \A j \in DOMAIN dirs : dirs'[j] = dirs[j]
    BY <1>0, <1>3, MakeDirIs DEF table
  <2> QED
    BY <1>1, <2>1 DEF At
<1>4. ASSUME NEW p \in DirPaths, RemoveDir(p) PROVE At(watches[i], x)' <=> dirs'[i] = Front(x)
  <2>1. /\ DOMAIN dirs' = DOMAIN dirs \ {Inode(p)} /\ wdToPath' = wdToPath
        /\ \A j \in DOMAIN dirs' : dirs'[j] = dirs[j]
        /\ DOMAIN watches' = DOMAIN watches \ {Inode(p)}
        /\ \A j \in DOMAIN watches' : watches'[j] = watches[j]
    BY <1>0, <1>4, RemoveDirIs DEF table
  <2> QED
    BY <1>1, <2>1 DEF At
<1>5. ASSUME NEW p \in Paths, NEW q \in Paths, Rename(p, q)
      PROVE  At(watches[i], x)' <=> dirs'[i] = Front(x)
  <2>1. UNCHANGED <<watches, wdToPath>>
    BY <1>5 DEF Rename, Change, table
  <2>2. IsPrefix(p, dirs[i]) => ~IsPrefix(dirs[i], x) /\ ~IsPrefix(dirs'[i], x)
    BY <1>0, <1>1, <1>5, <2>1, SureRename
  <2>3. ~IsPrefix(p, dirs[i]) => dirs'[i] = dirs[i]
    BY <1>0, <1>1, <1>5, <2>1, SureRename
  <2>4. IsPrefix(Front(x), x)
    BY <1>0, SureType DEF IsStrictPrefix
  <2>5. dirs'[i] = Front(x) <=> dirs[i] = Front(x)
    BY <2>2, <2>3, <2>4
  <2> QED
    BY <1>1, <2>1, <2>5 DEF At
<1>6. CASE HandleEvent
  <2>1. UNCHANGED <<dirs, watches>>
    BY <1>6, HandleIs DEF disk
  <2>2. 1 \in 1..Len(Q)
    BY <1>0, <1>6, HandleShift
  <2>3. watches[i] \in DOMAIN wdToPath'
    <3>1. watches[i] \in DOMAIN wdToPath
      BY <1>0, <2>1 DEF WatchType
    <3>2. ~(Q[1].kind = "ignored" /\ Q[1].wd = watches[i])
      BY <1>0, <2>1, <2>2 DEF IgnInv
    <3> QED
      BY <1>6, <3>1, <3>2, HandleTable
  <2>4. watches[i] \in DOMAIN wdToPath /\ wdToPath'[watches[i]] = wdToPath[watches[i]]
    BY <1>6, <2>3, HandleTable
  <2> QED
    BY <1>1, <2>1, <2>3, <2>4 DEF At
<1>7. CASE WatchNext
  <2>1. UNCHANGED dirs
    BY <1>7 DEF WatchNext, notWalk, disk
  <2>2. CASE UNCHANGED <<watches, wdToPath>>
    BY <1>1, <2>1, <2>2 DEF At
  <2>3. ASSUME NEW c \in DOMAIN dirs,
                  DOMAIN watches' = DOMAIN watches \cup {c},
                  \A j \in DOMAIN watches : watches'[j] = watches[j],
                  wdToPath'[watches'[c]] = dirs[c],
                  DOMAIN wdToPath' = DOMAIN wdToPath \cup {watches'[c]},
                  \A wd \in DOMAIN wdToPath : wd # watches'[c] => wdToPath'[wd] = wdToPath[wd]
        PROVE  At(watches[i], x)' <=> dirs'[i] = Front(x)
    <3>1. CASE i = c
      BY <2>1, <2>3, <3>1 DEF At
    <3>2. CASE i # c
      <4>1. i \in DOMAIN watches /\ watches'[i] = watches[i] /\ watches[i] \in DOMAIN wdToPath
        BY <1>0, <2>3, <3>2 DEF WatchType
      <4>2. CASE watches[i] # watches'[c]
        <5>1. wdToPath'[watches'[i]] = wdToPath[watches[i]] /\ watches'[i] \in DOMAIN wdToPath'
          BY <2>3, <4>1, <4>2
        <5> QED
          BY <1>1, <2>1, <4>1, <5>1 DEF At
      <4>3. CASE watches[i] = watches'[c]
        <5>1. WatchType'
          BY WatchTypeStep
        <5> QED
          BY <2>3, <3>2, <4>1, <4>3, <5>1 DEF WatchType
      <4> QED
        BY <4>2, <4>3
    <3> QED
      BY <3>1, <3>2
  <2> QED
    BY <1>7, <2>2, <2>3, WatchNextTable
<1>8. CASE QueueMovedTo \/ EndBatch \/ ReadSubtree \/ EmitNext \/ UNCHANGED vars
  <2>1. UNCHANGED <<dirs, watches, wdToPath>>
    BY <1>8 DEF QueueMovedTo, EndBatch, ReadSubtree, EmitNext, vars, notWalk, disk, kernel, table
  <2> QED
    BY <1>1, <2>1 DEF At
<1> QED
  BY <1>2, <1>3, <1>4, <1>5, <1>6, <1>7, <1>8 DEF InotifyNext

LEMMA MovedThere ==
    ASSUME DiskInv, NEW p \in Paths, NEW q \in Paths, Rename(p, q), NEW y \in files \cup DirsNow
    PROVE  Renamed(p, q, y) \in files' \cup DirsNow'
<1>1. /\ DOMAIN dirs' = DOMAIN dirs /\ \A i \in DOMAIN dirs : dirs'[i] = Renamed(p, q, dirs[i])
      /\ files' = {Renamed(p, q, r) : r \in files}
  BY RenamedDirs
<1>2. CASE y \in files
  BY <1>1, <1>2
<1>3. CASE y \in DirsNow
  <2>1. PICK j \in DOMAIN dirs : dirs[j] = y
    BY <1>3, DirsNowIs
  <2>2. j \in DOMAIN dirs' /\ dirs'[j] = Renamed(p, q, y)
    BY <1>1, <2>1
  <2> QED
    BY <2>2 DEF DirsNow, Range
<1> QED
  BY <1>2, <1>3

\* What a change tells has arrived, has.
LEMMA TellsExists ==
    ASSUME Typed, Others, NEW k \in 1..Len(Q'), k > Len(Q), Q'[k].kind \in Tells,
           NEW wd, wd = Q'[k].wd, NEW n, n = Q'[k].name
    PROVE  Exists(wd, n)'
<1>0. DiskInv /\ QueueType /\ WatchType /\ backend = "inotify" /\ \A i \in DOMAIN dirs : dirs[i] \in Path
  BY DiskType DEF Typed
<1>1. ASSUME NEW p \in FilePaths, Create(p) \/ Modify(p) PROVE Exists(wd, n)'
  <2>1. p \in Paths /\ p = Append(Front(p), Last(p))
    BY SureType
  <2>2. Told("create", p, 0) \/ Told("modify", p, 0)
    BY <1>0, <1>1, <2>1, OneTold DEF Create, Modify, InotifyKinds
  <2>3. p \in files' /\ UNCHANGED <<dirs, watches>>
    BY <1>1 DEF Create, Modify
  <2>4. PICK i \in DOMAIN watches : dirs[i] = Front(p) /\ wd = watches[i] /\ n = Last(p)
    BY <2>2, EvIs DEF Told
  <2> QED
    BY <2>1, <2>3, <2>4 DEF Exists
<1>2. ASSUME NEW p \in FilePaths, Delete(p) PROVE FALSE
  <2>1. p \in Paths
    BY DEF Paths
  <2>2. Told("delete", p, 0)
    BY <1>0, <1>2, <2>1, OneTold DEF Delete, InotifyKinds
  <2> QED
    BY <2>2, EvIs DEF Told, Tells, Arrivals
<1>3. ASSUME NEW p \in DirPaths, MakeDir(p) PROVE Exists(wd, n)'
  <2>1. p \in Paths
    BY DEF Paths
  <2>2. Told("create", p, 0)
    BY <1>0, <1>3, <2>1, OneTold DEF MakeDir, InotifyKinds
  <2>3. /\ p \in Path /\ p # Root /\ UNCHANGED watches
        /\ \A i \in DOMAIN dirs : dirs'[i] = dirs[i]
        /\ \E m \in DOMAIN dirs' : dirs'[m] = p
    BY <1>0, <1>3, MakeDirIs
  <2>4. PICK i \in DOMAIN watches : dirs[i] = Front(p) /\ wd = watches[i] /\ n = Last(p)
    BY <2>2, EvIs DEF Told
  <2>5. p = Append(Front(p), Last(p))
    BY <2>3, EntryIs
  <2>6. p \in DirsNow'
    BY <2>3 DEF DirsNow, Range
  <2>7. Append(dirs'[i], n) = p
    BY <1>0, <2>3, <2>4, <2>5 DEF WatchType
  <2> QED
    BY <2>3, <2>4, <2>6, <2>7 DEF Exists
<1>4. ASSUME NEW p \in DirPaths, RemoveDir(p) PROVE FALSE
  <2>1. (\E i \in DOMAIN watches : Q'[k] = Ev("delete", i, p, 0)) \/ Q'[k].kind = "ignored"
    BY <1>0, <1>4, RemoveDirTold
  <2> QED
    BY <2>1, EvIs DEF Tells, Arrivals
<1>5. ASSUME NEW p \in Paths, NEW q \in Paths, Rename(p, q) PROVE Exists(wd, n)'
  <2>1. RenameTold(p, q) /\ watches' = watches
    BY <1>0, <1>5, RenameTells DEF Rename
  <2>2. PICK i \in DOMAIN watches : dirs[i] = Front(q) /\ Q'[k] = Ev("movedTo", i, q, changes + 1)
    BY <2>1, EvIs DEF RenameTold, Tells, Arrivals
  <2>3. wd = watches[i] /\ n = Last(q)
    BY <2>2, EvIs
  <2>4. /\ p \in Path /\ q \in Path /\ q # Root /\ ~IsPrefix(p, Front(q))
        /\ p \in files \/ p \in DirsNow
    BY <1>0, <1>5, RenameIs
  <2>5. q = Append(Front(q), Last(q))
    BY <2>4, EntryIs
  <2>6. dirs'[i] = Front(q)
    <3>1. i \in DOMAIN dirs
      BY <1>0 DEF WatchType
    <3>2. dirs'[i] = Renamed(p, q, dirs[i])
      BY <1>5, <3>1, RenamedDirs
    <3> QED
      BY <1>0, <2>2, <2>4, <3>1, <3>2, RenamedType
  <2>7. q \in files' \cup DirsNow'
    BY <1>0, <1>5, <2>4, MovedThere, RenamedTop
  <2> QED
    BY <2>1, <2>3, <2>5, <2>6, <2>7 DEF Exists
<1> QED
  BY <1>1, <1>2, <1>3, <1>4, <1>5 DEF Others

\* What is gone has its removal told.
LEMMA ExistsGone ==
    ASSUME Typed, Others, NEW wd, NEW n \in STRING, Exists(wd, n)
    PROVE  \/ Exists(wd, n)'
           \/ \E m \in 1..Len(Q') :
                  m > Len(Q) /\ Q'[m].kind \in Removals /\ Q'[m].wd = wd /\ Q'[m].name = n
<1>0. DiskInv /\ QueueType /\ WatchType /\ backend = "inotify" /\ \A i \in DOMAIN dirs : dirs[i] \in Path
  BY DiskType DEF Typed
<1>1. PICK i \in DOMAIN watches : watches[i] = wd /\ Append(dirs[i], n) \in files \cup DirsNow
  BY DEF Exists
<1>2. i \in DOMAIN dirs /\ dirs[i] \in Path
  BY <1>0 DEF WatchType
<1>3. PICK y \in Path : y = Append(dirs[i], n) /\ y # Root /\ Front(y) = dirs[i] /\ Last(y) = n
  BY <1>2, AppendIs
<1>4. ASSUME UNCHANGED watches, dirs'[i] = dirs[i], files \subseteq files', DirsNow \subseteq DirsNow'
      PROVE  Exists(wd, n)'
  BY <1>1, <1>4 DEF Exists
<1>5. CASE \E p \in FilePaths : Create(p) \/ Modify(p)
  BY <1>4, <1>5 DEF Create, Modify, DirsNow
<1>6. ASSUME NEW p \in FilePaths, Delete(p)
      PROVE  \/ Exists(wd, n)'
             \/ \E m \in 1..Len(Q') :
                    m > Len(Q) /\ Q'[m].kind \in Removals /\ Q'[m].wd = wd /\ Q'[m].name = n
  <2>1. p \in Paths
    BY DEF Paths
  <2>2. Told("delete", p, 0) /\ files' = files \ {p} /\ UNCHANGED <<dirs, watches>>
    BY <1>0, <1>6, <2>1, OneTold DEF Delete, InotifyKinds
  <2>3. CASE y = p
    <3>1. PICK m \in 1..Len(Q') : m > Len(Q) /\ Q'[m] = Ev("delete", i, p, 0)
      BY <1>3, <2>2, <2>3 DEF Told
    <3> QED
      BY <1>1, <1>3, <2>3, <3>1, EvIs DEF Removals
  <2>4. CASE y # p
    BY <1>1, <1>3, <2>2, <2>4 DEF Exists, DirsNow
  <2> QED
    BY <2>3, <2>4
<1>7. ASSUME NEW p \in DirPaths, MakeDir(p) PROVE Exists(wd, n)'
  <2>1. /\ UNCHANGED <<files, watches>> /\ \A j \in DOMAIN dirs : dirs'[j] = dirs[j]
        /\ DOMAIN dirs \subseteq DOMAIN dirs'
    BY <1>0, <1>7, MakeDirIs
  <2>2. DirsNow \subseteq DirsNow'
    BY <2>1 DEF DirsNow, Range
  <2> QED
    BY <1>2, <1>4, <2>1, <2>2
<1>8. ASSUME NEW p \in DirPaths, RemoveDir(p)
      PROVE  \/ Exists(wd, n)'
             \/ \E m \in 1..Len(Q') :
                    m > Len(Q) /\ Q'[m].kind \in Removals /\ Q'[m].wd = wd /\ Q'[m].name = n
  <2>1. /\ files' = files /\ dirs[Inode(p)] = p
        /\ DOMAIN dirs' = DOMAIN dirs \ {Inode(p)}
        /\ \A j \in DOMAIN dirs' : dirs'[j] = dirs[j]
        /\ DOMAIN watches' = DOMAIN watches \ {Inode(p)}
        /\ \A j \in DOMAIN watches' : watches'[j] = watches[j]
        /\ \A x \in files \cup DirsNow : ~IsStrictPrefix(p, x)
    BY <1>0, <1>8, RemoveDirIs
  <2>2. CASE y = p
    <3>1. PICK m \in 1..Len(Q') : m > Len(Q) /\ Q'[m] = Ev("delete", i, p, 0)
      BY <1>0, <1>3, <1>8, <2>2, RemoveDirTold
    <3> QED
      BY <1>1, <1>3, <2>2, <3>1, EvIs DEF Removals
  <2>3. CASE y # p
    <3>1. dirs[i] # p
      <4>1. IsPrefix(dirs[i], y) /\ ~IsPrefix(y, dirs[i])
        BY <1>2, <1>3, AppendNotPrefix
      <4>2. IsPrefix(y, y)
        BY <1>3, PrefixReflexive
      <4>3. IsStrictPrefix(dirs[i], y)
        BY <4>1, <4>2 DEF IsStrictPrefix
      <4> QED
        BY <1>1, <1>3, <2>1, <4>3
    <3>2. i \in DOMAIN watches' /\ watches'[i] = wd /\ dirs'[i] = dirs[i]
      BY <1>1, <1>2, <2>1, <3>1
    <3>3. y \in files' \cup DirsNow'
      <4>1. CASE y \in files
        BY <2>1, <4>1
      <4>2. CASE y \in DirsNow
        <5>1. PICK j \in DOMAIN dirs : dirs[j] = y
          BY <4>2, DirsNowIs
        <5>2. j \in DOMAIN dirs' /\ dirs'[j] = y
          BY <2>1, <2>3, <5>1
        <5> QED
          BY <5>2 DEF DirsNow, Range
      <4> QED
        BY <1>1, <1>3, <4>1, <4>2
    <3> QED
      BY <1>3, <3>2, <3>3 DEF Exists
  <2> QED
    BY <2>2, <2>3
<1>9. ASSUME NEW p \in Paths, NEW q \in Paths, Rename(p, q)
      PROVE  \/ Exists(wd, n)'
             \/ \E m \in 1..Len(Q') :
                    m > Len(Q) /\ Q'[m].kind \in Removals /\ Q'[m].wd = wd /\ Q'[m].name = n
  <2>1. p \in Path /\ q \in Path /\ watches' = watches
    BY <1>0, <1>9, RenameIs DEF Rename
  <2>2. CASE y = p
    <3>1. RenameTold(p, q)
      BY <1>0, <1>9, RenameTells
    <3>2. PICK m \in 1..Len(Q') : m = Len(Q) + 1 /\ Q'[m] = Ev("movedFrom", i, p, changes + 1)
      BY <1>3, <2>2, <3>1 DEF RenameTold
    <3>3. Len(Q) \in Nat
      BY <1>0, QType
    <3> QED
      BY <1>1, <1>3, <2>2, <3>2, <3>3, EvIs DEF Removals
  <2>3. CASE y # p
    <3>1. Append(dirs'[i], n) = Renamed(p, q, y)
      <4>1. dirs'[i] = Renamed(p, q, dirs[i])
        BY <1>2, <1>9, RenamedDirs
      <4>2. IsPrefix(p, y) <=> IsPrefix(p, dirs[i])
        BY <1>2, <1>3, <2>1, <2>3, PrefixAppend
      <4>3. CASE IsPrefix(p, dirs[i])
        <5>1. Renamed(p, q, Append(dirs[i], n)) = Append(Renamed(p, q, dirs[i]), n)
          BY <1>2, <2>1, <4>3, RenamedAppend
        <5> QED
          BY <1>3, <4>1, <5>1
      <4>4. CASE ~IsPrefix(p, dirs[i])
        BY <1>2, <1>3, <2>1, <4>1, <4>2, <4>4, RenamedType
      <4> QED
        BY <4>3, <4>4
    <3>2. Renamed(p, q, y) \in files' \cup DirsNow'
      BY <1>0, <1>1, <1>3, <1>9, MovedThere
    <3> QED
      BY <1>1, <2>1, <3>1, <3>2 DEF Exists
  <2> QED
    BY <2>2, <2>3
<1> QED
  BY <1>5, <1>6, <1>7, <1>8, <1>9 DEF Others

LEMMA ArrStep == Typed /\ ArrInv /\ InotifyNext => ArrInv'
<1> SUFFICES ASSUME Typed, ArrInv, InotifyNext PROVE ArrInv'
  OBVIOUS
<1>0. DiskInv /\ QueueType /\ backend = "inotify" /\ Len(Q) \in Nat
  BY QType DEF Typed
<1>1. CASE Others
  <2>1. \A k \in 1..Len(Q) : k \in 1..Len(Q') /\ Q'[k] = Q[k]
    BY <1>0, <1>1, OthersKeep DEF Later
  <2>2. ASSUME NEW k \in 1..Len(Q'), Q'[k].kind \in Tells, NEW wd, wd = Q'[k].wd, NEW n, n = Q'[k].name,
               ~Exists(wd, n)'
        PROVE  \E m \in 1..Len(Q') :
                   m > k /\ Q'[m].kind \in Removals /\ Q'[m].wd = wd /\ Q'[m].name = n
    <3>1. k \in 1..Len(Q) /\ Q'[k] = Q[k]
      <4>1. ~(k > Len(Q))
        BY <1>1, <2>2, TellsExists
      <4> QED
        BY <1>0, <2>1, <4>1
    <3>2. n \in STRING
      BY <1>0, <2>2, <3>1 DEF QueueType, Tells, Arrivals
    <3>3. CASE Exists(wd, n)
      <4>1. PICK m \in 1..Len(Q') : m > Len(Q) /\ Q'[m].kind \in Removals /\ Q'[m].wd = wd /\ Q'[m].name = n
        BY <1>1, <2>2, <3>2, <3>3, ExistsGone
      <4>2. m > k
        BY <1>0, <3>1, <4>1
      <4> QED
        BY <4>1, <4>2
    <3>4. CASE ~Exists(wd, n)
      <4>1. PICK m \in 1..Len(Q) : m > k /\ Q[m].kind \in Removals /\ Q[m].wd = wd /\ Q[m].name = n
        BY <2>2, <3>1, <3>4 DEF ArrInv
      <4> QED
        BY <2>1, <4>1
    <3> QED
      BY <3>3, <3>4
  <2>3. ASSUME NEW k \in 1..Len(Q'), Q'[k].kind \in Tells, ~Exists(Q[k].wd, Q[k].name)'
        PROVE  \E m \in 1..Len(Q') :
                   m > k /\ Q'[m].kind \in Removals /\ Q'[m].wd = Q'[k].wd /\ Q'[m].name = Q'[k].name
    <3>1. PICK wd : wd = Q'[k].wd
      OBVIOUS
    <3>2. PICK n : n = Q'[k].name
      OBVIOUS
    <3>3. ~Exists(wd, n)'
      BY <2>3, <3>1, <3>2 DEF Exists
    <3> QED
      BY <2>2, <2>3, <3>1, <3>2, <3>3
  <2> QED
    BY <2>3 DEF ArrInv
<1>2. CASE HandleEvent
  <2>1. /\ \A k \in 1..Len(Q') : Q'[k] = Q[k + 1] /\ k + 1 \in 1..Len(Q) /\ k \in Int
        /\ \A k \in 1..Len(Q) : k > 1 => k - 1 \in 1..Len(Q') /\ Q'[k - 1] = Q[k]
    BY <1>0, <1>2, HandleShift
  <2>2. UNCHANGED <<files, dirs, watches>>
    BY <1>2, HandleIs DEF disk
  <2>3. ASSUME NEW k \in 1..Len(Q'), Q'[k].kind \in Tells, ~Exists(Q[k].wd, Q[k].name)'
        PROVE  \E m \in 1..Len(Q') :
                   m > k /\ Q'[m].kind \in Removals /\ Q'[m].wd = Q'[k].wd /\ Q'[m].name = Q'[k].name
    <3>1. Q'[k] = Q[k + 1] /\ k + 1 \in 1..Len(Q) /\ ~Exists(Q[k + 1].wd, Q[k + 1].name)
      BY <2>1, <2>2, <2>3 DEF Exists, DirsNow
    <3>2. PICK m \in 1..Len(Q) :
              m > k + 1 /\ Q[m].kind \in Removals /\ Q[m].wd = Q[k + 1].wd /\ Q[m].name = Q[k + 1].name
      BY <2>3, <3>1 DEF ArrInv
    <3>3. m > 1 /\ m - 1 > k
      BY <3>2
    <3>4. m - 1 \in 1..Len(Q') /\ Q'[m - 1] = Q[m]
      BY <2>1, <3>3
    <3> QED
      BY <3>1, <3>2, <3>3, <3>4
  <2> QED
    BY <2>3 DEF ArrInv
<1>3. CASE QueueMovedTo \/ EndBatch \/ WatchNext \/ ReadSubtree \/ EmitNext \/ UNCHANGED vars
  <2>1. Q' = Q
    BY <1>0, <1>3, SameQueue
  <2>2. ASSUME NEW wd, NEW n, Exists(wd, n) PROVE Exists(wd, n)'
    <3>1. CASE WatchNext
      <4>1. /\ UNCHANGED <<files, dirs>>
            /\ \A i \in DOMAIN watches : i \in DOMAIN watches' /\ watches'[i] = watches[i]
        BY <3>1, WatchNextIs
      <4> QED
        BY <2>2, <4>1 DEF Exists, DirsNow
    <3>2. CASE QueueMovedTo \/ EndBatch \/ ReadSubtree \/ EmitNext \/ UNCHANGED vars
      <4>1. UNCHANGED <<files, dirs, watches>>
        BY <3>2 DEF QueueMovedTo, EndBatch, ReadSubtree, EmitNext, vars, notWalk, disk, kernel
      <4> QED
        BY <2>2, <4>1 DEF Exists, DirsNow
    <3> QED
      BY <1>3, <3>1, <3>2
  <2>3. ASSUME NEW k \in 1..Len(Q), Exists(Q[k].wd, Q[k].name) PROVE Exists(Q[k].wd, Q[k].name)'
    <3>1. PICK wd : wd = Q[k].wd /\ wd = Q'[k].wd
      BY <2>1
    <3>2. PICK n : n = Q[k].name /\ n = Q'[k].name
      BY <2>1
    <3>3. Exists(wd, n)
      BY <2>3, <3>1, <3>2
    <3>4. Exists(wd, n)'
      BY <2>2, <3>3
    <3> QED
      BY <3>1, <3>2, <3>4 DEF Exists
  <2> QED
    BY <2>1, <2>3 DEF ArrInv
<1> QED
  BY <1>1, <1>2, <1>3 DEF InotifyNext, Others

LEMMA ToldOne ==
    ASSUME DiskInv, QueueType, WatchType, backend = "inotify", NEW p \in Paths, Change(p),
           NEW kind \in InotifyKinds, Queue(Event(kind, p, 0)), movedTo' = movedTo
    PROVE  Q' = Q \/ Len(Q') = Len(Q) + 1
<1>1. Front(p) \in DirsNow /\ movedTo = <<>>
  BY DEF Change
<1>2. PICK N : N = Event(kind, p, 0)
  OBVIOUS
<1>3. N \in Seq(InotifyEvent) /\ Len(N) \in 0..1
  BY <1>1, <1>2, EventType
<1>4. Q' = Q \o N
  <2>1. queue' = queue \o N
    BY <1>2, NotMerged
  <2>2. queue \in Seq(InotifyEvent)
    BY DEF QueueType
  <2> QED
    BY <1>1, <2>1, <2>2, <1>3 DEF Q
<1>5. Len(Q') = Len(Q) + Len(N) /\ Len(Q) \in Nat
  BY <1>3, <1>4, LaterIs, QType
<1>6. CASE Len(N) = 0
  <2>1. Q' = Q
    BY <1>3, <1>4, <1>6, QType
  <2> QED
    BY <2>1
<1>7. CASE Len(N) = 1
  BY <1>5, <1>7
<1> QED
  BY <1>3, <1>6, <1>7

-----------------------------------------------------------------------------
(* inotify: the rows of one file.                                          *)

\* An event of these kinds that will be handled under the path x.
About(k, kinds, x) == Q[k].kind \in kinds /\ At(Q[k].wd, x) /\ Q[k].name = Last(x)

MoveTo(x) == \E c \in DOMAIN pendingMovedFrom : pendingMovedFrom[c] = x

\* Every movedFrom that waits will have its movedTo.
Live ==
    \A c \in DOMAIN pendingMovedFrom :
        \E k \in 1..Len(Q) : Q[k].kind = "movedTo" /\ Q[k].cookie = c

\* The file is there, and its removal would be told.
Held(x) == x \in files /\ \E i \in DOMAIN watches : dirs[i] = Front(x)

\* Between two arrivals the file is removed.
Spaced(x) ==
    \A k, m \in 1..Len(Q) : k < m /\ About(k, Tells, x) /\ About(m, Arrivals, x) =>
        \E l \in 1..Len(Q) : k < l /\ l < m /\ About(l, Removals, x)

\* What arrives has no row, or will have none when the arrival is handled.
Vacant(x) ==
    \A k \in 1..Len(Q) : About(k, Arrivals, x) =>
        index[x] = 0 \/ MoveTo(x) \/ \E l \in 1..Len(Q) : l < k /\ About(l, Removals, x)

\* A row is that of a file that is there, or will be taken.
Stands(x) ==
    index[x] > 0 => Held(x) \/ MoveTo(x) \/ \E k \in 1..Len(Q) : About(k, Removals, x)

Row(x) == index[x] \in {0, 1} /\ Spaced(x) /\ Vacant(x) /\ Stands(x)

LEMMA ArrAbout ==
    ASSUME Typed, Home, ArrInv, NEW x \in Sure, NEW k \in 1..Len(Q), About(k, Tells, x)
    PROVE  Held(x) \/ \E m \in 1..Len(Q) : m > k /\ About(m, Removals, x)
<1>0. /\ DiskInv /\ WatchType /\ x \in FilePaths /\ x = Append(Front(x), Last(x))
      /\ x \notin DirPaths /\ x # Root
  BY SureType DEF Typed, Sure
<1>1. Q[k].kind \in Tells /\ At(Q[k].wd, x) /\ Q[k].name = Last(x)
  BY DEF About
<1>2. CASE Exists(Q[k].wd, Q[k].name)
  <2>1. PICK i \in DOMAIN watches : watches[i] = Q[k].wd /\ Append(dirs[i], Q[k].name) \in files \cup DirsNow
    BY <1>2 DEF Exists
  <2>2. dirs[i] = Front(x)
    BY <1>1, <2>1 DEF Home
  <2>3. x \in files \cup DirsNow
    BY <1>0, <1>1, <2>1, <2>2
  <2>4. x \in files
    BY <1>0, <2>3 DEF DiskInv
  <2> QED
    BY <2>2, <2>4 DEF Held
<1>3. CASE ~Exists(Q[k].wd, Q[k].name)
  <2>1. PICK m \in 1..Len(Q) :
            m > k /\ Q[m].kind \in Removals /\ Q[m].wd = Q[k].wd /\ Q[m].name = Q[k].name
    BY <1>1, <1>3 DEF ArrInv
  <2>2. About(m, Removals, x)
    BY <1>1, <2>1 DEF About
  <2> QED
    BY <2>1, <2>2
<1> QED
  BY <1>2, <1>3

\* What a change tells about a file.
LEMMA OthersAbout ==
    ASSUME Typed, Home, Others, NEW x \in Sure'
    PROVE  /\ x \in Sure
           /\ \A k \in 1..Len(Q') : k > Len(Q) =>
                  /\ About(k, Removals, x)' => x \notin files'
                  /\ About(k, Arrivals, x)' => x \notin files /\ x \in files' /\ k = Len(Q')
                  /\ About(k, {"modify"}, x)' => x \in files
           /\ Held(x) => \/ Held(x)'
                         \/ \E k \in 1..Len(Q') : k > Len(Q) /\ About(k, Removals, x)'
<1> DEFINE Goal == /\ \A k \in 1..Len(Q') : k > Len(Q) =>
                          /\ About(k, Removals, x)' => x \notin files'
                          /\ About(k, Arrivals, x)' => x \notin files /\ x \in files' /\ k = Len(Q')
                          /\ About(k, {"modify"}, x)' => x \in files
                   /\ Held(x) => \/ Held(x)'
                                 \/ \E k \in 1..Len(Q') : k > Len(Q) /\ About(k, Removals, x)'
<1>0. /\ DiskInv /\ QueueType /\ WatchType /\ backend = "inotify" /\ InotifyNext /\ Len(Q) \in Nat
      /\ \A i \in DOMAIN watches : i \in DOMAIN dirs
  BY QType DEF Typed, Others, InotifyNext, WatchType
<1>1. /\ x \in Sure /\ x \in FilePaths /\ x \in Path /\ x = Append(Front(x), Last(x)) /\ x \notin DirPaths
      /\ IsPrefix(Front(x), x)
  BY <1>0, DoubtGrows, SureType DEF Sure, IsStrictPrefix
<1>2. wdToPath' = wdToPath /\ \A i \in DOMAIN watches : At(watches[i], x) <=> dirs[i] = Front(x)
  BY <1>1, OthersKeep DEF Home
\* An event of y is about x only if y is x.
<1>3. ASSUME NEW kind, NEW y \in Path, y # Root, NEW i \in DOMAIN watches, dirs[i] = Front(y), NEW c,
             NEW k, Q'[k] = Ev(kind, i, y, c)
      PROVE  /\ \A K : About(k, K, x)' => kind \in K /\ y = x
             /\ \A K : kind \in K /\ y = x => About(k, K, x)'
  <2> PICK w : w = watches[i]
    OBVIOUS
  <2>1. Q'[k].kind = kind /\ Q'[k].wd = w /\ Q'[k].name = Last(y)
    BY <1>3, EvIs
  <2>2. At(w, x)' <=> Front(y) = Front(x)
    BY <1>2, <1>3 DEF At
  <2>3. y = Append(Front(y), Last(y))
    BY <1>3, EntryIs
  <2>4. \A K : About(k, K, x)' <=> kind \in K /\ At(w, x)' /\ Last(y) = Last(x)
    BY <2>1 DEF About, At
  <2>5. At(w, x)' /\ Last(y) = Last(x) <=> y = x
    BY <1>1, <2>2, <2>3
  <2> QED
    BY <2>4, <2>5
<1>4. ASSUME NEW kind \in {"create", "modify", "delete"}, NEW p \in Paths, Told(kind, p, 0),
             Q' = Q \/ Len(Q') = Len(Q) + 1,
             UNCHANGED <<dirs, watches>>,
             p = x => /\ kind = "create" => x \notin files /\ x \in files'
                      /\ kind = "modify" => x \in files /\ x \in files'
                      /\ kind = "delete" => x \notin files',
             p # x => (x \in files <=> x \in files')
      PROVE  Goal
  <2>1. p \in Path /\ p # Root
    BY PathsType
  <2>2. ASSUME NEW k \in 1..Len(Q'), k > Len(Q)
        PROVE  /\ About(k, Removals, x)' => x \notin files'
               /\ About(k, Arrivals, x)' => x \notin files /\ x \in files' /\ k = Len(Q')
               /\ About(k, {"modify"}, x)' => x \in files
    <3>1. PICK i \in DOMAIN watches : dirs[i] = Front(p) /\ Q'[k] = Ev(kind, i, p, 0)
      BY <1>4, <2>2 DEF Told
    <3>2. \A K : About(k, K, x)' => kind \in K /\ p = x
      BY <1>3, <2>1, <3>1
    <3>3. k = Len(Q')
      BY <1>0, <1>4, <2>2
    <3> QED
      BY <1>4, <3>2, <3>3 DEF Removals, Arrivals
  <2>3. ASSUME Held(x), ~Held(x)' PROVE \E k \in 1..Len(Q') : k > Len(Q) /\ About(k, Removals, x)'
    <3>1. x \notin files' /\ x \in files
      BY <1>4, <2>3 DEF Held
    <3>2. p = x /\ kind = "delete"
      BY <1>4, <3>1
    <3>3. PICK i \in DOMAIN watches : dirs[i] = Front(x)
      BY <2>3 DEF Held
    <3>4. PICK k \in 1..Len(Q') : k > Len(Q) /\ Q'[k] = Ev(kind, i, p, 0)
      BY <1>4, <3>2, <3>3 DEF Told
    <3>5. About(k, Removals, x)'
      BY <1>3, <2>1, <3>2, <3>3, <3>4 DEF Removals
    <3> QED
      BY <3>4, <3>5
  <2> QED
    BY <2>2, <2>3
<1> HIDE DEF Goal
<1>5. ASSUME NEW p \in FilePaths, Create(p) \/ Modify(p) \/ Delete(p) PROVE Goal
  <2>1. p \in Paths
    BY DEF Paths
  <2>2. UNCHANGED <<dirs, watches>> /\ movedTo' = movedTo
    BY <1>5 DEF Create, Modify, Delete
  <2>3. Q' = Q \/ Len(Q') = Len(Q) + 1
    BY <1>0, <1>5, <2>1, ToldOne DEF Create, Modify, Delete, InotifyKinds
  <2>4. CASE Create(p)
    <3>1. Told("create", p, 0)
      BY <1>0, <2>1, <2>4, OneTold DEF Create, InotifyKinds
    <3>2. p \notin files /\ files' = files \cup {p}
      BY <2>4 DEF Create
    <3> QED
      BY <1>4, <2>1, <2>2, <2>3, <3>1, <3>2
  <2>5. CASE Modify(p)
    <3>1. Told("modify", p, 0)
      BY <1>0, <2>1, <2>5, OneTold DEF Modify, InotifyKinds
    <3>2. p \in files /\ files' = files
      BY <2>5 DEF Modify
    <3> QED
      BY <1>4, <2>1, <2>2, <2>3, <3>1, <3>2
  <2>6. CASE Delete(p)
    <3>1. Told("delete", p, 0)
      BY <1>0, <2>1, <2>6, OneTold DEF Delete, InotifyKinds
    <3>2. files' = files \ {p}
      BY <2>6 DEF Delete
    <3> QED
      BY <1>4, <2>1, <2>2, <2>3, <3>1, <3>2
  <2> QED
    BY <1>5, <2>4, <2>5, <2>6
<1>6. ASSUME NEW p \in DirPaths, MakeDir(p) PROVE Goal
  <2>1. /\ p \in Paths /\ p \in Path /\ p # Root /\ p # x
    BY <1>1, PathsType DEF Paths
  <2>2. Told("create", p, 0) /\ UNCHANGED <<files, watches>> /\ \A i \in DOMAIN dirs : dirs'[i] = dirs[i]
    BY <1>0, <1>6, <2>1, OneTold, MakeDirIs DEF MakeDir, InotifyKinds
  <2>3. ASSUME NEW k \in 1..Len(Q'), k > Len(Q), NEW K PROVE ~About(k, K, x)'
    <3>1. PICK i \in DOMAIN watches : dirs[i] = Front(p) /\ Q'[k] = Ev("create", i, p, 0)
      BY <2>2, <2>3 DEF Told
    <3> QED
      BY <1>3, <2>1, <3>1
  <2>4. Held(x) => Held(x)'
    BY <1>0, <2>2 DEF Held
  <2> QED
    BY <2>3, <2>4 DEF Goal
<1>7. ASSUME NEW p \in DirPaths, RemoveDir(p) PROVE Goal
  <2>1. p \in Paths /\ p \in Path /\ p # Root /\ p # x
    BY <1>1, PathsType DEF Paths
  <2>2. /\ files' = files /\ dirs[Inode(p)] = p
        /\ DOMAIN dirs' = DOMAIN dirs \ {Inode(p)}
        /\ \A j \in DOMAIN dirs' : dirs'[j] = dirs[j]
        /\ DOMAIN watches' = DOMAIN watches \ {Inode(p)}
        /\ \A r \in files \cup DirsNow : ~IsStrictPrefix(p, r)
    BY <1>0, <1>7, RemoveDirIs
  <2>3. ASSUME NEW k \in 1..Len(Q'), k > Len(Q), NEW K, "ignored" \notin K PROVE ~About(k, K, x)'
    <3>1. CASE \E i \in DOMAIN watches : dirs[i] = Front(p) /\ Q'[k] = Ev("delete", i, p, 0)
      BY <1>3, <2>1, <3>1
    <3>2. CASE Q'[k].kind = "ignored"
      BY <2>3, <3>2 DEF About
    <3> QED
      BY <1>0, <1>7, <2>3, <3>1, <3>2, RemoveDirTold
  <2>4. ASSUME Held(x) PROVE Held(x)'
    <3>1. PICK i \in DOMAIN watches : x \in files /\ dirs[i] = Front(x)
      BY <2>4 DEF Held
    <3>2. i # Inode(p)
      BY <1>1, <2>2, <3>1, SureType
    <3> QED
      BY <1>0, <2>2, <3>1, <3>2 DEF Held
  <2> QED
    BY <2>3, <2>4 DEF Goal, Removals, Arrivals
<1>8. ASSUME NEW p \in Paths, NEW q \in Paths, Rename(p, q) PROVE Goal
  <2>1. /\ p \in Path /\ q \in Path /\ p # Root /\ q # Root /\ p # q
    BY <1>0, <1>8, RenameIs
  <2>2. RenameTold(p, q) /\ watches' = watches
    BY <1>0, <1>8, RenameTells DEF Rename
  <2>3. /\ x \in files => x # q
        /\ x \in files' <=> (x \in files /\ x # p) \/ x = q
    BY <1>0, <1>8, SureRename
  <2>4. ASSUME NEW k \in 1..Len(Q'), k > Len(Q)
        PROVE  /\ About(k, Removals, x)' => x \notin files'
               /\ About(k, Arrivals, x)' => x \notin files /\ x \in files' /\ k = Len(Q')
               /\ About(k, {"modify"}, x)' => x \in files
    <3>1. CASE \E i \in DOMAIN watches : dirs[i] = Front(p) /\ Q'[k] = Ev("movedFrom", i, p, changes + 1)
      <4>1. \A K : About(k, K, x)' => "movedFrom" \in K /\ p = x
        BY <1>3, <2>1, <3>1
      <4> QED
        BY <2>1, <2>3, <4>1 DEF Removals, Arrivals
    <3>2. CASE /\ \E i \in DOMAIN watches : dirs[i] = Front(q) /\ Q'[k] = Ev("movedTo", i, q, changes + 1)
               /\ k = Len(Q')
      <4>1. \A K : About(k, K, x)' => "movedTo" \in K /\ q = x
        BY <1>3, <2>1, <3>2
      <4> QED
        BY <2>1, <2>3, <3>2, <4>1 DEF Removals, Arrivals
    <3> QED
      BY <2>2, <2>4, <3>1, <3>2 DEF RenameTold
  <2>5. ASSUME Held(x), ~Held(x)' PROVE \E k \in 1..Len(Q') : k > Len(Q) /\ About(k, Removals, x)'
    <3>1. PICK i \in DOMAIN watches : x \in files /\ dirs[i] = Front(x)
      BY <2>5 DEF Held
    <3>2. dirs'[i] = dirs[i]
      <4>1. ~IsPrefix(p, dirs[i])
        BY <1>0, <1>1, <1>8, <3>1, SureRename
      <4> QED
        BY <1>0, <1>8, <4>1, SureRename
    <3>3. x = p
      BY <2>2, <2>3, <2>5, <3>1, <3>2 DEF Held
    <3>4. PICK k \in 1..Len(Q') : k = Len(Q) + 1 /\ Q'[k] = Ev("movedFrom", i, p, changes + 1)
      BY <2>2, <3>1, <3>3 DEF RenameTold
    <3>5. dirs[i] = Front(p) /\ "movedFrom" \in Removals
      BY <3>1, <3>3 DEF Removals
    <3>6. About(k, Removals, x)'
      BY <1>3, <2>1, <3>3, <3>4, <3>5
    <3> QED
      BY <1>0, <3>4, <3>6
  <2> QED
    BY <2>4, <2>5 DEF Goal
<1>9. Goal
  BY <1>5, <1>6, <1>7, <1>8 DEF Others
<1> QED
  BY <1>1, <1>9 DEF Goal

LEMMA RowOthers ==
    ASSUME Typed, Home, ArrInv, Others, NEW x \in Sure', Row(x)
    PROVE  Row(x)'
<1>0. /\ QueueType /\ Len(Q) \in Nat /\ Len(Q') \in Nat
      /\ wdToPath' = wdToPath /\ pendingMovedFrom' = pendingMovedFrom /\ index' = index /\ Len(Q) <= Len(Q')
      /\ \A k \in 1..Len(Q) : k \in 1..Len(Q') /\ Q'[k] = Q[k]
  <2>1. QueueType'
    BY QueueTypeStep DEF Others, InotifyNext
  <2>2. QueueType'  => Len(Q') \in Nat
    BY QType DEF QueueType, Q
  <2> QED
    BY <2>1, <2>2, QType, OthersKeep DEF Typed, Later
<1>1. x \in Sure
  BY OthersAbout
<1>2. (MoveTo(x)' <=> MoveTo(x)) /\ \A k \in 1..Len(Q) : \A K : About(k, K, x)' <=> About(k, K, x)
  BY <1>0 DEF MoveTo, About, At
<1>3. \A k \in 1..Len(Q') : k > Len(Q) =>
          /\ About(k, Arrivals, x)' => x \notin files /\ k = Len(Q')
          /\ About(k, Tells, x)' => x \in files \/ k = Len(Q')
  <2>1. \A k : About(k, Tells, x)' => About(k, Arrivals, x)' \/ About(k, {"modify"}, x)'
    BY DEF About, Tells
  <2> QED
    BY <2>1, OthersAbout
<1>4. Spaced(x)'
  <2>1. ASSUME NEW k \in 1..Len(Q'), NEW m \in 1..Len(Q'), k < m, About(k, Tells, x)', About(m, Arrivals, x)'
        PROVE  \E l \in 1..Len(Q') : k < l /\ l < m /\ About(l, Removals, x)'
    <3>1. CASE m \in 1..Len(Q)
      <4>1. k \in 1..Len(Q)
        BY <1>0, <2>1, <3>1
      <4>2. PICK l \in 1..Len(Q) : k < l /\ l < m /\ About(l, Removals, x)
        BY <1>2, <2>1, <3>1, <4>1 DEF Row, Spaced
      <4> QED
        BY <1>0, <1>2, <4>2
    <3>2. CASE m > Len(Q)
      <4>1. x \notin files /\ m = Len(Q')
        BY <1>3, <2>1, <3>2
      <4>2. k \in 1..Len(Q)
        BY <1>0, <1>3, <2>1, <4>1
      <4>3. About(k, Tells, x)
        BY <1>2, <2>1, <4>2
      <4>4. PICK l \in 1..Len(Q) : l > k /\ About(l, Removals, x)
        BY <1>1, <4>1, <4>2, <4>3, ArrAbout DEF Held
      <4> QED
        BY <1>0, <1>2, <3>2, <4>4
    <3> QED
      BY <1>0, <3>1, <3>2
  <2> QED
    BY <2>1 DEF Spaced
<1>5. Vacant(x)'
  <2>1. ASSUME NEW k \in 1..Len(Q'), About(k, Arrivals, x)'
        PROVE  index'[x] = 0 \/ MoveTo(x)' \/ \E l \in 1..Len(Q') : l < k /\ About(l, Removals, x)'
    <3>1. CASE k \in 1..Len(Q)
      <4>1. index[x] = 0 \/ MoveTo(x) \/ \E l \in 1..Len(Q) : l < k /\ About(l, Removals, x)
        BY <1>2, <2>1, <3>1 DEF Row, Vacant
      <4> QED
        BY <1>0, <1>2, <4>1
    <3>2. CASE k > Len(Q)
      <4>1. x \notin files
        BY <1>3, <2>1, <3>2
      <4>2. index[x] = 0 \/ MoveTo(x) \/ \E l \in 1..Len(Q) : About(l, Removals, x)
        BY <4>1 DEF Row, Stands, Held
      <4>3. \A l \in 1..Len(Q) : l < k
        BY <1>0, <3>2
      <4> QED
        BY <1>0, <1>2, <4>2, <4>3
    <3> QED
      BY <1>0, <3>1, <3>2
  <2> QED
    BY <2>1 DEF Vacant
<1>6. Stands(x)'
  <2>1. ASSUME index'[x] > 0 PROVE Held(x)' \/ MoveTo(x)' \/ \E k \in 1..Len(Q') : About(k, Removals, x)'
    <3>1. Held(x) \/ MoveTo(x) \/ \E l \in 1..Len(Q) : About(l, Removals, x)
      BY <1>0, <2>1 DEF Row, Stands
    <3>2. Held(x) => Held(x)' \/ \E k \in 1..Len(Q') : k > Len(Q) /\ About(k, Removals, x)'
      BY OthersAbout
    <3> QED
      BY <1>0, <1>2, <3>1, <3>2
  <2> QED
    BY <2>1 DEF Stands
<1> QED
  BY <1>0, <1>4, <1>5, <1>6 DEF Row

\* The steps that leave the events as they are, and the rows of files not in doubt.
LEMMA KeptSame ==
    ASSUME Typed, Home, QueueMovedTo \/ EndBatch \/ WatchNext \/ ReadSubtree \/ EmitNext \/ UNCHANGED vars,
           NEW x \in Sure'
    PROVE  /\ Q' = Q /\ UNCHANGED <<files, dirs>> /\ x \in Sure /\ index'[x] = index[x]
           /\ MoveTo(x)' <=> MoveTo(x)
           /\ \A k \in 1..Len(Q) : \A K : About(k, K, x)' <=> About(k, K, x)
           /\ \A i \in DOMAIN watches : i \in DOMAIN watches' /\ watches'[i] = watches[i]
<1>0. /\ QueueType /\ Q' = Q /\ UNCHANGED <<files, dirs>> /\ x \in Sure /\ x \in Paths /\ InotifyNext
      /\ IndexType /\ DiskInv /\ WatchType
  <2>1. InotifyNext
    BY DEF InotifyNext
  <2> QED
    BY <2>1, SameQueue, DoubtGrows DEF Typed, Sure, Paths
<1>1. pendingMovedFrom' = pendingMovedFrom
  BY DEF QueueMovedTo, EndBatch, WatchNext, ReadSubtree, EmitNext, vars, notWalk
<1>2. index'[x] = index[x]
  <2>1. CASE EmitNext
    <3>1. PICK path : /\ index' \in Rescanned(index, path)
                      /\ doubtful' = doubtful \cup {path} \cup Below(path)
      BY <2>1 DEF EmitNext
    <3>2. x # path /\ x \notin Below(path)
      BY <3>1 DEF Sure
    <3>3. index \in [Paths -> Nat]
      BY <1>0 DEF IndexType
    <3>4. path \in files => index' = Added(index, path)
      BY <3>1, <3>3, RescannedIs
    <3>5. path \notin files => \A r \in Paths : index'[r] # index[r] => r \in Below(path)
      BY <3>1, <3>3, RescannedIs
    <3>6. Added(index, path)[x] = index[x]
      BY <1>0, <3>2, <3>3, AddedIs
    <3> QED
      BY <1>0, <3>2, <3>4, <3>5, <3>6
  <2>2. CASE QueueMovedTo \/ EndBatch \/ WatchNext \/ ReadSubtree \/ UNCHANGED vars
    BY <2>2 DEF QueueMovedTo, EndBatch, WatchNext, ReadSubtree, vars
  <2> QED
    BY <2>1, <2>2
<1>3. ASSUME NEW k \in 1..Len(Q) PROVE At(Q[k].wd, x)' <=> At(Q[k].wd, x)
  <2>1. PICK wd : wd = Q[k].wd /\ wd = Q'[k].wd
    BY <1>0
  <2>2. CASE UNCHANGED <<watches, wdToPath>>
    BY <1>0, <2>2 DEF At
  <2>3. ASSUME NEW i \in DOMAIN dirs,
                  DOMAIN watches' = DOMAIN watches \cup {i},
                  \A j \in DOMAIN watches : watches'[j] = watches[j],
                  DOMAIN wdToPath' = DOMAIN wdToPath \cup {watches'[i]},
                  \A z \in DOMAIN wdToPath : z # watches'[i] => wdToPath'[z] = wdToPath[z],
                  i \notin DOMAIN watches => \A m \in 1..Len(Q) : Q[m].wd # watches'[i]
        PROVE  At(wd, x)' <=> At(wd, x)
    <3>1. CASE wd # watches'[i]
      BY <2>3, <3>1 DEF At
    <3>2. CASE wd = watches'[i]
      <4>1. i \in DOMAIN watches /\ watches[i] = wd
        BY <2>1, <2>3, <3>2
      <4>2. Home'
        BY <1>0, HomeStep
      <4>3. At(watches[i], x)' <=> dirs'[i] = Front(x)
        BY <2>3, <4>2 DEF Home
      <4>4. At(watches[i], x) <=> dirs[i] = Front(x)
        BY <1>0, <4>1 DEF Home
      <4> QED
        BY <1>0, <3>2, <4>1, <4>3, <4>4 DEF At
    <3> QED
      BY <3>1, <3>2
  <2>4. At(wd, x)' <=> At(wd, x)
    <3>1. CASE WatchNext
      BY <2>2, <2>3, <3>1, WatchNextTable DEF At
    <3>2. CASE QueueMovedTo \/ EndBatch \/ ReadSubtree \/ EmitNext \/ UNCHANGED vars
      <4>1. UNCHANGED <<watches, wdToPath>>
        BY <3>2 DEF QueueMovedTo, EndBatch, ReadSubtree, EmitNext, vars, notWalk, kernel, table
      <4> QED
        BY <4>1 DEF At
    <3> QED
      BY <3>1, <3>2
  <2> QED
    BY <2>1, <2>4 DEF At
<1>4. \A i \in DOMAIN watches : i \in DOMAIN watches' /\ watches'[i] = watches[i]
  <2>1. CASE WatchNext
    BY <2>1, WatchNextIs
  <2>2. CASE QueueMovedTo \/ EndBatch \/ ReadSubtree \/ EmitNext \/ UNCHANGED vars
    BY <2>2 DEF QueueMovedTo, EndBatch, ReadSubtree, EmitNext, vars, notWalk, kernel
  <2> QED
    BY <2>1, <2>2
<1>5. (MoveTo(x)' <=> MoveTo(x)) /\ \A k \in 1..Len(Q) : \A K : About(k, K, x)' <=> About(k, K, x)
  BY <1>0, <1>1, <1>3 DEF MoveTo, About
<1> QED
  BY <1>0, <1>2, <1>4, <1>5

LEMMA RowSame ==
    ASSUME Typed, Home, QueueMovedTo \/ EndBatch \/ WatchNext \/ ReadSubtree \/ EmitNext \/ UNCHANGED vars,
           NEW x \in Sure', Row(x)
    PROVE  Row(x)'
<1>1. /\ Q' = Q /\ UNCHANGED <<files, dirs>> /\ index'[x] = index[x]
      /\ MoveTo(x)' <=> MoveTo(x)
      /\ \A k \in 1..Len(Q) : \A K : About(k, K, x)' <=> About(k, K, x)
      /\ \A i \in DOMAIN watches : i \in DOMAIN watches'
  BY KeptSame
<1>2. Held(x) => Held(x)'
  BY <1>1 DEF Held, Typed, WatchType
<1>3. Spaced(x)'
  BY <1>1 DEF Row, Spaced
<1>4. Vacant(x)'
  BY <1>1 DEF Row, Vacant
<1>5. Stands(x)'
  BY <1>1, <1>2 DEF Row, Stands
<1> QED
  BY <1>1, <1>3, <1>4, <1>5 DEF Row

\* The row of a file when a path is scanned again, and the file is not below it.
LEMMA RescannedRow ==
    ASSUME DiskInv, NEW x \in FilePaths, NEW path \in Path, path # Root, path \in DirPaths => x \notin Below(path),
           NEW ix \in [Paths -> Nat], NEW iy \in Rescanned(ix, path)
    PROVE  iy[x] = IF path = x /\ x \in files THEN ix[x] + 1 ELSE ix[x]
<1>1. x \in Paths /\ x \notin DirsNow /\ (path \in DirsNow => path \in DirPaths)
  BY SureType DEF DiskInv
<1>2. /\ path \in files => iy = Added(ix, path)
      /\ path \notin files => \A r \in Paths : iy[r] # ix[r] => path \in DirsNow /\ r \in Below(path)
  BY RescannedIs
<1>3. CASE path \in files
  BY <1>1, <1>2, <1>3, AddedIs
<1>4. CASE path \notin files
  BY <1>1, <1>2, <1>4
<1> QED
  BY <1>3, <1>4

LEMMA AboutHead ==
    ASSUME Typed, HandleEvent, NEW x \in FilePaths
    PROVE  \A K : "ignored" \notin K =>
               (About(1, K, x) <=> /\ Q[1].kind \in K /\ Q[1].wd \in DOMAIN wdToPath
                                   /\ PathOf(Q[1]) = x)
<1> SUFFICES ASSUME NEW K, "ignored" \notin K
             PROVE  About(1, K, x) <=> Q[1].kind \in K /\ Q[1].wd \in DOMAIN wdToPath /\ PathOf(Q[1]) = x
  OBVIOUS
<1>0. QueueType /\ WatchType
  BY DEF Typed
<1>1. 1 \in 1..Len(Q)
  <2>1. Len(Q) \in Nat \ {0}
    BY <1>0, HandleShift
  <2> QED
    BY <2>1
<1>2. Q[1].kind # "ignored" => Q[1].name \in STRING
  BY <1>0, <1>1 DEF QueueType
<1>3. Q[1].wd \in DOMAIN wdToPath => wdToPath[Q[1].wd] \in Path
  BY <1>0 DEF WatchType
<1>4. Front(x) \in Path /\ Last(x) \in STRING /\ x = Append(Front(x), Last(x))
  BY SureType
<1>5. CASE Q[1].kind \in K /\ Q[1].wd \in DOMAIN wdToPath
  <2>1. PICK d \in Path, n \in STRING : d = wdToPath[Q[1].wd] /\ n = Q[1].name
    BY <1>2, <1>3, <1>5
  <2>2. Append(d, n) = x <=> d = Front(x) /\ n = Last(x)
    BY <1>4, <2>1, AppendInjects
  <2> QED
    BY <1>5, <2>1, <2>2 DEF About, At, PathOf
<1>6. CASE ~(Q[1].kind \in K /\ Q[1].wd \in DOMAIN wdToPath)
  BY <1>6 DEF About, At
<1> QED
  BY <1>5, <1>6

\* What the first event does to the row of a file that it does not put in doubt.
LEMMA HandleRow ==
    ASSUME Typed, PairInv, HandleEvent, NEW x \in Sure', index[x] \in {0, 1}
    PROVE  /\ ~About(1, Tells \cup Removals, x) =>
                  \/ index'[x] = 0
                  \/ index'[x] = index[x] /\ (MoveTo(x) => MoveTo(x)')
           /\ About(1, Arrivals, x) =>
                  /\ index[x] = 0 => index'[x] \in {0, 1}
                  /\ (/\ index[x] = 1 /\ Q[1].kind = "movedTo" /\ Q[1].cookie \in DOMAIN pendingMovedFrom
                      /\ pendingMovedFrom[Q[1].cookie] = x) => index'[x] = 1
           /\ About(1, {"delete"}, x) => index'[x] = 0
           /\ About(1, {"movedFrom"}, x) => index'[x] = index[x] /\ MoveTo(x)'
           /\ About(1, {"modify"}, x) => index'[x] \in {0, 1}
<1> DEFINE e == Q[1]
           path == PathOf(Q[1])
           Here == e.wd \in DOMAIN wdToPath /\ path = x
<1>0. /\ DiskInv /\ index \in [Paths -> Nat] /\ x \in FilePaths /\ x \in Paths /\ x \notin doubtful'
      /\ UNCHANGED <<files, dirs>> /\ e.kind \in InotifyKinds
  <2>1. QueueType
    BY DEF Typed
  <2>2. Q[1] \in InotifyEvent
    BY <2>1, HandleShift
  <2> QED
    BY <2>2, HandleIs, SureType DEF Typed, IndexType, Sure, disk, InotifyEvent
<1>1. \A K : "ignored" \notin K => (About(1, K, x) <=> e.kind \in K /\ Here)
  BY <1>0, AboutHead
<1>2. /\ About(1, Tells \cup Removals, x) <=> e.kind # "ignored" /\ Here
      /\ About(1, Arrivals, x) <=> e.kind \in {"create", "movedTo"} /\ Here
      /\ About(1, {"delete"}, x) <=> e.kind = "delete" /\ Here
      /\ About(1, {"movedFrom"}, x) <=> e.kind = "movedFrom" /\ Here
      /\ About(1, {"modify"}, x) <=> e.kind = "modify" /\ Here
  BY <1>0, <1>1 DEF Tells, Removals, Arrivals, InotifyKinds
<1>3. ASSUME NEW z \in Path, z # Root, ApplyAdded(z)
      PROVE  index'[x] = IF z = x /\ x \in files THEN index[x] + 1 ELSE index[x]
  <2>1. index' \in Rescanned(index, z) /\ (z \in DirPaths => x \notin Below(z))
    BY <1>0, <1>3 DEF ApplyAdded, DoubtBelow
  <2> QED
    BY <1>0, <1>3, <2>1, RescannedRow
<1>4. \A z : /\ Removed(index, z) \in [Paths -> Nat]
             /\ Removed(index, z)[x] = IF z = x THEN 0 ELSE index[x]
  BY <1>0, RemovedIs
<1>5. ASSUME NEW z \in Path, z # Root, ApplyModified(z)
      PROVE  index'[x] = IF z = x THEN (IF x \in files THEN 1 ELSE 0) ELSE index[x]
  <2>1. PICK ix \in [Paths -> Nat] : ix = Removed(index, z)
    BY <1>4
  <2>2. index' \in Rescanned(ix, z) /\ (z \in DirPaths => x \notin Below(z))
    BY <1>0, <1>5, <2>1 DEF ApplyModified, DoubtBelow
  <2>3. index'[x] = IF z = x /\ x \in files THEN ix[x] + 1 ELSE ix[x]
    BY <1>0, <1>5, <2>2, RescannedRow
  <2> QED
    BY <1>4, <2>1, <2>3
<1>6. ASSUME NEW z, NEW y, ApplyRenamed(z, y)
      PROVE  index'[x] = (IF z = x THEN 0 ELSE index[x]) + (IF y = x THEN 1 ELSE 0)
  <2>1. PICK ix \in [Paths -> Nat] : ix = Removed(index, z)
    BY <1>4
  <2>2. index' = Added(ix, y)
    BY <1>6, <2>1 DEF ApplyRenamed
  <2>3. index'[x] = IF x = y THEN ix[x] + 1 ELSE ix[x]
    BY <1>0, <2>2, AddedIs
  <2> QED
    BY <1>4, <2>1, <2>3
<1>7. (UNCHANGED <<pendingMovedFrom>>) => (MoveTo(x) => MoveTo(x)')
  BY DEF MoveTo
<1>8. CASE HandleIgnored(e) \/ HandleUntracked(e)
  <2>1. index' = index /\ pendingMovedFrom' = pendingMovedFrom /\ (e.kind = "ignored" \/ e.wd \notin DOMAIN wdToPath)
    BY <1>8 DEF HandleIgnored, HandleUntracked, NoMove, Tracked
  <2> QED
    BY <1>2, <1>7, <2>1
<1>9. ASSUME e.kind # "ignored", e.wd \in DOMAIN wdToPath, path \in Path, path # Root
      PROVE  /\ HandleCreate(e, path) =>
                    /\ e.kind = "create" /\ pendingMovedFrom' = pendingMovedFrom
                    /\ index'[x] = IF path = x /\ x \in files THEN index[x] + 1 ELSE index[x]
             /\ HandleDelete(e, path) =>
                    /\ e.kind = "delete" /\ pendingMovedFrom' = pendingMovedFrom
                    /\ index'[x] = IF path = x THEN 0 ELSE index[x]
             /\ HandleModify(e, path) =>
                    /\ e.kind = "modify" /\ pendingMovedFrom' = pendingMovedFrom
                    /\ index'[x] = IF path = x THEN (IF x \in files THEN 1 ELSE 0) ELSE index[x]
  <2>1. HandleCreate(e, path) => e.kind = "create" /\ pendingMovedFrom' = pendingMovedFrom /\ ApplyAdded(path)
    BY DEF HandleCreate, NoMove
  <2>2. HandleDelete(e, path) => e.kind = "delete" /\ pendingMovedFrom' = pendingMovedFrom /\ index' = Removed(index, path)
    BY DEF HandleDelete, NoMove, ApplyRemoved
  <2>3. HandleModify(e, path) => e.kind = "modify" /\ pendingMovedFrom' = pendingMovedFrom /\ ApplyModified(path)
    BY DEF HandleModify, NoMove
  <2> QED
    BY <1>3, <1>4, <1>5, <1>9, <2>1, <2>2, <2>3
<1> DEFINE Goal == /\ ~About(1, Tells \cup Removals, x) =>
                          \/ index'[x] = 0
                          \/ index'[x] = index[x] /\ (MoveTo(x) => MoveTo(x)')
                   /\ About(1, Arrivals, x) =>
                          /\ index[x] = 0 => index'[x] \in {0, 1}
                          /\ (/\ index[x] = 1 /\ Q[1].kind = "movedTo" /\ Q[1].cookie \in DOMAIN pendingMovedFrom
                              /\ pendingMovedFrom[Q[1].cookie] = x) => index'[x] = 1
                   /\ About(1, {"delete"}, x) => index'[x] = 0
                   /\ About(1, {"movedFrom"}, x) => index'[x] = index[x] /\ MoveTo(x)'
                   /\ About(1, {"modify"}, x) => index'[x] \in {0, 1}
<1>10. ASSUME e.kind # "ignored", e.wd \in DOMAIN wdToPath, path \in Path, path # Root,
              HandleCreate(e, path) \/ HandleDelete(e, path) \/ HandleModify(e, path)
       PROVE  Goal
  <2>1. CASE HandleCreate(e, path)
    BY <1>0, <1>2, <1>7, <1>9, <1>10, <2>1
  <2>2. CASE HandleDelete(e, path)
    BY <1>0, <1>2, <1>7, <1>9, <1>10, <2>2
  <2>3. CASE HandleModify(e, path)
    BY <1>0, <1>2, <1>7, <1>9, <1>10, <2>3
  <2> QED
    BY <1>10, <2>1, <2>2, <2>3
<1>11. ASSUME e.kind # "ignored", e.wd \in DOMAIN wdToPath, HandleMovedFrom(e, path) PROVE Goal
  <2>1. e.kind = "movedFrom" /\ pendingMovedFrom' = Put(pendingMovedFrom, e.cookie, path) /\ index' = index
    BY <1>11 DEF HandleMovedFrom
  <2>2. /\ DOMAIN pendingMovedFrom' = DOMAIN pendingMovedFrom \cup {e.cookie}
        /\ pendingMovedFrom'[e.cookie] = path
        /\ \A c \in DOMAIN pendingMovedFrom : c # e.cookie => pendingMovedFrom'[c] = pendingMovedFrom[c]
    BY <2>1 DEF Put
  <2>3. e.cookie \notin DOMAIN pendingMovedFrom
    <3>1. QueueType
      BY DEF Typed
    <3>2. Len(Q) \in Nat \ {0}
      BY <3>1, HandleShift
    <3>3. 1 \in 1..Len(Q)
      BY <3>2
    <3> QED
      BY <2>1, <3>3 DEF PairInv
  <2>4. path = x => MoveTo(x)'
    BY <2>2 DEF MoveTo
  <2>5. MoveTo(x) => MoveTo(x)'
    BY <2>2, <2>3 DEF MoveTo
  <2> QED
    BY <1>0, <1>2, <2>1, <2>4, <2>5
<1>12. ASSUME e.kind # "ignored", e.wd \in DOMAIN wdToPath, path \in Path, path # Root, HandleMovedTo(e, path)
       PROVE  Goal
  <2>1. e.kind = "movedTo"
    BY <1>12 DEF HandleMovedTo
  <2>2. CASE e.cookie \notin DOMAIN pendingMovedFrom
    <3>1. ApplyAdded(path) /\ pendingMovedFrom' = pendingMovedFrom
      BY <1>12, <2>2 DEF HandleMovedTo, NoMove
    <3>2. index'[x] = IF path = x /\ x \in files THEN index[x] + 1 ELSE index[x]
      BY <1>3, <1>12, <3>1
    <3>3. (index[x] = 0 => index'[x] \in {0, 1}) /\ (path # x => index'[x] = index[x])
      BY <3>2
    <3> HIDE DEF path
    <3> QED
      BY <1>2, <1>7, <1>12, <2>1, <2>2, <3>1, <3>3
  <2>3. CASE e.cookie \in DOMAIN pendingMovedFrom
    <3>1. /\ ApplyRenamed(pendingMovedFrom[e.cookie], path)
          /\ pendingMovedFrom' = Without(pendingMovedFrom, e.cookie)
      BY <1>12, <2>3 DEF HandleMovedTo
    <3>2. index'[x] = (IF pendingMovedFrom[e.cookie] = x THEN 0 ELSE index[x]) + (IF path = x THEN 1 ELSE 0)
      BY <1>6, <3>1
    <3>3. /\ DOMAIN Without(pendingMovedFrom, e.cookie) = DOMAIN pendingMovedFrom \ {e.cookie}
          /\ \A c \in DOMAIN pendingMovedFrom \ {e.cookie} :
                 Without(pendingMovedFrom, e.cookie)[c] = pendingMovedFrom[c]
      BY WithoutIs
    <3>4. pendingMovedFrom[e.cookie] # x => (MoveTo(x) => MoveTo(x)')
      BY <3>1, <3>3 DEF MoveTo
    <3>5. PICK z : z = pendingMovedFrom[e.cookie]
      OBVIOUS
    <3>6. /\ index[x] = 0 => index'[x] \in {0, 1}
          /\ index[x] = 1 /\ z = x /\ path = x => index'[x] = 1
          /\ path # x => IF z = x THEN index'[x] = 0 ELSE index'[x] = index[x]
      BY <3>2, <3>5
    <3> HIDE DEF path
    <3> QED
      BY <1>2, <1>12, <2>1, <2>3, <3>4, <3>5, <3>6
  <2> QED
    BY <2>2, <2>3
<1>13. Goal
  BY <1>8, <1>10, <1>11, <1>12, HandleIs
<1> QED
  BY <1>13

LEMMA AboutShift ==
    ASSUME Typed, LastInv, HandleEvent, NEW x
    PROVE  /\ Len(Q) \in Nat \ {0} /\ Len(Q') = Len(Q) - 1
           /\ \A k \in 1..Len(Q') : \A K : About(k, K, x)' <=> About(k + 1, K, x)
           /\ \A k \in 1..Len(Q) : \A K : k > 1 => k - 1 \in 1..Len(Q') /\ (About(k - 1, K, x)' <=> About(k, K, x))
<1>0. /\ Len(Q) \in Nat \ {0} /\ Len(Q') = Len(Q) - 1
      /\ \A k \in 1..Len(Q') : Q'[k] = Q[k + 1] /\ k + 1 \in 1..Len(Q) /\ k + 1 > 1
      /\ \A k \in 1..Len(Q) : k > 1 => k - 1 \in 1..Len(Q') /\ Q'[k - 1] = Q[k]
  BY HandleShift DEF Typed
<1>1. ASSUME NEW k \in 1..Len(Q), k > 1, NEW wd, wd = Q[k].wd PROVE At(wd, x)' <=> At(wd, x)
  <2>1. wd \in DOMAIN wdToPath \ DOMAIN wdToPath' => Q[1].kind = "ignored" /\ Q[1].wd = wd
    BY HandleTable
  <2>2. ~(Q[1].kind = "ignored" /\ Q[1].wd = wd)
    <3>1. 1 \in 1..Len(Q)
      BY <1>0
    <3> QED
      BY <1>1, <3>1 DEF LastInv
  <2>3. wd \in DOMAIN wdToPath <=> wd \in DOMAIN wdToPath'
    BY <2>1, <2>2, HandleTable
  <2>4. wd \in DOMAIN wdToPath' => wdToPath'[wd] = wdToPath[wd]
    BY HandleTable
  <2> QED
    BY <2>3, <2>4 DEF At
<1>2. ASSUME NEW k \in 1..Len(Q'), NEW K PROVE About(k, K, x)' <=> About(k + 1, K, x)
  <2>1. PICK wd : wd = Q[k + 1].wd /\ wd = Q'[k].wd
    BY <1>0
  <2>2. At(wd, x)' <=> At(wd, x)
    BY <1>0, <1>1, <2>1
  <2>3. Q'[k] = Q[k + 1]
    BY <1>0
  <2> QED
    BY <2>1, <2>2, <2>3 DEF About, At
<1>3. ASSUME NEW k \in 1..Len(Q), k > 1, NEW K
      PROVE  k - 1 \in 1..Len(Q') /\ (About(k - 1, K, x)' <=> About(k, K, x))
  <2>1. k - 1 \in 1..Len(Q') /\ Q'[k - 1] = Q[k]
    BY <1>0, <1>3
  <2>2. PICK wd : wd = Q[k].wd /\ wd = Q'[k - 1].wd
    BY <2>1
  <2>3. At(wd, x)' <=> At(wd, x)
    BY <1>1, <1>3, <2>2
  <2> QED
    BY <2>1, <2>2, <2>3 DEF About, At
<1> QED
  BY <1>0, <1>2, <1>3

LEMMA RowHandle ==
    ASSUME Typed, LastInv, Home, ArrInv, PairInv, PendInv, Live, HandleEvent, NEW x \in Sure', Row(x)
    PROVE  Row(x)'
<1>0. /\ Len(Q) \in Nat \ {0} /\ Len(Q') = Len(Q) - 1 /\ 1 \in 1..Len(Q)
      /\ \A k \in 1..Len(Q') : k + 1 \in 1..Len(Q) /\ k \in Int
      /\ \A k \in 1..Len(Q') : \A K : About(k, K, x)' <=> About(k + 1, K, x)
      /\ \A k \in 1..Len(Q) : \A K : k > 1 => k - 1 \in 1..Len(Q') /\ (About(k - 1, K, x)' <=> About(k, K, x))
  BY AboutShift
<1>1. x \in Sure /\ x \in FilePaths /\ UNCHANGED <<files, dirs, watches>>
  <2>1. InotifyNext
    BY DEF InotifyNext
  <2> QED
    BY <2>1, DoubtGrows, HandleIs DEF Sure, disk
<1>2. index[x] \in {0, 1} /\ Spaced(x) /\ Vacant(x) /\ Stands(x)
  BY DEF Row
<1>3. Held(x)' <=> Held(x)
  BY <1>1 DEF Held
<1>4. Spaced(x)'
  <2>1. ASSUME NEW k \in 1..Len(Q'), NEW m \in 1..Len(Q'), k < m, About(k, Tells, x)', About(m, Arrivals, x)'
        PROVE  \E l \in 1..Len(Q') : k < l /\ l < m /\ About(l, Removals, x)'
    <3>1. k + 1 < m + 1 /\ About(k + 1, Tells, x) /\ About(m + 1, Arrivals, x)
      BY <1>0, <2>1
    <3>2. PICK l \in 1..Len(Q) : k + 1 < l /\ l < m + 1 /\ About(l, Removals, x)
      BY <1>0, <1>2, <3>1 DEF Spaced
    <3>3. l > 1 /\ k < l - 1 /\ l - 1 < m
      BY <1>0, <3>2
    <3> QED
      BY <1>0, <3>2, <3>3
  <2> QED
    BY <2>1 DEF Spaced
\* After what told that the file is there comes its removal, before it arrives again.
<1>5. ASSUME About(1, Tells, x), index'[x] \in {0, 1} PROVE Vacant(x)' /\ Stands(x)'
  <2>1. ASSUME NEW k \in 1..Len(Q'), About(k, Arrivals, x)'
        PROVE  \E l \in 1..Len(Q') : l < k /\ About(l, Removals, x)'
    <3>1. 1 < k + 1 /\ About(k + 1, Arrivals, x)
      BY <1>0, <2>1
    <3>2. PICK l \in 1..Len(Q) : 1 < l /\ l < k + 1 /\ About(l, Removals, x)
      BY <1>0, <1>2, <1>5, <3>1 DEF Spaced
    <3>3. l - 1 < k
      BY <1>0, <3>2
    <3> QED
      BY <1>0, <3>2, <3>3
  <2>2. Held(x) \/ \E m \in 1..Len(Q) : m > 1 /\ About(m, Removals, x)
    BY <1>0, <1>1, <1>5, ArrAbout
  <2>3. Held(x)' \/ \E m \in 1..Len(Q') : About(m, Removals, x)'
    BY <1>0, <1>3, <2>2
  <2> QED
    BY <2>1, <2>3 DEF Vacant, Stands
<1>6. ASSUME index'[x] = 0 PROVE Row(x)'
  BY <1>4, <1>6 DEF Row, Vacant, Stands
<1>7. CASE About(1, Arrivals, x)
  <2>1. About(1, Tells, x)
    BY <1>7 DEF About, Tells
  <2>2. index'[x] \in {0, 1}
    <3>1. CASE index[x] = 0
      BY <1>2, <1>7, <3>1, HandleRow
    <3>2. CASE index[x] # 0
      <4>1. MoveTo(x)
        <5>1. ~\E l \in 1..Len(Q) : l < 1 /\ About(l, Removals, x)
          BY <1>0
        <5> QED
          BY <1>0, <1>2, <1>7, <3>2, <5>1 DEF Vacant
      <4>2. PICK c \in DOMAIN pendingMovedFrom : pendingMovedFrom[c] = x
        BY <4>1 DEF MoveTo
      <4>3. PICK k \in 1..Len(Q) : Q[k].kind = "movedTo" /\ Q[k].cookie = c
        BY DEF Live
      <4>4. k = 1
        BY <4>3 DEF PendInv
      <4> QED
        BY <1>2, <1>7, <3>2, <4>2, <4>3, <4>4, HandleRow
    <3> QED
      BY <3>1, <3>2
  <2> QED
    BY <1>4, <1>5, <2>1, <2>2 DEF Row
<1>8. CASE About(1, {"modify"}, x)
  <2>1. About(1, Tells, x)
    BY <1>8 DEF About, Tells
  <2>2. index'[x] \in {0, 1}
    BY <1>2, <1>8, HandleRow
  <2> QED
    BY <1>4, <1>5, <2>1, <2>2 DEF Row
<1>9. CASE About(1, {"delete"}, x)
  BY <1>2, <1>6, <1>9, HandleRow
<1>10. CASE About(1, {"movedFrom"}, x)
  <2>1. index'[x] = index[x] /\ MoveTo(x)'
    BY <1>2, <1>10, HandleRow
  <2> QED
    BY <1>2, <1>4, <2>1 DEF Row, Vacant, Stands
<1>11. CASE ~About(1, Tells \cup Removals, x) /\ index'[x] = index[x] /\ (MoveTo(x) => MoveTo(x)')
  <2>1. ~About(1, Removals, x)
    BY <1>11 DEF About
  <2>2. \A l \in 1..Len(Q) : About(l, Removals, x) => l > 1 /\ l - 1 \in 1..Len(Q') /\ About(l - 1, Removals, x)'
    BY <1>0, <2>1
  <2>3. ASSUME NEW k \in 1..Len(Q'), About(k, Arrivals, x)'
        PROVE  index'[x] = 0 \/ MoveTo(x)' \/ \E l \in 1..Len(Q') : l < k /\ About(l, Removals, x)'
    <3>1. About(k + 1, Arrivals, x) /\ k + 1 \in 1..Len(Q)
      BY <1>0, <2>3
    <3>2. index[x] = 0 \/ MoveTo(x) \/ \E l \in 1..Len(Q) : l < k + 1 /\ About(l, Removals, x)
      BY <1>2, <3>1 DEF Vacant
    <3>3. \A l \in 1..Len(Q) : l < k + 1 => l - 1 < k
      BY <1>0
    <3> QED
      BY <1>11, <2>2, <3>2, <3>3
  <2>4. Vacant(x)'
    BY <2>3 DEF Vacant
  <2>5. Stands(x)'
    BY <1>2, <1>3, <1>11, <2>2 DEF Stands
  <2> QED
    BY <1>2, <1>4, <1>11, <2>4, <2>5 DEF Row
<1>12. About(1, Tells \cup Removals, x) =>
           \/ About(1, Arrivals, x) \/ About(1, {"modify"}, x)
           \/ About(1, {"delete"}, x) \/ About(1, {"movedFrom"}, x)
  BY DEF About, Tells, Removals, Arrivals
<1>13. ~About(1, Tells \cup Removals, x) =>
           index'[x] = 0 \/ (index'[x] = index[x] /\ (MoveTo(x) => MoveTo(x)'))
  BY <1>2, HandleRow
<1> QED
  BY <1>6, <1>7, <1>8, <1>9, <1>10, <1>11, <1>12, <1>13

-----------------------------------------------------------------------------
(* inotify: a file without a row will be come by.                          *)

\* An arrival of a directory above x.
Leads(j, m, x) ==
    /\ Q[m].kind \in Arrivals /\ Q[m].wd = watches[j] /\ Q[m].isDir
    /\ IsStrictPrefix(Append(dirs[j], Q[m].name), x)

\* The arrival of x comes after the event k, or that of a directory above x comes.
SentAfter(x, k) ==
    \E j \in DOMAIN watches, m \in 1..Len(Q) :
        \/ m > k /\ Q[m].kind \in Arrivals /\ Q[m].wd = watches[j] /\ dirs[j] = Front(x) /\ Q[m].name = Last(x)
        \/ Leads(j, m, x)

\* x has no row, or the event k will take it.
Owes(k, x) == IF k = 0 THEN index[x] = 0 \/ MoveTo(x) ELSE About(k, Removals, x)

Due(x) == x \in files => \A k \in 0..Len(Q) : Owes(k, x) => WalkTo(x) \/ SentAfter(x, k)

LEMMA LeadsAbove ==
    ASSUME Typed, NEW x \in FilePaths, NEW j \in DOMAIN watches, NEW m \in 1..Len(Q), Leads(j, m, x)
    PROVE  IsStrictPrefix(dirs[j], x)
<1>1. dirs[j] \in Path /\ x \in Path
  BY DiskType, SureType DEF Typed, WatchType
<1>2. Q[m].name \in STRING
  BY DEF Typed, QueueType, Arrivals, Leads
<1>3. PICK a \in Path : a = Append(dirs[j], Q[m].name) /\ IsPrefix(dirs[j], a) /\ ~IsPrefix(a, dirs[j])
  BY <1>1, <1>2, AppendIs, AppendNotPrefix
<1>4. IsPrefix(a, x)
  BY <1>3 DEF Leads, IsStrictPrefix
<1>5. IsPrefix(dirs[j], x) /\ dirs[j] # x
  BY <1>1, <1>3, <1>4, PrefixTransitive
<1> QED
  BY <1>5 DEF IsStrictPrefix

LEMMA SentAfterStays ==
    ASSUME Typed, Later, NEW x \in FilePaths, NEW k, SentAfter(x, k),
           \A j \in DOMAIN watches : IsStrictPrefix(dirs[j], x) =>
               j \in DOMAIN watches' /\ watches'[j] = watches[j] /\ dirs'[j] = dirs[j]
    PROVE  SentAfter(x, k)'
<1>1. PICK j \in DOMAIN watches, m \in 1..Len(Q) :
          \/ m > k /\ Q[m].kind \in Arrivals /\ Q[m].wd = watches[j] /\ dirs[j] = Front(x) /\ Q[m].name = Last(x)
          \/ Leads(j, m, x)
  BY DEF SentAfter
<1>2. IsStrictPrefix(dirs[j], x)
  BY <1>1, LeadsAbove, SureType
<1>3. j \in DOMAIN watches' /\ watches'[j] = watches[j] /\ dirs'[j] = dirs[j]
  BY <1>2
<1>4. m \in 1..Len(Q') /\ Q'[m] = Q[m]
  BY QType DEF Later, Typed
<1> QED
  BY <1>1, <1>3, <1>4 DEF SentAfter, Leads

\* The directories above a file that is there, or not in doubt, stay.
LEMMA AboveStays ==
    ASSUME Typed, Others, NEW x \in Sure', x \in files', NEW j \in DOMAIN watches, IsStrictPrefix(dirs[j], x)
    PROVE  j \in DOMAIN watches' /\ watches'[j] = watches[j] /\ dirs'[j] = dirs[j]
<1>0. DiskInv /\ WatchType /\ j \in DOMAIN dirs
  BY DEF Typed, WatchType
<1>1. CASE \E p \in FilePaths : Create(p) \/ Modify(p) \/ Delete(p)
  BY <1>1 DEF Create, Modify, Delete
<1>2. CASE \E p \in DirPaths : MakeDir(p)
  <2>1. PICK p \in DirPaths : MakeDir(p)
    BY <1>2
  <2>2. UNCHANGED watches /\ \A i \in DOMAIN dirs : dirs'[i] = dirs[i]
    BY <1>0, <2>1, MakeDirIs
  <2> QED
    BY <1>0, <2>2
<1>3. CASE \E p \in DirPaths : RemoveDir(p)
  <2>1. PICK p \in DirPaths : RemoveDir(p)
    BY <1>3
  <2>2. /\ files' = files /\ DOMAIN watches' = DOMAIN watches \ {Inode(p)}
        /\ DOMAIN dirs' = DOMAIN dirs \ {Inode(p)} /\ dirs[Inode(p)] = p
        /\ \A i \in DOMAIN dirs' : dirs'[i] = dirs[i]
        /\ \A i \in DOMAIN watches' : watches'[i] = watches[i]
        /\ \A r \in files \cup DirsNow : ~IsStrictPrefix(p, r)
    BY <1>0, <2>1, RemoveDirIs
  <2>3. j # Inode(p)
    BY <2>2
  <2> QED
    BY <1>0, <2>2, <2>3
<1>4. CASE \E p, q \in Paths : Rename(p, q)
  <2>1. PICK p \in Paths, q \in Paths : Rename(p, q)
    BY <1>4
  <2>2. ~IsPrefix(p, dirs[j])
    BY <1>0, <2>1, SureRename DEF IsStrictPrefix
  <2>3. dirs'[j] = dirs[j]
    BY <1>0, <2>1, <2>2, SureRename
  <2>4. watches' = watches
    BY <2>1 DEF Rename
  <2> QED
    BY <2>3, <2>4
<1> QED
  BY <1>1, <1>2, <1>3, <1>4 DEF Others

\* A file that comes is told, or its directory will be come by.
LEMMA Arrived ==
    ASSUME Typed, TableInv, Others, NEW x \in Sure', x \in files', x \notin files
    PROVE  \/ WalkTo(x)
           \/ \E j \in DOMAIN watches, m \in 1..Len(Q') :
                  /\ m > Len(Q) /\ Q'[m].kind \in Arrivals /\ Q'[m].wd = watches[j]
                  /\ dirs[j] = Front(x) /\ Q'[m].name = Last(x)
           \/ \E j \in DOMAIN watches, m \in 1..Len(Q) : Leads(j, m, x)
<1>0. /\ DiskInv /\ QueueType /\ WatchType /\ backend = "inotify" /\ Len(Q) \in Nat
      /\ x \in FilePaths /\ x \in Paths /\ x \in Path /\ IsStrictPrefix(Front(x), x)
  BY QType, SureType DEF Typed, Sure
\* A directory that is not watched.
<1>1. ASSUME NEW d \in DOMAIN dirs, dirs[d] = Front(x), d \notin DOMAIN watches
      PROVE  WalkTo(x) \/ \E j \in DOMAIN watches, m \in 1..Len(Q) : Leads(j, m, x)
  <2>1. ~Known(d) /\ IsStrictPrefix(dirs[d], x) /\ dirs[d] \in Path
    BY <1>0, <1>1, DiskType DEF Known
  <2>2. ASSUME NEW j \in DOMAIN watches, NEW m \in 1..Len(Q),
               Q[m].kind \in Arrivals, Q[m].wd = watches[j], Q[m].isDir,
               IsPrefix(Append(dirs[j], Q[m].name), dirs[d]), IsPrefix(Append(dirs[j], Q[m].name), x)
        PROVE  Leads(j, m, x)
    <3>1. Append(dirs[j], Q[m].name) # x
      BY <1>0, <2>1, <2>2, PrefixAntisymmetric DEF IsStrictPrefix
    <3> QED
      BY <2>2, <3>1 DEF Leads, IsStrictPrefix
  <2> QED
    BY <1>0, <2>1, <2>2, Reached
<1>2. CASE \E p \in FilePaths : Create(p) \/ Modify(p) \/ Delete(p)
  <2>1. Create(x)
    BY <1>2 DEF Create, Modify, Delete
  <2>2. Told("create", x, 0) /\ Front(x) \in DirsNow
    BY <1>0, <2>1, OneTold DEF Create, InotifyKinds, Change
  <2>3. PICK d \in DOMAIN dirs : dirs[d] = Front(x)
    BY <2>2, DirsNowIs
  <2>4. CASE d \in DOMAIN watches
    <3>1. PICK m \in 1..Len(Q') : m > Len(Q) /\ Q'[m] = Ev("create", d, x, 0)
      BY <2>2, <2>3, <2>4 DEF Told
    <3> QED
      BY <2>3, <2>4, <3>1, EvIs DEF Arrivals
  <2> QED
    BY <1>1, <2>3, <2>4
<1>3. CASE \E p \in DirPaths : MakeDir(p) \/ RemoveDir(p)
  BY <1>3 DEF MakeDir, RemoveDir
<1>4. CASE \E p, q \in Paths : Rename(p, q)
  <2>1. PICK p \in Paths, q \in Paths : Rename(p, q)
    BY <1>4
  <2>2. x = q
    BY <1>0, <2>1, SureRename
  <2>3. Front(x) \in DirsNow /\ RenameTold(p, x)
    BY <1>0, <2>1, <2>2, RenameTells, RenameIs
  <2>4. PICK d \in DOMAIN dirs : dirs[d] = Front(x)
    BY <2>3, DirsNowIs
  <2>5. CASE d \in DOMAIN watches
    <3>1. PICK m \in 1..Len(Q') : m > Len(Q) /\ Q'[m] = Ev("movedTo", d, x, changes + 1)
      BY <2>3, <2>4, <2>5 DEF RenameTold
    <3> QED
      BY <2>4, <2>5, <3>1, EvIs DEF Arrivals
  <2> QED
    BY <1>1, <2>4, <2>5
<1> QED
  BY <1>2, <1>3, <1>4 DEF Others

LEMMA DueOthers ==
    ASSUME Typed, TableInv, Home, Others, NEW x \in Sure', Due(x)
    PROVE  Due(x)'
<1>0. /\ Later /\ UNCHANGED <<wdToPath, pendingMovedFrom, walkRoot, toEmit, index>>
      /\ Len(Q) \in Nat /\ x \in FilePaths /\ x \in Sure
      /\ \A k \in 1..Len(Q) : k \in 1..Len(Q') /\ Q'[k] = Q[k]
  <2>1. Later
    BY OthersKeep
  <2>2. Len(Q) \in Nat
    BY QType DEF Typed
  <2>3. InotifyNext
    BY DEF Others, InotifyNext
  <2> QED
    BY <2>1, <2>2, <2>3, OthersKeep, DoubtGrows DEF Later, Sure
<1>1. WalkTo(x) => WalkTo(x)'
  BY <1>0 DEF WalkTo
<1>2. ASSUME NEW k \in 0..Len(Q'), x \in files', Owes(k, x)'
      PROVE  WalkTo(x)' \/ SentAfter(x, k)'
  <2>1. k <= Len(Q)
    <3>1. CASE k > Len(Q)
      <4>1. About(k, Removals, x)' /\ k \in 1..Len(Q')
        BY <1>0, <1>2, <3>1 DEF Owes
      <4> QED
        BY <1>2, <3>1, <4>1, OthersAbout
    <3> QED
      BY <1>0, <3>1
  <2>2. Owes(k, x)
    <3>1. CASE k = 0
      BY <1>0, <1>2, <3>1 DEF Owes, MoveTo
    <3>2. CASE k # 0
      <4>1. k \in 1..Len(Q)
        BY <1>0, <2>1, <3>2
      <4> QED
        BY <1>0, <1>2, <3>2, <4>1 DEF Owes, About, At
    <3> QED
      BY <3>1, <3>2
  <2>3. \A j \in DOMAIN watches : IsStrictPrefix(dirs[j], x) =>
            j \in DOMAIN watches' /\ watches'[j] = watches[j] /\ dirs'[j] = dirs[j]
    BY <1>2, AboveStays
  <2>4. SentAfter(x, k) => SentAfter(x, k)'
    BY <1>0, <2>3, SentAfterStays
  <2>5. CASE x \in files
    <3>1. k \in 0..Len(Q)
      BY <1>0, <2>1
    <3> QED
      BY <1>1, <2>2, <2>4, <2>5, <3>1 DEF Due
  <2>6. CASE x \notin files
    <3>1. CASE WalkTo(x)
      BY <1>1, <3>1
    <3>2. ASSUME NEW j \in DOMAIN watches, NEW m \in 1..Len(Q'), m > Len(Q), Q'[m].kind \in Arrivals,
                 Q'[m].wd = watches[j], dirs[j] = Front(x), Q'[m].name = Last(x)
          PROVE  SentAfter(x, k)'
      <4>1. j \in DOMAIN watches' /\ watches'[j] = watches[j] /\ dirs'[j] = dirs[j]
        BY <1>0, <2>3, <3>2, SureType
      <4>2. m > k
        BY <1>0, <2>1, <3>2
      <4> QED
        BY <3>2, <4>1, <4>2 DEF SentAfter
    <3>3. ASSUME NEW j \in DOMAIN watches, NEW m \in 1..Len(Q), Leads(j, m, x) PROVE SentAfter(x, k)'
      BY <2>4, <3>3 DEF SentAfter
    <3> QED
      BY <1>2, <2>6, <3>1, <3>2, <3>3, Arrived
  <2> QED
    BY <2>5, <2>6
<1> QED
  BY <1>2 DEF Due

LEMMA DueSame ==
    ASSUME Typed, Home, QueueMovedTo \/ EndBatch \/ WatchNext \/ ReadSubtree \/ EmitNext \/ UNCHANGED vars,
           gaps' = {}, NEW x \in Sure', Due(x)
    PROVE  Due(x)'
<1>0. /\ Q' = Q /\ UNCHANGED <<files, dirs>> /\ index'[x] = index[x]
      /\ MoveTo(x)' <=> MoveTo(x)
      /\ \A k \in 1..Len(Q) : About(k, Removals, x)' <=> About(k, Removals, x)
      /\ \A i \in DOMAIN watches : i \in DOMAIN watches' /\ watches'[i] = watches[i]
      /\ DiskInv /\ x \in FilePaths /\ x \notin doubtful' /\ QueueType /\ Len(Q) \in Nat
  BY KeptSame, QType DEF Typed, Sure
<1>1. \A k \in 0..Len(Q) : SentAfter(x, k) => SentAfter(x, k)'
  BY <1>0 DEF SentAfter, Leads
<1>2. \A k \in 0..Len(Q) : Owes(k, x)' => Owes(k, x)
  BY <1>0 DEF Owes
<1>3. ASSUME x \in files, WalkTo(x) PROVE WalkTo(x)'
  <2>1. CASE WatchNext
    BY <1>3, <2>1 DEF WatchNext, WalkTo
  <2>2. CASE QueueMovedTo \/ EndBatch \/ UNCHANGED vars
    <3>1. UNCHANGED <<walkRoot, toEmit>>
      BY <2>2 DEF QueueMovedTo, EndBatch, vars, walk
    <3> QED
      BY <1>3, <3>1 DEF WalkTo
  <2>3. CASE ReadSubtree
    <3>1. walkRoot \in Path /\ IsStrictPrefix(walkRoot, x)
      <4>1. walkRoot # None /\ walkRoot \in Path /\ toEmit = <<>>
        BY <2>3 DEF ReadSubtree, Typed, WalkInv
      <4>2. Range(toEmit) = {}
        BY <4>1 DEF Range
      <4> QED
        BY <1>3, <4>1, <4>2 DEF WalkTo
    <3>2. walkRoot \in DirsNow /\ \E c \in Children(walkRoot) : IsPrefix(c, x)
      BY <1>0, <1>3, <3>1, ChildTowards
    <3>3. PICK entries \in SetToSeqs(Children(walkRoot)) : toEmit' = entries
      BY <2>3, <3>2 DEF ReadSubtree
    <3>4. Range(entries) = Children(walkRoot)
      BY <1>0, <3>1, SeqOfPaths
    <3> QED
      BY <3>2, <3>3, <3>4 DEF WalkTo
  <2>4. CASE EmitNext
    <3>0. toEmit \in Seq(Path) /\ toEmit # <<>> /\ walkRoot = None
      BY <2>4 DEF EmitNext, Typed, WalkInv
    <3>1. /\ Head(toEmit) \in Path /\ Tail(toEmit) \in Seq(Path)
          /\ \A e \in Range(toEmit) : e = Head(toEmit) \/ e \in Range(Tail(toEmit))
      BY <3>0, ShorterIs, RangeIs
    <3>2. PICK path \in Path : path = Head(toEmit)
      BY <3>1
    <3>3. doubtful' = doubtful \cup {path} \cup Below(path)
      BY <2>4, <3>2 DEF EmitNext
    <3>4. ~IsPrefix(path, x)
      BY <1>0, <1>3, <3>3 DEF Below, IsStrictPrefix
    <3>5. PICK e \in Range(toEmit) : IsPrefix(e, x)
      BY <1>3, <3>0 DEF WalkTo
    <3>6. e \in Range(Tail(toEmit))
      BY <3>1, <3>2, <3>4, <3>5
    <3>7. ~(path \in DirPaths \ DirsNow)
      <4>1. Tail(toEmit) # <<>>
        BY <3>6 DEF Range
      <4> QED
        BY <2>4, <3>2, <4>1 DEF EmitNext
    <3>8. PICK entries \in SetToSeqs(Children(path)) : toEmit' = entries \o Tail(toEmit)
      BY <2>4, <3>2, <3>7 DEF EmitNext
    <3>9. entries \in Seq(Path)
      BY <1>0, SeqOfPaths
    <3> DEFINE t == Tail(toEmit)
    <3>10. t \in Seq(Path)
      BY <3>1
    <3> HIDE DEF t
    <3>11. Range(entries \o t) = Range(entries) \cup Range(t)
      BY <3>9, <3>10, RangeOfBoth
    <3>12. e \in Range(toEmit')
      BY <3>6, <3>8, <3>11 DEF t
    <3> QED
      BY <3>5, <3>12 DEF WalkTo
  <2> QED
    BY <2>1, <2>2, <2>3, <2>4
<1> QED
  BY <1>0, <1>1, <1>2, <1>3 DEF Due

\* What an event leaves waiting of a file it does not take.
LEMMA PendingKept ==
    ASSUME Typed, HandleEvent
    PROVE  \/ pendingMovedFrom' = pendingMovedFrom
           \/ /\ Q[1].kind = "movedFrom" /\ Q[1].wd \in DOMAIN wdToPath
              /\ DOMAIN pendingMovedFrom' = DOMAIN pendingMovedFrom \cup {Q[1].cookie}
              /\ pendingMovedFrom'[Q[1].cookie] = PathOf(Q[1])
              /\ \A c \in DOMAIN pendingMovedFrom : c # Q[1].cookie => pendingMovedFrom'[c] = pendingMovedFrom[c]
           \/ /\ Q[1].kind = "movedTo" /\ Q[1].cookie \in DOMAIN pendingMovedFrom
              /\ Q[1].wd \in DOMAIN wdToPath
              /\ DOMAIN pendingMovedFrom' = DOMAIN pendingMovedFrom \ {Q[1].cookie}
              /\ \A c \in DOMAIN pendingMovedFrom' : pendingMovedFrom'[c] = pendingMovedFrom[c]
<1>1. \/ HandleIgnored(Q[1]) \/ HandleUntracked(Q[1])
      \/ /\ Q[1].wd \in DOMAIN wdToPath
         /\ \/ HandleCreate(Q[1], PathOf(Q[1])) \/ HandleDelete(Q[1], PathOf(Q[1]))
            \/ HandleModify(Q[1], PathOf(Q[1]))
            \/ HandleMovedFrom(Q[1], PathOf(Q[1])) \/ HandleMovedTo(Q[1], PathOf(Q[1]))
  BY HandleIs
<1>2. CASE \/ HandleIgnored(Q[1]) \/ HandleUntracked(Q[1]) \/ HandleCreate(Q[1], PathOf(Q[1]))
           \/ HandleDelete(Q[1], PathOf(Q[1])) \/ HandleModify(Q[1], PathOf(Q[1]))
  BY <1>2 DEF HandleIgnored, HandleUntracked, HandleCreate, HandleDelete, HandleModify, NoMove
<1>3. CASE HandleMovedFrom(Q[1], PathOf(Q[1])) /\ Q[1].wd \in DOMAIN wdToPath
  <2>1. pendingMovedFrom' = Put(pendingMovedFrom, Q[1].cookie, PathOf(Q[1])) /\ Q[1].kind = "movedFrom"
    BY <1>3 DEF HandleMovedFrom
  <2>2. /\ DOMAIN pendingMovedFrom' = DOMAIN pendingMovedFrom \cup {Q[1].cookie}
        /\ pendingMovedFrom'[Q[1].cookie] = PathOf(Q[1])
        /\ \A c \in DOMAIN pendingMovedFrom : c # Q[1].cookie => pendingMovedFrom'[c] = pendingMovedFrom[c]
    BY <2>1 DEF Put
  <2> QED
    BY <1>3, <2>1, <2>2
<1>4. CASE HandleMovedTo(Q[1], PathOf(Q[1])) /\ Q[1].wd \in DOMAIN wdToPath
  <2>1. CASE Q[1].cookie \in DOMAIN pendingMovedFrom
    <3>1. pendingMovedFrom' = Without(pendingMovedFrom, Q[1].cookie) /\ Q[1].kind = "movedTo"
      BY <1>4, <2>1 DEF HandleMovedTo
    <3>2. /\ DOMAIN Without(pendingMovedFrom, Q[1].cookie) = DOMAIN pendingMovedFrom \ {Q[1].cookie}
          /\ \A c \in DOMAIN pendingMovedFrom \ {Q[1].cookie} :
                 Without(pendingMovedFrom, Q[1].cookie)[c] = pendingMovedFrom[c]
      BY WithoutIs
    <3> QED
      BY <1>4, <2>1, <3>1, <3>2
  <2>2. CASE Q[1].cookie \notin DOMAIN pendingMovedFrom
    BY <1>4, <2>2 DEF HandleMovedTo, NoMove
  <2> QED
    BY <2>1, <2>2
<1> QED
  BY <1>1, <1>2, <1>3, <1>4

\* A movedTo that is still to come when it is waited for, was before.
LEMMA LiveBack == Typed /\ InotifyNext /\ Live' => Live
<1> SUFFICES ASSUME Typed, InotifyNext, Live', NEW c \in DOMAIN pendingMovedFrom
             PROVE  \E k \in 1..Len(Q) : Q[k].kind = "movedTo" /\ Q[k].cookie = c
  BY DEF Live
<1>0. DiskInv /\ QueueType /\ backend = "inotify" /\ Len(Q) \in Nat /\ c \in 0..changes /\ changes \in Nat
  BY QType DEF Typed, PendingType, DiskInv
<1>1. CASE Others
  <2>1. /\ pendingMovedFrom' = pendingMovedFrom
        /\ \A k \in 1..Len(Q) : k \in 1..Len(Q') /\ Q'[k] = Q[k]
    BY <1>0, <1>1, OthersKeep DEF Later
  <2>2. PICK k \in 1..Len(Q') : Q'[k].kind = "movedTo" /\ Q'[k].cookie = c
    BY <2>1 DEF Live
  <2>3. CASE k > Len(Q)
    <3>1. Q'[k].cookie = changes + 1
      BY <1>1, <2>2, <2>3, NewMoves DEF Moves
    <3> QED
      BY <1>0, <2>2, <3>1
  <2>4. CASE ~(k > Len(Q))
    <3>1. k \in 1..Len(Q)
      BY <1>0, <2>4
    <3> QED
      BY <2>1, <2>2, <3>1
  <2> QED
    BY <2>3, <2>4
<1>2. CASE HandleEvent
  <2>0. 1 \in 1..Len(Q) /\ \A k \in 1..Len(Q') : Q'[k] = Q[k + 1] /\ k + 1 \in 1..Len(Q)
    <3>1. /\ Len(Q) \in Nat \ {0} /\ \A k \in 1..Len(Q') : Q'[k] = Q[k + 1] /\ k + 1 \in 1..Len(Q)
      BY <1>0, <1>2, HandleShift
    <3> QED
      BY <3>1
  <2>1. CASE c \in DOMAIN pendingMovedFrom'
    <3>1. PICK k \in 1..Len(Q') : Q'[k].kind = "movedTo" /\ Q'[k].cookie = c
      BY <2>1 DEF Live
    <3> QED
      BY <2>0, <3>1
  <2>2. CASE c \notin DOMAIN pendingMovedFrom'
    <3>1. Q[1].kind = "movedTo" /\ Q[1].cookie = c
      BY <1>2, <2>2, PendingKept
    <3> QED
      BY <2>0, <3>1
  <2> QED
    BY <2>1, <2>2
<1>3. CASE QueueMovedTo \/ EndBatch \/ WatchNext \/ ReadSubtree \/ EmitNext \/ UNCHANGED vars
  <2>1. Q' = Q
    BY <1>0, <1>3, SameQueue
  <2>2. pendingMovedFrom' = pendingMovedFrom
    BY <1>3 DEF QueueMovedTo, EndBatch, WatchNext, ReadSubtree, EmitNext, vars, notWalk
  <2> QED
    BY <2>1, <2>2 DEF Live
<1> QED
  BY <1>1, <1>2, <1>3 DEF InotifyNext, Others

\* An event that arrives gives the file its row; one that takes the row says so.
LEMMA OwesHandle ==
    ASSUME Typed, PairInv, PendInv, Live, HandleEvent, NEW x \in Sure', x \in files, index[x] \in {0, 1}, Owes(0, x)'
    PROVE  /\ ~About(1, Arrivals, x)
           /\ Owes(0, x) \/ About(1, Removals, x)
<1>0. /\ QueueType /\ x \in FilePaths
      /\ index'[x] = 0 \/ MoveTo(x)'
      /\ 1 \in 1..Len(Q)
  <2>1. Len(Q) \in Nat \ {0}
    BY HandleShift DEF Typed
  <2> QED
    BY <2>1 DEF Typed, Sure, Owes
<1>1. \A K : "ignored" \notin K =>
          (About(1, K, x) <=> Q[1].kind \in K /\ Q[1].wd \in DOMAIN wdToPath /\ PathOf(Q[1]) = x)
  <2>1. x \in FilePaths
    BY DEF Sure
  <2> QED
    BY <2>1, AboutHead
<1>2. /\ Q[1].kind \in Arrivals /\ Q[1].wd \in DOMAIN wdToPath /\ PathOf(Q[1]) = x => index'[x] > 0
      /\ index[x] \in Nat /\ index'[x] \in Nat
      /\ \/ index'[x] >= index[x] \/ index'[x] > 0
         \/ Q[1].kind = "delete" /\ Q[1].wd \in DOMAIN wdToPath /\ PathOf(Q[1]) = x
         \/ /\ Q[1].kind = "movedTo" /\ Q[1].cookie \in DOMAIN pendingMovedFrom
            /\ pendingMovedFrom[Q[1].cookie] = x
  BY HandleIndex
<1>3. About(1, Arrivals, x) <=> Q[1].kind \in Arrivals /\ Q[1].wd \in DOMAIN wdToPath /\ PathOf(Q[1]) = x
  BY <1>1 DEF Arrivals
<1>4. About(1, Removals, x) <=> Q[1].kind \in Removals /\ Q[1].wd \in DOMAIN wdToPath /\ PathOf(Q[1]) = x
  BY <1>1 DEF Removals
<1>5. ASSUME About(1, Arrivals, x) PROVE FALSE
  <2>1. MoveTo(x)'
    BY <1>0, <1>2, <1>3, <1>5
  <2>2. PICK c \in DOMAIN pendingMovedFrom' : pendingMovedFrom'[c] = x
    BY <2>1 DEF MoveTo
  <2>3. c \in DOMAIN pendingMovedFrom
    BY <1>3, <1>5, PendingKept DEF Arrivals
  <2>4. PICK k \in 1..Len(Q) : Q[k].kind = "movedTo" /\ Q[k].cookie = c
    BY <2>3 DEF Live
  <2>5. k = 1
    BY <2>3, <2>4 DEF PendInv
  <2>6. HandleMovedTo(Q[1], PathOf(Q[1]))
    BY <1>3, <1>5, <2>4, <2>5, HandleIs DEF HandleIgnored, HandleUntracked, Tracked, HandleCreate, HandleDelete,
       HandleModify, HandleMovedFrom
  <2>7. pendingMovedFrom' = Without(pendingMovedFrom, c)
    BY <2>3, <2>4, <2>5, <2>6 DEF HandleMovedTo
  <2>8. DOMAIN Without(pendingMovedFrom, c) = DOMAIN pendingMovedFrom \ {c}
    BY WithoutIs
  <2> QED
    BY <2>2, <2>7, <2>8
<1>6. ASSUME ~Owes(0, x), ~About(1, Removals, x) PROVE FALSE
  <2>1. index[x] # 0 /\ ~MoveTo(x)
    BY <1>6 DEF Owes
  <2>2. index'[x] # 0
    <3>1. index[x] > 0 /\ ~(Q[1].kind = "delete" /\ Q[1].wd \in DOMAIN wdToPath /\ PathOf(Q[1]) = x)
      BY <1>2, <1>4, <1>6, <2>1 DEF Removals
    <3>2. ~(/\ Q[1].kind = "movedTo" /\ Q[1].cookie \in DOMAIN pendingMovedFrom
            /\ pendingMovedFrom[Q[1].cookie] = x)
      BY <2>1 DEF MoveTo
    <3> QED
      BY <1>2, <3>1, <3>2
  <2>3. MoveTo(x)'
    BY <1>0, <2>2
  <2>4. PICK c \in DOMAIN pendingMovedFrom' : pendingMovedFrom'[c] = x
    BY <2>3 DEF MoveTo
  <2>5. ~(Q[1].kind = "movedFrom" /\ Q[1].wd \in DOMAIN wdToPath /\ PathOf(Q[1]) = x)
    BY <1>4, <1>6 DEF Removals
  <2>6. c \in DOMAIN pendingMovedFrom /\ pendingMovedFrom[c] = x
    <3>1. CASE pendingMovedFrom' = pendingMovedFrom
      BY <2>4, <3>1
    <3>2. CASE /\ Q[1].kind = "movedFrom" /\ Q[1].wd \in DOMAIN wdToPath
               /\ DOMAIN pendingMovedFrom' = DOMAIN pendingMovedFrom \cup {Q[1].cookie}
               /\ pendingMovedFrom'[Q[1].cookie] = PathOf(Q[1])
               /\ \A d \in DOMAIN pendingMovedFrom : d # Q[1].cookie => pendingMovedFrom'[d] = pendingMovedFrom[d]
      <4>1. c # Q[1].cookie
        BY <2>4, <2>5, <3>2
      <4> QED
        BY <2>4, <3>2, <4>1
    <3>3. CASE /\ DOMAIN pendingMovedFrom' = DOMAIN pendingMovedFrom \ {Q[1].cookie}
               /\ \A d \in DOMAIN pendingMovedFrom' : pendingMovedFrom'[d] = pendingMovedFrom[d]
      BY <2>4, <3>3
    <3> QED
      BY <3>1, <3>2, <3>3, PendingKept
  <2> QED
    BY <2>1, <2>6 DEF MoveTo
<1> QED
  BY <1>5, <1>6

LEMMA DueHandle ==
    ASSUME Typed, TableInv, LastInv, Home, PairInv, PendInv, Live, HandleEvent,
           NEW x \in Sure', Row(x), Due(x)
    PROVE  Due(x)'
<1>0. DiskInv /\ QueueType /\ WatchType /\ \A i \in DOMAIN dirs : dirs[i] \in Path
  BY DiskType DEF Typed
<1>1. /\ Len(Q) \in Nat \ {0} /\ 1 \in 1..Len(Q) /\ Len(Q') = Len(Q) - 1
      /\ \A k \in 1..Len(Q') : k + 1 \in 1..Len(Q) /\ (About(k, Removals, x)' <=> About(k + 1, Removals, x))
      /\ \A k \in 1..Len(Q) : k > 1 => k - 1 \in 1..Len(Q') /\ Q'[k - 1] = Q[k]
  <2>1. /\ \A k \in 1..Len(Q') : k + 1 \in 1..Len(Q)
        /\ \A k \in 1..Len(Q) : k > 1 => k - 1 \in 1..Len(Q') /\ Q'[k - 1] = Q[k]
    BY <1>0, HandleShift
  <2> QED
    BY <2>1, AboutShift
<1>2. UNCHANGED <<files, dirs, watches>> /\ Idle
  BY HandleIs DEF disk
<1>3. ~WalkTo(x) /\ index[x] \in {0, 1} /\ x \in Sure /\ x \in FilePaths
  <2>1. InotifyNext
    BY DEF InotifyNext
  <2> QED
    BY <1>2, <2>1, DoubtGrows DEF Idle, WalkTo, Range, Row, Sure
<1>4. x \in Path
  BY <1>3, SureType
<1>5. ASSUME NEW k \in 0..Len(Q'), x \in files, Owes(k, x)'
      PROVE  SentAfter(x, k + 1)
  <2>1. CASE k # 0
    <3>1. k \in 1..Len(Q') /\ k + 1 \in 0..Len(Q) /\ k + 1 # 0
      BY <1>1, <2>1
    <3>2. Owes(k + 1, x)
      BY <1>1, <1>5, <2>1, <3>1 DEF Owes
    <3> QED
      BY <1>3, <1>5, <3>1, <3>2 DEF Due
  <2>2. CASE k = 0
    <3>1. Owes(0, x)' /\ k + 1 = 1
      BY <1>5, <2>2
    <3>2. ~About(1, Arrivals, x) /\ (Owes(0, x) \/ About(1, Removals, x))
      BY <1>3, <1>5, <3>1, OwesHandle
    <3>3. CASE About(1, Removals, x)
      <4>1. Owes(1, x) /\ 1 \in 0..Len(Q)
        BY <1>1, <3>3 DEF Owes
      <4> QED
        BY <1>3, <1>5, <3>1, <4>1 DEF Due
    <3>4. CASE Owes(0, x)
      <4>1. 0 \in 0..Len(Q)
        BY <1>1
      <4>2. SentAfter(x, 0)
        BY <1>3, <1>5, <3>4, <4>1 DEF Due
      <4>3. PICK j \in DOMAIN watches, m \in 1..Len(Q) :
                \/ m > 0 /\ Q[m].kind \in Arrivals /\ Q[m].wd = watches[j] /\ dirs[j] = Front(x) /\ Q[m].name = Last(x)
                \/ Leads(j, m, x)
        BY <4>2 DEF SentAfter
      <4>4. CASE Leads(j, m, x)
        BY <3>1, <4>4 DEF SentAfter
      <4>5. CASE Q[m].kind \in Arrivals /\ Q[m].wd = watches[j] /\ dirs[j] = Front(x) /\ Q[m].name = Last(x)
        <5>1. At(watches[j], x)
          BY <1>3, <4>5 DEF Home
        <5>2. About(m, Arrivals, x)
          BY <4>5, <5>1 DEF About
        <5>3. m > 1
          BY <1>1, <3>2, <5>2
        <5> QED
          BY <3>1, <4>5, <5>3 DEF SentAfter
      <4> QED
        BY <4>3, <4>4, <4>5
    <3> QED
      BY <3>2, <3>3, <3>4
  <2> QED
    BY <2>1, <2>2
<1>6. ASSUME NEW k \in 0..Len(Q'), SentAfter(x, k + 1) PROVE WalkTo(x)' \/ SentAfter(x, k)'
  <2>1. PICK j \in DOMAIN watches, m \in 1..Len(Q) :
            \/ m > k + 1 /\ Q[m].kind \in Arrivals /\ Q[m].wd = watches[j] /\ dirs[j] = Front(x) /\ Q[m].name = Last(x)
            \/ Leads(j, m, x)
    BY <1>6 DEF SentAfter
  <2>2. ASSUME NEW i \in DOMAIN watches, NEW l \in 1..Len(Q), l > 1, Leads(i, l, x) PROVE SentAfter(x, k)'
    <3>1. l - 1 \in 1..Len(Q') /\ Q'[l - 1] = Q[l]
      BY <1>1, <2>2
    <3>2. Leads(i, l - 1, x)'
      BY <1>2, <2>2, <3>1 DEF Leads
    <3> QED
      BY <1>2, <3>1, <3>2 DEF SentAfter
  <2>3. CASE m > k + 1 /\ Q[m].kind \in Arrivals /\ Q[m].wd = watches[j] /\ dirs[j] = Front(x) /\ Q[m].name = Last(x)
    <3>1. m > 1 /\ m - 1 > k
      BY <2>3
    <3>2. m - 1 \in 1..Len(Q') /\ Q'[m - 1] = Q[m]
      BY <1>1, <3>1
    <3> QED
      BY <1>2, <2>3, <3>1, <3>2 DEF SentAfter
  <2>4. CASE Leads(j, m, x) /\ m > 1
    BY <2>2, <2>4
  <2>5. CASE Leads(j, m, x) /\ m = 1
    <3>1. Q[1].kind \in Arrivals /\ Q[1].wd = watches[j] /\ Q[1].isDir /\ IsStrictPrefix(Append(dirs[j], Q[1].name), x)
      BY <2>5 DEF Leads
    <3>2. /\ Q[1].wd \in DOMAIN wdToPath /\ dirs[j] \in Path /\ Q[1].name \in STRING /\ j \in DOMAIN dirs
      BY <1>0, <1>1, <3>1 DEF WatchType, QueueType, Arrivals
    <3>3. CASE Known(j)
      <4>1. PathOf(Q[1]) = Append(dirs[j], Q[1].name) /\ PathOf(Q[1]) \in Path
        BY <3>1, <3>2, <3>3, AppendIs DEF Known, PathOf
      <4>2. WalkSubtree(Q[1].isDir, PathOf(Q[1]))
        BY <3>1, <3>2, HandleIs DEF Arrivals, HandleIgnored, HandleUntracked, Tracked, HandleCreate, HandleDelete,
           HandleModify, HandleMovedFrom, HandleMovedTo
      <4>3. walkRoot' = PathOf(Q[1])
        BY <3>1, <4>2 DEF WalkSubtree
      <4>4. walkRoot' # None
        BY <4>1, <4>3, PathsAssumption DEF Path
      <4> QED
        BY <3>1, <4>1, <4>3, <4>4 DEF WalkTo
    <3>4. CASE ~Known(j)
      <4>1. IsStrictPrefix(dirs[j], x)
        BY <1>1, <1>3, <2>5, LeadsAbove
      <4>2. PICK i \in DOMAIN watches, l \in 1..Len(Q) :
                /\ Known(i) /\ Q[l].kind \in Arrivals /\ Q[l].wd = watches[i]
                /\ Q[l].isDir /\ IsPrefix(Append(dirs[i], Q[l].name), dirs[j])
                /\ IsPrefix(Append(dirs[i], Q[l].name), x)
        BY <1>3, <1>4, <3>2, <3>4, <4>1, Reached
      <4>3. l # 1
        BY <1>0, <3>1, <3>4, <4>2 DEF WatchType
      <4>4. Append(dirs[i], Q[l].name) # x
        BY <1>4, <3>2, <4>1, <4>2, PrefixAntisymmetric DEF IsStrictPrefix
      <4>5. Leads(i, l, x)
        BY <4>2, <4>4 DEF Leads, IsStrictPrefix
      <4>6. l > 1
        BY <1>1, <4>3
      <4> QED
        BY <2>2, <4>5, <4>6
    <3> QED
      BY <3>3, <3>4
  <2>6. m = 1 \/ m > 1
    BY <1>1
  <2> QED
    BY <2>1, <2>3, <2>4, <2>5, <2>6
<1>7. ASSUME NEW k \in 0..Len(Q'), x \in files', Owes(k, x)' PROVE WalkTo(x)' \/ SentAfter(x, k)'
  BY <1>2, <1>5, <1>6, <1>7
<1> QED
  BY <1>7 DEF Due

-----------------------------------------------------------------------------
(* inotify: the index is exact.                                            *)

RowInv == LastInv /\ Home /\ ArrInv /\ (Live => \A x \in Sure : Row(x) /\ Due(x))

LEMMA RowStep ==
    Typed /\ TableInv /\ PairInv /\ PendInv /\ RowInv /\ Inotify' /\ [Next]_vars => RowInv'
<1> SUFFICES ASSUME Typed, TableInv, PairInv, PendInv, RowInv, Inotify', [Next]_vars PROVE RowInv'
  OBVIOUS
<1>1. InotifyNext /\ gaps' = {} /\ LastInv /\ Home /\ ArrInv
  BY InotifySteps DEF RowInv, Inotify
<1>2. LastInv' /\ Home' /\ ArrInv'
  BY <1>1, LastStep, HomeStep, ArrStep
<1>3. ASSUME Live', NEW x \in Sure' PROVE Row(x)' /\ Due(x)'
  <2>1. Live /\ x \in Sure
    BY <1>1, <1>3, LiveBack, DoubtGrows
  <2>2. Row(x) /\ Due(x)
    BY <2>1 DEF RowInv
  <2>3. CASE Others
    BY <1>1, <2>2, <2>3, RowOthers, DueOthers
  <2>4. CASE HandleEvent
    BY <1>1, <2>1, <2>2, <2>4, RowHandle, DueHandle
  <2>5. CASE QueueMovedTo \/ EndBatch \/ WatchNext \/ ReadSubtree \/ EmitNext \/ UNCHANGED vars
    BY <1>1, <2>2, <2>5, RowSame, DueSame
  <2> QED
    BY <1>1, <2>3, <2>4, <2>5 DEF InotifyNext, Others
<1> QED
  BY <1>2, <1>3 DEF RowInv

\* With every event handled, what is listed is there and what is there is listed.
LEMMA RowsExact ==
    ASSUME Typed, RowInv, Settled, NEW x \in Sure
    PROVE  index[x] = IF x \in files THEN 1 ELSE 0
<1>1. /\ Len(Q) = 0 /\ pendingMovedFrom = <<>> /\ DOMAIN pendingMovedFrom = {} /\ Idle
  BY DEF Settled, Q
<1>2. Live /\ ~MoveTo(x) /\ ~WalkTo(x) /\ ~SentAfter(x, 0)
  <2>1. Live /\ ~MoveTo(x)
    BY <1>1 DEF Live, MoveTo
  <2>2. ~WalkTo(x)
    BY <1>1 DEF Idle, WalkTo, Range
  <2>3. ~SentAfter(x, 0)
    BY <1>1 DEF SentAfter
  <2> QED
    BY <2>1, <2>2, <2>3
<1>3. Row(x) /\ Due(x)
  BY <1>2 DEF RowInv
<1>4. index[x] > 0 => x \in files
  BY <1>1, <1>2, <1>3 DEF Row, Stands, Held
<1>5. x \in files => index[x] # 0
  BY <1>1, <1>2, <1>3 DEF Due, Owes
<1> QED
  BY <1>3, <1>4, <1>5 DEF Row

\* The rows there are at the start.
LEMMA StartRows ==
    ASSUME Init
    PROVE  \A x \in FilePaths : index[x] = IF x \in files THEN 1 ELSE 0
BY DEF Init, Paths

LEMMA RowInit == Init /\ Inotify => RowInv
<1> SUFFICES ASSUME Init, backend = "inotify" PROVE RowInv
  BY DEF Inotify
<1>1. DiskInv
  BY DiskInit
<1>2. PICK order \in SetToSeqs(StartDirs) :
          /\ dirs = order /\ watches = [i \in DOMAIN order |-> i]
          /\ wdToPath = [i \in DOMAIN order |-> order[i]]
  BY DEF Init
<1>3. 1..Len(Q) = {} /\ 0..Len(Q) = {0} /\ DOMAIN pendingMovedFrom = {}
  BY StartListed
<1>4. LastInv /\ ArrInv
  BY <1>3 DEF LastInv, ArrInv
<1>5. Home
  BY <1>2 DEF Home, At
<1>6. ASSUME NEW x \in Sure PROVE Row(x) /\ Due(x)
  <2>1. index[x] = (IF x \in files THEN 1 ELSE 0) /\ index[x] \in {0, 1}
    BY StartRows DEF Sure
  <2>2. Spaced(x) /\ Vacant(x)
    BY <1>3 DEF Spaced, Vacant
  <2>3. Stands(x)
    <3>1. x \in files => \E i \in DOMAIN watches : dirs[i] = Front(x)
      BY <1>1, <1>2, FrontThere
    <3> QED
      BY <2>1, <3>1 DEF Stands, Held
  <2>4. Due(x)
    <3>1. x \in files => ~Owes(0, x)
      BY <1>3, <2>1 DEF Owes, MoveTo
    <3> QED
      BY <1>3, <3>1 DEF Due
  <2> QED
    BY <2>1, <2>2, <2>3, <2>4 DEF Row
<1> QED
  BY <1>4, <1>5, <1>6 DEF RowInv

-----------------------------------------------------------------------------
(* fanotify: the rows of one file.                                         *)

\* An event about the entry was merged: which of its kinds came last is lost.
BlurredIn(s, i, n) == \E k \in 1..Len(s) : s[k].merged /\ Names(s[k], i, n)

\* What tells of the entry is followed by its removal unless it is there.
Followed(s, i, n, there) ==
    \A k \in 1..Len(s) : Of(s[k], Tells, i, n) =>
        there \/ \E m \in 1..Len(s) : m > k /\ Of(s[m], Removals, i, n)

\* Between two arrivals the entry is removed.
Apart(s, i, n) ==
    \A k, m \in 1..Len(s) : k < m /\ Of(s[k], Tells, i, n) /\ Of(s[m], Arrivals, i, n) =>
        \E l \in 1..Len(s) : k < l /\ l < m /\ Of(s[l], Removals, i, n)

\* What arrives has no row, or will have none.
Free(s, i, n, rows) ==
    \A k \in 1..Len(s) : Of(s[k], Arrivals, i, n) =>
        rows = 0 \/ \E l \in 1..Len(s) : l < k /\ Of(s[l], Removals, i, n)

\* A row is that of what is there, or will be taken.
Backed(s, i, n, there, rows) ==
    rows > 0 => there \/ \E k \in 1..Len(s) : Of(s[k], Removals, i, n)

OkRows(s, i, n, there, rows) ==
    /\ rows \in {0, 1} /\ Followed(s, i, n, there) /\ Apart(s, i, n)
    /\ Free(s, i, n, rows) /\ Backed(s, i, n, there, rows)

\* The same events about the entry are in both.
Agree(s, t, i, n) ==
    /\ \A k \in 1..Len(s) : Names(s[k], i, n) => k \in 1..Len(t) /\ t[k] = s[k]
    /\ \A k \in 1..Len(t) : Names(t[k], i, n) => k \in 1..Len(s) /\ t[k] = s[k]

LEMMA AgreeOf ==
    ASSUME NEW s, NEW t, NEW i, NEW n, Agree(s, t, i, n)
    PROVE  \A kinds :
               /\ \A k \in 1..Len(s) : Of(s[k], kinds, i, n) => k \in 1..Len(t) /\ Of(t[k], kinds, i, n)
               /\ \A k \in 1..Len(t) : Of(t[k], kinds, i, n) => k \in 1..Len(s) /\ Of(s[k], kinds, i, n)
BY DEF Agree, Names, Of

LEMMA AgreeRows ==
    ASSUME NEW s, NEW t, NEW i, NEW n, Agree(s, t, i, n), NEW there \in BOOLEAN, NEW rows \in Nat,
           OkRows(s, i, n, there, rows)
    PROVE  OkRows(t, i, n, there, rows)
<1>1. /\ \A k \in 1..Len(s) : Of(s[k], Tells, i, n) => k \in 1..Len(t) /\ Of(t[k], Tells, i, n)
      /\ \A k \in 1..Len(t) : Of(t[k], Tells, i, n) => k \in 1..Len(s) /\ Of(s[k], Tells, i, n)
  BY AgreeOf
<1>2. /\ \A k \in 1..Len(s) : Of(s[k], Arrivals, i, n) => k \in 1..Len(t) /\ Of(t[k], Arrivals, i, n)
      /\ \A k \in 1..Len(t) : Of(t[k], Arrivals, i, n) => k \in 1..Len(s) /\ Of(s[k], Arrivals, i, n)
  BY AgreeOf
<1>3. /\ \A k \in 1..Len(s) : Of(s[k], Removals, i, n) => k \in 1..Len(t) /\ Of(t[k], Removals, i, n)
      /\ \A k \in 1..Len(t) : Of(t[k], Removals, i, n) => k \in 1..Len(s) /\ Of(s[k], Removals, i, n)
  BY AgreeOf
<1>4. Followed(t, i, n, there)
  BY <1>1, <1>3 DEF OkRows, Followed
<1>5. Apart(t, i, n)
  BY <1>1, <1>2, <1>3 DEF OkRows, Apart
<1>6. Free(t, i, n, rows)
  BY <1>2, <1>3 DEF OkRows, Free
<1>7. Backed(t, i, n, there, rows)
  BY <1>3 DEF OkRows, Backed
<1> QED
  BY <1>4, <1>5, <1>6, <1>7 DEF OkRows

LEMMA AgreeBlurred ==
    ASSUME NEW s, NEW t, NEW i, NEW n, Agree(s, t, i, n)
    PROVE  BlurredIn(s, i, n) <=> BlurredIn(t, i, n)
BY DEF Agree, BlurredIn

\* Whatever is queued about another entry.
LEMMA OtherAgrees ==
    ASSUME NEW s \in Seq(FanEvent), NEW e \in FanEvent, NEW t, Queued(s, e, t),
           NEW i, NEW n, ~Names(e, i, n)
    PROVE  Agree(s, t, i, n)
BY OtherKept DEF Agree

LEMMA AgreeTrans ==
    ASSUME NEW s, NEW t, NEW u, NEW i, NEW n, Agree(s, t, i, n), Agree(t, u, i, n)
    PROVE  Agree(s, u, i, n)
<1>1. ASSUME NEW k \in 1..Len(s), Names(s[k], i, n) PROVE k \in 1..Len(u) /\ u[k] = s[k]
  <2>1. k \in 1..Len(t) /\ t[k] = s[k]
    BY <1>1 DEF Agree
  <2> QED
    BY <1>1, <2>1 DEF Agree
<1>2. ASSUME NEW k \in 1..Len(u), Names(u[k], i, n) PROVE k \in 1..Len(s) /\ u[k] = s[k]
  <2>1. k \in 1..Len(t) /\ u[k] = t[k]
    BY <1>2 DEF Agree
  <2> QED
    BY <1>2, <2>1 DEF Agree
<1> QED
  BY <1>1, <1>2 DEF Agree

LEMMA AgreeBack ==
    ASSUME NEW s, NEW t, NEW i, NEW n, Agree(s, t, i, n)
    PROVE  Agree(t, s, i, n)
<1>1. ASSUME NEW k \in 1..Len(t), Names(t[k], i, n) PROVE k \in 1..Len(s) /\ s[k] = t[k]
  BY <1>1 DEF Agree
<1>2. ASSUME NEW k \in 1..Len(s), Names(s[k], i, n) PROVE k \in 1..Len(t) /\ s[k] = t[k]
  BY <1>2 DEF Agree
<1> QED
  BY <1>1, <1>2 DEF Agree

\* An event about the entry is queued and not merged: it tells that the entry
\* arrived, that it changed, or that it is gone.
LEMMA RowsQueued ==
    ASSUME NEW s \in Seq(FanEvent), NEW e \in FanEvent, NEW t, Queued(s, e, t),
           NEW i, NEW n, Names(e, i, n), ~BlurredIn(t, i, n),
           NEW there \in BOOLEAN, NEW now \in BOOLEAN, NEW rows \in Nat,
           ~BlurredIn(s, i, n) => OkRows(s, i, n, there, rows),
           \/ ~there /\ now /\ \E y \in Arrivals : e.kinds = {y}
           \/ there /\ now /\ e.kinds = {"modify"}
           \/ ~now /\ \E y \in Removals : e.kinds = {y}
    PROVE  OkRows(t, i, n, now, rows)
<1>1. t = Append(s, e)
  <2>1. ASSUME NEW j \in 1..Len(s), s[j].dir = e.dir, s[j].name = e.name, t = MergedAt(s, j, e)
        PROVE  BlurredIn(t, i, n)
    <3>1. j \in 1..Len(t) /\ t[j].merged /\ t[j].dir = e.dir /\ t[j].name = e.name
      BY <2>1, MergedIs
    <3> QED
      BY <3>1 DEF BlurredIn, Names
  <2> QED
    BY <2>1 DEF Queued
<1>2. PICK z : z = Len(s) + 1
  OBVIOUS
<1>3. /\ Len(s) \in Nat /\ z \in 1..Len(t) /\ t[z] = e /\ z > Len(s)
      /\ \A k \in 1..Len(s) : k \in 1..Len(t) /\ t[k] = s[k] /\ k < z /\ k \in Nat
      /\ \A k \in 1..Len(t) : k \in 1..Len(s) \/ k = z
  <2>1. /\ Append(s, e) \in Seq(FanEvent) /\ Len(Append(s, e)) = Len(s) + 1 /\ Len(s) \in Nat
        /\ \A k \in 1..Len(s) : k \in 1..Len(Append(s, e)) /\ Append(s, e)[k] = s[k]
        /\ Append(s, e)[Len(s) + 1] = e
        /\ \A k \in 1..Len(Append(s, e)) : k \in 1..Len(s) \/ k = Len(s) + 1
    BY AppendOne
  <2>2. z \in 1..Len(t) /\ z > Len(s) /\ \A k \in 1..Len(s) : k < z /\ k \in Nat
    BY <1>1, <1>2, <2>1
  <2> QED
    BY <1>1, <1>2, <2>1, <2>2
<1>4. ~BlurredIn(s, i, n)
  BY <1>3 DEF BlurredIn
<1>5. OkRows(s, i, n, there, rows)
  BY <1>4
<1>6. \A kinds : \A k \in 1..Len(s) : Of(t[k], kinds, i, n) <=> Of(s[k], kinds, i, n)
  BY <1>3
<1>7. \A kinds : Of(t[z], kinds, i, n) <=> e.kinds \subseteq kinds
  BY <1>3 DEF Of, Names
<1>8. CASE ~there /\ now /\ \E y \in Arrivals : e.kinds = {y}
  <2>1. ~Of(t[z], Removals, i, n)
    BY <1>7, <1>8 DEF Arrivals, Removals
  <2>2. Apart(t, i, n)
    <3> SUFFICES ASSUME NEW k \in 1..Len(t), NEW m \in 1..Len(t), k < m,
                        Of(t[k], Tells, i, n), Of(t[m], Arrivals, i, n)
                 PROVE  \E l \in 1..Len(t) : k < l /\ l < m /\ Of(t[l], Removals, i, n)
      BY DEF Apart
    <3>1. k \in 1..Len(s) /\ Of(s[k], Tells, i, n)
      <4>1. k # z
        BY <1>3
      <4> QED
        BY <1>3, <1>6, <4>1
    <3>2. CASE m = z
      <4>1. PICK l \in 1..Len(s) : l > k /\ Of(s[l], Removals, i, n)
        BY <1>5, <1>8, <3>1 DEF OkRows, Followed
      <4> QED
        BY <1>3, <1>6, <3>2, <4>1
    <3>3. CASE m \in 1..Len(s)
      <4>1. PICK l \in 1..Len(s) : k < l /\ l < m /\ Of(s[l], Removals, i, n)
        BY <1>5, <1>6, <3>1, <3>3 DEF OkRows, Apart
      <4> QED
        BY <1>3, <1>6, <4>1
    <3> QED
      BY <1>3, <3>2, <3>3
  <2>3. Free(t, i, n, rows)
    <3> SUFFICES ASSUME NEW k \in 1..Len(t), Of(t[k], Arrivals, i, n), rows # 0
                 PROVE  \E l \in 1..Len(t) : l < k /\ Of(t[l], Removals, i, n)
      BY DEF Free
    <3>1. CASE k = z
      <4>1. PICK l \in 1..Len(s) : Of(s[l], Removals, i, n)
        BY <1>5, <1>8 DEF OkRows, Backed
      <4> QED
        BY <1>3, <1>6, <3>1, <4>1
    <3>2. CASE k \in 1..Len(s)
      <4>1. PICK l \in 1..Len(s) : l < k /\ Of(s[l], Removals, i, n)
        BY <1>5, <1>6, <3>2 DEF OkRows, Free
      <4> QED
        BY <1>3, <1>6, <4>1
    <3> QED
      BY <1>3, <3>1, <3>2
  <2> QED
    BY <1>5, <1>8, <2>2, <2>3 DEF OkRows, Followed, Backed
<1>9. CASE ~(\E y \in Arrivals : e.kinds = {y})
  <2>1. e.kinds = {"modify"} \/ \E y \in Removals : e.kinds = {y}
    BY <1>9
  <2>2. ~Of(t[z], Arrivals, i, n)
    <3>1. \E y \in {"modify", "delete", "movedFrom"} : e.kinds = {y}
      BY <2>1 DEF Removals
    <3>2. ~(e.kinds \subseteq Arrivals)
      BY <3>1 DEF Arrivals
    <3> QED
      BY <1>7, <3>2
  <2>3. Apart(t, i, n)
    <3> SUFFICES ASSUME NEW k \in 1..Len(t), NEW m \in 1..Len(t), k < m,
                        Of(t[k], Tells, i, n), Of(t[m], Arrivals, i, n)
                 PROVE  \E l \in 1..Len(t) : k < l /\ l < m /\ Of(t[l], Removals, i, n)
      BY DEF Apart
    <3>1. m \in 1..Len(s)
      BY <1>3, <2>2
    <3>2. k \in 1..Len(s)
      BY <1>3, <3>1
    <3>3. PICK l \in 1..Len(s) : k < l /\ l < m /\ Of(s[l], Removals, i, n)
      BY <1>5, <1>6, <3>1, <3>2 DEF OkRows, Apart
    <3> QED
      BY <1>3, <1>6, <3>3
  <2>4. Free(t, i, n, rows)
    <3> SUFFICES ASSUME NEW k \in 1..Len(t), Of(t[k], Arrivals, i, n), rows # 0
                 PROVE  \E l \in 1..Len(t) : l < k /\ Of(t[l], Removals, i, n)
      BY DEF Free
    <3>1. k \in 1..Len(s)
      BY <1>3, <2>2
    <3>2. PICK l \in 1..Len(s) : l < k /\ Of(s[l], Removals, i, n)
      BY <1>5, <1>6, <3>1 DEF OkRows, Free
    <3> QED
      BY <1>3, <1>6, <3>2
  <2>5. CASE now
    BY <1>5, <2>3, <2>4, <2>5 DEF OkRows, Followed, Backed
  <2>6. CASE ~now
    <3>1. Of(t[z], Removals, i, n) /\ ~Of(t[z], Tells, i, n)
      BY <1>7, <1>9, <2>6 DEF Tells, Arrivals, Removals
    <3>2. Followed(t, i, n, now)
      <4> SUFFICES ASSUME NEW k \in 1..Len(t), Of(t[k], Tells, i, n)
                   PROVE  \E m \in 1..Len(t) : m > k /\ Of(t[m], Removals, i, n)
        BY DEF Followed
      <4>1. k \in 1..Len(s)
        BY <1>3, <3>1
      <4>2. z > k
        BY <1>3, <4>1
      <4> QED
        BY <1>3, <3>1, <4>2
    <3>3. Backed(t, i, n, now, rows)
      BY <1>3, <3>1 DEF Backed
    <3> QED
      BY <1>5, <2>3, <2>4, <3>2, <3>3 DEF OkRows
  <2> QED
    BY <2>5, <2>6
<1> QED
  BY <1>8, <1>9 DEF Arrivals, Removals

\* The first event is read: it was about another entry, or it was about this
\* one and the file that is there has its row now.
LEMMA RowsShift ==
    ASSUME NEW s \in Seq(FanEvent), NEW t \in Seq(FanEvent), Len(s) \in Nat \ {0}, Len(t) = Len(s) - 1,
           \A k \in 1..Len(t) : t[k] = s[k + 1],
           NEW i, NEW n, NEW there \in BOOLEAN, NEW rows \in Nat, NEW left \in {0, 1},
           OkRows(s, i, n, there, rows),
           \/ ~Names(s[1], i, n) /\ left = rows
           \/ Of(s[1], Tells, i, n) /\ left = (IF there THEN 1 ELSE 0)
           \/ Of(s[1], Removals, i, n) /\ left = 0
    PROVE  OkRows(t, i, n, there, left)
<1>1. /\ \A k \in 1..Len(t) : t[k] = s[k + 1] /\ k + 1 \in 1..Len(s) /\ k + 1 > 1
      /\ \A k \in 1..Len(s) : k > 1 => k - 1 \in 1..Len(t) /\ t[k - 1] = s[k]
  OBVIOUS
<1>2. Followed(t, i, n, there)
  <2> SUFFICES ASSUME NEW k \in 1..Len(t), Of(t[k], Tells, i, n), ~there
               PROVE  \E m \in 1..Len(t) : m > k /\ Of(t[m], Removals, i, n)
    BY DEF Followed
  <2>1. PICK m \in 1..Len(s) : m > k + 1 /\ Of(s[m], Removals, i, n)
    BY <1>1 DEF OkRows, Followed
  <2>2. m - 1 \in 1..Len(t) /\ t[m - 1] = s[m] /\ m - 1 > k
    BY <1>1, <2>1
  <2> QED
    BY <2>1, <2>2
<1>3. ASSUME NEW k \in 1..Len(s), NEW m \in 1..Len(t), k < m + 1,
             Of(s[k], Tells, i, n), Of(t[m], Arrivals, i, n)
      PROVE  \E l \in 1..Len(t) : k - 1 < l /\ l < m /\ Of(t[l], Removals, i, n)
  <2>1. m + 1 \in 1..Len(s) /\ Of(s[m + 1], Arrivals, i, n)
    BY <1>1, <1>3
  <2>2. PICK l \in 1..Len(s) : k < l /\ l < m + 1 /\ Of(s[l], Removals, i, n)
    BY <1>3, <2>1 DEF OkRows, Apart
  <2>3. l > 1
    BY <2>2
  <2>4. l - 1 \in 1..Len(t) /\ t[l - 1] = s[l] /\ k - 1 < l - 1 /\ l - 1 < m
    BY <1>1, <2>2, <2>3
  <2> QED
    BY <2>2, <2>4
<1>4. Apart(t, i, n)
  <2> SUFFICES ASSUME NEW k \in 1..Len(t), NEW m \in 1..Len(t), k < m,
                      Of(t[k], Tells, i, n), Of(t[m], Arrivals, i, n)
               PROVE  \E l \in 1..Len(t) : k < l /\ l < m /\ Of(t[l], Removals, i, n)
    BY DEF Apart
  <2>1. k + 1 \in 1..Len(s) /\ Of(s[k + 1], Tells, i, n) /\ k + 1 < m + 1 /\ (k + 1) - 1 = k
    BY <1>1
  <2> QED
    BY <1>3, <2>1
<1>5. CASE ~Names(s[1], i, n) /\ left = rows
  <2>1. \A k \in 1..Len(s) : \A kinds : Of(s[k], kinds, i, n) => k > 1
    BY <1>5 DEF Of, Names
  <2>2. Free(t, i, n, left)
    <3> SUFFICES ASSUME NEW k \in 1..Len(t), Of(t[k], Arrivals, i, n), rows # 0
                 PROVE  \E l \in 1..Len(t) : l < k /\ Of(t[l], Removals, i, n)
      BY <1>5 DEF Free
    <3>1. PICK l \in 1..Len(s) : l < k + 1 /\ Of(s[l], Removals, i, n)
      BY <1>1 DEF OkRows, Free
    <3>2. l > 1
      BY <2>1, <3>1
    <3>3. l - 1 \in 1..Len(t) /\ t[l - 1] = s[l] /\ l - 1 < k
      BY <1>1, <3>1, <3>2
    <3> QED
      BY <3>1, <3>3
  <2>3. Backed(t, i, n, there, left)
    BY <1>1, <1>5, <2>1 DEF OkRows, Backed
  <2> QED
    BY <1>2, <1>4, <2>2, <2>3 DEF OkRows
<1>6. CASE Of(s[1], Tells, i, n) /\ left = (IF there THEN 1 ELSE 0)
  <2>1. Free(t, i, n, left)
    <3> SUFFICES ASSUME NEW k \in 1..Len(t), Of(t[k], Arrivals, i, n)
                 PROVE  \E l \in 1..Len(t) : l < k /\ Of(t[l], Removals, i, n)
      BY DEF Free
    <3>1. 1 \in 1..Len(s) /\ 1 < k + 1
      OBVIOUS
    <3> QED
      BY <1>3, <1>6, <3>1
  <2>2. Backed(t, i, n, there, left)
    BY <1>6 DEF Backed
  <2> QED
    BY <1>2, <1>4, <2>1, <2>2 DEF OkRows
<1>7. CASE Of(s[1], Removals, i, n) /\ left = 0
  BY <1>2, <1>4, <1>7 DEF OkRows, Free, Backed
<1> QED
  BY <1>5, <1>6, <1>7

\* What is listed of x, and what is queued about it.
FanRow(x) ==
    /\ Front(x) \notin DirsNow => index[x] = 0
    /\ \A i \in DOMAIN dirs : dirs[i] = Front(x) /\ ~BlurredIn(Q, i, Last(x)) =>
           OkRows(Q, i, Last(x), x \in files, index[x])

\* The events name directories there are or were.
FanDirs == \A k \in 1..Len(Q) : Q[k].dir \in 1..inodes

FanRows == misreported \subseteq doubtful /\ FanDirs /\ \A x \in Sure : FanRow(x)

LEMMA QueuedDirs ==
    ASSUME NEW s \in Seq(FanEvent), NEW e \in FanEvent, NEW t, Queued(s, e, t), NEW D,
           e.dir \in D, \A k \in 1..Len(s) : s[k].dir \in D
    PROVE  \A k \in 1..Len(t) : t[k].dir \in D
<1>1. CASE t = Append(s, e)
  <2>1. /\ \A k \in 1..Len(s) : t[k] = s[k]
        /\ t[Len(s) + 1] = e
        /\ \A k \in 1..Len(t) : k \in 1..Len(s) \/ k = Len(s) + 1
    BY <1>1, AppendOne
  <2> QED
    BY <2>1
<1>2. ASSUME NEW j \in 1..Len(s), s[j].dir = e.dir, s[j].name = e.name, t = MergedAt(s, j, e)
      PROVE  \A k \in 1..Len(t) : t[k].dir \in D
  <2>1. /\ Len(t) = Len(s) /\ t[j].dir = e.dir
        /\ \A k \in 1..Len(s) : k # j => t[k] = s[k]
    BY <1>2, MergedIs
  <2> QED
    BY <2>1
<1> QED
  BY <1>1, <1>2 DEF Queued

\* The event of a change of p is of a directory there is.
LEMMA EventDir ==
    ASSUME DiskInv, NEW p, Front(p) \in DirsNow, NEW kind
    PROVE  FanEv(kind, p).dir \in 1..inodes
BY InodeIs DEF FanEv, DiskInv

\* What is queued about p names x only if x is p.
LEMMA RowNames ==
    ASSUME DiskInv, NEW p \in Paths, Front(p) \in DirsNow, NEW kind,
           NEW x \in Paths, NEW i \in DOMAIN dirs, dirs[i] = Front(x)
    PROVE  Names(FanEv(kind, p), i, Last(x)) <=> x = p
BY FanAbout DEF Names

LEMMA ThereIs ==
    ASSUME FanTyped, NEW x \in FilePaths
    PROVE  x \in Paths /\ index[x] \in Nat /\ (x \in files) \in BOOLEAN
BY DEF FanTyped, IndexType, Paths

\* A file the event is not about.
LEMMA RowElse ==
    ASSUME FanTyped, movedTo = <<>>, NEW p \in Paths, Front(p) \in DirsNow, NEW kind,
           FanTold(kind, p), NEW x \in FilePaths, x # p,
           NEW i \in DOMAIN dirs, dirs[i] = Front(x)
    PROVE  Agree(Q, queue', i, Last(x))
<1> DEFINE e == FanEv(kind, p)
<1>1. ~Names(e, i, Last(x))
  BY ThereIs, RowNames DEF FanTyped
<1>2. Q = queue /\ queue \in Seq(FanEvent) /\ Queued(queue, e, queue') /\ e \in FanEvent
  BY FanQ DEF FanTyped, FanTold
<1> HIDE DEF e
<1> QED
  BY <1>1, <1>2, OtherAgrees

\* The row that is in order stays so if nothing about it changes.
LEMMA RowCarried ==
    ASSUME NEW s, NEW t, NEW i, NEW x \in FilePaths, FanTyped, Agree(s, t, i, Last(x)),
           ~BlurredIn(t, i, Last(x)),
           ~BlurredIn(s, i, Last(x)) => OkRows(s, i, Last(x), x \in files, index[x])
    PROVE  ~BlurredIn(s, i, Last(x)) /\ OkRows(t, i, Last(x), x \in files, index[x])
<1>1. ~BlurredIn(s, i, Last(x))
  BY AgreeBlurred
<1>2. PICK there \in BOOLEAN, rows \in Nat : there = (x \in files) /\ rows = index[x]
  BY ThereIs
<1>3. PICK n : n = Last(x)
  OBVIOUS
<1>4. OkRows(s, i, n, there, rows) /\ Agree(s, t, i, n)
  BY <1>1, <1>2, <1>3
<1>5. OkRows(t, i, n, there, rows)
  BY <1>4, AgreeRows
<1> QED
  BY <1>1, <1>2, <1>3, <1>5

\* The row after an event about the file.
LEMMA RowTold ==
    ASSUME FanTyped, NEW s \in Seq(FanEvent), NEW e \in FanEvent, NEW t, Queued(s, e, t),
           NEW i, NEW x \in FilePaths, Names(e, i, Last(x)), ~BlurredIn(t, i, Last(x)),
           ~BlurredIn(s, i, Last(x)) => OkRows(s, i, Last(x), x \in files, index[x]),
           NEW now \in BOOLEAN,
           \/ x \notin files /\ now /\ \E y \in Arrivals : e.kinds = {y}
           \/ x \in files /\ now /\ e.kinds = {"modify"}
           \/ ~now /\ \E y \in Removals : e.kinds = {y}
    PROVE  OkRows(t, i, Last(x), now, index[x])
<1>1. PICK there \in BOOLEAN, rows \in Nat : there = (x \in files) /\ rows = index[x]
  BY ThereIs
<1>2. PICK n : n = Last(x)
  OBVIOUS
<1>3. /\ Names(e, i, n) /\ ~BlurredIn(t, i, n)
      /\ ~BlurredIn(s, i, n) => OkRows(s, i, n, there, rows)
      /\ \/ ~there /\ now /\ \E y \in Arrivals : e.kinds = {y}
         \/ there /\ now /\ e.kinds = {"modify"}
         \/ ~now /\ \E y \in Removals : e.kinds = {y}
  BY <1>1, <1>2
<1>4. OkRows(t, i, n, now, rows)
  BY <1>3, RowsQueued
<1> QED
  BY <1>1, <1>2, <1>4

LEMMA FanRowEntry ==
    ASSUME FanTyped, FanRows, FanTyped', Others, NEW p \in FilePaths,
           Create(p) \/ Modify(p) \/ Delete(p)
    PROVE  FanRows'
<1>1. p \in Paths /\ Front(p) \in DirsNow
  BY DEF Paths, Create, Modify, Delete, Change
<1>2. UNCHANGED <<dirs, inodes, misreported, doubtful>> /\ movedTo' = movedTo
  BY DEF Create, Modify, Delete, ghosts
<1>3. /\ index' = index /\ movedTo = <<>> /\ Q = queue /\ Q' = queue'
      /\ queue \in Seq(FanEvent)
  BY <1>2, FanChange, FanLater DEF FanTyped
<1>4. PICK kind : /\ FanTold(kind, p)
                   /\ \/ Create(p) /\ kind = "create"
                      \/ Modify(p) /\ kind = "modify"
                      \/ Delete(p) /\ kind = "delete"
  <2>1. ASSUME Create(p) PROVE FanTold("create", p)
    BY <1>1, <2>1, FanTells
  <2>2. ASSUME Modify(p) PROVE FanTold("modify", p)
    BY <1>1, <2>2, FanTells
  <2>3. ASSUME Delete(p) PROVE FanTold("delete", p)
    BY <1>1, <2>3, FanTells
  <2> QED
    BY <2>1, <2>2, <2>3
<1> DEFINE e == FanEv(kind, p)
<1>5. Queued(queue, e, queue') /\ e \in FanEvent /\ e.kinds = {kind} /\ e.dir \in 1..inodes
  <2>1. e.kinds = {kind}
    BY DEF FanEv
  <2> QED
    BY <1>1, <1>4, <2>1, EventDir DEF FanTold, FanTyped
<1>6. \/ p \notin files /\ p \in files' /\ kind \in Arrivals
      \/ p \in files /\ p \in files' /\ kind = "modify"
      \/ p \notin files' /\ kind \in Removals
  BY <1>4 DEF Create, Modify, Delete, Arrivals, Removals
<1>7. \A x : x # p => (x \in files' <=> x \in files)
  BY DEF Create, Modify, Delete
<1>8. ASSUME NEW x \in Sure', NEW i \in DOMAIN dirs, dirs[i] = Front(x), ~BlurredIn(queue', i, Last(x))
      PROVE  OkRows(queue', i, Last(x), x \in files', index[x])
  <2>1. x \in Sure /\ x \in FilePaths /\ x \in Paths
    BY <1>2 DEF Sure, Paths
  <2>2. ~BlurredIn(Q, i, Last(x)) => OkRows(Q, i, Last(x), x \in files, index[x])
    BY <1>8, <2>1 DEF FanRows, FanRow
  <2>3. CASE x # p
    <3>1. Agree(Q, queue', i, Last(x))
      BY <1>1, <1>3, <1>4, <1>8, <2>1, <2>3, RowElse
    <3>2. PICK s, t : s = Q /\ t = queue'
      OBVIOUS
    <3>3. Agree(s, t, i, Last(x)) /\ ~BlurredIn(t, i, Last(x))
          /\ (~BlurredIn(s, i, Last(x)) => OkRows(s, i, Last(x), x \in files, index[x]))
      BY <1>8, <2>2, <3>1, <3>2
    <3>4. OkRows(t, i, Last(x), x \in files, index[x])
      BY <2>1, <3>3, RowCarried
    <3> QED
      BY <1>7, <2>3, <3>2, <3>4
  <2>4. CASE x = p
    <3>1. Names(e, i, Last(x))
      BY <1>1, <1>8, <2>1, <2>4, RowNames DEF FanTyped
    <3>5. (x \in files') \in BOOLEAN
      OBVIOUS
    <3>2. PICK now \in BOOLEAN : now = (x \in files')
      BY <3>5
    <3>3. \/ x \notin files /\ now /\ \E y \in Arrivals : e.kinds = {y}
          \/ x \in files /\ now /\ e.kinds = {"modify"}
          \/ ~now /\ \E y \in Removals : e.kinds = {y}
      BY <1>5, <1>6, <2>4, <3>2
    <3> HIDE DEF e
    <3>4. PICK s, t : s = queue /\ t = queue'
      OBVIOUS
    <3>6. /\ s \in Seq(FanEvent) /\ e \in FanEvent /\ Queued(s, e, t)
          /\ Names(e, i, Last(x)) /\ ~BlurredIn(t, i, Last(x))
          /\ ~BlurredIn(s, i, Last(x)) => OkRows(s, i, Last(x), x \in files, index[x])
      BY <1>3, <1>5, <1>8, <2>2, <3>1, <3>4
    <3>7. OkRows(t, i, Last(x), now, index[x])
      BY <2>1, <3>3, <3>6, RowTold
    <3> QED
      BY <3>2, <3>4, <3>7
  <2> QED
    BY <2>3, <2>4
<1>9. \A k \in 1..Len(queue') : queue'[k].dir \in 1..inodes
  <2> HIDE DEF e
  <2>1. PICK D : D = 1..inodes
    OBVIOUS
  <2>2. e.dir \in D /\ \A k \in 1..Len(queue) : queue[k].dir \in D
    BY <1>3, <1>5, <2>1 DEF FanRows, FanDirs
  <2> QED
    BY <1>3, <1>5, <2>1, <2>2, QueuedDirs
<1>10. ASSUME NEW x \in Sure', Front(x) \notin DirsNow PROVE index[x] = 0
  BY <1>2, <1>10 DEF FanRows, FanRow, Sure
<1> QED
  BY <1>2, <1>3, <1>8, <1>9, <1>10 DEF FanRows, FanRow, FanDirs, DirsNow

\* What is queued about p leaves the rows of every other file in order.
LEMMA RowKept ==
    ASSUME FanTyped, FanRows, movedTo = <<>>, NEW p \in Paths, Front(p) \in DirsNow, NEW kind,
           FanTold(kind, p), NEW x \in Sure, x # p,
           NEW i \in DOMAIN dirs, dirs[i] = Front(x), ~BlurredIn(queue', i, Last(x))
    PROVE  OkRows(queue', i, Last(x), x \in files, index[x])
<1>1. x \in FilePaths
  BY DEF Sure
<1>2. Agree(Q, queue', i, Last(x))
  BY <1>1, RowElse
<1>3. PICK s, t : s = Q /\ t = queue'
  OBVIOUS
<1>4. Agree(s, t, i, Last(x)) /\ ~BlurredIn(t, i, Last(x))
      /\ (~BlurredIn(s, i, Last(x)) => OkRows(s, i, Last(x), x \in files, index[x]))
  BY <1>2, <1>3 DEF FanRows, FanRow
<1>5. OkRows(t, i, Last(x), x \in files, index[x])
  BY <1>1, <1>4, RowCarried
<1> QED
  BY <1>3, <1>5

LEMMA DirsTold ==
    ASSUME FanTyped, FanRows, movedTo = <<>>, NEW p \in Paths, Front(p) \in DirsNow, NEW kind, FanTold(kind, p)
    PROVE  \A k \in 1..Len(queue') : queue'[k].dir \in 1..inodes
<1> DEFINE e == FanEv(kind, p)
<1>1. Queued(queue, e, queue') /\ e \in FanEvent /\ e.dir \in 1..inodes
  BY EventDir DEF FanTold, FanTyped
<1>2. Q = queue /\ queue \in Seq(FanEvent)
  BY FanQ DEF FanTyped
<1> HIDE DEF e
<1>3. PICK D : D = 1..inodes
  OBVIOUS
<1>4. e.dir \in D /\ \A k \in 1..Len(queue) : queue[k].dir \in D
  BY <1>1, <1>2, <1>3 DEF FanRows, FanDirs
<1> QED
  BY <1>1, <1>2, <1>3, <1>4, QueuedDirs

\* What no event names has no row in doubt.
LEMMA RowsNone ==
    ASSUME NEW s, NEW i, NEW n, \A k \in 1..Len(s) : ~Names(s[k], i, n)
    PROVE  ~BlurredIn(s, i, n) /\ \A there \in BOOLEAN : OkRows(s, i, n, there, 0)
<1>1. \A kinds : \A k \in 1..Len(s) : ~Of(s[k], kinds, i, n)
  BY DEF Of, Names
<1>2. \A there : Followed(s, i, n, there) /\ Apart(s, i, n) /\ Free(s, i, n, 0) /\ Backed(s, i, n, there, 0)
  <2>1. \A there : Followed(s, i, n, there)
    BY <1>1 DEF Followed
  <2>2. Apart(s, i, n)
    BY <1>1 DEF Apart
  <2>3. Free(s, i, n, 0) /\ \A there : Backed(s, i, n, there, 0)
    BY DEF Free, Backed
  <2> QED
    BY <2>1, <2>2, <2>3
<1> QED
  BY <1>2 DEF OkRows, BlurredIn

LEMMA FanRowMakeDir ==
    ASSUME FanTyped, FanRows, FanTyped', Others, NEW p \in DirPaths, MakeDir(p)
    PROVE  FanRows'
<1>1. p \in Paths /\ Front(p) \in DirsNow
  BY DEF Paths, MakeDir, Change
<1>2. UNCHANGED <<files, misreported, doubtful>> /\ movedTo' = movedTo /\ p \notin DirsNow
  BY DEF MakeDir, ghosts
<1>3. index' = index /\ movedTo = <<>> /\ Q = queue /\ Q' = queue'
  BY <1>2, FanChange, FanLater
<1>4. FanTold("create", p)
  BY <1>1, FanTells
<1>5. PICK n : /\ n = inodes + 1 /\ n \in DOMAIN dirs' /\ DOMAIN dirs' = DOMAIN dirs \cup {n} /\ dirs'[n] = p
               /\ \A i \in DOMAIN dirs : dirs'[i] = dirs[i]
               /\ inodes' = inodes + 1 /\ inodes \in Nat
  <2>1. dirs' = Put(dirs, inodes + 1, p) /\ inodes' = inodes + 1
    BY DEF MakeDir
  <2>2. inodes + 1 \notin DOMAIN dirs /\ inodes \in Nat
    BY DEF FanTyped, DiskInv
  <2>3. /\ DOMAIN dirs' = DOMAIN dirs \cup {inodes + 1} /\ dirs'[inodes + 1] = p
        /\ \A i \in DOMAIN dirs : dirs'[i] = dirs[i]
    BY <2>1, <2>2 DEF Put
  <2> QED
    BY <2>1, <2>2, <2>3
<1>6. \A k \in 1..Len(queue') : queue'[k].dir \in 1..inodes
  BY <1>1, <1>3, <1>4, DirsTold
<1>7. ASSUME NEW x \in Sure' PROVE FanRow(x)'
  <2>1. x \in Sure /\ x \in FilePaths
    BY <1>2 DEF Sure
  <2>2. ASSUME Front(x) \notin DirsNow' PROVE index[x] = 0
    <3>1. Front(x) \notin DirsNow
      BY <1>5, <2>2, DirsNowIs DEF DirsNow, Range
    <3> QED
      BY <2>1, <3>1 DEF FanRows, FanRow
  <2>3. ASSUME NEW i \in DOMAIN dirs', dirs'[i] = Front(x), ~BlurredIn(queue', i, Last(x))
        PROVE  OkRows(queue', i, Last(x), x \in files, index[x])
    <3>1. CASE i = n
      <4>1. \A k \in 1..Len(queue') : ~Names(queue'[k], i, Last(x))
        BY <1>5, <1>6, <3>1 DEF Names
      <4>2. Front(x) \notin DirsNow
        BY <1>2, <1>5, <2>3, <3>1
      <4>3. x \notin files /\ index[x] = 0
        BY <2>1, <4>2, FrontThere DEF FanTyped, FanRows, FanRow
      <4>4. PICK there \in BOOLEAN : there = (x \in files)
        BY <2>1, ThereIs
      <4>5. OkRows(queue', i, Last(x), there, 0)
        BY <4>1, RowsNone
      <4> QED
        BY <4>3, <4>4, <4>5
    <3>2. CASE i \in DOMAIN dirs
      <4>1. x # p
        BY <2>1, SureType
      <4>2. dirs[i] = Front(x)
        BY <1>5, <2>3, <3>2
      <4> QED
        BY <1>1, <1>3, <1>4, <2>1, <2>3, <3>2, <4>1, <4>2, RowKept
    <3> QED
      BY <1>5, <3>1, <3>2
  <2> QED
    BY <1>2, <1>3, <2>2, <2>3 DEF FanRow
<1>8. FanDirs'
  BY <1>3, <1>5, <1>6 DEF FanDirs
<1> QED
  BY <1>2, <1>7, <1>8 DEF FanRows

LEMMA FanRowRemoveDir ==
    ASSUME FanTyped, FanRows, FanTyped', Others, NEW p \in DirPaths, RemoveDir(p)
    PROVE  FanRows'
<1>1. p \in Paths /\ Front(p) \in DirsNow
  BY DEF Paths, RemoveDir, Change
<1>2. UNCHANGED <<files, inodes, misreported>> /\ movedTo' = movedTo /\ doubtful' = doubtful \cup Unread(Inode(p))
  BY DEF RemoveDir
<1>3. index' = index /\ movedTo = <<>> /\ Q = queue /\ Q' = queue' /\ queue \in Seq(FanEvent)
  BY <1>2, FanChange, FanLater DEF FanTyped
<1>4. FanTold("delete", p)
  BY <1>1, FanTells
<1>5. /\ p \in DirsNow /\ p \in Path /\ Inode(p) \in DOMAIN dirs /\ dirs[Inode(p)] = p
      /\ \A x \in files \cup DirsNow : ~IsStrictPrefix(p, x)
      /\ DOMAIN dirs' = DOMAIN dirs \ {Inode(p)}
      /\ \A j \in DOMAIN dirs' : dirs'[j] = dirs[j]
  BY RemoveDirIs DEF FanTyped
<1>6. \A k \in 1..Len(queue') : queue'[k].dir \in 1..inodes
  BY <1>1, <1>3, <1>4, DirsTold
<1>7. ASSUME NEW x \in Sure' PROVE FanRow(x)'
  <2>1. x \in Sure /\ x \in FilePaths /\ x \notin doubtful'
    BY <1>2 DEF Sure
  <2>2. ASSUME Front(x) \notin DirsNow' PROVE index[x] = 0
    <3>1. CASE Front(x) \notin DirsNow
      BY <2>1, <3>1 DEF FanRows, FanRow
    <3>2. CASE Front(x) \in DirsNow
      <4>1. PICK i \in DOMAIN dirs : dirs[i] = Front(x)
        BY <3>2, DirsNowIs
      <4>2. i = Inode(p) /\ Front(x) = p
        <5>1. i \in DOMAIN dirs' => Front(x) \in DirsNow'
          BY <1>5, <4>1 DEF DirsNow, Range
        <5> QED
          BY <1>5, <2>2, <4>1, <5>1
      <4>3. \A k \in 1..Len(Q) : ~Names(Q[k], i, Last(x))
        <5> SUFFICES ASSUME NEW k \in 1..Len(queue), Names(queue[k], i, Last(x)) PROVE FALSE
          BY <1>3
        <5>1. queue[k] \in Range(queue) /\ queue[k].dir = i /\ queue[k].name = Last(x)
          <6>1. k \in DOMAIN queue
            BY <1>3
          <6> QED
            BY <6>1 DEF Names, Range
        <5>2. Append(dirs[i], queue[k].name) \in Unread(i)
          BY <5>1 DEF Unread, FanTyped
        <5>3. x = Append(Front(x), Last(x))
          BY <2>1, SureType
        <5>4. x \in Unread(i)
          BY <4>1, <5>1, <5>2, <5>3
        <5> QED
          BY <1>2, <2>1, <4>2, <5>4
      <4>4. ~BlurredIn(Q, i, Last(x)) /\ \A k \in 1..Len(Q) : ~Of(Q[k], Removals, i, Last(x))
        BY <4>3 DEF BlurredIn, Of, Names
      <4>5. x \notin files
        BY <1>5, <2>1, <4>2, SureType
      <4>6. OkRows(Q, i, Last(x), x \in files, index[x])
        BY <2>1, <4>1, <4>4 DEF FanRows, FanRow
      <4> QED
        BY <4>4, <4>5, <4>6 DEF OkRows, Backed
    <3> QED
      BY <3>1, <3>2
  <2>3. ASSUME NEW i \in DOMAIN dirs', dirs'[i] = Front(x), ~BlurredIn(queue', i, Last(x))
        PROVE  OkRows(queue', i, Last(x), x \in files, index[x])
    <3>1. x # p
      BY <2>1, SureType
    <3>2. i \in DOMAIN dirs /\ dirs[i] = Front(x)
      BY <1>5, <2>3
    <3> QED
      BY <1>1, <1>3, <1>4, <2>1, <2>3, <3>1, <3>2, RowKept
  <2> QED
    BY <1>2, <1>3, <2>2, <2>3 DEF FanRow
<1>8. FanDirs'
  BY <1>2, <1>3, <1>6 DEF FanDirs
<1> QED
  BY <1>2, <1>7, <1>8 DEF FanRows

LEMMA FanRowRename ==
    ASSUME FanTyped, FanRows, FanTyped', Others, NEW p \in Paths, NEW q \in Paths, Rename(p, q)
    PROVE  FanRows'
<1> DEFINE d == FanEv("movedFrom", p)
           e == FanEv("movedTo", q)
<1>1. /\ p \in Path /\ q \in Path /\ p # q /\ Front(p) \in DirsNow /\ Front(q) \in DirsNow
      /\ p \in files => q \in FilePaths
      /\ p \notin files => p \in DirsNow
  BY RenameIs DEF FanTyped
<1>2. /\ doubtful' = doubtful \cup (files \cap {q}) \cup
                     {r \in FilePaths : p \in DirsNow /\ (IsStrictPrefix(p, r) \/ IsStrictPrefix(q, r))}
      /\ misreported' = misreported \cup {r \in files' : backend = "fanotify" /\ IsStrictPrefix(q, r)}
      /\ DOMAIN dirs' = DOMAIN dirs /\ inodes' = inodes
  BY DEF Rename
<1>3. /\ FanTold("movedFrom", p) /\ movedTo' = <<e>> /\ e \in FanEvent /\ e.kinds = {"movedTo"}
  BY FanTells
<1>4. /\ index' = index /\ movedTo = <<>> /\ Q = queue /\ Q' = Append(queue', e)
      /\ queue \in Seq(FanEvent) /\ queue' \in Seq(FanEvent)
  BY <1>3, FanChange, FanLater DEF FanTyped
<1>5. /\ Queued(queue, d, queue') /\ d \in FanEvent /\ d.kinds = {"movedFrom"}
      /\ Queued(queue', e, Q') /\ e.dir \in 1..inodes
  <2>1. d.kinds = {"movedFrom"}
    BY DEF FanEv
  <2>2. e.dir \in 1..inodes
    BY <1>1, EventDir DEF FanTyped
  <2>3. Queued(queue, d, queue') /\ d \in FanEvent
    BY <1>3 DEF FanTold
  <2> HIDE DEF d, e
  <2>4. Queued(queue', e, Q')
    BY <1>4 DEF Queued
  <2> QED
    BY <2>1, <2>2, <2>3, <2>4
<1>6. misreported' \subseteq doubtful'
  <2> SUFFICES ASSUME NEW r \in files', IsStrictPrefix(q, r) PROVE r \in doubtful'
    BY <1>2 DEF FanRows
  <2>1. r \in FilePaths /\ q \in DirsNow'
    BY DEF FanTyped, DiskInv
  <2>2. p \in DirsNow
    <3>1. DirsNow' \subseteq DirPaths \cup {Root}
      BY DEF FanTyped, DiskInv
    <3>2. q \notin FilePaths
      BY <2>1, <3>1, SureType
    <3> QED
      BY <1>1, <3>2
  <2> QED
    BY <1>2, <2>1, <2>2
<1>7. ASSUME NEW x \in Sure' PROVE FanRow(x)'
  <2>1. /\ x \in Sure /\ x \in FilePaths /\ x \in Paths /\ x \in Path
        /\ \A j \in DOMAIN dirs : IsPrefix(p, dirs[j]) => ~IsPrefix(dirs[j], x) /\ ~IsPrefix(dirs'[j], x)
        /\ \A j \in DOMAIN dirs : ~IsPrefix(p, dirs[j]) => dirs'[j] = dirs[j]
        /\ x \in files => x # q
        /\ x \in files' <=> (x \in files /\ x # p) \/ x = q
    BY SureRename, SureType DEF FanTyped, Sure
  <2>2. IsPrefix(Front(x), x)
    BY <2>1, SureType DEF IsStrictPrefix
  <2>3. ASSUME Front(x) \notin DirsNow' PROVE index[x] = 0
    <3>1. ASSUME NEW j \in DOMAIN dirs, dirs[j] = Front(x) PROVE FALSE
      <4>1. ~IsPrefix(p, dirs[j])
        BY <2>1, <2>2, <3>1
      <4>2. dirs'[j] = Front(x) /\ j \in DOMAIN dirs'
        BY <1>2, <2>1, <3>1, <4>1
      <4> QED
        BY <2>3, <4>2 DEF DirsNow, Range
    <3>2. Front(x) \notin DirsNow
      BY <3>1, DirsNowIs
    <3> QED
      BY <2>1, <3>2 DEF FanRows, FanRow
  <2>4. ASSUME NEW i \in DOMAIN dirs', dirs'[i] = Front(x), ~BlurredIn(Q', i, Last(x))
        PROVE  OkRows(Q', i, Last(x), x \in files', index[x])
    <3>1. i \in DOMAIN dirs /\ ~IsPrefix(p, dirs[i])
      BY <1>2, <2>1, <2>2, <2>4
    <3>2. dirs[i] = Front(x)
      BY <2>1, <2>4, <3>1
    <3>3. (Names(d, i, Last(x)) <=> x = p) /\ (Names(e, i, Last(x)) <=> x = q)
      BY <1>1, <2>1, <3>1, <3>2, RowNames DEF FanTyped
    <3> HIDE DEF d, e
    <3>4. PICK s, t, u, n : s = queue /\ t = queue' /\ u = Q' /\ n = Last(x)
      OBVIOUS
    <3>5. /\ s \in Seq(FanEvent) /\ t \in Seq(FanEvent) /\ Queued(s, d, t) /\ Queued(t, e, u)
          /\ d \in FanEvent /\ e \in FanEvent /\ ~BlurredIn(u, i, n)
      BY <1>3, <1>4, <1>5, <2>4, <3>4
    <3>6. x # p /\ ~BlurredIn(t, i, n) => OkRows(t, i, n, x \in files, index[x])
      BY <1>1, <1>3, <1>4, <2>1, <3>1, <3>2, <3>4, RowKept
    <3>7. x # q => Agree(t, u, i, n)
      BY <3>3, <3>4, <3>5, OtherAgrees
    <3>8. CASE x = q
      <4>1. x \notin files /\ x # p /\ x \in files' /\ Names(e, i, n)
        BY <1>1, <2>1, <3>3, <3>4, <3>8
      <4>2. TRUE \in BOOLEAN /\ "movedTo" \in Arrivals /\ e.kinds = {"movedTo"}
        BY <1>3 DEF Arrivals
      <4>3. PICK now \in BOOLEAN : now = (x \in files')
        BY <4>1
      <4>4. \/ x \notin files /\ now /\ \E y \in Arrivals : e.kinds = {y}
            \/ x \in files /\ now /\ e.kinds = {"modify"}
            \/ ~now /\ \E y \in Removals : e.kinds = {y}
        BY <4>1, <4>2, <4>3
      <4>5. /\ Names(e, i, Last(x)) /\ ~BlurredIn(u, i, Last(x))
            /\ ~BlurredIn(t, i, Last(x)) => OkRows(t, i, Last(x), x \in files, index[x])
        BY <3>4, <3>5, <3>6, <4>1
      <4>6. OkRows(u, i, Last(x), now, index[x])
        BY <2>1, <3>5, <4>4, <4>5, RowTold
      <4> QED
        BY <3>4, <4>3, <4>6
    <3>9. CASE x = p
      <4>1. x # q /\ x \notin files' /\ Names(d, i, n)
        BY <1>1, <2>1, <3>3, <3>4, <3>9
      <4>2. "movedFrom" \in Removals /\ d.kinds = {"movedFrom"}
        BY <1>5 DEF Removals
      <4>3. Agree(t, u, i, n) /\ ~BlurredIn(t, i, n)
        BY <3>5, <3>7, <4>1, AgreeBlurred
      <4>4. ~BlurredIn(s, i, n) => OkRows(s, i, n, x \in files, index[x])
        BY <1>4, <2>1, <3>1, <3>2, <3>4 DEF FanRows, FanRow
      <4>11. (x \in files') \in BOOLEAN /\ index[x] \in Nat
        BY <2>1, ThereIs
      <4>5. PICK now \in BOOLEAN, rows \in Nat : now = (x \in files') /\ rows = index[x]
        BY <4>11
      <4>6. \/ x \notin files /\ now /\ \E y \in Arrivals : d.kinds = {y}
            \/ x \in files /\ now /\ d.kinds = {"modify"}
            \/ ~now /\ \E y \in Removals : d.kinds = {y}
        BY <4>1, <4>2, <4>5
      <4>7. /\ Names(d, i, Last(x)) /\ ~BlurredIn(t, i, Last(x))
            /\ ~BlurredIn(s, i, Last(x)) => OkRows(s, i, Last(x), x \in files, index[x])
        BY <3>4, <4>1, <4>3, <4>4
      <4>8. OkRows(t, i, Last(x), now, index[x])
        BY <2>1, <3>5, <4>6, <4>7, RowTold
      <4>9. OkRows(t, i, n, now, rows)
        BY <3>4, <4>5, <4>8
      <4>10. OkRows(u, i, n, now, rows)
        BY <4>3, <4>9, AgreeRows
      <4> QED
        BY <3>4, <4>5, <4>10
    <3>10. CASE x # p /\ x # q
      <4>1. (x \in files') = (x \in files)
        BY <2>1, <3>10
      <4>2. Agree(t, u, i, n) /\ ~BlurredIn(t, i, n)
        BY <3>5, <3>7, <3>10, AgreeBlurred
      <4>3. PICK there \in BOOLEAN, rows \in Nat : there = (x \in files) /\ rows = index[x]
        BY <2>1, ThereIs
      <4>4. OkRows(t, i, n, there, rows)
        BY <3>6, <3>10, <4>2, <4>3
      <4>5. OkRows(u, i, n, there, rows)
        BY <4>2, <4>4, AgreeRows
      <4> QED
        BY <3>4, <4>1, <4>3, <4>5
    <3> QED
      BY <3>8, <3>9, <3>10
  <2> QED
    BY <1>4, <2>3, <2>4 DEF FanRow
<1>8. FanDirs'
  <2>1. \A k \in 1..Len(queue') : queue'[k].dir \in 1..inodes
    BY <1>1, <1>3, <1>4, DirsTold
  <2> HIDE DEF d, e
  <2>2. PICK D : D = 1..inodes
    OBVIOUS
  <2>3. e.dir \in D /\ \A k \in 1..Len(queue') : queue'[k].dir \in D
    BY <1>5, <2>1, <2>2
  <2>4. \A k \in 1..Len(Q') : Q'[k].dir \in D
    BY <1>3, <1>4, <1>5, <2>3, QueuedDirs
  <2> QED
    BY <1>2, <2>2, <2>4 DEF FanDirs
<1> QED
  BY <1>6, <1>7, <1>8 DEF FanRows

LEMMA FanRowMoved ==
    ASSUME FanTyped, FanRows, FanTyped', QueueMovedTo
    PROVE  FanRows'
<1>1. UNCHANGED <<files, dirs, inodes, index, misreported, doubtful>>
  BY DEF QueueMovedTo, disk, ghosts
<1>2. PICK e \in FanEvent :
          /\ movedTo = <<e>> /\ e.kinds = {"movedTo"} /\ movedTo' = <<>>
          /\ Queued(queue, e, queue') /\ queue' \in Seq(FanEvent)
  BY FanMoves
<1>3. Q = Append(queue, e) /\ Q' = queue' /\ queue \in Seq(FanEvent)
  BY <1>2, FanQ, FanLater DEF FanTyped
<1>4. ASSUME NEW x \in Sure, NEW i \in DOMAIN dirs, dirs[i] = Front(x), ~BlurredIn(queue', i, Last(x))
      PROVE  OkRows(queue', i, Last(x), x \in files, index[x])
  <2>1. x \in FilePaths /\ (~BlurredIn(Q, i, Last(x)) => OkRows(Q, i, Last(x), x \in files, index[x]))
    BY <1>4 DEF FanRows, FanRow, Sure
  <2>2. PICK s, t, u, n : s = queue /\ t = Q /\ u = queue' /\ n = Last(x)
    OBVIOUS
  <2>3. s \in Seq(FanEvent) /\ Queued(s, e, t) /\ Queued(s, e, u) /\ ~BlurredIn(u, i, n)
    BY <1>2, <1>3, <1>4, <2>2 DEF Queued
  <2>4. CASE Names(e, i, n)
    <3>1. ASSUME NEW j \in 1..Len(s), s[j].dir = e.dir, s[j].name = e.name, u = MergedAt(s, j, e)
          PROVE  BlurredIn(u, i, n)
      <4>1. Len(u) = Len(s) /\ u[j].merged /\ u[j].dir = e.dir /\ u[j].name = e.name
        BY <2>3, <3>1, MergedIs
      <4> QED
        BY <2>4, <4>1 DEF BlurredIn, Names
    <3>2. u = t
      BY <1>3, <2>2, <2>3, <3>1 DEF Queued
    <3> QED
      BY <2>1, <2>2, <2>3, <3>2
  <2>5. CASE ~Names(e, i, n)
    <3>1. Agree(s, t, i, n) /\ Agree(s, u, i, n)
      BY <2>3, <2>5, OtherAgrees
    <3>2. Agree(t, s, i, n)
      BY <3>1, AgreeBack
    <3>3. Agree(t, u, i, n)
      BY <3>1, <3>2, AgreeTrans
    <3>4. /\ Agree(t, u, i, Last(x)) /\ ~BlurredIn(u, i, Last(x))
          /\ ~BlurredIn(t, i, Last(x)) => OkRows(t, i, Last(x), x \in files, index[x])
      BY <2>1, <2>2, <2>3, <3>3
    <3>5. OkRows(u, i, Last(x), x \in files, index[x])
      BY <2>1, <3>4, RowCarried
    <3> QED
      BY <2>2, <3>5
  <2> QED
    BY <2>4, <2>5
<1>5. FanDirs'
  <2>1. ASSUME NEW k \in 1..Len(queue) PROVE queue[k].dir \in 1..inodes
    <3>1. k \in 1..Len(Q) /\ Q[k] = queue[k]
      BY <1>3, AppendOne
    <3> QED
      BY <3>1 DEF FanRows, FanDirs
  <2>2. e.dir \in 1..inodes
    <3>1. Len(queue) + 1 \in 1..Len(Q) /\ Q[Len(queue) + 1] = e
      BY <1>3, AppendOne
    <3> QED
      BY <3>1 DEF FanRows, FanDirs
  <2>3. PICK D : D = 1..inodes
    OBVIOUS
  <2>4. \A k \in 1..Len(queue) : queue[k].dir \in D
    BY <2>1, <2>3
  <2>5. \A k \in 1..Len(queue') : queue'[k].dir \in D
    BY <1>2, <1>3, <2>2, <2>3, <2>4, QueuedDirs
  <2> QED
    BY <1>1, <1>3, <2>3, <2>5 DEF FanDirs
<1>6. ASSUME NEW x \in Sure, Front(x) \notin DirsNow PROVE index[x] = 0
  BY <1>6 DEF FanRows, FanRow
<1> QED
  BY <1>1, <1>3, <1>4, <1>5, <1>6 DEF FanRows, FanRow, Sure, DirsNow

\* What a report puts in doubt.
LEMMA ReportDoubts ==
    ASSUME FanTyped, ReadFanotify
    PROVE  LET e == Head(queue)
               path == Append(dirs[e.dir], e.name)
           IN  \/ UNCHANGED <<doubtful, misreported>> /\ e.dir \notin DOMAIN dirs
               \/ /\ e.dir \in DOMAIN dirs
                  /\ doubtful' = doubtful \cup (IF e.merged THEN {path} ELSE {})
                                  \cup (IF path \in DirPaths THEN Below(path) ELSE {})
                  /\ misreported' = misreported \cup (IF e.merged THEN {path} ELSE {})
<1> DEFINE e == Head(queue)
           type == ClassifyMask(e.kinds)
<1>1. e \in FanEvent /\ Report(e)
  BY ReportIs DEF ReadFanotify
<1>2. type # None
  <2>1. e.kinds \in (SUBSET FanKinds) \ {{}}
    BY <1>1 DEF FanEvent
  <2> HIDE DEF e
  <2>2. \E x \in FanKinds : x \in e.kinds
    BY <2>1
  <2> QED
    BY <2>2, PathsAssumption DEF ClassifyMask, FanKinds
<1>3. CASE e.dir \notin DOMAIN dirs
  <2>1. UNCHANGED <<doubtful, misreported>>
    BY <1>1, <1>3 DEF Report, ResolveDirPath
  <2> QED
    BY <1>3, <2>1
<1>4. CASE e.dir \in DOMAIN dirs
  <2>1. ResolveDirPath(e.dir) = {dirs[e.dir]}
    BY <1>4 DEF ResolveDirPath
  <2> HIDE DEF type
  <2>2. PICK path : path = Append(dirs[e.dir], e.name)
    OBVIOUS
  <2>3. /\ doubtful' = doubtful \cup (IF e.merged THEN {path} ELSE {})
                        \cup (IF path \in DirPaths THEN Below(path) ELSE {})
        /\ misreported' = misreported \cup (IF e.merged THEN {path} ELSE {})
    BY <1>1, <1>2, <2>1, <2>2 DEF Report, JoinPath, type
  <2> QED
    BY <1>4, <2>2, <2>3
<1> QED
  BY <1>3, <1>4

\* What the report of e does to the row of x.
Taken(e, x) ==
    \/ index'[x] = index[x] /\ \A i \in DOMAIN dirs : dirs[i] = Front(x) => ~Names(e, i, Last(x))
    \/ /\ e.dir \in DOMAIN dirs /\ dirs[e.dir] = Front(x) /\ e.name = Last(x) /\ ~e.merged
       /\ \/ /\ index'[x] = IF x \in files THEN index[x] + 1 ELSE index[x]
             /\ \E y \in Arrivals : e.kinds = {y}
          \/ /\ index'[x] = IF index[x] > 0 THEN index[x] - 1 ELSE index[x]
             /\ \E y \in Removals : e.kinds = {y}
          \/ /\ index'[x] = (IF index[x] > 0 THEN index[x] - 1 ELSE index[x]) + (IF x \in files THEN 1 ELSE 0)
             /\ e.kinds = {"modify"}

LEMMA FanRowRead ==
    ASSUME FanTyped, FanRows, FanTyped', ReadFanotify
    PROVE  FanRows'
<1> DEFINE e == Head(queue)
<1>1. /\ queue # <<>> /\ e \in FanEvent /\ queue' = Tail(queue) /\ queue' \in Seq(FanEvent)
      /\ UNCHANGED <<files, dirs, inodes, movedTo>>
  BY ReportIs DEF disk
<1>2. /\ Len(Q) \in Nat \ {0} /\ Q[1] = e /\ Len(Q') = Len(Q) - 1
      /\ \A k \in 1..Len(Q') : Q'[k] = Q[k + 1] /\ k + 1 \in 1..Len(Q)
      /\ \A k \in 1..Len(Q) : k > 1 => k - 1 \in 1..Len(Q') /\ Q'[k - 1] = Q[k]
  <2>1. queue \in Seq(FanEvent) /\ movedTo \in Seq(FanEvent)
    BY FanQ DEF FanTyped
  <2> QED
    BY <1>1, <2>1, QueueShift
<1>3. Q \in Seq(FanEvent) /\ Q' \in Seq(FanEvent)
  BY FanQ, FanLater
<1>4. /\ doubtful \subseteq doubtful' /\ misreported' \subseteq doubtful' /\ Sure' \subseteq Sure
  <2> DEFINE path == Append(dirs[e.dir], e.name)
  <2>1. \/ UNCHANGED <<doubtful, misreported>>
        \/ /\ doubtful' = doubtful \cup (IF e.merged THEN {path} ELSE {})
                           \cup (IF path \in DirPaths THEN Below(path) ELSE {})
           /\ misreported' = misreported \cup (IF e.merged THEN {path} ELSE {})
    BY ReportDoubts
  <2> HIDE DEF path
  <2>2. doubtful \subseteq doubtful' /\ misreported' \subseteq doubtful'
    BY <2>1 DEF FanRows
  <2> QED
    BY <2>2 DEF Sure
<1>5. FanDirs'
  <2>1. ASSUME NEW k \in 1..Len(Q') PROVE Q'[k].dir \in 1..inodes
    BY <1>2, <2>1 DEF FanRows, FanDirs
  <2> QED
    BY <1>1, <2>1 DEF FanDirs
<1>6. ASSUME NEW x \in Sure'
      PROVE  Taken(e, x)
  <2>1. /\ x \in Sure /\ x \in FilePaths /\ x \in Paths /\ x \in Path /\ x = Append(Front(x), Last(x))
        /\ Front(x) \in Path /\ Last(x) \in STRING /\ x \notin doubtful'
    BY <1>4, <1>6, SureType DEF Sure
  <2>2. CASE UNCHANGED <<index, misreported>> /\ e.dir \notin DOMAIN dirs
    BY <2>2 DEF Names, Taken
  <2>3. ASSUME NEW path \in Path,
               e.dir \in DOMAIN dirs, path = Append(dirs[e.dir], e.name),
               \/ /\ index' \in Rescanned(index, path)
                  /\ e.merged \/ \E y \in Arrivals : e.kinds = {y}
               \/ /\ index' = Removed(index, path)
                  /\ e.merged \/ \E y \in Removals : e.kinds = {y}
               \/ /\ index' \in Rescanned(Removed(index, path), path)
                  /\ e.merged \/ e.kinds = {"modify"}
        PROVE  Taken(e, x)
    <3>1. /\ (e.merged => path \in doubtful') /\ (path \in DirPaths => Below(path) \subseteq doubtful')
      BY <2>3, ReportDoubts
    <3>2. path # Root /\ (path \in DirPaths => x \notin Below(path)) /\ DiskInv
          /\ dirs[e.dir] \in Path /\ e.name \in STRING
      <4>1. dirs[e.dir] \in Path /\ e.name \in STRING
        BY <1>1, <2>3, DiskType DEF FanTyped, FanEvent
      <4>2. path # Root
        BY <2>3, <4>1 DEF Root, Path
      <4> QED
        BY <2>1, <3>1, <4>1, <4>2 DEF FanTyped
    <3>3. PICK ix, iy, iz : ix = index /\ iy = Removed(index, path) /\ iz = index'
      OBVIOUS
    <3>4. /\ ix \in [Paths -> Nat] /\ iy \in [Paths -> Nat]
          /\ iy[x] = (IF x = path /\ ix[x] > 0 THEN ix[x] - 1 ELSE ix[x])
      <4>1. index \in [Paths -> Nat]
        BY DEF FanTyped, IndexType
      <4> QED
        BY <2>1, <3>3, <4>1, RemovedIs
    <3>5. iz \in Rescanned(ix, path) => iz[x] = IF path = x /\ x \in files THEN ix[x] + 1 ELSE ix[x]
      BY <2>1, <3>2, <3>4, RescannedRow
    <3>6. iz \in Rescanned(iy, path) => iz[x] = IF path = x /\ x \in files THEN iy[x] + 1 ELSE iy[x]
      BY <2>1, <3>2, <3>4, RescannedRow
    <3>7. \/ iz \in Rescanned(ix, path) \/ iz = iy \/ iz \in Rescanned(iy, path)
      BY <2>3, <3>3
    <3>8. CASE path # x
      <4>1. iz[x] = ix[x]
        BY <3>4, <3>5, <3>6, <3>7, <3>8
      <4>2. \A i \in DOMAIN dirs : dirs[i] = Front(x) => ~Names(e, i, Last(x))
        BY <2>1, <2>3, <3>8 DEF Names
      <4> QED
        BY <3>3, <4>1, <4>2 DEF Taken
    <3>9. CASE path = x
      <4>1. dirs[e.dir] = Front(x) /\ e.name = Last(x)
        <5>1. PICK d, n : d = dirs[e.dir] /\ n = e.name
          OBVIOUS
        <5>3. d \in Path /\ n \in STRING /\ Append(d, n) = x
          BY <2>3, <3>2, <3>9, <5>1
        <5>4. Front(Append(d, n)) = d /\ Last(Append(d, n)) = n
          BY <5>3, AppendIs
        <5>5. Front(x) = d /\ Last(x) = n
          BY <5>3, <5>4
        <5> QED
          BY <5>1, <5>5
      <4>2. ~e.merged
        BY <2>1, <3>1, <3>9
      <4>3. ix[x] \in Nat /\ iy[x] \in Nat
        BY <2>1, <3>4
      <4>4. CASE iz \in Rescanned(ix, path) /\ \E y \in Arrivals : e.kinds = {y}
        BY <2>3, <3>3, <3>5, <3>9, <4>1, <4>2, <4>4 DEF Taken
      <4>5. CASE iz = iy /\ \E y \in Removals : e.kinds = {y}
        BY <2>3, <3>3, <3>4, <3>9, <4>1, <4>2, <4>5 DEF Taken
      <4>6. CASE iz \in Rescanned(iy, path) /\ e.kinds = {"modify"}
        <5>1. iz[x] = iy[x] + (IF x \in files THEN 1 ELSE 0)
          BY <3>6, <3>9, <4>3, <4>6
        <5> QED
          BY <2>3, <3>3, <3>4, <3>9, <4>1, <4>2, <4>6, <5>1 DEF Taken
      <4> QED
        BY <2>3, <3>3, <4>2, <4>4, <4>5, <4>6
    <3> QED
      BY <3>8, <3>9
  <2>4. \/ UNCHANGED <<index, misreported>> /\ e.dir \notin DOMAIN dirs
        \/ \E path \in Path :
               /\ e.dir \in DOMAIN dirs /\ path = Append(dirs[e.dir], e.name)
               /\ \/ /\ index' \in Rescanned(index, path)
                     /\ e.merged \/ \E y \in Arrivals : e.kinds = {y}
                  \/ /\ index' = Removed(index, path)
                     /\ e.merged \/ \E y \in Removals : e.kinds = {y}
                  \/ /\ index' \in Rescanned(Removed(index, path), path)
                     /\ e.merged \/ e.kinds = {"modify"}
    BY ReportIs
  <2> HIDE DEF e
  <2> QED
    BY <2>2, <2>3, <2>4
<1>7. ASSUME NEW x \in Sure' PROVE FanRow(x)'
  <2>1. x \in Sure /\ x \in FilePaths /\ x \in Paths /\ FanRow(x)
    BY <1>4, <1>7, ThereIs DEF Sure, FanRows
  <2>2. ASSUME Front(x) \notin DirsNow PROVE index'[x] = 0
    <3>1. ~(e.dir \in DOMAIN dirs /\ dirs[e.dir] = Front(x))
      BY <2>2, DirsNowIs
    <3>2. index'[x] = index[x]
      BY <1>6, <3>1 DEF Taken
    <3> QED
      BY <2>1, <2>2, <3>2 DEF FanRow
  <2>3. ASSUME NEW i \in DOMAIN dirs, dirs[i] = Front(x), ~BlurredIn(Q', i, Last(x))
        PROVE  OkRows(Q', i, Last(x), x \in files, index'[x])
    <3>1. PICK s, t, n : s = Q /\ t = Q' /\ n = Last(x)
      OBVIOUS
    <3>2. (x \in files) \in BOOLEAN /\ index[x] \in Nat /\ index'[x] \in Nat
      BY <2>1, ThereIs DEF FanTyped, IndexType
    <3>3. PICK there \in BOOLEAN, rows \in Nat, left \in Nat :
              there = (x \in files) /\ rows = index[x] /\ left = index'[x]
      BY <3>2
    <3>4. /\ s \in Seq(FanEvent) /\ t \in Seq(FanEvent) /\ Len(s) \in Nat \ {0} /\ Len(t) = Len(s) - 1
          /\ \A k \in 1..Len(t) : t[k] = s[k + 1]
          /\ \A k \in 1..Len(s) : k > 1 => k - 1 \in 1..Len(t) /\ t[k - 1] = s[k]
          /\ s[1] = e
      BY <1>2, <1>3, <3>1
    <3>5. Names(e, i, n) => e.dir = i /\ e.name = n
      BY DEF Names
    <3> HIDE DEF e
    <3>6. \/ left = rows /\ ~Names(e, i, n)
          \/ /\ e.dir = i /\ e.name = n /\ ~e.merged
             /\ \/ left = (IF there THEN rows + 1 ELSE rows) /\ \E y \in Arrivals : e.kinds = {y}
                \/ left = (IF rows > 0 THEN rows - 1 ELSE rows) /\ \E y \in Removals : e.kinds = {y}
                \/ left = (IF rows > 0 THEN rows - 1 ELSE rows) + (IF there THEN 1 ELSE 0) /\ e.kinds = {"modify"}
      <4>1. \A j \in DOMAIN dirs : dirs[j] = dirs[i] => j = i
        BY DEF FanTyped, DiskInv
      <4> QED
        BY <1>6, <2>3, <3>1, <3>3, <4>1 DEF Taken
    <3>7. ~BlurredIn(s, i, n)
      <4> SUFFICES ASSUME NEW k \in 1..Len(s), s[k].merged, Names(s[k], i, n) PROVE FALSE
        BY DEF BlurredIn
      <4>1. CASE k = 1
        BY <3>4, <3>6, <4>1
      <4>2. CASE k > 1
        <5>1. k - 1 \in 1..Len(t) /\ t[k - 1].merged /\ Names(t[k - 1], i, n)
          BY <3>4, <4>2
        <5>2. ~BlurredIn(t, i, n)
          BY <2>3, <3>1
        <5> QED
          BY <5>1, <5>2 DEF BlurredIn
      <4> QED
        BY <3>4, <4>1, <4>2
    <3>8. OkRows(s, i, n, there, rows) /\ rows \in {0, 1}
      BY <2>1, <2>3, <3>1, <3>3, <3>7 DEF FanRow, OkRows
    <3>9. /\ left \in {0, 1}
          /\ \/ ~Names(s[1], i, n) /\ left = rows
             \/ Of(s[1], Tells, i, n) /\ left = (IF there THEN 1 ELSE 0)
             \/ Of(s[1], Removals, i, n) /\ left = 0
      <4>1. CASE left = rows /\ ~Names(e, i, n)
        BY <3>4, <3>8, <4>1
      <4>2. ASSUME e.dir = i, e.name = n, NEW y \in Arrivals, e.kinds = {y},
                   left = IF there THEN rows + 1 ELSE rows
            PROVE  left \in {0, 1} /\ Of(s[1], Tells, i, n) /\ left = (IF there THEN 1 ELSE 0)
        <5>1. Of(s[1], Arrivals, i, n) /\ Of(s[1], Tells, i, n) /\ 1 \in 1..Len(s)
          BY <3>4, <4>2 DEF Of, Tells
        <5>2. rows = 0
          <6>1. rows = 0 \/ \E l \in 1..Len(s) : l < 1 /\ Of(s[l], Removals, i, n)
            BY <3>8, <5>1 DEF OkRows, Free
          <6> QED
            BY <6>1
        <5> QED
          BY <4>2, <5>1, <5>2
      <4>3. ASSUME e.dir = i, e.name = n, NEW y \in Removals, e.kinds = {y},
                   left = IF rows > 0 THEN rows - 1 ELSE rows
            PROVE  left \in {0, 1} /\ Of(s[1], Removals, i, n) /\ left = 0
        BY <3>4, <3>8, <4>3 DEF Of
      <4>4. ASSUME e.dir = i, e.name = n, e.kinds = {"modify"},
                   left = (IF rows > 0 THEN rows - 1 ELSE rows) + (IF there THEN 1 ELSE 0)
            PROVE  left \in {0, 1} /\ Of(s[1], Tells, i, n) /\ left = (IF there THEN 1 ELSE 0)
        <5>1. Of(s[1], Tells, i, n)
          BY <3>4, <4>4 DEF Of, Tells
        <5>2. left = (IF there THEN 1 ELSE 0)
          BY <3>8, <4>4
        <5> QED
          BY <5>1, <5>2
      <4> QED
        BY <3>6, <4>1, <4>2, <4>3, <4>4
    <3>11. /\ Len(s) \in Nat \ {0} /\ Len(t) = Len(s) - 1 /\ \A k \in 1..Len(t) : t[k] = s[k + 1]
           /\ left \in {0, 1} /\ OkRows(s, i, n, there, rows)
           /\ \/ ~Names(s[1], i, n) /\ left = rows
              \/ Of(s[1], Tells, i, n) /\ left = (IF there THEN 1 ELSE 0)
              \/ Of(s[1], Removals, i, n) /\ left = 0
      BY <3>4, <3>8, <3>9
    <3>12. s \in Seq(FanEvent) /\ t \in Seq(FanEvent)
      BY <3>4
    <3>10. OkRows(t, i, n, there, left)
      BY <3>11, <3>12, RowsShift
    <3> QED
      BY <3>1, <3>3, <3>10
  <2> QED
    BY <1>1, <2>2, <2>3 DEF FanRow, DirsNow
<1> QED
  BY <1>4, <1>5, <1>7 DEF FanRows

LEMMA FanRowStep == FanTyped /\ FanRows /\ [Next]_vars => FanRows'
<1> SUFFICES ASSUME FanTyped, FanRows, [Next]_vars PROVE FanRows'
  OBVIOUS
<1>1. FanTyped'
  BY FanTypedStep
<1>2. CASE Others
  BY <1>1, <1>2, FanRowEntry, FanRowMakeDir, FanRowRemoveDir, FanRowRename DEF Others
<1>3. CASE QueueMovedTo
  BY <1>1, <1>3, FanRowMoved
<1>4. CASE ReadFanotify
  BY <1>1, <1>4, FanRowRead
<1>5. CASE UNCHANGED vars
  BY <1>5 DEF FanRows, FanRow, FanDirs, Sure, DirsNow, Q, vars, disk, kernel, ghosts
<1> QED
  BY <1>2, <1>3, <1>4, <1>5, FanSteps

LEMMA FanRowInit == Init /\ backend = "fanotify" => FanRows
<1> SUFFICES ASSUME Init, backend = "fanotify" PROVE FanRows
  OBVIOUS
<1>1. DiskInv /\ 1..Len(Q) = {} /\ misreported = {}
  BY DiskInit, StartListed DEF Init
<1>2. ASSUME NEW x \in Sure PROVE FanRow(x)
  <2>1. x \in FilePaths /\ index[x] = (IF x \in files THEN 1 ELSE 0)
    BY StartRows DEF Sure
  <2>2. Front(x) \notin DirsNow => index[x] = 0
    BY <1>1, <2>1, FrontThere
  <2>3. \A i \in DOMAIN dirs : OkRows(Q, i, Last(x), x \in files, index[x])
    BY <1>1, <2>1 DEF OkRows, Followed, Apart, Free, Backed
  <2> QED
    BY <2>2, <2>3 DEF FanRow
<1> QED
  BY <1>1, <1>2 DEF FanRows, FanDirs

\* With every event read, what is listed is there and what is there is listed.
LEMMA FanRowsExact ==
    ASSUME FanTyped, FanFile, FanRows, Settled, NEW x \in Sure
    PROVE  index[x] = IF x \in files THEN 1 ELSE 0
<1>1. 1..Len(Q) = {}
  BY DEF Settled, Q
<1>2. x \in FilePaths /\ x \notin misreported /\ FanRow(x) /\ index[x] \in Nat
  BY ThereIs DEF Sure, FanRows
<1>3. CASE Front(x) \notin DirsNow
  <2>1. x \notin files
    BY <1>3, FrontThere DEF FanTyped
  <2> QED
    BY <1>2, <1>3, <2>1 DEF FanRow
<1>4. CASE Front(x) \in DirsNow
  <2>1. PICK i \in DOMAIN dirs : dirs[i] = Front(x)
    BY <1>4, DirsNowIs
  <2>2. OkRows(Q, i, Last(x), x \in files, index[x])
    BY <1>1, <1>2, <2>1 DEF FanRow, BlurredIn
  <2>3. index[x] \in {0, 1} /\ (index[x] > 0 => x \in files)
    BY <1>1, <2>2 DEF OkRows, Backed
  <2>4. x \in files => index[x] > 0
    <3>1. x \in files => Ok(Q, i, Last(x), index[x] > 0)
      BY <1>2, <2>1 DEF FanFile
    <3> QED
      BY <1>1, <3>1 DEF Ok
  <2> QED
    BY <2>3, <2>4
<1> QED
  BY <1>3, <1>4

-----------------------------------------------------------------------------
(* The index is exact.                                                     *)

ExactInv == (Inotify => RowInv) /\ (backend = "fanotify" => FanRows)

LEMMA ExactInvHolds == Spec => []ExactInv
<1>1. Init => ExactInv
  BY RowInit, FanRowInit DEF ExactInv
<1>2. ListInv /\ ExactInv /\ [Next]_vars => ExactInv'
  <2> SUFFICES ASSUME ListInv, ExactInv, [Next]_vars PROVE ExactInv'
    OBVIOUS
  <2>1. backend' = backend
    BY BackendStays
  <2>2. ASSUME Inotify' PROVE RowInv'
    <3>1. Inotify
      BY <2>2, InotifySteps
    <3>2. Typed /\ TableInv /\ PairInv /\ PendInv /\ RowInv
      BY <3>1 DEF ListInv, ExactInv
    <3> QED
      BY <2>2, <3>2, RowStep
  <2>3. ASSUME backend = "fanotify" PROVE FanRows'
    BY <2>3, FanRowStep DEF ListInv, ExactInv
  <2> QED
    BY <2>1, <2>2, <2>3 DEF ExactInv
<1> QED
  BY <1>1, <1>2, ListInvHolds, PTL DEF Spec

\* Once the events are handled, every file no walk, overwriting or merging put
\* in doubt has one row if it is there and none if it is not, with either
\* monitor: the events of one file reach Indexer::ApplyChangeEvent under its
\* own path and in their order, however late, and no event of another file
\* or of a directory that was renamed, removed or made again takes its row.
THEOREM IndexIsExactHolds == Spec => []IndexIsExact
<1>1. ListInv /\ ExactInv => IndexIsExact
  <2> SUFFICES ASSUME ListInv, ExactInv, Settled, gaps = {}, NEW p \in FilePaths \ doubtful
               PROVE  index[p] = IF p \in files THEN 1 ELSE 0
    BY DEF IndexIsExact
  <2>1. p \in Sure
    BY DEF Sure
  <2>2. CASE backend = "inotify"
    <3>1. Typed /\ RowInv
      BY <2>2 DEF ListInv, ExactInv, Inotify
    <3> QED
      BY <2>1, <3>1, RowsExact
  <2>3. CASE backend = "fanotify"
    <3>1. FanTyped /\ FanFile /\ FanRows
      BY <2>3 DEF ListInv, ExactInv
    <3> QED
      BY <2>1, <3>1, FanRowsExact
  <2> QED
    BY <2>2, <2>3 DEF ListInv
<1> QED
  BY <1>1, ListInvHolds, ExactInvHolds, PTL

=============================================================================
