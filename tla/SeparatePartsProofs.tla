--------------------------- MODULE SeparatePartsProofs ---------------------------
(***************************************************************************)
(* Proofs about the log window, the release download, the data view with   *)
(* its files and the frame counter, for every set of messages, files and   *)
(* chunks, every size of the buffers and every limit and watchdog they     *)
(* admit.  Each part has an inductive invariant of its own; the tool's is  *)
(* in PreparationToolProofs.                                               *)
(***************************************************************************)
EXTENDS SeparateParts, PreparationToolProofs, SequenceFilter, SequenceTheorems,
        NaturalsInduction, WellFoundedInduction, FiniteSetTheorems, TLAPS

-----------------------------------------------------------------------------
(***************************************************************************)
(* Dropping members of a sequence.                                         *)
(***************************************************************************)

\* Induction over a set of numbers.
LEMMA SetInduction ==
  ASSUME NEW Z, 0 \in Z, \A n \in Nat : n \in Z => n + 1 \in Z
  PROVE  Nat \subseteq Z
<1> DEFINE T == Nat \ Z
           R == OpToRel(<, Nat)
<1>1. IsWellFoundedOn(R, Nat)
  BY NatLessThanWellFounded
<1>2. \A x, y \in Nat : <<x, y>> \in R <=> x < y
  BY DEF OpToRel
<1>3. SUFFICES ASSUME T # {} PROVE FALSE
  OBVIOUS
<1> HIDE DEF R
<1>4. PICK x \in T : \A y \in T : ~ (<<y, x>> \in R)
  <2> HIDE DEF T
  <2>1. T \subseteq Nat
    BY DEF T
  <2> QED
    BY <1>1, <1>3, <2>1, WFMin
<1>5. x # 0 /\ x \in Nat /\ x - 1 \in Nat /\ x - 1 < x
  BY <1>4
<1>6. x - 1 \in Z
  BY <1>2, <1>4, <1>5
<1>7. (x - 1) + 1 \in Z
  BY <1>5, <1>6
<1> QED
  BY <1>4, <1>5, <1>7

\* g is the filter of the first m members of s.
Filters(g, m, s, drop) ==
  g = [n \in 0 .. m |-> IF n = 0 THEN <<>>
                        ELSE IF s[n] \in drop THEN g[n - 1] ELSE Append(g[n - 1], s[n])]

\* The recursive function of Without exists.
LEMMA FilterExists ==
  ASSUME NEW s, NEW drop, NEW k \in Nat
  PROVE  \E g : Filters(g, k, s, drop)
<1> DEFINE Z == {m \in Nat : \E g : Filters(g, m, s, drop)}
<1>1. 0 \in Z
  <2> DEFINE g == [n \in 0 .. 0 |-> <<>>]
  <2>1. Filters(g, 0, s, drop)
    BY DEF Filters
  <2> QED
    BY <2>1
<1>2. ASSUME NEW m \in Nat, m \in Z PROVE m + 1 \in Z
  <2>1. PICK g : Filters(g, m, s, drop)
    BY <1>2
  <2> DEFINE h == [n \in 0 .. m + 1 |-> IF n <= m THEN g[n]
                                        ELSE IF s[n] \in drop THEN g[n - 1] ELSE Append(g[n - 1], s[n])]
  <2>2. /\ DOMAIN g = 0 .. m
        /\ \A n \in 0 .. m : g[n] = IF n = 0 THEN <<>> ELSE IF s[n] \in drop THEN g[n - 1] ELSE Append(g[n - 1], s[n])
    BY <2>1 DEF Filters
  <2>3. DOMAIN h = 0 .. m + 1 /\ \A n \in 0 .. m : h[n] = g[n]
    OBVIOUS
  <2>4. h[m + 1] = IF s[m + 1] \in drop THEN g[m] ELSE Append(g[m], s[m + 1])
    OBVIOUS
  <2>5. h = [n \in 0 .. m + 1 |-> h[n]]
    OBVIOUS
  <2> HIDE DEF h
  <2>6. ASSUME NEW n \in 0 .. m + 1
        PROVE  h[n] = IF n = 0 THEN <<>> ELSE IF s[n] \in drop THEN h[n - 1] ELSE Append(h[n - 1], s[n])
    <3>1. CASE n = m + 1
      BY <2>3, <2>4, <3>1
    <3>2. CASE n \in 0 .. m /\ n # 0
      <4>1. n - 1 \in 0 .. m
        BY <3>2
      <4> QED
        BY <2>2, <2>3, <3>2, <4>1
    <3>3. CASE n = 0
      BY <2>2, <2>3, <3>3
    <3> QED
      BY <3>1, <3>2, <3>3
  <2>7. Filters(h, m + 1, s, drop)
    BY ONLY <2>5, <2>6, m \in Nat DEF Filters
  <2> QED
    BY <2>7
<1> HIDE DEF Z
<1>3. k \in Z
  BY <1>1, <1>2, SetInduction
<1> QED
  BY <1>3 DEF Z

LEMMA WithoutFilters ==
  ASSUME NEW S, NEW s \in Seq(S), NEW drop
  PROVE  \E g : /\ Without(s, drop) = g[Len(s)] /\ g[0] = <<>>
                /\ \A n \in 1 .. Len(s) : g[n] = IF s[n] \in drop THEN g[n - 1] ELSE Append(g[n - 1], s[n])
<1> DEFINE g == CHOOSE g : Filters(g, Len(s), s, drop)
<1>1. Filters(g, Len(s), s, drop)
  BY FilterExists
<1>2. Without(s, drop) = g[Len(s)]
  BY DEF Without, Filters
<1> HIDE DEF g
<1>3. g[0] = <<>> /\ \A n \in 1 .. Len(s) : g[n] = IF s[n] \in drop THEN g[n - 1] ELSE Append(g[n - 1], s[n])
  <2> DEFINE m == Len(s)
  <2>1. m \in Nat
    OBVIOUS
  <2>2. g = [n \in 0 .. m |-> IF n = 0 THEN <<>>
                             ELSE IF s[n] \in drop THEN g[n - 1] ELSE Append(g[n - 1], s[n])]
    BY <1>1 DEF Filters
  <2> HIDE DEF m
  <2>3. \A n \in 0 .. m : g[n] = IF n = 0 THEN <<>>
                                 ELSE IF s[n] \in drop THEN g[n - 1] ELSE Append(g[n - 1], s[n])
    BY <2>2
  <2>4. 0 \in 0 .. m /\ \A n \in 1 .. m : n \in 0 .. m /\ n # 0
    BY <2>1
  <2> QED
    BY <2>3, <2>4 DEF m
<1> QED
  BY <1>2, <1>3

\* e places the members of w among the first n of s: in their order, and all that
\* are kept.
Places(e, w, n, s, drop) ==
  /\ e \in [1 .. Len(w) -> 1 .. n]
  /\ \A i, j \in 1 .. Len(w) : i < j => e[i] < e[j]
  /\ \A i \in 1 .. Len(w) : w[i] = s[e[i]] /\ w[i] \notin drop
  /\ \A k \in 1 .. n : s[k] \notin drop => \E i \in 1 .. Len(w) : e[i] = k

\* Without keeps what it should, in its order.
LEMMA WithoutPlaces ==
  ASSUME NEW S, NEW s \in Seq(S), NEW drop
  PROVE  /\ Without(s, drop) \in Seq(S) /\ Len(Without(s, drop)) <= Len(s)
         /\ \E e : Places(e, Without(s, drop), Len(s), s, drop)
<1>1. PICK g : /\ Without(s, drop) = g[Len(s)] /\ g[0] = <<>>
               /\ \A n \in 1 .. Len(s) : g[n] = IF s[n] \in drop THEN g[n - 1] ELSE Append(g[n - 1], s[n])
  BY WithoutFilters
<1> DEFINE Z == {n \in Nat : n <= Len(s) =>
                   g[n] \in Seq(S) /\ Len(g[n]) <= n /\ \E e : Places(e, g[n], n, s, drop)}
<1>2. 0 \in Z
  <2> DEFINE e == [i \in 1 .. 0 |-> 1]
  <2>1. Places(e, <<>>, 0, s, drop)
    BY EmptySeq DEF Places
  <2> HIDE DEF e
  <2>2. \E e1 : Places(e1, g[0], 0, s, drop)
    BY <1>1, <2>1
  <2>3. g[0] \in Seq(S) /\ Len(g[0]) <= 0
    BY <1>1, EmptySeq
  <2> QED
    BY <2>2, <2>3
<1>3. ASSUME NEW n \in Nat, n \in Z PROVE n + 1 \in Z
  <2>1. SUFFICES ASSUME n + 1 <= Len(s)
        PROVE  g[n + 1] \in Seq(S) /\ Len(g[n + 1]) <= n + 1 /\ \E e : Places(e, g[n + 1], n + 1, s, drop)
    OBVIOUS
  <2> DEFINE w == g[n]
             x == s[n + 1]
  <2>2. Len(s) \in Nat /\ n <= Len(s) /\ n + 1 \in 1 .. Len(s)
    BY <2>1
  <2>3. w \in Seq(S) /\ Len(w) <= n /\ Len(w) \in Nat /\ \E e : Places(e, w, n, s, drop)
    BY <1>3, <2>2
  <2>4. g[n + 1] = IF x \in drop THEN w ELSE Append(w, x)
    <3>1. (n + 1) - 1 = n
      OBVIOUS
    <3> QED
      BY <1>1, <2>2, <3>1
  <2>5. x \in S
    BY <2>2, ElementOfSeq
  <2>6. PICK e : Places(e, w, n, s, drop)
    BY <2>3
  <2> HIDE DEF w
  <2>7. CASE x \in drop
    <3>1. Places(e, w, n + 1, s, drop)
      BY <2>3, <2>6, <2>7 DEF Places
    <3> QED
      BY <2>3, <2>4, <2>7, <3>1
  <2>8. CASE x \notin drop
    <3> DEFINE v == Append(w, x)
               f == [i \in 1 .. Len(w) + 1 |-> IF i <= Len(w) THEN e[i] ELSE n + 1]
    <3>1. /\ v \in Seq(S) /\ Len(v) = Len(w) + 1
          /\ \A i \in 1 .. Len(w) : v[i] = w[i]
          /\ v[Len(w) + 1] = x
      BY <2>3, <2>5, AppendProperties
    <3>2. /\ f \in [1 .. Len(w) + 1 -> 1 .. n + 1]
          /\ \A i \in 1 .. Len(w) : f[i] = e[i] /\ f[i] \in 1 .. n
          /\ f[Len(w) + 1] = n + 1
      <4> DEFINE l == Len(w)
      <4>1. l \in Nat /\ e \in [1 .. l -> 1 .. n]
        BY <2>3, <2>6 DEF Places
      <4> HIDE DEF l
      <4>2. \A i \in 1 .. l : e[i] \in 1 .. n /\ e[i] \in 1 .. n + 1 /\ i \in 1 .. l + 1
        BY <4>1
      <4> QED
        BY <4>1, <4>2 DEF l
    <3> HIDE DEF v, f
    <3>3. f \in [1 .. Len(v) -> 1 .. n + 1]
      BY <3>1, <3>2
    <3>4. ASSUME NEW i \in 1 .. Len(v), NEW j \in 1 .. Len(v), i < j PROVE f[i] < f[j]
      <4>1. i \in 1 .. Len(w) /\ (j \in 1 .. Len(w) \/ j = Len(w) + 1)
        BY <2>3, <3>1, <3>4
      <4> QED
        BY <2>6, <3>2, <3>4, <4>1 DEF Places
    <3>5. ASSUME NEW i \in 1 .. Len(v) PROVE v[i] = s[f[i]] /\ v[i] \notin drop
      <4>1. i \in 1 .. Len(w) \/ i = Len(w) + 1
        BY <2>3, <3>1
      <4> QED
        BY <2>6, <2>8, <3>1, <3>2, <4>1 DEF Places
    <3>6. ASSUME NEW k \in 1 .. n + 1, s[k] \notin drop PROVE \E i \in 1 .. Len(v) : f[i] = k
      <4>1. CASE k = n + 1
        <5>1. Len(w) + 1 \in 1 .. Len(v)
          BY <2>3, <3>1
        <5> QED
          BY <3>2, <4>1, <5>1
      <4>2. CASE k \in 1 .. n
        <5>1. PICK i \in 1 .. Len(w) : e[i] = k
          BY <2>6, <3>6, <4>2 DEF Places
        <5>2. i \in 1 .. Len(v)
          BY <2>3, <3>1
        <5> QED
          BY <3>2, <5>1, <5>2
      <4> QED
        BY <4>1, <4>2
    <3>7. Places(f, v, n + 1, s, drop)
      BY <3>3, <3>4, <3>5, <3>6 DEF Places
    <3> QED
      BY <2>3, <2>4, <2>8, <3>1, <3>7 DEF v
  <2> QED
    BY <2>7, <2>8
<1> HIDE DEF Z
<1>4. Len(s) \in Z
  BY <1>2, <1>3, SetInduction
<1> QED
  BY <1>1, <1>4 DEF Z

\* What is dropped from two sequences is dropped from the two together.
\* The last one that is kept, when nothing is dropped.
LEMMA LastPlace ==
  ASSUME NEW e, NEW w, NEW n \in Nat \ {0}, NEW s, NEW drop,
         Places(e, w, n, s, drop), Len(w) = n
  PROVE  w[n] = s[n]
<1> DEFINE Z == {m \in Nat : m \in 1 .. n => e[m] >= m}
<1>1. /\ \A i \in 1 .. n : e[i] \in 1 .. n
      /\ \A i, j \in 1 .. n : i < j => e[i] < e[j]
      /\ \A i \in 1 .. n : w[i] = s[e[i]]
  BY DEF Places
<1>2. 0 \in Z
  OBVIOUS
<1>3. ASSUME NEW m \in Nat, m \in Z PROVE m + 1 \in Z
  <2>1. SUFFICES ASSUME m + 1 \in 1 .. n PROVE e[m + 1] >= m + 1
    OBVIOUS
  <2>2. CASE m = 0
    BY <1>1, <2>1, <2>2
  <2>3. CASE m # 0
    <3>1. m \in 1 .. n /\ m < m + 1
      BY <2>1, <2>3
    <3>2. e[m] >= m /\ e[m] < e[m + 1] /\ e[m] \in 1 .. n /\ e[m + 1] \in 1 .. n
      BY <1>1, <1>3, <2>1, <3>1
    <3> QED
      BY <3>2
  <2> QED
    BY <2>2, <2>3
<1> HIDE DEF Z
<1>4. Nat \subseteq Z
  BY <1>2, <1>3, SetInduction
<1>5. n \in 1 .. n /\ e[n] >= n
  BY <1>4 DEF Z
<1>6. e[n] = n
  BY <1>1, <1>5
<1> QED
  BY <1>1, <1>5, <1>6

LEMMA WithoutConcat ==
  ASSUME NEW S, NEW s \in Seq(S), NEW t \in Seq(S), NEW drop
  PROVE  Without(s \o t, drop) = Without(s, drop) \o Without(t, drop)
<1> DEFINE u == s \o t
           ls == Len(s)
           lt == Len(t)
<1>1. /\ u \in Seq(S) /\ Len(u) = ls + lt /\ ls \in Nat /\ lt \in Nat
      /\ \A i \in 1 .. ls : u[i] = s[i]
      /\ \A i \in 1 .. lt : u[ls + i] = t[i]
  <2>1. u \in Seq(S) /\ Len(u) = ls + lt /\ ls \in Nat /\ lt \in Nat
        /\ \A i \in 1 .. ls + lt : u[i] = IF i <= ls THEN s[i] ELSE t[i - ls]
    BY ConcatProperties, LenProperties
  <2> HIDE DEF u, ls, lt
  <2>2. \A i \in 1 .. lt : ls + i \in 1 .. ls + lt /\ ~(ls + i <= ls) /\ (ls + i) - ls = i
    BY <2>1
  <2>3. \A i \in 1 .. ls : i \in 1 .. ls + lt /\ i <= ls
    BY <2>1
  <2>4. \A i \in 1 .. ls : u[i] = s[i]
    BY <2>1, <2>3
  <2>5. \A i \in 1 .. lt : u[ls + i] = t[i]
    BY <2>1, <2>2
  <2> QED
    BY <2>1, <2>4, <2>5
<1>2. PICK gs : /\ Without(s, drop) = gs[ls] /\ gs[0] = <<>>
                /\ \A n \in 1 .. ls : gs[n] = IF s[n] \in drop THEN gs[n - 1] ELSE Append(gs[n - 1], s[n])
  BY WithoutFilters
<1>3. PICK gt : /\ Without(t, drop) = gt[lt] /\ gt[0] = <<>>
                /\ \A n \in 1 .. lt : gt[n] = IF t[n] \in drop THEN gt[n - 1] ELSE Append(gt[n - 1], t[n])
  BY WithoutFilters
<1>4. PICK gu : /\ Without(u, drop) = gu[Len(u)] /\ gu[0] = <<>>
                /\ \A n \in 1 .. Len(u) : gu[n] = IF u[n] \in drop THEN gu[n - 1] ELSE Append(gu[n - 1], u[n])
  <2> HIDE DEF u
  <2> QED
    BY <1>1, WithoutFilters
<1> HIDE DEF u, ls, lt
<1> DEFINE Z == {n \in Nat : n <= ls => gu[n] = gs[n]}
<1>5. 0 \in Z
  BY <1>2, <1>4
<1>6. ASSUME NEW n \in Nat, n \in Z PROVE n + 1 \in Z
  <2>1. SUFFICES ASSUME n + 1 <= ls PROVE gu[n + 1] = gs[n + 1]
    OBVIOUS
  <2>2. n + 1 \in 1 .. ls /\ n + 1 \in 1 .. Len(u) /\ (n + 1) - 1 = n /\ n <= ls
    BY <1>1, <2>1
  <2> QED
    BY <1>1, <1>2, <1>4, <1>6, <2>2
<1>7. gu[ls] = gs[ls]
  <2> HIDE DEF Z
  <2>1. ls \in Z
    BY <1>1, <1>5, <1>6, SetInduction
  <2> QED
    BY <1>1, <2>1 DEF Z
<1> DEFINE w == gs[ls]
           Y == {n \in Nat : n <= lt => gt[n] \in Seq(S) /\ gu[ls + n] = w \o gt[n]}
<1>8. w \in Seq(S)
  BY <1>2, WithoutPlaces
<1> HIDE DEF w
<1>9. 0 \in Y
  <2>1. ls + 0 = ls /\ w \o <<>> = w /\ <<>> \in Seq(S)
    BY <1>1, <1>8, ConcatEmptySeq, EmptySeq
  <2> QED
    BY <1>3, <1>7, <2>1 DEF w
<1>10. ASSUME NEW n \in Nat, n \in Y PROVE n + 1 \in Y
  <2>1. SUFFICES ASSUME n + 1 <= lt PROVE gt[n + 1] \in Seq(S) /\ gu[ls + (n + 1)] = w \o gt[n + 1]
    OBVIOUS
  <2>2. n + 1 \in 1 .. lt /\ ls + (n + 1) \in 1 .. Len(u) /\ (n + 1) - 1 = n /\ n <= lt
        /\ (ls + (n + 1)) - 1 = ls + n
    BY <1>1, <2>1
  <2> DEFINE v == gt[n]
             x == t[n + 1]
  <2>3. v \in Seq(S) /\ gu[ls + n] = w \o v /\ x \in S /\ u[ls + (n + 1)] = x
    BY <1>1, <1>10, <2>2, ElementOfSeq DEF lt
  <2>4. gt[n + 1] = IF x \in drop THEN v ELSE Append(v, x)
    BY <1>3, <2>2
  <2>5. gu[ls + (n + 1)] = IF x \in drop THEN w \o v ELSE Append(w \o v, x)
    <3> DEFINE k == ls + (n + 1)
    <3>1. k \in 1 .. Len(u) /\ k - 1 = ls + n
      BY <2>2
    <3>2. u[k] = x /\ gu[ls + n] = w \o v
      BY <2>3
    <3> HIDE DEF k, v, x
    <3>3. gu[k] = IF u[k] \in drop THEN gu[k - 1] ELSE Append(gu[k - 1], u[k])
      BY <1>4, <3>1
    <3>4. gu[k] = IF x \in drop THEN w \o v ELSE Append(w \o v, x)
      BY <3>1, <3>2, <3>3
    <3> QED
      BY <3>4 DEF k
  <2> HIDE DEF v, x
  <2>6. Append(w \o v, x) = w \o Append(v, x) /\ Append(v, x) \in Seq(S)
    <3>1. w \in Seq(S) /\ v \in Seq(S) /\ x \in S
      BY <1>8, <2>3
    <3> DEFINE y == <<x>>
    <3>2. y \in Seq(S)
      BY <3>1
    <3>3. w \o v \in Seq(S)
      BY <3>1, ConcatProperties
    <3>4. Append(w \o v, x) = (w \o v) \o y
      BY ONLY <3>1, <3>3, AppendIsConcat
    <3>5. Append(v, x) = v \o y
      BY ONLY <3>1, AppendIsConcat
    <3> HIDE DEF y
    <3>6. (w \o v) \o y = w \o (v \o y)
      BY ONLY <3>1, <3>2, SMTT(30)
    <3>7. Append(v, x) \in Seq(S)
      BY ONLY <3>1, AppendProperties
    <3> QED
      BY ONLY <3>4, <3>5, <3>6, <3>7
  <2> QED
    BY <2>3, <2>4, <2>5, <2>6
<1>11. gu[ls + lt] = w \o gt[lt]
  <2> HIDE DEF Y
  <2>1. lt \in Y
    BY <1>1, <1>9, <1>10, SetInduction
  <2> QED
    BY <1>1, <2>1 DEF Y
<1> QED
  BY <1>1, <1>2, <1>3, <1>4, <1>11 DEF w, u, ls, lt

-----------------------------------------------------------------------------
(***************************************************************************)
(* The release download.                                                   *)
(***************************************************************************)

\* A download between its stages: it has emitted exactly when it has finished, what
\* an open reply has brought is what was read and what waits, a success is the
\* whole body, and neither is possible after a cancellation.
Transfer ==
  /\ emitted = IF finished THEN 1 ELSE 0
  /\ success => finished /\ data = body
  /\ reply = "open" => started /\ data \o unread = body /\ redirects <= MaxRedirects
  /\ ~started => data = <<>> /\ unread = <<>> /\ redirects = 0

Outcome ==
  /\ Download!Looping /\ cancelled => finished /\ ~success
  /\ Download!Looping /\ quit => finished \/ ~timer
  /\ caller \in {"checksum", "install"} => Len(contents) \in 1 .. Limit
  /\ caller = "install" => contents = Release /\ ~cancelled

DownloadInv == Download!TypeOK /\ Transfer /\ Outcome

LEMMA DownloadSizes ==
  ASSUME PartsAssumption
  PROVE  /\ Limit \in Nat /\ MaxRedirects \in Nat /\ Release \in Seq(Chunks)
         /\ <<>> \in Seq(Chunks) /\ 0 \in 0 .. MaxRedirects + 1 /\ 0 .. MaxRedirects \subseteq 0 .. MaxRedirects + 1
BY DEF PartsAssumption, Download!DownloadAssumption

\* A download that has not started is well typed and has nothing.
LEMMA FreshHolds ==
  ASSUME PartsAssumption, Download!Fresh, caller' \in Download!Stages, quit' = FALSE, timer' = TRUE,
         contents' \in Seq(Chunks), cancelled' \in BOOLEAN, caller' = "checksum" => Len(contents') \in 1 .. Limit, ~cancelled'
  PROVE  DownloadInv'
<1>1. Download!TypeOK'
  BY DownloadSizes DEF Download!TypeOK, Download!Fresh, Download!Stages, Download!Errors
<1>2. Transfer'
  BY DEF Transfer, Download!Fresh
<1>3. Outcome'
  BY DEF Outcome, Download!Looping, Download!Stages
<1> QED
  BY <1>1, <1>2, <1>3 DEF DownloadInv

LEMMA DownloadInit ==
  ASSUME PartsAssumption, Download!Init
  PROVE  DownloadInv
<1>1. Download!TypeOK
  BY DownloadSizes DEF Download!TypeOK, Download!Init, Download!Stages, Download!Errors
<1>2. Transfer
  BY DEF Transfer, Download!Init
<1>3. Outcome
  BY DEF Outcome, Download!Init, Download!Looping, Download!Stages
<1> QED
  BY <1>1, <1>2, <1>3 DEF DownloadInv

LEMMA DownloadBegins ==
  ASSUME PartsAssumption, DownloadInv, Download!Begin
  PROVE  DownloadInv'
BY FreshHolds, DownloadSizes DEF Download!Begin, Download!Stages

\* A failure, of a download that had not finished.
LEMMA FailureHolds ==
  ASSUME PartsAssumption, DownloadInv, ~finished, NEW message \in Download!Errors, Download!FailsWith(message),
         Download!OnCaller, started' = started, data' \in Seq(Chunks), unread' \in Seq(Chunks), body' \in Seq(Chunks),
         redirects' \in 0 .. MaxRedirects + 1, cancelled' \in BOOLEAN, Download!Looping,
         ~started => data' = <<>> /\ unread' = <<>> /\ redirects' = 0
  PROVE  DownloadInv'
<1>1. Download!TypeOK'
  BY DEF DownloadInv, Download!TypeOK, Download!FailsWith, Download!Emits, Download!OnCaller
<1>2. Transfer'
  BY DEF DownloadInv, Transfer, Download!FailsWith, Download!Emits, Download!OnCaller
<1>3. Outcome'
  BY DEF DownloadInv, Outcome, Download!FailsWith, Download!OnCaller, Download!Looping, Download!Stages
<1> QED
  BY <1>1, <1>2, <1>3 DEF DownloadInv

\* An abort of an open reply.
LEMMA AbortHolds ==
  ASSUME PartsAssumption, DownloadInv, reply = "open", NEW message \in Download!Errors, Download!Aborts(message),
         Download!OnCaller, started' = started, body' \in Seq(Chunks),
         redirects' \in 0 .. MaxRedirects + 1, cancelled' \in BOOLEAN, Download!Looping
  PROVE  DownloadInv'
<1>1. ~finished /\ started /\ Download!FailsWith(message)
  BY DEF DownloadInv, Download!TypeOK, Transfer, Download!Aborts
<1>2. data' \in Seq(Chunks) /\ unread' \in Seq(Chunks)
  BY DownloadSizes DEF DownloadInv, Download!TypeOK, Download!Aborts
<1> QED
  BY <1>1, <1>2, FailureHolds

LEMMA DownloadStarts ==
  ASSUME PartsAssumption, DownloadInv, Download!StartRequest
  PROVE  DownloadInv'
<1> USE DEF Download!StartRequest, Download!OnCaller, Download!verdict
<1>1. Download!TypeOK'
  BY DownloadSizes DEF DownloadInv, Download!TypeOK, Download!Requests
<1>2. Transfer'
  <2>1. CASE finished
    BY <2>1 DEF DownloadInv, Transfer, Download!TypeOK
  <2>2. CASE ~finished
    <3>1. data = <<>> /\ unread' = <<>> /\ body' = <<>> /\ redirects = 0 /\ 0 <= MaxRedirects
      BY <2>2, DownloadSizes DEF DownloadInv, Transfer, Download!Requests
    <3>2. data' \o unread' = body'
      BY <3>1
    <3> QED
      BY <2>2, <3>1, <3>2 DEF DownloadInv, Transfer, Download!TypeOK
  <2> QED
    BY <2>1, <2>2
<1>3. Outcome'
  BY DEF DownloadInv, Outcome, Download!Looping, Download!Stages
<1> QED
  BY <1>1, <1>2, <1>3 DEF DownloadInv

LEMMA ChunkArrives ==
  ASSUME PartsAssumption, DownloadInv, Download!Chunk
  PROVE  DownloadInv'
<1>1. PICK c \in Chunks :
       /\ body' = Append(body, c)
       /\ \/ /\ unread' = Append(unread, c)
             /\ UNCHANGED <<data, reply, timeout, quit, Download!verdict>>
          \/ /\ unread' = <<>>
             /\ data' = data \o Append(unread, c)
             /\ IF Len(data') > Limit THEN Download!FailsWith("limit")
                ELSE UNCHANGED <<reply, timeout, quit, Download!verdict>>
  BY DEF Download!Chunk
<1>2. /\ reply = "open" /\ Download!OnCaller /\ UNCHANGED <<started, redirects, cancelled>> /\ Download!Looping
      /\ ~finished /\ started /\ data \o unread = body
      /\ redirects \in 0 .. MaxRedirects + 1 /\ cancelled \in BOOLEAN
      /\ data \in Seq(Chunks) /\ unread \in Seq(Chunks) /\ body \in Seq(Chunks)
  BY DEF Download!Chunk, DownloadInv, Download!TypeOK, Transfer
<1>3. /\ body' \in Seq(Chunks) /\ unread' \in Seq(Chunks) /\ data' \in Seq(Chunks)
      /\ data' \o unread' = body'
  <2> DEFINE more == Append(unread, c)
  <2>1. more \in Seq(Chunks) /\ Append(body, c) \in Seq(Chunks)
    BY <1>2, AppendProperties
  <2>2. more = unread \o <<c>> /\ Append(body, c) = body \o <<c>> /\ <<c>> \in Seq(Chunks)
    BY <1>2, AppendIsConcat
  <2>3. data \o more = body'
    <3> DEFINE y == <<c>>
    <3>0. data \in Seq(Chunks) /\ unread \in Seq(Chunks) /\ y \in Seq(Chunks)
      BY <1>2, <2>2
    <3> HIDE DEF y
    <3>1. data \o (unread \o y) = (data \o unread) \o y
      BY ONLY <3>0, SMTT(30)
    <3>2. body' = Append(body, c) /\ body = data \o unread
      BY <1>1, <1>2
    <3> QED
      BY <2>2, <3>1, <3>2 DEF y
  <2>4. data \o more \in Seq(Chunks) /\ (data \o more) \o <<>> = data \o more
    BY <1>2, <2>1, ConcatProperties, ConcatEmptySeq
  <2> HIDE DEF more
  <2> QED
    BY <1>1, <1>2, <2>1, <2>3, <2>4, DownloadSizes DEF more
<1>4. CASE Download!FailsWith("limit")
  BY <1>2, <1>3, <1>4, FailureHolds DEF Download!Errors
<1>5. CASE UNCHANGED <<reply, timeout, quit, Download!verdict>>
  <2>1. Download!TypeOK'
    BY <1>2, <1>3, <1>5 DEF DownloadInv, Download!TypeOK, Download!verdict, Download!OnCaller
  <2>2. Transfer'
    BY <1>2, <1>3, <1>5 DEF DownloadInv, Transfer, Download!TypeOK, Download!verdict
  <2>3. Outcome'
    BY <1>2, <1>5 DEF DownloadInv, Outcome, Download!Looping, Download!Stages, Download!verdict, Download!OnCaller
  <2> QED
    BY <2>1, <2>2, <2>3 DEF DownloadInv
<1> QED
  BY <1>1, <1>4, <1>5

LEMMA HeadersKeep ==
  ASSUME PartsAssumption, DownloadInv, Download!Headers
  PROVE  DownloadInv'
<1>1. "too large" \in Download!Errors /\ Download!Aborts("too large") /\ reply = "open" /\ Download!Looping
      /\ Download!OnCaller /\ started' = started
  BY DEF Download!Headers, Download!Errors
<1>2. body' \in Seq(Chunks) /\ redirects' \in 0 .. MaxRedirects + 1 /\ cancelled' \in BOOLEAN
  BY DEF DownloadInv, Download!TypeOK, Download!Headers
<1> QED
  BY <1>1, <1>2, AbortHolds

LEMMA FailureKeeps ==
  ASSUME PartsAssumption, DownloadInv, Download!Failure
  PROVE  DownloadInv'
<1>1. PICK message \in Download!Errors : Download!Aborts(message)
  BY DEF Download!Failure, Download!Errors
<1>2. reply = "open" /\ Download!Looping /\ Download!OnCaller /\ started' = started
  BY DEF Download!Failure
<1>3. body' \in Seq(Chunks) /\ redirects' \in 0 .. MaxRedirects + 1 /\ cancelled' \in BOOLEAN
  BY DEF DownloadInv, Download!TypeOK, Download!Failure
<1> QED
  BY <1>1, <1>2, <1>3, AbortHolds

LEMMA RedirectKeeps ==
  ASSUME PartsAssumption, DownloadInv, Download!Redirect
  PROVE  DownloadInv'
<1>1. reply = "open" /\ Download!Looping /\ Download!OnCaller /\ started' = started /\ cancelled' = cancelled
  BY DEF Download!Redirect
<1>2. redirects' = redirects + 1 /\ redirects' \in 0 .. MaxRedirects + 1
  <2>1. redirects <= MaxRedirects /\ redirects \in Nat /\ MaxRedirects \in Nat
    BY <1>1, DownloadSizes DEF DownloadInv, Transfer, Download!TypeOK
  <2>2. redirects' = redirects + 1
    BY DEF Download!Redirect
  <2> QED
    BY <2>1, <2>2
<1>2a. started /\ cancelled \in BOOLEAN /\ body \in Seq(Chunks)
  BY <1>1 DEF DownloadInv, Transfer, Download!TypeOK
<1>3. CASE \E message \in Download!Errors : Download!Aborts(message) /\ UNCHANGED body
  <2>1. PICK message \in Download!Errors : Download!Aborts(message) /\ UNCHANGED body
    BY <1>3
  <2> QED
    BY <1>1, <1>2, <1>2a, <2>1, AbortHolds
<1>4. CASE /\ redirects' <= MaxRedirects
           /\ data' = <<>> /\ Download!Requests
           /\ UNCHANGED <<quit, Download!verdict>>
  <2>1. Download!TypeOK'
    BY <1>1, <1>2, <1>2a, <1>4, DownloadSizes DEF DownloadInv, Transfer, Download!TypeOK, Download!verdict, Download!OnCaller, Download!Requests
  <2>2. data' \o unread' = body'
    BY <1>4 DEF Download!Requests
  <2>3. Transfer'
    BY <1>1, <1>2, <1>2a, <1>4, <2>2 DEF DownloadInv, Transfer, Download!TypeOK, Download!verdict
  <2>4. Outcome'
    BY <1>1, <1>4 DEF DownloadInv, Outcome, Download!Looping, Download!Stages, Download!verdict, Download!OnCaller
  <2> QED
    BY <2>1, <2>3, <2>4 DEF DownloadInv
<1> QED
  BY <1>3, <1>4 DEF Download!Redirect, Download!Cleared, Download!Errors

LEMMA ReplyEndKeeps ==
  ASSUME PartsAssumption, DownloadInv, Download!ReplyEnds
  PROVE  DownloadInv'
<1>1. /\ reply = "open" /\ Download!OnCaller /\ UNCHANGED <<started, redirects, body, cancelled>> /\ Download!Looping
      /\ ~finished /\ started /\ data \o unread = body /\ error \in Download!Errors
      /\ redirects \in 0 .. MaxRedirects + 1 /\ cancelled \in BOOLEAN
      /\ data \in Seq(Chunks) /\ unread \in Seq(Chunks) /\ body \in Seq(Chunks)
  BY DEF Download!ReplyEnds, DownloadInv, Download!TypeOK, Transfer
<1>2. CASE data \o unread = <<>>
  <2>1. Download!Aborts("empty") /\ "empty" \in Download!Errors
    BY <1>2 DEF Download!ReplyEnds, Download!Errors
  <2> QED
    BY <1>1, <2>1, AbortHolds
<1>3. CASE data \o unread # <<>>
  <2>1. /\ data' = data \o unread /\ unread' = <<>>
        /\ reply' = "none" /\ timeout' = FALSE
        /\ finished' = TRUE /\ success' = TRUE
        /\ error' \in Download!Errors
        /\ emitted' = emitted + 1 /\ quit' = TRUE
    BY <1>1, <1>3 DEF Download!ReplyEnds, Download!Emits, Download!Errors
  <2>2. Download!TypeOK'
    BY <1>1, <2>1, DownloadSizes DEF DownloadInv, Download!TypeOK, Download!OnCaller
  <2>3. Transfer'
    BY <1>1, <2>1 DEF DownloadInv, Transfer, Download!OnCaller
  <2>4. Outcome'
    BY <1>1, <2>1 DEF DownloadInv, Outcome, Download!OnCaller, Download!Looping, Download!Stages
  <2> QED
    BY <2>2, <2>3, <2>4 DEF DownloadInv
<1> QED
  BY <1>2, <1>3

LEMMA TimesOutKeeps ==
  ASSUME PartsAssumption, DownloadInv, Download!TimesOut
  PROVE  DownloadInv'
<1>1. /\ ~finished /\ Download!OnCaller /\ UNCHANGED <<started, redirects, body, cancelled>> /\ Download!Looping
      /\ redirects \in 0 .. MaxRedirects + 1 /\ cancelled \in BOOLEAN
      /\ data \in Seq(Chunks) /\ unread \in Seq(Chunks) /\ body \in Seq(Chunks)
      /\ "timed out" \in Download!Errors
  BY DEF Download!TimesOut, DownloadInv, Download!TypeOK, Download!Errors
<1>2. CASE reply = "open"
  <2>1. Download!Aborts("timed out")
    BY <1>2 DEF Download!TimesOut
  <2> QED
    BY <1>1, <1>2, <2>1, AbortHolds
<1>3. CASE reply # "open"
  <2>1. Download!FailsWith("timed out") /\ data' = data /\ unread' = unread
    BY <1>3 DEF Download!TimesOut
  <2>2. ~started => data' = <<>> /\ unread' = <<>> /\ redirects' = 0
    BY <1>1, <2>1 DEF DownloadInv, Transfer
  <2> QED
    BY <1>1, <2>1, <2>2, FailureHolds
<1> QED
  BY <1>2, <1>3

LEMMA CancelKeeps ==
  ASSUME PartsAssumption, DownloadInv, Download!Cancel
  PROVE  DownloadInv'
<1>1. /\ Download!OnCaller /\ UNCHANGED <<started, redirects, body>> /\ Download!Looping
      /\ redirects \in 0 .. MaxRedirects + 1 /\ cancelled' = (cancelled \/ ~finished) /\ cancelled' \in BOOLEAN
      /\ data \in Seq(Chunks) /\ unread \in Seq(Chunks) /\ body \in Seq(Chunks)
      /\ finished \in BOOLEAN
      /\ Download!Stops("cancelled") /\ "cancelled" \in Download!Errors
  BY DEF Download!Cancel, DownloadInv, Download!TypeOK, Download!Errors
<1>2. CASE finished
  <2>1. UNCHANGED <<data, unread, reply, timeout, quit, Download!verdict>>
    BY <1>1, <1>2 DEF Download!Stops, Download!Pending
  <2>2. cancelled' = cancelled
    BY <1>1, <1>2 DEF DownloadInv, Download!TypeOK
  <2> QED
    BY <1>1, <2>1, <2>2 DEF DownloadInv, Download!TypeOK, Transfer, Outcome, Download!Looping, Download!OnCaller,
      Download!verdict
<1>3. CASE ~finished /\ reply = "open"
  <2>1. Download!Aborts("cancelled")
    BY <1>1, <1>3 DEF Download!Stops, Download!Pending
  <2> QED
    BY <1>1, <1>3, <2>1, AbortHolds
<1>4. CASE ~finished /\ reply # "open"
  <2>1. Download!FailsWith("cancelled") /\ data' = data /\ unread' = unread
    BY <1>1, <1>4 DEF Download!Stops, Download!Pending
  <2>2. ~started => data' = <<>> /\ unread' = <<>> /\ redirects' = 0
    BY <1>1, <2>1 DEF DownloadInv, Transfer
  <2> QED
    BY <1>1, <1>4, <2>1, <2>2, FailureHolds
<1> QED
  BY <1>1, <1>2, <1>3, <1>4

LEMMA FirmwareIsHere ==
  ASSUME PartsAssumption, DownloadInv, Download!FirmwareHere
  PROVE  DownloadInv'
<1>1. /\ caller = "firmware" /\ cancelled' = cancelled /\ cancelled \in BOOLEAN /\ data \in Seq(Chunks)
      /\ Limit \in Nat
  BY DownloadSizes DEF Download!FirmwareHere, DownloadInv, Download!TypeOK
<1>2. CASE timer /\ success /\ Download!SizeOk
  <2>1. contents' = data /\ caller' = "checksum" /\ timer' = TRUE /\ quit' = FALSE /\ Download!Fresh
    BY <1>2 DEF Download!FirmwareHere
  <2>2. Len(data) \in 1 .. Limit
    BY <1>1, <1>2, EmptySeq DEF Download!SizeOk
  <2>3. ~cancelled'
    BY <1>1, <1>2 DEF DownloadInv, Outcome, Download!Looping, Download!Stages
  <2> QED
    BY <1>1, <2>1, <2>2, <2>3, FreshHolds DEF Download!Stages
<1>3. CASE ~(timer /\ success /\ Download!SizeOk)
  <2>1. caller' = "message" /\ UNCHANGED <<contents, timer, quit, Download!transfer, Download!verdict>>
    BY <1>3 DEF Download!FirmwareHere
  <2>2. Download!TypeOK'
    BY <1>1, <2>1 DEF DownloadInv, Download!TypeOK, Download!transfer, Download!verdict
  <2> QED
    BY <1>1, <2>1, <2>2 DEF DownloadInv, Transfer, Outcome, Download!Looping, Download!Stages,
      Download!transfer, Download!verdict
<1> QED
  BY <1>2, <1>3

LEMMA ChecksumIsHere ==
  ASSUME PartsAssumption, DownloadInv, Download!ChecksumHere
  PROVE  DownloadInv'
<1>1. /\ caller = "checksum" /\ caller' \in {"install", "message"}
      /\ UNCHANGED <<contents, timer, quit, Download!transfer, Download!verdict, cancelled>>
      /\ caller' = "install" => success /\ contents = Release
  BY DEF Download!ChecksumHere, Download!VerifyReleaseChecksum
<1>2. Download!TypeOK'
  BY <1>1 DEF DownloadInv, Download!TypeOK, Download!transfer, Download!verdict
<1>3. Transfer'
  BY <1>1 DEF DownloadInv, Transfer, Download!transfer, Download!verdict
<1>4. Outcome'
  BY <1>1 DEF DownloadInv, Outcome, Download!Looping, Download!Stages, Download!transfer, Download!verdict
<1> QED
  BY <1>2, <1>3, <1>4 DEF DownloadInv

LEMMA TimerFiresKeeps ==
  ASSUME PartsAssumption, DownloadInv, Download!TimerFires
  PROVE  DownloadInv'
<1> USE DEF Download!TimerFires, Download!transfer, Download!verdict
<1>1. Download!TypeOK'
  BY DEF DownloadInv, Download!TypeOK
<1>2. Transfer'
  BY DEF DownloadInv, Transfer
<1>3. Outcome'
  BY DEF DownloadInv, Outcome, Download!Looping
<1> QED
  BY <1>1, <1>2, <1>3 DEF DownloadInv

LEMMA DoneKeeps ==
  ASSUME PartsAssumption, DownloadInv, Download!Done
  PROVE  DownloadInv'
<1> USE DEF Download!Done, Download!transfer, Download!verdict
<1>1. Download!TypeOK'
  BY DEF DownloadInv, Download!TypeOK
<1>2. Transfer'
  BY DEF DownloadInv, Transfer
<1>3. Outcome'
  BY DEF DownloadInv, Outcome, Download!Looping, Download!Stages
<1> QED
  BY <1>1, <1>2, <1>3 DEF DownloadInv

LEMMA DownloadKeeps ==
  ASSUME PartsAssumption, DownloadInv, Download!Next
  PROVE  DownloadInv'
BY DownloadBegins, DownloadStarts, ChunkArrives, HeadersKeep, FailureKeeps, RedirectKeeps, ReplyEndKeeps,
   TimesOutKeeps, CancelKeeps, TimerFiresKeeps, FirmwareIsHere, ChecksumIsHere, DoneKeeps
   DEF Download!Next, Download!Network, Download!Timers, Download!Loop

LEMMA DownloadStutters ==
  ASSUME DownloadInv, UNCHANGED downloadVars
  PROVE  DownloadInv'
BY DEF DownloadInv, Transfer, Outcome, Download!TypeOK, Download!Looping, Download!Stages, downloadVars

\* What the invariant says of the four properties of the download.
LEMMA DownloadSays ==
  ASSUME DownloadInv
  PROVE  InstallsRelease
BY DEF DownloadInv, Transfer, Outcome, Download!TypeOK, InstallsRelease, Download!QuitsOnce, Download!ResultIsOneBody, Download!KeptWithinLimit,
  Download!InstallsRelease

-----------------------------------------------------------------------------
(***************************************************************************)
(* The frame counter.                                                      *)
(***************************************************************************)

TimerParsers == [used : 0 .. CommandLength - 1, received : 0 .. FrameLength - 1,
            idle_ms : 0 .. PAYLOAD_TIMEOUT_MS - 1, writing : BOOLEAN, failed : BOOLEAN]

\* Between the bytes of a command or a payload the counter has not turned since
\* the last iteration, what was counted is below the limit, and nothing has
\* failed.
TimerInv ==
  /\ Timer!TypeOK /\ (parser.writing => parser.used = 0)
  /\ ~Timer!Idle(parser) =>
       /\ parser.idle_ms < Timer!IdleLimit(parser) /\ ~parser.failed
       /\ Timer!Elapsed <= Watchdog /\ parser.idle_ms + Timer!Elapsed = quiet

LEMMA TurnOfTheCounter ==
  ASSUME NEW m \in Nat \ {0}, NEW f \in 0 .. m - 1, NEW d \in Nat
  PROVE  (f + d) % m \in 0 .. m - 1
OBVIOUS

LEMMA GapOfTheCounter ==
  ASSUME NEW m \in Nat \ {0}, NEW f \in 0 .. m - 1, NEW d \in 0 .. m - 1
  PROVE  (((f + d) % m) - f) % m = d
<1>1. CASE f + d < m
  <2>1. (f + d) % m = f + d
    BY <1>1
  <2> QED
    BY <2>1
<1>2. CASE f + d >= m
  <2>1. (f + d) % m = f + d - m
    BY <1>2
  <2>2. ((f + d) % m) - f = d - m
    BY <2>1
  <2>3. (d - m) % m = d
    OBVIOUS
  <2> QED
    BY <2>2, <2>3
<1> QED
  BY <1>1, <1>2

LEMMA TimerSizes ==
  ASSUME Timer!TimerAssumption
  PROVE  /\ FrameMod \in Nat \ {0} /\ COMMAND_TIMEOUT_MS \in Nat \ {0} /\ PAYLOAD_TIMEOUT_MS \in Nat \ {0}
         /\ Watchdog \in Nat \ {0} /\ LongestJob \in Nat \ {0} /\ CommandLength \in Nat \ {0}
         /\ FrameLength \in Nat \ {0} /\ COMMAND_TIMEOUT_MS < PAYLOAD_TIMEOUT_MS
         /\ Watchdog < FrameMod
BY DEF Timer!TimerAssumption

LEMMA ResetType ==
  ASSUME Timer!TimerAssumption, NEW b \in BOOLEAN
  PROVE  /\ Timer!Reset \in TimerParsers /\ Timer!Idle(Timer!Reset)
         /\ [Timer!Reset EXCEPT !.failed = b] \in TimerParsers /\ Timer!Idle([Timer!Reset EXCEPT !.failed = b])
         /\ [Timer!Reset EXCEPT !.failed = b].writing = FALSE
<1>1. Timer!Reset \in TimerParsers
  <2>1. 0 \in 0 .. CommandLength - 1 /\ 0 \in 0 .. FrameLength - 1 /\ 0 \in 0 .. PAYLOAD_TIMEOUT_MS - 1
    BY TimerSizes
  <2> QED
    BY <2>1 DEF Timer!Reset, TimerParsers
<1>2. Timer!Reset.used = 0 /\ Timer!Reset.writing = FALSE
  BY DEF Timer!Reset
<1>3. /\ [Timer!Reset EXCEPT !.failed = b] \in TimerParsers /\ [Timer!Reset EXCEPT !.failed = b].used = Timer!Reset.used
      /\ [Timer!Reset EXCEPT !.failed = b].writing = Timer!Reset.writing
  BY <1>1 DEF TimerParsers
<1> QED
  BY <1>1, <1>2, <1>3 DEF Timer!Idle

LEMMA LimitType ==
  ASSUME Timer!TimerAssumption, NEW p
  PROVE  Timer!IdleLimit(p) \in 1 .. PAYLOAD_TIMEOUT_MS
BY TimerSizes DEF Timer!IdleLimit

\* What a tick makes of the parser.
LEMMA TickType ==
  ASSUME Timer!TimerAssumption, NEW p \in TimerParsers, NEW ms \in Nat, ~Timer!Idle(p) => ~p.failed /\ p.idle_ms < Timer!IdleLimit(p)
  PROVE  /\ Timer!protocol_tick(p, ms) \in TimerParsers
         /\ (p.writing => p.used = 0) => (Timer!protocol_tick(p, ms).writing => Timer!protocol_tick(p, ms).used = 0)
         /\ ~Timer!Idle(Timer!protocol_tick(p, ms)) =>
              /\ ~Timer!Idle(p) /\ ~Timer!protocol_tick(p, ms).failed
              /\ Timer!protocol_tick(p, ms).idle_ms = p.idle_ms + ms
              /\ Timer!IdleLimit(Timer!protocol_tick(p, ms)) = Timer!IdleLimit(p) /\ p.idle_ms + ms < Timer!IdleLimit(p)
         /\ ~Timer!Idle(p) => (Timer!Idle(Timer!protocol_tick(p, ms)) <=> p.idle_ms + ms >= Timer!IdleLimit(p))
<1>1. p.idle_ms \in Nat /\ Timer!IdleLimit(p) \in 1 .. PAYLOAD_TIMEOUT_MS /\ PAYLOAD_TIMEOUT_MS \in Nat /\ p.writing \in BOOLEAN
  BY LimitType, TimerSizes DEF TimerParsers
<1>2. CASE Timer!Idle(p)
  <2>1. Timer!protocol_tick(p, ms) = p
    BY <1>2 DEF Timer!protocol_tick
  <2> QED
    BY <1>2, <2>1
<1>3. CASE ~Timer!Idle(p) /\ Timer!Expired(p, ms)
  <2>1. Timer!protocol_tick(p, ms) = [Timer!Reset EXCEPT !.failed = p.writing]
    BY <1>3 DEF Timer!protocol_tick
  <2>2. p.idle_ms + ms >= Timer!IdleLimit(p)
    BY <1>1, <1>3 DEF Timer!Expired
  <2>3. /\ Timer!protocol_tick(p, ms) \in TimerParsers /\ Timer!Idle(Timer!protocol_tick(p, ms))
        /\ Timer!protocol_tick(p, ms).writing = FALSE
    BY <1>1, <2>1, ResetType
  <2> QED
    BY <1>3, <2>2, <2>3
<1>4. CASE ~Timer!Idle(p) /\ ~Timer!Expired(p, ms)
  <2>1. Timer!protocol_tick(p, ms) = [p EXCEPT !.idle_ms = @ + ms]
    BY <1>4 DEF Timer!protocol_tick
  <2>2. p.idle_ms + ms < Timer!IdleLimit(p) /\ p.idle_ms + ms \in 0 .. PAYLOAD_TIMEOUT_MS - 1
    BY <1>1, <1>4 DEF Timer!Expired
  <2>3. /\ Timer!protocol_tick(p, ms) \in TimerParsers /\ Timer!protocol_tick(p, ms).used = p.used
        /\ Timer!protocol_tick(p, ms).writing = p.writing /\ Timer!protocol_tick(p, ms).failed = p.failed
        /\ Timer!protocol_tick(p, ms).idle_ms = p.idle_ms + ms
    BY <2>1, <2>2 DEF TimerParsers
  <2>4. Timer!IdleLimit(Timer!protocol_tick(p, ms)) = Timer!IdleLimit(p) /\ ~Timer!Idle(Timer!protocol_tick(p, ms))
    BY <1>4, <2>3 DEF Timer!IdleLimit, Timer!Idle
  <2> QED
    BY <1>1, <1>4, <2>2, <2>3, <2>4
<1> QED
  BY <1>2, <1>3, <1>4

\* What a byte makes of the parser: after a flash operation it is idle, and
\* otherwise it counts from the byte on.
LEMMA FeedType ==
  ASSUME Timer!TimerAssumption, NEW p \in TimerParsers, ~Timer!Idle(p) => ~p.failed, p.writing => p.used = 0,
         NEW fed \in Timer!protocol_feed(p)
  PROVE  /\ fed.parser \in TimerParsers /\ (fed.parser.writing => fed.parser.used = 0)
         /\ ~Timer!Idle(fed.parser) => ~fed.long /\ ~p.failed /\ ~fed.parser.failed /\ fed.parser.idle_ms = 0
<1> DEFINE q == Timer!Restarted(p)
<1>1. /\ q \in TimerParsers /\ q.idle_ms = 0 /\ q.failed = p.failed /\ q.writing = p.writing
      /\ q.used = p.used /\ q.received = p.received
  <2>1. 0 \in 0 .. PAYLOAD_TIMEOUT_MS - 1
    BY TimerSizes
  <2> QED
    BY <2>1 DEF Timer!Restarted, TimerParsers
<1>2. p.failed \in BOOLEAN /\ p.used \in Nat /\ p.received \in Nat /\ p.writing \in BOOLEAN
  BY DEF TimerParsers
<1>3. 0 \in 0 .. CommandLength - 1 /\ 0 \in 0 .. FrameLength - 1
      /\ CommandLength \in Nat /\ FrameLength \in Nat
  BY TimerSizes
<1>4. CASE p.failed
  <2>1. fed = [parser |-> p, long |-> FALSE]
    BY <1>4 DEF Timer!protocol_feed
  <2>2. fed.parser = p /\ Timer!Idle(p)
    BY <1>4, <2>1
  <2> QED
    BY <2>2
<1>5. CASE ~p.failed /\ p.writing
  <2>1. CASE p.received + 1 < FrameLength
    <3>1. fed = [parser |-> [q EXCEPT !.received = @ + 1], long |-> FALSE]
      BY <1>5, <2>1 DEF Timer!protocol_feed
    <3>2. p.received + 1 \in 0 .. FrameLength - 1
      BY <1>2, <1>3, <2>1
    <3> HIDE DEF q
    <3>3. /\ fed.parser \in TimerParsers /\ fed.parser.idle_ms = 0 /\ fed.parser.failed = p.failed
          /\ fed.parser.used = p.used /\ fed.long = FALSE
      BY <1>1, <3>1, <3>2 DEF TimerParsers
    <3> QED
      BY <1>5, <3>3
  <2>2. CASE ~(p.received + 1 < FrameLength)
    <3>1. PICK run \in BOOLEAN :
            fed = [parser |-> [q EXCEPT !.received = 0, !.writing = FALSE], long |-> run]
      BY <1>5, <2>2 DEF Timer!protocol_feed
    <3>2. fed.parser = [q EXCEPT !.received = 0, !.writing = FALSE]
      BY <3>1
    <3> HIDE DEF q
    <3>3. fed.parser \in TimerParsers /\ fed.parser.used = p.used /\ fed.parser.writing = FALSE
      BY <1>1, <1>3, <3>2 DEF TimerParsers
    <3> QED
      BY <1>5, <3>3 DEF Timer!Idle
  <2> QED
    BY <2>1, <2>2
<1>6. CASE ~p.failed /\ ~p.writing
  <2>1. CASE p.used + 1 < CommandLength
    <3>1. \/ fed = [parser |-> [q EXCEPT !.used = @ + 1], long |-> FALSE]
          \/ fed = [parser |-> q, long |-> FALSE]
      BY <1>6, <2>1 DEF Timer!protocol_feed
    <3>2. p.used + 1 \in 0 .. CommandLength - 1
      BY <1>2, <1>3, <2>1
    <3> HIDE DEF q
    <3>3. fed.long = FALSE /\ fed.parser \in {[q EXCEPT !.used = @ + 1], q}
      BY <3>1
    <3>4. /\ fed.parser \in TimerParsers /\ fed.parser.idle_ms = 0 /\ fed.parser.failed = p.failed
          /\ fed.parser.writing = p.writing
      BY <1>1, <3>2, <3>3 DEF TimerParsers
    <3> QED
      BY <1>6, <3>3, <3>4
  <2>2. CASE ~(p.used + 1 < CommandLength)
    <3>1. \/ \E run \in BOOLEAN : fed = [parser |-> [q EXCEPT !.used = 0], long |-> run]
          \/ fed = [parser |-> [q EXCEPT !.used = 0, !.received = 0, !.writing = TRUE], long |-> FALSE]
      BY <1>6, <2>2 DEF Timer!protocol_feed
    <3> HIDE DEF q
    <3>2. CASE \E run \in BOOLEAN : fed = [parser |-> [q EXCEPT !.used = 0], long |-> run]
      <4>1. fed.parser = [q EXCEPT !.used = 0]
        BY <3>2
      <4>2. fed.parser \in TimerParsers /\ fed.parser.used = 0 /\ fed.parser.writing = p.writing
        BY <1>1, <1>3, <4>1 DEF TimerParsers
      <4> QED
        BY <1>6, <4>2 DEF Timer!Idle
    <3>3. CASE fed = [parser |-> [q EXCEPT !.used = 0, !.received = 0, !.writing = TRUE], long |-> FALSE]
      <4>1. fed.parser = [q EXCEPT !.used = 0, !.received = 0, !.writing = TRUE] /\ fed.long = FALSE
        BY <3>3
      <4>2. /\ fed.parser \in TimerParsers /\ fed.parser.used = 0 /\ fed.parser.idle_ms = 0
            /\ fed.parser.failed = p.failed
        BY <1>1, <1>3, <4>1 DEF TimerParsers
      <4> QED
        BY <1>6, <4>1, <4>2
    <3> QED
      BY <3>1, <3>2, <3>3
  <2> QED
    BY <2>1, <2>2
<1> QED
  BY <1>2, <1>4, <1>5, <1>6

LEMMA TimerInit ==
  ASSUME Timer!TimerAssumption, Timer!Init
  PROVE  TimerInv
<1>1. parser \in TimerParsers /\ Timer!Idle(parser) /\ parser.writing = FALSE
  BY ResetType DEF Timer!Init, Timer!Reset
<1>2. frame \in 0 .. FrameMod - 1 /\ last_frame \in 0 .. FrameMod - 1 /\ quiet \in Nat
  BY TimerSizes DEF Timer!Init
<1>3. ready \in BOOLEAN
  BY DEF Timer!Init
<1> QED
  BY <1>1, <1>2, <1>3 DEF TimerInv, Timer!TypeOK, TimerParsers

\* Time passes after a step that leaves the parser idle, or for no longer than
\* the watchdog allows.
LEMMA PassingKeeps ==
  ASSUME Timer!TimerAssumption, TimerInv, last_frame' = frame, ready' \in BOOLEAN, parser' \in TimerParsers,
         parser'.writing => parser'.used = 0,
         NEW d \in Nat, NEW before \in Nat, Timer!Passes(d, before),
         ~Timer!Idle(parser') => /\ parser'.idle_ms < Timer!IdleLimit(parser') /\ ~parser'.failed
                           /\ d <= Watchdog /\ parser'.idle_ms = before
  PROVE  TimerInv'
<1>1. frame \in 0 .. FrameMod - 1 /\ FrameMod \in Nat \ {0} /\ Watchdog \in Nat /\ Watchdog < FrameMod
  BY TimerSizes DEF TimerInv, Timer!TypeOK
<1>2. frame' = (frame + d) % FrameMod /\ frame' \in 0 .. FrameMod - 1
  BY <1>1, TurnOfTheCounter DEF Timer!Passes
<1>3. quiet' = IF Timer!Idle(parser') THEN 0 ELSE before + d
  BY DEF Timer!Passes
<1>4. quiet' \in Nat
  BY <1>3
<1>5. Timer!TypeOK'
  BY <1>1, <1>2, <1>4 DEF Timer!TypeOK, TimerParsers
<1>6. ASSUME ~Timer!Idle(parser')
      PROVE  Timer!Elapsed' <= Watchdog /\ parser'.idle_ms + Timer!Elapsed' = quiet'
  <2>1. d \in 0 .. FrameMod - 1
    BY <1>1, <1>6
  <2>2. (((frame + d) % FrameMod) - frame) % FrameMod = d
    BY <1>1, <2>1, GapOfTheCounter
  <2>3. Timer!Elapsed' = d
    BY <1>2, <2>2 DEF Timer!Elapsed
  <2> QED
    BY <1>3, <1>6, <2>3
<1> QED
  BY <1>5, <1>6 DEF TimerInv, Timer!Idle, Timer!IdleLimit

LEMMA IterateKeeps ==
  ASSUME Timer!TimerAssumption, TimerInv, Timer!Iterate
  PROVE  TimerInv'
<1> DEFINE ticked == Timer!protocol_tick(parser, Timer!Elapsed)
<1>1. /\ parser \in TimerParsers /\ frame \in 0 .. FrameMod - 1 /\ last_frame \in 0 .. FrameMod - 1
      /\ ready \in BOOLEAN /\ quiet \in Nat
  BY DEF TimerInv, Timer!TypeOK, TimerParsers
<1>2. FrameMod \in Nat \ {0} /\ Watchdog \in Nat /\ LongestJob \in Nat
  BY TimerSizes
<1>3. Timer!Elapsed \in Nat
  BY <1>1, <1>2 DEF Timer!Elapsed
<1>4. /\ ticked \in TimerParsers /\ (ticked.writing => ticked.used = 0)
      /\ ~Timer!Idle(ticked) => /\ ~Timer!Idle(parser) /\ ~ticked.failed /\ ticked.idle_ms = parser.idle_ms + Timer!Elapsed
                          /\ Timer!IdleLimit(ticked) = Timer!IdleLimit(parser) /\ parser.idle_ms + Timer!Elapsed < Timer!IdleLimit(parser)
  BY <1>1, <1>3, TickType DEF TimerInv
<1>5. last_frame' = frame /\ ready' = ready
  BY DEF Timer!Iterate
<1>6. CASE ~ready /\ parser' = Timer!Reset /\ \E d \in 1 .. Watchdog : Timer!Passes(d, 0)
  <2>1. PICK d \in 1 .. Watchdog : Timer!Passes(d, 0)
    BY <1>6
  <2>2. parser' \in TimerParsers /\ Timer!Idle(parser') /\ parser'.writing = FALSE
    BY <1>6, ResetType DEF Timer!Reset
  <2> QED
    BY <1>1, <1>2, <1>5, <2>1, <2>2, PassingKeeps
<1>7. CASE ready /\ parser' = ticked /\ \E d \in 1 .. Watchdog : Timer!Passes(d, quiet)
  <2>1. PICK d \in 1 .. Watchdog : Timer!Passes(d, quiet)
    BY <1>7
  <2> HIDE DEF ticked
  <2>2. ~Timer!Idle(parser') => /\ parser'.idle_ms < Timer!IdleLimit(parser') /\ ~parser'.failed
                          /\ parser'.idle_ms = quiet
    BY <1>4, <1>7 DEF TimerInv
  <2> QED
    BY <1>1, <1>2, <1>4, <1>5, <1>7, <2>1, <2>2, PassingKeeps
<1>8. ASSUME NEW fed \in Timer!protocol_feed(ticked), parser' = fed.parser,
             NEW d \in 1 .. (IF fed.long THEN LongestJob ELSE Watchdog),
             Timer!Passes(d, IF ticked.failed THEN quiet ELSE 0)
      PROVE  TimerInv'
  <2> HIDE DEF ticked
  <2>1. /\ fed.parser \in TimerParsers /\ (fed.parser.writing => fed.parser.used = 0)
        /\ ~Timer!Idle(fed.parser) => ~fed.long /\ ~ticked.failed /\ ~fed.parser.failed /\ fed.parser.idle_ms = 0
    BY <1>4, FeedType
  <2>2. d \in Nat /\ (~fed.long => d <= Watchdog)
    BY <1>2
  <2>3. (IF ticked.failed THEN quiet ELSE 0) \in Nat
    BY <1>1
  <2>4. 0 < Timer!IdleLimit(parser')
    BY LimitType
  <2>5. ~Timer!Idle(parser') => /\ parser'.idle_ms < Timer!IdleLimit(parser') /\ ~parser'.failed /\ d <= Watchdog
                          /\ parser'.idle_ms = IF ticked.failed THEN quiet ELSE 0
    BY <1>8, <2>1, <2>2, <2>4
  <2> QED
    BY <1>1, <1>5, <1>8, <2>1, <2>2, <2>3, <2>5, PassingKeeps
<1> QED
  BY <1>6, <1>7, <1>8 DEF Timer!Iterate

LEMMA LineKeeps ==
  ASSUME Timer!TimerAssumption, TimerInv, Timer!Line
  PROVE  TimerInv'
<1>1. ready' \in BOOLEAN /\ last_frame' = last_frame
  BY DEF Timer!Line
<1>2. CASE UNCHANGED <<frame, parser, quiet>>
  BY <1>1, <1>2 DEF TimerInv, Timer!TypeOK, Timer!Idle, Timer!IdleLimit, Timer!Elapsed
<1>3. CASE frame' \in 0 .. FrameMod - 1 /\ parser' = Timer!Reset /\ quiet' = 0
  <2>1. parser' \in TimerParsers /\ Timer!Idle(parser') /\ parser'.writing = FALSE
    BY <1>3, ResetType DEF Timer!Reset
  <2>2. last_frame' \in 0 .. FrameMod - 1
    BY <1>1 DEF TimerInv, Timer!TypeOK
  <2> QED
    BY <1>1, <1>3, <2>1, <2>2 DEF TimerInv, Timer!TypeOK, TimerParsers
<1> QED
  BY <1>2, <1>3 DEF Timer!Line


LEMMA TimerKeeps ==
  ASSUME Timer!TimerAssumption, TimerInv, Timer!Next
  PROVE  TimerInv'
BY IterateKeeps, LineKeeps DEF Timer!Next

LEMMA TimerStutters ==
  ASSUME TimerInv, UNCHANGED timerVars
  PROVE  TimerInv'
BY DEF TimerInv, Timer!TypeOK, Timer!Idle, Timer!IdleLimit, Timer!Elapsed, timerVars

\* What the invariant says of the three properties of the timer.
LEMMA TimerSays ==
  ASSUME Timer!TimerAssumption, TimerInv
  PROVE  ExpiresOnTime
<1>1. /\ parser \in TimerParsers /\ frame \in 0 .. FrameMod - 1 /\ last_frame \in 0 .. FrameMod - 1
      /\ FrameMod \in Nat \ {0} /\ Watchdog \in Nat /\ Timer!IdleLimit(parser) \in Nat
  BY TimerSizes, LimitType DEF TimerInv, Timer!TypeOK, TimerParsers
<1>2. Timer!Elapsed \in Nat /\ parser.idle_ms \in Nat
  BY <1>1 DEF Timer!Elapsed, TimerParsers
<1>3. Timer!CountsTheTime
  BY DEF TimerInv, Timer!CountsTheTime
<1>4. Timer!ExpiresOnTime
  <2>1. ~Timer!Idle(parser) =>
          (Timer!Idle(Timer!protocol_tick(parser, Timer!Elapsed)) <=> parser.idle_ms + Timer!Elapsed >= Timer!IdleLimit(parser))
    BY <1>1, <1>2, TickType DEF TimerInv
  <2> QED
    BY <2>1 DEF TimerInv, Timer!ExpiresOnTime
<1>5. Timer!NeverLate
  BY <1>1, <1>2 DEF TimerInv, Timer!NeverLate
<1> QED
  BY <1>3, <1>4, <1>5 DEF ExpiresOnTime
-----------------------------------------------------------------------------
(***************************************************************************)
(* The data view and the files.                                            *)
(***************************************************************************)

\* A list of recent files: each once, by its clean path, and not too many.
ListOK(list) ==
  /\ list \in Seq(Files) /\ Len(list) <= MaxRecent
  /\ \A i, j \in 1 .. Len(list) : list[i] = list[j] => i = j

InList(f, list) == \E i \in 1 .. Len(list) : list[i] = f

\* The lists in the settings: what sync() has not written yet was only removed, except
\* for the file just opened.
ListsOK ==
  /\ ListOK(recent) /\ ListOK(stored) /\ ListOK(menu)
  /\ gui.in # "sync" => menu = recent
  /\ \A f \in Files : InList(f, recent) =>
       InList(f, stored) \/ (gui.in = "sync" /\ f = View!CleanPath(gui.path))

\* The window waits for what it can wait for: a download is one of a ROM, a file
\* that is opened or warned of is a file, and what is saved is data.
Waits ==
  /\ gui.in = "download" => gui.path \in Roms
  /\ gui.in \in {"open", "sync", "warn"} => gui.path \in View!Paths
  /\ gui.in = "save" => gui.data \in View!Contents

ViewInv ==
  /\ View!TypeOK /\ ListsOK /\ Waits
  /\ View!ReloadsWhatIsShown /\ View!DownloadIsABank

LEMMA FileNames ==
  ASSUME PartsAssumption
  PROVE  /\ \A p \in View!Paths : View!CleanPath(p) \in Files
         /\ \A f \in Files : View!CleanPath(f) = f /\ f \in View!Paths
         /\ \A p \in View!Paths : p \notin Roms /\ p # "bank" /\ p # ""
         /\ "bank" \notin Roms /\ "" \notin Roms
         /\ Banks \subseteq View!Contents /\ "absent" \notin View!Contents
BY DEF PartsAssumption, View!FilesAssumption, View!Paths, View!CleanPath, View!Contents

LEMMA FileBounds ==
  ASSUME PartsAssumption
  PROVE  MaxRecent \in Nat \ {0} /\ MaxChanges \in Nat
BY DEF PartsAssumption, View!FilesAssumption

LEMMA SameFilter ==
  ASSUME NEW s, NEW drop
  PROVE  View!Without(s, drop) = Without(s, drop)
BY DEF View!Without, Without

\* What is left of a list of recent files without one of them.
LEMMA ListWithout ==
  ASSUME PartsAssumption, NEW list, ListOK(list), NEW f
  PROVE  /\ ListOK(View!Without(list, {f}))
         /\ ~InList(f, View!Without(list, {f}))
         /\ \A g : InList(g, View!Without(list, {f})) => InList(g, list)
         /\ \A g \in Files : InList(g, list) /\ g # f => InList(g, View!Without(list, {f}))
         /\ Len(View!Without(list, {f})) <= Len(list)
         /\ Len(View!Without(list, {f})) = Len(list) /\ Len(list) # 0 =>
              View!Without(list, {f})[Len(list)] = list[Len(list)]
<1> DEFINE w == Without(list, {f})
<1>1. list \in Seq(Files) /\ Len(list) \in Nat /\ Len(list) <= MaxRecent /\ MaxRecent \in Nat
  BY FileBounds, LenProperties DEF ListOK
<1>2. w \in Seq(Files) /\ Len(w) <= Len(list) /\ Len(w) \in Nat /\ \E e : Places(e, w, Len(list), list, {f})
  BY <1>1, WithoutPlaces, LenProperties
<1>3. PICK e : Places(e, w, Len(list), list, {f})
  BY <1>2
<1>4. View!Without(list, {f}) = w
  BY SameFilter
<1> HIDE DEF w
<1>5. \A i \in 1 .. Len(w) : w[i] = list[e[i]] /\ w[i] # f /\ e[i] \in 1 .. Len(list)
  BY <1>3 DEF Places
<1>6. ASSUME NEW i \in 1 .. Len(w), NEW j \in 1 .. Len(w), w[i] = w[j] PROVE i = j
  <2>1. e[i] = e[j]
    BY <1>5, <1>6 DEF ListOK
  <2>2. ~(i < j) /\ ~(j < i)
    BY <1>3, <1>5, <2>1 DEF Places
  <2> QED
    BY <1>2, <2>2
<1>7. ListOK(w)
  BY <1>1, <1>2, <1>6 DEF ListOK
<1>8. ~InList(f, w) /\ \A g : InList(g, w) => InList(g, list)
  BY <1>5 DEF InList
<1>9. ASSUME NEW g \in Files, InList(g, list), g # f PROVE InList(g, w)
  <2>1. PICK k \in 1 .. Len(list) : list[k] = g
    BY <1>9 DEF InList
  <2>2. PICK i \in 1 .. Len(w) : e[i] = k
    BY <1>3, <1>9, <2>1 DEF Places
  <2> QED
    BY <1>5, <2>1, <2>2 DEF InList
<1>10. Len(w) = Len(list) /\ Len(list) # 0 => w[Len(list)] = list[Len(list)]
  <2>1. SUFFICES ASSUME Len(w) = Len(list), Len(list) # 0 PROVE w[Len(list)] = list[Len(list)]
    OBVIOUS
  <2>2. Len(list) \in Nat \ {0}
    BY <1>1, <2>1
  <2> QED
    BY <1>3, <2>1, <2>2, LastPlace
<1> QED
  BY <1>2, <1>4, <1>7, <1>8, <1>9, <1>10

\* add_recent_file keeps the list, puts one file into it, and drops another, the last,
\* only for want of room.
LEMMA ListAdded ==
  ASSUME PartsAssumption, ListOK(recent), NEW path \in View!Paths
  PROVE  /\ ListOK(View!Trimmed(View!Added(path)))
         /\ \A f \in Files : InList(f, recent) /\ ~InList(f, View!Trimmed(View!Added(path)))
                => Len(View!Trimmed(View!Added(path))) = MaxRecent /\ f = recent[Len(recent)]
         /\ \A f \in Files : InList(f, View!Trimmed(View!Added(path)))
                => InList(f, recent) \/ f = View!CleanPath(path)
<1> DEFINE c == View!CleanPath(path)
           w == View!Without(recent, {c})
           a == <<c>> \o w
           n == IF Len(a) < MaxRecent THEN Len(a) ELSE MaxRecent
           q == SubSeq(a, 1, n)
<1>1. c \in Files /\ MaxRecent \in Nat \ {0}
  BY FileNames, FileBounds
<1>2. /\ ListOK(w) /\ ~InList(c, w) /\ \A g \in Files : InList(g, recent) /\ g # c => InList(g, w)
      /\ \A g : InList(g, w) => InList(g, recent)
      /\ Len(w) <= Len(recent) /\ (Len(w) = Len(recent) /\ Len(recent) # 0 => w[Len(recent)] = recent[Len(recent)])
  BY ListWithout
<1>3. View!Added(path) = a /\ View!Trimmed(View!Added(path)) = q
  BY DEF View!Added, View!Trimmed, View!FirstOf
<1> HIDE DEF w, c
<1>4. w \in Seq(Files) /\ Len(w) \in Nat
  BY <1>2 DEF ListOK
<1>5. /\ a \in Seq(Files) /\ Len(a) = Len(w) + 1 /\ a[1] = c
      /\ \A i \in 2 .. Len(a) : a[i] = w[i - 1] /\ i - 1 \in 1 .. Len(w)
  <2> DEFINE one == <<c>>
  <2>1. one \in Seq(Files) /\ Len(one) = 1 /\ one[1] = c
    BY <1>1
  <2>2. /\ one \o w \in Seq(Files) /\ Len(one \o w) = Len(one) + Len(w)
        /\ \A i \in 1 .. Len(one) + Len(w) : (one \o w)[i] = IF i <= Len(one) THEN one[i] ELSE w[i - Len(one)]
    BY <1>4, <2>1, ConcatProperties
  <2>3. a = one \o w
    OBVIOUS
  <2> HIDE DEF one, a
  <2> QED
    BY <1>4, <2>1, <2>2, <2>3
<1> HIDE DEF a
<1>6. ASSUME NEW i \in 1 .. Len(a), NEW j \in 1 .. Len(a), a[i] = a[j] PROVE i = j
  <2>1. CASE i = 1 /\ j # 1
    BY <1>2, <1>4, <1>5, <1>6, <2>1 DEF InList
  <2>2. CASE i # 1 /\ j = 1
    BY <1>2, <1>4, <1>5, <1>6, <2>2 DEF InList
  <2>3. CASE i # 1 /\ j # 1
    <3>1. i \in 2 .. Len(a) /\ j \in 2 .. Len(a)
      BY <2>3
    <3>2. w[i - 1] = w[j - 1] /\ i - 1 \in 1 .. Len(w) /\ j - 1 \in 1 .. Len(w)
      BY <1>5, <1>6, <3>1
    <3>3. i - 1 = j - 1
      BY <1>2, <3>2 DEF ListOK
    <3> QED
      BY <3>1, <3>3
  <2> QED
    BY <2>1, <2>2, <2>3
<1>7. n \in 1 .. Len(a) /\ n <= MaxRecent /\ Len(a) \in Nat
  BY <1>1, <1>4, <1>5
<1>7a. n = MaxRecent \/ n = Len(a)
  OBVIOUS
<1> HIDE DEF n
<1>8. q \in Seq(Files) /\ Len(q) = n /\ \A i \in 1 .. n : q[i] = a[i]
  <2>1. \A i \in 1 .. n : a[i] \in Files
    BY <1>5, <1>7, ElementOfSeq
  <2>2. /\ q \in Seq(Files) /\ Len(q) = IF 1 <= n THEN n - 1 + 1 ELSE 0
        /\ \A i \in 1 .. n - 1 + 1 : q[i] = a[1 + i - 1]
    BY <1>7, <2>1, SubSeqProperties
  <2> HIDE DEF q
  <2> QED
    BY <1>7, <2>2
<1> HIDE DEF q
<1>9. ListOK(q)
  BY <1>6, <1>7, <1>8 DEF ListOK
<1>10. ASSUME NEW f \in Files, InList(f, recent), ~InList(f, q)
       PROVE  n = MaxRecent /\ f = recent[Len(recent)]
  <2>1. f # c
    BY <1>5, <1>7, <1>8, <1>10 DEF InList
  <2>2. PICK i \in 1 .. Len(w) : w[i] = f
    BY <1>2, <1>10, <2>1 DEF InList
  <2>3. i + 1 \in 2 .. Len(a) /\ (i + 1) - 1 = i
    BY <1>4, <1>5
  <2>4. ~(i + 1 <= n)
    <3>1. SUFFICES ASSUME i + 1 <= n PROVE FALSE
      OBVIOUS
    <3>2. i + 1 \in 1 .. n /\ q[i + 1] = f
      BY <1>5, <1>7, <1>8, <2>2, <2>3, <3>1
    <3> QED
      BY <1>8, <1>10, <3>2 DEF InList
  <2>5. n = MaxRecent
    BY <1>5, <1>7, <1>7a, <2>3, <2>4
  <2>6. Len(recent) \in Nat /\ Len(recent) <= MaxRecent
    BY LenProperties DEF ListOK
  <2>7. i = Len(recent) /\ Len(w) = Len(recent) /\ Len(recent) # 0
    BY <1>1, <1>2, <1>4, <2>4, <2>5, <2>6
  <2> QED
    BY <1>2, <2>2, <2>5, <2>7
<1>11. ASSUME NEW f \in Files, InList(f, q) PROVE InList(f, recent) \/ f = c
  <2>1. PICK i \in 1 .. n : a[i] = f
    BY <1>8, <1>11 DEF InList
  <2>2. CASE i = 1
    BY <1>5, <2>1, <2>2
  <2>3. CASE i # 1
    <3>1. i \in 2 .. Len(a)
      BY <1>7, <2>3
    <3>2. InList(f, w)
      BY <1>5, <2>1, <3>1 DEF InList
    <3> QED
      BY <1>2, <3>2
  <2> QED
    BY <2>2, <2>3
<1> QED
  BY <1>3, <1>8, <1>9, <1>10, <1>11 DEF c

\* What a step says of the list of recent files (NeverForgotten).
Kept ==
  \A f \in Files :
    /\ InList(f, recent) /\ ~InList(f, recent') =>
         \/ disk[f] = "absent"
         \/ gui'.in = "sync" /\ Len(recent') = MaxRecent /\ f = recent[Len(recent)]
         \/ gui.in = "sync" /\ f = View!CleanPath(gui.path)
    /\ InList(f, recent') /\ ~InList(f, recent) =>
         \/ gui'.in = "sync" /\ f = View!CleanPath(gui.path)
         \/ InList(f, stored)

\* The state a step leaves, when it leaves the lists alone.
Typed ==
  /\ disk \in [Files -> View!Contents \cup {"absent"}]
  /\ view \in [data : View!Contents \cup {""}, name : View!Paths \cup Roms \cup {"bank", ""}]
  /\ current_filename \in View!Paths \cup {""}
  /\ reading \in BOOLEAN /\ changes \in 0 .. MaxChanges
  /\ gui \in [in   : {"idle", "open", "sync", "warn", "save", "download"},
              path : View!Paths \cup Roms \cup {""},
              how  : {"dialog", "menu", "reload", ""}, data : View!Contents \cup {""}]

LEMMA TypedIsTypeOK ==
  ASSUME ListsOK
  PROVE  View!TypeOK <=> Typed
BY DEF View!TypeOK, Typed, ListsOK, ListOK

LEMMA TypedNext ==
  ASSUME ListsOK', Typed'
  PROVE  View!TypeOK'
BY DEF View!TypeOK, Typed, ListsOK, ListOK

LEMMA ListsAlone ==
  ASSUME ListsOK, UNCHANGED View!lists, UNCHANGED gui \/ (gui.in # "sync" /\ gui'.in # "sync")
  PROVE  ListsOK' /\ Kept
<1>1. recent' = recent /\ stored' = stored /\ menu' = menu
  BY DEF View!lists
<1> QED
  BY <1>1 DEF ListsOK, ListOK, InList, Kept, View!CleanPath

LEMMA IdleIsTyped ==
  ASSUME PartsAssumption
  PROVE  /\ View!Idle \in [in   : {"idle", "open", "sync", "warn", "save", "download"},
                           path : View!Paths \cup Roms \cup {""},
                           how  : {"dialog", "menu", "reload", ""}, data : View!Contents \cup {""}]
         /\ View!Idle.in = "idle"
BY DEF View!Idle

LEMMA ViewInit ==
  ASSUME PartsAssumption, View!Init
  PROVE  ViewInv
<1>1. recent = <<>> /\ stored = <<>> /\ menu = <<>>
  BY DEF View!Init
<1>2. ListOK(<<>>)
  <2>1. <<>> \in Seq(Files) /\ Len(<<>>) = 0
    BY EmptySeq
  <2>2. 0 <= MaxRecent
    BY FileBounds
  <2> QED
    BY <2>1, <2>2 DEF ListOK
<1>3. ListsOK
  BY <1>1, <1>2 DEF ListsOK, InList
<1>4. Typed
  <2>1. changes \in 0 .. MaxChanges
    <3>1. changes = 0
      BY DEF View!Init
    <3> QED
      BY ONLY <3>1, FileBounds, PartsAssumption
  <2>2. view \in [data : View!Contents \cup {""}, name : View!Paths \cup Roms \cup {"bank", ""}]
    BY DEF View!Init, View!NoData
  <2> QED
    BY <2>1, <2>2, IdleIsTyped DEF Typed, View!Init
<1>5. Waits /\ View!ReloadsWhatIsShown /\ View!DownloadIsABank
  BY IdleIsTyped, FileNames DEF Waits, View!Init, View!NoData, View!ReloadsWhatIsShown, View!DownloadIsABank, View!Idle
<1> QED
  BY <1>3, <1>4, <1>5, TypedIsTypeOK DEF ViewInv

\* Bytes are shown that come from no file, or from the file of that name.
LEMMA ShowHolds ==
  ASSUME PartsAssumption, NEW d \in View!Contents, NEW name \in View!Paths \cup Roms \cup {"bank"}, NEW path,
         View!Show(d, name, path), name \in Roms => d \in Banks,
         path = IF name \in View!Paths THEN name ELSE ""
  PROVE  /\ view' \in [data : View!Contents \cup {""}, name : View!Paths \cup Roms \cup {"bank", ""}]
         /\ current_filename' \in View!Paths \cup {""}
         /\ View!ReloadsWhatIsShown' /\ View!DownloadIsABank'
<1>1. view' = [data |-> d, name |-> name] /\ current_filename' = path
  BY DEF View!Show
<1>2. view'.data = d /\ view'.name = name
  BY <1>1
<1>3. View!ReloadsWhatIsShown'
  BY <1>1, <1>2 DEF View!ReloadsWhatIsShown, View!Paths
<1>4. View!DownloadIsABank'
  BY <1>2 DEF View!DownloadIsABank
<1> QED
  BY <1>1, <1>3, <1>4

LEMMA BankReadKeeps ==
  ASSUME PartsAssumption, ViewInv, View!BankRead
  PROVE  ViewInv' /\ Kept
<1>1. PICK d \in Banks : View!Show(d, "bank", View!NoFile)
  BY DEF View!BankRead
<1>2. reading' = FALSE /\ UNCHANGED <<disk, View!lists, gui, changes>>
  BY DEF View!BankRead
<1>3. ListsOK' /\ Kept
  BY <1>2, ListsAlone DEF ViewInv
<1>4. /\ view' \in [data : View!Contents \cup {""}, name : View!Paths \cup Roms \cup {"bank", ""}]
      /\ current_filename' \in View!Paths \cup {""}
      /\ View!ReloadsWhatIsShown' /\ View!DownloadIsABank'
  BY <1>1, ShowHolds, FileNames DEF View!NoFile
<1>5. Typed'
  BY <1>2, <1>4, TypedIsTypeOK DEF ViewInv, Typed
<1>6. Waits'
  BY <1>2 DEF ViewInv, Waits
<1> QED
  BY <1>3, <1>4, <1>5, <1>6, TypedNext DEF ViewInv

LEMMA LoadBundledKeeps ==
  ASSUME PartsAssumption, ViewInv, NEW rom \in Roms, View!LoadBundled(rom)
  PROVE  ViewInv' /\ Kept
<1>1. PICK d \in Banks : View!Show(d, rom, View!NoFile)
  BY DEF View!LoadBundled
<1>2. UNCHANGED <<disk, View!lists, gui, reading, changes>>
  BY DEF View!LoadBundled
<1>3. ListsOK' /\ Kept
  BY <1>2, ListsAlone DEF ViewInv
<1>4. /\ view' \in [data : View!Contents \cup {""}, name : View!Paths \cup Roms \cup {"bank", ""}]
      /\ current_filename' \in View!Paths \cup {""}
      /\ View!ReloadsWhatIsShown' /\ View!DownloadIsABank'
  BY <1>1, ShowHolds, FileNames DEF View!NoFile
<1>5. Typed'
  BY <1>2, <1>4, TypedIsTypeOK DEF ViewInv, Typed
<1>6. Waits'
  BY <1>2 DEF ViewInv, Waits
<1> QED
  BY <1>3, <1>4, <1>5, <1>6, TypedNext DEF ViewInv

\* A step that leaves the view and the lists alone.
LEMMA NothingShown ==
  ASSUME ViewInv, UNCHANGED <<View!shows, View!lists>>, Waits',
         UNCHANGED gui \/ (gui.in # "sync" /\ gui'.in # "sync"),
         disk' \in [Files -> View!Contents \cup {"absent"}], reading' \in BOOLEAN, changes' \in 0 .. MaxChanges,
         gui' \in [in   : {"idle", "open", "sync", "warn", "save", "download"},
                   path : View!Paths \cup Roms \cup {""},
                   how  : {"dialog", "menu", "reload", ""}, data : View!Contents \cup {""}]
  PROVE  ViewInv' /\ Kept
<1>1. ListsOK' /\ Kept
  BY ListsAlone DEF ViewInv
<1>2. view' = view /\ current_filename' = current_filename
  BY DEF View!shows
<1>3. Typed'
  BY <1>2, TypedIsTypeOK DEF ViewInv, Typed
<1>4. View!ReloadsWhatIsShown' /\ View!DownloadIsABank'
  BY <1>2 DEF ViewInv, View!ReloadsWhatIsShown, View!DownloadIsABank, View!Paths
<1> QED
  BY <1>1, <1>3, <1>4, TypedNext DEF ViewInv

LEMMA QuietSteps ==
  ASSUME PartsAssumption, ViewInv,
         \/ View!StartBankRead \/ View!BankReadEnds \/ View!Save \/ View!SaveFails
         \/ \E rom \in Roms : View!StartDownload(rom)
         \/ \E path \in View!Paths : View!SaveTo(path)
         \/ \E path \in View!Paths, how \in {"dialog", "menu", "reload"} : View!Open(path, how)
         \/ \E file \in Files : View!Change(file)
  PROVE  ViewInv' /\ Kept
<1> DEFINE Guis == [in   : {"idle", "open", "sync", "warn", "save", "download"},
                    path : View!Paths \cup Roms \cup {""},
                    how  : {"dialog", "menu", "reload", ""}, data : View!Contents \cup {""}]
           Disks == [Files -> View!Contents \cup {"absent"}]
<1>1. disk \in Disks /\ gui \in Guis /\ reading \in BOOLEAN /\ changes \in 0 .. MaxChanges /\ MaxChanges \in Nat
      /\ view.data \in View!Contents \cup {""}
  BY TypedIsTypeOK, FileBounds DEF ViewInv, Typed
<1>2. CASE View!StartBankRead
  BY <1>1, <1>2, NothingShown DEF View!StartBankRead, ViewInv, Waits
<1>2a. CASE View!BankReadEnds
  BY <1>1, <1>2a, NothingShown DEF View!BankReadEnds, ViewInv, Waits
<1>3. CASE View!SaveFails
  <2>1. gui' \in Guis /\ Waits'
    BY <1>3, IdleIsTyped DEF View!SaveFails, Waits
  <2> QED
    BY <1>1, <1>3, <2>1, IdleIsTyped, NothingShown DEF View!SaveFails
<1>4. CASE View!Save
  <2>1. gui' = [View!Idle EXCEPT !.in = "save", !.data = view.data]
    BY <1>4 DEF View!Save
  <2>2. gui' \in Guis /\ gui'.in = "save" /\ gui'.data = view.data
    BY <1>1, <2>1, IdleIsTyped
  <2>3. Waits'
    BY <1>1, <1>4, <2>2 DEF Waits, View!Save, View!Contents
  <2> QED
    BY <1>1, <1>4, <2>2, <2>3, IdleIsTyped, NothingShown DEF View!Save
<1>5. ASSUME NEW rom \in Roms, View!StartDownload(rom) PROVE ViewInv' /\ Kept
  <2>1. gui' = [View!Idle EXCEPT !.in = "download", !.path = rom]
    BY <1>5 DEF View!StartDownload
  <2>2. gui' \in Guis /\ gui'.in = "download" /\ gui'.path = rom
    BY <1>1, <2>1, IdleIsTyped
  <2>3. Waits'
    BY <2>2 DEF Waits
  <2> QED
    BY <1>1, <1>5, <2>2, <2>3, IdleIsTyped, NothingShown DEF View!StartDownload
<1>6. ASSUME NEW path \in View!Paths, View!SaveTo(path) PROVE ViewInv' /\ Kept
  <2>1. gui.in = "save" /\ gui' = View!Idle /\ disk' = [disk EXCEPT ![View!CleanPath(path)] = gui.data]
    BY <1>6 DEF View!SaveTo
  <2>2. gui' \in Guis /\ Waits'
    BY <2>1, IdleIsTyped DEF Waits
  <2>3. gui.data \in View!Contents
    BY <2>1 DEF ViewInv, Waits
  <2>4. disk' \in Disks
    BY <1>1, <2>1, <2>3, FileNames
  <2> QED
    BY <1>1, <1>6, <2>1, <2>2, <2>4, IdleIsTyped, NothingShown DEF View!SaveTo
<1>7. ASSUME NEW path \in View!Paths, NEW how \in {"dialog", "menu", "reload"}, View!Open(path, how)
      PROVE  ViewInv' /\ Kept
  <2>1. /\ gui' = [in |-> IF disk[View!CleanPath(path)] \in Banks THEN "open" ELSE "warn",
                   path |-> path, how |-> how, data |-> ""]
        /\ gui.in = "idle" /\ UNCHANGED <<disk, View!shows, View!lists, reading, changes>>
    BY <1>7, IdleIsTyped DEF View!Open
  <2>2. gui' \in Guis /\ gui'.in \in {"open", "warn"} /\ gui'.path = path
    BY <2>1
  <2>3. Waits'
    BY <2>2 DEF Waits, View!Paths
  <2> QED
    BY <1>1, <2>1, <2>2, <2>3, NothingShown
<1>8. ASSUME NEW file \in Files, View!Change(file) PROVE ViewInv' /\ Kept
  <2>1. changes' \in 0 .. MaxChanges
    <3>1. changes < MaxChanges /\ changes' = changes + 1
      BY <1>8 DEF View!Change
    <3>2. changes \in 0 .. MaxChanges /\ MaxChanges \in Nat
      BY <1>1
    <3> QED
      BY ONLY <3>1, <3>2
  <2>2. disk' \in Disks
    BY <1>1, <1>8 DEF View!Change
  <2>3. Waits'
    BY <1>8 DEF View!Change, ViewInv, Waits
  <2> QED
    BY <1>1, <1>8, <2>1, <2>2, <2>3, NothingShown DEF View!Change
<1> QED
  BY <1>2, <1>2a, <1>3, <1>4, <1>5, <1>6, <1>7, <1>8

LEMMA DownloadEndKeeps ==
  ASSUME PartsAssumption, ViewInv, View!DownloadEnds
  PROVE  ViewInv' /\ Kept
<1>1. /\ gui.in = "download" /\ gui.path \in Roms /\ gui' = View!Idle
      /\ UNCHANGED <<disk, View!lists, reading, changes>>
  BY DEF View!DownloadEnds, ViewInv, Waits
<1>2. Waits'
  BY <1>1, IdleIsTyped DEF Waits
<1>3. CASE UNCHANGED View!shows
  <2>1. disk \in [Files -> View!Contents \cup {"absent"}] /\ reading \in BOOLEAN /\ changes \in 0 .. MaxChanges
    BY TypedIsTypeOK DEF ViewInv, Typed
  <2> QED
    BY <1>1, <1>2, <1>3, <2>1, IdleIsTyped, NothingShown
<1>4. ASSUME NEW d \in View!Contents, View!Downloaded(d), View!Show(d, gui.path, View!NoFile)
      PROVE  ViewInv' /\ Kept
  <2>1. d \in Banks
    BY <1>4 DEF View!Downloaded
  <2>2. ListsOK' /\ Kept
    BY <1>1, IdleIsTyped, ListsAlone DEF ViewInv
  <2>3. /\ view' \in [data : View!Contents \cup {""}, name : View!Paths \cup Roms \cup {"bank", ""}]
        /\ current_filename' \in View!Paths \cup {""}
        /\ View!ReloadsWhatIsShown' /\ View!DownloadIsABank'
    BY <1>1, <1>4, <2>1, ShowHolds, FileNames DEF View!NoFile
  <2>4. Typed'
    BY <1>1, <2>3, TypedIsTypeOK, IdleIsTyped DEF ViewInv, Typed
  <2> QED
    BY <1>2, <2>2, <2>3, <2>4, TypedNext DEF ViewInv
<1> QED
  BY <1>3, <1>4 DEF View!DownloadEnds

\* The list of the settings with the file that was opened.
LEMMA RememberHolds ==
  ASSUME PartsAssumption, ListsOK, gui.in = "open", gui.path \in View!Paths,
         recent' = View!Trimmed(View!Added(gui.path)), UNCHANGED <<stored, menu>>,
         gui'.in = "sync", gui'.path = gui.path
  PROVE  ListsOK' /\ Kept
<1> DEFINE q == View!Trimmed(View!Added(gui.path))
           c == View!CleanPath(gui.path)
<1>1. /\ ListOK(q)
      /\ \A f \in Files : InList(f, recent) /\ ~InList(f, q) => Len(q) = MaxRecent /\ f = recent[Len(recent)]
      /\ \A f \in Files : InList(f, q) => InList(f, recent) \/ f = c
  BY ListAdded DEF ListsOK
<1>2. recent' = q /\ View!CleanPath(gui.path)' = c
  BY DEF View!CleanPath
<1> HIDE DEF q, c
<1>3. ListOK(recent') /\ ListOK(stored') /\ ListOK(menu')
  BY <1>1, <1>2 DEF ListsOK
<1>4. \A f \in Files : InList(f, recent) => InList(f, stored)
  BY DEF ListsOK
<1>5. \A f \in Files : InList(f, recent') => InList(f, stored') \/ f = c
  BY <1>1, <1>2, <1>4
<1>6. ListsOK'
  BY <1>2, <1>3, <1>5 DEF ListsOK
<1>7. Kept
  BY <1>1, <1>2 DEF Kept, c
<1> QED
  BY <1>6, <1>7

LEMMA ReadFileKeeps ==
  ASSUME PartsAssumption, ViewInv, View!ReadFile
  PROVE  ViewInv' /\ Kept
<1> DEFINE d == disk[View!CleanPath(gui.path)]
           Guis == [in   : {"idle", "open", "sync", "warn", "save", "download"},
                    path : View!Paths \cup Roms \cup {""},
                    how  : {"dialog", "menu", "reload", ""}, data : View!Contents \cup {""}]
<1>1. /\ gui.in = "open" /\ gui.path \in View!Paths /\ UNCHANGED <<disk, reading, changes>>
  BY DEF View!ReadFile, ViewInv, Waits
<1>2. /\ disk \in [Files -> View!Contents \cup {"absent"}] /\ reading \in BOOLEAN /\ changes \in 0 .. MaxChanges
      /\ gui \in Guis /\ d \in View!Contents \cup {"absent"}
  BY <1>1, TypedIsTypeOK, FileNames DEF ViewInv, Typed
<1>3. CASE d = "absent"
  <2>1. gui' = [gui EXCEPT !.in = "warn"] /\ UNCHANGED <<View!shows, View!lists>>
    BY <1>3 DEF View!ReadFile
  <2>2. gui' \in Guis /\ gui'.in = "warn" /\ gui'.path = gui.path
    BY <1>2, <2>1
  <2>3. Waits'
    BY <1>1, <2>2 DEF Waits, View!Paths
  <2> QED
    BY <1>1, <1>2, <2>1, <2>2, <2>3, NothingShown
<1>4. CASE d # "absent"
  <2>1. /\ View!Show(d, gui.path, gui.path)
        /\ \/ gui.how = "reload" /\ gui' = View!Idle /\ UNCHANGED View!lists
           \/ /\ gui.how # "reload" /\ gui' = [gui EXCEPT !.in = "sync"]
              /\ recent' = View!Trimmed(View!Added(gui.path)) /\ UNCHANGED <<stored, menu>>
    BY <1>4 DEF View!ReadFile
  <2>2. gui' \in Guis /\ Waits' /\ ListsOK' /\ Kept
    <3>1. CASE gui' = View!Idle /\ UNCHANGED View!lists
      <4>1. gui' \in Guis /\ gui'.in = "idle"
        BY <3>1, IdleIsTyped
      <4>2. ListsOK' /\ Kept
        BY <1>1, <3>1, <4>1, ListsAlone DEF ViewInv
      <4> QED
        BY <4>1, <4>2 DEF Waits
    <3>2. CASE /\ gui' = [gui EXCEPT !.in = "sync"]
               /\ recent' = View!Trimmed(View!Added(gui.path)) /\ UNCHANGED <<stored, menu>>
      <4>1. gui' \in Guis /\ gui'.in = "sync" /\ gui'.path = gui.path
        BY <1>2, <3>2
      <4>2. ListsOK' /\ Kept
        BY <1>1, <3>2, <4>1, RememberHolds DEF ViewInv
      <4>3. Waits'
        BY <1>1, <4>1 DEF Waits, View!Paths
      <4> QED
        BY <4>1, <4>2, <4>3
    <3> QED
      BY <2>1, <3>1, <3>2
  <2>3. d \in View!Contents
    BY <1>2, <1>4
  <2> HIDE DEF d
  <2>4. /\ view' \in [data : View!Contents \cup {""}, name : View!Paths \cup Roms \cup {"bank", ""}]
        /\ current_filename' \in View!Paths \cup {""}
        /\ View!ReloadsWhatIsShown' /\ View!DownloadIsABank'
    BY <1>1, <2>1, <2>3, ShowHolds, FileNames
  <2>5. Typed'
    BY <1>1, <1>2, <2>2, <2>4 DEF Typed
  <2> QED
    BY <2>2, <2>4, <2>5, TypedNext DEF ViewInv
<1> QED
  BY <1>3, <1>4

LEMMA SyncKeeps ==
  ASSUME PartsAssumption, ViewInv, View!Sync
  PROVE  ViewInv' /\ Kept
<1>1. /\ gui.in = "sync" /\ stored' = recent /\ menu' = recent /\ gui' = View!Idle /\ gui'.in = "idle"
      /\ UNCHANGED <<disk, recent, reading, changes>> /\ UNCHANGED <<view, current_filename>>
  BY IdleIsTyped DEF View!Sync, View!Synced, View!shows
<1>2. ListsOK' /\ Kept
  BY <1>1 DEF ViewInv, ListsOK, ListOK, InList, Kept
<1>3. Typed'
  BY <1>1, IdleIsTyped, TypedIsTypeOK DEF ViewInv, Typed
<1>4. Waits'
  BY <1>1 DEF Waits
<1>5. View!ReloadsWhatIsShown' /\ View!DownloadIsABank'
  BY <1>1 DEF ViewInv, View!ReloadsWhatIsShown, View!DownloadIsABank, View!Paths
<1> QED
  BY <1>2, <1>3, <1>4, <1>5, TypedNext DEF ViewInv

LEMMA DismissKeeps ==
  ASSUME PartsAssumption, ViewInv, View!Dismiss
  PROVE  ViewInv' /\ Kept
<1>1. /\ gui.in = "warn" /\ gui.path \in View!Paths /\ gui' = View!Idle
      /\ UNCHANGED <<disk, View!shows, reading, changes>>
  BY DEF View!Dismiss, ViewInv, Waits
<1>2. Waits'
  BY <1>1, IdleIsTyped DEF Waits
<1>3. CASE ~(gui.how = "menu" /\ View!Gone(gui.path))
  <2>1. UNCHANGED View!lists
    BY <1>3 DEF View!Dismiss
  <2>2. disk \in [Files -> View!Contents \cup {"absent"}] /\ reading \in BOOLEAN /\ changes \in 0 .. MaxChanges
    BY TypedIsTypeOK DEF ViewInv, Typed
  <2> QED
    BY <1>1, <1>2, <2>1, <2>2, IdleIsTyped, NothingShown
<1>4. CASE gui.how = "menu" /\ View!Gone(gui.path)
  <2> DEFINE p == gui.path
             w == View!Without(recent, {p})
  <2>1. recent' = w /\ menu' = w /\ stored' = stored
    BY <1>4 DEF View!Dismiss
  <2>2. /\ ListOK(w) /\ \A g : InList(g, w) => InList(g, recent)
        /\ \A g \in Files : InList(g, recent) /\ g # p => InList(g, w)
    BY ListWithout DEF ViewInv, ListsOK
  <2>3. disk[View!CleanPath(p)] = "absent"
    BY <1>4 DEF View!Gone
  <2> HIDE DEF w, p
  <2>4. ListOK(recent') /\ ListOK(stored') /\ ListOK(menu')
    BY <2>1, <2>2 DEF ViewInv, ListsOK
  <2>5. ListsOK'
    <3>1. ASSUME NEW f \in Files, InList(f, recent') PROVE InList(f, stored')
      <4>1. InList(f, recent)
        BY <2>1, <2>2, <3>1
      <4>2. InList(f, stored)
        BY <1>1, <4>1 DEF ViewInv, ListsOK
      <4> QED
        BY <2>1, <4>2
    <3> QED
      BY <2>1, <2>4, <3>1 DEF ListsOK
  <2>6. Kept
    BY <2>1, <2>2, <2>3, FileNames DEF Kept
  <2>7. Typed'
    BY <1>1, IdleIsTyped, TypedIsTypeOK DEF ViewInv, Typed, View!shows
  <2>8. View!ReloadsWhatIsShown' /\ View!DownloadIsABank'
    BY <1>1 DEF ViewInv, View!ReloadsWhatIsShown, View!DownloadIsABank, View!Paths, View!shows
  <2> QED
    BY <1>2, <2>5, <2>6, <2>7, <2>8, TypedNext DEF ViewInv
<1> QED
  BY <1>3, <1>4

LEMMA RestartKeeps ==
  ASSUME PartsAssumption, ViewInv, View!Restart
  PROVE  ViewInv' /\ Kept
<1>1. /\ view' = [data |-> "", name |-> ""] /\ current_filename' = "" /\ reading' = FALSE /\ gui' = View!Idle
      /\ recent' \in {recent, stored} /\ stored' = recent' /\ menu' = recent'
      /\ UNCHANGED <<disk, changes>>
  BY DEF View!Restart, View!NoData
<1>2. ListOK(recent')
  BY <1>1 DEF ViewInv, ListsOK
<1>3. ListsOK'
  BY <1>1, <1>2 DEF ListsOK, ListOK, InList
<1>4. Kept
  BY <1>1 DEF ViewInv, ListsOK, Kept
<1>5. Typed'
  BY <1>1, IdleIsTyped, TypedIsTypeOK DEF ViewInv, Typed
<1>6. Waits'
  BY <1>1, IdleIsTyped DEF Waits
<1>7. View!ReloadsWhatIsShown' /\ View!DownloadIsABank'
  BY <1>1, FileNames DEF View!ReloadsWhatIsShown, View!DownloadIsABank, View!Paths
<1> QED
  BY <1>3, <1>4, <1>5, <1>6, <1>7, TypedNext DEF ViewInv

LEMMA ViewKeeps ==
  ASSUME PartsAssumption, ViewInv, View!Next
  PROVE  ViewInv' /\ Kept
<1>1. CASE \E rom \in Roms : View!LoadBundled(rom) \/ View!StartDownload(rom)
  BY <1>1, LoadBundledKeeps, QuietSteps
<1>2. CASE \/ View!StartBankRead \/ View!BankReadEnds \/ View!Save \/ View!SaveFails
           \/ \E path \in View!Paths : View!SaveTo(path)
           \/ \E path \in View!Paths, how \in {"dialog", "menu", "reload"} : View!Open(path, how)
           \/ \E file \in Files : View!Change(file)
  BY <1>2, QuietSteps
<1> QED
  BY <1>1, <1>2, BankReadKeeps, DownloadEndKeeps, ReadFileKeeps, SyncKeeps, DismissKeeps, RestartKeeps DEF View!Next

LEMMA ViewStutters ==
  ASSUME ViewInv, UNCHANGED viewVars
  PROVE  ViewInv' /\ Kept
<1>1. UNCHANGED <<disk, View!shows, View!lists, reading, gui, changes>>
  BY DEF viewVars, View!shows, View!lists
<1>2. Waits'
  BY <1>1 DEF ViewInv, Waits
<1> QED
  BY <1>1, <1>2, NothingShown, TypedIsTypeOK DEF ViewInv, Typed

\* What the invariant says of the properties of the files.
LEMMA ViewSays ==
  ASSUME PartsAssumption, ViewInv
  PROVE  ReloadsWhatIsShown
<1>1. recent \in Seq(Files) /\ (gui.in # "sync" => menu = recent) /\ DOMAIN recent = 1 .. Len(recent)
  BY LenProperties DEF ViewInv, ListsOK, ListOK
<1>2. View!IsInjective(recent)
  BY <1>1 DEF ViewInv, ListsOK, ListOK, View!IsInjective
<1>3. View!Range(recent) \subseteq Files
  BY <1>1, ElementOfSeq DEF View!Range
<1> QED
  BY <1>1, <1>2, <1>3 DEF ViewInv, ReloadsWhatIsShown, View!RecentOnce

\* What a step may do to the recent files.
Remembers ==
  /\ \A f \in View!Range(recent) \ View!Range(recent') :
       \/ disk[f] = "absent"
       \/ gui'.in = "sync" /\ Len(recent') = MaxRecent /\ f = View!Last(recent)
       \/ gui.in = "sync" /\ f = View!CleanPath(gui.path)
  /\ \A f \in View!Range(recent') \ View!Range(recent) :
       \/ gui'.in = "sync" /\ f = View!CleanPath(gui.path)
       \/ f \in View!Range(stored)

LEMMA KeptSays ==
  ASSUME PartsAssumption, ViewInv, ViewInv', Kept
  PROVE  Remembers
<1>1. \A list : list \in Seq(Files) => DOMAIN list = 1 .. Len(list) /\ \A i \in 1 .. Len(list) : list[i] \in Files
  BY LenProperties, ElementOfSeq
<1>2. recent \in Seq(Files) /\ recent' \in Seq(Files) /\ stored \in Seq(Files)
  BY DEF ViewInv, ListsOK, ListOK
<1>3. \A f : /\ f \in View!Range(recent) <=> f \in Files /\ InList(f, recent)
             /\ f \in View!Range(recent') <=> f \in Files /\ InList(f, recent')
             /\ f \in View!Range(stored) <=> f \in Files /\ InList(f, stored)
  BY <1>1, <1>2 DEF InList, View!Range
<1>4. View!Last(recent) = recent[Len(recent)]
  BY DEF View!Last
<1> QED
  BY <1>3, <1>4 DEF Kept, Remembers
-----------------------------------------------------------------------------
(***************************************************************************)
(* The log window.                                                         *)
(***************************************************************************)

LogSizes == MaxMessages \in Nat /\ TrimMessages \in 1 .. MaxMessages /\ MaxLines \in Nat
            /\ MaxMessages <= MaxLines /\ MaxArrivals \in Nat /\ Unknown \in Severities

LEMMA SizesOfLog ==
  ASSUME PartsAssumption
  PROVE  LogSizes
BY DEF PartsAssumption, Log!LogAssumption, LogSizes

\* Messages in their order, with serial numbers above lo and up to hi.
Span(lines, lo, hi) ==
  /\ lines \in Seq(Log!Messages)
  /\ \A i, j \in 1 .. Len(lines) : i < j => lines[i].n < lines[j].n
  /\ \A i \in 1 .. Len(lines) : lines[i].n > lo /\ lines[i].n <= hi

LEMMA MessageNumber ==
  ASSUME NEW lines \in Seq(Log!Messages), PartsAssumption
  PROVE  /\ Len(lines) \in Nat /\ DOMAIN lines = 1 .. Len(lines)
         /\ \A i \in 1 .. Len(lines) : lines[i] \in Log!Messages /\ lines[i].n \in Nat /\ lines[i].n >= 1 /\ lines[i].n \in Int
<1>1. MaxArrivals \in Nat
  BY SizesOfLog DEF LogSizes
<1>2. \A m \in Log!Messages : m.n \in Nat /\ m.n >= 1 /\ m.n \in Int
  BY <1>1 DEF Log!Messages
<1>3. \A i \in 1 .. Len(lines) : lines[i] \in Log!Messages
  BY ElementOfSeq
<1> QED
  BY <1>2, <1>3, LenProperties

LEMMA SpanEmpty ==
  ASSUME NEW lo, NEW hi
  PROVE  Span(<<>>, lo, hi)
BY EmptySeq DEF Span

LEMMA SpanWider ==
  ASSUME PartsAssumption, NEW lines, NEW lo \in Int, NEW hi \in Int, Span(lines, lo, hi),
         NEW a \in Int, NEW b \in Int, a <= lo, hi <= b
  PROVE  Span(lines, a, b)
<1>1. \A i \in 1 .. Len(lines) : lines[i].n \in Int
  BY MessageNumber DEF Span
<1> QED
  BY <1>1 DEF Span

LEMMA SpanJoined ==
  ASSUME PartsAssumption, NEW l, NEW k, NEW lo \in Int, NEW mid \in Int, NEW hi \in Int,
         Span(l, lo, mid), Span(k, mid, hi), lo <= mid, mid <= hi
  PROVE  Span(l \o k, lo, hi)
<1> DEFINE q == l \o k
<1>1. l \in Seq(Log!Messages) /\ k \in Seq(Log!Messages)
  BY DEF Span
<1>2. /\ q \in Seq(Log!Messages) /\ Len(q) = Len(l) + Len(k)
      /\ \A i \in 1 .. Len(l) + Len(k) : q[i] = IF i <= Len(l) THEN l[i] ELSE k[i - Len(l)]
      /\ Len(l) \in Nat /\ Len(k) \in Nat
  BY <1>1, ConcatProperties, MessageNumber
<1>3. /\ \A i \in 1 .. Len(l) : l[i].n \in Int
      /\ \A i \in 1 .. Len(k) : k[i].n \in Int
  BY <1>1, MessageNumber
<1> HIDE DEF q
<1>4. \A i \in 1 .. Len(q) : \/ i \in 1 .. Len(l) /\ q[i] = l[i]
                             \/ i - Len(l) \in 1 .. Len(k) /\ q[i] = k[i - Len(l)] /\ i > Len(l)
  BY <1>2
<1>5. ASSUME NEW i \in 1 .. Len(q) PROVE q[i].n > lo /\ q[i].n <= hi
  <2>1. CASE i \in 1 .. Len(l) /\ q[i] = l[i]
    <3>1. l[i].n > lo /\ l[i].n <= mid /\ l[i].n \in Int
      BY <1>3, <2>1 DEF Span
    <3>2. q[i].n = l[i].n
      BY <2>1
    <3> QED
      BY ONLY <3>1, <3>2, mid <= hi, mid \in Int, hi \in Int, lo \in Int
  <2>2. CASE i - Len(l) \in 1 .. Len(k) /\ q[i] = k[i - Len(l)]
    <3>1. k[i - Len(l)].n > mid /\ k[i - Len(l)].n <= hi /\ k[i - Len(l)].n \in Int
      BY <1>3, <2>2 DEF Span
    <3>2. q[i].n = k[i - Len(l)].n
      BY <2>2
    <3> QED
      BY ONLY <3>1, <3>2, lo <= mid, mid \in Int, hi \in Int, lo \in Int
  <2>3. \/ i \in 1 .. Len(l) /\ q[i] = l[i]
        \/ i - Len(l) \in 1 .. Len(k) /\ q[i] = k[i - Len(l)]
    BY <1>4
  <2> QED
    BY ONLY <2>1, <2>2, <2>3
<1>6. ASSUME NEW i \in 1 .. Len(q), NEW j \in 1 .. Len(q), i < j PROVE q[i].n < q[j].n
  <2>1. CASE i \in 1 .. Len(l) /\ q[i] = l[i] /\ j \in 1 .. Len(l) /\ q[j] = l[j]
    BY <1>6, <2>1 DEF Span
  <2>2. CASE i \in 1 .. Len(l) /\ q[i] = l[i] /\ j - Len(l) \in 1 .. Len(k) /\ q[j] = k[j - Len(l)]
    <3>1. l[i].n <= mid /\ l[i].n \in Int
      BY <1>3, <2>2 DEF Span
    <3>2. k[j - Len(l)].n > mid /\ k[j - Len(l)].n \in Int
      BY <1>3, <2>2 DEF Span
    <3>3. q[i].n = l[i].n /\ q[j].n = k[j - Len(l)].n
      BY <2>2
    <3> QED
      BY ONLY <3>1, <3>2, <3>3, mid \in Int
  <2>3. CASE i - Len(l) \in 1 .. Len(k) /\ q[i] = k[i - Len(l)] /\ j - Len(l) \in 1 .. Len(k) /\ q[j] = k[j - Len(l)]
    <3>1. i - Len(l) < j - Len(l)
      BY <1>2, <1>6
    <3> QED
      BY <2>3, <3>1 DEF Span
  <2> QED
    BY <1>2, <1>4, <1>6, <2>1, <2>2, <2>3
<1> QED
  BY <1>2, <1>5, <1>6 DEF Span, q

LEMMA EndOfSeq ==
  ASSUME NEW S, NEW s, NEW d \in Nat, NEW n \in Nat, \A i \in d + 1 .. n : s[i] \in S
  PROVE  /\ SubSeq(s, d + 1, n) \in Seq(S) /\ Len(SubSeq(s, d + 1, n)) = IF d + 1 <= n THEN n - (d + 1) + 1 ELSE 0
         /\ \A i \in 1 .. n - (d + 1) + 1 : SubSeq(s, d + 1, n)[i] = s[d + 1 + i - 1]
<1>1. d + 1 \in Int /\ n \in Int
  OBVIOUS
<1> QED
  BY <1>1, SubSeqProperties

\* The text box keeps the order.
LEMMA SpanKept ==
  ASSUME PartsAssumption, NEW lo \in Int, NEW hi \in Int, NEW l, Span(l, lo, hi)
  PROVE  /\ Span(Log!Kept(l), lo, hi) /\ Len(Log!Kept(l)) <= MaxLines
         /\ Len(l) <= MaxLines => Log!Kept(l) = l
<1>1. l \in Seq(Log!Messages) /\ Len(l) \in Nat /\ MaxLines \in Nat
  BY MessageNumber, SizesOfLog DEF Span, LogSizes
<1>2. CASE Len(l) <= MaxLines
  BY <1>1, <1>2 DEF Log!Kept
<1>3. CASE Len(l) > MaxLines
  <2> DEFINE d == Len(l) - MaxLines
             k == SubSeq(l, d + 1, Len(l))
  <2>1. d \in Nat /\ d + 1 \in Int /\ Len(l) - (d + 1) + 1 = MaxLines /\ \A i \in d + 1 .. Len(l) : i \in 1 .. Len(l)
    BY <1>1, <1>3
  <2>2. \A i \in d + 1 .. Len(l) : l[i] \in Log!Messages
    BY <1>1, <2>1, ElementOfSeq
  <2>3. Log!Kept(l) = k
    BY <1>3 DEF Log!Kept
  <2> HIDE DEF d
  <2>4. /\ k \in Seq(Log!Messages) /\ Len(k) = IF d + 1 <= Len(l) THEN Len(l) - (d + 1) + 1 ELSE 0
        /\ \A i \in 1 .. Len(l) - (d + 1) + 1 : k[i] = l[d + 1 + i - 1]
    <3>1. Len(l) \in Nat /\ d \in Nat
      BY <1>1, <2>1
    <3> QED
      BY <2>2, <3>1, EndOfSeq
  <2> HIDE DEF k
  <2>5. Len(k) <= MaxLines /\ \A i \in 1 .. Len(k) : k[i] = l[i + d] /\ i + d \in 1 .. Len(l)
    <3>1. Len(k) = MaxLines \/ Len(k) = 0
      BY <2>1, <2>4
    <3>2. \A i \in 1 .. MaxLines : d + 1 + i - 1 = i + d /\ i + d \in 1 .. Len(l)
      BY <1>1, <2>1 DEF d
    <3>3. ASSUME NEW i \in 1 .. Len(k) PROVE k[i] = l[i + d] /\ i + d \in 1 .. Len(l)
      <4>1. i \in 1 .. MaxLines
        BY <1>1, <3>1
      <4> QED
        BY <2>1, <2>4, <3>2, <4>1
    <3>4. Len(k) <= MaxLines
      BY <1>1, <3>1
    <3> QED
      BY <3>3, <3>4
  <2>6. Span(k, lo, hi)
    <3>1. ASSUME NEW i \in 1 .. Len(k), NEW j \in 1 .. Len(k), i < j PROVE k[i].n < k[j].n
      <4>1. i + d < j + d
        BY <2>1, <3>1
      <4> QED
        BY <2>5, <4>1 DEF Span
    <3> QED
      BY <2>4, <2>5, <3>1 DEF Span
  <2> QED
    BY <1>1, <1>3, <2>3, <2>5, <2>6
<1> QED
  BY <1>1, <1>2, <1>3

\* The lines of a buffer whose messages are numbered from dropped + 1 on.
LinesOf(buffer, first, end, filter) == Without(SubSeq(buffer, first + 1, end), Log!Hidden(filter))

Numbered(buffer, dropped) ==
  /\ buffer \in Seq(Log!Messages) /\ dropped \in Nat
  /\ \A i \in 1 .. Len(buffer) : buffer[i].n = dropped + i

LEMMA LinesSpan ==
  ASSUME PartsAssumption, NEW b, NEW d, Numbered(b, d), NEW first \in Nat, NEW end \in 0 .. Len(b), NEW filter
  PROVE  /\ Span(LinesOf(b, first, end, filter), d + first, d + end)
         /\ Len(LinesOf(b, first, end, filter)) <= end
         /\ first >= end => LinesOf(b, first, end, filter) = <<>>
<1> DEFINE s == SubSeq(b, first + 1, end)
           w == Without(s, Log!Hidden(filter))
<1>1. b \in Seq(Log!Messages) /\ Len(b) \in Nat /\ end \in Nat /\ d \in Nat
  BY MessageNumber DEF Numbered
<1>2. \A i \in first + 1 .. end : b[i] \in Log!Messages /\ i \in 1 .. Len(b)
  <2>1. \A i \in first + 1 .. end : i \in 1 .. Len(b)
    BY <1>1
  <2> QED
    BY <1>1, <2>1, ElementOfSeq
<1>3. /\ s \in Seq(Log!Messages) /\ Len(s) = IF first + 1 <= end THEN end - (first + 1) + 1 ELSE 0
      /\ \A i \in 1 .. end - (first + 1) + 1 : s[i] = b[(first + 1) + i - 1]
  BY <1>1, <1>2, SubSeqProperties
<1> HIDE DEF s
<1>4. Len(s) = (IF first < end THEN end - first ELSE 0) /\ \A i \in 1 .. Len(s) : s[i].n = d + first + i
  <2>1. Len(s) = IF first < end THEN end - first ELSE 0
    BY <1>1, <1>3
  <2>2. \A i \in 1 .. Len(s) : i \in 1 .. end - (first + 1) + 1 /\ (first + 1) + i - 1 = first + i /\ first + i \in 1 .. Len(b)
    BY <1>1, <2>1
  <2>3. \A i \in 1 .. Len(s) : s[i] = b[first + i]
    BY <1>3, <2>2
  <2>4. ASSUME NEW i \in 1 .. Len(s) PROVE s[i].n = d + first + i
    <3>1. s[i].n = d + (first + i)
      BY <2>2, <2>3 DEF Numbered
    <3> QED
      BY <1>1, <3>1
  <2> QED
    BY <2>1, <2>4
<1>5. w \in Seq(Log!Messages) /\ Len(w) <= Len(s) /\ \E e : Places(e, w, Len(s), s, Log!Hidden(filter))
  BY <1>3, WithoutPlaces
<1>6. PICK e : Places(e, w, Len(s), s, Log!Hidden(filter))
  BY <1>5
<1> HIDE DEF w
<1>7. Len(w) \in Nat /\ Len(s) \in Nat
  BY <1>3, <1>5, LenProperties
<1>8. \A i \in 1 .. Len(w) : e[i] \in 1 .. Len(s) /\ w[i].n = d + first + e[i]
  BY <1>4, <1>6 DEF Places
<1>9. \A i, j \in 1 .. Len(w) : i < j => w[i].n < w[j].n
  <2>1. ASSUME NEW i \in 1 .. Len(w), NEW j \in 1 .. Len(w), i < j PROVE w[i].n < w[j].n
    <3>1. e[i] < e[j] /\ e[i] \in Nat /\ e[j] \in Nat
      BY <1>6, <1>8, <2>1 DEF Places
    <3> QED
      BY <1>1, <1>8, <3>1
  <2> QED
    BY <2>1
<1>10. ASSUME NEW i \in 1 .. Len(w) PROVE w[i].n > d + first /\ w[i].n <= d + end
  <2>1. e[i] \in 1 .. Len(s) /\ w[i].n = d + first + e[i]
    BY <1>8
  <2>2. Len(s) = (IF first < end THEN end - first ELSE 0)
    BY <1>4
  <2>3. e[i] \in Nat /\ e[i] >= 1 /\ e[i] <= end - first
    BY ONLY <1>1, <2>1, <2>2, first \in Nat
  <2> QED
    BY ONLY <1>1, <2>1, <2>3, first \in Nat
<1>11. Span(w, d + first, d + end)
  BY <1>5, <1>9, <1>10 DEF Span
<1>12. Len(w) <= end
  BY <1>1, <1>4, <1>5, <1>7
<1>13. first >= end => w = <<>>
  <2>1. first >= end => Len(w) = 0
    BY <1>1, <1>4, <1>5, <1>7
  <2> QED
    BY <1>5, <2>1, EmptySeq
<1>14. LinesOf(b, first, end, filter) = w
  BY DEF LinesOf, w, s
<1> QED
  BY <1>11, <1>12, <1>13, <1>14

\* Lines of adjacent stretches are the lines of both.
LEMMA LinesJoin ==
  ASSUME NEW b \in Seq(Log!Messages), NEW mid \in 0 .. Len(b), NEW end \in mid .. Len(b), NEW filter
  PROVE  LinesOf(b, 0, mid, filter) \o LinesOf(b, mid, end, filter) = LinesOf(b, 0, end, filter)
<1> DEFINE s == SubSeq(b, 1, mid)
           t == SubSeq(b, mid + 1, end)
<1>0. Len(b) \in Nat /\ \A i \in 1 .. Len(b) : b[i] \in Log!Messages
  BY LenProperties, ElementOfSeq
<1>1. s \in Seq(Log!Messages)
  <2>1. \A i \in 1 .. mid : b[i] \in Log!Messages
    BY <1>0
  <2> QED
    BY <1>0, <2>1, SubSeqProperties
<1>2. t \in Seq(Log!Messages)
  <2>1. \A i \in mid + 1 .. end : b[i] \in Log!Messages
    BY <1>0
  <2> QED
    BY <1>0, <2>1, SubSeqProperties
<1>3. s \o t = SubSeq(b, 1, end)
  <2>1. 1 \in 1 .. Len(b) + 1 /\ mid \in 1 - 1 .. Len(b) /\ end \in mid .. Len(b)
    BY <1>0
  <2> QED
    BY <2>1, ConcatAdjacentSubSeq, SMTT(30)
<1> HIDE DEF s, t
<1>4. Without(s \o t, Log!Hidden(filter)) = Without(s, Log!Hidden(filter)) \o Without(t, Log!Hidden(filter))
  BY <1>1, <1>2, WithoutConcat
<1>5. 0 + 1 = 1
  OBVIOUS
<1> QED
  BY <1>3, <1>4, <1>5 DEF LinesOf, s, t

\* The lines are those of the buffer since it was cleared, and before it was paused,
\* as long as the positions hold; a lost trim can be seen, or shows in since, or is
\* about to be made good from the start of the buffer.
TextOK ==
  /\ Span(text, 0, Log!Dropped + linesread) /\ Len(text) <= MaxLines
  /\ asked.read = Log!Dropped => linesread <= Len(messages)
  /\ asked.clear.dropped = Log!Dropped =>
       /\ linesread <= Len(messages) /\ first_visible_line <= linesread
       /\ first_visible_line + Log!Dropped = asked.clear.last
       /\ Span(text, asked.clear.last, Log!Dropped + linesread)
  /\ paused /\ asked.read = Log!Dropped =>
       /\ linesread + Log!Dropped <= asked.pause \/ linesread <= first_visible_line
       /\ Span(text, 0, asked.pause)
  /\ Len(messages) <= linesread + since /\ (since = 0 => linesread = Len(messages))
  /\ window = "rebuild" => ~paused /\ first_visible_line = 0
  /\ window # "rebuild" /\ first_visible_line = 0 /\ since < TrimMessages =>
       \/ Len(messages) + TrimMessages <= linesread + since
       \/ linesread <= Len(messages) /\ text = LinesOf(messages, 0, linesread, shown)

LogInv == Log!TypeOK /\ Numbered(messages, Log!Dropped) /\ TextOK

\* The numbers of the log.
LEMMA LogNumbers ==
  ASSUME PartsAssumption, LogInv
  PROVE  /\ Len(messages) \in Nat /\ Len(messages) <= MaxMessages /\ arrived \in 0 .. MaxArrivals
         /\ Log!Dropped \in Nat /\ Log!Dropped = arrived - Len(messages)
         /\ linesread \in 0 .. MaxMessages /\ first_visible_line \in 0 .. MaxMessages
         /\ since \in 0 .. arrived /\ LogSizes
         /\ asked.clear.last \in 0 .. arrived /\ asked.clear.dropped \in 0 .. Log!Dropped
         /\ asked.pause \in 0 .. arrived /\ asked.read \in 0 .. Log!Dropped
         /\ paused \in BOOLEAN /\ messages \in Seq(Log!Messages)
<1>1. messages \in Seq(Log!Messages) /\ Log!Dropped \in Nat
  BY DEF LogInv, Numbered
<1>2. Len(messages) \in Nat
  BY <1>1, LenProperties
<1>3. /\ asked.clear \in [last : 0 .. arrived, dropped : 0 .. Log!Dropped]
      /\ asked.pause \in 0 .. arrived /\ asked.read \in 0 .. Log!Dropped
  BY DEF LogInv, Log!TypeOK
<1>4. /\ Len(messages) <= MaxMessages /\ arrived \in 0 .. MaxArrivals
      /\ linesread \in 0 .. MaxMessages /\ first_visible_line \in 0 .. MaxMessages
      /\ since \in 0 .. arrived /\ paused \in BOOLEAN
  BY DEF LogInv, Log!TypeOK
<1>5. Log!Dropped = arrived - Len(messages)
  BY DEF Log!Dropped
<1> QED
  BY <1>1, <1>2, <1>3, <1>4, <1>5, SizesOfLog

LEMMA SameLines ==
  ASSUME NEW first, NEW end, NEW filter
  PROVE  Log!Lines(first, end, filter) = LinesOf(messages, first, end, filter)
<1>1. Log!Without(SubSeq(messages, first + 1, end), Log!Hidden(filter)) =
        Without(SubSeq(messages, first + 1, end), Log!Hidden(filter))
  BY DEF Log!Without, Without
<1> QED
  BY <1>1 DEF Log!Lines, LinesOf

LEMMA LogInit ==
  ASSUME PartsAssumption, Log!Init
  PROVE  LogInv
<1>1. /\ messages = <<>> /\ arrived = 0 /\ text = <<>> /\ linesread = 0 /\ first_visible_line = 0
      /\ shown = Severities /\ paused = FALSE /\ status = [visible |-> 0, pending |-> 0]
      /\ window = "idle" /\ since = 0
      /\ asked = [clear |-> [last |-> arrived, dropped |-> Log!Dropped], pause |-> 0, read |-> 0]
  BY DEF Log!Init, Log!Now
<1>2. Len(messages) = 0 /\ Len(text) = 0 /\ messages \in Seq(Log!Messages) /\ text \in Seq(Log!Messages)
  BY <1>1, EmptySeq
<1>3. Log!Dropped = 0
  <2>1. Log!Dropped = arrived - Len(messages)
    BY DEF Log!Dropped
  <2>2. arrived = 0 /\ Len(messages) = 0
    BY <1>1, <1>2
  <2> QED
    BY ONLY <2>1, <2>2
<1>4. LogSizes
  BY SizesOfLog
<1>5. Numbered(messages, 0)
  BY <1>2 DEF Numbered
<1>6. asked.clear = [last |-> 0, dropped |-> 0] /\ asked.pause = 0 /\ asked.read = 0
  BY <1>1, <1>3
<1>7. Log!TypeOK
  <2>1. asked \in [clear : [last : 0 .. arrived, dropped : 0 .. Log!Dropped], pause : 0 .. arrived, read : 0 .. Log!Dropped]
    BY <1>1, <1>3
  <2>2. status \in [visible : 0 .. MaxMessages, pending : 0 .. MaxMessages]
    BY <1>1, <1>4 DEF LogSizes
  <2>3. /\ MaxMessages \in Nat /\ MaxLines \in Nat /\ MaxArrivals \in Nat
    BY <1>4 DEF LogSizes
  <2>4. /\ Len(messages) <= MaxMessages /\ Len(text) <= MaxLines /\ arrived \in 0 .. MaxArrivals
        /\ linesread \in 0 .. MaxMessages /\ first_visible_line \in 0 .. MaxMessages /\ since \in 0 .. arrived
    <3>1. Len(messages) = 0 /\ Len(text) = 0 /\ arrived = 0 /\ linesread = 0 /\ first_visible_line = 0 /\ since = 0
      BY <1>1, <1>2
    <3> QED
      BY ONLY <2>3, <3>1
  <2>5. shown \subseteq Severities /\ Unknown \in shown /\ paused \in BOOLEAN
        /\ window \in {"idle", "rebuild", "status"}
    BY <1>1, <1>4 DEF LogSizes
  <2> QED
    BY <1>2, <2>1, <2>2, <2>4, <2>5 DEF Log!TypeOK
<1>8. TextOK
  <2>1. LinesOf(messages, 0, 0, shown) = <<>>
    BY <1>2, <1>5, LinesSpan
  <2>2. Span(text, 0, 0)
    BY <1>1, SpanEmpty
  <2> QED
    BY <1>1, <1>2, <1>3, <1>4, <1>6, <2>1, <2>2 DEF TextOK, LogSizes
<1> QED
  BY <1>3, <1>5, <1>7, <1>8 DEF LogInv

\* A message without a trim.
LEMMA StoredPlainly ==
  ASSUME PartsAssumption, LogInv, NEW m \in Log!Messages, m.n = arrived + 1, Len(messages) < MaxMessages
  PROVE  /\ Log!Stored(messages, m) = Append(messages, m)
         /\ Len(Append(messages, m)) = Len(messages) + 1
         /\ Numbered(Append(messages, m), Log!Dropped)
         /\ \A filter : \A end \in 0 .. Len(messages) :
               LinesOf(Append(messages, m), 0, end, filter) = LinesOf(messages, 0, end, filter)
<1> DEFINE q == Append(messages, m)
<1>1. messages \in Seq(Log!Messages) /\ Len(messages) \in Nat /\ Log!Dropped = arrived - Len(messages) /\ MaxMessages \in Nat
      /\ arrived \in Nat /\ Log!Dropped \in Nat
  BY LogNumbers DEF LogSizes
<1>2. /\ q \in Seq(Log!Messages) /\ Len(q) = Len(messages) + 1
      /\ \A i \in 1 .. Len(messages) : q[i] = messages[i]
      /\ q[Len(messages) + 1] = m
  BY <1>1, AppendProperties
<1>3. Log!Stored(messages, m) = q
  BY <1>1, <1>2 DEF Log!Stored, Log!Trimmed
<1> HIDE DEF q
<1>4. \A i \in 1 .. Len(q) : q[i].n = Log!Dropped + i
  <2>1. \A i \in 1 .. Len(messages) : messages[i].n = Log!Dropped + i
    BY DEF LogInv, Numbered
  <2>2. ASSUME NEW i \in 1 .. Len(q) PROVE q[i].n = Log!Dropped + i
    <3>1. i \in 1 .. Len(messages) \/ i = Len(messages) + 1
      BY <1>1, <1>2
    <3>2. m.n = Log!Dropped + (Len(messages) + 1)
      BY <1>1
    <3> QED
      BY <1>2, <2>1, <3>1, <3>2
  <2> QED
    BY <2>2
<1>5. Numbered(q, Log!Dropped)
  BY <1>1, <1>2, <1>4 DEF Numbered
<1>6. ASSUME NEW end \in 0 .. Len(messages), NEW filter
      PROVE  LinesOf(q, 0, end, filter) = LinesOf(messages, 0, end, filter)
  <2> DEFINE s == SubSeq(q, 1, end)
             t == SubSeq(messages, 1, end)
  <2>1. \A i \in 1 .. end : i \in 1 .. Len(messages) /\ i \in 1 .. Len(q) /\ end - 1 + 1 = end /\ 1 + i - 1 = i
    BY <1>1, <1>2
  <2>2. \A i \in 1 .. end : q[i] \in Log!Messages /\ messages[i] \in Log!Messages
    BY <1>1, <1>2, <2>1, ElementOfSeq
  <2>3. /\ s \in Seq(Log!Messages) /\ Len(s) = (IF 1 <= end THEN end - 1 + 1 ELSE 0)
        /\ \A i \in 1 .. end - 1 + 1 : s[i] = q[1 + i - 1]
    BY <1>1, <2>2, SubSeqProperties
  <2>4. /\ t \in Seq(Log!Messages) /\ Len(t) = (IF 1 <= end THEN end - 1 + 1 ELSE 0)
        /\ \A i \in 1 .. end - 1 + 1 : t[i] = messages[1 + i - 1]
    BY <1>1, <2>2, SubSeqProperties
  <2> HIDE DEF s, t
  <2>5. Len(s) = end /\ Len(t) = end
    BY <1>1, <2>3, <2>4
  <2>6. \A i \in 1 .. end : s[i] = t[i]
    BY <1>1, <1>2, <2>1, <2>3, <2>4
  <2>7. s = t
    BY <2>3, <2>4, <2>5, <2>6, SeqEqual
  <2>8. 0 + 1 = 1
    OBVIOUS
  <2> QED
    BY <2>7, <2>8 DEF LinesOf, s, t
<1> QED
  BY <1>2, <1>3, <1>5, <1>6 DEF q

\* A message that makes the buffer drop its oldest.
LEMMA StoredTrimmed ==
  ASSUME PartsAssumption, LogInv, NEW m \in Log!Messages, m.n = arrived + 1, Len(messages) = MaxMessages
  PROVE  /\ Log!Stored(messages, m) \in Seq(Log!Messages)
         /\ Len(Log!Stored(messages, m)) = MaxMessages + 1 - TrimMessages
         /\ Numbered(Log!Stored(messages, m), Log!Dropped + TrimMessages)
<1> DEFINE q == Append(messages, m)
           k == SubSeq(q, TrimMessages + 1, Len(q))
<1>1. messages \in Seq(Log!Messages) /\ Log!Dropped = arrived - Len(messages) /\ MaxMessages \in Nat
      /\ arrived \in Nat /\ Log!Dropped \in Nat /\ TrimMessages \in 1 .. MaxMessages
  BY LogNumbers DEF LogSizes
<1>2. /\ q \in Seq(Log!Messages) /\ Len(q) = Len(messages) + 1
      /\ \A i \in 1 .. Len(messages) : q[i] = messages[i]
      /\ q[Len(messages) + 1] = m
  BY <1>1, AppendProperties
<1>3. Log!Stored(messages, m) = k
  <2>1. Len(q) > MaxMessages
    BY <1>1, <1>2
  <2> QED
    BY <2>1 DEF Log!Stored, Log!Trimmed
<1> HIDE DEF q
<1>4. Len(q) = MaxMessages + 1
  BY <1>1, <1>2
<1>5. \A i \in 1 .. Len(q) : q[i].n = Log!Dropped + i
  <2>1. \A i \in 1 .. Len(messages) : messages[i].n = Log!Dropped + i
    BY DEF LogInv, Numbered
  <2>2. ASSUME NEW i \in 1 .. Len(q) PROVE q[i].n = Log!Dropped + i
    <3>1. i \in 1 .. Len(messages) \/ i = Len(messages) + 1
      BY <1>1, <1>4
    <3>2. m.n = Log!Dropped + (Len(messages) + 1)
      BY <1>1
    <3> QED
      BY <1>2, <2>1, <3>1, <3>2
  <2> QED
    BY <2>2
<1>6. \A i \in TrimMessages + 1 .. Len(q) : q[i] \in Log!Messages
  <2>1. \A i \in TrimMessages + 1 .. Len(q) : i \in 1 .. Len(q)
    BY <1>1, <1>4
  <2> QED
    BY <1>2, <2>1, ElementOfSeq
<1>7. /\ k \in Seq(Log!Messages) /\ Len(k) = (IF TrimMessages + 1 <= Len(q) THEN Len(q) - (TrimMessages + 1) + 1 ELSE 0)
      /\ \A i \in 1 .. Len(q) - (TrimMessages + 1) + 1 : k[i] = q[TrimMessages + 1 + i - 1]
  BY <1>1, <1>4, <1>6, SubSeqProperties
<1> HIDE DEF k
<1>8. Len(k) = MaxMessages + 1 - TrimMessages
  BY <1>1, <1>4, <1>7
<1>9. ASSUME NEW i \in 1 .. Len(k) PROVE k[i].n = Log!Dropped + TrimMessages + i
  <2>1. i \in 1 .. Len(q) - (TrimMessages + 1) + 1 /\ TrimMessages + 1 + i - 1 = TrimMessages + i
        /\ TrimMessages + i \in 1 .. Len(q)
    BY <1>1, <1>4, <1>8
  <2>2. k[i].n = Log!Dropped + (TrimMessages + i)
    BY <1>5, <1>7, <2>1
  <2> QED
    BY <1>1, <2>2
<1>10. Numbered(k, Log!Dropped + TrimMessages)
  BY <1>1, <1>7, <1>9 DEF Numbered
<1> QED
  BY <1>3, <1>7, <1>8, <1>10

LEMMA WiderRange ==
  ASSUME NEW a \in Int, NEW b \in Int, a <= b
  PROVE  0 .. a \subseteq 0 .. b
OBVIOUS

\* What was asked stays what it may be, as more arrives.
LEMMA WiderRecord ==
  ASSUME NEW A, NEW B, NEW C, NEW D, A \subseteq C, B \subseteq D,
         NEW r \in [clear : [last : A, dropped : B], pause : A, read : B]
  PROVE  r \in [clear : [last : C, dropped : D], pause : C, read : D]
OBVIOUS

LEMMA LogKeeps ==
  ASSUME PartsAssumption, LogInv, NEW severity \in Severities, Log!Log(severity)
  PROVE  LogInv'
<1> DEFINE m == [n |-> arrived + 1, severity |-> severity]
<1>1. /\ arrived < MaxArrivals /\ arrived' = arrived + 1 /\ since' = since + 1 /\ messages' = Log!Stored(messages, m)
      /\ UNCHANGED <<text, linesread, first_visible_line, shown, paused, status, window, asked>>
  BY DEF Log!Log
<1>2. /\ Len(messages) \in Nat /\ Len(messages) <= MaxMessages /\ arrived \in 0 .. MaxArrivals
      /\ Log!Dropped \in Nat /\ Log!Dropped = arrived - Len(messages)
      /\ linesread \in 0 .. MaxMessages /\ first_visible_line \in 0 .. MaxMessages
      /\ since \in 0 .. arrived /\ MaxArrivals \in Nat /\ MaxMessages \in Nat /\ TrimMessages \in 1 .. MaxMessages
      /\ asked.clear.last \in 0 .. arrived /\ asked.clear.dropped \in 0 .. Log!Dropped
      /\ asked.pause \in 0 .. arrived /\ asked.read \in 0 .. Log!Dropped
  BY LogNumbers DEF LogSizes
<1>3. m \in Log!Messages /\ m.n = arrived + 1
  <2>1. arrived + 1 \in 1 .. MaxArrivals
    BY <1>1, <1>2
  <2> QED
    BY <2>1 DEF Log!Messages
<1> HIDE DEF m
<1>4. asked \in [clear : [last : 0 .. arrived, dropped : 0 .. Log!Dropped], pause : 0 .. arrived, read : 0 .. Log!Dropped]
  BY DEF LogInv, Log!TypeOK
<1>5. Log!Dropped' = arrived' - Len(messages')
  BY DEF Log!Dropped
<1>6. CASE Len(messages) < MaxMessages
  <2>1. /\ messages' = Append(messages, m) /\ Len(messages') = Len(messages) + 1
        /\ Numbered(messages', Log!Dropped)
        /\ \A filter : \A end \in 0 .. Len(messages) : LinesOf(messages', 0, end, filter) = LinesOf(messages, 0, end, filter)
    BY <1>1, <1>3, <1>6, StoredPlainly
  <2>2. Log!Dropped' = Log!Dropped
    BY <1>1, <1>2, <1>5, <2>1
  <2>3. Numbered(messages', Log!Dropped')
    BY <2>1, <2>2
  <2>4. Log!TypeOK'
    <3>1. asked' \in [clear : [last : 0 .. arrived', dropped : 0 .. Log!Dropped'], pause : 0 .. arrived', read : 0 .. Log!Dropped']
      <4>1. 0 .. arrived \subseteq 0 .. arrived' /\ 0 .. Log!Dropped \subseteq 0 .. Log!Dropped'
        <5>1. arrived \in Int /\ arrived' \in Int /\ arrived <= arrived'
          BY <1>1, <1>2
        <5>2. Log!Dropped \in Int /\ Log!Dropped' \in Int /\ Log!Dropped <= Log!Dropped'
          BY <1>2, <2>2
        <5>3. 0 .. arrived \subseteq 0 .. arrived'
          BY <5>1, WiderRange
        <5>4. 0 .. Log!Dropped \subseteq 0 .. Log!Dropped'
          BY <5>2, WiderRange
        <5> QED
          BY <5>3, <5>4
      <4>2. asked' = asked
        BY <1>1
      <4> QED
        BY <1>4, <4>1, <4>2, WiderRecord
    <3>2. arrived' \in 0 .. MaxArrivals /\ since' \in 0 .. arrived' /\ Len(messages') <= MaxMessages
      <4>1. /\ arrived' = arrived + 1 /\ since' = since + 1 /\ arrived < MaxArrivals /\ arrived \in 0 .. MaxArrivals
            /\ since \in 0 .. arrived /\ MaxArrivals \in Nat
        BY <1>1, <1>2
      <4>2. /\ Len(messages') = Len(messages) + 1 /\ Len(messages) < MaxMessages
            /\ Len(messages) \in Nat /\ MaxMessages \in Nat
        BY <1>2, <1>6, <2>1
      <4> QED
        BY ONLY <4>1, <4>2
    <3>3. messages' \in Seq(Log!Messages)
      BY <2>3 DEF Numbered
    <3> QED
      BY <1>1, <3>1, <3>2, <3>3 DEF LogInv, Log!TypeOK
  <2>5. TextOK'
    <3>1. Len(messages) <= linesread + since
      BY DEF LogInv, TextOK
    <3>2. Len(messages') <= linesread' + since' /\ since' # 0
      <4>1. /\ linesread' = linesread /\ since' = since + 1 /\ Len(messages') = Len(messages) + 1
            /\ linesread \in Nat /\ since \in Nat /\ Len(messages) \in Nat
        BY <1>1, <1>2, <2>1
      <4> QED
        BY ONLY <3>1, <4>1
    <3>3. /\ Span(text', 0, Log!Dropped' + linesread') /\ Len(text') <= MaxLines
          /\ asked'.read = Log!Dropped' => linesread' <= Len(messages')
          /\ asked'.clear.dropped = Log!Dropped' =>
               /\ linesread' <= Len(messages') /\ first_visible_line' <= linesread'
               /\ first_visible_line' + Log!Dropped' = asked'.clear.last
               /\ Span(text', asked'.clear.last, Log!Dropped' + linesread')
          /\ paused' /\ asked'.read = Log!Dropped' =>
               /\ linesread' + Log!Dropped' <= asked'.pause \/ linesread' <= first_visible_line'
               /\ Span(text', 0, asked'.pause)
      <4>1. \A x \in Nat : x <= Len(messages) => x <= Len(messages')
        BY <1>2, <2>1
      <4> QED
        BY <1>1, <1>2, <2>2, <4>1 DEF LogInv, TextOK
    <3>4. ASSUME window' # "rebuild", first_visible_line' = 0, since' < TrimMessages
          PROVE  \/ Len(messages') + TrimMessages <= linesread' + since'
                 \/ linesread' <= Len(messages') /\ text' = LinesOf(messages', 0, linesread', shown')
      <4>1. window # "rebuild" /\ first_visible_line = 0 /\ since < TrimMessages
        BY <1>1, <1>2, <3>4
      <4>2. \/ Len(messages) + TrimMessages <= linesread + since
            \/ linesread <= Len(messages) /\ text = LinesOf(messages, 0, linesread, shown)
        BY <4>1 DEF LogInv, TextOK
      <4>3. CASE Len(messages) + TrimMessages <= linesread + since
        BY <1>1, <1>2, <2>1, <4>3
      <4>4. CASE linesread <= Len(messages) /\ text = LinesOf(messages, 0, linesread, shown)
        <5>1. linesread \in 0 .. Len(messages) /\ linesread <= Len(messages')
          BY <1>2, <2>1, <4>4
        <5> QED
          BY <1>1, <2>1, <4>4, <5>1
      <4> QED
        BY <4>2, <4>3, <4>4
    <3>5. window' = "rebuild" => ~paused' /\ first_visible_line' = 0
      BY <1>1 DEF LogInv, TextOK
    <3> QED
      BY <3>2, <3>3, <3>4, <3>5 DEF TextOK
  <2> QED
    BY <2>3, <2>4, <2>5 DEF LogInv
<1>7. CASE Len(messages) = MaxMessages
  <2>1. /\ messages' \in Seq(Log!Messages) /\ Len(messages') = MaxMessages + 1 - TrimMessages
        /\ Numbered(messages', Log!Dropped + TrimMessages)
    BY <1>1, <1>3, <1>7, StoredTrimmed
  <2>2. Log!Dropped' = Log!Dropped + TrimMessages
    BY <1>1, <1>2, <1>5, <1>7, <2>1
  <2>3. Numbered(messages', Log!Dropped')
    BY <2>1, <2>2
  <2>4. Log!TypeOK'
    <3>1. asked' \in [clear : [last : 0 .. arrived', dropped : 0 .. Log!Dropped'], pause : 0 .. arrived', read : 0 .. Log!Dropped']
      <4>1. 0 .. arrived \subseteq 0 .. arrived' /\ 0 .. Log!Dropped \subseteq 0 .. Log!Dropped'
        <5>1. arrived \in Int /\ arrived' \in Int /\ arrived <= arrived'
          BY <1>1, <1>2
        <5>2. Log!Dropped \in Int /\ Log!Dropped' \in Int /\ Log!Dropped <= Log!Dropped'
          BY <1>2, <2>2
        <5>3. 0 .. arrived \subseteq 0 .. arrived'
          BY <5>1, WiderRange
        <5>4. 0 .. Log!Dropped \subseteq 0 .. Log!Dropped'
          BY <5>2, WiderRange
        <5> QED
          BY <5>3, <5>4
      <4>2. asked' = asked
        BY <1>1
      <4> QED
        BY <1>4, <4>1, <4>2, WiderRecord
    <3>2. arrived' \in 0 .. MaxArrivals /\ since' \in 0 .. arrived' /\ Len(messages') <= MaxMessages
      BY <1>1, <1>2, <2>1
    <3> QED
      BY <1>1, <2>1, <3>1, <3>2 DEF LogInv, Log!TypeOK
  <2>5. TextOK'
    <3>1. Span(text, 0, Log!Dropped + linesread) /\ Len(text) <= MaxLines /\ Len(messages) <= linesread + since
      BY DEF LogInv, TextOK
    <3>2. Span(text', 0, Log!Dropped' + linesread')
      <4>1. /\ Log!Dropped + linesread \in Int /\ Log!Dropped' + linesread' \in Int
            /\ Log!Dropped + linesread <= Log!Dropped' + linesread'
        BY <1>1, <1>2, <2>2
      <4> QED
        BY <1>1, <3>1, <4>1, SpanWider
    <3>3. asked'.read # Log!Dropped' /\ asked'.clear.dropped # Log!Dropped'
      BY <1>1, <1>2, <2>2
    <3>4. Len(messages') <= linesread' + since' /\ Len(messages') + TrimMessages <= linesread' + since' /\ since' # 0
      <4>1. MaxMessages <= linesread + since
        BY <1>7, <3>1
      <4>2. /\ linesread' = linesread /\ since' = since + 1 /\ Len(messages') = MaxMessages + 1 - TrimMessages
            /\ linesread \in Nat /\ since \in Nat /\ MaxMessages \in Nat /\ TrimMessages \in 1 .. MaxMessages
        BY <1>1, <1>2, <2>1
      <4> QED
        BY ONLY <4>1, <4>2
    <3>5. window' = "rebuild" => ~paused' /\ first_visible_line' = 0
      BY <1>1 DEF LogInv, TextOK
    <3> QED
      BY <1>1, <3>1, <3>2, <3>3, <3>4, <3>5 DEF TextOK
  <2> QED
    BY <2>3, <2>4, <2>5 DEF LogInv
<1> QED
  BY <1>2, <1>6, <1>7

\* An action of the window: the buffer stays.
LEMMA WindowKeeps ==
  ASSUME PartsAssumption, LogInv, UNCHANGED <<messages, arrived>>,
         linesread' \in 0 .. MaxMessages, first_visible_line' \in 0 .. MaxMessages,
         shown' \subseteq Severities, Unknown \in shown', paused' \in BOOLEAN,
         status' \in [visible : 0 .. MaxMessages, pending : 0 .. MaxMessages],
         window' \in {"idle", "rebuild", "status"}, since' \in 0 .. arrived,
         asked' \in [clear : [last : 0 .. arrived, dropped : 0 .. Log!Dropped],
                     pause : 0 .. arrived, read : 0 .. Log!Dropped],
         TextOK'
  PROVE  LogInv'
<1>1. Log!Dropped' = Log!Dropped
  BY DEF Log!Dropped
<1>2. Numbered(messages', Log!Dropped')
  BY <1>1 DEF LogInv
<1>3. text' \in Seq(Log!Messages) /\ Len(text') <= MaxLines
  BY DEF TextOK, Span
<1>4. Log!TypeOK'
  BY <1>1, <1>3 DEF LogInv, Log!TypeOK
<1> QED
  BY <1>2, <1>4 DEF LogInv

\* What Rebuild leaves in the text box.
LEMMA Rebuilt ==
  ASSUME PartsAssumption, LogInv, NEW first \in Nat, NEW filter, NEW pause \in BOOLEAN,
         Log!Rebuild(first, filter, pause)
  PROVE  /\ first_visible_line' = first
         /\ linesread' = IF pause /\ linesread <= Len(messages) THEN linesread ELSE Len(messages)
         /\ linesread' \in 0 .. Len(messages)
         /\ text' = LinesOf(messages, first, linesread', filter)
         /\ Span(text', Log!Dropped + first, Log!Dropped + linesread') /\ Len(text') <= MaxLines
         /\ first >= linesread' => text' = <<>>
<1> DEFINE end == Log!End(linesread, pause)
<1>1. /\ Len(messages) \in Nat /\ Len(messages) <= MaxMessages /\ Log!Dropped \in Nat
      /\ linesread \in 0 .. MaxMessages /\ MaxMessages \in Nat /\ MaxMessages <= MaxLines /\ MaxLines \in Nat
  BY LogNumbers DEF LogSizes
<1>2. /\ first_visible_line' = first /\ linesread' = end
      /\ text' = Log!Kept(LinesOf(messages, first, end, filter))
  BY SameLines DEF Log!Rebuild
<1>3. /\ end = IF pause /\ linesread <= Len(messages) THEN linesread ELSE Len(messages)
      /\ end \in 0 .. Len(messages)
  BY <1>1 DEF Log!End, Log!Smaller
<1> HIDE DEF end
<1> DEFINE lines == LinesOf(messages, first, end, filter)
<1>4. /\ Span(lines, Log!Dropped + first, Log!Dropped + end) /\ Len(lines) <= end
      /\ first >= end => lines = <<>>
  BY <1>3, LinesSpan DEF LogInv
<1>5. Len(lines) \in Nat
  BY <1>4, MessageNumber DEF Span
<1> HIDE DEF lines
<1>6. Len(lines) <= MaxLines
  BY <1>1, <1>3, <1>4, <1>5
<1>7. Log!Kept(lines) = lines
  BY <1>1, <1>3, <1>4, <1>6, SpanKept
<1>8. text' = lines
  BY <1>2, <1>7 DEF lines
<1> QED
  BY <1>2, <1>3, <1>4, <1>6, <1>8 DEF lines

\* What update_log leaves in it, when the view is not paused and it saw no trim.
LEMMA Updated ==
  ASSUME PartsAssumption, LogInv, window # "rebuild", Log!Update, ~paused', ~Log!HasShrunk
  PROVE  /\ window' = "status" /\ asked' = [asked EXCEPT !.read = Log!Dropped]
         /\ linesread' = Len(messages) /\ first_visible_line' = first_visible_line /\ since' \in 0 .. arrived
         /\ Span(text', 0, Log!Dropped + Len(messages)) /\ Len(text') <= MaxLines
         /\ asked.clear.dropped = Log!Dropped => Span(text', asked.clear.last, Log!Dropped + Len(messages))
         /\ first_visible_line' = 0 /\ since' < TrimMessages =>
              text' = LinesOf(messages, 0, Len(messages), shown)
<1>1. /\ Len(messages) \in Nat /\ Len(messages) <= MaxMessages /\ Log!Dropped \in Nat /\ arrived \in Nat
      /\ linesread \in 0 .. MaxMessages /\ first_visible_line \in 0 .. MaxMessages /\ since \in 0 .. arrived
      /\ MaxMessages \in Nat /\ MaxMessages <= MaxLines /\ MaxLines \in Nat
      /\ TrimMessages \in 1 .. MaxMessages /\ asked.clear.last \in 0 .. arrived
      /\ messages \in Seq(Log!Messages)
  BY LogNumbers DEF LogSizes
<1>2. /\ text' = Log!Kept(text \o LinesOf(messages, linesread, Len(messages), shown))
      /\ linesread' = Len(messages) /\ first_visible_line' = first_visible_line
      /\ since' = (IF since >= TrimMessages THEN since ELSE 0)
      /\ window' = "status" /\ asked' = [asked EXCEPT !.read = Log!Dropped]
  BY SameLines DEF Log!Update
<1>3. since' \in 0 .. arrived /\ (since' < TrimMessages => since < TrimMessages)
  BY <1>1, <1>2
<1>4. Len(messages) >= linesread /\ first_visible_line <= Len(messages)
  BY <1>1 DEF Log!HasShrunk
<1> DEFINE added == LinesOf(messages, linesread, Len(messages), shown)
           both == text \o added
<1>5. text' = Log!Kept(both) /\ linesread' = Len(messages) /\ first_visible_line' = first_visible_line
  BY <1>2
<1>6. linesread \in 0 .. Len(messages) /\ first_visible_line <= Len(messages)
  BY <1>1, <1>4
<1>7. Span(added, Log!Dropped + linesread, Log!Dropped + Len(messages))
  <2>1. linesread \in Nat /\ Len(messages) \in 0 .. Len(messages)
    BY <1>1
  <2> QED
    BY <2>1, LinesSpan DEF LogInv
<1> DEFINE mid == Log!Dropped + linesread
           hi == Log!Dropped + Len(messages)
<1>8. mid \in Int /\ hi \in Int /\ 0 \in Int /\ 0 <= mid /\ mid <= hi
  BY <1>1, <1>6
<1>9. Span(text, 0, mid)
  BY DEF LogInv, TextOK
<1> HIDE DEF mid, hi
<1>10. Span(both, 0, hi)
  BY <1>7, <1>8, <1>9, SpanJoined DEF mid, hi
<1>11. asked.clear.dropped = Log!Dropped => Span(both, asked.clear.last, hi)
  <2>1. SUFFICES ASSUME asked.clear.dropped = Log!Dropped PROVE Span(both, asked.clear.last, hi)
    OBVIOUS
  <2>2. first_visible_line <= linesread /\ first_visible_line + Log!Dropped = asked.clear.last
        /\ Span(text, asked.clear.last, mid)
    BY <2>1 DEF LogInv, TextOK, mid
  <2>3. asked.clear.last \in Int /\ asked.clear.last <= mid
    BY <1>1, <2>2 DEF mid
  <2> QED
    BY <1>7, <1>8, <2>2, <2>3, SpanJoined DEF mid, hi
<1>12. Span(text', 0, hi) /\ Len(text') <= MaxLines
  BY <1>5, <1>8, <1>10, SpanKept
<1>13. asked.clear.dropped = Log!Dropped => Span(text', asked.clear.last, hi)
  <2>1. asked.clear.last \in Int
    BY <1>1
  <2> QED
    BY <1>5, <1>8, <1>11, <2>1, SpanKept
<1>14. ASSUME first_visible_line' = 0, since' < TrimMessages
       PROVE  text' = LinesOf(messages, 0, Len(messages), shown)
  <2>1. first_visible_line = 0 /\ since < TrimMessages
    BY <1>2, <1>3, <1>14
  <2>2. \/ Len(messages) + TrimMessages <= linesread + since
        \/ text = LinesOf(messages, 0, linesread, shown)
    BY <2>1 DEF LogInv, TextOK
  <2>3. ~(Len(messages) + TrimMessages <= linesread + since)
    BY <1>1, <1>6, <2>1
  <2>4. text = LinesOf(messages, 0, linesread, shown)
    BY <2>2, <2>3
  <2>5. both = LinesOf(messages, 0, Len(messages), shown)
    <3>1. Len(messages) \in linesread .. Len(messages)
      BY <1>1, <1>6
    <3> QED
      BY <1>1, <1>6, <2>4, <3>1, LinesJoin
  <2>6. Len(both) <= MaxLines
    <3>1. 0 \in Nat /\ Len(messages) \in 0 .. Len(messages)
      BY <1>1
    <3>2. Len(both) <= Len(messages)
      BY <2>5, <3>1, LinesSpan DEF LogInv
    <3>3. Len(both) \in Nat
      BY <1>10, MessageNumber DEF Span
    <3> HIDE DEF both
    <3> QED
      BY <1>1, <3>2, <3>3
  <2> QED
    BY <1>5, <1>8, <1>10, <2>5, <2>6, SpanKept
<1> QED
  BY <1>1, <1>2, <1>3, <1>5, <1>12, <1>13, <1>14 DEF hi

\* What the user asked for, after a handler that reads the positions or clears.
LEMMA AskedTyped ==
  ASSUME PartsAssumption, LogInv, NEW read \in 0 .. Log!Dropped
  PROVE  /\ [asked EXCEPT !.read = read] \in [clear : [last : 0 .. arrived, dropped : 0 .. Log!Dropped],
                                              pause : 0 .. arrived, read : 0 .. Log!Dropped]
         /\ [asked EXCEPT !.pause = arrived, !.read = read] \in
              [clear : [last : 0 .. arrived, dropped : 0 .. Log!Dropped], pause : 0 .. arrived, read : 0 .. Log!Dropped]
         /\ [asked EXCEPT !.clear = Log!Now, !.read = read] \in
              [clear : [last : 0 .. arrived, dropped : 0 .. Log!Dropped], pause : 0 .. arrived, read : 0 .. Log!Dropped]
         /\ LET a == [asked EXCEPT !.read = read]
            IN  a.clear = asked.clear /\ a.pause = asked.pause /\ a.read = read
         /\ LET a == [asked EXCEPT !.pause = arrived, !.read = read]
            IN  a.clear = asked.clear /\ a.pause = arrived /\ a.read = read
         /\ LET a == [asked EXCEPT !.clear = Log!Now, !.read = read]
            IN  a.clear = [last |-> arrived, dropped |-> Log!Dropped] /\ a.pause = asked.pause /\ a.read = read
<1>1. asked \in [clear : [last : 0 .. arrived, dropped : 0 .. Log!Dropped], pause : 0 .. arrived, read : 0 .. Log!Dropped]
  BY DEF LogInv, Log!TypeOK
<1>2. arrived \in 0 .. arrived /\ Log!Dropped \in 0 .. Log!Dropped
  BY LogNumbers
<1>3. Log!Now = [last |-> arrived, dropped |-> Log!Dropped]
  BY DEF Log!Now
<1> QED
  BY <1>1, <1>2, <1>3

\* What asked may be.
Asks == [clear : [last : 0 .. arrived, dropped : 0 .. Log!Dropped],
         pause : 0 .. arrived, read : 0 .. Log!Dropped]

\* An update of a view that is not paused.
LEMMA UpdateKeeps ==
  ASSUME PartsAssumption, LogInv, UNCHANGED <<messages, arrived, shown, status>>,
         window # "rebuild", Log!Update, paused' = FALSE
  PROVE  LogInv'
<1>1. /\ Len(messages) \in Nat /\ Len(messages) <= MaxMessages /\ Log!Dropped \in Nat
      /\ linesread \in 0 .. MaxMessages /\ first_visible_line \in 0 .. MaxMessages
      /\ since \in 0 .. arrived /\ MaxMessages \in Nat
  BY LogNumbers DEF LogSizes
<1>2. Log!Dropped' = Log!Dropped
  BY DEF Log!Dropped
<1>3. /\ shown' \subseteq Severities /\ Unknown \in shown' /\ asked \in Asks
      /\ status' \in [visible : 0 .. MaxMessages, pending : 0 .. MaxMessages]
  BY DEF LogInv, Log!TypeOK, Asks
<1>4. asked.clear.dropped = Log!Dropped =>
        /\ linesread <= Len(messages) /\ first_visible_line <= linesread
        /\ first_visible_line + Log!Dropped = asked.clear.last
  BY DEF LogInv, TextOK
<1>5. CASE Log!HasShrunk
  <2>1. /\ window' = "rebuild" /\ first_visible_line' = 0
        /\ UNCHANGED <<text, linesread, since, asked>>
    BY <1>5 DEF Log!Update
  <2>2. asked.clear.dropped # Log!Dropped
    BY <1>1, <1>4, <1>5 DEF Log!HasShrunk
  <2>3. TextOK'
    BY <1>2, <2>1, <2>2 DEF LogInv, TextOK
  <2>4. 0 \in 0 .. MaxMessages
    BY <1>1
  <2> QED
    BY <1>1, <1>3, <2>1, <2>3, <2>4, WindowKeeps DEF Asks
<1>6. CASE ~Log!HasShrunk
  <2>1. /\ window' = "status" /\ asked' = [asked EXCEPT !.read = Log!Dropped]
        /\ linesread' = Len(messages) /\ first_visible_line' = first_visible_line /\ since' \in 0 .. arrived
        /\ Span(text', 0, Log!Dropped + Len(messages)) /\ Len(text') <= MaxLines
        /\ asked.clear.dropped = Log!Dropped => Span(text', asked.clear.last, Log!Dropped + Len(messages))
        /\ first_visible_line' = 0 /\ since' < TrimMessages =>
             text' = LinesOf(messages, 0, Len(messages), shown)
    BY <1>6, Updated
  <2>2. Log!Dropped \in 0 .. Log!Dropped
    BY <1>1
  <2>3. asked' \in Asks /\ asked'.clear = asked.clear /\ asked'.read = Log!Dropped
    BY <2>1, <2>2, AskedTyped DEF Asks
  <2>4. asked.clear.dropped = Log!Dropped => first_visible_line <= Len(messages)
    BY <1>1, <1>4
  <2>5. Len(messages) <= linesread' + since' /\ linesread' <= Len(messages) /\ linesread' \in 0 .. MaxMessages
    BY <1>1, <2>1
  <2>6. TextOK'
    BY <1>2, <1>4, <2>1, <2>3, <2>4, <2>5 DEF TextOK
  <2> QED
    BY <1>1, <1>3, <2>1, <2>3, <2>5, <2>6, WindowKeeps DEF Asks
<1> QED
  BY <1>5, <1>6

\* Neither the timer nor the button changes anything of a paused view.
LEMMA PausedUpdate ==
  ASSUME Log!Update, paused' = TRUE
  PROVE  window' = "status" /\ UNCHANGED <<text, linesread, first_visible_line, since, asked>>
BY DEF Log!Update

LEMMA TimerTicks ==
  ASSUME PartsAssumption, LogInv, Log!Timer
  PROVE  LogInv'
<1>1. window = "idle" /\ Log!Update /\ UNCHANGED <<messages, arrived, shown, paused, status>>
  BY DEF Log!Timer, Log!buffer
<1>2. CASE paused = FALSE
  BY <1>1, <1>2, UpdateKeeps
<1>3. CASE paused = TRUE
  <2>1. window' = "status" /\ UNCHANGED <<text, linesread, first_visible_line, since, asked>>
    BY <1>1, <1>3, PausedUpdate
  <2>2. Log!Dropped' = Log!Dropped
    BY <1>1 DEF Log!Dropped
  <2>3. TextOK'
    BY <1>1, <2>1, <2>2 DEF LogInv, TextOK
  <2> QED
    BY <1>1, <2>1, <2>3, WindowKeeps DEF LogInv, Log!TypeOK
<1> QED
  BY <1>2, <1>3, LogNumbers

LEMMA PauseToggles ==
  ASSUME PartsAssumption, LogInv, Log!TogglePause
  PROVE  LogInv'
<1>1. window = "idle" /\ paused' = ~paused /\ UNCHANGED <<messages, arrived, shown, status>>
  BY DEF Log!TogglePause, Log!buffer
<1>2. CASE paused = TRUE
  <2>1. Log!Update /\ paused' = FALSE
    BY <1>1, <1>2 DEF Log!TogglePause
  <2> QED
    BY <1>1, <2>1, UpdateKeeps
<1>3. CASE paused = FALSE
  <2>1. /\ window' = "status" /\ asked' = [asked EXCEPT !.pause = arrived] /\ paused' = TRUE
        /\ UNCHANGED <<text, linesread, first_visible_line, since>>
    BY <1>1, <1>3 DEF Log!TogglePause
  <2>2. asked \in Asks /\ arrived \in 0 .. arrived
    BY LogNumbers DEF LogInv, Log!TypeOK, Asks
  <2>3. /\ asked' \in Asks /\ asked'.clear = asked.clear /\ asked'.pause = arrived
        /\ asked'.read = asked.read
    BY <2>1, <2>2 DEF Asks
  <2>4. Log!Dropped' = Log!Dropped
    BY <1>1 DEF Log!Dropped
  <2>5. asked.read = Log!Dropped => linesread + Log!Dropped <= arrived /\ Span(text, 0, arrived)
    <3>1. SUFFICES ASSUME asked.read = Log!Dropped
          PROVE  linesread + Log!Dropped <= arrived /\ Span(text, 0, arrived)
      OBVIOUS
    <3>2. linesread <= Len(messages) /\ Span(text, 0, Log!Dropped + linesread)
      BY <3>1 DEF LogInv, TextOK
    <3>3. /\ 0 \in Int /\ Log!Dropped + linesread \in Int /\ arrived \in Int /\ 0 <= 0
          /\ Log!Dropped + linesread <= arrived /\ linesread + Log!Dropped <= arrived
      BY <3>2, LogNumbers
    <3> QED
      BY <3>2, <3>3, SpanWider
  <2>6. TextOK'
    BY <1>1, <2>1, <2>3, <2>4, <2>5 DEF LogInv, TextOK
  <2> QED
    BY <1>1, <2>1, <2>3, <2>6, WindowKeeps DEF LogInv, Log!TypeOK, Asks
<1> QED
  BY <1>2, <1>3, LogNumbers

\* A handler that shows the buffer again, from the position it keeps.
LEMMA RebuildKeeps ==
  ASSUME PartsAssumption, LogInv, UNCHANGED <<messages, arrived, paused, status>>,
         Log!Rebuild(first_visible_line, shown', paused), shown' \subseteq Severities, Unknown \in shown',
         since' = IF paused THEN since ELSE 0, window' = "status",
         asked' = [asked EXCEPT !.read = IF paused THEN @ ELSE Log!Dropped]
  PROVE  LogInv'
<1>1. /\ Len(messages) \in Nat /\ Len(messages) <= MaxMessages /\ Log!Dropped \in Nat /\ arrived \in Nat
      /\ linesread \in 0 .. MaxMessages /\ first_visible_line \in 0 .. MaxMessages /\ since \in 0 .. arrived
      /\ MaxMessages \in Nat /\ TrimMessages \in 1 .. MaxMessages
      /\ paused \in BOOLEAN /\ asked.clear.last \in 0 .. arrived /\ asked.pause \in 0 .. arrived
  BY LogNumbers DEF LogSizes
<1>2. (IF paused THEN asked.read ELSE Log!Dropped) \in 0 .. Log!Dropped
  BY LogNumbers
<1>3. /\ asked' \in [clear : [last : 0 .. arrived, dropped : 0 .. Log!Dropped],
                     pause : 0 .. arrived, read : 0 .. Log!Dropped]
      /\ asked'.clear = asked.clear /\ asked'.pause = asked.pause
      /\ asked'.read = (IF paused THEN asked.read ELSE Log!Dropped)
  BY <1>2, AskedTyped
<1>4. first_visible_line \in Nat
  BY <1>1
<1>5. /\ first_visible_line' = first_visible_line
      /\ linesread' = IF paused /\ linesread <= Len(messages) THEN linesread ELSE Len(messages)
      /\ linesread' \in 0 .. Len(messages)
      /\ text' = LinesOf(messages, first_visible_line, linesread', shown')
      /\ Span(text', Log!Dropped + first_visible_line, Log!Dropped + linesread') /\ Len(text') <= MaxLines
      /\ first_visible_line >= linesread' => text' = <<>>
  BY <1>1, <1>4, Rebuilt
<1>6. Log!Dropped' = Log!Dropped
  BY DEF Log!Dropped
<1>7. Span(text', 0, Log!Dropped + linesread')
  <2>1. /\ 0 \in Int /\ Log!Dropped + first_visible_line \in Int /\ Log!Dropped + linesread' \in Int
        /\ 0 <= Log!Dropped + first_visible_line /\ Log!Dropped + linesread' <= Log!Dropped + linesread'
    <3>1. linesread' \in Nat
      BY <1>1, <1>5
    <3>2. first_visible_line \in Nat /\ Log!Dropped \in Nat
      BY <1>1
    <3> QED
      BY <3>1, <3>2
  <2> QED
    BY <1>5, <2>1, SpanWider
<1>8. asked.clear.dropped = Log!Dropped =>
         /\ linesread' <= Len(messages) /\ first_visible_line <= linesread'
         /\ first_visible_line + Log!Dropped = asked.clear.last
         /\ Span(text', asked.clear.last, Log!Dropped + linesread')
  <2>1. SUFFICES ASSUME asked.clear.dropped = Log!Dropped
        PROVE  /\ linesread' <= Len(messages) /\ first_visible_line <= linesread'
               /\ first_visible_line + Log!Dropped = asked.clear.last
               /\ Span(text', asked.clear.last, Log!Dropped + linesread')
    OBVIOUS
  <2>2. linesread <= Len(messages) /\ first_visible_line <= linesread /\ first_visible_line + Log!Dropped = asked.clear.last
    BY <2>1 DEF LogInv, TextOK
  <2>3. linesread' <= Len(messages) /\ first_visible_line <= linesread'
    BY <1>1, <1>5, <2>2
  <2>4. Log!Dropped + first_visible_line = asked.clear.last
    BY <1>1, <2>2
  <2> QED
    BY <1>5, <2>2, <2>3, <2>4
<1>9. paused /\ asked.read = Log!Dropped =>
         /\ linesread' + Log!Dropped <= asked.pause \/ linesread' <= first_visible_line
         /\ Span(text', 0, asked.pause)
  <2>1. SUFFICES ASSUME paused, asked.read = Log!Dropped
        PROVE  /\ linesread' + Log!Dropped <= asked.pause \/ linesread' <= first_visible_line
               /\ Span(text', 0, asked.pause)
    OBVIOUS
  <2>2. linesread <= Len(messages) /\ (linesread + Log!Dropped <= asked.pause \/ linesread <= first_visible_line)
    BY <2>1 DEF LogInv, TextOK
  <2>3. linesread' = linesread
    BY <1>5, <2>1, <2>2
  <2>4. CASE linesread + Log!Dropped <= asked.pause
    <3>1. /\ 0 \in Int /\ asked.pause \in Int /\ Log!Dropped + linesread' \in Int
          /\ Log!Dropped + linesread' <= asked.pause /\ 0 <= 0
      BY <1>1, <2>3, <2>4
    <3>2. Span(text', 0, asked.pause)
      BY <1>7, <3>1, SpanWider
    <3> QED
      BY <2>3, <2>4, <3>2
  <2>5. CASE linesread <= first_visible_line
    <3>1. text' = <<>>
      BY <1>1, <1>5, <2>3, <2>5
    <3> QED
      BY <2>3, <2>5, <3>1, SpanEmpty
  <2> QED
    BY <2>2, <2>4, <2>5
<1>10. Len(messages) <= linesread' + since' /\ (since' = 0 => linesread' = Len(messages))
  <2>1. Len(messages) <= linesread + since /\ (since = 0 => linesread = Len(messages))
    BY DEF LogInv, TextOK
  <2>2. CASE paused
    <3>1. since' = since /\ linesread' = IF linesread <= Len(messages) THEN linesread ELSE Len(messages)
      BY <1>5, <2>2
    <3>2. Len(messages) \in Nat /\ linesread \in Nat /\ since \in Nat
      BY <1>1
    <3> QED
      BY ONLY <2>1, <3>1, <3>2
  <2>3. CASE ~paused
    <3>1. since' = 0 /\ linesread' = Len(messages) /\ Len(messages) \in Nat
      BY <1>1, <1>5, <2>3
    <3> QED
      BY ONLY <3>1
  <2> QED
    BY <2>2, <2>3
<1>11. linesread' <= Len(messages) /\ linesread' \in 0 .. MaxMessages /\ since' \in 0 .. arrived
  BY <1>1, <1>5
<1>12. first_visible_line' = 0 => text' = LinesOf(messages, 0, linesread', shown')
  BY <1>5
<1>13. TextOK'
  BY <1>3, <1>5, <1>6, <1>7, <1>8, <1>9, <1>10, <1>11, <1>12 DEF TextOK
<1>14. first_visible_line' \in 0 .. MaxMessages /\ paused' \in BOOLEAN /\ window' \in {"idle", "rebuild", "status"}
  BY <1>1, <1>5
<1>15. status' \in [visible : 0 .. MaxMessages, pending : 0 .. MaxMessages]
  BY DEF LogInv, Log!TypeOK
<1> QED
  BY <1>3, <1>11, <1>13, <1>14, <1>15, WindowKeeps

LEMMA FilterToggles ==
  ASSUME PartsAssumption, LogInv, NEW severity \in Log!Filters, Log!ToggleFilter(severity)
  PROVE  LogInv'
<1>1. /\ shown' = Log!SymDiff(shown, {severity}) /\ Log!Rebuild(first_visible_line, shown', paused)
      /\ since' = (IF paused THEN since ELSE 0)
      /\ asked' = [asked EXCEPT !.read = IF paused THEN @ ELSE Log!Dropped]
      /\ window' = "status" /\ UNCHANGED <<messages, arrived, paused, status>>
  BY DEF Log!ToggleFilter, Log!buffer
<1>2. shown' \subseteq Severities /\ Unknown \in shown'
  BY <1>1 DEF Log!SymDiff, Log!Filters, LogInv, Log!TypeOK
<1> QED
  BY <1>1, <1>2, RebuildKeeps

LEMMA LogIsRebuilt ==
  ASSUME PartsAssumption, LogInv, Log!RebuildLog
  PROVE  LogInv'
<1>1. /\ window = "rebuild" /\ Log!Rebuild(first_visible_line, shown, paused) /\ since' = 0
      /\ asked' = [asked EXCEPT !.read = Log!Dropped]
      /\ window' = "status" /\ UNCHANGED <<messages, arrived, shown, paused, status>>
  BY DEF Log!RebuildLog, Log!buffer
<1>2. paused = FALSE /\ shown \subseteq Severities /\ Unknown \in shown
  BY <1>1 DEF LogInv, TextOK, Log!TypeOK
<1>3. Log!Rebuild(first_visible_line, shown', paused)
  BY <1>1
<1>4. asked' = [asked EXCEPT !.read = IF paused THEN @ ELSE Log!Dropped]
  BY <1>1, <1>2
<1> QED
  BY <1>1, <1>2, <1>3, <1>4, RebuildKeeps

LEMMA ViewIsCleared ==
  ASSUME PartsAssumption, LogInv, Log!Clear
  PROVE  LogInv'
<1>1. /\ first_visible_line' = Len(messages) /\ linesread' = Len(messages) /\ text' = <<>> /\ since' = 0
      /\ asked' = [asked EXCEPT !.clear = Log!Now, !.read = Log!Dropped]
      /\ window' = "status" /\ UNCHANGED <<messages, arrived, shown, paused, status>>
  BY DEF Log!Clear, Log!buffer
<1>2. /\ Len(messages) \in Nat /\ Len(messages) <= MaxMessages /\ Log!Dropped \in Nat /\ arrived \in Nat
      /\ Log!Dropped = arrived - Len(messages) /\ MaxMessages \in Nat /\ MaxLines \in Nat
      /\ TrimMessages \in 1 .. MaxMessages /\ messages \in Seq(Log!Messages)
  BY LogNumbers DEF LogSizes
<1>3. /\ asked' \in [clear : [last : 0 .. arrived, dropped : 0 .. Log!Dropped],
                     pause : 0 .. arrived, read : 0 .. Log!Dropped]
      /\ asked'.clear = [last |-> arrived, dropped |-> Log!Dropped] /\ asked'.read = Log!Dropped
  <2>1. Log!Dropped \in 0 .. Log!Dropped
    BY <1>2
  <2> QED
    BY <1>1, <2>1, AskedTyped
<1>4. Log!Dropped' = Log!Dropped
  BY <1>1 DEF Log!Dropped
<1>5. \A lo, hi : Span(text', lo, hi)
  BY <1>1, SpanEmpty
<1>6. /\ linesread' <= Len(messages) /\ first_visible_line' <= linesread' /\ linesread' <= first_visible_line'
      /\ Len(messages) <= linesread' + since' /\ first_visible_line' + Log!Dropped = arrived
      /\ linesread' \in 0 .. MaxMessages /\ first_visible_line' \in 0 .. MaxMessages /\ since' \in 0 .. arrived
  BY <1>1, <1>2
<1>7. Len(text') <= MaxLines
  <2>1. Len(text') = 0
    BY <1>1, EmptySeq
  <2> QED
    BY <1>2, <2>1
<1>8. first_visible_line' = 0 => text' = LinesOf(messages, 0, linesread', shown')
  <2>1. SUFFICES ASSUME first_visible_line' = 0 PROVE text' = LinesOf(messages, 0, linesread', shown')
    OBVIOUS
  <2>2. linesread' = 0 /\ 0 \in Nat /\ 0 \in 0 .. Len(messages) /\ 0 >= 0
    BY <1>1, <1>2, <2>1
  <2>3. LinesOf(messages, 0, 0, shown') = <<>>
    BY <2>2, LinesSpan DEF LogInv
  <2> QED
    BY <1>1, <2>2, <2>3
<1>9. TextOK'
  BY <1>1, <1>3, <1>4, <1>5, <1>6, <1>7, <1>8 DEF TextOK
<1>10. /\ shown' \subseteq Severities /\ Unknown \in shown' /\ paused' \in BOOLEAN
       /\ status' \in [visible : 0 .. MaxMessages, pending : 0 .. MaxMessages]
  BY <1>1 DEF LogInv, Log!TypeOK
<1> QED
  BY <1>1, <1>3, <1>6, <1>9, <1>10, WindowKeeps

LEMMA StatusUpdates ==
  ASSUME PartsAssumption, LogInv, Log!UpdateStatus
  PROVE  LogInv'
<1>1. /\ status' = Log!Counted /\ window = "status" /\ window' = "idle"
      /\ UNCHANGED <<messages, arrived, text, linesread, first_visible_line, shown, paused, since, asked>>
  BY DEF Log!UpdateStatus, Log!buffer
<1>2. /\ Len(messages) \in Nat /\ Len(messages) <= MaxMessages /\ MaxMessages \in Nat
      /\ linesread \in 0 .. MaxMessages /\ first_visible_line \in 0 .. MaxMessages
  BY LogNumbers DEF LogSizes
<1>3. status' \in [visible : 0 .. MaxMessages, pending : 0 .. MaxMessages]
  <2> DEFINE end == Log!End(linesread, paused)
             first == Log!Smaller(first_visible_line, end)
             lines == LinesOf(messages, first, end, shown)
  <2>1. end \in 0 .. Len(messages)
    BY <1>2 DEF Log!End, Log!Smaller
  <2>2. first \in Nat
    BY <1>2, <2>1 DEF Log!Smaller
  <2>3. status' = [visible |-> Len(lines), pending |-> Len(messages) - end]
    BY <1>1, SameLines DEF Log!Counted
  <2> HIDE DEF end, first
  <2>4. Len(lines) <= end /\ lines \in Seq(Log!Messages)
    BY <2>1, <2>2, LinesSpan DEF LogInv, Span
  <2> HIDE DEF lines
  <2>5. Len(lines) \in 0 .. MaxMessages /\ Len(messages) - end \in 0 .. MaxMessages
    <3>1. Len(lines) \in Nat
      BY <2>4, LenProperties
    <3>2. /\ Len(messages) \in Nat /\ Len(messages) <= MaxMessages /\ MaxMessages \in Nat
          /\ end \in 0 .. Len(messages) /\ Len(lines) <= end
      BY <1>2, <2>1, <2>4
    <3> QED
      BY ONLY <3>1, <3>2
  <2> QED
    BY <2>3, <2>5
<1>4. Log!Dropped' = Log!Dropped
  BY <1>1 DEF Log!Dropped
<1>5. TextOK'
  BY <1>1, <1>4 DEF LogInv, TextOK
<1>6. /\ linesread' \in 0 .. MaxMessages /\ first_visible_line' \in 0 .. MaxMessages
      /\ shown' \subseteq Severities /\ Unknown \in shown' /\ paused' \in BOOLEAN
      /\ since' \in 0 .. arrived /\ window' \in {"idle", "rebuild", "status"}
      /\ asked' \in [clear : [last : 0 .. arrived, dropped : 0 .. Log!Dropped],
                     pause : 0 .. arrived, read : 0 .. Log!Dropped]
  BY <1>1 DEF LogInv, Log!TypeOK
<1> QED
  BY <1>1, <1>3, <1>5, <1>6, WindowKeeps

LEMMA LogSteps ==
  ASSUME PartsAssumption, LogInv, Log!Next
  PROVE  LogInv'
BY LogKeeps, TimerTicks, LogIsRebuilt, PauseToggles, FilterToggles, ViewIsCleared, StatusUpdates DEF Log!Next

LEMMA LogStutters ==
  ASSUME LogInv, UNCHANGED logVars
  PROVE  LogInv'
<1>1. Log!Dropped' = Log!Dropped
  BY DEF logVars, Log!Dropped
<1>2. TextOK'
  BY <1>1 DEF logVars, LogInv, TextOK
<1>3. Log!TypeOK'
  BY <1>1 DEF logVars, LogInv, Log!TypeOK
<1> QED
  BY <1>1, <1>2, <1>3 DEF logVars, LogInv

\* What the log invariant says.
LEMMA LogSays ==
  ASSUME PartsAssumption, LogInv
  PROVE  Log!TypeOK /\ LogViewIsRight
<1>1. /\ Len(messages) \in Nat /\ linesread \in 0 .. MaxMessages /\ Log!Dropped \in Nat
      /\ TrimMessages \in 1 .. MaxMessages /\ MaxMessages \in Nat
  BY LogNumbers DEF LogSizes
<1>2. text \in Seq(Log!Messages) /\ DOMAIN text = 1 .. Len(text)
  BY LenProperties DEF LogInv, Log!TypeOK
<1>3. Log!ShownInOrder
  BY <1>2 DEF Log!ShownInOrder, LogInv, TextOK, Span
<1>4. Log!ViewIsCurrent
  <2>1. SUFFICES ASSUME window # "rebuild", ~paused, since = 0, first_visible_line = 0
        PROVE  text = LinesOf(messages, 0, Len(messages), shown)
    BY SameLines DEF Log!ViewIsCurrent
  <2>2. /\ Len(messages) <= linesread + since
        /\ \/ Len(messages) + TrimMessages <= linesread + since
           \/ linesread <= Len(messages) /\ text = LinesOf(messages, 0, linesread, shown)
    BY <1>1, <2>1 DEF LogInv, TextOK
  <2>3. linesread = Len(messages)
    BY <2>1 DEF LogInv, TextOK
  <2>4. ~(Len(messages) + TrimMessages <= linesread + since)
    BY <1>1, <2>1, <2>3
  <2> QED
    BY <2>2, <2>3, <2>4
<1>5. Log!ClearedStaysCleared
  BY <1>2 DEF Log!ClearedStaysCleared, LogInv, TextOK, Span
<1>6. Log!PausedViewIsStill
  BY <1>2 DEF Log!PausedViewIsStill, LogInv, TextOK, Span
<1> QED
  BY <1>3, <1>4, <1>5, <1>6 DEF LogInv, LogViewIsRight

-----------------------------------------------------------------------------
(***************************************************************************)
(* All parts together.                                                     *)
(***************************************************************************)

PartsInv == ToolInv /\ LogInv /\ DownloadInv /\ ViewInv /\ TimerInv

LEMMA PartsBegin == PartsInit => PartsInv
<1> SUFFICES ASSUME PartsInit PROVE PartsInv
  OBVIOUS
<1>1. Init /\ Log!Init /\ Download!Init /\ View!Init /\ Timer!Init
  BY DEF PartsInit
<1>2. PartsAssumption /\ Timer!TimerAssumption
  BY PartsAssumption DEF PartsAssumption
<1>3. ToolInv
  BY <1>1, ToolInit
<1>4. LogInv
  BY <1>1, <1>2, LogInit
<1>5. DownloadInv
  BY <1>1, <1>2, DownloadInit
<1>6. ViewInv
  BY <1>1, <1>2, ViewInit
<1>7. TimerInv
  BY <1>1, <1>2, TimerInit
<1> QED
  BY <1>3, <1>4, <1>5, <1>6, <1>7 DEF PartsInv

LEMMA PartsKeep == PartsInv /\ [PartsNext]_allVars => PartsInv'
<1> SUFFICES ASSUME PartsInv, [PartsNext]_allVars PROVE PartsInv'
  OBVIOUS
<1>1. PartsAssumption /\ Timer!TimerAssumption
  BY PartsAssumption DEF PartsAssumption
<1>2. ToolInv /\ LogInv /\ DownloadInv /\ ViewInv /\ TimerInv
  BY DEF PartsInv
<1>3. /\ [Next]_vars
      /\ Log!Next \/ UNCHANGED logVars
      /\ Download!Next \/ UNCHANGED downloadVars
      /\ View!Next \/ UNCHANGED viewVars
      /\ Timer!Next \/ UNCHANGED timerVars
  BY DEF PartsNext, allVars, ToolRuns, LogRuns, DownloadRuns, ViewRuns, TimerRuns, OnlyDownload
<1>4. ToolInv'
  BY <1>2, <1>3, ToolNext
<1>5. LogInv'
  BY <1>1, <1>2, <1>3, LogSteps, LogStutters
<1>6. DownloadInv'
  BY <1>1, <1>2, <1>3, DownloadKeeps, DownloadStutters
<1>7. ViewInv'
  BY <1>1, <1>2, <1>3, ViewKeeps, ViewStutters
<1>8. TimerInv'
  BY <1>1, <1>2, <1>3, TimerKeeps, TimerStutters
<1> QED
  BY <1>4, <1>5, <1>6, <1>7, <1>8 DEF PartsInv

\* What the window knows of its positions in the log (logwindow.cpp:312-367), the
\* downloader of its reply (filedownloader.cpp:42-169), the settings of the recent
\* files (mainwindow.cpp:1245-1291) and the firmware of its counter (main.c:79-93),
\* at every step.
THEOREM PartsInvariant == PartsSpec => []PartsInv
<1> QED
  BY PartsBegin, PartsKeep, PTL DEF PartsSpec

\* The positions of the log window never leave the buffer's size, whatever it drops
\* (logwindow.h:59-60, logbuffer.h:15-16), a download never buffers more than its
\* limit and one chunk (filedownloader.cpp:133-141), there are never more recent
\* files than MAX_RECENT_FILES (mainwindow.cpp:1252-1254), and the parser's
\* counter stays below its limits (protocol.c:12-24).
THEOREM PartsTypeCorrect == PartsSpec => []PartsTypeOK
<1>1. PartsInv => PartsTypeOK
  BY PartsAssumption, LogSays DEF PartsInv, ToolInv, DownloadInv, ViewInv, TimerInv, PartsTypeOK
<1> QED
  BY <1>1, PartsInvariant, PTL

\* The log window shows the buffer, filtered, in order and once, whatever is dropped
\* between two updates, and leaves a cleared or a paused view alone until positions
\* it holds are dropped (logwindow.cpp:312-367, logbuffer.cpp:5-12).
THEOREM LogStaysRight == PartsSpec => []LogViewIsRight
<1>1. PartsInv => LogViewIsRight
  BY PartsAssumption, LogSays DEF PartsInv
<1> QED
  BY <1>1, PartsInvariant, PTL

\* A download quits its event loop once, with one whole body or an error, and only
\* the published file, within the limit and not cancelled, is installed
\* (filedownloader.cpp:42-169, mainwindow.cpp:597-660).
THEOREM ReleaseIsInstalled == PartsSpec => []InstallsRelease
<1>1. PartsInv => InstallsRelease
  BY DownloadSays DEF PartsInv
<1> QED
  BY <1>1, PartsInvariant, PTL

\* Reload reads the file the data view shows, in whatever event loop it was changed,
\* and the recent files are distinct (mainwindow.cpp:907-920, 1193-1346).
THEOREM ShownIsReloaded == PartsSpec => []ReloadsWhatIsShown
<1>1. PartsInv => ReloadsWhatIsShown
  BY PartsAssumption, ViewSays DEF PartsInv
<1> QED
  BY <1>1, PartsInvariant, PTL

\* A recent file leaves the list only when it is missing, when it is the oldest of a
\* full list, or when Studio crashes before it is written; and none comes back that
\* was not opened or not yet written as removed (mainwindow.cpp:1245-1291).
THEOREM NothingForgotten == PartsSpec => NeverForgotten
<1>1. PartsInv /\ PartsInv' /\ [PartsNext]_allVars => [Remembers]_View!vars
  <2> SUFFICES ASSUME PartsInv, PartsInv', [PartsNext]_allVars, View!vars' # View!vars
               PROVE  Remembers
    OBVIOUS
  <2>1. View!Next
    BY DEF PartsNext, allVars, ToolRuns, LogRuns, DownloadRuns, ViewRuns, TimerRuns, OnlyDownload,
           viewVars, View!vars
  <2>2. Kept
    BY <2>1, PartsAssumption, ViewKeeps DEF PartsInv
  <2> QED
    BY <2>2, PartsAssumption, KeptSays DEF PartsInv
<1> QED
  BY <1>1, PartsInvariant, PTL DEF PartsSpec, NeverForgotten, View!NeverForgotten, Remembers

\* The gap between two bytes of a command or a payload is counted as long as it was,
\* both limits fall at their millisecond, and nothing half received outlasts its
\* limit by more than an iteration (main.c:79-93, protocol.c:12-24).
THEOREM TimeoutsFallOnTime == PartsSpec => []ExpiresOnTime
<1>1. PartsInv => ExpiresOnTime
  BY PartsAssumption, TimerSays DEF PartsInv, PartsAssumption
<1> QED
  BY <1>1, PartsInvariant, PTL
=============================================================================
