---------------------------- MODULE SharedLemmas ----------------------------
(***************************************************************************)
(* Facts about the operators of the libraries that the proofs about the     *)
(* components share: the least and the greatest of a set of naturals, which *)
(* is what Min, Max and SelectInSeq return; induction, stated for a set of  *)
(* numbers so that it can be cited; sequences that are joined, flattened or *)
(* mapped; and folds, as loops that take one element after another.         *)
(***************************************************************************)
EXTENDS Integers, SequencesExt, FiniteSetsExt, WellFoundedInduction, SequenceTheorems, TLAPS

\* A set of natural numbers with a member has a least one.
LEMMA Least ==
  ASSUME NEW S \in SUBSET Nat, S # {}
  PROVE  \E m \in S : \A n \in S : m <= n
  <1> DEFINE R == {p \in Nat \X Nat : p[1] < p[2]}
  <1>1. IsWellFoundedOn(R, Nat)
    BY NatLessThanWellFounded DEF OpToRel
  <1> HIDE DEF R
  <1>2. PICK m \in S : \A n \in S : <<n, m>> \notin R
    BY <1>1, WFMin
  <1>3. ASSUME NEW n \in S PROVE m <= n
    <2>1. ~(n < m)
      BY <1>2 DEF R
    <2>2. QED
      BY <2>1
  <1>4. QED
    BY <1>3

\* A search returns the least of the places it is after.
LEMMA MinIs ==
  ASSUME NEW S \in SUBSET Nat, S # {}
  PROVE  Min(S) \in S /\ \A n \in S : Min(S) <= n
  <1>1. \E m \in S : \A n \in S : m <= n
    BY Least
  <1>2. QED
    BY <1>1 DEF Min

\* A bounded one has a greatest: the one farthest from no more than the bound.
LEMMA Greatest ==
  ASSUME NEW S \in SUBSET Nat, S # {}, NEW b \in Nat, \A n \in S : n <= b
  PROVE  \E m \in S : \A n \in S : n <= m
  <1> DEFINE D == {b - n : n \in S}
  <1>1. D \in SUBSET Nat /\ D # {}
    <2>1. \A n \in S : b - n \in Nat
      OBVIOUS
    <2>2. QED
      BY <2>1
  <1>2. PICK d \in D : \A e \in D : d <= e
    BY <1>1, Least
  <1>3. PICK m \in S : d = b - m
    BY <1>2
  <1>4. ASSUME NEW n \in S PROVE n <= m
    <2>1. b - n \in D
      OBVIOUS
    <2>2. b - m <= b - n
      BY <1>2, <1>3, <2>1
    <2>3. QED
      BY <2>2
  <1>5. QED
    BY <1>4

\* Induction: the least number outside S would have a predecessor in it.
LEMMA Induction ==
  ASSUME NEW S, 0 \in S, \A n \in Nat : n \in S => n + 1 \in S
  PROVE  Nat \subseteq S
  <1> DEFINE T == Nat \ S
  <1>1. SUFFICES ASSUME T # {} PROVE FALSE
    OBVIOUS
  <1>2. PICK m \in T : \A n \in T : m <= n
    BY <1>1, Least
  <1>3. m # 0 /\ m - 1 \in Nat /\ m - 1 \notin T
    BY <1>2
  <1>4. QED
    BY <1>2, <1>3

\* f holds what a loop over 1 .. n has that starts with s and makes G[i][x] of x in its
\* turn i.
IsLoop(f, n, S, s, G) ==
  /\ f \in [0 .. n -> S]
  /\ f[0] = s
  /\ \A i \in 1 .. n : f[i] = G[i][f[i - 1]]

\* There is such a function: what the recursive definitions of the models choose exists.
LEMMA Loop ==
  ASSUME NEW S, NEW s \in S, NEW n \in Nat, NEW G \in [1 .. n -> [S -> S]]
  PROVE  \E f : IsLoop(f, n, S, s, G)
  <1> DEFINE T == {m \in Nat : m <= n => \E f : IsLoop(f, m, S, s, G)}
  <1> USE DEF IsLoop
  <1>1. 0 \in T
    <2>1. IsLoop([i \in 0 .. 0 |-> s], 0, S, s, G)
      OBVIOUS
    <2>2. QED
      BY <2>1
  <1>2. ASSUME NEW m \in Nat, m \in T PROVE m + 1 \in T
    <2>1. SUFFICES ASSUME m + 1 <= n PROVE \E f : IsLoop(f, m + 1, S, s, G)
      OBVIOUS
    <2>2. PICK f : IsLoop(f, m, S, s, G)
      BY <1>2, <2>1
    <2> DEFINE g == [i \in 0 .. m + 1 |-> IF i = m + 1 THEN G[m + 1][f[m]] ELSE f[i]]
    <2>3. f[m] \in S /\ m + 1 \in 1 .. n
      BY <2>1, <2>2
    <2>4. G[m + 1] \in [S -> S]
      BY <2>3
    <2>5. G[m + 1][f[m]] \in S
      BY <2>3, <2>4
    <2>6. g \in [0 .. m + 1 -> S]
      BY <2>2, <2>5
    <2>7. g[m + 1] = G[m + 1][f[m]] /\ \A i \in 0 .. m : g[i] = f[i]
      OBVIOUS
    <2> HIDE DEF g
    <2>8. ASSUME NEW i \in 1 .. m + 1 PROVE g[i] = G[i][g[i - 1]]
      <3>1. i - 1 \in 0 .. m
        OBVIOUS
      <3>2. CASE i = m + 1
        BY <2>7, <3>1, <3>2
      <3>3. CASE i \in 1 .. m
        <4>1. f[i] = G[i][f[i - 1]] /\ g[i] = f[i] /\ g[i - 1] = f[i - 1]
          BY <2>2, <2>7, <3>1, <3>3
        <4>2. QED
          BY <4>1
      <3>4. QED
        BY <3>2, <3>3
    <2>9. g[0] = s
      BY <2>2, <2>7
    <2>10. IsLoop(g, m + 1, S, s, G)
      BY <2>6, <2>8, <2>9
    <2>11. QED
      BY <2>10
  <1> HIDE DEF T
  <1>3. n \in T
    BY <1>1, <1>2, Induction
  <1>4. QED
    BY <1>3 DEF T

-----------------------------------------------------------------------------
(* Flattened sequences of sequences. *)

\* The prefixes of ss, flattened.
IsFlattening(f, ss, S) ==
  /\ f \in [0 .. Len(ss) -> Seq(S)]
  /\ f[0] = <<>>
  /\ \A i \in 1 .. Len(ss) : f[i] = f[i - 1] \o ss[i]

\* FlattenSeq is the last of its prefixes.
LEMMA FlatteningOf ==
  ASSUME NEW S, NEW ss \in Seq(Seq(S))
  PROVE  \E f : IsFlattening(f, ss, S) /\ FlattenSeq(ss) = f[Len(ss)]
  <1> DEFINE n == Len(ss)
             V == Seq(S)
             G == [i \in 1 .. n |-> [x \in V |-> x \o ss[i]]]
  <1>1. n \in Nat /\ DOMAIN ss = 1 .. n /\ \A i \in 1 .. n : ss[i] \in V
    OBVIOUS
  <1>2. <<>> \in V
    OBVIOUS
  <1>3. G \in [1 .. n -> [V -> V]]
    <2>1. ASSUME NEW i \in 1 .. n, NEW x \in V PROVE x \o ss[i] \in V
      BY <1>1, <2>1
    <2>2. QED
      BY <2>1
  <1>4. PICK g : IsLoop(g, n, V, <<>>, G)
    <2> HIDE DEF G, V
    <2>1. QED
      BY <1>1, <1>2, <1>3, Loop
  <1>5. /\ g \in [0 .. n -> V] /\ g[0] = <<>>
        /\ \A i \in 1 .. n : g[i] = g[i - 1] \o ss[i]
    <2>1. /\ g \in [0 .. n -> V] /\ g[0] = <<>>
          /\ \A i \in 1 .. n : g[i] = G[i][g[i - 1]]
      BY <1>4 DEF IsLoop
    <2> HIDE DEF V
    <2>2. ASSUME NEW i \in 1 .. n PROVE g[i] = g[i - 1] \o ss[i]
      <3>1. i - 1 \in 0 .. n
        BY <1>1
      <3>2. g[i - 1] \in V
        BY <2>1, <3>1
      <3>3. QED
        BY <2>1, <3>2
    <2>3. QED
      BY <2>1, <2>2
  <1>6. IsFlattening(g, ss, S)
    BY <1>5 DEF IsFlattening
  <1>7. CASE n = 0
    <2>1. ss = <<>> /\ FlattenSeq(ss) = ss
      BY <1>7 DEF FlattenSeq
    <2>2. QED
      BY <1>5, <1>6, <1>7, <2>1
  <1>8. CASE n # 0
    <2> DEFINE Flat(h) == [i \in 1 .. n |-> IF i = 1 THEN ss[i] ELSE h[i - 1] \o ss[i]]
               c == CHOOSE h : h = Flat(h)
               d == [i \in 1 .. n |-> g[i]]
    <2>1. FlattenSeq(ss) = c[n]
      BY <1>8 DEF FlattenSeq
    <2>2. d = Flat(d)
      <3>1. ASSUME NEW i \in 1 .. n PROVE d[i] = IF i = 1 THEN ss[i] ELSE d[i - 1] \o ss[i]
        <4>1. CASE i = 1
          <5>1. g[1] = <<>> \o ss[1] /\ ss[1] \in V
            <6>1. 1 - 1 = 0 /\ 1 \in 1 .. n
              BY <4>1
            <6>2. g[1] = g[1 - 1] \o ss[1] /\ g[0] = <<>>
              BY <1>5, <6>1
            <6>3. QED
              BY <1>1, <6>1, <6>2
          <5>2. QED
            BY <4>1, <5>1
        <4>2. CASE i # 1
          <5>1. i - 1 \in 1 .. n
            BY <1>1, <4>2
          <5>2. QED
            BY <1>5, <4>2, <5>1
        <4>3. QED
          BY <4>1, <4>2
      <3>2. QED
        BY <3>1
    <2> HIDE DEF d
    <2>3. \A i \in 1 .. n : c[i] = IF i = 1 THEN ss[i] ELSE c[i - 1] \o ss[i]
      <3>1. c = Flat(c)
        BY <2>2
      <3> HIDE DEF c
      <3>2. QED
        BY <3>1
    <2> HIDE DEF c
    <2> DEFINE T == {m \in Nat : m + 1 <= n => c[m + 1] = g[m + 1]}
    <2>4. 0 \in T
      <3>1. 1 \in 1 .. n
        BY <1>1, <1>8
      <3>2. c[1] = ss[1] /\ g[1] = g[0] \o ss[1] /\ ss[1] \in V
        <4>1. c[1] = ss[1]
          BY <2>3, <3>1
        <4>2. g[1] = g[0] \o ss[1]
          <5>1. g[1] = g[1 - 1] \o ss[1]
            BY <1>5, <3>1
          <5>2. 1 - 1 = 0
            OBVIOUS
          <5>3. QED
            BY <5>1, <5>2
        <4>3. ss[1] \in V
          BY <1>1, <3>1
        <4>4. QED
          BY <4>1, <4>2, <4>3
      <3>3. c[1] = g[1]
        BY <1>5, <3>2
      <3>4. QED
        BY <3>3
    <2>5. ASSUME NEW m \in Nat, m \in T PROVE m + 1 \in T
      <3>1. SUFFICES ASSUME m + 2 <= n PROVE c[m + 2] = g[m + 2]
        <4>1. (m + 1) + 1 = m + 2 /\ m + 1 \in Nat
          OBVIOUS
        <4>2. QED
          BY <4>1
      <3>2. m + 2 \in 1 .. n /\ m + 2 # 1 /\ (m + 2) - 1 = m + 1 /\ m + 1 <= n
        BY <1>1, <3>1
      <3> HIDE DEF V
      <3>3. c[m + 2] = c[m + 1] \o ss[m + 2] /\ g[m + 2] = g[m + 1] \o ss[m + 2]
        BY <1>5, <2>3, <3>2
      <3>4. c[m + 1] = g[m + 1]
        BY <2>5, <3>2
      <3>5. QED
        BY <3>3, <3>4
    <2> HIDE DEF T
    <2>6. Nat \subseteq T
      BY <2>4, <2>5, Induction
    <2>7. c[n] = g[n]
      <3>1. n - 1 \in T
        BY <1>1, <1>8, <2>6
      <3>2. QED
        BY <1>1, <3>1 DEF T
    <2>8. QED
      BY <1>6, <2>1, <2>7
  <1>9. QED
    BY <1>7, <1>8

LEMMA FlattenIsSeq ==
  ASSUME NEW S, NEW ss \in Seq(Seq(S))
  PROVE  FlattenSeq(ss) \in Seq(S)
  <1>1. PICK f : IsFlattening(f, ss, S) /\ FlattenSeq(ss) = f[Len(ss)]
    BY FlatteningOf
  <1>2. Len(ss) \in 0 .. Len(ss)
    OBVIOUS
  <1>3. QED
    BY <1>1, <1>2 DEF IsFlattening

LEMMA FlattenEmpty == FlattenSeq(<<>>) = <<>>
  BY DEF FlattenSeq

LEMMA FlattenAppend ==
  ASSUME NEW S, NEW ss \in Seq(Seq(S)), NEW s \in Seq(S)
  PROVE  FlattenSeq(Append(ss, s)) = FlattenSeq(ss) \o s
  <1> DEFINE n == Len(ss)
             tt == Append(ss, s)
  <1>1. n \in Nat /\ tt \in Seq(Seq(S)) /\ Len(tt) = n + 1 /\ tt[n + 1] = s
        /\ \A i \in 1 .. n : tt[i] = ss[i]
    BY AppendProperties
  <1>2. PICK f : IsFlattening(f, ss, S) /\ FlattenSeq(ss) = f[n]
    BY FlatteningOf
  <1> HIDE DEF tt
  <1>3. PICK g : IsFlattening(g, tt, S) /\ FlattenSeq(tt) = g[n + 1]
    BY <1>1, FlatteningOf
  <1>4. /\ f[0] = <<>> /\ \A i \in 1 .. n : f[i] = f[i - 1] \o ss[i]
        /\ g[0] = <<>> /\ \A i \in 1 .. n + 1 : g[i] = g[i - 1] \o tt[i]
    BY <1>1, <1>2, <1>3 DEF IsFlattening
  <1> DEFINE T == {m \in Nat : m <= n => g[m] = f[m]}
  <1>5. 0 \in T
    BY <1>4
  <1>6. ASSUME NEW m \in Nat, m \in T PROVE m + 1 \in T
    <2>1. SUFFICES ASSUME m + 1 <= n PROVE g[m + 1] = f[m + 1]
      OBVIOUS
    <2>2. m + 1 \in 1 .. n /\ m + 1 \in 1 .. n + 1 /\ (m + 1) - 1 = m /\ m <= n
      BY <1>1, <2>1
    <2>3. g[m + 1] = g[m] \o tt[m + 1] /\ f[m + 1] = f[m] \o ss[m + 1] /\ tt[m + 1] = ss[m + 1]
      BY <1>1, <1>4, <2>2
    <2>4. g[m] = f[m]
      BY <1>6, <2>2
    <2>5. QED
      BY <2>3, <2>4
  <1> HIDE DEF T
  <1>7. n \in T
    BY <1>1, <1>5, <1>6, Induction
  <1>8. g[n] = f[n]
    BY <1>1, <1>7 DEF T
  <1>9. g[n + 1] = g[n] \o tt[n + 1]
    <2>1. n + 1 \in 1 .. n + 1 /\ (n + 1) - 1 = n
      BY <1>1
    <2>2. QED
      BY <1>4, <2>1
  <1>10. FlattenSeq(tt) = FlattenSeq(ss) \o s
    BY <1>1, <1>2, <1>3, <1>8, <1>9
  <1>11. QED
    BY <1>10 DEF tt

LEMMA FlattenOne ==
  ASSUME NEW S, NEW s \in Seq(S)
  PROVE  FlattenSeq(<<s>>) = s
  <1>1. <<>> \in Seq(Seq(S)) /\ Append(<<>>, s) = <<s>>
    OBVIOUS
  <1>2. FlattenSeq(<<s>>) = <<>> \o s
    BY <1>1, FlattenEmpty, FlattenAppend
  <1>3. QED
    BY <1>2, ConcatEmptySeq

\* The prefixes of a sequence grow by an element at a time.
LEMMA NextPrefix ==
  ASSUME NEW S, NEW s \in Seq(S), NEW m \in Nat, m < Len(s)
  PROVE  /\ SubSeq(s, 1, m) \in Seq(S) /\ Len(SubSeq(s, 1, m)) = m
         /\ s[m + 1] \in S
         /\ SubSeq(s, 1, m + 1) = Append(SubSeq(s, 1, m), s[m + 1])
  <1>1. Len(s) \in Nat /\ m + 1 \in 1 .. Len(s) /\ (m + 1) - 1 = m
    OBVIOUS
  <1>2. /\ \A i \in 1 .. m : s[i] \in S
        /\ \A i \in 1 .. m + 1 : s[i] \in S
    BY <1>1
  <1>3. /\ SubSeq(s, 1, m) \in Seq(S) /\ Len(SubSeq(s, 1, m)) = m
        /\ \A i \in 1 .. m : SubSeq(s, 1, m)[i] = s[i]
    <2>1. \A i \in 1 .. m - 1 + 1 : SubSeq(s, 1, m)[i] = s[1 + i - 1]
      BY <1>2, SubSeqProperties
    <2>2. SubSeq(s, 1, m) \in Seq(S) /\ Len(SubSeq(s, 1, m)) = IF 1 <= m THEN m - 1 + 1 ELSE 0
      BY <1>2, SubSeqProperties
    <2>3. QED
      BY <2>1, <2>2
  <1>4. /\ SubSeq(s, 1, m + 1) \in Seq(S) /\ Len(SubSeq(s, 1, m + 1)) = m + 1
        /\ \A i \in 1 .. m + 1 : SubSeq(s, 1, m + 1)[i] = s[i]
    <2>1. \A i \in 1 .. (m + 1) - 1 + 1 : SubSeq(s, 1, m + 1)[i] = s[1 + i - 1]
      BY <1>2, SubSeqProperties
    <2>2. SubSeq(s, 1, m + 1) \in Seq(S)
          /\ Len(SubSeq(s, 1, m + 1)) = IF 1 <= m + 1 THEN (m + 1) - 1 + 1 ELSE 0
      BY <1>2, SubSeqProperties
    <2>3. QED
      BY <2>1, <2>2
  <1>5. s[m + 1] \in S
    BY <1>1
  <1> DEFINE p == SubSeq(s, 1, m)
             q == Append(p, s[m + 1])
  <1>6. q \in Seq(S) /\ Len(q) = m + 1 /\ q[m + 1] = s[m + 1] /\ \A i \in 1 .. m : q[i] = s[i]
    BY <1>3, <1>5, AppendProperties
  <1> HIDE DEF q
  <1>7. SubSeq(s, 1, m + 1) = q
    <2>1. \A i \in 1 .. m + 1 : q[i] = s[i]
      BY <1>6
    <2>2. QED
      BY <1>4, <1>6, <2>1, SeqEqual
  <1>8. QED
    BY <1>3, <1>5, <1>7 DEF q

LEMMA Associative ==
  ASSUME NEW S
  PROVE  \A s, t, u \in Seq(S) : (s \o t) \o u = s \o (t \o u)
  BY ConcatAssociative

\* u is s followed by t.
Joins(u, s, t) ==
  /\ Len(u) = Len(s) + Len(t)
  /\ \A i \in 1 .. Len(s) : u[i] = s[i]
  /\ \A i \in 1 .. Len(u) : i > Len(s) => u[i] = t[i - Len(s)] /\ i - Len(s) \in 1 .. Len(t)

LEMMA Joined ==
  ASSUME NEW S, NEW s \in Seq(S), NEW t \in Seq(S)
  PROVE  s \o t \in Seq(S) /\ Joins(s \o t, s, t)
  <1>1. /\ s \o t \in Seq(S) /\ Len(s \o t) = Len(s) + Len(t)
        /\ \A i \in 1 .. Len(s) + Len(t) : (s \o t)[i] = IF i <= Len(s) THEN s[i] ELSE t[i - Len(s)]
    OBVIOUS
  <1>2. Len(s) \in Nat /\ Len(t) \in Nat
    OBVIOUS
  <1> DEFINE u == s \o t
  <1> HIDE DEF u
  <1>3. /\ u \in Seq(S) /\ Len(u) = Len(s) + Len(t)
        /\ \A i \in 1 .. Len(s) + Len(t) : u[i] = IF i <= Len(s) THEN s[i] ELSE t[i - Len(s)]
    BY <1>1 DEF u
  <1>4. Joins(u, s, t)
    BY <1>2, <1>3 DEF Joins
  <1>5. QED
    BY <1>3, <1>4 DEF u

\* The parts are found again.
LEMMA PartsOf ==
  ASSUME NEW S, NEW s \in Seq(S), NEW t \in Seq(S), NEW u \in Seq(S), Joins(u, s, t)
  PROVE  SubSeq(u, 1, Len(s)) = s /\ SubSeq(u, Len(s) + 1, Len(u)) = t
  <1> DEFINE m == Len(s)
             n == Len(t)
             k == Len(u)
             a == SubSeq(u, 1, m)
             b == SubSeq(u, m + 1, k)
  <1>1. /\ m \in Nat /\ n \in Nat /\ k = m + n
        /\ \A i \in 1 .. m : u[i] = s[i]
        /\ \A i \in 1 .. k : i > m => u[i] = t[i - m]
        /\ \A i \in 1 .. k : u[i] \in S
    BY DEF Joins
  <1>2. k \in Nat /\ \A i \in 1 .. m : i \in 1 .. k
    BY <1>1
  <1> HIDE DEF m, n, k
  <1>3. /\ a \in Seq(S) /\ Len(a) = m
        /\ \A i \in 1 .. m : a[i] = s[i]
    <2>1. \A i \in 1 .. m : u[i] \in S
      BY <1>1, <1>2
    <2>2. /\ a \in Seq(S) /\ Len(a) = IF 1 <= m THEN m - 1 + 1 ELSE 0
          /\ \A i \in 1 .. m - 1 + 1 : a[i] = u[1 + i - 1]
      BY <1>1, <2>1, SubSeqProperties
    <2> HIDE DEF a
    <2>3. Len(a) = m /\ \A i \in 1 .. m : a[i] = u[i]
      BY <1>1, <2>2
    <2>4. QED
      BY <1>1, <2>2, <2>3
  <1>4. /\ b \in Seq(S) /\ Len(b) = n
        /\ \A i \in 1 .. n : b[i] = t[i]
    <2>1. \A i \in m + 1 .. k : u[i] \in S
      BY <1>1, <1>2
    <2>2. /\ b \in Seq(S) /\ Len(b) = IF m + 1 <= k THEN k - (m + 1) + 1 ELSE 0
          /\ \A i \in 1 .. k - (m + 1) + 1 : b[i] = u[(m + 1) + i - 1]
      BY <1>1, <1>2, <2>1, SubSeqProperties
    <2> HIDE DEF b
    <2>3. Len(b) = n
      BY <1>1, <1>2, <2>2
    <2>4. ASSUME NEW i \in 1 .. n PROVE b[i] = t[i]
      <3>1. /\ i \in 1 .. k - (m + 1) + 1 /\ (m + 1) + i - 1 \in 1 .. k
            /\ (m + 1) + i - 1 > m /\ ((m + 1) + i - 1) - m = i
        BY <1>1
      <3>2. QED
        BY <1>1, <2>2, <3>1
    <2>5. QED
      BY <2>2, <2>3, <2>4
  <1> HIDE DEF a, b
  <1>5. a = s /\ b = t
    <2>1. Len(s) = m /\ Len(t) = n
      BY DEF m, n
    <2>2. a = s
      BY <1>3, <2>1, SeqEqual
    <2>3. b = t
      BY <1>4, <2>1, SeqEqual
    <2>4. QED
      BY <2>2, <2>3
  <1>6. QED
    BY <1>5 DEF a, b, m, k

LEMMA ConcatAppend ==
  ASSUME NEW S, NEW s \in Seq(S), NEW t \in Seq(S), NEW e \in S
  PROVE  s \o Append(t, e) = Append(s \o t, e)
  <1>1. <<e>> \in Seq(S) /\ s \o t \in Seq(S)
    BY ConcatProperties
  <1>2. Append(t, e) = t \o <<e>> /\ Append(s \o t, e) = (s \o t) \o <<e>>
    BY <1>1, AppendIsConcat
  <1>3. (s \o t) \o <<e>> = s \o (t \o <<e>>)
    BY <1>1, Associative, SMTT(20)
  <1>4. QED
    BY <1>2, <1>3

LEMMA FlattenConcat ==
  ASSUME NEW S, NEW ss \in Seq(Seq(S)), NEW tt \in Seq(Seq(S))
  PROVE  FlattenSeq(ss \o tt) = FlattenSeq(ss) \o FlattenSeq(tt)
  <1> DEFINE n == Len(tt)
             p(m) == SubSeq(tt, 1, m)
             T == {m \in Nat : m <= n =>
                     FlattenSeq(ss \o p(m)) = FlattenSeq(ss) \o FlattenSeq(p(m))}
  <1>1. n \in Nat /\ FlattenSeq(ss) \in Seq(S)
    BY FlattenIsSeq
  <1>2. 0 \in T
    <2>1. p(0) = <<>>
      BY SubSeqEmpty
    <2>2. ss \o <<>> = ss /\ FlattenSeq(ss) \o <<>> = FlattenSeq(ss)
      BY <1>1, ConcatEmptySeq
    <2>3. QED
      BY <2>1, <2>2, FlattenEmpty
  <1>3. ASSUME NEW m \in Nat, m \in T PROVE m + 1 \in T
    <2>1. SUFFICES ASSUME m + 1 <= n
                   PROVE  FlattenSeq(ss \o p(m + 1)) = FlattenSeq(ss) \o FlattenSeq(p(m + 1))
      OBVIOUS
    <2>2. m < n
      BY <1>1, <2>1
    <2> DEFINE e == tt[m + 1]
    <2>3. p(m) \in Seq(Seq(S)) /\ e \in Seq(S) /\ p(m + 1) = Append(p(m), e)
      BY <2>2, NextPrefix
    <2>4. FlattenSeq(ss \o p(m)) = FlattenSeq(ss) \o FlattenSeq(p(m))
      BY <1>1, <1>3, <2>2
    <2> HIDE DEF p, e
    <2>5. ss \o p(m) \in Seq(Seq(S)) /\ FlattenSeq(p(m)) \in Seq(S)
      BY <2>3, ConcatProperties, FlattenIsSeq
    <2>6. ss \o Append(p(m), e) = Append(ss \o p(m), e)
      BY <2>3, ConcatAppend
    <2>7. FlattenSeq(Append(ss \o p(m), e)) = FlattenSeq(ss \o p(m)) \o e
      BY <2>3, <2>5, FlattenAppend
    <2>8. FlattenSeq(p(m + 1)) = FlattenSeq(p(m)) \o e
      BY <2>3, FlattenAppend
    <2>9. (FlattenSeq(ss) \o FlattenSeq(p(m))) \o e
            = FlattenSeq(ss) \o (FlattenSeq(p(m)) \o e)
      <3> DEFINE q == FlattenSeq(p(m))
                 r == FlattenSeq(ss)
      <3>1. r \in Seq(S) /\ q \in Seq(S) /\ e \in Seq(S)
        BY <1>1, <2>3, <2>5
      <3> HIDE DEF q, r
      <3>2. (r \o q) \o e = r \o (q \o e)
        BY <3>1, Associative, SMTT(20)
      <3>3. QED
        BY <3>2 DEF q, r
    <2>10. QED
      BY <2>3, <2>4, <2>6, <2>7, <2>8, <2>9
  <1> HIDE DEF T
  <1>4. n \in T
    BY <1>1, <1>2, <1>3, Induction
  <1>5. p(n) = tt
    BY SubSeqFull
  <1> HIDE DEF n, p
  <1>6. QED
    BY <1>1, <1>4, <1>5 DEF T

\* Where the sequences are in what they are flattened to.
Flattens(f, ss, S) == IsFlattening(f, ss, S) /\ FlattenSeq(ss) = f[Len(ss)]

IsAt(f, ss, i) ==
  /\ Len(f[i - 1]) \in Nat
  /\ Len(f[i]) = Len(f[i - 1]) + Len(ss[i])
  /\ Len(f[i]) <= Len(FlattenSeq(ss))
  /\ \A j \in 1 .. Len(ss[i]) : FlattenSeq(ss)[Len(f[i - 1]) + j] = ss[i][j]

LEMMA FlattenedAt ==
  ASSUME NEW S, NEW ss \in Seq(Seq(S)), NEW f, Flattens(f, ss, S), NEW i \in 1 .. Len(ss)
  PROVE  IsAt(f, ss, i)
  <1> DEFINE n == Len(ss)
  <1>1. n \in Nat /\ i \in 1 .. n /\ i - 1 \in 0 .. n /\ \A k \in 1 .. n : ss[k] \in Seq(S)
    OBVIOUS
  <1>2. /\ \A k \in 0 .. n : f[k] \in Seq(S)
        /\ \A k \in 1 .. n : f[k] = f[k - 1] \o ss[k]
    BY DEF IsFlattening, Flattens
  <1>3. FlattenSeq(ss) = f[n]
    BY DEF Flattens
  <1> HIDE DEF n
  <1>4. ASSUME NEW k \in 1 .. n PROVE Joins(f[k], f[k - 1], ss[k]) /\ Len(f[k - 1]) \in Nat /\ Len(ss[k]) \in Nat
    <2> DEFINE a == f[k - 1]
               b == ss[k]
    <2>1. k - 1 \in 0 .. n
      BY <1>1
    <2>2. a \in Seq(S) /\ b \in Seq(S) /\ f[k] = a \o b
      BY <1>1, <1>2, <2>1
    <2> HIDE DEF a, b
    <2>3. Joins(a \o b, a, b) /\ Len(a) \in Nat /\ Len(b) \in Nat
      BY <2>2, Joined
    <2>4. QED
      BY <2>2, <2>3 DEF a, b
  <1> DEFINE T == {m \in Nat : i + m <= n =>
                     /\ Len(f[i]) <= Len(f[i + m])
                     /\ \A j \in 1 .. Len(f[i]) : f[i + m][j] = f[i][j]}
  <1>5. Len(f[i]) \in Nat
    BY <1>1, <1>4 DEF Joins
  <1>6. 0 \in T
    BY <1>1, <1>5
  <1>7. ASSUME NEW m \in Nat, m \in T PROVE m + 1 \in T
    <2>1. SUFFICES ASSUME i + (m + 1) <= n
                   PROVE  /\ Len(f[i]) <= Len(f[i + (m + 1)])
                          /\ \A j \in 1 .. Len(f[i]) : f[i + (m + 1)][j] = f[i][j]
      OBVIOUS
    <2>2. i + (m + 1) \in 1 .. n /\ (i + (m + 1)) - 1 = i + m /\ i + m <= n
      BY <1>1, <2>1
    <2>3. /\ Joins(f[i + (m + 1)], f[i + m], ss[i + (m + 1)])
          /\ Len(f[i + m]) \in Nat /\ Len(ss[i + (m + 1)]) \in Nat
      BY <1>4, <2>2
    <2>4. /\ Len(f[i]) <= Len(f[i + m])
          /\ \A j \in 1 .. Len(f[i]) : f[i + m][j] = f[i][j]
      BY <1>7, <2>2
    <2>5. /\ Len(f[i + (m + 1)]) = Len(f[i + m]) + Len(ss[i + (m + 1)])
          /\ \A j \in 1 .. Len(f[i + m]) : f[i + (m + 1)][j] = f[i + m][j]
      BY <2>3 DEF Joins
    <2> DEFINE a == Len(f[i])
               b == Len(f[i + m])
               c == Len(ss[i + (m + 1)])
               d == Len(f[i + (m + 1)])
    <2>6. a \in Nat /\ b \in Nat /\ a <= b /\ b <= d
      <3>1. a \in Nat /\ b \in Nat /\ c \in Nat /\ a <= b /\ d = b + c
        BY <1>5, <2>3, <2>4, <2>5
      <3> HIDE DEF a, b, c, d
      <3>2. QED
        BY <3>1
    <2>7. ASSUME NEW j \in 1 .. a PROVE f[i + (m + 1)][j] = f[i][j]
      <3>1. j \in 1 .. b
        BY <2>6
      <3>2. QED
        BY <2>4, <2>5, <3>1
    <2>8. a <= Len(f[i + (m + 1)])
      <3>1. Len(f[i + (m + 1)]) \in Int
        BY <2>3, <2>5
      <3> HIDE DEF a, b
      <3>2. QED
        BY <2>6, <3>1
    <2>9. QED
      BY <2>7, <2>8
  <1> HIDE DEF T
  <1>8. n - i \in T
    <2>1. n - i \in Nat
      BY <1>1
    <2>2. QED
      BY <1>6, <1>7, <2>1, Induction
  <1>9. Len(f[i]) <= Len(f[n]) /\ \A j \in 1 .. Len(f[i]) : f[n][j] = f[i][j]
    <2>1. i + (n - i) = n
      BY <1>1
    <2>2. QED
      BY <1>1, <1>8, <2>1 DEF T
  <1>10. Joins(f[i], f[i - 1], ss[i]) /\ Len(f[i - 1]) \in Nat /\ Len(ss[i]) \in Nat
    BY <1>1, <1>4
  <1>11. Len(f[i]) = Len(f[i - 1]) + Len(ss[i])
    BY <1>10 DEF Joins
  <1>12. ASSUME NEW j \in 1 .. Len(ss[i]) PROVE f[n][Len(f[i - 1]) + j] = ss[i][j]
    <2> DEFINE k == Len(f[i - 1]) + j
    <2>1. k \in 1 .. Len(f[i]) /\ k > Len(f[i - 1]) /\ k - Len(f[i - 1]) = j
      <3> DEFINE a == Len(f[i - 1])
                 b == Len(ss[i])
      <3>1. a \in Nat /\ b \in Nat /\ Len(f[i]) = a + b /\ j \in 1 .. b
        BY <1>10, <1>11
      <3> HIDE DEF a, b
      <3>2. a + j \in 1 .. a + b /\ a + j > a /\ (a + j) - a = j
        BY <3>1
      <3>3. QED
        BY <3>1, <3>2 DEF a
    <2> HIDE DEF k
    <2>2. f[i][k] = ss[i][j]
      BY <1>10, <2>1 DEF Joins
    <2>3. f[n][k] = f[i][k]
      BY <1>9, <2>1
    <2>4. QED
      BY <2>2, <2>3 DEF k
  <1>13. QED
    BY <1>3, <1>9, <1>10, <1>11, <1>12 DEF IsAt

LEMMA Pairs ==
  ASSUME NEW B, NEW a \in B, NEW b \in B
  PROVE  /\ <<a>> \in Seq(B) /\ Append(<<a>>, b) = <<a, b>>
         /\ <<a, b>> \in Seq(B) /\ Len(<<a, b>>) = 2 /\ <<a, b>>[1] = a /\ <<a, b>>[2] = b
  <1>1. <<a>> \in Seq(B) /\ Len(<<a>>) = 1 /\ <<a>>[1] = a
    OBVIOUS
  <1>2. <<a, b>> \in Seq(B) /\ Len(<<a, b>>) = 2 /\ <<a, b>>[1] = a /\ <<a, b>>[2] = b
    OBVIOUS
  <1> DEFINE one == <<a>>
             two == <<a, b>>
             more == Append(one, b)
  <1> HIDE DEF one, two
  <1>3. more \in Seq(B) /\ Len(more) = 2 /\ more[1] = a /\ more[2] = b
    <2>1. one \in Seq(B) /\ Len(one) = 1 /\ one[1] = a
      BY <1>1 DEF one
    <2>2. /\ more \in Seq(B) /\ Len(more) = Len(one) + 1 /\ more[Len(one) + 1] = b
          /\ \A i \in 1 .. Len(one) : more[i] = one[i]
      <3>1. \A t \in Seq(B) : /\ Append(t, b) \in Seq(B) /\ Len(Append(t, b)) = Len(t) + 1
                              /\ Append(t, b)[Len(t) + 1] = b
                              /\ \A i \in 1 .. Len(t) : Append(t, b)[i] = t[i]
        BY AppendProperties
      <3>2. QED
        BY <2>1, <3>1
    <2> HIDE DEF more
    <2>3. QED
      BY <2>1, <2>2
  <1> HIDE DEF more
  <1>4. more = two
    <2>1. two \in Seq(B) /\ Len(two) = 2 /\ two[1] = a /\ two[2] = b
      BY <1>2 DEF two
    <2>2. \A i \in 1 .. Len(more) : more[i] = two[i]
      <3>1. \A i \in 1 .. 2 : i = 1 \/ i = 2
        OBVIOUS
      <3>2. QED
        BY <1>3, <2>1, <3>1
    <2>3. QED
      BY <1>3, <2>1, <2>2, SeqEqual
  <1>5. QED
    BY <1>1, <1>2, <1>4 DEF more, one, two

LEMMA PairsJoined ==
  ASSUME NEW B, NEW a \in B, NEW b \in B, NEW c \in B, NEW d \in B
  PROVE  <<a, b>> \o <<c, d>> = <<a, b, c, d>>
  <1> DEFINE p == <<a, b>>
             q == <<c, d>>
             r == <<a, b, c, d>>
             u == p \o q
  <1>1. r \in Seq(B) /\ Len(r) = 4 /\ r[1] = a /\ r[2] = b /\ r[3] = c /\ r[4] = d
    OBVIOUS
  <1>2. /\ p \in Seq(B) /\ Len(p) = 2 /\ p[1] = a /\ p[2] = b
        /\ q \in Seq(B) /\ Len(q) = 2 /\ q[1] = c /\ q[2] = d
    BY Pairs
  <1> HIDE DEF p, q, r
  <1>3. u \in Seq(B) /\ Joins(u, p, q)
    BY <1>2, Joined
  <1> HIDE DEF u
  <1>4. Len(u) = 4 /\ u[1] = a /\ u[2] = b /\ u[3] = c /\ u[4] = d
    <2>1. /\ Len(u) = 4 /\ \A i \in 1 .. 2 : u[i] = p[i]
          /\ \A i \in 1 .. 4 : i > 2 => u[i] = q[i - 2]
      BY <1>2, <1>3 DEF Joins
    <2>2. u[3] = q[3 - 2] /\ u[4] = q[4 - 2] /\ 3 - 2 = 1 /\ 4 - 2 = 2
      BY <2>1
    <2>3. u[1] = p[1] /\ u[2] = p[2]
      BY <2>1
    <2>4. QED
      BY <1>2, <2>1, <2>2, <2>3
  <1>5. u = r
    <2>1. \A i \in 1 .. Len(u) : u[i] = r[i]
      <3>1. \A i \in 1 .. 4 : i = 1 \/ i = 2 \/ i = 3 \/ i = 4
        OBVIOUS
      <3>2. QED
        BY <1>1, <1>4, <3>1
    <2>2. QED
      BY <1>1, <1>3, <1>4, <2>1, SeqEqual
  <1>6. QED
    BY <1>5 DEF u, p, q, r

LEMMA PairAndOne ==
  ASSUME NEW B, NEW a \in B, NEW b \in B, NEW c \in B
  PROVE  <<a, b>> \o <<c>> = <<a, b, c>>
  <1> DEFINE p == <<a, b>>
             q == <<c>>
             r == <<a, b, c>>
             u == p \o q
  <1>1. r \in Seq(B) /\ Len(r) = 3 /\ r[1] = a /\ r[2] = b /\ r[3] = c
    OBVIOUS
  <1>2. /\ p \in Seq(B) /\ Len(p) = 2 /\ p[1] = a /\ p[2] = b
        /\ q \in Seq(B) /\ Len(q) = 1 /\ q[1] = c
    <2>1. q \in Seq(B) /\ Len(q) = 1 /\ q[1] = c
      OBVIOUS
    <2>2. QED
      BY <2>1, Pairs
  <1> HIDE DEF p, q, r
  <1>3. u \in Seq(B) /\ Joins(u, p, q)
    BY <1>2, Joined
  <1> HIDE DEF u
  <1>4. Len(u) = 3 /\ u[1] = a /\ u[2] = b /\ u[3] = c
    <2>1. /\ Len(u) = 3 /\ \A i \in 1 .. 2 : u[i] = p[i]
          /\ \A i \in 1 .. 3 : i > 2 => u[i] = q[i - 2]
      BY <1>2, <1>3 DEF Joins
    <2>2. u[3] = q[3 - 2] /\ 3 - 2 = 1
      BY <2>1
    <2>3. u[1] = p[1] /\ u[2] = p[2]
      BY <2>1
    <2>4. QED
      BY <1>2, <2>1, <2>2, <2>3
  <1>5. u = r
    <2>1. \A i \in 1 .. Len(u) : u[i] = r[i]
      <3>1. \A i \in 1 .. 3 : i = 1 \/ i = 2 \/ i = 3
        OBVIOUS
      <3>2. QED
        BY <1>1, <1>4, <3>1
    <2>2. QED
      BY <1>1, <1>3, <1>4, <2>1, SeqEqual
  <1>6. QED
    BY <1>5 DEF u, p, q, r

LEMMA FlattenTwo ==
  ASSUME NEW S, NEW s \in Seq(S), NEW t \in Seq(S)
  PROVE  <<s, t>> \in Seq(Seq(S)) /\ FlattenSeq(<<s, t>>) = s \o t
  <1>1. <<s>> \in Seq(Seq(S)) /\ Append(<<s>>, t) = <<s, t>> /\ <<s, t>> \in Seq(Seq(S))
    BY Pairs
  <1>2. FlattenSeq(Append(<<s>>, t)) = FlattenSeq(<<s>>) \o t
    BY <1>1, FlattenAppend
  <1>3. FlattenSeq(<<s>>) = s
    BY FlattenOne
  <1>4. QED
    BY <1>1, <1>2, <1>3

\* Sequences of one element.
LEMMA FlattenSingles ==
  ASSUME NEW S, NEW s \in Seq(S), NEW ss \in Seq(Seq(S)), Len(ss) = Len(s),
         \A i \in 1 .. Len(s) : ss[i] = <<s[i]>>
  PROVE  FlattenSeq(ss) = s
  <1> DEFINE n == Len(s)
             t == FlattenSeq(ss)
  <1>1. n \in Nat /\ Len(ss) = n /\ \A i \in 1 .. n : s[i] \in S
    OBVIOUS
  <1>2. PICK f : Flattens(f, ss, S)
    BY FlatteningOf DEF Flattens
  <1> HIDE DEF n, t
  <1>3. \A i \in 1 .. n : IsAt(f, ss, i)
    BY <1>1, <1>2, FlattenedAt
  <1>4. ASSUME NEW i \in 1 .. n PROVE Len(ss[i]) = 1 /\ ss[i][1] = s[i]
    <2> DEFINE e == s[i]
    <2>1. ss[i] = <<e>>
      BY DEF n
    <2> HIDE DEF e
    <2>2. Len(<<e>>) = 1 /\ <<e>>[1] = e
      OBVIOUS
    <2>3. QED
      BY <2>1, <2>2 DEF e
  <1>5. ASSUME NEW i \in 1 .. n
        PROVE  Len(f[i]) = Len(f[i - 1]) + 1 /\ t[Len(f[i - 1]) + 1] = s[i]
    <2>1. \A j \in 1 .. 1 : t[Len(f[i - 1]) + j] = ss[i][j]
      BY <1>3, <1>4 DEF IsAt, t
    <2>2. t[Len(f[i - 1]) + 1] = ss[i][1]
      BY <2>1
    <2>3. QED
      BY <1>3, <1>4, <2>2 DEF IsAt
  <1>6. f[0] = <<>> /\ t = f[n]
    BY <1>1, <1>2 DEF Flattens, IsFlattening, t
  <1> DEFINE T == {m \in Nat : m <= n => Len(f[m]) = m}
  <1>7. 0 \in T
    BY <1>6
  <1>8. ASSUME NEW m \in Nat, m \in T PROVE m + 1 \in T
    <2>1. SUFFICES ASSUME m + 1 <= n PROVE Len(f[m + 1]) = m + 1
      OBVIOUS
    <2>2. m + 1 \in 1 .. n /\ (m + 1) - 1 = m /\ m <= n
      BY <1>1, <2>1
    <2>3. Len(f[m + 1]) = Len(f[m]) + 1 /\ Len(f[m]) = m
      BY <1>5, <1>8, <2>2
    <2>4. QED
      BY <2>3
  <1> HIDE DEF T
  <1>9. \A m \in 0 .. n : Len(f[m]) = m
    <2>1. Nat \subseteq T
      BY <1>7, <1>8, Induction
    <2>2. QED
      BY <1>1, <2>1 DEF T
  <1>10. \A i \in 1 .. n : t[i] = s[i]
    <2>1. ASSUME NEW i \in 1 .. n PROVE t[i] = s[i]
      <3>1. i - 1 \in 0 .. n /\ (i - 1) + 1 = i
        BY <1>1
      <3>2. QED
        BY <1>5, <1>9, <3>1
    <2>2. QED
      BY <2>1
  <1>11. t \in Seq(S) /\ Len(t) = n
    <2>1. n \in 0 .. n
      BY <1>1
    <2>2. QED
      BY <1>6, <1>9, <2>1, FlattenIsSeq DEF t
  <1>12. t = s
    BY <1>10, <1>11, SeqEqual DEF n
  <1>13. QED
    BY <1>12 DEF t

-----------------------------------------------------------------------------
(* A function applied to the elements of a sequence. *)

Maps(S, T) == [S -> T]
Mapped(G, s) == [i \in 1 .. Len(s) |-> G[s[i]]]
IsMapped(m, G, s) == Len(m) = Len(s) /\ \A i \in 1 .. Len(s) : m[i] = G[s[i]]

LEMMA MappedIs ==
  ASSUME NEW S, NEW T, NEW G \in Maps(S, T), NEW s \in Seq(S)
  PROVE  Mapped(G, s) \in Seq(T) /\ IsMapped(Mapped(G, s), G, s)
  <1>1. Len(s) \in Nat /\ \A i \in 1 .. Len(s) : s[i] \in S
    OBVIOUS
  <1>2. \A i \in 1 .. Len(s) : G[s[i]] \in T
    BY <1>1 DEF Maps
  <1>3. QED
    BY <1>1, <1>2 DEF Mapped, IsMapped

LEMMA MappedConcat ==
  ASSUME NEW S, NEW T, NEW G \in Maps(S, T), NEW s \in Seq(S), NEW t \in Seq(S)
  PROVE  Mapped(G, s \o t) = Mapped(G, s) \o Mapped(G, t)
  <1> DEFINE u == s \o t
             a == Mapped(G, s)
             b == Mapped(G, t)
             c == Mapped(G, u)
             d == a \o b
  <1>1. u \in Seq(S) /\ Joins(u, s, t) /\ Len(s) \in Nat /\ Len(t) \in Nat
    BY Joined
  <1> HIDE DEF u
  <1>2. /\ a \in Seq(T) /\ Len(a) = Len(s) /\ \A i \in 1 .. Len(s) : a[i] = G[s[i]]
        /\ b \in Seq(T) /\ Len(b) = Len(t) /\ \A i \in 1 .. Len(t) : b[i] = G[t[i]]
        /\ c \in Seq(T) /\ Len(c) = Len(u) /\ \A i \in 1 .. Len(u) : c[i] = G[u[i]]
    <2>1. a \in Seq(T) /\ b \in Seq(T) /\ c \in Seq(T) /\ IsMapped(a, G, s) /\ IsMapped(b, G, t) /\ IsMapped(c, G, u)
      BY <1>1, MappedIs
    <2>2. QED
      BY <2>1 DEF IsMapped
  <1> HIDE DEF a, b, c
  <1>3. d \in Seq(T) /\ Joins(d, a, b)
    BY <1>2, Joined
  <1> HIDE DEF d
  <1>4. Len(c) = Len(d) /\ Len(u) = Len(s) + Len(t)
    BY <1>1, <1>2, <1>3 DEF Joins
  <1>5. ASSUME NEW i \in 1 .. Len(c) PROVE c[i] = d[i]
    <2>1. CASE i \in 1 .. Len(s)
      <3>1. u[i] = s[i] /\ d[i] = a[i] /\ a[i] = G[s[i]]
        BY <1>1, <1>2, <1>3, <2>1 DEF Joins
      <3>2. QED
        BY <1>2, <3>1
    <2>2. CASE i > Len(s)
      <3>1. i \in 1 .. Len(u) /\ i \in 1 .. Len(d)
        BY <1>2, <1>4
      <3>2. u[i] = t[i - Len(s)] /\ i - Len(s) \in 1 .. Len(t)
        BY <1>1, <2>2, <3>1 DEF Joins
      <3>3. d[i] = b[i - Len(s)]
        BY <1>2, <1>3, <2>2, <3>1 DEF Joins
      <3>4. QED
        BY <1>2, <3>1, <3>2, <3>3
    <2>3. i \in Int /\ i >= 1
      BY <1>1, <1>4
    <2>4. QED
      BY <1>1, <2>1, <2>2, <2>3
  <1>6. c = d
    BY <1>2, <1>3, <1>4, <1>5, SeqEqual
  <1>7. QED
    BY <1>6 DEF a, b, c, d, u

LEMMA MappedOne ==
  ASSUME NEW S, NEW T, NEW G \in Maps(S, T), NEW a \in S
  PROVE  Mapped(G, <<a>>) = <<G[a]>>
  <1> DEFINE p == <<a>>
             x == G[a]
  <1>1. Len(p) = 1 /\ p[1] = a
    OBVIOUS
  <1> HIDE DEF p, x
  <1>2. Mapped(G, p) = [i \in 1 .. 1 |-> x]
    <2>1. \A i \in 1 .. 1 : G[p[i]] = x
      BY <1>1 DEF x
    <2>2. QED
      BY <1>1, <2>1 DEF Mapped
  <1>3. [i \in 1 .. 1 |-> x] = <<x>>
    OBVIOUS
  <1>4. QED
    BY <1>2, <1>3 DEF p, x

LEMMA MappedTwo ==
  ASSUME NEW S, NEW T, NEW G \in Maps(S, T), NEW a \in S, NEW b \in S
  PROVE  Mapped(G, <<a, b>>) = <<G[a], G[b]>>
  <1>1. <<a, b>> \in Seq(S) /\ Len(<<a, b>>) = 2 /\ <<a, b>>[1] = a /\ <<a, b>>[2] = b
    OBVIOUS
  <1> DEFINE m == Mapped(G, <<a, b>>)
             p == <<a, b>>
             x == G[a]
             y == G[b]
  <1>2. x \in T /\ y \in T
    BY DEF Maps
  <1> HIDE DEF p, x, y
  <1>3. m \in Seq(T) /\ Len(m) = 2 /\ m[1] = x /\ m[2] = y
    <2>1. 1 \in 1 .. 2 /\ 2 \in 1 .. 2
      OBVIOUS
    <2>2. /\ Mapped(G, p) \in Seq(T) /\ Len(Mapped(G, p)) = Len(p)
          /\ \A i \in 1 .. Len(p) : Mapped(G, p)[i] = G[p[i]]
      <3>1. p \in Seq(S)
        BY <1>1 DEF p
      <3>2. Mapped(G, p) \in Seq(T) /\ IsMapped(Mapped(G, p), G, p)
        BY <3>1, MappedIs
      <3>3. QED
        BY <3>2 DEF IsMapped
    <2>3. Len(p) = 2 /\ p[1] = a /\ p[2] = b
      BY <1>1 DEF p
    <2>4. QED
      BY <2>1, <2>2, <2>3 DEF p, x, y
  <1> HIDE DEF m
  <1>4. <<x, y>> \in Seq(T) /\ Len(<<x, y>>) = 2 /\ <<x, y>>[1] = x /\ <<x, y>>[2] = y
    BY <1>2
  <1> DEFINE q == <<x, y>>
  <1> HIDE DEF q
  <1>5. m = q
    <2>1. q \in Seq(T) /\ Len(q) = 2 /\ q[1] = x /\ q[2] = y
      BY <1>4 DEF q
    <2>2. \A i \in 1 .. Len(m) : m[i] = q[i]
      <3>1. \A i \in 1 .. 2 : i = 1 \/ i = 2
        OBVIOUS
      <3>2. QED
        BY <1>3, <2>1, <3>1
    <2>3. QED
      BY <1>3, <2>1, <2>2, SeqEqual
  <1>6. QED
    BY <1>5 DEF m, p, q, x, y

-----------------------------------------------------------------------------
(* Folds. *)

LEMMA GreatestOfFirst ==
  ASSUME NEW k \in Nat
  PROVE  Max(1 .. k + 1) = k + 1 /\ (1 .. k + 1) \ {k + 1} = 1 .. k
  <1>1. /\ k + 1 \in 1 .. k + 1
        /\ \A y \in 1 .. k + 1 : k + 1 >= y
    OBVIOUS
  <1>2. \A x \in 1 .. k + 1 : x >= k + 1 => x = k + 1
    OBVIOUS
  <1>3. Max(1 .. k + 1) = k + 1
    <2> DEFINE R == 1 .. k + 1
    <2> HIDE DEF R
    <2>1. Max(R) \in R /\ \A y \in R : Max(R) >= y
      BY <1>1 DEF Max, R
    <2>2. QED
      BY <1>1, <1>2, <2>1 DEF R
  <1>4. QED
    BY <1>3

Steps(S, E) == [S -> [E -> S]]

\* What a fold over seq chooses exists: a loop for every set of indices, that leaves the
\* others out.
LEMMA FoldOver ==
  ASSUME NEW S, NEW E, NEW base \in S, NEW seq \in Seq(E), NEW F \in Steps(S, E)
  PROVE  \E fold : fold = [s \in SUBSET DOMAIN seq |-> fold[s]] /\ \A s \in SUBSET DOMAIN seq :
           /\ fold[s] = IF s = {} THEN base ELSE F[fold[s \ {Max(s)}]][seq[Max(s)]]
           /\ fold[s] \in S
           /\ s # {} => s \ {Max(s)} \in SUBSET DOMAIN seq /\ Max(s) \in DOMAIN seq
  <1> DEFINE n == Len(seq)
             D == 1 .. n
             G(s) == [i \in D |-> [x \in S |-> IF i \in s THEN F[x][seq[i]] ELSE x]]
             L(s) == CHOOSE f : IsLoop(f, n, S, base, G(s))
             fold == [s \in SUBSET D |-> L(s)[n]]
  <1>1. n \in Nat /\ DOMAIN seq = D /\ \A i \in D : seq[i] \in E
    OBVIOUS
  <1> HIDE DEF n
  <1>2. \A x \in S, e \in E : F[x][e] \in S
    <2>1. ASSUME NEW x \in S, NEW e \in E PROVE F[x][e] \in S
      <3>1. F[x] \in [E -> S]
        BY DEF Steps
      <3>2. QED
        BY <3>1
    <2>2. QED
      BY <2>1
  <1>3. ASSUME NEW s \in SUBSET D
        PROVE  /\ L(s) \in [0 .. n -> S] /\ L(s)[0] = base
               /\ \A i \in D : L(s)[i] = IF i \in s THEN F[L(s)[i - 1]][seq[i]] ELSE L(s)[i - 1]
    <2>1. G(s) \in [D -> [S -> S]]
      <3>1. ASSUME NEW i \in D, NEW x \in S PROVE (IF i \in s THEN F[x][seq[i]] ELSE x) \in S
        BY <1>1, <1>2
      <3>2. QED
        BY <3>1
    <2> DEFINE g == G(s)
    <2>2. \A i \in D, x \in S : g[i][x] = IF i \in s THEN F[x][seq[i]] ELSE x
      OBVIOUS
    <2>3. IsLoop(L(s), n, S, base, g)
      <3> HIDE DEF g
      <3>1. \E f : IsLoop(f, n, S, base, g)
        BY <1>1, <2>1, Loop DEF g
      <3>2. QED
        BY <3>1 DEF g
    <2> DEFINE f == L(s)
    <2> HIDE DEF g, f
    <2>4. IsLoop(f, n, S, base, g)
      BY <2>3 DEF f
    <2>5. /\ f \in [0 .. n -> S] /\ f[0] = base
          /\ \A i \in D : f[i] = g[i][f[i - 1]]
      BY <2>4 DEF IsLoop
    <2>6. ASSUME NEW i \in D
          PROVE  f[i] = IF i \in s THEN F[f[i - 1]][seq[i]] ELSE f[i - 1]
      <3>1. i - 1 \in 0 .. n
        BY <1>1
      <3>2. f[i - 1] \in S
        BY <2>5, <3>1
      <3>3. QED
        BY <2>2, <2>5, <3>2
    <2>7. QED
      BY <2>5, <2>6 DEF f
  <1> HIDE DEF L
  <1>4. fold \in [SUBSET D -> S]
    <2>1. n \in 0 .. n
      BY <1>1
    <2>2. \A s \in SUBSET D : L(s)[n] \in S
      BY <1>3, <2>1
    <2>3. QED
      BY <2>2
  <1>5. L({})[n] = base
    <2> DEFINE T == {m \in Nat : m <= n => L({})[m] = base}
    <2>1. 0 \in T
      BY <1>3
    <2>2. ASSUME NEW m \in Nat, m \in T PROVE m + 1 \in T
      <3>1. SUFFICES ASSUME m + 1 <= n PROVE L({})[m + 1] = base
        OBVIOUS
      <3>2. m + 1 \in D /\ (m + 1) - 1 = m /\ m <= n
        BY <1>1, <3>1
      <3>3. L({})[m + 1] = L({})[m]
        BY <1>3, <3>2
      <3>4. QED
        BY <2>2, <3>2, <3>3
    <2> HIDE DEF T
    <2>3. n \in T
      BY <1>1, <2>1, <2>2, Induction
    <2>4. QED
      BY <1>1, <2>3 DEF T
  <1>6. ASSUME NEW s \in SUBSET D, s # {}
        PROVE  L(s)[n] = F[L(s \ {Max(s)})[n]][seq[Max(s)]] /\ Max(s) \in D
    <2> DEFINE k == Max(s)
               t == s \ {k}
               f == L(s)
               g == L(t)
    <2>1. k \in s /\ k \in D /\ \A i \in s : i <= k
      <3>1. s \in SUBSET Nat /\ \A i \in s : i <= n
        BY <1>1
      <3>2. \E m \in s : \A i \in s : i <= m
        BY <1>1, <1>6, <3>1, Greatest
      <3>3. \E m \in s : \A i \in s : m >= i
        BY <3>1, <3>2
      <3>4. k \in s /\ \A i \in s : k >= i
        BY <3>3 DEF Max
      <3>5. QED
        BY <3>1, <3>4
    <2>2. t \in SUBSET D
      OBVIOUS
    <2>3. /\ f[0] = base /\ g[0] = base
          /\ \A i \in D : /\ f[i] = IF i \in s THEN F[f[i - 1]][seq[i]] ELSE f[i - 1]
                          /\ g[i] = IF i \in t THEN F[g[i - 1]][seq[i]] ELSE g[i - 1]
      BY <1>3, <2>2
    <2> HIDE DEF k, f, g
    <2> DEFINE T == {m \in Nat : m < k => f[m] = g[m]}
    <2>4. 0 \in T
      BY <2>3
    <2>5. ASSUME NEW m \in Nat, m \in T PROVE m + 1 \in T
      <3>1. SUFFICES ASSUME m + 1 < k PROVE f[m + 1] = g[m + 1]
        OBVIOUS
      <3>2. m + 1 \in D /\ (m + 1) - 1 = m /\ m < k /\ m + 1 # k
        BY <1>1, <2>1, <3>1
      <3>3. f[m] = g[m] /\ (m + 1 \in s <=> m + 1 \in t)
        BY <2>5, <3>2
      <3>4. QED
        BY <2>3, <3>2, <3>3
    <2> HIDE DEF T
    <2>6. k - 1 \in T
      <3>1. k - 1 \in Nat
        BY <1>1, <2>1
      <3>2. QED
        BY <2>4, <2>5, <3>1, Induction
    <2>7. f[k - 1] = g[k - 1]
      BY <1>1, <2>1, <2>6 DEF T
    <2>8. f[k] = F[g[k]][seq[k]]
      BY <2>1, <2>3, <2>7
    <2> DEFINE U == {m \in Nat : k + m <= n => f[k + m] = f[k] /\ g[k + m] = g[k]}
    <2>9. 0 \in U
      BY <1>1, <2>1
    <2>10. ASSUME NEW m \in Nat, m \in U PROVE m + 1 \in U
      <3>1. SUFFICES ASSUME k + (m + 1) <= n
                     PROVE  f[k + (m + 1)] = f[k] /\ g[k + (m + 1)] = g[k]
        OBVIOUS
      <3>2. /\ k + (m + 1) \in D /\ (k + (m + 1)) - 1 = k + m /\ k + m <= n
            /\ k + (m + 1) \notin s /\ k + (m + 1) \notin t
        BY <1>1, <2>1, <3>1
      <3>3. f[k + m] = f[k] /\ g[k + m] = g[k]
        BY <2>10, <3>2
      <3>4. f[k + (m + 1)] = f[k + m] /\ g[k + (m + 1)] = g[k + m]
        BY <2>3, <3>2
      <3>5. QED
        BY <3>3, <3>4
    <2> HIDE DEF U
    <2>11. n - k \in U
      <3>1. n - k \in Nat
        BY <1>1, <2>1
      <3>2. QED
        BY <2>9, <2>10, <3>1, Induction
    <2>12. f[n] = f[k] /\ g[n] = g[k]
      <3>1. k + (n - k) = n
        BY <1>1, <2>1
      <3>2. QED
        BY <1>1, <2>11, <3>1 DEF U
    <2>13. f[n] = F[g[n]][seq[k]]
      BY <2>8, <2>12
    <2>14. QED
      BY <2>1, <2>13 DEF f, g, k
  <1>7. ASSUME NEW s \in SUBSET D
        PROVE  fold[s] = IF s = {} THEN base ELSE F[fold[s \ {Max(s)}]][seq[Max(s)]]
    <2>1. CASE s = {}
      BY <1>5, <2>1
    <2>2. CASE s # {}
      <3>1. s \ {Max(s)} \in SUBSET D
        OBVIOUS
      <3>2. fold[s] = L(s)[n] /\ fold[s \ {Max(s)}] = L(s \ {Max(s)})[n]
        BY <3>1
      <3>3. QED
        BY <1>6, <2>2, <3>2
    <2>3. QED
      BY <2>1, <2>2
  <1>8. \A s \in SUBSET D : s # {} => Max(s) \in D
    BY <1>6
  <1>9. \A s \in SUBSET D :
          /\ fold[s] = IF s = {} THEN base ELSE F[fold[s \ {Max(s)}]][seq[Max(s)]]
          /\ fold[s] \in S
          /\ s # {} => s \ {Max(s)} \in SUBSET D /\ Max(s) \in D
    BY <1>4, <1>7, <1>8
  <1>10. fold = [s \in SUBSET D |-> fold[s]]
    BY <1>4
  <1> HIDE DEF fold
  <1>11. QED
    BY <1>1, <1>9, <1>10

\* Of what a fold chooses, the values for the first elements of a sequence are a loop.
LEMMA PrefixesAreLoop ==
  ASSUME NEW S, NEW base \in S, NEW n \in Nat, NEW G, NEW c,
         \A i \in 1 .. n, x \in S : G[i][x] \in S,
         c[{}] = base,
         \A k \in Nat : k < n /\ c[1 .. k] \in S => c[1 .. k + 1] = G[k + 1][c[1 .. k]]
  PROVE  IsLoop([k \in 0 .. n |-> c[1 .. k]], n, S, base, G)
  <1> DEFINE T == {m \in Nat : m <= n => c[1 .. m] \in S}
  <1>1. c[1 .. 0] = base
    <2>1. 1 .. 0 = {}
      OBVIOUS
    <2>2. QED
      BY <2>1
  <1>2. 0 \in T
    BY <1>1
  <1>3. ASSUME NEW m \in Nat, m \in T PROVE m + 1 \in T
    <2>1. SUFFICES ASSUME m + 1 <= n PROVE c[1 .. m + 1] \in S
      OBVIOUS
    <2>2. c[1 .. m] \in S /\ m < n /\ m + 1 \in 1 .. n
      BY <1>3, <2>1
    <2>3. QED
      BY <2>2
  <1> HIDE DEF T
  <1>4. \A m \in 0 .. n : c[1 .. m] \in S
    <2>1. Nat \subseteq T
      BY <1>2, <1>3, Induction
    <2>2. QED
      BY <2>1 DEF T
  <1> DEFINE h == [k \in 0 .. n |-> c[1 .. k]]
  <1>5. ASSUME NEW i \in 1 .. n PROVE h[i] = G[i][h[i - 1]]
    <2>1. i - 1 \in 0 .. n /\ i - 1 < n /\ i - 1 \in Nat /\ (i - 1) + 1 = i
      OBVIOUS
    <2>2. c[1 .. i - 1] \in S
      BY <1>4, <2>1
    <2>3. c[1 .. (i - 1) + 1] = G[(i - 1) + 1][c[1 .. i - 1]]
      BY <2>1, <2>2
    <2>4. QED
      BY <2>1, <2>3
  <1>6. h[0] = base /\ h \in [0 .. n -> S]
    BY <1>1, <1>4
  <1> HIDE DEF h
  <1>7. QED
    BY <1>5, <1>6 DEF IsLoop, h

\* A loop with one turn more goes on where the other stops.
LEMMA NextTurn ==
  ASSUME NEW S, NEW s, NEW n \in Nat, NEW G, NEW H, NEW f, NEW g,
         IsLoop(f, n, S, s, G), IsLoop(g, n + 1, S, s, H), \A i \in 1 .. n : G[i] = H[i]
  PROVE  g[n + 1] = H[n + 1][f[n]] /\ f[n] \in S
  <1>1. /\ f[0] = s /\ \A i \in 1 .. n : f[i] = G[i][f[i - 1]]
        /\ g[0] = s /\ \A i \in 1 .. n + 1 : g[i] = H[i][g[i - 1]]
        /\ f[n] \in S
    BY DEF IsLoop
  <1> DEFINE T == {m \in Nat : m <= n => g[m] = f[m]}
  <1>2. 0 \in T
    BY <1>1
  <1>3. ASSUME NEW m \in Nat, m \in T PROVE m + 1 \in T
    <2>1. SUFFICES ASSUME m + 1 <= n PROVE g[m + 1] = f[m + 1]
      OBVIOUS
    <2>2. m + 1 \in 1 .. n /\ m + 1 \in 1 .. n + 1 /\ (m + 1) - 1 = m /\ m <= n
      BY <2>1
    <2>3. g[m + 1] = H[m + 1][g[m]] /\ f[m + 1] = G[m + 1][f[m]] /\ G[m + 1] = H[m + 1]
      BY <1>1, <2>2
    <2>4. g[m] = f[m]
      BY <1>3, <2>2
    <2>5. QED
      BY <2>3, <2>4
  <1> HIDE DEF T
  <1>4. n \in T
    BY <1>2, <1>3, Induction
  <1>5. g[n] = f[n]
    BY <1>4 DEF T
  <1>6. g[n + 1] = H[n + 1][g[n]]
    <2>1. n + 1 \in 1 .. n + 1 /\ (n + 1) - 1 = n
      OBVIOUS
    <2>2. QED
      BY <1>1, <2>1
  <1>7. QED
    BY <1>1, <1>5, <1>6

\* What the loop ends with that makes F[x][e] of x for every element e of seq.
TurnsOver(F, seq, S) == [i \in 1 .. Len(seq) |-> [x \in S |-> F[x][seq[i]]]]
Folded(F, base, seq, S) == (CHOOSE f : IsLoop(f, Len(seq), S, base, TurnsOver(F, seq, S)))[Len(seq)]

LEMMA FoldedIsLoop ==
  ASSUME NEW S, NEW E, NEW base \in S, NEW seq \in Seq(E), NEW F \in Steps(S, E)
  PROVE  /\ \A i \in 1 .. Len(seq), x \in S : TurnsOver(F, seq, S)[i][x] = F[x][seq[i]] /\ F[x][seq[i]] \in S
         /\ \E f : /\ IsLoop(f, Len(seq), S, base, TurnsOver(F, seq, S))
                  /\ Folded(F, base, seq, S) = f[Len(seq)]
  <1> DEFINE n == Len(seq)
             G == TurnsOver(F, seq, S)
  <1>1. n \in Nat /\ \A i \in 1 .. n : seq[i] \in E
    OBVIOUS
  <1>2. /\ G \in [1 .. n -> [S -> S]]
        /\ \A i \in 1 .. n, x \in S : G[i][x] = F[x][seq[i]] /\ F[x][seq[i]] \in S
    <2>1. ASSUME NEW i \in 1 .. n, NEW x \in S PROVE F[x][seq[i]] \in S
      <3>1. F[x] \in [E -> S] /\ seq[i] \in E
        BY <1>1 DEF Steps
      <3>2. QED
        BY <3>1
    <2>2. QED
      BY <2>1 DEF TurnsOver
  <1> DEFINE f == CHOOSE f : IsLoop(f, n, S, base, G)
  <1>3. IsLoop(f, n, S, base, G)
    <2> HIDE DEF n, G
    <2>1. \E h : IsLoop(h, n, S, base, G)
      BY <1>1, <1>2, Loop
    <2>2. QED
      BY <2>1
  <1>4. Folded(F, base, seq, S) = f[n]
    BY DEF Folded
  <1>5. QED
    BY <1>2, <1>3, <1>4

LEMMA FoldedEmpty ==
  ASSUME NEW S, NEW E, NEW base \in S, NEW seq \in Seq(E), NEW F \in Steps(S, E)
  PROVE  seq = <<>> => Folded(F, base, seq, S) = base
  <1>1. PICK f : IsLoop(f, Len(seq), S, base, TurnsOver(F, seq, S)) /\ Folded(F, base, seq, S) = f[Len(seq)]
    BY FoldedIsLoop
  <1>2. QED
    BY <1>1 DEF IsLoop

LEMMA FoldedAppend ==
  ASSUME NEW S, NEW E, NEW base \in S, NEW seq \in Seq(E), NEW e \in E, NEW F \in Steps(S, E)
  PROVE  /\ Folded(F, base, Append(seq, e), S) = F[Folded(F, base, seq, S)][e]
         /\ Folded(F, base, seq, S) \in S
  <1> DEFINE n == Len(seq)
             more == Append(seq, e)
             G == TurnsOver(F, seq, S)
             H == TurnsOver(F, more, S)
  <1>1. /\ n \in Nat /\ more \in Seq(E) /\ Len(more) = n + 1 /\ more[n + 1] = e
        /\ \A i \in 1 .. n : more[i] = seq[i]
    BY AppendProperties
  <1> HIDE DEF more
  <1>2. PICK f : IsLoop(f, n, S, base, G) /\ Folded(F, base, seq, S) = f[n]
    BY FoldedIsLoop
  <1>3. PICK g : IsLoop(g, n + 1, S, base, H) /\ Folded(F, base, more, S) = g[n + 1]
    BY <1>1, FoldedIsLoop
  <1>4. /\ \A i \in 1 .. n : G[i] = H[i]
        /\ \A x \in S : H[n + 1][x] = F[x][e]
    <2>1. ASSUME NEW i \in 1 .. n PROVE G[i] = H[i]
      <3>1. i \in 1 .. n + 1 /\ more[i] = seq[i]
        BY <1>1
      <3>2. /\ G[i] = [x \in S |-> F[x][seq[i]]]
            /\ H[i] = [x \in S |-> F[x][more[i]]]
        BY <1>1, <3>1 DEF TurnsOver
      <3>3. QED
        BY <3>1, <3>2
    <2>2. ASSUME NEW x \in S PROVE H[n + 1][x] = F[x][e]
      <3>1. n + 1 \in 1 .. Len(more)
        BY <1>1
      <3>2. QED
        BY <1>1, <3>1, FoldedIsLoop
    <2>3. QED
      BY <2>1, <2>2
  <1> HIDE DEF n, G, H
  <1>5. g[n + 1] = H[n + 1][f[n]] /\ f[n] \in S
    BY <1>1, <1>2, <1>3, <1>4, NextTurn
  <1>6. g[n + 1] = F[f[n]][e]
    BY <1>4, <1>5
  <1>7. QED
    BY <1>2, <1>3, <1>5, <1>6 DEF more

\* c is a fold of seq for every set of its indices, as long as it stays in S.
IsFoldOf(c, F, base, seq, S) ==
  /\ c[{}] = base
  /\ \A s \in SUBSET DOMAIN seq :
       s # {} /\ c[s \ {Max(s)}] \in S => c[s] = F[c[s \ {Max(s)}]][seq[Max(s)]]

\* What FoldLeft chooses for all of seq is what the loop ends with.
LEMMA FoldIsFolded ==
  ASSUME NEW S, NEW E, NEW base \in S, NEW seq \in Seq(E), NEW F \in Steps(S, E), NEW c,
         IsFoldOf(c, F, base, seq, S)
  PROVE  c[DOMAIN seq] = Folded(F, base, seq, S)
  <1> DEFINE n == Len(seq)
             G == TurnsOver(F, seq, S)
             h == [k \in 0 .. n |-> c[1 .. k]]
  <1>1. n \in Nat /\ DOMAIN seq = 1 .. n
    OBVIOUS
  <1>2. PICK f : IsLoop(f, n, S, base, G) /\ Folded(F, base, seq, S) = f[n]
    BY FoldedIsLoop
  <1>3. \A i \in 1 .. n, x \in S : G[i][x] = F[x][seq[i]] /\ G[i][x] \in S
    BY FoldedIsLoop
  <1> HIDE DEF n, G
  <1>4. ASSUME NEW k \in Nat, k < n, c[1 .. k] \in S PROVE c[1 .. k + 1] = G[k + 1][c[1 .. k]]
    <2> DEFINE s == 1 .. k + 1
    <2>1. Max(s) = k + 1 /\ s \ {k + 1} = 1 .. k
      BY GreatestOfFirst
    <2>2. k + 1 \in 1 .. n /\ k + 1 \in s /\ s \subseteq 1 .. n
      BY <1>1, <1>4
    <2> HIDE DEF s
    <2>3. c[s] = F[c[1 .. k]][seq[k + 1]]
      BY <1>1, <1>4, <2>1, <2>2 DEF IsFoldOf
    <2>4. QED
      BY <1>3, <1>4, <2>2, <2>3 DEF s
  <1>5. IsLoop(h, n, S, base, G)
    <2> HIDE DEF h
    <2>1. QED
      BY <1>1, <1>3, <1>4, PrefixesAreLoop DEF h, IsFoldOf
  <1>6. h[n] = c[DOMAIN seq]
    BY <1>1
  <1> HIDE DEF h
  <1>7. \A i \in 1 .. n : h[i] = G[i][h[i - 1]] /\ f[i] = G[i][f[i - 1]]
    BY <1>2, <1>5 DEF IsLoop
  <1> DEFINE T == {m \in Nat : m <= n => h[m] = f[m]}
  <1>8. 0 \in T
    BY <1>2, <1>5 DEF IsLoop
  <1>9. ASSUME NEW m \in Nat, m \in T PROVE m + 1 \in T
    <2>1. SUFFICES ASSUME m + 1 <= n PROVE h[m + 1] = f[m + 1]
      OBVIOUS
    <2>2. m + 1 \in 1 .. n /\ (m + 1) - 1 = m /\ m <= n
      BY <1>1, <2>1
    <2>3. h[m] = f[m]
      BY <1>9, <2>2
    <2>4. QED
      BY <1>7, <2>2, <2>3
  <1> HIDE DEF T
  <1>10. n \in T
    BY <1>1, <1>8, <1>9, Induction
  <1>11. QED
    BY <1>1, <1>2, <1>6, <1>10 DEF T

=============================================================================
