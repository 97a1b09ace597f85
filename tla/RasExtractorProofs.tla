------------------------- MODULE RasExtractorProofs -------------------------
(***************************************************************************)
(* Proofs about RasExtractor, for every group, pair of patterns and dataset: *)
(* what the two loops of the extraction compute (the selection of datasets,  *)
(* and the extremes of a column), by induction over their turns, and the     *)
(* properties that follow from it.                                          *)
(***************************************************************************)
EXTENDS RasExtractor, SharedLemmas, FiniteSetTheorems, TLAPS

-----------------------------------------------------------------------------
(* The selection. *)

LeftOutUpTo(m) == {q \in 1 .. m : ~Include(q)}

\* s is the selection among the first m members: it holds all that are to be included,
\* and no other, in their order, and lacks as many as are left out, in all and before
\* each of its members.
SelectsFrom(s, m) ==
  /\ s \in Seq(Nat)
  /\ Len(s) <= m
  /\ m - Len(s) = Cardinality(LeftOutUpTo(m))
  /\ \A q \in 1 .. m : Include(q) => \E k \in 1 .. Len(s) : s[k] = q
  /\ \A k \in 1 .. Len(s) : /\ s[k] \in 1 .. m /\ k <= s[k]
                            /\ s[k] - k = Cardinality(LeftOutBefore(s[k]))
                            /\ Include(s[k])
  /\ \A k, l \in 1 .. Len(s) : k < l => s[k] < s[l]

LEMMA LeftOutIsFinite ==
  ASSUME NEW m \in Nat
  PROVE  IsFiniteSet(LeftOutUpTo(m)) /\ Cardinality(LeftOutUpTo(m)) \in Nat
  <1>1. IsFiniteSet(1 .. m)
    BY FS_Interval
  <1>2. LeftOutUpTo(m) \subseteq 1 .. m
    BY DEF LeftOutUpTo
  <1>3. IsFiniteSet(LeftOutUpTo(m))
    BY <1>1, <1>2, FS_Subset
  <1>4. QED
    BY <1>3, FS_CardinalityType

\* One more turn of the loop over the members.
LEMMA SelectsOneMore ==
  ASSUME NEW s, NEW m \in Nat, SelectsFrom(s, m)
  PROVE  SelectsFrom(IF Include(m + 1) THEN Append(s, m + 1) ELSE s, m + 1)
  <1> USE DEF SelectsFrom
  <1>0. s \in Seq(Nat) /\ Len(s) \in Nat /\ Len(s) <= m
    OBVIOUS
  <1>1. CASE Include(m + 1)
    <2> DEFINE t == Append(s, m + 1)
    <2>1. t \in Seq(Nat) /\ Len(t) = Len(s) + 1 /\ t[Len(s) + 1] = m + 1
      BY <1>0
    <2>2. \A k \in 1 .. Len(s) : t[k] = s[k]
      BY <1>0
    <2> HIDE DEF t
    <2>3. LeftOutUpTo(m + 1) = LeftOutUpTo(m) /\ LeftOutBefore(m + 1) = LeftOutUpTo(m)
      BY <1>1 DEF LeftOutUpTo, LeftOutBefore
    <2>4. (m + 1) - Len(t) = Cardinality(LeftOutUpTo(m + 1))
      BY <1>0, <2>1, <2>3
    <2>5. \A q \in 1 .. m + 1 : Include(q) => \E k \in 1 .. Len(t) : t[k] = q
      <3>1. ASSUME NEW q \in 1 .. m + 1, Include(q) PROVE \E k \in 1 .. Len(t) : t[k] = q
        <4>1. CASE q = m + 1
          BY <1>0, <2>1, <4>1
        <4>2. CASE q \in 1 .. m
          <5>1. PICK k \in 1 .. Len(s) : s[k] = q
            BY <3>1, <4>2
          <5>2. k \in 1 .. Len(t) /\ t[k] = q
            BY <1>0, <2>1, <2>2, <5>1
          <5>3. QED
            BY <5>2
        <4>3. QED
          BY <4>1, <4>2
      <3>2. QED
        BY <3>1
    <2>6. ASSUME NEW k \in 1 .. Len(t)
          PROVE  /\ t[k] \in 1 .. m + 1 /\ k <= t[k]
                 /\ t[k] - k = Cardinality(LeftOutBefore(t[k]))
                 /\ Include(t[k])
      <3>1. CASE k = Len(s) + 1
        BY <1>0, <1>1, <2>1, <2>3, <3>1
      <3>2. CASE k \in 1 .. Len(s)
        BY <1>0, <2>2, <3>2
      <3>3. QED
        BY <1>0, <2>1, <3>1, <3>2
    <2>7. ASSUME NEW k \in 1 .. Len(t), NEW l \in 1 .. Len(t), k < l PROVE t[k] < t[l]
      <3>1. k \in 1 .. Len(s) /\ t[k] = s[k] /\ s[k] \in 1 .. m
        BY <1>0, <2>1, <2>2, <2>7
      <3>2. CASE l = Len(s) + 1
        BY <2>1, <3>1, <3>2
      <3>3. CASE l \in 1 .. Len(s)
        BY <2>2, <2>7, <3>1, <3>3
      <3>4. QED
        BY <1>0, <2>1, <3>2, <3>3
    <2>8. SelectsFrom(t, m + 1)
      BY <1>0, <2>1, <2>4, <2>5, <2>6, <2>7
    <2>9. QED
      BY <1>1, <2>8 DEF t
  <1>2. CASE ~Include(m + 1)
    <2>1. LeftOutUpTo(m + 1) = LeftOutUpTo(m) \cup {m + 1} /\ m + 1 \notin LeftOutUpTo(m)
      BY <1>2 DEF LeftOutUpTo
    <2>2. Cardinality(LeftOutUpTo(m + 1)) = Cardinality(LeftOutUpTo(m)) + 1
      BY <2>1, LeftOutIsFinite, FS_AddElement
    <2>3. (m + 1) - Len(s) = Cardinality(LeftOutUpTo(m + 1))
      BY <1>0, <2>2
    <2>4. \A q \in 1 .. m + 1 : Include(q) => q \in 1 .. m
      BY <1>2
    <2>5. SelectsFrom(s, m + 1)
      BY <1>0, <2>3, <2>4
    <2>6. QED
      BY <1>2, <2>5
  <1>3. QED
    BY <1>1, <1>2

\* What the loop selects of a group.
LEMMA SelectedIsRight ==
  ASSUME input.members \in Nat, input.group
  PROVE  SelectsFrom(Selected, input.members)
  <1> DEFINE M == input.members
             More(s, m) == IF Include(m) THEN Append(s, m) ELSE s
             Turns(g) == [m \in 0 .. M |-> IF m = 0 THEN <<>> ELSE More(g[m - 1], m)]
             f == CHOOSE g : g = Turns(g)
             G == [m \in 1 .. M |-> [s \in Seq(Nat) |-> More(s, m)]]
  <1>1. M \in Nat /\ Selected = f[M]
    BY DEF Selected
  <1>2. \A m \in Nat : \A s \in Seq(Nat) : More(s, m) \in Seq(Nat)
    OBVIOUS
  <1> HIDE DEF M, More
  <1>3. G \in [1 .. M -> [Seq(Nat) -> Seq(Nat)]]
    BY <1>1, <1>2
  <1>4. \A m \in 1 .. M : \A s \in Seq(Nat) : G[m][s] = More(s, m)
    OBVIOUS
  <1> HIDE DEF G
  <1>5. <<>> \in Seq(Nat)
    OBVIOUS
  <1>6. PICK g \in [0 .. M -> Seq(Nat)] : g[0] = <<>> /\ \A m \in 1 .. M : g[m] = G[m][g[m - 1]]
    <2> DEFINE T == Seq(Nat)
               e == <<>>
    <2>1. M \in Nat /\ G \in [1 .. M -> [T -> T]] /\ e \in T
      BY <1>1, <1>3, <1>5
    <2> HIDE DEF T, e
    <2>2. \E g : IsLoop(g, M, T, e, G)
      BY <2>1, Loop
    <2>3. QED
      BY <2>2 DEF T, e, IsLoop
  <1>7. \A m \in 1 .. M : g[m - 1] \in Seq(Nat)
    BY <1>1, <1>6
  <1>8. \A m \in 1 .. M : g[m] = More(g[m - 1], m)
    BY <1>4, <1>6, <1>7
  <1>9. g = Turns(g)
    BY <1>1, <1>6, <1>8
  <1>10. f = Turns(f)
    BY <1>9
  <1> HIDE DEF f
  <1>11. f[0] = <<>> /\ \A m \in 1 .. M : f[m] = More(f[m - 1], m)
    BY <1>1, <1>10
  <1> DEFINE S == {m \in Nat : m <= M => SelectsFrom(f[m], m)}
  <1>12. 0 \in S
    <2>1. LeftOutUpTo(0) = {} /\ Cardinality({}) = 0
      BY FS_EmptySet DEF LeftOutUpTo
    <2>2. Cardinality(LeftOutUpTo(0)) = 0
      BY <2>1
    <2> DEFINE e == <<>>
    <2>3. e \in Seq(Nat) /\ Len(e) = 0
      OBVIOUS
    <2> HIDE DEF e
    <2>4. SelectsFrom(e, 0)
      BY <2>2, <2>3 DEF SelectsFrom
    <2>5. QED
      BY <1>11, <2>4 DEF e
  <1>13. ASSUME NEW m \in Nat, m \in S PROVE m + 1 \in S
    <2>1. SUFFICES ASSUME m + 1 <= M PROVE SelectsFrom(f[m + 1], m + 1)
      OBVIOUS
    <2>2. SelectsFrom(f[m], m) /\ m + 1 \in 1 .. M
      BY <1>1, <1>13, <2>1
    <2>3. f[m + 1] = More(f[m], m + 1)
      BY <1>11, <2>2
    <2>4. QED
      BY <2>2, <2>3, SelectsOneMore DEF More
  <1> HIDE DEF S
  <1>14. M \in S
    BY <1>1, <1>12, <1>13, Induction
  <1>15. QED
    BY <1>1, <1>14 DEF S, M

-----------------------------------------------------------------------------
(* The extremes of a column.  *)

\* What a turn of the loop makes of the best value so far.
Better(pp, a, v) ==
  IF (IF pp = "max" THEN Greater(a, v) ELSE Greater(v, a)) THEN a ELSE v

\* v is the extreme of the first n values of c, or missing as the first one is.
IsExtremeOf(pp, v, c, n) ==
  /\ \E i \in DOMAIN c : v = c[i]
  /\ v = NaN <=> c[1] = NaN
  /\ v # NaN => \A i \in 1 .. n : IF pp = "max" THEN ~Greater(c[i], v) ELSE ~Greater(v, c[i])

LEMMA NaNIsNoNumber == NaN \notin Int /\ Null \notin Int /\ NaN # Null
  BY ValuesAssumption

\* One more turn of the loop over the rows.
LEMMA ExtremeOfOneMore ==
  ASSUME NEW n \in Nat, NEW c \in [1 .. n -> Values], NEW m \in 0 .. n - 1, NEW pp, NEW v,
         IsExtremeOf(pp, v, c, m)
  PROVE  IsExtremeOf(pp, Better(pp, c[m + 1], v), c, m + 1)
  <1> DEFINE w == Better(pp, c[m + 1], v)
  <1>1. m + 1 \in 1 .. n /\ c[m + 1] \in Values
    OBVIOUS
  <1>2. v \in Values /\ \E i \in DOMAIN c : v = c[i]
    BY DEF IsExtremeOf
  <1>3. w = c[m + 1] \/ w = v
    BY DEF Better
  <1>4. \E i \in DOMAIN c : w = c[i]
    BY <1>1, <1>2, <1>3
  <1>5. w = NaN <=> v = NaN
    BY <1>1, <1>2, NaNIsNoNumber DEF Better, Greater, Values
  <1>6. ASSUME w # NaN, NEW i \in 1 .. m + 1
        PROVE  IF pp = "max" THEN ~Greater(c[i], w) ELSE ~Greater(w, c[i])
    <2>1. v # NaN /\ c[i] \in Values
      BY <1>5, <1>6
    <2>2. CASE i = m + 1
      BY <1>1, <1>2, <2>1, <2>2, NaNIsNoNumber DEF Better, Greater, Values
    <2>3. CASE i \in 1 .. m
      <3>1. IF pp = "max" THEN ~Greater(c[i], v) ELSE ~Greater(v, c[i])
        BY <2>1, <2>3 DEF IsExtremeOf
      <3>2. QED
        BY <1>1, <1>2, <2>1, <3>1, NaNIsNoNumber DEF Better, Greater, Values
    <2>4. QED
      BY <2>2, <2>3
  <1>7. w = NaN <=> c[1] = NaN
    BY <1>5 DEF IsExtremeOf
  <1> HIDE DEF w
  <1>8. IsExtremeOf(pp, w, c, m + 1)
    BY <1>4, <1>6, <1>7 DEF IsExtremeOf
  <1>9. QED
    BY <1>8 DEF w

\* The whole loop.
LEMMA LoopFindsExtreme ==
  ASSUME NEW n \in Nat, 1 \in 1 .. n, NEW c \in [1 .. n -> Values], NEW pp, NEW f,
         f[0] = c[1], \A i \in 1 .. n : f[i] = Better(pp, c[i], f[i - 1])
  PROVE  IsExtremeOf(pp, f[n], c, n)
  <1> DEFINE S == {m \in Nat : m <= n => IsExtremeOf(pp, f[m], c, m)}
  <1>1. 0 \in S
    BY DEF IsExtremeOf
  <1>2. ASSUME NEW m \in Nat, m \in S PROVE m + 1 \in S
    <2>1. SUFFICES ASSUME m + 1 <= n PROVE IsExtremeOf(pp, f[m + 1], c, m + 1)
      OBVIOUS
    <2>2. IsExtremeOf(pp, f[m], c, m) /\ m \in 0 .. n - 1 /\ m + 1 \in 1 .. n
      BY <1>2, <2>1
    <2>3. f[m + 1] = Better(pp, c[m + 1], f[m])
      BY <2>2
    <2>4. QED
      BY <2>2, <2>3, ExtremeOfOneMore
  <1> HIDE DEF S
  <1>3. n \in S
    BY <1>1, <1>2, Induction
  <1>4. QED
    BY <1>3 DEF S

\* The loop's values, and that they exist.
ComputesBest(g, n, c, pp) ==
  /\ g \in [0 .. n -> Values]
  /\ g[0] = c[1]
  /\ \A i \in 1 .. n : g[i] = Better(pp, c[i], g[i - 1])

LEMMA ColumnLoop ==
  ASSUME NEW n \in Nat, 1 \in 1 .. n, NEW c \in [1 .. n -> Values], NEW pp
  PROVE  \E g : ComputesBest(g, n, c, pp)
  <1> DEFINE s == c[1]
             V == Values
             G == [i \in 1 .. n |-> [v \in V |-> Better(pp, c[i], v)]]
  <1>1. s \in V /\ \A i \in 1 .. n : c[i] \in V
    OBVIOUS
  <1>2. G \in [1 .. n -> [V -> V]]
    BY <1>1 DEF Better
  <1>3. \A i \in 1 .. n : \A v \in V : G[i][v] = Better(pp, c[i], v)
    OBVIOUS
  <1> HIDE DEF s, V, G
  <1>4. PICK g : IsLoop(g, n, V, s, G)
    BY <1>1, <1>2, Loop
  <1>5. ASSUME NEW i \in 1 .. n PROVE g[i] = Better(pp, c[i], g[i - 1])
    <2>1. i - 1 \in 0 .. n
      OBVIOUS
    <2>2. g[i - 1] \in V /\ g[i] = G[i][g[i - 1]]
      BY <1>4, <2>1 DEF IsLoop
    <2>3. QED
      BY <1>3, <2>2
  <1>6. g \in [0 .. n -> V] /\ g[0] = s
    BY <1>4 DEF IsLoop
  <1>7. QED
    BY <1>5, <1>6 DEF s, V, ComputesBest

LEMMA ColumnIsOfValues ==
  ASSUME NEW data \in Seq(Seq(Values)), data # <<>>, NEW k \in Nat,
         \A i \in 1 .. Len(data) : k \in 1 .. Len(data[i])
  PROVE  /\ Len(data) \in Nat /\ 1 \in 1 .. Len(data)
         /\ [i \in 1 .. Len(data) |-> data[i][k]] \in [1 .. Len(data) -> Values]
  <1>1. Len(data) \in Nat /\ 1 \in 1 .. Len(data)
    OBVIOUS
  <1>2. ASSUME NEW i \in 1 .. Len(data) PROVE data[i][k] \in Values
    <2>1. data[i] \in Seq(Values) /\ k \in 1 .. Len(data[i])
      OBVIOUS
    <2>2. QED
      BY <2>1
  <1>3. QED
    BY <1>1, <1>2

\* What columnMax and columnMin return.
LEMMA ColumnMaxIsExtreme ==
  ASSUME NEW data \in Seq(Seq(Values)), data # <<>>, NEW k \in Nat,
         \A i \in 1 .. Len(data) : k \in 1 .. Len(data[i])
  PROVE  IsExtremeOf("max", ColumnMax(data, k), [i \in 1 .. Len(data) |-> data[i][k]], Len(data))
  <1> DEFINE n == Len(data)
             c == [i \in 1 .. n |-> data[i][k]]
             Turns(g) == [i \in 0 .. n |-> IF i = 0 THEN data[1][k]
                                          ELSE IF Greater(data[i][k], g[i - 1]) THEN data[i][k]
                                          ELSE g[i - 1]]
             f == CHOOSE g : g = Turns(g)
  <1>1. ColumnMax(data, k) = f[n]
    BY DEF ColumnMax
  <1>2. n \in Nat /\ 1 \in 1 .. n /\ c \in [1 .. n -> Values]
    BY ColumnIsOfValues
  <1>3. \A i \in 1 .. n : data[i][k] = c[i]
    OBVIOUS
  <1>4. data[1][k] = c[1]
    BY <1>2
  <1> HIDE DEF n, c
  <1>5. PICK g : ComputesBest(g, n, c, "max")
    BY <1>2, ColumnLoop
  <1>6. g = Turns(g)
    BY <1>2, <1>3, <1>4, <1>5 DEF Better, ComputesBest
  <1>7. f = Turns(f)
    BY <1>6
  <1> HIDE DEF f
  <1>8. \A i \in 0 .. n : f[i] = Turns(f)[i]
    BY <1>7
  <1>9. f[0] = c[1]
    BY <1>2, <1>4, <1>8
  <1>10. ASSUME NEW i \in 1 .. n PROVE f[i] = Better("max", c[i], f[i - 1])
    <2>1. i \in 0 .. n /\ i # 0
      BY <1>2
    <2>2. f[i] = IF Greater(data[i][k], f[i - 1]) THEN data[i][k] ELSE f[i - 1]
      BY <1>8, <2>1
    <2>3. QED
      BY <1>3, <2>2 DEF Better
  <1> HIDE DEF Turns
  <1>11. IsExtremeOf("max", f[n], c, n)
    BY <1>2, <1>9, <1>10, LoopFindsExtreme
  <1>12. QED
    BY <1>1, <1>11 DEF n, c

LEMMA ColumnMinIsExtreme ==
  ASSUME NEW data \in Seq(Seq(Values)), data # <<>>, NEW k \in Nat,
         \A i \in 1 .. Len(data) : k \in 1 .. Len(data[i])
  PROVE  IsExtremeOf("min", ColumnMin(data, k), [i \in 1 .. Len(data) |-> data[i][k]], Len(data))
  <1> DEFINE n == Len(data)
             c == [i \in 1 .. n |-> data[i][k]]
             Turns(g) == [i \in 0 .. n |-> IF i = 0 THEN data[1][k]
                                          ELSE IF Greater(g[i - 1], data[i][k]) THEN data[i][k]
                                          ELSE g[i - 1]]
             f == CHOOSE g : g = Turns(g)
  <1>1. ColumnMin(data, k) = f[n]
    BY DEF ColumnMin
  <1>2. n \in Nat /\ 1 \in 1 .. n /\ c \in [1 .. n -> Values]
    BY ColumnIsOfValues
  <1>3. \A i \in 1 .. n : data[i][k] = c[i]
    OBVIOUS
  <1>4. data[1][k] = c[1]
    BY <1>2
  <1> HIDE DEF n, c
  <1>5. PICK g : ComputesBest(g, n, c, "min")
    BY <1>2, ColumnLoop
  <1>6. g = Turns(g)
    BY <1>2, <1>3, <1>4, <1>5 DEF Better, ComputesBest
  <1>7. f = Turns(f)
    BY <1>6
  <1> HIDE DEF f
  <1>8. \A i \in 0 .. n : f[i] = Turns(f)[i]
    BY <1>7
  <1>9. f[0] = c[1]
    BY <1>2, <1>4, <1>8
  <1>10. ASSUME NEW i \in 1 .. n PROVE f[i] = Better("min", c[i], f[i - 1])
    <2>1. i \in 0 .. n /\ i # 0
      BY <1>2
    <2>2. f[i] = IF Greater(f[i - 1], data[i][k]) THEN data[i][k] ELSE f[i - 1]
      BY <1>8, <2>1
    <2>3. QED
      BY <1>3, <2>2 DEF Better
  <1> HIDE DEF Turns
  <1>11. IsExtremeOf("min", f[n], c, n)
    BY <1>2, <1>9, <1>10, LoopFindsExtreme
  <1>12. QED
    BY <1>1, <1>11 DEF n, c

-----------------------------------------------------------------------------
(* The steps. *)

ColumnOf(data, k) == [i \in 1 .. Len(data) |-> data[i][k]]

\* A document of a matrix says the extremes of its columns.
LEMMA SummariesOfMatrix ==
  ASSUME NEW data, data \in Seq(Seq(Values)), \A i \in DOMAIN data : Len(data[i]) = Len(data[1]),
         NEW pp \in {"max", "min"} \cap DOMAIN OutputBlock(data).summaries,
         NEW k \in DOMAIN OutputBlock(data).summaries[pp]
  PROVE  /\ data # <<>> /\ k \in Nat /\ \A i \in 1 .. Len(data) : k \in 1 .. Len(data[i])
         /\ \E x : /\ IsExtremeOf(pp, x, ColumnOf(data, k), Len(data))
                  /\ OutputBlock(data).summaries[pp][k] = SummaryNumber(x)
  <1> DEFINE D == OutputBlock(data).summaries
  <1>1. input.writeSummary /\ pp \in DOMAIN Summaries(data)
    <2>1. D = IF input.writeSummary
              THEN [q \in DOMAIN Summaries(data) |->
                      [j \in DOMAIN data[1] |-> SummaryNumber(Summaries(data)[q][j])]]
              ELSE <<>>
      BY DEF OutputBlock
    <2>2. CASE ~input.writeSummary
      <3>1. DOMAIN D = {}
        BY <2>1, <2>2
      <3>2. QED
        BY <3>1
    <2>3. CASE input.writeSummary
      BY <2>1, <2>3
    <2>4. QED
      BY <2>2, <2>3
  <1>2. D[pp] = [j \in DOMAIN data[1] |-> SummaryNumber(Summaries(data)[pp][j])]
    BY <1>1 DEF OutputBlock
  <1>3. k \in DOMAIN data[1] /\ D[pp][k] = SummaryNumber(Summaries(data)[pp][k])
    BY <1>2
  <1>4. data # <<>> /\ pp \in input.postprocess /\ Summaries(data)[pp] = Summary(pp, data)
    BY <1>1 DEF Summaries
  <1>5. Summaries(data)[pp][k] = IF pp = "max" THEN ColumnMax(data, k) ELSE ColumnMin(data, k)
    BY <1>3, <1>4 DEF Summary
  <1>6. Len(data) \in Nat /\ 1 \in 1 .. Len(data) /\ DOMAIN data = 1 .. Len(data)
    BY <1>4
  <1>7. ASSUME NEW i \in 1 .. Len(data)
        PROVE  data[i] \in Seq(Values) /\ Len(data[i]) = Len(data[1])
    <2>1. i \in DOMAIN data
      BY <1>6
    <2>2. QED
      BY <2>1
  <1>8. k \in 1 .. Len(data[1]) /\ Len(data[1]) \in Nat
    BY <1>3, <1>6, <1>7
  <1>9. k \in Nat /\ \A i \in 1 .. Len(data) : k \in 1 .. Len(data[i])
    BY <1>7, <1>8
  <1>10. IsExtremeOf(pp, Summaries(data)[pp][k], ColumnOf(data, k), Len(data))
    <2>1. CASE pp = "max"
      BY <1>4, <1>5, <1>9, <2>1, ColumnMaxIsExtreme DEF ColumnOf
    <2>2. CASE pp = "min"
      BY <1>4, <1>5, <1>9, <2>2, ColumnMinIsExtreme DEF ColumnOf
    <2>3. QED
      BY <2>1, <2>2
  <1> HIDE DEF D
  <1>11. QED
    BY <1>3, <1>4, <1>9, <1>10 DEF D

IsMatrix(data) ==
  data \in Seq(Seq(Values)) /\ \A i \in DOMAIN data : Len(data[i]) = Len(data[1])

LEMMA DocumentOfMatrix == IsMatrix(source) /\ written = OutputBlock(source) => SummariesAreExtremes
  <1> SUFFICES ASSUME source \in Seq(Seq(Values)),
                      \A i \in DOMAIN source : Len(source[i]) = Len(source[1]),
                      written = OutputBlock(source)
               PROVE  SummariesAreExtremes
    BY DEF IsMatrix
  <1> SUFFICES ASSUME NEW pp \in {"max", "min"} \cap DOMAIN written.summaries,
                      NEW k \in DOMAIN written.summaries[pp]
               PROVE  LET v == written.summaries[pp][k]
                      IN  IF input.datatype = "int" \/ source[1][k] = NaN
                          THEN v = Null
                          ELSE v # Null /\ IsExtreme(pp, v, k)
    BY DEF SummariesAreExtremes
  <1> DEFINE v == written.summaries[pp][k]
             n == Len(source)
             c == ColumnOf(source, k)
  <1>1. /\ source # <<>> /\ k \in Nat /\ \A i \in 1 .. Len(source) : k \in 1 .. Len(source[i])
        /\ \E x : IsExtremeOf(pp, x, c, n) /\ v = SummaryNumber(x)
    <2>1. /\ pp \in {"max", "min"} \cap DOMAIN OutputBlock(source).summaries
          /\ k \in DOMAIN OutputBlock(source).summaries[pp]
          /\ v = OutputBlock(source).summaries[pp][k]
      OBVIOUS
    <2> HIDE DEF v
    <2>2. QED
      BY <2>1, SummariesOfMatrix
  <1>2. PICK x : IsExtremeOf(pp, x, c, n) /\ v = SummaryNumber(x)
    BY <1>1
  <1>3. n \in Nat /\ 1 \in 1 .. n /\ c \in [1 .. n -> Values]
    BY <1>1, ColumnIsOfValues DEF ColumnOf
  <1>4. c[1] = source[1][k] /\ Column(k) = {c[i] : i \in 1 .. n}
    BY <1>3 DEF Column, ColumnOf
  <1> HIDE DEF v, c, n
  <1>5. x \in Column(k) /\ x \in Values
    BY <1>2, <1>3, <1>4 DEF IsExtremeOf
  <1>6. x = NaN <=> source[1][k] = NaN
    BY <1>2, <1>4 DEF IsExtremeOf
  <1>7. CASE input.datatype = "int" \/ x = NaN
    <2>1. v = Null
      BY <1>2, <1>7 DEF SummaryNumber
    <2>2. QED
      BY <1>6, <1>7, <2>1 DEF v
  <1>8. CASE ~(input.datatype = "int" \/ x = NaN)
    <2>1. v = x /\ v # Null
      BY <1>2, <1>5, <1>8, NaNIsNoNumber DEF SummaryNumber, Values
    <2>2. \A i \in 1 .. n : IF pp = "max" THEN ~Greater(c[i], x) ELSE ~Greater(x, c[i])
      BY <1>2, <1>8 DEF IsExtremeOf
    <2>3. IsExtreme(pp, v, k)
      BY <1>4, <1>5, <2>1, <2>2 DEF IsExtreme
    <2>4. QED
      BY <1>6, <1>8, <2>1, <2>3 DEF v
  <1>9. QED
    BY <1>7, <1>8

LEMMA SelectedStays ==
  ASSUME input' = input
  PROVE  Selected' = Selected
  BY DEF Selected, Include, Given

LEMMA LeftOutStays ==
  ASSUME input' = input
  PROVE  \A m : LeftOutBefore(m)' = LeftOutBefore(m)
  BY DEF LeftOutBefore, Include, Given

\* Nothing is written and no dataset is untried again: the records stay those of
\* datasets that were tried.
LEMMA RecordsStay ==
  ASSUME IInv, UNCHANGED <<input, block>>, next' \in Nat, next <= next'
  PROVE  RecordsAreOfTheTried' /\ OnlySelectedAreRecorded'
  <1>1. RecordsAreOfTheTried /\ OnlySelectedAreRecorded /\ next \in Nat
    BY DEF IInv
  <1>2. RecordsAreOfTheTried'
    <2>1. SUFFICES ASSUME ~input.attributes, input.group, NEW i \in DOMAIN block
                   PROVE  \E k \in 1 .. next' - 1 : k <= Len(Selected) /\ block[i].dataset = Selected[k]
      BY SelectedStays DEF RecordsAreOfTheTried
    <2>2. PICK k \in 1 .. next - 1 : k <= Len(Selected) /\ block[i].dataset = Selected[k]
      BY <1>1, <2>1 DEF RecordsAreOfTheTried
    <2>3. \A n, m \in Nat : n <= m => 1 .. n - 1 \subseteq 1 .. m - 1
      OBVIOUS
    <2>4. k \in 1 .. next' - 1
      BY <1>1, <2>2, <2>3
    <2>5. QED
      BY <2>2, <2>4
  <1>3. OnlySelectedAreRecorded'
    BY <1>1 DEF OnlySelectedAreRecorded, Documented, Given
  <1>4. QED
    BY <1>2, <1>3

\* What is included is documented, or the exclude pattern had the last word.
LEMMA IncludedIsDocumented ==
  ASSUME NEW m, Include(m)
  PROVE  Documented(m) \/ (Given(input.match) /\ Given(input.exclude) /\ m \notin input.exclude)
  BY DEF Include, Documented

\* Nothing is written: what the properties speak of stays.
LEMMA NothingWritten ==
  ASSUME IInv, UNCHANGED <<input, block, source, written>>
  PROVE  KeyIsShiftedByLeftOut' /\ SummariesAreExtremes' /\ AttributesHaveNoSummaries'
  <1>1. KeyIsShiftedByLeftOut'
    BY LeftOutStays DEF IInv, KeyIsShiftedByLeftOut
  <1>2. SummariesAreExtremes'
    <2>1. \A k : Column(k)' = Column(k)
      BY DEF Column
    <2>2. \A pp, v, k : IsExtreme(pp, v, k)' <=> IsExtreme(pp, v, k)
      BY <2>1 DEF IsExtreme
    <2>3. SummariesAreExtremes
      BY DEF IInv
    <2>4. QED
      BY <2>2, <2>3 DEF SummariesAreExtremes
  <1>3. AttributesHaveNoSummaries'
    BY DEF IInv, AttributesHaveNoSummaries
  <1>4. QED
    BY <1>1, <1>2, <1>3

\* Without summaries there is nothing to be wrong.
LEMMA NoSummaries == written.summaries = <<>> => SummariesAreExtremes
  <1> SUFFICES ASSUME written.summaries = <<>> PROVE SummariesAreExtremes
    OBVIOUS
  <1>1. DOMAIN written.summaries = {}
    OBVIOUS
  <1>2. QED
    BY <1>1 DEF SummariesAreExtremes

\* The selection, of a group or not, in the terms the records need.
LEMMA SelectedIsPlaced ==
  ASSUME input \in Inputs, NEW k \in 1 .. Len(Selected)
  PROVE  /\ DatasetName(k) \in Nat /\ Selected[k] \in Nat
         /\ input.group => Selected[k] - DatasetName(k) = Cardinality(LeftOutBefore(Selected[k]))
  <1>1. input.members \in Nat
    BY InputsAssumption
  <1>2. CASE input.group
    <2>1. SelectsFrom(Selected, input.members)
      BY <1>1, <1>2, SelectedIsRight
    <2>2. Len(Selected) \in Nat /\ Len(Selected) <= input.members
      BY <2>1 DEF SelectsFrom
    <2>3. k \in 1 .. input.members
      BY <1>1, <2>2
    <2>4. DatasetName(k) = k
      BY <1>2, <2>3 DEF DatasetName, Members
    <2>5. Selected[k] \in 1 .. input.members /\ Selected[k] - k = Cardinality(LeftOutBefore(Selected[k]))
      BY <2>1 DEF SelectsFrom
    <2>6. QED
      BY <1>1, <2>2, <2>4, <2>5
  <1>3. CASE ~input.group
    <2>1. Selected = <<1>> /\ DatasetName(k) = 1
      BY <1>3 DEF Selected, DatasetName
    <2>2. k = 1 /\ Selected[k] = 1
      BY <2>1
    <2>3. QED
      BY <1>3, <2>1, <2>2
  <1>4. QED
    BY <1>2, <1>3

Keyed == [key : Nat, dataset : Nat]

LEMMA InitIInv == Init => IInv
  <1> SUFFICES ASSUME Init PROVE IInv
    OBVIOUS
  <1>1. block \in Seq(Keyed) /\ DOMAIN block = {}
    BY DEF Init
  <1>2. written.summaries = <<>>
    BY DEF Init, Nothing
  <1>3. SummariesAreExtremes
    BY <1>2, NoSummaries
  <1>4. KeyIsShiftedByLeftOut /\ RecordsAreOfTheTried /\ OnlySelectedAreRecorded
    BY <1>1 DEF KeyIsShiftedByLeftOut, RecordsAreOfTheTried, OnlySelectedAreRecorded
  <1>5. QED
    BY <1>1, <1>2, <1>3, <1>4 DEF IInv, Init, LoopIsOver, AttributesHaveNoSummaries, Keyed

LEMMA StepIInv == IInv /\ [Next]_vars => IInv'
  <1> SUFFICES ASSUME IInv, [Next]_vars PROVE IInv'
    OBVIOUS
  <1>0. input \in Inputs /\ next \in Nat \ {0} /\ block \in Seq(Keyed)
    BY DEF IInv, Keyed
  \* The actions that write nothing and do not return.
  <1>1. ASSUME UNCHANGED <<input, block, source, written>>, next' \in Nat \ {0}, LoopIsOver',
               next <= next'
        PROVE  IInv'
    <2>1. KeyIsShiftedByLeftOut' /\ SummariesAreExtremes' /\ AttributesHaveNoSummaries'
      BY <1>1, NothingWritten
    <2>2. RecordsAreOfTheTried' /\ OnlySelectedAreRecorded'
      BY <1>1, RecordsStay
    <2>3. QED
      BY <1>0, <1>1, <2>1, <2>2 DEF IInv, Keyed
  <1>2. CASE NotOpened
    <2>1. LoopIsOver' /\ next' = next
      BY <1>2 DEF NotOpened, LoopIsOver
    <2>2. QED
      BY <1>0, <1>1, <1>2, <2>1 DEF NotOpened
  <1>3. CASE PatternPanics
    <2>1. LoopIsOver' /\ next' = next
      BY <1>3 DEF PatternPanics, LoopIsOver
    <2>2. QED
      BY <1>0, <1>1, <1>3, <2>1 DEF PatternPanics
  <1>4. CASE ExtractFails
    <2>1. LoopIsOver' /\ next' \in Nat \ {0} /\ next <= next'
      BY <1>0, <1>4 DEF ExtractFails, Extracting, SelectsDatasets, LoopIsOver
    <2>2. QED
      BY <1>1, <1>4, <2>1 DEF ExtractFails
  <1>5. CASE ExtractToConsole
    <2>1. LoopIsOver' /\ next' \in Nat \ {0} /\ next <= next'
      BY <1>0, <1>5 DEF ExtractToConsole, Extracting, SelectsDatasets, LoopIsOver
    <2>2. QED
      BY <1>1, <1>5, <2>1 DEF ExtractToConsole
  <1>6. CASE Extracted
    <2>1. LoopIsOver' /\ next' = next
      BY <1>6, SelectedStays DEF Extracted, LoopIsOver
    <2>2. QED
      BY <1>0, <1>1, <1>6, <2>1 DEF Extracted
  <1>7. CASE ExtractToJson
    <2> DEFINE r == [key |-> DatasetName(next), dataset |-> Selected[next]]
    <2>1. /\ outcome = "running" /\ outcome' = outcome /\ input' = input
          /\ ~input.attributes /\ next' = next + 1 /\ next <= Len(Selected)
          /\ block' = Append(block, r)
      BY <1>7 DEF ExtractToJson, Extracting, SelectsDatasets
    <2>2. PICK data \in input.contents : source' = data /\ written' = OutputBlock(data)
      BY <1>7 DEF ExtractToJson
    <2>3. LoopIsOver' /\ AttributesHaveNoSummaries' /\ next' \in Nat \ {0}
      BY <1>0, <2>1 DEF LoopIsOver, AttributesHaveNoSummaries
    <2>4. SummariesAreExtremes'
      <3>1. IsMatrix(data)
        BY <1>0, <2>1, <2>2, InputsAssumption DEF IsMatrix
      <3>2. OutputBlock(data) = OutputBlock(data)'
        BY <2>1 DEF OutputBlock, Summaries, SummaryNumber, DataNumber
      <3>3. written' = OutputBlock(source)'
        BY <2>2, <3>2
      <3>4. IsMatrix(source)'
        BY <2>2, <3>1 DEF IsMatrix
      <3>5. (IsMatrix(source) /\ written = OutputBlock(source) => SummariesAreExtremes)'
        BY DocumentOfMatrix, PTL
      <3>6. QED
        BY <3>3, <3>4, <3>5
    <2>5. next \in 1 .. Len(Selected)
      BY <1>0, <2>1
    <2>6. /\ r \in Keyed
          /\ input.group => r.dataset - r.key = Cardinality(LeftOutBefore(r.dataset))
      BY <1>0, <2>5, SelectedIsPlaced DEF Keyed
    <2> HIDE DEF r
    <2>7. block' \in Seq(Keyed) /\ Len(block) \in Nat /\ DOMAIN block' = 1 .. Len(block) + 1
      BY <1>0, <2>1, <2>6
    <2>8. ASSUME NEW i \in DOMAIN block', input.group
          PROVE  block'[i].dataset - block'[i].key = Cardinality(LeftOutBefore(block'[i].dataset))
      <3>1. CASE i = Len(block) + 1
        <4>1. block'[i] = r
          BY <1>0, <2>1, <2>6, <3>1
        <4>2. QED
          BY <2>6, <2>8, <4>1
      <3>2. CASE i \in 1 .. Len(block)
        <4>1. block'[i] = block[i] /\ i \in DOMAIN block
          BY <1>0, <2>1, <2>6, <3>2
        <4>2. QED
          BY <2>8, <4>1 DEF IInv, KeyIsShiftedByLeftOut
      <3>3. QED
        BY <2>7, <3>1, <3>2
    <2>9. KeyIsShiftedByLeftOut'
      <3>1. \A m : LeftOutBefore(m)' = LeftOutBefore(m)
        BY <2>1, LeftOutStays
      <3>2. QED
        BY <2>1, <2>8, <3>1 DEF KeyIsShiftedByLeftOut
    <2>10. RecordsAreOfTheTried'
      <3>1. SUFFICES ASSUME input.group, NEW i \in DOMAIN block'
                     PROVE  \E k \in 1 .. next : k <= Len(Selected) /\ block'[i].dataset = Selected[k]
        BY <1>0, <2>1, SelectedStays DEF RecordsAreOfTheTried
      <3>2. CASE i = Len(block) + 1
        <4>1. block'[i] = r /\ r.dataset = Selected[next]
          BY <1>0, <2>1, <2>6, <3>2 DEF r
        <4>2. next \in 1 .. next /\ next <= Len(Selected)
          BY <1>0, <2>1
        <4>3. QED
          BY <4>1, <4>2
      <3>3. CASE i \in 1 .. Len(block)
        <4>1. block'[i] = block[i] /\ i \in DOMAIN block
          BY <1>0, <2>1, <2>6, <3>3
        <4>2. PICK k \in 1 .. next - 1 : k <= Len(Selected) /\ block[i].dataset = Selected[k]
          BY <2>1, <3>1, <4>1 DEF IInv, RecordsAreOfTheTried
        <4>3. k \in 1 .. next
          BY <1>0, <4>2
        <4>4. QED
          BY <4>1, <4>2, <4>3
      <3>4. QED
        BY <2>7, <3>2, <3>3
    <2>11. OnlySelectedAreRecorded'
      <3>1. SUFFICES ASSUME input.group
                     PROVE  /\ \A i \in DOMAIN block' :
                                 LET m == block'[i].dataset
                                 IN  \/ Documented(m)
                                     \/ Given(input.match) /\ Given(input.exclude) /\ m \notin input.exclude
                            /\ \A i, j \in DOMAIN block' :
                                 i < j => block'[i].dataset < block'[j].dataset
        BY <2>1 DEF OnlySelectedAreRecorded, Documented, Given
      <3>2. SelectsFrom(Selected, input.members)
        BY <1>0, <3>1, SelectedIsRight, InputsAssumption
      <3>3. Include(Selected[next])
        BY <2>5, <3>2 DEF SelectsFrom
      <3>4. r.dataset = Selected[next] /\ block'[Len(block) + 1] = r
        BY <1>0, <2>1, <2>6 DEF r
      <3>5. ASSUME NEW i \in 1 .. Len(block)
            PROVE  /\ block'[i] = block[i] /\ i \in DOMAIN block
                   /\ block[i].dataset < Selected[next]
        <4>1. block'[i] = block[i] /\ i \in DOMAIN block
          BY <1>0, <2>1, <2>6, <3>5
        <4>2. PICK k \in 1 .. next - 1 : k <= Len(Selected) /\ block[i].dataset = Selected[k]
          BY <2>1, <3>1, <4>1 DEF IInv, RecordsAreOfTheTried
        <4>3. k \in 1 .. Len(Selected) /\ k < next
          BY <1>0, <2>1, <2>5, <4>2
        <4>4. Selected[k] < Selected[next]
          BY <2>5, <3>2, <4>3 DEF SelectsFrom
        <4>5. QED
          BY <4>1, <4>2, <4>4
      <3>6. OnlySelectedAreRecorded
        BY DEF IInv
      <3>7. ASSUME NEW i \in DOMAIN block'
            PROVE  LET m == block'[i].dataset
                   IN  \/ Documented(m)
                       \/ Given(input.match) /\ Given(input.exclude) /\ m \notin input.exclude
        <4>1. CASE i = Len(block) + 1
          BY <3>3, <3>4, <4>1, IncludedIsDocumented
        <4>2. CASE i \in 1 .. Len(block)
          BY <2>1, <3>1, <3>5, <3>6, <4>2 DEF OnlySelectedAreRecorded
        <4>3. QED
          BY <2>7, <4>1, <4>2
      <3>8. ASSUME NEW i \in DOMAIN block', NEW j \in DOMAIN block', i < j
            PROVE  block'[i].dataset < block'[j].dataset
        <4>1. i \in 1 .. Len(block)
          BY <2>7, <3>8
        <4>2. CASE j = Len(block) + 1
          BY <3>4, <3>5, <4>1, <4>2
        <4>3. CASE j \in 1 .. Len(block)
          BY <2>1, <3>1, <3>5, <3>6, <3>8, <4>1, <4>3 DEF OnlySelectedAreRecorded
        <4>4. QED
          BY <2>7, <4>2, <4>3
      <3>9. QED
        BY <3>7, <3>8
    <2>12. QED
      BY <1>0, <2>1, <2>3, <2>4, <2>7, <2>9, <2>10, <2>11 DEF IInv, Keyed
  <1>8. CASE AttributeExtract
    <2>1. /\ input' = input /\ next' = next /\ input.attributes
          /\ block' = <<[key |-> 1, dataset |-> 1]>>
          /\ written'.summaries = <<>>
      BY <1>8 DEF AttributeExtract, Nothing
    <2>2. SummariesAreExtremes'
      <3>1. (written.summaries = <<>> => SummariesAreExtremes)'
        BY NoSummaries, PTL
      <3>2. QED
        BY <2>1, <3>1
    <2>3. Cardinality(LeftOutBefore(1)) = 0
      <3>1. LeftOutBefore(1) = {}
        BY DEF LeftOutBefore
      <3>2. QED
        BY <3>1, FS_EmptySet
    <2>4. block' \in Seq(Keyed) /\ \A i \in DOMAIN block' : block'[i] = [key |-> 1, dataset |-> 1]
      BY <2>1 DEF Keyed
    <2>5. KeyIsShiftedByLeftOut'
      <3>1. \A m : LeftOutBefore(m)' = LeftOutBefore(m)
        BY <2>1, LeftOutStays
      <3>2. QED
        BY <2>3, <2>4, <3>1 DEF KeyIsShiftedByLeftOut
    <2>6. /\ LoopIsOver' /\ AttributesHaveNoSummaries'
          /\ RecordsAreOfTheTried' /\ OnlySelectedAreRecorded'
      BY <2>1 DEF LoopIsOver, AttributesHaveNoSummaries, RecordsAreOfTheTried,
                  OnlySelectedAreRecorded
    <2>7. QED
      BY <1>0, <2>1, <2>2, <2>4, <2>5, <2>6 DEF IInv, Keyed
  <1>9. CASE AttributeExtractFails
    <2>1. /\ UNCHANGED <<input, next, block, written>> /\ input.attributes
      BY <1>9 DEF AttributeExtractFails
    <2>2. written'.summaries = <<>>
      BY <2>1 DEF IInv, AttributesHaveNoSummaries
    <2>3. SummariesAreExtremes'
      <3>1. (written.summaries = <<>> => SummariesAreExtremes)'
        BY NoSummaries, PTL
      <3>2. QED
        BY <2>2, <3>1
    <2>4. /\ LoopIsOver' /\ AttributesHaveNoSummaries'
          /\ RecordsAreOfTheTried' /\ OnlySelectedAreRecorded'
      BY <2>1, <2>2 DEF LoopIsOver, AttributesHaveNoSummaries, RecordsAreOfTheTried,
                        OnlySelectedAreRecorded
    <2>5. KeyIsShiftedByLeftOut'
      BY <2>1, LeftOutStays DEF IInv, KeyIsShiftedByLeftOut
    <2>6. QED
      BY <1>0, <2>1, <2>3, <2>4, <2>5 DEF IInv, Keyed
  <1>10. CASE UNCHANGED vars
    <2>1. LoopIsOver'
      BY <1>10, SelectedStays DEF vars, IInv, LoopIsOver
    <2>2. QED
      BY <1>0, <1>1, <1>10, <2>1 DEF vars
  <1>11. QED
    BY <1>2, <1>3, <1>4, <1>5, <1>6, <1>7, <1>8, <1>9, <1>10 DEF Next

-----------------------------------------------------------------------------
(* The theorems. *)

\* The inductive invariant holds of every extraction.
THEOREM Invariance == Spec => []IInv
  BY InitIInv, StepIInv, PTL DEF Spec

\* The loop over the selection of a group that returns has tried every dataset the
\* patterns ask for (DataExtract).
LEMMA ReturnedTriedAll == IInv => DocumentedAreTried
  <1> SUFFICES ASSUME IInv, outcome = "returned", ~input.attributes, input.group,
                      NEW m \in ToSet(Members), Documented(m)
               PROVE  \E i \in 1 .. next - 1 : Selected[i] = m
    BY DEF DocumentedAreTried
  <1>1. input.members \in Nat /\ next \in Nat /\ next > Len(Selected)
    BY InputsAssumption DEF IInv, LoopIsOver
  <1>2. m \in 1 .. input.members
    BY <1>1 DEF ToSet, Members
  <1>3. Include(m)
    BY DEF Documented, Include, Given
  <1>4. SelectsFrom(Selected, input.members)
    BY <1>1, SelectedIsRight
  <1>5. Len(Selected) \in Nat
    BY <1>4 DEF SelectsFrom
  <1>6. PICK i \in 1 .. Len(Selected) : Selected[i] = m
    BY <1>2, <1>3, <1>4 DEF SelectsFrom
  <1>7. QED
    BY <1>1, <1>5, <1>6

\* No dataset the document promises is left untried, whatever the patterns are and
\* whichever datasets fail (DataExtract).
THEOREM Tried == Spec => []DocumentedAreTried
  BY Invariance, ReturnedTriedAll, PTL

\* No dataset that the patterns leave out has a record, but for those that match does
\* not select when there is an exclude pattern too, and none has two, in groups of any
\* size (DataExtract).
THEOREM Recorded == Spec => []OnlySelectedAreRecorded
  <1>1. IInv => OnlySelectedAreRecorded
    BY DEF IInv
  <1>2. QED
    BY <1>1, Invariance, PTL

\* The key of a record is off by the number of members left out before its dataset, in
\* groups of any size (RunExtract).
THEOREM Keys == Spec => []KeyIsShiftedByLeftOut
  <1>1. IInv => KeyIsShiftedByLeftOut
    BY DEF IInv
  <1>2. QED
    BY <1>1, Invariance, PTL

\* The summaries of a document are the extremes of its columns, for matrices of any
\* size (columnMax, columnMin and the json writer).
THEOREM Extremes == Spec => []SummariesAreExtremes
  <1>1. IInv => SummariesAreExtremes
    BY DEF IInv
  <1>2. QED
    BY <1>1, Invariance, PTL

=============================================================================
