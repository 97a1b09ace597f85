----------------------- MODULE ExtractAccumulatorProofs -----------------------
(***************************************************************************)
(* Proofs about ExtractAccumulator, for any block names, any number of      *)
(* actions and of datasets: what the accumulator and the documents hold,    *)
(* and that every manifest gets an outbox.                                  *)
(***************************************************************************)
EXTENDS ExtractAccumulator, SharedLemmas

-----------------------------------------------------------------------------
(* The records of an action. *)

RecordFor(a, d) == [by |-> ran + 1, ds |-> d, kind |-> a.kind, block |-> a.block]

\* The sequence s holds the records of those of the first n datasets that can be
\* extracted, in their order.
HoldsFirst(s, a, n) ==
  /\ s \in Seq(Records)
  /\ \A i \in 1 .. Len(s) : s[i].ds <= n /\ s[i] = RecordFor(a, s[i].ds)
  /\ \A i, j \in 1 .. Len(s) : i < j => s[i].ds < s[j].ds
  /\ \A d \in 1 .. n : a.datasets[d] => \E i \in 1 .. Len(s) : s[i].ds = d

\* An action has as many datasets as the bound allows, each of which can be extracted
\* or not.
LEMMA ActionType ==
  ASSUME NEW a \in Actions
  PROVE  /\ a.datasets \in [1 .. Len(a.datasets) -> BOOLEAN]
         /\ Len(a.datasets) \in 0 .. MaxDatasets
         /\ a.kind \in Kinds /\ a.block \in Blocks
  <1>1. a.datasets \in UNION {[1 .. m -> BOOLEAN] : m \in 0 .. MaxDatasets}
    BY DEF Actions, BoundedSeq, SeqOf
  <1>2. PICK m \in 0 .. MaxDatasets : a.datasets \in [1 .. m -> BOOLEAN]
    BY <1>1
  <1>3. Len(a.datasets) = m
    BY <1>2, BoundsAssumption DEF BoundsAssumption
  <1>4. QED
    BY <1>2, <1>3 DEF Actions

\* The loop over the datasets, one dataset further.
LEMMA HoldsOneMore ==
  ASSUME NEW a \in Actions, ran + 1 \in 1 .. MaxActions,
         NEW n \in Nat, n + 1 \in 1 .. Len(a.datasets), NEW s, HoldsFirst(s, a, n)
  PROVE  HoldsFirst(IF a.datasets[n + 1] THEN Append(s, RecordFor(a, n + 1)) ELSE s, a, n + 1)
  <1> USE ActionType, BoundsAssumption DEF BoundsAssumption
  <1> DEFINE r == RecordFor(a, n + 1)
             t == Append(s, r)
  <1>1. r \in Records /\ r.ds = n + 1 /\ r = RecordFor(a, r.ds)
    BY DEF RecordFor, Records
  <1>2. \A q \in Records : q.ds \in Nat
    BY DEF Records
  <1>s. /\ s \in Seq(Records) /\ Len(s) \in Nat
        /\ \A i \in 1 .. Len(s) : s[i] \in Records /\ s[i].ds <= n /\ s[i] = RecordFor(a, s[i].ds)
        /\ \A i, j \in 1 .. Len(s) : i < j => s[i].ds < s[j].ds
        /\ \A d \in 1 .. n : a.datasets[d] => \E i \in 1 .. Len(s) : s[i].ds = d
    BY DEF HoldsFirst
  <1> HIDE DEF r
  <1>3. CASE ~a.datasets[n + 1]
    <2>1. \A i \in 1 .. Len(s) : s[i].ds <= n + 1
      BY <1>s, <1>2
    <2>2. \A d \in 1 .. n + 1 : a.datasets[d] => d \in 1 .. n
      BY <1>3
    <2>3. HoldsFirst(s, a, n + 1)
      BY <1>s, <2>1, <2>2 DEF HoldsFirst
    <2>4. QED
      BY <1>3, <2>3
  <1>4. CASE a.datasets[n + 1]
    <2>1. /\ t \in Seq(Records) /\ Len(t) = Len(s) + 1 /\ t[Len(s) + 1] = r
          /\ \A i \in 1 .. Len(s) : t[i] = s[i]
      BY <1>1, <1>s
    <2> HIDE DEF t
    <2>2. \A i \in 1 .. Len(t) : t[i].ds <= n + 1 /\ t[i] = RecordFor(a, t[i].ds)
      <3>1. \A i \in 1 .. Len(t) : i \in 1 .. Len(s) \/ i = Len(s) + 1
        BY <1>s, <2>1
      <3>2. \A i \in 1 .. Len(s) : t[i].ds <= n + 1 /\ t[i] = RecordFor(a, t[i].ds)
        BY <1>s, <1>2, <2>1
      <3>3. QED
        BY <1>1, <2>1, <3>1, <3>2
    <2>3. \A i, j \in 1 .. Len(t) : i < j => t[i].ds < t[j].ds
      <3>1. ASSUME NEW i \in 1 .. Len(t), NEW j \in 1 .. Len(t), i < j PROVE t[i].ds < t[j].ds
        <4>1. i \in 1 .. Len(s) /\ (j \in 1 .. Len(s) \/ j = Len(s) + 1)
          BY <1>s, <2>1, <3>1
        <4>2. CASE j \in 1 .. Len(s)
          BY <1>s, <2>1, <3>1, <4>1, <4>2
        <4>3. CASE j = Len(s) + 1
          BY <1>1, <1>2, <1>s, <2>1, <4>1, <4>3
        <4>4. QED
          BY <4>1, <4>2, <4>3
      <3>2. QED
        BY <3>1
    <2>4. \A d \in 1 .. n + 1 : a.datasets[d] => \E i \in 1 .. Len(t) : t[i].ds = d
      <3>1. ASSUME NEW d \in 1 .. n + 1, a.datasets[d] PROVE \E i \in 1 .. Len(t) : t[i].ds = d
        <4>1. CASE d = n + 1
          BY <1>1, <1>s, <2>1, <4>1
        <4>2. CASE d \in 1 .. n
          <5>1. PICK i \in 1 .. Len(s) : s[i].ds = d
            BY <1>s, <3>1, <4>2
          <5>2. i \in 1 .. Len(t) /\ t[i].ds = d
            BY <1>s, <2>1, <5>1
          <5>3. QED
            BY <5>2
        <4>3. QED
          BY <4>1, <4>2
      <3>2. QED
        BY <3>1
    <2>5. HoldsFirst(t, a, n + 1)
      BY <2>1, <2>2, <2>3, <2>4 DEF HoldsFirst
    <2>6. QED
      BY <1>4, <2>5 DEF t, r
  <1>5. QED
    BY <1>3, <1>4

\* The loop collects the records of all datasets that can be extracted.
LEMMA RecordsOfAll ==
  ASSUME NEW a \in Actions, ran + 1 \in 1 .. MaxActions
  PROVE  HoldsFirst(RecordsOf(a), a, Len(a.datasets))
  <1> USE ActionType, BoundsAssumption DEF BoundsAssumption
  <1> DEFINE L == Len(a.datasets)
             More(s, d) == IF a.datasets[d] THEN Append(s, RecordFor(a, d)) ELSE s
             Turns(n, g) == [d \in 0 .. n |-> IF d = 0 THEN <<>> ELSE More(g[d - 1], d)]
             f == CHOOSE g : g = Turns(L, g)
  <1>0. L \in Nat /\ RecordsOf(a) = f[L]
    BY DEF RecordsOf, RecordFor
  <1> HIDE DEF L, More
  <1>1. \A n \in Nat : \E g : g = Turns(n, g)
    <2> DEFINE S == {n \in Nat : \E g : g = Turns(n, g)}
    <2>1. 0 \in S
      <3>1. [d \in 0 .. 0 |-> <<>>] = Turns(0, [d \in 0 .. 0 |-> <<>>])
        OBVIOUS
      <3>2. QED
        BY <3>1
    <2>2. ASSUME NEW n \in Nat, n \in S PROVE n + 1 \in S
      <3>1. PICK g : g = Turns(n, g)
        BY <2>2
      <3> DEFINE h == [d \in 0 .. n + 1 |-> IF d = n + 1 THEN More(g[n], n + 1) ELSE g[d]]
      <3>2. \A d \in 0 .. n : h[d] = g[d]
        OBVIOUS
      <3>3. \A d \in 0 .. n : g[d] = IF d = 0 THEN <<>> ELSE More(g[d - 1], d)
        BY <3>1
      <3>4. \A d \in 0 .. n + 1 : h[d] = IF d = 0 THEN <<>> ELSE More(h[d - 1], d)
        <4>1. ASSUME NEW d \in 0 .. n + 1 PROVE h[d] = IF d = 0 THEN <<>> ELSE More(h[d - 1], d)
          <5>1. CASE d = n + 1
            <6>1. d # 0 /\ d - 1 = n /\ h[n] = g[n] /\ h[d] = More(g[n], d)
              BY <3>2, <5>1
            <6>2. QED
              BY <6>1
          <5>2. CASE d = 0
            BY <3>2, <3>3, <5>2
          <5>3. CASE d \in 1 .. n
            <6>1. d # 0 /\ h[d - 1] = g[d - 1] /\ h[d] = More(g[d - 1], d)
              BY <3>2, <3>3, <5>3
            <6>2. QED
              BY <6>1
          <5>4. QED
            BY <5>1, <5>2, <5>3
        <4>2. QED
          BY <4>1
      <3>5. h = Turns(n + 1, h)
        BY <3>4
      <3> HIDE DEF h
      <3>6. \E k : k = Turns(n + 1, k)
        BY <3>5
      <3> HIDE DEF Turns
      <3>7. QED
        BY <3>6
    <2> HIDE DEF S
    <2>3. Nat \subseteq S
      BY <2>1, <2>2, Induction
    <2>4. QED
      BY <2>3 DEF S
  <1>2. f = Turns(L, f)
    BY <1>0, <1>1
  <1> HIDE DEF f
  <1>3. f[0] = <<>> /\ \A d \in 1 .. L : f[d] = More(f[d - 1], d)
    BY <1>0, <1>2
  <1> DEFINE S == {n \in Nat : n <= L => HoldsFirst(f[n], a, n)}
  <1>4. 0 \in S
    <2>1. HoldsFirst(<<>>, a, 0)
      BY DEF HoldsFirst
    <2>2. QED
      BY <1>3, <2>1
  <1>5. ASSUME NEW n \in Nat, n \in S PROVE n + 1 \in S
    <2>1. SUFFICES ASSUME n + 1 <= L PROVE HoldsFirst(f[n + 1], a, n + 1)
      OBVIOUS
    <2>2. HoldsFirst(f[n], a, n) /\ n + 1 \in 1 .. L /\ f[n + 1] = More(f[n], n + 1)
      BY <1>0, <1>3, <1>5, <2>1
    <2>3. QED
      BY <2>2, HoldsOneMore DEF More, L
  <1> HIDE DEF S
  <1>6. Nat \subseteq S
    BY <1>4, <1>5, Induction
  <1>7. QED
    BY <1>0, <1>6 DEF S, L

-----------------------------------------------------------------------------
(* What an action makes of the accumulator. *)

\* The sequence holds records of action a, in the order of its datasets.
AreOf(records, a) ==
  /\ records \in Seq(Records)
  /\ \A i \in 1 .. Len(records) :
       records[i].by = ran + 1 /\ records[i].block = a.block /\ records[i].kind = a.kind
  /\ \A i, j \in 1 .. Len(records) : i < j => records[i].ds < records[j].ds

LEMMA RecordsAreOf ==
  ASSUME NEW a \in Actions, ran + 1 \in 1 .. MaxActions
  PROVE  /\ AreOf(RecordsOf(a), a)
         /\ a.datasets = <<TRUE>> => Len(RecordsOf(a)) = 1
         /\ AreOf(<<>>, a)
  <1>1. HoldsFirst(RecordsOf(a), a, Len(a.datasets))
    BY RecordsOfAll
  <1>2. AreOf(RecordsOf(a), a)
    <2>1. \A d : /\ RecordFor(a, d).by = ran + 1 /\ RecordFor(a, d).block = a.block
                 /\ RecordFor(a, d).kind = a.kind
      BY DEF RecordFor
    <2>2. QED
      BY <1>1, <2>1 DEF HoldsFirst, AreOf
  <1>3. ASSUME a.datasets = <<TRUE>> PROVE Len(RecordsOf(a)) = 1
    <2> DEFINE s == RecordsOf(a)
    <2>1. 1 \in 1 .. Len(a.datasets) /\ a.datasets[1] /\ Len(a.datasets) = 1
      BY <1>3
    <2>2. /\ s \in Seq(Records) /\ Len(s) \in Nat
          /\ \A i \in 1 .. Len(s) : s[i] \in Records /\ s[i].ds <= 1
          /\ \A i, j \in 1 .. Len(s) : i < j => s[i].ds < s[j].ds
      BY <1>1, <2>1 DEF HoldsFirst
    <2>3. Len(s) # 0
      <3>1. \E i \in 1 .. Len(s) : s[i].ds = 1
        BY <1>1, <2>1 DEF HoldsFirst
      <3>2. QED
        BY <2>2, <3>1
    <2>4. \A i \in 1 .. Len(s) : s[i].ds = 1
      BY <2>2, BoundsAssumption DEF BoundsAssumption, Records
    <2> HIDE DEF s
    <2>5. ~(Len(s) > 1)
      <3>1. Len(s) > 1 => 1 \in 1 .. Len(s) /\ 2 \in 1 .. Len(s) /\ 1 < 2
        BY <2>2
      <3>2. QED
        BY <2>2, <2>4, <3>1
    <2>6. Len(s) = 1
      <3>1. \A m \in Nat : m # 0 /\ ~(m > 1) => m = 1
        OBVIOUS
      <3>2. Len(s) \in Nat
        BY <2>2
      <3>3. QED
        BY <2>3, <2>5, <3>1, <3>2
    <2>7. QED
      BY <2>6 DEF s
  <1>4. AreOf(<<>>, a)
    BY DEF AreOf
  <1>5. QED
    BY <1>2, <1>3, <1>4

\* "full" takes the place of what waits: it adds records of the next action, keeps the
\* order, and loses only what an attribute extraction takes over.
Continues(full, records) ==
  /\ full \in Accumulators
  /\ \A b \in Blocks : \A i \in DOMAIN full[b] : full[b][i].block = b /\ full[b][i].by <= ran + 1
  /\ InOrder(full)
  /\ \A r \in RecordsIn(full) : r \in RecordsIn(acc) \/ r.by = ran + 1
  /\ \A r \in RecordsIn(acc) : r \in RecordsIn(full) \/ TakenOver(r)'
  /\ ToSet(records) \subseteq RecordsIn(full)

\* "full" is what waits, with a list of attributes in the place of what its block held.
TakesOver(full) ==
  \E r \in RecordsIn(full) \ RecordsIn(acc) :
    /\ r.kind = "attribute"
    /\ RecordsIn(full) = {q \in RecordsIn(acc) : q.block # r.block} \cup {r}

\* A record is in an accumulator when it is somewhere under a block name.
LEMMA InRecords ==
  ASSUME NEW doc \in Accumulators
  PROVE  /\ \A r : r \in RecordsIn(doc) <=> \E b \in Blocks : \E i \in 1 .. Len(doc[b]) : r = doc[b][i]
         /\ \A b \in Blocks : /\ doc[b] \in Seq(Records) /\ Len(doc[b]) \in Nat
                              /\ DOMAIN doc[b] = 1 .. Len(doc[b])
         /\ RecordsIn(doc) \subseteq Records
  <1>1. \A b \in Blocks : /\ doc[b] \in Seq(Records) /\ Len(doc[b]) \in Nat
                          /\ DOMAIN doc[b] = 1 .. Len(doc[b])
    BY DEF Accumulators
  <1>2. \A r : r \in RecordsIn(doc) <=> \E b \in Blocks : r \in ToSet(doc[b])
    BY DEF RecordsIn
  <1>3. \A r : r \in RecordsIn(doc) <=> \E b \in Blocks : \E i \in 1 .. Len(doc[b]) : r = doc[b][i]
    BY <1>1, <1>2 DEF ToSet
  <1>4. QED
    BY <1>1, <1>3

\* What waits is of the actions so far.
LEMMA Waiting ==
  ASSUME TypeOK, WaitsInItsBlock
  PROVE  \A b \in Blocks : \A i \in 1 .. Len(acc[b]) :
           acc[b][i].block = b /\ acc[b][i].by <= ran /\ acc[b][i].by \in Nat
  <1>1. ASSUME NEW b \in Blocks, NEW i \in 1 .. Len(acc[b])
        PROVE  i \in DOMAIN acc[b] /\ acc[b][i] \in Records
    <2>1. acc[b] \in Seq(Records)
      BY DEF TypeOK, Accumulators
    <2>2. QED
      BY <2>1
  <1>2. \A r \in Records : r.by \in Nat
    BY BoundsAssumption DEF BoundsAssumption, Records
  <1>3. QED
    BY <1>1, <1>2 DEF WaitsInItsBlock

LEMMA AppendedContinues ==
  ASSUME TypeOK, WaitsInItsBlock, InOrder(acc), ran + 1 \in 1 .. MaxActions,
         NEW a \in Actions, NEW records, AreOf(records, a)
  PROVE  /\ Continues(Appended(a, records), records)
         /\ RecordsIn(acc) \subseteq RecordsIn(Appended(a, records))
  <1> DEFINE full == Appended(a, records)
             k == a.block
             n == Len(acc[k])
             m == Len(records)
  <1>1. k \in Blocks /\ acc \in Accumulators /\ acc[k] \in Seq(Records) /\ n \in Nat
    BY ActionType DEF TypeOK, Accumulators
  <1>2. records \in Seq(Records) /\ m \in Nat /\ DOMAIN records = 1 .. m
    BY DEF AreOf
  <1>3. /\ full[k] \in Seq(Records) /\ Len(full[k]) = n + m
        /\ \A i \in 1 .. n + m : full[k][i] = IF i <= n THEN acc[k][i] ELSE records[i - n]
    BY <1>1, <1>2 DEF Appended, Accumulators
  <1>4. \A b \in Blocks : b # k => full[b] = acc[b]
    BY <1>1 DEF Appended, Accumulators
  <1>5. full \in Accumulators
    BY <1>1, <1>3 DEF Appended, Accumulators
  <1> HIDE DEF full, k, n, m
  <1>w. \A b \in Blocks : \A i \in 1 .. Len(acc[b]) :
          acc[b][i].block = b /\ acc[b][i].by <= ran /\ acc[b][i].by \in Nat
    BY Waiting
  <1>r. \A i \in 1 .. m : records[i].by = ran + 1 /\ records[i].block = k
    BY <1>2 DEF AreOf, k, m
  <1>i. \A i \in 1 .. n + m : i \in 1 .. n \/ (i - n \in 1 .. m /\ ~(i <= n))
    BY <1>1, <1>2
  <1>t. ran \in Nat
    BY DEF TypeOK
  <1>6. \A b \in Blocks : \A i \in DOMAIN full[b] : full[b][i].block = b /\ full[b][i].by <= ran + 1
    <2>1. ASSUME NEW i \in 1 .. n + m PROVE full[k][i].block = k /\ full[k][i].by <= ran + 1
      <3>1. CASE i \in 1 .. n
        BY <1>1, <1>3, <1>w, <1>t, <3>1 DEF n
      <3>2. CASE i - n \in 1 .. m /\ ~(i <= n)
        BY <1>3, <1>r, <1>t, <3>2
      <3>3. QED
        BY <1>i, <3>1, <3>2
    <2>2. ASSUME NEW b \in Blocks, b # k, NEW i \in 1 .. Len(acc[b])
          PROVE  full[b][i].block = b /\ full[b][i].by <= ran + 1
      BY <1>4, <1>w, <1>t, <2>2
    <2>3. QED
      BY <1>1, <1>3, <1>4, <1>5, <2>1, <2>2, InRecords
  <1>7. InOrder(full)
    <2>1. ASSUME NEW i \in 1 .. n + m, NEW j \in 1 .. n + m, i < j
          PROVE  Before(full[k][i], full[k][j])
      <3>1. CASE j \in 1 .. n
        <4>1. i \in 1 .. n /\ Before(acc[k][i], acc[k][j])
          BY <1>1, <2>1, <3>1, InRecords DEF InOrder, n
        <4>2. QED
          BY <1>3, <3>1, <4>1
      <3>2. CASE i \in 1 .. n /\ j - n \in 1 .. m /\ ~(j <= n)
        <4>1. full[k][i] = acc[k][i] /\ full[k][j] = records[j - n]
          BY <1>3, <3>2
        <4>2. acc[k][i].by < records[j - n].by
          BY <1>1, <1>w, <1>r, <1>t, <3>2 DEF n
        <4>3. QED
          BY <4>1, <4>2 DEF Before
      <3>3. CASE i - n \in 1 .. m /\ ~(i <= n) /\ j - n \in 1 .. m /\ ~(j <= n)
        <4>1. full[k][i] = records[i - n] /\ full[k][j] = records[j - n] /\ i - n < j - n
          BY <1>1, <1>3, <2>1, <3>3
        <4>2. records[i - n].ds < records[j - n].ds /\ records[i - n].by = records[j - n].by
          BY <1>r, <3>3, <4>1 DEF AreOf, m
        <4>3. QED
          BY <4>1, <4>2 DEF Before
      <3>4. QED
        BY <1>1, <1>i, <2>1, <3>1, <3>2, <3>3
    <2>2. ASSUME NEW b \in Blocks, b # k, NEW i \in DOMAIN acc[b], NEW j \in DOMAIN acc[b], i < j
          PROVE  Before(full[b][i], full[b][j])
      BY <1>4, <2>2 DEF InOrder
    <2>3. DOMAIN full[k] = 1 .. n + m
      BY <1>1, <1>2, <1>3
    <2>4. QED
      BY <1>4, <2>1, <2>2, <2>3 DEF InOrder
  <1>8. \A r \in RecordsIn(full) : r \in RecordsIn(acc) \/ r.by = ran + 1
    <2>1. ASSUME NEW b \in Blocks, NEW i \in 1 .. Len(full[b])
          PROVE  full[b][i] \in RecordsIn(acc) \/ full[b][i].by = ran + 1
      <3>1. CASE b # k
        BY <1>1, <1>4, <2>1, <3>1, InRecords
      <3>2. CASE b = k /\ i \in 1 .. n
        <4>1. i \in 1 .. n + m /\ i <= n
          BY <1>1, <1>2, <3>2
        <4>2. full[b][i] = acc[k][i] /\ i \in 1 .. Len(acc[k])
          BY <1>3, <3>2, <4>1 DEF n
        <4>3. QED
          BY <1>1, <4>2, InRecords
      <3>3. CASE b = k /\ i - n \in 1 .. m /\ ~(i <= n)
        BY <1>3, <1>r, <2>1, <3>3
      <3>4. QED
        BY <1>3, <1>i, <2>1, <3>1, <3>2, <3>3
    <2>2. QED
      BY <1>5, <2>1, InRecords
  <1>9. RecordsIn(acc) \subseteq RecordsIn(full)
    <2>1. ASSUME NEW b \in Blocks, NEW i \in 1 .. Len(acc[b])
          PROVE  i \in 1 .. Len(full[b]) /\ full[b][i] = acc[b][i]
      <3>1. CASE b # k
        BY <1>4, <2>1, <3>1
      <3>2. CASE b = k
        BY <1>1, <1>2, <1>3, <2>1, <3>2 DEF n
      <3>3. QED
        BY <3>1, <3>2
    <2>2. ASSUME NEW r \in RecordsIn(acc) PROVE r \in RecordsIn(full)
      <3>1. PICK b \in Blocks : \E i \in 1 .. Len(acc[b]) : r = acc[b][i]
        BY <1>1, InRecords
      <3>2. PICK i \in 1 .. Len(acc[b]) : r = acc[b][i]
        BY <3>1
      <3>3. i \in 1 .. Len(full[b]) /\ r = full[b][i]
        BY <2>1, <3>2
      <3>4. QED
        BY <1>5, <3>3, InRecords
    <2>3. QED
      BY <2>2
  <1>10. ToSet(records) \subseteq RecordsIn(full)
    <2>1. ASSUME NEW i \in 1 .. m PROVE records[i] \in RecordsIn(full)
      <3>1. n + i \in 1 .. Len(full[k]) /\ full[k][n + i] = records[i]
        BY <1>1, <1>2, <1>3
      <3>2. QED
        BY <1>1, <1>5, <3>1, InRecords
    <2>2. QED
      BY <1>2, <2>1 DEF ToSet
  <1>11. QED
    BY <1>5, <1>6, <1>7, <1>8, <1>9, <1>10 DEF Continues, full

LEMMA ReplacedContinues ==
  ASSUME TypeOK, WaitsInItsBlock, InOrder(acc), ran + 1 \in 1 .. MaxActions,
         NEW a \in Actions, a.kind = "attribute",
         NEW records, AreOf(records, a), Len(records) = 1, Produce(records)
  PROVE  /\ Continues(Replaced(a, records), records)
         /\ TakesOver(Replaced(a, records))
  <1> DEFINE full == Replaced(a, records)
             k == a.block
             m == Len(records)
  <1>1. k \in Blocks /\ acc \in Accumulators
    BY ActionType DEF TypeOK
  <1>2. records \in Seq(Records) /\ m \in Nat /\ DOMAIN records = 1 .. m
    BY DEF AreOf
  <1>3. full[k] = records /\ \A b \in Blocks : b # k => full[b] = acc[b]
    BY <1>1 DEF Replaced, Accumulators
  <1>4. full \in Accumulators
    BY <1>1, <1>2 DEF Replaced, Accumulators
  <1>t. ran \in Nat
    BY DEF TypeOK
  <1>w. \A b \in Blocks : \A i \in 1 .. Len(acc[b]) :
          acc[b][i].block = b /\ acc[b][i].by <= ran /\ acc[b][i].by \in Nat
    BY Waiting
  <1>r. \A i \in 1 .. m : /\ records[i].by = ran + 1 /\ records[i].block = k
                          /\ records[i].kind = "attribute"
    BY DEF AreOf
  <1>o. \A i, j \in 1 .. m : i < j => Before(records[i], records[j])
    BY <1>r DEF AreOf, Before
  <1> HIDE DEF full, k, m
  <1>5. \A b \in Blocks : \A i \in DOMAIN full[b] : full[b][i].block = b /\ full[b][i].by <= ran + 1
    <2>1. ASSUME NEW b \in Blocks, b # k, NEW i \in 1 .. Len(acc[b])
          PROVE  full[b][i].block = b /\ full[b][i].by <= ran + 1
      BY <1>3, <1>w, <1>t, <2>1
    <2>2. ASSUME NEW i \in 1 .. m PROVE full[k][i].block = k /\ full[k][i].by <= ran + 1
      BY <1>3, <1>r, <1>t, <2>2
    <2>3. ASSUME NEW b \in Blocks, NEW i \in DOMAIN full[b]
          PROVE  full[b][i].block = b /\ full[b][i].by <= ran + 1
      <3>1. CASE b = k
        BY <1>2, <1>3, <2>2, <2>3, <3>1
      <3>2. CASE b # k
        <4>1. i \in 1 .. Len(acc[b])
          BY <1>1, <1>3, <2>3, <3>2, InRecords
        <4>2. QED
          BY <2>1, <3>2, <4>1
      <3>3. QED
        BY <3>1, <3>2
    <2>4. QED
      BY <2>3
  <1>6. InOrder(full)
    <2>1. ASSUME NEW b \in Blocks, b # k, NEW i \in DOMAIN acc[b], NEW j \in DOMAIN acc[b], i < j
          PROVE  Before(full[b][i], full[b][j])
      BY <1>3, <2>1 DEF InOrder
    <2>2. QED
      BY <1>2, <1>3, <1>o, <2>1 DEF InOrder
  <1>7. \A r \in RecordsIn(full) : r \in RecordsIn(acc) \/ r.by = ran + 1
    <2>1. ASSUME NEW b \in Blocks, NEW i \in 1 .. Len(full[b])
          PROVE  full[b][i] \in RecordsIn(acc) \/ full[b][i].by = ran + 1
      <3>1. CASE b # k
        BY <1>1, <1>3, <2>1, <3>1, InRecords
      <3>2. CASE b = k
        BY <1>3, <1>r, <2>1, <3>2 DEF m
      <3>3. QED
        BY <3>1, <3>2
    <2>2. QED
      BY <1>4, <2>1, InRecords
  <1>k. ASSUME NEW r \in RecordsIn(acc), NEW b \in Blocks, NEW i \in 1 .. Len(acc[b]),
               r = acc[b][i], b # k
        PROVE  r \in RecordsIn(full)
    <2>1. i \in 1 .. Len(full[b]) /\ r = full[b][i]
      BY <1>3, <1>k
    <2>2. QED
      BY <1>4, <2>1, InRecords
  <1>8. \A r \in RecordsIn(acc) : r \in RecordsIn(full) \/ TakenOver(r)'
    <2>2. ASSUME NEW r \in RecordsIn(acc), NEW i \in 1 .. Len(acc[k]), r = acc[k][i]
          PROVE  TakenOver(r)'
      <3>1. 1 \in 1 .. m
        BY <1>2 DEF m
      <3>2. records[1] \in produced'
        BY <1>2, <3>1 DEF Produce, ToSet
      <3>3. records[1].kind = "attribute" /\ records[1].block = r.block /\ records[1].by > r.by
        BY <1>1, <1>r, <1>w, <1>t, <2>2, <3>1
      <3>4. QED
        BY <3>2, <3>3 DEF TakenOver
    <2>3. ASSUME NEW r \in RecordsIn(acc) PROVE r \in RecordsIn(full) \/ TakenOver(r)'
      <3>1. PICK b \in Blocks : \E i \in 1 .. Len(acc[b]) : r = acc[b][i]
        BY <1>1, InRecords
      <3>2. PICK i \in 1 .. Len(acc[b]) : r = acc[b][i]
        BY <3>1
      <3>3. QED
        BY <1>k, <2>2, <3>2
    <2>4. QED
      BY <2>3
  <1>9. ToSet(records) \subseteq RecordsIn(full)
    BY <1>1, <1>2, <1>3, <1>4, InRecords DEF ToSet, m
  <1>10. TakesOver(full)
    <2> DEFINE r == records[1]
    <2>1. /\ 1 \in 1 .. m /\ r \in ToSet(records) /\ r.by = ran + 1
          /\ r.block = k /\ r.kind = "attribute"
      BY <1>2, <1>r DEF ToSet, m
    <2>2. \A q \in RecordsIn(acc) : q.by # ran + 1
      <3>1. ASSUME NEW b \in Blocks, NEW i \in 1 .. Len(acc[b]) PROVE acc[b][i].by # ran + 1
        BY <1>w, <1>t
      <3>2. QED
        BY <1>1, <3>1, InRecords
    <2>3. ASSUME NEW q \in RecordsIn(acc), q.block # k PROVE q \in RecordsIn(full)
      <3>1. PICK b \in Blocks : \E i \in 1 .. Len(acc[b]) : q = acc[b][i]
        BY <1>1, InRecords
      <3>2. PICK i \in 1 .. Len(acc[b]) : q = acc[b][i]
        BY <3>1
      <3>3. b # k
        BY <1>w, <2>3, <3>2
      <3>4. QED
        BY <1>k, <3>2, <3>3
    <2>4. ASSUME NEW q \in RecordsIn(full)
          PROVE  (q \in RecordsIn(acc) /\ q.block # k) \/ q = r
      <3>1. PICK b \in Blocks : \E i \in 1 .. Len(full[b]) : q = full[b][i]
        BY <1>4, InRecords
      <3>2. PICK i \in 1 .. Len(full[b]) : q = full[b][i]
        BY <3>1
      <3>3. CASE b = k
        <4>1. i = 1
          BY <1>3, <3>2, <3>3
        <4>2. QED
          BY <1>3, <3>2, <3>3, <4>1
      <3>4. CASE b # k
        <4>1. i \in 1 .. Len(acc[b]) /\ q = acc[b][i] /\ q.block = b
          BY <1>3, <1>w, <3>2, <3>4
        <4>2. QED
          BY <1>1, <3>4, <4>1, InRecords
      <3>5. QED
        BY <3>3, <3>4
    <2> HIDE DEF r
    <2>5. r \in RecordsIn(full) \ RecordsIn(acc)
      BY <1>9, <2>1, <2>2
    <2>6. RecordsIn(full) = {q \in RecordsIn(acc) : q.block # r.block} \cup {r}
      BY <2>1, <2>3, <2>4, <2>5
    <2>7. QED
      BY <2>1, <2>5, <2>6 DEF TakesOver
  <1>11. QED
    BY <1>4, <1>5, <1>6, <1>7, <1>8, <1>9, <1>10 DEF Continues, full, k

-----------------------------------------------------------------------------
(* What becomes of it. *)

\* The accumulator is kept, dropped with the error of an upload, or sent, and what a breach
\* extraction sends is kept as well.
Kept(full) == acc' = full /\ UNCHANGED delivered
Dropped == acc' = EmptyAccumulator /\ UNCHANGED delivered /\ status' = "error"
SentAs(full, kind) ==
  /\ delivered' = Append(delivered, [kind |-> kind, doc |-> full])
  /\ acc' = IF kind = "breach" THEN full ELSE EmptyAccumulator

Outcome(full, kind) == Kept(full) \/ Dropped \/ SentAs(full, kind)

\* The empty accumulator holds nothing.
LEMMA EmptyHoldsNothing ==
  EmptyAccumulator \in Accumulators /\ RecordsIn(EmptyAccumulator) = {}
  <1>1. <<>> \in Seq(Records)
    OBVIOUS
  <1>2. EmptyAccumulator \in Accumulators /\ \A b \in Blocks : EmptyAccumulator[b] = <<>>
    BY <1>1 DEF EmptyAccumulator, Accumulators
  <1>3. \A b \in Blocks : Len(EmptyAccumulator[b]) = 0
    BY <1>2
  <1>4. RecordsIn(EmptyAccumulator) = {}
    BY <1>2, <1>3, InRecords
  <1>5. QED
    BY <1>2, <1>4

\* The documents, and what they hold.
LEMMA Documents ==
  ASSUME TypeOK
  PROVE  /\ Len(delivered) \in Nat /\ DOMAIN delivered = 1 .. Len(delivered)
         /\ \A i \in 1 .. Len(delivered) :
              /\ delivered[i] \in [kind: Kinds, doc: Accumulators]
              /\ delivered[i].doc \in Accumulators
              /\ RecordsIn(delivered[i].doc) \subseteq Records
         /\ \A r : r \in Sent <=> \E i \in 1 .. Len(delivered) : r \in RecordsIn(delivered[i].doc)
  <1>1. /\ Len(delivered) \in Nat /\ DOMAIN delivered = 1 .. Len(delivered)
        /\ \A i \in 1 .. Len(delivered) : delivered[i] \in [kind: Kinds, doc: Accumulators]
    <2> DEFINE S == [kind: Kinds, doc: Accumulators]
    <2>1. delivered \in Seq(S)
      BY DEF TypeOK
    <2> HIDE DEF S
    <2>2. /\ Len(delivered) \in Nat /\ DOMAIN delivered = 1 .. Len(delivered)
          /\ \A i \in 1 .. Len(delivered) : delivered[i] \in S
      BY <2>1
    <2>3. QED
      BY <2>2 DEF S
  <1>2. \A i \in 1 .. Len(delivered) : delivered[i].doc \in Accumulators
    BY <1>1
  <1>3. QED
    BY <1>1, <1>2, InRecords DEF Sent

\* What sending adds to the documents.
LEMMA OneMoreDocument ==
  ASSUME TypeOK, NEW full \in Accumulators, NEW kind \in Kinds, SentAs(full, kind)
  PROVE  LET n == Len(delivered)
         IN  /\ Len(delivered') = n + 1 /\ DOMAIN delivered' = 1 .. n + 1
             /\ delivered'[n + 1] = [kind |-> kind, doc |-> full]
             /\ \A i \in 1 .. n : delivered'[i] = delivered[i]
             /\ delivered' \in Seq([kind: Kinds, doc: Accumulators])
             /\ Sent' = Sent \cup RecordsIn(full)
  <1> DEFINE n == Len(delivered)
             S == [kind: Kinds, doc: Accumulators]
  <1>1. delivered \in Seq(S) /\ [kind |-> kind, doc |-> full] \in S /\ n \in Nat
    BY DEF TypeOK
  <1> HIDE DEF S
  <1>2. delivered' = Append(delivered, [kind |-> kind, doc |-> full])
    BY DEF SentAs
  <1>3. /\ Len(delivered') = n + 1 /\ DOMAIN delivered' = 1 .. n + 1
        /\ delivered'[n + 1] = [kind |-> kind, doc |-> full]
        /\ \A i \in 1 .. n : delivered'[i] = delivered[i]
        /\ delivered' \in Seq(S)
    BY <1>1, <1>2
  <1>4. \A i \in 1 .. n + 1 : i \in 1 .. n \/ i = n + 1
    BY <1>1
  <1>5. n + 1 \in 1 .. n + 1 /\ 1 .. n \subseteq 1 .. n + 1
    BY <1>1
  <1>6. \A r : r \in Sent' <=> \E i \in 1 .. n + 1 : r \in RecordsIn(delivered'[i].doc)
    BY <1>3 DEF Sent
  <1>7. \A r : (\E i \in 1 .. n + 1 : r \in RecordsIn(delivered'[i].doc))
              <=> r \in RecordsIn(full) \/ \E i \in 1 .. n : r \in RecordsIn(delivered[i].doc)
    BY <1>3, <1>4, <1>5
  <1>8. Sent' = Sent \cup RecordsIn(full)
    BY <1>6, <1>7, Documents
  <1>9. QED
    BY <1>3, <1>8 DEF S

\* The step of an action, its effect on the accumulator and its outcome taken together:
\* a record of the action is new, so that no document that was sent has it.
LEMMA OutcomeStep ==
  ASSUME IInv, status = "ok", ran + 1 \in 1 .. MaxActions, ran' = ran + 1,
         status' \in {"ok", "error"},
         NEW records, records \in Seq(Records), Produce(records),
         NEW full, Continues(full, records),
         NEW kind \in Kinds, Outcome(full, kind)
  PROVE  IInv'
  <1> DEFINE n == Len(delivered)
             D(i) == RecordsIn(delivered[i].doc)
             AllBreach(i, j) == \A k \in i .. j : delivered[k].kind = "breach"
  <1>t. /\ TypeOK /\ ran \in Nat /\ n \in Nat /\ DOMAIN delivered = 1 .. n
        /\ full \in Accumulators /\ RecordsIn(full) \subseteq Records
    BY Documents, InRecords DEF IInv, TypeOK, Continues
  <1>1. \A r : TakenOver(r) => TakenOver(r)'
    BY DEF TakenOver, Produce
  <1>2. \A i \in 1 .. n : /\ D(i) \subseteq Records
                          /\ \A r \in D(i) : r.by <= ran
    BY <1>t, Documents DEF IInv, SentIsOfThePast
  <1>3. \A i \in 1 .. n :
          IF AllBreach(i, n)
          THEN \A r \in D(i) : r \in RecordsIn(full) \/ TakenOver(r)'
          ELSE D(i) \cap RecordsIn(full) = {}
    <2>1. ASSUME NEW i \in 1 .. n
          PROVE  IF AllBreach(i, n) THEN \A r \in D(i) : r \in RecordsIn(acc) \/ TakenOver(r)
                                    ELSE D(i) \cap RecordsIn(acc) = {}
      BY <1>t, <2>1 DEF IInv, WaitingFollows, Follows
    <2>2. ASSUME NEW i \in 1 .. n, NEW r \in D(i), r \in RecordsIn(full) PROVE r \in RecordsIn(acc)
      <3>1. r.by # ran + 1
        BY <1>t, <1>2, <2>2
      <3>2. QED
        BY <2>2, <3>1 DEF Continues
    <2>3. \A r \in RecordsIn(acc) : r \in RecordsIn(full) \/ TakenOver(r)'
      BY DEF Continues
    <2> HIDE DEF D, AllBreach
    <2>4. QED
      BY <1>1, <2>1, <2>2, <2>3
  <1>4. \A i, j \in 1 .. n : i < j =>
          IF AllBreach(i, j - 1)
          THEN \A r \in D(i) : r \in D(j) \/ TakenOver(r)'
          ELSE D(i) \cap D(j) = {}
    <2>1. \A i, j \in 1 .. n : i < j =>
            IF AllBreach(i, j - 1) THEN \A r \in D(i) : r \in D(j) \/ TakenOver(r)
                                   ELSE D(i) \cap D(j) = {}
      BY <1>t DEF IInv, RepeatedOnlyAfterBreach, Follows
    <2> HIDE DEF D, AllBreach
    <2>2. QED
      BY <1>1, <2>1
  <1>5. ASSUME delivered' = delivered
        PROVE  /\ SentIsOfThePast' /\ RepeatedOnlyAfterBreach' /\ Sent' = Sent
               /\ delivered' \in Seq([kind: Kinds, doc: Accumulators])
               /\ \A i \in DOMAIN delivered' : InOrder(delivered'[i].doc)
    <2>1. SentIsOfThePast'
      <3>1. \A i \in 1 .. n : \A r \in D(i) : r.by \in Nat
        BY <1>2, BoundsAssumption DEF BoundsAssumption, Records
      <3>2. \A i \in 1 .. n : \A r \in D(i) : r.by <= ran + 1
        BY <1>t, <1>2, <3>1
      <3>3. QED
        BY <1>t, <1>5, <3>2 DEF SentIsOfThePast
    <2>2. RepeatedOnlyAfterBreach'
      BY <1>t, <1>4, <1>5 DEF RepeatedOnlyAfterBreach, Follows
    <2>3. QED
      BY <1>t, <1>5, <2>1, <2>2 DEF Sent, RecordsIn, IInv, TypeOK, BlocksAreInOrder
  <1>p. records \in Seq(Records) /\ ToSet(records) \subseteq Records
    BY DEF ToSet
  <1>a. ASSUME acc' = full
        PROVE  acc' \in Accumulators /\ WaitsInItsBlock' /\ InOrder(acc)'
    BY <1>a DEF Continues, WaitsInItsBlock, InOrder
  <1>e. ASSUME acc' = EmptyAccumulator
        PROVE  /\ acc' \in Accumulators /\ WaitsInItsBlock' /\ InOrder(acc)'
               /\ RecordsIn(acc') = {}
    <2>1. \A b \in Blocks : DOMAIN acc'[b] = {}
      BY <1>e DEF EmptyAccumulator
    <2>2. QED
      BY <1>e, <2>1, EmptyHoldsNothing DEF WaitsInItsBlock, InOrder
  <1>l. \A r \in produced' : r \in RecordsIn(full) \/ r \in Sent \/ TakenOver(r)'
    BY <1>1 DEF Produce, Continues, IInv, NothingElseIsLost
  <1>y. ASSUME acc' \in Accumulators, delivered' \in Seq([kind: Kinds, doc: Accumulators])
        PROVE  TypeOK'
    BY <1>t, <1>p, <1>y DEF TypeOK, Produce
  <1>7. CASE Kept(full)
    <2>1. acc' = full /\ delivered' = delivered
      BY <1>7 DEF Kept
    <2>2. WaitingFollows'
      BY <1>t, <1>3, <2>1 DEF WaitingFollows, Follows
    <2>3. NothingElseIsLost'
      BY <1>5, <1>l, <2>1 DEF NothingElseIsLost
    <2>4. BlocksAreInOrder'
      BY <1>5, <1>a, <2>1 DEF BlocksAreInOrder, InOrder
    <2>5. QED
      BY <1>5, <1>a, <1>y, <2>1, <2>2, <2>3, <2>4 DEF IInv
  <1>8. CASE Dropped
    <2>1. acc' = EmptyAccumulator /\ delivered' = delivered /\ status' = "error"
      BY <1>8 DEF Dropped
    <2>2. WaitingFollows' /\ NothingElseIsLost'
      BY <2>1 DEF WaitingFollows, NothingElseIsLost
    <2>3. BlocksAreInOrder'
      BY <1>5, <1>e, <2>1 DEF BlocksAreInOrder, InOrder
    <2>4. QED
      BY <1>5, <1>e, <1>y, <2>1, <2>2, <2>3 DEF IInv
  <1>9. CASE SentAs(full, kind)
    <2>s. /\ Len(delivered') = n + 1 /\ DOMAIN delivered' = 1 .. n + 1
          /\ delivered'[n + 1] = [kind |-> kind, doc |-> full]
          /\ \A i \in 1 .. n : delivered'[i] = delivered[i]
          /\ delivered' \in Seq([kind: Kinds, doc: Accumulators])
          /\ acc' = IF kind = "breach" THEN full ELSE EmptyAccumulator
      BY <1>t, <1>9, OneMoreDocument DEF SentAs
    <2>i. \A i \in 1 .. n + 1 : i \in 1 .. n \/ i = n + 1
      BY <1>t
    <2>a. acc' \in Accumulators /\ WaitsInItsBlock' /\ InOrder(acc)'
      BY <2>s, <1>a, <1>e
    <2>1. TypeOK'
      BY <1>y, <2>s, <2>a
    <2>2. SentIsOfThePast'
      <3>1. \A r \in Records : r.by \in Nat
        BY BoundsAssumption DEF BoundsAssumption, Records
      <3>2. \A r \in RecordsIn(full) : r.by <= ran + 1
        <4>1. \A b \in Blocks : \A i \in 1 .. Len(full[b]) : full[b][i].by <= ran + 1
          BY <1>t, InRecords DEF Continues
        <4>2. QED
          BY <1>t, <4>1, InRecords
      <3>3. \A i \in 1 .. n : \A r \in D(i) : r.by <= ran + 1
        BY <1>t, <1>2, <3>1
      <3>4. QED
        BY <2>s, <2>i, <3>2, <3>3 DEF SentIsOfThePast
    <2>3. RepeatedOnlyAfterBreach'
      <3>1. ASSUME NEW i \in 1 .. n + 1, NEW j \in 1 .. n + 1, i < j
            PROVE  IF \A k \in i .. j - 1 : delivered'[k].kind = "breach"
                   THEN \A r \in RecordsIn(delivered'[i].doc) :
                          r \in RecordsIn(delivered'[j].doc) \/ TakenOver(r)'
                   ELSE RecordsIn(delivered'[i].doc) \cap RecordsIn(delivered'[j].doc) = {}
        <4>1. i \in 1 .. n /\ \A k \in i .. j - 1 : k \in 1 .. n
          BY <1>t, <3>1
        <4>2. /\ delivered'[i] = delivered[i]
              /\ (\A k \in i .. j - 1 : delivered'[k].kind = "breach") <=> AllBreach(i, j - 1)
          BY <2>s, <4>1
        <4>3. CASE j \in 1 .. n
          BY <1>4, <2>s, <3>1, <4>1, <4>2, <4>3
        <4>4. CASE j = n + 1
          <5>1. j - 1 = n /\ RecordsIn(delivered'[j].doc) = RecordsIn(full)
            BY <1>t, <2>s, <4>4
          <5>2. QED
            BY <1>3, <4>1, <4>2, <5>1
        <4>5. QED
          BY <2>i, <4>3, <4>4
      <3>2. QED
        BY <2>s, <3>1 DEF RepeatedOnlyAfterBreach, Follows
    <2>4. WaitingFollows'
      <3>1. ASSUME NEW i \in 1 .. n + 1
            PROVE  IF \A k \in i .. n + 1 : delivered'[k].kind = "breach"
                   THEN \A r \in RecordsIn(delivered'[i].doc) : r \in RecordsIn(acc') \/ TakenOver(r)'
                   ELSE RecordsIn(delivered'[i].doc) \cap RecordsIn(acc') = {}
        <4>1. CASE kind # "breach"
          <5>1. n + 1 \in i .. n + 1 /\ delivered'[n + 1].kind # "breach" /\ RecordsIn(acc') = {}
            BY <1>t, <1>e, <2>s, <3>1, <4>1
          <5>2. QED
            BY <5>1
        <4>2. CASE kind = "breach" /\ i \in 1 .. n
          <5>1. \A k \in i .. n + 1 : k \in i .. n \/ k = n + 1
            BY <1>t, <4>2
          <5>2. i .. n \subseteq 1 .. n /\ i .. n \subseteq i .. n + 1
            BY <1>t, <4>2
          <5>3. (\A k \in i .. n + 1 : delivered'[k].kind = "breach") <=> AllBreach(i, n)
            <6>1. \A k \in i .. n : delivered'[k].kind = delivered[k].kind
              BY <2>s, <5>2
            <6>2. delivered'[n + 1].kind = "breach"
              BY <2>s, <4>2
            <6>3. QED
              BY <5>1, <5>2, <6>1, <6>2
          <5>4. acc' = full /\ delivered'[i] = delivered[i]
            BY <2>s, <4>2
          <5>5. QED
            BY <1>3, <4>2, <5>3, <5>4
        <4>3. CASE kind = "breach" /\ i = n + 1
          <5>1. acc' = full /\ delivered'[i].doc = full /\ i .. n + 1 = {n + 1}
            BY <1>t, <2>s, <4>3
          <5>2. QED
            BY <2>s, <4>3, <5>1
        <4>4. QED
          BY <2>i, <4>1, <4>2, <4>3
      <3>2. QED
        BY <2>s, <3>1 DEF WaitingFollows, Follows
    <2>5. NothingElseIsLost'
      <3>1. Sent \subseteq Sent' /\ RecordsIn(full) \subseteq Sent'
        BY <1>t, <1>9, OneMoreDocument
      <3>2. QED
        BY <1>l, <3>1 DEF NothingElseIsLost
    <2>6. BlocksAreInOrder'
      <3>1. InOrder(full) /\ \A i \in 1 .. n : InOrder(delivered[i].doc)
        BY <1>t DEF Continues, IInv, BlocksAreInOrder
      <3>2. \A i \in 1 .. n + 1 : InOrder(delivered'[i].doc)
        BY <2>s, <2>i, <3>1
      <3>3. QED
        BY <2>s, <2>a, <3>2 DEF BlocksAreInOrder, InOrder
    <2>7. QED
      BY <2>a, <2>1, <2>2, <2>3, <2>4, <2>5, <2>6 DEF IInv
  <1>10. QED
    BY <1>7, <1>8, <1>9 DEF Outcome

-----------------------------------------------------------------------------
(* The inductive invariant. *)

LEMMA InitIInv == Init => IInv
  <1> SUFFICES ASSUME Init PROVE IInv
    OBVIOUS
  <1>1. /\ acc \in Accumulators /\ RecordsIn(acc) = {}
        /\ \A b \in Blocks : DOMAIN acc[b] = {}
    BY EmptyHoldsNothing DEF Init, EmptyAccumulator
  <1>2. ran = 0 /\ status = "ok" /\ produced = {} /\ delivered = <<>> /\ DOMAIN delivered = {}
    BY DEF Init
  <1>3. TypeOK
    BY <1>1, <1>2, BoundsAssumption DEF TypeOK, BoundsAssumption
  <1>4. QED
    BY <1>1, <1>2, <1>3 DEF IInv, WaitsInItsBlock, SentIsOfThePast, WaitingFollows,
       NothingElseIsLost, RepeatedOnlyAfterBreach, BlocksAreInOrder, InOrder

\* An action that collects nothing keeps what waits.
LEMMA NothingContinues ==
  ASSUME TypeOK, WaitsInItsBlock, InOrder(acc)
  PROVE  Continues(acc, <<>>)
  <1>1. acc \in Accumulators /\ ran \in Nat /\ ToSet(<<>>) = {}
    BY DEF TypeOK, ToSet
  <1>2. \A b \in Blocks : \A i \in DOMAIN acc[b] : acc[b][i].block = b /\ acc[b][i].by <= ran + 1
    BY <1>1, Waiting, InRecords
  <1>3. QED
    BY <1>1, <1>2 DEF Continues

\* Every handler has one of the three outcomes.
LEMMA Handlers ==
  ASSUME IInv, NEW a \in Actions,
         DataExtract(a) \/ AttributeExtract(a) \/ AttributePath(a) \/ BreachExtract(a) \/ NotReadable(a)
  PROVE  /\ status = "ok" /\ ran + 1 \in 1 .. MaxActions /\ ran' = ran + 1
         /\ status' \in {"ok", "error"}
         /\ \E full, records :
              /\ records \in Seq(Records) /\ Produce(records) /\ Continues(full, records)
              /\ Outcome(full, a.kind)
              /\ RecordsIn(acc) \subseteq RecordsIn(full) \/ TakesOver(full)
  <1>1. /\ status = "ok" /\ ran + 1 \in 1 .. MaxActions /\ ran' = ran + 1
        /\ TypeOK /\ WaitsInItsBlock /\ InOrder(acc)
    <2>1. Starts
      BY DEF DataExtract, AttributeExtract, AttributePath, BreachExtract, NotReadable
    <2>2. TypeOK /\ WaitsInItsBlock /\ InOrder(acc)
      BY DEF IInv, BlocksAreInOrder
    <2>3. ran \in Nat /\ MaxActions \in Nat
      BY <2>2, BoundsAssumption DEF TypeOK, BoundsAssumption
    <2>4. QED
      BY <2>1, <2>2, <2>3 DEF Starts
  <1>k. \A full : KeepOrFlush(a, full) /\ a.kind # "breach"
                    => Outcome(full, a.kind) /\ status' \in {"ok", "error"}
    BY DEF KeepOrFlush, Outcome, Kept, Dropped, SentAs, NotDelivered, Deliver
  <1>2. CASE DataExtract(a)
    <2> DEFINE records == IF a.format = "json" THEN RecordsOf(a) ELSE <<>>
    <2>1. AreOf(records, a)
      BY <1>1, RecordsAreOf
    <2>2. /\ a.kind = "data" /\ Produce(records) /\ KeepOrFlush(a, Appended(a, records))
      BY <1>2 DEF DataExtract
    <2> HIDE DEF records
    <2>3. /\ records \in Seq(Records) /\ Continues(Appended(a, records), records)
          /\ RecordsIn(acc) \subseteq RecordsIn(Appended(a, records))
      BY <1>1, <2>1, AppendedContinues DEF AreOf
    <2>4. QED
      BY <1>1, <1>k, <2>2, <2>3
  <1>3. CASE AttributeExtract(a)
    <2> DEFINE records == RecordsOf(a)
    <2>1. AreOf(records, a) /\ Len(records) = 1
      BY <1>1, <1>3, RecordsAreOf DEF AttributeExtract
    <2>2. /\ a.kind = "attribute" /\ Produce(records) /\ KeepOrFlush(a, Replaced(a, records))
      BY <1>3 DEF AttributeExtract
    <2> HIDE DEF records
    <2>3. /\ records \in Seq(Records) /\ Continues(Replaced(a, records), records)
          /\ TakesOver(Replaced(a, records))
      BY <1>1, <2>1, <2>2, ReplacedContinues DEF AreOf
    <2>4. Outcome(Replaced(a, records), a.kind) /\ status' \in {"ok", "error"}
      BY <1>k, <2>2
    <2>5. QED
      BY <1>1, <1>3, <2>2, <2>3, <2>4
  <1>4. CASE BreachExtract(a)
    <2> DEFINE records == RecordsOf(a)
               full == Appended(a, records)
    <2>1. AreOf(records, a)
      BY <1>1, RecordsAreOf
    <2>2. /\ a.kind = "breach" /\ Produce(records) /\ acc' = full
          /\ NotDelivered \/ Deliver(a, full)
      BY <1>4 DEF BreachExtract
    <2>3. /\ records \in Seq(Records) /\ Continues(full, records)
          /\ RecordsIn(acc) \subseteq RecordsIn(full)
      BY <1>1, <2>1, AppendedContinues DEF AreOf
    <2> HIDE DEF records, full
    <2>4. Outcome(full, a.kind) /\ status' \in {"ok", "error"}
      BY <2>2 DEF Outcome, Kept, SentAs, NotDelivered, Deliver
    <2>5. QED
      BY <1>1, <2>2, <2>3, <2>4
  <1>5. CASE AttributePath(a) \/ NotReadable(a)
    <2>1. Continues(acc, <<>>) /\ <<>> \in Seq(Records) /\ ToSet(<<>>) = {}
      BY <1>1, NothingContinues DEF ToSet
    <2>2. Produce(<<>>) /\ Kept(acc) /\ status' \in {"ok", "error"}
      BY <1>5, <2>1 DEF AttributePath, NotReadable, Produce, Kept
    <2>3. Outcome(acc, a.kind)
      BY <2>2 DEF Outcome
    <2>4. QED
      BY <1>1, <2>1, <2>2, <2>3
  <1>6. QED
    BY <1>2, <1>3, <1>4, <1>5

\* Every step keeps the inductive invariant.
LEMMA StepIInv == IInv /\ [Next]_vars => IInv'
  <1> SUFFICES ASSUME IInv, [Next]_vars PROVE IInv'
    OBVIOUS
  <1>1. CASE Next
    <2>1. PICK a \in Actions : \/ DataExtract(a) \/ AttributeExtract(a) \/ AttributePath(a)
                               \/ BreachExtract(a) \/ NotReadable(a)
      BY <1>1 DEF Next
    <2>2. a.kind \in Kinds
      BY ActionType
    <2>3. QED
      BY <2>1, <2>2, Handlers, OutcomeStep
  <1>2. CASE UNCHANGED vars
    <2> USE <1>2 DEF vars
    <2>1. TypeOK' <=> TypeOK
      BY DEF TypeOK
    <2>2. WaitsInItsBlock' <=> WaitsInItsBlock
      BY DEF WaitsInItsBlock
    <2>3. SentIsOfThePast' <=> SentIsOfThePast
      BY DEF SentIsOfThePast, RecordsIn
    <2>4. WaitingFollows' <=> WaitingFollows
      BY DEF WaitingFollows, Follows, RecordsIn, TakenOver
    <2>5. NothingElseIsLost' <=> NothingElseIsLost
      BY DEF NothingElseIsLost, RecordsIn, TakenOver, Sent
    <2>6. RepeatedOnlyAfterBreach' <=> RepeatedOnlyAfterBreach
      BY DEF RepeatedOnlyAfterBreach, Follows, RecordsIn, TakenOver
    <2>7. BlocksAreInOrder' <=> BlocksAreInOrder
      BY DEF BlocksAreInOrder, InOrder
    <2>8. QED
      BY <2>1, <2>2, <2>3, <2>4, <2>5, <2>6, <2>7 DEF IInv
  <1>3. QED
    BY <1>1, <1>2

\* The inductive invariant holds in every reachable state of every manifest.
THEOREM Invariance == Spec => []IInv
  BY InitIInv, StepIInv, PTL DEF Spec

\* Every variable keeps its type.
THEOREM TypeCorrect == Spec => []TypeOK
  <1>1. IInv => TypeOK
    BY DEF IInv
  <1>2. QED
    BY <1>1, Invariance, PTL

\* Until an action fails, a record is waiting, was sent, or had its block taken over by an
\* attribute extraction (RasExtractAction.Run, RasBreachExtractAction.Run, the writers).
THEOREM LosesNothingElse == Spec => []NothingElseIsLost
  <1>1. IInv => NothingElseIsLost
    BY DEF IInv
  <1>2. QED
    BY <1>1, Invariance, PTL

\* A document repeats one before it just when all from that one on are of breach
\* extractions, which keep the accumulator (RasBreachExtractAction.Run).
THEOREM Repetition == Spec => []RepeatedOnlyAfterBreach
  <1>1. IInv => RepeatedOnlyAfterBreach
    BY DEF IInv
  <1>2. QED
    BY <1>1, Invariance, PTL

\* Records are in the order of the manifest and the datasets, none twice in a block
\* (the appends of the writers).
THEOREM Order == Spec => []BlocksAreInOrder
  <1>1. IInv => BlocksAreInOrder
    BY DEF IInv
  <1>2. QED
    BY <1>1, Invariance, PTL

-----------------------------------------------------------------------------
(* Refinement. *)

\* The documents, as the outbox sees them.
LEMMA OutDocuments ==
  ASSUME TypeOK
  PROVE  /\ Out!Sent = Sent
         /\ \A full \in Accumulators, kind \in Kinds : SentAs(full, kind) =>
              Append([i \in DOMAIN delivered |->
                        [keeps   |-> delivered[i].kind = "breach",
                         records |-> RecordsIn(delivered[i].doc)]],
                     [keeps |-> kind = "breach", records |-> RecordsIn(full)])
                = [i \in DOMAIN delivered' |->
                     [keeps   |-> delivered'[i].kind = "breach",
                      records |-> RecordsIn(delivered'[i].doc)]]
  <1> DEFINE n == Len(delivered)
             seen(x) == [keeps |-> x.kind = "breach", records |-> RecordsIn(x.doc)]
             docs == [i \in DOMAIN delivered |-> seen(delivered[i])]
  <1>1. n \in Nat /\ DOMAIN delivered = 1 .. n
    BY Documents
  <1>2. Out!Sent = Sent
    BY DEF Out!Sent, Sent
  <1>3. ASSUME NEW full \in Accumulators, NEW kind \in Kinds, SentAs(full, kind)
        PROVE  Append(docs, [keeps |-> kind = "breach", records |-> RecordsIn(full)])
                 = [i \in DOMAIN delivered' |-> seen(delivered'[i])]
    <2> DEFINE x == [kind |-> kind, doc |-> full]
    <2>1. /\ DOMAIN delivered' = 1 .. n + 1 /\ delivered'[n + 1] = x
          /\ \A i \in 1 .. n : delivered'[i] = delivered[i]
      BY <1>3, OneMoreDocument
    <2>2. seen(x) = [keeps |-> kind = "breach", records |-> RecordsIn(full)]
      OBVIOUS
    <2> HIDE DEF seen, x
    <2>3. Append(docs, seen(x)) = [i \in 1 .. n + 1 |-> IF i = n + 1 THEN seen(x) ELSE docs[i]]
      BY <1>1
    <2>4. \A i \in 1 .. n + 1 : (IF i = n + 1 THEN seen(x) ELSE docs[i]) = seen(delivered'[i])
      BY <1>1, <2>1
    <2>5. QED
      BY <2>1, <2>2, <2>3, <2>4
  <1>4. QED
    BY <1>2, <1>3

\* What waits after a step collected only new records: nothing sent has one of those.
LEMMA OnlyNewAreCollected ==
  ASSUME IInv, NEW full, NEW records, Continues(full, records),
         RecordsIn(acc) \subseteq RecordsIn(full) \/ TakesOver(full)
  PROVE  Out!Collected(RecordsIn(full))
  <1>1. TypeOK /\ ran \in Nat /\ full \in Accumulators
    BY DEF IInv, TypeOK, Continues
  <1>2. RecordsIn(full) \subseteq Records
    BY <1>1, InRecords
  <1>3. RecordsIn(full) \cap Out!Sent \subseteq RecordsIn(acc)
    <2>1. ASSUME NEW r \in Sent PROVE r.by # ran + 1
      <3>1. PICK i \in 1 .. Len(delivered) : r \in RecordsIn(delivered[i].doc)
        BY <1>1, Documents
      <3>2. i \in DOMAIN delivered /\ r \in Records
        BY <1>1, <3>1, Documents
      <3>3. r.by <= ran /\ r.by \in Nat
        BY <3>1, <3>2, BoundsAssumption DEF IInv, SentIsOfThePast, BoundsAssumption, Records
      <3>4. QED
        BY <1>1, <3>3
    <2>2. Out!Sent = Sent
      BY <1>1, OutDocuments
    <2>3. QED
      BY <2>1, <2>2 DEF Continues
  <1>4. TakesOver(full) =>
          \E r \in {q \in Records : q.kind = "attribute"} \ RecordsIn(acc) :
            RecordsIn(full) = Out!InPlaceOf(r)
    BY <1>2 DEF TakesOver, Out!InPlaceOf
  <1>5. QED
    BY <1>2, <1>3, <1>4 DEF Out!Collected

\* Every step of a manifest is a step of the outbox or leaves it unchanged.
LEMMA StepOutbox == IInv /\ [Next]_vars => [Out!Next]_(Out!vars)
  <1> SUFFICES ASSUME IInv, [Next]_vars PROVE [Out!Next]_(Out!vars)
    OBVIOUS
  <1>1. CASE UNCHANGED vars
    BY <1>1 DEF vars, Out!vars, RecordsIn
  <1>2. CASE Next
    <2>1. PICK a \in Actions : \/ DataExtract(a) \/ AttributeExtract(a) \/ AttributePath(a)
                               \/ BreachExtract(a) \/ NotReadable(a)
      BY <1>2 DEF Next
    <2>2. /\ status = "ok" /\ status' \in {"ok", "error"}
          /\ \E full, records :
               /\ Continues(full, records) /\ Outcome(full, a.kind)
               /\ RecordsIn(acc) \subseteq RecordsIn(full) \/ TakesOver(full)
      BY <2>1, Handlers
    <2>3. PICK full, records :
            /\ Continues(full, records) /\ Outcome(full, a.kind)
            /\ RecordsIn(acc) \subseteq RecordsIn(full) \/ TakesOver(full)
      BY <2>2
    <2>4. Out!Collected(RecordsIn(full)) /\ TypeOK /\ full \in Accumulators /\ a.kind \in Kinds
      BY <2>3, OnlyNewAreCollected, ActionType DEF IInv, Continues
    <2>5. CASE Kept(full)
      <3>1. RecordsIn(acc)' = RecordsIn(full) /\ delivered' = delivered
        BY <2>5 DEF Kept, RecordsIn
      <3>2. Out!Collect
        BY <2>4, <3>1 DEF Out!Collect, RecordsIn
      <3>3. QED
        BY <2>2, <3>2 DEF Out!Next
    <2>6. CASE Dropped
      <3>1. RecordsIn(acc)' = RecordsIn(EmptyAccumulator) /\ delivered' = delivered
        BY <2>6 DEF Dropped, RecordsIn
      <3>2. Out!Lose
        BY <3>1, EmptyHoldsNothing DEF Out!Lose, RecordsIn
      <3>3. QED
        BY <2>2, <2>6, <3>2 DEF Out!Next, Dropped
    <2>7. CASE SentAs(full, a.kind)
      <3>1. RecordsIn(acc)' = IF a.kind = "breach" THEN RecordsIn(full) ELSE {}
        <4>1. acc' = IF a.kind = "breach" THEN full ELSE EmptyAccumulator
          BY <2>7 DEF SentAs
        <4>2. RecordsIn(acc)' = RecordsIn(IF a.kind = "breach" THEN full ELSE EmptyAccumulator)
          BY <4>1 DEF RecordsIn
        <4>3. QED
          BY <4>2, EmptyHoldsNothing
      <3>2. Out!Store
        <4> DEFINE docs == [i \in DOMAIN delivered |->
                              [keeps   |-> delivered[i].kind = "breach",
                               records |-> RecordsIn(delivered[i].doc)]]
                   docsNext == [i \in DOMAIN delivered' |->
                              [keeps   |-> delivered'[i].kind = "breach",
                               records |-> RecordsIn(delivered'[i].doc)]]
                   d == [keeps |-> a.kind = "breach", records |-> RecordsIn(full)]
                   n == Len(delivered)
        <4>1. docsNext = Append(docs, d)
          BY <2>4, <2>7, OutDocuments
        <4>2. n \in Nat /\ Len(docs) = n /\ Len(docsNext) = n + 1 /\ docsNext[n + 1] = d
          <5>1. n \in Nat /\ DOMAIN delivered = 1 .. n
            BY <2>4, Documents
          <5>2. /\ DOMAIN delivered' = 1 .. n + 1
                /\ delivered'[n + 1] = [kind |-> a.kind, doc |-> full]
            BY <2>4, <2>7, OneMoreDocument
          <5>3. Len(docs) = n /\ Len(docsNext) = n + 1
            BY <5>1, <5>2
          <5>4. QED
            BY <5>1, <5>2, <5>3
        <4>3. d.records = RecordsIn(full) /\ (d.keeps <=> a.kind = "breach")
          OBVIOUS
        <4>4. RecordsIn(acc)' = IF d.keeps THEN d.records ELSE {}
          BY <3>1, <4>3
        <4> HIDE DEF d
        <4>5. QED
          BY <2>4, <4>1, <4>2, <4>3, <4>4 DEF Out!Store, RecordsIn
      <3>3. QED
        BY <2>2, <3>2 DEF Out!Next
    <2>8. QED
      BY <2>3, <2>5, <2>6, <2>7 DEF Outcome
  <1>3. QED
    BY <1>1, <1>2

\* Every manifest gets an outbox, whatever its actions and however they fail: what is sent
\* is everything that waits, what ras-extract sent is not sent again, and what waits is
\* replaced by attribute lists only (RasExtractAction.Run, RasBreachExtractAction.Run).
THEOREM Refinement == Spec => ImplementsOutbox
  <1>1. Init => Out!Init
    <2>1. Init => RecordsIn(acc) = {} /\ status = "ok" /\ delivered = <<>>
      BY EmptyHoldsNothing DEF Init
    <2>2. QED
      BY <2>1 DEF Out!Init
  <1>2. QED
    BY <1>1, StepOutbox, Invariance, PTL DEF Spec, ImplementsOutbox, Out!Spec

=============================================================================
