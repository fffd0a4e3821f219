---------------------------- MODULE QuotesProofs ----------------------------
(***************************************************************************)
(* What holds of the quotes for every period, every sequence of results    *)
(* and every bound: each definition is of a snapshot, a memory or a number *)
(* of results given as arguments, so that it can be said of the state      *)
(* before a step and of the one after it.                                  *)
(***************************************************************************)
EXTENDS Quotes, SumProofs, SequenceTheorems

(* Induction over the natural numbers, for a set of them.                  *)
LEMMA AllNumbers ==
  ASSUME NEW S, 0 \in S, \A n \in Nat : n \in S => n + 1 \in S
  PROVE  \A n \in Nat : n \in S
<1> DEFINE T == {n \in Nat : n \notin S}
<1>1. SUFFICES ASSUME T # {} PROVE FALSE
  OBVIOUS
<1>2. PICK n \in T : \A m \in T : n <= m
  <2>1. T \in SUBSET Nat
    OBVIOUS
  <2> HIDE DEF T
  <2>2. QED
    BY <1>1, <2>1, LeastNumber
<1>3. n \in Nat /\ n # 0 /\ n \notin S
  OBVIOUS
<1>4. n - 1 \in Nat /\ (n - 1) + 1 = n /\ ~(n <= n - 1)
  BY <1>3
<1>5. n - 1 \in S
  BY <1>2, <1>4
<1>6. QED
  BY <1>3, <1>4, <1>5

-----------------------------------------------------------------------------
(* The fills of the first results, by recursion over how many they are.    *)

FillStep(rs, M, f, i) ==
  IF i = 0 THEN <<>>
  ELSE IF rs[i].ts \in M THEN f[i - 1] \o rs[i].prices
  ELSE f[i - 1]

IsFills(rs, n, M, f) == f = [i \in 0..n |-> FillStep(rs, M, f, i)]

LEMMA FillsExist ==
  ASSUME NEW rs, NEW M, NEW n \in Nat
  PROVE  \E f : IsFills(rs, n, M, f)
<1> DEFINE S == {m \in Nat : \E f : IsFills(rs, m, M, f)}
<1>1. 0 \in S
  <2> DEFINE f == [i \in 0..0 |-> <<>>]
  <2>1. f = [i \in 0..0 |-> FillStep(rs, M, f, i)]
    BY DEF FillStep
  <2>2. IsFills(rs, 0, M, f)
    BY <2>1 DEF IsFills
  <2>3. QED
    BY <2>2
<1>2. ASSUME NEW m \in Nat, m \in S PROVE m + 1 \in S
  <2>1. PICK g : IsFills(rs, m, M, g)
    BY <1>2
  <2> DEFINE f == [i \in 0..(m + 1) |-> IF i = m + 1 THEN FillStep(rs, M, g, i) ELSE g[i]]
  <2>2. \A i \in 0..m : g[i] = FillStep(rs, M, g, i)
    BY <2>1 DEF IsFills
  <2>3. ASSUME NEW i \in 0..(m + 1) PROVE f[i] = FillStep(rs, M, f, i)
    <3>1. f[i] = FillStep(rs, M, g, i)
      BY <2>2
    <3>2. i # 0 => f[i - 1] = g[i - 1]
      OBVIOUS
    <3> HIDE DEF f
    <3>3. QED
      BY <3>1, <3>2 DEF FillStep
  <2>4. f = [i \in 0..(m + 1) |-> f[i]]
    OBVIOUS
  <2> HIDE DEF f
  <2>5. f = [i \in 0..(m + 1) |-> FillStep(rs, M, f, i)]
    BY <2>3, <2>4
  <2>6. IsFills(rs, m + 1, M, f)
    BY <2>5 DEF IsFills
  <2>7. QED
    BY <2>6
<1> HIDE DEF S
<1>3. n \in S
  BY <1>1, <1>2, AllNumbers
<1>4. QED
  BY <1>3 DEF S

(* The fills depend on what the results are and on where they fall.        *)
SameFills(rs, M, qs, N, n) ==
  \A i \in 1..n : /\ rs[i].prices = qs[i].prices
                  /\ rs[i].ts \in M <=> qs[i].ts \in N

LEMMA FillAt ==
  ASSUME NEW rs, NEW M, NEW n \in Nat, NEW f, IsFills(rs, n, M, f), NEW i \in 0..n
  PROVE  f[i] = FillStep(rs, M, f, i)
BY DEF IsFills

LEMMA FillsAgree ==
  ASSUME NEW rs, NEW M, NEW n \in Nat, NEW f, IsFills(rs, n, M, f),
         NEW qs, NEW N, NEW k \in Nat, NEW g, IsFills(qs, k, N, g),
         NEW m \in Nat, m <= n, m <= k, SameFills(rs, M, qs, N, m)
  PROVE  f[m] = g[m]
<1> DEFINE S == {i \in Nat : i <= m => f[i] = g[i]}
<1>1. \A i \in 0..m : f[i] = FillStep(rs, M, f, i) /\ g[i] = FillStep(qs, N, g, i)
  BY FillAt
<1>2. 0 \in S
  <2>1. f[0] = FillStep(rs, M, f, 0) /\ g[0] = FillStep(qs, N, g, 0)
    BY <1>1
  <2>2. QED
    BY <2>1 DEF FillStep
<1>3. ASSUME NEW i \in Nat, i \in S PROVE i + 1 \in S
  <2>1. SUFFICES ASSUME i + 1 <= m PROVE f[i + 1] = g[i + 1]
    OBVIOUS
  <2>2. /\ f[i] = g[i] /\ i + 1 \in 0..m /\ i + 1 \in 1..m
        /\ i + 1 # 0 /\ (i + 1) - 1 = i
    BY <1>3, <2>1
  <2>3. /\ rs[i + 1].prices = qs[i + 1].prices
        /\ rs[i + 1].ts \in M <=> qs[i + 1].ts \in N
    BY <2>2 DEF SameFills
  <2>4. f[i + 1] = FillStep(rs, M, f, i + 1) /\ g[i + 1] = FillStep(qs, N, g, i + 1)
    BY <1>1, <2>2
  <2>5. QED
    BY <2>2, <2>3, <2>4 DEF FillStep
<1> HIDE DEF S
<1>4. m \in S
  BY <1>2, <1>3, AllNumbers
<1>5. QED
  BY <1>4 DEF S

LEMMA FillsAre ==
  ASSUME NEW rs, NEW M, NEW n \in Nat, NEW f, IsFills(rs, n, M, f)
  PROVE  FillsOf(rs, n, M) = f[n]
<1> DEFINE g == CHOOSE g : g = [i \in 0..n |-> FillStep(rs, M, g, i)]
<1>1. FillsOf(rs, n, M) = g[n]
  BY DEF FillsOf, FillStep
<1>2. IsFills(rs, n, M, g)
  BY FillsExist DEF IsFills
<1> HIDE DEF g
<1>3. SameFills(rs, M, rs, M, n)
  BY DEF SameFills
<1>4. QED
  BY <1>1, <1>2, <1>3, FillsAgree

LEMMA FillsNone ==
  ASSUME NEW rs, NEW M
  PROVE  FillsOf(rs, 0, M) = <<>>
<1>1. PICK f : IsFills(rs, 0, M, f)
  BY FillsExist
<1>2. f[0] = <<>>
  BY <1>1 DEF IsFills, FillStep
<1>3. QED
  BY <1>1, <1>2, FillsAre

LEMMA FillsNext ==
  ASSUME NEW rs, NEW M, NEW n \in Nat
  PROVE  FillsOf(rs, n + 1, M) =
           IF rs[n + 1].ts \in M THEN FillsOf(rs, n, M) \o rs[n + 1].prices
           ELSE FillsOf(rs, n, M)
<1>1. PICK f : IsFills(rs, n + 1, M, f)
  BY FillsExist
<1>2. PICK g : IsFills(rs, n, M, g)
  BY FillsExist
<1>3. f[n] = g[n]
  <2>1. SameFills(rs, M, rs, M, n)
    BY DEF SameFills
  <2>2. QED
    BY <1>1, <1>2, <2>1, FillsAgree
<1>4. FillsOf(rs, n, M) = g[n]
  BY <1>2, FillsAre
<1>5. FillsOf(rs, n + 1, M) = f[n + 1]
  BY <1>1, FillsAre
<1>6. f[n + 1] = FillStep(rs, M, f, n + 1)
  BY <1>1 DEF IsFills
<1>7. n + 1 # 0 /\ (n + 1) - 1 = n
  OBVIOUS
<1>8. QED
  BY <1>3, <1>4, <1>5, <1>6, <1>7 DEF FillStep

LEMMA FillsSame ==
  ASSUME NEW rs, NEW M, NEW qs, NEW N, NEW n \in Nat, SameFills(rs, M, qs, N, n)
  PROVE  FillsOf(rs, n, M) = FillsOf(qs, n, N)
<1>1. PICK f : IsFills(rs, n, M, f)
  BY FillsExist
<1>2. PICK g : IsFills(qs, n, N, g)
  BY FillsExist
<1>3. f[n] = g[n]
  BY <1>1, <1>2, FillsAgree
<1>4. QED
  BY <1>1, <1>2, <1>3, FillsAre

-----------------------------------------------------------------------------
(* What the fills are, and how many.                                       *)

Numbers == Nat \ {0}

ResultSet == [ts : Nat, prices : Fills]

CountIn(rs, n, M) == Len(FillsOf(rs, n, M))

LEMMA FillsAreSeqs ==
  ASSUME NEW b \in Fills
  PROVE  b \in Seq(Numbers) /\ Len(b) \in Nat /\ (b # <<>> => Len(b) > 0)
<1>1. b \in Seq(Numbers)
  BY QuotesAssumption DEF Numbers
<1>2. QED
  BY <1>1, LenProperties, EmptySeq

LEMMA ResultAt ==
  ASSUME NEW rs \in Seq(ResultSet), NEW i \in 1..Len(rs)
  PROVE  rs[i] \in ResultSet /\ rs[i].ts \in Nat /\ rs[i].prices \in Fills
<1>1. rs[i] \in ResultSet
  BY ElementOfSeq
<1>2. QED
  BY <1>1 DEF ResultSet

LEMMA FillsType ==
  ASSUME NEW rs \in Seq(ResultSet), NEW M, NEW n \in 0..Len(rs)
  PROVE  FillsOf(rs, n, M) \in Seq(Numbers) /\ CountIn(rs, n, M) \in Nat
<1> DEFINE S == {i \in Nat : i <= Len(rs) => FillsOf(rs, i, M) \in Seq(Numbers)}
<1>1. 0 \in S
  <2>1. FillsOf(rs, 0, M) = <<>> /\ <<>> \in Seq(Numbers)
    BY FillsNone, EmptySeq
  <2>2. FillsOf(rs, 0, M) \in Seq(Numbers)
    BY <2>1
  <2>3. QED
    BY <2>2
<1>2. ASSUME NEW i \in Nat, i \in S PROVE i + 1 \in S
  <2>1. SUFFICES ASSUME i + 1 <= Len(rs) PROVE FillsOf(rs, i + 1, M) \in Seq(Numbers)
    OBVIOUS
  <2>2. Len(rs) \in Nat
    BY LenProperties
  <2>3. FillsOf(rs, i, M) \in Seq(Numbers) /\ i + 1 \in 1..Len(rs)
    BY <1>2, <2>1, <2>2
  <2>4. rs[i + 1].prices \in Seq(Numbers)
    BY <2>3, ResultAt, FillsAreSeqs
  <2>5. FillsOf(rs, i, M) \o rs[i + 1].prices \in Seq(Numbers)
    BY <2>3, <2>4, ConcatProperties
  <2>6. QED
    BY <2>3, <2>5, FillsNext
<1> HIDE DEF S
<1>3. n \in Nat /\ n <= Len(rs)
  BY LenProperties
<1>4. n \in S
  BY <1>1, <1>2, <1>3, AllNumbers
<1>5. FillsOf(rs, n, M) \in Seq(Numbers)
  BY <1>3, <1>4 DEF S
<1>6. QED
  BY <1>5, LenProperties DEF CountIn

LEMMA CountNone ==
  ASSUME NEW rs, NEW M
  PROVE  CountIn(rs, 0, M) = 0
BY FillsNone, EmptySeq DEF CountIn

LEMMA CountNext ==
  ASSUME NEW rs \in Seq(ResultSet), NEW M, NEW n \in Nat, n + 1 <= Len(rs)
  PROVE  CountIn(rs, n + 1, M) =
           CountIn(rs, n, M) + (IF rs[n + 1].ts \in M THEN Len(rs[n + 1].prices) ELSE 0)
<1>1. Len(rs) \in Nat
  BY LenProperties
<1>2. n \in 0..Len(rs) /\ n + 1 \in 1..Len(rs)
  BY <1>1
<1>3. FillsOf(rs, n, M) \in Seq(Numbers) /\ CountIn(rs, n, M) \in Nat
  BY <1>2, FillsType
<1>4. rs[n + 1].prices \in Seq(Numbers)
  BY <1>2, ResultAt, FillsAreSeqs
<1>5. Len(FillsOf(rs, n, M) \o rs[n + 1].prices) =
        Len(FillsOf(rs, n, M)) + Len(rs[n + 1].prices)
  BY <1>3, <1>4, ConcatProperties
<1>6. CASE rs[n + 1].ts \in M
  <2>1. FillsOf(rs, n + 1, M) = FillsOf(rs, n, M) \o rs[n + 1].prices
    BY <1>6, FillsNext
  <2>2. QED
    BY <1>5, <1>6, <2>1 DEF CountIn
<1>7. CASE rs[n + 1].ts \notin M
  <2>1. FillsOf(rs, n + 1, M) = FillsOf(rs, n, M)
    BY <1>7, FillsNext
  <2>2. CountIn(rs, n + 1, M) = CountIn(rs, n, M)
    BY <2>1 DEF CountIn
  <2>3. QED
    BY <1>3, <1>7, <2>2
<1>8. QED
  BY <1>6, <1>7

(* A result that fills nothing in these minutes.                           *)
FillsNothing(r, M) == r.ts \notin M \/ r.prices = <<>>

LEMMA FillsLater ==
  ASSUME NEW rs \in Seq(ResultSet), NEW M, NEW m \in 0..Len(rs), NEW n \in 0..m,
         \A i \in (n + 1)..m : FillsNothing(rs[i], M)
  PROVE  FillsOf(rs, m, M) = FillsOf(rs, n, M)
<1> DEFINE S == {k \in Nat : n + k <= m => FillsOf(rs, n + k, M) = FillsOf(rs, n, M)}
<1>1. m \in Nat /\ n \in Nat /\ m <= Len(rs) /\ Len(rs) \in Nat /\ n <= m
  BY LenProperties
<1>2. 0 \in S
  <2>1. n + 0 = n
    BY <1>1
  <2>2. QED
    BY <2>1
<1>3. ASSUME NEW k \in Nat, k \in S PROVE k + 1 \in S
  <2>1. SUFFICES ASSUME n + (k + 1) <= m
                 PROVE  FillsOf(rs, n + (k + 1), M) = FillsOf(rs, n, M)
    OBVIOUS
  <2>2. /\ n + k \in Nat /\ n + (k + 1) = (n + k) + 1 /\ n + k <= m
        /\ n + k \in 0..Len(rs) /\ (n + k) + 1 \in (n + 1)..m
    BY <1>1, <2>1
  <2>3. FillsOf(rs, n + k, M) = FillsOf(rs, n, M)
    BY <1>3, <2>2
  <2>4. FillsOf(rs, n + k, M) \o <<>> = FillsOf(rs, n + k, M)
    BY <2>2, FillsType, ConcatEmptySeq
  <2>5. FillsNothing(rs[(n + k) + 1], M)
    BY <2>2
  <2>6. FillsOf(rs, (n + k) + 1, M) =
          IF rs[(n + k) + 1].ts \in M THEN FillsOf(rs, n + k, M) \o rs[(n + k) + 1].prices
          ELSE FillsOf(rs, n + k, M)
    BY <2>2, FillsNext
  <2>7. FillsOf(rs, (n + k) + 1, M) = FillsOf(rs, n + k, M)
    BY <2>4, <2>5, <2>6 DEF FillsNothing
  <2>8. QED
    BY <2>2, <2>3, <2>7
<1> HIDE DEF S
<1>4. m - n \in Nat /\ n + (m - n) = m
  BY <1>1
<1>5. m - n \in S
  BY <1>2, <1>3, <1>4, AllNumbers
<1>6. QED
  BY <1>1, <1>4, <1>5 DEF S

LEMMA NoFills ==
  ASSUME NEW rs \in Seq(ResultSet), NEW M, NEW m \in 0..Len(rs),
         \A i \in 1..m : FillsNothing(rs[i], M)
  PROVE  FillsOf(rs, m, M) = <<>> /\ CountIn(rs, m, M) = 0
<1>1. m \in Nat /\ 0 \in 0..m /\ 0 + 1 = 1
  BY LenProperties
<1>2. FillsOf(rs, m, M) = FillsOf(rs, 0, M)
  BY <1>1, FillsLater
<1>3. QED
  BY <1>2, FillsNone, EmptySeq DEF CountIn

LEMMA NotEmptyIsCounted ==
  ASSUME NEW rs \in Seq(ResultSet), NEW M, NEW m \in 0..Len(rs)
  PROVE  CountIn(rs, m, M) = 0 <=> FillsOf(rs, m, M) = <<>>
<1>1. FillsOf(rs, m, M) \in Seq(Numbers)
  BY FillsType
<1>2. QED
  BY <1>1, EmptySeq DEF CountIn

(* The results that are already there stay the same.                       *)
LEMMA FillsAppended ==
  ASSUME NEW rs \in Seq(ResultSet), NEW r, NEW M, NEW n \in 0..Len(rs)
  PROVE  FillsOf(Append(rs, r), n, M) = FillsOf(rs, n, M)
<1>1. Len(rs) \in Nat /\ n \in Nat
  BY LenProperties
<1>2. ASSUME NEW i \in 1..n PROVE Append(rs, r)[i] = rs[i]
  <2>1. i \in 1..Len(rs)
    BY <1>1
  <2>2. QED
    BY <2>1
<1>3. SameFills(Append(rs, r), M, rs, M, n)
  <2>1. \A i \in 1..n : Append(rs, r)[i] = rs[i]
    BY <1>2
  <2> HIDE DEF SameFills
  <2>2. QED
    BY <2>1 DEF SameFills
<1>4. QED
  BY <1>1, <1>3, FillsSame

(* Minutes that no result falls in do not matter.                          *)
LEMMA CountsTogether ==
  ASSUME NEW rs \in Seq(ResultSet), NEW M, NEW N, M \cap N = {}, NEW n \in 0..Len(rs)
  PROVE  CountIn(rs, n, M \cup N) = CountIn(rs, n, M) + CountIn(rs, n, N)
<1> DEFINE S == {i \in Nat : i <= Len(rs) =>
                   CountIn(rs, i, M \cup N) = CountIn(rs, i, M) + CountIn(rs, i, N)}
<1>1. n \in Nat /\ n <= Len(rs) /\ Len(rs) \in Nat
  BY LenProperties
<1>2. 0 \in S
  BY CountNone
<1>3. ASSUME NEW i \in Nat, i \in S PROVE i + 1 \in S
  <2>1. SUFFICES ASSUME i + 1 <= Len(rs)
                 PROVE  CountIn(rs, i + 1, M \cup N) =
                          CountIn(rs, i + 1, M) + CountIn(rs, i + 1, N)
    OBVIOUS
  <2>2. i \in 0..Len(rs) /\ i + 1 \in 1..Len(rs) /\ i <= Len(rs)
    BY <1>1, <2>1
  <2> DEFINE d == Len(rs[i + 1].prices)
             h == rs[i + 1].ts
  <2>3. d \in Nat
    BY <2>2, ResultAt, FillsAreSeqs
  <2>4. CountIn(rs, i, M) \in Nat /\ CountIn(rs, i, N) \in Nat
    BY <2>2, FillsType
  <2>5. CountIn(rs, i, M \cup N) = CountIn(rs, i, M) + CountIn(rs, i, N)
    BY <1>3, <2>2
  <2>6. /\ CountIn(rs, i + 1, M) = CountIn(rs, i, M) + (IF h \in M THEN d ELSE 0)
        /\ CountIn(rs, i + 1, N) = CountIn(rs, i, N) + (IF h \in N THEN d ELSE 0)
        /\ CountIn(rs, i + 1, M \cup N) =
             CountIn(rs, i, M \cup N) + (IF h \in M \cup N THEN d ELSE 0)
    BY <2>1, CountNext
  <2> HIDE DEF d, h
  <2>7. \/ h \in M /\ h \notin N /\ h \in M \cup N
        \/ h \notin M /\ h \in N /\ h \in M \cup N
        \/ h \notin M /\ h \notin N /\ h \notin M \cup N
    OBVIOUS
  <2>8. QED
    BY <2>3, <2>4, <2>5, <2>6, <2>7
<1> HIDE DEF S
<1>4. n \in S
  BY <1>1, <1>2, <1>3, AllNumbers
<1>5. QED
  BY <1>1, <1>4 DEF S

-----------------------------------------------------------------------------
(* The sum over the bars of the day, minute by minute.                     *)

Counts(m) == [i \in 1..Day |-> m[i].count]

IsDayOf(m) == m \in Seq(Bars) /\ Len(m) = Day

LEMMA DayBars ==
  ASSUME NEW m, IsDayOf(m)
  PROVE  /\ DOMAIN m = 1..Day /\ Day \in Nat \ {0} /\ IsFiniteSet(1..Day)
         /\ \A i \in 1..Day : m[i] \in Bars
         /\ Counts(m) \in [1..Day -> Nat]
<1>1. Day \in Nat \ {0}
  BY QuotesAssumption
<1>2. DOMAIN m = 1..Day /\ \A i \in 1..Day : m[i] \in Bars
  BY LenProperties, ElementOfSeq DEF IsDayOf
<1>3. \A i \in 1..Day : m[i].count \in Nat
  BY <1>2 DEF Bars
<1>4. IsFiniteSet(1..Day)
  BY <1>1, FS_Interval
<1>5. QED
  BY <1>1, <1>2, <1>3, <1>4 DEF Counts

LEMMA DayCountIs ==
  ASSUME NEW m, IsDayOf(m)
  PROVE  DayCount(m) = Total(Counts(m), 1..Day) /\ DayCount(m) \in Nat
<1> DEFINE S == 1..Day
           x(s) == CHOOSE y \in s : TRUE
           Is(f) == f = [s \in SUBSET S |->
                     IF s = {} THEN 0 ELSE m[x(s)].count + f[s \ {x(s)}]]
           it == CHOOSE f : Is(f)
<1>1. DOMAIN m = S /\ IsFiniteSet(S) /\ Counts(m) \in [S -> Nat]
  BY DayBars
<1>2. DayCount(m) = it[S]
  BY <1>1 DEF DayCount, MapThenSumSet, MapThenFoldSet
<1>3. ASSUME NEW f PROVE Is(f) <=> IsFold(Counts(m), S, f)
  <2>1. ASSUME NEW s \in SUBSET S
        PROVE  SumStep(Counts(m), f, s) =
                 IF s = {} THEN 0 ELSE m[x(s)].count + f[s \ {x(s)}]
    <3>1. s # {} => x(s) \in S
      OBVIOUS
    <3>2. s # {} => Counts(m)[x(s)] = m[x(s)].count
      <4> HIDE DEF x
      <4>1. QED
        BY <3>1 DEF Counts
    <3>3. QED
      BY <3>2 DEF SumStep
  <2> HIDE DEF x, S
  <2>2. [s \in SUBSET S |-> SumStep(Counts(m), f, s)] =
          [s \in SUBSET S |-> IF s = {} THEN 0 ELSE m[x(s)].count + f[s \ {x(s)}]]
    BY <2>1
  <2>3. QED
    BY <2>2 DEF IsFold
<1>4. IsFold(Counts(m), S, Totals(Counts(m), S))
  BY <1>1, TotalIsAFold
<1>5. IsFold(Counts(m), S, it)
  <2> HIDE DEF Is
  <2>1. \E f : Is(f)
    BY <1>3, <1>4
  <2>2. Is(it)
    BY <2>1
  <2>3. QED
    BY <1>3, <2>2
<1>6. it[S] = Total(Counts(m), S)
  <2> HIDE DEF it
  <2>1. QED
    BY <1>1, <1>5, FoldIsTotal
<1>7. Total(Counts(m), S) \in Nat
  BY <1>1, TotalOfPart
<1>8. QED
  BY <1>2, <1>6, <1>7

(* Every bar counts the fills of its minute, the newest that of ts.        *)
CountsMinutes(m, rs, n, ts) ==
  \A i \in 1..Day : m[i].count = CountIn(rs, n, {ts - i + 1})

LEMMA DayCountsFills ==
  ASSUME NEW rs \in Seq(ResultSet), NEW n \in 0..Len(rs), NEW ts \in Int,
         NEW m, IsDayOf(m), CountsMinutes(m, rs, n, ts)
  PROVE  DayCount(m) = CountIn(rs, n, (ts - Day + 1)..ts)
<1> DEFINE f == Counts(m)
           S == {k \in Nat : k <= Day =>
                   Total(f, 1..k) = CountIn(rs, n, (ts - k + 1)..ts)}
<1>1. Day \in Nat \ {0} /\ IsFiniteSet(1..Day) /\ f \in [1..Day -> Nat]
  BY DayBars
<1>2. \A i \in 1..Day : f[i] = CountIn(rs, n, {ts - i + 1})
  BY DEF CountsMinutes, Counts
<1> HIDE DEF f
<1>3. 0 \in S
  <2>1. 1..0 = {} /\ (ts - 0 + 1)..ts = {}
    OBVIOUS
  <2>2. CountIn(rs, n, {}) = 0
    BY NoFills DEF FillsNothing
  <2>3. Total(f, 1..0) = CountIn(rs, n, (ts - 0 + 1)..ts)
    BY <2>1, <2>2, TotalOfNone
  <2>4. QED
    BY <2>3
<1>4. ASSUME NEW k \in Nat, k \in S PROVE k + 1 \in S
  <2>1. SUFFICES ASSUME k + 1 <= Day
                 PROVE  Total(f, 1..(k + 1)) = CountIn(rs, n, (ts - (k + 1) + 1)..ts)
    OBVIOUS
  <2>2. Total(f, 1..k) = CountIn(rs, n, (ts - k + 1)..ts)
    BY <1>1, <1>4, <2>1
  <2>3. /\ 1..(k + 1) = (1..k) \cup {k + 1} /\ (1..k) \cap {k + 1} = {}
        /\ 1..k \in SUBSET (1..Day) /\ {k + 1} \in SUBSET (1..Day)
        /\ k + 1 \in 1..Day
    BY <1>1, <2>1
  <2>4. Total(f, 1..(k + 1)) = Total(f, 1..k) + f[k + 1]
    <3> DEFINE A == 1..k
               B == {k + 1}
    <3>1. Total(f, A \cup B) = Total(f, A) + Total(f, B)
      <4> DEFINE D == 1..Day
      <4>1. /\ A \in SUBSET D /\ B \in SUBSET D /\ A \cap B = {}
            /\ IsFiniteSet(D) /\ f \in [D -> Nat]
        BY <1>1, <2>3
      <4> HIDE DEF A, B, D
      <4>2. QED
        BY <4>1, TotalOfUnion
    <3>2. Total(f, {k + 1}) = f[k + 1]
      BY <1>1, <2>3, TotalOfOne
    <3>3. QED
      BY <2>3, <3>1, <3>2
  <2>5. /\ (ts - (k + 1) + 1)..ts = ((ts - k + 1)..ts) \cup {ts - (k + 1) + 1}
        /\ ((ts - k + 1)..ts) \cap {ts - (k + 1) + 1} = {}
    OBVIOUS
  <2>6. CountIn(rs, n, ((ts - k + 1)..ts) \cup {ts - (k + 1) + 1}) =
          CountIn(rs, n, (ts - k + 1)..ts) + CountIn(rs, n, {ts - (k + 1) + 1})
    BY <2>5, CountsTogether
  <2>7. f[k + 1] = CountIn(rs, n, {ts - (k + 1) + 1})
    BY <1>2, <2>3
  <2>8. QED
    BY <2>2, <2>4, <2>5, <2>6, <2>7
<1> HIDE DEF S
<1>5. Day \in S
  BY <1>1, <1>3, <1>4, AllNumbers
<1>6. Total(f, 1..Day) = CountIn(rs, n, (ts - Day + 1)..ts)
  BY <1>1, <1>5 DEF S
<1>7. QED
  BY <1>6, DayCountIs DEF f

-----------------------------------------------------------------------------
(* The largest and the least of a finite set of numbers.                   *)

LEMMA HasALargest ==
  ASSUME NEW S, IsFiniteSet(S), S # {}, \A x \in S : x \in Int
  PROVE  \E x \in S : \A y \in S : x >= y
<1> DEFINE None(s) == s # {} /\ \A x \in s : \E y \in s : ~(x >= y)
           T == {s \in SUBSET S : None(s)}
<1>1. SUFFICES ASSUME T # {} PROVE FALSE
  BY S \in SUBSET S
<1>2. PICK s \in T : \A r \in T : r \subseteq s => r = s
  <2>1. T \in SUBSET (SUBSET S)
    <3> HIDE DEF None
    <3>1. QED
      OBVIOUS
  <2> HIDE DEF T
  <2>2. QED
    BY <1>1, <2>1, LeastSubset
<1>3. s \in SUBSET S /\ s # {} /\ \A x \in s : \E y \in s : ~(x >= y)
  OBVIOUS
<1>4. PICK a \in s : TRUE
  BY <1>3
<1>5. s \ {a} \subseteq s /\ s \ {a} # s /\ s \ {a} \in SUBSET S
  BY <1>3, <1>4
<1>6. s \ {a} \notin T
  BY <1>2, <1>5
<1>7. PICK b \in s : ~(a >= b)
  BY <1>3
<1>8. a \in Int /\ b \in Int /\ a < b /\ b \in s \ {a}
  BY <1>3, <1>7
<1>9. PICK x \in s \ {a} : \A y \in s \ {a} : x >= y
  BY <1>5, <1>6, <1>8
<1>10. x \in Int /\ x >= b /\ x >= a
  BY <1>3, <1>8, <1>9
<1>11. \A y \in s : x >= y
  BY <1>9, <1>10
<1>12. QED
  BY <1>3, <1>9, <1>11

LEMMA MaxOfFinite ==
  ASSUME NEW S \in SUBSET Int, IsFiniteSet(S), S # {}
  PROVE  Max(S) \in S /\ \A y \in S : y <= Max(S)
<1>1. \E x \in S : \A y \in S : x >= y
  BY HasALargest
<1>2. Max(S) \in S /\ \A y \in S : Max(S) >= y
  BY <1>1 DEF Max
<1>3. QED
  BY <1>2

LEMMA MaxIsUnique ==
  ASSUME NEW S \in SUBSET Int, NEW x \in S, \A y \in S : y <= x
  PROVE  Max(S) = x
<1>1. Max(S) \in S /\ \A y \in S : Max(S) >= y
  <2>1. \E z \in S : \A y \in S : z >= y
    OBVIOUS
  <2>2. QED
    BY <2>1 DEF Max
<1>2. Max(S) >= x /\ Max(S) <= x
  BY <1>1
<1>3. Max(S) \in Int /\ x \in Int
  BY <1>1
<1>4. QED
  BY <1>2, <1>3

LEMMA MinOfNumbers ==
  ASSUME NEW S \in SUBSET Nat, S # {}
  PROVE  Min(S) \in S /\ \A y \in S : Min(S) <= y
<1>1. \E x \in S : \A y \in S : x <= y
  BY LeastNumber
<1>2. QED
  BY <1>1 DEF Min

LEMMA MinIsUnique ==
  ASSUME NEW S \in SUBSET Int, NEW x \in S, \A y \in S : x <= y
  PROVE  Min(S) = x
<1>1. Min(S) \in S /\ \A y \in S : Min(S) <= y
  <2>1. \E z \in S : \A y \in S : z <= y
    OBVIOUS
  <2>2. QED
    BY <2>1 DEF Min
<1>2. Min(S) <= x /\ x <= Min(S) /\ Min(S) \in Int /\ x \in Int
  BY <1>1
<1>3. QED
  BY <1>2

-----------------------------------------------------------------------------
(* The windows of a period.                                                *)

LEMMA WindowIs ==
  ASSUME NEW t \in Types, NEW ts \in Nat
  PROVE  /\ CurWindowTime(ts, t) \in Starts[t]
         /\ CurWindowTime(ts, t) \in 0..ts
         /\ \A s \in Starts[t] : s <= ts => s <= CurWindowTime(ts, t)
<1> DEFINE P == {s \in Starts[t] : 0 <= s /\ s <= ts}
           Q == {s \in Starts[t] : s <= ts}
<1>1. Starts[t] \in SUBSET Int /\ 0 \in Starts[t]
  BY QuotesAssumption
<1>2. P \in SUBSET (0..ts) /\ 0 \in P
  BY <1>1
<1>3. Max(P) \in P /\ \A y \in P : y <= Max(P)
  <2> HIDE DEF P
  <2>1. P # {}
    BY <1>2
  <2>2. QED
    BY <1>2, <2>1, MaxIs
<1>4. Max(P) \in Int /\ 0 <= Max(P)
  BY <1>1, <1>3
<1>5. ASSUME NEW y \in Q PROVE y <= Max(P)
  <2>1. CASE y < 0
    BY <1>1, <1>4, <2>1
  <2>2. CASE ~(y < 0)
    <3>1. y \in P
      BY <1>1, <2>2
    <3>2. QED
      BY <1>3, <3>1
  <2>3. QED
    BY <2>1, <2>2
<1>6. Q \in SUBSET Int /\ Max(P) \in Q
  BY <1>1, <1>3
<1>7. Max(Q) = Max(P)
  <2> HIDE DEF P, Q
  <2>1. QED
    BY <1>5, <1>6, MaxIsUnique
<1>8. CurWindowTime(ts, t) = Max(P)
  BY <1>7 DEF CurWindowTime
<1>9. Max(P) \in Starts[t] /\ Max(P) \in 0..ts
  BY <1>2, <1>3
<1>10. \A s \in Starts[t] : s <= ts => s <= Max(P)
  BY <1>5
<1> HIDE DEF P, Q
<1>11. QED
  BY <1>8, <1>9, <1>10

LEMMA LaterWindow ==
  ASSUME NEW t \in Types, NEW a \in Nat, NEW b \in Nat, a <= b
  PROVE  CurWindowTime(a, t) <= CurWindowTime(b, t)
<1>1. CurWindowTime(a, t) \in Starts[t] /\ CurWindowTime(a, t) \in 0..a
  BY WindowIs
<1>2. CurWindowTime(a, t) <= b
  BY <1>1
<1>3. QED
  BY <1>1, <1>2, WindowIs

-----------------------------------------------------------------------------
(* Bars.                                                                   *)

LEMMA FlatIsABar ==
  ASSUME NEW p \in Nat, NEW n \in Nat
  PROVE  Flat(p, n) \in Bars /\ Flat(p, n).count = n /\ Flat(p, n).close = p
BY DEF Flat, Bars

LEMMA Prices ==
  ASSUME NEW ps \in Seq(Numbers), ps # <<>>
  PROVE  /\ Head(ps) \in Nat /\ Last(ps) \in Nat /\ Len(ps) \in Nat /\ Len(ps) > 0
         /\ IsFiniteSet(Range(ps)) /\ Range(ps) \in SUBSET Nat /\ Range(ps) # {}
<1>1. Len(ps) \in Nat /\ DOMAIN ps = 1..Len(ps) /\ Len(ps) > 0
  BY LenProperties, EmptySeq
<1>2. \A i \in 1..Len(ps) : ps[i] \in Numbers
  BY ElementOfSeq
<1>3. Head(ps) \in Nat /\ Last(ps) \in Nat
  <2>1. Head(ps) = ps[1] /\ 1 \in 1..Len(ps) /\ Len(ps) \in 1..Len(ps)
    BY <1>1
  <2>2. QED
    BY <1>2, <2>1 DEF Last, Numbers
<1>4. ps \in Surjection(1..Len(ps), Range(ps))
  <2>1. Range(ps) = {ps[i] : i \in 1..Len(ps)}
    BY <1>1 DEF Range
  <2>2. ps \in [1..Len(ps) -> Range(ps)]
    BY <1>1, <2>1, LenProperties
  <2>3. QED
    BY <2>1, <2>2 DEF Surjection
<1>5. IsFiniteSet(Range(ps))
  <2>1. IsFiniteSet(1..Len(ps))
    BY <1>1, FS_Interval
  <2>2. QED
    BY <1>4, <2>1, FS_Surjection
<1>6. Range(ps) \in SUBSET Nat /\ Range(ps) # {}
  <2>1. \A i \in DOMAIN ps : ps[i] \in Nat
    BY <1>1, <1>2 DEF Numbers
  <2>2. 1 \in DOMAIN ps
    BY <1>1
  <2>3. QED
    BY <2>1, <2>2 DEF Range
<1>7. QED
  BY <1>1, <1>3, <1>5, <1>6

(* What Traded leaves in a bar: the first price of the window if it was    *)
(* empty, the last price, the extremes, and the number of fills.           *)
Seen(b, ps) == IF b.count = 0 THEN Range(ps) ELSE Range(ps) \cup {b.high}
SeenLow(b, ps) == IF b.count = 0 THEN Range(ps) ELSE Range(ps) \cup {b.low}

LEMMA TradedIs ==
  ASSUME NEW b \in Bars, NEW ps \in Fills, ps # <<>>
  PROVE  /\ Traded(b, ps) =
              [open |-> IF b.count = 0 THEN Head(ps) ELSE b.open, close |-> Last(ps),
               high |-> Max(Seen(b, ps)), low |-> Min(SeenLow(b, ps)),
               count |-> b.count + Len(ps)]
         /\ Traded(b, ps) \in Bars
         /\ Traded(b, ps).count = b.count + Len(ps)
<1>1. /\ b.open \in Nat /\ b.high \in Nat /\ b.low \in Nat /\ b.count \in Nat
  BY DEF Bars
<1>2. ps \in Seq(Numbers)
  BY FillsAreSeqs
<1>3. /\ Head(ps) \in Nat /\ Last(ps) \in Nat /\ Len(ps) \in Nat
      /\ IsFiniteSet(Range(ps)) /\ Range(ps) \in SUBSET Nat /\ Range(ps) # {}
  BY <1>2, Prices
<1>4. Traded(b, ps) =
              [open |-> IF b.count = 0 THEN Head(ps) ELSE b.open, close |-> Last(ps),
               high |-> Max(Seen(b, ps)), low |-> Min(SeenLow(b, ps)),
               count |-> b.count + Len(ps)]
  BY DEF Traded, Seen, SeenLow
<1>5. Max(Seen(b, ps)) \in Nat
  <2>1. IsFiniteSet(Range(ps) \cup {b.high})
    BY <1>3, FS_AddElement
  <2>2. IsFiniteSet(Seen(b, ps)) /\ Seen(b, ps) \in SUBSET Nat /\ Seen(b, ps) # {}
    BY <1>1, <1>3, <2>1 DEF Seen
  <2>3. Seen(b, ps) \in SUBSET Int
    BY <2>2
  <2>4. QED
    BY <2>2, <2>3, MaxOfFinite
<1>6. Min(SeenLow(b, ps)) \in Nat
  <2>1. SeenLow(b, ps) \in SUBSET Nat /\ SeenLow(b, ps) # {}
    BY <1>1, <1>3 DEF SeenLow
  <2>2. QED
    BY <2>1, MinOfNumbers
<1>7. (IF b.count = 0 THEN Head(ps) ELSE b.open) \in Nat /\ b.count + Len(ps) \in Nat
  BY <1>1, <1>3
<1>8. QED
  BY <1>3, <1>4, <1>5, <1>6, <1>7 DEF Bars

-----------------------------------------------------------------------------
(* Klines.                                                                 *)

IsKlines(k) == /\ k = [w \in DOMAIN k |-> k[w]]
               /\ DOMAIN k \in SUBSET Int /\ IsFiniteSet(DOMAIN k)
               /\ \A w \in DOMAIN k : k[w] \in Bars

LEMMA NoKlines ==
  IsKlines(<<>>) /\ DOMAIN <<>> = {}
<1>1. DOMAIN <<>> = {} /\ IsFiniteSet({})
  BY FS_EmptySet
<1>2. <<>> = [w \in DOMAIN <<>> |-> <<>>[w]]
  OBVIOUS
<1>3. QED
  BY <1>1, <1>2 DEF IsKlines

LEMMA SomeKlines ==
  ASSUME NEW k, IsKlines(k)
  PROVE  k = <<>> <=> DOMAIN k = {}
<1>1. ASSUME DOMAIN k = {} PROVE k = <<>>
  <2>1. k = [w \in {} |-> k[w]]
    BY <1>1 DEF IsKlines
  <2>2. QED
    BY <2>1
<1>2. k = <<>> => DOMAIN k = {}
  BY NoKlines
<1>3. QED
  BY <1>1, <1>2

LEMMA LastKline ==
  ASSUME NEW k, IsKlines(k), k # <<>>
  PROVE  Max(DOMAIN k) \in DOMAIN k /\ \A v \in DOMAIN k : v <= Max(DOMAIN k)
<1>1. DOMAIN k # {} /\ DOMAIN k \in SUBSET Int /\ IsFiniteSet(DOMAIN k)
  BY SomeKlines DEF IsKlines
<1>2. QED
  BY <1>1, MaxOfFinite

LEMMA WindowsAreFinite ==
  ASSUME NEW t \in Types, NEW a \in Int, NEW b \in Int
  PROVE  /\ IsFiniteSet(WindowsFrom(a, b, t)) /\ WindowsFrom(a, b, t) \in SUBSET Int
         /\ WindowsFrom(a, b, t) \subseteq Starts[t]
<1>1. Starts[t] \in SUBSET Int
  BY QuotesAssumption
<1>2. WindowsFrom(a, b, t) \in SUBSET (a..b) /\ IsFiniteSet(a..b)
  BY <1>1, FS_Interval DEF WindowsFrom
<1>3. QED
  BY <1>1, <1>2, FS_Subset DEF WindowsFrom

(* The windows getCurrentKline adds are later than those that are there,   *)
(* and none is missing up to the time.                                     *)
LEMMA MissingAre ==
  ASSUME NEW k, IsKlines(k), NEW t \in Types, NEW ts \in Nat
  PROVE  /\ IsFiniteSet(MissingWindows(k, ts, t)) /\ MissingWindows(k, ts, t) \in SUBSET Int
         /\ \A w \in MissingWindows(k, ts, t) :
              /\ w \in Starts[t] /\ w <= CurWindowTime(ts, t) /\ w \notin DOMAIN k
              /\ \A v \in DOMAIN k : v < w
              /\ DOMAIN k = {} => w = CurWindowTime(ts, t)
         /\ (\A v \in DOMAIN k : v <= CurWindowTime(ts, t)) =>
              CurWindowTime(ts, t) \in DOMAIN k \cup MissingWindows(k, ts, t)
<1> DEFINE c == CurWindowTime(ts, t)
           m == Max(DOMAIN k)
<1>1. c \in Starts[t] /\ c \in 0..ts /\ c \in Int /\ Starts[t] \in SUBSET Int
  BY WindowIs, QuotesAssumption
<1>2. DOMAIN k \in SUBSET Int
  BY DEF IsKlines
<1>3. CASE k = <<>>
  <2>1. MissingWindows(k, ts, t) = {c} /\ DOMAIN k = {}
    BY <1>3, SomeKlines DEF MissingWindows
  <2>2. IsFiniteSet({c})
    BY FS_Singleton
  <2> HIDE DEF c
  <2>3. QED
    BY <1>1, <2>1, <2>2 DEF c
<1>4. CASE k # <<>> /\ c \in DOMAIN k
  <2>1. MissingWindows(k, ts, t) = {}
    BY <1>4 DEF MissingWindows
  <2>2. QED
    BY <1>4, <2>1, FS_EmptySet
<1>5. CASE k # <<>> /\ c \notin DOMAIN k
  <2>1. MissingWindows(k, ts, t) = WindowsFrom(m + 1, c, t)
    BY <1>5 DEF MissingWindows
  <2>2. m \in DOMAIN k /\ m \in Int /\ \A v \in DOMAIN k : v <= m
    BY <1>2, <1>5, LastKline
  <2>3. /\ IsFiniteSet(WindowsFrom(m + 1, c, t)) /\ WindowsFrom(m + 1, c, t) \in SUBSET Int
    <3>1. m + 1 \in Int
      BY <2>2
    <3> HIDE DEF m, c
    <3>2. QED
      BY <1>1, <3>1, WindowsAreFinite
  <2> HIDE DEF m, c
  <2>4. ASSUME NEW w \in WindowsFrom(m + 1, c, t)
        PROVE  /\ w \in Starts[t] /\ w <= c /\ w \notin DOMAIN k
               /\ \A v \in DOMAIN k : v < w
    <3>1. w \in Starts[t] /\ m + 1 <= w /\ w <= c /\ w \in Int
      BY <1>1 DEF WindowsFrom
    <3>2. \A v \in DOMAIN k : v < w
      BY <1>2, <2>2, <3>1
    <3>3. QED
      BY <1>2, <3>1, <3>2
  <2>5. ASSUME \A v \in DOMAIN k : v <= c
        PROVE  c \in WindowsFrom(m + 1, c, t)
    <3>1. m <= c /\ m # c
      BY <1>5, <2>2, <2>5
    <3>2. m + 1 <= c /\ c <= c
      BY <1>1, <2>2, <3>1
    <3>3. QED
      BY <1>1, <3>2 DEF WindowsFrom
  <2>6. DOMAIN k # {}
    BY <2>2
  <2>7. QED
    BY <2>1, <2>3, <2>4, <2>5, <2>6 DEF c
<1>6. QED
  BY <1>3, <1>4, <1>5

(* getCurrentKline: the windows that were missing are empty.               *)
LEMMA CurrentIs ==
  ASSUME NEW k, IsKlines(k), NEW t \in Types, NEW ts \in Nat
  PROVE  /\ IsKlines(getCurrentKline(k, ts, t))
         /\ DOMAIN getCurrentKline(k, ts, t) = DOMAIN k \cup MissingWindows(k, ts, t)
         /\ \A w \in DOMAIN k : getCurrentKline(k, ts, t)[w] = k[w]
         /\ \A w \in MissingWindows(k, ts, t) : getCurrentKline(k, ts, t)[w].count = 0
<1> DEFINE last == IF k = <<>> THEN 0 ELSE k[Max(DOMAIN k)].close
           M == MissingWindows(k, ts, t)
           g == [w \in DOMAIN k \cup M |-> IF w \in DOMAIN k THEN k[w] ELSE Flat(last, 0)]
<1>1. /\ IsFiniteSet(M) /\ M \in SUBSET Int /\ \A w \in M : w \notin DOMAIN k
  BY MissingAre
<1>2. last \in Nat
  <2>1. k # <<>> => k[Max(DOMAIN k)] \in Bars
    BY LastKline DEF IsKlines
  <2>2. QED
    BY <2>1 DEF Bars
<1>3. /\ DOMAIN k \in SUBSET Int /\ IsFiniteSet(DOMAIN k)
      /\ \A w \in DOMAIN k : k[w] \in Bars
  BY DEF IsKlines
<1>4. getCurrentKline(k, ts, t) = g
  BY DEF getCurrentKline
<1> HIDE DEF M, last
<1>5. DOMAIN g = DOMAIN k \cup M /\ g = [w \in DOMAIN g |-> g[w]]
  OBVIOUS
<1>6. IsFiniteSet(DOMAIN k \cup M) /\ DOMAIN k \cup M \in SUBSET Int
  BY <1>1, <1>3, FS_Union
<1>7. Flat(last, 0) \in Bars /\ Flat(last, 0).count = 0
  BY <1>2, FlatIsABar
<1>8. /\ \A w \in DOMAIN k : g[w] = k[w]
      /\ \A w \in M : g[w] = Flat(last, 0)
  BY <1>1
<1> HIDE DEF g
<1>9. \A w \in DOMAIN g : g[w] \in Bars
  BY <1>3, <1>5, <1>7, <1>8
<1>10. IsKlines(g)
  BY <1>5, <1>6, <1>9 DEF IsKlines
<1>11. \A w \in M : g[w].count = 0
  BY <1>7, <1>8
<1>12. QED
  BY <1>4, <1>5, <1>8, <1>10, <1>11 DEF M

LEMMA UpdatedAre ==
  ASSUME NEW mr \in ResultSet, NEW ts \in Nat, mr.ts <= ts, NEW t \in Types
  PROVE  /\ IsFiniteSet(UpdatedWindows(mr, ts, t)) /\ UpdatedWindows(mr, ts, t) \in SUBSET Int
         /\ \A w \in UpdatedWindows(mr, ts, t) :
              /\ w \in Starts[t] /\ mr.prices # <<>>
              /\ CurWindowTime(mr.ts, t) <= w /\ w <= CurWindowTime(ts, t)
         /\ mr.prices # <<>> => CurWindowTime(mr.ts, t) \in UpdatedWindows(mr, ts, t)
<1> DEFINE own == CurWindowTime(mr.ts, t)
           c == CurWindowTime(ts, t)
           all == WindowsFrom(own, c, t)
           U == UpdatedWindows(mr, ts, t)
<1>1. mr.ts \in Nat
  BY DEF ResultSet
<1>2. own \in Starts[t] /\ own \in Int /\ c \in Starts[t] /\ c \in Int /\ own <= c
  BY <1>1, WindowIs, LaterWindow
<1>3. IsFiniteSet(all) /\ all \in SUBSET Int
  <2> HIDE DEF own, c
  <2>1. QED
    BY <1>2, WindowsAreFinite
<1>4. U \in SUBSET all /\ (\A w \in U : mr.prices # <<>>)
  BY DEF UpdatedWindows, isPendingOrder
<1>5. IsFiniteSet(U) /\ U \in SUBSET Int
  <2> HIDE DEF U, all
  <2>1. QED
    BY <1>3, <1>4, FS_Subset
<1>6. \A w \in all : w \in Starts[t] /\ own <= w /\ w <= c
  BY DEF WindowsFrom
<1>7. ASSUME mr.prices # <<>> PROVE own \in U
  <2> DEFINE before == {v \in all : v < own}
  <2>1. before = {}
    <3> HIDE DEF own, c, all
    <3>1. \A v \in all : ~(v < own)
      BY <1>2, <1>3, <1>6
    <3>2. QED
      BY <3>1
  <2> HIDE DEF before
  <2>2. Cardinality(before) < Forward
    <3>1. Forward > 0
      BY QuotesAssumption
    <3>2. QED
      BY <2>1, <3>1, FS_EmptySet
  <2>3. own \in all
    BY <1>2 DEF WindowsFrom
  <2>4. QED
    BY <1>7, <2>2, <2>3 DEF UpdatedWindows, isPendingOrder, before
<1>8. \A w \in U : w \in Starts[t] /\ mr.prices # <<>> /\ own <= w /\ w <= c
  <2> HIDE DEF U, all, own, c
  <2>1. QED
    BY <1>4, <1>6
<1> HIDE DEF U, all, own, c
<1>9. QED
  BY <1>5, <1>7, <1>8 DEF U, own, c

(* updateKline: the own window takes the fills, those after it the price.  *)
OldBar(k, w) == IF w \in DOMAIN k THEN k[w] ELSE Flat(0, 0)

LEMMA UpdateIs ==
  ASSUME NEW k, IsKlines(k), NEW mr \in ResultSet, NEW ts \in Nat, mr.ts <= ts,
         NEW t \in Types
  PROVE  LET U == UpdatedWindows(mr, ts, t)
             u == updateKline(k, mr, ts, t)
         IN  /\ IsKlines(u) /\ DOMAIN u = DOMAIN k \cup U
             /\ \A w \in DOMAIN k : w \notin U => u[w] = k[w]
             /\ \A w \in U : w = CurWindowTime(mr.ts, t) =>
                               u[w] = Traded(OldBar(k, w), mr.prices)
             /\ \A w \in U : w # CurWindowTime(mr.ts, t) =>
                               u[w].count = OldBar(k, w).count
<1> DEFINE U == UpdatedWindows(mr, ts, t)
           own == CurWindowTime(mr.ts, t)
           p == Last(mr.prices)
           u == [w \in DOMAIN k \cup U |->
                   IF w \notin U THEN OldBar(k, w)
                   ELSE IF w = own THEN Traded(OldBar(k, w), mr.prices)
                   ELSE Flat(p, OldBar(k, w).count)]
<1>1. updateKline(k, mr, ts, t) = u
  BY DEF updateKline, OldBar
<1>2. IsFiniteSet(U) /\ U \in SUBSET Int /\ \A w \in U : mr.prices # <<>>
  BY UpdatedAre
<1>3. /\ DOMAIN k \in SUBSET Int /\ IsFiniteSet(DOMAIN k)
      /\ \A w \in DOMAIN k : k[w] \in Bars
  BY DEF IsKlines
<1>4. mr.prices \in Fills
  BY DEF ResultSet
<1>5. \A w \in DOMAIN k \cup U : OldBar(k, w) \in Bars /\ OldBar(k, w).count \in Nat
  <2>1. Flat(0, 0) \in Bars
    BY FlatIsABar
  <2>2. \A w \in DOMAIN k \cup U : OldBar(k, w) \in Bars
    BY <1>3, <2>1 DEF OldBar
  <2>3. QED
    BY <2>2 DEF Bars
<1> HIDE DEF U, own
<1>6. DOMAIN u = DOMAIN k \cup U /\ u = [w \in DOMAIN u |-> u[w]]
  OBVIOUS
<1>7. /\ \A w \in DOMAIN k : w \notin U => u[w] = OldBar(k, w)
      /\ \A w \in U : w = own => u[w] = Traded(OldBar(k, w), mr.prices)
      /\ \A w \in U : w # own => u[w] = Flat(p, OldBar(k, w).count)
  BY <1>6
<1> HIDE DEF u
<1>8. ASSUME NEW w \in U
      PROVE  u[w] \in Bars /\ (w # own => u[w].count = OldBar(k, w).count)
  <2>1. mr.prices # <<>> /\ mr.prices \in Seq(Numbers)
    BY <1>2, <1>4, FillsAreSeqs
  <2>2. p \in Nat
    BY <2>1, Prices
  <2>3. OldBar(k, w) \in Bars /\ OldBar(k, w).count \in Nat
    BY <1>5
  <2> HIDE DEF p
  <2>4. Traded(OldBar(k, w), mr.prices) \in Bars
    BY <1>4, <2>1, <2>3, TradedIs
  <2>5. /\ Flat(p, OldBar(k, w).count) \in Bars
        /\ Flat(p, OldBar(k, w).count).count = OldBar(k, w).count
    BY <2>2, <2>3, FlatIsABar
  <2>6. QED
    BY <1>7, <2>4, <2>5 DEF p
<1>9. \A w \in DOMAIN u : u[w] \in Bars
  BY <1>5, <1>6, <1>7, <1>8
<1>10. IsFiniteSet(DOMAIN u) /\ DOMAIN u \in SUBSET Int
  BY <1>2, <1>3, <1>6, FS_Union
<1>11. IsKlines(u)
  BY <1>6, <1>9, <1>10 DEF IsKlines
<1>12. \A w \in DOMAIN k : w \notin U => u[w] = k[w]
  BY <1>7 DEF OldBar
<1>13. QED
  BY <1>1, <1>6, <1>7, <1>8, <1>11, <1>12 DEF U, own

LEMMA RestrictedIs ==
  ASSUME NEW k, IsKlines(k), NEW D, D \subseteq DOMAIN k
  PROVE  /\ IsKlines(Restrict(k, D)) /\ DOMAIN Restrict(k, D) = D
         /\ \A w \in D : Restrict(k, D)[w] = k[w]
<1>1. IsFiniteSet(D)
  BY FS_Subset DEF IsKlines
<1>2. DOMAIN Restrict(k, D) = D /\ \A w \in D : Restrict(k, D)[w] = k[w]
  BY DEF Restrict
<1>3. Restrict(k, D) = [w \in DOMAIN Restrict(k, D) |-> Restrict(k, D)[w]]
  BY DEF Restrict
<1>4. QED
  BY <1>1, <1>2, <1>3 DEF IsKlines

(* The two windows of a snapshot.                                          *)
LEMMA TwoWindowsAre ==
  ASSUME NEW k, IsKlines(k), NEW t \in Types, NEW c, c = CurWindowTime(now, t),
         now \in Nat
  PROVE  /\ IsKlines(TwoWindows(k, t)) /\ DOMAIN TwoWindows(k, t) = {c, c - Step[t]}
         /\ \A w \in {c, c - Step[t]} : TwoWindows(k, t)[w] = OldBar(k, w)
<1> DEFINE d == c - Step[t]
           f == TwoWindows(k, t)
<1>1. c \in Int /\ d \in Int
  BY WindowIs, QuotesAssumption
<1> HIDE DEF d
<1>2. f = [w \in {c, d} |-> OldBar(k, w)]
  BY DEF TwoWindows, OldBar, d
<1>3. Flat(0, 0) \in Bars
  BY FlatIsABar
<1>4. \A w \in {c, d} : OldBar(k, w) \in Bars
  BY <1>3 DEF IsKlines, OldBar
<1>5. IsFiniteSet({c, d}) /\ {c, d} \in SUBSET Int
  <2>1. IsFiniteSet({c}) /\ {c, d} = {c} \cup {d}
    BY FS_Singleton
  <2>2. QED
    BY <1>1, <2>1, FS_AddElement
<1>6. /\ DOMAIN f = {c, d} /\ f = [w \in DOMAIN f |-> f[w]]
      /\ \A w \in {c, d} : f[w] = OldBar(k, w)
  BY <1>2
<1> HIDE DEF f
<1>7. IsKlines(f)
  BY <1>4, <1>5, <1>6 DEF IsKlines
<1>8. QED
  BY <1>6, <1>7 DEF f, d

-----------------------------------------------------------------------------
(* The market of the day.                                                  *)

LEMMA DayOfBars ==
  ASSUME NEW m, m \in [1..Day -> Bars]
  PROVE  IsDayOf(m)
<1>1. Day \in Nat
  BY QuotesAssumption
<1>2. m \in Seq(Bars)
  BY <1>1, SeqDef
<1>3. DOMAIN m = 1..Day /\ DOMAIN m = 1..Len(m) /\ Len(m) \in Nat
  BY <1>2, LenProperties
<1>4. Len(m) = Day
  BY <1>1, <1>3
<1>5. QED
  BY <1>2, <1>4 DEF IsDayOf

(* No result so far was of a later time.                                   *)
Until(rs, n, ts) == \A i \in 1..n : rs[i].ts <= ts

LEMMA RolledIs ==
  ASSUME NEW m, IsDayOf(m), NEW from \in Nat, NEW ts \in Nat, from <= ts
  PROVE  /\ IsDayOf(Rolled(m, from, ts))
         /\ \A rs \in Seq(ResultSet) : \A n \in 0..Len(rs) :
              CountsMinutes(m, rs, n, from) /\ Until(rs, n, from)
                => CountsMinutes(Rolled(m, from, ts), rs, n, ts)
<1> DEFINE off == Min({ts - from, Day})
           p == m[1].close
           r == [i \in 1..Day |-> IF i <= off THEN Flat(p, 0) ELSE m[i - off]]
<1>1. /\ Day \in Nat \ {0} /\ \A i \in 1..Day : m[i] \in Bars
  BY DayBars
<1>2. off \in {ts - from, Day} /\ off <= ts - from /\ off <= Day /\ off \in Nat
  <2>1. {ts - from, Day} \in SUBSET Nat /\ {ts - from, Day} # {}
    BY <1>1
  <2>2. off \in {ts - from, Day} /\ \A y \in {ts - from, Day} : off <= y
    <3> DEFINE S == {ts - from, Day}
    <3> HIDE DEF S
    <3>1. Min(S) \in S /\ \A y \in S : Min(S) <= y
      BY <2>1, MinOfNumbers DEF S
    <3>2. QED
      BY <3>1 DEF S
  <2>3. QED
    BY <2>1, <2>2
<1>3. p \in Nat
  BY <1>1 DEF Bars
<1>4. Rolled(m, from, ts) = r
  BY DEF Rolled
<1> HIDE DEF off, p
<1>5. Flat(p, 0) \in Bars /\ Flat(p, 0).count = 0
  BY <1>3, FlatIsABar
<1>6. \A i \in 1..Day : /\ i <= off => r[i] = Flat(p, 0)
                        /\ ~(i <= off) => r[i] = m[i - off] /\ i - off \in 1..Day
  BY <1>1, <1>2
<1>7. \A i \in 1..Day : r[i] \in Bars
  <2> HIDE DEF r
  <2>1. QED
    BY <1>1, <1>5, <1>6
<1>8. IsDayOf(r)
  <2>1. r \in [1..Day -> Bars]
    BY <1>7
  <2> HIDE DEF r
  <2>2. QED
    BY <2>1, DayOfBars
<1> HIDE DEF r
<1>9. ASSUME NEW rs \in Seq(ResultSet), NEW n \in 0..Len(rs),
             CountsMinutes(m, rs, n, from), Until(rs, n, from),
             NEW i \in 1..Day
      PROVE  r[i].count = CountIn(rs, n, {ts - i + 1})
  <2>1. CASE i <= off
    <3>1. Len(rs) \in Nat /\ n \in Nat /\ n <= Len(rs)
      BY LenProperties
    <3>2. ASSUME NEW j \in 1..n PROVE FillsNothing(rs[j], {ts - i + 1})
      <4>1. j \in 1..Len(rs)
        BY <3>1
      <4>2. rs[j].ts \in Nat /\ rs[j].ts <= from
        BY <1>9, <4>1, ResultAt DEF Until
      <4>3. rs[j].ts # ts - i + 1
        BY <1>1, <1>2, <2>1, <4>2
      <4>4. QED
        BY <4>3 DEF FillsNothing
    <3>3. CountIn(rs, n, {ts - i + 1}) = 0
      BY <3>2, NoFills
    <3>4. QED
      BY <1>5, <1>6, <2>1, <3>3
  <2>2. CASE ~(i <= off)
    <3>1. r[i] = m[i - off] /\ i - off \in 1..Day
      BY <1>6, <2>2
    <3>2. off = ts - from
      BY <1>1, <1>2, <2>2
    <3>3. m[i - off].count = CountIn(rs, n, {from - (i - off) + 1})
      BY <1>9, <3>1 DEF CountsMinutes
    <3>4. from - (i - off) + 1 = ts - i + 1
      BY <3>2
    <3>5. QED
      BY <3>1, <3>3, <3>4
  <2>3. QED
    BY <2>1, <2>2
<1>10. \A rs \in Seq(ResultSet) : \A n \in 0..Len(rs) :
         CountsMinutes(m, rs, n, from) /\ Until(rs, n, from) => CountsMinutes(r, rs, n, ts)
  BY <1>9 DEF CountsMinutes
<1>11. QED
  BY <1>4, <1>8, <1>10

(* The result n + 1 is added to the bar of its minute.                     *)
LEMMA UpdatedMarketIs ==
  ASSUME NEW m, IsDayOf(m), NEW mr \in ResultSet, NEW ts \in Nat, mr.ts <= ts
  PROVE  /\ IsDayOf(UpdatedMarket(m, mr, ts))
         /\ \A rs \in Seq(ResultSet) : \A n \in Nat :
              /\ n + 1 <= Len(rs) /\ rs[n + 1] = mr
              /\ CountsMinutes(m, rs, n, ts)
              => CountsMinutes(UpdatedMarket(m, mr, ts), rs, n + 1, ts)
<1> DEFINE old == ts - mr.ts > Day - 1
           off == IF old THEN Day ELSE ts - mr.ts + 1
           p == Last(mr.prices)
           r == [i \in 1..Day |->
                   IF mr.prices = <<>> \/ i > off THEN m[i]
                   ELSE IF i = off /\ ~old THEN Traded(m[i], mr.prices)
                   ELSE Flat(p, m[i].count)]
<1>1. /\ Day \in Nat \ {0} /\ \A i \in 1..Day : m[i] \in Bars
  BY DayBars
<1>2. mr.ts \in Nat /\ mr.prices \in Fills
  BY DEF ResultSet
<1>3. UpdatedMarket(m, mr, ts) = r
  BY DEF UpdatedMarket, isPendingOrder
<1>4. /\ Len(mr.prices) \in Nat /\ (mr.prices = <<>> => Len(mr.prices) = 0)
      /\ mr.prices # <<>> => p \in Nat
  BY <1>2, FillsAreSeqs, Prices, EmptySeq
<1>5. ASSUME NEW i \in 1..Day
      PROVE  /\ r[i] \in Bars
             /\ r[i].count = m[i].count
                  + (IF i = off /\ ~old THEN Len(mr.prices) ELSE 0)
  <2>1. m[i] \in Bars /\ m[i].count \in Nat
    BY <1>1 DEF Bars
  <2>2. CASE mr.prices = <<>> \/ i > off
    <3>1. r[i] = m[i]
      BY <2>2
    <3>2. ~(i = off) \/ Len(mr.prices) = 0
      BY <1>1, <1>2, <1>4, <2>2
    <3> HIDE DEF r, off, old
    <3>3. QED
      BY <2>1, <3>1, <3>2
  <2>3. CASE mr.prices # <<>> /\ ~(i > off) /\ i = off /\ ~old
    <3>1. r[i] = Traded(m[i], mr.prices)
      BY <2>3
    <3>2. Traded(m[i], mr.prices) \in Bars
          /\ Traded(m[i], mr.prices).count = m[i].count + Len(mr.prices)
      BY <1>2, <2>1, <2>3, TradedIs
    <3> HIDE DEF r, off, old
    <3>3. QED
      BY <2>3, <3>1, <3>2
  <2>4. CASE mr.prices # <<>> /\ ~(i > off) /\ ~(i = off /\ ~old)
    <3>1. r[i] = Flat(p, m[i].count)
      BY <2>4
    <3>2. p \in Nat
      BY <1>4, <2>4
    <3> HIDE DEF r, off, old, p
    <3>3. Flat(p, m[i].count) \in Bars /\ Flat(p, m[i].count).count = m[i].count
      BY <2>1, <3>2, FlatIsABar
    <3>4. QED
      BY <2>1, <2>4, <3>1, <3>3
  <2>5. QED
    BY <2>2, <2>3, <2>4
<1>6. IsDayOf(r)
  <2>1. r \in [1..Day -> Bars]
    BY <1>5
  <2> HIDE DEF r
  <2>2. QED
    BY <2>1, DayOfBars
<1> HIDE DEF r
<1>7. ASSUME NEW rs \in Seq(ResultSet), NEW n \in Nat, n + 1 <= Len(rs),
             rs[n + 1] = mr, CountsMinutes(m, rs, n, ts), NEW i \in 1..Day
      PROVE  r[i].count = CountIn(rs, n + 1, {ts - i + 1})
  <2>1. CountIn(rs, n + 1, {ts - i + 1}) = CountIn(rs, n, {ts - i + 1})
          + (IF mr.ts \in {ts - i + 1} THEN Len(mr.prices) ELSE 0)
    BY <1>7, CountNext
  <2>2. m[i].count = CountIn(rs, n, {ts - i + 1})
    BY <1>7 DEF CountsMinutes
  <2>3. mr.ts \in {ts - i + 1} <=> i = off /\ ~old
    BY <1>1, <1>2
  <2> HIDE DEF off, old
  <2>4. QED
    BY <1>5, <2>1, <2>2, <2>3
<1>8. \A rs \in Seq(ResultSet) : \A n \in Nat :
        /\ n + 1 <= Len(rs) /\ rs[n + 1] = mr /\ CountsMinutes(m, rs, n, ts)
        => CountsMinutes(r, rs, n + 1, ts)
  BY <1>7 DEF CountsMinutes
<1>9. QED
  BY <1>3, <1>6, <1>8

(* ... and to the count of the day unless it is older.                     *)
LEMMA UpdatedDetailIs ==
  ASSUME NEW rs \in Seq(ResultSet), NEW n \in Nat, n + 1 <= Len(rs),
         NEW mr, mr = rs[n + 1], NEW ts \in Nat, mr.ts <= ts, NEW d,
         d = CountIn(rs, n, (ts - Day + 1)..ts)
  PROVE  UpdatedDetail(d, mr, ts) = CountIn(rs, n + 1, (ts - Day + 1)..ts)
<1>1. Day \in Nat \ {0}
  BY QuotesAssumption
<1>2. n \in 0..Len(rs) /\ n + 1 \in 1..Len(rs)
  BY LenProperties
<1>3. mr.ts \in Nat /\ Len(mr.prices) \in Nat
  BY <1>2, ResultAt, FillsAreSeqs
<1>4. CountIn(rs, n + 1, (ts - Day + 1)..ts) = d
        + (IF mr.ts \in (ts - Day + 1)..ts THEN Len(mr.prices) ELSE 0)
  BY CountNext
<1>5. d \in Nat
  BY <1>2, FillsType
<1>6. mr.ts \in (ts - Day + 1)..ts <=> ~(ts - mr.ts > Day - 1)
  BY <1>1, <1>3
<1>7. QED
  BY <1>3, <1>4, <1>5, <1>6 DEF UpdatedDetail

-----------------------------------------------------------------------------
(* What each step does, period by period.                                  *)

LEMMA CurrentAt ==
  ASSUME NEW t \in Types, NEW ts
  PROVE  /\ Current(ts)[t] = getCurrentKline(klines[t], ts, t)
         /\ Touched(ts)[t] = cache[t] \cup MissingWindows(klines[t], ts, t)
BY DEF Current, Touched

Result1 == results[max + 1]

LEMMA ApplyIs ==
  ASSUME Apply
  PROVE  /\ up /\ max < Len(results) /\ max' = max + 1
         /\ \A t \in Types :
              /\ klines'[t] = updateKline(getCurrentKline(klines[t], now, t), Result1, now, t)
              /\ cache'[t] = (cache[t] \cup MissingWindows(klines[t], now, t))
                               \cup UpdatedWindows(Result1, now, t)
         /\ market' = UpdatedMarket(Rolled(market, marketTs, now), Result1, now)
         /\ marketTs' = now /\ detail' = UpdatedDetail(BuiltDetail, Result1, now)
         /\ UNCHANGED <<now, results, spTime, snapshot, redis, redisDown, up, crashes, failures>>
<1>1. /\ klines' = [t \in Types |-> updateKline(Current(now)[t], Result1, now, t)]
      /\ cache' = [t \in Types |-> Touched(now)[t] \cup UpdatedWindows(Result1, now, t)]
      /\ market' = UpdatedMarket(BuiltMarket, Result1, now)
  BY DEF Apply, Result1
<1>2. ASSUME NEW t \in Types
      PROVE  /\ klines'[t] = updateKline(getCurrentKline(klines[t], now, t), Result1, now, t)
             /\ cache'[t] = (cache[t] \cup MissingWindows(klines[t], now, t))
                               \cup UpdatedWindows(Result1, now, t)
  BY <1>1, CurrentAt
<1>3. /\ up /\ max < Len(results) /\ max' = max + 1
      /\ marketTs' = now /\ detail' = UpdatedDetail(BuiltDetail, Result1, now)
      /\ UNCHANGED <<now, results, spTime, snapshot, redis, redisDown, up, crashes, failures>>
  BY DEF Apply, Result1
<1>4. QED
  BY <1>1, <1>2, <1>3 DEF BuiltMarket

LEMMA CheckKlinesIs ==
  ASSUME CheckKlines
  PROVE  /\ up
         /\ \A t \in Types :
              /\ klines'[t] = getCurrentKline(klines[t], now, t)
              /\ cache'[t] = cache[t] \cup MissingWindows(klines[t], now, t)
         /\ UNCHANGED <<now, results, max, market, marketTs, detail, spTime, snapshot,
                        redis, redisDown, up, crashes, failures>>
BY CurrentAt DEF CheckKlines

LEMMA ClearIs ==
  ASSUME Clear
  PROVE  /\ up
         /\ \A t \in Types : klines'[t] =
              Restrict(klines[t], DOMAIN klines[t] \ Released(klines[t], t))
         /\ UNCHANGED <<now, results, max, cache, market, marketTs, detail, spTime,
                        snapshot, redis, redisDown, up, crashes, failures>>
BY DEF Clear

(* Redis is written as the memory is, unless it is ahead of it.            *)
IsWritten(new, k, c) ==
  \/ Ahead /\ new = redis
  \/ /\ ~Ahead /\ new.max = max /\ \A t \in Types : c[t] \subseteq DOMAIN k[t]
     /\ \A t \in Types :
          new.klines[t] = [w \in DOMAIN redis.klines[t] \cup c[t] |->
                             IF w \in c[t] THEN k[t][w] ELSE redis.klines[t][w]]

LEMMA WrittenIs ==
  ASSUME NEW k, NEW c, Ahead \/ Savable(k, c)
  PROVE  IsWritten(Written(k, c), k, c)
BY DEF Written, Savable, IsWritten

LEMMA SaveIs ==
  ASSUME Save
  PROVE  /\ up
         /\ \/ /\ IsWritten(redis', klines, cache) /\ \A t \in Types : cache'[t] = {}
               /\ UNCHANGED <<redisDown, failures>>
            \/ /\ failures < MaxFailures /\ failures' = failures + 1 /\ redisDown' = TRUE
               /\ UNCHANGED <<redis, cache>>
         /\ UNCHANGED <<now, results, max, klines, market, marketTs, detail, spTime,
                        snapshot, up, crashes>>
<1>1. Ahead \/ Savable(klines, cache)
  BY DEF Save
<1>2. IsWritten(Written(klines, cache), klines, cache)
  BY <1>1, WrittenIs
<1>3. QED
  BY <1>2 DEF Save, RedisFails, NoCache

LEMMA SnapshotIs ==
  ASSUME Snapshot
  PROVE  /\ up
         /\ \A t \in Types : klines'[t] = getCurrentKline(klines[t], now, t)
         /\ \/ /\ IsWritten(redis', Current(now), Touched(now))
               /\ \A t \in Types : cache'[t] = {}
               /\ spTime' = now
               /\ snapshot'.at = now /\ snapshot'.max = max
               /\ snapshot'.market = market /\ snapshot'.marketTs = marketTs
               /\ \A t \in Types : snapshot'.klines[t] =
                    TwoWindows(getCurrentKline(klines[t], now, t), t)
               /\ UNCHANGED <<redisDown, failures>>
            \/ /\ failures < MaxFailures /\ failures' = failures + 1 /\ redisDown' = TRUE
               /\ \A t \in Types :
                    cache'[t] = cache[t] \cup MissingWindows(klines[t], now, t)
               /\ UNCHANGED <<redis, snapshot, spTime>>
         /\ UNCHANGED <<now, results, max, market, marketTs, detail, up, crashes>>
<1>1. Ahead \/ Savable(Current(now), Touched(now))
  BY DEF Snapshot
<1>2. IsWritten(Written(Current(now), Touched(now)), Current(now), Touched(now))
  BY <1>1, WrittenIs
<1>3. /\ up /\ klines' = Current(now)
      /\ UNCHANGED <<now, results, max, market, marketTs, detail, up, crashes>>
  BY DEF Snapshot
<1>4. \A t \in Types : klines'[t] = getCurrentKline(klines[t], now, t)
  BY <1>3, CurrentAt
<1>5. CASE /\ redis' = Written(Current(now), Touched(now)) /\ cache' = NoCache
           /\ spTime' = now
           /\ snapshot' = [at |-> now, max |-> max, market |-> market,
                        marketTs |-> marketTs,
                        klines |-> [t \in Types |-> TwoWindows(Current(now)[t], t)]]
           /\ UNCHANGED <<redisDown, failures>>
  <2>1. /\ snapshot'.at = now /\ snapshot'.max = max
        /\ snapshot'.market = market /\ snapshot'.marketTs = marketTs
        /\ snapshot'.klines = [t \in Types |-> TwoWindows(Current(now)[t], t)]
    BY <1>5
  <2>2. \A t \in Types : snapshot'.klines[t] =
          TwoWindows(getCurrentKline(klines[t], now, t), t)
    BY <2>1, CurrentAt
  <2>3. \A t \in Types : cache'[t] = {}
    BY <1>5 DEF NoCache
  <2>4. QED
    BY <1>2, <1>3, <1>4, <1>5, <2>1, <2>2, <2>3
<1>6. CASE RedisFails /\ cache' = Touched(now)
  <2>1. \A t \in Types : cache'[t] = cache[t] \cup MissingWindows(klines[t], now, t)
    BY <1>6, CurrentAt
  <2>2. QED
    BY <1>3, <1>4, <1>6, <2>1 DEF RedisFails
<1>7. QED
  BY <1>5, <1>6 DEF Snapshot

LEMMA RestartIs ==
  ASSUME Restart
  PROVE  /\ ~up /\ up' = TRUE /\ marketTs' = now /\ detail' = DayCount(market')
         /\ \A t \in Types : cache'[t] = {}
         /\ snapshot = NoSnapshot =>
              /\ max' = 0 /\ spTime' = now /\ market' = Fresh
              /\ \A t \in Types : klines'[t] = <<>>
         /\ snapshot # NoSnapshot =>
              /\ max' = snapshot.max /\ spTime' = snapshot.at
              /\ market' = Rolled(snapshot.market, snapshot.marketTs, now)
              /\ klines' = snapshot.klines
         /\ UNCHANGED <<now, results, snapshot, redis, redisDown, crashes, failures>>
BY DEF Restart, NoCache

-----------------------------------------------------------------------------
(* Types: with those of TypeOK, how far the counters are apart, and that   *)
(* the klines of a period are finitely many.                               *)

ClocksTyped ==
  /\ now \in 0..MaxTime /\ crashes \in 0..MaxCrashes /\ failures \in 0..MaxFailures
  /\ up \in BOOLEAN /\ redisDown \in BOOLEAN
  /\ results \in Seq(ResultSet) /\ Until(results, Len(results), now)
  /\ max \in 0..Len(results) /\ redis.max \in 0..Len(results)

KlinesTyped ==
  \A t \in Types : /\ IsKlines(klines[t]) /\ IsKlines(redis.klines[t])
                   /\ cache[t] \subseteq Starts[t]

MarketTyped ==
  /\ IsDayOf(market) /\ detail \in Nat /\ marketTs \in 0..now /\ spTime \in 0..now

SnapshotTyped ==
  /\ snapshot.at \in 0..now
  /\ snapshot # NoSnapshot =>
       /\ snapshot.max \in 0..redis.max /\ IsDayOf(snapshot.market)
       /\ snapshot.marketTs \in 0..snapshot.at
       /\ \A t \in Types : IsKlines(snapshot.klines[t])

TypeInv == ClocksTyped /\ KlinesTyped /\ MarketTyped /\ SnapshotTyped

LEMMA Bounds ==
  /\ MaxTime \in Nat /\ MaxResults \in Nat /\ MaxLag \in Nat /\ MaxCrashes \in Nat
  /\ MaxFailures \in Nat /\ Keep \in Nat /\ Keep > 0
  /\ \A t \in Types : Step[t] \in Nat /\ Step[t] > 0
BY QuotesAssumption

LEMMA TypeInit ==
  Init => TypeInv
<1> SUFFICES ASSUME Init PROVE TypeInv
  OBVIOUS
<1>1. results \in Seq(ResultSet) /\ Len(results) = 0
  BY EmptySeq DEF Init
<1>2. ClocksTyped
  <2>1. /\ now = 0 /\ crashes = 0 /\ failures = 0 /\ up = TRUE /\ redisDown = FALSE
        /\ max = 0 /\ redis.max = 0
    BY DEF Init
  <2>2. Until(results, Len(results), now)
    BY <1>1 DEF Until
  <2>3. now \in 0..MaxTime /\ crashes \in 0..MaxCrashes /\ failures \in 0..MaxFailures
    BY <2>1, Bounds
  <2>4. max \in 0..Len(results) /\ redis.max \in 0..Len(results)
    BY <1>1, <2>1
  <2>5. QED
    BY <1>1, <2>1, <2>2, <2>3, <2>4 DEF ClocksTyped
<1>3. KlinesTyped
  <2>1. \A t \in Types : klines[t] = <<>> /\ redis.klines[t] = <<>> /\ cache[t] = {}
    BY DEF Init
  <2>2. QED
    BY <2>1, NoKlines DEF KlinesTyped
<1>4. IsDayOf(Fresh)
  <2>1. Fresh \in [1..Day -> Bars]
    BY FlatIsABar DEF Fresh
  <2>2. QED
    BY <2>1, DayOfBars
<1>5. MarketTyped
  BY <1>4 DEF Init, MarketTyped
<1>6. SnapshotTyped
  BY DEF Init, SnapshotTyped, NoSnapshot
<1>7. QED
  BY <1>2, <1>3, <1>5, <1>6 DEF TypeInv

LEMMA Counters ==
  ASSUME TypeInv
  PROVE  /\ results \in Seq(ResultSet) /\ Len(results) \in Nat
         /\ max \in Nat /\ max <= Len(results)
         /\ redis.max \in Nat /\ redis.max <= Len(results)
<1>1. /\ results \in Seq(ResultSet)
      /\ max \in 0..Len(results) /\ redis.max \in 0..Len(results)
  BY DEF TypeInv, ClocksTyped
<1>2. Len(results) \in Nat
  BY <1>1, LenProperties
<1>3. QED
  BY <1>1, <1>2

LEMMA Moments ==
  ASSUME TypeInv
  PROVE  /\ now \in Nat /\ now <= MaxTime
         /\ crashes \in Nat /\ failures \in Nat /\ failures <= MaxFailures
         /\ marketTs \in Nat /\ marketTs <= now /\ spTime \in Nat /\ spTime <= now
         /\ snapshot.at \in Nat /\ snapshot.at <= now
<1>1. now \in 0..MaxTime /\ crashes \in 0..MaxCrashes /\ failures \in 0..MaxFailures
  BY DEF TypeInv, ClocksTyped
<1>2. marketTs \in 0..now /\ spTime \in 0..now /\ snapshot.at \in 0..now
  BY DEF TypeInv, MarketTyped, SnapshotTyped
<1>3. QED
  BY <1>1, <1>2, Bounds

LEMMA EachResult ==
  ASSUME TypeInv, NEW i \in 1..Len(results)
  PROVE  /\ results[i] \in ResultSet /\ results[i].ts \in Nat /\ results[i].ts <= now
         /\ results[i].prices \in Fills
<1>1. results \in Seq(ResultSet) /\ Until(results, Len(results), now)
  BY DEF TypeInv, ClocksTyped
<1>2. QED
  BY <1>1, ResultAt DEF Until

LEMMA NextResult ==
  ASSUME TypeInv, max < Len(results)
  PROVE  Result1 \in ResultSet /\ Result1.ts \in Nat /\ Result1.ts <= now /\ max + 1 \in 1..Len(results)
<1>1. max + 1 \in 1..Len(results)
  BY Counters
<1>2. QED
  BY <1>1, EachResult DEF Result1

(* What Redis holds after it was written.                                  *)
LEMMA WrittenTyped ==
  ASSUME TypeInv, NEW k, NEW c, NEW new, IsWritten(new, k, c),
         \A t \in Types : IsKlines(k[t])
  PROVE  /\ \A t \in Types : IsKlines(new.klines[t])
         /\ new.max \in 0..Len(results) /\ redis.max <= new.max /\ max <= new.max
<1>1. \A t \in Types : IsKlines(redis.klines[t])
  BY DEF TypeInv, KlinesTyped
<1>2. max \in 0..Len(results) /\ redis.max \in 0..Len(results)
  BY DEF TypeInv, ClocksTyped
<1>3. CASE Ahead /\ new = redis
  <2>1. max \in Nat /\ redis.max \in Nat /\ redis.max > max
    BY <1>3, Counters DEF Ahead
  <2>2. QED
    BY <1>1, <1>2, <1>3, <2>1
<1>4. CASE ~(Ahead /\ new = redis)
  <2>1. /\ new.max = max /\ \A t \in Types : c[t] \subseteq DOMAIN k[t]
        /\ \A t \in Types :
             new.klines[t] = [w \in DOMAIN redis.klines[t] \cup c[t] |->
                                IF w \in c[t] THEN k[t][w] ELSE redis.klines[t][w]]
    BY <1>4 DEF IsWritten
  <2>2. ASSUME NEW t \in Types PROVE IsKlines(new.klines[t])
    <3> DEFINE old == redis.klines[t]
               D == DOMAIN old \cup c[t]
               f == new.klines[t]
               kt == k[t]
    <3>1. f = [w \in D |-> IF w \in c[t] THEN kt[w] ELSE old[w]]
      BY <2>1
    <3>2. c[t] \subseteq DOMAIN kt /\ IsKlines(old) /\ IsKlines(kt)
      BY <1>1, <2>1
    <3> HIDE DEF f, old, kt
    <3>3. DOMAIN f = D /\ f = [w \in DOMAIN f |-> f[w]]
      BY <3>1
    <3>4. \A w \in D : f[w] \in Bars
      BY <3>1, <3>2 DEF IsKlines
    <3>5. IsFiniteSet(c[t]) /\ c[t] \in SUBSET Int
      BY <3>2, FS_Subset DEF IsKlines
    <3>6. IsFiniteSet(D) /\ D \in SUBSET Int
      BY <3>2, <3>5, FS_Union DEF IsKlines
    <3> HIDE DEF D
    <3>7. IsKlines(f)
      BY <3>3, <3>4, <3>6 DEF IsKlines
    <3>8. QED
      BY <3>7 DEF f
  <2>3. redis.max <= max
    BY <1>4, Counters DEF Ahead, IsWritten
  <2>4. max <= max
    BY Counters
  <2>5. QED
    BY <1>2, <2>1, <2>2, <2>3, <2>4
<1>5. QED
  BY <1>3, <1>4 DEF IsWritten

(* Current, in the state of a step.                                        *)
LEMMA CurrentTyped ==
  ASSUME TypeInv, NEW t \in Types
  PROVE  /\ IsKlines(getCurrentKline(klines[t], now, t))
         /\ cache[t] \cup MissingWindows(klines[t], now, t) \subseteq Starts[t]
<1>1. IsKlines(klines[t]) /\ cache[t] \subseteq Starts[t] /\ now \in Nat
  BY Moments DEF TypeInv, KlinesTyped
<1>2. IsKlines(getCurrentKline(klines[t], now, t))
  BY <1>1, CurrentIs
<1>3. \A w \in MissingWindows(klines[t], now, t) : w \in Starts[t]
  BY <1>1, MissingAre
<1>4. QED
  BY <1>1, <1>2, <1>3

(* A new result.                                                           *)
LEMMA ResultIs ==
  ASSUME TypeInv, Result
  PROVE  \E r \in ResultSet :
           /\ results' = Append(results, r) /\ r.ts <= now /\ r.ts >= now - MaxLag
           /\ results' \in Seq(ResultSet) /\ Len(results') = Len(results) + 1
           /\ \A i \in 1..Len(results) : results'[i] = results[i]
           /\ results'[Len(results) + 1] = r
<1>1. PICK ts \in (now - MaxLag)..now, ps \in Fills :
         ts >= 0 /\ results' = Append(results, [ts |-> ts, prices |-> ps])
  BY DEF Result
<1> DEFINE r == [ts |-> ts, prices |-> ps]
<1>2. ts \in Nat /\ ts <= now /\ ts >= now - MaxLag
  BY <1>1, Moments, Bounds
<1>3. r \in ResultSet /\ r.ts = ts
  BY <1>2 DEF ResultSet
<1>4. results \in Seq(ResultSet)
  BY Counters
<1> HIDE DEF r
<1>5. /\ Append(results, r) \in Seq(ResultSet) /\ Len(Append(results, r)) = Len(results) + 1
      /\ \A i \in 1..Len(results) : Append(results, r)[i] = results[i]
      /\ Append(results, r)[Len(results) + 1] = r
  BY <1>3, <1>4, AppendProperties
<1>6. QED
  BY <1>1, <1>2, <1>3, <1>5 DEF r

LEMMA TypeStep ==
  TypeInv /\ [Next]_vars => TypeInv'
<1> SUFFICES ASSUME TypeInv, [Next]_vars PROVE TypeInv'
  OBVIOUS
<1>1. ClocksTyped /\ KlinesTyped /\ MarketTyped /\ SnapshotTyped
  BY DEF TypeInv
<1>2. CASE Clock
  <2>1. /\ now' = now + 1 /\ now < MaxTime /\ redisDown' = FALSE
        /\ UNCHANGED <<results, snapshot, redis, up, crashes, failures>>
        /\ UNCHANGED <<max, klines, cache, market, marketTs, detail, spTime>>
    BY <1>2 DEF Clock, memory
  <2>2. now' \in 0..MaxTime /\ now \in Nat
    BY <2>1, Moments, Bounds
  <2>3. Until(results, Len(results), now + 1)
    BY <2>2, EachResult DEF Until
  <2>4. ClocksTyped'
    BY <1>1, <2>1, <2>2, <2>3 DEF ClocksTyped
  <2>5. KlinesTyped'
    BY <1>1, <2>1 DEF KlinesTyped
  <2>6. MarketTyped'
    BY <1>1, <2>1, <2>2 DEF MarketTyped
  <2>7. SnapshotTyped'
    BY <1>1, <2>1, <2>2 DEF SnapshotTyped
  <2>8. QED
    BY <2>4, <2>5, <2>6, <2>7 DEF TypeInv
<1>3. CASE Result
  <2>1. PICK r \in ResultSet :
          /\ results' = Append(results, r) /\ r.ts <= now
          /\ results' \in Seq(ResultSet) /\ Len(results') = Len(results) + 1
          /\ \A i \in 1..Len(results) : results'[i] = results[i]
          /\ results'[Len(results) + 1] = r
    BY <1>3, ResultIs
  <2>2. /\ UNCHANGED <<now, snapshot, redis, redisDown, up, crashes, failures>>
        /\ UNCHANGED <<max, klines, cache, market, marketTs, detail, spTime>>
    BY <1>3 DEF Result, memory
  <2>3. Until(results', Len(results'), now)
    <3>1. ASSUME NEW i \in 1..Len(results') PROVE results'[i].ts <= now
      <4>1. i \in 1..Len(results) \/ i = Len(results) + 1
        BY <2>1, Counters
      <4>2. QED
        BY <2>1, <4>1, EachResult
    <3>2. QED
      BY <3>1 DEF Until
  <2>4. max \in 0..Len(results') /\ redis.max \in 0..Len(results')
    BY <2>1, Counters
  <2>5. ClocksTyped'
    BY <1>1, <2>1, <2>2, <2>3, <2>4 DEF ClocksTyped
  <2>6. KlinesTyped' /\ MarketTyped' /\ SnapshotTyped'
    BY <1>1, <2>2 DEF KlinesTyped, MarketTyped, SnapshotTyped
  <2>7. QED
    BY <2>5, <2>6 DEF TypeInv
<1>4. CASE Apply
  <2>1. /\ max < Len(results) /\ max' = max + 1
        /\ \A t \in Types :
              /\ klines'[t] = updateKline(getCurrentKline(klines[t], now, t), Result1, now, t)
              /\ cache'[t] = (cache[t] \cup MissingWindows(klines[t], now, t))
                               \cup UpdatedWindows(Result1, now, t)
        /\ market' = UpdatedMarket(Rolled(market, marketTs, now), Result1, now)
        /\ marketTs' = now /\ detail' = UpdatedDetail(BuiltDetail, Result1, now)
        /\ UNCHANGED <<now, results, spTime, snapshot, redis, redisDown, up, crashes, failures>>
    BY <1>4, ApplyIs
  <2>2. Result1 \in ResultSet /\ Result1.ts \in Nat /\ Result1.ts <= now /\ now \in Nat
    BY <2>1, NextResult, Moments
  <2>3. max + 1 \in 0..Len(results)
    BY <2>1, Counters
  <2>4. ClocksTyped'
    BY <1>1, <2>1, <2>3 DEF ClocksTyped
  <2>5. ASSUME NEW t \in Types PROVE IsKlines(klines'[t]) /\ cache'[t] \subseteq Starts[t]
    <3>1. /\ IsKlines(getCurrentKline(klines[t], now, t))
          /\ cache[t] \cup MissingWindows(klines[t], now, t) \subseteq Starts[t]
      BY CurrentTyped
    <3>2. IsKlines(klines'[t])
      <4> DEFINE g == getCurrentKline(klines[t], now, t)
      <4>1. IsKlines(g) /\ klines'[t] = updateKline(g, Result1, now, t)
        BY <2>1, <3>1
      <4> HIDE DEF g
      <4>2. IsKlines(updateKline(g, Result1, now, t))
        BY <2>2, <4>1, UpdateIs
      <4>3. QED
        BY <4>1, <4>2
    <3>3. \A w \in UpdatedWindows(Result1, now, t) : w \in Starts[t]
      BY <2>2, UpdatedAre
    <3>4. QED
      BY <2>1, <3>1, <3>2, <3>3
  <2>6. KlinesTyped'
    BY <1>1, <2>1, <2>5 DEF KlinesTyped
  <2>7. IsDayOf(Rolled(market, marketTs, now))
    BY <1>1, Moments, RolledIs DEF MarketTyped
  <2>8. IsDayOf(market')
    BY <2>1, <2>2, <2>7, UpdatedMarketIs
  <2>9. detail' \in Nat
    <3>1. BuiltDetail \in Nat
      BY <1>1, <2>7, DayCountIs DEF BuiltDetail, BuiltMarket, MarketTyped
    <3>2. Len(Result1.prices) \in Nat
      BY <2>2, FillsAreSeqs DEF ResultSet
    <3>3. QED
      BY <2>1, <3>1, <3>2 DEF UpdatedDetail
  <2>10. MarketTyped'
    BY <1>1, <2>1, <2>2, <2>8, <2>9 DEF MarketTyped
  <2>11. SnapshotTyped'
    BY <1>1, <2>1 DEF SnapshotTyped
  <2>12. QED
    BY <2>4, <2>6, <2>10, <2>11 DEF TypeInv
<1>5. CASE CheckKlines
  <2>1. /\ \A t \in Types :
             /\ klines'[t] = getCurrentKline(klines[t], now, t)
             /\ cache'[t] = cache[t] \cup MissingWindows(klines[t], now, t)
        /\ UNCHANGED <<now, results, max, market, marketTs, detail, spTime, snapshot,
                       redis, redisDown, up, crashes, failures>>
    BY <1>5, CheckKlinesIs
  <2>2. KlinesTyped'
    BY <1>1, <2>1, CurrentTyped DEF KlinesTyped
  <2>3. ClocksTyped' /\ MarketTyped' /\ SnapshotTyped'
    BY <1>1, <2>1 DEF ClocksTyped, MarketTyped, SnapshotTyped
  <2>4. QED
    BY <2>2, <2>3 DEF TypeInv
<1>6. CASE BuildMarket
  <2>1. /\ market' = Rolled(market, marketTs, now) /\ marketTs' = now /\ detail' = BuiltDetail
        /\ UNCHANGED <<now, results, max, klines, cache, spTime, snapshot, redis,
                       redisDown, up, crashes, failures>>
    BY <1>6 DEF BuildMarket, BuiltMarket
  <2>2. IsDayOf(Rolled(market, marketTs, now))
    BY <1>1, Moments, RolledIs DEF MarketTyped
  <2>3. BuiltDetail \in Nat
    BY <1>1, <2>2, DayCountIs DEF BuiltDetail, BuiltMarket, MarketTyped
  <2>4. MarketTyped'
    BY <1>1, <2>1, <2>2, <2>3, Moments DEF MarketTyped
  <2>5. ClocksTyped' /\ KlinesTyped' /\ SnapshotTyped'
    BY <1>1, <2>1 DEF ClocksTyped, KlinesTyped, SnapshotTyped
  <2>6. QED
    BY <2>4, <2>5 DEF TypeInv
<1>7. CASE Clear
  <2>1. /\ \A t \in Types : klines'[t] =
             Restrict(klines[t], DOMAIN klines[t] \ Released(klines[t], t))
        /\ UNCHANGED <<now, results, max, cache, market, marketTs, detail, spTime,
                       snapshot, redis, redisDown, up, crashes, failures>>
    BY <1>7, ClearIs
  <2>2. ASSUME NEW t \in Types PROVE IsKlines(klines'[t])
    <3> DEFINE k == klines[t]
               D == DOMAIN k \ Released(k, t)
    <3>1. IsKlines(k) /\ D \subseteq DOMAIN k /\ klines'[t] = Restrict(k, D)
      BY <1>1, <2>1 DEF KlinesTyped
    <3> HIDE DEF k, D
    <3>2. QED
      BY <3>1, RestrictedIs
  <2>3. KlinesTyped'
    BY <1>1, <2>1, <2>2 DEF KlinesTyped
  <2>4. ClocksTyped' /\ MarketTyped' /\ SnapshotTyped'
    BY <1>1, <2>1 DEF ClocksTyped, MarketTyped, SnapshotTyped
  <2>5. QED
    BY <2>3, <2>4 DEF TypeInv
<1>8. CASE Save
  <2>1. /\ \/ /\ IsWritten(redis', klines, cache) /\ \A t \in Types : cache'[t] = {}
              /\ UNCHANGED <<redisDown, failures>>
           \/ /\ failures < MaxFailures /\ failures' = failures + 1 /\ redisDown' = TRUE
              /\ UNCHANGED <<redis, cache>>
        /\ UNCHANGED <<now, results, max, klines, market, marketTs, detail, spTime,
                        snapshot, up, crashes>>
    BY <1>8, SaveIs
  <2>2. failures' \in 0..MaxFailures /\ redisDown' \in BOOLEAN
    <3>1. failures' = failures \/ (failures < MaxFailures /\ failures' = failures + 1)
      BY <2>1
    <3>2. failures' \in 0..MaxFailures
      BY <3>1, Moments, Bounds
    <3>3. redisDown' = redisDown \/ redisDown' = TRUE
      BY <2>1
    <3>4. redisDown' \in BOOLEAN
      BY <1>1, <3>3 DEF ClocksTyped
    <3>5. QED
      BY <3>2, <3>4
  <2>3. /\ \A t \in Types : IsKlines(redis'.klines[t]) /\ cache'[t] \subseteq Starts[t]
        /\ redis'.max \in 0..Len(results) /\ redis.max <= redis'.max
    <3>1. CASE IsWritten(redis', klines, cache) /\ \A t \in Types : cache'[t] = {}
      <4>1. \A t \in Types : IsKlines(klines[t])
        BY <1>1 DEF KlinesTyped
      <4>2. QED
        BY <3>1, <4>1, WrittenTyped
    <3>2. CASE UNCHANGED <<redis, cache>>
      BY <1>1, <3>2, Counters DEF KlinesTyped, ClocksTyped
    <3>3. QED
      BY <2>1, <3>1, <3>2
  <2>4. ClocksTyped'
    BY <1>1, <2>1, <2>2, <2>3 DEF ClocksTyped
  <2>5. KlinesTyped' /\ MarketTyped'
    BY <1>1, <2>1, <2>3 DEF KlinesTyped, MarketTyped
  <2>6. \A x \in 0..redis.max : x \in 0..redis'.max
    BY <2>3, Counters
  <2>7. SnapshotTyped'
    BY <1>1, <2>1, <2>6 DEF SnapshotTyped
  <2>8. QED
    BY <2>4, <2>5, <2>7 DEF TypeInv
<1>9. CASE Snapshot
  <2>1. /\ \A t \in Types : klines'[t] = getCurrentKline(klines[t], now, t)
        /\ \/ /\ IsWritten(redis', Current(now), Touched(now))
              /\ \A t \in Types : cache'[t] = {}
              /\ spTime' = now
              /\ snapshot'.at = now /\ snapshot'.max = max
              /\ snapshot'.market = market /\ snapshot'.marketTs = marketTs
              /\ \A t \in Types : snapshot'.klines[t] =
                   TwoWindows(getCurrentKline(klines[t], now, t), t)
              /\ UNCHANGED <<redisDown, failures>>
           \/ /\ failures < MaxFailures /\ failures' = failures + 1 /\ redisDown' = TRUE
              /\ \A t \in Types :
                   cache'[t] = cache[t] \cup MissingWindows(klines[t], now, t)
              /\ UNCHANGED <<redis, snapshot, spTime>>
        /\ UNCHANGED <<now, results, max, market, marketTs, detail, up, crashes>>
    BY <1>9, SnapshotIs
  <2>2. failures' \in 0..MaxFailures /\ redisDown' \in BOOLEAN
    <3>1. failures' = failures \/ (failures < MaxFailures /\ failures' = failures + 1)
      BY <2>1
    <3>2. failures' \in 0..MaxFailures
      BY <3>1, Moments, Bounds
    <3>3. redisDown' = redisDown \/ redisDown' = TRUE
      BY <2>1
    <3>4. redisDown' \in BOOLEAN
      BY <1>1, <3>3 DEF ClocksTyped
    <3>5. QED
      BY <3>2, <3>4
  <2>3. \A t \in Types : IsKlines(Current(now)[t]) /\ IsKlines(klines'[t])
    BY <2>1, CurrentAt, CurrentTyped
  <2>4. CASE /\ IsWritten(redis', Current(now), Touched(now))
             /\ \A t \in Types : cache'[t] = {}
             /\ spTime' = now
             /\ snapshot'.at = now /\ snapshot'.max = max
             /\ snapshot'.market = market /\ snapshot'.marketTs = marketTs
             /\ \A t \in Types : snapshot'.klines[t] =
                  TwoWindows(getCurrentKline(klines[t], now, t), t)
    <3>1. /\ \A t \in Types : IsKlines(redis'.klines[t])
          /\ redis'.max \in 0..Len(results) /\ max <= redis'.max
      BY <2>3, <2>4, WrittenTyped
    <3>2. ClocksTyped' /\ KlinesTyped'
      BY <1>1, <2>1, <2>2, <2>3, <2>4, <3>1 DEF ClocksTyped, KlinesTyped
    <3>3. MarketTyped'
      BY <1>1, <2>1, <2>4, Moments DEF MarketTyped
    <3>4. ASSUME NEW t \in Types PROVE IsKlines(snapshot'.klines[t])
      <4> DEFINE g == getCurrentKline(klines[t], now, t)
      <4>1. IsKlines(g) /\ snapshot'.klines[t] = TwoWindows(g, t) /\ now \in Nat
        BY <2>4, CurrentTyped, Moments
      <4> HIDE DEF g
      <4>2. IsKlines(TwoWindows(g, t))
        BY <4>1, TwoWindowsAre
      <4>3. QED
        BY <4>1, <4>2
    <3>5. /\ snapshot'.at \in 0..now /\ snapshot'.max \in 0..redis'.max
          /\ snapshot'.marketTs \in 0..snapshot'.at /\ IsDayOf(snapshot'.market)
      BY <1>1, <2>4, <3>1, Counters, Moments DEF MarketTyped
    <3>6. SnapshotTyped'
      BY <2>1, <3>4, <3>5 DEF SnapshotTyped
    <3>7. QED
      BY <3>2, <3>3, <3>6 DEF TypeInv
  <2>5. CASE /\ \A t \in Types :
                  cache'[t] = cache[t] \cup MissingWindows(klines[t], now, t)
             /\ UNCHANGED <<redis, snapshot, spTime>>
    <3>1. KlinesTyped'
      BY <1>1, <2>3, <2>5, CurrentTyped DEF KlinesTyped
    <3>2. ClocksTyped' /\ MarketTyped' /\ SnapshotTyped'
      BY <1>1, <2>1, <2>2, <2>5 DEF ClocksTyped, MarketTyped, SnapshotTyped
    <3>3. QED
      BY <3>1, <3>2 DEF TypeInv
  <2>6. QED
    BY <2>1, <2>4, <2>5
<1>10. CASE Crash
  <2>1. /\ up' = FALSE /\ crashes < MaxCrashes /\ crashes' = crashes + 1
        /\ UNCHANGED <<now, results, snapshot, redis, redisDown, failures>>
        /\ UNCHANGED <<max, klines, cache, market, marketTs, detail, spTime>>
    BY <1>10 DEF Crash, memory
  <2>2. crashes' \in 0..MaxCrashes
    BY <1>1, <2>1, Bounds DEF ClocksTyped
  <2>3. ClocksTyped'
    BY <1>1, <2>1, <2>2 DEF ClocksTyped
  <2>4. KlinesTyped' /\ MarketTyped' /\ SnapshotTyped'
    BY <1>1, <2>1 DEF KlinesTyped, MarketTyped, SnapshotTyped
  <2>5. QED
    BY <2>3, <2>4 DEF TypeInv
<1>11. CASE Restart
  <2>1. /\ up' = TRUE /\ marketTs' = now /\ detail' = DayCount(market')
        /\ \A t \in Types : cache'[t] = {}
        /\ snapshot = NoSnapshot =>
             /\ max' = 0 /\ spTime' = now /\ market' = Fresh
             /\ \A t \in Types : klines'[t] = <<>>
        /\ snapshot # NoSnapshot =>
             /\ max' = snapshot.max /\ spTime' = snapshot.at
             /\ market' = Rolled(snapshot.market, snapshot.marketTs, now)
             /\ klines' = snapshot.klines
        /\ UNCHANGED <<now, results, snapshot, redis, redisDown, crashes, failures>>
    BY <1>11, RestartIs
  <2>2. /\ max' \in 0..Len(results) /\ spTime' \in 0..now /\ IsDayOf(market')
        /\ \A t \in Types : IsKlines(klines'[t])
    <3>1. CASE snapshot = NoSnapshot
      <4>1. Fresh \in [1..Day -> Bars]
        BY FlatIsABar DEF Fresh
      <4>2. IsDayOf(Fresh)
        BY <4>1, DayOfBars
      <4>3. 0 \in 0..Len(results) /\ now \in 0..now
        BY Counters, Moments
      <4>4. QED
        BY <2>1, <3>1, <4>2, <4>3, NoKlines
    <3>2. CASE snapshot # NoSnapshot
      <4>1. /\ snapshot.max \in 0..redis.max /\ IsDayOf(snapshot.market)
            /\ snapshot.marketTs \in 0..snapshot.at
            /\ \A t \in Types : IsKlines(snapshot.klines[t])
        BY <1>1, <3>2 DEF SnapshotTyped
      <4>2. snapshot.max \in 0..Len(results) /\ snapshot.at \in 0..now
        <5>1. snapshot.at \in 0..now
          BY <1>1 DEF SnapshotTyped
        <5>2. redis.max \in 0..Len(results) /\ Len(results) \in Nat
          BY Counters
        <5>3. QED
          BY <4>1, <5>1, <5>2
      <4>3. /\ snapshot.marketTs \in Nat /\ snapshot.marketTs <= now /\ now \in Nat
        BY <4>1, Moments
      <4>4. IsDayOf(Rolled(snapshot.market, snapshot.marketTs, now))
        BY <4>1, <4>3, RolledIs
      <4>5. QED
        BY <2>1, <3>2, <4>1, <4>2, <4>4
    <3>3. QED
      BY <3>1, <3>2
  <2>3. ClocksTyped'
    BY <1>1, <2>1, <2>2 DEF ClocksTyped
  <2>4. KlinesTyped'
    BY <1>1, <2>1, <2>2 DEF KlinesTyped
  <2>5. detail' \in Nat
    BY <2>1, <2>2, DayCountIs
  <2>6. MarketTyped'
    BY <2>1, <2>2, <2>5, Moments DEF MarketTyped
  <2>7. SnapshotTyped'
    BY <1>1, <2>1 DEF SnapshotTyped
  <2>8. QED
    BY <2>3, <2>4, <2>6, <2>7 DEF TypeInv
<1>12. CASE UNCHANGED vars
  BY <1>1, <1>12 DEF vars, memory, TypeInv, ClocksTyped, KlinesTyped, MarketTyped, SnapshotTyped
<1>13. QED
  BY <1>2, <1>3, <1>4, <1>5, <1>6, <1>7, <1>8, <1>9, <1>10, <1>11, <1>12 DEF Next

LEMMA TypeHolds ==
  Spec => []TypeInv
<1>1. QED
  BY TypeInit, TypeStep, PTL DEF Spec

(* Every variable keeps its type.                                          *)
THEOREM TypesHold == Spec => []TypeOK
<1>1. TypeInv => TypeOK
  <2> SUFFICES ASSUME TypeInv PROVE TypeOK
    OBVIOUS
  <2>1. ClocksTyped /\ KlinesTyped /\ MarketTyped
    BY DEF TypeInv
  <2>2. /\ now \in 0..MaxTime /\ max \in 0..Len(results)
        /\ crashes \in 0..MaxCrashes /\ failures \in 0..MaxFailures
    BY <2>1, Counters DEF ClocksTyped
  <2>3. ASSUME NEW k, IsKlines(k) PROVE Range(k) \subseteq Bars
    BY <2>3 DEF IsKlines, Range
  <2>4. \A t \in Types : /\ Range(klines[t]) \subseteq Bars
                         /\ Range(redis.klines[t]) \subseteq Bars
                         /\ cache[t] \subseteq Starts[t]
    BY <2>1, <2>3 DEF KlinesTyped
  <2>5. market \in Seq(Bars) /\ Len(market) = Day
    BY <2>1 DEF MarketTyped, IsDayOf
  <2>6. detail \in Nat /\ {marketTs, spTime} \subseteq 0..now
    BY <2>1 DEF MarketTyped
  <2>7. {up, redisDown} \subseteq BOOLEAN
    BY <2>1 DEF ClocksTyped
  <2>8. QED
    BY <2>2, <2>4, <2>5, <2>6, <2>7 DEF TypeOK
<1>2. QED
  BY <1>1, TypeHolds, PTL

-----------------------------------------------------------------------------
(* The market and the count of the day, in memory and in the snapshot.     *)

DayOf(m, rs, n, ts) == CountsMinutes(m, rs, n, ts) /\ Until(rs, n, ts)

MemoryDay ==
  up => /\ DayOf(market, results, max, marketTs)
        /\ detail = CountIn(results, max, (marketTs - Day + 1)..marketTs)

SnapshotDay ==
  snapshot # NoSnapshot =>
    DayOf(snapshot.market, results, snapshot.max, snapshot.marketTs)

DayInv == MemoryDay /\ SnapshotDay

LEMMA FreshDay ==
  ASSUME NEW rs, NEW ts
  PROVE  IsDayOf(Fresh) /\ DayOf(Fresh, rs, 0, ts)
<1>1. Fresh \in [1..Day -> Bars] /\ \A i \in 1..Day : Fresh[i].count = 0
  BY FlatIsABar DEF Fresh
<1>2. IsDayOf(Fresh)
  BY <1>1, DayOfBars
<1>3. \A i \in 1..Day : Fresh[i].count = CountIn(rs, 0, {ts - i + 1})
  BY <1>1, CountNone
<1>4. QED
  BY <1>2, <1>3 DEF DayOf, CountsMinutes, Until

LEMMA RolledDay ==
  ASSUME NEW m, IsDayOf(m), NEW rs \in Seq(ResultSet), NEW n \in 0..Len(rs),
         NEW from \in Nat, NEW ts \in Nat, from <= ts, DayOf(m, rs, n, from)
  PROVE  /\ IsDayOf(Rolled(m, from, ts)) /\ DayOf(Rolled(m, from, ts), rs, n, ts)
         /\ DayCount(Rolled(m, from, ts)) = CountIn(rs, n, (ts - Day + 1)..ts)
<1>1. IsDayOf(Rolled(m, from, ts)) /\ CountsMinutes(Rolled(m, from, ts), rs, n, ts)
  BY RolledIs DEF DayOf
<1>2. Until(rs, n, ts)
  <2>1. ASSUME NEW i \in 1..n PROVE rs[i].ts <= ts
    <3>1. i \in 1..Len(rs)
      BY LenProperties
    <3>2. rs[i].ts \in Nat /\ rs[i].ts <= from
      BY <3>1, ResultAt DEF DayOf, Until
    <3>3. QED
      BY <3>2
  <2>2. QED
    BY <2>1 DEF Until
<1>3. DayCount(Rolled(m, from, ts)) = CountIn(rs, n, (ts - Day + 1)..ts)
  BY <1>1, DayCountsFills
<1>4. QED
  BY <1>1, <1>2, <1>3 DEF DayOf

LEMMA AppendedDay ==
  ASSUME NEW m, NEW rs \in Seq(ResultSet), NEW r, NEW n \in 0..Len(rs), NEW ts,
         DayOf(m, rs, n, ts), \A i \in 1..Len(rs) : Append(rs, r)[i] = rs[i]
  PROVE  DayOf(m, Append(rs, r), n, ts)
<1>1. CountsMinutes(m, Append(rs, r), n, ts)
  BY FillsAppended DEF DayOf, CountsMinutes, CountIn
<1>2. \A i \in 1..n : i \in 1..Len(rs)
  BY LenProperties
<1>3. Until(rs, n, ts)
  BY DEF DayOf
<1> DEFINE qs == Append(rs, r)
<1>4. \A i \in 1..n : qs[i] = rs[i]
  BY <1>2
<1> HIDE DEF qs
<1>5. Until(qs, n, ts)
  BY <1>3, <1>4 DEF Until
<1>6. QED
  BY <1>1, <1>5 DEF DayOf, qs

(* What Apply and BuildMarket build before they go on.                     *)
LEMMA BuiltIs ==
  ASSUME TypeInv, MemoryDay, up
  PROVE  LET m == Rolled(market, marketTs, now)
         IN  /\ IsDayOf(m) /\ DayOf(m, results, max, now)
             /\ BuiltDetail = CountIn(results, max, (now - Day + 1)..now)
<1>1. IsDayOf(market)
  BY DEF TypeInv, MarketTyped
<1>2. /\ DayOf(market, results, max, marketTs)
      /\ detail = CountIn(results, max, (marketTs - Day + 1)..marketTs)
  BY DEF MemoryDay
<1>3. results \in Seq(ResultSet) /\ max \in 0..Len(results)
  BY Counters
<1> DEFINE m == Rolled(market, marketTs, now)
<1>4. /\ IsDayOf(m) /\ DayOf(m, results, max, now)
      /\ DayCount(m) = CountIn(results, max, (now - Day + 1)..now)
  BY <1>1, <1>2, <1>3, Moments, RolledDay
<1>5. BuiltDetail = IF marketTs = now THEN detail ELSE DayCount(m)
  BY DEF BuiltDetail, BuiltMarket
<1> HIDE DEF m
<1>6. BuiltDetail = CountIn(results, max, (now - Day + 1)..now)
  BY <1>2, <1>4, <1>5
<1>7. QED
  BY <1>4, <1>6 DEF m

LEMMA DayInit ==
  Init => DayInv
<1> SUFFICES ASSUME Init PROVE DayInv
  OBVIOUS
<1>1. /\ results = <<>> /\ max = 0 /\ market = Fresh /\ detail = 0
      /\ snapshot = NoSnapshot
  BY DEF Init
<1>2. DayOf(market, results, max, marketTs)
  BY <1>1, FreshDay
<1>3. CountIn(results, max, (marketTs - Day + 1)..marketTs) = 0
  BY <1>1, CountNone
<1>4. QED
  BY <1>1, <1>2, <1>3 DEF DayInv, MemoryDay, SnapshotDay

LEMMA DayStep ==
  TypeInv /\ DayInv /\ [Next]_vars => DayInv'
<1> SUFFICES ASSUME TypeInv, DayInv, [Next]_vars PROVE DayInv'
  OBVIOUS
<1>1. MemoryDay /\ SnapshotDay
  BY DEF DayInv
<1>2. ASSUME UNCHANGED <<results, max, market, marketTs, detail, snapshot>>, up' = up \/ ~up'
      PROVE  DayInv'
  BY <1>1, <1>2 DEF DayInv, MemoryDay, SnapshotDay
<1>3. CASE Clock \/ CheckKlines \/ Clear \/ Save \/ Crash \/ UNCHANGED vars
  BY <1>2, <1>3 DEF Clock, CheckKlines, Clear, Save, Crash, vars, memory, RedisFails
<1>4. CASE Result
  <2>1. PICK r \in ResultSet :
          /\ results' = Append(results, r)
          /\ \A i \in 1..Len(results) : results'[i] = results[i]
    BY <1>4, ResultIs
  <2>2. UNCHANGED <<max, market, marketTs, detail, snapshot, up>>
    BY <1>4 DEF Result, memory
  <2>3. results \in Seq(ResultSet) /\ max \in 0..Len(results)
    BY Counters
  <2>4. snapshot # NoSnapshot => snapshot.max \in 0..Len(results)
    <3>1. snapshot # NoSnapshot => snapshot.max \in 0..redis.max
      BY DEF TypeInv, SnapshotTyped
    <3>2. QED
      BY <3>1, Counters
  <2>5. MemoryDay'
    <3>1. SUFFICES ASSUME up
                   PROVE  /\ DayOf(market, Append(results, r), max, marketTs)
                          /\ detail = CountIn(Append(results, r), max,
                                              (marketTs - Day + 1)..marketTs)
      BY <2>1, <2>2 DEF MemoryDay
    <3>2. /\ DayOf(market, results, max, marketTs)
          /\ detail = CountIn(results, max, (marketTs - Day + 1)..marketTs)
      BY <1>1, <3>1 DEF MemoryDay
    <3>3. DayOf(market, Append(results, r), max, marketTs)
      BY <2>1, <2>3, <3>2, AppendedDay
    <3>4. QED
      BY <2>3, <3>2, <3>3, FillsAppended DEF CountIn
  <2>6. SnapshotDay'
    <3>1. SUFFICES ASSUME snapshot # NoSnapshot
                   PROVE  DayOf(snapshot.market, Append(results, r), snapshot.max,
                                snapshot.marketTs)
      BY <2>1, <2>2 DEF SnapshotDay
    <3>2. DayOf(snapshot.market, results, snapshot.max, snapshot.marketTs)
      BY <1>1, <3>1 DEF SnapshotDay
    <3>3. QED
      BY <2>1, <2>3, <2>4, <3>1, <3>2, AppendedDay
  <2>7. QED
    BY <2>5, <2>6 DEF DayInv
<1>5. CASE Apply
  <2> DEFINE m == Rolled(market, marketTs, now)
  <2>1. /\ up /\ max < Len(results) /\ max' = max + 1 /\ UNCHANGED <<results, snapshot>>
        /\ market' = UpdatedMarket(m, Result1, now)
        /\ marketTs' = now /\ detail' = UpdatedDetail(BuiltDetail, Result1, now)
    BY <1>5, ApplyIs
  <2>2. /\ IsDayOf(m) /\ DayOf(m, results, max, now)
        /\ BuiltDetail = CountIn(results, max, (now - Day + 1)..now)
    BY <1>1, <2>1, BuiltIs
  <2> HIDE DEF m
  <2>3. /\ results \in Seq(ResultSet) /\ max \in Nat /\ max + 1 <= Len(results)
        /\ Result1 \in ResultSet /\ Result1.ts <= now /\ now \in Nat
        /\ results[max + 1] = Result1
    BY <2>1, Counters, NextResult, Moments DEF Result1
  <2>4. CountsMinutes(market', results, max + 1, now)
    BY <2>1, <2>2, <2>3, UpdatedMarketIs DEF DayOf
  <2>5. Until(results, max + 1, now)
    <3>1. ASSUME NEW i \in 1..(max + 1) PROVE results[i].ts <= now
      <4>1. i \in 1..Len(results)
        BY <2>3, Counters
      <4>2. QED
        BY <4>1, EachResult
    <3>2. QED
      BY <3>1 DEF Until
  <2>6. detail' = CountIn(results, max + 1, (now - Day + 1)..now)
    BY <2>1, <2>2, <2>3, UpdatedDetailIs
  <2>7. MemoryDay'
    BY <2>1, <2>4, <2>5, <2>6 DEF MemoryDay, DayOf
  <2>8. SnapshotDay'
    BY <1>1, <2>1 DEF SnapshotDay
  <2>9. QED
    BY <2>7, <2>8 DEF DayInv
<1>6. CASE BuildMarket
  <2>1. /\ up /\ market' = Rolled(market, marketTs, now) /\ marketTs' = now
        /\ detail' = BuiltDetail /\ UNCHANGED <<results, max, snapshot, up>>
    BY <1>6 DEF BuildMarket, BuiltMarket
  <2>2. MemoryDay'
    BY <1>1, <2>1, BuiltIs DEF MemoryDay
  <2>3. SnapshotDay'
    BY <1>1, <2>1 DEF SnapshotDay
  <2>4. QED
    BY <2>2, <2>3 DEF DayInv
<1>7. CASE Snapshot
  <2>1. /\ up /\ UNCHANGED <<results, max, market, marketTs, detail, up>>
        /\ \/ /\ snapshot'.max = max /\ snapshot'.market = market
              /\ snapshot'.marketTs = marketTs
           \/ UNCHANGED snapshot
    BY <1>7, SnapshotIs
  <2>2. MemoryDay'
    BY <1>1, <2>1 DEF MemoryDay
  <2>3. SnapshotDay'
    BY <1>1, <2>1 DEF MemoryDay, SnapshotDay
  <2>4. QED
    BY <2>2, <2>3 DEF DayInv
<1>8. CASE Restart
  <2>1. /\ up' = TRUE /\ marketTs' = now /\ detail' = DayCount(market')
        /\ snapshot = NoSnapshot => max' = 0 /\ market' = Fresh
        /\ snapshot # NoSnapshot =>
             /\ max' = snapshot.max
             /\ market' = Rolled(snapshot.market, snapshot.marketTs, now)
        /\ UNCHANGED <<results, snapshot>>
    BY <1>8, RestartIs
  <2>2. results \in Seq(ResultSet) /\ now \in Nat
    BY Counters, Moments
  <2>3. /\ DayOf(market', results, max', now)
        /\ detail' = CountIn(results, max', (now - Day + 1)..now)
    <3>1. CASE snapshot = NoSnapshot
      <4>1. IsDayOf(Fresh) /\ DayOf(Fresh, results, 0, now)
        BY FreshDay
      <4>2. 0 \in 0..Len(results) /\ now \in Int
        BY <2>2, LenProperties
      <4>3. DayCount(Fresh) = CountIn(results, 0, (now - Day + 1)..now)
        BY <2>2, <4>1, <4>2, DayCountsFills DEF DayOf
      <4>4. QED
        BY <2>1, <3>1, <4>1, <4>3
    <3>2. CASE snapshot # NoSnapshot
      <4>1. /\ snapshot.max \in 0..redis.max /\ IsDayOf(snapshot.market)
            /\ snapshot.marketTs \in 0..snapshot.at
        BY <3>2 DEF TypeInv, SnapshotTyped
      <4>2. snapshot.max \in 0..Len(results)
        BY <4>1, Counters
      <4>3. snapshot.marketTs \in Nat /\ snapshot.marketTs <= now
        BY <4>1, Moments
      <4>4. DayOf(snapshot.market, results, snapshot.max, snapshot.marketTs)
        BY <1>1, <3>2 DEF SnapshotDay
      <4> DEFINE m == snapshot.market
                 from == snapshot.marketTs
                 n == snapshot.max
      <4> HIDE DEF m, from, n
      <4>5. /\ DayOf(Rolled(m, from, now), results, n, now)
            /\ DayCount(Rolled(m, from, now)) = CountIn(results, n, (now - Day + 1)..now)
        BY <2>2, <4>1, <4>2, <4>3, <4>4, RolledDay DEF m, from, n
      <4>6. QED
        BY <2>1, <3>2, <4>5 DEF m, from, n
    <3>3. QED
      BY <3>1, <3>2
  <2>4. MemoryDay'
    BY <2>1, <2>3 DEF MemoryDay
  <2>5. SnapshotDay'
    BY <1>1, <2>1 DEF SnapshotDay
  <2>6. QED
    BY <2>4, <2>5 DEF DayInv
<1>9. QED
  BY <1>3, <1>4, <1>5, <1>6, <1>7, <1>8 DEF Next

LEMMA DayHolds ==
  Spec => [](TypeInv /\ DayInv)
<1>1. Init => TypeInv /\ DayInv
  BY TypeInit, DayInit
<1>2. TypeInv /\ DayInv /\ [Next]_vars => TypeInv' /\ DayInv'
  BY TypeStep, DayStep
<1>3. QED
  BY <1>1, <1>2, PTL DEF Spec

(* The ticker of the last 24 hours counts every fill of the last Day       *)
(* minutes once, for every sequence of results, whatever lag MaxLag allows *)
(* them, and across restarts from a snapshot of any age                    *)
(* (updateMarketDetail24Hour, buildMarket24Hour, the restore of a          *)
(* snapshot).                                                              *)
THEOREM DayHoldsTheFills == Spec => []DetailIsTheDay
<1>1. DayInv => DetailIsTheDay
  BY DEF DayInv, MemoryDay, DetailIsTheDay, FillsAt, CountIn
<1>2. QED
  BY <1>1, DayHolds, PTL

-----------------------------------------------------------------------------
(* The windows of a regular period.                                        *)

(* A result that is no later than a Step falls in the current window, in   *)
(* the one before or in a later one.                                       *)
LEMMA LateWindow ==
  ASSUME NEW t \in LongPeriods, NEW a \in Nat, NEW b \in Nat, a >= b - MaxLag
  PROVE  CurWindowTime(b, t) - Step[t] <= CurWindowTime(a, t)
<1> DEFINE c == CurWindowTime(b, t)
<1>1. t \in Types /\ c \in Starts[t] /\ c \in 0..b
  BY WindowIs DEF LongPeriods
<1>2. c - Step[t] \in Starts[t]
  BY <1>1 DEF LongPeriods, Regular
<1>3. c - Step[t] <= a
  BY <1>1, Bounds DEF LongPeriods
<1> HIDE DEF c
<1>4. c - Step[t] <= CurWindowTime(a, t)
  BY <1>1, <1>2, <1>3, WindowIs
<1>5. QED
  BY <1>4 DEF c

(* As many windows as minutes since the first one began.                   *)
LEMMA FewWindows ==
  ASSUME NEW t \in Types, NEW a \in Nat, NEW b \in Nat, a <= b,
         NEW S \in SUBSET Starts[t],
         \A v \in S : v >= CurWindowTime(a, t) /\ v <= b
  PROVE  IsFiniteSet(S) /\ Cardinality(S) \in Nat /\ Cardinality(S) <= 1 + b - a
<1> DEFINE c == CurWindowTime(a, t)
           L == (a + 1)..b
           B == L \cup {c}
<1>1. c \in Int /\ (\A s \in Starts[t] : s <= a => s <= c) /\ Starts[t] \in SUBSET Int
  BY WindowIs, QuotesAssumption
<1>2. S \subseteq B
  <2>1. ASSUME NEW v \in S PROVE v \in B
    <3>1. v \in Int /\ v \in Starts[t] /\ v >= c /\ v <= b
      BY <1>1
    <3>2. CASE v <= a
      <4>1. v = c
        BY <1>1, <3>1, <3>2
      <4>2. QED
        BY <4>1
    <3>3. CASE ~(v <= a)
      <4>1. v \in L
        BY <3>1, <3>3
      <4>2. QED
        BY <4>1
    <3>4. QED
      BY <3>2, <3>3
  <2>2. QED
    BY <2>1
<1>3. IsFiniteSet(L) /\ Cardinality(L) = b - a
  <2> DEFINE x == a + 1
  <2>1. x \in Int /\ b \in Int
    OBVIOUS
  <2> HIDE DEF x
  <2>2. /\ IsFiniteSet(x..b)
        /\ Cardinality(x..b) = IF x > b THEN 0 ELSE b - x + 1
    BY <2>1, FS_Interval
  <2> USE DEF x
  <2>3. (IF x > b THEN 0 ELSE b - x + 1) = b - a
    OBVIOUS
  <2>4. QED
    BY <2>2, <2>3
<1> HIDE DEF L, c
<1>4. IsFiniteSet(B) /\ Cardinality(B) <= 1 + b - a
  <2>1. /\ IsFiniteSet(B)
        /\ Cardinality(B) = IF c \in L THEN Cardinality(L) ELSE Cardinality(L) + 1
    BY <1>3, FS_AddElement
  <2>2. QED
    BY <1>3, <2>1
<1> HIDE DEF B
<1>5. IsFiniteSet(S) /\ Cardinality(S) <= Cardinality(B)
  <2> DEFINE D == S
  <2>1. D \in SUBSET B
    BY <1>2
  <2> HIDE DEF D
  <2>2. IsFiniteSet(D) /\ Cardinality(D) <= Cardinality(B)
    BY <1>4, <2>1, FS_Subset
  <2>3. QED
    BY <2>2 DEF D
<1>6. Cardinality(S) \in Nat /\ Cardinality(B) \in Nat
  BY <1>4, <1>5, FS_CardinalityType
<1>7. QED
  BY <1>4, <1>5, <1>6

(* The current window and the one before it.                               *)
LEMMA LastTwo ==
  ASSUME NEW t \in Types, Regular(t), NEW b \in Nat, NEW S \in SUBSET Starts[t],
         \A v \in S : /\ v >= CurWindowTime(b, t) - Step[t]
                      /\ v <= CurWindowTime(b, t)
  PROVE  Cardinality(S) \in Nat /\ Cardinality(S) <= 2
<1> DEFINE c == CurWindowTime(b, t)
           d == c - Step[t]
           B == {c} \cup {d}
<1>1. /\ c \in Starts[t] /\ c \in 0..b /\ d \in Int /\ Starts[t] \in SUBSET Int
      /\ \A v \in Starts[t] : ~(d < v /\ v < c)
  <2>1. c \in Starts[t] /\ c \in 0..b /\ Starts[t] \in SUBSET Int
    BY WindowIs, QuotesAssumption
  <2>2. c \in Int /\ c >= 0
    BY <2>1
  <2> HIDE DEF c
  <2>3. \A v \in Starts[t] : ~(c - Step[t] < v /\ v < c)
    BY <2>1, <2>2 DEF Regular
  <2>4. d \in Int
    BY <2>2, Bounds
  <2>5. QED
    BY <2>1, <2>3, <2>4
<1>2. S \subseteq B
  <2>1. ASSUME NEW v \in S PROVE v = c \/ v = d
    <3>1. v \in Int /\ v >= d /\ v <= c /\ ~(d < v /\ v < c)
      BY <1>1
    <3> HIDE DEF c, d
    <3>2. QED
      BY <1>1, <3>1
  <2>2. QED
    BY <2>1
<1> HIDE DEF c, d
<1>3. IsFiniteSet({c}) /\ Cardinality({c}) = 1
  BY FS_Singleton
<1>4. IsFiniteSet(B) /\ Cardinality(B) <= 2
  <2> DEFINE A == {c}
  <2> HIDE DEF A
  <2>1. /\ IsFiniteSet(A \cup {d})
        /\ Cardinality(A \cup {d}) = IF d \in A THEN Cardinality(A) ELSE Cardinality(A) + 1
    BY <1>3, FS_AddElement DEF A
  <2>2. QED
    BY <1>3, <2>1 DEF A
<1> HIDE DEF B
<1>5. IsFiniteSet(S) /\ Cardinality(S) <= Cardinality(B)
  <2> DEFINE D == S
  <2>1. D \in SUBSET B
    BY <1>2
  <2> HIDE DEF D
  <2>2. IsFiniteSet(D) /\ Cardinality(D) <= Cardinality(B)
    BY <1>4, <2>1, FS_Subset
  <2>3. QED
    BY <2>2 DEF D
<1>6. Cardinality(S) \in Nat /\ Cardinality(B) \in Nat
  BY <1>4, <1>5, FS_CardinalityType
<1>7. QED
  BY <1>4, <1>5, <1>6

-----------------------------------------------------------------------------
(* Times: what is to be counted is not late, and what a restart counts     *)
(* again was not late when the snapshot was taken; the windows in memory   *)
(* are real ones.                                                          *)

(* The last result that need not be counted any more.                      *)
DoneMax == IF up THEN max ELSE SnapMax

(* The results after the first n are of this time or of a later one.       *)
After(rs, n, ts) == \A i \in 1..Len(rs) : i > n => rs[i].ts >= ts

Realtime == After(results, DoneMax, now - MaxLag)

SnapshotIsOf == After(results, SnapMax, snapshot.at - MaxLag)

PastSnapshot == up => SnapMax <= max

(* Windows that have begun.  If those of a period differ in length, one    *)
(* that a snapshot added may be none of the period.                        *)
AreWindows(k, ts, t) ==
  /\ \A w \in DOMAIN k : w <= CurWindowTime(ts, t)
  /\ \E x \in Int : \A w \in DOMAIN k : w \in Starts[t] \/ w = x
  /\ Regular(t) => \A w \in DOMAIN k : w \in Starts[t]

MemoryWindows == up => \A t \in Types : AreWindows(klines[t], now, t)

SnapshotWindows ==
  snapshot # NoSnapshot =>
    \A t \in Types :
      DOMAIN snapshot.klines[t] = {CurWindowTime(snapshot.at, t),
                                   CurWindowTime(snapshot.at, t) - Step[t]}

TimeInv ==
  /\ Realtime /\ SnapshotIsOf
  /\ PastSnapshot /\ MemoryWindows /\ SnapshotWindows

LEMMA SnapMaxIs ==
  ASSUME TypeInv
  PROVE  SnapMax \in Nat /\ SnapMax <= redis.max /\ SnapMax <= Len(results)
<1>1. snapshot # NoSnapshot => snapshot.max \in 0..redis.max
  BY DEF TypeInv, SnapshotTyped
<1>2. QED
  BY <1>1, Counters DEF SnapMax

LEMMA TimeInit ==
  Init => TimeInv
<1> SUFFICES ASSUME Init PROVE TimeInv
  OBVIOUS
<1>1. /\ results = <<>> /\ snapshot = NoSnapshot /\ max = 0 /\ now = 0
      /\ up = TRUE /\ \A t \in Types : klines[t] = <<>>
  BY DEF Init
<1>2. snapshot.at = 0 /\ SnapMax = 0
  BY <1>1 DEF NoSnapshot, SnapMax
<1>3. Realtime /\ SnapshotIsOf
  BY <1>1, EmptySeq DEF Realtime, SnapshotIsOf, After
<1>4. PastSnapshot /\ SnapshotWindows
  BY <1>1, <1>2, Bounds DEF PastSnapshot, SnapshotWindows
<1>5. MemoryWindows
  <2>1. 0 \in Int
    OBVIOUS
  <2>2. QED
    BY <1>1, <2>1, NoKlines DEF MemoryWindows, AreWindows
<1>6. QED
  BY <1>3, <1>4, <1>5 DEF TimeInv

(* New windows of the period.                                              *)
LEMMA WindowsAdded ==
  ASSUME NEW t, NEW ts, NEW k, NEW g, NEW M, AreWindows(k, ts, t),
         DOMAIN g = DOMAIN k \cup M,
         \A w \in M : w \in Starts[t] /\ w <= CurWindowTime(ts, t)
  PROVE  AreWindows(g, ts, t)
<1>1. PICK x \in Int : \A w \in DOMAIN k : w \in Starts[t] \/ w = x
  BY DEF AreWindows
<1>2. \A w \in DOMAIN g : w \in Starts[t] \/ w = x
  BY <1>1
<1>3. \A w \in DOMAIN g : w <= CurWindowTime(ts, t)
  BY DEF AreWindows
<1>4. Regular(t) => \A w \in DOMAIN g : w \in Starts[t]
  BY DEF AreWindows
<1>5. QED
  BY <1>2, <1>3, <1>4 DEF AreWindows

(* What getCurrentKline adds, in the state of a step.                      *)
LEMMA CurrentWindows ==
  ASSUME TypeInv, TimeInv, up, NEW t \in Types
  PROVE  LET g == getCurrentKline(klines[t], now, t)
             c == CurWindowTime(now, t)
         IN  /\ DOMAIN g = DOMAIN klines[t] \cup MissingWindows(klines[t], now, t)
             /\ c \in DOMAIN g /\ AreWindows(g, now, t)
             /\ Regular(t) => \A w \in DOMAIN g : w \in Starts[t] /\ w <= c
<1>1. IsKlines(klines[t]) /\ now \in Nat
  BY Moments DEF TypeInv, KlinesTyped
<1>2. AreWindows(klines[t], now, t)
  BY DEF TimeInv, MemoryWindows
<1> DEFINE g == getCurrentKline(klines[t], now, t)
           c == CurWindowTime(now, t)
           M == MissingWindows(klines[t], now, t)
<1>3. DOMAIN g = DOMAIN klines[t] \cup M
  BY <1>1, CurrentIs
<1>4. \A w \in M : w \in Starts[t] /\ w <= c
  BY <1>1, MissingAre
<1>5. c \in DOMAIN klines[t] \cup M
  BY <1>1, <1>2, MissingAre DEF AreWindows
<1> HIDE DEF g, M
<1>6. AreWindows(g, now, t)
  BY <1>2, <1>3, <1>4, WindowsAdded
<1>7. QED
  BY <1>3, <1>5, <1>6 DEF g, M, AreWindows

(* The windows a result is added to.                                       *)
LEMMA AppliedWindows ==
  ASSUME TypeInv, TimeInv, up, max < Len(results), NEW t \in Types
  PROVE  LET g == getCurrentKline(klines[t], now, t)
             u == updateKline(g, Result1, now, t)
             U == UpdatedWindows(Result1, now, t)
         IN  /\ DOMAIN u = DOMAIN g \cup U /\ AreWindows(u, now, t)
             /\ \A w \in U : /\ w \in Starts[t] /\ w <= CurWindowTime(now, t)
                              /\ CurWindowTime(Result1.ts, t) <= w
             /\ Regular(t) =>
                  \A w \in DOMAIN u : w \in Starts[t] /\ w <= CurWindowTime(now, t)
<1> DEFINE g == getCurrentKline(klines[t], now, t)
           u == updateKline(g, Result1, now, t)
           U == UpdatedWindows(Result1, now, t)
           c == CurWindowTime(now, t)
<1>1. IsKlines(g) /\ now \in Nat
  BY CurrentTyped, Moments
<1>2. Result1 \in ResultSet /\ Result1.ts <= now
  BY NextResult
<1>3. AreWindows(g, now, t)
  BY CurrentWindows
<1>4. \A w \in U : w \in Starts[t] /\ w <= c /\ CurWindowTime(Result1.ts, t) <= w
  BY <1>1, <1>2, UpdatedAre
<1>5. DOMAIN u = DOMAIN g \cup U
  <2> HIDE DEF g
  <2>1. QED
    BY <1>1, <1>2, UpdateIs
<1> HIDE DEF u, g, U
<1>6. AreWindows(u, now, t)
  BY <1>3, <1>4, <1>5, WindowsAdded
<1>7. QED
  BY <1>4, <1>5, <1>6 DEF u, g, U, AreWindows

LEMMA TimeStep ==
  TypeInv /\ TimeInv /\ [Next]_vars => TimeInv'
<1> SUFFICES ASSUME TypeInv, TimeInv, [Next]_vars PROVE TimeInv'
  OBVIOUS
<1>1. /\ Realtime /\ SnapshotIsOf
      /\ PastSnapshot /\ MemoryWindows /\ SnapshotWindows
  BY DEF TimeInv
<1>2. ASSUME UNCHANGED <<results, snapshot>>
      PROVE  SnapshotIsOf' /\ SnapshotWindows'
  BY <1>1, <1>2 DEF SnapshotIsOf, SnapshotWindows, SnapMax
<1>3. ASSUME UNCHANGED <<now, results, snapshot, max, up>>
      PROVE  Realtime' /\ PastSnapshot'
  BY <1>1, <1>3 DEF Realtime, PastSnapshot, DoneMax, SnapMax
<1>4. CASE Clock
  <2>1. /\ now' = now + 1 /\ UNCHANGED <<results, snapshot, max, up, klines>>
        /\ InTime(DoneMax, now + 1)
    BY <1>4 DEF Clock, DoneMax, memory
  <2>2. Realtime'
    <3>1. ASSUME NEW i \in 1..Len(results), i > DoneMax
          PROVE  results[i].ts >= (now + 1) - MaxLag
      <4>1. i \in DOMAIN results
        BY Counters, LenProperties
      <4>2. (now + 1) - results[i].ts <= MaxLag
        BY <2>1, <3>1, <4>1 DEF InTime
      <4>3. results[i].ts \in Nat /\ now \in Nat /\ MaxLag \in Nat
        BY EachResult, Moments, Bounds
      <4>4. QED
        BY <4>2, <4>3
    <3>2. QED
      BY <2>1, <3>1 DEF Realtime, After, DoneMax, SnapMax
  <2>3. SnapshotIsOf' /\ SnapshotWindows' /\ PastSnapshot'
    BY <1>1, <2>1 DEF SnapshotIsOf, SnapshotWindows, PastSnapshot, SnapMax
  <2>4. MemoryWindows'
    <3>1. ASSUME NEW t \in Types, up PROVE AreWindows(klines[t], now + 1, t)
      <4>1. AreWindows(klines[t], now, t)
        BY <1>1, <3>1 DEF MemoryWindows
      <4>2. now \in Nat /\ now + 1 \in Nat /\ now <= now + 1
        BY Moments
      <4> DEFINE a == CurWindowTime(now, t)
                 next == now + 1
                 b == CurWindowTime(next, t)
      <4>3. a <= b /\ a \in 0..now /\ b \in 0..next
        <5> HIDE DEF next
        <5>1. QED
          BY <4>2, LaterWindow, WindowIs DEF next
      <4>4. \A w \in DOMAIN klines[t] : w \in Int /\ w <= a
        BY <4>1 DEF AreWindows, TypeInv, KlinesTyped, IsKlines
      <4> HIDE DEF a, b, next
      <4>5. \A w \in DOMAIN klines[t] : w <= b
        BY <4>3, <4>4
      <4>6. QED
        BY <4>1, <4>5 DEF b, next, AreWindows
    <3>2. QED
      BY <2>1, <3>1 DEF MemoryWindows
  <2>5. QED
    BY <2>2, <2>3, <2>4 DEF TimeInv
<1>5. CASE Result
  <2>1. PICK r \in ResultSet :
          /\ r.ts >= now - MaxLag /\ Len(results') = Len(results) + 1
          /\ \A i \in 1..Len(results) : results'[i] = results[i]
          /\ results'[Len(results) + 1] = r
    BY <1>5, ResultIs
  <2>2. UNCHANGED <<now, snapshot, max, up, klines>>
    BY <1>5 DEF Result, memory
  <2>3. r.ts \in Nat /\ Len(results) \in Nat
    BY Counters DEF ResultSet
  <2>4. ASSUME NEW n, NEW ts, After(results, n, ts), r.ts >= ts
        PROVE  After(results', n, ts)
    <3>1. ASSUME NEW i \in 1..Len(results'), i > n PROVE results'[i].ts >= ts
      <4>1. i \in 1..Len(results) \/ i = Len(results) + 1
        BY <2>1, <2>3
      <4>2. QED
        BY <2>1, <2>4, <3>1, <4>1 DEF After
    <3>2. QED
      BY <3>1 DEF After
  <2>5. r.ts >= snapshot.at - MaxLag
    <3>1. /\ now \in Nat /\ snapshot.at \in Nat /\ snapshot.at <= now /\ MaxLag \in Nat
      BY Moments, Bounds
    <3>2. r.ts >= now - MaxLag /\ r.ts \in Nat
      BY <2>1, <2>3
    <3>3. QED
      BY <3>1, <3>2
  <2>6. Realtime' /\ SnapshotIsOf'
    <3>1. After(results', DoneMax, now - MaxLag)
      BY <1>1, <2>1, <2>4 DEF Realtime
    <3>2. After(results', SnapMax, snapshot.at - MaxLag)
      BY <1>1, <2>4, <2>5 DEF SnapshotIsOf
    <3>3. QED
      BY <2>2, <3>1, <3>2 DEF Realtime, SnapshotIsOf, DoneMax, SnapMax
  <2>7. QED
    BY <1>1, <2>2, <2>6 DEF TimeInv, MemoryWindows, SnapshotWindows, PastSnapshot, SnapMax
<1>6. CASE Apply
  <2>1. /\ up /\ max < Len(results) /\ max' = max + 1
        /\ \A t \in Types :
             klines'[t] = updateKline(getCurrentKline(klines[t], now, t), Result1, now, t)
        /\ UNCHANGED <<now, results, snapshot, up>>
    BY <1>6, ApplyIs
  <2>2. Realtime'
    <3>1. \A i \in 1..Len(results) : i > max + 1 => i > max
      BY Counters
    <3>2. QED
      BY <1>1, <2>1, <3>1 DEF Realtime, After, DoneMax
  <2>3. SnapshotIsOf' /\ SnapshotWindows'
    BY <1>1, <2>1 DEF SnapshotIsOf, SnapshotWindows, SnapMax
  <2>4. PastSnapshot'
    <3>1. SnapMax <= max + 1
      BY <1>1, <2>1, Counters, SnapMaxIs DEF PastSnapshot
    <3>2. QED
      BY <2>1, <3>1 DEF PastSnapshot, SnapMax
  <2>5. MemoryWindows'
    BY <2>1, AppliedWindows DEF MemoryWindows
  <2>6. QED
    BY <2>2, <2>3, <2>4, <2>5 DEF TimeInv
<1>7. CASE CheckKlines
  <2>1. /\ up /\ \A t \in Types : klines'[t] = getCurrentKline(klines[t], now, t)
        /\ UNCHANGED <<now, results, max, snapshot, up>>
    BY <1>7, CheckKlinesIs
  <2>2. MemoryWindows'
    BY <2>1, CurrentWindows DEF MemoryWindows
  <2>3. QED
    BY <1>2, <1>3, <2>1, <2>2 DEF TimeInv
<1>8. CASE Clear
  <2>1. /\ \A t \in Types : klines'[t] =
             Restrict(klines[t], DOMAIN klines[t] \ Released(klines[t], t))
        /\ up /\ UNCHANGED <<now, results, max, snapshot, up>>
    BY <1>8, ClearIs
  <2>2. ASSUME NEW t \in Types PROVE DOMAIN klines'[t] \subseteq DOMAIN klines[t]
    BY <2>1 DEF Restrict
  <2>3. MemoryWindows'
    <3>1. ASSUME NEW t \in Types PROVE AreWindows(klines'[t], now, t)
      BY <1>1, <2>1, <2>2 DEF MemoryWindows, AreWindows
    <3>2. QED
      BY <2>1, <3>1 DEF MemoryWindows
  <2>4. QED
    BY <1>2, <1>3, <2>1, <2>3 DEF TimeInv
<1>9. CASE BuildMarket \/ Save \/ UNCHANGED vars
  <2>1. UNCHANGED <<now, results, max, klines, snapshot, up>>
    BY <1>9, SaveIs DEF BuildMarket, vars, memory
  <2>2. MemoryWindows'
    BY <1>1, <2>1 DEF MemoryWindows
  <2>3. QED
    BY <1>2, <1>3, <2>1, <2>2 DEF TimeInv
<1>10. CASE Snapshot
  <2>1. /\ up /\ UNCHANGED <<now, results, max, up>>
        /\ \A t \in Types : klines'[t] = getCurrentKline(klines[t], now, t)
        /\ \/ /\ snapshot'.at = now /\ snapshot'.max = max
              /\ \A t \in Types : snapshot'.klines[t] =
                   TwoWindows(getCurrentKline(klines[t], now, t), t)
           \/ UNCHANGED snapshot
    BY <1>10, SnapshotIs
  <2>2. MemoryWindows'
    BY <2>1, CurrentWindows DEF MemoryWindows
  <2>3. Realtime'
    BY <1>1, <2>1 DEF Realtime, DoneMax
  <2>4. CASE /\ snapshot'.at = now /\ snapshot'.max = max
             /\ \A t \in Types : snapshot'.klines[t] =
                  TwoWindows(getCurrentKline(klines[t], now, t), t)
    <3>1. SnapshotIsOf'
      <4>1. CASE snapshot' = NoSnapshot
        <5>1. SnapMax' = 0 /\ snapshot'.at = 0
          BY <4>1 DEF SnapMax, NoSnapshot
        <5>2. \A i \in 1..Len(results) : results[i].ts >= 0 - MaxLag
          BY EachResult, Bounds
        <5>3. QED
          BY <2>1, <5>1, <5>2 DEF SnapshotIsOf, After
      <4>2. CASE snapshot' # NoSnapshot
        <5>1. SnapMax' = max
          BY <2>4, <4>2 DEF SnapMax
        <5>2. QED
          BY <1>1, <2>1, <2>4, <5>1 DEF SnapshotIsOf, Realtime, After, DoneMax
      <4>3. QED
        BY <4>1, <4>2
    <3>2. PastSnapshot'
      <4>1. SnapMax' = 0 \/ SnapMax' = max
        BY <2>4 DEF SnapMax
      <4>2. QED
        BY <2>1, <4>1, Counters DEF PastSnapshot
    <3>3. SnapshotWindows'
      <4>1. ASSUME NEW t \in Types
            PROVE  DOMAIN snapshot'.klines[t] = {CurWindowTime(now, t),
                                                 CurWindowTime(now, t) - Step[t]}
        <5> DEFINE g == getCurrentKline(klines[t], now, t)
        <5>1. IsKlines(g) /\ snapshot'.klines[t] = TwoWindows(g, t) /\ now \in Nat
          BY <2>4, CurrentTyped, Moments
        <5> HIDE DEF g
        <5>2. QED
          BY <5>1, TwoWindowsAre
      <4>2. QED
        BY <2>4, <4>1 DEF SnapshotWindows
    <3>4. QED
      BY <2>2, <2>3, <3>1, <3>2, <3>3 DEF TimeInv
  <2>5. CASE UNCHANGED snapshot
    BY <1>2, <1>3, <2>1, <2>2, <2>5 DEF TimeInv
  <2>6. QED
    BY <2>1, <2>4, <2>5
<1>11. CASE Crash
  <2>1. /\ up' = FALSE /\ InTime(SnapMax, now)
        /\ UNCHANGED <<now, results, snapshot, max, klines>>
    BY <1>11 DEF Crash, memory
  <2>2. Realtime'
    <3>1. ASSUME NEW i \in 1..Len(results), i > SnapMax
          PROVE  results[i].ts >= now - MaxLag
      <4>1. i \in DOMAIN results
        BY Counters, LenProperties
      <4>2. now - results[i].ts <= MaxLag
        BY <2>1, <3>1, <4>1 DEF InTime
      <4>3. results[i].ts \in Nat /\ now \in Nat /\ MaxLag \in Nat
        BY EachResult, Moments, Bounds
      <4>4. QED
        BY <4>2, <4>3
    <3>2. QED
      BY <2>1, <3>1 DEF Realtime, After, DoneMax, SnapMax
  <2>3. PastSnapshot' /\ MemoryWindows'
    BY <2>1 DEF PastSnapshot, MemoryWindows
  <2>4. QED
    BY <1>2, <2>1, <2>2, <2>3 DEF TimeInv
<1>12. CASE Restart
  <2>1. /\ ~up /\ up' = TRUE
        /\ snapshot = NoSnapshot => max' = 0 /\ \A t \in Types : klines'[t] = <<>>
        /\ snapshot # NoSnapshot => max' = snapshot.max /\ klines' = snapshot.klines
        /\ UNCHANGED <<now, results, snapshot>>
    BY <1>12, RestartIs
  <2>2. max' = SnapMax /\ SnapMax' = SnapMax
    BY <2>1 DEF SnapMax
  <2>3. PastSnapshot'
    BY <2>2, SnapMaxIs DEF PastSnapshot
  <2>4. Realtime'
    BY <1>1, <2>1, <2>2 DEF Realtime, DoneMax
  <2>5. ASSUME NEW t \in Types PROVE AreWindows(klines'[t], now, t)
    <3>1. CASE snapshot = NoSnapshot
      <4>1. 0 \in Int /\ DOMAIN klines'[t] = {}
        BY <2>1, <3>1, NoKlines
      <4>2. QED
        BY <4>1 DEF AreWindows
    <3>2. CASE snapshot # NoSnapshot
      <4> DEFINE c == CurWindowTime(snapshot.at, t)
                 d == c - Step[t]
      <4>1. \A w \in DOMAIN klines'[t] : w = c \/ w = d
        BY <1>1, <2>1, <2>5, <3>2 DEF SnapshotWindows
      <4>2. c \in Starts[t] /\ c \in Int /\ c >= 0
        BY Moments, WindowIs
      <4>3. c <= CurWindowTime(now, t) /\ CurWindowTime(now, t) \in Int
        BY Moments, LaterWindow, WindowIs
      <4>4. Regular(t) => d \in Starts[t]
        BY <4>2 DEF Regular
      <4>5. Step[t] \in Nat
        BY Bounds
      <4> HIDE DEF c
      <4>6. d \in Int /\ d <= CurWindowTime(now, t)
        BY <4>2, <4>3, <4>5
      <4> HIDE DEF d
      <4>7. QED
        BY <4>1, <4>2, <4>3, <4>4, <4>6 DEF AreWindows
    <3>3. QED
      BY <3>1, <3>2
  <2>6. MemoryWindows'
    BY <2>1, <2>5 DEF MemoryWindows
  <2>7. QED
    BY <1>2, <2>1, <2>3, <2>6, <2>4 DEF TimeInv
<1>13. QED
  BY <1>4, <1>5, <1>6, <1>7, <1>8, <1>9, <1>10, <1>11, <1>12 DEF Next

-----------------------------------------------------------------------------
(* Counts: every kline in memory counts the fills of its window, the       *)
(* windows of the results were reached, and a window with fills that is no *)
(* longer in memory is too old to be counted again.                        *)

CountsOf(k, rs, n, t) ==
  \A w \in DOMAIN k : k[w].count = CountIn(rs, n, Minutes(w, t))

Reached(k, rs, n, t) ==
  \A i \in 1..n : \E w \in DOMAIN k : CurWindowTime(rs[i].ts, t) <= w

OnlyOld(k, rs, n, ts, t) ==
  \A w \in Starts[t] : w \notin DOMAIN k /\ CountIn(rs, n, Minutes(w, t)) # 0 =>
    /\ w < CurWindowTime(ts, t) - Step[t]
    /\ \A i \in 1..Len(rs) : i > n => w < CurWindowTime(rs[i].ts, t)

Counted(k, rs, n, ts, t) ==
  CountsOf(k, rs, n, t) /\ Reached(k, rs, n, t) /\ OnlyOld(k, rs, n, ts, t)

(* What Redis does not know yet is in the cache.                           *)
ToWrite(c, rs, from, n, t) ==
  \A i \in (from + 1)..n : rs[i].prices # <<>> => CurWindowTime(rs[i].ts, t) \in c

CountOf(k, w) == IF w \in DOMAIN k THEN k[w].count ELSE 0

RedisCounts(r, rs, t) ==
  \A w \in Starts[t] : CountOf(r.klines[t], w) = CountIn(rs, r.max, Minutes(w, t))

MemoryCounted ==
  up => \A t \in LongPeriods : /\ Counted(klines[t], results, max, now, t)
                         /\ ToWrite(cache[t], results, redis.max, max, t)

RedisCounted == \A t \in LongPeriods : RedisCounts(redis, results, t)

SnapshotCounted ==
  snapshot # NoSnapshot =>
    /\ Until(results, snapshot.max, snapshot.at)
    /\ \A t \in LongPeriods : CountsOf(snapshot.klines[t], results, snapshot.max, t)

CountInv == MemoryCounted /\ RedisCounted /\ SnapshotCounted

LEMMA LongIs ==
  \A t \in LongPeriods : t \in Types /\ Regular(t)
BY DEF LongPeriods

LEMMA InWindow ==
  ASSUME TypeInv, NEW i \in 1..Len(results), NEW t, NEW w
  PROVE  results[i].ts \in Minutes(w, t) <=> CurWindowTime(results[i].ts, t) = w
<1>1. results[i].ts \in Nat /\ results[i].ts <= now /\ now \in Nat /\ now <= MaxTime
  BY EachResult, Moments
<1>2. results[i].ts \in 0..MaxTime
  BY <1>1, Bounds
<1>3. QED
  BY <1>2 DEF Minutes

LEMMA NoneInWindow ==
  ASSUME TypeInv, NEW t \in Types, NEW w, NEW n \in 0..Len(results),
         \A i \in 1..n : \/ CurWindowTime(results[i].ts, t) # w
                         \/ results[i].prices = <<>>
  PROVE  FillsOf(results, n, Minutes(w, t)) = <<>> /\ CountIn(results, n, Minutes(w, t)) = 0
<1> DEFINE M == Minutes(w, t)
<1>1. \A i \in 1..n : FillsNothing(results[i], M)
  <2>1. ASSUME NEW i \in 1..n PROVE FillsNothing(results[i], M)
    <3>1. i \in 1..Len(results)
      BY Counters
    <3>2. QED
      BY <3>1, InWindow DEF FillsNothing
  <2>2. QED
    BY <2>1
<1>2. results \in Seq(ResultSet)
  BY Counters
<1> HIDE DEF M
<1>3. FillsOf(results, n, M) = <<>> /\ CountIn(results, n, M) = 0
  BY <1>1, <1>2, NoFills
<1>4. QED
  BY <1>3 DEF M

LEMMA NoneLater ==
  ASSUME TypeInv, NEW t \in Types, NEW w, NEW m \in 0..Len(results), NEW n \in 0..m,
         \A i \in (n + 1)..m : \/ CurWindowTime(results[i].ts, t) # w
                               \/ results[i].prices = <<>>
  PROVE  FillsOf(results, m, Minutes(w, t)) = FillsOf(results, n, Minutes(w, t))
<1> DEFINE M == Minutes(w, t)
<1>1. \A i \in (n + 1)..m : FillsNothing(results[i], M)
  <2>1. ASSUME NEW i \in (n + 1)..m PROVE FillsNothing(results[i], M)
    <3>1. i \in 1..Len(results)
      BY Counters
    <3>2. QED
      BY <2>1, <3>1, InWindow DEF FillsNothing
  <2>2. QED
    BY <2>1
<1>2. results \in Seq(ResultSet)
  BY Counters
<1> HIDE DEF M
<1>3. FillsOf(results, m, M) = FillsOf(results, n, M)
  BY <1>1, <1>2, FillsLater
<1>4. QED
  BY <1>3 DEF M

(* getCurrentKline adds no window that has fills.                          *)
LEMMA CurrentCounted ==
  ASSUME TypeInv, TimeInv, up, NEW t \in Types, Regular(t),
         Counted(klines[t], results, max, now, t)
  PROVE  LET g == getCurrentKline(klines[t], now, t)
         IN  /\ Counted(g, results, max, now, t)
             /\ \A w \in MissingWindows(klines[t], now, t) :
                  FillsOf(results, max, Minutes(w, t)) = <<>>
<1> DEFINE k == klines[t]
           M == MissingWindows(k, now, t)
           g == getCurrentKline(k, now, t)
<1>1. IsKlines(k) /\ now \in Nat /\ DOMAIN k \in SUBSET Int
  BY Moments DEF TypeInv, KlinesTyped, IsKlines
<1>2. /\ DOMAIN g = DOMAIN k \cup M /\ (\A w \in DOMAIN k : g[w] = k[w])
      /\ \A w \in M : g[w].count = 0
  BY <1>1, CurrentIs
<1>3. \A w \in M : w \in Starts[t] /\ w \in Int /\ \A v \in DOMAIN k : v < w /\ v \in Int
  BY <1>1, MissingAre, QuotesAssumption
<1>4. /\ CountsOf(k, results, max, t) /\ Reached(k, results, max, t)
      /\ OnlyOld(k, results, max, now, t)
  BY DEF Counted
<1> HIDE DEF g, M, k
<1>5. ASSUME NEW w \in M
      PROVE  /\ FillsOf(results, max, Minutes(w, t)) = <<>>
             /\ CountIn(results, max, Minutes(w, t)) = 0
  <2>1. ASSUME NEW i \in 1..max PROVE CurWindowTime(results[i].ts, t) # w
    <3>1. PICK v \in DOMAIN k : CurWindowTime(results[i].ts, t) <= v
      BY <1>4 DEF Reached
    <3>2. v < w /\ v \in Int /\ w \in Int
      BY <1>3
    <3>3. QED
      BY <3>1, <3>2
  <2>2. max \in 0..Len(results)
    BY Counters
  <2>3. QED
    BY <2>1, <2>2, NoneInWindow
<1>6. CountsOf(g, results, max, t)
  BY <1>2, <1>4, <1>5 DEF CountsOf
<1>7. Reached(g, results, max, t)
  BY <1>2, <1>4 DEF Reached
<1>8. OnlyOld(g, results, max, now, t)
  BY <1>2, <1>4 DEF OnlyOld
<1>9. QED
  BY <1>5, <1>6, <1>7, <1>8 DEF Counted, g, M, k

(* A window that may still be counted has fills only if it is in memory.   *)
LEMMA NewWindow ==
  ASSUME TypeInv, NEW t \in Types, NEW k, Counted(k, results, max, now, t),
         NEW w \in Starts[t], w \notin DOMAIN k,
         \/ w >= CurWindowTime(now, t) - Step[t]
         \/ \E i \in 1..Len(results) : i > max /\ w >= CurWindowTime(results[i].ts, t)
  PROVE  /\ CountIn(results, max, Minutes(w, t)) = 0
         /\ FillsOf(results, max, Minutes(w, t)) = <<>>
<1>1. SUFFICES ASSUME CountIn(results, max, Minutes(w, t)) # 0 PROVE FALSE
  <2>1. results \in Seq(ResultSet) /\ max \in 0..Len(results)
    BY Counters
  <2>2. QED
    BY <2>1, NotEmptyIsCounted
<1>2. /\ w < CurWindowTime(now, t) - Step[t]
      /\ \A i \in 1..Len(results) : i > max => w < CurWindowTime(results[i].ts, t)
  BY <1>1 DEF Counted, OnlyOld
<1>3. w \in Int
  BY QuotesAssumption
<1>4. CurWindowTime(now, t) - Step[t] \in Int
  <2>1. CurWindowTime(now, t) \in 0..now /\ now \in Nat
    BY Moments, WindowIs
  <2>2. QED
    BY <2>1, Bounds
<1>5. \A i \in 1..Len(results) : CurWindowTime(results[i].ts, t) \in Int
  <2>1. ASSUME NEW i \in 1..Len(results) PROVE CurWindowTime(results[i].ts, t) \in Int
    <3>1. results[i].ts \in Nat
      BY EachResult
    <3>2. CurWindowTime(results[i].ts, t) \in 0..(results[i].ts)
      BY <3>1, WindowIs
    <3>3. QED
      BY <3>1, <3>2
  <2>2. QED
    BY <2>1
<1>6. CASE w >= CurWindowTime(now, t) - Step[t]
  BY <1>2, <1>3, <1>4, <1>6
<1>7. CASE \E i \in 1..Len(results) : i > max /\ w >= CurWindowTime(results[i].ts, t)
  <2>1. PICK i \in 1..Len(results) : i > max /\ w >= CurWindowTime(results[i].ts, t)
    BY <1>7
  <2>2. w < CurWindowTime(results[i].ts, t) /\ CurWindowTime(results[i].ts, t) \in Int
    BY <1>2, <1>5, <2>1
  <2>3. QED
    BY <1>3, <2>1, <2>2
<1>8. QED
  BY <1>6, <1>7

(* The bar a result is added to, or an empty one, has its fills so far.    *)
LEMMA OldBarCounted ==
  ASSUME TypeInv, TimeInv, up, max < Len(results), NEW t \in Types,
         NEW k, Counted(k, results, max, now, t),
         NEW w \in UpdatedWindows(Result1, now, t)
  PROVE  /\ OldBar(k, w).count = CountIn(results, max, Minutes(w, t))
         /\ w \notin DOMAIN k => FillsOf(results, max, Minutes(w, t)) = <<>>
<1>1. CASE w \in DOMAIN k
  BY <1>1 DEF OldBar, Counted, CountsOf
<1>2. CASE w \notin DOMAIN k
  <2>1. w \in Starts[t] /\ CurWindowTime(Result1.ts, t) <= w
    BY AppliedWindows
  <2>2. max + 1 \in 1..Len(results) /\ max + 1 > max
    BY NextResult, Counters
  <2>3. w >= CurWindowTime(results[max + 1].ts, t)
    <3>1. CurWindowTime(Result1.ts, t) \in 0..(Result1.ts) /\ Result1.ts \in Nat
      BY NextResult, WindowIs
    <3>2. CurWindowTime(Result1.ts, t) \in Int /\ w \in Int
      BY <2>1, <3>1, QuotesAssumption
    <3>3. QED
      BY <2>1, <3>2 DEF Result1
  <2>4. /\ CountIn(results, max, Minutes(w, t)) = 0
        /\ FillsOf(results, max, Minutes(w, t)) = <<>>
    BY <1>2, <2>1, <2>2, <2>3, NewWindow
  <2>5. OldBar(k, w).count = 0
    BY <1>2, FlatIsABar DEF OldBar
  <2>6. QED
    BY <2>4, <2>5
<1>3. QED
  BY <1>1, <1>2

(* What the result max + 1 adds to the fills of a window.                  *)
LEMMA FillsOfNext ==
  ASSUME TypeInv, max < Len(results), NEW t \in Types, NEW w
  PROVE  /\ FillsOf(results, max + 1, Minutes(w, t)) =
              IF CurWindowTime(Result1.ts, t) = w
                THEN FillsOf(results, max, Minutes(w, t)) \o Result1.prices
                ELSE FillsOf(results, max, Minutes(w, t))
         /\ CountIn(results, max + 1, Minutes(w, t)) =
              CountIn(results, max, Minutes(w, t))
                + (IF CurWindowTime(Result1.ts, t) = w THEN Len(Result1.prices) ELSE 0)
<1> DEFINE M == Minutes(w, t)
<1>1. /\ max + 1 \in 1..Len(results) /\ results \in Seq(ResultSet) /\ max \in Nat
      /\ max + 1 <= Len(results)
  BY NextResult, Counters
<1>2. results[max + 1].ts \in M <=> CurWindowTime(Result1.ts, t) = w
  BY <1>1, InWindow DEF Result1
<1> HIDE DEF M
<1>3. FillsOf(results, max + 1, M) =
        IF results[max + 1].ts \in M THEN FillsOf(results, max, M) \o results[max + 1].prices
        ELSE FillsOf(results, max, M)
  BY <1>1, FillsNext
<1>4. CountIn(results, max + 1, M) = CountIn(results, max, M)
        + (IF results[max + 1].ts \in M THEN Len(results[max + 1].prices) ELSE 0)
  BY <1>1, CountNext
<1>5. QED
  BY <1>2, <1>3, <1>4 DEF Result1, M

(* Apply counts the result in its own window, and in no other.             *)
LEMMA AppliedCounted ==
  ASSUME TypeInv, TimeInv, up, max < Len(results), NEW t \in Types, Regular(t),
         Counted(klines[t], results, max, now, t)
  PROVE  Counted(updateKline(getCurrentKline(klines[t], now, t), Result1, now, t),
                 results, max + 1, now, t)
<1> DEFINE g == getCurrentKline(klines[t], now, t)
           u == updateKline(g, Result1, now, t)
           U == UpdatedWindows(Result1, now, t)
           own == CurWindowTime(Result1.ts, t)
<1>1. IsKlines(g) /\ now \in Nat /\ Counted(g, results, max, now, t)
  BY CurrentTyped, Moments, CurrentCounted
<1>2. /\ Result1 \in ResultSet /\ Result1.ts <= now /\ Result1.ts \in Nat
      /\ max + 1 \in 1..Len(results) /\ max \in Nat
  BY NextResult, Counters
<1>3. Len(Result1.prices) \in Nat /\ (Result1.prices = <<>> => Len(Result1.prices) = 0)
  BY <1>2, FillsAreSeqs, EmptySeq DEF ResultSet
<1>4. \A w \in U : w \in Starts[t] /\ Result1.prices # <<>>
  BY <1>1, <1>2, UpdatedAre
<1>5. Result1.prices # <<>> => own \in U
  BY <1>1, <1>2, UpdatedAre
<1>6. \A w \in U : OldBar(g, w) \in Bars /\ OldBar(g, w).count \in Nat
  <2>1. Flat(0, 0) \in Bars
    BY FlatIsABar
  <2>2. \A w \in U : OldBar(g, w) \in Bars
    BY <1>1, <2>1 DEF OldBar, IsKlines
  <2>3. QED
    BY <2>2 DEF Bars
<1>7. \A w \in U : OldBar(g, w).count = CountIn(results, max, Minutes(w, t))
  <2>1. ASSUME NEW w \in U PROVE OldBar(g, w).count = CountIn(results, max, Minutes(w, t))
    <3> HIDE DEF g
    <3>1. QED
      BY <1>1, OldBarCounted
  <2>2. QED
    BY <2>1
<1>8. own \in 0..(Result1.ts) /\ own <= CurWindowTime(now, t) /\ CurWindowTime(now, t) \in DOMAIN g
  BY <1>1, <1>2, WindowIs, LaterWindow, CurrentWindows
<1> HIDE DEF g
<1>9. /\ DOMAIN u = DOMAIN g \cup U
      /\ \A w \in DOMAIN g : w \notin U => u[w] = g[w]
      /\ \A w \in U : w = own => u[w] = Traded(OldBar(g, w), Result1.prices)
      /\ \A w \in U : w # own => u[w].count = OldBar(g, w).count
  <2>1. DOMAIN u = DOMAIN g \cup U
    BY AppliedWindows DEF g
  <2>2. IsKlines(g) /\ Result1 \in ResultSet /\ now \in Nat /\ Result1.ts <= now
    BY <1>1, <1>2
  <2>3. \A w \in DOMAIN g : w \notin U => u[w] = g[w]
    BY <2>2, UpdateIs
  <2>4. \A w \in U : w = own => u[w] = Traded(OldBar(g, w), Result1.prices)
    BY <2>2, UpdateIs
  <2>5. \A w \in U : w # own => u[w].count = OldBar(g, w).count
    BY <2>2, UpdateIs
  <2>6. QED
    BY <2>1, <2>3, <2>4, <2>5
<1>10. \A w : CountIn(results, max + 1, Minutes(w, t)) = CountIn(results, max, Minutes(w, t))
                + (IF own = w THEN Len(Result1.prices) ELSE 0)
  BY FillsOfNext
<1>11. \A w : CountIn(results, max, Minutes(w, t)) \in Nat
  <2>1. ASSUME NEW w PROVE CountIn(results, max, Minutes(w, t)) \in Nat
    <3> DEFINE M == Minutes(w, t)
    <3>1. results \in Seq(ResultSet) /\ max \in 0..Len(results)
      BY Counters
    <3> HIDE DEF M
    <3>2. CountIn(results, max, M) \in Nat
      BY <3>1, FillsType
    <3>3. QED
      BY <3>2 DEF M
  <2>2. QED
    BY <2>1
<1> HIDE DEF u, U, own
<1>12. CountsOf(u, results, max + 1, t)
  <2>1. ASSUME NEW w \in DOMAIN u PROVE u[w].count = CountIn(results, max + 1, Minutes(w, t))
    <3>1. CASE w \notin U
      <4>1. w \in DOMAIN g /\ u[w] = g[w]
        BY <1>9, <3>1
      <4>2. g[w].count = CountIn(results, max, Minutes(w, t))
        BY <1>1, <4>1 DEF Counted, CountsOf
      <4>3. own # w \/ Len(Result1.prices) = 0
        BY <1>3, <1>5, <3>1
      <4>4. QED
        BY <1>10, <1>11, <4>1, <4>2, <4>3
    <3>2. CASE w \in U /\ w # own
      BY <1>7, <1>9, <1>10, <1>11, <3>2
    <3>3. CASE w \in U /\ w = own
      <4>1. Traded(OldBar(g, w), Result1.prices).count = OldBar(g, w).count + Len(Result1.prices)
        <5>1. Result1.prices \in Fills /\ Result1.prices # <<>>
          BY <1>2, <1>4, <3>3 DEF ResultSet
        <5>2. QED
          BY <1>6, <3>3, <5>1, TradedIs
      <4>2. QED
        BY <1>7, <1>9, <1>10, <3>3, <4>1
    <3>4. QED
      BY <3>1, <3>2, <3>3
  <2>2. QED
    BY <2>1 DEF CountsOf
<1>13. Reached(u, results, max + 1, t)
  <2>1. ASSUME NEW i \in 1..(max + 1)
        PROVE  \E w \in DOMAIN u : CurWindowTime(results[i].ts, t) <= w
    <3>1. CASE i \in 1..max
      BY <1>1, <1>9, <3>1 DEF Counted, Reached
    <3>2. CASE i = max + 1
      BY <1>8, <1>9, <3>2 DEF Result1, own
    <3>3. QED
      BY <1>2, <3>1, <3>2
  <2>2. QED
    BY <2>1 DEF Reached
<1>14. OnlyOld(u, results, max + 1, now, t)
  <2>1. ASSUME NEW w \in Starts[t], w \notin DOMAIN u,
               CountIn(results, max + 1, Minutes(w, t)) # 0
        PROVE  /\ w < CurWindowTime(now, t) - Step[t]
               /\ \A i \in 1..Len(results) : i > max + 1 => w < CurWindowTime(results[i].ts, t)
    <3>1. own # w \/ Len(Result1.prices) = 0
      BY <1>3, <1>5, <1>9, <2>1
    <3>2. CountIn(results, max, Minutes(w, t)) # 0
      BY <1>10, <1>11, <2>1, <3>1
    <3>3. w \notin DOMAIN g
      BY <1>9, <2>1
    <3>4. /\ w < CurWindowTime(now, t) - Step[t]
          /\ \A i \in 1..Len(results) : i > max => w < CurWindowTime(results[i].ts, t)
      BY <1>1, <3>2, <3>3 DEF Counted, OnlyOld
    <3>5. \A i \in 1..Len(results) : i > max + 1 => i > max
      BY <1>2
    <3>6. QED
      BY <3>4, <3>5
  <2>2. QED
    BY <2>1 DEF OnlyOld
<1>15. QED
  BY <1>12, <1>13, <1>14 DEF Counted, u, g

(* Clear keeps what may still be counted: of a window that is released     *)
(* more than Keep are in memory, fewer than there are minutes since the    *)
(* oldest result that was not counted.                                     *)
LEMMA ClearedCounted ==
  ASSUME MemoryReachesBack, TypeInv, TimeInv, up, NEW t \in Types, Regular(t),
         Counted(klines[t], results, max, now, t)
  PROVE  Counted(Restrict(klines[t], DOMAIN klines[t] \ Released(klines[t], t)),
                 results, max, now, t)
<1> DEFINE k == klines[t]
           D == DOMAIN k \ Released(k, t)
           r == Restrict(k, D)
           From(w) == {v \in DOMAIN k : v >= w}
<1>1. /\ CountsOf(k, results, max, t) /\ Reached(k, results, max, t)
      /\ OnlyOld(k, results, max, now, t)
  BY DEF Counted
<1>2. /\ IsKlines(k) /\ now \in Nat /\ DOMAIN k \in SUBSET Int /\ Keep >= 2 /\ Keep \in Nat
      /\ Starts[t] \in SUBSET Int
  BY Moments, Bounds, QuotesAssumption DEF TypeInv, KlinesTyped, IsKlines, MemoryReachesBack
<1>3. \A w \in DOMAIN k : w \in Starts[t] /\ w <= CurWindowTime(now, t)
  BY DEF TimeInv, MemoryWindows, AreWindows
<1>4. CurWindowTime(now, t) \in 0..now
  BY <1>2, WindowIs
<1>5. \A w \in Released(k, t) : Cardinality(From(w)) > Keep
  BY DEF Released
<1>6. DOMAIN r = D /\ \A w \in D : r[w] = k[w]
  BY DEF Restrict
<1> HIDE DEF r
<1>7. CountsOf(r, results, max, t)
  BY <1>1, <1>6 DEF CountsOf
<1>8. ASSUME NEW i \in 1..max
      PROVE  \E w \in D : CurWindowTime(results[i].ts, t) <= w
  <2>1. PICK v \in DOMAIN k : CurWindowTime(results[i].ts, t) <= v
    BY <1>1 DEF Reached
  <2> DEFINE w == Max(DOMAIN k)
             F == From(w)
             B == {w}
  <2>2. w \in DOMAIN k /\ \A x \in DOMAIN k : x <= w
    <3>1. DOMAIN k # {} /\ IsFiniteSet(DOMAIN k)
      BY <1>2 DEF IsKlines
    <3> DEFINE S == DOMAIN k
    <3>2. S \in SUBSET Int /\ IsFiniteSet(S) /\ S # {}
      BY <1>2, <3>1
    <3> HIDE DEF S
    <3>3. Max(S) \in S /\ \A y \in S : y <= Max(S)
      BY <3>2, MaxOfFinite
    <3>4. QED
      BY <3>3 DEF S
  <2> HIDE DEF w
  <2>3. F = B
    <3>1. \A x \in F : x = w
      BY <1>2, <2>2
    <3>2. w \in F
      BY <1>2, <2>2
    <3>3. QED
      BY <3>1, <3>2
  <2>4. Cardinality(F) = 1
    BY <2>3, FS_Singleton
  <2>5. w \notin Released(k, t)
    BY <1>2, <1>5, <2>4
  <2>6. CurWindowTime(results[i].ts, t) <= w
    <3>1. i \in 1..Len(results)
      BY Counters
    <3>2. results[i].ts \in Nat
      BY <3>1, EachResult
    <3>3. CurWindowTime(results[i].ts, t) \in 0..(results[i].ts)
      BY <3>2, WindowIs
    <3>4. v <= w /\ v \in Int /\ w \in Int
      BY <1>2, <2>2
    <3>5. QED
      BY <2>1, <3>2, <3>3, <3>4
  <2>7. QED
    BY <2>2, <2>5, <2>6
<1>9. Reached(r, results, max, t)
  BY <1>6, <1>8 DEF Reached
<1>10. ASSUME NEW w \in Released(k, t)
       PROVE  /\ w < CurWindowTime(now, t) - Step[t]
              /\ \A i \in 1..Len(results) : i > max => w < CurWindowTime(results[i].ts, t)
  <2> DEFINE F == From(w)
  <2>1. w \in DOMAIN k /\ w \in Int /\ Cardinality(F) > Keep
    BY <1>2, <1>5 DEF Released
  <2>2. F \in SUBSET Starts[t] /\ \A v \in F : v \in Int /\ v >= w /\ v <= CurWindowTime(now, t)
    BY <1>2, <1>3
  <2> HIDE DEF F
  <2>3. w < CurWindowTime(now, t) - Step[t]
    <3> DEFINE c == CurWindowTime(now, t)
    <3>1. c - Step[t] \in Int
      BY <1>2, <1>4, Bounds
    <3>2. SUFFICES ASSUME w >= c - Step[t] PROVE FALSE
      BY <2>1, <3>1
    <3>3. \A v \in F : v >= c - Step[t] /\ v <= c
      BY <2>1, <2>2, <3>1, <3>2
    <3> HIDE DEF c
    <3>4. Cardinality(F) \in Nat /\ Cardinality(F) <= 2
      <4>1. \A v \in F : /\ v >= CurWindowTime(now, t) - Step[t]
                         /\ v <= CurWindowTime(now, t)
        BY <3>3 DEF c
      <4> DEFINE A == F
      <4>2. A \in SUBSET Starts[t]
        BY <2>2
      <4>3. QED
        BY <1>2, <2>2, <4>1, LastTwo
    <3>5. QED
      BY <1>2, <2>1, <3>4
  <2>4. ASSUME NEW i \in 1..Len(results), i > max
        PROVE  w < CurWindowTime(results[i].ts, t)
    <3> DEFINE a == results[i].ts
               c == CurWindowTime(a, t)
    <3>1. a \in Nat /\ a <= now
      BY EachResult
    <3>2. c \in 0..a
      BY <3>1, WindowIs
    <3>3. a >= now - MaxLag
      BY <2>4 DEF TimeInv, Realtime, DoneMax, After
    <3> HIDE DEF a
    <3>4. now - a <= MaxLag
      BY <1>2, <3>1, <3>3, Bounds
    <3>5. SUFFICES ASSUME w >= c PROVE FALSE
      BY <2>1, <3>1, <3>2 DEF a
    <3>6. \A v \in F : v >= c /\ v <= now
      BY <1>2, <1>4, <2>1, <2>2, <3>1, <3>2, <3>5
    <3>7. Cardinality(F) \in Nat /\ Cardinality(F) <= 1 + now - a
      BY <1>2, <2>2, <3>1, <3>6, FewWindows
    <3>8. Cardinality(F) <= Keep
      BY <1>2, <3>1, <3>4, <3>7, Bounds DEF MemoryReachesBack
    <3>9. QED
      BY <1>2, <2>1, <3>7, <3>8
  <2>5. QED
    BY <2>3, <2>4
<1>11. OnlyOld(r, results, max, now, t)
  <2>1. ASSUME NEW w \in Starts[t], w \notin DOMAIN r,
               CountIn(results, max, Minutes(w, t)) # 0
        PROVE  /\ w < CurWindowTime(now, t) - Step[t]
               /\ \A i \in 1..Len(results) : i > max => w < CurWindowTime(results[i].ts, t)
    <3>1. CASE w \in DOMAIN k
      <4>1. w \in Released(k, t)
        BY <1>6, <2>1, <3>1
      <4>2. QED
        BY <1>10, <4>1
    <3>2. CASE w \notin DOMAIN k
      BY <1>1, <2>1, <3>2 DEF OnlyOld
    <3>3. QED
      BY <3>1, <3>2
  <2>2. QED
    BY <2>1 DEF OnlyOld
<1>12. QED
  BY <1>7, <1>9, <1>11 DEF Counted, r

(* Redis takes the klines of the cache: the others have no fills since.    *)
LEMMA WrittenCounted ==
  ASSUME TypeInv, NEW k, NEW c, NEW new, IsWritten(new, k, c), NEW t \in Types,
         RedisCounts(redis, results, t), CountsOf(k[t], results, max, t),
         ToWrite(c[t], results, redis.max, max, t)
  PROVE  RedisCounts(new, results, t) /\ ToWrite({}, results, new.max, max, t)
<1>1. max \in Nat /\ redis.max \in Nat /\ max \in 0..Len(results)
  BY Counters
<1>2. CASE Ahead /\ new = redis
  <2>1. (redis.max + 1)..max = {}
    BY <1>1, <1>2 DEF Ahead
  <2>2. QED
    BY <1>2, <2>1 DEF ToWrite
<1>3. CASE ~(Ahead /\ new = redis)
  <2> DEFINE old == redis.klines[t]
             f == new.klines[t]
             kt == k[t]
             ct == c[t]
  <2>1. /\ ~Ahead /\ new.max = max /\ ct \subseteq DOMAIN kt
        /\ f = [w \in DOMAIN old \cup ct |-> IF w \in ct THEN kt[w] ELSE old[w]]
    BY <1>3 DEF IsWritten
  <2>2. redis.max \in 0..max
    BY <1>1, <2>1 DEF Ahead
  <2>3. ToWrite({}, results, new.max, max, t)
    <3>1. (max + 1)..max = {}
      BY <1>1
    <3>2. QED
      BY <2>1, <3>1 DEF ToWrite
  <2>4. ASSUME NEW w \in Starts[t]
        PROVE  CountOf(f, w) = CountIn(results, max, Minutes(w, t))
    <3>1. CASE w \in ct
      <4> HIDE DEF f, old, kt, ct
      <4>1. w \in DOMAIN kt /\ w \in DOMAIN f /\ f[w] = kt[w]
        BY <2>1, <3>1
      <4>2. kt[w].count = CountIn(results, max, Minutes(w, t))
        BY <4>1 DEF CountsOf, kt
      <4>3. QED
        BY <4>1, <4>2 DEF CountOf
    <3>2. CASE w \notin ct
      <4>1. CountOf(f, w) = CountOf(old, w)
        <5> HIDE DEF f, old, kt, ct
        <5>1. /\ w \in DOMAIN f <=> w \in DOMAIN old
              /\ w \in DOMAIN old => f[w] = old[w]
          BY <2>1, <3>2
        <5>2. QED
          BY <5>1 DEF CountOf
      <4>2. CountOf(old, w) = CountIn(results, redis.max, Minutes(w, t))
        BY DEF RedisCounts
      <4>3. \A i \in (redis.max + 1)..max : \/ CurWindowTime(results[i].ts, t) # w
                                            \/ results[i].prices = <<>>
        BY <3>2 DEF ToWrite
      <4>4. FillsOf(results, max, Minutes(w, t)) = FillsOf(results, redis.max, Minutes(w, t))
        BY <1>1, <2>2, <4>3, NoneLater
      <4>5. QED
        BY <4>1, <4>2, <4>4 DEF CountIn
    <3>3. QED
      BY <3>1, <3>2
  <2>5. RedisCounts(new, results, t)
    BY <2>1, <2>4 DEF RedisCounts
  <2>6. QED
    BY <2>3, <2>5
<1>4. QED
  BY <1>2, <1>3

(* The two windows of a snapshot are counted, the one that is empty too.   *)
LEMMA TwoWindowsCounted ==
  ASSUME TypeInv, NEW t \in Types, Regular(t), NEW g, IsKlines(g),
         Counted(g, results, max, now, t)
  PROVE  CountsOf(TwoWindows(g, t), results, max, t)
<1> DEFINE c == CurWindowTime(now, t)
           d == c - Step[t]
<1>1. now \in Nat /\ c \in Starts[t] /\ c \in Int /\ c >= 0 /\ Step[t] \in Nat
  BY Moments, WindowIs, Bounds
<1>2. d \in Starts[t] /\ d \in Int /\ c >= d /\ d >= d
  <2> HIDE DEF c
  <2>1. QED
    BY <1>1 DEF Regular
<1>3. /\ DOMAIN TwoWindows(g, t) = {c, d}
      /\ \A w \in {c, d} : TwoWindows(g, t)[w] = OldBar(g, w)
  BY <1>1, TwoWindowsAre
<1>4. ASSUME NEW w \in {c, d} PROVE OldBar(g, w).count = CountIn(results, max, Minutes(w, t))
  <2>1. w \in Starts[t] /\ w >= d
    BY <1>1, <1>2
  <2>2. CASE w \in DOMAIN g
    BY <2>2 DEF OldBar, Counted, CountsOf
  <2>3. CASE w \notin DOMAIN g
    <3>1. CountIn(results, max, Minutes(w, t)) = 0
      BY <2>1, <2>3, NewWindow
    <3>2. QED
      BY <2>3, <3>1, FlatIsABar DEF OldBar
  <2>4. QED
    BY <2>2, <2>3
<1> HIDE DEF c, d
<1>5. QED
  BY <1>3, <1>4 DEF CountsOf

(* A restart from a snapshot takes no count too many back, and misses no   *)
(* window that can be counted again.                                       *)
LEMMA RestoredCounted ==
  ASSUME TypeInv, TimeInv, SnapshotCounted,
         snapshot # NoSnapshot, NEW t \in LongPeriods
  PROVE  Counted(snapshot.klines[t], results, snapshot.max, now, t)
<1> USE LongIs
<1> DEFINE k == snapshot.klines[t]
           n == snapshot.max
           c == CurWindowTime(snapshot.at, t)
           d == c - Step[t]
<1>1. /\ n \in 0..Len(results) /\ snapshot.at \in Nat /\ snapshot.at <= now /\ now \in Nat
      /\ SnapMax = n
  BY Moments, SnapMaxIs DEF SnapMax
<1>2. /\ Until(results, n, snapshot.at) /\ CountsOf(k, results, n, t)
  BY DEF SnapshotCounted
<1>3. DOMAIN k = {c, d}
  BY DEF TimeInv, SnapshotWindows
<1>4. c \in Starts[t] /\ c \in Int /\ c >= 0 /\ Step[t] \in Nat /\ Starts[t] \in SUBSET Int
  <2>1. Step[t] \in Nat /\ Starts[t] \in SUBSET Int
    BY Bounds, QuotesAssumption
  <2>2. c \in Starts[t] /\ c \in 0..(snapshot.at)
    BY <1>1, WindowIs
  <2> HIDE DEF c
  <2>3. c \in Int /\ c >= 0
    BY <1>1, <2>2
  <2>4. QED
    BY <2>1, <2>2, <2>3
<1>5. d \in Int /\ \A v \in Starts[t] : ~(d < v /\ v < c)
  <2> HIDE DEF c
  <2>1. QED
    BY <1>4 DEF Regular
<1>6. c <= CurWindowTime(now, t) /\ CurWindowTime(now, t) \in 0..now
  BY <1>1, LaterWindow, WindowIs
<1>7. \A i \in 1..n : /\ CurWindowTime(results[i].ts, t) <= c
                      /\ CurWindowTime(results[i].ts, t) \in Starts[t]
  <2>1. ASSUME NEW i \in 1..n
        PROVE  /\ CurWindowTime(results[i].ts, t) <= c
               /\ CurWindowTime(results[i].ts, t) \in Starts[t]
    <3>1. i \in 1..Len(results)
      BY <1>1, Counters
    <3>2. results[i].ts \in Nat /\ results[i].ts <= snapshot.at
      BY <1>2, <3>1, EachResult DEF Until
    <3>3. QED
      BY <1>1, <3>2, LaterWindow, WindowIs
  <2>2. QED
    BY <2>1
<1>8. \A i \in 1..Len(results) : i > n =>
        /\ d <= CurWindowTime(results[i].ts, t) /\ CurWindowTime(results[i].ts, t) \in Int
  <2>1. ASSUME NEW i \in 1..Len(results), i > n
        PROVE  /\ d <= CurWindowTime(results[i].ts, t)
               /\ CurWindowTime(results[i].ts, t) \in Int
    <3>1. results[i].ts \in Nat
      BY EachResult
    <3>2. results[i].ts >= snapshot.at - MaxLag
      BY <1>1, <2>1 DEF TimeInv, SnapshotIsOf, After
    <3>3. d <= CurWindowTime(results[i].ts, t)
      BY <1>1, <3>1, <3>2, LateWindow
    <3>4. CurWindowTime(results[i].ts, t) \in Starts[t]
      BY <3>1, WindowIs
    <3>5. QED
      BY <1>4, <3>3, <3>4
  <2>2. QED
    BY <2>1
<1> HIDE DEF k, n, c
<1>9. Reached(k, results, n, t)
  BY <1>3, <1>7 DEF Reached
<1>10. OnlyOld(k, results, n, now, t)
  <2>1. ASSUME NEW w \in Starts[t], w \notin DOMAIN k,
               CountIn(results, n, Minutes(w, t)) # 0
        PROVE  /\ w < CurWindowTime(now, t) - Step[t]
               /\ \A i \in 1..Len(results) : i > n => w < CurWindowTime(results[i].ts, t)
    <3>1. PICK i \in 1..n : CurWindowTime(results[i].ts, t) = w
      BY <1>1, <2>1, NoneInWindow
    <3>2. w <= c /\ w \in Int
      BY <1>4, <1>7, <3>1
    <3>3. w < d
      BY <1>3, <1>4, <1>5, <2>1, <3>2
    <3>4. d <= CurWindowTime(now, t) - Step[t]
      BY <1>1, <1>4, <1>6
    <3>5. w < CurWindowTime(now, t) - Step[t]
      <4> DEFINE e == CurWindowTime(now, t)
      <4>1. e \in Int /\ c <= e
        BY <1>1, <1>6
      <4> HIDE DEF e
      <4>2. w < e - Step[t]
        BY <1>4, <3>2, <3>3, <4>1
      <4>3. QED
        BY <4>2 DEF e
    <3> HIDE DEF d
    <3>6. QED
      BY <1>5, <1>8, <3>2, <3>3, <3>5
  <2>2. QED
    BY <2>1 DEF OnlyOld
<1>11. QED
  BY <1>2, <1>9, <1>10 DEF Counted, k, n

(* A new result changes no count, and is not too late for what is old.     *)
LEMMA AppendedCounted ==
  ASSUME TypeInv, NEW k, NEW n \in 0..Len(results), NEW t, NEW r,
         \A i \in 1..Len(results) : Append(results, r)[i] = results[i]
  PROVE  /\ CountsOf(k, results, n, t) => CountsOf(k, Append(results, r), n, t)
         /\ Reached(k, results, n, t) => Reached(k, Append(results, r), n, t)
         /\ \A from \in Nat : \A c :
              ToWrite(c, results, from, n, t) => ToWrite(c, Append(results, r), from, n, t)
         /\ \A ts : Until(results, n, ts) => Until(Append(results, r), n, ts)
         /\ \A w : CountIn(Append(results, r), n, Minutes(w, t))
                     = CountIn(results, n, Minutes(w, t))
<1> DEFINE qs == Append(results, r)
<1>1. \A i \in 1..n : qs[i] = results[i]
  BY Counters
<1>2. \A w : CountIn(qs, n, Minutes(w, t)) = CountIn(results, n, Minutes(w, t))
  BY Counters, FillsAppended DEF CountIn
<1> HIDE DEF qs
<1>3. CountsOf(k, results, n, t) => CountsOf(k, qs, n, t)
  BY <1>2 DEF CountsOf
<1>4. Reached(k, results, n, t) => Reached(k, qs, n, t)
  BY <1>1 DEF Reached
<1>5. ASSUME NEW c, NEW from \in Nat, ToWrite(c, results, from, n, t)
      PROVE  ToWrite(c, qs, from, n, t)
  <2>1. \A i \in (from + 1)..n : i \in 1..n
    BY Counters
  <2>2. QED
    BY <1>1, <1>5, <2>1 DEF ToWrite
<1>6. \A ts : Until(results, n, ts) => Until(qs, n, ts)
  BY <1>1 DEF Until
<1>7. QED
  BY <1>2, <1>3, <1>4, <1>5, <1>6 DEF qs

LEMMA CountInit ==
  Init => CountInv
<1> USE LongIs
<1> SUFFICES ASSUME Init PROVE CountInv
  OBVIOUS
<1>1. /\ max = 0 /\ redis.max = 0 /\ snapshot = NoSnapshot
      /\ \A t \in LongPeriods : klines[t] = <<>> /\ redis.klines[t] = <<>>
  BY DEF Init
<1>2. \A t \in LongPeriods : \A w : CountIn(results, 0, Minutes(w, t)) = 0
  BY CountNone
<1>3. ASSUME NEW t \in LongPeriods
      PROVE  Counted(klines[t], results, max, now, t) /\ ToWrite(cache[t], results, redis.max, max, t)
  BY <1>1, <1>2, NoKlines DEF Counted, CountsOf, Reached, OnlyOld, ToWrite
<1>4. ASSUME NEW t \in LongPeriods PROVE RedisCounts(redis, results, t)
  BY <1>1, <1>2, NoKlines DEF RedisCounts, CountOf
<1>5. QED
  BY <1>1, <1>3, <1>4 DEF CountInv, MemoryCounted, RedisCounted, SnapshotCounted

LEMMA CountStep ==
  ASSUME MemoryReachesBack
  PROVE  TypeInv /\ TimeInv /\ CountInv /\ [Next]_vars => CountInv'
<1> USE LongIs
<1> SUFFICES ASSUME TypeInv, TimeInv, CountInv, [Next]_vars PROVE CountInv'
  OBVIOUS
<1>1. MemoryCounted /\ RedisCounted /\ SnapshotCounted
  BY DEF CountInv
<1>2. up => \A t \in LongPeriods : /\ Counted(klines[t], results, max, now, t)
                             /\ ToWrite(cache[t], results, redis.max, max, t)
  BY <1>1 DEF MemoryCounted
<1>3. ASSUME UNCHANGED <<results, redis, snapshot>>
      PROVE  RedisCounted' /\ SnapshotCounted'
  BY <1>1, <1>3 DEF RedisCounted, SnapshotCounted
<1>4. CASE Clock
  <2>1. /\ now' = now + 1
        /\ UNCHANGED <<results, snapshot, redis, max, klines, cache, up>>
    BY <1>4 DEF Clock, memory
  <2>2. ASSUME NEW t \in LongPeriods, up PROVE Counted(klines[t], results, max, now + 1, t)
    <3> DEFINE k == klines[t]
               next == now + 1
    <3>1. Counted(k, results, max, now, t)
      BY <1>2, <2>2
    <3>2. next \in Nat /\ now \in Nat /\ now <= next /\ Step[t] \in Nat /\ Starts[t] \in SUBSET Int
      <4>1. next \in Nat /\ now \in Nat /\ now <= next
        BY Moments
      <4>2. Step[t] \in Nat /\ Starts[t] \in SUBSET Int
        BY Bounds, QuotesAssumption
      <4>3. QED
        BY <4>1, <4>2
    <3> HIDE DEF k, next
    <3> DEFINE a == CurWindowTime(now, t)
               b == CurWindowTime(next, t)
    <3>3. a <= b /\ a \in 0..now /\ b \in 0..next
      BY <3>2, LaterWindow, WindowIs
    <3>4. a \in Int /\ b \in Int
      BY <3>2, <3>3
    <3>5. \A w \in Starts[t] : w < a - Step[t] => w < b - Step[t]
      <4> HIDE DEF a, b
      <4>1. QED
        BY <3>2, <3>3, <3>4
    <3>6. OnlyOld(k, results, max, next, t)
      BY <3>1, <3>5 DEF Counted, OnlyOld
    <3>7. QED
      BY <3>1, <3>6 DEF Counted, k, next
  <2>3. MemoryCounted'
    BY <1>2, <2>1, <2>2 DEF MemoryCounted
  <2>4. QED
    BY <1>3, <2>1, <2>3 DEF CountInv
<1>5. CASE Result
  <2>1. PICK r \in ResultSet :
          /\ results' = Append(results, r) /\ r.ts >= now - MaxLag
          /\ Len(results') = Len(results) + 1
          /\ \A i \in 1..Len(results) : results'[i] = results[i]
          /\ results'[Len(results) + 1] = r
    BY <1>5, ResultIs
  <2>2. UNCHANGED <<now, snapshot, redis, max, klines, cache, up>>
    BY <1>5 DEF Result, memory
  <2>3. \A i \in 1..Len(results) : Append(results, r)[i] = results[i]
    BY <2>1
  <2>4. max \in 0..Len(results) /\ redis.max \in Nat /\ redis.max \in 0..Len(results)
    BY Counters
  <2>5. r.ts \in Nat /\ now \in Nat /\ Len(results) \in Nat
    BY Moments, Counters DEF ResultSet
  <2>6. ASSUME NEW t \in LongPeriods, up
        PROVE  /\ Counted(klines[t], results', max, now, t)
               /\ ToWrite(cache[t], results', redis.max, max, t)
    <3> DEFINE k == klines[t]
    <3>1. Counted(k, results, max, now, t) /\ ToWrite(cache[t], results, redis.max, max, t)
      BY <1>2, <2>6
    <3> HIDE DEF k
    <3>2. /\ CountsOf(k, results', max, t) /\ Reached(k, results', max, t)
          /\ ToWrite(cache[t], results', redis.max, max, t)
          /\ \A w : CountIn(results', max, Minutes(w, t)) = CountIn(results, max, Minutes(w, t))
      BY <2>1, <2>3, <2>4, <3>1, AppendedCounted DEF Counted
    <3>3. CurWindowTime(now, t) - Step[t] <= CurWindowTime(r.ts, t)
      BY <2>1, <2>5, LateWindow
    <3>4. ASSUME NEW w \in Starts[t], w \notin DOMAIN k,
                 CountIn(results', max, Minutes(w, t)) # 0
          PROVE  /\ w < CurWindowTime(now, t) - Step[t]
                 /\ \A i \in 1..Len(results') : i > max => w < CurWindowTime(results'[i].ts, t)
      <4>1. /\ w < CurWindowTime(now, t) - Step[t]
            /\ \A i \in 1..Len(results) : i > max => w < CurWindowTime(results[i].ts, t)
        BY <3>1, <3>2, <3>4 DEF Counted, OnlyOld
      <4>2. w < CurWindowTime(r.ts, t)
        <5> DEFINE a == CurWindowTime(now, t)
                   b == CurWindowTime(r.ts, t)
        <5>1. a \in 0..now /\ b \in 0..(r.ts) /\ w \in Int /\ Step[t] \in Nat
          BY <2>5, WindowIs, QuotesAssumption
        <5>2. a \in Int /\ b \in Int
          BY <2>5, <5>1
        <5>3. w < a - Step[t] /\ a - Step[t] <= b
          BY <3>3, <4>1
        <5> HIDE DEF a, b
        <5>4. w < b
          BY <5>1, <5>2, <5>3
        <5>5. QED
          BY <5>4 DEF b
      <4>3. ASSUME NEW i \in 1..Len(results'), i > max
            PROVE  w < CurWindowTime(results'[i].ts, t)
        <5>1. i \in 1..Len(results) \/ i = Len(results) + 1
          BY <2>1, <2>5
        <5>2. QED
          BY <2>1, <4>1, <4>2, <4>3, <5>1
      <4>4. QED
        BY <4>1, <4>3
    <3>5. OnlyOld(k, results', max, now, t)
      BY <3>4 DEF OnlyOld
    <3>6. QED
      BY <3>2, <3>5 DEF Counted, k
  <2>7. MemoryCounted'
    BY <2>2, <2>6 DEF MemoryCounted
  <2>8. RedisCounted'
    <3>1. ASSUME NEW t \in LongPeriods PROVE RedisCounts(redis, results', t)
      <4>1. \A w : CountIn(results', redis.max, Minutes(w, t))
                     = CountIn(results, redis.max, Minutes(w, t))
        <5>1. redis.max \in 0..Len(results)
          BY <2>4
        <5>2. \A w : CountIn(Append(results, r), redis.max, Minutes(w, t))
                       = CountIn(results, redis.max, Minutes(w, t))
          BY <2>3, <5>1, AppendedCounted
        <5>3. QED
          BY <2>1, <5>2
      <4>2. QED
        BY <1>1, <4>1 DEF RedisCounted, RedisCounts
    <3>2. QED
      BY <2>2, <3>1 DEF RedisCounted
  <2>9. SnapshotCounted'
    <3>1. SUFFICES ASSUME snapshot # NoSnapshot
                   PROVE  /\ Until(results', snapshot.max, snapshot.at)
                          /\ \A t \in LongPeriods : CountsOf(snapshot.klines[t], results', snapshot.max, t)
      BY <2>2 DEF SnapshotCounted
    <3> DEFINE n == snapshot.max
    <3>2. n \in 0..Len(results)
      BY <3>1, SnapMaxIs DEF SnapMax
    <3>3. /\ Until(results, n, snapshot.at)
          /\ \A t \in LongPeriods : CountsOf(snapshot.klines[t], results, n, t)
      BY <1>1, <3>1 DEF SnapshotCounted
    <3> HIDE DEF n
    <3>4. Until(results', n, snapshot.at)
      BY <2>1, <2>3, <3>2, <3>3, AppendedCounted
    <3>5. \A t \in LongPeriods : CountsOf(snapshot.klines[t], results', n, t)
      BY <2>1, <2>3, <3>2, <3>3, AppendedCounted
    <3>6. QED
      BY <3>4, <3>5 DEF n
  <2>10. QED
    BY <2>7, <2>8, <2>9 DEF CountInv
<1>6. CASE Apply
  <2>1. /\ up /\ max < Len(results) /\ max' = max + 1
        /\ \A t \in LongPeriods :
              /\ klines'[t] = updateKline(getCurrentKline(klines[t], now, t), Result1, now, t)
              /\ cache'[t] = (cache[t] \cup MissingWindows(klines[t], now, t))
                               \cup UpdatedWindows(Result1, now, t)
        /\ UNCHANGED <<now, results, snapshot, redis, up>>
    BY <1>6, ApplyIs
  <2>2. ASSUME NEW t \in LongPeriods PROVE Counted(klines'[t], results, max + 1, now, t)
    BY <1>2, <2>1, AppliedCounted
  <2>3. ASSUME NEW t \in LongPeriods PROVE ToWrite(cache'[t], results, redis.max, max + 1, t)
    <3>1. Result1.prices # <<>> => CurWindowTime(Result1.ts, t) \in cache'[t]
      BY <2>1, NextResult, Moments, UpdatedAre
    <3>2. ToWrite(cache[t], results, redis.max, max, t) /\ cache[t] \subseteq cache'[t]
      BY <1>2, <2>1
    <3>3. \A i \in (redis.max + 1)..(max + 1) : i \in (redis.max + 1)..max \/ i = max + 1
      BY Counters
    <3>4. QED
      BY <3>1, <3>2, <3>3 DEF ToWrite, Result1
  <2>4. MemoryCounted'
    BY <2>1, <2>2, <2>3 DEF MemoryCounted
  <2>5. QED
    BY <1>3, <2>1, <2>4 DEF CountInv
<1>7. CASE CheckKlines
  <2>1. /\ up /\ \A t \in LongPeriods :
                   /\ klines'[t] = getCurrentKline(klines[t], now, t)
                   /\ cache'[t] = cache[t] \cup MissingWindows(klines[t], now, t)
        /\ UNCHANGED <<now, results, max, snapshot, redis, up>>
    BY <1>7, CheckKlinesIs
  <2>2. ASSUME NEW t \in LongPeriods
        PROVE  /\ Counted(klines'[t], results, max, now, t)
               /\ ToWrite(cache'[t], results, redis.max, max, t)
    <3>1. Counted(klines'[t], results, max, now, t)
      BY <1>2, <2>1, CurrentCounted
    <3>2. ToWrite(cache'[t], results, redis.max, max, t)
      BY <1>2, <2>1 DEF ToWrite
    <3>3. QED
      BY <3>1, <3>2
  <2>3. MemoryCounted'
    BY <2>1, <2>2 DEF MemoryCounted
  <2>4. QED
    BY <1>3, <2>1, <2>3 DEF CountInv
<1>8. CASE Clear
  <2>1. /\ up /\ \A t \in LongPeriods : klines'[t] =
                   Restrict(klines[t], DOMAIN klines[t] \ Released(klines[t], t))
        /\ UNCHANGED <<now, results, max, cache, snapshot, redis, up>>
    BY <1>8, ClearIs
  <2>2. ASSUME NEW t \in LongPeriods PROVE Counted(klines'[t], results, max, now, t)
    BY <1>2, <2>1, ClearedCounted
  <2>3. MemoryCounted'
    BY <1>2, <2>1, <2>2 DEF MemoryCounted
  <2>4. QED
    BY <1>3, <2>1, <2>3 DEF CountInv
<1>9. CASE BuildMarket \/ Crash \/ UNCHANGED vars
  <2>1. /\ UNCHANGED <<now, results, max, klines, cache, snapshot, redis>>
        /\ up' = up \/ up' = FALSE
    BY <1>9 DEF BuildMarket, Crash, vars, memory
  <2>2. MemoryCounted'
    BY <1>2, <2>1 DEF MemoryCounted
  <2>3. QED
    BY <1>3, <2>1, <2>2 DEF CountInv
<1>10. CASE Save
  <2>1. /\ up /\ \/ /\ IsWritten(redis', klines, cache) /\ \A t \in LongPeriods : cache'[t] = {}
                 \/ UNCHANGED <<redis, cache>>
        /\ UNCHANGED <<now, results, max, klines, snapshot, up>>
    BY <1>10, SaveIs
  <2>2. SnapshotCounted'
    BY <1>1, <2>1 DEF SnapshotCounted
  <2>3. CASE IsWritten(redis', klines, cache) /\ \A t \in LongPeriods : cache'[t] = {}
    <3>1. ASSUME NEW t \in LongPeriods
          PROVE  RedisCounts(redis', results, t) /\ ToWrite(cache'[t], results, redis'.max, max, t)
      <4>1. /\ RedisCounts(redis, results, t) /\ CountsOf(klines[t], results, max, t)
            /\ ToWrite(cache[t], results, redis.max, max, t)
        BY <1>1, <1>2, <2>1 DEF RedisCounted, Counted
      <4>2. RedisCounts(redis', results, t) /\ ToWrite({}, results, redis'.max, max, t)
        BY <2>3, <4>1, WrittenCounted
      <4>3. QED
        BY <2>3, <4>2
    <3>2. RedisCounted' /\ MemoryCounted'
      BY <1>2, <2>1, <3>1 DEF RedisCounted, MemoryCounted
    <3>3. QED
      BY <2>2, <3>2 DEF CountInv
  <2>4. CASE UNCHANGED <<redis, cache>>
    <3>1. MemoryCounted'
      BY <1>2, <2>1, <2>4 DEF MemoryCounted
    <3>2. QED
      BY <1>3, <2>1, <2>4, <3>1 DEF CountInv
  <2>5. QED
    BY <2>1, <2>3, <2>4
<1>11. CASE Snapshot
  <2>1. /\ up /\ UNCHANGED <<now, results, max, up>>
        /\ \A t \in LongPeriods : klines'[t] = getCurrentKline(klines[t], now, t)
        /\ \/ /\ IsWritten(redis', Current(now), Touched(now))
              /\ \A t \in LongPeriods : cache'[t] = {}
              /\ snapshot'.at = now /\ snapshot'.max = max
              /\ \A t \in LongPeriods : snapshot'.klines[t] =
                   TwoWindows(getCurrentKline(klines[t], now, t), t)
           \/ /\ \A t \in LongPeriods :
                   cache'[t] = cache[t] \cup MissingWindows(klines[t], now, t)
              /\ UNCHANGED <<redis, snapshot>>
    BY <1>11, SnapshotIs
  <2>2. \A t \in LongPeriods : /\ Counted(Current(now)[t], results, max, now, t)
                         /\ Counted(klines'[t], results, max, now, t)
                         /\ IsKlines(Current(now)[t])
                         /\ klines'[t] = Current(now)[t]
    <3>1. ASSUME NEW t \in LongPeriods PROVE Counted(klines'[t], results, max, now, t)
      BY <1>2, <2>1, CurrentCounted
    <3>2. QED
      BY <2>1, <3>1, CurrentAt, CurrentTyped
  <2>3. \A t \in LongPeriods :
          ToWrite(cache[t] \cup MissingWindows(klines[t], now, t), results, redis.max, max, t)
    BY <1>2, <2>1 DEF ToWrite
  <2>4. CASE /\ IsWritten(redis', Current(now), Touched(now))
             /\ \A t \in LongPeriods : cache'[t] = {}
             /\ snapshot'.at = now /\ snapshot'.max = max
             /\ \A t \in LongPeriods : snapshot'.klines[t] =
                  TwoWindows(getCurrentKline(klines[t], now, t), t)
    <3>1. ASSUME NEW t \in LongPeriods
          PROVE  RedisCounts(redis', results, t) /\ ToWrite(cache'[t], results, redis'.max, max, t)
      <4>1. /\ RedisCounts(redis, results, t) /\ CountsOf(Current(now)[t], results, max, t)
            /\ ToWrite(Touched(now)[t], results, redis.max, max, t)
        BY <1>1, <2>2, <2>3, CurrentAt DEF RedisCounted, Counted
      <4>2. RedisCounts(redis', results, t) /\ ToWrite({}, results, redis'.max, max, t)
        BY <2>4, <4>1, WrittenCounted
      <4>3. QED
        BY <2>4, <4>2
    <3>2. RedisCounted' /\ MemoryCounted'
      BY <2>1, <2>2, <3>1 DEF RedisCounted, MemoryCounted
    <3>3. Until(results, max, now)
      <4>1. \A i \in 1..max : i \in 1..Len(results)
        BY Counters
      <4>2. QED
        BY <4>1, EachResult DEF Until
    <3>4. ASSUME NEW t \in LongPeriods PROVE CountsOf(snapshot'.klines[t], results, max, t)
      <4>1. CountsOf(TwoWindows(Current(now)[t], t), results, max, t)
        BY <2>2, TwoWindowsCounted
      <4>2. QED
        BY <2>4, <4>1, CurrentAt
    <3>5. SnapshotCounted'
      BY <2>1, <2>4, <3>3, <3>4 DEF SnapshotCounted
    <3>6. QED
      BY <3>2, <3>5 DEF CountInv
  <2>5. CASE /\ \A t \in LongPeriods :
                  cache'[t] = cache[t] \cup MissingWindows(klines[t], now, t)
             /\ UNCHANGED <<redis, snapshot>>
    <3>1. MemoryCounted'
      BY <2>1, <2>2, <2>3, <2>5 DEF MemoryCounted
    <3>2. QED
      BY <1>3, <2>1, <2>5, <3>1 DEF CountInv
  <2>6. QED
    BY <2>1, <2>4, <2>5
<1>12. CASE Restart
  <2>1. /\ \A t \in LongPeriods : cache'[t] = {}
        /\ snapshot = NoSnapshot => max' = 0 /\ \A t \in LongPeriods : klines'[t] = <<>>
        /\ snapshot # NoSnapshot => max' = snapshot.max /\ klines' = snapshot.klines
        /\ UNCHANGED <<now, results, snapshot, redis>>
    BY <1>12, RestartIs
  <2>2. max' = SnapMax
    BY <2>1 DEF SnapMax
  <2>3. (redis.max + 1)..SnapMax = {}
    BY SnapMaxIs, Counters
  <2>4. ASSUME NEW t \in LongPeriods PROVE Counted(klines'[t], results, max', now, t)
    <3>1. CASE snapshot = NoSnapshot
      <4>1. max' = 0 /\ klines'[t] = <<>>
        BY <2>1, <3>1
      <4>2. Counted(<<>>, results, 0, now, t)
        BY CountNone, NoKlines DEF Counted, CountsOf, Reached, OnlyOld
      <4>3. QED
        BY <4>1, <4>2
    <3>2. CASE snapshot # NoSnapshot
      BY <1>1, <2>1, <3>2, RestoredCounted
    <3>3. QED
      BY <3>1, <3>2
  <2>5. ASSUME NEW t \in LongPeriods PROVE ToWrite(cache'[t], results, redis.max, max', t)
    BY <2>2, <2>3 DEF ToWrite
  <2>6. MemoryCounted'
    BY <2>1, <2>4, <2>5 DEF MemoryCounted
  <2>7. QED
    BY <1>3, <2>1, <2>6 DEF CountInv
<1>13. QED
  BY <1>4, <1>5, <1>6, <1>7, <1>8, <1>9, <1>10, <1>11, <1>12 DEF Next

LEMMA CountHolds ==
  ASSUME MemoryReachesBack
  PROVE  Spec => [](TypeInv /\ TimeInv /\ CountInv)
<1>1. Init => TypeInv /\ TimeInv /\ CountInv
  BY TypeInit, TimeInit, CountInit
<1>2. TypeInv /\ TimeInv /\ CountInv /\ [Next]_vars => TypeInv' /\ TimeInv' /\ CountInv'
  BY TypeStep, TimeStep, CountStep
<1>3. QED
  BY <1>1, <1>2, PTL DEF Spec

(* The klines of Redis count every fill of their window once, of every     *)
(* regular period no shorter than the lag, if a result is never older than *)
(* the lag when it is counted, for the first time or again after a         *)
(* restart, and the memory reaches back to it.  Redis may fail, the        *)
(* process may restart and a snapshot may be taken at any time, also of a  *)
(* memory that is still behind Redis (saveKlinesToRedis, takeSnapShot,     *)
(* the release of old klines).                                             *)
THEOREM RedisHolds ==
  ASSUME MemoryReachesBack
  PROVE  Spec => []RedisCountsOnce
<1>1. CountInv => RedisCountsOnce
  BY DEF CountInv, RedisCounted, RedisCounts, CountOf, RedisCountsOnce, FillsAt, CountIn
<1>2. QED
  BY <1>1, CountHolds, PTL

-----------------------------------------------------------------------------
(* What waits in the cache is in memory.  A window of the cache is not     *)
(* older than the last snapshot, or than a result that was counted since   *)
(* the cache was written: one minute ago for every failure of Redis.       *)

(* The failures before this minute.                                        *)
Carried(f, down) == IF down THEN f - 1 ELSE f

Recent(w, t, ts, sp, c) ==
  \/ w >= CurWindowTime(sp, t)
  \/ \E m \in 0..ts : w >= CurWindowTime(m, t) /\ ts - m <= MaxLag + c

FailuresCounted == Carried(failures, redisDown) \in 0..MaxFailures

CacheKept ==
  up => \A t \in Types : \A w \in cache[t] :
          w \in DOMAIN klines[t] /\ Recent(w, t, now, spTime, Carried(failures, redisDown))

SinceSnapshot ==
  up => \A t \in Types :
          DOMAIN klines[t] = {} \/ \E w \in DOMAIN klines[t] : w >= CurWindowTime(spTime, t)

KeptInv == FailuresCounted /\ CacheKept /\ SinceSnapshot

LEMMA StillRecent ==
  ASSUME NEW w, NEW t, NEW sp, NEW a \in Nat, NEW b \in Nat, NEW c \in Nat, NEW d \in Nat,
         Recent(w, t, a, sp, c), a <= b, b - a <= d - c
  PROVE  Recent(w, t, b, sp, d)
<1>1. CASE w >= CurWindowTime(sp, t)
  BY <1>1 DEF Recent
<1>2. CASE ~(w >= CurWindowTime(sp, t))
  <2>1. PICK m \in 0..a : w >= CurWindowTime(m, t) /\ a - m <= MaxLag + c
    BY <1>2 DEF Recent
  <2>2. m \in 0..b
    OBVIOUS
  <2>3. b - m <= MaxLag + d
    <3>1. MaxLag \in Nat /\ m \in Nat
      BY Bounds
    <3>2. QED
      BY <2>1, <3>1
  <2>4. QED
    BY <2>1, <2>2, <2>3 DEF Recent
<1>3. QED
  BY <1>1, <1>2

LEMMA CarriedIs ==
  ASSUME TypeInv, KeptInv
  PROVE  /\ Carried(failures, redisDown) \in Nat /\ Carried(failures, redisDown) <= MaxFailures
         /\ Carried(failures, redisDown) <= failures /\ failures \in Nat /\ failures <= MaxFailures
         /\ failures <= Carried(failures, redisDown) + 1
<1>1. Carried(failures, redisDown) \in 0..MaxFailures /\ failures \in Nat /\ failures <= MaxFailures
  BY Moments DEF KeptInv, FailuresCounted
<1>2. Carried(failures, redisDown) = failures \/ Carried(failures, redisDown) = failures - 1
  BY DEF Carried
<1>3. QED
  BY <1>1, <1>2, Bounds

(* The windows getCurrentKline adds are not older than the last snapshot.  *)
LEMMA MissingRecent ==
  ASSUME TypeInv, KeptInv, up, NEW t \in Types, NEW w \in MissingWindows(klines[t], now, t)
  PROVE  w >= CurWindowTime(spTime, t)
<1> DEFINE k == klines[t]
           s == CurWindowTime(spTime, t)
           c == CurWindowTime(now, t)
<1>1. IsKlines(k) /\ DOMAIN k \in SUBSET Int /\ now \in Nat /\ spTime \in Nat /\ spTime <= now
  BY Moments DEF TypeInv, KlinesTyped, IsKlines
<1>2. w \in Starts[t] /\ (\A v \in DOMAIN k : v < w) /\ (DOMAIN k = {} => w = c)
  BY <1>1, MissingAre
<1>3. w \in Int
  BY <1>2, QuotesAssumption
<1>4. s <= c /\ s \in 0..spTime /\ c \in 0..now
  BY <1>1, LaterWindow, WindowIs
<1>5. DOMAIN k = {} \/ \E v \in DOMAIN k : v >= s
  BY DEF KeptInv, SinceSnapshot
<1> HIDE DEF k, s, c
<1>6. CASE DOMAIN k = {}
  BY <1>1, <1>2, <1>4, <1>6 DEF s
<1>7. CASE DOMAIN k # {}
  <2>1. PICK v \in DOMAIN k : v >= s
    BY <1>5, <1>7
  <2>2. v < w /\ v \in Int
    BY <1>1, <1>2
  <2>3. s \in Int
    BY <1>1, <1>4
  <2>4. w >= s
    BY <1>3, <2>1, <2>2, <2>3
  <2>5. QED
    BY <2>4 DEF s
<1>8. QED
  BY <1>6, <1>7

(* Nor are those a result is added to older than what was never counted.   *)
LEMMA UpdatedRecent ==
  ASSUME TypeInv, TimeInv, KeptInv, up, max < Len(results), NEW t \in Types,
         NEW w \in UpdatedWindows(Result1, now, t)
  PROVE  Recent(w, t, now, spTime, Carried(failures, redisDown))
<1> DEFINE m == Result1.ts
           c == Carried(failures, redisDown)
<1>1. m \in Nat /\ m <= now /\ max + 1 \in 1..Len(results) /\ now \in Nat /\ m = results[max + 1].ts
  BY NextResult, Moments DEF Result1
<1>2. c \in Nat
  BY CarriedIs
<1>3. w >= CurWindowTime(m, t)
  <2>1. CurWindowTime(m, t) <= w /\ w \in Starts[t]
    BY AppliedWindows
  <2>2. CurWindowTime(m, t) \in 0..m
    BY <1>1, WindowIs
  <2> HIDE DEF m
  <2>3. CurWindowTime(m, t) \in Int /\ w \in Int
    BY <1>1, <2>1, <2>2, QuotesAssumption
  <2>4. QED
    BY <2>1, <2>3
<1>4. m \in 0..now
  BY <1>1
<1>5. now - m <= MaxLag + c
  <2>1. m >= now - MaxLag
    <3>1. max + 1 > max /\ DoneMax = max
      BY Counters DEF DoneMax
    <3>2. QED
      BY <1>1, <3>1 DEF TimeInv, Realtime, After
  <2> HIDE DEF m, c
  <2>2. QED
    BY <1>1, <1>2, <2>1, Bounds
<1> HIDE DEF m, c
<1>6. Recent(w, t, now, spTime, c)
  BY <1>3, <1>4, <1>5 DEF Recent
<1>7. QED
  BY <1>6 DEF c

(* Clear releases nothing recent.                                          *)
LEMMA RecentIsKept ==
  ASSUME CacheReachesBack, TypeInv, TimeInv, KeptInv, up, NEW t \in Types,
         NEW w \in DOMAIN klines[t],
         Recent(w, t, now, spTime, Carried(failures, redisDown))
  PROVE  w \notin Released(klines[t], t)
<1> DEFINE k == klines[t]
           c == Carried(failures, redisDown)
           F == {v \in DOMAIN k : v >= w}
           s == CurWindowTime(spTime, t)
<1>1. SUFFICES ASSUME Cardinality(F) > Keep, w < s PROVE FALSE
  BY DEF Released
<1>2. /\ DOMAIN k \in SUBSET Int /\ now \in Nat /\ spTime \in Nat /\ Keep \in Nat
      /\ Starts[t] \in SUBSET Int
  BY Moments, Bounds, QuotesAssumption DEF TypeInv, KlinesTyped, IsKlines
<1>3. /\ \A v \in DOMAIN k : v <= CurWindowTime(now, t)
      /\ Regular(t) => \A v \in DOMAIN k : v \in Starts[t]
  BY DEF TimeInv, MemoryWindows, AreWindows
<1>4. CurWindowTime(now, t) \in 0..now /\ s \in 0..spTime
  BY <1>2, WindowIs
<1>5. w \in Int /\ s \in Int
  BY <1>2, <1>4
<1>6. ~(w >= s)
  <2> HIDE DEF s
  <2>1. QED
    BY <1>1, <1>5
<1>7. PICK m \in 0..now : w >= CurWindowTime(m, t) /\ now - m <= MaxLag + c
  BY <1>6 DEF Recent
<1>8. c \in Nat /\ c <= MaxFailures
  BY CarriedIs
<1>9. m \in Nat /\ m <= now
  BY <1>2
<1> HIDE DEF c, s
<1>10. 1 + now - m + (IF Regular(t) THEN 0 ELSE 1) <= Keep
  <2> DEFINE e == IF Regular(t) THEN 0 ELSE 1
  <2>1. MaxLag + MaxFailures + e < Keep
    BY DEF CacheReachesBack
  <2>2. MaxLag \in Nat /\ MaxFailures \in Nat /\ e \in Nat
    BY Bounds
  <2> HIDE DEF e
  <2>3. 1 + now - m + e <= Keep
    BY <1>2, <1>7, <1>8, <1>9, <2>1, <2>2
  <2>4. QED
    BY <2>3 DEF e
<1>11. \A v \in F : v >= w /\ v \in Int /\ v <= CurWindowTime(now, t)
  BY <1>2, <1>3
<1>12. PICK x \in Int : \A v \in F : v \in Starts[t] \/ v = x
  BY DEF TimeInv, MemoryWindows, AreWindows
<1>13. Regular(t) => F \in SUBSET Starts[t]
  BY <1>3
<1> HIDE DEF F
<1>14. \A v \in F : v >= CurWindowTime(m, t) /\ v <= now
  <2>1. CurWindowTime(m, t) \in 0..m
    BY <1>9, WindowIs
  <2>2. CurWindowTime(m, t) \in Int /\ CurWindowTime(now, t) \in Int
    BY <1>2, <1>4, <1>9, <2>1
  <2>3. QED
    BY <1>2, <1>4, <1>5, <1>7, <1>11, <2>2
<1>15. CASE Regular(t)
  <2>1. Cardinality(F) \in Nat /\ Cardinality(F) <= 1 + now - m
    BY <1>2, <1>9, <1>13, <1>14, <1>15, FewWindows
  <2>2. QED
    BY <1>1, <1>2, <1>9, <1>10, <1>15, <2>1
<1>16. CASE ~Regular(t)
  <2> DEFINE G == F \ {x}
  <2>1. G \in SUBSET Starts[t] /\ (\A v \in G : v >= CurWindowTime(m, t) /\ v <= now)
        /\ F \subseteq G \cup {x} /\ x \notin G
    BY <1>12, <1>14
  <2> HIDE DEF G
  <2>2. IsFiniteSet(G) /\ Cardinality(G) \in Nat /\ Cardinality(G) <= 1 + now - m
    BY <1>2, <1>9, <2>1, FewWindows
  <2> DEFINE B == G \cup {x}
  <2>3. IsFiniteSet(B) /\ Cardinality(B) = Cardinality(G) + 1
    BY <2>1, <2>2, FS_AddElement
  <2>4. F \in SUBSET B
    BY <2>1
  <2> HIDE DEF B
  <2>5. IsFiniteSet(F) /\ Cardinality(F) <= Cardinality(B)
    BY <2>3, <2>4, FS_Subset
  <2>6. Cardinality(F) \in Nat
    BY <2>5, FS_CardinalityType
  <2>7. 1 + now - m + 1 <= Keep
    BY <1>10, <1>16
  <2>8. QED
    BY <1>1, <1>2, <1>9, <2>2, <2>3, <2>5, <2>6, <2>7
<1>17. QED
  BY <1>15, <1>16

LEMMA KeptInit ==
  Init => KeptInv
<1> SUFFICES ASSUME Init PROVE KeptInv
  OBVIOUS
<1>1. /\ max = 0 /\ failures = 0 /\ redisDown = FALSE /\ up = TRUE
      /\ \A t \in Types : klines[t] = <<>> /\ cache[t] = {}
  BY DEF Init
<1>2. Carried(failures, redisDown) = 0
  BY <1>1 DEF Carried
<1>3. FailuresCounted
  BY <1>1, <1>2, Bounds DEF FailuresCounted
<1>4. CacheKept /\ SinceSnapshot
  BY <1>1, NoKlines DEF CacheKept, SinceSnapshot
<1>5. QED
  BY <1>3, <1>4 DEF KeptInv

LEMMA KeptStep ==
  ASSUME CacheReachesBack
  PROVE  TypeInv /\ TimeInv /\ KeptInv /\ [Next]_vars => KeptInv'
<1> SUFFICES ASSUME TypeInv, TimeInv, KeptInv, [Next]_vars PROVE KeptInv'
  OBVIOUS
<1> DEFINE c == Carried(failures, redisDown)
<1>1. FailuresCounted /\ CacheKept /\ SinceSnapshot
  BY DEF KeptInv
<1>2. /\ c \in Nat /\ c <= MaxFailures /\ c <= failures /\ failures \in Nat /\ failures <= MaxFailures
      /\ failures <= c + 1
  BY <1>1, CarriedIs DEF FailuresCounted
<1>3. up => \A t \in Types : \A w \in cache[t] :
               w \in DOMAIN klines[t] /\ Recent(w, t, now, spTime, c)
  BY <1>1 DEF CacheKept
<1>4. ASSUME UNCHANGED <<failures, redisDown>>
      PROVE  FailuresCounted'
  BY <1>1, <1>4 DEF FailuresCounted
<1>5. now \in Nat /\ redisDown \in BOOLEAN /\ MaxFailures \in Nat
  BY Moments, Bounds DEF TypeInv, ClocksTyped
<1>6. CASE Clock
  <2>1. /\ now' = now + 1
        /\ up => redisDown \/ \A t \in Types : cache[t] = {}
        /\ redisDown' = FALSE
        /\ UNCHANGED <<failures, max, klines, cache, spTime, up>>
    BY <1>6 DEF Clock, memory
  <2>2. Carried(failures', redisDown') = failures
    BY <2>1 DEF Carried
  <2>3. redisDown => failures = c + 1
    BY <1>2 DEF Carried
  <2> HIDE DEF c
  <2>4. FailuresCounted'
    <3>1. failures \in 0..MaxFailures
      BY <1>2, <1>5
    <3>2. QED
      BY <2>1, <2>2, <3>1 DEF FailuresCounted
  <2>5. ASSUME up, NEW t \in Types, NEW w \in cache[t]
        PROVE  w \in DOMAIN klines[t] /\ Recent(w, t, now + 1, spTime, failures)
    <3>1. failures = c + 1
      BY <2>1, <2>3, <2>5
    <3>2. w \in DOMAIN klines[t] /\ Recent(w, t, now, spTime, c)
      BY <1>3, <2>5
    <3>3. /\ now + 1 \in Nat /\ c + 1 \in Nat /\ now <= now + 1
          /\ (now + 1) - now <= (c + 1) - c
      BY <1>2, <1>5
    <3>4. Recent(w, t, now + 1, spTime, c + 1)
      BY <1>2, <1>5, <3>2, <3>3, StillRecent
    <3>5. QED
      BY <3>1, <3>2, <3>4
  <2>6. CacheKept'
    BY <2>1, <2>2, <2>5 DEF CacheKept
  <2>7. SinceSnapshot'
    BY <1>1, <2>1 DEF SinceSnapshot
  <2>8. QED
    BY <2>4, <2>6, <2>7 DEF KeptInv
<1>7. CASE Result \/ BuildMarket \/ UNCHANGED vars
  <2>1. UNCHANGED <<now, max, klines, cache, spTime, redisDown, failures, up>>
    BY <1>7 DEF Result, BuildMarket, vars, memory
  <2>2. QED
    BY <1>1, <2>1 DEF KeptInv, FailuresCounted, CacheKept, SinceSnapshot
<1>8. CASE Apply
  <2>1. /\ up /\ max < Len(results) /\ max' = max + 1
        /\ \A t \in Types :
              /\ klines'[t] = updateKline(getCurrentKline(klines[t], now, t), Result1, now, t)
              /\ cache'[t] = (cache[t] \cup MissingWindows(klines[t], now, t))
                               \cup UpdatedWindows(Result1, now, t)
        /\ UNCHANGED <<now, spTime, redisDown, failures, up>>
    BY <1>8, ApplyIs
  <2>2. FailuresCounted'
    BY <1>1, <2>1 DEF FailuresCounted
  <2>3. ASSUME NEW t \in Types
        PROVE  /\ CurWindowTime(now, t) \in DOMAIN klines'[t]
               /\ \A w \in cache'[t] : w \in DOMAIN klines'[t] /\ Recent(w, t, now, spTime, c)
    <3> DEFINE M == MissingWindows(klines[t], now, t)
               U == UpdatedWindows(Result1, now, t)
    <3>1. /\ DOMAIN klines'[t] = (DOMAIN klines[t] \cup M) \cup U
          /\ CurWindowTime(now, t) \in DOMAIN klines'[t]
      BY <2>1, AppliedWindows, CurrentWindows
    <3>2. \A w \in M : Recent(w, t, now, spTime, c)
      BY <2>1, MissingRecent DEF Recent
    <3>3. \A w \in U : Recent(w, t, now, spTime, c)
      BY <2>1, UpdatedRecent
    <3>4. cache'[t] = (cache[t] \cup M) \cup U
      BY <2>1
    <3> HIDE DEF M, U, c
    <3>5. QED
      BY <1>3, <2>1, <3>1, <3>2, <3>3, <3>4
  <2>4. CacheKept'
    BY <2>1, <2>3 DEF CacheKept
  <2>5. SinceSnapshot'
    <3>1. \A t \in Types : CurWindowTime(now, t) >= CurWindowTime(spTime, t)
      <4>1. ASSUME NEW t \in Types PROVE CurWindowTime(now, t) >= CurWindowTime(spTime, t)
        <5>1. spTime \in Nat /\ spTime <= now
          BY Moments
        <5>2. /\ CurWindowTime(spTime, t) <= CurWindowTime(now, t)
              /\ CurWindowTime(spTime, t) \in 0..spTime /\ CurWindowTime(now, t) \in 0..now
          BY <1>5, <5>1, LaterWindow, WindowIs
        <5>3. CurWindowTime(spTime, t) \in Int /\ CurWindowTime(now, t) \in Int
          BY <1>5, <5>1, <5>2
        <5>4. QED
          BY <5>2, <5>3
      <4>2. QED
        BY <4>1
    <3>2. QED
      BY <2>1, <2>3, <3>1 DEF SinceSnapshot
  <2>6. QED
    BY <2>2, <2>4, <2>5 DEF KeptInv
<1>9. ASSUME NEW t \in Types, up
      PROVE  LET g == getCurrentKline(klines[t], now, t)
                 M == MissingWindows(klines[t], now, t)
             IN  /\ DOMAIN klines[t] \subseteq DOMAIN g
                 /\ CurWindowTime(now, t) \in DOMAIN g
                 /\ CurWindowTime(now, t) >= CurWindowTime(spTime, t)
                 /\ \A w \in cache[t] \cup M : w \in DOMAIN g /\ Recent(w, t, now, spTime, c)
  <2> DEFINE g == getCurrentKline(klines[t], now, t)
             M == MissingWindows(klines[t], now, t)
  <2>1. DOMAIN g = DOMAIN klines[t] \cup M /\ CurWindowTime(now, t) \in DOMAIN g
    BY <1>9, CurrentWindows
  <2>2. \A w \in M : Recent(w, t, now, spTime, c)
    BY <1>9, MissingRecent DEF Recent
  <2>3. CurWindowTime(now, t) >= CurWindowTime(spTime, t)
    <3>1. spTime \in Nat /\ spTime <= now
      BY Moments
    <3>2. /\ CurWindowTime(spTime, t) <= CurWindowTime(now, t)
          /\ CurWindowTime(spTime, t) \in 0..spTime /\ CurWindowTime(now, t) \in 0..now
      BY <1>5, <3>1, LaterWindow, WindowIs
    <3>3. CurWindowTime(spTime, t) \in Int /\ CurWindowTime(now, t) \in Int
      BY <1>5, <3>1, <3>2
    <3>4. QED
      BY <3>2, <3>3
  <2> HIDE DEF g, M, c
  <2>4. \A w \in cache[t] \cup M : w \in DOMAIN g /\ Recent(w, t, now, spTime, c)
    BY <1>3, <1>9, <2>1, <2>2
  <2>5. DOMAIN klines[t] \subseteq DOMAIN g
    BY <2>1
  <2>6. QED
    BY <2>1, <2>3, <2>4, <2>5 DEF g, M
<1>10. CASE CheckKlines
  <2>1. /\ up /\ \A t \in Types :
                   /\ klines'[t] = getCurrentKline(klines[t], now, t)
                   /\ cache'[t] = cache[t] \cup MissingWindows(klines[t], now, t)
        /\ UNCHANGED <<now, max, spTime, redisDown, failures, up>>
    BY <1>10, CheckKlinesIs
  <2>2. CacheKept'
    BY <1>9, <2>1 DEF CacheKept
  <2>3. SinceSnapshot'
    BY <1>9, <2>1 DEF SinceSnapshot
  <2>4. QED
    BY <1>4, <2>1, <2>2, <2>3 DEF KeptInv
<1>11. CASE Clear
  <2>1. /\ up /\ \A t \in Types : klines'[t] =
                   Restrict(klines[t], DOMAIN klines[t] \ Released(klines[t], t))
        /\ UNCHANGED <<now, max, cache, spTime, redisDown, failures, up>>
    BY <1>11, ClearIs
  <2>2. \A t \in Types : DOMAIN klines'[t] = DOMAIN klines[t] \ Released(klines[t], t)
    BY <2>1 DEF Restrict
  <2>3. CacheKept'
    <3>1. ASSUME NEW t \in Types, NEW w \in cache[t]
          PROVE  w \in DOMAIN klines'[t] /\ Recent(w, t, now, spTime, c)
      <4>1. w \in DOMAIN klines[t] /\ Recent(w, t, now, spTime, c)
        BY <1>3, <2>1
      <4>2. w \notin Released(klines[t], t)
        BY <2>1, <4>1, RecentIsKept
      <4>3. QED
        BY <2>2, <4>1, <4>2
    <3>2. QED
      BY <2>1, <3>1 DEF CacheKept
  <2>4. SinceSnapshot'
    <3>1. ASSUME NEW t \in Types
          PROVE  \/ DOMAIN klines'[t] = {}
                 \/ \E w \in DOMAIN klines'[t] : w >= CurWindowTime(spTime, t)
      <4>1. CASE DOMAIN klines[t] = {}
        BY <2>2, <4>1
      <4>2. CASE DOMAIN klines[t] # {}
        <5>1. PICK w \in DOMAIN klines[t] : w >= CurWindowTime(spTime, t)
          BY <1>1, <2>1, <4>2 DEF SinceSnapshot
        <5>2. w \notin Released(klines[t], t)
          <6>1. CurWindowTime(spTime, t) \in 0..spTime /\ spTime \in Nat
            BY Moments, WindowIs
          <6>2. w \in Int
            BY DEF TypeInv, KlinesTyped, IsKlines
          <6>3. ~(w < CurWindowTime(spTime, t))
            BY <5>1, <6>1, <6>2
          <6>4. QED
            BY <6>3 DEF Released
        <5>3. QED
          BY <2>2, <5>1, <5>2
      <4>3. QED
        BY <4>1, <4>2
    <3>2. QED
      BY <2>1, <3>1 DEF SinceSnapshot
  <2>5. QED
    BY <1>4, <2>1, <2>3, <2>4 DEF KeptInv
<1>12. ASSUME failures < MaxFailures, failures' = failures + 1, redisDown' = TRUE
       PROVE  Carried(failures', redisDown') = failures
  <2>1. Carried(failures', redisDown') = (failures + 1) - 1
    BY <1>12 DEF Carried
  <2>2. QED
    BY <1>2, <2>1
<1>13. ASSUME NEW w, NEW t, Recent(w, t, now, spTime, c)
       PROVE  Recent(w, t, now, spTime, failures)
  <2>1. now - now <= failures - c /\ now <= now
    BY <1>2, <1>5
  <2> HIDE DEF c
  <2>2. QED
    BY <1>2, <1>5, <1>13, <2>1, StillRecent
<1>14. ASSUME Carried(failures', redisDown') = failures
       PROVE  FailuresCounted'
  <2>1. failures \in 0..MaxFailures
    BY <1>2, <1>5
  <2>2. QED
    BY <1>14, <2>1 DEF FailuresCounted
<1>15. CASE Save
  <2>1. /\ up
        /\ \/ (\A t \in Types : cache'[t] = {}) /\ UNCHANGED <<redisDown, failures>>
           \/ /\ failures < MaxFailures /\ failures' = failures + 1 /\ redisDown' = TRUE
              /\ UNCHANGED cache
        /\ UNCHANGED <<now, max, klines, spTime, up>>
    BY <1>15, SaveIs
  <2>2. SinceSnapshot'
    BY <1>1, <2>1 DEF SinceSnapshot
  <2>3. CASE (\A t \in Types : cache'[t] = {}) /\ UNCHANGED <<redisDown, failures>>
    <3>1. CacheKept'
      BY <2>3 DEF CacheKept
    <3>2. QED
      BY <1>4, <2>1, <2>2, <2>3, <3>1 DEF KeptInv
  <2>4. CASE /\ failures < MaxFailures /\ failures' = failures + 1 /\ redisDown' = TRUE
             /\ UNCHANGED cache
    <3>1. Carried(failures', redisDown') = failures
      BY <1>12, <2>4
    <3>2. CacheKept'
      BY <1>3, <1>13, <2>1, <2>4, <3>1 DEF CacheKept
    <3>3. FailuresCounted'
      BY <1>14, <2>1, <3>1
    <3>4. QED
      BY <2>2, <3>2, <3>3 DEF KeptInv
  <2>5. QED
    BY <2>1, <2>3, <2>4
<1>16. CASE Snapshot
  <2>1. /\ up /\ \A t \in Types : klines'[t] = getCurrentKline(klines[t], now, t)
        /\ \/ (\A t \in Types : cache'[t] = {}) /\ spTime' = now /\ UNCHANGED <<redisDown, failures>>
           \/ /\ failures < MaxFailures /\ failures' = failures + 1 /\ redisDown' = TRUE
              /\ \A t \in Types :
                   cache'[t] = cache[t] \cup MissingWindows(klines[t], now, t)
              /\ UNCHANGED spTime
        /\ UNCHANGED <<now, max, up>>
    BY <1>16, SnapshotIs
  <2>2. CASE (\A t \in Types : cache'[t] = {}) /\ spTime' = now /\ UNCHANGED <<redisDown, failures>>
    <3>1. CacheKept'
      BY <2>2 DEF CacheKept
    <3>2. SinceSnapshot'
      <4>1. ASSUME NEW t \in Types
            PROVE  /\ CurWindowTime(now, t) \in DOMAIN klines'[t]
                   /\ CurWindowTime(now, t) >= CurWindowTime(now, t)
        <5>1. CurWindowTime(now, t) \in 0..now
          BY <1>5, WindowIs
        <5>2. CurWindowTime(now, t) >= CurWindowTime(now, t)
          BY <1>5, <5>1
        <5>3. QED
          BY <1>9, <2>1, <5>2
      <4>2. QED
        BY <2>1, <2>2, <4>1 DEF SinceSnapshot
    <3>3. QED
      BY <1>4, <2>1, <2>2, <3>1, <3>2 DEF KeptInv
  <2>3. CASE /\ failures < MaxFailures /\ failures' = failures + 1 /\ redisDown' = TRUE
             /\ \A t \in Types :
                  cache'[t] = cache[t] \cup MissingWindows(klines[t], now, t)
             /\ UNCHANGED spTime
    <3>1. Carried(failures', redisDown') = failures
      BY <1>12, <2>3
    <3>2. ASSUME NEW t \in Types, NEW w \in cache'[t]
          PROVE  w \in DOMAIN klines'[t] /\ Recent(w, t, now, spTime, failures)
      <4>1. w \in DOMAIN klines'[t] /\ Recent(w, t, now, spTime, c)
        BY <1>9, <2>1, <2>3, <3>2
      <4>2. QED
        BY <1>13, <4>1
    <3>3. CacheKept'
      BY <2>1, <2>3, <3>1, <3>2 DEF CacheKept
    <3>4. SinceSnapshot'
      BY <1>9, <2>1, <2>3 DEF SinceSnapshot
    <3>5. FailuresCounted'
      BY <1>14, <2>1, <3>1
    <3>6. QED
      BY <3>3, <3>4, <3>5 DEF KeptInv
  <2>4. QED
    BY <2>1, <2>2, <2>3
<1>17. CASE Crash
  <2>1. up' = FALSE /\ UNCHANGED <<redisDown, failures>>
    BY <1>17 DEF Crash
  <2>2. CacheKept' /\ SinceSnapshot'
    BY <2>1 DEF CacheKept, SinceSnapshot
  <2>3. QED
    BY <1>4, <2>1, <2>2 DEF KeptInv
<1>18. CASE Restart
  <2>1. /\ ~up /\ \A t \in Types : cache'[t] = {}
        /\ snapshot = NoSnapshot => \A t \in Types : klines'[t] = <<>>
        /\ snapshot # NoSnapshot => spTime' = snapshot.at /\ klines' = snapshot.klines
        /\ UNCHANGED <<now, redisDown, failures>>
    BY <1>18, RestartIs
  <2>2. FailuresCounted'
    BY <1>1, <2>1 DEF FailuresCounted
  <2>3. CacheKept'
    BY <2>1 DEF CacheKept
  <2>4. ASSUME NEW t \in Types
        PROVE  \/ DOMAIN klines'[t] = {}
               \/ \E w \in DOMAIN klines'[t] : w >= CurWindowTime(spTime', t)
    <3>1. CASE snapshot = NoSnapshot
      BY <2>1, <3>1, NoKlines
    <3>2. CASE snapshot # NoSnapshot
      <4> DEFINE s == CurWindowTime(snapshot.at, t)
      <4>1. s \in DOMAIN klines'[t] /\ spTime' = snapshot.at
        BY <2>1, <3>2 DEF TimeInv, SnapshotWindows
      <4>2. s \in 0..(snapshot.at) /\ snapshot.at \in Nat
        BY Moments, WindowIs
      <4>3. s >= s
        BY <4>2
      <4>4. QED
        BY <4>1, <4>3
    <3>3. QED
      BY <3>1, <3>2
  <2>5. SinceSnapshot'
    BY <2>4 DEF SinceSnapshot
  <2>6. QED
    BY <2>2, <2>3, <2>5 DEF KeptInv
<1>19. QED
  BY <1>6, <1>7, <1>8, <1>10, <1>11, <1>15, <1>16, <1>17, <1>18 DEF Next

LEMMA KeptHolds ==
  ASSUME CacheReachesBack
  PROVE  Spec => [](TypeInv /\ TimeInv /\ KeptInv)
<1>1. Init => TypeInv /\ TimeInv /\ KeptInv
  BY TypeInit, TimeInit, KeptInit
<1>2. TypeInv /\ TimeInv /\ KeptInv /\ [Next]_vars => TypeInv' /\ TimeInv' /\ KeptInv'
  BY TypeStep, TimeStep, KeptStep
<1>3. QED
  BY <1>1, <1>2, PTL DEF Spec

(* Whatever waits to be written to Redis is in memory when it is written,  *)
(* for every period: the hourly release never takes a kline that the cache *)
(* names, so saveKlinesToRedis does not stop the process, if the memory    *)
(* reaches back over the lag of a result, when it is counted or counted    *)
(* again, and the minutes in which Redis fails (l2quote.go:236,            *)
(* redis_ops.go:38).                                                       *)
THEOREM CacheHolds ==
  ASSUME CacheReachesBack
  PROVE  Spec => []KeptUntilSaved
<1>1. KeptInv => KeptUntilSaved
  BY DEF KeptInv, CacheKept, KeptUntilSaved, Savable
<1>2. QED
  BY <1>1, KeptHolds, PTL

-----------------------------------------------------------------------------
(* The prices of the klines.  A bar with fills has exactly theirs, as long *)
(* as the results come in the order of their times.                        *)

BarOf(fills) ==
  [open |-> Head(fills), close |-> Last(fills), high |-> Max(Range(fills)),
   low |-> Min(Range(fills)), count |-> Len(fills)]

Fits(b, fills) == fills # <<>> => b = BarOf(fills)

FitsAll(k, rs, n, t) == \A w \in DOMAIN k : Fits(k[w], FillsOf(rs, n, Minutes(w, t)))

MemoryFits ==
  up /\ InOrder => \A t \in LongPeriods : FitsAll(klines[t], results, max, t)

SnapshotFits ==
  snapshot # NoSnapshot /\ InOrder =>
    \A t \in LongPeriods : FitsAll(snapshot.klines[t], results, snapshot.max, t)

FitInv == MemoryFits /\ SnapshotFits

(* The ends of two sequences put together.                                 *)
LEMMA Joined ==
  ASSUME NEW a \in Seq(Numbers), NEW b \in Seq(Numbers), a # <<>>, b # <<>>
  PROVE  /\ Head(a \o b) = Head(a) /\ Last(a \o b) = Last(b)
         /\ Range(a \o b) = Range(a) \cup Range(b)
         /\ Len(a \o b) = Len(a) + Len(b)
<1>1. Len(a) \in Nat /\ Len(b) \in Nat /\ Len(a) > 0 /\ Len(b) > 0
  BY LenProperties, EmptySeq
<1>2. /\ a \o b \in Seq(Numbers) /\ Len(a \o b) = Len(a) + Len(b)
      /\ \A i \in 1..(Len(a) + Len(b)) :
           (a \o b)[i] = IF i <= Len(a) THEN a[i] ELSE b[i - Len(a)]
  BY ConcatProperties
<1>3. (a \o b)[1] = a[1]
  BY <1>1, <1>2
<1>4. Head(a) = a[1] /\ Head(a \o b) = (a \o b)[1]
  BY <1>1, <1>2
<1>5. (a \o b)[Len(a) + Len(b)] = b[Len(b)]
  <2> DEFINE m == Len(a)
             n == Len(b)
  <2>1. m + n \in 1..(m + n) /\ ~(m + n <= m) /\ (m + n) - m = n
    BY <1>1
  <2>2. QED
    BY <1>2, <2>1
<1>6. Last(a \o b) = Last(b)
  BY <1>2, <1>5 DEF Last
<1>7. Range(a \o b) = Range(a) \cup Range(b)
  BY RangeConcatenation
<1>8. QED
  BY <1>2, <1>3, <1>4, <1>6, <1>7

LEMMA MaxJoined ==
  ASSUME NEW S \in SUBSET Nat, NEW T \in SUBSET Nat, IsFiniteSet(S), IsFiniteSet(T), S # {}
  PROVE  Max(T \cup {Max(S)}) = Max(S \cup T)
<1> DEFINE m == Max(S)
           U == T \cup {m}
           x == Max(U)
<1>1. m \in S /\ (\A y \in S : y <= m) /\ m \in Nat
  <2>1. S \in SUBSET Int
    OBVIOUS
  <2>2. QED
    BY <2>1, MaxOfFinite
<1> HIDE DEF m
<1>2. IsFiniteSet(U) /\ U \in SUBSET Int /\ U # {}
  BY <1>1, FS_AddElement
<1> HIDE DEF U
<1>3. x \in U /\ \A y \in U : y <= x
  BY <1>2, MaxOfFinite
<1> HIDE DEF x
<1>4. x \in S \cup T /\ x \in Nat
  BY <1>1, <1>3 DEF U
<1>5. m <= x /\ \A y \in T : y <= x
  BY <1>3 DEF U
<1>6. \A y \in S \cup T : y <= x
  <2>1. ASSUME NEW y \in S PROVE y <= x
    <3>1. y \in Nat /\ y <= m
      BY <1>1
    <3>2. QED
      BY <1>1, <1>4, <1>5, <3>1
  <2>2. QED
    BY <1>5, <2>1
<1>7. S \cup T \in SUBSET Int
  OBVIOUS
<1>8. Max(S \cup T) = x
  BY <1>4, <1>6, <1>7, MaxIsUnique
<1>9. QED
  BY <1>8 DEF x, U, m

LEMMA MinJoined ==
  ASSUME NEW S \in SUBSET Nat, NEW T \in SUBSET Nat, S # {}
  PROVE  Min(T \cup {Min(S)}) = Min(S \cup T)
<1> DEFINE m == Min(S)
           U == T \cup {m}
           x == Min(U)
<1>1. m \in S /\ (\A y \in S : m <= y) /\ m \in Nat
  BY MinOfNumbers
<1> HIDE DEF m
<1>2. U \in SUBSET Nat /\ U # {}
  BY <1>1
<1> HIDE DEF U
<1>3. x \in U /\ \A y \in U : x <= y
  BY <1>2, MinOfNumbers
<1> HIDE DEF x
<1>4. x \in S \cup T /\ x \in Nat
  BY <1>1, <1>3 DEF U
<1>5. x <= m /\ \A y \in T : x <= y
  BY <1>3 DEF U
<1>6. \A y \in S \cup T : x <= y
  <2>1. ASSUME NEW y \in S PROVE x <= y
    <3>1. y \in Nat /\ m <= y
      BY <1>1
    <3>2. QED
      BY <1>1, <1>4, <1>5, <3>1
  <2>2. QED
    BY <1>5, <2>1
<1>7. S \cup T \in SUBSET Int
  OBVIOUS
<1>8. Min(S \cup T) = x
  BY <1>4, <1>6, <1>7, MinIsUnique
<1>9. QED
  BY <1>8 DEF x, U, m

(* A bar with its fills has the new ones too when they are added.          *)
LEMMA TradedFits ==
  ASSUME NEW b \in Bars, NEW fills \in Seq(Numbers), b.count = Len(fills), Fits(b, fills),
         NEW ps \in Fills, ps # <<>>
  PROVE  Fits(Traded(b, ps), fills \o ps)
<1>1. ps \in Seq(Numbers) /\ Len(ps) \in Nat /\ Len(ps) > 0
  BY FillsAreSeqs
<1>2. Traded(b, ps) =
        [open |-> IF b.count = 0 THEN Head(ps) ELSE b.open, close |-> Last(ps),
         high |-> Max(Seen(b, ps)), low |-> Min(SeenLow(b, ps)),
         count |-> b.count + Len(ps)]
  BY TradedIs
<1>3. CASE fills = <<>>
  <2>1. b.count = 0 /\ fills \o ps = ps
    BY <1>1, <1>3, EmptySeq, ConcatEmptySeq
  <2>2. Seen(b, ps) = Range(ps) /\ SeenLow(b, ps) = Range(ps)
    BY <2>1 DEF Seen, SeenLow
  <2>3. b.count + Len(ps) = Len(ps)
    BY <1>1, <2>1
  <2>4. Traded(b, ps) = BarOf(ps)
    BY <1>2, <2>1, <2>2, <2>3 DEF BarOf
  <2>5. QED
    BY <2>1, <2>4 DEF Fits
<1>4. CASE fills # <<>>
  <2>1. b = BarOf(fills)
    BY <1>4 DEF Fits
  <2>2. /\ b.open = Head(fills) /\ b.high = Max(Range(fills)) /\ b.low = Min(Range(fills))
        /\ b.count = Len(fills)
    BY <2>1 DEF BarOf
  <2>3. b.count # 0
    BY <1>4, <2>2, Prices
  <2>4. /\ Head(fills \o ps) = Head(fills) /\ Last(fills \o ps) = Last(ps)
        /\ Range(fills \o ps) = Range(fills) \cup Range(ps)
        /\ Len(fills \o ps) = Len(fills) + Len(ps)
    BY <1>1, <1>4, Joined
  <2>5. /\ Range(fills) \in SUBSET Nat /\ IsFiniteSet(Range(fills)) /\ Range(fills) # {}
        /\ Range(ps) \in SUBSET Nat /\ IsFiniteSet(Range(ps))
    BY <1>1, <1>4, Prices
  <2>6. /\ Seen(b, ps) = Range(ps) \cup {Max(Range(fills))}
        /\ SeenLow(b, ps) = Range(ps) \cup {Min(Range(fills))}
    BY <2>2, <2>3 DEF Seen, SeenLow
  <2>7. Max(Seen(b, ps)) = Max(Range(fills \o ps))
    <3> DEFINE F == Range(fills)
               P == Range(ps)
    <3>1. F \in SUBSET Nat /\ IsFiniteSet(F) /\ F # {} /\ P \in SUBSET Nat /\ IsFiniteSet(P)
      BY <2>5
    <3> HIDE DEF F, P
    <3>2. Max(P \cup {Max(F)}) = Max(F \cup P)
      BY <3>1, MaxJoined
    <3>3. QED
      BY <2>4, <2>6, <3>2 DEF F, P
  <2>8. Min(SeenLow(b, ps)) = Min(Range(fills \o ps))
    <3> DEFINE F == Range(fills)
               P == Range(ps)
    <3>1. F \in SUBSET Nat /\ IsFiniteSet(F) /\ F # {} /\ P \in SUBSET Nat /\ IsFiniteSet(P)
      BY <2>5
    <3> HIDE DEF F, P
    <3>2. Min(P \cup {Min(F)}) = Min(F \cup P)
      BY <3>1, MinJoined
    <3>3. QED
      BY <2>4, <2>6, <3>2 DEF F, P
  <2>9. Traded(b, ps) = BarOf(fills \o ps)
    BY <1>2, <2>2, <2>3, <2>4, <2>7, <2>8 DEF BarOf
  <2>10. QED
    BY <2>9 DEF Fits
<1>5. QED
  BY <1>3, <1>4

(* The windows getCurrentKline adds have no fills.                         *)
LEMMA CurrentFits ==
  ASSUME TypeInv, TimeInv, up, NEW t \in Types, Regular(t),
         Counted(klines[t], results, max, now, t), FitsAll(klines[t], results, max, t)
  PROVE  FitsAll(getCurrentKline(klines[t], now, t), results, max, t)
<1> DEFINE k == klines[t]
           M == MissingWindows(k, now, t)
           g == getCurrentKline(k, now, t)
<1>1. IsKlines(k) /\ now \in Nat
  BY Moments DEF TypeInv, KlinesTyped
<1>2. DOMAIN g = DOMAIN k \cup M /\ \A w \in DOMAIN k : g[w] = k[w]
  BY <1>1, CurrentIs
<1>3. \A w \in M : FillsOf(results, max, Minutes(w, t)) = <<>>
  BY CurrentCounted
<1>4. \A w \in DOMAIN k : Fits(k[w], FillsOf(results, max, Minutes(w, t)))
  BY DEF FitsAll
<1> HIDE DEF g, M, k
<1>5. \A w \in DOMAIN g : Fits(g[w], FillsOf(results, max, Minutes(w, t)))
  BY <1>2, <1>3, <1>4 DEF Fits
<1>6. QED
  BY <1>5 DEF FitsAll, g, k

(* In order, a window after that of the next result has no fills yet.      *)
LEMMA NoneAfter ==
  ASSUME TypeInv, InOrder, max < Len(results), NEW t \in Types, NEW w \in Int,
         CurWindowTime(Result1.ts, t) < w
  PROVE  FillsOf(results, max, Minutes(w, t)) = <<>>
<1>1. /\ Result1.ts \in Nat /\ max + 1 \in 1..Len(results) /\ max \in Nat
      /\ max \in 0..Len(results)
  BY NextResult, Counters
<1>2. CurWindowTime(Result1.ts, t) \in Int
  <2>1. CurWindowTime(Result1.ts, t) \in 0..(Result1.ts)
    BY <1>1, WindowIs
  <2>2. QED
    BY <1>1, <2>1
<1>3. ASSUME NEW i \in 1..max PROVE CurWindowTime(results[i].ts, t) # w
  <2>1. i \in 1..Len(results) /\ i < max + 1
    BY <1>1, Counters
  <2>2. results[i].ts \in Nat
    BY <2>1, EachResult
  <2>3. DOMAIN results = 1..Len(results)
    BY Counters, LenProperties
  <2>4. results[i].ts <= Result1.ts
    BY <1>1, <2>1, <2>3 DEF InOrder, Result1
  <2>5. CurWindowTime(results[i].ts, t) <= CurWindowTime(Result1.ts, t)
    BY <1>1, <2>2, <2>4, LaterWindow
  <2>6. QED
    BY <1>2, <2>5
<1>4. QED
  BY <1>1, <1>3, NoneInWindow

(* The bar a result is added to, and its fills so far.                     *)
OldBarIs(k, w, fills) ==
  /\ OldBar(k, w) \in Bars /\ OldBar(k, w).count = Len(fills)
  /\ Fits(OldBar(k, w), fills)

(* Apply adds the fills to the bar of their window; the bars it levels     *)
(* after that one have no fills when the results come in order.            *)
LEMMA AppliedFits ==
  ASSUME TypeInv, TimeInv, InOrder, up, max < Len(results), NEW t \in Types, Regular(t),
         NEW g, IsKlines(g), Counted(g, results, max, now, t), FitsAll(g, results, max, t)
  PROVE  FitsAll(updateKline(g, Result1, now, t), results, max + 1, t)
<1> DEFINE u == updateKline(g, Result1, now, t)
           U == UpdatedWindows(Result1, now, t)
           own == CurWindowTime(Result1.ts, t)
           ps == Result1.prices
<1>1. /\ Result1 \in ResultSet /\ Result1.ts <= now /\ Result1.ts \in Nat /\ now \in Nat
      /\ ps \in Fills
  BY NextResult, Moments DEF ResultSet
<1>2. /\ U \in SUBSET Int /\ (\A w \in U : ps # <<>> /\ own <= w)
      /\ (ps # <<>> => own \in U)
  BY <1>1, UpdatedAre
<1>3. /\ DOMAIN u = DOMAIN g \cup U
      /\ (\A w \in DOMAIN g : w \notin U => u[w] = g[w])
      /\ \A w \in U : w = own => u[w] = Traded(OldBar(g, w), ps)
  <2>1. IsKlines(u) /\ DOMAIN u = DOMAIN g \cup U
    <3>1. IsKlines(g) /\ Result1 \in ResultSet /\ now \in Nat /\ Result1.ts <= now
      BY <1>1
    <3>2. QED
      BY <3>1, UpdateIs
  <2>2. \A w \in DOMAIN g : w \notin U => u[w] = g[w]
    BY <1>1, UpdateIs
  <2>3. \A w \in U : w = own => u[w] = Traded(OldBar(g, w), ps)
    BY <1>1, UpdateIs
  <2>4. QED
    BY <2>1, <2>2, <2>3
<1>4. \A w : FillsOf(results, max + 1, Minutes(w, t)) =
               IF own = w THEN FillsOf(results, max, Minutes(w, t)) \o ps
               ELSE FillsOf(results, max, Minutes(w, t))
  BY FillsOfNext
<1>5. own \in Int
  BY <1>1, WindowIs, QuotesAssumption
<1>6. \A w : FillsOf(results, max, Minutes(w, t)) \in Seq(Numbers)
  <2>1. ASSUME NEW w PROVE FillsOf(results, max, Minutes(w, t)) \in Seq(Numbers)
    <3> DEFINE M == Minutes(w, t)
    <3>1. results \in Seq(ResultSet) /\ max \in 0..Len(results)
      BY Counters
    <3> HIDE DEF M
    <3>2. FillsOf(results, max, M) \in Seq(Numbers)
      BY <3>1, FillsType
    <3>3. QED
      BY <3>2 DEF M
  <2>2. QED
    BY <2>1
<1>7. \A w \in U : own < w => FillsOf(results, max, Minutes(w, t)) = <<>>
  BY <1>2, NoneAfter
<1>8. \A w \in DOMAIN g : Fits(g[w], FillsOf(results, max, Minutes(w, t)))
  BY DEF FitsAll
<1>9. \A w \in U : OldBarIs(g, w, FillsOf(results, max, Minutes(w, t)))
  <2>1. ASSUME NEW w \in U PROVE OldBarIs(g, w, FillsOf(results, max, Minutes(w, t)))
    <3>1. /\ OldBar(g, w).count = CountIn(results, max, Minutes(w, t))
          /\ w \notin DOMAIN g => FillsOf(results, max, Minutes(w, t)) = <<>>
      BY OldBarCounted
    <3>2. OldBar(g, w) \in Bars
      BY FlatIsABar DEF OldBar, IsKlines
    <3>3. Fits(OldBar(g, w), FillsOf(results, max, Minutes(w, t)))
      BY <1>8, <3>1 DEF OldBar, Fits
    <3>4. QED
      BY <3>1, <3>2, <3>3 DEF OldBarIs, CountIn
  <2>2. QED
    BY <2>1
<1> HIDE DEF u, U, own, ps
<1>10. ASSUME NEW w \in DOMAIN u
       PROVE  Fits(u[w], FillsOf(results, max + 1, Minutes(w, t)))
  <2> DEFINE f == FillsOf(results, max, Minutes(w, t))
             f1 == FillsOf(results, max + 1, Minutes(w, t))
  <2>1. f \in Seq(Numbers) /\ f1 = IF own = w THEN f \o ps ELSE f
    BY <1>4, <1>6
  <2>2. w \in U => OldBarIs(g, w, f) /\ (own < w => f = <<>>)
    BY <1>7, <1>9
  <2>3. w \notin U => w \in DOMAIN g /\ u[w] = g[w] /\ Fits(g[w], f)
    BY <1>3, <1>8
  <2> HIDE DEF f, f1
  <2>4. CASE w \notin U
    <3>1. own # w \/ ps = <<>>
      BY <1>2, <2>4
    <3>2. f1 = f
      BY <2>1, <3>1, ConcatEmptySeq
    <3>3. QED
      BY <2>3, <2>4, <3>2 DEF f1
  <2>5. CASE w \in U /\ w = own
    <3>1. u[w] = Traded(OldBar(g, w), ps) /\ ps # <<>> /\ f1 = f \o ps
      BY <1>2, <1>3, <2>1, <2>5
    <3>2. /\ OldBar(g, w) \in Bars /\ OldBar(g, w).count = Len(f)
          /\ Fits(OldBar(g, w), f)
      BY <2>2, <2>5 DEF OldBarIs
    <3>3. Fits(Traded(OldBar(g, w), ps), f \o ps)
      BY <1>1, <2>1, <3>1, <3>2, TradedFits
    <3>4. QED
      BY <3>1, <3>3 DEF f1
  <2>6. CASE w \in U /\ w # own
    <3>1. own < w
      BY <1>2, <1>5, <2>6
    <3>2. f1 = <<>>
      BY <2>1, <2>2, <2>6, <3>1
    <3>3. QED
      BY <3>2 DEF Fits, f1
  <2>7. QED
    BY <2>4, <2>5, <2>6
<1>11. QED
  BY <1>10 DEF FitsAll, u

(* The bars a snapshot takes for a window that is missing have no fills.   *)
LEMMA TwoWindowsFit ==
  ASSUME TypeInv, NEW t \in Types, Regular(t), NEW g, IsKlines(g),
         Counted(g, results, max, now, t), FitsAll(g, results, max, t)
  PROVE  FitsAll(TwoWindows(g, t), results, max, t)
<1> DEFINE c == CurWindowTime(now, t)
           d == c - Step[t]
<1>1. now \in Nat /\ c \in Starts[t] /\ c \in Int /\ c >= 0 /\ Step[t] \in Nat
  BY Moments, WindowIs, Bounds
<1>2. d \in Starts[t] /\ d \in Int /\ c >= d /\ d >= d
  <2> HIDE DEF c
  <2>1. QED
    BY <1>1 DEF Regular
<1>3. /\ DOMAIN TwoWindows(g, t) = {c, d}
      /\ \A w \in {c, d} : TwoWindows(g, t)[w] = OldBar(g, w)
  BY <1>1, TwoWindowsAre
<1>4. ASSUME NEW w \in {c, d}
      PROVE  Fits(OldBar(g, w), FillsOf(results, max, Minutes(w, t)))
  <2>1. w \in Starts[t] /\ w >= d
    BY <1>1, <1>2
  <2>2. CASE w \in DOMAIN g
    BY <2>2 DEF OldBar, FitsAll
  <2>3. CASE w \notin DOMAIN g
    <3>1. FillsOf(results, max, Minutes(w, t)) = <<>>
      BY <2>1, <2>3, NewWindow
    <3>2. QED
      BY <3>1 DEF Fits
  <2>4. QED
    BY <2>2, <2>3
<1> HIDE DEF c, d
<1>5. QED
  BY <1>3, <1>4 DEF FitsAll

(* A new result changes no fills, and none was in order that is not now.   *)
LEMMA AppendedFits ==
  ASSUME TypeInv, NEW k, NEW n \in 0..Len(results), NEW t, NEW r
  PROVE  FitsAll(k, results, n, t) => FitsAll(k, Append(results, r), n, t)
<1> DEFINE qs == Append(results, r)
<1>1. \A w : FillsOf(qs, n, Minutes(w, t)) = FillsOf(results, n, Minutes(w, t))
  BY Counters, FillsAppended
<1> HIDE DEF qs
<1>2. FitsAll(k, results, n, t) => FitsAll(k, qs, n, t)
  BY <1>1 DEF FitsAll
<1>3. QED
  BY <1>2 DEF qs

LEMMA StillInOrder ==
  ASSUME TypeInv, Result, InOrder'
  PROVE  InOrder
<1>1. PICK r \in ResultSet :
        /\ results' \in Seq(ResultSet) /\ Len(results') = Len(results) + 1
        /\ \A i \in 1..Len(results) : results'[i] = results[i]
  BY ResultIs
<1>2. DOMAIN results = 1..Len(results) /\ DOMAIN results' = 1..Len(results')
  BY <1>1, Counters, LenProperties
<1>3. \A i \in DOMAIN results : i \in DOMAIN results' /\ results'[i] = results[i]
  BY <1>1, <1>2, Counters
<1>4. QED
  BY <1>3 DEF InOrder

LEMMA FitInit ==
  Init => FitInv
<1> USE LongIs
<1> SUFFICES ASSUME Init PROVE FitInv
  OBVIOUS
<1>1. snapshot = NoSnapshot /\ \A t \in Types : klines[t] = <<>>
  BY DEF Init
<1>2. QED
  BY <1>1, NoKlines DEF FitInv, MemoryFits, SnapshotFits, FitsAll

LEMMA FitStep ==
  TypeInv /\ TimeInv /\ CountInv /\ FitInv /\ [Next]_vars => FitInv'
<1> USE LongIs
<1> SUFFICES ASSUME TypeInv, TimeInv, CountInv, FitInv, [Next]_vars PROVE FitInv'
  OBVIOUS
<1>1. MemoryFits /\ SnapshotFits
  BY DEF FitInv
<1>2. up => \A t \in LongPeriods : Counted(klines[t], results, max, now, t)
  BY DEF CountInv, MemoryCounted
<1>3. up /\ InOrder => \A t \in LongPeriods : FitsAll(klines[t], results, max, t)
  BY <1>1 DEF MemoryFits
<1>4. ASSUME UNCHANGED <<results, snapshot>>
      PROVE  SnapshotFits' /\ (InOrder' <=> InOrder)
  BY <1>1, <1>4 DEF SnapshotFits, InOrder
<1>5. CASE Clock \/ BuildMarket \/ Save \/ Crash \/ UNCHANGED vars
  <2>1. /\ UNCHANGED <<results, max, klines, snapshot>>
        /\ up' = up \/ up' = FALSE
    BY <1>5 DEF Clock, BuildMarket, Save, RedisFails, Crash, vars, memory
  <2>2. MemoryFits'
    BY <1>3, <1>4, <2>1 DEF MemoryFits
  <2>3. QED
    BY <1>4, <2>1, <2>2 DEF FitInv
<1>6. CASE Result
  <2>1. PICK r \in ResultSet : results' = Append(results, r)
    BY <1>6, ResultIs
  <2>2. UNCHANGED <<max, klines, snapshot, up>>
    BY <1>6 DEF Result, memory
  <2>3. InOrder' => InOrder
    BY <1>6, StillInOrder
  <2>4. max \in 0..Len(results)
    BY Counters
  <2>5. \A t \in LongPeriods : FitsAll(klines[t], results, max, t) => FitsAll(klines[t], results', max, t)
    BY <2>1, <2>4, AppendedFits
  <2>6. MemoryFits'
    BY <1>3, <2>2, <2>3, <2>5 DEF MemoryFits
  <2>7. SnapshotFits'
    <3>1. SUFFICES ASSUME snapshot # NoSnapshot, InOrder
                   PROVE  \A t \in LongPeriods : FitsAll(snapshot.klines[t], results', snapshot.max, t)
      BY <2>2, <2>3 DEF SnapshotFits
    <3>2. snapshot.max \in 0..Len(results)
      BY <3>1, SnapMaxIs DEF SnapMax
    <3>3. \A t \in LongPeriods : FitsAll(snapshot.klines[t], results, snapshot.max, t)
      BY <1>1, <3>1 DEF SnapshotFits
    <3>4. QED
      BY <2>1, <3>2, <3>3, AppendedFits
  <2>8. QED
    BY <2>6, <2>7 DEF FitInv
<1>7. CASE Apply
  <2>1. /\ up /\ max < Len(results) /\ max' = max + 1
        /\ \A t \in Types :
             klines'[t] = updateKline(getCurrentKline(klines[t], now, t), Result1, now, t)
        /\ UNCHANGED <<results, snapshot, up>>
    BY <1>7, ApplyIs
  <2>2. ASSUME InOrder, NEW t \in LongPeriods PROVE FitsAll(klines'[t], results, max + 1, t)
    <3> DEFINE g == getCurrentKline(klines[t], now, t)
    <3>1. FitsAll(klines[t], results, max, t) /\ Counted(klines[t], results, max, now, t)
      BY <1>2, <1>3, <2>1, <2>2
    <3>2. IsKlines(g) /\ FitsAll(g, results, max, t) /\ Counted(g, results, max, now, t)
      BY <2>1, <3>1, CurrentTyped, CurrentFits, CurrentCounted
    <3>3. klines'[t] = updateKline(g, Result1, now, t)
      BY <2>1
    <3> HIDE DEF g
    <3>4. FitsAll(updateKline(g, Result1, now, t), results, max + 1, t)
      BY <2>1, <2>2, <3>2, AppliedFits
    <3>5. QED
      BY <3>3, <3>4
  <2>3. MemoryFits'
    BY <1>4, <2>1, <2>2 DEF MemoryFits
  <2>4. QED
    BY <1>4, <2>1, <2>3 DEF FitInv
<1>8. CASE CheckKlines
  <2>1. /\ up /\ UNCHANGED <<results, max, snapshot, up>>
        /\ \A t \in Types : klines'[t] = getCurrentKline(klines[t], now, t)
    BY <1>8, CheckKlinesIs
  <2>2. MemoryFits'
    BY <1>2, <1>3, <1>4, <2>1, CurrentFits DEF MemoryFits
  <2>3. QED
    BY <1>4, <2>1, <2>2 DEF FitInv
<1>9. CASE Clear
  <2>1. /\ up /\ UNCHANGED <<results, max, snapshot, up>>
        /\ \A t \in Types : klines'[t] =
             Restrict(klines[t], DOMAIN klines[t] \ Released(klines[t], t))
    BY <1>9, ClearIs
  <2>2. ASSUME InOrder, NEW t \in LongPeriods PROVE FitsAll(klines'[t], results, max, t)
    <3> DEFINE k == klines[t]
               D == DOMAIN k \ Released(k, t)
    <3>1. IsKlines(k) /\ FitsAll(k, results, max, t) /\ D \subseteq DOMAIN k
      BY <1>3, <2>1, <2>2 DEF TypeInv, KlinesTyped
    <3>2. klines'[t] = Restrict(k, D)
      BY <2>1
    <3> HIDE DEF k, D
    <3>3. DOMAIN Restrict(k, D) = D /\ \A w \in D : Restrict(k, D)[w] = k[w]
      BY <3>1, RestrictedIs
    <3>4. FitsAll(Restrict(k, D), results, max, t)
      BY <3>1, <3>3 DEF FitsAll
    <3>5. QED
      BY <3>2, <3>4
  <2>3. MemoryFits'
    BY <1>4, <2>1, <2>2 DEF MemoryFits
  <2>4. QED
    BY <1>4, <2>1, <2>3 DEF FitInv
<1>10. CASE Snapshot
  <2>1. /\ up /\ UNCHANGED <<results, max, up>>
        /\ \A t \in Types : klines'[t] = getCurrentKline(klines[t], now, t)
        /\ \/ /\ snapshot'.max = max
              /\ \A t \in Types : snapshot'.klines[t] =
                   TwoWindows(getCurrentKline(klines[t], now, t), t)
           \/ UNCHANGED snapshot
    BY <1>10, SnapshotIs
  <2>2. InOrder' <=> InOrder
    BY <2>1 DEF InOrder
  <2>3. ASSUME InOrder, NEW t \in LongPeriods
        PROVE  /\ FitsAll(klines'[t], results, max, t)
               /\ FitsAll(TwoWindows(getCurrentKline(klines[t], now, t), t), results, max, t)
    <3> DEFINE g == getCurrentKline(klines[t], now, t)
    <3>1. FitsAll(klines[t], results, max, t) /\ Counted(klines[t], results, max, now, t)
      BY <1>2, <1>3, <2>1, <2>3
    <3>2. IsKlines(g) /\ FitsAll(g, results, max, t) /\ Counted(g, results, max, now, t)
      BY <2>1, <3>1, CurrentTyped, CurrentFits, CurrentCounted
    <3>3. klines'[t] = g
      BY <2>1
    <3> HIDE DEF g
    <3>4. FitsAll(TwoWindows(g, t), results, max, t)
      BY <3>2, TwoWindowsFit
    <3>5. QED
      BY <3>2, <3>3, <3>4 DEF g
  <2>4. MemoryFits'
    BY <2>1, <2>2, <2>3 DEF MemoryFits
  <2>5. SnapshotFits'
    BY <1>4, <2>1, <2>2, <2>3 DEF SnapshotFits
  <2>6. QED
    BY <2>4, <2>5 DEF FitInv
<1>11. CASE Restart
  <2>1. /\ snapshot = NoSnapshot => \A t \in Types : klines'[t] = <<>>
        /\ snapshot # NoSnapshot => max' = snapshot.max /\ klines' = snapshot.klines
        /\ UNCHANGED <<results, snapshot>>
    BY <1>11, RestartIs
  <2>2. MemoryFits'
    <3>1. CASE snapshot = NoSnapshot
      BY <2>1, <3>1, NoKlines DEF MemoryFits, FitsAll
    <3>2. CASE snapshot # NoSnapshot
      BY <1>1, <1>4, <2>1, <3>2 DEF MemoryFits, SnapshotFits
    <3>3. QED
      BY <3>1, <3>2
  <2>3. QED
    BY <1>4, <2>1, <2>2 DEF FitInv
<1>12. QED
  BY <1>5, <1>6, <1>7, <1>8, <1>9, <1>10, <1>11 DEF Next

LEMMA FitHolds ==
  ASSUME MemoryReachesBack
  PROVE  Spec => []FitInv
<1>1. Init => FitInv
  BY FitInit
<1>2. TypeInv /\ TimeInv /\ CountInv /\ FitInv /\ [Next]_vars => FitInv'
  BY FitStep
<1>3. QED
  BY <1>1, <1>2, CountHolds, PTL DEF Spec

(* The open, close, high, low and count of every kline in memory are those *)
(* of the fills of its window, across releases, snapshots at any time and  *)
(* restarts, of every regular period no shorter than the lag, if the       *)
(* results come in the order of their times and none is older than the lag *)
(* when it is counted (kline.go:95-172, snapshot.go:49).                   *)
THEOREM PricesHold ==
  ASSUME MemoryReachesBack
  PROVE  Spec => []KlinesAreTheFills
<1>1. FitInv => KlinesAreTheFills
  BY DEF FitInv, MemoryFits, FitsAll, Fits, BarOf, KlinesAreTheFills, FillsAt
<1>2. QED
  BY <1>1, FitHolds, PTL
=============================================================================
