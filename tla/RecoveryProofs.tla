--------------------------- MODULE RecoveryProofs ---------------------------
(***************************************************************************)
(* Theorems of Recovery, for every number of orders, every bound and every *)
(* size of the batches and of the history.  First what its operators give: *)
(* the FromId of a book, the newest book of a directory, the rows in the   *)
(* order of their ids, and a quotation, which is a rising sequence of ids. *)
(***************************************************************************)
EXTENDS Recovery, SumProofs, SequenceTheorems

-----------------------------------------------------------------------------
(* Books and their FromId.                                                 *)

LEMMA FromIs ==
  ASSUME NEW b \in Books
  PROVE  /\ From(b) \in 0..MaxId
         /\ b = {} => From(b) = 0
         /\ b # {} => From(b) \in b
         /\ \A y \in b : y <= From(b)
<1>1. MaxId \in Nat
  BY RecoveryAssumption
<1>2. b \in SUBSET (0..MaxId) /\ b \subseteq Ids
  BY <1>1 DEF Books, Ids
<1>3. CASE b = {}
  BY <1>1, <1>3 DEF From
<1>4. CASE b # {}
  <2>1. Max(b) \in b /\ \A y \in b : y <= Max(b)
    BY <1>1, <1>2, <1>4, MaxIs
  <2>2. From(b) = Max(b)
    BY <1>4 DEF From
  <2>3. QED
    BY <1>2, <1>4, <2>1, <2>2
<1>5. QED
  BY <1>3, <1>4

LEMMA FromIsTheLargest ==
  ASSUME NEW b \in Books, NEW i \in b, \A y \in b : y <= i
  PROVE  From(b) = i
<1>1. From(b) \in b /\ i <= From(b) /\ From(b) <= i
  BY FromIs
<1>2. i \in Nat /\ From(b) \in Nat
  BY FromIs DEF Books, Ids
<1>3. QED
  BY <1>1, <1>2

LEMMA NewestIs ==
  ASSUME NEW bs \in SUBSET Books, bs # {}
  PROVE  /\ Newest(bs) \in bs
         /\ \A c \in bs : From(c) <= From(Newest(bs))
<1> DEFINE S == {From(c) : c \in bs}
<1>1. S \in SUBSET (0..MaxId) /\ S # {} /\ MaxId \in Nat
  BY FromIs, RecoveryAssumption
<1>2. Max(S) \in S /\ \A y \in S : y <= Max(S)
  <2> HIDE DEF S
  <2>1. QED
    BY <1>1, MaxIs
<1>3. \E b \in bs : \A c \in bs : From(c) <= From(b)
  BY <1>2
<1>4. QED
  BY <1>3 DEF Newest

(* The book a start loads is the newest of the directory.                  *)
LEMMA LastBookIs ==
  ASSUME files \subseteq Books
  PROVE  /\ LastBook \in Books /\ LastBook \in files \cup {{}}
         /\ \A c \in files : From(c) <= From(LastBook)
         /\ Snapshots # {} => LastBook \in Snapshots
<1>1. {} \in Books /\ Snapshots \in SUBSET Books /\ Snapshots \subseteq files
  BY DEF Books, Snapshots
<1>2. CASE Snapshots = {}
  <2>1. LastBook = {}
    BY <1>2 DEF LastBook
  <2>2. \A c \in files : c = {}
    BY <1>2 DEF Snapshots
  <2>3. QED
    BY <1>1, <1>2, <2>1, <2>2, FromIs
<1>3. CASE Snapshots # {}
  <2>1. LastBook = Newest(Snapshots)
    BY <1>3 DEF LastBook
  <2>2. /\ LastBook \in Snapshots
        /\ \A c \in Snapshots : From(c) <= From(LastBook)
    BY <1>1, <1>3, <2>1, NewestIs
  <2>3. From({}) <= From(LastBook)
    <3>1. LastBook \in Books
      BY <1>1, <2>2
    <3>2. QED
      BY <1>1, <3>1, FromIs
  <2>4. \A c \in files : c \in Snapshots \/ c = {}
    BY DEF Snapshots
  <2>5. QED
    BY <1>1, <2>2, <2>3, <2>4
<1>4. QED
  BY <1>2, <1>3

(* The older book of the validation's window is behind the newest.         *)
LEMMA BaseBookIs ==
  ASSUME files \subseteq Books
  PROVE  /\ BaseBook \in Books /\ BaseBook \in files \cup {{}}
         /\ Snapshots # {} => BaseBook # LastBook
<1>1. {} \in Books /\ Snapshots \in SUBSET Books /\ Snapshots \subseteq files
      /\ {} \notin Snapshots
  BY DEF Books, Snapshots
<1> DEFINE older == Snapshots \ {LastBook}
<1>2. older \in SUBSET Books
  BY <1>1
<1>3. CASE older = {}
  <2>1. BaseBook = {}
    BY <1>3 DEF BaseBook
  <2>2. QED
    BY <1>1, <2>1, LastBookIs
<1>4. CASE older # {}
  <2>1. BaseBook = Newest(older)
    BY <1>4 DEF BaseBook
  <2> HIDE DEF older
  <2>2. BaseBook \in older
    BY <1>2, <1>4, <2>1, NewestIs
  <2>3. QED
    BY <1>1, <1>2, <2>2 DEF older
<1>5. QED
  BY <1>3, <1>4

-----------------------------------------------------------------------------
(* Rising sequences of ids.                                                *)

LEMMA RangeIs ==
  ASSUME NEW S, NEW s \in Seq(S)
  PROVE  /\ DOMAIN s = 1..Len(s) /\ Len(s) \in Nat
         /\ Range(s) \subseteq S
         /\ \A i : i \in Range(s) <=> \E k \in 1..Len(s) : i = s[k]
         /\ Range(s) = {} <=> s = <<>>
<1>1. DOMAIN s = 1..Len(s) /\ Len(s) \in Nat
  BY LenProperties
<1>2. Range(s) = {s[k] : k \in 1..Len(s)} /\ Range(s) \subseteq S
  BY RangeEquality, RangeOfSeq
<1>3. s # <<>> => Len(s) \in Nat \ {0}
  BY EmptySeq
<1>4. s = <<>> => Len(s) = 0
  BY EmptySeq
<1>5. Range(s) = {} <=> s = <<>>
  BY <1>1, <1>2, <1>3, <1>4
<1>6. QED
  BY <1>1, <1>2, <1>5

LEMMA RisingOne ==
  Rising(<<>>) /\ Range(<<>>) = {}
BY DEF Rising, Range

LEMMA RisingConcat ==
  ASSUME NEW S \in SUBSET Nat, NEW s \in Seq(S), NEW t \in Seq(S),
         Rising(s), Rising(t), \A j \in Range(s), k \in Range(t) : j < k
  PROVE  /\ s \o t \in Seq(S) /\ Rising(s \o t)
         /\ Range(s \o t) = Range(s) \cup Range(t)
<1> DEFINE u == s \o t
<1>1. /\ u \in Seq(S) /\ Len(u) = Len(s) + Len(t)
      /\ \A i \in 1..Len(s) + Len(t) :
           u[i] = IF i <= Len(s) THEN s[i] ELSE t[i - Len(s)]
  BY ConcatProperties
<1> HIDE DEF u
<1>2. /\ DOMAIN s = 1..Len(s) /\ DOMAIN t = 1..Len(t) /\ DOMAIN u = 1..Len(u)
      /\ Len(s) \in Nat /\ Len(t) \in Nat
  BY <1>1, LenProperties
<1>3. /\ \A i \in 1..Len(s) : s[i] \in Range(s)
      /\ \A i \in 1..Len(t) : t[i] \in Range(t)
  BY <1>2 DEF Range
<1>4. ASSUME NEW j \in DOMAIN u, NEW k \in DOMAIN u, j < k
      PROVE  u[j] < u[k]
  <2>1. j \in 1..Len(s) + Len(t) /\ k \in 1..Len(s) + Len(t)
    BY <1>1, <1>2
  <2>2. CASE k <= Len(s)
    <3>1. u[j] = s[j] /\ u[k] = s[k] /\ j \in DOMAIN s /\ k \in DOMAIN s
      BY <1>1, <1>2, <1>4, <2>1, <2>2
    <3>2. QED
      BY <1>4, <3>1 DEF Rising
  <2>3. CASE j > Len(s)
    <3>1. /\ u[j] = t[j - Len(s)] /\ u[k] = t[k - Len(s)]
          /\ j - Len(s) \in DOMAIN t /\ k - Len(s) \in DOMAIN t
          /\ j - Len(s) < k - Len(s)
      BY <1>1, <1>2, <1>4, <2>1, <2>3
    <3>2. QED
      BY <3>1 DEF Rising
  <2>4. CASE j <= Len(s) /\ k > Len(s)
    <3>1. u[j] = s[j] /\ u[k] = t[k - Len(s)] /\ j \in 1..Len(s) /\ k - Len(s) \in 1..Len(t)
      BY <1>1, <1>2, <1>4, <2>1, <2>4
    <3>2. QED
      BY <1>3, <3>1
  <2>5. QED
    BY <1>2, <2>1, <2>2, <2>3, <2>4
<1>5. Range(u) = Range(s) \cup Range(t)
  BY RangeConcatenation DEF u
<1>6. QED
  BY <1>1, <1>4, <1>5 DEF Rising, u

LEMMA RisingHead ==
  ASSUME NEW S \in SUBSET Nat, NEW s \in Seq(S), s # <<>>, Rising(s)
  PROVE  /\ Head(s) \in Range(s) /\ Head(s) \in S
         /\ Tail(s) \in Seq(S) /\ Rising(Tail(s))
         /\ Range(s) = {Head(s)} \cup Range(Tail(s))
         /\ \A k \in Range(Tail(s)) : Head(s) < k
<1> DEFINE t == Tail(s)
<1>1. /\ Head(s) \in S /\ t \in Seq(S) /\ Len(t) = Len(s) - 1
      /\ \A i \in 1..Len(t) : t[i] = s[i + 1]
  BY HeadTailProperties
<1>2. Head(s) = s[1] /\ Len(s) \in Nat \ {0}
  BY EmptySeq, LenProperties
<1> HIDE DEF t
<1>3. DOMAIN s = 1..Len(s) /\ DOMAIN t = 1..Len(t)
  BY <1>1, LenProperties
<1>4. /\ \A i : i \in Range(s) <=> \E k \in 1..Len(s) : i = s[k]
      /\ \A i : i \in Range(t) <=> \E k \in 1..Len(t) : i = t[k]
  BY <1>1, RangeIs
<1>5. 1 \in 1..Len(s) /\ s[1] \in Range(s)
  BY <1>2, <1>4
<1>6. \A j, k \in DOMAIN t : j < k => t[j] < t[k]
  <2>1. SUFFICES ASSUME NEW j \in DOMAIN t, NEW k \in DOMAIN t, j < k
                 PROVE  t[j] < t[k]
    OBVIOUS
  <2>2. j + 1 \in DOMAIN s /\ k + 1 \in DOMAIN s /\ j + 1 < k + 1
    BY <1>1, <1>2, <1>3, <2>1
  <2>3. t[j] = s[j + 1] /\ t[k] = s[k + 1]
    BY <1>1, <1>3
  <2>4. QED
    BY <2>2, <2>3 DEF Rising
<1>7. \A k \in 1..Len(t) : k + 1 \in 1..Len(s) /\ 1 < k + 1
  BY <1>1, <1>2
<1>8. \A k \in Range(t) : k \in Range(s) /\ s[1] < k
  <2>1. SUFFICES ASSUME NEW k \in 1..Len(t) PROVE t[k] \in Range(s) /\ s[1] < t[k]
    BY <1>4
  <2>2. t[k] = s[k + 1] /\ k + 1 \in 1..Len(s) /\ 1 < k + 1
    BY <1>1, <1>7
  <2>3. s[1] < s[k + 1]
    BY <1>3, <1>5, <2>2 DEF Rising
  <2>4. QED
    BY <1>4, <2>2, <2>3
<1>9. \A i \in Range(s) : i = s[1] \/ i \in Range(t)
  <2>1. SUFFICES ASSUME NEW k \in 1..Len(s), k # 1 PROVE s[k] \in Range(t)
    BY <1>4
  <2>2. k - 1 \in 1..Len(t) /\ (k - 1) + 1 = k
    BY <1>1, <1>2, <2>1
  <2>3. t[k - 1] = s[k]
    BY <1>1, <2>2
  <2>4. QED
    BY <1>4, <2>2, <2>3
<1>10. QED
  BY <1>1, <1>2, <1>5, <1>6, <1>8, <1>9 DEF Rising, t

(* The last of a rising sequence bounds it.                                *)
LEMMA MaxMRIdIs ==
  ASSUME NEW S \in SUBSET (Nat \ {0}), NEW q \in Seq(S), Rising(q)
  PROVE  /\ MaxMRId(q) \in Nat
         /\ q = <<>> => MaxMRId(q) = 0
         /\ q # <<>> => MaxMRId(q) \in Range(q)
         /\ \A i \in Range(q) : i \in S /\ i <= MaxMRId(q)
<1>1. CASE q = <<>>
  BY <1>1, RisingOne DEF MaxMRId
<1>2. CASE q # <<>>
  <2>1. /\ DOMAIN q = 1..Len(q) /\ Len(q) \in Nat \ {0}
        /\ \A i : i \in Range(q) <=> \E k \in 1..Len(q) : i = q[k]
        /\ Range(q) \subseteq S
    BY <1>2, EmptySeq, RangeIs
  <2>2. Last(q) = q[Len(q)] /\ MaxMRId(q) = q[Len(q)]
    BY <1>2 DEF MaxMRId, Last
  <2>3. Len(q) \in 1..Len(q) /\ q[Len(q)] \in Range(q)
    BY <2>1
  <2>4. ASSUME NEW k \in 1..Len(q) PROVE q[k] <= q[Len(q)]
    <3>1. q[k] \in Nat /\ q[Len(q)] \in Nat
      BY <2>1, <2>3
    <3>2. CASE k = Len(q)
      BY <3>1, <3>2
    <3>3. CASE k < Len(q)
      <4>1. q[k] < q[Len(q)]
        BY <2>1, <2>3, <3>3 DEF Rising
      <4>2. QED
        BY <3>1, <4>1
    <3>4. Len(q) \in Nat /\ k \in Nat /\ k <= Len(q)
      BY <2>1
    <3>5. k = Len(q) \/ k < Len(q)
      BY <3>4
    <3>6. QED
      BY <3>2, <3>3, <3>5
  <2>5. MaxMRId(q) \in Range(q) /\ Range(q) \subseteq S
    BY <2>1, <2>2, <2>3
  <2>6. MaxMRId(q) \in Nat
    BY <2>5
  <2>7. ASSUME NEW i \in Range(q) PROVE i \in S /\ i <= MaxMRId(q)
    <3>1. PICK k \in 1..Len(q) : i = q[k]
      BY <2>1
    <3>2. QED
      BY <2>2, <2>4, <2>5, <3>1
  <2>8. QED
    BY <1>2, <2>5, <2>6, <2>7
<1>3. QED
  BY <1>1, <1>2

LEMMA RisingAppend ==
  ASSUME NEW S \in SUBSET (Nat \ {0}), NEW q \in Seq(S), Rising(q),
         NEW i \in S, MaxMRId(q) < i
  PROVE  /\ Append(q, i) \in Seq(S) /\ Rising(Append(q, i))
         /\ Range(Append(q, i)) = Range(q) \cup {i}
         /\ MaxMRId(Append(q, i)) = i
<1>1. <<i>> \in Seq(S) /\ Rising(<<i>>) /\ Range(<<i>>) = {i}
  BY DEF Rising, Range
<1>2. \A j \in Range(q) : j < i
  <2>1. MaxMRId(q) \in Nat /\ \A j \in Range(q) : j \in S /\ j <= MaxMRId(q)
    BY MaxMRIdIs
  <2>2. i \in Nat /\ \A j \in Range(q) : j \in Nat
    BY <2>1
  <2>3. QED
    BY <2>1, <2>2
<1>3. Append(q, i) = q \o <<i>>
  BY AppendIsConcat
<1>4. S \in SUBSET Nat
  OBVIOUS
<1>5. /\ q \o <<i>> \in Seq(S) /\ Rising(q \o <<i>>)
      /\ Range(q \o <<i>>) = Range(q) \cup {i}
  <2>1. \A j \in Range(q), k \in Range(<<i>>) : j < k
    BY <1>1, <1>2
  <2>2. <<i>> \in Seq(S) /\ Rising(<<i>>)
    BY <1>1
  <2>3. Range(q) \cup Range(<<i>>) = Range(q) \cup {i}
    BY <1>1
  <2> DEFINE t == <<i>>
  <2> HIDE DEF t
  <2>4. t \in Seq(S) /\ Rising(t) /\ \A j \in Range(q), k \in Range(t) : j < k
    BY <2>1, <2>2 DEF t
  <2>5. q \o t \in Seq(S) /\ Rising(q \o t) /\ Range(q \o t) = Range(q) \cup Range(t)
    BY <1>4, <2>4, RisingConcat
  <2>6. QED
    BY <2>3, <2>5 DEF t
<1>6. MaxMRId(Append(q, i)) = i
  <2>1. /\ Append(q, i) # <<>> /\ Len(Append(q, i)) = Len(q) + 1
        /\ Append(q, i)[Len(q) + 1] = i
    BY AppendProperties
  <2>2. QED
    BY <2>1 DEF MaxMRId, Last
<1>7. QED
  BY <1>3, <1>5, <1>6

(* A set of ids has one rising sequence.                                   *)
LEMMA RisingAgrees ==
  ASSUME NEW s \in Seq(Nat), NEW t \in Seq(Nat), Rising(s), Rising(t),
         Range(s) \subseteq Range(t), NEW k \in Nat, k \in DOMAIN s, k \in DOMAIN t,
         \A m \in Nat : m < k => (m \in DOMAIN s => m \in DOMAIN t /\ s[m] = t[m])
                                 /\ (m \in DOMAIN t => m \in DOMAIN s /\ s[m] = t[m])
  PROVE  ~ (s[k] < t[k])
<1>1. SUFFICES ASSUME s[k] < t[k] PROVE FALSE
  OBVIOUS
<1>2. /\ DOMAIN s = 1..Len(s) /\ DOMAIN t = 1..Len(t)
      /\ Len(s) \in Nat /\ Len(t) \in Nat
      /\ \A j \in 1..Len(s) : s[j] \in Nat
      /\ \A j \in 1..Len(t) : t[j] \in Nat
  BY RangeIs, ElementOfSeq
<1>3. s[k] \in Range(t)
  BY DEF Range
<1>4. PICK m \in DOMAIN t : s[k] = t[m]
  BY <1>3 DEF Range
<1>5. m \in Nat /\ k \in Nat /\ s[k] \in Nat /\ t[k] \in Nat /\ t[m] \in Nat
  BY <1>2
<1>6. m < k
  <2>1. SUFFICES ASSUME k < m \/ k = m PROVE FALSE
    BY <1>5
  <2>2. t[k] < t[m] \/ t[k] = t[m]
    BY <2>1 DEF Rising
  <2>3. QED
    BY <1>1, <1>4, <1>5, <2>2
<1>7. m \in DOMAIN s /\ s[m] = s[k]
  BY <1>4, <1>5, <1>6
<1>8. s[m] < s[k]
  BY <1>6, <1>7 DEF Rising
<1>9. QED
  BY <1>5, <1>7, <1>8

LEMMA RisingIsUnique ==
  ASSUME NEW s \in Seq(Nat), NEW t \in Seq(Nat), Rising(s), Rising(t),
         Range(s) = Range(t)
  PROVE  s = t
<1> DEFINE Differ == {k \in Nat : ~ (/\ k \in DOMAIN s <=> k \in DOMAIN t
                                     /\ k \in DOMAIN s => s[k] = t[k])}
<1>1. /\ DOMAIN s = 1..Len(s) /\ DOMAIN t = 1..Len(t)
      /\ Len(s) \in Nat /\ Len(t) \in Nat
      /\ \A j \in 1..Len(s) : s[j] \in Nat
      /\ \A j \in 1..Len(t) : t[j] \in Nat
  BY RangeIs, ElementOfSeq
<1>2. CASE Differ = {}
  <2>1. \A k \in Nat : /\ k \in DOMAIN s <=> k \in DOMAIN t
                       /\ k \in DOMAIN s => s[k] = t[k]
    BY <1>2
  <2>2. Len(s) = Len(t)
    <3>1. Len(s) \in 1..Len(t) \/ Len(s) = 0
      BY <1>1, <2>1
    <3>2. Len(t) \in 1..Len(s) \/ Len(t) = 0
      BY <1>1, <2>1
    <3>3. Len(s) \in Nat /\ Len(t) \in Nat
      BY <1>1
    <3>4. QED
      BY <3>1, <3>2, <3>3
  <2>3. \A i \in 1..Len(s) : s[i] = t[i]
    BY <1>1, <2>1
  <2>4. QED
    BY <2>2, <2>3, SeqEqual
<1>3. CASE Differ # {}
  <2>1. PICK k \in Differ : \A m \in Differ : k <= m
    <3>1. Differ \in SUBSET Nat
      OBVIOUS
    <3> HIDE DEF Differ
    <3>2. QED
      BY <1>3, <3>1, LeastNumber
  <2>2. \A m \in Nat : m < k => /\ m \in DOMAIN s <=> m \in DOMAIN t
                                /\ m \in DOMAIN s => s[m] = t[m]
    <3>1. \A m \in Nat : m < k => m \notin Differ
      BY <2>1
    <3>2. QED
      BY <3>1
  <2>3. k \in Nat
    OBVIOUS
  <2>4. CASE k \in DOMAIN s /\ k \in DOMAIN t
    <3>1. ~ (s[k] < t[k])
      BY <2>2, <2>3, <2>4, RisingAgrees
    <3>2. ~ (t[k] < s[k])
      BY <2>2, <2>3, <2>4, RisingAgrees
    <3>3. s[k] = t[k]
      BY <1>1, <2>4, <3>1, <3>2
    <3>4. QED
      BY <2>4, <3>3
  <2>5. CASE k \in DOMAIN s /\ k \notin DOMAIN t
    <3>1. s[k] \in Range(t)
      BY <2>5 DEF Range
    <3>2. PICK m \in DOMAIN t : s[k] = t[m]
      BY <3>1 DEF Range
    <3>3. m < k /\ m \in Nat
      BY <1>1, <2>3, <2>5
    <3>4. m \in DOMAIN s /\ s[m] = s[k]
      BY <2>2, <3>2, <3>3
    <3>5. s[m] < s[k] /\ s[m] \in Nat /\ s[k] \in Nat
      BY <1>1, <2>5, <3>3, <3>4 DEF Rising
    <3>6. QED
      BY <3>4, <3>5
  <2>6. CASE k \notin DOMAIN s /\ k \in DOMAIN t
    <3>1. t[k] \in Range(s)
      BY <2>6 DEF Range
    <3>2. PICK m \in DOMAIN s : t[k] = s[m]
      BY <3>1 DEF Range
    <3>3. m < k /\ m \in Nat
      BY <1>1, <2>3, <2>6
    <3>4. m \in DOMAIN t /\ t[m] = t[k]
      BY <2>2, <3>2, <3>3
    <3>5. t[m] < t[k] /\ t[m] \in Nat /\ t[k] \in Nat
      BY <1>1, <2>6, <3>3, <3>4 DEF Rising
    <3>6. QED
      BY <3>4, <3>5
  <2>7. QED
    BY <2>4, <2>5, <2>6
<1>4. QED
  BY <1>2, <1>3

(* The ids of a set have a rising sequence, and InOrder is that one.       *)
LEMMA RisingExists ==
  ASSUME NEW S \in SUBSET Ids
  PROVE  \E s \in Seq(Nat) : Rising(s) /\ Range(s) = S
<1> DEFINE T == {r \in SUBSET S : ~ \E s \in Seq(Nat) : Rising(s) /\ Range(s) = r}
<1>1. MaxId \in Nat /\ S \subseteq 1..MaxId /\ S \subseteq 0..MaxId
  BY RecoveryAssumption DEF Ids
<1>2. IsFiniteSet(S)
  <2>1. IsFiniteSet(1..MaxId)
    BY <1>1, FS_Interval
  <2>2. QED
    BY <1>1, <2>1, FS_Subset
<1>3. SUFFICES ASSUME T # {} PROVE FALSE
  OBVIOUS
<1>4. PICK r \in T : \A x \in T : x \subseteq r => x = r
  <2>1. T \in SUBSET (SUBSET S)
    OBVIOUS
  <2> HIDE DEF T
  <2>2. QED
    BY <1>2, <1>3, <2>1, LeastSubset
<1>5. r \in SUBSET (0..MaxId) /\ r \in SUBSET S
  BY <1>1, <1>4
<1>6. CASE r = {}
  <2>1. <<>> \in Seq(Nat) /\ Rising(<<>>) /\ Range(<<>>) = r
    BY <1>6, RisingOne
  <2>2. QED
    BY <1>4, <2>1
<1>7. CASE r # {}
  <2>1. Max(r) \in r /\ \A y \in r : y <= Max(r)
    BY <1>1, <1>5, <1>7, MaxIs
  <2> DEFINE m == Max(r)
  <2>2. m \in r /\ m \in Nat /\ \A y \in r : y \in Nat /\ y <= m
    <3>1. \A y \in r : y \in Nat
      BY <1>1, <1>5
    <3>2. QED
      BY <2>1, <3>1
  <2> HIDE DEF m
  <2>3. r \ {m} \notin T /\ r \ {m} \in SUBSET S
    BY <1>4, <1>5, <2>2
  <2>4. PICK s \in Seq(Nat) : Rising(s) /\ Range(s) = r \ {m}
    BY <2>3
  <2>5. \A y \in r \ {m} : y < m
    BY <2>2
  <2> DEFINE t == <<m>>
  <2>6. t \in Seq(Nat) /\ Rising(t) /\ Range(t) = {m}
    BY <2>2 DEF Rising, Range
  <2> HIDE DEF t
  <2>7. \A j \in Range(s), k \in Range(t) : j < k
    BY <2>4, <2>5, <2>6
  <2>8. /\ s \o t \in Seq(Nat) /\ Rising(s \o t)
        /\ Range(s \o t) = Range(s) \cup Range(t)
    BY <2>4, <2>6, <2>7, RisingConcat
  <2>9. Range(s \o t) = r
    BY <2>2, <2>4, <2>6, <2>8
  <2>10. QED
    BY <1>4, <2>8, <2>9
<1>8. QED
  BY <1>6, <1>7

LEMMA InOrderIs ==
  ASSUME NEW S \in SUBSET Ids
  PROVE  /\ InOrder(S) \in Seq(S) /\ InOrder(S) \in Seq(Ids)
         /\ InOrder(S) \in Seq(Nat)
         /\ Rising(InOrder(S))
         /\ Range(InOrder(S)) = S
<1>1. MaxId \in Nat /\ S \subseteq 1..MaxId /\ S \subseteq Nat
  BY RecoveryAssumption DEF Ids
<1>2. IsFiniteSet(S)
  <2>1. IsFiniteSet(1..MaxId)
    BY <1>1, FS_Interval
  <2>2. QED
    BY <1>1, <2>1, FS_Subset
<1>3. PICK s \in Seq(Nat) : Rising(s) /\ Range(s) = S
  BY RisingExists
<1>4. /\ DOMAIN s = 1..Len(s) /\ Len(s) \in Nat
      /\ \A i : i \in Range(s) <=> \E k \in 1..Len(s) : i = s[k]
      /\ \A k \in 1..Len(s) : s[k] \in Nat
  BY RangeIs, ElementOfSeq
<1>5. s \in [1..Len(s) -> S]
  <2>1. s \in [1..Len(s) -> Nat]
    BY LenProperties
  <2>2. QED
    BY <1>3, <1>4, <2>1
<1>6. Cardinality(S) = Len(s)
  <2>1. \A j, k \in 1..Len(s) : s[j] = s[k] => j = k
    <3>1. SUFFICES ASSUME NEW j \in 1..Len(s), NEW k \in 1..Len(s), j < k
                   PROVE  s[j] # s[k]
      <4>1. \A j, k \in 1..Len(s) : j = k \/ j < k \/ k < j
        BY <1>4
      <4>2. QED
        BY <3>1, <4>1
    <3>2. s[j] < s[k] /\ s[j] \in Nat /\ s[k] \in Nat
      BY <1>3, <1>4, <3>1 DEF Rising
    <3>3. QED
      BY <3>2
  <2>2. s \in Bijection(1..Len(s), S)
    <3>1. \A i \in S : \E k \in 1..Len(s) : s[k] = i
      BY <1>3, <1>4
    <3>2. QED
      BY <1>5, <2>1, <3>1 DEF Bijection, Injection, Surjection, IsInjective
  <2>3. ExistsBijection(1..Len(s), S)
    BY <2>2 DEF ExistsBijection
  <2>4. QED
    BY <1>4, <2>3, FS_CountingElements
<1>7. InOrder(S) \in [1..Cardinality(S) -> S] /\ Rising(InOrder(S))
  <2>1. \E o \in [1..Cardinality(S) -> S] : Rising(o)
    BY <1>3, <1>5, <1>6
  <2>2. QED
    BY <2>1 DEF InOrder
<1> DEFINE o == InOrder(S)
           n == Cardinality(S)
<1>8. n \in Nat /\ o \in [1..n -> S] /\ Rising(o) /\ DOMAIN o = 1..n
  BY <1>4, <1>6, <1>7
<1> HIDE DEF o, n
<1>9. o \in Seq(S) /\ o \in Seq(Ids) /\ o \in Seq(Nat)
  <2>1. \A V : [1..n -> V] \subseteq Seq(V)
    BY <1>8, SeqDef
  <2>2. o \in Seq(S)
    BY <1>8, <2>1
  <2>3. QED
    BY <1>1, <2>2, SeqMonotonic
<1>10. Range(o) = S
  <2>1. o \in Injection(1..n, S)
    <3>1. \A j, k \in 1..n : o[j] = o[k] => j = k
      <4>1. SUFFICES ASSUME NEW j \in 1..n, NEW k \in 1..n, j < k
                     PROVE  o[j] # o[k]
        <5>1. \A j, k \in 1..n : j = k \/ j < k \/ k < j
          BY <1>8
        <5>2. QED
          BY <4>1, <5>1
      <4>2. o[j] < o[k] /\ o[j] \in Nat /\ o[k] \in Nat
        BY <1>1, <1>8, <4>1 DEF Rising
      <4>3. QED
        BY <4>2
    <3>2. QED
      BY <1>8, <3>1 DEF Injection, IsInjective
  <2>2. IsFiniteSet(1..n) /\ Cardinality(1..n) = n
    BY <1>8, FS_Interval
  <2>3. o \in Surjection(1..n, S)
    BY <1>2, <2>1, <2>2, FS_Injection DEF n
  <2>4. QED
    BY <1>8, <2>3 DEF Surjection, Range
<1>11. QED
  BY <1>8, <1>9, <1>10 DEF o

LEMMA InOrderOfNone ==
  ASSUME NEW S \in SUBSET Ids
  PROVE  InOrder(S) = <<>> <=> S = {}
BY InOrderIs, RangeIs

(* A rising sequence is the set of its ids in their order.                 *)
LEMMA RisingIsInOrder ==
  ASSUME NEW q \in Seq(Ids), Rising(q)
  PROVE  q = InOrder(Range(q))
<1>1. Range(q) \in SUBSET Ids /\ Ids \subseteq Nat
  <2>1. MaxId \in Nat /\ Ids \subseteq Nat
    BY RecoveryAssumption DEF Ids
  <2>2. QED
    BY <2>1, RangeIs
<1> DEFINE o == InOrder(Range(q))
<1>2. o \in Seq(Nat) /\ Rising(o) /\ Range(o) = Range(q)
  BY <1>1, InOrderIs
<1>3. q \in Seq(Nat)
  BY <1>1, SeqMonotonic
<1> HIDE DEF o
<1>4. q = o
  BY <1>2, <1>3, RisingIsUnique
<1>5. QED
  BY <1>4 DEF o

-----------------------------------------------------------------------------
(* The channels.                                                           *)

LEMMA RangeOfAppend ==
  ASSUME NEW S, NEW s \in Seq(S), NEW e \in S
  PROVE  /\ Append(s, e) \in Seq(S)
         /\ Range(Append(s, e)) = Range(s) \cup {e}
<1>1. <<e>> \in Seq(S) /\ Range(<<e>>) = {e}
  BY DEF Range
<1>2. Append(s, e) = s \o <<e>>
  BY AppendIsConcat
<1> DEFINE t == <<e>>
<1> HIDE DEF t
<1>3. t \in Seq(S) /\ Range(t) = {e} /\ Append(s, e) = s \o t
  BY <1>1, <1>2 DEF t
<1>4. Range(s \o t) = Range(s) \cup Range(t)
  BY <1>3, RangeConcatenation
<1>5. QED
  BY <1>3, <1>4, AppendProperties

LEMMA RangeOfTail ==
  ASSUME NEW S, NEW s \in Seq(S), s # <<>>
  PROVE  /\ Head(s) \in S /\ Head(s) \in Range(s)
         /\ Tail(s) \in Seq(S)
         /\ Range(s) = {Head(s)} \cup Range(Tail(s))
<1> DEFINE t == Tail(s)
<1>1. /\ Head(s) \in S /\ t \in Seq(S) /\ Len(t) = Len(s) - 1
      /\ \A i \in 1..Len(t) : t[i] = s[i + 1]
  BY HeadTailProperties
<1>2. Head(s) = s[1] /\ Len(s) \in Nat \ {0}
  BY EmptySeq, LenProperties
<1> HIDE DEF t
<1>3. /\ \A i : i \in Range(s) <=> \E k \in 1..Len(s) : i = s[k]
      /\ \A i : i \in Range(t) <=> \E k \in 1..Len(t) : i = t[k]
  BY <1>1, RangeIs
<1>4. 1 \in 1..Len(s) /\ s[1] \in Range(s)
  BY <1>2, <1>3
<1>5. \A i \in Range(t) : i \in Range(s)
  <2>1. SUFFICES ASSUME NEW k \in 1..Len(t) PROVE t[k] \in Range(s)
    BY <1>3
  <2>2. t[k] = s[k + 1] /\ k + 1 \in 1..Len(s)
    BY <1>1, <1>2
  <2>3. QED
    BY <1>3, <2>2
<1>6. \A i \in Range(s) : i = s[1] \/ i \in Range(t)
  <2>1. SUFFICES ASSUME NEW k \in 1..Len(s), k # 1 PROVE s[k] \in Range(t)
    BY <1>3
  <2>2. k - 1 \in 1..Len(t) /\ (k - 1) + 1 = k
    BY <1>1, <1>2, <2>1
  <2>3. t[k - 1] = s[k]
    BY <1>1, <2>2
  <2>4. QED
    BY <1>3, <2>2, <2>3
<1>7. QED
  BY <1>1, <1>2, <1>4, <1>5, <1>6 DEF t

(* A part of a channel holds some of what the channel does.                *)
LEMMA RangeOfPart ==
  ASSUME NEW S, NEW s \in Seq(S), NEW m \in Nat \ {0}, NEW n \in Nat, n <= Len(s)
  PROVE  /\ SubSeq(s, m, n) \in Seq(S)
         /\ Range(SubSeq(s, m, n)) \subseteq Range(s)
<1>1. DOMAIN s = 1..Len(s) /\ Len(s) \in Nat /\ \A i \in 1..Len(s) : s[i] \in Range(s)
  BY RangeIs
<1>2. \A i \in m..n : i \in 1..Len(s)
  BY <1>1
<1>3. \A i \in m..n : s[i] \in Range(s)
  BY <1>1, <1>2
<1>4. m \in Int /\ n \in Int
  OBVIOUS
<1>5. SubSeq(s, m, n) \in Seq(Range(s))
  BY <1>3, <1>4, SubSeqProperties
<1>6. Range(s) \subseteq S
  BY RangeIs
<1>7. SubSeq(s, m, n) \in Seq(S)
  BY <1>5, <1>6, SeqMonotonic
<1>8. Range(SubSeq(s, m, n)) \subseteq Range(s)
  BY <1>5, RangeIs
<1>9. QED
  BY <1>7, <1>8

(* The ids on their way to the quotation.                                  *)
LEMMA IdsRiseAppend ==
  ASSUME NEW S \in SUBSET Nat, NEW ch \in Seq(S), IdsRise(ch), NEW i \in S,
         i # Snap => \A k \in Range(ch) : k < i \/ k = Snap
  PROVE  IdsRise(Append(ch, i))
<1> DEFINE c == Append(ch, i)
<1>1. /\ Len(c) = Len(ch) + 1 /\ c \in Seq(S)
      /\ \A j \in 1..Len(ch) : c[j] = ch[j]
      /\ c[Len(ch) + 1] = i
  BY AppendProperties
<1> HIDE DEF c
<1>2. /\ DOMAIN c = 1..Len(c) /\ DOMAIN ch = 1..Len(ch) /\ Len(ch) \in Nat
      /\ \A j \in 1..Len(ch) : ch[j] \in Range(ch)
  BY <1>1, RangeIs
<1>3. ASSUME NEW j \in DOMAIN c, NEW k \in DOMAIN c, j < k, c[j] # Snap, c[k] # Snap
      PROVE  c[j] < c[k]
  <2>1. j \in 1..Len(ch)
    BY <1>1, <1>2, <1>3
  <2>2. k \in 1..Len(ch) \/ k = Len(ch) + 1
    BY <1>1, <1>2
  <2>3. CASE k \in 1..Len(ch)
    BY <1>1, <1>2, <1>3, <2>1, <2>3 DEF IdsRise
  <2>4. CASE k = Len(ch) + 1
    <3>1. c[k] = i /\ c[j] = ch[j] /\ ch[j] \in Range(ch)
      BY <1>1, <1>2, <2>1, <2>4
    <3>2. QED
      BY <1>3, <3>1
  <2>5. QED
    BY <2>2, <2>3, <2>4
<1>4. IdsRise(c)
  BY <1>3 DEF IdsRise
<1>5. QED
  BY <1>4 DEF c

LEMMA IdsRiseTail ==
  ASSUME NEW S \in SUBSET Nat, NEW ch \in Seq(S), IdsRise(ch), ch # <<>>
  PROVE  /\ IdsRise(Tail(ch))
         /\ Head(ch) # Snap => \A k \in Range(Tail(ch)) : Head(ch) < k \/ k = Snap
<1> DEFINE c == Tail(ch)
<1>1. /\ c \in Seq(S) /\ Len(c) = Len(ch) - 1
      /\ \A i \in 1..Len(c) : c[i] = ch[i + 1]
  BY HeadTailProperties
<1>2. Head(ch) = ch[1] /\ Len(ch) \in Nat \ {0}
  BY EmptySeq, LenProperties
<1> HIDE DEF c
<1>3. /\ DOMAIN c = 1..Len(c) /\ DOMAIN ch = 1..Len(ch)
      /\ \A i : i \in Range(c) <=> \E k \in 1..Len(c) : i = c[k]
  BY <1>1, RangeIs
<1>4. \A k \in 1..Len(c) : k + 1 \in 1..Len(ch) /\ 1 \in 1..Len(ch) /\ 1 < k + 1
  BY <1>1, <1>2
<1>5. IdsRise(c)
  <2>1. SUFFICES ASSUME NEW j \in DOMAIN c, NEW k \in DOMAIN c, j < k, c[j] # Snap, c[k] # Snap
                 PROVE  c[j] < c[k]
    BY DEF IdsRise
  <2>2. /\ j + 1 \in DOMAIN ch /\ k + 1 \in DOMAIN ch /\ j + 1 < k + 1
        /\ c[j] = ch[j + 1] /\ c[k] = ch[k + 1]
    BY <1>1, <1>2, <1>3, <1>4, <2>1
  <2>3. QED
    BY <2>1, <2>2 DEF IdsRise
<1>6. Head(ch) # Snap => \A k \in Range(c) : Head(ch) < k \/ k = Snap
  <2>1. SUFFICES ASSUME Head(ch) # Snap, NEW k \in 1..Len(c), c[k] # Snap
                 PROVE  Head(ch) < c[k]
    BY <1>3
  <2>2. c[k] = ch[k + 1] /\ 1 \in DOMAIN ch /\ k + 1 \in DOMAIN ch /\ 1 < k + 1
    BY <1>1, <1>3, <1>4
  <2>3. QED
    BY <1>2, <2>1, <2>2 DEF IdsRise
<1>7. QED
  BY <1>5, <1>6 DEF c

(* The oldest snapshots are removed, never the newest.                     *)
LEMMA KeptIs ==
  ASSUME NEW bs \in SUBSET Books
  PROVE  /\ Kept(bs) \subseteq bs
         /\ \A b \in bs : (\A c \in bs : From(c) <= From(b)) => b \in Kept(bs)
<1>1. Kept(bs) \subseteq bs
  BY DEF Kept
<1>2. ASSUME NEW b \in bs, \A c \in bs : From(c) <= From(b)
      PROVE  b \in Kept(bs)
  <2>1. \A c \in bs : From(c) \in Nat
    BY FromIs
  <2>2. {c \in bs : From(c) > From(b)} = {}
    BY <1>2, <2>1
  <2>3. Cardinality({c \in bs : From(c) > From(b)}) = 0 /\ 0 < History
    BY <2>2, FS_EmptySet, RecoveryAssumption
  <2>4. QED
    BY <2>3 DEF Kept
<1>3. QED
  BY <1>1, <1>2

-----------------------------------------------------------------------------
(* Type correctness.                                                       *)

Results == [id : Ids, book : Books]

LEMMA IdsAre ==
  /\ MaxId \in Nat
  /\ Ids \subseteq Nat \ {0} /\ \A i \in Ids : i \in Nat /\ i <= MaxId /\ i > 0
  /\ {} \in Books /\ \A b \in Books : b \subseteq Ids
  /\ \A b \in Books, i \in Ids : b \cup {i} \in Books
  /\ \A b \in Books : From(b) \in Nat /\ From(b) <= MaxId
  /\ Ids \cup {Snap} \subseteq Nat
<1>1. MaxId \in Nat
  BY RecoveryAssumption
<1>2. Ids \subseteq Nat \ {0} /\ \A i \in Ids : i \in Nat /\ i <= MaxId /\ i > 0
  BY <1>1 DEF Ids
<1>3. {} \in Books /\ \A b \in Books : b \subseteq Ids
  BY DEF Books
<1>4. \A b \in Books, i \in Ids : b \cup {i} \in Books
  BY DEF Books
<1>5. \A b \in Books : From(b) \in Nat /\ From(b) <= MaxId
  BY <1>1, FromIs
<1>6. Ids \cup {Snap} \subseteq Nat
  BY <1>2 DEF Snap
<1>7. QED
  BY <1>1, <1>2, <1>3, <1>4, <1>5, <1>6

LEMMA SpendType ==
  ASSUME left \in [Bounded -> Nat], left.ids <= MaxId, NEW b \in Bounded, Spend(b)
  PROVE  left' \in [Bounded -> Nat] /\ left'.ids <= MaxId
BY RecoveryAssumption DEF Spend, Bounded

(* What a puller finds.                                                    *)
LEMMA FoundIs ==
  ASSUME TypeOK, NEW p \in Pullers, Selected(cursor[p]) # <<>>
  PROVE  LET found == Selected(cursor[p])
         IN  /\ found \in Seq(Ids) /\ found \in Seq(Nat) /\ Rising(found)
             /\ Range(found) = {i \in rows : i >= cursor[p]}
             /\ Last(found) \in Range(found)
             /\ \A i \in Range(found) : i \in Ids /\ i <= Last(found)
<1> DEFINE found == Selected(cursor[p])
           S == {i \in rows : i >= cursor[p]}
<1>1. S \in SUBSET Ids
  BY DEF TypeOK
<1>2. found = InOrder(S)
  BY DEF Selected
<1> HIDE DEF S
<1>3. /\ found \in Seq(Ids) /\ found \in Seq(Nat) /\ Rising(found)
      /\ Range(found) = S
  BY <1>1, <1>2, InOrderIs
<1>4. Ids \in SUBSET (Nat \ {0})
  BY IdsAre
<1> HIDE DEF found
<1>5. /\ MaxMRId(found) \in Range(found)
      /\ \A i \in Range(found) : i \in Ids /\ i <= MaxMRId(found)
  <2>1. found # <<>>
    BY DEF found
  <2>2. QED
    BY <1>3, <1>4, <2>1, MaxMRIdIs
<1>6. MaxMRId(found) = Last(found)
  BY DEF MaxMRId, found
<1>7. QED
  BY <1>3, <1>5, <1>6 DEF found, S

LEMMA TypeInit ==
  ASSUME Init
  PROVE  TypeOK
<1>1. left \in [Bounded -> Nat] /\ left.ids <= MaxId
  BY RecoveryAssumption DEF Init
<1>2. \A p \in Pullers : cursor[p] = 0 /\ queue[p] = <<>>
  BY DEF Init
<1>3. cursor \in [Pullers -> 0..MaxId + 1] /\ queue \in [Pullers -> Seq(Ids)]
  BY IdsAre DEF Init
<1>4. DOMAIN <<>> = {}
  OBVIOUS
<1>5. Range(<<>>) = {}
  BY <1>4 DEF Range
<1>6. window \in [base : Books, last : Books]
  BY IdsAre DEF Init, NoWindow
<1>7. files \subseteq Books /\ book \in Books /\ replay \in Books
  BY IdsAre DEF Init
<1>8. /\ rows \subseteq Ids /\ published \subseteq [id : Ids, book : Books]
      /\ batches \subseteq SUBSET [id : Ids, book : Books]
      /\ late \in BOOLEAN /\ hidden \in BOOLEAN
      /\ main \in {"down", "halted", "started", "loaded", "replaying", "ready"}
  BY DEF Init
<1>9. \A S : <<>> \in Seq(S)
  OBVIOUS
<1>10. /\ \A q \in {quoteFile, redis, quote} : q \in Seq(Ids)
       /\ perch \in Seq([id : Ids, book : Books]) /\ snapshots \in Seq(Books)
       /\ mrCh \in Seq(Ids \cup {Snap})
  BY <1>9 DEF Init
<1>11. /\ DOMAIN db \subseteq Ids /\ Range(db) \subseteq Books
       /\ DOMAIN known \subseteq Ids /\ Range(known) \subseteq Books
  BY <1>4, <1>5 DEF Init
<1>12. QED
  BY <1>1, <1>3, <1>6, <1>7, <1>8, <1>10, <1>11 DEF TypeOK

LEMMA TypeCommit ==
  ASSUME TypeOK, NEW i \in Ids, Commit(i)
  PROVE  TypeOK'
<1>1. rows' = rows \cup {i} /\ late' \in BOOLEAN
  BY DEF Commit, TypeOK
<1>2. left' \in [Bounded -> Nat] /\ left'.ids <= MaxId
  BY SpendType DEF Commit, TypeOK, Bounded
<1>3. UNCHANGED <<disk, matcher, check, main, cursor, queue, batches, quote, hidden>>
  BY DEF Commit
<1>4. QED
  BY <1>1, <1>2, <1>3 DEF TypeOK, disk, matcher, check

LEMMA TypePull ==
  ASSUME TypeOK, NEW p \in Pullers, Pull(p)
  PROVE  TypeOK'
<1> DEFINE found == Selected(cursor[p])
<1>1. /\ found # <<>>
      /\ queue' = [queue EXCEPT ![p] = @ \o found]
      /\ cursor' = [cursor EXCEPT ![p] = Last(found) + 1]
  BY DEF Pull
<1>2. found \in Seq(Ids) /\ Last(found) \in Ids
  BY <1>1, FoundIs
<1> HIDE DEF found
<1>3. queue[p] \o found \in Seq(Ids)
  BY <1>2, ConcatProperties DEF TypeOK
<1>4. Last(found) + 1 \in 0..MaxId + 1
  BY <1>2, IdsAre
<1>5. queue' \in [Pullers -> Seq(Ids)]
  BY <1>1, <1>3 DEF TypeOK
<1>6. cursor' \in [Pullers -> 0..MaxId + 1]
  BY <1>1, <1>4 DEF TypeOK
<1>7. UNCHANGED <<disk, orders, matcher, check, main, batches, quote, left, hidden>>
  BY DEF Pull
<1>8. QED
  BY <1>5, <1>6, <1>7 DEF TypeOK, disk, orders, matcher, check

LEMMA TypeMatch ==
  ASSUME TypeOK, Match
  PROVE  TypeOK'
<1> DEFINE q == queue["matcher"]
           i == Head(q)
           r == Result(i, book)
<1>1. "matcher" \in Pullers /\ q \in Seq(Ids)
  BY DEF TypeOK, Pullers
<1>2. i \in Ids /\ Tail(q) \in Seq(Ids)
  <2>1. q # <<>>
    BY DEF Match
  <2>2. QED
    BY <1>1, <2>1, RangeOfTail
<1>3. r \in Results
  BY <1>2 DEF Result, Results, TypeOK
<1>4. /\ queue' = [queue EXCEPT !["matcher"] = Tail(q)]
      /\ book' = book \cup {i} /\ published' = published \cup {r}
      /\ perch' = Append(perch, r) /\ mrCh' = Append(mrCh, i)
  BY DEF Match
<1>5. i \in Ids \cup {Snap} /\ perch \in Seq(Results) /\ mrCh \in Seq(Ids \cup {Snap})
  BY <1>2 DEF TypeOK, Results
<1> HIDE DEF q, i, r
<1>6. perch' \in Seq(Results) /\ mrCh' \in Seq(Ids \cup {Snap})
  BY <1>3, <1>4, <1>5, RangeOfAppend
<1>7. book' \in Books /\ queue' \in [Pullers -> Seq(Ids)] /\ published' \subseteq Results
  BY <1>2, <1>3, <1>4, IdsAre DEF TypeOK, Results
<1>8. UNCHANGED <<disk, orders, check, snapshots, main, cursor, batches, quote, left, hidden>>
  BY DEF Match
<1>9. QED
  BY <1>6, <1>7, <1>8 DEF TypeOK, disk, orders, check, Results

LEMMA TypeTick ==
  ASSUME TypeOK, Tick
  PROVE  TypeOK'
<1>1. left' \in [Bounded -> Nat] /\ left'.ids <= MaxId
  BY SpendType DEF Tick, TypeOK, Bounded
<1>2. /\ snapshots \in Seq(Books) /\ book \in Books
      /\ mrCh \in Seq(Ids \cup {Snap}) /\ Snap \in Ids \cup {Snap}
  BY DEF TypeOK
<1>3. snapshots' = Append(snapshots, book) /\ mrCh' = Append(mrCh, Snap)
  BY DEF Tick
<1>4. snapshots' \in Seq(Books) /\ mrCh' \in Seq(Ids \cup {Snap})
  BY <1>2, <1>3, RangeOfAppend
<1>5. UNCHANGED <<disk, orders, check, book, perch, published, main, cursor,
                  queue, batches, quote, hidden>>
  BY DEF Tick
<1>6. QED
  BY <1>1, <1>4, <1>5 DEF TypeOK, disk, orders, check

(* A dump writes a book of the channel and removes older ones.             *)
LEMMA DumpIs ==
  ASSUME TypeOK, Dump
  PROVE  /\ Head(snapshots) \in Range(snapshots) /\ Head(snapshots) \in Books
         /\ Tail(snapshots) \in Seq(Books)
         /\ Range(snapshots) = {Head(snapshots)} \cup Range(Tail(snapshots))
         /\ files' \subseteq files \cup {Head(snapshots)} /\ files' \subseteq Books
         /\ From(LastBook) <= From(LastBook')
<1> DEFINE b == Head(snapshots)
           kept == {c \in files : From(c) # From(b)} \cup {b}
<1>1. /\ b \in Range(snapshots) /\ b \in Books
      /\ Tail(snapshots) \in Seq(Books)
      /\ Range(snapshots) = {b} \cup Range(Tail(snapshots))
  <2>1. snapshots # <<>> /\ snapshots \in Seq(Books)
    BY DEF Dump, TypeOK
  <2>2. QED
    BY <2>1, RangeOfTail
<1>2. files' = Kept(kept)
  BY DEF Dump
<1> HIDE DEF b
<1>3. kept \in SUBSET Books /\ kept # {} /\ kept \subseteq files \cup {b}
  BY <1>1 DEF TypeOK
<1>4. \A c \in files : \E d \in kept : From(c) = From(d)
  OBVIOUS
<1> HIDE DEF kept
<1>5. files' \subseteq kept
  BY <1>2, <1>3, KeptIs
<1>6. Newest(kept) \in files'
  BY <1>2, <1>3, NewestIs, KeptIs
<1>7. \A c \in files : From(c) <= From(Newest(kept))
  BY <1>3, <1>4, NewestIs
<1>8. /\ LastBook \in Books /\ LastBook \in files \cup {{}}
      /\ From({}) <= From(Newest(kept))
  <2>1. LastBook \in Books /\ LastBook \in files \cup {{}}
    BY LastBookIs DEF TypeOK
  <2>2. Newest(kept) \in Books /\ {} \in Books
    BY <1>3, NewestIs, IdsAre
  <2>3. From({}) = 0 /\ From(Newest(kept)) \in Nat
    BY <2>2, FromIs
  <2>4. QED
    BY <2>1, <2>3
<1>9. From(LastBook) <= From(Newest(kept))
  BY <1>7, <1>8
<1>10. /\ LastBook' \in Books
       /\ \A c \in files' : From(c) <= From(LastBook')
  <2>1. files' \subseteq Books
    BY <1>3, <1>5
  <2>2. (files \subseteq Books => /\ LastBook \in Books
                                  /\ \A c \in files : From(c) <= From(LastBook))'
    BY LastBookIs, PTL
  <2>3. QED
    BY <2>1, <2>2
<1>11. From(Newest(kept)) <= From(LastBook')
  BY <1>6, <1>10
<1>12. /\ From(LastBook) \in Nat /\ From(Newest(kept)) \in Nat
       /\ From(LastBook') \in Nat
  BY <1>3, <1>8, <1>10, NewestIs, IdsAre
<1>13. From(LastBook) <= From(LastBook')
  BY <1>9, <1>11, <1>12
<1>14. QED
  BY <1>1, <1>3, <1>5, <1>13 DEF b

LEMMA TypeDump ==
  ASSUME TypeOK, Dump
  PROVE  TypeOK'
<1>1. files' \subseteq Books /\ Tail(snapshots) \in Seq(Books)
  BY DumpIs
<1>2. snapshots' = Tail(snapshots)
  BY DEF Dump
<1>3. UNCHANGED <<db, quoteFile, redis, orders, check, book, perch, mrCh,
                  published, main, cursor, queue, batches, quote, left, hidden>>
  BY DEF Dump
<1>4. QED
  BY <1>1, <1>2, <1>3 DEF TypeOK, orders, check

(* A batch holds results of the channel, and the channel keeps the rest.   *)
LEMMA BatchIs ==
  ASSUME TypeOK, Batch
  PROVE  \E batch : /\ batches' = batches \cup {batch} /\ batch \subseteq Range(perch)
                    /\ perch' \in Seq(Results) /\ Range(perch') \subseteq Range(perch)
<1> DEFINE n == Min({Len(perch), BatchSize})
<1>1. perch \in Seq(Results) /\ Len(perch) \in Nat /\ BatchSize \in Nat \ {0}
  BY RecoveryAssumption, RangeIs DEF TypeOK, Results
<1>2. n \in {Len(perch), BatchSize} /\ n <= Len(perch)
  <2>1. \E x \in {Len(perch), BatchSize} : \A y \in {Len(perch), BatchSize} : x =< y
    BY <1>1
  <2>2. QED
    BY <2>1 DEF Min
<1>3. n \in Nat /\ n + 1 \in Nat \ {0}
  BY <1>1, <1>2
<1>4. /\ batches' = batches \cup {Range(SubSeq(perch, 1, n))}
      /\ perch' = SubSeq(perch, n + 1, Len(perch))
  BY DEF Batch
<1> HIDE DEF n
<1>5. Range(SubSeq(perch, 1, n)) \subseteq Range(perch)
  BY <1>1, <1>2, <1>3, RangeOfPart
<1>6. /\ SubSeq(perch, n + 1, Len(perch)) \in Seq(Results)
      /\ Range(SubSeq(perch, n + 1, Len(perch))) \subseteq Range(perch)
  BY <1>1, <1>3, RangeOfPart
<1>7. QED
  BY <1>4, <1>5, <1>6

LEMMA TypeBatch ==
  ASSUME TypeOK, Batch
  PROVE  TypeOK'
<1>1. PICK batch : /\ batches' = batches \cup {batch} /\ batch \subseteq Range(perch)
                   /\ perch' \in Seq(Results)
  BY BatchIs
<1>2. Range(perch) \subseteq Results
  <2>1. perch \in Seq(Results)
    BY DEF TypeOK, Results
  <2>2. QED
    BY <2>1, RangeIs
<1>3. batches' \subseteq SUBSET Results
  BY <1>1, <1>2 DEF TypeOK, Results
<1>4. UNCHANGED <<disk, orders, check, book, snapshots, mrCh, published, main,
                  cursor, queue, quote, left, hidden>>
  BY DEF Batch
<1>5. QED
  BY <1>1, <1>3, <1>4 DEF TypeOK, disk, orders, check, Results

(* What an insert leaves, and what it adds.                                *)
LEMMA InsertedIs ==
  ASSUME NEW table, NEW batch \in SUBSET Results
  PROVE  LET new == Inserted(table, batch)
         IN  /\ DOMAIN new = DOMAIN table \cup {r.id : r \in batch}
             /\ \A i \in DOMAIN table : new[i] = table[i]
             /\ \A i \in DOMAIN new \ DOMAIN table : Result(i, new[i]) \in batch
<1> DEFINE new == Inserted(table, batch)
<1>1. DOMAIN new = DOMAIN table \cup {r.id : r \in batch}
  BY DEF Inserted
<1>2. \A i \in DOMAIN table : new[i] = table[i]
  BY DEF Inserted
<1>3. ASSUME NEW i \in DOMAIN new \ DOMAIN table
      PROVE  Result(i, new[i]) \in batch
  <2> DEFINE c == CHOOSE r \in batch : r.id = i
  <2>1. c \in batch /\ c.id = i
    <3>1. \E r \in batch : r.id = i
      BY <1>1
    <3>2. QED
      BY <3>1
  <2>2. new[i] = c.book
    BY <1>1 DEF Inserted
  <2> HIDE DEF c
  <2>3. c = [id |-> i, book |-> c.book]
    BY <2>1 DEF Results
  <2>4. QED
    BY <2>1, <2>2, <2>3 DEF Result
<1>4. QED
  BY <1>1, <1>2, <1>3

LEMMA TypeWrite ==
  ASSUME TypeOK, NEW batch \in batches, Write(batch)
  PROVE  TypeOK'
<1>1. batch \in SUBSET Results
  BY DEF TypeOK, Results
<1>2. DOMAIN db' \subseteq Ids /\ Range(db') \subseteq Books
  <2>1. CASE db' = Inserted(db, batch)
    <3> DEFINE new == Inserted(db, batch)
    <3>1. /\ DOMAIN new = DOMAIN db \cup {r.id : r \in batch}
          /\ \A i \in DOMAIN db : new[i] = db[i]
          /\ \A i \in DOMAIN new \ DOMAIN db : Result(i, new[i]) \in batch
      BY <1>1, InsertedIs
    <3> HIDE DEF new
    <3>2. \A r \in batch : r.id \in Ids /\ r.book \in Books
      BY <1>1 DEF Results
    <3>3. \A i \in DOMAIN db : i \in Ids /\ db[i] \in Books
      BY DEF TypeOK, Range
    <3>4. \A i \in DOMAIN new : i \in Ids
      BY <3>1, <3>2, <3>3
    <3>5. \A i \in DOMAIN new : new[i] \in Books
      <4>1. \A i \in DOMAIN new \ DOMAIN db : Result(i, new[i]).book \in Books
        BY <3>1, <3>2
      <4>2. \A i : Result(i, new[i]).book = new[i]
        BY DEF Result
      <4>3. QED
        BY <3>1, <3>3, <4>1, <4>2
    <3>6. QED
      BY <2>1, <3>4, <3>5 DEF Range, new
  <2>2. CASE UNCHANGED db
    BY <2>2 DEF TypeOK
  <2>3. QED
    BY <2>1, <2>2 DEF Write
<1>3. left' \in [Bounded -> Nat] /\ left'.ids <= MaxId
  BY SpendType DEF Write, TypeOK, Bounded
<1>4. batches' \subseteq SUBSET Results
  BY DEF Write, TypeOK, Results
<1>5. UNCHANGED <<files, quoteFile, redis, orders, matcher, check, main, cursor,
                  queue, quote, hidden>>
  BY DEF Write
<1>6. QED
  BY <1>2, <1>3, <1>4, <1>5 DEF TypeOK, orders, matcher, check, Results

LEMMA TypeQuote ==
  ASSUME TypeOK, Quote
  PROVE  TypeOK'
<1>1. mrCh \in Seq(Ids \cup {Snap}) /\ mrCh # <<>> /\ Head(mrCh) # Snap
  BY DEF TypeOK, Quote
<1>2. Head(mrCh) \in Ids /\ Tail(mrCh) \in Seq(Ids \cup {Snap})
  BY <1>1, RangeOfTail
<1>3. quote' \in Seq(Ids)
  <2>1. quote \in Seq(Ids) /\ quote' = Counted(quote, Head(mrCh))
    BY DEF TypeOK, Quote
  <2>2. Append(quote, Head(mrCh)) \in Seq(Ids)
    BY <1>2, <2>1, RangeOfAppend
  <2>3. QED
    BY <2>1, <2>2 DEF Counted
<1>4. mrCh' = Tail(mrCh)
  BY DEF Quote
<1>5. UNCHANGED <<disk, orders, check, book, perch, snapshots, published, main,
                  cursor, queue, batches, left, hidden>>
  BY DEF Quote
<1>6. QED
  BY <1>2, <1>3, <1>4, <1>5 DEF TypeOK, disk, orders, check

LEMMA TypeSaveKlines ==
  ASSUME TypeOK, SaveKlines
  PROVE  TypeOK'
<1>1. redis' \in Seq(Ids)
  BY DEF TypeOK, SaveKlines, Saved
<1>2. UNCHANGED <<db, files, quoteFile, orders, matcher, check, main, cursor,
                  queue, batches, quote, left, hidden>>
  BY DEF SaveKlines
<1>3. QED
  BY <1>1, <1>2 DEF TypeOK, orders, matcher, check

LEMMA TypeTakeSnapShot ==
  ASSUME TypeOK, TakeSnapShot
  PROVE  TypeOK'
<1>1. mrCh' \in Seq(Ids \cup {Snap})
  <2>1. mrCh \in Seq(Ids \cup {Snap}) /\ mrCh # <<>> /\ mrCh' = Tail(mrCh)
    BY DEF TypeOK, TakeSnapShot
  <2>2. QED
    BY <2>1, RangeOfTail
<1>2. redis' \in Seq(Ids) /\ quoteFile' \in Seq(Ids)
  BY DEF TypeOK, TakeSnapShot, Saved
<1>3. left' \in [Bounded -> Nat] /\ left'.ids <= MaxId
  BY SpendType DEF TakeSnapShot, TypeOK, Bounded
<1>4. hidden' \in BOOLEAN
  BY DEF TakeSnapShot, TypeOK, Gap
<1>5. UNCHANGED <<db, files, orders, check, book, perch, snapshots, published,
                  main, cursor, queue, batches, quote>>
  BY DEF TakeSnapShot
<1>6. QED
  BY <1>1, <1>2, <1>3, <1>4, <1>5 DEF TypeOK, orders, check

LEMMA TypeStart ==
  ASSUME TypeOK, Start
  PROVE  TypeOK'
<1>1. LastBook \in Books
  BY LastBookIs DEF TypeOK
<1>2. left' \in [Bounded -> Nat] /\ left'.ids <= MaxId
  BY SpendType DEF Start, TypeOK, Bounded
<1>3. StartsAt(LastBook) \in 0..MaxId + 1
  BY <1>1, IdsAre DEF StartsAt
<1>4. cursor' \in [Pullers -> 0..MaxId + 1]
  BY <1>3 DEF Start, TypeOK
<1>5. /\ main' = "started" /\ book' = LastBook /\ quote' = quoteFile
      /\ UNCHANGED <<disk, orders, check, perch, snapshots, mrCh, published, queue,
                     batches, hidden>>
  BY DEF Start
<1>6. QED
  BY <1>1, <1>2, <1>4, <1>5 DEF TypeOK, disk, orders, check

LEMMA TypeStop ==
  ASSUME TypeOK, NEW how \in {"down", "halted"}, Stop(how)
  PROVE  TypeOK'
<1>1. \A S : <<>> \in Seq(S)
  OBVIOUS
<1>2. cursor' \in [Pullers -> 0..MaxId + 1] /\ queue' \in [Pullers -> Seq(Ids)]
  BY <1>1, IdsAre DEF Stop
<1>3. /\ perch' \in Seq([id : Ids, book : Books]) /\ snapshots' \in Seq(Books)
      /\ mrCh' \in Seq(Ids \cup {Snap}) /\ quote' \in Seq(Ids)
  BY <1>1 DEF Stop
<1>4. book' \in Books /\ replay' \in Books /\ window' \in [base : Books, last : Books]
  BY IdsAre DEF Stop, NoWindow
<1>5. DOMAIN known' \subseteq Ids /\ Range(known') \subseteq Books
  BY DEF Stop, Range
<1>6. /\ main' = how /\ batches' = {}
      /\ UNCHANGED <<disk, orders, published, hidden, left>>
  BY DEF Stop
<1>7. QED
  BY <1>2, <1>3, <1>4, <1>5, <1>6 DEF TypeOK, disk, orders

(* A fatal step of the main goroutine stops the process.                   *)
LEMMA FatalIs ==
  ASSUME NoSnapshotFile \/ QuotesBehind \/ NotValidated
  PROVE  Stop("halted")
BY DEF NoSnapshotFile, QuotesBehind, NotValidated, Fatal

LEMMA TypeNothingToCheck ==
  ASSUME TypeOK, NothingToCheck
  PROVE  TypeOK'
<1>1. /\ main' = "ready"
      /\ UNCHANGED <<disk, orders, matcher, check, cursor, queue, batches, quote,
                     left, hidden>>
  BY DEF NothingToCheck
<1>2. QED
  BY <1>1 DEF TypeOK, disk, orders, matcher, check

LEMMA TypeLoadWindow ==
  ASSUME TypeOK, LoadWindow
  PROVE  TypeOK'
<1>1. BaseBook \in Books /\ LastBook \in Books
  BY LastBookIs, BaseBookIs DEF TypeOK
<1>2. From(BaseBook) + 1 \in 0..MaxId + 1
  BY <1>1, IdsAre
<1>3. cursor' \in [Pullers -> 0..MaxId + 1]
  BY <1>2 DEF LoadWindow, TypeOK
<1>4. window' \in [base : Books, last : Books] /\ replay' \in Books
  BY <1>1 DEF LoadWindow
<1>5. /\ main' = "loaded"
      /\ UNCHANGED <<disk, orders, matcher, known, queue, batches, quote, left,
                     hidden>>
  BY DEF LoadWindow
<1>6. QED
  BY <1>3, <1>4, <1>5 DEF TypeOK, disk, orders, matcher

LEMMA TypeReadResults ==
  ASSUME TypeOK, ReadResults
  PROVE  TypeOK'
<1>1. DOMAIN known' \subseteq DOMAIN db /\ \A i \in DOMAIN known' : known'[i] = db[i]
  BY DEF ReadResults
<1>2. DOMAIN known' \subseteq Ids /\ Range(known') \subseteq Books
  BY <1>1 DEF TypeOK, Range
<1>3. /\ main' = "replaying"
      /\ UNCHANGED <<disk, orders, matcher, window, replay, cursor, queue, batches,
                     quote, left, hidden>>
  BY DEF ReadResults
<1>4. QED
  BY <1>2, <1>3 DEF TypeOK, disk, orders, matcher

LEMMA TypeReplay ==
  ASSUME TypeOK, Replay
  PROVE  TypeOK'
<1>1. /\ queue["check"] \in Seq(Ids) /\ queue["check"] # <<>>
      /\ "check" \in Pullers
  BY DEF TypeOK, Pullers, Replay, Replaying
<1>2. Head(queue["check"]) \in Ids /\ Tail(queue["check"]) \in Seq(Ids)
  BY <1>1, RangeOfTail
<1>3. replay' \in Books
  BY <1>2, IdsAre DEF Replay, TypeOK
<1>4. queue' \in [Pullers -> Seq(Ids)]
  BY <1>2 DEF Replay, TypeOK
<1>5. UNCHANGED <<disk, orders, matcher, window, known, main, cursor,
                  batches, quote, left, hidden>>
  BY DEF Replay
<1>6. QED
  BY <1>3, <1>4, <1>5 DEF TypeOK, disk, orders, matcher

LEMMA TypeValidated ==
  ASSUME TypeOK, Validated
  PROVE  TypeOK'
<1>1. <<>> \in Seq(Ids) /\ 0 \in 0..MaxId + 1
  BY IdsAre
<1>2. queue' \in [Pullers -> Seq(Ids)] /\ cursor' \in [Pullers -> 0..MaxId + 1]
  BY <1>1 DEF Validated, TypeOK
<1>3. replay' \in Books
  BY IdsAre DEF Validated
<1>4. DOMAIN known' \subseteq Ids /\ Range(known') \subseteq Books
  BY DEF Validated, Range
<1>5. main' = "ready" /\ UNCHANGED <<disk, orders, matcher, window, batches, quote, left, hidden>>
  BY DEF Validated
<1>6. QED
  BY <1>2, <1>3, <1>4, <1>5 DEF TypeOK, disk, orders, matcher

LEMMA TypeNext ==
  ASSUME TypeOK, [Next]_vars
  PROVE  TypeOK'
<1>1. CASE UNCHANGED vars
  BY <1>1 DEF TypeOK, vars, disk, orders, matcher, check
<1>2. CASE Start
  BY <1>2, TypeStart
<1>3. CASE Crash
  BY <1>3, TypeStop DEF Crash
<1>4. CASE NoSnapshotFile \/ QuotesBehind \/ NotValidated
  BY <1>4, FatalIs, TypeStop
<1>5. CASE NothingToCheck
  BY <1>5, TypeNothingToCheck
<1>6. CASE LoadWindow
  BY <1>6, TypeLoadWindow
<1>7. CASE ReadResults
  BY <1>7, TypeReadResults
<1>8. CASE Replay
  BY <1>8, TypeReplay
<1>9. CASE Validated
  BY <1>9, TypeValidated
<1>10. CASE \E i \in Ids : Commit(i)
  BY <1>10, TypeCommit
<1>11. CASE \E p \in Pullers : Pull(p)
  BY <1>11, TypePull
<1>12. CASE Match
  BY <1>12, TypeMatch
<1>13. CASE Tick
  BY <1>13, TypeTick
<1>14. CASE Dump
  BY <1>14, TypeDump
<1>15. CASE Batch
  BY <1>15, TypeBatch
<1>16. CASE \E b \in batches : Write(b)
  BY <1>16, TypeWrite
<1>17. CASE Quote
  BY <1>17, TypeQuote
<1>18. CASE SaveKlines
  BY <1>18, TypeSaveKlines
<1>19. CASE TakeSnapShot
  BY <1>19, TypeTakeSnapShot
<1>20. QED
  BY <1>1, <1>2, <1>3, <1>4, <1>5, <1>6, <1>7, <1>8, <1>9, <1>10, <1>11, <1>12,
     <1>13, <1>14, <1>15, <1>16, <1>17, <1>18, <1>19 DEF Next, Main

(* Every variable keeps its type, through every crash and every start.     *)
THEOREM RecoveryTypes == Spec => []TypeOK
<1>1. Init => TypeOK
  BY TypeInit
<1>2. TypeOK /\ [Next]_vars => TypeOK'
  BY TypeNext
<1>3. QED
  BY <1>1, <1>2, PTL DEF Spec

-----------------------------------------------------------------------------
(* The inductive invariant.  Its parts as operators of the values they     *)
(* speak of, so that a part of the next state is the same operator of the  *)
(* next values.                                                            *)

Pulled(que, cur, done, R, ids) ==
  /\ Rising(que)
  /\ \A j \in done, k \in Range(que) : j < k
  /\ done \cup Range(que) = {j \in R : j < cur}
  /\ cur \in {0, 1} \cup {j + 1 : j \in ids \cup Range(que)}

InMemory(qf, rd, q, ch, b, ids) ==
  /\ Range(qf) \subseteq Range(q)
  /\ \A x \in {rd, q} :
       /\ Covers(x, From(b), ids)
       /\ \A i \in Range(ch) : i <= MaxMRId(x) => i = Snap \/ i \in Range(x)

Counting(x, from, ids) == Rising(x) /\ Range(x) \subseteq ids /\ Covers(x, from, ids)

Quoted(qf, rd, q, ch, b, from, ids, up) ==
  /\ Counting(qf, from, ids) /\ Counting(rd, from, ids) /\ Counting(q, from, ids)
  /\ IdsRise(ch) /\ Range(ch) \ {Snap} \subseteq b
  /\ \A i \in b : i <= MaxMRId(q) \/ i <= from \/ i \in Range(ch)
  /\ Range(qf) \subseteq Range(rd)
  /\ \A i \in Range(q) : i <= MaxMRId(rd) => i \in Range(rd)
  /\ up => InMemory(qf, rd, q, ch, b, ids)

NoGap(q, ids) == {i \in ids : i <= MaxMRId(q)} = Range(q)

NothingMissing(q, ch, b, ids) ==
  /\ NoGap(q, ids)
  /\ \A i \in b : i <= MaxMRId(q) \/ i \in Range(ch)

Unbroken(hid, qf, q, ch, b, from, ids, m) ==
  ~hid =>
    /\ NoGap(qf, ids)
    /\ m \in {"loaded", "replaying", "ready"} => NothingMissing(q, ch, b, ids)
    /\ m = "started" => NothingMissing(q, ch, b, ids) \/ from > MaxMRId(qf)

Right(R, pub, ids) ==
  \A r \in pub :
    /\ r.id \in R /\ r.book = {j \in R : j < r.id}
    /\ r.book \subseteq ids

IdsOf(pub) == {r.id : r \in pub}

LEMMA PartsOfRight ==
  /\ ResultsAreRight <=> Right(rows, published, IdsOf(published))
  /\ PulledInOrder("matcher", book) <=>
       Pulled(queue["matcher"], cursor["matcher"], book, rows, IdsOf(published))
  /\ PulledInOrder("check", replay) <=>
       Pulled(queue["check"], cursor["check"], replay, rows, IdsOf(published))
  /\ QuotesInOrder <=>
       Quoted(quoteFile, redis, quote, mrCh, book, From(LastBook),
              IdsOf(published), Up)
  /\ QuotesAreWhole <=>
       Unbroken(hidden, quoteFile, quote, mrCh, book, From(LastBook),
                IdsOf(published), main)
  /\ PublishedIds = IdsOf(published)
<1>1. PublishedIds = IdsOf(published)
  BY DEF PublishedIds, IdsOf
<1>2. ResultsAreRight <=> Right(rows, published, IdsOf(published))
  BY <1>1 DEF ResultsAreRight, Right
<1>3. /\ PulledInOrder("matcher", book) <=>
           Pulled(queue["matcher"], cursor["matcher"], book, rows, IdsOf(published))
      /\ PulledInOrder("check", replay) <=>
           Pulled(queue["check"], cursor["check"], replay, rows, IdsOf(published))
  BY <1>1 DEF PulledInOrder, Pulled
<1>4. QuotesInOrder <=>
        Quoted(quoteFile, redis, quote, mrCh, book, From(LastBook),
               IdsOf(published), Up)
  BY <1>1 DEF QuotesInOrder, Quoted, InMemory, Counting
<1>5. QuotesAreWhole <=>
        Unbroken(hidden, quoteFile, quote, mrCh, book, From(LastBook),
                 IdsOf(published), main)
  BY <1>1 DEF QuotesAreWhole, Unbroken, Whole, Gap, NoGap, NothingMissing
<1>6. QED
  BY <1>1, <1>2, <1>3, <1>4, <1>5

(* The same of the next state.                                             *)
LEMMA PartsOfNext ==
  /\ ResultsAreRight' <=> Right(rows', published', IdsOf(published'))
  /\ PulledInOrder("matcher", book)' <=>
       Pulled(queue'["matcher"], cursor'["matcher"], book', rows', IdsOf(published'))
  /\ PulledInOrder("check", replay)' <=>
       Pulled(queue'["check"], cursor'["check"], replay', rows', IdsOf(published'))
  /\ QuotesInOrder' <=>
       Quoted(quoteFile', redis', quote', mrCh', book', From(LastBook'),
              IdsOf(published'), Up')
  /\ QuotesAreWhole' <=>
       Unbroken(hidden', quoteFile', quote', mrCh', book', From(LastBook'),
                IdsOf(published'), main')
  /\ PublishedIds' = IdsOf(published')
<1>1. PublishedIds' = IdsOf(published')
  BY DEF PublishedIds, IdsOf
<1>2. ResultsAreRight' <=> Right(rows', published', IdsOf(published'))
  BY <1>1 DEF ResultsAreRight, Right
<1>3. /\ PulledInOrder("matcher", book)' <=>
           Pulled(queue'["matcher"], cursor'["matcher"], book', rows', IdsOf(published'))
      /\ PulledInOrder("check", replay)' <=>
           Pulled(queue'["check"], cursor'["check"], replay', rows', IdsOf(published'))
  BY <1>1 DEF PulledInOrder, Pulled
<1>4. QuotesInOrder' <=>
        Quoted(quoteFile', redis', quote', mrCh', book', From(LastBook'),
               IdsOf(published'), Up')
  BY <1>1 DEF QuotesInOrder, Quoted, InMemory, Counting
<1>5. QuotesAreWhole' <=>
        Unbroken(hidden', quoteFile', quote', mrCh', book', From(LastBook'),
                 IdsOf(published'), main')
  BY <1>1 DEF QuotesAreWhole, Unbroken, Whole, Gap, NoGap, NothingMissing
<1>6. QED
  BY <1>1, <1>2, <1>3, <1>4, <1>5

-----------------------------------------------------------------------------
(* What the invariant gives a step to work with.                           *)

LEMMA GivenOut ==
  ASSUME TypeOK, AllRight
  PROVE  LET P == IdsOf(published)
         IN  /\ P \subseteq rows /\ P \subseteq Ids
             /\ \A i \in P, j \in rows : j < i => j \in P
             /\ \A r \in published : r.id \in P /\ r = Result(r.id, r.book)
<1> DEFINE P == IdsOf(published)
<1>1. Right(rows, published, P) /\ published \subseteq Results /\ rows \subseteq Ids
  BY PartsOfRight DEF AllRight, TypeOK, Results
<1>2. P \subseteq rows
  BY <1>1 DEF Right, IdsOf
<1>3. ASSUME NEW r \in published, NEW j \in rows, j < r.id
      PROVE  j \in P
  BY <1>1, <1>3 DEF Right
<1>4. \A r \in published : r.id \in P
  BY DEF IdsOf
<1>5. \A r \in published : r = Result(r.id, r.book)
  BY <1>1 DEF Results, Result
<1>6. \A i \in P : \E r \in published : r.id = i
  BY DEF IdsOf
<1>7. QED
  BY <1>1, <1>2, <1>3, <1>4, <1>5, <1>6

(* A book that holds the rows to its FromId.                               *)
LEMMA HeldIs ==
  ASSUME TypeOK, NEW ids, NEW b \in Books, HoldsAllTo(b, rows, ids)
  PROVE  /\ b \subseteq ids /\ b \subseteq rows /\ From(b) \in Nat
         /\ \A j \in rows : j <= From(b) => j \in b
         /\ \A j \in b : j <= From(b)
         /\ b = {} => From(b) = 0
         /\ b # {} => From(b) \in b
BY FromIs, IdsAre DEF HoldsAllTo

LEMMA BooksHeld ==
  ASSUME TypeOK, AllRight
  PROVE  /\ \A b \in files \cup Range(snapshots) \cup {book, replay, window.base, window.last} :
              b \in Books /\ HoldsAllTo(b, rows, IdsOf(published))
         /\ HoldsAllTo({}, rows, IdsOf(published))
<1>1. \A b \in files \cup Range(snapshots) \cup {book, replay, window.base, window.last} :
        HoldsAllTo(b, rows, IdsOf(published))
  BY PartsOfRight DEF AllRight, KeptIsRight
<1>2. /\ files \subseteq Books /\ book \in Books /\ replay \in Books
      /\ window.base \in Books /\ window.last \in Books
  BY DEF TypeOK
<1>3. Range(snapshots) \subseteq Books
  BY RangeIs DEF TypeOK
<1>4. HoldsAllTo({}, rows, IdsOf(published))
  <2>1. From({}) = 0 /\ rows \subseteq Ids
    BY FromIs, IdsAre DEF TypeOK
  <2>2. {j \in rows : j <= From({})} = {}
    <3>1. \A j \in rows : j \in Nat /\ j > 0
      BY <2>1, IdsAre
    <3>2. \A j \in rows : ~ (j <= From({}))
      BY <2>1, <3>1
    <3>3. QED
      BY <3>2
  <2>3. QED
    BY <2>2 DEF HoldsAllTo
<1>5. QED
  BY <1>1, <1>2, <1>3, <1>4

(* The largest id that a quotation has counted was given out.              *)
LEMMA CountedIs ==
  ASSUME NEW ids \in SUBSET Ids, NEW q \in Seq(Ids), NEW from, Counting(q, from, ids)
  PROVE  /\ MaxMRId(q) \in Nat /\ Range(q) \subseteq ids
         /\ MaxMRId(q) # 0 => MaxMRId(q) \in ids /\ MaxMRId(q) \in Range(q)
         /\ \A i \in Range(q) : i \in Ids /\ i <= MaxMRId(q)
<1>1. Ids \in SUBSET (Nat \ {0})
  BY IdsAre
<1>2. Rising(q) /\ Range(q) \subseteq ids
  BY DEF Counting
<1>3. /\ MaxMRId(q) \in Nat
      /\ q = <<>> => MaxMRId(q) = 0
      /\ q # <<>> => MaxMRId(q) \in Range(q)
      /\ \A i \in Range(q) : i \in Ids /\ i <= MaxMRId(q)
  BY <1>1, <1>2, MaxMRIdIs
<1>4. QED
  BY <1>2, <1>3

(* The order at the head of a queue is met by the rows before it.          *)
LEMMA HeadIsNext ==
  ASSUME NEW R \in SUBSET Ids, NEW done \in Books, NEW ids, NEW que \in Seq(Ids),
         NEW cur \in Nat, Pulled(que, cur, done, R, ids), que # <<>>
  PROVE  /\ Head(que) \in R /\ Head(que) \in Range(que) /\ Head(que) \notin done
         /\ done = {j \in R : j < Head(que)}
         /\ done \cup {Head(que)} \in Books
         /\ From(done \cup {Head(que)}) = Head(que)
         /\ done \cup {Head(que)} = {j \in R : j <= Head(que)}
         /\ \A new : Head(que) \in new /\ ids \subseteq new =>
              Pulled(Tail(que), cur, done \cup {Head(que)}, R, new)
<1> DEFINE i == Head(que)
           t == Tail(que)
<1>1. /\ Rising(que) /\ \A j \in done, k \in Range(que) : j < k
      /\ done \cup Range(que) = {j \in R : j < cur}
      /\ cur \in {0, 1} \cup {j + 1 : j \in ids \cup Range(que)}
  BY DEF Pulled
<1>2. Ids \in SUBSET Nat
  BY IdsAre
<1>3. /\ i \in Range(que) /\ i \in Ids /\ t \in Seq(Ids) /\ Rising(t)
      /\ Range(que) = {i} \cup Range(t)
      /\ \A k \in Range(t) : i < k
  BY <1>1, <1>2, RisingHead
<1> HIDE DEF i, t
<1>4. i \in R /\ i < cur /\ i \notin done
  BY <1>1, <1>2, <1>3
<1>5. \A j \in R : j \in Nat
  BY <1>2
<1>6. done = {j \in R : j < i}
  <2>1. ASSUME NEW j \in R, j < i PROVE j \in done
    <3>1. j < cur
      BY <1>2, <1>3, <1>4, <1>5, <2>1
    <3>2. j \in done \/ j = i \/ j \in Range(t)
      BY <1>1, <1>3, <3>1
    <3>3. j \in Nat /\ i \in Nat
      BY <1>4, <1>5
    <3>4. QED
      BY <1>3, <2>1, <3>2, <3>3
  <2>2. \A j \in done : j \in R /\ j < i
    BY <1>1, <1>3
  <2>3. QED
    BY <2>1, <2>2
<1>7. done \cup {i} \in Books
  BY <1>3, IdsAre
<1>8. From(done \cup {i}) = i
  <2>1. \A y \in done \cup {i} : y <= i
    BY <1>2, <1>3, <1>4, <1>5, <1>6
  <2>2. QED
    BY <1>7, <2>1, FromIsTheLargest
<1>9. done \cup {i} = {j \in R : j <= i}
  BY <1>4, <1>5, <1>6
<1>10. ASSUME NEW new, i \in new, ids \subseteq new
       PROVE  Pulled(t, cur, done \cup {i}, R, new)
  <2>1. \A j \in done \cup {i}, k \in Range(t) : j < k
    BY <1>1, <1>3
  <2>2. (done \cup {i}) \cup Range(t) = {j \in R : j < cur}
    BY <1>1, <1>3
  <2>3. cur \in {0, 1} \cup {j + 1 : j \in new \cup Range(t)}
    BY <1>1, <1>3, <1>10
  <2>4. QED
    BY <1>3, <2>1, <2>2, <2>3 DEF Pulled
<1>11. QED
  BY <1>3, <1>4, <1>6, <1>7, <1>8, <1>9, <1>10 DEF i, t

-----------------------------------------------------------------------------
(* One lemma per action.  A row that commits in time comes after all that  *)
(* were read.                                                              *)

LEMMA PulledAnother ==
  ASSUME NEW R \in SUBSET Ids, NEW done \in SUBSET Ids, NEW ids \in SUBSET Ids,
         NEW que \in Seq(Ids), NEW cur \in Nat, Pulled(que, cur, done, R, ids),
         NEW i \in Ids, \A j \in ids \cup Range(que) : j < i
  PROVE  Pulled(que, cur, done, R \cup {i}, ids)
<1>1. \A j \in Ids : j \in Nat /\ j > 0
  BY IdsAre
<1>2. Range(que) \subseteq Ids
  BY RangeIs
<1>3. cur <= i
  <2>1. CASE cur \in {0, 1}
    BY <1>1, <2>1
  <2>2. CASE cur \in {j + 1 : j \in ids \cup Range(que)}
    BY <1>1, <1>2, <2>2
  <2>3. QED
    BY <2>1, <2>2 DEF Pulled
<1>4. {j \in R \cup {i} : j < cur} = {j \in R : j < cur}
  BY <1>1, <1>3
<1>5. QED
  BY <1>4 DEF Pulled

LEMMA RightCommit ==
  ASSUME TypeOK, AllRight, NEW i \in Ids, Commit(i), ~late'
  PROVE  AllRight'
<1> DEFINE P == IdsOf(published)
<1>1. /\ rows' = rows \cup {i} /\ i \notin rows /\ ~ReadAbove(i)
  BY DEF Commit
<1>2. UNCHANGED <<disk, matcher, check, main, cursor, queue, batches, quote, hidden>>
  BY DEF Commit
<1>3. /\ P \subseteq rows /\ P \subseteq Ids /\ P = PublishedIds
      /\ Right(rows, published, P)
      /\ Pulled(queue["matcher"], cursor["matcher"], book, rows, P)
      /\ Pulled(queue["check"], cursor["check"], replay, rows, P)
  BY GivenOut, PartsOfRight DEF AllRight
<1> HIDE DEF P
<1>4. /\ rows \in SUBSET Ids /\ book \in SUBSET Ids /\ replay \in SUBSET Ids
      /\ \A p \in Pullers : queue[p] \in Seq(Ids) /\ cursor[p] \in Nat
      /\ "matcher" \in Pullers /\ "check" \in Pullers
  <2>1. /\ rows \subseteq Ids /\ book \in Books /\ replay \in Books
        /\ queue \in [Pullers -> Seq(Ids)] /\ cursor \in [Pullers -> 0..MaxId + 1]
    BY DEF TypeOK
  <2>2. QED
    BY <2>1, IdsAre DEF Pullers
<1>5. \A p \in Pullers : Range(queue[p]) \subseteq rows
  BY <1>3 DEF Pulled, Pullers
<1>6. \A j \in P \cup Range(queue["matcher"]) \cup Range(queue["check"]) : j < i
  <2>1. SUFFICES ASSUME NEW j \in P \cup Range(queue["matcher"]) \cup Range(queue["check"])
                 PROVE  j < i
    OBVIOUS
  <2>2. ~ (i < j)
    BY <1>1, <1>3 DEF ReadAbove
  <2>3. j \in rows
    BY <1>3, <1>4, <1>5
  <2>4. j \in Nat /\ i \in Nat /\ j # i
    BY <1>1, <1>4, <2>3, IdsAre
  <2>5. QED
    BY <2>2, <2>4
<1>7. \A j \in P : j < i
  BY <1>6
<1>8. Right(rows', published', P)
  <2>1. SUFFICES ASSUME NEW r \in published
                 PROVE  /\ r.id \in rows' /\ r.book = {j \in rows' : j < r.id}
                        /\ r.book \subseteq P
    BY <1>2 DEF Right, matcher
  <2>2. r.id \in P /\ r.id \in rows /\ r.book = {j \in rows : j < r.id} /\ r.book \subseteq P
    BY <1>3, GivenOut DEF Right, P
  <2>3. r.id < i /\ r.id \in Nat /\ i \in Nat
    BY <1>4, <1>7, <2>2, IdsAre
  <2>4. QED
    BY <1>1, <2>2, <2>3
<1>9. \A b \in Books : HoldsAllTo(b, rows, P) => HoldsAllTo(b, rows', P)
  <2>1. SUFFICES ASSUME NEW b \in Books, HoldsAllTo(b, rows, P)
                 PROVE  HoldsAllTo(b, rows', P)
    OBVIOUS
  <2>2. b \subseteq P /\ b = {j \in rows : j <= From(b)}
    BY <2>1 DEF HoldsAllTo
  <2>3. From(b) < i
    <3>1. CASE b = {}
      BY <3>1, FromIs, IdsAre
    <3>2. CASE b # {}
      BY <1>7, <2>2, <3>2, FromIs
    <3>3. QED
      BY <3>1, <3>2
  <2>4. From(b) \in Nat /\ i \in Nat
    BY IdsAre
  <2>5. QED
    BY <1>1, <2>2, <2>3, <2>4 DEF HoldsAllTo
<1>10. KeptIsRight'
  <2>1. \A b \in files \cup Range(snapshots) \cup {book, replay, window.base, window.last} :
          HoldsAllTo(b, rows', P)
    BY <1>9, BooksHeld DEF P
  <2>2. P = PublishedIds'
    BY <1>2, <1>3 DEF matcher, PublishedIds
  <2>3. KeptIsRight
    BY DEF AllRight
  <2>4. QED
    BY <1>2, <2>1, <2>2, <2>3 DEF KeptIsRight, disk, matcher, check
<1>11. /\ Pulled(queue["matcher"], cursor["matcher"], book, rows', P)
       /\ Pulled(queue["check"], cursor["check"], replay, rows', P)
  BY <1>1, <1>3, <1>4, <1>6, PulledAnother
<1>12. WindowIsReplayed'
  BY <1>2 DEF AllRight, WindowIsReplayed, disk, matcher, check, Up, NothingHeld
<1>13. P = IdsOf(published')
  BY <1>2 DEF P, matcher
<1>14. QuotesInOrder' /\ QuotesAreWhole'
  <2>1. QuotesInOrder /\ QuotesAreWhole
    BY DEF AllRight
  <2>2. LastBook' = LastBook /\ Up' = Up
    BY <1>2 DEF LastBook, Snapshots, Up, disk
  <2>3. QED
    BY <1>2, <2>1, <2>2, PartsOfRight, PartsOfNext DEF disk, matcher
<1>15. ResultsAreRight' /\ PulledInOrder("matcher", book)' /\ PulledInOrder("check", replay)'
  BY <1>2, <1>8, <1>11, <1>13, PartsOfNext DEF matcher, check
<1>16. QED
  BY <1>10, <1>12, <1>14, <1>15 DEF AllRight

(* What a step leaves alone.                                               *)

LEMMA SameResults ==
  ASSUME AllRight, UNCHANGED <<rows, published>>
  PROVE  ResultsAreRight'
BY DEF AllRight, ResultsAreRight, PublishedIds

LEMMA SameMatcherPulled ==
  ASSUME AllRight, UNCHANGED <<rows, published, book>>,
         queue'["matcher"] = queue["matcher"], cursor'["matcher"] = cursor["matcher"]
  PROVE  PulledInOrder("matcher", book)'
BY DEF AllRight, PulledInOrder, PublishedIds

LEMMA SameCheckPulled ==
  ASSUME AllRight, UNCHANGED <<rows, published, replay>>,
         queue'["check"] = queue["check"], cursor'["check"] = cursor["check"]
  PROVE  PulledInOrder("check", replay)'
BY DEF AllRight, PulledInOrder, PublishedIds

LEMMA SameQuotes ==
  ASSUME AllRight,
         UNCHANGED <<published, quoteFile, redis, quote, mrCh, book, files, main, hidden>>
  PROVE  QuotesInOrder' /\ QuotesAreWhole'
<1>1. QuotesInOrder /\ QuotesAreWhole
  BY DEF AllRight
<1>2. LastBook' = LastBook /\ Up' = Up
  BY DEF LastBook, Snapshots, Up
<1>3. QED
  BY <1>1, <1>2, PartsOfRight, PartsOfNext

LEMMA SameKept ==
  ASSUME AllRight,
         UNCHANGED <<rows, published, files, snapshots, book, replay, window,
                     perch, batches, db, known>>
  PROVE  KeptIsRight'
BY DEF AllRight, KeptIsRight, PublishedIds

LEMMA SameWindow ==
  ASSUME AllRight, Up,
         UNCHANGED <<main, window, known, replay, db>>,
         queue'["check"] = queue["check"] \/ main \in {"loaded", "replaying"},
         cursor'["check"] = cursor["check"] \/ main \in {"loaded", "replaying"}
  PROVE  WindowIsReplayed'
<1>1. WindowIsReplayed /\ Up'
  BY DEF AllRight, Up
<1>2. main' \notin {"loaded", "replaying"} => NothingHeld'
  BY <1>1 DEF WindowIsReplayed, NothingHeld
<1>3. QED
  BY <1>1, <1>2 DEF WindowIsReplayed

-----------------------------------------------------------------------------
(* A round of a puller: the rows it finds are behind all it has sent.      *)

LEMMA PulledMore ==
  ASSUME NEW R \in SUBSET Ids, NEW done \in SUBSET Ids, NEW ids,
         NEW que \in Seq(Ids), NEW cur \in Nat, Pulled(que, cur, done, R, ids),
         NEW found \in Seq(Ids), Rising(found),
         Range(found) = {i \in R : i >= cur}, NEW last \in Range(found),
         \A i \in Range(found) : i <= last
  PROVE  Pulled(que \o found, last + 1, done, R, ids)
<1>1. Ids \in SUBSET Nat /\ \A j \in Ids : j \in Nat
  BY IdsAre
<1>2. /\ Rising(que) /\ \A j \in done, k \in Range(que) : j < k
      /\ done \cup Range(que) = {j \in R : j < cur}
  BY DEF Pulled
<1>3. \A j \in done \cup Range(que), k \in Range(found) : j < k
  <2>1. SUFFICES ASSUME NEW j \in done \cup Range(que), NEW k \in Range(found)
                 PROVE  j < k
    OBVIOUS
  <2>2. j \in R /\ j < cur /\ k \in R /\ k >= cur
    BY <1>2
  <2>3. j \in Nat /\ k \in Nat
    BY <1>1, <2>2
  <2>4. QED
    BY <2>2, <2>3
<1>4. /\ Rising(que \o found)
      /\ Range(que \o found) = Range(que) \cup Range(found)
  <2>1. \A j \in Range(que), k \in Range(found) : j < k
    BY <1>3
  <2>2. QED
    BY <1>1, <1>2, <2>1, RisingConcat
<1>5. \A j \in done, k \in Range(que \o found) : j < k
  BY <1>2, <1>3, <1>4
<1>6. done \cup Range(que \o found) = {j \in R : j < last + 1}
  <2>1. last \in R /\ last \in Nat /\ last >= cur
    BY <1>1
  <2>2. ASSUME NEW j \in R
        PROVE  j < last + 1 <=> j < cur \/ j \in Range(found)
    <3>1. j \in Nat
      BY <1>1
    <3>2. j >= cur => j \in Range(found)
      OBVIOUS
    <3>3. j \in Range(found) => j <= last
      OBVIOUS
    <3>4. QED
      BY <2>1, <3>1, <3>2, <3>3
  <2>3. Range(found) \subseteq R
    OBVIOUS
  <2>4. QED
    BY <1>2, <1>4, <2>2, <2>3
<1>7. last + 1 \in {j + 1 : j \in ids \cup Range(que \o found)}
  BY <1>4
<1>8. QED
  BY <1>4, <1>5, <1>6, <1>7 DEF Pulled

LEMMA RightPull ==
  ASSUME TypeOK, AllRight, NEW p \in Pullers, Pull(p)
  PROVE  AllRight'
<1> DEFINE P == IdsOf(published)
           found == Selected(cursor[p])
<1>1. /\ Pulling(p) /\ found # <<>>
      /\ queue' = [queue EXCEPT ![p] = @ \o found]
      /\ cursor' = [cursor EXCEPT ![p] = Last(found) + 1]
      /\ UNCHANGED <<disk, orders, matcher, check, main, batches, quote, left, hidden>>
  BY DEF Pull
<1>2. /\ found \in Seq(Ids) /\ Rising(found)
      /\ Range(found) = {i \in rows : i >= cursor[p]}
      /\ Last(found) \in Range(found)
      /\ \A i \in Range(found) : i <= Last(found)
  BY <1>1, FoundIs
<1> HIDE DEF found
<1>3. /\ rows \in SUBSET Ids /\ book \in SUBSET Ids /\ replay \in SUBSET Ids
      /\ queue[p] \in Seq(Ids) /\ cursor[p] \in Nat
      /\ queue \in [Pullers -> Seq(Ids)] /\ cursor \in [Pullers -> 0..MaxId + 1]
  <2>1. /\ rows \subseteq Ids /\ book \in Books /\ replay \in Books
        /\ queue \in [Pullers -> Seq(Ids)] /\ cursor \in [Pullers -> 0..MaxId + 1]
    BY DEF TypeOK
  <2>2. QED
    BY <2>1, IdsAre
<1>4. /\ Pulled(queue["matcher"], cursor["matcher"], book, rows, P)
      /\ Pulled(queue["check"], cursor["check"], replay, rows, P)
  BY PartsOfRight DEF AllRight
<1>5. /\ queue'[p] = queue[p] \o found /\ cursor'[p] = Last(found) + 1
      /\ \A o \in Pullers \ {p} : queue'[o] = queue[o] /\ cursor'[o] = cursor[o]
  BY <1>1, <1>3
<1>6. UNCHANGED <<rows, published, files, snapshots, book, replay, window, perch, batches,
                  db, known, quoteFile, redis, quote, mrCh, main, hidden>>
  BY <1>1 DEF disk, orders, matcher, check
<1>7. ResultsAreRight' /\ KeptIsRight' /\ QuotesInOrder' /\ QuotesAreWhole'
  BY <1>6, SameResults, SameKept, SameQuotes
<1> HIDE DEF P
<1>8. CASE p = "matcher"
  <2>1. Up /\ "check" \in Pullers \ {p}
    BY <1>1, <1>8 DEF Pulling, Pullers
  <2>2. queue'["check"] = queue["check"] /\ cursor'["check"] = cursor["check"]
    BY <1>5, <2>1
  <2>3. WindowIsReplayed' /\ PulledInOrder("check", replay)'
    BY <1>6, <2>1, <2>2, SameWindow, SameCheckPulled
  <2>4. Pulled(queue["matcher"] \o found, Last(found) + 1, book, rows, P)
    BY <1>2, <1>3, <1>4, <1>8, PulledMore
  <2>5. PulledInOrder("matcher", book)'
    BY <1>5, <1>6, <1>8, <2>4, PartsOfNext DEF P
  <2>6. QED
    BY <1>7, <2>3, <2>5 DEF AllRight
<1>9. CASE p = "check"
  <2>1. Up /\ "matcher" \in Pullers \ {p} /\ main \in {"loaded", "replaying"}
    BY <1>1, <1>9 DEF Pulling, Pullers, Up
  <2>2. queue'["matcher"] = queue["matcher"] /\ cursor'["matcher"] = cursor["matcher"]
    BY <1>5, <2>1
  <2>3. WindowIsReplayed' /\ PulledInOrder("matcher", book)'
    BY <1>6, <2>1, <2>2, SameWindow, SameMatcherPulled
  <2>4. Pulled(queue["check"] \o found, Last(found) + 1, replay, rows, P)
    BY <1>2, <1>3, <1>4, <1>9, PulledMore
  <2>5. PulledInOrder("check", replay)'
    BY <1>5, <1>6, <1>9, <2>4, PartsOfNext DEF P
  <2>6. QED
    BY <1>7, <2>3, <2>5 DEF AllRight
<1>10. QED
  BY <1>8, <1>9 DEF Pullers

-----------------------------------------------------------------------------
(* An order is matched.  Its result is new, or the same as before: the     *)
(* book holds the rows before it.                                          *)

LEMMA CoversOneMore ==
  ASSUME NEW ids \in SUBSET Ids, NEW q \in Seq(Ids), NEW from \in Nat, Counting(q, from, ids),
         NEW i \in Ids, \A j \in ids : i < j => i \in ids
  PROVE  /\ i \notin ids => MaxMRId(q) < i
         /\ Counting(q, from, ids \cup {i})
<1>1. /\ MaxMRId(q) \in Nat
      /\ MaxMRId(q) # 0 => MaxMRId(q) \in ids
  BY CountedIs
<1>2. i \in Nat /\ i > 0
  BY IdsAre
<1>3. i \notin ids => MaxMRId(q) < i
  <2>1. SUFFICES ASSUME i \notin ids PROVE MaxMRId(q) < i
    OBVIOUS
  <2>2. CASE MaxMRId(q) = 0
    BY <1>2, <2>2
  <2>3. CASE MaxMRId(q) # 0
    <3>1. MaxMRId(q) \in ids /\ MaxMRId(q) # i /\ ~ (i < MaxMRId(q))
      BY <1>1, <2>1, <2>3
    <3>2. MaxMRId(q) \in Nat /\ i \in Nat
      BY <1>1, <1>2
    <3>3. QED
      BY <3>1, <3>2
  <2>4. QED
    BY <2>2, <2>3
<1>4. Covers(q, from, ids \cup {i})
  <2>1. SUFFICES ASSUME NEW k \in ids \cup {i}, from < k, k <= MaxMRId(q)
                 PROVE  k \in Range(q)
    BY DEF Covers
  <2>2. CASE k \in ids
    BY <2>1, <2>2 DEF Counting, Covers
  <2>3. CASE k \notin ids
    <3>1. k = i /\ MaxMRId(q) < i
      BY <1>3, <2>3
    <3>2. MaxMRId(q) \in Nat /\ i \in Nat /\ i <= MaxMRId(q)
      BY <1>1, <1>2, <2>1, <3>1
    <3>3. QED
      BY <3>1, <3>2
  <2>4. QED
    BY <2>2, <2>3
<1>5. QED
  BY <1>3, <1>4 DEF Counting

LEMMA QuotedMatch ==
  ASSUME NEW ids \in SUBSET Ids, NEW qf \in Seq(Ids), NEW rd \in Seq(Ids), NEW q \in Seq(Ids),
         NEW ch \in Seq(Ids \cup {Snap}), NEW b \in Books, NEW from \in Nat,
         Quoted(qf, rd, q, ch, b, from, ids, TRUE),
         NEW i \in Ids, \A j \in ids : i < j => i \in ids,
         \A j \in b : j < i, From(b \cup {i}) = i
  PROVE  Quoted(qf, rd, q, Append(ch, i), b \cup {i}, from, ids \cup {i}, TRUE)
<1> DEFINE c == Append(ch, i)
           d == b \cup {i}
           P == ids \cup {i}
<1>1. /\ c \in Seq(Ids \cup {Snap}) /\ Range(c) = Range(ch) \cup {i}
  BY RangeOfAppend
<1>2. i \in Nat /\ i > 0 /\ From(b) \in Nat
  BY IdsAre
<1>3. IdsRise(c)
  <2>1. \A k \in Range(ch) : k < i \/ k = Snap
    BY DEF Quoted
  <2>2. IdsRise(ch) /\ Ids \cup {Snap} \in SUBSET Nat /\ i \in Ids \cup {Snap}
    BY IdsAre DEF Quoted
  <2>3. QED
    BY <2>1, <2>2, IdsRiseAppend
<1>4. /\ Counting(qf, from, ids) /\ Counting(rd, from, ids) /\ Counting(q, from, ids)
  BY DEF Quoted
<1>5. /\ Counting(qf, from, P) /\ Counting(rd, from, P) /\ Counting(q, from, P)
  BY <1>4, CoversOneMore
<1>6. ASSUME NEW x \in Seq(Ids), Counting(x, from, ids), Covers(x, From(b), ids),
             \A k \in Range(ch) : k <= MaxMRId(x) => k = Snap \/ k \in Range(x)
      PROVE  /\ Covers(x, From(d), P)
             /\ \A k \in Range(c) : k <= MaxMRId(x) => k = Snap \/ k \in Range(x)
  <2>1. MaxMRId(x) \in Nat /\ (i \notin ids => MaxMRId(x) < i)
    BY <1>6, CoversOneMore, CountedIs
  <2>2. From(b) < i
    <3>1. CASE b = {}
      BY <1>2, <3>1, FromIs
    <3>2. CASE b # {}
      BY <3>2, FromIs
    <3>3. QED
      BY <3>1, <3>2
  <2>3. \A k \in P : i < k => k \in ids /\ k \in Nat /\ From(b) < k
    <3>1. \A k \in P : k \in Nat
      BY IdsAre
    <3>2. QED
      BY <1>2, <2>2, <3>1
  <2>4. Covers(x, From(d), P)
    BY <1>6, <2>3 DEF Covers
  <2>5. i <= MaxMRId(x) => i \in Range(x)
    <3>1. SUFFICES ASSUME i <= MaxMRId(x) PROVE i \in Range(x)
      OBVIOUS
    <3>2. i \in ids
      BY <1>2, <2>1, <3>1
    <3>3. QED
      BY <1>6, <2>2, <3>1, <3>2 DEF Covers
  <2>6. QED
    BY <1>1, <1>6, <2>4, <2>5
<1>7. InMemory(qf, rd, q, c, d, P)
  <2>1. InMemory(qf, rd, q, ch, b, ids)
    BY DEF Quoted
  <2> HIDE DEF c, d, P
  <2>2. QED
    BY <1>4, <1>6, <2>1 DEF InMemory
<1>8. /\ Range(c) \ {Snap} \subseteq d
      /\ \A k \in d : k <= MaxMRId(q) \/ k <= from \/ k \in Range(c)
      /\ Range(qf) \subseteq Range(rd)
      /\ \A k \in Range(q) : k <= MaxMRId(rd) => k \in Range(rd)
  BY <1>1 DEF Quoted
<1> HIDE DEF c, d, P
<1>9. Quoted(qf, rd, q, c, d, from, P, TRUE)
  BY <1>3, <1>5, <1>7, <1>8 DEF Quoted
<1>10. QED
  BY <1>9 DEF c, d, P

LEMMA UnbrokenMatch ==
  ASSUME NEW ids \in SUBSET Ids, NEW qf \in Seq(Ids), NEW q \in Seq(Ids),
         NEW ch \in Seq(Ids \cup {Snap}), NEW b, NEW from \in Nat, NEW m, NEW hid,
         Counting(qf, from, ids), Counting(q, from, ids),
         Unbroken(hid, qf, q, ch, b, from, ids, m),
         NEW i \in Ids, \A j \in ids : i < j => i \in ids
  PROVE  Unbroken(hid, qf, q, Append(ch, i), b \cup {i}, from, ids \cup {i}, m)
<1> DEFINE c == Append(ch, i)
           P == ids \cup {i}
<1>1. Range(c) = Range(ch) \cup {i}
  BY RangeOfAppend
<1>2. ASSUME NEW x \in Seq(Ids), Counting(x, from, ids), NoGap(x, ids)
      PROVE  NoGap(x, P)
  <2>1. MaxMRId(x) \in Nat /\ (i \notin ids => MaxMRId(x) < i) /\ i \in Nat
    BY <1>2, CoversOneMore, CountedIs, IdsAre
  <2>2. i \notin ids => ~ (i <= MaxMRId(x))
    BY <2>1
  <2>3. {k \in P : k <= MaxMRId(x)} = {k \in ids : k <= MaxMRId(x)}
    BY <2>2
  <2>4. QED
    BY <1>2, <2>3 DEF NoGap
<1>3. NothingMissing(q, ch, b, ids) => NothingMissing(q, c, b \cup {i}, P)
  BY <1>1, <1>2 DEF NothingMissing
<1> HIDE DEF c, P
<1>4. Unbroken(hid, qf, q, c, b \cup {i}, from, P, m)
  BY <1>2, <1>3 DEF Unbroken
<1>5. QED
  BY <1>4 DEF c, P

LEMMA RightMatch ==
  ASSUME TypeOK, AllRight, Match
  PROVE  AllRight'
<1> DEFINE P == IdsOf(published)
           que == queue["matcher"]
           i == Head(que)
           r == Result(i, book)
<1>1. /\ Up /\ que # <<>>
      /\ queue' = [queue EXCEPT !["matcher"] = Tail(que)]
      /\ book' = book \cup {i} /\ published' = published \cup {r}
      /\ perch' = Append(perch, r) /\ mrCh' = Append(mrCh, i)
      /\ UNCHANGED <<disk, orders, check, snapshots, main, cursor, batches, quote,
                     left, hidden>>
  BY DEF Match
<1>2. /\ rows \in SUBSET Ids /\ book \in Books /\ que \in Seq(Ids)
      /\ cursor["matcher"] \in Nat /\ queue \in [Pullers -> Seq(Ids)]
      /\ "matcher" \in Pullers /\ "check" \in Pullers
      /\ perch \in Seq(Results) /\ mrCh \in Seq(Ids \cup {Snap})
  BY IdsAre DEF TypeOK, Pullers, Results
<1>3. /\ P \in SUBSET Ids /\ P \subseteq rows
      /\ \A k \in P, j \in rows : j < k => j \in P
  BY GivenOut
<1>4. /\ Right(rows, published, P)
      /\ Pulled(que, cursor["matcher"], book, rows, P)
      /\ Pulled(queue["check"], cursor["check"], replay, rows, P)
      /\ Quoted(quoteFile, redis, quote, mrCh, book, From(LastBook), P, TRUE)
      /\ Unbroken(hidden, quoteFile, quote, mrCh, book, From(LastBook), P, main)
  BY <1>1, PartsOfRight DEF AllRight
<1>5. HoldsAllTo(book, rows, P)
  BY BooksHeld
<1>6. r.id = i /\ r.book = book
  BY DEF Result
<1>7. IdsOf(published') = P \cup {i}
  BY <1>1, <1>6 DEF IdsOf
<1> HIDE DEF P, que, r, i
<1>8. /\ i \in rows /\ i \in Ids /\ i \in Range(que)
      /\ book = {j \in rows : j < i}
      /\ book \cup {i} \in Books
      /\ From(book \cup {i}) = i
      /\ book \cup {i} = {j \in rows : j <= i}
      /\ \A new : i \in new /\ P \subseteq new =>
           Pulled(Tail(que), cursor["matcher"], book \cup {i}, rows, new)
  <2> DEFINE cur == cursor["matcher"]
  <2>1. /\ rows \in SUBSET Ids /\ book \in Books /\ que \in Seq(Ids) /\ cur \in Nat
        /\ Pulled(que, cur, book, rows, P) /\ que # <<>>
    BY <1>1, <1>2, <1>4
  <2> HIDE DEF cur
  <2>2. /\ Head(que) \in rows /\ Head(que) \in Range(que)
        /\ book = {j \in rows : j < Head(que)}
        /\ book \cup {Head(que)} \in Books
        /\ From(book \cup {Head(que)}) = Head(que)
        /\ book \cup {Head(que)} = {j \in rows : j <= Head(que)}
        /\ \A new : Head(que) \in new /\ P \subseteq new =>
             Pulled(Tail(que), cur, book \cup {Head(que)}, rows, new)
    BY <2>1, HeadIsNext
  <2>3. QED
    BY <2>1, <2>2 DEF i, cur
<1>9. r \in Results
  BY <1>2, <1>8 DEF Results, Result, r
<1>10. book \subseteq P
  BY <1>5 DEF HoldsAllTo
<1>11. Right(rows', published', P \cup {i})
  <2>1. \A x \in published : x.id \in rows /\ x.book = {j \in rows : j < x.id} /\ x.book \subseteq P
    BY <1>4 DEF Right
  <2>2. r.id \in rows /\ r.book = {j \in rows : j < r.id} /\ r.book \subseteq P
    BY <1>6, <1>8, <1>10
  <2>3. rows' = rows
    BY <1>1 DEF orders
  <2>4. QED
    BY <1>1, <2>1, <2>2, <2>3 DEF Right
<1>12. KeptIsRight'
  <2>1. \A b \in files \cup Range(snapshots) \cup {book, replay, window.base, window.last} :
          HoldsAllTo(b, rows, P \cup {i})
    BY BooksHeld DEF HoldsAllTo, P
  <2>2. HoldsAllTo(book \cup {i}, rows, P \cup {i})
    BY <1>8, <1>10 DEF HoldsAllTo
  <2>3. Range(perch') = Range(perch) \cup {r}
    BY <1>1, <1>2, <1>9, RangeOfAppend
  <2>4. PublishedIds' = P \cup {i}
    BY <1>7, PartsOfNext
  <2>5. /\ Range(perch) \subseteq published
        /\ \A batch \in batches : batch \subseteq published
        /\ \A k \in DOMAIN db : Result(k, db[k]) \in published
        /\ \A k \in DOMAIN known : k \in DOMAIN db /\ known[k] = db[k]
    BY DEF AllRight, KeptIsRight
  <2>6. UNCHANGED <<files, snapshots, replay, window, batches, db, known, rows>>
    BY <1>1 DEF disk, orders, check
  <2>7. \A b \in files' \cup Range(snapshots') \cup {book', replay', window.base', window.last'} :
          HoldsAllTo(b, rows', PublishedIds')
    BY <1>1, <2>1, <2>2, <2>4, <2>6
  <2>8. /\ Range(perch') \subseteq published'
        /\ \A batch \in batches' : batch \subseteq published'
        /\ \A k \in DOMAIN db' : Result(k, db'[k]) \in published'
        /\ \A k \in DOMAIN known' : k \in DOMAIN db' /\ known'[k] = db'[k]
    BY <1>1, <2>3, <2>5, <2>6
  <2>9. QED
    BY <2>7, <2>8 DEF KeptIsRight
<1>13. /\ queue'["matcher"] = Tail(que) /\ queue'["check"] = queue["check"]
       /\ UNCHANGED <<cursor, rows, replay, main, window, known, db, files, quoteFile,
                      redis, quote, hidden>>
  BY <1>1, <1>2 DEF disk, orders, check
<1>14. PulledInOrder("matcher", book)'
  BY <1>1, <1>7, <1>8, <1>13, PartsOfNext
<1>15. PulledInOrder("check", replay)'
  <2>1. Pulled(queue["check"], cursor["check"], replay, rows, P \cup {i})
    BY <1>4 DEF Pulled
  <2>2. QED
    BY <1>7, <1>13, <2>1, PartsOfNext
<1>16. WindowIsReplayed'
  BY <1>1, <1>13, SameWindow
<1>17. \A j \in P : i < j => i \in P
  BY <1>3, <1>8
<1>18. /\ quoteFile \in Seq(Ids) /\ redis \in Seq(Ids) /\ quote \in Seq(Ids)
       /\ From(LastBook) \in Nat
  BY LastBookIs, IdsAre DEF TypeOK
<1>19. LastBook' = LastBook /\ Up' = Up
  BY <1>13 DEF LastBook, Snapshots, Up
<1>20. QuotesInOrder'
  <2>1. \A j \in book : j < i
    BY <1>8
  <2>2. Quoted(quoteFile, redis, quote, Append(mrCh, i), book \cup {i},
               From(LastBook), P \cup {i}, TRUE)
    BY <1>2, <1>3, <1>4, <1>8, <1>17, <1>18, <2>1, QuotedMatch
  <2>3. QED
    BY <1>1, <1>7, <1>13, <1>19, <2>2, PartsOfNext
<1>21. QuotesAreWhole'
  <2>1. Counting(quoteFile, From(LastBook), P) /\ Counting(quote, From(LastBook), P)
    BY <1>4 DEF Quoted
  <2>2. Unbroken(hidden, quoteFile, quote, Append(mrCh, i), book \cup {i},
                 From(LastBook), P \cup {i}, main)
    BY <1>2, <1>3, <1>4, <1>8, <1>17, <1>18, <2>1, UnbrokenMatch
  <2>3. QED
    BY <1>1, <1>7, <1>13, <1>19, <2>2, PartsOfNext
<1>22. ResultsAreRight'
  BY <1>7, <1>11, PartsOfNext
<1>23. QED
  BY <1>12, <1>14, <1>15, <1>16, <1>20, <1>21, <1>22 DEF AllRight

-----------------------------------------------------------------------------
(* The snapshots, the batches and the writers.                             *)

(* "snapshot!" moves nothing of the ids on their way.                      *)
LEMMA QuotedTick ==
  ASSUME NEW qf, NEW rd, NEW q, NEW ch \in Seq(Ids \cup {Snap}), NEW b, NEW from, NEW ids,
         NEW hid, NEW m,
         Quoted(qf, rd, q, ch, b, from, ids, TRUE),
         Unbroken(hid, qf, q, ch, b, from, ids, m)
  PROVE  /\ Quoted(qf, rd, q, Append(ch, Snap), b, from, ids, TRUE)
         /\ Unbroken(hid, qf, q, Append(ch, Snap), b, from, ids, m)
<1> DEFINE c == Append(ch, Snap)
<1>1. Range(c) = Range(ch) \cup {Snap}
  BY RangeOfAppend
<1>2. IdsRise(c)
  <2>1. Ids \cup {Snap} \in SUBSET Nat /\ Snap \in Ids \cup {Snap} /\ IdsRise(ch)
    BY IdsAre DEF Quoted
  <2>2. QED
    BY <2>1, IdsRiseAppend
<1> HIDE DEF c
<1>3. InMemory(qf, rd, q, c, b, ids)
  BY <1>1 DEF Quoted, InMemory
<1>4. Quoted(qf, rd, q, c, b, from, ids, TRUE)
  BY <1>1, <1>2, <1>3 DEF Quoted
<1>5. NothingMissing(q, ch, b, ids) => NothingMissing(q, c, b, ids)
  BY <1>1 DEF NothingMissing
<1>6. Unbroken(hid, qf, q, c, b, from, ids, m)
  BY <1>5 DEF Unbroken
<1>7. QED
  BY <1>4, <1>6 DEF c

LEMMA RightTick ==
  ASSUME TypeOK, AllRight, Tick
  PROVE  AllRight'
<1>1. /\ Up /\ snapshots' = Append(snapshots, book) /\ mrCh' = Append(mrCh, Snap)
      /\ UNCHANGED <<disk, orders, check, book, perch, published, main, cursor,
                     queue, batches, quote, hidden>>
  BY DEF Tick
<1>2. UNCHANGED <<rows, published, book, replay, window, known, db, files, perch,
                  batches, queue, cursor, main, quoteFile, redis, quote, hidden>>
  BY <1>1 DEF disk, orders, check
<1>3. /\ snapshots \in Seq(Books) /\ book \in Books
      /\ mrCh \in Seq(Ids \cup {Snap})
  BY DEF TypeOK
<1>4. KeptIsRight'
  <2>1. Range(snapshots') = Range(snapshots) \cup {book}
    BY <1>1, <1>3, RangeOfAppend
  <2>2. KeptIsRight
    BY DEF AllRight
  <2>3. PublishedIds' = PublishedIds
    BY <1>2 DEF PublishedIds
  <2>4. QED
    BY <1>2, <2>1, <2>2, <2>3 DEF KeptIsRight
<1>5. QuotesInOrder' /\ QuotesAreWhole'
  <2> DEFINE P == IdsOf(published)
  <2>1. /\ Quoted(quoteFile, redis, quote, mrCh, book, From(LastBook), P, TRUE)
        /\ Unbroken(hidden, quoteFile, quote, mrCh, book, From(LastBook), P, main)
    BY <1>1, PartsOfRight DEF AllRight
  <2>2. LastBook' = LastBook /\ Up' = Up /\ P' = P
    BY <1>2 DEF LastBook, Snapshots, Up
  <2> HIDE DEF P
  <2>3. /\ Quoted(quoteFile, redis, quote, Append(mrCh, Snap), book, From(LastBook), P, TRUE)
        /\ Unbroken(hidden, quoteFile, quote, Append(mrCh, Snap), book, From(LastBook), P, main)
    BY <1>3, <2>1, QuotedTick
  <2>4. P' = IdsOf(published')
    BY DEF P
  <2>5. QED
    BY <1>1, <1>2, <2>2, <2>3, <2>4, PartsOfNext
<1>6. WindowIsReplayed'
  BY <1>1, <1>2, SameWindow
<1>7. ResultsAreRight' /\ PulledInOrder("matcher", book)' /\ PulledInOrder("check", replay)'
  BY <1>2, SameResults, SameMatcherPulled, SameCheckPulled
<1>8. QED
  BY <1>4, <1>5, <1>6, <1>7 DEF AllRight

(* A newer book in the directory asks less of the quotations.              *)
LEMMA QuotedDump ==
  ASSUME NEW qf, NEW rd, NEW q, NEW ch, NEW b \in Books, NEW ids \in SUBSET Ids,
         NEW from \in Nat, NEW next \in Nat, from <= next, NEW hid, NEW m,
         MaxMRId(qf) \in Nat,
         Quoted(qf, rd, q, ch, b, from, ids, TRUE),
         Unbroken(hid, qf, q, ch, b, from, ids, m)
  PROVE  /\ Quoted(qf, rd, q, ch, b, next, ids, TRUE)
         /\ Unbroken(hid, qf, q, ch, b, next, ids, m)
<1>1. /\ \A i \in ids : next < i => from < i
      /\ \A i \in b : i <= from => i <= next
  BY IdsAre
<1>2. \A x : Counting(x, from, ids) => Counting(x, next, ids)
  BY <1>1 DEF Counting, Covers
<1>3. Quoted(qf, rd, q, ch, b, next, ids, TRUE)
  BY <1>1, <1>2 DEF Quoted
<1>4. from > MaxMRId(qf) => next > MaxMRId(qf)
  OBVIOUS
<1>5. Unbroken(hid, qf, q, ch, b, next, ids, m)
  BY <1>4 DEF Unbroken
<1>6. QED
  BY <1>3, <1>5

LEMMA RightDump ==
  ASSUME TypeOK, AllRight, Dump
  PROVE  AllRight'
<1>1. /\ Up /\ snapshots' = Tail(snapshots)
      /\ UNCHANGED <<db, quoteFile, redis, orders, check, book, perch, mrCh,
                     published, main, cursor, queue, batches, quote, left, hidden>>
  BY DEF Dump
<1>2. UNCHANGED <<rows, published, book, replay, window, known, db, perch, mrCh,
                  batches, queue, cursor, main, quoteFile, redis, quote, hidden>>
  BY <1>1 DEF orders, check
<1>3. /\ Head(snapshots) \in Range(snapshots)
      /\ Range(snapshots) = {Head(snapshots)} \cup Range(Tail(snapshots))
      /\ files' \subseteq files \cup {Head(snapshots)} /\ files' \subseteq Books
      /\ From(LastBook) <= From(LastBook')
  BY DumpIs
<1>4. KeptIsRight'
  <2>1. KeptIsRight
    BY DEF AllRight
  <2>2. PublishedIds' = PublishedIds
    BY <1>2 DEF PublishedIds
  <2>3. files' \cup Range(snapshots') \subseteq files \cup Range(snapshots)
    BY <1>1, <1>3
  <2>4. QED
    BY <1>2, <2>1, <2>2, <2>3 DEF KeptIsRight
<1>5. QuotesInOrder' /\ QuotesAreWhole'
  <2> DEFINE P == IdsOf(published)
             L == From(LastBook)
             M == From(LastBook')
  <2>1. /\ Quoted(quoteFile, redis, quote, mrCh, book, L, P, TRUE)
        /\ Unbroken(hidden, quoteFile, quote, mrCh, book, L, P, main)
    BY <1>1, PartsOfRight DEF AllRight
  <2>2. Up' = Up /\ P' = P /\ P \in SUBSET Ids
    BY <1>2, GivenOut DEF Up
  <2>3. L \in Nat
    BY LastBookIs, IdsAre DEF TypeOK
  <2>4. M \in Nat
    <3>1. (files \subseteq Books => LastBook \in Books)'
      BY LastBookIs, PTL
    <3>2. LastBook' \in Books
      BY <1>3, <3>1
    <3>3. QED
      BY <3>2, IdsAre
  <2>5. Counting(quoteFile, L, P) /\ quoteFile \in Seq(Ids)
    BY <2>1 DEF TypeOK, Quoted
  <2>6. L <= M
    BY <1>3
  <2>7. book \in Books
    BY DEF TypeOK
  <2>8. P' = IdsOf(published')
    BY DEF P
  <2> HIDE DEF P, L, M
  <2>9. MaxMRId(quoteFile) \in Nat
    BY <2>2, <2>5, CountedIs
  <2>10. /\ Quoted(quoteFile, redis, quote, mrCh, book, M, P, TRUE)
         /\ Unbroken(hidden, quoteFile, quote, mrCh, book, M, P, main)
    BY <2>1, <2>2, <2>3, <2>4, <2>6, <2>7, <2>9, QuotedDump
  <2>11. QED
    BY <1>1, <1>2, <2>2, <2>8, <2>10, PartsOfNext DEF M
<1>6. WindowIsReplayed'
  BY <1>1, <1>2, SameWindow
<1>7. ResultsAreRight' /\ PulledInOrder("matcher", book)' /\ PulledInOrder("check", replay)'
  BY <1>2, SameResults, SameMatcherPulled, SameCheckPulled
<1>8. QED
  BY <1>4, <1>5, <1>6, <1>7 DEF AllRight

LEMMA RightBatch ==
  ASSUME TypeOK, AllRight, Batch
  PROVE  AllRight'
<1>1. /\ Up
      /\ UNCHANGED <<disk, orders, check, book, snapshots, mrCh, published, main,
                     cursor, queue, quote, left, hidden>>
  BY DEF Batch
<1>2. UNCHANGED <<rows, published, book, snapshots, replay, window, known, db, files,
                  queue, cursor, main, mrCh, quoteFile, redis, quote, hidden>>
  BY <1>1 DEF disk, orders, check
<1>3. PICK batch : /\ batches' = batches \cup {batch} /\ batch \subseteq Range(perch)
                   /\ Range(perch') \subseteq Range(perch)
  BY BatchIs
<1>4. KeptIsRight'
  <2>1. KeptIsRight
    BY DEF AllRight
  <2>2. PublishedIds' = PublishedIds
    BY <1>2 DEF PublishedIds
  <2>3. QED
    BY <1>2, <1>3, <2>1, <2>2 DEF KeptIsRight
<1>5. QuotesInOrder' /\ QuotesAreWhole' /\ WindowIsReplayed'
  BY <1>1, <1>2, SameQuotes, SameWindow
<1>6. ResultsAreRight' /\ PulledInOrder("matcher", book)' /\ PulledInOrder("check", replay)'
  BY <1>2, SameResults, SameMatcherPulled, SameCheckPulled
<1>7. QED
  BY <1>4, <1>5, <1>6 DEF AllRight

LEMMA RightWrite ==
  ASSUME TypeOK, AllRight, NEW batch \in batches, Write(batch)
  PROVE  AllRight'
<1>1. /\ Up /\ batches' = batches \ {batch}
      /\ db' = Inserted(db, batch) \/ db' = db
      /\ UNCHANGED <<files, quoteFile, redis, orders, matcher, check, main, cursor,
                     queue, quote, hidden>>
  BY DEF Write
<1>2. UNCHANGED <<rows, published, book, snapshots, replay, window, known, files, perch,
                  queue, cursor, main, mrCh, quoteFile, redis, quote, hidden>>
  BY <1>1 DEF orders, matcher, check
<1>3. KeptIsRight /\ batch \subseteq published /\ batch \in SUBSET Results
  BY DEF AllRight, KeptIsRight, TypeOK, Results
<1>4. /\ DOMAIN db \subseteq DOMAIN db' /\ \A i \in DOMAIN db : db'[i] = db[i]
      /\ \A i \in DOMAIN db' : Result(i, db'[i]) \in published
  <2>1. CASE db' = db
    BY <1>3, <2>1 DEF KeptIsRight
  <2>2. CASE db' = Inserted(db, batch)
    <3>1. /\ DOMAIN db' = DOMAIN db \cup {r.id : r \in batch}
          /\ \A i \in DOMAIN db : db'[i] = db[i]
          /\ \A i \in DOMAIN db' \ DOMAIN db : Result(i, db'[i]) \in batch
      BY <1>3, <2>2, InsertedIs
    <3>2. ASSUME NEW i \in DOMAIN db' PROVE Result(i, db'[i]) \in published
      <4>1. CASE i \in DOMAIN db
        BY <1>3, <3>1, <4>1 DEF KeptIsRight
      <4>2. CASE i \notin DOMAIN db
        BY <1>3, <3>1, <4>2
      <4>3. QED
        BY <4>1, <4>2
    <3>3. QED
      BY <3>1, <3>2
  <2>3. QED
    BY <1>1, <2>1, <2>2
<1>5. KeptIsRight'
  <2>1. PublishedIds' = PublishedIds
    BY <1>2 DEF PublishedIds
  <2>2. \A b \in files' \cup Range(snapshots') \cup {book', replay', window.base', window.last'} :
          HoldsAllTo(b, rows', PublishedIds')
    BY <1>2, <1>3, <2>1 DEF KeptIsRight
  <2>3. Range(perch') \subseteq published' /\ \A x \in batches' : x \subseteq published'
    BY <1>1, <1>2, <1>3 DEF KeptIsRight
  <2>4. \A i \in DOMAIN known' : i \in DOMAIN db' /\ known'[i] = db'[i]
    BY <1>2, <1>3, <1>4 DEF KeptIsRight
  <2>5. QED
    BY <1>2, <1>4, <2>2, <2>3, <2>4 DEF KeptIsRight
<1>6. WindowIsReplayed'
  <2>1. WindowIsReplayed /\ Up'
    BY <1>1, <1>2 DEF AllRight, Up
  <2>2. main' \notin {"loaded", "replaying"} => NothingHeld'
    BY <1>2, <2>1 DEF WindowIsReplayed, NothingHeld
  <2>3. QED
    BY <1>2, <1>4, <2>1, <2>2 DEF WindowIsReplayed
<1>7. QuotesInOrder' /\ QuotesAreWhole'
  BY <1>2, SameQuotes
<1>8. ResultsAreRight' /\ PulledInOrder("matcher", book)' /\ PulledInOrder("check", replay)'
  BY <1>2, SameResults, SameMatcherPulled, SameCheckPulled
<1>9. QED
  BY <1>5, <1>6, <1>7, <1>8 DEF AllRight

-----------------------------------------------------------------------------
(* A result is counted.  Every id below it that was given out is in the    *)
(* book, and so was counted, or is behind it on the way: nothing is passed *)
(* over.                                                                   *)

LEMMA BelowIsCounted ==
  ASSUME NEW q \in Seq(Ids), NEW ch \in Seq(Ids \cup {Snap}), ch # <<>>, IdsRise(ch),
         Head(ch) # Snap, NEW k \in Ids, k < Head(ch), NEW low,
         low \/ k <= MaxMRId(q) \/ k \in Range(ch)
  PROVE  low \/ k <= MaxMRId(q)
<1>1. /\ Ids \cup {Snap} \in SUBSET Nat /\ k \in Nat /\ k # Snap
  BY IdsAre DEF Snap
<1>2. /\ Range(ch) = {Head(ch)} \cup Range(Tail(ch)) /\ Head(ch) \in Ids \cup {Snap}
      /\ Tail(ch) \in Seq(Ids \cup {Snap})
  BY RangeOfTail
<1>3. \A j \in Range(Tail(ch)) : Head(ch) < j \/ j = Snap
  BY <1>1, IdsRiseTail
<1>4. Range(Tail(ch)) \subseteq Ids \cup {Snap}
  BY <1>2, RangeIs
<1>5. k \notin Range(ch)
  <2>1. SUFFICES ASSUME k \in Range(ch) PROVE FALSE
    OBVIOUS
  <2>2. k # Head(ch)
    BY <1>1, <1>2
  <2>3. Head(ch) < k
    BY <1>1, <1>2, <1>3, <2>1, <2>2
  <2>4. k \in Nat /\ Head(ch) \in Nat
    BY <1>1, <1>2
  <2>5. QED
    BY <2>3, <2>4
<1>6. QED
  BY <1>5

LEMMA QuotedCount ==
  ASSUME NEW R \in SUBSET Ids, NEW ids \in SUBSET R, NEW qf \in Seq(Ids), NEW rd \in Seq(Ids),
         NEW q \in Seq(Ids), NEW ch \in Seq(Ids \cup {Snap}), NEW b \in Books,
         HoldsAllTo(b, R, ids), NEW from \in Nat, NEW hid, NEW m,
         Quoted(qf, rd, q, ch, b, from, ids, TRUE),
         Unbroken(hid, qf, q, ch, b, from, ids, m),
         ch # <<>>, Head(ch) # Snap, MaxMRId(q) < Head(ch)
  PROVE  /\ Quoted(qf, rd, Append(q, Head(ch)), Tail(ch), b, from, ids, TRUE)
         /\ Unbroken(hid, qf, Append(q, Head(ch)), Tail(ch), b, from, ids, m)
<1> DEFINE i == Head(ch)
           t == Tail(ch)
           n == Append(q, i)
<1>1. /\ Range(ch) = {i} \cup Range(t) /\ i \in Ids \cup {Snap}
      /\ t \in Seq(Ids \cup {Snap}) /\ i \in Range(ch)
  BY RangeOfTail
<1>2. /\ Ids \cup {Snap} \in SUBSET Nat /\ Ids \in SUBSET (Nat \ {0})
      /\ i \in Ids /\ i \in Nat
  BY <1>1, IdsAre
<1>3. IdsRise(ch) /\ IdsRise(t) /\ \A k \in Range(t) : i < k \/ k = Snap
  BY <1>2, IdsRiseTail DEF Quoted
<1>4. /\ n \in Seq(Ids) /\ Rising(n) /\ Range(n) = Range(q) \cup {i}
      /\ MaxMRId(n) = i
  <2>1. Rising(q) /\ MaxMRId(q) < i
    BY DEF Quoted, Counting
  <2>2. Ids \in SUBSET (Nat \ {0}) /\ q \in Seq(Ids) /\ i \in Ids
    BY <1>2
  <2> HIDE DEF i
  <2>3. QED
    BY <2>1, <2>2, RisingAppend
<1>5. /\ MaxMRId(q) \in Nat /\ Range(q) \subseteq ids
      /\ \A k \in Range(q) : k \in Ids /\ k <= MaxMRId(q)
  BY CountedIs DEF Quoted
<1>6. i \in b /\ b \subseteq ids /\ b \subseteq R
  BY <1>1 DEF Quoted, HoldsAllTo
<1>7. /\ From(b) \in Nat /\ i <= From(b)
  BY <1>6, FromIs, IdsAre
(* An id given out below the one that is counted is in the book.           *)
<1>8. ASSUME NEW k \in ids, k < i PROVE k \in b
  <2>1. k \in R /\ k \in Nat
    BY <1>2
  <2>2. k <= From(b)
    BY <1>2, <1>7, <1>8, <2>1
  <2>3. QED
    BY <2>1, <2>2 DEF HoldsAllTo
<1>9. ASSUME NEW k \in ids, k < i, ~ (k <= from)
      PROVE  k \in Range(q)
  <2>1. k \in b /\ k \in Ids
    BY <1>8, <1>9
  <2>2. FALSE \/ k <= MaxMRId(q) \/ k \in Range(ch)
    BY <1>9, <2>1 DEF Quoted
  <2>3. k <= MaxMRId(q)
    BY <1>3, <1>9, <2>1, <2>2, BelowIsCounted
  <2>4. from < k
    BY <1>2, <1>9, <2>1
  <2>5. Covers(q, from, ids)
    BY DEF Quoted, Counting
  <2>6. QED
    BY <1>9, <2>3, <2>4, <2>5 DEF Covers
<1>10. Counting(n, from, ids)
  <2>1. ASSUME NEW k \in ids, from < k, k <= i PROVE k \in Range(n)
    <3>1. CASE k = i
      BY <1>4, <3>1
    <3>2. CASE k # i
      <4>1. k \in Nat /\ k < i /\ ~ (k <= from)
        BY <1>2, <2>1, <3>2
      <4>2. QED
        BY <1>4, <1>9, <4>1
    <3>3. QED
      BY <3>1, <3>2
  <2>2. Range(n) \subseteq ids
    BY <1>4, <1>5, <1>6
  <2> HIDE DEF n, i
  <2>3. QED
    BY <1>4, <2>1, <2>2 DEF Counting, Covers
<1> HIDE DEF n, i, t
<1>11. MaxMRId(q) < i
  BY DEF i
<1>12. Range(t) \ {Snap} \subseteq b
  BY <1>1 DEF Quoted
<1>13. \A k \in b : k <= MaxMRId(n) \/ k <= from \/ k \in Range(t)
  <2>1. SUFFICES ASSUME NEW k \in b PROVE k <= i \/ k <= from \/ k \in Range(t)
    BY <1>4
  <2>2. k <= MaxMRId(q) \/ k <= from \/ k \in Range(ch)
    BY DEF Quoted
  <2>3. k \in Nat
    BY <1>2, IdsAre
  <2>4. QED
    BY <1>1, <1>2, <1>5, <1>11, <2>2, <2>3
<1>14. InMemory(qf, rd, q, ch, b, ids)
  BY DEF Quoted
<1>15. \A k \in Range(n) : k <= MaxMRId(rd) => k \in Range(rd)
  <2>1. i <= MaxMRId(rd) => i \in Range(rd)
    BY <1>1, <1>2, <1>14 DEF InMemory, i
  <2>2. QED
    BY <1>4, <2>1 DEF Quoted
<1>16. InMemory(qf, rd, n, t, b, ids)
  <2>1. Range(qf) \subseteq Range(n)
    BY <1>4, <1>14 DEF InMemory
  <2>2. Covers(n, From(b), ids)
    <3>1. \A k \in ids : k \in Nat
      BY <1>2
    <3>2. \A k \in ids : ~ (From(b) < k /\ k <= i)
      BY <1>2, <1>7, <3>1
    <3>3. QED
      BY <1>4, <3>2 DEF Covers
  <2>3. \A k \in Range(t) : k <= MaxMRId(n) => k = Snap \/ k \in Range(n)
    <3>1. Range(t) \subseteq Ids \cup {Snap}
      BY <1>1, RangeIs
    <3>2. \A k \in Range(t) : k \in Nat
      BY <1>2, <3>1
    <3>3. QED
      BY <1>2, <1>3, <1>4, <3>2 DEF t
  <2>4. /\ Covers(rd, From(b), ids)
        /\ \A k \in Range(t) : k <= MaxMRId(rd) => k = Snap \/ k \in Range(rd)
    BY <1>1, <1>14 DEF InMemory
  <2>5. QED
    BY <2>1, <2>2, <2>3, <2>4 DEF InMemory
<1>17. Quoted(qf, rd, n, t, b, from, ids, TRUE)
  BY <1>3, <1>10, <1>12, <1>13, <1>15, <1>16 DEF Quoted, t
<1>18. NothingMissing(q, ch, b, ids) => NothingMissing(n, t, b, ids)
  <2>1. SUFFICES ASSUME NothingMissing(q, ch, b, ids)
                 PROVE  NothingMissing(n, t, b, ids)
    OBVIOUS
  <2>2. NoGap(q, ids)
    BY <2>1 DEF NothingMissing
  <2>3. ASSUME NEW k \in ids, k <= i PROVE k \in Range(n)
    <3>1. CASE k = i
      BY <1>4, <3>1
    <3>2. CASE k # i
      <4>1. k \in Nat /\ k < i /\ k \in Ids
        BY <1>2, <2>3, <3>2
      <4>2. k \in b
        BY <1>8, <4>1 DEF i
      <4>3. FALSE \/ k <= MaxMRId(q) \/ k \in Range(ch)
        BY <2>1, <4>2 DEF NothingMissing
      <4>4. k <= MaxMRId(q)
        <5>1. k < Head(ch) /\ IdsRise(ch)
          BY <1>3, <4>1 DEF i
        <5>2. QED
          BY <4>1, <4>3, <5>1, BelowIsCounted
      <4>5. k \in Range(q)
        BY <2>2, <4>4 DEF NoGap
      <4>6. QED
        BY <1>4, <4>5
    <3>3. QED
      BY <3>1, <3>2
  <2>4. \A k \in Range(n) : k \in ids /\ k <= i
    <3>1. \A k \in Range(q) : k \in ids /\ k \in Nat /\ k <= MaxMRId(q)
      BY <1>2, <1>5
    <3>2. \A k \in Range(q) : k <= i
      BY <1>2, <1>5, <1>11, <3>1
    <3>3. i \in ids /\ i <= i
      BY <1>2, <1>6
    <3>4. QED
      BY <1>4, <3>1, <3>2, <3>3
  <2>5. NoGap(n, ids)
    BY <1>4, <2>3, <2>4 DEF NoGap
  <2>6. \A k \in b : k <= MaxMRId(n) \/ k \in Range(t)
    <3>1. SUFFICES ASSUME NEW k \in b PROVE k <= i \/ k \in Range(t)
      BY <1>4
    <3>2. k <= MaxMRId(q) \/ k \in Range(ch)
      BY <2>1 DEF NothingMissing
    <3>3. k \in Nat
      BY <1>2, IdsAre
    <3>4. QED
      BY <1>1, <1>2, <1>5, <1>11, <3>2, <3>3
  <2>7. QED
    BY <2>5, <2>6 DEF NothingMissing
<1>19. Unbroken(hid, qf, n, t, b, from, ids, m)
  BY <1>18 DEF Unbroken
<1>20. QED
  BY <1>17, <1>19 DEF n, i, t

(* A result counted before is dropped.                                     *)
LEMMA QuotedDrop ==
  ASSUME NEW qf, NEW rd, NEW q \in Seq(Ids), NEW ch \in Seq(Ids \cup {Snap}), NEW b \in Books,
         NEW ids, NEW from, NEW hid, NEW m,
         Quoted(qf, rd, q, ch, b, from, ids, TRUE),
         Unbroken(hid, qf, q, ch, b, from, ids, m),
         ch # <<>>, Head(ch) = Snap \/ Head(ch) <= MaxMRId(q)
  PROVE  /\ Quoted(qf, rd, q, Tail(ch), b, from, ids, TRUE)
         /\ Unbroken(hid, qf, q, Tail(ch), b, from, ids, m)
<1> DEFINE t == Tail(ch)
<1>1. Range(ch) = {Head(ch)} \cup Range(t)
  BY RangeOfTail
<1>2. IdsRise(t)
  <2>1. Ids \cup {Snap} \in SUBSET Nat /\ IdsRise(ch)
    BY IdsAre DEF Quoted
  <2>2. QED
    BY <2>1, IdsRiseTail
<1> HIDE DEF t
<1>3. \A k \in b : k \in Range(ch) => k \in Range(t) \/ k <= MaxMRId(q)
  <2>1. \A k \in b : k # Snap
    BY IdsAre DEF Snap
  <2>2. QED
    BY <1>1, <2>1
<1>4. InMemory(qf, rd, q, t, b, ids)
  BY <1>1 DEF Quoted, InMemory
<1>5. Quoted(qf, rd, q, t, b, from, ids, TRUE)
  BY <1>1, <1>2, <1>3, <1>4 DEF Quoted
<1>6. NothingMissing(q, ch, b, ids) => NothingMissing(q, t, b, ids)
  BY <1>3 DEF NothingMissing
<1>7. Unbroken(hid, qf, q, t, b, from, ids, m)
  BY <1>6 DEF Unbroken
<1>8. QED
  BY <1>5, <1>7 DEF t

(* What the invariant says of the quotations, for a step of l2quote.       *)
LEMMA QuotesGiven ==
  ASSUME TypeOK, AllRight, Up
  PROVE  LET P == IdsOf(published)
         IN  /\ rows \in SUBSET Ids /\ P \in SUBSET rows /\ P \in SUBSET Ids
             /\ quoteFile \in Seq(Ids) /\ redis \in Seq(Ids) /\ quote \in Seq(Ids)
             /\ mrCh \in Seq(Ids \cup {Snap}) /\ book \in Books
             /\ HoldsAllTo(book, rows, P) /\ From(LastBook) \in Nat
             /\ Quoted(quoteFile, redis, quote, mrCh, book, From(LastBook), P, TRUE)
             /\ Unbroken(hidden, quoteFile, quote, mrCh, book, From(LastBook), P, main)
<1> DEFINE P == IdsOf(published)
<1>1. /\ Quoted(quoteFile, redis, quote, mrCh, book, From(LastBook), P, TRUE)
      /\ Unbroken(hidden, quoteFile, quote, mrCh, book, From(LastBook), P, main)
  BY PartsOfRight DEF AllRight
<1>2. HoldsAllTo(book, rows, P) /\ P \subseteq rows /\ P \subseteq Ids
  BY BooksHeld, GivenOut
<1>3. From(LastBook) \in Nat
  BY LastBookIs, IdsAre DEF TypeOK
<1>4. QED
  BY <1>1, <1>2, <1>3 DEF TypeOK

(* A step of l2quote leaves the rest of the invariant alone.               *)
LEMMA QuoteStep ==
  ASSUME TypeOK, AllRight, Up,
         UNCHANGED <<rows, published, files, snapshots, book, replay, window, perch,
                     batches, db, known, queue, cursor, main>>,
         Quoted(quoteFile', redis', quote', mrCh', book, From(LastBook),
                IdsOf(published), TRUE),
         Unbroken(hidden', quoteFile', quote', mrCh', book, From(LastBook),
                  IdsOf(published), main)
  PROVE  AllRight'
<1>1. ResultsAreRight' /\ PulledInOrder("matcher", book)' /\ PulledInOrder("check", replay)'
  BY SameResults, SameMatcherPulled, SameCheckPulled
<1>2. KeptIsRight' /\ WindowIsReplayed'
  BY SameKept, SameWindow
<1>3. LastBook' = LastBook /\ Up' = TRUE
  BY DEF LastBook, Snapshots, Up
<1>4. QuotesInOrder' /\ QuotesAreWhole'
  BY <1>3, PartsOfNext
<1>5. QED
  BY <1>1, <1>2, <1>4 DEF AllRight

LEMMA RightQuote ==
  ASSUME TypeOK, AllRight, Quote
  PROVE  AllRight'
<1> DEFINE P == IdsOf(published)
           L == From(LastBook)
<1>1. /\ Up /\ mrCh # <<>> /\ Head(mrCh) # Snap
      /\ quote' = Counted(quote, Head(mrCh)) /\ mrCh' = Tail(mrCh)
      /\ UNCHANGED <<disk, orders, check, book, perch, snapshots, published, main,
                     cursor, queue, batches, left, hidden>>
  BY DEF Quote
<1>2. /\ UNCHANGED <<rows, published, files, snapshots, book, replay, window, perch,
                     batches, db, known, queue, cursor, main>>
      /\ UNCHANGED <<quoteFile, redis, hidden>>
  BY <1>1 DEF disk, orders, check
<1>3. /\ rows \in SUBSET Ids /\ P \in SUBSET rows /\ P \in SUBSET Ids
      /\ quoteFile \in Seq(Ids) /\ redis \in Seq(Ids) /\ quote \in Seq(Ids)
      /\ mrCh \in Seq(Ids \cup {Snap}) /\ book \in Books
      /\ HoldsAllTo(book, rows, P) /\ L \in Nat
      /\ Quoted(quoteFile, redis, quote, mrCh, book, L, P, TRUE)
      /\ Unbroken(hidden, quoteFile, quote, mrCh, book, L, P, main)
  BY <1>1, QuotesGiven
<1> HIDE DEF P, L
<1>4. /\ Quoted(quoteFile, redis, quote', mrCh', book, L, P, TRUE)
      /\ Unbroken(hidden, quoteFile, quote', mrCh', book, L, P, main)
  <2>1. CASE Head(mrCh) <= MaxMRId(quote)
    <3>1. quote' = quote
      BY <1>1, <2>1 DEF Counted
    <3>2. /\ Quoted(quoteFile, redis, quote, Tail(mrCh), book, L, P, TRUE)
          /\ Unbroken(hidden, quoteFile, quote, Tail(mrCh), book, L, P, main)
      BY <1>1, <1>3, <2>1, QuotedDrop
    <3>3. QED
      BY <1>1, <3>1, <3>2
  <2>2. CASE ~ (Head(mrCh) <= MaxMRId(quote))
    <3>1. quote' = Append(quote, Head(mrCh))
      BY <1>1, <2>2 DEF Counted
    <3>2. MaxMRId(quote) < Head(mrCh)
      <4>1. MaxMRId(quote) \in Nat
        BY <1>3, CountedIs DEF Quoted
      <4>2. Head(mrCh) \in Nat
        BY <1>1, <1>3, RangeOfTail, IdsAre
      <4>3. QED
        BY <2>2, <4>1, <4>2
    <3>3. /\ Quoted(quoteFile, redis, Append(quote, Head(mrCh)), Tail(mrCh), book, L, P, TRUE)
          /\ Unbroken(hidden, quoteFile, Append(quote, Head(mrCh)), Tail(mrCh), book, L, P, main)
      BY <1>1, <1>3, <3>2, QuotedCount
    <3>4. QED
      BY <1>1, <3>1, <3>3
  <2>3. QED
    BY <2>1, <2>2
<1>5. QED
  BY <1>1, <1>2, <1>4, QuoteStep DEF P, L

(* What the save leaves in Redis is ahead of the quotation or is it.       *)
LEMMA SavedIs ==
  ASSUME NEW ids \in SUBSET Ids, NEW qf \in Seq(Ids), NEW q \in Seq(Ids), NEW ch, NEW b,
         NEW from, redis \in Seq(Ids), Quoted(qf, redis, q, ch, b, from, ids, TRUE)
  PROVE  /\ Quoted(qf, Saved(q), q, ch, b, from, ids, TRUE)
         /\ Quoted(q, Saved(q), q, ch, b, from, ids, TRUE)
<1> DEFINE s == Saved(q)
<1>1. s = redis \/ s = q
  BY DEF Saved
<1>2. InMemory(qf, redis, q, ch, b, ids)
  BY DEF Quoted
<1>3. InMemory(qf, s, q, ch, b, ids) /\ InMemory(q, s, q, ch, b, ids)
  BY <1>1, <1>2 DEF InMemory
<1>4. Counting(q, from, ids) /\ Counting(s, from, ids)
  BY <1>1 DEF Quoted
<1>5. \A i \in Range(q) : i <= MaxMRId(s) => i \in Range(s)
  BY <1>1 DEF Quoted
<1>6. Range(q) \subseteq Range(s)
  <2>1. CASE MaxMRId(redis) > MaxMRId(q)
    <3>1. s = redis
      BY <2>1 DEF Saved
    <3>2. /\ MaxMRId(q) \in Nat /\ MaxMRId(redis) \in Nat
          /\ \A i \in Range(q) : i \in Ids /\ i <= MaxMRId(q)
      BY CountedIs DEF Quoted
    <3>3. \A i \in Range(q) : i \in Nat
      BY <3>2, IdsAre
    <3>4. \A i \in Range(q) : i <= MaxMRId(redis)
      BY <2>1, <3>2, <3>3
    <3>5. QED
      BY <1>5, <3>1, <3>4
  <2>2. CASE ~ (MaxMRId(redis) > MaxMRId(q))
    BY <2>2 DEF Saved
  <2>3. QED
    BY <2>1, <2>2
<1>7. Range(qf) \subseteq Range(q)
  BY <1>2 DEF InMemory
<1> HIDE DEF s
<1>8. Range(qf) \subseteq Range(s)
  BY <1>6, <1>7
<1>9. Counting(qf, from, ids)
  BY DEF Quoted
<1>10. /\ IdsRise(ch) /\ Range(ch) \ {Snap} \subseteq b
       /\ \A i \in b : i <= MaxMRId(q) \/ i <= from \/ i \in Range(ch)
  BY DEF Quoted
<1>11. Quoted(qf, s, q, ch, b, from, ids, TRUE)
  BY <1>3, <1>4, <1>5, <1>8, <1>9, <1>10 DEF Quoted
<1>12. Quoted(q, s, q, ch, b, from, ids, TRUE)
  BY <1>3, <1>4, <1>5, <1>6, <1>10 DEF Quoted
<1>13. QED
  BY <1>11, <1>12 DEF s

LEMMA RightSaveKlines ==
  ASSUME TypeOK, AllRight, SaveKlines
  PROVE  AllRight'
<1> DEFINE P == IdsOf(published)
           L == From(LastBook)
<1>1. /\ Up /\ redis' = Saved(quote)
      /\ UNCHANGED <<db, files, quoteFile, orders, matcher, check, main, cursor,
                     queue, batches, quote, left, hidden>>
  BY DEF SaveKlines
<1>2. /\ UNCHANGED <<rows, published, files, snapshots, book, replay, window, perch,
                     batches, db, known, queue, cursor, main>>
      /\ UNCHANGED <<quoteFile, quote, mrCh, hidden>>
  BY <1>1 DEF orders, check, matcher
<1>3. /\ P \in SUBSET Ids
      /\ quoteFile \in Seq(Ids) /\ redis \in Seq(Ids) /\ quote \in Seq(Ids)
      /\ Quoted(quoteFile, redis, quote, mrCh, book, L, P, TRUE)
      /\ Unbroken(hidden, quoteFile, quote, mrCh, book, L, P, main)
  BY <1>1, QuotesGiven
<1> HIDE DEF P, L
<1>4. Quoted(quoteFile, redis', quote, mrCh, book, L, P, TRUE)
  BY <1>1, <1>3, SavedIs
<1>5. QED
  BY <1>1, <1>2, <1>3, <1>4, QuoteStep DEF P, L

(* A quotation without a gap, that has counted the newest book, lacks      *)
(* nothing.                                                                *)
LEMMA AheadIsWhole ==
  ASSUME NEW qf, NEW rd, NEW q, NEW ch, NEW b \in Books, NEW from \in Nat, NEW ids,
         NEW up, MaxMRId(q) \in Nat,
         Quoted(qf, rd, q, ch, b, from, ids, up), NoGap(q, ids), ~ (from > MaxMRId(q))
  PROVE  NothingMissing(q, ch, b, ids)
<1>1. \A i \in b : i \in Nat
  BY IdsAre
<1>2. \A i \in b : i <= from => i <= MaxMRId(q)
  BY <1>1
<1>3. \A i \in b : i <= MaxMRId(q) \/ i <= from \/ i \in Range(ch)
  BY DEF Quoted
<1>4. QED
  BY <1>2, <1>3 DEF NothingMissing

LEMMA RightTakeSnapShot ==
  ASSUME TypeOK, AllRight, TakeSnapShot
  PROVE  AllRight'
<1> DEFINE P == IdsOf(published)
           L == From(LastBook)
<1>1. /\ Up /\ mrCh # <<>> /\ Head(mrCh) = Snap /\ mrCh' = Tail(mrCh)
      /\ UNCHANGED <<db, files, orders, check, book, perch, snapshots, published,
                     main, cursor, queue, batches, quote>>
  BY DEF TakeSnapShot
<1>2. /\ UNCHANGED <<rows, published, files, snapshots, book, replay, window, perch,
                     batches, db, known, queue, cursor, main>>
      /\ UNCHANGED <<quote>>
  BY <1>1 DEF orders, check
<1>3. /\ P \in SUBSET Ids
      /\ quoteFile \in Seq(Ids) /\ redis \in Seq(Ids) /\ quote \in Seq(Ids)
      /\ mrCh \in Seq(Ids \cup {Snap}) /\ book \in Books /\ L \in Nat
      /\ Quoted(quoteFile, redis, quote, mrCh, book, L, P, TRUE)
      /\ Unbroken(hidden, quoteFile, quote, mrCh, book, L, P, main)
  BY <1>1, QuotesGiven
<1>4. Gap(quote) <=> ~ NoGap(quote, P)
  BY PartsOfRight DEF Gap, NoGap
<1> HIDE DEF P, L
<1>5. /\ Quoted(quoteFile, redis, quote, mrCh', book, L, P, TRUE)
      /\ Unbroken(hidden, quoteFile, quote, mrCh', book, L, P, main)
  BY <1>1, <1>3, QuotedDrop
<1>6. CASE UNCHANGED <<redis, quoteFile, hidden>>
  BY <1>1, <1>2, <1>5, <1>6, QuoteStep DEF P, L
<1>7. CASE /\ redis' = Saved(quote) /\ quoteFile' = quote
           /\ hidden' = (hidden \/ (main = "started" /\ Gap(quote)))
  <2>1. Quoted(quote, redis', quote, mrCh', book, L, P, TRUE)
    BY <1>3, <1>5, <1>7, SavedIs
  <2>2. Unbroken(hidden', quote, quote, mrCh', book, L, P, main)
    <3>1. SUFFICES ASSUME ~hidden'
                   PROVE  /\ NoGap(quote, P)
                          /\ main \in {"loaded", "replaying", "ready"} =>
                               NothingMissing(quote, mrCh', book, P)
                          /\ main = "started" =>
                               NothingMissing(quote, mrCh', book, P) \/ L > MaxMRId(quote)
      BY DEF Unbroken
    <3>2. ~hidden /\ (main = "started" => NoGap(quote, P))
      BY <1>4, <1>7, <3>1
    <3>3. main \in {"loaded", "replaying", "ready"} => NothingMissing(quote, mrCh', book, P)
      BY <1>5, <3>2 DEF Unbroken
    <3>4. main \in {"started", "loaded", "replaying", "ready"}
      BY <1>1 DEF TypeOK, Up
    <3>5. NoGap(quote, P)
      BY <3>2, <3>3, <3>4 DEF NothingMissing
    <3>6. MaxMRId(quote) \in Nat
      BY <1>3, CountedIs DEF Quoted
    <3>7. main = "started" => NothingMissing(quote, mrCh', book, P) \/ L > MaxMRId(quote)
      BY <1>3, <1>5, <3>5, <3>6, AheadIsWhole
    <3>8. QED
      BY <3>3, <3>5, <3>7
  <2>3. QED
    BY <1>1, <1>2, <1>7, <2>1, <2>2, QuoteStep DEF P, L
<1>8. QED
  BY <1>6, <1>7 DEF TakeSnapShot

-----------------------------------------------------------------------------
(* The process starts and stops.                                           *)

LEMMA NothingPulled ==
  ASSUME NEW R \in SUBSET Ids, NEW ids
  PROVE  Pulled(<<>>, 0, {}, R, ids)
<1>1. {j \in R : j < 0} = {}
  <2>1. \A j \in R : j \in Nat
    BY IdsAre
  <2>2. QED
    BY <2>1
<1>2. Rising(<<>>) /\ Range(<<>>) = {}
  BY RisingOne
<1>3. QED
  BY <1>1, <1>2 DEF Pulled

(* A start takes what the files hold, and pulls from the row after.        *)
LEMMA RightStart ==
  ASSUME TypeOK, AllRight, Start
  PROVE  AllRight'
<1> DEFINE P == IdsOf(published)
           L == From(LastBook)
<1>1. /\ ~Up /\ main' = "started" /\ book' = LastBook /\ quote' = quoteFile
      /\ cursor' = [cursor EXCEPT !["matcher"] = StartsAt(LastBook)]
      /\ UNCHANGED <<disk, orders, check, perch, snapshots, mrCh, published, queue,
                     batches, hidden>>
  BY DEF Start
<1>2. UNCHANGED <<rows, published, files, snapshots, replay, window, perch, batches, db,
                  known, queue, mrCh, quoteFile, redis, hidden>>
  BY <1>1 DEF disk, orders, check
<1>3. /\ queue["matcher"] = <<>> /\ snapshots = <<>> /\ perch = <<>> /\ mrCh = <<>>
      /\ main \in {"down", "halted"} /\ NothingHeld /\ window = NoWindow
  BY <1>1 DEF AllRight, WindowIsReplayed, Up
<1>4. /\ LastBook \in Books /\ L \in Nat /\ HoldsAllTo(LastBook, rows, P)
  <2>1. LastBook \in Books /\ LastBook \in files \cup {{}}
    BY LastBookIs DEF TypeOK
  <2>2. HoldsAllTo(LastBook, rows, P)
    BY <2>1, BooksHeld
  <2>3. QED
    BY <2>1, <2>2, IdsAre
<1>5. /\ cursor'["matcher"] = L + 1 /\ cursor'["check"] = cursor["check"]
  <2>1. cursor \in [Pullers -> 0..MaxId + 1] /\ "matcher" \in Pullers
    BY DEF TypeOK, Pullers
  <2>2. QED
    BY <1>1, <2>1 DEF StartsAt, Pullers
<1>6. P \subseteq Ids /\ P \subseteq rows /\ rows \subseteq Ids
  BY GivenOut DEF TypeOK
<1>7. KeptIsRight'
  <2>1. KeptIsRight /\ PublishedIds' = P
    BY <1>2, PartsOfNext DEF AllRight
  <2>2. PublishedIds = P
    BY PartsOfRight
  <2> HIDE DEF P
  <2>3. \A b \in files' \cup Range(snapshots') \cup {book', replay', window.base', window.last'} :
          HoldsAllTo(b, rows', PublishedIds')
    BY <1>1, <1>2, <1>4, <2>1, <2>2 DEF KeptIsRight
  <2>4. QED
    BY <1>2, <2>1, <2>3 DEF KeptIsRight
<1>8. PulledInOrder("matcher", book)'
  <2>1. /\ LastBook \subseteq P /\ \A j \in rows : j <= L => j \in LastBook
        /\ \A j \in LastBook : j <= L /\ j \in rows
        /\ LastBook = {} => L = 0
        /\ LastBook # {} => L \in LastBook
    BY <1>4, HeldIs
  <2>2. \A j \in rows : j \in Nat
    BY <1>6, IdsAre
  <2>3. L \in Nat
    BY <1>4
  <2> HIDE DEF P, L
  <2>4. LastBook = {j \in rows : j < L + 1}
    BY <2>1, <2>2, <2>3
  <2>5. L + 1 \in {0, 1} \cup {j + 1 : j \in P}
    BY <2>1
  <2>6. Rising(<<>>) /\ Range(<<>>) = {}
    BY RisingOne
  <2>7. Pulled(<<>>, L + 1, LastBook, rows, P)
    BY <2>4, <2>5, <2>6 DEF Pulled
  <2>8. QED
    BY <1>1, <1>2, <1>3, <1>5, <2>7, PartsOfNext DEF P, L
<1>9. PulledInOrder("check", replay)'
  BY <1>2, <1>5, SameCheckPulled
<1>10. WindowIsReplayed'
  <2>1. NothingHeld' /\ window' = NoWindow
    BY <1>2, <1>3, <1>5 DEF NothingHeld
  <2>2. Up' /\ main' = "started"
    BY <1>1 DEF Up
  <2>3. QED
    BY <2>1, <2>2 DEF WindowIsReplayed
<1>11. LastBook' = LastBook /\ Up'
  BY <1>1, <1>2 DEF LastBook, Snapshots, Up
<1>12. /\ Quoted(quoteFile, redis, quote, mrCh, book, L, P, Up)
       /\ Unbroken(hidden, quoteFile, quote, mrCh, book, L, P, main)
  BY PartsOfRight DEF AllRight
<1>13. Range(mrCh) = {} /\ IdsRise(mrCh)
  BY <1>3 DEF Range, IdsRise
<1>14. /\ quoteFile \in Seq(Ids) /\ redis \in Seq(Ids)
  BY DEF TypeOK
<1>15. \A i \in LastBook : i <= L
  BY <1>4, FromIs
<1> HIDE DEF P
<1>16. Quoted(quoteFile, redis, quoteFile, mrCh, LastBook, L, P, TRUE)
  <2>1. /\ Counting(quoteFile, L, P) /\ Counting(redis, L, P)
        /\ Range(quoteFile) \subseteq Range(redis)
    BY <1>12 DEF Quoted
  <2>2. \A i \in LastBook : i <= MaxMRId(quoteFile) \/ i <= L \/ i \in Range(mrCh)
    BY <1>15
  <2>3. InMemory(quoteFile, redis, quoteFile, mrCh, LastBook, P)
    BY <1>13, <2>1 DEF InMemory, Counting
  <2>4. QED
    BY <1>13, <2>1, <2>2, <2>3 DEF Quoted
<1>17. Unbroken(hidden, quoteFile, quoteFile, mrCh, LastBook, L, P, "started")
  <2>1. Counting(quoteFile, L, P)
    BY <1>16 DEF Quoted
  <2>2. MaxMRId(quoteFile) \in Nat
    BY <1>6, <1>14, <2>1, CountedIs
  <2>3. ~hidden => NoGap(quoteFile, P)
    BY <1>12 DEF Unbroken
  <2>4. ~hidden => \/ NothingMissing(quoteFile, mrCh, LastBook, P)
                   \/ L > MaxMRId(quoteFile)
    BY <1>4, <1>16, <2>2, <2>3, AheadIsWhole
  <2>5. QED
    BY <2>3, <2>4 DEF Unbroken
<1>18. QuotesInOrder' /\ QuotesAreWhole'
  BY <1>1, <1>2, <1>11, <1>16, <1>17, PartsOfNext DEF P
<1>19. ResultsAreRight'
  BY <1>2, SameResults
<1>20. QED
  BY <1>7, <1>8, <1>9, <1>10, <1>18, <1>19 DEF AllRight

(* A stop leaves what is on disk.                                          *)
LEMMA RightStop ==
  ASSUME TypeOK, AllRight, NEW how \in {"down", "halted"}, Stop(how)
  PROVE  AllRight'
<1> DEFINE P == IdsOf(published)
           L == From(LastBook)
<1>1. /\ Up /\ main' = how
      /\ cursor' = [p \in Pullers |-> 0] /\ queue' = [p \in Pullers |-> <<>>]
      /\ book' = {} /\ perch' = <<>> /\ snapshots' = <<>> /\ mrCh' = <<>>
      /\ batches' = {} /\ quote' = <<>>
      /\ window' = NoWindow /\ known' = <<>> /\ replay' = {}
      /\ UNCHANGED <<disk, orders, published, hidden, left>>
  BY DEF Stop
<1>2. UNCHANGED <<rows, published, files, db, quoteFile, redis, hidden>>
  BY <1>1 DEF disk, orders
<1>3. /\ queue'["matcher"] = <<>> /\ cursor'["matcher"] = 0
      /\ queue'["check"] = <<>> /\ cursor'["check"] = 0
  BY <1>1 DEF Pullers
<1>4. rows \in SUBSET Ids /\ P \subseteq Ids
  BY GivenOut DEF TypeOK
<1>5. Range(<<>>) = {} /\ DOMAIN <<>> = {} /\ Rising(<<>>)
  BY RisingOne
<1>6. KeptIsRight'
  <2>1. KeptIsRight /\ PublishedIds' = P /\ PublishedIds = P
    BY <1>2, PartsOfNext, PartsOfRight DEF AllRight
  <2>2. HoldsAllTo({}, rows, P)
    BY BooksHeld
  <2> HIDE DEF P
  <2>3. window'.base = {} /\ window'.last = {}
    BY <1>1 DEF NoWindow
  <2>4. \A b \in files' \cup Range(snapshots') \cup {book', replay', window.base', window.last'} :
          HoldsAllTo(b, rows', PublishedIds')
    BY <1>1, <1>2, <1>5, <2>1, <2>2, <2>3 DEF KeptIsRight
  <2>5. QED
    BY <1>1, <1>2, <1>5, <2>1, <2>4 DEF KeptIsRight
<1>7. PulledInOrder("matcher", book)' /\ PulledInOrder("check", replay)'
  BY <1>1, <1>2, <1>3, <1>4, NothingPulled, PartsOfNext
<1>8. WindowIsReplayed'
  <2>1. NothingHeld' /\ ~Up'
    BY <1>1, <1>3 DEF NothingHeld, Up
  <2>2. QED
    BY <1>1, <1>3, <2>1 DEF WindowIsReplayed
<1>9. LastBook' = LastBook /\ Up' = FALSE
  BY <1>1, <1>2 DEF LastBook, Snapshots, Up
<1>10. /\ Quoted(quoteFile, redis, quote, mrCh, book, L, P, Up)
       /\ Unbroken(hidden, quoteFile, quote, mrCh, book, L, P, main)
  BY PartsOfRight DEF AllRight
<1> HIDE DEF P, L
<1>11. Counting(<<>>, L, P)
  <2>1. MaxMRId(<<>>) = 0
    BY DEF MaxMRId
  <2>2. \A i \in P : ~ (i <= 0)
    BY <1>4, IdsAre
  <2>3. QED
    BY <1>5, <2>1, <2>2 DEF Counting, Covers
<1>12. Quoted(quoteFile, redis, <<>>, <<>>, {}, L, P, FALSE)
  <2>1. IdsRise(<<>>)
    BY <1>5 DEF IdsRise
  <2>2. QED
    BY <1>5, <1>10, <1>11, <2>1 DEF Quoted
<1>13. Unbroken(hidden, quoteFile, <<>>, <<>>, {}, L, P, how)
  BY <1>10 DEF Unbroken
<1>14. QuotesInOrder' /\ QuotesAreWhole'
  BY <1>1, <1>2, <1>9, <1>12, <1>13, PartsOfNext DEF P, L
<1>15. ResultsAreRight'
  BY <1>2, SameResults
<1>16. QED
  BY <1>6, <1>7, <1>8, <1>14, <1>15 DEF AllRight

-----------------------------------------------------------------------------
(* The main goroutine.                                                     *)

(* The quotations do not move with it, but what is asked of them does.     *)
LEMMA MainStep ==
  ASSUME TypeOK, AllRight, Up, Up',
         UNCHANGED <<published, files, quoteFile, redis, quote, mrCh, book, hidden>>,
         main = "started" => main' \in {"loaded", "ready"} /\ ~ (From(LastBook) > MaxMRId(quoteFile)),
         main # "started" => main' \in {"loaded", "replaying", "ready"}
  PROVE  QuotesInOrder' /\ QuotesAreWhole'
<1> DEFINE P == IdsOf(published)
           L == From(LastBook)
<1>1. LastBook' = LastBook /\ Up' = Up
  BY DEF LastBook, Snapshots
<1>2. /\ Quoted(quoteFile, redis, quote, mrCh, book, L, P, Up)
      /\ Unbroken(hidden, quoteFile, quote, mrCh, book, L, P, main)
  BY PartsOfRight DEF AllRight
<1>3. main \in {"started", "loaded", "replaying", "ready"}
  BY DEF TypeOK, Up
<1> HIDE DEF P, L
<1>4. main = "started" => main' \in {"loaded", "ready"} /\ ~ (L > MaxMRId(quoteFile))
  BY DEF L
<1>5. Unbroken(hidden, quoteFile, quote, mrCh, book, L, P, main')
  BY <1>2, <1>3, <1>4 DEF Unbroken
<1>6. QED
  BY <1>1, <1>2, <1>5, PartsOfNext DEF P, L

LEMMA RightNothingToCheck ==
  ASSUME TypeOK, AllRight, NothingToCheck
  PROVE  AllRight'
<1>1. /\ main = "started" /\ Snapshots = {} /\ main' = "ready"
      /\ UNCHANGED <<disk, orders, matcher, check, cursor, queue, batches, quote,
                     left, hidden>>
  BY DEF NothingToCheck
<1>2. UNCHANGED <<rows, published, files, snapshots, book, replay, window, perch, batches,
                  db, known, queue, cursor, quoteFile, redis, quote, mrCh, hidden>>
  BY <1>1 DEF disk, orders, matcher, check
<1>3. ResultsAreRight' /\ PulledInOrder("matcher", book)' /\ PulledInOrder("check", replay)'
      /\ KeptIsRight'
  BY <1>2, SameResults, SameMatcherPulled, SameCheckPulled, SameKept
<1>4. WindowIsReplayed'
  <2>1. NothingHeld /\ window = NoWindow
    BY <1>1 DEF AllRight, WindowIsReplayed
  <2>2. NothingHeld' /\ window' = NoWindow
    BY <1>2, <2>1 DEF NothingHeld
  <2>3. window'.last \ window'.base = {}
    BY <2>2 DEF NoWindow
  <2>4. Up'
    BY <1>1 DEF Up
  <2>5. QED
    BY <1>1, <2>2, <2>3, <2>4 DEF WindowIsReplayed
<1>5. QuotesInOrder' /\ QuotesAreWhole'
  <2>1. Up /\ Up'
    BY <1>1 DEF Up
  <2>2. From(LastBook) = 0
    BY <1>1 DEF LastBook, From
  <2>3. MaxMRId(quoteFile) \in Nat
    <3>1. Counting(quoteFile, From(LastBook), IdsOf(published))
      BY PartsOfRight DEF AllRight, Quoted
    <3>2. quoteFile \in Seq(Ids) /\ IdsOf(published) \in SUBSET Ids
      BY GivenOut DEF TypeOK
    <3>3. QED
      BY <3>1, <3>2, CountedIs
  <2>4. ~ (From(LastBook) > MaxMRId(quoteFile))
    BY <2>2, <2>3
  <2>5. QED
    BY <1>1, <1>2, <2>1, <2>4, MainStep
<1>6. QED
  BY <1>3, <1>4, <1>5 DEF AllRight

(* The window: a book that holds fewer of the rows is behind.              *)
LEMMA RightLoadWindow ==
  ASSUME TypeOK, AllRight, LoadWindow
  PROVE  AllRight'
<1> DEFINE P == IdsOf(published)
<1>1. /\ main = "started" /\ Snapshots # {}
      /\ From(LastBook) <= MaxMRId(quoteFile)
      /\ main' = "loaded"
      /\ window' = [base |-> BaseBook, last |-> LastBook]
      /\ replay' = BaseBook
      /\ cursor' = [cursor EXCEPT !["check"] = From(BaseBook) + 1]
      /\ UNCHANGED <<disk, orders, matcher, known, queue, batches, quote, left,
                     hidden>>
  BY DEF LoadWindow
<1>2. UNCHANGED <<rows, published, files, snapshots, book, perch, batches,
                  db, known, queue, quoteFile, redis, quote, mrCh, hidden>>
  BY <1>1 DEF disk, orders, matcher
<1>3. /\ BaseBook \in Books /\ BaseBook \in files \cup {{}} /\ BaseBook # LastBook
      /\ LastBook \in Books /\ LastBook \in files
      /\ \A c \in files : From(c) <= From(LastBook)
  BY <1>1, LastBookIs, BaseBookIs DEF TypeOK, Snapshots
<1>4. HoldsAllTo(BaseBook, rows, P) /\ HoldsAllTo(LastBook, rows, P)
  BY <1>3, BooksHeld
<1>5. From(BaseBook) \in Nat /\ From(LastBook) \in Nat
  BY <1>3, IdsAre
<1>6. From(BaseBook) < From(LastBook)
  <2>1. From(BaseBook) <= From(LastBook)
    <3>1. CASE BaseBook \in files
      BY <1>3, <3>1
    <3>2. CASE BaseBook = {}
      BY <1>3, <1>5, <3>2, FromIs
    <3>3. QED
      BY <1>3, <3>1, <3>2
  <2>2. From(BaseBook) # From(LastBook)
    BY <1>3, <1>4 DEF HoldsAllTo
  <2>3. QED
    BY <1>5, <2>1, <2>2
<1>7. cursor'["check"] = From(BaseBook) + 1 /\ cursor'["matcher"] = cursor["matcher"]
  BY <1>1 DEF TypeOK, Pullers
<1>8. ResultsAreRight' /\ PulledInOrder("matcher", book)'
  BY <1>2, <1>7, SameResults, SameMatcherPulled
<1>9. KeptIsRight'
  <2>1. KeptIsRight /\ PublishedIds' = P /\ PublishedIds = P
    BY <1>2, PartsOfNext, PartsOfRight DEF AllRight
  <2> HIDE DEF P
  <2>2. \A b \in files' \cup Range(snapshots') \cup {book', replay', window.base', window.last'} :
          HoldsAllTo(b, rows', PublishedIds')
    BY <1>1, <1>2, <1>4, <2>1 DEF KeptIsRight
  <2>3. QED
    BY <1>2, <2>1, <2>2 DEF KeptIsRight
<1>10. queue["check"] = <<>>
  BY <1>1 DEF AllRight, WindowIsReplayed, NothingHeld
<1>11. PulledInOrder("check", replay)'
  <2> DEFINE b == BaseBook
             f == From(BaseBook)
  <2>1. /\ b \subseteq P /\ \A j \in rows : j <= f => j \in b
        /\ \A j \in b : j <= f /\ j \in rows
        /\ b = {} => f = 0
        /\ b # {} => f \in b
    BY <1>3, <1>4, HeldIs
  <2>2. \A j \in rows : j \in Nat
    BY IdsAre DEF TypeOK
  <2>3. f \in Nat
    BY <1>5
  <2> HIDE DEF P, b, f
  <2>4. b = {j \in rows : j < f + 1}
    BY <2>1, <2>2, <2>3
  <2>5. f + 1 \in {0, 1} \cup {j + 1 : j \in P}
    BY <2>1
  <2>6. Rising(<<>>) /\ Range(<<>>) = {}
    BY RisingOne
  <2>7. Pulled(<<>>, f + 1, b, rows, P)
    BY <2>4, <2>5, <2>6 DEF Pulled
  <2>8. QED
    BY <1>1, <1>2, <1>7, <1>10, <2>7, PartsOfNext DEF P, b, f
<1>12. WindowIsReplayed'
  <2>1. \A j \in BaseBook : j < From(LastBook)
    <3>1. \A j \in BaseBook : j <= From(BaseBook) /\ j \in Nat
      BY <1>3, FromIs, IdsAre
    <3>2. QED
      BY <1>5, <1>6, <3>1
  <2>2. window'.base = BaseBook /\ window'.last = LastBook /\ Up'
    BY <1>1 DEF Up
  <2>3. QED
    BY <1>1, <1>6, <2>1, <2>2 DEF WindowIsReplayed
<1>13. QuotesInOrder' /\ QuotesAreWhole'
  <2>1. Up /\ Up'
    BY <1>1 DEF Up
  <2>2. MaxMRId(quoteFile) \in Nat
    <3>1. Counting(quoteFile, From(LastBook), IdsOf(published))
      BY PartsOfRight DEF AllRight, Quoted
    <3>2. quoteFile \in Seq(Ids) /\ IdsOf(published) \in SUBSET Ids
      BY GivenOut DEF TypeOK
    <3>3. QED
      BY <3>1, <3>2, CountedIs
  <2>3. ~ (From(LastBook) > MaxMRId(quoteFile))
    BY <1>1, <1>5, <2>2
  <2>4. QED
    BY <1>1, <1>2, <2>1, <2>3, MainStep
<1>14. QED
  BY <1>8, <1>9, <1>11, <1>12, <1>13 DEF AllRight

LEMMA RightReadResults ==
  ASSUME TypeOK, AllRight, ReadResults
  PROVE  AllRight'
<1>1. /\ main = "loaded" /\ main' = "replaying"
      /\ UNCHANGED <<disk, orders, matcher, window, replay, cursor, queue, batches,
                     quote, left, hidden>>
  BY DEF ReadResults
<1>2. UNCHANGED <<rows, published, files, snapshots, book, perch, batches, window, replay,
                  db, queue, cursor, quoteFile, redis, quote, mrCh, hidden>>
  BY <1>1 DEF disk, orders, matcher
<1>3. ResultsAreRight' /\ PulledInOrder("matcher", book)' /\ PulledInOrder("check", replay)'
  BY <1>2, SameResults, SameMatcherPulled, SameCheckPulled
<1>4. \A i \in DOMAIN known' : i \in DOMAIN db /\ known'[i] = db[i]
  BY DEF ReadResults
<1>5. KeptIsRight'
  <2>1. KeptIsRight /\ PublishedIds' = PublishedIds
    BY <1>2 DEF AllRight, PublishedIds
  <2>2. QED
    BY <1>2, <1>4, <2>1 DEF KeptIsRight
<1>6. WindowIsReplayed'
  <2>1. Up'
    BY <1>1 DEF Up
  <2>2. /\ From(window.base) < From(window.last)
        /\ window.base \subseteq replay
        /\ \A j \in replay : j < From(window.last)
        /\ replay \ window.base \subseteq DOMAIN db
    BY <1>1 DEF AllRight, WindowIsReplayed
  <2>3. QED
    BY <1>1, <1>2, <2>1, <2>2 DEF WindowIsReplayed
<1>7. QuotesInOrder' /\ QuotesAreWhole'
  <2>1. Up /\ Up'
    BY <1>1 DEF Up
  <2>2. QED
    BY <1>1, <1>2, <2>1, MainStep
<1>8. QED
  BY <1>3, <1>5, <1>6, <1>7 DEF AllRight

(* The order at the head of the queue of the validation, when its result   *)
(* was written.                                                            *)
LEMMA Replayed ==
  ASSUME TypeOK, AllRight, Replaying, Agrees(Head(queue["check"]))
  PROVE  LET i == Head(queue["check"])
             P == IdsOf(published)
         IN  /\ i \in rows /\ i \in P /\ i \in DOMAIN db
             /\ replay = {j \in rows : j < i}
             /\ HoldsAllTo(replay \cup {i}, rows, P)
             /\ Pulled(Tail(queue["check"]), cursor["check"], replay \cup {i}, rows, P)
<1> DEFINE que == queue["check"]
           cur == cursor["check"]
           i == Head(que)
           P == IdsOf(published)
<1>1. /\ rows \in SUBSET Ids /\ replay \in Books /\ que \in Seq(Ids) /\ cur \in Nat
      /\ que # <<>>
  BY IdsAre DEF TypeOK, Pullers, Replaying
<1>2. Pulled(que, cur, replay, rows, P)
  BY PartsOfRight DEF AllRight
<1>3. i \in DOMAIN known
  BY DEF Agrees
<1>4. i \in DOMAIN db /\ Result(i, db[i]) \in published
  BY <1>3 DEF AllRight, KeptIsRight
<1>5. i \in P
  BY <1>4 DEF IdsOf, Result
<1>6. replay \subseteq P
  BY BooksHeld DEF HoldsAllTo
<1> HIDE DEF que, cur, P
<1>7. /\ i \in rows
      /\ replay = {j \in rows : j < i}
      /\ From(replay \cup {i}) = i
      /\ replay \cup {i} = {j \in rows : j <= i}
      /\ \A new : i \in new /\ P \subseteq new =>
           Pulled(Tail(que), cur, replay \cup {i}, rows, new)
  BY <1>1, <1>2, HeadIsNext
<1>8. HoldsAllTo(replay \cup {i}, rows, P)
  BY <1>5, <1>6, <1>7 DEF HoldsAllTo
<1>9. QED
  BY <1>4, <1>5, <1>7, <1>8 DEF que, cur, P

LEMMA RightReplay ==
  ASSUME TypeOK, AllRight, Replay
  PROVE  AllRight'
<1> DEFINE i == Head(queue["check"])
           P == IdsOf(published)
<1>1. /\ main = "replaying" /\ Replaying /\ Agrees(i) /\ ~Reaches(i)
      /\ replay' = replay \cup {i}
      /\ queue' = [queue EXCEPT !["check"] = Tail(queue["check"])]
      /\ UNCHANGED <<disk, orders, matcher, window, known, main, cursor,
                     batches, quote, left, hidden>>
  BY DEF Replay, Replaying
<1>2. UNCHANGED <<rows, published, files, snapshots, book, perch, batches, window, known,
                  db, main, cursor, quoteFile, redis, quote, mrCh, hidden>>
  BY <1>1 DEF disk, orders, matcher
<1>3. /\ i \in rows /\ i \in P /\ i \in DOMAIN db
      /\ replay = {j \in rows : j < i}
      /\ HoldsAllTo(replay \cup {i}, rows, P)
      /\ Pulled(Tail(queue["check"]), cursor["check"], replay \cup {i}, rows, P)
  BY <1>1, Replayed
<1> HIDE DEF i
<1>4. /\ queue'["check"] = Tail(queue["check"]) /\ queue'["matcher"] = queue["matcher"]
  BY <1>1 DEF TypeOK, Pullers
<1>5. ResultsAreRight' /\ PulledInOrder("matcher", book)'
  BY <1>2, <1>4, SameResults, SameMatcherPulled
<1>6. PulledInOrder("check", replay)'
  BY <1>1, <1>2, <1>3, <1>4, PartsOfNext
<1>7. KeptIsRight'
  <2>1. KeptIsRight /\ PublishedIds' = P /\ PublishedIds = P
    BY <1>2, PartsOfNext, PartsOfRight DEF AllRight
  <2> HIDE DEF P
  <2>2. \A b \in files' \cup Range(snapshots') \cup {book', replay', window.base', window.last'} :
          HoldsAllTo(b, rows', PublishedIds')
    BY <1>1, <1>2, <1>3, <2>1 DEF KeptIsRight
  <2>3. QED
    BY <1>2, <2>1, <2>2 DEF KeptIsRight
<1>8. WindowIsReplayed'
  <2>1. /\ From(window.base) < From(window.last)
        /\ window.base \subseteq replay
        /\ \A j \in replay : j < From(window.last)
        /\ replay \ window.base \subseteq DOMAIN db
    BY <1>1 DEF AllRight, WindowIsReplayed
  <2>2. i < From(window.last)
    <3> DEFINE n == From(window.last)
    <3>1. window.last \in Books /\ window.base \in Books /\ HoldsAllTo(window.last, rows, P)
      BY BooksHeld DEF TypeOK
    <3>2. /\ n \in Nat /\ From(window.base) \in Nat /\ n # 0
      BY <2>1, <3>1, IdsAre
    <3>3. n \in rows
      BY <3>1, <3>2, HeldIs
    <3>4. i \in Nat /\ i # n
      BY <1>1, <1>3, IdsAre DEF Reaches, TypeOK
    <3> HIDE DEF n
    <3>5. ~ (n < i)
      <4>1. SUFFICES ASSUME n < i PROVE FALSE
        OBVIOUS
      <4>2. n \in replay
        BY <1>3, <3>3, <4>1
      <4>3. n < n
        BY <2>1, <4>2 DEF n
      <4>4. QED
        BY <3>2, <4>3
    <3>6. i < n
      BY <3>2, <3>4, <3>5
    <3>7. QED
      BY <3>6 DEF n
  <2>3. Up'
    BY <1>1, <1>2 DEF Up
  <2>4. main' = "replaying" /\ window' = window /\ db' = db
    BY <1>1, <1>2
  <2>5. /\ window.base \subseteq replay'
        /\ \A j \in replay' : j < From(window.last)
        /\ replay' \ window.base \subseteq DOMAIN db
    BY <1>1, <1>3, <2>1, <2>2
  <2>6. QED
    BY <2>1, <2>3, <2>4, <2>5 DEF WindowIsReplayed
<1>9. QuotesInOrder' /\ QuotesAreWhole'
  BY <1>2, SameQuotes
<1>10. QED
  BY <1>5, <1>6, <1>7, <1>8, <1>9 DEF AllRight

LEMMA RightValidated ==
  ASSUME TypeOK, AllRight, Validated
  PROVE  AllRight'
<1> DEFINE i == Head(queue["check"])
           P == IdsOf(published)
<1>1. /\ main = "replaying" /\ Replaying /\ Agrees(i) /\ SameBook(i)
      /\ main' = "ready"
      /\ replay' = {} /\ known' = <<>>
      /\ queue' = [queue EXCEPT !["check"] = <<>>]
      /\ cursor' = [cursor EXCEPT !["check"] = 0]
      /\ UNCHANGED <<disk, orders, matcher, window, batches, quote, left,
                     hidden>>
  BY DEF Validated, Replaying
<1>2. UNCHANGED <<rows, published, files, snapshots, book, perch, batches, window,
                  db, quoteFile, redis, quote, mrCh, hidden>>
  BY <1>1 DEF disk, orders, matcher
<1>3. i \in DOMAIN db
  BY <1>1, Replayed
<1> HIDE DEF i
<1>4. /\ queue'["check"] = <<>> /\ queue'["matcher"] = queue["matcher"]
      /\ cursor'["check"] = 0 /\ cursor'["matcher"] = cursor["matcher"]
  BY <1>1 DEF TypeOK, Pullers
<1>5. ResultsAreRight' /\ PulledInOrder("matcher", book)'
  BY <1>2, <1>4, SameResults, SameMatcherPulled
<1>6. PulledInOrder("check", replay)'
  <2>1. rows \in SUBSET Ids
    BY DEF TypeOK
  <2>2. Pulled(<<>>, 0, {}, rows, P)
    BY <2>1, NothingPulled
  <2>3. QED
    BY <1>1, <1>2, <1>4, <2>2, PartsOfNext
<1>7. KeptIsRight'
  <2>1. KeptIsRight /\ PublishedIds' = P /\ PublishedIds = P
    BY <1>2, PartsOfNext, PartsOfRight DEF AllRight
  <2>2. HoldsAllTo({}, rows, P)
    BY BooksHeld
  <2> HIDE DEF P
  <2>3. \A b \in files' \cup Range(snapshots') \cup {book', replay', window.base', window.last'} :
          HoldsAllTo(b, rows', PublishedIds')
    BY <1>1, <1>2, <2>1, <2>2 DEF KeptIsRight
  <2>4. DOMAIN known' = {}
    BY <1>1
  <2>5. QED
    BY <1>2, <2>1, <2>3, <2>4 DEF KeptIsRight
<1>8. WindowIsReplayed'
  <2>1. replay \ window.base \subseteq DOMAIN db /\ replay \cup {i} = window.last
    BY <1>1 DEF AllRight, WindowIsReplayed, SameBook
  <2>2. window.last \ window.base \subseteq DOMAIN db
    BY <1>3, <2>1
  <2>3. NothingHeld' /\ Up'
    BY <1>1, <1>4 DEF NothingHeld, Up
  <2>4. QED
    BY <1>1, <1>2, <2>2, <2>3 DEF WindowIsReplayed
<1>9. QuotesInOrder' /\ QuotesAreWhole'
  <2>1. Up /\ Up'
    BY <1>1 DEF Up
  <2>2. QED
    BY <1>1, <1>2, <2>1, MainStep
<1>10. QED
  BY <1>5, <1>6, <1>7, <1>8, <1>9 DEF AllRight

-----------------------------------------------------------------------------
(* The theorems.                                                           *)

LEMMA RightInit ==
  ASSUME Init
  PROVE  AllRight
<1>1. TypeOK
  BY TypeInit
<1>2. /\ rows = {} /\ published = {} /\ db = <<>> /\ known = <<>>
      /\ files \in {{}, {{}}} /\ snapshots = <<>> /\ perch = <<>> /\ batches = {}
      /\ book = {} /\ replay = {} /\ window = NoWindow
      /\ quoteFile = <<>> /\ redis = <<>> /\ quote = <<>> /\ mrCh = <<>>
      /\ main = "down"
      /\ queue["matcher"] = <<>> /\ cursor["matcher"] = 0
      /\ queue["check"] = <<>> /\ cursor["check"] = 0
  BY DEF Init, Pullers
<1>3. Range(<<>>) = {} /\ DOMAIN <<>> = {} /\ Rising(<<>>)
  BY RisingOne
<1>4. IdsOf(published) = {} /\ PublishedIds = {}
  BY <1>2 DEF IdsOf, PublishedIds
<1>5. ResultsAreRight
  BY <1>2 DEF ResultsAreRight
<1>6. KeptIsRight
  <2>1. HoldsAllTo({}, rows, PublishedIds)
    BY <1>2 DEF HoldsAllTo
  <2>2. window.base = {} /\ window.last = {}
    BY <1>2 DEF NoWindow
  <2>3. QED
    BY <1>2, <1>3, <2>1, <2>2 DEF KeptIsRight
<1>7. PulledInOrder("matcher", book) /\ PulledInOrder("check", replay)
  BY <1>2, NothingPulled, PartsOfRight
<1>8. WindowIsReplayed
  BY <1>2 DEF WindowIsReplayed, NothingHeld, Up
<1>9. MaxMRId(<<>>) = 0
  BY DEF MaxMRId
<1>10. QuotesInOrder
  <2>1. \A from : Counting(<<>>, from, {})
    BY <1>3 DEF Counting, Covers
  <2>2. IdsRise(<<>>)
    BY <1>3 DEF IdsRise
  <2>3. ~Up
    BY <1>2 DEF Up
  <2>4. Quoted(quoteFile, redis, quote, mrCh, book, From(LastBook), {}, Up)
    BY <1>2, <1>3, <2>1, <2>2, <2>3 DEF Quoted
  <2>5. QED
    BY <1>4, <2>4, PartsOfRight
<1>11. QuotesAreWhole
  BY <1>2, <1>3, <1>4 DEF QuotesAreWhole, Gap
<1>12. QED
  BY <1>5, <1>6, <1>7, <1>8, <1>10, <1>11 DEF AllRight

LEMMA RightNext ==
  ASSUME TypeOK, AllRight, [Next]_vars, ~late'
  PROVE  AllRight'
<1>1. CASE UNCHANGED vars
  <2>1. UNCHANGED <<rows, published, files, snapshots, book, replay, window, perch, batches,
                    db, known, queue, cursor, quoteFile, redis, quote, mrCh, main, hidden>>
    BY <1>1 DEF vars, disk, orders, matcher, check
  <2>2. ResultsAreRight' /\ PulledInOrder("matcher", book)' /\ PulledInOrder("check", replay)'
    BY <2>1, SameResults, SameMatcherPulled, SameCheckPulled
  <2>3. KeptIsRight' /\ QuotesInOrder' /\ QuotesAreWhole'
    BY <2>1, SameKept, SameQuotes
  <2>4. WindowIsReplayed'
    BY <2>1 DEF AllRight, WindowIsReplayed, NothingHeld, Up
  <2>5. QED
    BY <2>2, <2>3, <2>4 DEF AllRight
<1>2. CASE Start
  BY <1>2, RightStart
<1>3. CASE Crash
  BY <1>3, RightStop DEF Crash
<1>4. CASE NoSnapshotFile \/ QuotesBehind \/ NotValidated
  BY <1>4, FatalIs, RightStop
<1>5. CASE NothingToCheck
  BY <1>5, RightNothingToCheck
<1>6. CASE LoadWindow
  BY <1>6, RightLoadWindow
<1>7. CASE ReadResults
  BY <1>7, RightReadResults
<1>8. CASE Replay
  BY <1>8, RightReplay
<1>9. CASE Validated
  BY <1>9, RightValidated
<1>10. CASE \E i \in Ids : Commit(i)
  BY <1>10, RightCommit
<1>11. CASE \E p \in Pullers : Pull(p)
  BY <1>11, RightPull
<1>12. CASE Match
  BY <1>12, RightMatch
<1>13. CASE Tick
  BY <1>13, RightTick
<1>14. CASE Dump
  BY <1>14, RightDump
<1>15. CASE Batch
  BY <1>15, RightBatch
<1>16. CASE \E b \in batches : Write(b)
  BY <1>16, RightWrite
<1>17. CASE Quote
  BY <1>17, RightQuote
<1>18. CASE SaveKlines
  BY <1>18, RightSaveKlines
<1>19. CASE TakeSnapShot
  BY <1>19, RightTakeSnapShot
<1>20. QED
  BY <1>1, <1>2, <1>3, <1>4, <1>5, <1>6, <1>7, <1>8, <1>9, <1>10, <1>11, <1>12,
     <1>13, <1>14, <1>15, <1>16, <1>17, <1>18, <1>19 DEF Next, Main

(* A row that has come late stays late.                                    *)
LEMMA LateStays ==
  ASSUME [Next]_vars, late
  PROVE  late'
<1>1. CASE UNCHANGED vars
  BY <1>1 DEF vars, orders
<1>2. CASE \E i \in Ids : Commit(i)
  BY <1>2 DEF Commit
<1>3. CASE \E p \in Pullers : Pull(p)
  BY <1>3 DEF Pull, orders
<1>4. CASE Start \/ Crash \/ Main
  BY <1>4 DEF Start, Crash, Stop, Main, NoSnapshotFile, NothingToCheck, QuotesBehind,
     LoadWindow, ReadResults, Replay, Validated, NotValidated, Fatal, orders
<1>5. CASE Match \/ Tick \/ Dump \/ Batch \/ Quote \/ SaveKlines \/ TakeSnapShot
  BY <1>5 DEF Match, Tick, Dump, Batch, Quote, SaveKlines, TakeSnapShot, orders
<1>6. CASE \E b \in batches : Write(b)
  BY <1>6 DEF Write, orders
<1>7. QED
  BY <1>1, <1>2, <1>3, <1>4, <1>5, <1>6 DEF Next

(* Until a row comes late, every result is that of the rows before its     *)
(* order, every book holds the rows up to its FromId, the pullers have     *)
(* passed over none, and the quotations count what was given out.          *)
LEMMA AllStaysRight == Spec => []RecoveryInv
<1>1. Init => RecoveryInv
  BY RightInit DEF RecoveryInv
<1>2. TypeOK /\ RecoveryInv /\ [Next]_vars => RecoveryInv'
  BY RightNext, LateStays DEF RecoveryInv
<1>3. QED
  BY <1>1, <1>2, RecoveryTypes, PTL DEF Spec

(* With the types, this is the inductive invariant of the exchange.        *)
THEOREM RecoveryInvariant == Spec => []IInv
BY RecoveryTypes, AllStaysRight, PTL DEF IInv

(* However the writes of the runs before failed or were cut off, the       *)
(* results between the two newest snapshots of an exchange that has        *)
(* started are written, and right.                                         *)
THEOREM ReadyIsWritten == Spec => []WindowIsWritten
<1>1. TypeOK /\ RecoveryInv => WindowIsWritten
  <2>1. SUFFICES ASSUME RecoveryInv, main = "ready", ~late,
                        NEW i \in window.last \ window.base
                 PROVE  i \in DOMAIN db /\ db[i] = {j \in rows : j < i}
    BY DEF WindowIsWritten
  <2>2. i \in DOMAIN db
    BY <2>1 DEF RecoveryInv, AllRight, WindowIsReplayed
  <2>3. Result(i, db[i]) \in published
    BY <2>1, <2>2 DEF RecoveryInv, AllRight, KeptIsRight
  <2>4. Result(i, db[i]).id = i /\ Result(i, db[i]).book = db[i]
    BY DEF Result
  <2>5. Result(i, db[i]).book = {j \in rows : j < Result(i, db[i]).id}
    BY <2>1, <2>3 DEF RecoveryInv, AllRight, ResultsAreRight
  <2>6. QED
    BY <2>2, <2>4, <2>5
<1>2. QED
  BY <1>1, RecoveryTypes, AllStaysRight, PTL

(* The quotes of an exchange that has started count every result once, in  *)
(* the order of the ids, unless a tick hid the gap.                        *)
THEOREM ReadyCountsOnce == Spec => []QuotesCountOnce
<1>1. TypeOK /\ RecoveryInv => QuotesCountOnce
  <2>1. SUFFICES ASSUME TypeOK, RecoveryInv, main = "ready", ~late, ~hidden
                 PROVE  quote = InOrder({i \in PublishedIds : i <= MaxMRId(quote)})
    BY DEF QuotesCountOnce
  <2>2. ~Gap(quote)
    BY <2>1 DEF RecoveryInv, AllRight, QuotesAreWhole, Whole
  <2>3. Rising(quote) /\ quote \in Seq(Ids)
    BY <2>1 DEF RecoveryInv, AllRight, QuotesInOrder, TypeOK
  <2>4. quote = InOrder(Range(quote))
    BY <2>3, RisingIsInOrder
  <2>5. QED
    BY <2>2, <2>4 DEF Gap
<1>2. QED
  BY <1>1, RecoveryTypes, AllStaysRight, PTL

(* A snapshot of the quotes never holds what Redis does not.               *)
THEOREM RedisIsAhead == Spec => []SnapshotBehindRedis
<1>1. RecoveryInv => SnapshotBehindRedis
  BY DEF RecoveryInv, AllRight, QuotesInOrder, SnapshotBehindRedis
<1>2. QED
  BY <1>1, AllStaysRight, PTL

(* An order of the replay that does not agree has no result; the last one  *)
(* leads to the book of the snapshot.                                      *)
LEMMA NotValidatedHasAReason ==
  ASSUME TypeOK, AllRight, NotValidated
  PROVE  \E i \in rows : /\ From(window.base) < i /\ i <= From(window.last)
                         /\ i \notin DOMAIN known
<1> DEFINE que == queue["check"]
           cur == cursor["check"]
           i == Head(que)
           P == IdsOf(published)
           n == From(window.last)
           m == From(window.base)
<1>1. /\ rows \in SUBSET Ids /\ replay \in Books /\ que \in Seq(Ids) /\ cur \in Nat
      /\ que # <<>> /\ main = "replaying"
  BY IdsAre DEF TypeOK, Pullers, NotValidated, Replaying
<1>2. Pulled(que, cur, replay, rows, P)
  BY PartsOfRight DEF AllRight
<1>3. Agrees(i) => Reaches(i) /\ ~SameBook(i)
  BY DEF NotValidated
<1>4. /\ window.base \in Books /\ window.last \in Books
      /\ HoldsAllTo(window.base, rows, P) /\ HoldsAllTo(window.last, rows, P)
  BY BooksHeld DEF TypeOK
<1>5. /\ m < n /\ window.base \subseteq replay /\ \A j \in replay : j < n
  BY <1>1 DEF AllRight, WindowIsReplayed
<1>6. m \in Nat /\ n \in Nat
  BY <1>4, IdsAre
<1>7. m = 0 \/ m \in replay
  BY <1>4, <1>5, HeldIs
<1>8. n \in rows
  <2>1. n # 0
    BY <1>5, <1>6
  <2>2. window.last # {}
    BY <1>4, <2>1, FromIs
  <2>3. QED
    BY <1>4, <2>2, HeldIs
<1> HIDE DEF que, cur, P, m
<1>9. /\ i \in rows /\ replay = {j \in rows : j < i}
      /\ replay \cup {i} = {j \in rows : j <= i}
  BY <1>1, <1>2, HeadIsNext
<1>10. i \in Nat /\ i > 0
  BY <1>1, <1>9, IdsAre
<1>11. m < i
  BY <1>7, <1>9, <1>10
<1>12. i <= n
  <2> HIDE DEF n
  <2>1. ~ (n < i)
    BY <1>5, <1>6, <1>8, <1>9
  <2>2. QED
    BY <1>6, <1>10, <2>1
<1>13. i \notin DOMAIN known
  <2>1. SUFFICES ASSUME i \in DOMAIN known PROVE FALSE
    OBVIOUS
  <2>2. known[i] = db[i] /\ Result(i, db[i]) \in published
    BY <2>1 DEF AllRight, KeptIsRight
  <2>3. db[i] = {j \in rows : j < i}
    BY <2>2 DEF AllRight, ResultsAreRight, Result
  <2>4. Agrees(i)
    BY <1>9, <2>1, <2>2, <2>3 DEF Agrees
  <2>5. i = n /\ ~SameBook(i)
    BY <1>3, <2>4 DEF Reaches
  <2>6. window.last = {j \in rows : j <= n}
    BY <1>4 DEF HoldsAllTo
  <2> HIDE DEF i, n
  <2>7. replay \cup {i} = window.last
    BY <1>9, <2>5, <2>6
  <2>8. QED
    BY <2>5, <2>7 DEF SameBook
<1>14. QED
  BY <1>9, <1>11, <1>12, <1>13 DEF m

(* A start refuses for one of the reasons the code knows, and never        *)
(* because what was recovered differs from what was given out.             *)
THEOREM HaltsOnlyForAReason == Spec => HaltsForAReason
<1> DEFINE Reason == main' = "halted" /\ main # "halted" =>
             \/ files = {} \/ late
             \/ From(LastBook) > MaxMRId(quoteFile)
             \/ \E i \in rows : /\ From(window.base) < i /\ i <= From(window.last)
                                /\ i \notin DOMAIN known
<1>1. TypeOK /\ RecoveryInv /\ [Next]_vars => Reason
  <2>1. SUFFICES ASSUME TypeOK, RecoveryInv, [Next]_vars, main' = "halted", main # "halted", ~late
                 PROVE  \/ files = {}
                        \/ From(LastBook) > MaxMRId(quoteFile)
                        \/ \E i \in rows : /\ From(window.base) < i /\ i <= From(window.last)
                                           /\ i \notin DOMAIN known
    OBVIOUS
  <2>2. NoSnapshotFile \/ QuotesBehind \/ NotValidated
    <3>1. main' # main
      BY <2>1
    <3>2. ~UNCHANGED vars
      BY <3>1 DEF vars
    <3>3. ~ \E i \in Ids : Commit(i)
      BY <3>1 DEF Commit
    <3>4. ~ \E p \in Pullers : Pull(p)
      BY <3>1 DEF Pull
    <3>5. ~ (Match \/ Tick \/ Dump \/ Batch \/ Quote \/ SaveKlines \/ TakeSnapShot \/ Replay)
      BY <3>1 DEF Match, Tick, Dump, Batch, Quote, SaveKlines, TakeSnapShot, Replay
    <3>6. ~ \E b \in batches : Write(b)
      BY <3>1 DEF Write
    <3>7. ~ (Start \/ Crash \/ NothingToCheck \/ LoadWindow \/ ReadResults \/ Validated)
      BY <2>1 DEF Start, Crash, Stop, NothingToCheck, LoadWindow, ReadResults, Validated
    <3>8. QED
      BY <2>1, <3>2, <3>3, <3>4, <3>5, <3>6, <3>7 DEF Next, Main
  <2>3. AllRight
    BY <2>1 DEF RecoveryInv
  <2>4. NoSnapshotFile => files = {}
    BY DEF NoSnapshotFile
  <2>5. QuotesBehind => From(LastBook) > MaxMRId(quoteFile)
    BY DEF QuotesBehind
  <2>6. QED
    BY <2>1, <2>2, <2>3, <2>4, <2>5, NotValidatedHasAReason
<1>2. TypeOK /\ RecoveryInv /\ [Next]_vars => [Reason]_vars
  BY <1>1
<1>3. QED
  BY <1>2, RecoveryTypes, AllStaysRight, PTL DEF Spec, HaltsForAReason

-----------------------------------------------------------------------------
(* The log of results.                                                     *)

LEMMA MatchAnswers ==
  ASSUME TypeOK, AllRight, Match
  PROVE  (\E i \in Ids : Log!Answer(i)) \/ UNCHANGED Log!logVars
<1> DEFINE P == IdsOf(published)
           que == queue["matcher"]
           cur == cursor["matcher"]
           i == Head(que)
           r == Result(i, book)
<1>1. /\ que # <<>> /\ published' = published \cup {r}
      /\ UNCHANGED <<rows, late>>
  BY DEF Match, orders
<1>2. /\ rows \in SUBSET Ids /\ book \in Books /\ que \in Seq(Ids) /\ cur \in Nat
  BY IdsAre DEF TypeOK, Pullers
<1>3. Pulled(que, cur, book, rows, P) /\ Right(rows, published, P)
  BY PartsOfRight DEF AllRight
<1>4. /\ P \subseteq rows /\ \A k \in P, j \in rows : j < k => j \in P
      /\ \A x \in published : x = Result(x.id, x.book)
  BY GivenOut
<1>5. book \subseteq P
  BY BooksHeld DEF HoldsAllTo
<1>6. \A x \in published : x.book = {j \in rows : j < x.id}
  BY <1>3 DEF Right
<1> HIDE DEF que, cur, P
<1>7. i \in rows /\ book = {j \in rows : j < i}
  BY <1>1, <1>2, <1>3, HeadIsNext
<1>8. i \in Ids /\ \A j \in rows : j \in Nat
  BY <1>2, <1>7, IdsAre
<1> HIDE DEF i
<1>9. CASE i \in P
  <2>1. PICK x \in published : x.id = i
    BY <1>9 DEF P, IdsOf
  <2>2. x = r
    BY <1>4, <1>6, <1>7, <2>1
  <2>3. published' = published
    BY <1>1, <2>1, <2>2
  <2>4. QED
    BY <1>1, <2>3 DEF Log!logVars
<1>10. CASE i \notin P
  <2>1. \A k \in P : k < i
    <3>1. SUFFICES ASSUME NEW k \in P, ~ (k < i) PROVE FALSE
      OBVIOUS
    <3>2. k \in Nat /\ i \in Nat /\ k # i
      BY <1>4, <1>7, <1>8, <1>10
    <3>3. i < k
      BY <3>1, <3>2
    <3>4. QED
      BY <1>4, <1>7, <1>10, <3>3
  <2>2. P = {j \in rows : j < i}
    BY <1>4, <1>5, <1>7, <2>1
  <2>3. Log!Below(i) = {j \in rows : j < i}
    BY DEF Log!Below
  <2>4. {x.id : x \in published} = Log!Below(i)
    BY <2>2, <2>3 DEF P, IdsOf
  <2>5. published' = published \cup {[id |-> i, book |-> Log!Below(i)]}
    BY <1>1, <1>7, <2>3 DEF Result
  <2>6. Log!Answer(i)
    BY <1>1, <1>7, <2>4, <2>5 DEF Log!Answer
  <2>7. QED
    BY <1>8, <2>6
<1>11. QED
  BY <1>9, <1>10

(* The exchange that crashes and restarts gives out the results of one     *)
(* that never does: every step is one of the log, or changes nothing a     *)
(* reader of the results sees.                                             *)
THEOREM ExchangeKeepsOneLog == Spec => OneLog
<1>1. Init => Log!Init
  BY DEF Init, Log!Init
<1>2. TypeOK /\ RecoveryInv /\ [Next]_vars => [Log!Next]_Log!logVars
  <2>1. SUFFICES ASSUME TypeOK, RecoveryInv, [Next]_vars
                 PROVE  [Log!Next]_Log!logVars
    OBVIOUS
  <2>2. CASE \E i \in Ids : Commit(i)
    <3>1. PICK i \in Ids : Commit(i)
      BY <2>2
    <3>2. /\ i \notin rows /\ rows' = rows \cup {i}
          /\ late' = late \/ late' = TRUE
          /\ published' = published
      BY <3>1 DEF Commit, matcher
    <3>3. Log!Arrive(i)
      BY <3>2 DEF Log!Arrive
    <3>4. QED
      BY <3>3 DEF Log!Next
  <2>3. CASE ~ \E i \in Ids : Commit(i)
    <3>1. UNCHANGED <<rows, late>>
      <4>1. CASE UNCHANGED vars
        BY <4>1 DEF vars, orders
      <4>2. CASE \E p \in Pullers : Pull(p)
        BY <4>2 DEF Pull, orders
      <4>3. CASE Start \/ Crash \/ Main
        BY <4>3 DEF Start, Crash, Stop, Main, NoSnapshotFile, NothingToCheck, QuotesBehind,
           LoadWindow, ReadResults, Replay, Validated, NotValidated, Fatal, orders
      <4>4. CASE Match \/ Tick \/ Dump \/ Batch \/ Quote \/ SaveKlines \/ TakeSnapShot
        BY <4>4 DEF Match, Tick, Dump, Batch, Quote, SaveKlines, TakeSnapShot, orders
      <4>5. CASE \E b \in batches : Write(b)
        BY <4>5 DEF Write, orders
      <4>6. QED
        BY <2>1, <2>3, <4>1, <4>2, <4>3, <4>4, <4>5 DEF Next
    <3>2. CASE late
      BY <3>1, <3>2 DEF Log!Next, Log!Unspecified
    <3>3. CASE ~late /\ Match
      <4>1. AllRight
        BY <2>1, <3>3 DEF RecoveryInv
      <4>2. (\E i \in Ids : Log!Answer(i)) \/ UNCHANGED Log!logVars
        BY <2>1, <3>3, <4>1, MatchAnswers
      <4>3. QED
        BY <4>2 DEF Log!Next
    <3>4. CASE ~Match
      <4>1. published' = published
        <5>1. CASE UNCHANGED vars
          BY <5>1 DEF vars, matcher
        <5>2. CASE \E p \in Pullers : Pull(p)
          BY <5>2 DEF Pull, matcher
        <5>3. CASE Start \/ Crash \/ Main
          BY <5>3 DEF Start, Crash, Stop, Main, NoSnapshotFile, NothingToCheck, QuotesBehind,
             LoadWindow, ReadResults, Replay, Validated, NotValidated, Fatal, matcher
        <5>4. CASE Tick \/ Dump \/ Batch \/ Quote \/ SaveKlines \/ TakeSnapShot
          BY <5>4 DEF Tick, Dump, Batch, Quote, SaveKlines, TakeSnapShot, matcher
        <5>5. CASE \E b \in batches : Write(b)
          BY <5>5 DEF Write, matcher
        <5>6. QED
          BY <2>1, <2>3, <3>4, <5>1, <5>2, <5>3, <5>4, <5>5 DEF Next
      <4>2. QED
        BY <3>1, <4>1 DEF Log!logVars
    <3>5. QED
      BY <3>2, <3>3, <3>4 DEF TypeOK
  <2>4. QED
    BY <2>2, <2>3
<1>3. QED
  BY <1>1, <1>2, RecoveryTypes, AllStaysRight, PTL DEF Spec, OneLog, Log!Spec
=============================================================================
