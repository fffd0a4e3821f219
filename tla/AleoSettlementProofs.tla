------------------------ MODULE AleoSettlementProofs ------------------------
(***************************************************************************)
(* What the records, the settlement and the accounts have to do with the   *)
(* matches, for every set of orders, placement and capacity, and however   *)
(* many faults and cancellations there are.                                *)
(***************************************************************************)
EXTENDS AleoProofs, SumProofs

-----------------------------------------------------------------------------
(* Sequences: the last element, those before it, and the two folds.        *)
LEMMA FrontAndLast ==
  ASSUME NEW S, NEW q \in Seq(S), q # <<>>
  PROVE  /\ Front(q) \in Seq(S) /\ Len(Front(q)) = Len(q) - 1
         /\ Len(q) \in Nat \ {0} /\ Last(q) = q[Len(q)] /\ Last(q) \in S
         /\ \A k \in 1 .. Len(q) - 1 : Front(q)[k] = q[k]
<1>1. Len(q) \in Nat /\ Len(q) # 0
  BY LenProperties, EmptySeq
<1>2. 1 \in Int /\ Len(q) - 1 \in Int /\ 1 .. Len(q) - 1 \subseteq 1 .. Len(q)
  BY <1>1
<1>3. /\ SubSeq(q, 1, Len(q) - 1) \in Seq(S)
      /\ Len(SubSeq(q, 1, Len(q) - 1)) = Len(q) - 1
      /\ \A k \in 1 .. Len(q) - 1 : SubSeq(q, 1, Len(q) - 1)[k] = q[k]
  <2>1. \A k \in 1 .. Len(q) - 1 : q[k] \in S
    BY <1>1, <1>2, ElementOfSeq
  <2>2. 1 \in Int /\ Len(q) - 1 \in Int
        /\ (Len(q) - 1) - 1 + 1 = Len(q) - 1
        /\ (1 <= Len(q) - 1 \/ Len(q) - 1 = 0)
        /\ \A k \in 1 .. Len(q) - 1 : 1 + k - 1 = k
    <3>1. \A n \in Nat : n # 0 => /\ 1 \in Int /\ n - 1 \in Int /\ (n - 1) - 1 + 1 = n - 1
                                  /\ (1 <= n - 1 \/ n - 1 = 0)
                                  /\ \A k \in 1 .. n - 1 : 1 + k - 1 = k
      OBVIOUS
    <3>2. QED
      BY <1>1, <3>1, Zenon
  <2>3. /\ SubSeq(q, 1, Len(q) - 1) \in Seq(S)
        /\ Len(SubSeq(q, 1, Len(q) - 1))
             = IF 1 <= Len(q) - 1 THEN (Len(q) - 1) - 1 + 1 ELSE 0
        /\ \A k \in 1 .. (Len(q) - 1) - 1 + 1 :
             SubSeq(q, 1, Len(q) - 1)[k] = q[1 + k - 1]
    BY <2>1, <2>2, SubSeqProperties
  <2>4. QED
    BY <2>2, <2>3
<1>4. Last(q) \in S
  BY <1>1 DEF Last
<1>5. QED
  BY <1>1, <1>3, <1>4 DEF Front, Last

LEMMA FrontOfAppend ==
  ASSUME NEW S, NEW q \in Seq(S), NEW e \in S
  PROVE  /\ Front(Append(q, e)) = q /\ Last(Append(q, e)) = e
         /\ Append(q, e) \in Seq(S) /\ Append(q, e) # <<>>
<1> DEFINE a == Append(q, e)
<1>1. /\ a \in Seq(S) /\ Len(a) = Len(q) + 1 /\ Len(q) \in Nat /\ a[Len(q) + 1] = e
      /\ \A k \in 1 .. Len(q) : a[k] = q[k]
  BY AppendProperties, LenProperties
<1>2. a # <<>>
  BY <1>1, EmptySeq
<1> HIDE DEF a
<1>3. /\ Front(a) \in Seq(S) /\ Len(Front(a)) = Len(q) /\ Last(a) = e
      /\ \A k \in 1 .. Len(q) : Front(a)[k] = q[k]
  BY <1>1, <1>2, FrontAndLast
<1>4. Front(a) = q
  BY <1>3, SeqEqual
<1>5. QED
  BY <1>1, <1>2, <1>3, <1>4 DEF a

(* The trades a retry round takes are failed trades.                       *)
LEMMA RetryableIs ==
  ASSUME NEW X, trades \in Seq(X)
  PROVE  Retryable \in Seq({t \in X : t.status = "failed"})
<1> DEFINE S == DOMAIN trades
           F == {t \in X : t.status = "failed"}
           D == Seq(F)
           Put(s, v) == IF trades[Max(s)].status = "failed"
                         THEN Append(v, trades[Max(s)]) ELSE v
           step == [u \in ((SUBSET S) \ {{}}) \X D |-> Put(u[1], u[2])]
           ch == [s \in SUBSET S |-> Max(s)]
<1>1. S = 1 .. Len(trades) /\ Len(trades) \in Nat /\ IsFiniteSet(S)
  BY LenProperties, FS_Interval
<1>2. \A s \in SUBSET S : s # {} => ch[s] \in s /\ Max(s) \in s
  <2>1. ASSUME NEW s \in SUBSET S, s # {} PROVE Max(s) \in s
    <3>1. s \in SUBSET (0 .. Len(trades))
      BY <1>1
    <3>2. QED
      BY <1>1, <2>1, <3>1, MaxIs
  <2>2. QED
    BY <2>1
<1>3. ASSUME NEW s \in (SUBSET S) \ {{}}, NEW v \in D PROVE Put(s, v) \in D
    <3>1. trades[Max(s)] \in X
      <4>1. Max(s) \in S
        BY <1>2
      <4>2. QED
        BY <1>1, <4>1, ElementOfSeq
    <3>2. trades[Max(s)].status = "failed" => trades[Max(s)] \in F
      BY <3>1
    <3> HIDE DEF F
    <3>3. QED
      BY <3>2, AppendProperties
<1>4. step \in [((SUBSET S) \ {{}}) \X D -> D]
  <2> HIDE DEF Put, D
  <2>1. QED
    BY <1>3
<1>5. <<>> \in D
  OBVIOUS
<1> HIDE DEF D, ch
<1>6. PICK it \in [SUBSET S -> D] : FoldsOn(S, <<>>, step, ch, it)
  BY <1>1, <1>2, <1>4, <1>5, FoldExists
<1> HIDE DEF S
<1>7. ASSUME NEW f, FoldsOn(S, <<>>, step, ch, f), f \in [SUBSET S -> D]
      PROVE  f = [s \in SUBSET S |-> IF s = {} THEN <<>> ELSE Put(s, f[s \ {Max(s)}])]
  <2>1. ASSUME NEW s \in SUBSET S
        PROVE  f[s] = IF s = {} THEN <<>> ELSE Put(s, f[s \ {Max(s)}])
    <3>1. s # {} => step[<<s, f[s \ {Max(s)}]>>] = Put(s, f[s \ {Max(s)}])
      <4>1. f[s \ {Max(s)}] \in D
        BY <1>7
      <4> HIDE DEF Put
      <4>2. QED
        BY <4>1
    <3> HIDE DEF step, Put
    <3>2. QED
      BY <1>7, <3>1 DEF FoldsOn, ch
  <2> HIDE DEF Put, step
  <2>2. QED
    BY <1>7, <2>1
<1> DEFINE g == CHOOSE f : f = [s \in SUBSET S |->
                                  IF s = {} THEN <<>> ELSE Put(s, f[s \ {Max(s)}])]
<1>8. it = [s \in SUBSET S |-> IF s = {} THEN <<>> ELSE Put(s, it[s \ {Max(s)}])]
  BY <1>6, <1>7
<1>9. g = [s \in SUBSET S |-> IF s = {} THEN <<>> ELSE Put(s, g[s \ {Max(s)}])]
  <2> HIDE DEF Put, step
  <2>1. QED
    BY <1>8
<1>10. Retryable = g[S]
  BY DEF Retryable, FoldLeft, MapThenFoldSet, S
<1> HIDE DEF g, Put, step
<1>11. g[S] \in D
  <2> DEFINE T == {s \in SUBSET S : g[s] \notin D}
  <2>1. SUFFICES ASSUME T # {} PROVE FALSE
    OBVIOUS
  <2>2. PICK s \in T : \A r \in T : r \subseteq s => r = s
    <3>1. T \in SUBSET (SUBSET S)
      OBVIOUS
    <3>2. IsFiniteSet(S)
      BY <1>1
    <3> HIDE DEF T
    <3>3. QED
      BY <2>1, <3>1, <3>2, LeastSubset
  <2>3. s \in SUBSET S /\ g[s] \notin D
    BY <2>2
  <2>4. s # {}
    BY <1>5, <1>9, <2>3
  <2>5. s \ {Max(s)} \in SUBSET S /\ s \ {Max(s)} # s /\ s \ {Max(s)} \subseteq s
    BY <1>2, <2>3, <2>4
  <2>6. g[s \ {Max(s)}] \in D
    BY <2>2, <2>5
  <2>7. Put(s, g[s \ {Max(s)}]) \in D
    BY <1>3, <2>3, <2>4, <2>6
  <2>8. QED
    BY <1>9, <2>3, <2>4, <2>7
<1>12. QED
  BY <1>10, <1>11 DEF D

-----------------------------------------------------------------------------
(* The invariant.  Matches only add to the amount and the value an order   *)
(* has been filled with: what backed a settlement once backs it for ever.  *)
Backs(os, S, p, n) ==
  \A i \in S : i \in DOMAIN os /\ n <= os[i].acc /\ p * n <= os[i].value

(* An order of the engine; one that rests can still be filled, and the one *)
(* that is matched has not been reported.                                  *)
Sound(o, r) ==
  /\ o.req = r
  /\ o.unfilled \in Nat /\ o.acc \in Nat /\ o.value \in Nat
  /\ o.state # "Filled" => o.unfilled > 0
  /\ o.state # "Submitted" => o.acc > 0

EngineSound ==
  /\ \A i \in DOMAIN orders : Sound(orders[i], RequestOf(placed[i]))
  /\ book \subseteq DOMAIN orders
  /\ \A i \in book : /\ orders[i].state # "Filled"
                     /\ orders[i].told \in {"submitted", "partial-filled"}
  /\ taker # M!None => taker \notin book /\ orders[taker].told = ""

(* The result of a maker that the order tk met.                            *)
MakerOf(os, it, tk) ==
  /\ it.id # tk /\ it.amount > 0
  /\ Backs(os, {it.id, tk}, it.price, it.amount)
  /\ it.state \in {"filled", "partial-filled"}
  /\ it.state = "filled" => os[it.id].told = "filled"

Makers(os, tk) == {it \in M!Item : MakerOf(os, it, tk)}

Distinct(q) == \A j, k \in DOMAIN q : q[j].id = q[k].id => j = k

(* An order meets a maker once: then one of the two is filled.             *)
Matched ==
  /\ items \in Seq(M!Item)
  /\ stage = "match" =>
       /\ taker # M!None
       /\ items \in Seq(Makers(orders, taker)) /\ Distinct(items)
       /\ orders[taker].state # "Filled" =>
            \A k \in DOMAIN items : items[k].id \notin book
  /\ stage \in {"record", "settle"} =>
       /\ items # <<>>
       /\ MakerItems \in Seq(Makers(orders, Subject)) /\ Distinct(MakerItems)

(* The item that closes a MatchResult says what the engine has told.       *)
Reported ==
  stage = "record" /\ Last(items).state # "failed" =>
    /\ Subject \in DOMAIN orders
    /\ orders[Subject].told = Last(items).state
    /\ Last(items).state = "partial-filled" => orders[Subject].acc > 0

Backed(i) ==
  /\ records[i].status = "filled" => i \in DOMAIN orders /\ orders[i].told = "filled"
  /\ records[i].status = "partial" => i \in DOMAIN orders /\ orders[i].acc > 0
  /\ records[i].status = "canceled" => i \in DOMAIN orders /\ orders[i].told \in CanceledStates

RecordsSound ==
  /\ records \in [Ids -> [status: RecordStatuses, filled: Nat]]
  /\ \A i \in Ids : Backed(i)

SoundTrades ==
  {t \in Trade : t.maker # t.taker /\ Backs(orders, {t.maker, t.taker}, t.price, t.amount)}

SoundJobs ==
  {j \in Job : /\ j.maker # j.taker /\ {j.buy, j.sell} = {j.maker, j.taker}
               /\ Backs(orders, {j.buy, j.sell}, j.price, j.amount)}

(* The pairs of maker and taker whose first settlement the matcher         *)
(* goroutine has before it or is in.                                       *)
Pair(t) == <<t.maker, t.taker>>

ToSettle ==
  CASE stage = "match" -> Ids \X {taker}
    [] stage = "record" /\ MakerItems # <<>> -> Ids \X {Subject}
    [] stage = "settle" -> {<<items[k].id, Subject>> : k \in next .. Len(items) - 1}
    [] OTHER -> {}

Settling ==
  /\ next \in Nat
  /\ stage # "settle" => next = 1
  /\ stage = "settle" => next \in 1 .. Len(items) - 1

Numbers == nonces \in Nat /\ creds \in Nat

JobsSound == job \in [Settlers -> SoundJobs \cup {NoJob}]

TradesSound == trades \in Seq(SoundTrades) /\ retryList \in Seq(SoundTrades)

(* No retry is at such a pair, and it has no failed trade for the next     *)
(* round of retries to take up.                                            *)
Before == {t \in Trade : Pair(t) \notin ToSettle}

Tried == {t \in Trade : Pair(t) \in ToSettle => stage = "settle" /\ t.status # "failed"}

FirstTried ==
  /\ job["matcher"] # NoJob =>
       job["matcher"].maker = items[next].id /\ job["matcher"].taker = Subject
  /\ job["retry"] # NoJob => Pair(job["retry"]) \notin ToSettle
  /\ retryList \in Seq(Before) /\ trades \in Seq(Tried)

-----------------------------------------------------------------------------
(* A step only adds to what an order was filled with, and leaves the state *)
(* in which it was reported as done.                                       *)
FinalTold == {"filled"} \cup CanceledStates

Grown(os, ns) ==
  \A i \in DOMAIN os :
    /\ i \in DOMAIN ns
    /\ os[i].acc \in Nat /\ os[i].value \in Nat
    /\ ns[i].acc \in Nat /\ ns[i].value \in Nat
    /\ os[i].acc <= ns[i].acc /\ os[i].value <= ns[i].value
    /\ os[i].told \in FinalTold => ns[i].told = os[i].told

LEMMA BacksGrow ==
  ASSUME NEW os, NEW ns, Grown(os, ns), NEW S, NEW p \in Nat, NEW n \in Nat,
         Backs(os, S, p, n)
  PROVE  Backs(ns, S, p, n)
<1>1. p * n \in Nat
  OBVIOUS
<1> DEFINE v == p * n
<1>2. v \in Nat /\ \A i \in S : i \in DOMAIN os /\ n <= os[i].acc /\ v <= os[i].value
  BY <1>1 DEF Backs
<1> HIDE DEF v
<1>3. \A i \in S : i \in DOMAIN ns /\ n <= ns[i].acc /\ v <= ns[i].value
  BY <1>2 DEF Grown
<1>4. QED
  BY <1>3 DEF Backs, v

LEMMA MakersGrow ==
  ASSUME NEW os, NEW ns, Grown(os, ns), NEW tk
  PROVE  Makers(os, tk) \subseteq Makers(ns, tk)
<1> SUFFICES ASSUME NEW it \in M!Item, MakerOf(os, it, tk) PROVE MakerOf(ns, it, tk)
  BY DEF Makers
<1>1. it.price \in Nat /\ it.amount \in Nat
  BY DEF M!Item
<1>2. Backs(os, {it.id, tk}, it.price, it.amount)
  BY DEF MakerOf
<1>3. Backs(ns, {it.id, tk}, it.price, it.amount)
  BY <1>1, <1>2, BacksGrow
<1>4. it.id \in DOMAIN os
  BY <1>2 DEF Backs
<1>5. QED
  BY <1>3, <1>4 DEF MakerOf, Grown, FinalTold

LEMMA SoundTradesGrow ==
  ASSUME Grown(orders, orders') PROVE SoundTrades \subseteq SoundTrades'
<1> SUFFICES ASSUME NEW t \in Trade, t.maker # t.taker,
                    Backs(orders, {t.maker, t.taker}, t.price, t.amount)
             PROVE  Backs(orders', {t.maker, t.taker}, t.price, t.amount)
  BY DEF SoundTrades, Trade
<1>1. t.price \in Nat /\ t.amount \in Nat
  BY DEF Trade
<1>2. QED
  BY <1>1, BacksGrow

LEMMA SoundJobsGrow ==
  ASSUME Grown(orders, orders') PROVE SoundJobs \subseteq SoundJobs'
<1> SUFFICES ASSUME NEW j \in Job, Backs(orders, {j.buy, j.sell}, j.price, j.amount)
             PROVE  Backs(orders', {j.buy, j.sell}, j.price, j.amount)
  BY DEF SoundJobs, Job
<1>1. j.price \in Nat /\ j.amount \in Nat
  BY DEF Job
<1>2. QED
  BY <1>1, BacksGrow

LEMMA GrownWhenUnchanged ==
  ASSUME EngineSound, UNCHANGED orders PROVE Grown(orders, orders')
<1>1. \A i \in DOMAIN orders : orders[i].acc \in Nat /\ orders[i].value \in Nat
  BY DEF EngineSound, Sound
<1>2. \A n \in Nat : n <= n
  OBVIOUS
<1>3. Grown(orders, orders)
  BY <1>1, <1>2, Zenon DEF Grown
<1>4. QED
  BY <1>3

-----------------------------------------------------------------------------
(* The steps of a match: a limit order without self-trade prevention meets *)
(* makers and fills, and is done when it is filled or rests.               *)
LEMMA StepsOfAMatch ==
  ASSUME AllPlain, M!MatchStep
  PROVE  /\ taker # M!None /\ taker \in DOMAIN orders
         /\ \/ M!Finalize(orders[taker]) /\ UNCHANGED book
                 /\ M!Finished(orders[taker])
            \/ M!Finalize(orders[taker]) /\ book' = book \cup {taker}
                 /\ ~M!Finished(orders[taker])
            \/ \E m \in book : M!Fill(m)
            \/ UNCHANGED <<orders, book, taker, items>>
<1>1. taker # M!None /\ taker \in DOMAIN orders /\ Plain(orders[taker])
  BY MatchStepKeeps DEF AllPlain
<1>2. M!Req(taker).type = "Limit" /\ M!Req(taker).stp = "AST"
  BY <1>1 DEF Plain, M!Req
<1>3. ~M!FokCheck /\ ~M!Exhausted
  BY <1>2 DEF M!FokCheck, M!Exhausted
<1>4. ASSUME NEW m
      PROVE  ~M!CircuitBreak(m) /\ ~M!PrecisionCancel(m) /\ ~M!CancelBoth(m)
             /\ ~M!CancelOld(m) /\ ~M!CancelNew(m) /\ ~M!DecreaseCancel(m)
  BY <1>2 DEF M!CircuitBreak, M!PrecisionCancel, M!TooPrecise, M!CashBased,
              M!CancelBoth, M!CancelOld, M!CancelNew, M!DecreaseCancel,
              M!SelfTrade, M!SelfTrading
<1>5. QED
  BY <1>1, <1>3, <1>4
     DEF M!MatchStep, M!Meeting, M!TakerFinished, M!Enqueue, M!AssertionFails

LEMMA SoundFilled ==
  ASSUME NEW o, NEW r, Plain(o), Sound(o, r),
         NEW amount \in Nat \ {0}, amount <= o.unfilled, NEW p \in Nat
  PROVE  LET f == M!Filled(o, amount, p) IN
         /\ Plain(f) /\ Sound(f, r) /\ f.told = o.told
         /\ f.acc = o.acc + amount /\ f.value = o.value + amount * p
         /\ f.acc \in Nat /\ f.value \in Nat
         /\ f.unfilled \in Nat
         /\ f.state = IF o.unfilled = amount THEN "Filled" ELSE "PartialFilled"
<1> DEFINE u == o.unfilled - amount
           a == o.acc + amount
           v == o.value + amount * p
           s == IF o.unfilled = amount THEN "Filled" ELSE "PartialFilled"
           f == [o EXCEPT !.unfilled = u, !.acc = a, !.value = v, !.state = s]
<1>1. M!Filled(o, amount, p) = f
  BY Zenon DEF M!Filled
<1>2. /\ u \in Nat /\ a \in Nat /\ a > 0 /\ v \in Nat
      /\ s # "Filled" => u > 0
  <2>1. amount * p \in Nat
    OBVIOUS
  <2>2. QED
    BY <2>1 DEF Sound
<1> HIDE DEF u, a, v, s
<1>3. f = [k \in Fields |->
             CASE k = "unfilled" -> u [] k = "acc" -> a [] k = "value" -> v
               [] k = "state" -> s [] OTHER -> o[k]]
  BY DEF Plain, Fields
<1> HIDE DEF f
<1>4. /\ f.req = o.req /\ f.told = o.told /\ f.state = s
      /\ f.unfilled = u /\ f.acc = a /\ f.value = v
  BY <1>3 DEF Fields
<1>5. Plain(f)
  BY <1>1, PlainFilled
<1>6. Sound(f, r)
  BY <1>2, <1>4 DEF Sound
<1>7. QED
  BY <1>1, <1>2, <1>4, <1>5, <1>6 DEF a, v, s

(* One fill, in full: what becomes of the two orders and what is published. *)
Filling(m, full, met, item) ==
  /\ m \in book /\ m # taker /\ taker \in DOMAIN orders /\ m \in DOMAIN orders
  /\ m \in Ids
  /\ orders' = [orders EXCEPT ![taker] = full, ![m] = met]
  /\ book' = IF met.state = "Filled" THEN book \ {m} ELSE book
  /\ items' = Append(items, item) /\ taker' = taker
  /\ orders[taker].state # "Filled"
  /\ item \in M!Item /\ item.id = m /\ item.amount > 0
  /\ item.state = IF met.state = "Filled" THEN "filled" ELSE "partial-filled"
  /\ met.told = item.state /\ full.told = orders[taker].told
  /\ Plain(full) /\ Plain(met)
  /\ Sound(full, orders[taker].req) /\ Sound(met, orders[m].req)
  /\ full.acc = orders[taker].acc + item.amount
  /\ full.value = orders[taker].value + item.amount * item.price
  /\ met.acc = orders[m].acc + item.amount
  /\ met.value = orders[m].value + item.amount * item.price
  /\ full.state \in {"Filled", "PartialFilled"} /\ met.state \in {"Filled", "PartialFilled"}
  /\ full.state = "Filled" \/ met.state = "Filled"

Tell(o, told) == [o EXCEPT !.told = told]

LEMMA SoundTold ==
  ASSUME NEW o, NEW r, Plain(o), Sound(o, r), NEW told
  PROVE  LET n == Tell(o, told) IN
         /\ Plain(n) /\ Sound(n, r) /\ n.told = told /\ n.state = o.state
         /\ n.acc = o.acc /\ n.value = o.value /\ n.unfilled = o.unfilled
         /\ n.req = o.req
BY DEF Plain, Sound, Fields, Tell

LEMMA FillIsAFilling ==
  ASSUME WayInv, AllPlain, EngineSound, taker # M!None, NEW m, m \in book, M!Fill(m)
  PROVE  \E full, met, item : Filling(m, full, met, item)
<1> DEFINE to == orders[taker]
           mo == orders[m]
           amount == M!MatchAmount(taker, m)
           p == M!Req(m).price
           full == M!Filled(to, M!TakerAmount(taker, m), p)
           maker == M!Filled(mo, amount, p)
           item == M!FillItem(m, maker, amount)
           met == [maker EXCEPT !.told = item.state]
<1>1. /\ taker \in DOMAIN orders /\ m \in DOMAIN orders /\ m # taker /\ m \in Ids
      /\ Plain(to) /\ Plain(mo)
      /\ Sound(to, RequestOf(placed[taker])) /\ Sound(mo, RequestOf(placed[m]))
      /\ to.req = RequestOf(placed[taker]) /\ mo.req = RequestOf(placed[m])
      /\ mo.state # "Filled"
  BY DEF AllPlain, EngineSound, WayInv, Sound
<1>2. to.state # "Filled"
  BY DEF M!Fill, M!Meets, M!AtHead, M!Finished
<1>3. /\ to.unfilled \in Nat /\ to.unfilled > 0 /\ mo.unfilled \in Nat /\ mo.unfilled > 0
  BY <1>1, <1>2 DEF Sound
<1>4. ~M!CashBased(taker)
  BY <1>1 DEF M!CashBased, M!Req, Plain
<1>5. M!TakerAmount(taker, m) = amount
      /\ amount = IF to.unfilled <= mo.unfilled THEN to.unfilled ELSE mo.unfilled
  BY <1>4 DEF M!TakerAmount, M!MatchAmount, M!Affordable, M!Smaller
<1>6. /\ amount \in Nat \ {0} /\ amount <= to.unfilled /\ amount <= mo.unfilled
      /\ amount = to.unfilled \/ amount = mo.unfilled
  BY <1>3, <1>5
<1>7. p \in Nat
  BY <1>1, EngineRequests DEF M!Req, WayInv, M!Request
<1>8. /\ orders' = [orders EXCEPT ![taker] = full, ![m] = met]
      /\ book' = IF M!Finished(maker) THEN book \ {m} ELSE book
      /\ items' = Append(items, item) /\ taker' = taker
  BY DEF M!Fill, M!Met
<1> HIDE DEF p, amount
<1>9. full = M!Filled(to, amount, p)
  BY <1>5
<1> HIDE DEF full
<1>10. /\ Plain(full) /\ Sound(full, to.req) /\ full.told = to.told
      /\ full.acc = to.acc + amount /\ full.value = to.value + amount * p
      /\ full.state = IF to.unfilled = amount THEN "Filled" ELSE "PartialFilled"
  BY <1>1, <1>6, <1>7, <1>9, SoundFilled
<1>11. /\ Plain(maker) /\ Sound(maker, mo.req)
       /\ maker.acc = mo.acc + amount /\ maker.value = mo.value + amount * p
       /\ maker.acc \in Nat /\ maker.value \in Nat
       /\ maker.state = IF mo.unfilled = amount THEN "Filled" ELSE "PartialFilled"
  BY <1>1, <1>6, <1>7, SoundFilled
<1> HIDE DEF maker, to, mo
<1>12. item = [id |-> m, role |-> "maker", amount |-> amount, price |-> maker.req.price,
               acc |-> maker.acc, value |-> maker.value, state |-> M!StateName[maker.state]]
  BY DEF M!FillItem
<1>13. maker.req.price = p
  BY <1>11 DEF p, mo, Sound, M!Req
<1>14. M!StateName[maker.state] = IF maker.state = "Filled" THEN "filled" ELSE "partial-filled"
  BY <1>11 DEF M!StateName
<1>15. /\ item \in M!Item /\ item.id = m /\ item.amount = amount /\ item.price = p
       /\ item.state = IF maker.state = "Filled" THEN "filled" ELSE "partial-filled"
  BY <1>1, <1>6, <1>7, <1>11, <1>12, <1>13, <1>14 DEF M!Item, M!ResultStates
<1> HIDE DEF item
<1>16. /\ Plain(met) /\ Sound(met, mo.req) /\ met.told = item.state
       /\ met.state = maker.state /\ met.acc = maker.acc /\ met.value = maker.value
  <2>1. met = Tell(maker, item.state)
    BY DEF Tell
  <2> HIDE DEF met
  <2>2. QED
    BY <1>11, <2>1, SoundTold
<1> HIDE DEF met
<1>17. M!Finished(maker) <=> met.state = "Filled"
  BY <1>11, <1>16 DEF M!Finished
<1>18. Filling(m, full, met, item)
  <2>1. /\ full.acc = to.acc + item.amount /\ full.value = to.value + item.amount * item.price
        /\ met.acc = mo.acc + item.amount /\ met.value = mo.value + item.amount * item.price
        /\ item.amount > 0
    BY <1>6, <1>10, <1>11, <1>15, <1>16
  <2>2. full.state = "Filled" \/ met.state = "Filled"
    BY <1>6, <1>10, <1>11, <1>16
  <2>3. QED
    BY <1>1, <1>2, <1>8, <1>10, <1>11, <1>15, <1>16, <1>17, <2>1, <2>2 DEF Filling, to, mo
<1>19. QED
  BY <1>18

LEMMA MoreThanBefore ==
  ASSUME NEW a \in Nat, NEW n \in Nat PROVE a + n \in Nat /\ a <= a + n
OBVIOUS

LEMMA FillSound ==
  ASSUME AllPlain, EngineSound, UNCHANGED placed, taker # M!None,
         NEW m, NEW full, NEW met, NEW item, Filling(m, full, met, item)
  PROVE  Grown(orders, orders') /\ EngineSound'
<1> DEFINE v == item.amount * item.price
<1>1. /\ DOMAIN orders' = DOMAIN orders
      /\ m \in book /\ m # taker /\ taker \in DOMAIN orders /\ m \in DOMAIN orders
      /\ orders'[m] = met /\ orders'[taker] = full
      /\ \A i \in DOMAIN orders : i # m /\ i # taker => orders'[i] = orders[i]
      /\ taker' = taker /\ book' \subseteq book /\ (met.state = "Filled" => m \notin book')
  BY DEF Filling
<1>2. \A i \in DOMAIN orders : /\ orders[i].acc \in Nat /\ orders[i].value \in Nat
                               /\ orders[i].req = RequestOf(placed[i])
  BY DEF EngineSound, Sound
<1>3. item.amount \in Nat /\ item.price \in Nat /\ v \in Nat
  BY DEF Filling, M!Item
<1>4. /\ full.acc = orders[taker].acc + item.amount
      /\ full.value = orders[taker].value + v
      /\ met.acc = orders[m].acc + item.amount
      /\ met.value = orders[m].value + v
      /\ full.told = "" /\ orders[taker].told = ""
      /\ orders[m].told \in {"submitted", "partial-filled"}
      /\ met.told \in {"filled", "partial-filled"}
      /\ met.state # "Filled" => met.told = "partial-filled"
      /\ Sound(full, orders[taker].req) /\ Sound(met, orders[m].req)
  BY <1>1 DEF Filling, EngineSound
<1> HIDE DEF v
<1>5. /\ full.acc \in Nat /\ orders[taker].acc <= full.acc
       /\ full.value \in Nat /\ orders[taker].value <= full.value
       /\ met.acc \in Nat /\ orders[m].acc <= met.acc
       /\ met.value \in Nat /\ orders[m].value <= met.value
  <2>1. /\ full.acc = orders[taker].acc + item.amount /\ full.value = orders[taker].value + v
        /\ met.acc = orders[m].acc + item.amount /\ met.value = orders[m].value + v
    BY <1>4
  <2>2. /\ orders[taker].acc \in Nat /\ orders[taker].value \in Nat
        /\ orders[m].acc \in Nat /\ orders[m].value \in Nat
    BY <1>1, <1>2
  <2>3. QED
    BY <1>3, <2>1, <2>2, MoreThanBefore
<1>6. orders[m].told \notin FinalTold /\ \A n \in Nat : n <= n
  <2>1. orders[m].told \notin FinalTold
    BY <1>4, Zenon DEF FinalTold, CanceledStates
  <2>2. QED
    BY <2>1
<1>7. Grown(orders, orders')
  <2> SUFFICES ASSUME NEW i \in DOMAIN orders
               PROVE /\ orders'[i].acc \in Nat /\ orders'[i].value \in Nat
                     /\ orders[i].acc <= orders'[i].acc
                     /\ orders[i].value <= orders'[i].value
                     /\ orders[i].told \in FinalTold => orders'[i].told = orders[i].told
    BY <1>1, <1>2 DEF Grown
  <2>1. CASE i = m
    BY <1>1, <1>5, <1>6, <2>1
  <2>2. CASE i = taker
    BY <1>1, <1>4, <1>5, <2>2
  <2>3. CASE i # m /\ i # taker
    BY <1>1, <1>2, <1>6, <2>3
  <2>4. QED
    BY <2>1, <2>2, <2>3
<1>8. \A i \in DOMAIN orders' : Sound(orders'[i], RequestOf(placed'[i]))
  BY <1>1, <1>2, <1>4 DEF EngineSound
<1>9. \A i \in book' : /\ orders'[i].state # "Filled"
                       /\ orders'[i].told \in {"submitted", "partial-filled"}
  BY <1>1, <1>4 DEF EngineSound
<1>10. taker' # M!None => taker' \notin book' /\ orders'[taker'].told = ""
  BY <1>1, <1>4 DEF EngineSound
<1>11. QED
  BY <1>1, <1>7, <1>8, <1>9, <1>10 DEF EngineSound

(* The end of a match: the taker is told of, and rests if it is not done.  *)
Closing(new, item) ==
  /\ taker \in DOMAIN orders
  /\ orders' = [orders EXCEPT ![taker] = new]
  /\ items' = Append(items, item) /\ taker' = M!None
  /\ item \in M!Item /\ item.id = taker /\ item.state = new.told
  /\ new.told \in {"submitted", "partial-filled", "filled"}
  /\ new.told = "partial-filled" => new.acc > 0
  /\ new.state = "Filled" => new.told = "filled"
  /\ new.state # "Filled" => new.told # "filled"
  /\ Sound(new, orders[taker].req)
  /\ new.acc = orders[taker].acc /\ new.value = orders[taker].value
  /\ book' = IF new.state = "Filled" THEN book ELSE book \cup {taker}

LEMMA EndIsAClosing ==
  ASSUME WayInv, AllPlain, EngineSound, taker # M!None, M!Finalize(orders[taker]),
         \/ UNCHANGED book /\ M!Finished(orders[taker])
         \/ book' = book \cup {taker} /\ ~M!Finished(orders[taker])
  PROVE  \E new, item : Closing(new, item)
<1> DEFINE o == orders[taker]
           told == M!TakerState(o.req.type, o.state)
           new == Tell(o, told)
           item == M!TakerItem(taker, o)
<1>1. /\ taker \in DOMAIN orders /\ taker \in Ids /\ Plain(o) /\ Sound(o, o.req)
      /\ o.req = RequestOf(placed[taker])
  BY DEF AllPlain, EngineSound, WayInv, Sound
<1>2. /\ orders' = [orders EXCEPT ![taker] = new]
      /\ items' = Append(items, item) /\ taker' = M!None
  BY DEF M!Finalize, Tell
<1>3. told = CASE o.state = "Submitted" -> "submitted"
               [] o.state = "PartialFilled" -> "partial-filled"
               [] o.state = "Filled" -> "filled"
  <2>1. o.req.type = "Limit" /\ o.state \in {"Submitted", "PartialFilled", "Filled"}
    BY <1>1 DEF Plain
  <2> HIDE DEF o
  <2>2. told = M!StateName[o.state]
    BY <2>1 DEF M!TakerState
  <2>3. QED
    BY <2>1, <2>2 DEF M!StateName
<1>4. M!Finished(o) <=> o.state = "Filled"
  BY <1>1 DEF Plain, M!Finished
<1>5. o.req.price \in Nat
  BY <1>1, EngineRequests DEF WayInv, M!Request
<1>6. item = [id |-> taker, role |-> "taker", amount |-> o.unfilled,
              price |-> IF o.req.type = "Market" THEN 0 ELSE o.req.price,
              acc |-> o.acc, value |-> IF o.req.side = "Buy" THEN o.acc ELSE o.value,
              state |-> told]
  BY DEF M!TakerItem
<1> HIDE DEF told, item, o
<1>7. o.unfilled \in Nat /\ o.acc \in Nat /\ o.value \in Nat
  BY <1>1 DEF Sound
<1>8. told \in M!ResultStates
  BY <1>1, <1>3 DEF M!ResultStates, Plain
<1>9. item \in M!Item /\ item.id = taker /\ item.state = told
  BY <1>1, <1>5, <1>6, <1>7, <1>8 DEF M!Item
<1>10. /\ Sound(new, o.req) /\ new.told = told /\ new.state = o.state
       /\ new.acc = o.acc /\ new.value = o.value
  BY <1>1, SoundTold
<1>11. told = "partial-filled" => o.acc > 0
  BY <1>1, <1>3 DEF Sound, Plain
<1>12. book' = IF o.state = "Filled" THEN book ELSE book \cup {taker}
  BY <1>4 DEF o
<1>13. /\ told \in {"submitted", "partial-filled", "filled"}
       /\ o.state = "Filled" => told = "filled"
       /\ o.state # "Filled" => told # "filled"
  BY <1>1, <1>3 DEF Plain
<1> HIDE DEF new
<1>14. Closing(new, item)
  BY <1>1, <1>2, <1>9, <1>10, <1>11, <1>12, <1>13 DEF Closing, o
<1>15. QED
  BY <1>14

LEMMA ClosingSound ==
  ASSUME EngineSound, UNCHANGED placed, NEW new, NEW item, Closing(new, item),
         taker # M!None
  PROVE  Grown(orders, orders') /\ EngineSound'
<1>1. /\ DOMAIN orders' = DOMAIN orders /\ taker \in DOMAIN orders
      /\ orders'[taker] = new /\ taker' = M!None
      /\ \A i \in DOMAIN orders : i # taker => orders'[i] = orders[i]
      /\ book' \subseteq DOMAIN orders
      /\ \A i \in book' : i \in book \/ (i = taker /\ new.state # "Filled")
      /\ orders[taker].told = ""
      /\ taker \notin book
  BY DEF Closing, EngineSound
<1>2. \A i \in DOMAIN orders : /\ orders[i].acc \in Nat /\ orders[i].value \in Nat
                               /\ orders[i].req = RequestOf(placed[i])
  BY DEF EngineSound, Sound
<1>3. /\ new.acc = orders[taker].acc /\ new.value = orders[taker].value
      /\ Sound(new, orders[taker].req)
      /\ new.state # "Filled" => new.told \in {"submitted", "partial-filled"}
  BY DEF Closing
<1>4. \A n \in Nat : n <= n
  OBVIOUS
<1>5. Grown(orders, orders')
  <2>1. "" \notin FinalTold
    BY DEF FinalTold, CanceledStates
  <2>2. QED
    BY <1>1, <1>2, <1>3, <1>4, <2>1 DEF Grown
<1>6. \A i \in DOMAIN orders' : Sound(orders'[i], RequestOf(placed'[i]))
  BY <1>1, <1>2, <1>3 DEF EngineSound
<1>7. \A i \in book' : /\ orders'[i].state # "Filled"
                       /\ orders'[i].told \in {"submitted", "partial-filled"}
  BY <1>1, <1>3 DEF EngineSound
<1>8. QED
  BY <1>1, <1>5, <1>6, <1>7 DEF EngineSound

(* Taking a command: an order the engine has not seen, or a cancellation.  *)
LEMMA TakenIsNew ==
  ASSUME WayInv, Take, Head(channel).kind = "order"
  PROVE  Head(channel).id \in Ids /\ Head(channel).id \notin DOMAIN orders
<1>1. /\ Head(channel) \in Command /\ Pipe # <<>> /\ Head(Pipe) = Head(channel)
      /\ Carries(Pipe, Waiting)
  BY TakeFacts DEF WayInv
<1>2. Head(channel).id \in Waiting
  BY <1>1, CarriesOneLess
<1>3. QED
  BY <1>1, <1>2, CommandFields DEF Waiting

LEMMA StartSound ==
  ASSUME WayInv, EngineSound, UNCHANGED placed, NEW i \in Ids, i \notin DOMAIN orders,
         M!StartMatching(i, RequestOf(placed[i]))
  PROVE  /\ Grown(orders, orders') /\ EngineSound'
         /\ items' = <<>> /\ taker' = i /\ i # M!None
<1> DEFINE r == RequestOf(placed[i])
           o == M!Incoming(r)
<1>1. /\ orders' = [j \in DOMAIN orders \cup {i} |-> IF j = i THEN o ELSE orders[j]]
      /\ taker' = i /\ items' = <<>> /\ book' = book
  BY DEF M!StartMatching, M!Record
<1>2. r.amount \in Nat /\ r.amount > 0
  BY EngineRequests DEF WayInv, M!Request
<1>3. Sound(o, r) /\ o.told = ""
  BY <1>2 DEF Sound, M!Incoming
<1> HIDE DEF o
<1>4. /\ DOMAIN orders' = DOMAIN orders \cup {i} /\ orders'[i] = o
      /\ \A j \in DOMAIN orders : orders'[j] = orders[j]
  BY <1>1
<1>5. \A j \in DOMAIN orders : orders[j].acc \in Nat /\ orders[j].value \in Nat
  BY DEF EngineSound, Sound
<1>6. \A n \in Nat : n <= n
  OBVIOUS
<1>7. Grown(orders, orders')
  BY <1>4, <1>5, <1>6 DEF Grown
<1>8. \A j \in DOMAIN orders' : Sound(orders'[j], RequestOf(placed'[j]))
  BY <1>3, <1>4 DEF EngineSound
<1>9. i # M!None
  BY LedgerAssumption DEF M!None
<1>10. QED
  BY <1>1, <1>3, <1>4, <1>7, <1>8, <1>9 DEF EngineSound

(* What a cancellation reports: of an order that rests, what it then is.   *)
Canceling(i, item) ==
  /\ items' = <<item>> /\ item \in M!Item /\ item.id = i
  /\ UNCHANGED taker
  /\ item.state # "failed" =>
       i \in DOMAIN orders' /\ orders'[i].told = item.state
         /\ item.state # "partial-filled"

LEMMA CancelSound ==
  ASSUME WayInv, AllPlain, EngineSound, UNCHANGED placed, taker = M!None,
         NEW i \in Ids, M!Cancel(0, i)
  PROVE  /\ Grown(orders, orders') /\ EngineSound'
         /\ \E item : Canceling(i, item)
<1> DEFINE item == M!CancelItem(i, i \in book)
           told == M!CancelState(orders[i].state)
           new == Tell(orders[i], told)
<1>1. /\ items' = <<item>> /\ book' = book \ {i} /\ UNCHANGED taker
      /\ orders' = IF i \in book THEN [orders EXCEPT ![i] = new] ELSE orders
  BY DEF M!Cancel, Tell
<1>2. \A j \in DOMAIN orders : orders[j].acc \in Nat /\ orders[j].value \in Nat
  BY DEF EngineSound, Sound
<1>3. \A n \in Nat : n <= n
  OBVIOUS
<1>4. CASE i \notin book
  <2>1. orders' = orders /\ book' = book
    BY <1>1, <1>4
  <2>2. Grown(orders, orders')
    BY <2>1, GrownWhenUnchanged
  <2>3. EngineSound'
    BY <1>1, <2>1 DEF EngineSound
  <2>4. item = [id |-> i, role |-> "taker", amount |-> 0, price |-> 0, acc |-> 0,
                value |-> 0, state |-> "failed"]
    BY <1>4 DEF M!CancelItem
  <2> HIDE DEF item
  <2>5. item \in M!Item /\ item.id = i /\ item.state = "failed"
    BY <2>4 DEF M!Item, M!ResultStates
  <2>6. Canceling(i, item)
    BY <1>1, <2>5 DEF Canceling
  <2>7. QED
    BY <2>2, <2>3, <2>6
<1>5. CASE i \in book
  <2>1. /\ i \in DOMAIN orders /\ Plain(orders[i])
        /\ Sound(orders[i], RequestOf(placed[i]))
        /\ orders[i].state # "Filled" /\ orders[i].told \notin FinalTold
    BY <1>5 DEF EngineSound, AllPlain, FinalTold, CanceledStates
  <2>2. told \in CanceledStates /\ told \in M!ResultStates /\ told # "partial-filled"
    BY <2>1 DEF Plain, M!CancelState, CanceledStates, M!ResultStates
  <2>3. item = [id |-> i, role |-> "taker", amount |-> orders[i].unfilled,
                price |-> 0, acc |-> 0, value |-> 0, state |-> told]
    BY <1>5 DEF M!CancelItem
  <2>4. item \in M!Item /\ item.id = i /\ item.state = told
    BY <2>1, <2>2, <2>3 DEF M!Item, Sound
  <2>5. /\ Sound(new, RequestOf(placed[i])) /\ new.told = told
        /\ new.acc = orders[i].acc /\ new.value = orders[i].value
    BY <2>1, SoundTold
  <2> HIDE DEF item, told, new
  <2>6. /\ DOMAIN orders' = DOMAIN orders /\ orders'[i] = new
        /\ \A j \in DOMAIN orders : j # i => orders'[j] = orders[j]
    BY <1>1, <1>5, <2>1
  <2>7. Grown(orders, orders')
    BY <1>2, <1>3, <2>1, <2>5, <2>6 DEF Grown
  <2>8. \A j \in DOMAIN orders' : Sound(orders'[j], RequestOf(placed'[j]))
    BY <2>5, <2>6 DEF EngineSound
  <2>9. EngineSound'
    BY <1>1, <2>6, <2>8 DEF EngineSound
  <2>10. Canceling(i, item)
    BY <1>1, <2>1, <2>2, <2>4, <2>5, <2>6 DEF Canceling
  <2>11. QED
    BY <2>7, <2>9, <2>10
<1>6. QED
  BY <1>4, <1>5

-----------------------------------------------------------------------------
(* The results of the current command.                                     *)
LEMMA ItemsStay ==
  ASSUME Matched, Reported, UNCHANGED engineVars,
         stage' \in {"record", "settle"} => stage \in {"record", "settle"},
         stage' = "match" => stage = "match", stage' = "record" => stage = "record"
  PROVE  Matched' /\ Reported'
<1>1. UNCHANGED <<items, MakerItems, Subject, orders, taker, book>>
  BY DEF engineVars, MakerItems, Subject
<1>2. Matched'
  BY <1>1 DEF Matched
<1>3. Reported'
  BY <1>1 DEF Reported
<1>4. QED
  BY <1>2, <1>3

LEMMA ItemsOfTake ==
  ASSUME WayInv, AllPlain, EngineSound, UNCHANGED placed, Take
  PROVE  Grown(orders, orders') /\ EngineSound' /\ Matched' /\ Reported'
<1> DEFINE c == Head(channel)
<1>1. c \in Command /\ c.id \in Ids /\ taker = M!None
  BY TakeFacts, CommandFields
<1>2. CASE /\ c.kind = "order"
           /\ M!StartMatching(c.id, RequestOf(placed[c.id]))
           /\ stage' = "match"
  <2>1. c.id \notin DOMAIN orders
    BY <1>2, TakenIsNew
  <2> HIDE DEF c
  <2>2. /\ Grown(orders, orders') /\ EngineSound'
        /\ items' = <<>> /\ taker' = c.id /\ c.id # M!None
    BY <1>1, <1>2, <2>1, StartSound
  <2>3. /\ items' \in Seq(M!Item) /\ items' \in Seq(Makers(orders', taker'))
        /\ DOMAIN items' = {}
    BY <2>2, EmptySeq
  <2>4. Matched'
    BY <1>2, <2>2, <2>3 DEF Matched, Distinct
  <2>5. Reported'
    BY <1>2 DEF Reported
  <2>6. QED
    BY <2>2, <2>4, <2>5
<1>3. CASE /\ c.kind = "cancel"
           /\ M!Cancel(0, c.id)
           /\ stage' = "record"
  <2> HIDE DEF c
  <2>1. /\ Grown(orders, orders') /\ EngineSound'
        /\ \E item : Canceling(c.id, item)
    BY <1>1, <1>3, CancelSound
  <2>2. PICK item : Canceling(c.id, item)
    BY <2>1
  <2>3. /\ items' = Append(<<>>, item) /\ item \in M!Item /\ item.id = c.id
    BY <2>2 DEF Canceling
  <2>4. /\ items' \in Seq(M!Item) /\ items' # <<>>
        /\ Front(items') = <<>> /\ Last(items') = item
    BY <2>3, FrontOfAppend, EmptySeq
  <2>5. MakerItems' = <<>> /\ Subject' = c.id
    BY <2>3, <2>4 DEF MakerItems, Subject
  <2>6. Distinct(MakerItems') /\ MakerItems' \in Seq(Makers(orders', Subject'))
    BY <2>5, EmptySeq DEF Distinct
  <2>7. Matched'
    BY <1>3, <2>4, <2>6 DEF Matched
  <2>8. Reported'
    BY <2>2, <2>4, <2>5 DEF Reported, Canceling
  <2>9. QED
    BY <2>1, <2>7, <2>8
<1>4. QED
  BY <1>2, <1>3 DEF Take

LEMMA FillingBacks ==
  ASSUME EngineSound, NEW m, NEW full, NEW met, NEW item,
         Filling(m, full, met, item)
  PROVE  item \in Makers(orders', taker)
<1> DEFINE v == item.price * item.amount
<1>1. item.amount \in Nat /\ item.price \in Nat /\ v \in Nat
      /\ item.amount * item.price = v
  BY DEF Filling, M!Item
<1>2. /\ m # taker /\ m \in DOMAIN orders' /\ taker \in DOMAIN orders'
      /\ orders'[m] = met /\ orders'[taker] = full
      /\ item \in M!Item /\ item.id = m /\ item.amount > 0
      /\ item.state \in {"filled", "partial-filled"} /\ met.told = item.state
      /\ full.acc = orders[taker].acc + item.amount
      /\ full.value = orders[taker].value + v
      /\ met.acc = orders[m].acc + item.amount
      /\ met.value = orders[m].value + v
  BY <1>1 DEF Filling
<1>3. /\ orders[taker].acc \in Nat /\ orders[taker].value \in Nat
      /\ orders[m].acc \in Nat /\ orders[m].value \in Nat
  BY DEF EngineSound, Sound, Filling
<1> HIDE DEF v
<1>4. /\ item.amount <= full.acc /\ v <= full.value
      /\ item.amount <= met.acc /\ v <= met.value
  BY <1>1, <1>2, <1>3
<1>5. Backs(orders', {m, taker}, item.price, item.amount)
  BY <1>2, <1>4 DEF Backs, v
<1>6. QED
  BY <1>2, <1>5 DEF Makers, MakerOf

LEMMA DistinctAppend ==
  ASSUME NEW S, NEW q \in Seq(S), NEW e \in S, Distinct(q),
         \A k \in DOMAIN q : q[k].id # e.id
  PROVE  Distinct(Append(q, e))
<1> DEFINE n == Len(q) + 1
           a == Append(q, e)
<1>1. /\ Len(q) \in Nat /\ DOMAIN q = 1 .. Len(q) /\ DOMAIN a = 1 .. n
      /\ a[n] = e /\ \A k \in 1 .. Len(q) : a[k] = q[k]
  BY AppendProperties, LenProperties
<1>2. \A k \in 1 .. n : k = n \/ k \in 1 .. Len(q)
  BY <1>1
<1> HIDE DEF n, a
<1>3. Distinct(a)
  BY <1>1, <1>2 DEF Distinct
<1>4. QED
  BY <1>3 DEF a

LEMMA ItemsOfFilling ==
  ASSUME AllPlain, EngineSound, Matched, stage = "match", stage' = "match",
         NEW m, NEW full, NEW met, NEW item, Filling(m, full, met, item),
         Grown(orders, orders')
  PROVE  Matched' /\ Reported'
<1>1. /\ items \in Seq(Makers(orders, taker)) /\ Distinct(items) /\ taker # M!None
      /\ items \in Seq(M!Item)
      /\ \A k \in DOMAIN items : items[k].id \notin book
  BY DEF Matched, Filling
<1>2. /\ m \in book /\ item.id = m /\ item \in M!Item
      /\ items' = Append(items, item) /\ taker' = taker
      /\ orders'[taker] = full /\ book' \subseteq book
      /\ met.state = "Filled" => m \notin book'
      /\ full.state = "Filled" \/ met.state = "Filled"
  BY DEF Filling
<1>3. items \in Seq(Makers(orders', taker))
  BY <1>1, MakersGrow, SeqMonotonic
<1>4. items' \in Seq(Makers(orders', taker)) /\ items' \in Seq(M!Item)
  BY <1>1, <1>2, <1>3, FillingBacks, AppendProperties
<1>5. Distinct(items')
  BY <1>1, <1>2, DistinctAppend
<1>6. /\ DOMAIN items = 1 .. Len(items) /\ DOMAIN items' = 1 .. Len(items) + 1
      /\ Len(items) \in Nat /\ items'[Len(items) + 1] = item
      /\ \A k \in 1 .. Len(items) : items'[k] = items[k]
  BY <1>1, <1>2, AppendProperties, LenProperties
<1>7. \A k \in 1 .. Len(items) + 1 : k = Len(items) + 1 \/ k \in 1 .. Len(items)
  BY <1>6
<1>8. orders'[taker].state # "Filled" =>
        \A k \in DOMAIN items' : items'[k].id \notin book'
  BY <1>1, <1>2, <1>6, <1>7
<1>9. QED
  BY <1>1, <1>2, <1>4, <1>5, <1>8 DEF Matched, Reported

LEMMA ItemsOfClosing ==
  ASSUME EngineSound, Matched, stage = "match", stage' = "record",
         NEW new, NEW item, Closing(new, item), Grown(orders, orders')
  PROVE  Matched' /\ Reported'
<1>1. /\ items \in Seq(Makers(orders, taker)) /\ Distinct(items)
      /\ items \in Seq(M!Item)
  BY DEF Matched
<1>2. /\ items' = Append(items, item) /\ item \in M!Item /\ item.id = taker
      /\ taker \in DOMAIN orders' /\ orders'[taker] = new /\ item.state = new.told
      /\ new.told = "partial-filled" => new.acc > 0
  BY DEF Closing
<1>3. /\ items' \in Seq(M!Item) /\ items' # <<>>
      /\ Front(items') = items /\ Last(items') = item
  BY <1>1, <1>2, FrontOfAppend
<1>4. MakerItems' = items /\ Subject' = taker
  BY <1>2, <1>3 DEF MakerItems, Subject
<1>5. items \in Seq(Makers(orders', taker))
  BY <1>1, MakersGrow, SeqMonotonic
<1>6. Matched'
  BY <1>1, <1>3, <1>4, <1>5 DEF Matched
<1>7. Reported'
  BY <1>2, <1>3, <1>4 DEF Reported
<1>8. QED
  BY <1>6, <1>7

LEMMA ItemsOfMatch ==
  ASSUME WayInv, AllPlain, EngineSound, Matched, UNCHANGED placed, Match
  PROVE  /\ Grown(orders, orders') /\ EngineSound' /\ Matched' /\ Reported'
         /\ taker # M!None
         /\ \/ stage' = "match" /\ UNCHANGED taker
            \/ stage' = "record" /\ Subject' = taker
<1>1. /\ stage = "match" /\ M!MatchStep
      /\ stage' = IF taker' = M!None THEN "record" ELSE "match"
  BY DEF Match
<1>2. taker # M!None /\ taker \in DOMAIN orders
  BY <1>1, StepsOfAMatch
<1>3. ASSUME NEW new, NEW item, Closing(new, item)
      PROVE  /\ Grown(orders, orders') /\ EngineSound' /\ Matched' /\ Reported'
             /\ stage' = "record" /\ Subject' = taker
  <2>1. Grown(orders, orders') /\ EngineSound'
    BY <1>2, <1>3, ClosingSound
  <2>2. stage' = "record"
    BY <1>1, <1>3 DEF Closing
  <2>3. Matched' /\ Reported'
    BY <1>1, <1>3, <2>1, <2>2, ItemsOfClosing
  <2>4. /\ items' = Append(items, item) /\ item \in M!Item /\ item.id = taker
        /\ items \in Seq(M!Item)
    BY <1>3 DEF Closing, Matched
  <2>5. Last(items') = item
    BY <2>4, FrontOfAppend
  <2>6. QED
    BY <2>1, <2>2, <2>3, <2>4, <2>5 DEF Subject
<1>4. ASSUME NEW m \in book, M!Fill(m)
      PROVE  /\ Grown(orders, orders') /\ EngineSound' /\ Matched' /\ Reported'
             /\ stage' = "match" /\ UNCHANGED taker
  <2>1. PICK full, met, item : Filling(m, full, met, item)
    BY <1>2, <1>4, FillIsAFilling
  <2>2. Grown(orders, orders') /\ EngineSound'
    BY <1>2, <2>1, FillSound
  <2>3. stage' = "match" /\ UNCHANGED taker
    BY <1>1, <1>2, <2>1 DEF Filling
  <2>4. QED
    BY <1>1, <2>1, <2>2, <2>3, ItemsOfFilling
<1>5. ASSUME UNCHANGED <<orders, book, taker, items>>
      PROVE  /\ Grown(orders, orders') /\ EngineSound' /\ Matched' /\ Reported'
             /\ stage' = "match" /\ UNCHANGED taker
  <2>1. stage' = "match"
    BY <1>1, <1>2, <1>5
  <2>2. UNCHANGED <<MakerItems, Subject>>
    BY <1>5 DEF MakerItems, Subject
  <2>3. Matched' /\ Reported'
    BY <1>1, <1>5, <2>1, <2>2 DEF Matched, Reported
  <2>4. EngineSound'
    BY <1>5 DEF EngineSound
  <2>5. QED
    BY <1>5, <2>1, <2>3, <2>4, GrownWhenUnchanged
<1>6. QED
  BY <1>1, <1>2, <1>3, <1>4, <1>5, StepsOfAMatch, EndIsAClosing

(* Every other step leaves the engine alone, and the matcher goroutine     *)
(* goes on to record, to settle and to take.                               *)
LEMMA EngineRests ==
  ASSUME [Next]_vars, ~Take, ~Match, JobInv
  PROVE  /\ UNCHANGED engineVars
         /\ stage' \in {"record", "settle"} => stage \in {"record", "settle"}
         /\ stage' = "match" => stage = "match"
         /\ stage' = "record" => stage = "record"
<1>1. CASE \E i \in Ids : Client(i) /\ UNCHANGED <<settleVars, cancelVars>>
  BY <1>1 DEF Client, PostOrder, RecordSubmit, matcherVars
<1>2. CASE EventLoop /\ UNCHANGED <<settleVars, cancelVars>>
  BY <1>2 DEF EventLoop, Receive, Send, Complete, matcherVars
<1>3. CASE RecordMatch
  BY <1>3 DEF RecordMatch
<1>4. CASE SettlePair("matcher") \/ SettlePair("retry")
  <2>1. UNCHANGED poolVars
    BY <1>4, SettlePairKeeps DEF Settlers
  <2>2. QED
    BY <2>1 DEF poolVars, matcherVars
<1>5. CASE StartItem \/ FinishItem \/ RetryRound \/ RetryStart \/ RetryFinish
  <2>1. UNCHANGED engineVars
    BY <1>5 DEF StartItem, FinishItem, RetryRound, RetryStart, RetryFinish, poolVars
  <2>2. UNCHANGED stage \/ stage' = "take"
    BY <1>5 DEF StartItem, FinishItem, RetryRound, RetryStart, RetryFinish,
                poolVars, matcherVars
  <2>3. QED
    BY <2>1, <2>2
<1>6. CASE \E i \in Ids : CancelHandler(i)
  BY <1>6 DEF CancelHandler, CancelRequest, Refund, CancelOnChain, VerifyCanceled,
              SubmitCancel, poolVars, matcherVars
<1>7. CASE UNCHANGED poolVars
  BY <1>7 DEF poolVars, matcherVars
<1>8. QED
  BY <1>1, <1>2, <1>3, <1>4, <1>5, <1>6, <1>7
     DEF Next, vars, SettleBatch, RetryLoop, MatcherStep

EngineInv == EngineSound /\ Matched /\ Reported

LEMMA EngineGoesOn ==
  ASSUME WayInv, JobInv, AllPlain, EngineInv, [Next]_vars
  PROVE  Grown(orders, orders') /\ EngineInv'
<1>1. UNCHANGED placed
  BY PlacedStays
<1>2. CASE Take
  BY <1>1, <1>2, ItemsOfTake DEF EngineInv
<1>3. CASE Match
  BY <1>1, <1>3, ItemsOfMatch DEF EngineInv
<1>4. CASE ~Take /\ ~Match
  <2>1. /\ UNCHANGED engineVars
        /\ stage' \in {"record", "settle"} => stage \in {"record", "settle"}
        /\ stage' = "match" => stage = "match"
        /\ stage' = "record" => stage = "record"
    BY <1>4, EngineRests
  <2>2. Matched' /\ Reported'
    BY <2>1, ItemsStay DEF EngineInv
  <2>3. UNCHANGED <<orders, book, taker>>
    BY <2>1 DEF engineVars
  <2>4. EngineSound'
    BY <1>1, <2>3 DEF EngineInv, EngineSound
  <2>5. Grown(orders, orders')
    BY <2>3, GrownWhenUnchanged DEF EngineInv
  <2>6. QED
    BY <2>2, <2>4, <2>5 DEF EngineInv
<1>5. QED
  BY <1>2, <1>3, <1>4

-----------------------------------------------------------------------------
(* The records.                                                            *)
LEMMA TotalIsNatural ==
  ASSUME NEW X, MakerItems \in Seq(X), \A it \in X : it.amount \in Nat
  PROVE  MatchedTotal \in Nat
<1> DEFINE S == DOMAIN MakerItems
           f == [k \in S |-> MakerItems[k].amount]
           x(s) == CHOOSE k \in s : TRUE
           it == CHOOSE it : it = [s \in SUBSET S |->
                   IF s = {} THEN 0 ELSE MakerItems[x(s)].amount + it[s \ {x(s)}]]
           t == [s \in SUBSET S |-> Total(f, s)]
<1>1. S = 1 .. Len(MakerItems) /\ IsFiniteSet(S) /\ \A k \in S : MakerItems[k] \in X
  BY LenProperties, FS_Interval, ElementOfSeq
<1>2. f \in [S -> Nat]
  BY <1>1
<1>3. \A s \in SUBSET S : s # {} => x(s) \in S /\ f[x(s)] = MakerItems[x(s)].amount
  OBVIOUS
<1>4. t = [s \in SUBSET S |-> SumStep(f, t, s)]
  <2> HIDE DEF S, f
  <2>1. IsFold(f, S, Totals(f, S)) /\ t = Totals(f, S)
    BY <1>1, <1>2, TotalIsAFold DEF Totals
  <2>2. QED
    BY <2>1 DEF IsFold, Totals
<1>5. t = [s \in SUBSET S |->
             IF s = {} THEN 0 ELSE MakerItems[x(s)].amount + t[s \ {x(s)}]]
  <2> HIDE DEF f, t
  <2>1. \A s \in SUBSET S : SumStep(f, t, s) =
          IF s = {} THEN 0 ELSE MakerItems[x(s)].amount + t[s \ {x(s)}]
    BY <1>3 DEF SumStep
  <2>2. QED
    BY <1>4, <2>1
<1>6. it = [s \in SUBSET S |->
              IF s = {} THEN 0 ELSE MakerItems[x(s)].amount + it[s \ {x(s)}]]
  <2> HIDE DEF t
  <2>1. QED
    BY <1>5
<1>7. MatchedTotal = it[S]
  BY DEF MatchedTotal, FoldSeq, FoldFunction, FoldFunctionOnSet, MapThenFoldSet
<1>8. it = [s \in SUBSET S |-> SumStep(f, it, s)]
  <2> HIDE DEF f, it
  <2>1. \A s \in SUBSET S : SumStep(f, it, s) =
          IF s = {} THEN 0 ELSE MakerItems[x(s)].amount + it[s \ {x(s)}]
    BY <1>3 DEF SumStep
  <2>2. QED
    BY <1>6, <2>1
<1>9. it[S] = Total(f, S)
  <2>1. IsFold(f, S, it)
    BY <1>8 DEF IsFold
  <2> HIDE DEF f, it, S
  <2>2. QED
    BY <1>1, <1>2, <2>1, FoldIsTotal
<1>10. Total(f, S) \in Nat
  <2> HIDE DEF f, S
  <2>1. S \in SUBSET S
    OBVIOUS
  <2>2. QED
    BY <1>1, <1>2, <2>1, TotalOfPart
<1>11. QED
  BY <1>7, <1>9, <1>10

StatusSound(i, status) ==
  /\ status = "filled" => i \in DOMAIN orders /\ orders[i].told = "filled"
  /\ status = "partial" => i \in DOMAIN orders /\ orders[i].acc > 0
  /\ status = "canceled" => i \in DOMAIN orders /\ orders[i].told \in CanceledStates

LEMMA RecordsGrow ==
  ASSUME EngineSound, RecordsSound, Grown(orders, orders'),
         NEW i \in Ids, records'[i] = records[i]
  PROVE  Backed(i)'
<1>1. Backed(i)
  BY DEF RecordsSound
<1>2. i \in DOMAIN orders =>
        /\ i \in DOMAIN orders' /\ orders[i].acc \in Nat /\ orders'[i].acc \in Nat
        /\ orders[i].acc > 0 => orders'[i].acc > 0
        /\ orders[i].told \in FinalTold => orders'[i].told = orders[i].told
  BY DEF Grown
<1>3. QED
  BY <1>1, <1>2 DEF Backed, FinalTold

LEMMA StatusOfSound ==
  ASSUME NEW i \in Ids, NEW state,
         state \in {"filled", "canceled", "partial-canceled"} =>
            i \in DOMAIN orders /\ orders[i].told = state,
         state = "partial-filled" => i \in DOMAIN orders /\ orders[i].acc > 0
  PROVE  StatusOf(state) \in RecordStatuses /\ StatusSound(i, StatusOf(state))
BY DEF StatusOf, StatusSound, RecordStatuses, CanceledStates

LEMMA RecordsOfMatch ==
  ASSUME EngineInv, RecordsSound, RecordMatch
  PROVE  RecordsSound'
<1>1. /\ stage = "record" /\ UNCHANGED engineVars /\ UNCHANGED orders
  BY DEF RecordMatch, engineVars
<1>2. /\ items \in Seq(M!Item) /\ items # <<>>
      /\ MakerItems \in Seq(Makers(orders, Subject))
  BY <1>1 DEF EngineInv, Matched
<1>3. \A it \in Makers(orders, Subject) :
        /\ it.amount \in Nat
        /\ it.id \in DOMAIN orders /\ orders[it.id].acc > 0
        /\ it.state \in {"filled", "partial-filled"}
        /\ it.state = "filled" => orders[it.id].told = "filled"
  <2> SUFFICES ASSUME NEW it \in M!Item, MakerOf(orders, it, Subject)
               PROVE  /\ it.amount \in Nat
                      /\ it.id \in DOMAIN orders /\ orders[it.id].acc > 0
                      /\ it.state \in {"filled", "partial-filled"}
                      /\ it.state = "filled" => orders[it.id].told = "filled"
    BY DEF Makers
  <2>1. it.amount \in Nat /\ it.amount > 0
    BY DEF M!Item, MakerOf
  <2>2. it.id \in DOMAIN orders /\ it.amount <= orders[it.id].acc
    BY DEF MakerOf, Backs
  <2>3. orders[it.id].acc \in Nat
    BY <2>2 DEF EngineInv, EngineSound, Sound
  <2>4. orders[it.id].acc > 0
    BY <2>1, <2>2, <2>3
  <2>5. QED
    BY <2>1, <2>2, <2>4 DEF MakerOf
<1>4. MatchedTotal \in Nat
  BY <1>2, <1>3, TotalIsNatural
<1>5. Last(items).state = "failed" \/
        /\ orders[Subject].told = Last(items).state /\ Subject \in DOMAIN orders
        /\ Last(items).state = "partial-filled" => orders[Subject].acc > 0
  BY <1>1 DEF EngineInv, Reported
<1>6. CASE UNCHANGED records
  <2>1. \A i \in Ids : Backed(i)
    BY DEF RecordsSound
  <2>2. \A i \in Ids : Backed(i)'
    BY <1>1, <1>6, <2>1 DEF Backed
  <2>3. QED
    BY <1>6, <2>2 DEF RecordsSound
<1>7. CASE records[Subject] # NoRecord
  <2> DEFINE made(i) == {k \in DOMAIN MakerItems : MakerItems[k].id = i}
             item(i) == MakerItems[CHOOSE k \in made(i) : TRUE]
             own == [status |-> StatusOf(Last(items).state), filled |-> MatchedTotal]
             noted(i) == CASE i = Subject -> own
                           [] made(i) # {} /\ records[i] # NoRecord ->
                                [status |-> StatusOf(item(i).state), filled |-> item(i).amount]
                           [] OTHER -> records[i]
  <2>1. records' = [i \in Ids |-> noted(i)]
    BY <1>7 DEF RecordMatch
  <2>2. ASSUME NEW i \in Ids
        PROVE  /\ noted(i) \in [status: RecordStatuses, filled: Nat]
               /\ noted(i) = records[i] \/ StatusSound(i, noted(i).status)
    <3>1. CASE i = Subject
      <4>1. StatusOf(Last(items).state) \in RecordStatuses
            /\ StatusSound(i, StatusOf(Last(items).state))
        BY <1>5, <3>1, StatusOfSound
      <4>2. noted(i) = own
        <5>1. \A k \in DOMAIN MakerItems : MakerItems[k].id # Subject
          <6>1. \A k \in DOMAIN MakerItems : MakerItems[k] \in Makers(orders, Subject)
            BY <1>2, LenProperties, ElementOfSeq
          <6>2. QED
            BY <6>1 DEF Makers, MakerOf
        <5>2. made(i) = {}
          BY <3>1, <5>1
        <5> HIDE DEF own, item, made
        <5>3. QED
          BY <3>1, <5>2
      <4>3. QED
        BY <1>4, <4>1, <4>2
    <3>2. CASE i # Subject /\ made(i) # {} /\ records[i] # NoRecord
      <4>1. item(i) \in Makers(orders, Subject) /\ item(i).id = i
        <5>1. (CHOOSE k \in made(i) : TRUE) \in made(i)
          BY <3>2
        <5>2. \A k \in made(i) :
                MakerItems[k] \in Makers(orders, Subject) /\ MakerItems[k].id = i
          BY <1>2, LenProperties, ElementOfSeq
        <5> HIDE DEF made
        <5>3. QED
          BY <5>1, <5>2
      <4>2. noted(i) = [status |-> StatusOf(item(i).state), filled |-> item(i).amount]
        BY <3>2
      <4> HIDE DEF item, made, noted
      <4>3. StatusOf(item(i).state) \in RecordStatuses
            /\ StatusSound(i, StatusOf(item(i).state))
        BY <1>3, <4>1, StatusOfSound
      <4>4. item(i).amount \in Nat
        BY <1>3, <4>1
      <4>5. QED
        BY <4>2, <4>3, <4>4
    <3>3. CASE i # Subject /\ ~(made(i) # {} /\ records[i] # NoRecord)
      <4>1. noted(i) = records[i]
        BY <3>3
      <4>2. records[i] \in [status: RecordStatuses, filled: Nat]
        BY DEF RecordsSound
      <4>3. QED
        BY <4>1, <4>2
    <3>4. QED
      BY <3>1, <3>2, <3>3
  <2> HIDE DEF noted
  <2>3. records' \in [Ids -> [status: RecordStatuses, filled: Nat]]
    BY <2>1, <2>2
  <2>4. ASSUME NEW i \in Ids PROVE Backed(i)'
    <3>1. records'[i] = noted(i)
      BY <2>1
    <3>2. CASE noted(i) = records[i]
      BY <1>1, <3>1, <3>2 DEF RecordsSound, Backed
    <3>3. CASE StatusSound(i, noted(i).status)
      BY <1>1, <3>1, <3>3 DEF Backed, StatusSound
    <3>4. QED
      BY <2>2, <3>2, <3>3
  <2>5. QED
    BY <2>3, <2>4 DEF RecordsSound
<1>8. QED
  BY <1>6, <1>7 DEF RecordMatch

(* No other step notes a match.                                            *)
LEMMA RecordsElsewhere ==
  ASSUME [Next]_vars, ~RecordMatch
  PROVE  UNCHANGED records \/ \E i \in Ids : RecordSubmit(i)
<1>1. CASE \E i \in Ids : Client(i)
  BY <1>1 DEF Client, PostOrder
<1>2. CASE EventLoop \/ Take \/ Match
  BY <1>2 DEF EventLoop, Receive, Send, Complete, Take, Match, recordVars
<1>3. CASE SettlePair("matcher") \/ SettlePair("retry")
  BY <1>3 DEF SettlePair, TransferBase, TransferQuote, Transfer, Settle,
              VerifySettled, poolVars, recordVars
<1>4. CASE StartItem \/ FinishItem \/ RetryRound \/ RetryStart \/ RetryFinish
  BY <1>4 DEF StartItem, FinishItem, RetryRound, RetryStart, RetryFinish, poolVars,
              recordVars
<1>5. CASE \E i \in Ids : CancelHandler(i)
  BY <1>5 DEF CancelHandler, CancelRequest, Refund, CancelOnChain, VerifyCanceled,
              SubmitCancel, poolVars, recordVars
<1>6. CASE UNCHANGED poolVars
  BY <1>6 DEF poolVars, recordVars
<1>7. QED
  BY <1>1, <1>2, <1>3, <1>4, <1>5, <1>6
     DEF Next, vars, SettleBatch, RetryLoop, MatcherStep

LEMMA RecordsGoOn ==
  ASSUME EngineInv, RecordsSound, Grown(orders, orders'), [Next]_vars
  PROVE  RecordsSound'
<1>1. CASE RecordMatch
  BY <1>1, RecordsOfMatch
<1>2. CASE UNCHANGED records
  <2>1. \A i \in Ids : Backed(i)'
    BY <1>2, RecordsGrow DEF EngineInv
  <2>2. QED
    BY <1>2, <2>1 DEF RecordsSound
<1>3. ASSUME NEW i \in Ids, RecordSubmit(i) PROVE RecordsSound'
  <2> DEFINE new == [status |-> "waiting", filled |-> 0]
  <2>1. records' = [records EXCEPT ![i] = new]
    BY <1>3 DEF RecordSubmit
  <2>2. new \in [status: RecordStatuses, filled: Nat] /\ new.status = "waiting"
    BY DEF RecordStatuses
  <2> HIDE DEF new
  <2>3. /\ records' \in [Ids -> [status: RecordStatuses, filled: Nat]]
        /\ records'[i] = new /\ \A j \in Ids : j # i => records'[j] = records[j]
    BY <2>1, <2>2 DEF RecordsSound
  <2>4. \A j \in Ids : j # i => Backed(j)'
    BY <2>3, RecordsGrow DEF EngineInv
  <2>5. Backed(i)'
    BY <2>2, <2>3 DEF Backed
  <2>6. QED
    BY <2>3, <2>4, <2>5 DEF RecordsSound
<1>4. QED
  BY <1>1, <1>2, <1>3, RecordsElsewhere

-----------------------------------------------------------------------------
(* The trades and the settlers.                                            *)
LEMMA MarkIs ==
  ASSUME NEW S, NEW T, trades \in Seq(S), NEW m, NEW status,
         \A t \in S : IF t.maker = m THEN [t EXCEPT !.status = status] \in T ELSE t \in T
  PROVE  Mark(m, status) \in Seq(T)
<1>1. /\ DOMAIN trades = 1 .. Len(trades) /\ Len(trades) \in Nat
      /\ \A k \in 1 .. Len(trades) : trades[k] \in S
  BY LenProperties, ElementOfSeq
<1>2. Mark(m, status) \in [1 .. Len(trades) -> T]
  BY <1>1 DEF Mark
<1>3. QED
  BY <1>1, <1>2, SeqDef

LEMMA TradeMarked ==
  ASSUME NEW t \in Trade, NEW status \in SettleStatuses
  PROVE  LET n == [t EXCEPT !.status = status] IN
         /\ n \in Trade /\ n.maker = t.maker /\ n.taker = t.taker /\ n.status = status
         /\ Pair(n) = Pair(t)
         /\ t \in SoundTrades => n \in SoundTrades
<1> DEFINE n == [t EXCEPT !.status = status]
<1>1. /\ n \in Trade /\ n.maker = t.maker /\ n.taker = t.taker /\ n.status = status
      /\ n.price = t.price /\ n.amount = t.amount
  BY DEF Trade
<1> HIDE DEF n
<1>2. Pair(n) = Pair(t) /\ (t \in SoundTrades => n \in SoundTrades)
  BY <1>1 DEF Pair, SoundTrades
<1>3. QED
  BY <1>1, <1>2 DEF n

LEMMA SeqOfBoth ==
  ASSUME NEW S, NEW T, NEW q, q \in Seq(S), q \in Seq(T) PROVE q \in Seq(S \cap T)
<1>1. /\ Len(q) \in Nat /\ q \in [1 .. Len(q) -> S]
      /\ \A k \in 1 .. Len(q) : q[k] \in S /\ q[k] \in T
  BY LenProperties, ElementOfSeq
<1>2. q \in [1 .. Len(q) -> S \cap T]
  BY <1>1
<1>3. QED
  BY <1>1, <1>2, SeqDef

(* What is said of a maker's status keeps the trades sound.                *)
LEMMA MarkSound ==
  ASSUME trades \in Seq(SoundTrades), NEW m, NEW status \in SettleStatuses
  PROVE  Mark(m, status) \in Seq(SoundTrades)
<1>1. \A t \in SoundTrades : t \in Trade /\ [t EXCEPT !.status = status] \in SoundTrades
  BY TradeMarked DEF SoundTrades
<1>2. QED
  BY <1>1, MarkIs

LEMMA MarkTried ==
  ASSUME trades \in Seq(Tried), NEW m, NEW status \in SettleStatuses \ {"failed"}
  PROVE  Mark(m, status) \in Seq(Tried)
<1>1. ASSUME NEW t \in Tried PROVE [t EXCEPT !.status = status] \in Tried
  <2> DEFINE n == [t EXCEPT !.status = status]
  <2>1. n \in Trade /\ n.status = status /\ Pair(n) = Pair(t) /\ t \in Trade
    BY TradeMarked DEF Tried
  <2> HIDE DEF n
  <2>2. n \in Tried
    BY <2>1 DEF Tried
  <2>3. QED
    BY <2>2 DEF n
<1>2. QED
  BY <1>1, MarkIs

LEMMA NewJobIsSound ==
  ASSUME NEW maker \in Ids, NEW tk \in Ids, maker # tk, NEW p \in Nat, NEW n \in Nat,
         Backs(orders, {maker, tk}, p, n), creds \in Nat
  PROVE  LET j == NewJob(maker, tk, p, n) IN
         j \in SoundJobs /\ j.maker = maker /\ j.taker = tk /\ j # NoJob
<1> DEFINE j == NewJob(maker, tk, p, n)
<1>1. PICK buy \in Ids, sell \in Ids, r \in SUBSET Ids :
        /\ {buy, sell} = {maker, tk}
        /\ j = [step |-> FirstStep(buy, sell), maker |-> maker, taker |-> tk,
                buy |-> buy, sell |-> sell, price |-> p, amount |-> n,
                replaced |-> r, creds |-> creds, out |-> 0, ok |-> FALSE]
  BY DEF NewJob
<1>2. FirstStep(buy, sell) \in Steps
  BY DEF FirstStep, Steps
<1> HIDE DEF j
<1>3. /\ j \in Job /\ j.maker = maker /\ j.taker = tk /\ {j.buy, j.sell} = {maker, tk}
      /\ j.price = p /\ j.amount = n
  BY <1>1, <1>2 DEF Job
<1>4. j # NoJob
  <2>1. j.step \in Steps
    BY <1>3 DEF Job
  <2>2. QED
    BY <2>1 DEF NoJob, Steps
<1>5. j \in SoundJobs
  BY <1>3 DEF SoundJobs
<1>6. QED
  BY <1>3, <1>4, <1>5 DEF j

Moved(j, step, ok, out) == [j EXCEPT !.step = step, !.ok = ok, !.out = out]

LEMMA MovedIsSound ==
  ASSUME NEW j \in SoundJobs, NEW step \in Steps, NEW ok \in BOOLEAN, NEW out \in Nat
  PROVE  /\ Moved(j, step, ok, out) \in SoundJobs
         /\ Moved(j, step, ok, out).maker = j.maker
         /\ Moved(j, step, ok, out).taker = j.taker
         /\ Moved(j, step, ok, out) # NoJob
<1> DEFINE n == Moved(j, step, ok, out)
<1>1. j \in Job
  BY DEF SoundJobs
<1>2. /\ n \in Job /\ n.maker = j.maker /\ n.taker = j.taker /\ n.buy = j.buy
      /\ n.sell = j.sell /\ n.price = j.price /\ n.amount = j.amount
      /\ n.step = step
  BY <1>1 DEF Job, Moved
<1> HIDE DEF n
<1>3. n \in SoundJobs
  BY <1>2 DEF SoundJobs
<1>4. n # NoJob
  BY <1>2 DEF NoJob, Steps
<1>5. QED
  BY <1>2, <1>3, <1>4 DEF n

Step(s, new) ==
  /\ job' = [job EXCEPT ![s] = new]
  /\ new \in SoundJobs /\ new # NoJob
  /\ new.maker = job[s].maker /\ new.taker = job[s].taker

LEMMA GotoIsAStep ==
  ASSUME JobInv, JobsSound, NEW s \in Settlers, job[s] # NoJob,
         NEW step \in Steps, NEW ok \in BOOLEAN, Goto(s, step, ok)
  PROVE  \E new : Step(s, new)
<1> DEFINE new == Moved(job[s], step, ok, job[s].out)
<1>1. job[s] \in SoundJobs /\ job[s].out \in Nat
  BY DEF JobsSound, SoundJobs, Job
<1>2. job' = [job EXCEPT ![s].step = step, ![s].ok = ok]
  BY DEF Goto
<1>3. DOMAIN job = Settlers
  BY DEF JobInv
<1>4. new = [job[s] EXCEPT !.step = step, !.ok = ok]
  BY <1>1 DEF Moved, SoundJobs, Job
<1>5. job' = [job EXCEPT ![s] = [job[s] EXCEPT !.step = step, !.ok = ok]]
  BY <1>2, <1>3
<1>6. Step(s, new)
  <2> HIDE DEF new
  <2>1. job' = [job EXCEPT ![s] = new]
    BY <1>4, <1>5
  <2>2. QED
    BY <1>1, <2>1, MovedIsSound DEF Step, new
<1>7. QED
  BY <1>6

LEMMA ExecuteNumbers ==
  ASSUME nonces \in Nat, NEW t, NEW r, Execute(t, r), ConsumesCredentials(t) => t.out \in Nat
  PROVE  nonces' \in Nat
BY DEF Execute

(* A settlePair is of a settler that has a job.                             *)
LEMMA SettlerHasJob ==
  ASSUME NEW s \in Settlers, SettlePair(s) PROVE job[s] # NoJob
<1>1. CASE TransferBase(s) \/ TransferQuote(s)
  BY <1>1 DEF TransferBase, TransferQuote
<1>2. CASE Settle(s) \/ VerifySettled(s)
  <2>1. At(s, "settle") \/ At(s, "verify")
    BY <1>2 DEF Settle, VerifySettled
  <2>2. QED
    BY <2>1 DEF At, NoJob
<1>3. QED
  BY <1>1, <1>2 DEF SettlePair

LEMMA SettlePairMoves ==
  ASSUME JobInv, JobsSound, Numbers, NEW s \in Settlers, SettlePair(s)
  PROVE  /\ UNCHANGED <<poolVars, retryList>> /\ Numbers'
         /\ \E new : Step(s, new)
<1>1. UNCHANGED poolVars
  BY SettlePairKeeps
<1>2. ASSUME job[s] # NoJob, NEW step, NEW asset, NEW to, NEW amount,
             NEW after \in Steps, Transfer(s, step, asset, to, amount, after)
      PROVE  /\ UNCHANGED retryList /\ Numbers' /\ \E new : Step(s, new)
  <2>1. PICK r \in {"ok", "exists", "err"} :
          /\ Execute(TransferTx(asset, to, amount), r) \/ NotSent(r)
          /\ Goto(s, "report", FALSE) \/ Goto(s, after, FALSE)
    BY <1>2 DEF Transfer
  <2>2. UNCHANGED <<retryList, creds>>
    BY <1>2 DEF Transfer
  <2>3. nonces' \in Nat
    <3>1. ~ConsumesCredentials(TransferTx(asset, to, amount))
      BY DEF ConsumesCredentials, TransferTx
    <3>2. QED
      BY <2>1, <3>1, ExecuteNumbers DEF Numbers, NotSent, ledgerVars
  <2>4. \E new : Step(s, new)
    BY <1>2, <2>1, GotoIsAStep DEF Steps
  <2>5. QED
    BY <2>2, <2>3, <2>4 DEF Numbers
<1>3. CASE TransferBase(s)
  <2>1. StepAfterBase(job[s]) \in Steps
    BY DEF StepAfterBase, Steps
  <2>2. QED
    BY <1>1, <1>2, <1>3, <2>1 DEF TransferBase
<1>4. CASE TransferQuote(s)
  <2>1. "settle" \in Steps
    BY DEF Steps
  <2>2. QED
    BY <1>1, <1>2, <1>4, <2>1 DEF TransferQuote
<1>5. CASE Settle(s)
  <2> DEFINE j == job[s]
             t == SettleTx(j.buy, j.sell, j.price, j.amount, j.creds, nonces + 1)
             step == IF Verifiable(j) THEN "verify" ELSE "report"
             done(r) == ~Verifiable(j) /\ r = "ok"
  <2>1. t.out \in Nat /\ j \in SoundJobs /\ j # NoJob
    BY <1>5 DEF SettleTx, Numbers, Settle, At, NoJob, JobsSound
  <2> HIDE DEF t
  <2>2. PICK r \in {"ok", "exists", "err"}, out \in {0, t.out} :
          /\ Execute(t, r) \/ NotSent(r)
          /\ job' = [job EXCEPT ![s].step = step, ![s].ok = done(r), ![s].out = out]
          /\ creds' = IF done(r) THEN out ELSE creds
    BY <1>5 DEF Settle, t
  <2>3. nonces' \in Nat /\ creds' \in Nat
    BY <2>1, <2>2, ExecuteNumbers DEF Numbers, NotSent, ledgerVars
  <2> DEFINE new == Moved(j, step, done(r), out)
  <2>4. step \in Steps /\ done(r) \in BOOLEAN /\ out \in Nat
    BY <2>1, <2>2 DEF Steps
  <2>5. job' = [job EXCEPT ![s] = new]
    BY <2>2 DEF Moved, JobInv
  <2>6. Step(s, new)
    <3> HIDE DEF new, step, done
    <3>1. /\ new \in SoundJobs /\ new # NoJob
          /\ new.maker = j.maker /\ new.taker = j.taker
      BY <2>1, <2>4, MovedIsSound DEF new
    <3>2. QED
      BY <2>5, <3>1 DEF Step
  <2>7. UNCHANGED retryList
    BY <1>5 DEF Settle
  <2>8. QED
    BY <1>1, <2>3, <2>6, <2>7 DEF Numbers
<1>6. CASE VerifySettled(s)
  <2>1. PICK answer \in BOOLEAN :
          /\ Verify(Verified(job[s]), 1, answer) /\ Goto(s, "report", answer)
          /\ creds' = IF answer /\ job[s].out # 0 THEN job[s].out ELSE creds
    BY <1>6 DEF VerifySettled
  <2>2. job[s] # NoJob
    BY <1>6 DEF VerifySettled, At, NoJob
  <2>3. job[s].out \in Nat
    BY <2>2 DEF JobsSound, SoundJobs, Job
  <2>4. UNCHANGED <<retryList, nonces>>
    BY <1>6, <2>1 DEF VerifySettled, Verify
  <2>5. \E new : Step(s, new)
    BY <2>1, <2>2, GotoIsAStep DEF Steps
  <2>6. QED
    BY <1>1, <2>1, <2>3, <2>4, <2>5 DEF Numbers
<1>7. QED
  BY <1>3, <1>4, <1>5, <1>6 DEF SettlePair

-----------------------------------------------------------------------------
(* The steps of the settlement, and all others.                            *)
SettleInv == Settling /\ Numbers /\ JobsSound /\ TradesSound /\ FirstTried

LEMMA KnownStay ==
  ASSUME Grown(orders, orders'),
         \A p \in ToSettle' : \/ p[2] \notin DOMAIN orders
                              \/ p \in ToSettle /\ (stage' = stage \/ stage # "settle")
  PROVE  /\ SoundTrades \cap Tried \subseteq SoundTrades' \cap Tried'
         /\ SoundTrades \cap Before \subseteq SoundTrades' \cap Before'
<1>1. SoundTrades \subseteq SoundTrades'
  BY SoundTradesGrow
<1>2. \A t \in SoundTrades : t \in Trade /\ Pair(t)[2] \in DOMAIN orders
  BY DEF SoundTrades, Backs, Pair
<1>3. ASSUME NEW t \in SoundTrades, t \in Tried PROVE t \in Tried'
  <2>1. t \in Trade /\ Pair(t)[2] \in DOMAIN orders
        /\ (Pair(t) \in ToSettle => stage = "settle" /\ t.status # "failed")
    BY <1>2, <1>3 DEF Tried
  <2>2. Pair(t) \in ToSettle' => stage' = "settle" /\ t.status # "failed"
    BY <2>1
  <2>3. QED
    BY <2>1, <2>2 DEF Tried, Pair
<1>4. ASSUME NEW t \in SoundTrades, t \in Before PROVE t \in Before'
  <2>1. t \in Trade /\ Pair(t)[2] \in DOMAIN orders /\ Pair(t) \notin ToSettle
    BY <1>2, <1>4 DEF Before
  <2>2. Pair(t) \notin ToSettle'
    BY <2>1
  <2>3. QED
    BY <2>1, <2>2 DEF Before, Pair
<1>5. QED
  BY <1>1, <1>3, <1>4

LEMMA SettlingGoes ==
  ASSUME SettleInv, Grown(orders, orders'), UNCHANGED <<retryList, job>>,
         job["matcher"] # NoJob => UNCHANGED <<items, next>>,
         Settling', Numbers', trades' \in Seq(SoundTrades' \cap Tried'),
         \A p \in ToSettle' : \/ p[2] \notin DOMAIN orders
                              \/ p \in ToSettle /\ (stage' = stage \/ stage # "settle")
  PROVE  SettleInv'
<1>1. retryList \in Seq(SoundTrades \cap Before)
  BY SeqOfBoth DEF SettleInv, TradesSound, FirstTried
<1>2. JobsSound'
  BY SoundJobsGrow DEF SettleInv, JobsSound
<1>3. /\ retryList' \in Seq(SoundTrades' \cap Before')
      /\ SoundTrades' \cap Before' \subseteq SoundTrades'
      /\ SoundTrades' \cap Before' \subseteq Before'
      /\ SoundTrades' \cap Tried' \subseteq SoundTrades'
      /\ SoundTrades' \cap Tried' \subseteq Tried'
  BY <1>1, KnownStay, SeqMonotonic
<1>4. trades' \in Seq(SoundTrades') /\ trades' \in Seq(Tried')
      /\ retryList' \in Seq(SoundTrades') /\ retryList' \in Seq(Before')
  BY <1>3, SeqMonotonic
<1>5. job'["retry"] # NoJob => Pair(job'["retry"]) \notin ToSettle'
  <2> SUFFICES ASSUME job["retry"] # NoJob PROVE Pair(job["retry"]) \notin ToSettle'
    BY DEF Pair
  <2>1. job["retry"] \in SoundJobs /\ Pair(job["retry"]) \notin ToSettle
    BY DEF SettleInv, JobsSound, FirstTried, Settlers
  <2>2. Pair(job["retry"])[2] \in DOMAIN orders
    BY <2>1 DEF SoundJobs, Backs, Pair
  <2>3. QED
    BY <2>1, <2>2
<1>6. job'["matcher"] # NoJob =>
        job'["matcher"].maker = items'[next'].id /\ job'["matcher"].taker = Subject'
  BY DEF SettleInv, FirstTried, Subject
<1>7. QED
  BY <1>2, <1>4, <1>5, <1>6 DEF SettleInv, TradesSound, FirstTried

LEMMA SettlingStays ==
  ASSUME SettleInv, Grown(orders, orders'), UNCHANGED <<trades, retryList, job>>,
         job["matcher"] # NoJob => UNCHANGED <<items, next>>,
         Settling', Numbers',
         \A p \in ToSettle' : \/ p[2] \notin DOMAIN orders
                              \/ p \in ToSettle /\ (stage' = stage \/ stage # "settle")
  PROVE  SettleInv'
<1>1. trades \in Seq(SoundTrades \cap Tried)
  BY SeqOfBoth DEF SettleInv, TradesSound, FirstTried
<1>2. trades' \in Seq(SoundTrades' \cap Tried')
  BY <1>1, KnownStay, SeqMonotonic
<1>3. QED
  BY <1>2, SettlingGoes

(* A command is taken: its order is new to every trade.                    *)
LEMMA SettlingTake ==
  ASSUME WayInv, JobInv, SettleInv, Grown(orders, orders'), Take,
         UNCHANGED <<settleVars, cancelVars>>
  PROVE  SettleInv'
<1> DEFINE c == Head(channel)
<1>1. /\ stage = "take" /\ UNCHANGED <<trades, retryList, job, next, creds, nonces>>
      /\ job["matcher"] = NoJob
  BY DEF Take, settleVars, recordVars, ledgerVars, JobInv
<1>2. next = 1 /\ Settling' /\ Numbers'
  <2>1. stage' \in {"match", "record"}
    BY DEF Take
  <2>2. QED
    BY <1>1, <2>1 DEF SettleInv, Settling, Numbers
<1>3. CASE /\ c.kind = "order"
           /\ M!StartMatching(c.id, RequestOf(placed[c.id]))
           /\ stage' = "match"
  <2>1. c.id \notin DOMAIN orders /\ taker' = c.id
    BY <1>3, TakenIsNew DEF M!StartMatching
  <2>2. ToSettle' = Ids \X {c.id}
    BY <1>3, <2>1 DEF ToSettle
  <2> HIDE DEF c
  <2>3. \A p \in ToSettle' : p[2] \notin DOMAIN orders
    BY <2>1, <2>2
  <2>4. QED
    BY <1>1, <1>2, <2>3, SettlingStays
<1>4. CASE /\ c.kind = "cancel"
           /\ M!Cancel(0, c.id)
           /\ stage' = "record"
  <2>1. c.id \in Ids
    BY TakeFacts, CommandFields
  <2> HIDE DEF c
  <2>2. MakerItems' = <<>>
    <3>1. PICK item : items' = <<item>>
      BY <1>4 DEF M!Cancel
    <3>2. items' = Append(<<>>, item) /\ <<>> \in Seq({item})
      BY <3>1
    <3>3. QED
      BY <3>2, FrontOfAppend DEF MakerItems
  <2>3. ToSettle' = {}
    BY <1>4, <2>2 DEF ToSettle
  <2>4. QED
    BY <1>1, <1>2, <2>3, SettlingStays
<1>5. QED
  BY <1>3, <1>4 DEF Take

LEMMA SettlingMatch ==
  ASSUME WayInv, JobInv, AllPlain, EngineInv, SettleInv, Match,
         UNCHANGED <<settleVars, cancelVars>>
  PROVE  SettleInv'
<1>1. /\ stage = "match"
      /\ UNCHANGED <<trades, retryList, job, next, creds, nonces, placed>>
      /\ job["matcher"] = NoJob
  BY DEF Match, settleVars, recordVars, ledgerVars, JobInv
<1>2. /\ Grown(orders, orders') /\ taker # M!None
      /\ \/ stage' = "match" /\ UNCHANGED taker
         \/ stage' = "record" /\ Subject' = taker
  BY <1>1, ItemsOfMatch DEF EngineInv
<1>3. next = 1 /\ Settling' /\ Numbers'
  BY <1>1, <1>2 DEF SettleInv, Settling, Numbers
<1>4. ToSettle = Ids \X {taker} /\ ToSettle' \subseteq ToSettle
  BY <1>1, <1>2 DEF ToSettle
<1>5. QED
  BY <1>1, <1>2, <1>3, <1>4, SettlingStays

LEMMA SettlingRests ==
  ASSUME SettleInv, EngineInv, Numbers',
         UNCHANGED <<trades, retryList, job, stage, next, engineVars>>
  PROVE  SettleInv'
<1>1. UNCHANGED <<orders, items, taker, Subject, MakerItems>>
  BY DEF engineVars, Subject, MakerItems
<1>2. ToSettle' = ToSettle /\ Settling'
  BY <1>1 DEF ToSettle, Settling, SettleInv
<1>3. Grown(orders, orders')
  BY <1>1, GrownWhenUnchanged DEF EngineInv
<1>4. QED
  BY <1>1, <1>2, <1>3, SettlingStays

(* The trades of a match are sound, and it is settled next.                *)
LEMMA TradesOfMatch ==
  ASSUME MakerItems \in Seq(Makers(orders, Subject)), Subject \in Ids,
         Grown(orders, orders'), stage' = "settle"
  PROVE  [k \in DOMAIN MakerItems |-> TradeOf(MakerItems[k])]
           \in Seq(SoundTrades' \cap Tried')
<1> DEFINE X == SoundTrades' \cap Tried'
<1>1. ASSUME NEW it \in Makers(orders, Subject)
      PROVE  TradeOf(it) \in SoundTrades /\ TradeOf(it).status # "failed"
  <2>1. /\ it \in M!Item /\ it.id # Subject
        /\ Backs(orders, {it.id, Subject}, it.price, it.amount)
    BY <1>1 DEF Makers, MakerOf
  <2>2. /\ TradeOf(it) \in Trade /\ TradeOf(it).maker = it.id
        /\ TradeOf(it).taker = Subject /\ TradeOf(it).price = it.price
        /\ TradeOf(it).amount = it.amount /\ TradeOf(it).status = "pending"
    BY <2>1 DEF TradeOf, Trade, SettleStatuses, M!Item
  <2>3. QED
    BY <2>1, <2>2 DEF SoundTrades
<1>2. \A it \in Makers(orders, Subject) : TradeOf(it) \in X
  <2> SUFFICES ASSUME NEW it \in Makers(orders, Subject) PROVE TradeOf(it) \in X
    OBVIOUS
  <2> DEFINE t == TradeOf(it)
  <2>1. t \in SoundTrades /\ t.status # "failed"
    BY <1>1
  <2> HIDE DEF t
  <2>2. t \in SoundTrades' /\ t \in Trade
    BY <2>1, SoundTradesGrow DEF SoundTrades
  <2>3. t \in Tried'
    BY <2>1, <2>2 DEF Tried
  <2>4. QED
    BY <2>2, <2>3 DEF t
<1> DEFINE q == MakerItems
<1> HIDE DEF X, q
<1>3. /\ DOMAIN q = 1 .. Len(q) /\ Len(q) \in Nat
      /\ \A k \in 1 .. Len(q) : q[k] \in Makers(orders, Subject)
  BY LenProperties, ElementOfSeq DEF q
<1>4. [k \in DOMAIN q |-> TradeOf(q[k])] \in [1 .. Len(q) -> X]
  BY <1>2, <1>3
<1>5. [k \in DOMAIN q |-> TradeOf(q[k])] \in Seq(X)
  BY <1>3, <1>4, SeqDef
<1>6. QED
  BY <1>5 DEF X, q

LEMMA SettlingRecord ==
  ASSUME WayInv, JobInv, EngineInv, SettleInv, RecordMatch,
         UNCHANGED <<settleVars, cancelVars>>
  PROVE  SettleInv'
<1>1. /\ stage = "record" /\ job["matcher"] = NoJob
      /\ UNCHANGED <<engineVars, next, retryList, job, creds, nonces>>
      /\ stage' = IF MakerItems = <<>> THEN "take" ELSE "settle"
  BY DEF RecordMatch, settleVars, ledgerVars, JobInv
<1>2. UNCHANGED <<orders, items, taker, Subject, MakerItems>>
  BY <1>1 DEF engineVars, Subject, MakerItems
<1>3. /\ items \in Seq(M!Item) /\ items # <<>>
      /\ MakerItems \in Seq(Makers(orders, Subject))
  BY <1>1 DEF EngineInv, Matched
<1>4. /\ MakerItems \in Seq(M!Item) /\ Len(MakerItems) = Len(items) - 1
      /\ Len(items) \in Nat \ {0} /\ Subject \in Ids
      /\ \A k \in 1 .. Len(items) - 1 : items[k] \in M!Item
  <2>1. \A k \in 1 .. Len(items) : items[k] \in M!Item
    BY <1>3, ElementOfSeq
  <2>2. /\ MakerItems \in Seq(M!Item) /\ Len(MakerItems) = Len(items) - 1
        /\ Len(items) \in Nat \ {0} /\ Last(items) \in M!Item
    BY <1>3, FrontAndLast DEF MakerItems
  <2>3. QED
    BY <2>1, <2>2 DEF Subject, M!Item
<1>5. Grown(orders, orders') /\ Numbers'
  BY <1>1, <1>2, GrownWhenUnchanged DEF EngineInv, SettleInv, Numbers
<1>6. Settling'
  <2>1. next = 1
    BY <1>1 DEF SettleInv, Settling
  <2>2. MakerItems # <<>> => 1 \in 1 .. Len(items) - 1
    BY <1>4, EmptySeq
  <2>3. QED
    BY <1>1, <1>2, <2>1, <2>2 DEF Settling
<1>7. ToSettle' \subseteq ToSettle
  <2>1. CASE MakerItems = <<>>
    BY <1>1, <2>1 DEF ToSettle
  <2>2. CASE MakerItems # <<>>
    <3>1. ToSettle = Ids \X {Subject}
      BY <1>1, <2>2 DEF ToSettle
    <3>2. next = 1
      BY <1>1 DEF SettleInv, Settling
    <3>3. ToSettle' = {<<items[k].id, Subject>> : k \in 1 .. Len(items) - 1}
      BY <1>1, <1>2, <2>2, <3>2 DEF ToSettle
    <3>4. \A k \in 1 .. Len(items) - 1 : items[k].id \in Ids
      BY <1>4 DEF M!Item
    <3>5. QED
      BY <3>1, <3>3, <3>4
  <2>3. QED
    BY <2>1, <2>2
<1>8. trades' \in Seq(SoundTrades' \cap Tried')
  <2> DEFINE X == SoundTrades' \cap Tried'
             new == [k \in DOMAIN MakerItems |-> TradeOf(MakerItems[k])]
  <2>1. trades \in Seq(X)
    <3>1. trades \in Seq(SoundTrades \cap Tried)
      BY SeqOfBoth DEF SettleInv, TradesSound, FirstTried
    <3>2. SoundTrades \cap Tried \subseteq X
      BY <1>1, <1>5, <1>7, KnownStay
    <3> HIDE DEF X
    <3>3. QED
      BY <3>1, <3>2, SeqMonotonic
  <2>2. new \in Seq(X)
    <3>1. CASE MakerItems = <<>>
      <4>1. new = <<>>
        BY <3>1
      <4>2. QED
        BY <4>1, EmptySeq
    <3>2. CASE MakerItems # <<>>
      BY <1>1, <1>3, <1>4, <1>5, <3>2, TradesOfMatch
    <3>3. QED
      BY <3>1, <3>2
  <2>3. trades' = trades \/ trades' = trades \o new
    BY DEF RecordMatch
  <2> HIDE DEF X, new
  <2>4. trades' \in Seq(X)
    BY <2>1, <2>2, <2>3, ConcatProperties
  <2>5. QED
    BY <2>4 DEF X
<1>9. QED
  BY <1>1, <1>2, <1>5, <1>6, <1>7, <1>8, SettlingGoes

(* A settler begins, goes on with or ends a settlement.                    *)
LEMMA SettlingMoves ==
  ASSUME JobInv, SettleInv, Numbers', UNCHANGED <<stage, next, engineVars>>,
         NEW s \in Settlers, NEW new \in SoundJobs \cup {NoJob},
         job' = [job EXCEPT ![s] = new],
         s = "matcher" /\ new # NoJob =>
           new.maker = items[next].id /\ new.taker = Subject,
         s = "retry" /\ new # NoJob => Pair(new) \notin ToSettle,
         trades' \in Seq(SoundTrades \cap Tried),
         retryList' \in Seq(SoundTrades \cap Before)
  PROVE  SettleInv'
<1>1. UNCHANGED <<orders, items, taker, Subject, MakerItems>>
  BY DEF engineVars, Subject, MakerItems
<1>2. ToSettle' = ToSettle /\ Settling'
  BY <1>1 DEF ToSettle, Settling, SettleInv
<1>3. SoundTrades' = SoundTrades /\ SoundJobs' = SoundJobs
  BY <1>1 DEF SoundTrades, SoundJobs
<1>4. Before' = Before /\ Tried' = Tried
  BY <1>2 DEF Before, Tried, Pair
<1>5. job'[s] = new /\ \A r \in Settlers \ {s} : job'[r] = job[r]
  BY DEF JobInv
<1>6. JobsSound'
  BY <1>3, <1>5 DEF JobsSound, SettleInv
<1>7. TradesSound' /\ trades' \in Seq(Tried') /\ retryList' \in Seq(Before')
  <2>1. /\ SoundTrades \cap Tried \subseteq SoundTrades'
        /\ SoundTrades \cap Tried \subseteq Tried'
        /\ SoundTrades \cap Before \subseteq SoundTrades'
        /\ SoundTrades \cap Before \subseteq Before'
    BY <1>3, <1>4
  <2>2. QED
    BY <2>1, SeqMonotonic DEF TradesSound
<1>8. job'["matcher"] # NoJob =>
        job'["matcher"].maker = items[next].id /\ job'["matcher"].taker = Subject
  <2>1. CASE s = "matcher"
    BY <1>5, <2>1
  <2>2. CASE s # "matcher"
    BY <1>5, <2>2 DEF Settlers, SettleInv, FirstTried
  <2>3. QED
    BY <2>1, <2>2
<1>9. job'["retry"] # NoJob => Pair(job'["retry"]) \notin ToSettle
  <2>1. CASE s = "retry"
    BY <1>5, <2>1
  <2>2. CASE s # "retry"
    BY <1>5, <2>2 DEF Settlers, SettleInv, FirstTried
  <2>3. QED
    BY <2>1, <2>2
<1>10. FirstTried'
  BY <1>1, <1>2, <1>7, <1>8, <1>9, Zenon DEF FirstTried, Pair
<1>11. QED
  BY <1>2, <1>6, <1>7, <1>10 DEF SettleInv

LEMMA ItemToSettle ==
  ASSUME EngineInv, SettleInv, stage = "settle"
  PROVE  /\ items[next] \in M!Item /\ MakerOf(orders, items[next], Subject)
         /\ items[next].id \in Ids /\ Subject \in Ids
         /\ next \in 1 .. Len(items) - 1 /\ Len(items) \in Nat
         /\ Len(MakerItems) = Len(items) - 1
         /\ \A k \in 1 .. Len(items) - 1 :
              k # next => items[k].id # items[next].id
<1>1. /\ items \in Seq(M!Item) /\ items # <<>>
      /\ MakerItems \in Seq(Makers(orders, Subject)) /\ Distinct(MakerItems)
  BY DEF EngineInv, Matched
<1>2. next \in 1 .. Len(items) - 1
  BY DEF SettleInv, Settling
<1>3. /\ Len(MakerItems) = Len(items) - 1 /\ Len(items) \in Nat
      /\ Last(items) \in M!Item
      /\ \A k \in 1 .. Len(items) - 1 : MakerItems[k] = items[k]
  BY <1>1, FrontAndLast DEF MakerItems
<1>4. items[next] \in Makers(orders, Subject)
  BY <1>1, <1>2, <1>3, ElementOfSeq
<1>5. DOMAIN MakerItems = 1 .. Len(items) - 1
  BY <1>1, <1>3, LenProperties
<1>6. \A k \in 1 .. Len(items) - 1 : k # next => items[k].id # items[next].id
  BY <1>1, <1>2, <1>3, <1>5 DEF Distinct
<1>7. QED
  BY <1>2, <1>3, <1>4, <1>6 DEF Makers, M!Item, Subject

LEMMA SettlingStart ==
  ASSUME JobInv, EngineInv, SettleInv, StartItem
  PROVE  SettleInv'
<1> DEFINE item == items[next]
           new == NewJob(item.id, Subject, item.price, item.amount)
<1>1. /\ stage = "settle" /\ job' = [job EXCEPT !["matcher"] = new]
      /\ trades' = Mark(item.id, "settling")
      /\ UNCHANGED <<stage, next, engineVars, retryList, creds, nonces>>
  BY DEF StartItem, matcherVars, ledgerVars
<1>2. Numbers' /\ creds \in Nat
  BY <1>1 DEF SettleInv, Numbers
<1>3. item \in M!Item /\ MakerOf(orders, item, Subject) /\ item.id \in Ids /\ Subject \in Ids
  BY <1>1, ItemToSettle
<1>4. trades' \in Seq(SoundTrades \cap Tried) /\ retryList' \in Seq(SoundTrades \cap Before)
  <2>1. "settling" \in SettleStatuses \ {"failed"}
    BY DEF SettleStatuses
  <2>2. Mark(item.id, "settling") \in Seq(SoundTrades)
        /\ Mark(item.id, "settling") \in Seq(Tried)
    BY <2>1, MarkSound, MarkTried DEF SettleInv, TradesSound, FirstTried
  <2>3. QED
    BY <1>1, <2>2, SeqOfBoth DEF SettleInv, TradesSound, FirstTried
<1> HIDE DEF item
<1>5. new \in SoundJobs /\ new.maker = item.id /\ new.taker = Subject
  <2>1. item.price \in Nat /\ item.amount \in Nat /\ item.id # Subject
        /\ Backs(orders, {item.id, Subject}, item.price, item.amount)
    BY <1>3 DEF MakerOf, M!Item
  <2>2. QED
    BY <1>2, <1>3, <2>1, NewJobIsSound
<1> HIDE DEF new
<1>6. QED
  BY <1>1, <1>2, <1>4, <1>5, SettlingMoves DEF Settlers, item

LEMMA SettlingFinish ==
  ASSUME JobInv, EngineInv, SettleInv, FinishItem
  PROVE  SettleInv'
<1> DEFINE m == items[next].id
           j == job["matcher"]
<1>1. /\ stage = "settle" /\ j.maker = m
      /\ job' = [job EXCEPT !["matcher"] = NoJob]
      /\ UNCHANGED <<engineVars, retryList, creds, nonces>>
      /\ IF next = Len(MakerItems) THEN stage' = "take" /\ next' = 1
                                   ELSE next' = next + 1 /\ UNCHANGED stage
  <2>1. j # NoJob
    BY DEF FinishItem, At, NoJob
  <2>2. QED
    BY <2>1 DEF FinishItem, JobInv, SettleInv, FirstTried, ledgerVars
<1>2. UNCHANGED <<orders, items, taker, Subject, MakerItems>>
  BY <1>1 DEF engineVars, Subject, MakerItems
<1>3. /\ next \in 1 .. Len(items) - 1 /\ Len(items) \in Nat
      /\ Len(MakerItems) = Len(items) - 1
      /\ \A k \in 1 .. Len(items) - 1 : k # next => items[k].id # m
  BY <1>1, ItemToSettle
<1>4. Settling' /\ Numbers'
  BY <1>1, <1>2, <1>3 DEF Settling, Numbers, SettleInv
<1>5. ToSettle = {<<items[k].id, Subject>> : k \in next .. Len(items) - 1}
  BY <1>1 DEF ToSettle
<1>6. \A p \in ToSettle' : p \in ToSettle /\ p[1] # m /\ stage' = stage
  <2>1. CASE next = Len(MakerItems)
    BY <1>1, <2>1 DEF ToSettle
  <2>2. CASE next # Len(MakerItems)
    <3>1. ToSettle' = {<<items[k].id, Subject>> : k \in next + 1 .. Len(items) - 1}
      BY <1>1, <1>2, <2>2 DEF ToSettle
    <3>2. \A k \in next + 1 .. Len(items) - 1 :
            k \in next .. Len(items) - 1 /\ k \in 1 .. Len(items) - 1 /\ k # next
      BY <1>3
    <3>3. QED
      BY <1>1, <1>3, <1>5, <2>2, <3>1, <3>2
  <2>3. QED
    BY <2>1, <2>2
<1>7. Grown(orders, orders')
  BY <1>2, GrownWhenUnchanged DEF EngineInv
<1>8. /\ SoundTrades \cap Tried \subseteq SoundTrades' \cap Tried'
      /\ SoundTrades \cap Before \subseteq SoundTrades' \cap Before'
  BY <1>6, <1>7, KnownStay
<1>9. PICK status \in SettleStatuses : trades' = Mark(m, status)
  BY <1>1 DEF FinishItem, SettleStatuses
<1>10. trades' \in Seq(SoundTrades' \cap Tried')
  <2>1. ASSUME NEW t \in SoundTrades \cap Tried, t.maker = m
        PROVE  [t EXCEPT !.status = status] \in SoundTrades' \cap Tried'
    <3> DEFINE n == [t EXCEPT !.status = status]
    <3>1. t \in Trade
      BY DEF Tried
    <3>2. n \in Trade /\ n \in SoundTrades /\ n.maker = m
      BY <2>1, <3>1, TradeMarked
    <3> HIDE DEF n
    <3>3. n \in SoundTrades'
      BY <1>7, <3>2, SoundTradesGrow
    <3>4. Pair(n) \notin ToSettle'
      BY <1>6, <3>2 DEF Pair
    <3>5. n \in Tried'
      BY <3>2, <3>4 DEF Tried, Pair
    <3>6. QED
      BY <3>3, <3>5 DEF n
  <2>2. trades \in Seq(SoundTrades \cap Tried)
    BY SeqOfBoth DEF SettleInv, TradesSound, FirstTried
  <2> HIDE DEF m
  <2>3. QED
    BY <1>8, <1>9, <2>1, <2>2, MarkIs
<1>11. retryList' \in Seq(SoundTrades' \cap Before')
  <2>1. retryList \in Seq(SoundTrades \cap Before)
    BY SeqOfBoth DEF SettleInv, TradesSound, FirstTried
  <2>2. QED
    BY <1>1, <1>8, <2>1, SeqMonotonic
<1>12. TradesSound' /\ trades' \in Seq(Tried') /\ retryList' \in Seq(Before')
  <2>1. /\ SoundTrades' \cap Tried' \subseteq SoundTrades'
        /\ SoundTrades' \cap Tried' \subseteq Tried'
        /\ SoundTrades' \cap Before' \subseteq SoundTrades'
        /\ SoundTrades' \cap Before' \subseteq Before'
    OBVIOUS
  <2>2. QED
    BY <1>10, <1>11, <2>1, SeqMonotonic DEF TradesSound
<1>13. job'["matcher"] = NoJob /\ job'["retry"] = job["retry"]
  BY <1>1 DEF JobInv, Settlers
<1>14. JobsSound'
  BY <1>1, <1>7, SoundJobsGrow DEF JobsSound, SettleInv
<1>15. job["retry"] # NoJob => Pair(job["retry"]) \notin ToSettle'
  BY <1>6 DEF SettleInv, FirstTried
<1>16. FirstTried'
  BY <1>12, <1>13, <1>15, Zenon DEF FirstTried, Pair
<1>17. QED
  BY <1>4, <1>12, <1>14, <1>16 DEF SettleInv

LEMMA SettlingRetry ==
  ASSUME JobInv, EngineInv, SettleInv, RetryRound \/ RetryStart \/ RetryFinish
  PROVE  SettleInv'
<1>1. /\ UNCHANGED <<stage, next, engineVars, creds, nonces>>
      /\ Numbers' /\ creds \in Nat
  BY DEF RetryRound, RetryStart, RetryFinish, poolVars, matcherVars, ledgerVars,
         SettleInv, Numbers
<1>2. trades \in Seq(SoundTrades \cap Tried) /\ retryList \in Seq(SoundTrades \cap Before)
  BY SeqOfBoth DEF SettleInv, TradesSound, FirstTried
<1>3. ASSUME NEW m, NEW status \in {"settling", "settled"}
      PROVE  Mark(m, status) \in Seq(SoundTrades \cap Tried)
  <2>1. status \in SettleStatuses \ {"failed"}
    BY DEF SettleStatuses
  <2>2. QED
    BY <2>1, MarkSound, MarkTried, SeqOfBoth DEF SettleInv, TradesSound, FirstTried
<1>4. JobInv /\ job["retry"] \in SoundJobs \cup {NoJob} /\ "retry" \in Settlers
      /\ "retry" # "matcher"
  BY DEF SettleInv, JobsSound, Settlers
<1>5. CASE RetryRound
  <2>1. /\ retryList' = Retryable /\ UNCHANGED <<trades, job>> /\ job["retry"] = NoJob
    BY <1>5 DEF RetryRound, poolVars, recordVars
  <2>2. Retryable \in Seq({t \in SoundTrades \cap Tried : t.status = "failed"})
    BY <1>2, RetryableIs
  <2>3. {t \in SoundTrades \cap Tried : t.status = "failed"} \subseteq SoundTrades \cap Before
    BY DEF Tried, Before
  <2>4. retryList' \in Seq(SoundTrades \cap Before)
    BY <2>1, <2>2, <2>3, SeqMonotonic
  <2>5. job' = [job EXCEPT !["retry"] = NoJob]
    BY <2>1 DEF JobsSound, SettleInv
  <2>6. QED
    BY <1>1, <1>2, <1>4, <2>1, <2>4, <2>5, SettlingMoves
<1>6. CASE RetryStart
  <2> DEFINE t == Head(retryList)
             new == NewJob(t.maker, t.taker, t.price, t.amount)
  <2>1. /\ retryList # <<>> /\ job' = [job EXCEPT !["retry"] = new]
        /\ trades' = Mark(t.maker, "settling") /\ retryList' = Tail(retryList)
    BY <1>6 DEF RetryStart
  <2>2. t \in SoundTrades /\ t \in Before
        /\ retryList' \in Seq(SoundTrades \cap Before)
    BY <1>2, <2>1, HeadTailProperties
  <2> HIDE DEF t
  <2>3. /\ t.maker \in Ids /\ t.taker \in Ids /\ t.maker # t.taker
        /\ t.price \in Nat /\ t.amount \in Nat
        /\ Backs(orders, {t.maker, t.taker}, t.price, t.amount)
        /\ Pair(t) \notin ToSettle
    BY <2>2 DEF SoundTrades, Before, Trade
  <2>4. new \in SoundJobs /\ new.maker = t.maker /\ new.taker = t.taker
    BY <1>1, <2>3, NewJobIsSound
  <2> HIDE DEF new
  <2>5. Pair(new) \notin ToSettle
    BY <2>3, <2>4 DEF Pair
  <2>6. trades' \in Seq(SoundTrades \cap Tried)
    BY <1>3, <2>1
  <2>7. QED
    BY <1>1, <1>4, <2>1, <2>2, <2>4, <2>5, <2>6, SettlingMoves
<1>7. CASE RetryFinish
  <2>1. /\ job' = [job EXCEPT !["retry"] = NoJob] /\ UNCHANGED retryList
        /\ trades' = trades \/ trades' = Mark(job["retry"].maker, "settled")
    BY <1>7 DEF RetryFinish
  <2>2. trades' \in Seq(SoundTrades \cap Tried)
    BY <1>2, <1>3, <2>1
  <2>3. QED
    BY <1>1, <1>2, <1>4, <2>1, <2>2, SettlingMoves
<1>8. QED
  BY <1>5, <1>6, <1>7

LEMMA SettlingPair ==
  ASSUME JobInv, EngineInv, SettleInv, NEW s \in Settlers, SettlePair(s)
  PROVE  SettleInv'
<1>1. /\ UNCHANGED <<poolVars, retryList>> /\ Numbers' /\ \E new : Step(s, new)
  BY SettlePairMoves DEF SettleInv
<1>2. UNCHANGED <<stage, next, engineVars, trades>>
  BY <1>1 DEF poolVars, matcherVars, recordVars
<1>3. PICK new : Step(s, new)
  BY <1>1
<1>4. /\ job' = [job EXCEPT ![s] = new] /\ new \in SoundJobs
      /\ new.maker = job[s].maker /\ new.taker = job[s].taker /\ new # NoJob
  BY <1>3 DEF Step
<1>5. job[s] # NoJob
  BY SettlerHasJob
<1>6. trades' \in Seq(SoundTrades \cap Tried) /\ retryList' \in Seq(SoundTrades \cap Before)
  BY <1>1, <1>2, SeqOfBoth DEF SettleInv, TradesSound, FirstTried
<1>7. /\ s = "matcher" => new.maker = items[next].id /\ new.taker = Subject
      /\ s = "retry" => Pair(new) \notin ToSettle
  BY <1>4, <1>5 DEF SettleInv, FirstTried, Pair
<1>8. QED
  BY <1>1, <1>2, <1>4, <1>6, <1>7, SettlingMoves

LEMMA CancelHandlerNumbers ==
  ASSUME Numbers, NEW i \in Ids, CancelHandler(i)
  PROVE  Numbers'
<1>1. CASE CancelRequest(i) \/ VerifyCanceled(i) \/ SubmitCancel(i)
  BY <1>1 DEF Numbers, CancelRequest, VerifyCanceled, SubmitCancel, Verify, settleVars,
              ledgerVars
<1>2. CASE Refund(i)
  <2> DEFINE t == IF handler[i].branch = "Buy"
                  THEN TransferTx("quote", i, Quote(placed[i].price, placed[i].amount))
                  ELSE TransferTx("base", i, placed[i].amount)
  <2>1. ~ConsumesCredentials(t)
    BY DEF ConsumesCredentials, TransferTx
  <2>2. UNCHANGED creds /\ \E r : Execute(t, r)
    BY <1>2 DEF Refund, settleVars
  <2> HIDE DEF t
  <2>3. QED
    BY <2>1, <2>2, ExecuteNumbers DEF Numbers
<1>3. CASE CancelOnChain(i)
  <2> DEFINE t == CancelTx(i, handler[i].creds, nonces + 1)
  <2>1. t.out = nonces + 1 /\ t.out \in Nat
    BY DEF CancelTx, Numbers
  <2> HIDE DEF t
  <2>2. PICK r \in {"ok", "exists", "err"} :
          Execute(t, r) /\ (creds' = t.out \/ creds' = creds)
    BY <1>3 DEF CancelOnChain, t
  <2>3. QED
    BY <2>1, <2>2, ExecuteNumbers DEF Numbers
<1>4. QED
  BY <1>1, <1>2, <1>3 DEF CancelHandler

LEMMA SettlingNext ==
  ASSUME WayInv, JobInv, AllPlain, EngineInv, SettleInv, [Next]_vars
  PROVE  SettleInv'
<1>1. CASE (EventLoop \/ MatcherStep) /\ UNCHANGED <<settleVars, cancelVars>>
  <2>1. CASE EventLoop
    <3>1. UNCHANGED <<trades, retryList, job, stage, next, engineVars, nonces, creds>>
      BY <1>1, <2>1 DEF EventLoop, Receive, Send, Complete, settleVars, recordVars,
                        matcherVars, ledgerVars
    <3>2. QED
      BY <3>1, SettlingRests DEF SettleInv, Numbers
  <2>2. CASE Take
    BY <1>1, <2>2, EngineGoesOn, SettlingTake
  <2>3. CASE Match
    BY <1>1, <2>3, SettlingMatch
  <2>4. CASE RecordMatch
    BY <1>1, <2>4, SettlingRecord
  <2>5. QED
    BY <1>1, <2>1, <2>2, <2>3, <2>4 DEF MatcherStep
<1>2. CASE SettleBatch \/ RetryLoop
  BY <1>2, SettlingStart, SettlingFinish, SettlingRetry, SettlingPair
     DEF SettleBatch, RetryLoop, Settlers
<1>3. CASE \E i \in Ids : CancelHandler(i)
  <2>1. UNCHANGED <<trades, retryList, job, stage, next, engineVars>>
    BY <1>3 DEF CancelHandler, CancelRequest, Refund, CancelOnChain, VerifyCanceled,
                SubmitCancel, settleVars, poolVars, recordVars, matcherVars
  <2>2. QED
    BY <1>3, <2>1, CancelHandlerNumbers, SettlingRests DEF SettleInv
<1>4. CASE \/ (\E i \in Ids : Client(i)) /\ UNCHANGED <<settleVars, cancelVars>>
           \/ Chain /\ UNCHANGED <<poolVars, settleVars, cancelVars>>
           \/ UNCHANGED vars
  <2>1. UNCHANGED <<trades, retryList, job, stage, next, engineVars, nonces, creds>>
    BY <1>4 DEF Client, PostOrder, RecordSubmit, Chain, LandsLate, vars, settleVars,
                poolVars, recordVars, matcherVars, ledgerVars
  <2>2. QED
    BY <2>1, SettlingRests DEF SettleInv, Numbers
<1>5. QED
  BY <1>1, <1>2, <1>3, <1>4 DEF Next

-----------------------------------------------------------------------------
LEMMA SettleStarts == Init => EngineInv /\ RecordsSound /\ SettleInv
<1> SUFFICES ASSUME Init PROVE EngineInv /\ RecordsSound /\ SettleInv
  OBVIOUS
<1>1. /\ orders = <<>> /\ DOMAIN orders = {} /\ book = {} /\ taker = M!None /\ items = <<>>
      /\ stage = "take" /\ next = 1 /\ trades = <<>> /\ retryList = <<>>
      /\ records = [i \in Ids |-> NoRecord] /\ nonces = 0 /\ creds = 0
      /\ job = [s \in Settlers |-> NoJob]
  BY DEF Init, PoolInit, SettlementInit, LedgerInit, M!Init
<1>2. EngineInv
  BY <1>1, EmptySeq DEF EngineInv, EngineSound, Matched, Reported
<1>3. RecordsSound
  BY <1>1 DEF RecordsSound, Backed, NoRecord, RecordStatuses
<1>4. Settling /\ Numbers /\ JobsSound /\ TradesSound /\ FirstTried
  BY <1>1, EmptySeq DEF Settling, Numbers, JobsSound, TradesSound, FirstTried, Settlers
<1>5. QED
  BY <1>2, <1>3, <1>4 DEF SettleInv

SettlementInv ==
  WayInv /\ JobInv /\ LedgerInv /\ CancelInv /\ EngineInv /\ RecordsSound /\ SettleInv

LEMMA SettlementNext == SettlementInv /\ [Next]_vars => SettlementInv'
<1> SUFFICES ASSUME SettlementInv, [Next]_vars PROVE SettlementInv'
  OBVIOUS
<1>1. AllPlain
  BY DEF SettlementInv, CancelInv
<1>2. WayInv' /\ JobInv' /\ LedgerInv'
  BY WayNext, LedgerNext DEF SettlementInv
<1>3. CancelInv'
  BY CancelNext DEF SettlementInv
<1>4. Grown(orders, orders') /\ EngineInv'
  BY <1>1, EngineGoesOn DEF SettlementInv
<1>5. RecordsSound'
  BY <1>4, RecordsGoOn DEF SettlementInv
<1>6. SettleInv'
  BY <1>1, SettlingNext DEF SettlementInv
<1>7. QED
  BY <1>2, <1>3, <1>4, <1>5, <1>6 DEF SettlementInv

LEMMA SettlementInvariant == Spec => []SettlementInv
<1>1. Init => SettlementInv
  BY WayInit, JobInit, LedgerStarts, CancelStarts, SettleStarts DEF SettlementInv
<1>2. QED
  BY <1>1, SettlementNext, PTL DEF Spec

(* The record of an order never says more than what has happened to the    *)
(* order in the engine.                                                    *)
THEOREM RecordsFollowTheEngine == Spec => []RecordNeverAhead
<1>1. SettlementInv => RecordNeverAhead
  BY DEF SettlementInv, RecordsSound, Backed, RecordNeverAhead, CanceledStates
<1>2. QED
  BY <1>1, SettlementInvariant, PTL

(* The matcher goroutine and the retry loop are never at the same trade:   *)
(* no retry takes it up before its first settlement has failed, and the    *)
(* matcher never comes back to it.                                         *)
THEOREM TradeSettledByOne == Spec => []OneSettlementPerTrade
<1>1. SettlementInv => OneSettlementPerTrade
  <2> SUFFICES ASSUME SettlementInv, job["matcher"] # NoJob, job["retry"] # NoJob,
                      job["matcher"].maker = job["retry"].maker,
                      job["matcher"].taker = job["retry"].taker
               PROVE  FALSE
    BY DEF OneSettlementPerTrade
  <2>1. /\ stage = "settle" /\ next \in 1 .. Len(items) - 1
        /\ Pair(job["retry"]) = <<items[next].id, Subject>>
        /\ Pair(job["retry"]) \notin ToSettle
    BY DEF SettlementInv, JobInv, SettleInv, Settling, FirstTried, Pair
  <2>2. ToSettle = {<<items[k].id, Subject>> : k \in next .. Len(items) - 1}
    BY <2>1 DEF ToSettle
  <2>3. next \in next .. Len(items) - 1
    <3>1. items \in Seq(M!Item)
      BY DEF SettlementInv, EngineInv, Matched
    <3>2. Len(items) \in Nat
      BY <3>1, LenProperties
    <3>3. QED
      BY <2>1, <3>2
  <2>4. QED
    BY <2>1, <2>2, <2>3
<1>2. QED
  BY <1>1, SettlementInvariant, PTL

-----------------------------------------------------------------------------
(* The transactions: what the engine broadcasts is well formed, and a      *)
(* settlement is of amounts that were matched.                             *)
Assets == {"base", "quote"}

Tx ==
  [fn: {"transfer"}, asset: Assets, to: Ids, amount: Nat]
    \cup [fn: {"settle"}, buy: Ids, sell: Ids, price: Nat, amount: Nat, creds: Nat, out: Nat]
    \cup [fn: {"cancel"}, id: Ids, creds: Nat, out: Nat]

TxSound(os, t) ==
  t \in Tx /\ (t.fn = "settle" => Backs(os, {t.buy, t.sell}, t.price, t.amount))

ChainInv ==
  /\ ledger \in Ledger /\ faults \in 0 .. MaxFaults
  /\ \A e \in mempool : TxSound(orders, e.tx)
  /\ handler \in [Ids -> Handler] /\ cancels \in 0 .. MaxCancels

LEMMA QuoteIsNatural ==
  ASSUME NEW p \in Nat, NEW n \in Nat, NEW v \in Nat, p * n <= v
  PROVE  Quote(p, n) \in Nat /\ Quote(p, n) <= Quote(1, v)
<1>1. \A a, b \in Nat : a <= b => a \div Micro \in Nat /\ a \div Micro <= b \div Micro
  BY LedgerAssumption
<1> DEFINE a == p * n
<1>2. a \in Nat /\ 1 * v = v
  OBVIOUS
<1> HIDE DEF a
<1>3. a <= v
  BY DEF a
<1>4. a \div Micro \in Nat /\ a \div Micro <= (1 * v) \div Micro
  BY <1>1, <1>2, <1>3
<1>5. QED
  BY <1>4 DEF Quote, a

(* The accounts of n are those of l but for one payment.                   *)
Paid(l, n, i, asset, amount) ==
  /\ n \in Ledger /\ n.spent = l.spent
  /\ \A j \in Ids : \A a \in Assets :
       n.paid[j][a] = l.paid[j][a] + IF j = i /\ a = asset THEN amount ELSE 0

LEMMA PayIs ==
  ASSUME NEW l \in Ledger, NEW i \in Ids, NEW asset \in Assets, NEW amount \in Nat
  PROVE  Paid(l, Pay(l, i, asset, amount), i, asset, amount)
<1> DEFINE p == l.paid[i]
           q == [p EXCEPT ![asset] = p[asset] + amount]
           n == [l EXCEPT !.paid = [l.paid EXCEPT ![i] = q]]
<1>1. p \in [base: Nat, quote: Nat] /\ l.paid \in [Ids -> [base: Nat, quote: Nat]]
  BY DEF Ledger
<1>2. Pay(l, i, asset, amount) = n
  BY <1>1 DEF Pay, Ledger
<1>3. /\ q \in [base: Nat, quote: Nat]
      /\ \A a \in Assets : q[a] = p[a] + IF a = asset THEN amount ELSE 0
  BY <1>1 DEF Assets
<1>4. \A j \in Ids : \A a \in Assets : l.paid[j][a] \in Nat /\ l.paid[j][a] + 0 = l.paid[j][a]
  BY <1>1 DEF Assets
<1> HIDE DEF q
<1>5. /\ n \in Ledger /\ n.spent = l.spent
      /\ n.paid[i] = q /\ \A j \in Ids : j # i => n.paid[j] = l.paid[j]
  BY <1>3 DEF Ledger
<1> HIDE DEF n
<1>6. Paid(l, n, i, asset, amount)
  BY <1>3, <1>4, <1>5 DEF Paid
<1>7. QED
  BY <1>2, <1>6

LEMMA CloseIs ==
  ASSUME NEW l \in Ledger, NEW S \in SUBSET Ids, NEW status \in 0 .. 2
  PROVE  LET n == Close(l, S, status) IN
         n \in Ledger /\ n.paid = l.paid /\ n.spent = l.spent \cup {i \in S : ~Public(i)}
<1> DEFINE new == [i \in Ids |-> IF i \in S /\ Public(i) THEN status ELSE l.status[i]]
           used == l.spent \cup {i \in S : ~Public(i)}
<1>1. Close(l, S, status) = [l EXCEPT !.status = new, !.spent = used]
  BY Zenon DEF Close
<1>2. new \in [Ids -> 0 .. 2] /\ used \in SUBSET Ids
  BY DEF Ledger
<1> DEFINE n == [l EXCEPT !.status = new, !.spent = used]
<1> HIDE DEF new, used
<1>3. n \in Ledger /\ n.paid = l.paid /\ n.spent = used
  BY <1>2 DEF Ledger
<1> HIDE DEF n
<1>4. QED
  BY <1>1, <1>3 DEF n, used

LEMMA RotateIs ==
  ASSUME NEW l \in Ledger, NEW t \in Tx
  PROVE  LET n == Rotate(l, t) IN n \in Ledger /\ n.paid = l.paid /\ n.spent = l.spent
<1>1. ConsumesCredentials(t) => t.out \in Nat
  BY DEF ConsumesCredentials, Tx
<1>2. \A out \in Nat : LET n == [l EXCEPT !.live = out] IN
                       n \in Ledger /\ n.paid = l.paid /\ n.spent = l.spent
  BY DEF Ledger
<1>3. QED
  BY <1>1, <1>2, Zenon DEF Rotate

(* What a transaction does to an account: a settlement pays in the tokens  *)
(* that are bought and sold, a cancellation in the one that was escrowed.  *)
LEMMA SettlePaysIs ==
  ASSUME NEW l \in Ledger, NEW t \in Tx, t.fn = "settle"
  PROVE  LET n == SettlePays(l, t) IN
         /\ n \in Ledger /\ n.spent = l.spent
         /\ ~Public(t.buy) /\ ~Public(t.sell) =>
              \A j \in Ids :
                /\ n.paid[j].base
                     = l.paid[j].base + IF j = t.buy THEN t.amount ELSE 0
                /\ n.paid[j].quote
                     = l.paid[j].quote
                         + IF j = t.sell THEN Quote(t.price, t.amount) ELSE 0
<1> DEFINE q == Quote(t.price, t.amount)
<1>1. /\ t.buy \in Ids /\ t.sell \in Ids /\ t.amount \in Nat /\ t.price \in Nat
      /\ "base" \in Assets /\ "quote" \in Assets
  BY DEF Tx, Assets
<1>2. q \in Nat
  <2>1. t.price * t.amount \in Nat /\ \A v \in Nat : v <= v
    BY <1>1
  <2>2. QED
    BY <1>1, <2>1, QuoteIsNatural
<1> HIDE DEF q
<1> DEFINE sold == Pay(l, t.sell, "base", t.amount)
           got  == Pay(l, t.buy, "base", t.amount)
           a1   == Pay(l, t.sell, "quote", q)
           a2   == Pay(sold, t.sell, "quote", q)
           a3   == Pay(got, t.sell, "quote", q)
<1>3. /\ SettlePays(l, t) \in {l, a1, a2, a3}
      /\ ~Public(t.buy) /\ ~Public(t.sell) => SettlePays(l, t) = a3
  BY DEF SettlePays, q
<1>4. Paid(l, sold, t.sell, "base", t.amount)
  BY <1>1, PayIs
<1>5. Paid(l, got, t.buy, "base", t.amount)
  BY <1>1, PayIs
<1>6. Paid(l, a1, t.sell, "quote", q)
  BY <1>1, <1>2, PayIs
<1> HIDE DEF sold, got, a1
<1>7. Paid(sold, a2, t.sell, "quote", q)
  <2>1. sold \in Ledger
    BY <1>4 DEF Paid
  <2>2. QED
    BY <1>1, <1>2, <2>1, PayIs
<1>8. Paid(got, a3, t.sell, "quote", q)
  <2>1. got \in Ledger
    BY <1>5 DEF Paid
  <2>2. QED
    BY <1>1, <1>2, <2>1, PayIs
<1> HIDE DEF a2, a3
<1>9. \A j \in Ids : l.paid[j].base \in Nat /\ l.paid[j].quote \in Nat
  BY DEF Ledger
<1>10. \A j \in Ids :
         /\ a3.paid[j].base = l.paid[j].base + IF j = t.buy THEN t.amount ELSE 0
         /\ a3.paid[j].quote = l.paid[j].quote + IF j = t.sell THEN q ELSE 0
  BY <1>1, <1>2, <1>5, <1>8, <1>9 DEF Paid
<1>11. \A n \in {l, a1, a2, a3} : n \in Ledger /\ n.spent = l.spent
  BY <1>4, <1>5, <1>6, <1>7, <1>8 DEF Paid
<1>12. QED
  BY <1>3, <1>10, <1>11 DEF q

LEMMA CancelPaysIs ==
  ASSUME NEW l \in Ledger, NEW i \in Ids, placed[i] \in Post
  PROVE  LET n == CancelPays(l, i) IN
         /\ n \in Ledger /\ n.spent = l.spent
         /\ \A j \in Ids :
              /\ j # i => n.paid[j] = l.paid[j]
              /\ placed[i].side = "Buy" => n.paid[j].base = l.paid[j].base
              /\ placed[i].side = "Sell" => n.paid[j].quote = l.paid[j].quote
<1> DEFINE q == Quote(placed[i].price, placed[i].amount)
           a1 == Pay(l, i, "quote", q)
           a2 == Pay(l, i, "base", placed[i].amount)
<1>1. /\ placed[i].price \in Nat /\ placed[i].amount \in Nat
      /\ placed[i].side \in {"Buy", "Sell"} /\ "base" \in Assets /\ "quote" \in Assets
  BY DEF Post, Assets
<1>2. q \in Nat
  <2>1. placed[i].price * placed[i].amount \in Nat /\ \A v \in Nat : v <= v
    BY <1>1
  <2>2. QED
    BY <1>1, <2>1, QuoteIsNatural
<1>3. /\ CancelPays(l, i) \in {l, a1, a2}
      /\ placed[i].side = "Buy" => CancelPays(l, i) \in {l, a1}
      /\ placed[i].side = "Sell" => CancelPays(l, i) \in {l, a2}
  BY DEF CancelPays
<1> HIDE DEF q
<1>4. Paid(l, a1, i, "quote", q)
  BY <1>1, <1>2, PayIs
<1>5. Paid(l, a2, i, "base", placed[i].amount)
  BY <1>1, PayIs
<1> HIDE DEF a1, a2
<1>6. \A j \in Ids : l.paid[j] \in [base: Nat, quote: Nat]
  BY DEF Ledger
<1>7. \A j \in Ids : a1.paid[j].base = l.paid[j].base /\ a2.paid[j].quote = l.paid[j].quote
  BY <1>1, <1>4, <1>5, <1>6 DEF Paid
<1>8. \A j \in Ids : j # i => a1.paid[j] = l.paid[j] /\ a2.paid[j] = l.paid[j]
  <2> SUFFICES ASSUME NEW j \in Ids, j # i
               PROVE  a1.paid[j] = l.paid[j] /\ a2.paid[j] = l.paid[j]
    OBVIOUS
  <2>1. a1.paid[j] \in [base: Nat, quote: Nat] /\ a2.paid[j] \in [base: Nat, quote: Nat]
    BY <1>4, <1>5 DEF Paid, Ledger
  <2>2. /\ a1.paid[j].base = l.paid[j].base /\ a1.paid[j].quote = l.paid[j].quote
        /\ a2.paid[j].base = l.paid[j].base /\ a2.paid[j].quote = l.paid[j].quote
    BY <1>1, <1>4, <1>5, <1>6 DEF Paid
  <2>3. QED
    BY <1>6, <2>1, <2>2
<1>9. a1 \in Ledger /\ a1.spent = l.spent /\ a2 \in Ledger /\ a2.spent = l.spent
  BY <1>4, <1>5 DEF Paid
<1>10. QED
  BY <1>1, <1>3, <1>7, <1>8, <1>9

LEMMA EffectIs ==
  ASSUME NEW l \in Ledger, NEW t \in Tx, placed \in [Ids -> Post]
  PROVE  Effect(l, t) \in Ledger
<1>1. 1 \in 0 .. 2 /\ 2 \in 0 .. 2
  OBVIOUS
<1>2. CASE t.fn = "transfer"
  <2>1. t.asset \in Assets /\ t.to \in Ids /\ t.amount \in Nat
    BY <1>2 DEF Tx
  <2>2. Paid(l, Pay(l, t.to, t.asset, t.amount), t.to, t.asset, t.amount)
    BY <2>1, PayIs
  <2>3. QED
    BY <1>2, <2>2 DEF Effect, Paid
<1>3. CASE t.fn = "settle"
  <2> DEFINE a == SettlePays(l, t)
             b == Close(a, {t.buy, t.sell}, 1)
  <2>1. a \in Ledger
    BY <1>3, SettlePaysIs
  <2>2. {t.buy, t.sell} \in SUBSET Ids
    BY <1>3 DEF Tx
  <2>3. Effect(l, t) = Rotate(b, t)
    BY <1>3 DEF Effect, SettleEffect
  <2> HIDE DEF a
  <2>4. b \in Ledger
    BY <1>1, <2>1, <2>2, CloseIs
  <2> HIDE DEF b
  <2>5. QED
    BY <2>3, <2>4, RotateIs
<1>4. CASE t.fn = "cancel"
  <2> DEFINE a == CancelPays(l, t.id)
             b == Close(a, {t.id}, 2)
  <2>1. t.id \in Ids /\ {t.id} \in SUBSET Ids /\ placed[t.id] \in Post
    BY <1>4 DEF Tx
  <2>2. a \in Ledger
    BY <2>1, CancelPaysIs
  <2>3. Effect(l, t) = Rotate(b, t)
    BY <1>4 DEF Effect, CancelEffect
  <2> HIDE DEF a
  <2>4. b \in Ledger
    BY <1>1, <2>1, <2>2, CloseIs
  <2> HIDE DEF b
  <2>5. QED
    BY <2>3, <2>4, RotateIs
<1>5. QED
  BY <1>2, <1>3, <1>4 DEF Tx

(* A step that broadcasts t, or in which it lands late.                    *)
Sends(t) ==
  \/ Accepts(ledger, t) /\ ledger' = Effect(ledger, t) /\ mempool' \subseteq mempool
  \/ UNCHANGED ledger /\ \A e \in mempool' : e \in mempool \/ e.tx = t

Quiet == UNCHANGED ledger /\ mempool' \subseteq mempool

LEMMA ExecuteSends ==
  ASSUME NEW t, NEW r, Execute(t, r) PROVE Sends(t) /\ UNCHANGED placed
<1>1. CASE Lands(t, r)
  BY <1>1 DEF Lands, Sends, Execute
<1>2. CASE Rejected(t, r) \/ Shadowed(t, r) \/ Lost(t, r) \/ Repeated(t, r)
  BY <1>2 DEF Rejected, Shadowed, Lost, Repeated, Sends, Execute
<1>3. CASE Delayed(t, r)
  <2>1. UNCHANGED ledger /\ mempool' = mempool \cup {[tx |-> t, nr |-> faults]}
    BY <1>3 DEF Delayed
  <2>2. \A e \in mempool' : e \in mempool \/ e.tx = t
    BY <2>1
  <2>3. QED
    BY <2>1, <2>2 DEF Sends, Execute
<1>4. QED
  BY <1>1, <1>2, <1>3 DEF Execute

LEMMA ExecuteFaults ==
  ASSUME faults \in 0 .. MaxFaults, NEW t, NEW r, Execute(t, r)
  PROVE  faults' \in 0 .. MaxFaults
BY LedgerAssumption DEF Execute, Lands, Rejected, Shadowed, Delayed, Lost, Repeated, Fault, Smooth

LEMMA VerifyIsQuiet ==
  ASSUME faults \in 0 .. MaxFaults, NEW i, NEW status, NEW answer,
         Verify(i, status, answer)
  PROVE  faults' \in 0 .. MaxFaults /\ Quiet
<1>1. UNCHANGED faults \/ (faults < MaxFaults /\ faults' = faults + 1)
  BY DEF Verify, Smooth, Fault
<1>2. QED
  BY <1>1, LedgerAssumption DEF Verify, Quiet

(* A transaction of a settler is one of the trade it settles.              *)
LEMMA SettlePairSends ==
  ASSUME SettlementInv, ChainInv, NEW s \in Settlers, SettlePair(s)
  PROVE  /\ faults' \in 0 .. MaxFaults
         /\ \/ Quiet
            \/ \E t : /\ TxSound(orders, t) /\ Sends(t)
                      /\ t.fn = "transfer" => job[s].step \in {"base", "quote"}
<1> DEFINE j == job[s]
<1>1. j # NoJob /\ j \in SoundJobs /\ j \in Job
  BY SettlerHasJob DEF SettlementInv, SettleInv, JobsSound, SoundJobs
<1>2. /\ j.buy \in Ids /\ j.sell \in Ids /\ j.price \in Nat /\ j.amount \in Nat
      /\ j.creds \in Nat /\ Backs(orders, {j.buy, j.sell}, j.price, j.amount)
      /\ faults \in 0 .. MaxFaults /\ nonces + 1 \in Nat
  <2>1. /\ j.buy \in Ids /\ j.sell \in Ids /\ j.price \in Nat /\ j.amount \in Nat
        /\ j.creds \in Nat
    BY <1>1 DEF Job
  <2>2. Backs(orders, {j.buy, j.sell}, j.price, j.amount)
    BY <1>1 DEF SoundJobs
  <2>3. faults \in 0 .. MaxFaults /\ nonces + 1 \in Nat
    BY DEF ChainInv, SettlementInv, SettleInv, Numbers
  <2>4. QED
    BY <2>1, <2>2, <2>3
<1>3. ASSUME NEW step \in {"base", "quote"}, NEW asset \in Assets, NEW to \in Ids,
             NEW amount \in Nat, NEW after, Transfer(s, step, asset, to, amount, after)
      PROVE  /\ faults' \in 0 .. MaxFaults
             /\ \/ Quiet
                \/ \E t : /\ TxSound(orders, t) /\ Sends(t)
                          /\ t.fn = "transfer" => j.step \in {"base", "quote"}
  <2> DEFINE t == TransferTx(asset, to, amount)
  <2>1. t \in Tx /\ t.fn = "transfer"
    BY DEF TransferTx, Tx
  <2> HIDE DEF t
  <2>2. PICK r : Execute(t, r) \/ NotSent(r)
    BY <1>3 DEF Transfer, t
  <2>3. j.step \in {"base", "quote"}
    BY <1>3 DEF Transfer, At
  <2>4. CASE NotSent(r)
    BY <1>2, <2>4 DEF NotSent, ledgerVars, Quiet
  <2>5. CASE Execute(t, r)
    BY <1>2, <2>1, <2>3, <2>5, ExecuteSends, ExecuteFaults DEF TxSound
  <2>6. QED
    BY <2>2, <2>4, <2>5
<1>4. CASE TransferBase(s)
  <2>1. "base" \in Assets
    BY DEF Assets
  <2>2. QED
    BY <1>2, <1>3, <1>4, <2>1 DEF TransferBase
<1>5. CASE TransferQuote(s)
  <2>1. "quote" \in Assets
    BY DEF Assets
  <2>2. Quote(j.price, j.amount) \in Nat
    <3>1. j.price * j.amount \in Nat /\ \A v \in Nat : v <= v
      BY <1>2
    <3>2. QED
      BY <1>2, <3>1, QuoteIsNatural
  <2>3. QED
    BY <1>2, <1>3, <1>5, <2>1, <2>2 DEF TransferQuote
<1>6. CASE Settle(s)
  <2> DEFINE t == SettleTx(j.buy, j.sell, j.price, j.amount, j.creds, nonces + 1)
  <2>1. /\ t \in Tx /\ t.fn = "settle" /\ t.buy = j.buy /\ t.sell = j.sell
        /\ t.price = j.price /\ t.amount = j.amount
    BY <1>2 DEF SettleTx, Tx
  <2> HIDE DEF t
  <2>2. PICK r : Execute(t, r) \/ NotSent(r)
    BY <1>6 DEF Settle, t
  <2>3. CASE NotSent(r)
    BY <1>2, <2>3 DEF NotSent, ledgerVars, Quiet
  <2>4. CASE Execute(t, r)
    BY <1>2, <2>1, <2>4, ExecuteSends, ExecuteFaults DEF TxSound
  <2>5. QED
    BY <2>2, <2>3, <2>4
<1>7. CASE VerifySettled(s)
  BY <1>2, <1>7, VerifyIsQuiet DEF VerifySettled
<1>8. QED
  BY <1>4, <1>5, <1>6, <1>7 DEF SettlePair

(* A transaction of a cancel handler is one of its order.                  *)
LEMMA HandlerContinues ==
  ASSUME handler \in [Ids -> Handler], NEW i \in Ids, NEW step \in CancelSteps,
         Continue(i, step)
  PROVE  handler' \in [Ids -> Handler]
         /\ handler'[i].step = step /\ \A j \in Ids : j # i => handler'[j] = handler[j]
<1> DEFINE h == IF step = "none" THEN NoHandler ELSE [handler[i] EXCEPT !.step = step]
<1>1. handler' = [handler EXCEPT ![i] = h]
  BY Zenon DEF Continue
<1>2. h \in Handler /\ h.step = step
  BY DEF Handler, NoHandler, CancelSteps
<1> HIDE DEF h
<1>3. QED
  BY <1>1, <1>2

(* What a step of a handler leaves of the types of this component.         *)
HandlersTyped ==
  /\ faults' \in 0 .. MaxFaults /\ cancels' \in 0 .. MaxCancels
  /\ handler' \in [Ids -> Handler]

SendsFor(i) ==
  \/ Quiet
  \/ \E t : /\ TxSound(orders, t) /\ Sends(t)
            /\ t.fn = "transfer" => handler[i].step = "refund"

LEMMA CancelRequestSends ==
  ASSUME SettlementInv, ChainInv, placed \in [Ids -> Post], NEW i \in Ids, CancelRequest(i)
  PROVE  HandlersTyped /\ SendsFor(i)
<1> DEFINE h == [step |-> IF Public(i) THEN "refund" ELSE "cancel",
                 branch |-> IF po[i] = "order" THEN placed[i].side ELSE "Buy",
                 creds |-> creds]
<1>1. h \in Handler
  <2>1. placed[i].side \in {"Buy", "Sell"}
    BY DEF Post
  <2>2. creds \in Nat
    BY DEF SettlementInv, SettleInv, Numbers
  <2>3. QED
    BY <2>1, <2>2 DEF Handler, CancelSteps
<1>2. handler' = [handler EXCEPT ![i] = h] /\ cancels < MaxCancels /\ cancels' = cancels + 1
      /\ UNCHANGED <<ledger, mempool, faults>>
  BY DEF CancelRequest, ledgerVars
<1> HIDE DEF h
<1>3. handler' \in [Ids -> Handler]
  BY <1>1, <1>2 DEF ChainInv
<1>4. cancels' \in 0 .. MaxCancels
  BY <1>2, CancelAssumption DEF ChainInv
<1>5. QED
  BY <1>2, <1>3, <1>4 DEF HandlersTyped, SendsFor, Quiet, ChainInv

LEMMA RefundSends ==
  ASSUME SettlementInv, ChainInv, placed \in [Ids -> Post], NEW i \in Ids, Refund(i)
  PROVE  HandlersTyped /\ SendsFor(i)
<1> DEFINE a == placed[i].amount
           q == Quote(placed[i].price, a)
           t == IF handler[i].branch = "Buy" THEN TransferTx("quote", i, q)
                                             ELSE TransferTx("base", i, a)
<1>1. placed[i].price \in Nat /\ a \in Nat
  BY DEF Post
<1>2. q \in Nat
  <2>1. placed[i].price * a \in Nat /\ \A v \in Nat : v <= v
    BY <1>1
  <2>2. QED
    BY <1>1, <2>1, QuoteIsNatural
<1> HIDE DEF q
<1>3. t \in Tx /\ t.fn = "transfer"
  BY <1>1, <1>2 DEF TransferTx, Tx, Assets
<1> HIDE DEF t
<1> DEFINE good == IF handler[i].branch = "Buy" THEN {"ok", "exists"} ELSE {"ok"}
           step(r) == IF r \in good THEN "cancel" ELSE "none"
<1>4. PICK r : Execute(t, r) /\ Continue(i, step(r))
  BY DEF Refund, t, q
<1>5. handler[i].step = "refund" /\ UNCHANGED cancels
  BY DEF Refund, HandlerAt
<1>6. handler' \in [Ids -> Handler]
  <2>1. step(r) \in CancelSteps
    BY DEF CancelSteps
  <2>2. QED
    BY <1>4, <2>1, HandlerContinues DEF ChainInv
<1>7. faults' \in 0 .. MaxFaults /\ Sends(t)
  BY <1>4, ExecuteSends, ExecuteFaults DEF ChainInv
<1>8. QED
  BY <1>3, <1>5, <1>6, <1>7 DEF HandlersTyped, SendsFor, ChainInv, TxSound

LEMMA CancelOnChainSends ==
  ASSUME SettlementInv, ChainInv, NEW i \in Ids, CancelOnChain(i)
  PROVE  HandlersTyped /\ SendsFor(i)
<1> DEFINE t == CancelTx(i, handler[i].creds, nonces + 1)
<1>1. handler[i].creds \in Nat /\ nonces + 1 \in Nat
  BY DEF ChainInv, Handler, SettlementInv, SettleInv, Numbers
<1>2. t \in Tx /\ t.fn = "cancel"
  BY <1>1 DEF CancelTx, Tx
<1> HIDE DEF t
<1> DEFINE step(r) == CASE r = "err" -> "none" [] Public(i) -> "verify"
                        [] OTHER -> "submit"
<1>3. PICK r : Execute(t, r) /\ Continue(i, step(r))
  BY DEF CancelOnChain, t
<1>4. UNCHANGED cancels
  BY DEF CancelOnChain
<1>5. handler' \in [Ids -> Handler]
  <2>1. step(r) \in CancelSteps
    BY DEF CancelSteps
  <2>2. QED
    BY <1>3, <2>1, HandlerContinues DEF ChainInv
<1>6. faults' \in 0 .. MaxFaults /\ Sends(t)
  BY <1>3, ExecuteSends, ExecuteFaults DEF ChainInv
<1>7. QED
  BY <1>2, <1>4, <1>5, <1>6 DEF HandlersTyped, SendsFor, ChainInv, TxSound

LEMMA CancelHandlerSends ==
  ASSUME SettlementInv, ChainInv, placed \in [Ids -> Post], NEW i \in Ids, CancelHandler(i)
  PROVE  HandlersTyped /\ SendsFor(i)
<1>1. CASE VerifyCanceled(i)
  <2>1. PICK answer \in BOOLEAN :
          Verify(i, 2, answer) /\ Continue(i, IF answer THEN "submit" ELSE "none")
    BY <1>1 DEF VerifyCanceled
  <2>2. (IF answer THEN "submit" ELSE "none") \in CancelSteps /\ UNCHANGED cancels
    BY <1>1 DEF CancelSteps, VerifyCanceled
  <2>3. handler' \in [Ids -> Handler]
    BY <2>1, <2>2, HandlerContinues DEF ChainInv
  <2>4. QED
    BY <2>1, <2>2, <2>3, VerifyIsQuiet DEF HandlersTyped, SendsFor, ChainInv
<1>2. CASE SubmitCancel(i)
  <2>1. Continue(i, "none") /\ UNCHANGED <<cancels, ledger, mempool, faults>>
    BY <1>2 DEF SubmitCancel, ledgerVars
  <2>2. handler' \in [Ids -> Handler]
    BY <2>1, HandlerContinues DEF ChainInv, CancelSteps
  <2>3. QED
    BY <2>1, <2>2 DEF HandlersTyped, SendsFor, ChainInv, Quiet
<1>3. QED
  BY <1>1, <1>2, CancelRequestSends, RefundSends, CancelOnChainSends DEF CancelHandler

(* Nothing is at a public transfer.                                        *)
NoTransfers ==
  /\ \A s \in Settlers : job[s].step \notin {"base", "quote"}
  /\ \A i \in Ids : handler[i].step # "refund"

SendsSound ==
  \E t : /\ TxSound(orders, t) /\ Sends(t) /\ UNCHANGED orders
         /\ t.fn = "transfer" => ~NoTransfers \/ \E e \in mempool : e.tx = t

LEMMA PlacedIsPosted == WayInv => placed \in [Ids -> Post]
BY LedgerAssumption DEF WayInv

LEMMA ChainSteps ==
  ASSUME SettlementInv, ChainInv, [Next]_vars
  PROVE  HandlersTyped /\ (Quiet \/ SendsSound)
<1>1. placed \in [Ids -> Post] /\ JobInv
  BY PlacedIsPosted DEF SettlementInv
<1>2. CASE UNCHANGED <<ledger, mempool, faults, handler, cancels>>
  BY <1>2 DEF HandlersTyped, Quiet, ChainInv
<1>3. ASSUME NEW s \in Settlers, SettlePair(s), UNCHANGED cancelVars
      PROVE  HandlersTyped /\ (Quiet \/ SendsSound)
  <2>1. UNCHANGED orders
    BY <1>1, <1>3, SettlePairKeeps DEF poolVars, engineVars
  <2>2. HandlersTyped
    BY <1>3, SettlePairSends DEF HandlersTyped, cancelVars, ChainInv
  <2>3. QED
    BY <1>3, <2>1, <2>2, SettlePairSends DEF SendsSound, NoTransfers
<1>4. ASSUME NEW i \in Ids, CancelHandler(i)
      PROVE  HandlersTyped /\ (Quiet \/ SendsSound)
  <2>1. UNCHANGED orders
    BY <1>4 DEF CancelHandler, CancelRequest, Refund, CancelOnChain, VerifyCanceled,
                SubmitCancel, poolVars, engineVars
  <2>2. HandlersTyped /\ SendsFor(i)
    BY <1>1, <1>4, CancelHandlerSends
  <2>3. QED
    BY <2>1, <2>2 DEF SendsFor, SendsSound, NoTransfers
<1>5. CASE Chain /\ UNCHANGED <<poolVars, settleVars, cancelVars>>
  <2>1. PICK e \in mempool : LandsLate(e)
    BY <1>5 DEF Chain
  <2>2. TxSound(orders, e.tx) /\ Sends(e.tx)
    BY <2>1 DEF ChainInv, LandsLate, Sends
  <2>3. UNCHANGED <<orders, handler, cancels, faults>>
    BY <1>5, <2>1 DEF poolVars, engineVars, cancelVars, LandsLate
  <2>4. QED
    BY <2>2, <2>3 DEF HandlersTyped, SendsSound, ChainInv
<1>6. CASE (\E i \in Ids : Client(i)) \/ EventLoop \/ MatcherStep
  <2>1. UNCHANGED ledgerVars
    BY <1>6 DEF EventLoop, Receive, Send, Complete, MatcherStep, Take, Match,
                RecordMatch, Client, PostOrder, RecordSubmit
  <2>2. UNCHANGED cancelVars \/ \E i \in Ids : CancelHandler(i)
    BY DEF Next, vars
  <2>3. QED
    BY <1>2, <1>4, <2>1, <2>2 DEF ledgerVars, cancelVars
<1>7. CASE /\ StartItem \/ FinishItem \/ RetryRound \/ RetryStart \/ RetryFinish
           /\ UNCHANGED cancelVars
  <2>1. UNCHANGED ledgerVars
    BY <1>7 DEF StartItem, FinishItem, RetryRound, RetryStart, RetryFinish
  <2>2. QED
    BY <1>2, <1>7, <2>1 DEF ledgerVars, cancelVars
<1>8. CASE UNCHANGED vars
  BY <1>2, <1>8 DEF vars, ledgerVars, cancelVars
<1>9. QED
  BY <1>3, <1>4, <1>5, <1>6, <1>7, <1>8 DEF Next, SettleBatch, RetryLoop, Settlers

LEMMA TxSoundGrows ==
  ASSUME NEW os, NEW ns, Grown(os, ns), NEW t, TxSound(os, t)
  PROVE  TxSound(ns, t)
<1>1. t \in Tx
  BY DEF TxSound
<1>2. CASE t.fn = "settle"
  <2>1. t.price \in Nat /\ t.amount \in Nat
    BY <1>1, <1>2 DEF Tx
  <2>2. Backs(ns, {t.buy, t.sell}, t.price, t.amount)
    BY <1>2, <2>1, BacksGrow DEF TxSound
  <2>3. QED
    BY <1>1, <2>2 DEF TxSound
<1>3. QED
  BY <1>1, <1>2 DEF TxSound

LEMMA ChainNext ==
  ASSUME SettlementInv, ChainInv, [Next]_vars
  PROVE  ChainInv'
<1>1. Grown(orders, orders') /\ placed \in [Ids -> Post]
  BY EngineGoesOn, PlacedIsPosted DEF SettlementInv, CancelInv
<1>2. \A t : TxSound(orders, t) => TxSound(orders', t)
  BY <1>1, TxSoundGrows
<1>3. HandlersTyped /\ (Quiet \/ SendsSound)
  BY ChainSteps
<1>4. CASE Quiet
  BY <1>2, <1>3, <1>4 DEF Quiet, ChainInv, HandlersTyped
<1>5. CASE SendsSound
  <2>1. PICK t : TxSound(orders, t) /\ Sends(t)
    BY <1>5 DEF SendsSound
  <2>2. Effect(ledger, t) \in Ledger
    BY <1>1, <2>1, EffectIs DEF TxSound, ChainInv
  <2>3. ledger' \in Ledger /\ \A e \in mempool' : e \in mempool \/ e.tx = t
    BY <2>1, <2>2 DEF Sends, ChainInv
  <2>4. QED
    BY <1>2, <1>3, <2>1, <2>3 DEF ChainInv, HandlersTyped
<1>6. QED
  BY <1>3, <1>4, <1>5

LEMMA ChainStarts == Init => ChainInv
<1> SUFFICES ASSUME Init PROVE ChainInv
  OBVIOUS
<1>1. /\ ledger = [status |-> [i \in Ids |-> 0], spent |-> {}, live |-> 0,
                   paid |-> [i \in Ids |-> [base |-> 0, quote |-> 0]]]
      /\ mempool = {} /\ faults = 0 /\ cancels = 0
      /\ handler = [i \in Ids |-> NoHandler]
  BY DEF Init, LedgerInit, CancelInit
<1>2. ledger \in Ledger
  BY <1>1 DEF Ledger
<1>3. NoHandler \in Handler
  BY DEF NoHandler, Handler, CancelSteps
<1>4. QED
  BY <1>1, <1>2, <1>3, LedgerAssumption, CancelAssumption DEF ChainInv

-----------------------------------------------------------------------------
(* What the traders were sent, when every order was placed privately: what *)
(* the order was matched for, or its escrow.  The transactions of an order *)
(* need its record: once it is spent none of them is accepted any more,    *)
(* and before that nothing was sent.                                       *)
AllPrivate == \A f \in Placements, i \in Ids : f[i].mode = "private"

Nothing(i) == ledger.paid[i].base = 0 /\ ledger.paid[i].quote = 0

Earned(i) ==
  /\ ledger.paid[i].base = 0 \/ ledger.paid[i].quote = 0
  /\ placed[i].side = "Buy" /\ ledger.paid[i].base > 0 =>
       i \in DOMAIN orders /\ ledger.paid[i].base <= orders[i].acc
  /\ placed[i].side # "Buy" /\ ledger.paid[i].quote > 0 =>
       i \in DOMAIN orders /\ ledger.paid[i].quote <= Quote(1, orders[i].value)

PaidSound == \A i \in Ids : Earned(i) /\ (i \notin ledger.spent => Nothing(i))

MoneyInv ==
  /\ PaidSound /\ NoTransfers
  /\ \A e \in mempool : e.tx.fn # "transfer"

LEMMA PrivateIds ==
  ASSUME AllPrivate, WayInv PROVE \A i \in Ids : ~Public(i)
BY DEF AllPrivate, WayInv, Public

LEMMA QuoteGrows ==
  ASSUME NEW v \in Nat, NEW w \in Nat, v <= w
  PROVE  Quote(1, v) \in Nat /\ Quote(1, v) <= Quote(1, w)
<1>1. 1 * v <= w /\ 1 \in Nat
  OBVIOUS
<1>2. QED
  BY <1>1, QuoteIsNatural

LEMMA EarnedGrows ==
  ASSUME ledger \in Ledger, Grown(orders, orders'), UNCHANGED <<placed, ledger>>, PaidSound
  PROVE  PaidSound'
<1> SUFFICES ASSUME NEW i \in Ids PROVE Earned(i)' /\ (i \notin ledger.spent => Nothing(i)')
  BY DEF PaidSound
<1>1. ledger.paid[i].base \in Nat /\ ledger.paid[i].quote \in Nat
  BY DEF Ledger
<1>2. i \in DOMAIN orders =>
        /\ i \in DOMAIN orders' /\ orders[i].acc \in Nat /\ orders'[i].acc \in Nat
        /\ orders[i].acc <= orders'[i].acc
        /\ Quote(1, orders[i].value) \in Nat /\ Quote(1, orders'[i].value) \in Nat
        /\ Quote(1, orders[i].value) <= Quote(1, orders'[i].value)
  <2>1. i \in DOMAIN orders =>
          /\ i \in DOMAIN orders' /\ orders[i].acc \in Nat /\ orders'[i].acc \in Nat
          /\ orders[i].acc <= orders'[i].acc
          /\ orders[i].value \in Nat /\ orders'[i].value \in Nat
          /\ orders[i].value <= orders'[i].value /\ orders'[i].value <= orders'[i].value
    BY DEF Grown
  <2>2. QED
    BY <2>1, QuoteGrows
<1>3. QED
  BY <1>1, <1>2 DEF PaidSound, Earned, Nothing

(* A settlement that is accepted.                                          *)
LEMMA SettleEarns ==
  ASSUME ledger \in Ledger, EngineSound, PaidSound, \A i \in Ids : ~Public(i),
         NEW t \in Tx, t.fn = "settle",
         Backs(orders, {t.buy, t.sell}, t.price, t.amount),
         Accepts(ledger, t), ledger' = Effect(ledger, t), UNCHANGED <<placed, orders>>
  PROVE  PaidSound'
<1> DEFINE a == SettlePays(ledger, t)
           b == Close(a, {t.buy, t.sell}, 1)
           q == Quote(t.price, t.amount)
<1>1. /\ t.buy \in Ids /\ t.sell \in Ids /\ {t.buy, t.sell} \in SUBSET Ids
      /\ t.price \in Nat /\ t.amount \in Nat /\ 1 \in 0 .. 2
      /\ ~Public(t.buy) /\ ~Public(t.sell)
  BY DEF Tx
<1>2. /\ a \in Ledger /\ a.spent = ledger.spent
      /\ \A j \in Ids :
           /\ a.paid[j].base = ledger.paid[j].base + IF j = t.buy THEN t.amount ELSE 0
           /\ a.paid[j].quote = ledger.paid[j].quote + IF j = t.sell THEN q ELSE 0
  BY <1>1, SettlePaysIs
<1>3. ledger' = Rotate(b, t)
  BY DEF Effect, SettleEffect
<1> HIDE DEF a
<1>4. b \in Ledger /\ b.paid = a.paid /\ b.spent = a.spent \cup {i \in {t.buy, t.sell} : ~Public(i)}
  BY <1>1, <1>2, CloseIs
<1> HIDE DEF b
<1>5. ledger'.paid = a.paid /\ ledger'.spent = ledger.spent \cup {t.buy, t.sell}
  BY <1>1, <1>2, <1>3, <1>4, RotateIs
<1>6. /\ t.buy \notin ledger.spent /\ t.sell \notin ledger.spent
      /\ placed[t.buy].side = "Buy" /\ placed[t.sell].side = "Sell" /\ t.buy # t.sell
  BY <1>1 DEF Accepts, Inputs, Usable, MatchesOrders
<1>7. Nothing(t.buy) /\ Nothing(t.sell)
  BY <1>1, <1>6 DEF PaidSound
<1>8. /\ t.buy \in DOMAIN orders /\ t.amount <= orders[t.buy].acc
      /\ t.sell \in DOMAIN orders /\ q \in Nat /\ q <= Quote(1, orders[t.sell].value)
  <2>1. /\ t.buy \in DOMAIN orders /\ t.amount <= orders[t.buy].acc
        /\ t.sell \in DOMAIN orders /\ t.price * t.amount <= orders[t.sell].value
    BY DEF Backs
  <2>2. orders[t.sell].value \in Nat
    <3>1. Sound(orders[t.sell], RequestOf(placed[t.sell]))
      BY <2>1, Zenon DEF EngineSound
    <3>2. QED
      BY <3>1 DEF Sound
  <2>3. QED
    BY <1>1, <2>1, <2>2, QuoteIsNatural
<1> HIDE DEF q
<1>9. \A j \in Ids : ledger.paid[j].base \in Nat /\ ledger.paid[j].quote \in Nat
  BY DEF Ledger
<1>10. Earned(t.buy)' /\ Earned(t.sell)'
  BY <1>1, <1>2, <1>5, <1>6, <1>7, <1>8, <1>9 DEF Earned, Nothing
<1>11. ASSUME NEW j \in Ids, j # t.buy, j # t.sell
       PROVE  Earned(j)' /\ (j \notin ledger'.spent => Nothing(j)')
  <2>1. ledger'.paid[j].base = ledger.paid[j].base /\ ledger'.paid[j].quote = ledger.paid[j].quote
    BY <1>2, <1>5, <1>9, <1>11
  <2>2. QED
    BY <1>5, <1>11, <2>1 DEF PaidSound, Earned, Nothing
<1>12. QED
  BY <1>5, <1>10, <1>11 DEF PaidSound

(* A cancellation that is accepted.                                        *)
LEMMA CancelEarns ==
  ASSUME ledger \in Ledger, PaidSound, \A i \in Ids : ~Public(i), placed \in [Ids -> Post],
         NEW t \in Tx, t.fn = "cancel",
         Accepts(ledger, t), ledger' = Effect(ledger, t), UNCHANGED <<placed, orders>>
  PROVE  PaidSound'
<1> DEFINE i == t.id
           a == CancelPays(ledger, i)
           b == Close(a, {i}, 2)
<1>1. i \in Ids /\ {i} \in SUBSET Ids /\ ~Public(i) /\ placed[i] \in Post /\ 2 \in 0 .. 2
      /\ placed[i].side \in {"Buy", "Sell"}
  BY DEF Tx, Post
<1> HIDE DEF i
<1>2. /\ a \in Ledger /\ a.spent = ledger.spent
      /\ \A j \in Ids :
           /\ j # i => a.paid[j] = ledger.paid[j]
           /\ placed[i].side = "Buy" => a.paid[j].base = ledger.paid[j].base
           /\ placed[i].side = "Sell" => a.paid[j].quote = ledger.paid[j].quote
  BY <1>1, CancelPaysIs
<1>3. ledger' = Rotate(b, t)
  BY DEF Effect, CancelEffect, i
<1> HIDE DEF a
<1>4. b \in Ledger /\ b.paid = a.paid /\ b.spent = a.spent \cup {j \in {i} : ~Public(j)}
  BY <1>1, <1>2, CloseIs
<1> HIDE DEF b
<1>5. ledger'.paid = a.paid /\ ledger'.spent = ledger.spent \cup {i}
  BY <1>1, <1>2, <1>3, <1>4, RotateIs
<1>6. i \notin ledger.spent
  BY <1>1 DEF Accepts, Inputs, Usable, i
<1>7. Nothing(i)
  BY <1>1, <1>6 DEF PaidSound
<1>8. Earned(i)'
  BY <1>1, <1>2, <1>5, <1>7 DEF Earned, Nothing
<1>9. ASSUME NEW j \in Ids, j # i
      PROVE  Earned(j)' /\ (j \notin ledger'.spent => Nothing(j)')
  BY <1>2, <1>5, <1>9 DEF PaidSound, Earned, Nothing
<1>10. QED
  BY <1>5, <1>8, <1>9 DEF PaidSound

LEMMA PaidSoundNext ==
  ASSUME SettlementInv, ChainInv, AllPrivate, MoneyInv, [Next]_vars
  PROVE  PaidSound' /\ \A e \in mempool' : e.tx.fn # "transfer"
<1>1. /\ \A i \in Ids : ~Public(i)
      /\ placed \in [Ids -> Post] /\ UNCHANGED placed
      /\ Grown(orders, orders') /\ ledger \in Ledger /\ EngineSound
  BY PrivateIds, PlacedIsPosted, PlacedStays, EngineGoesOn
     DEF SettlementInv, CancelInv, ChainInv, EngineInv
<1>2. Quiet \/ SendsSound
  BY ChainSteps
<1>3. CASE Quiet
  BY <1>1, <1>3, EarnedGrows DEF MoneyInv, Quiet
<1>4. CASE SendsSound
  <2>1. PICK t : /\ TxSound(orders, t) /\ Sends(t) /\ UNCHANGED orders
                 /\ t.fn = "transfer" => ~NoTransfers \/ \E e \in mempool : e.tx = t
    BY <1>4 DEF SendsSound
  <2>2. t \in Tx /\ t.fn # "transfer"
    BY <2>1 DEF MoneyInv, TxSound
  <2>3. \A e \in mempool' : e.tx.fn # "transfer"
    BY <2>1, <2>2 DEF Sends, MoneyInv
  <2>4. CASE UNCHANGED ledger
    BY <1>1, <2>3, <2>4, EarnedGrows DEF MoneyInv
  <2>5. CASE Accepts(ledger, t) /\ ledger' = Effect(ledger, t)
    <3>1. CASE t.fn = "settle"
      <4>1. Backs(orders, {t.buy, t.sell}, t.price, t.amount)
        BY <2>1, <3>1 DEF TxSound
      <4>2. QED
        BY <1>1, <2>1, <2>2, <2>3, <2>5, <3>1, <4>1, SettleEarns DEF MoneyInv
    <3>2. CASE t.fn = "cancel"
      BY <1>1, <2>1, <2>2, <2>3, <2>5, <3>2, CancelEarns DEF MoneyInv
    <3>3. QED
      BY <2>2, <3>1, <3>2 DEF Tx
  <2>6. QED
    BY <2>1, <2>4, <2>5 DEF Sends
<1>5. QED
  BY <1>2, <1>3, <1>4

(* Without a public order no settlement and no handler is at a transfer.   *)
LEMMA NoTransfersNext ==
  ASSUME SettlementInv, ChainInv, AllPrivate, NoTransfers, [Next]_vars
  PROVE  NoTransfers'
<1>1. /\ \A i \in Ids : ~Public(i)
      /\ job \in [Settlers -> SoundJobs \cup {NoJob}] /\ handler \in [Ids -> Handler]
      /\ trades \in Seq(SoundTrades) /\ retryList \in Seq(SoundTrades)
  BY PrivateIds DEF SettlementInv, ChainInv, SettleInv, JobsSound, TradesSound
<1>2. \A maker, tk \in Ids : \A p, n :
        NewJob(maker, tk, p, n).step = "settle"
  BY <1>1 DEF NewJob, FirstStep
<1>3. CASE UNCHANGED <<job, handler>>
  BY <1>3 DEF NoTransfers
<1>4. ASSUME NEW s \in Settlers, NEW new, job' = [job EXCEPT ![s] = new],
             new.step \notin {"base", "quote"}, UNCHANGED handler
      PROVE  NoTransfers'
  BY <1>1, <1>4 DEF NoTransfers
<1>5. ASSUME NEW s \in Settlers, SettlePair(s), UNCHANGED cancelVars
      PROVE  NoTransfers'
  <2>1. ~TransferBase(s) /\ ~TransferQuote(s)
    BY <1>5 DEF TransferBase, TransferQuote, Transfer, At, NoTransfers
  <2>2. job[s] # NoJob /\ job[s] \in Job
    <3>1. job[s].step \in {"settle", "verify"}
      BY <1>5, <2>1 DEF SettlePair, Settle, VerifySettled, At
    <3>2. job[s] # NoJob
      BY <3>1 DEF NoJob
    <3>3. QED
      BY <1>1, <3>2 DEF SoundJobs
  <2>3. CASE Settle(s)
    <3>1. job'[s].step \in {"verify", "report"} /\ \A r \in Settlers \ {s} : job'[r] = job[r]
      BY <1>1, <2>2, <2>3 DEF Settle, Job
    <3>2. QED
      BY <1>5, <3>1 DEF NoTransfers, cancelVars
  <2>4. CASE VerifySettled(s)
    <3>1. job'[s].step = "report" /\ \A r \in Settlers \ {s} : job'[r] = job[r]
      BY <1>1, <2>2, <2>4 DEF VerifySettled, Goto, Job
    <3>2. QED
      BY <1>5, <3>1 DEF NoTransfers, cancelVars
  <2>5. QED
    BY <1>5, <2>1, <2>3, <2>4 DEF SettlePair
<1>6. ASSUME NEW i \in Ids, CancelHandler(i)
      PROVE  NoTransfers'
  <2>1. ~Refund(i) /\ UNCHANGED job
    BY <1>6 DEF Refund, HandlerAt, NoTransfers, CancelHandler, CancelRequest, CancelOnChain,
                VerifyCanceled, SubmitCancel, settleVars
  <2>2. CASE CancelRequest(i)
    <3>1. handler'[i].step = "cancel" /\ \A j \in Ids : j # i => handler'[j] = handler[j]
      BY <1>1, <2>2 DEF CancelRequest
    <3>2. QED
      BY <2>1, <3>1 DEF NoTransfers
  <2>3. ASSUME NEW step \in {"none", "verify", "submit"}, Continue(i, step)
        PROVE  NoTransfers'
    <3>1. step \in CancelSteps
      BY DEF CancelSteps
    <3>2. handler'[i].step = step /\ \A j \in Ids : j # i => handler'[j] = handler[j]
      BY <1>1, <2>3, <3>1, HandlerContinues
    <3>3. QED
      BY <2>1, <3>2 DEF NoTransfers
  <2>4. CASE CancelOnChain(i)
    <3> DEFINE step(r) == CASE r = "err" -> "none" [] Public(i) -> "verify"
                            [] OTHER -> "submit"
    <3>1. PICK r : Continue(i, step(r))
      BY <2>4 DEF CancelOnChain
    <3>2. step(r) \in {"none", "verify", "submit"}
      OBVIOUS
    <3> HIDE DEF step
    <3>3. QED
      BY <2>3, <3>1, <3>2
  <2>5. CASE VerifyCanceled(i) \/ SubmitCancel(i)
    <3>1. Continue(i, "submit") \/ Continue(i, "none")
      BY <2>5 DEF VerifyCanceled, SubmitCancel
    <3>2. QED
      BY <2>3, <3>1
  <2>6. QED
    BY <1>6, <2>1, <2>2, <2>4, <2>5 DEF CancelHandler
<1>7. CASE StartItem /\ UNCHANGED cancelVars
  <2> DEFINE new == NewJob(items[next].id, Subject, items[next].price, items[next].amount)
  <2>1. items[next].id \in Ids /\ Subject \in Ids
    BY <1>7, ItemToSettle DEF SettlementInv, StartItem
  <2>2. new.step = "settle" /\ job' = [job EXCEPT !["matcher"] = new]
    BY <1>2, <1>7, <2>1 DEF StartItem
  <2> HIDE DEF new
  <2>3. QED
    BY <1>4, <1>7, <2>2 DEF Settlers, cancelVars
<1>8. CASE RetryStart /\ UNCHANGED cancelVars
  <2> DEFINE t == Head(retryList)
             new == NewJob(t.maker, t.taker, t.price, t.amount)
  <2>1. t \in SoundTrades
    BY <1>1, <1>8, HeadTailProperties DEF RetryStart
  <2>2. t.maker \in Ids /\ t.taker \in Ids
    BY <2>1 DEF SoundTrades, Trade
  <2>3. new.step = "settle" /\ job' = [job EXCEPT !["retry"] = new]
    BY <1>2, <1>8, <2>2 DEF RetryStart
  <2> HIDE DEF new
  <2>4. QED
    BY <1>4, <1>8, <2>3 DEF Settlers, cancelVars
<1>9. CASE (FinishItem \/ RetryFinish) /\ UNCHANGED cancelVars
  <2>1. NoJob.step = "none"
    BY DEF NoJob
  <2>2. \E s \in Settlers : job' = [job EXCEPT ![s] = NoJob]
    BY <1>9 DEF FinishItem, RetryFinish, Settlers
  <2> HIDE DEF NoJob
  <2>3. QED
    BY <1>4, <1>9, <2>1, <2>2 DEF cancelVars
<1>10. CASE RetryRound /\ UNCHANGED cancelVars
  BY <1>3, <1>10 DEF RetryRound, cancelVars
<1>11. QED
  BY <1>3, <1>5, <1>6, <1>7, <1>8, <1>9, <1>10
     DEF Next, SettleBatch, RetryLoop, Settlers, settleVars, cancelVars, vars

LEMMA MoneyStarts == Init => MoneyInv
<1> SUFFICES ASSUME Init PROVE MoneyInv
  OBVIOUS
<1>1. /\ ledger = [status |-> [i \in Ids |-> 0], spent |-> {}, live |-> 0,
                   paid |-> [i \in Ids |-> [base |-> 0, quote |-> 0]]]
      /\ mempool = {} /\ handler = [i \in Ids |-> NoHandler]
      /\ job = [s \in Settlers |-> NoJob]
  BY DEF Init, LedgerInit, CancelInit, SettlementInit
<1>2. PaidSound
  BY <1>1 DEF PaidSound, Earned, Nothing
<1>3. NoTransfers
  BY <1>1 DEF NoTransfers, NoJob, NoHandler
<1>4. QED
  BY <1>1, <1>2, <1>3 DEF MoneyInv

LEMMA ChainInvariant == Spec => [](SettlementInv /\ ChainInv)
<1>1. Spec => []SettlementInv
  BY SettlementInvariant
<1>2. SettlementInv /\ ChainInv /\ [Next]_vars => ChainInv'
  BY ChainNext
<1>3. QED
  BY <1>1, <1>2, ChainStarts, PTL DEF Spec

LEMMA MoneyInvariant == Spec /\ AllPrivate => []MoneyInv
<1> SUFFICES ASSUME AllPrivate PROVE Spec => []MoneyInv
  OBVIOUS
<1>1. SettlementInv /\ ChainInv /\ MoneyInv /\ [Next]_vars => MoneyInv'
  BY PaidSoundNext, NoTransfersNext DEF MoneyInv
<1>2. QED
  BY <1>1, ChainInvariant, MoneyStarts, PTL DEF Spec

(* When every order was placed privately no trader is sent more than the   *)
(* order was matched for, whatever fails, is repeated, delayed or lost     *)
(* (settlement.go settles again without looking: the spent records of      *)
(* main.leo are what makes it safe).                                       *)
THEOREM PrivateOrdersPaidOnce == Spec /\ AllPrivate => []PaidOnce
<1>1. SettlementInv /\ ChainInv /\ MoneyInv => PaidOnce
  <2> SUFFICES ASSUME SettlementInv, ChainInv, MoneyInv, NEW i \in Ids
               PROVE IF placed[i].side = "Buy"
                     THEN ledger.paid[i].base <= IF i \in DOMAIN orders THEN orders[i].acc ELSE 0
                     ELSE ledger.paid[i].quote <=
                            IF i \in DOMAIN orders THEN Quote(1, orders[i].value) ELSE 0
    BY DEF PaidOnce, Received
  <2>1. Earned(i) /\ ledger.paid[i].base \in Nat /\ ledger.paid[i].quote \in Nat
    BY DEF MoneyInv, PaidSound, ChainInv, Ledger
  <2>2. i \in DOMAIN orders => orders[i].acc \in Nat /\ Quote(1, orders[i].value) \in Nat
    <3>1. i \in DOMAIN orders => Sound(orders[i], RequestOf(placed[i]))
      BY Zenon DEF SettlementInv, EngineInv, EngineSound
    <3>2. i \in DOMAIN orders => orders[i].acc \in Nat /\ orders[i].value \in Nat
      BY <3>1 DEF Sound
    <3>3. QED
      BY <3>2, QuoteGrows
  <2>3. QED
    BY <2>1, <2>2 DEF Earned
<1>2. QED
  BY <1>1, ChainInvariant, MoneyInvariant, PTL

(* When every order was placed privately its escrow is returned or used    *)
(* for trades, never both, however a cancellation races with settlements.  *)
THEOREM PrivateOrdersRefundedOrPaid == Spec /\ AllPrivate => []RefundedOrPaid
<1>1. MoneyInv => RefundedOrPaid
  BY DEF MoneyInv, PaidSound, Earned, RefundedOrPaid, Received
<1>2. QED
  BY <1>1, MoneyInvariant, PTL

-----------------------------------------------------------------------------
(* The types, and the bounds of the two channels.                          *)
Kept ==
  /\ po \in [Ids -> {"none", "order", "cancel"}]
  /\ pending \subseteq Ids /\ recording \subseteq posted
  /\ Len(pool) <= PoolCap /\ Len(channel) <= ChannelCap
  /\ stage \in {"take", "match", "record", "settle"}

LEMMA SubmitKeeps ==
  ASSUME Kept, pool \in Seq(Command), NEW i \in Ids, NEW kind \in {"order", "cancel"},
         Submitted(kind, i) \/ Refused(kind, i), recording' \subseteq posted',
         UNCHANGED <<channel, stage>>
  PROVE  Kept'
<1>1. po' \in [Ids -> {"none", "order", "cancel"}] /\ pending' \subseteq Ids
  BY DEF Kept, Submitted, Refused
<1>2. Len(pool') <= PoolCap
  <2>1. CASE Submitted(kind, i)
    <3>1. [kind |-> kind, id |-> i] \in Command
      BY DEF Command
    <3>2. Len(pool') = Len(pool) + 1 /\ Len(pool) \in Nat
      BY <2>1, <3>1, AppendProperties, LenProperties DEF Submitted
    <3>3. QED
      BY <2>1, <3>2, PoolAssumption DEF Submitted
  <2>2. CASE Refused(kind, i)
    BY <2>2 DEF Refused, Kept
  <2>3. QED
    BY <2>1, <2>2
<1>3. QED
  BY <1>1, <1>2 DEF Kept

LEMMA ClientKeeps ==
  ASSUME Kept, pool \in Seq(Command), NEW i \in Ids, Client(i)
  PROVE  Kept'
<1>1. CASE PostOrder(i)
  <2>1. /\ Submitted("order", i) \/ Refused("order", i)
        /\ recording' \subseteq posted' /\ UNCHANGED <<channel, stage>>
    BY <1>1 DEF PostOrder, Kept, matcherVars
  <2>2. QED
    BY <2>1, SubmitKeeps
<1>2. CASE RecordSubmit(i)
  BY <1>2 DEF RecordSubmit, Kept, matcherVars
<1>3. QED
  BY <1>1, <1>2 DEF Client

LEMMA EventLoopKeeps ==
  ASSUME Kept, WayInv, EventLoop
  PROVE  Kept'
<1>1. CASE Receive
  <2>1. Len(pool') = Len(pool) - 1 /\ Len(pool) \in Nat
    BY <1>1, HeadTailProperties, LenProperties DEF Receive, WayInv
  <2>2. PoolCap \in Nat
    BY PoolAssumption
  <2>3. UNCHANGED <<po, pending, recording, posted, channel, stage>>
    BY <1>1 DEF Receive, recordVars, matcherVars
  <2>4. Len(pool') <= PoolCap
    BY <2>1, <2>2 DEF Kept
  <2>5. QED
    BY <2>3, <2>4 DEF Kept
<1>2. CASE Send
  <2>1. loop.command \in Command
    BY <1>2 DEF Send, WayInv, Receiving
  <2>2. Len(channel') = Len(channel) + 1 /\ Len(channel) \in Nat /\ Len(channel) < ChannelCap
    BY <1>2, <2>1, AppendProperties, LenProperties DEF Send, WayInv
  <2>3. Len(channel') <= ChannelCap
    BY <2>2, PoolAssumption
  <2>4. UNCHANGED <<po, pending, recording, posted, pool, stage>>
    BY <1>2 DEF Send, recordVars, matcherVars
  <2>5. QED
    BY <2>3, <2>4 DEF Kept
<1>3. CASE Complete
  BY <1>3 DEF Complete, Kept, recordVars, matcherVars
<1>4. QED
  BY <1>1, <1>2, <1>3 DEF EventLoop

LEMMA MatcherKeeps ==
  ASSUME Kept, WayInv, MatcherStep
  PROVE  Kept'
<1>1. /\ UNCHANGED <<po, pending, recording, posted, pool>>
      /\ stage' \in {"take", "match", "record", "settle"}
  BY DEF MatcherStep, Take, Match, RecordMatch, recordVars, handlerVars
<1>2. Len(channel') <= ChannelCap
  <2>1. CASE Take
    <3>1. Len(channel') = Len(channel) - 1 /\ Len(channel) \in Nat
      BY <2>1, HeadTailProperties, LenProperties DEF Take, WayInv
    <3>2. QED
      BY <3>1, PoolAssumption DEF Kept
  <2>2. CASE Match \/ RecordMatch
    BY <2>2 DEF Match, RecordMatch, handlerVars, Kept
  <2>3. QED
    BY <2>1, <2>2 DEF MatcherStep
<1>3. QED
  BY <1>1, <1>2 DEF Kept

LEMMA SettlementKeeps ==
  ASSUME Kept, JobInv, SettleBatch \/ RetryLoop
  PROVE  Kept'
<1>1. ASSUME NEW s \in Settlers, SettlePair(s)
      PROVE  Kept'
  BY <1>1, SettlePairKeeps DEF Kept, poolVars, handlerVars, recordVars, matcherVars
<1>2. CASE StartItem \/ FinishItem \/ RetryRound \/ RetryStart \/ RetryFinish
  BY <1>2 DEF StartItem, FinishItem, RetryRound, RetryStart, RetryFinish, Kept, handlerVars,
              poolVars, recordVars, matcherVars
<1>3. QED
  BY <1>1, <1>2 DEF SettleBatch, RetryLoop, Settlers

LEMMA CancelHandlerKeptBounds ==
  ASSUME Kept, WayInv, NEW i \in Ids, CancelHandler(i)
  PROVE  Kept'
<1>1. CASE SubmitCancel(i)
  <2>1. UNCHANGED <<channel, stage, recording, posted>>
    BY <1>1 DEF SubmitCancel, matcherVars
  <2>2. CASE Submitted("cancel", i) \/ Refused("cancel", i)
    BY <2>1, <2>2, SubmitKeeps DEF WayInv, Kept
  <2>3. QED
    BY <1>1, <2>1, <2>2 DEF SubmitCancel, Kept
<1>2. CASE CancelRequest(i) \/ Refund(i) \/ CancelOnChain(i) \/ VerifyCanceled(i)
  BY <1>2 DEF CancelRequest, Refund, CancelOnChain, VerifyCanceled, Kept, poolVars,
              handlerVars, recordVars, matcherVars
<1>3. QED
  BY <1>1, <1>2 DEF CancelHandler

LEMMA KeptInvariant == Spec => [](SettlementInv /\ Kept)
<1>1. Init => Kept
  BY PoolAssumption DEF Init, PoolInit, Kept
<1>2. SettlementInv /\ Kept /\ [Next]_vars => Kept'
  <2> SUFFICES ASSUME SettlementInv, Kept, [Next]_vars PROVE Kept'
    OBVIOUS
  <2>1. WayInv /\ JobInv
    BY DEF SettlementInv
  <2>2. CASE UNCHANGED vars \/ (Chain /\ UNCHANGED poolVars)
    BY <2>2 DEF vars, Kept, poolVars, handlerVars, recordVars, matcherVars
  <2>3. QED
    BY <2>1, <2>2, ClientKeeps, EventLoopKeeps, MatcherKeeps, SettlementKeeps,
       CancelHandlerKeptBounds DEF Next, WayInv
<1>3. QED
  BY <1>1, <1>2, SettlementInvariant, PTL DEF Spec

(* The types of the whole state: the pool and the channel of the pair stay *)
(* within their capacities, only what was submitted is being recorded, and *)
(* every job, trade, handler and transaction is about orders there are.    *)
THEOREM AleoTypes == Spec => []TypeOK
<1>1. SettlementInv /\ ChainInv /\ Kept => TypeOK
  <2> SUFFICES ASSUME SettlementInv, ChainInv, Kept PROVE TypeOK
    OBVIOUS
  <2>1. WayInv /\ RecordsSound /\ EngineInv /\ Settling /\ Numbers /\ JobsSound /\ TradesSound
    BY DEF SettlementInv, SettleInv
  <2>2. LedgerTypeOK
    <3>1. \A t \in Tx : Inputs(t) \subseteq Ids
      BY DEF Tx, Inputs
    <3>2. \A e \in mempool : Inputs(e.tx) \subseteq Ids
      BY <3>1 DEF ChainInv, TxSound
    <3>3. QED
      BY <2>1, <3>2 DEF ChainInv, LedgerTypeOK, WayInv, Numbers
  <2>3. trades \in Seq(Trade) /\ retryList \in Seq(Trade)
    <3>1. SoundTrades \subseteq Trade
      BY DEF SoundTrades
    <3>2. QED
      BY <2>1, <3>1, SeqMonotonic DEF TradesSound
  <2>4. next \in 1 .. Len(items) + 1
    <3>1. Len(items) \in Nat
      BY <2>1, LenProperties DEF EngineInv, Matched
    <3>2. QED
      BY <2>1, <3>1 DEF Settling
  <2>5. PoolTypeOK
    BY <2>1, <2>3, <2>4 DEF PoolTypeOK, Kept, WayInv, RecordsSound
  <2>6. SettlementTypeOK
    BY <2>1, <2>3 DEF SettlementTypeOK, JobsSound, SoundJobs, Numbers
  <2>7. CancelTypeOK
    BY DEF ChainInv, CancelTypeOK
  <2>8. QED
    BY <2>2, <2>5, <2>6, <2>7 DEF TypeOK
<1>2. QED
  BY <1>1, ChainInvariant, KeptInvariant, PTL
=============================================================================
