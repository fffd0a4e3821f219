----------------------------- MODULE AleoProofs -----------------------------
(***************************************************************************)
(* What holds of AleoDex for every set of orders, every placement on chain *)
(* and every capacity.                                                     *)
(***************************************************************************)
EXTENDS AleoDex, SequenceTheorems, FunctionTheorems,
        FiniteSetTheorems, TLAPS

-----------------------------------------------------------------------------
(* The sequence of the commands on their way to the matcher.               *)

LEMMA AppendToPipe ==
  ASSUME NEW S, NEW a \in Seq(S), NEW h \in Seq(S), NEW p \in Seq(S), NEW e \in S
  PROVE  /\ a \o h \o p \in Seq(S)
         /\ a \o h \o Append(p, e) = Append(a \o h \o p, e)
<1> DEFINE b == a \o h
<1>1. b \in Seq(S) /\ <<e>> \in Seq(S)
  BY ConcatProperties
<1>2. b \o p \in Seq(S)
  BY <1>1, ConcatProperties
<1>3. Append(p, e) = p \o <<e>> /\ Append(b \o p, e) = (b \o p) \o <<e>>
  BY <1>2, AppendIsConcat
<1>4. (b \o p) \o <<e>> = b \o (p \o <<e>>)
  BY <1>1, ConcatAssociative
<1>5. QED
  BY <1>2, <1>3, <1>4

LEMMA HeadThenTail ==
  ASSUME NEW S, NEW s \in Seq(S), s # <<>>
  PROVE  <<Head(s)>> \in Seq(S) /\ <<Head(s)>> \o Tail(s) = s
<1>1. /\ <<Head(s)>> \in Seq(S) /\ Len(<<Head(s)>>) = 1 /\ <<Head(s)>>[1] = s[1]
      /\ Tail(s) \in Seq(S) /\ Len(Tail(s)) = Len(s) - 1 /\ Len(s) \in Nat
      /\ \A k \in 1 .. Len(Tail(s)) : Tail(s)[k] = s[k + 1]
  BY HeadTailProperties, LenProperties
<1> DEFINE t == <<Head(s)>> \o Tail(s)
<1>2. /\ t \in Seq(S) /\ Len(t) = 1 + Len(Tail(s))
      /\ \A k \in 1 .. 1 + Len(Tail(s)) :
           t[k] = IF k <= 1 THEN <<Head(s)>>[k] ELSE Tail(s)[k - 1]
  BY <1>1, ConcatProperties
<1>3. Len(t) = Len(s)
  BY <1>1, <1>2
<1>4. ASSUME NEW k \in 1 .. Len(t) PROVE t[k] = s[k]
  <2>1. CASE k = 1
    BY <1>1, <1>2, <2>1
  <2>2. CASE k # 1
    <3>1. k - 1 \in 1 .. Len(Tail(s)) /\ t[k] = Tail(s)[k - 1]
      BY <1>1, <1>2, <1>3, <2>2
    <3>2. Tail(s)[k - 1] = s[(k - 1) + 1]
      BY <1>1, <3>1
    <3>3. QED
      BY <3>1, <3>2
  <2>3. QED
    BY <2>1, <2>2
<1>5. t = s
  BY <1>2, <1>3, <1>4, SeqEqual
<1>6. QED
  BY <1>1, <1>5

LEMMA ReceiveInPipe ==
  ASSUME NEW S, NEW a \in Seq(S), NEW p \in Seq(S), p # <<>>
  PROVE  a \o <<Head(p)>> \o Tail(p) = a \o <<>> \o p
<1>1. <<Head(p)>> \in Seq(S) /\ Tail(p) \in Seq(S) /\ <<Head(p)>> \o Tail(p) = p
  BY HeadThenTail, HeadTailProperties
<1>2. (a \o <<Head(p)>>) \o Tail(p) = a \o p
  BY <1>1, ConcatAssociative
<1>3. a \o <<>> = a
  BY ConcatEmptySeq
<1>4. QED
  BY <1>2, <1>3

LEMMA SendInPipe ==
  ASSUME NEW S, NEW a \in Seq(S), NEW p \in Seq(S), NEW e \in S
  PROVE  Append(a, e) \o <<>> \o p = a \o <<e>> \o p
<1>1. Append(a, e) \in Seq(S) /\ Append(a, e) = a \o <<e>>
  BY AppendIsConcat, AppendProperties
<1>2. Append(a, e) \o <<>> = Append(a, e)
  BY <1>1, ConcatEmptySeq
<1>3. QED
  BY <1>1, <1>2

LEMMA TakeFromPipe ==
  ASSUME NEW a \in Seq(Command), NEW h \in Seq(Command), NEW p \in Seq(Command),
         a # <<>>
  PROVE  /\ a \o h \o p # <<>>
         /\ Head(a \o h \o p) = Head(a)
         /\ Tail(a) \o h \o p = Tail(a \o h \o p)
<1> DEFINE e == <<Head(a)>>
           r == Tail(a)
           t == (r \o h) \o p
<1>1. e \in Seq(Command) /\ r \in Seq(Command) /\ e \o r = a
  BY HeadThenTail, HeadTailProperties
<1>2. r \o h \in Seq(Command) /\ t \in Seq(Command) /\ e \o t \in Seq(Command)
  BY <1>1, ConcatProperties
<1>3. (a \o h) \o p = e \o t
  <2>1. (e \o r) \o h = e \o (r \o h)
    BY <1>1, ConcatAssociative
  <2>2. (e \o (r \o h)) \o p = e \o ((r \o h) \o p)
    BY <1>1, <1>2, ConcatAssociative
  <2>3. QED
    BY <1>1, <2>1, <2>2
<1>4. /\ Len(e) = 1 /\ e[1] = Head(a) /\ Len(t) \in Nat
      /\ Len(e \o t) = 1 + Len(t)
      /\ \A k \in 1 .. 1 + Len(t) : (e \o t)[k] = IF k <= 1 THEN e[k] ELSE t[k - 1]
  BY <1>1, <1>2, ConcatProperties, LenProperties
<1>5. e \o t # <<>> /\ Head(e \o t) = Head(a)
  BY <1>2, <1>4, EmptySeq
<1>6. /\ Tail(e \o t) \in Seq(Command) /\ Len(Tail(e \o t)) = Len(t)
      /\ \A k \in 1 .. Len(t) : Tail(e \o t)[k] = (e \o t)[k + 1]
  BY <1>2, <1>4, <1>5, HeadTailProperties
<1>7. ASSUME NEW k \in 1 .. Len(t) PROVE Tail(e \o t)[k] = t[k]
  <2>1. k + 1 \in 1 .. 1 + Len(t) /\ ~(k + 1 <= 1) /\ (k + 1) - 1 = k
    BY <1>4
  <2>2. (e \o t)[k + 1] = t[k]
    BY <1>4, <2>1
  <2>3. QED
    BY <1>6, <2>2
<1>8. Tail(e \o t) = t
  BY <1>2, <1>6, <1>7, SeqEqual
<1>9. QED
  BY <1>3, <1>5, <1>8

(* A sequence of commands holds the order commands of a set once each, and *)
(* cancellations besides.                                                  *)
OrderCommand(i) == [kind |-> "order", id |-> i]

Carries(q, S) ==
  /\ q \in Seq(Command)
  /\ \A k \in 1 .. Len(q) : q[k].kind = "order" => q[k].id \in S
  /\ \A i \in S : \E k \in 1 .. Len(q) : q[k] = OrderCommand(i)
  /\ \A k, l \in 1 .. Len(q) : q[k].kind = "order" /\ q[k] = q[l] => k = l

LEMMA CommandFields ==
  ASSUME NEW c \in Command
  PROVE  /\ c.kind \in {"order", "cancel"} /\ c.id \in Ids
         /\ c = [kind |-> c.kind, id |-> c.id]
         /\ c.kind = "order" => c = OrderCommand(c.id)
BY DEF Command, OrderCommand

LEMMA CarriesNothing == Carries(<<>>, {})
BY EmptySeq DEF Carries

LEMMA CarriesOneMore ==
  ASSUME NEW q, NEW S, Carries(q, S), NEW c \in Command, NEW T,
         \/ c.kind = "cancel" /\ T = S
         \/ c.kind = "order" /\ c.id \notin S /\ T = S \cup {c.id}
  PROVE  Carries(Append(q, c), T)
<1> DEFINE r == Append(q, c)
           n == Len(q) + 1
<1>1. /\ q \in Seq(Command) /\ Len(q) \in Nat
      /\ \A k \in 1 .. Len(q) : q[k] \in Command
  BY LenProperties, ElementOfSeq DEF Carries
<1>2. /\ r \in Seq(Command) /\ Len(r) = n /\ r[n] = c
      /\ \A k \in 1 .. Len(q) : r[k] = q[k]
  BY <1>1, AppendProperties
<1>3. \A k \in 1 .. n : k = n \/ k \in 1 .. Len(q)
  BY <1>1
<1>4. n \in 1 .. n /\ \A k \in 1 .. Len(q) : k \in 1 .. n /\ k # n
  BY <1>1
<1> HIDE DEF r, n
<1>5. ASSUME NEW k \in 1 .. n, r[k].kind = "order" PROVE r[k].id \in T
  <2>1. CASE k = n
    BY <1>2, <1>5, <2>1
  <2>2. CASE k \in 1 .. Len(q)
    BY <1>2, <1>5, <2>2 DEF Carries
  <2>3. QED
    BY <1>3, <2>1, <2>2
<1>6. ASSUME NEW i \in T PROVE \E k \in 1 .. n : r[k] = OrderCommand(i)
  <2>1. CASE i \in S
    <3>1. PICK k \in 1 .. Len(q) : q[k] = OrderCommand(i)
      BY <2>1 DEF Carries
    <3>2. QED
      BY <1>2, <1>4, <3>1
  <2>2. CASE i \notin S
    BY <1>2, <1>4, <2>2, CommandFields
  <2>3. QED
    BY <2>1, <2>2
<1>7. ASSUME NEW k \in 1 .. n, NEW l \in 1 .. n, r[k].kind = "order", r[k] = r[l]
      PROVE  k = l
  <2>1. CASE k = n /\ l # n
    BY <1>2, <1>3, <1>7, <2>1 DEF Carries
  <2>2. CASE k # n /\ l = n
    BY <1>2, <1>3, <1>7, <2>2 DEF Carries
  <2>3. CASE k # n /\ l # n
    BY <1>2, <1>3, <1>7, <2>3 DEF Carries
  <2>4. QED
    BY <2>1, <2>2, <2>3
<1>8. QED
  BY <1>2, <1>5, <1>6, <1>7 DEF Carries, r

LEMMA CarriesOneLess ==
  ASSUME NEW q, NEW S, Carries(q, S), q # <<>>
  PROVE  /\ Head(q) \in Command
         /\ Head(q).kind = "order" =>
              Head(q).id \in S /\ Carries(Tail(q), S \ {Head(q).id})
         /\ Head(q).kind = "cancel" => Carries(Tail(q), S)
<1> DEFINE c == Head(q)
           r == Tail(q)
           n == Len(r)
<1>1. /\ q \in Seq(Command) /\ Len(q) \in Nat /\ c = q[1] /\ c \in Command
      /\ \A k \in 1 .. Len(q) : q[k] \in Command
  BY LenProperties, ElementOfSeq, HeadTailProperties DEF Carries
<1>2. /\ r \in Seq(Command) /\ n = Len(q) - 1 /\ n \in Nat
      /\ \A k \in 1 .. n : r[k] = q[k + 1]
  BY <1>1, HeadTailProperties, LenProperties
<1>3. 1 \in 1 .. Len(q) /\ \A k \in 1 .. n : k + 1 \in 1 .. Len(q) /\ k + 1 # 1
  BY <1>1, <1>2
<1>4. \A k \in 1 .. Len(q) : k # 1 => k - 1 \in 1 .. n /\ (k - 1) + 1 = k
  BY <1>1, <1>2
<1> HIDE DEF c, r, n
<1>5. c.kind = "order" => c.id \in S
  BY <1>1, <1>3 DEF Carries
<1>6. ASSUME NEW k \in 1 .. n, r[k].kind = "order"
      PROVE  r[k].id \in S /\ (c.kind = "order" => r[k].id # c.id)
  <2>1. r[k] = q[k + 1] /\ q[k + 1].kind = "order" /\ q[k + 1].id \in S
    BY <1>2, <1>3, <1>6 DEF Carries
  <2>2. c.kind = "order" /\ r[k].id = c.id => q[k + 1] = q[1]
    BY <1>1, <1>3, <2>1, CommandFields
  <2>3. QED
    BY <1>3, <2>1, <2>2 DEF Carries
<1>7. ASSUME NEW i \in S, c # OrderCommand(i)
      PROVE  \E k \in 1 .. n : r[k] = OrderCommand(i)
  <2>1. PICK k \in 1 .. Len(q) : q[k] = OrderCommand(i)
    BY DEF Carries
  <2>2. k # 1
    BY <1>1, <1>7, <2>1
  <2>3. r[k - 1] = OrderCommand(i) /\ k - 1 \in 1 .. n
    BY <1>2, <1>4, <2>1, <2>2
  <2>4. QED
    BY <2>3
<1>8. ASSUME NEW k \in 1 .. n, NEW l \in 1 .. n, r[k].kind = "order", r[k] = r[l]
      PROVE  k = l
  <2>1. k + 1 = l + 1
    BY <1>2, <1>3, <1>8 DEF Carries
  <2>2. k \in Int /\ l \in Int
    BY <1>2
  <2>3. QED
    BY <2>1, <2>2
<1>9. ASSUME c.kind = "order" PROVE Carries(r, S \ {c.id})
  <2>1. \A i \in S \ {c.id} : c # OrderCommand(i)
    BY <1>1, CommandFields DEF OrderCommand
  <2>2. \A i \in S \ {c.id} : \E k \in 1 .. n : r[k] = OrderCommand(i)
    BY <1>7, <2>1
  <2>3. \A k \in 1 .. n : r[k].kind = "order" => r[k].id \in S \ {c.id}
    BY <1>6, <1>9
  <2>4. QED
    BY <1>2, <1>8, <2>2, <2>3 DEF Carries, n
<1>10. ASSUME c.kind = "cancel" PROVE Carries(r, S)
  <2>1. \A i \in S : c # OrderCommand(i)
    BY <1>10 DEF OrderCommand
  <2>2. \A i \in S : \E k \in 1 .. n : r[k] = OrderCommand(i)
    BY <1>7, <2>1
  <2>3. QED
    BY <1>2, <1>6, <1>8, <2>2 DEF Carries, n
<1>11. QED
  BY <1>1, <1>5, <1>9, <1>10 DEF c, r

-----------------------------------------------------------------------------
(* The inductive invariant of the way to the matcher: the channel, what    *)
(* the event loop holds and the pool's channel hold the accepted orders    *)
(* that the engine has not received, once each; and a match is at work     *)
(* only while the matcher goroutine is in GenMatchResult.                  *)
Pipe == channel \o Held \o pool

Waiting == posted \ DOMAIN orders

WayInv ==
  /\ placed \in Placements
  /\ channel \in Seq(Command) /\ Held \in Seq(Command) /\ pool \in Seq(Command)
  /\ loop \in {Receiving} \cup [step: {"send", "complete"}, command: Command]
  /\ posted \subseteq Ids /\ DOMAIN orders \subseteq posted
  /\ Carries(Pipe, Waiting)
  /\ stage # "match" => taker = M!None /\ ~halted

wayVars == <<placed, channel, loop, pool, posted, stage, engineVars>>

LEMMA WayInit == Init => WayInv
<1> SUFFICES ASSUME Init PROVE WayInv
  OBVIOUS
<1> USE DEF Init, LedgerInit, PoolInit, M!Init
<1>1. channel = <<>> /\ pool = <<>> /\ Held = <<>> /\ posted = {} /\ DOMAIN orders = {}
  BY DEF Held, Receiving
<1>2. Pipe = <<>> /\ Waiting = {}
  BY <1>1, ConcatEmptySeq, EmptySeq DEF Pipe, Waiting
<1>3. Carries(Pipe, Waiting)
  BY <1>2, CarriesNothing
<1>4. QED
  BY <1>1, <1>3, EmptySeq DEF WayInv, Receiving, M!None

LEMMA WayStutter == WayInv /\ UNCHANGED wayVars => WayInv'
BY DEF WayInv, wayVars, engineVars, Pipe, Held, Waiting

(* What the pool accepts joins the end.                                    *)
LEMMA WaySubmitted ==
  ASSUME WayInv, NEW i \in Ids, NEW kind \in {"order", "cancel"},
         Submitted(kind, i), UNCHANGED <<placed, channel, loop, stage, engineVars>>,
         \/ kind = "order" /\ i \notin posted /\ posted' = posted \cup {i}
         \/ kind = "cancel" /\ UNCHANGED posted
  PROVE  WayInv'
<1> DEFINE c == [kind |-> kind, id |-> i]
<1>1. c \in Command /\ pool' = Append(pool, c) /\ Held' = Held
  BY DEF Submitted, Command, Held
<1>2. pool' \in Seq(Command) /\ Pipe' = Append(Pipe, c)
  BY <1>1, AppendProperties, AppendToPipe DEF Pipe, WayInv
<1>3. \/ c.kind = "cancel" /\ Waiting' = Waiting
      \/ c.kind = "order" /\ c.id \notin Waiting /\ Waiting' = Waiting \cup {c.id}
  BY DEF Waiting, WayInv, engineVars
<1>4. Carries(Append(Pipe, c), Waiting')
  BY <1>1, <1>3, CarriesOneMore DEF WayInv
<1>5. QED
  BY <1>1, <1>2, <1>4 DEF WayInv, engineVars

LEMMA WayRefused ==
  ASSUME WayInv, NEW i, NEW kind, Refused(kind, i),
         UNCHANGED <<placed, channel, loop, stage, posted, engineVars>>
  PROVE  WayInv'
BY WayStutter DEF Refused, wayVars

LEMMA WayReceive == WayInv /\ Receive => WayInv'
<1> SUFFICES ASSUME WayInv, Receive PROVE WayInv'
  OBVIOUS
<1>1. /\ loop = Receiving /\ pool # <<>> /\ Held = <<>>
      /\ pool' = Tail(pool) /\ Held' = <<Head(pool)>>
      /\ loop' = [step |-> "send", command |-> Head(pool)] /\ UNCHANGED channel
  BY DEF Receive, Held, Receiving
<1>2. Head(pool) \in Command /\ Held' \in Seq(Command) /\ pool' \in Seq(Command)
  BY <1>1, HeadTailProperties, HeadThenTail DEF WayInv
<1>3. Pipe' = Pipe
  BY <1>1, ReceiveInPipe DEF Pipe, WayInv
<1>4. Waiting' = Waiting
  BY DEF Receive, Waiting, engineVars
<1>5. QED
  BY <1>1, <1>2, <1>3, <1>4
     DEF WayInv, Receive, matcherVars, ledgerVars, engineVars

LEMMA WaySend == WayInv /\ Send => WayInv'
<1> SUFFICES ASSUME WayInv, Send PROVE WayInv'
  OBVIOUS
<1>1. /\ loop.step = "send" /\ loop.command \in Command
      /\ Held = <<loop.command>> /\ channel' = Append(channel, loop.command)
  BY DEF Send, Held, WayInv, Receiving
<1>2. /\ loop' \in [step: {"send", "complete"}, command: Command]
      /\ Held' = <<>> /\ UNCHANGED pool
  <2>1. loop' = [loop EXCEPT !.step = "complete"]
    BY DEF Send
  <2>2. loop \in [step: {"send", "complete"}, command: Command]
    BY <1>1 DEF WayInv, Receiving
  <2>3. QED
    BY <2>1, <2>2 DEF Held, Send
<1>3. channel' \in Seq(Command) /\ Held' \in Seq(Command)
  BY <1>1, <1>2, AppendProperties, EmptySeq DEF WayInv
<1>4. Pipe' = Pipe
  BY <1>1, <1>2, SendInPipe DEF Pipe, WayInv
<1>5. Waiting' = Waiting
  BY DEF Send, Waiting, engineVars
<1>6. QED
  BY <1>2, <1>3, <1>4, <1>5
     DEF WayInv, Send, matcherVars, ledgerVars, engineVars

(* The matcher goroutine takes the first command: an order that is new to  *)
(* an idle engine.                                                         *)
LEMMA TakeFacts ==
  ASSUME WayInv, Take
  PROVE  /\ Head(channel) \in Command
         /\ Pipe # <<>> /\ Head(Pipe) = Head(channel) /\ Pipe' = Tail(Pipe)
         /\ channel' \in Seq(Command) /\ UNCHANGED <<loop, pool, posted, placed>>
         /\ taker = M!None /\ ~halted
<1>1. stage = "take" /\ channel # <<>> /\ channel' = Tail(channel)
  BY DEF Take
<1>2. UNCHANGED <<loop, pool, posted, placed>> /\ Held' = Held
  BY DEF Take, Held, ledgerVars
<1>3. /\ channel \in Seq(Command) /\ Held \in Seq(Command) /\ pool \in Seq(Command)
      /\ taker = M!None /\ ~halted
  BY <1>1 DEF WayInv
<1>4. Head(channel) \in Command /\ channel' \in Seq(Command)
  BY <1>1, <1>3, HeadTailProperties
<1>5. /\ channel \o Held \o pool # <<>>
      /\ Head(channel \o Held \o pool) = Head(channel)
      /\ Tail(channel) \o Held \o pool = Tail(channel \o Held \o pool)
  BY <1>1, <1>3, TakeFromPipe
<1>6. Pipe # <<>> /\ Head(Pipe) = Head(channel) /\ Pipe' = Tail(Pipe)
  BY <1>1, <1>2, <1>5 DEF Pipe
<1>7. QED
  BY <1>2, <1>3, <1>4, <1>6

LEMMA WayTake == WayInv /\ Take => WayInv'
<1> SUFFICES ASSUME WayInv, Take PROVE WayInv'
  OBVIOUS
<1> DEFINE c == Head(channel)
<1>1. /\ c \in Command /\ c.kind \in {"order", "cancel"}
      /\ Pipe # <<>> /\ Head(Pipe) = c /\ Pipe' = Tail(Pipe)
      /\ channel' \in Seq(Command) /\ UNCHANGED <<loop, pool, posted, placed>>
      /\ taker = M!None /\ ~halted
  BY TakeFacts, CommandFields
<1>2. Held' = Held
  BY <1>1 DEF Held
<1>3. CASE /\ c.kind = "order"
           /\ M!StartMatching(c.id, RequestOf(placed[c.id]))
           /\ stage' = "match"
  <2>1. DOMAIN orders' = DOMAIN orders \cup {c.id}
    BY <1>3 DEF M!StartMatching, M!Record
  <2>2. Waiting' = Waiting \ {c.id}
    BY <1>1, <2>1 DEF Waiting
  <2>3. c.id \in Waiting /\ Carries(Pipe', Waiting')
    BY <1>1, <1>3, <2>2, CarriesOneLess DEF WayInv
  <2>4. QED
    BY <1>1, <1>2, <1>3, <2>1, <2>3 DEF WayInv, Waiting
<1>4. CASE /\ c.kind = "cancel"
           /\ M!Cancel(0, c.id)
           /\ stage' = "record"
  <2>1. DOMAIN orders' = DOMAIN orders /\ UNCHANGED <<taker, halted>>
    BY <1>4 DEF M!Cancel
  <2>2. Waiting' = Waiting
    BY <1>1, <2>1 DEF Waiting
  <2>3. Carries(Pipe', Waiting')
    BY <1>1, <1>4, <2>2, CarriesOneLess DEF WayInv
  <2>4. QED
    BY <1>1, <1>2, <2>1, <2>3 DEF WayInv
<1>5. QED
  BY <1>3, <1>4 DEF Take

(* A step of a match adds no order, and ends the process only without      *)
(* ending the match.                                                       *)
LEMMA FinalizeKeeps ==
  ASSUME NEW o, M!Finalize(o)
  PROVE  DOMAIN orders' = DOMAIN orders /\ UNCHANGED halted
BY DEF M!Finalize

LEMMA MetKeeps ==
  ASSUME NEW m, NEW a, NEW b, NEW item, M!Met(m, a, b, item)
  PROVE  DOMAIN orders' = DOMAIN orders /\ UNCHANGED halted
BY DEF M!Met

LEMMA MatchStepKeeps ==
  ASSUME M!MatchStep
  PROVE  /\ DOMAIN orders' = DOMAIN orders
         /\ ~halted /\ (halted' => UNCHANGED taker) /\ taker # M!None
<1>1. CASE M!FokCheck
  BY <1>1, FinalizeKeeps DEF M!FokCheck
<1>2. CASE M!TakerFinished
  BY <1>2, FinalizeKeeps DEF M!TakerFinished, M!InLoop
<1>3. CASE M!Exhausted
  <2>1. \E o : M!Finalize(o)
    BY <1>3 DEF M!Exhausted
  <2>2. QED
    BY <1>3, <2>1, FinalizeKeeps DEF M!Exhausted, M!InLoop
<1>4. CASE M!Enqueue
  BY <1>4, FinalizeKeeps DEF M!Enqueue, M!InLoop
<1>5. ASSUME NEW m \in book, M!CircuitBreak(m) \/ M!PrecisionCancel(m)
      PROVE  /\ DOMAIN orders' = DOMAIN orders /\ ~halted /\ UNCHANGED halted
             /\ taker # M!None
  <2>1. \E o : M!Finalize(o)
    BY <1>5 DEF M!CircuitBreak, M!PrecisionCancel
  <2>2. M!AtHead(m)
    BY <1>5 DEF M!CircuitBreak, M!PrecisionCancel, M!Meets
  <2>3. QED
    BY <2>1, <2>2, FinalizeKeeps DEF M!AtHead, M!InLoop
<1>6. ASSUME NEW m \in book, M!AssertionFails(m)
      PROVE  /\ DOMAIN orders' = DOMAIN orders /\ ~halted /\ UNCHANGED taker
             /\ taker # M!None
  BY <1>6 DEF M!AssertionFails, M!Meets, M!AtHead, M!InLoop
<1>7. ASSUME NEW m \in book, M!Fill(m)
      PROVE  /\ DOMAIN orders' = DOMAIN orders /\ ~halted /\ UNCHANGED halted
             /\ taker # M!None
  <2>1. \E a, b, item : M!Met(m, a, b, item)
    BY <1>7 DEF M!Fill
  <2>2. QED
    BY <1>7, <2>1, MetKeeps DEF M!Fill, M!Meets, M!AtHead, M!InLoop
<1>8. ASSUME NEW m \in book,
             M!CancelBoth(m) \/ M!CancelOld(m) \/ M!DecreaseCancel(m)
      PROVE  /\ DOMAIN orders' = DOMAIN orders /\ ~halted /\ UNCHANGED halted
             /\ taker # M!None
  <2>1. \E a, b, item : M!Met(m, a, b, item)
    BY <1>8 DEF M!CancelBoth, M!CancelOld, M!DecreaseCancel
  <2>2. \E mode : M!SelfTrade(m, mode)
    BY <1>8 DEF M!CancelBoth, M!CancelOld, M!DecreaseCancel
  <2>3. QED
    BY <2>1, <2>2, MetKeeps DEF M!SelfTrade, M!Meets, M!AtHead, M!InLoop
<1>9. ASSUME NEW m \in book, M!CancelNew(m)
      PROVE  /\ DOMAIN orders' = DOMAIN orders /\ ~halted /\ UNCHANGED halted
             /\ taker # M!None
  BY <1>9 DEF M!CancelNew, M!SelfTrade, M!Meets, M!AtHead, M!InLoop
<1>10. QED
  BY <1>1, <1>2, <1>3, <1>4, <1>5, <1>6, <1>7, <1>8, <1>9
     DEF M!MatchStep, M!Meeting

LEMMA WayMatch == WayInv /\ Match => WayInv'
<1> SUFFICES ASSUME WayInv, Match PROVE WayInv'
  OBVIOUS
<1>1. /\ M!MatchStep /\ DOMAIN orders' = DOMAIN orders
      /\ ~halted /\ (halted' => UNCHANGED taker) /\ taker # M!None
  BY MatchStepKeeps DEF Match
<1>2. stage' # "match" => taker' = M!None /\ ~halted'
  BY <1>1 DEF Match
<1>3. UNCHANGED <<placed, channel, loop, pool, posted>>
  BY DEF Match, handlerVars, ledgerVars
<1>4. UNCHANGED <<Held, Waiting, Pipe>>
  BY <1>1, <1>3 DEF Held, Waiting, Pipe
<1>5. QED
  BY <1>1, <1>2, <1>3, <1>4 DEF WayInv

(* The other steps leave the way as it is.                                 *)
LEMMA WayPost == ASSUME NEW i \in Ids PROVE WayInv /\ PostOrder(i) => WayInv'
<1> SUFFICES ASSUME WayInv, PostOrder(i) PROVE WayInv'
  OBVIOUS
<1>1. i \notin posted /\ UNCHANGED <<placed, channel, loop, stage, engineVars>>
  BY DEF PostOrder, matcherVars, ledgerVars
<1>2. CASE Submitted("order", i) /\ posted' = posted \cup {i}
  BY <1>1, <1>2, WaySubmitted
<1>3. CASE Refused("order", i) /\ UNCHANGED posted
  BY <1>1, <1>3, WayRefused
<1>4. QED
  BY <1>2, <1>3 DEF PostOrder

LEMMA WaySubmitCancel ==
  ASSUME NEW i \in Ids PROVE WayInv /\ SubmitCancel(i) => WayInv'
<1> SUFFICES ASSUME WayInv, SubmitCancel(i) PROVE WayInv'
  OBVIOUS
<1>1. UNCHANGED <<placed, channel, loop, stage, posted, engineVars>>
  BY DEF SubmitCancel, matcherVars, ledgerVars
<1>2. CASE Submitted("cancel", i)
  BY <1>1, <1>2, WaySubmitted
<1>3. CASE Refused("cancel", i)
  BY <1>1, <1>3, WayRefused
<1>4. CASE UNCHANGED <<po, pending, pool>>
  BY <1>1, <1>4, WayStutter DEF wayVars
<1>5. QED
  BY <1>2, <1>3, <1>4 DEF SubmitCancel

LEMMA WayElsewhere ==
  ASSUME WayInv,
         \/ \E i \in Ids : RecordSubmit(i)
         \/ Complete /\ UNCHANGED <<settleVars, cancelVars>>
         \/ RecordMatch
  PROVE  WayInv'
<1>1. CASE \E i \in Ids : RecordSubmit(i)
  BY <1>1, WayStutter DEF RecordSubmit, wayVars, ledgerVars, matcherVars
<1>2. CASE Complete
  <2>1. Held = <<>> /\ Held' = <<>> /\ UNCHANGED <<Pipe, Waiting>>
    BY <1>2 DEF Complete, Held, Receiving, Pipe, Waiting, engineVars
  <2>2. QED
    BY <1>2, <2>1
       DEF WayInv, Complete, matcherVars, engineVars, ledgerVars
<1>3. CASE RecordMatch
  <2>1. UNCHANGED <<placed, channel, loop, pool, posted, engineVars>>
    BY <1>3 DEF RecordMatch, handlerVars, ledgerVars
  <2>2. stage = "record" /\ stage' # "match"
    BY <1>3 DEF RecordMatch
  <2>3. UNCHANGED <<Held, Waiting, Pipe>>
    BY <2>1 DEF Held, Waiting, Pipe, engineVars
  <2>4. QED
    BY <2>1, <2>2, <2>3 DEF WayInv, engineVars
<1>4. QED
  BY <1>1, <1>2, <1>3

(* The matcher goroutine settles only when it is done with the match.      *)
JobInv ==
  /\ DOMAIN job = Settlers
  /\ job["matcher"] # NoJob => stage = "settle"

LEMMA JobInit == Init => JobInv
BY DEF Init, SettlementInit, JobInv, Settlers

LEMMA SettlePairKeeps ==
  ASSUME NEW s \in Settlers, SettlePair(s), JobInv
  PROVE  JobInv' /\ UNCHANGED poolVars
<1>1. /\ UNCHANGED poolVars /\ job[s] # NoJob /\ DOMAIN job' = DOMAIN job
      /\ \A r \in Settlers \ {s} : job'[r] = job[r]
  <2>1. CASE TransferBase(s) \/ TransferQuote(s)
    BY <2>1 DEF TransferBase, TransferQuote, Transfer, Goto, JobInv
  <2>2. CASE Settle(s)
    BY <2>2 DEF Settle, At, NoJob, JobInv
  <2>3. CASE VerifySettled(s)
    BY <2>3 DEF VerifySettled, At, Goto, NoJob, JobInv
  <2>4. QED
    BY <2>1, <2>2, <2>3 DEF SettlePair
<1>2. UNCHANGED stage
  BY <1>1 DEF poolVars, matcherVars
<1>3. QED
  BY <1>1, <1>2 DEF JobInv, Settlers

LEMMA SettleBatchKeeps ==
  ASSUME SettleBatch \/ RetryLoop, JobInv, WayInv
  PROVE  JobInv' /\ WayInv'
<1>1. CASE StartItem \/ RetryRound \/ RetryStart \/ RetryFinish
  <2>1. UNCHANGED wayVars
    BY <1>1 DEF StartItem, RetryRound, RetryStart, RetryFinish, wayVars,
                poolVars, handlerVars, recordVars, matcherVars, ledgerVars
  <2>2. DOMAIN job' = DOMAIN job
    BY <1>1 DEF StartItem, RetryRound, RetryStart, RetryFinish
  <2>3. job'["matcher"] = job["matcher"] \/ stage = "settle"
    BY <1>1 DEF StartItem, RetryRound, RetryStart, RetryFinish, JobInv, Settlers
  <2>4. QED
    BY <2>1, <2>2, <2>3, WayStutter DEF JobInv, wayVars
<1>2. ASSUME NEW s \in Settlers, SettlePair(s) PROVE JobInv' /\ WayInv'
  <2>1. JobInv' /\ UNCHANGED poolVars
    BY <1>2, SettlePairKeeps
  <2>2. UNCHANGED placed
    BY <1>2 DEF SettlePair, TransferBase, TransferQuote, Transfer, Settle,
                VerifySettled, Execute, NotSent, Verify, ledgerVars
  <2>3. QED
    BY <2>1, <2>2, WayStutter DEF wayVars, poolVars, handlerVars, matcherVars
<1>3. CASE FinishItem
  <2>1. stage = "settle"
    BY <1>3 DEF FinishItem, At, JobInv, NoJob
  <2>2. DOMAIN job' = Settlers /\ job'["matcher"] = NoJob
    BY <1>3 DEF FinishItem, JobInv, Settlers
  <2>3. UNCHANGED <<placed, channel, loop, pool, posted, engineVars>>
    BY <1>3 DEF FinishItem, handlerVars, ledgerVars
  <2>4. UNCHANGED <<Held, Waiting, Pipe>>
    BY <2>3 DEF Held, Waiting, Pipe, engineVars
  <2>5. QED
    BY <2>1, <2>2, <2>3, <2>4 DEF WayInv, JobInv, engineVars
<1>4. QED
  BY <1>1, <1>2, <1>3 DEF SettleBatch, RetryLoop, Settlers

LEMMA CancelHandlerKeeps ==
  ASSUME NEW i \in Ids, CancelHandler(i), WayInv, JobInv
  PROVE  WayInv' /\ JobInv'
<1>1. CASE CancelRequest(i) \/ Refund(i) \/ CancelOnChain(i) \/ VerifyCanceled(i)
  <2>1. UNCHANGED <<placed, poolVars, job>>
    BY <1>1 DEF CancelRequest, Refund, CancelOnChain, VerifyCanceled, Execute,
                Verify, ledgerVars, settleVars
  <2>2. QED
    BY <2>1, WayStutter
       DEF wayVars, poolVars, handlerVars, matcherVars, JobInv
<1>2. CASE SubmitCancel(i)
  BY <1>2, WaySubmitCancel DEF SubmitCancel, settleVars, matcherVars, JobInv
<1>3. QED
  BY <1>1, <1>2 DEF CancelHandler

LEMMA WayNext == WayInv /\ JobInv /\ [Next]_vars => WayInv' /\ JobInv'
<1> SUFFICES ASSUME WayInv, JobInv, [Next]_vars PROVE WayInv' /\ JobInv'
  OBVIOUS
<1>1. ASSUME NEW i \in Ids, Client(i) /\ UNCHANGED <<settleVars, cancelVars>>
      PROVE  WayInv' /\ JobInv'
  <2>1. UNCHANGED <<stage, job>>
    BY <1>1 DEF Client, PostOrder, RecordSubmit, matcherVars, settleVars
  <2>2. QED
    BY <1>1, <2>1, WayPost, WayElsewhere DEF Client, JobInv
<1>2. CASE EventLoop /\ UNCHANGED <<settleVars, cancelVars>>
  <2>1. UNCHANGED <<stage, job>>
    BY <1>2 DEF EventLoop, Receive, Send, Complete, matcherVars, settleVars
  <2>2. QED
    BY <1>2, <2>1, WayReceive, WaySend, WayElsewhere DEF EventLoop, JobInv
<1>3. CASE MatcherStep /\ UNCHANGED <<settleVars, cancelVars>>
  <2>1. stage # "settle" /\ UNCHANGED job
    BY <1>3 DEF MatcherStep, Take, Match, RecordMatch, settleVars
  <2>2. QED
    BY <1>3, <2>1, WayTake, WayMatch, WayElsewhere DEF MatcherStep, JobInv
<1>4. CASE SettleBatch \/ RetryLoop
  BY <1>4, SettleBatchKeeps
<1>5. CASE \E i \in Ids : CancelHandler(i)
  BY <1>5, CancelHandlerKeeps
<1>6. CASE Chain /\ UNCHANGED <<poolVars, settleVars, cancelVars>>
  BY <1>6, WayStutter
     DEF Chain, LandsLate, wayVars, poolVars, handlerVars, matcherVars,
         settleVars, JobInv
<1>7. CASE UNCHANGED vars
  BY <1>7, WayStutter
     DEF vars, wayVars, ledgerVars, poolVars, handlerVars, matcherVars,
         settleVars, JobInv
<1>8. QED
  BY <1>1, <1>2, <1>3, <1>4, <1>5, <1>6, <1>7 DEF Next

(* In every behaviour the channel, the event loop and the pool hold the    *)
(* accepted orders the engine has not received, once each, and the matcher *)
(* goroutine settles only after its match (orderpool.go:64,                *)
(* subscriber.go:75, runner.go:54).                                        *)
THEOREM WayInvariant == Spec => [](WayInv /\ JobInv)
<1>1. Init => WayInv /\ JobInv
  BY WayInit, JobInit
<1>2. QED
  BY <1>1, WayNext, PTL DEF Spec

-----------------------------------------------------------------------------
(* Where an accepted order is.                                             *)
LEMMA ShiftedCount ==
  ASSUME NEW B, B \subseteq Nat, IsFiniteSet(B), NEW n \in Nat
  PROVE  /\ IsFiniteSet({k + n : k \in B})
         /\ Cardinality({k + n : k \in B}) = Cardinality(B)
<1> DEFINE C == {k + n : k \in B}
           f == [k \in B |-> k + n]
<1>1. f \in [B -> C] /\ \A a, b \in B : f[a] = f[b] => a = b
  <2>1. f \in [B -> C]
    OBVIOUS
  <2>2. ASSUME NEW a \in B, NEW b \in B, a + n = b + n PROVE a = b
    <3>1. a \in Nat /\ b \in Nat
      OBVIOUS
    <3>2. QED
      BY <2>2, <3>1
  <2>3. QED
    BY <2>1, <2>2
<1>2. \A c \in C : \E k \in B : f[k] = c
  OBVIOUS
<1>3. f \in Bijection(B, C)
  BY <1>1, <1>2, Fun_IsBij
<1>4. ExistsBijection(B, C)
  BY <1>3, Fun_ExistsBij
<1>5. QED
  BY <1>4, FS_Bijection

LEMMA OrderCount ==
  ASSUME NEW s \in Seq(Command), NEW i
  PROVE  /\ IsFiniteSet(OrderCommands(s, i)) /\ OrderCommands(s, i) \subseteq Nat
         /\ Cardinality(OrderCommands(s, i)) \in Nat
<1>1. Len(s) \in Nat /\ DOMAIN s = 1 .. Len(s)
  BY LenProperties
<1>2. IsFiniteSet(1 .. Len(s)) /\ OrderCommands(s, i) \subseteq 1 .. Len(s)
  BY <1>1, FS_Interval DEF OrderCommands
<1>3. IsFiniteSet(OrderCommands(s, i))
  BY <1>2, FS_Subset
<1>4. QED
  BY <1>1, <1>2, <1>3, FS_CardinalityType

LEMMA CountsAdd ==
  ASSUME NEW s \in Seq(Command), NEW t \in Seq(Command), NEW i
  PROVE  Cardinality(OrderCommands(s \o t, i))
           = Cardinality(OrderCommands(s, i)) + Cardinality(OrderCommands(t, i))
<1> DEFINE n == Len(s)
           m == Len(t)
           e == [kind |-> "order", id |-> i]
           A == OrderCommands(s, i)
           B == OrderCommands(t, i)
           C == {k + n : k \in B}
<1>1. /\ n \in Nat /\ m \in Nat /\ DOMAIN s = 1 .. n /\ DOMAIN t = 1 .. m
      /\ s \o t \in Seq(Command) /\ Len(s \o t) = n + m
      /\ DOMAIN (s \o t) = 1 .. n + m
      /\ \A k \in 1 .. n + m : (s \o t)[k] = IF k <= n THEN s[k] ELSE t[k - n]
  BY ConcatProperties, LenProperties
<1>2. A = {k \in 1 .. n : s[k] = e} /\ B = {k \in 1 .. m : t[k] = e}
  BY <1>1 DEF OrderCommands
<1>3. OrderCommands(s \o t, i) = {k \in 1 .. n + m : (s \o t)[k] = e}
  BY <1>1 DEF OrderCommands
<1> HIDE DEF e, A, B, n, m
<1>4. /\ IsFiniteSet(A) /\ IsFiniteSet(B) /\ B \subseteq Nat
      /\ Cardinality(A) \in Nat /\ Cardinality(B) \in Nat
  BY OrderCount DEF A, B
<1>5. IsFiniteSet(C) /\ Cardinality(C) = Cardinality(B)
  BY <1>1, <1>4, ShiftedCount
<1>6. {k \in 1 .. n + m : (s \o t)[k] = e} = A \cup C
  <2>1. ASSUME NEW k \in 1 .. n + m, (s \o t)[k] = e PROVE k \in A \cup C
    <3>1. CASE k <= n
      BY <1>1, <1>2, <2>1, <3>1
    <3>2. CASE ~(k <= n)
      <4>1. k - n \in 1 .. m /\ t[k - n] = e /\ (k - n) + n = k
        BY <1>1, <2>1, <3>2
      <4>2. QED
        BY <1>2, <4>1
    <3>3. QED
      BY <3>1, <3>2
  <2>2. ASSUME NEW k \in A PROVE k \in 1 .. n + m /\ (s \o t)[k] = e
    BY <1>1, <1>2
  <2>3. ASSUME NEW k \in B PROVE k + n \in 1 .. n + m /\ (s \o t)[k + n] = e
    <3>1. k \in 1 .. m /\ t[k] = e
      BY <1>2
    <3>2. k + n \in 1 .. n + m /\ ~(k + n <= n) /\ (k + n) - n = k
      BY <1>1, <3>1
    <3>3. QED
      BY <1>1, <3>1, <3>2
  <2>4. QED
    BY <2>1, <2>2, <2>3
<1>7. A \cap C = {}
  BY <1>1, <1>2
<1>8. Cardinality(A \cup C) = Cardinality(A) + Cardinality(C) - Cardinality(A \cap C)
  BY <1>4, <1>5, FS_Union
<1>9. Cardinality(A \cup C) = Cardinality(A) + Cardinality(B)
  <2>1. Cardinality(A \cap C) = 0
    BY <1>7, FS_EmptySet
  <2> HIDE DEF C
  <2>2. QED
    BY <1>4, <1>5, <1>8, <2>1
<1>10. OrderCommands(s \o t, i) = A \cup C
  BY <1>3, <1>6
<1>11. QED
  BY <1>9, <1>10 DEF A, B

LEMMA CarriedOnce ==
  ASSUME NEW q, NEW S, Carries(q, S), NEW i
  PROVE  Cardinality(OrderCommands(q, i)) = IF i \in S THEN 1 ELSE 0
<1>1. /\ DOMAIN q = 1 .. Len(q)
      /\ OrderCommands(q, i) = {k \in 1 .. Len(q) : q[k] = OrderCommand(i)}
  BY LenProperties DEF Carries, OrderCommands, OrderCommand
<1>2. CASE i \in S
  <2>1. PICK k \in 1 .. Len(q) : q[k] = OrderCommand(i)
    BY <1>2 DEF Carries
  <2>2. \A l \in 1 .. Len(q) : q[l] = OrderCommand(i) => l = k
    BY <2>1 DEF Carries, OrderCommand
  <2>3. OrderCommands(q, i) = {k}
    BY <1>1, <2>1, <2>2
  <2>4. QED
    BY <1>2, <2>3, FS_Singleton
<1>3. CASE i \notin S
  <2>1. OrderCommands(q, i) = {}
    BY <1>1, <1>3 DEF Carries, OrderCommand
  <2>2. QED
    BY <1>3, <2>1, FS_EmptySet
<1>4. QED
  BY <1>2, <1>3

(* On its way through the two channels and the event loop an accepted      *)
(* order is neither lost nor doubled, whatever the capacities: it is in    *)
(* one of them until the matcher takes it (orderpool.go:64,                *)
(* subscriber.go:75).                                                      *)
THEOREM OrderInOnePlace == Spec => []OrderIsInOnePlace
<1>1. WayInv => OrderIsInOnePlace
  <2> SUFFICES ASSUME WayInv, NEW i \in posted
               PROVE  Cardinality(OrderCommands(pool, i))
                        + Cardinality(OrderCommands(Held, i))
                        + Cardinality(OrderCommands(channel, i))
                          = IF i \in DOMAIN orders THEN 0 ELSE 1
    BY DEF OrderIsInOnePlace
  <2> DEFINE n(q) == Cardinality(OrderCommands(q, i))
  <2>1. /\ channel \in Seq(Command) /\ Held \in Seq(Command) /\ pool \in Seq(Command)
        /\ channel \o Held \in Seq(Command)
    BY ConcatProperties DEF WayInv
  <2>2. n(Pipe) = n(channel \o Held) + n(pool)
    BY <2>1, CountsAdd DEF Pipe
  <2>3. n(channel \o Held) = n(channel) + n(Held)
    BY <2>1, CountsAdd
  <2>4. n(Pipe) = IF i \in Waiting THEN 1 ELSE 0
    BY CarriedOnce DEF WayInv
  <2>5. n(channel) \in Nat /\ n(Held) \in Nat /\ n(pool) \in Nat
    BY <2>1, OrderCount
  <2>6. QED
    BY <2>2, <2>3, <2>4, <2>5 DEF Waiting
<1>2. QED
  BY <1>1, WayInvariant, PTL

-----------------------------------------------------------------------------
(* The matching engine in the composition does what module Matching allows *)
(* it: the pool and the event loop hand every order to it once, and none   *)
(* while it is at work.                                                    *)
(* The constants the composition gives Matching meet its assumption.       *)
LEMMA EngineRequests ==
  /\ Ids \subseteq Nat \ {0}
  /\ \A f \in Placements, i \in Ids :
       RequestOf(f[i]) \in M!Request /\ RequestOf(f[i]).price > 0
         /\ RequestOf(f[i]).amount > 0
<1>1. ASSUME NEW f \in Placements, NEW i \in Ids
      PROVE  /\ f[i] \in Post /\ f[i].price > 0 /\ f[i].amount > 0
  BY LedgerAssumption
<1>2. QED
  BY <1>1, LedgerAssumption
     DEF RequestOf, Post, M!Request, M!Sides, M!OrderTypes, M!StpModes

LEMMA EngineInit == Init => M!Init
BY DEF Init, PoolInit

LEMMA TakeIsACommand ==
  ASSUME WayInv, Take
  PROVE  M!Command
<1> DEFINE c == Head(channel)
<1>1. /\ c \in Command /\ c.id \in Ids
      /\ Pipe # <<>> /\ Head(Pipe) = c
      /\ taker = M!None /\ ~halted
  BY TakeFacts, CommandFields
<1>2. CASE c.kind = "order" /\ M!StartMatching(c.id, RequestOf(placed[c.id]))
  <2> DEFINE r == RequestOf(placed[c.id])
  <2>1. c.id \notin DOMAIN orders
    <3>1. Carries(Pipe, Waiting)
      BY DEF WayInv
    <3>2. c.id \in Waiting
      BY <1>1, <1>2, <3>1, CarriesOneLess
    <3>3. QED
      BY <3>2 DEF Waiting
  <2>2. r \in {RequestOf(f[i]) : f \in Placements, i \in Ids}
    BY <1>1 DEF WayInv
  <2>3. r.type = "Limit"
    BY DEF RequestOf
  <2>4. M!ReceiveOrder(c.id, r)
    BY <1>1, <1>2, <2>1, <2>3 DEF M!ReceiveOrder, M!Idle, M!FreshSeq
  <2>5. QED
    BY <1>1, <2>2, <2>4 DEF M!Command
<1>3. CASE c.kind = "cancel" /\ M!Cancel(0, c.id)
  BY <1>1, <1>3 DEF M!Command, M!CancelSeqs
<1>4. QED
  BY <1>2, <1>3 DEF Take

LEMMA EngineStep == WayInv /\ [Next]_vars => [M!Next]_(M!vars)
<1> SUFFICES ASSUME WayInv, [Next]_vars PROVE M!Next \/ UNCHANGED M!vars
  OBVIOUS
<1>1. CASE MatcherStep
  <2>1. CASE Take
    BY <2>1, TakeIsACommand DEF M!Next
  <2>2. CASE Match
    BY <2>2 DEF Match, M!Next
  <2>3. CASE RecordMatch
    BY <2>3 DEF RecordMatch, engineVars, M!vars
  <2>4. QED
    BY <1>1, <2>1, <2>2, <2>3 DEF MatcherStep
<1>2. CASE EventLoop \/ (\E i \in Ids : Client(i))
  BY <1>2 DEF EventLoop, Receive, Send, Complete, Client, PostOrder,
              RecordSubmit, engineVars, M!vars
<1>3. CASE SettleBatch \/ RetryLoop
  <2>1. CASE SettlePair("matcher") \/ SettlePair("retry")
    BY <2>1 DEF SettlePair, TransferBase, TransferQuote, Transfer, Settle,
                VerifySettled, poolVars, engineVars, M!vars
  <2>2. CASE \/ StartItem \/ FinishItem
             \/ RetryRound \/ RetryStart \/ RetryFinish
    BY <2>2 DEF StartItem, FinishItem, RetryRound, RetryStart, RetryFinish,
                poolVars, engineVars, M!vars
  <2>3. QED
    BY <1>3, <2>1, <2>2 DEF SettleBatch, RetryLoop
<1>4. CASE \E i \in Ids : CancelHandler(i)
  BY <1>4 DEF CancelHandler, CancelRequest, Refund, CancelOnChain,
              VerifyCanceled, SubmitCancel, poolVars, engineVars, M!vars
<1>5. CASE UNCHANGED poolVars
  BY <1>5 DEF poolVars, engineVars, M!vars
<1>6. QED
  BY <1>1, <1>2, <1>3, <1>4, <1>5 DEF Next, vars

(* AleoDex implements Matching, with SeqIds the clients choose, one user   *)
(* and limit orders (orderpool.go:64, subscriber.go:75, runner.go:54).     *)
THEOREM EngineImplementsMatching == Spec => EngineIsUsedAsMatching
<1>1. QED
  BY WayInvariant, EngineInit, EngineStep, PTL
     DEF Spec, EngineIsUsedAsMatching, M!Spec

-----------------------------------------------------------------------------
(* The ledger: what a transaction may change.                              *)
Kinds == {"transfer", "settle", "cancel"}

Shaped(l) ==
  /\ l = [status |-> l.status, spent |-> l.spent, live |-> l.live, paid |-> l.paid]
  /\ l.status \in [Ids -> 0 .. 2]

LedgerInv ==
  /\ Shaped(ledger)
  /\ \A e \in mempool : e.tx.fn \in Kinds

LEMMA PayKeepsStatus ==
  ASSUME NEW l, Shaped(l), NEW i, NEW asset, NEW amount
  PROVE  Shaped(Pay(l, i, asset, amount)) /\ Pay(l, i, asset, amount).status = l.status
BY DEF Pay, Shaped

LEMMA CloseSetsStatus ==
  ASSUME NEW l, Shaped(l), NEW S, NEW status \in 0 .. 2
  PROVE  /\ Shaped(Close(l, S, status))
         /\ \A i \in Ids : (i \in S /\ Public(i))
                             \/ Close(l, S, status).status[i] = l.status[i]
<1> DEFINE new == [i \in Ids |-> IF i \in S /\ Public(i) THEN status ELSE l.status[i]]
<1> DEFINE used == l.spent \cup {i \in S : ~Public(i)}
<1>1. Close(l, S, status) = [l EXCEPT !.status = new, !.spent = used]
  BY Zenon DEF Close
<1>2. new \in [Ids -> 0 .. 2]
  BY DEF Shaped
<1>3. \A i \in Ids : (i \in S /\ Public(i)) \/ new[i] = l.status[i]
  OBVIOUS
<1> HIDE DEF new, used
<1>4. QED
  BY <1>1, <1>2, <1>3 DEF Shaped

LEMMA RotateKeepsStatus ==
  ASSUME NEW l, Shaped(l), NEW t
  PROVE  Shaped(Rotate(l, t)) /\ Rotate(l, t).status = l.status
BY DEF Rotate, Shaped

LEMMA SettlePaysKeepsStatus ==
  ASSUME NEW l, Shaped(l), NEW t
  PROVE  Shaped(SettlePays(l, t)) /\ SettlePays(l, t).status = l.status
<1> DEFINE q    == Quote(t.price, t.amount)
           sold == Pay(l, t.sell, "base", t.amount)
           got  == Pay(l, t.buy, "base", t.amount)
           a1   == Pay(l, t.sell, "quote", q)
           a2   == Pay(sold, t.sell, "quote", q)
           a3   == Pay(got, t.sell, "quote", q)
<1>1. SettlePays(l, t) \in {l, a1, a2, a3}
  BY DEF SettlePays
<1>2. Shaped(sold) /\ sold.status = l.status
  BY PayKeepsStatus
<1>3. Shaped(got) /\ got.status = l.status
  BY PayKeepsStatus
<1> HIDE DEF sold, got
<1>4. Shaped(a1) /\ a1.status = l.status
  BY PayKeepsStatus
<1>5. Shaped(a2) /\ a2.status = l.status
  BY <1>2, PayKeepsStatus
<1>6. Shaped(a3) /\ a3.status = l.status
  BY <1>3, PayKeepsStatus
<1> HIDE DEF a1, a2, a3
<1>7. QED
  BY <1>1, <1>4, <1>5, <1>6

LEMMA EffectOnStatus ==
  ASSUME NEW l, Shaped(l), NEW t, t.fn \in Kinds
  PROVE  /\ Shaped(Effect(l, t))
         /\ \A i \in Ids : (i \in Inputs(t) /\ Public(i))
                             \/ Effect(l, t).status[i] = l.status[i]
<1>1. CASE t.fn = "transfer"
  BY <1>1, PayKeepsStatus DEF Effect
<1>2. CASE t.fn = "settle"
  <2> DEFINE a == SettlePays(l, t)
             b == Close(a, {t.buy, t.sell}, 1)
  <2>1. Shaped(a) /\ a.status = l.status
    BY SettlePaysKeepsStatus
  <2>2. Effect(l, t) = Rotate(b, t) /\ Inputs(t) = {t.buy, t.sell}
    BY <1>2 DEF Effect, SettleEffect, Inputs
  <2>3. /\ Shaped(b)
        /\ \A i \in Ids : (i \in Inputs(t) /\ Public(i)) \/ b.status[i] = a.status[i]
    BY <2>1, <2>2, CloseSetsStatus
  <2> HIDE DEF a, b
  <2>4. Shaped(Rotate(b, t)) /\ Rotate(b, t).status = b.status
    BY <2>3, RotateKeepsStatus
  <2>5. QED
    BY <2>1, <2>2, <2>3, <2>4
<1>3. CASE t.fn = "cancel"
  <2> DEFINE a == CancelPays(l, t.id)
             b == Close(a, {t.id}, 2)
  <2>1. Shaped(a) /\ a.status = l.status
    BY PayKeepsStatus DEF CancelPays
  <2>2. Effect(l, t) = Rotate(b, t) /\ Inputs(t) = {t.id}
    BY <1>3 DEF Effect, CancelEffect, Inputs
  <2>3. /\ Shaped(b)
        /\ \A i \in Ids : (i \in Inputs(t) /\ Public(i)) \/ b.status[i] = a.status[i]
    BY <2>1, <2>2, CloseSetsStatus
  <2> HIDE DEF a, b
  <2>4. Shaped(Rotate(b, t)) /\ Rotate(b, t).status = b.status
    BY <2>3, RotateKeepsStatus
  <2>5. QED
    BY <2>1, <2>2, <2>3, <2>4
<1>4. QED
  BY <1>1, <1>2, <1>3 DEF Kinds

Final == \A i \in Ids : ledger.status[i] # 0 => ledger'.status[i] = ledger.status[i]

(* A transaction that the contract accepts finds the status 0 of every     *)
(* public order it names.                                                  *)
LEMMA AcceptedIsFinal ==
  ASSUME Shaped(ledger), NEW t, t.fn \in Kinds,
         Accepts(ledger, t), ledger' = Effect(ledger, t)
  PROVE  Shaped(ledger') /\ Final
BY EffectOnStatus DEF Accepts, Usable, Final

LEMMA ExecuteIsFinal ==
  ASSUME LedgerInv, NEW t, t.fn \in Kinds, NEW r, Execute(t, r)
  PROVE  LedgerInv' /\ Final
<1>1. CASE Lands(t, r)
  BY <1>1, AcceptedIsFinal DEF Lands, LedgerInv
<1>2. CASE Rejected(t, r) \/ Shadowed(t, r) \/ Lost(t, r) \/ Repeated(t, r)
  BY <1>2 DEF Rejected, Shadowed, Lost, Repeated, LedgerInv, Shaped, Final
<1>3. CASE Delayed(t, r)
  BY <1>3 DEF Delayed, LedgerInv, Shaped, Final
<1>4. QED
  BY <1>1, <1>2, <1>3 DEF Execute

LEMMA UnchangedIsFinal ==
  LedgerInv /\ UNCHANGED <<ledger, mempool>> => LedgerInv' /\ Final
BY DEF LedgerInv, Shaped, Final

LEMMA SettlePairIsFinal ==
  ASSUME LedgerInv, NEW s, SettlePair(s)
  PROVE  LedgerInv' /\ Final
<1>1. CASE TransferBase(s) \/ TransferQuote(s)
  <2>1. PICK step, asset, to, amount, after : Transfer(s, step, asset, to, amount, after)
    BY <1>1 DEF TransferBase, TransferQuote
  <2>2. PICK r \in {"ok", "exists", "err"} :
          Execute(TransferTx(asset, to, amount), r) \/ NotSent(r)
    BY <2>1 DEF Transfer
  <2>3. TransferTx(asset, to, amount).fn \in Kinds
    BY DEF TransferTx, Kinds
  <2>4. QED
    BY <2>2, <2>3, ExecuteIsFinal, UnchangedIsFinal DEF NotSent, ledgerVars
<1>2. CASE Settle(s)
  <2> DEFINE t == SettleTx(job[s].buy, job[s].sell, job[s].price, job[s].amount,
                           job[s].creds, nonces + 1)
  <2>1. PICK r \in {"ok", "exists", "err"} : Execute(t, r) \/ NotSent(r)
    BY <1>2 DEF Settle
  <2>2. t.fn \in Kinds
    BY DEF SettleTx, Kinds
  <2> HIDE DEF t
  <2>3. QED
    BY <2>1, <2>2, ExecuteIsFinal, UnchangedIsFinal DEF NotSent, ledgerVars
<1>3. CASE VerifySettled(s)
  BY <1>3, UnchangedIsFinal DEF VerifySettled, Verify
<1>4. QED
  BY <1>1, <1>2, <1>3 DEF SettlePair

LEMMA CancelHandlerIsFinal ==
  ASSUME LedgerInv, NEW i, CancelHandler(i)
  PROVE  LedgerInv' /\ Final
<1>1. CASE CancelRequest(i) \/ VerifyCanceled(i) \/ SubmitCancel(i)
  BY <1>1, UnchangedIsFinal
     DEF CancelRequest, VerifyCanceled, SubmitCancel, Verify, ledgerVars
<1>2. CASE Refund(i)
  <2>1. PICK asset, amount, r : Execute(TransferTx(asset, i, amount), r)
    BY <1>2 DEF Refund
  <2>2. TransferTx(asset, i, amount).fn \in Kinds
    BY DEF TransferTx, Kinds
  <2>3. QED
    BY <2>1, <2>2, ExecuteIsFinal
<1>3. CASE CancelOnChain(i)
  <2>1. PICK r : Execute(CancelTx(i, handler[i].creds, nonces + 1), r)
    BY <1>3 DEF CancelOnChain
  <2>2. CancelTx(i, handler[i].creds, nonces + 1).fn \in Kinds
    BY DEF CancelTx, Kinds
  <2>3. QED
    BY <2>1, <2>2, ExecuteIsFinal
<1>4. QED
  BY <1>1, <1>2, <1>3 DEF CancelHandler

LEMMA LedgerStarts == Init => LedgerInv
BY DEF Init, LedgerInit, LedgerInv, Shaped

LEMMA LedgerNext == LedgerInv /\ [Next]_vars => LedgerInv' /\ Final
<1> SUFFICES ASSUME LedgerInv, [Next]_vars PROVE LedgerInv' /\ Final
  OBVIOUS
<1>1. CASE \/ EventLoop \/ MatcherStep \/ (\E i \in Ids : Client(i))
  <2>1. UNCHANGED ledgerVars
    BY <1>1 DEF EventLoop, Receive, Send, Complete, MatcherStep, Take, Match,
                RecordMatch, Client, PostOrder, RecordSubmit
  <2>2. QED
    BY <2>1, UnchangedIsFinal DEF ledgerVars
<1>2. CASE SettleBatch \/ RetryLoop
  <2>1. CASE SettlePair("matcher") \/ SettlePair("retry")
    BY <2>1, SettlePairIsFinal
  <2>2. CASE \/ StartItem \/ FinishItem
             \/ RetryRound \/ RetryStart \/ RetryFinish
    BY <2>2, UnchangedIsFinal
       DEF StartItem, FinishItem, RetryRound, RetryStart, RetryFinish, ledgerVars
  <2>3. QED
    BY <1>2, <2>1, <2>2 DEF SettleBatch, RetryLoop
<1>3. CASE \E i \in Ids : CancelHandler(i)
  BY <1>3, CancelHandlerIsFinal
<1>4. CASE Chain
  <2>1. PICK e \in mempool : LandsLate(e)
    BY <1>4 DEF Chain
  <2>2. e.tx.fn \in Kinds /\ mempool' \subseteq mempool
    BY <2>1 DEF LandsLate, LedgerInv
  <2>3. Shaped(ledger') /\ Final
    <3>1. CASE Accepts(ledger, e.tx)
      BY <2>1, <2>2, <3>1, AcceptedIsFinal DEF LandsLate, LedgerInv
    <3>2. CASE ~Accepts(ledger, e.tx)
      BY <2>1, <3>2 DEF LandsLate, LedgerInv, Shaped, Final
    <3>3. QED
      BY <3>1, <3>2
  <2>4. QED
    BY <2>2, <2>3 DEF LedgerInv
<1>5. CASE UNCHANGED vars
  BY <1>5, UnchangedIsFinal DEF vars, ledgerVars
<1>6. QED
  BY <1>1, <1>2, <1>3, <1>4, <1>5 DEF Next

(* The status of a public order is set once, whichever transactions are    *)
(* repeated, delayed or racing: the contract asserts 0 before it sets 1 or *)
(* 2 (main.leo, settlement.go, cancel.go).                                 *)
THEOREM StatusSetOnce == Spec => StatusIsFinal
<1>1. Spec => []LedgerInv
  BY LedgerStarts, LedgerNext, PTL DEF Spec
<1>2. LedgerInv /\ [Next]_vars
        => [\A i \in Ids : ledger.status[i] # 0 =>
              ledger'.status[i] = ledger.status[i]]_vars
  BY LedgerNext DEF Final
<1>3. QED
  BY <1>1, <1>2, PTL DEF Spec, StatusIsFinal

-----------------------------------------------------------------------------
(* Cancellations: a public order leaves the book by one only after the     *)
(* contract has marked it canceled, however many faults and cancellations  *)
(* there are.                                                              *)
CanceledStates == {"canceled", "partial-canceled"}

(* The orders that may be cancelled in the book: not public, or canceled   *)
(* on chain.                                                               *)
Safe == {i \in Ids : Public(i) => ledger.status[i] = 2}

CancelsIn(q, S) == \A k \in 1 .. Len(q) : q[k].kind = "cancel" => q[k].id \in S

(* A handler as a record, and an order of the engine with what keeps it    *)
(* from the states that a cancellation would also publish: it is a limit   *)
(* order, so no match closes it, and self-trade prevention is off.         *)
HandlerRecord(h) == h = [step |-> h.step, branch |-> h.branch, creds |-> h.creds]

Fields == {"req", "unfilled", "acc", "value", "state", "decreased", "told"}

Plain(o) ==
  /\ o = [f \in Fields |-> o[f]]
  /\ o.req.type = "Limit" /\ o.req.stp = "AST"
  /\ o.state \in {"Submitted", "PartialFilled", "Filled"}

AllPlain ==
  /\ taker # M!None => taker \in DOMAIN orders
  /\ \A i \in DOMAIN orders : Plain(orders[i])

HandlersSafe ==
  /\ DOMAIN handler = Ids
  /\ \A i \in Ids : /\ HandlerRecord(handler[i])
                    /\ handler[i].step = "submit" => i \in Safe

CommandsSafe ==
  /\ CancelsIn(pool, Safe) /\ CancelsIn(channel, Safe)
  /\ loop.step = "send" =>
       (loop.command.kind = "cancel" => loop.command.id \in Safe)

ToldSafe == \A i \in DOMAIN orders : orders[i].told \in CanceledStates => i \in Safe

CancelInv == HandlersSafe /\ CommandsSafe /\ AllPlain /\ ToldSafe

-----------------------------------------------------------------------------
(* Commands that are safe to carry out.                                    *)
LEMMA CancelsInMore ==
  ASSUME NEW q, NEW S, NEW T, CancelsIn(q, S), S \subseteq T
  PROVE  CancelsIn(q, T)
BY DEF CancelsIn

LEMMA CancelsInAppend ==
  ASSUME NEW q \in Seq(Command), NEW S, CancelsIn(q, S), NEW c \in Command,
         c.kind = "cancel" => c.id \in S
  PROVE  CancelsIn(Append(q, c), S)
<1>1. /\ Len(q) \in Nat /\ Len(Append(q, c)) = Len(q) + 1
      /\ Append(q, c)[Len(q) + 1] = c
      /\ \A k \in 1 .. Len(q) : Append(q, c)[k] = q[k]
  BY AppendProperties, LenProperties
<1>2. \A k \in 1 .. Len(q) + 1 : k = Len(q) + 1 \/ k \in 1 .. Len(q)
  BY <1>1
<1>3. QED
  BY <1>1, <1>2 DEF CancelsIn

LEMMA CancelsInTail ==
  ASSUME NEW q \in Seq(Command), q # <<>>, NEW S, CancelsIn(q, S)
  PROVE  /\ CancelsIn(Tail(q), S)
         /\ Head(q).kind = "cancel" => Head(q).id \in S
<1>1. /\ Len(q) \in Nat /\ Len(q) # 0 /\ Head(q) = q[1]
      /\ Tail(q) \in Seq(Command) /\ Len(Tail(q)) = Len(q) - 1
      /\ \A k \in 1 .. Len(Tail(q)) : Tail(q)[k] = q[k + 1]
  BY HeadTailProperties, LenProperties, EmptySeq
<1>2. 1 \in 1 .. Len(q) /\ \A k \in 1 .. Len(Tail(q)) : k + 1 \in 1 .. Len(q)
  BY <1>1
<1>3. QED
  BY <1>1, <1>2 DEF CancelsIn

(* What is safe stays safe: the status of a public order is set once.      *)
LEMMA SafeGrows ==
  ASSUME LedgerInv, Final, UNCHANGED placed PROVE Safe \subseteq Safe'
BY DEF Safe, Final, Public

LEMMA PlacedStays == [Next]_vars => UNCHANGED placed
<1> SUFFICES ASSUME [Next]_vars PROVE UNCHANGED placed
  OBVIOUS
<1> USE DEF ledgerVars, Execute, Verify, NotSent
<1>1. CASE \E i \in Ids : Client(i)
  BY <1>1 DEF Client, PostOrder, RecordSubmit
<1>2. CASE EventLoop \/ MatcherStep
  BY <1>2 DEF EventLoop, Receive, Send, Complete, MatcherStep, Take, Match, RecordMatch
<1>3. CASE SettlePair("matcher") \/ SettlePair("retry")
  BY <1>3 DEF SettlePair, TransferBase, TransferQuote, Transfer, Settle, VerifySettled
<1>4. CASE \/ StartItem \/ FinishItem \/ RetryRound \/ RetryStart \/ RetryFinish
  BY <1>4 DEF StartItem, FinishItem, RetryRound, RetryStart, RetryFinish
<1>5. CASE \E i \in Ids : CancelHandler(i)
  BY <1>5 DEF CancelHandler, CancelRequest, Refund, CancelOnChain, VerifyCanceled,
              SubmitCancel
<1>6. CASE Chain
  BY <1>6 DEF Chain, LandsLate
<1>7. CASE UNCHANGED vars
  BY <1>7 DEF vars
<1>8. QED
  BY <1>1, <1>2, <1>3, <1>4, <1>5, <1>6, <1>7 DEF Next, SettleBatch, RetryLoop

-----------------------------------------------------------------------------
(* The handlers, in the steps that are theirs and in all others.           *)
LEMMA HandlersStay ==
  ASSUME HandlersSafe, UNCHANGED handler, Safe \subseteq Safe'
  PROVE  HandlersSafe'
BY DEF HandlersSafe

LEMMA HandlerMoves ==
  ASSUME HandlersSafe, NEW i \in Ids, NEW step, Continue(i, step),
         Safe \subseteq Safe', step = "submit" => i \in Safe'
  PROVE  HandlersSafe'
<1> DEFINE h == IF step = "none" THEN NoHandler ELSE [handler[i] EXCEPT !.step = step]
<1>1. handler' = [handler EXCEPT ![i] = h]
  BY Zenon DEF Continue
<1>2. HandlerRecord(h) /\ (h.step = "submit" => step = "submit")
  BY DEF HandlersSafe, HandlerRecord, NoHandler
<1> HIDE DEF h
<1>3. DOMAIN handler' = Ids /\ handler'[i] = h
      /\ \A j \in Ids : j # i => handler'[j] = handler[j]
  BY <1>1 DEF HandlersSafe
<1>4. QED
  BY <1>2, <1>3 DEF HandlersSafe

LEMMA CommandsStay ==
  ASSUME CommandsSafe, UNCHANGED <<pool, channel, loop>>, Safe \subseteq Safe'
  PROVE  CommandsSafe'
BY CancelsInMore DEF CommandsSafe

LEMMA EngineStays ==
  ASSUME AllPlain, ToldSafe, UNCHANGED engineVars, Safe \subseteq Safe'
  PROVE  AllPlain' /\ ToldSafe'
BY DEF AllPlain, ToldSafe, engineVars

LEMMA CommandAdded ==
  ASSUME WayInv, CommandsSafe, Safe \subseteq Safe', NEW i \in Ids,
         NEW kind \in {"order", "cancel"}, Submitted(kind, i),
         kind = "cancel" => i \in Safe', UNCHANGED <<channel, loop>>
  PROVE  CommandsSafe'
<1> DEFINE c == [kind |-> kind, id |-> i]
<1>1. c \in Command /\ pool' = Append(pool, c)
  BY DEF Command, Submitted
<1>2. CancelsIn(pool, Safe') /\ CancelsIn(channel', Safe')
  BY CancelsInMore DEF CommandsSafe
<1>3. CancelsIn(pool', Safe')
  BY <1>1, <1>2, CancelsInAppend DEF WayInv
<1>4. QED
  BY <1>2, <1>3 DEF CommandsSafe

LEMMA ReceiveIsSafe ==
  ASSUME WayInv, CommandsSafe, Safe \subseteq Safe', Receive PROVE CommandsSafe'
<1>1. pool # <<>> /\ pool' = Tail(pool) /\ UNCHANGED channel
      /\ loop' = [step |-> "send", command |-> Head(pool)]
  BY DEF Receive
<1>2. /\ CancelsIn(Tail(pool), Safe)
      /\ Head(pool).kind = "cancel" => Head(pool).id \in Safe
  BY <1>1, CancelsInTail DEF WayInv, CommandsSafe
<1>3. QED
  BY <1>1, <1>2, CancelsInMore DEF CommandsSafe

LEMMA SendIsSafe ==
  ASSUME WayInv, CommandsSafe, Safe \subseteq Safe', Send PROVE CommandsSafe'
<1>1. /\ loop.step = "send" /\ UNCHANGED pool
      /\ channel' = Append(channel, loop.command)
      /\ loop' = [loop EXCEPT !.step = "complete"]
  BY DEF Send
<1>2. loop.command \in Command /\ loop'.step # "send"
  BY <1>1 DEF WayInv, Receiving
<1>3. CancelsIn(channel', Safe)
  BY <1>1, <1>2, CancelsInAppend DEF WayInv, CommandsSafe
<1>4. QED
  BY <1>1, <1>2, <1>3, CancelsInMore DEF CommandsSafe

-----------------------------------------------------------------------------
(* A match keeps every order plain and publishes no cancellation.          *)
LEMMA PlainFilled ==
  ASSUME NEW o, Plain(o), NEW amount, NEW p
  PROVE  Plain(M!Filled(o, amount, p)) /\ M!Filled(o, amount, p).told = o.told
<1> DEFINE u == o.unfilled - amount
           a == o.acc + amount
           v == o.value + amount * p
           s == IF o.unfilled = amount THEN "Filled" ELSE "PartialFilled"
           f == [o EXCEPT !.unfilled = u, !.acc = a, !.value = v, !.state = s]
<1>1. M!Filled(o, amount, p) = f
  BY Zenon DEF M!Filled
<1>2. s \in {"Submitted", "PartialFilled", "Filled"}
  OBVIOUS
<1> HIDE DEF u, a, v, s
<1>3. f = [k \in Fields |->
             CASE k = "unfilled" -> u [] k = "acc" -> a [] k = "value" -> v
               [] k = "state" -> s [] OTHER -> o[k]]
  BY DEF Plain, Fields
<1> HIDE DEF f
<1>4. f = [k \in Fields |-> f[k]]
  BY <1>3
<1>5. f.req = o.req /\ f.told = o.told /\ f.state = s
  BY <1>3 DEF Fields
<1>6. QED
  BY <1>1, <1>2, <1>4, <1>5 DEF Plain

LEMMA PlainTold ==
  ASSUME NEW o, Plain(o), NEW told
  PROVE  Plain([o EXCEPT !.told = told]) /\ [o EXCEPT !.told = told].told = told
BY DEF Plain, Fields

LEMMA PlainIsOpen ==
  ASSUME NEW o, Plain(o)
  PROVE  /\ M!StateName[o.state] \notin CanceledStates
         /\ M!TakerState(o.req.type, o.state) \notin CanceledStates
<1>1. M!StateName[o.state] \notin CanceledStates
  BY DEF Plain, M!StateName, CanceledStates
<1>2. M!TakerState(o.req.type, o.state) = M!StateName[o.state]
  BY DEF Plain, M!TakerState
<1>3. QED
  BY <1>1, <1>2

Published == \A i \in DOMAIN orders :
               orders'[i].told = orders[i].told \/ orders'[i].told \notin CanceledStates

LEMMA FinalizeIsPlain ==
  ASSUME AllPlain, taker # M!None, M!Finalize(orders[taker])
  PROVE  AllPlain' /\ Published
<1> DEFINE o == orders[taker]
           new == [o EXCEPT !.told = M!TakerState(o.req.type, o.state)]
<1>1. Plain(o) /\ taker \in DOMAIN orders
  BY DEF AllPlain
<1>2. Plain(new) /\ new.told \notin CanceledStates
  BY <1>1, PlainTold, PlainIsOpen
<1>3. orders' = [orders EXCEPT ![taker] = new] /\ taker' = M!None
  BY DEF M!Finalize
<1> HIDE DEF o, new
<1>4. /\ DOMAIN orders' = DOMAIN orders
      /\ \A i \in DOMAIN orders : orders'[i] = IF i = taker THEN new ELSE orders[i]
  BY <1>3
<1>5. QED
  BY <1>2, <1>3, <1>4 DEF AllPlain, Published

LEMMA FillIsPlain ==
  ASSUME AllPlain, taker # M!None, NEW m, M!Fill(m)
  PROVE  AllPlain' /\ Published
<1> DEFINE amount == M!MatchAmount(taker, m)
           p      == M!Req(m).price
           full   == M!Filled(orders[taker], M!TakerAmount(taker, m), p)
           maker  == M!Filled(orders[m], amount, p)
           item   == M!FillItem(m, maker, amount)
           met    == [maker EXCEPT !.told = item.state]
<1>1. Plain(orders[taker]) /\ taker \in DOMAIN orders
  BY DEF AllPlain
<1>2. Plain(full) /\ full.told = orders[taker].told
  BY <1>1, PlainFilled
<1>3. ASSUME m \in DOMAIN orders
      PROVE  Plain(met) /\ met.told \notin CanceledStates
  <2>1. Plain(maker)
    BY <1>3, PlainFilled DEF AllPlain
  <2>2. item.state = M!StateName[maker.state]
    BY DEF M!FillItem
  <2> HIDE DEF maker, item
  <2>3. QED
    BY <2>1, <2>2, PlainTold, PlainIsOpen
<1>4. orders' = [orders EXCEPT ![taker] = full, ![m] = met] /\ taker' = taker
  BY DEF M!Fill, M!Met
<1> HIDE DEF full, met
<1>5. /\ DOMAIN orders' = DOMAIN orders
      /\ \A i \in DOMAIN orders :
           orders'[i] = IF i = m THEN met ELSE IF i = taker THEN full ELSE orders[i]
  BY <1>4
<1>6. QED
  BY <1>1, <1>2, <1>3, <1>4, <1>5 DEF AllPlain, Published

LEMMA MatchIsPlain ==
  ASSUME AllPlain, M!MatchStep
  PROVE  AllPlain' /\ Published
<1>1. taker # M!None /\ taker \in DOMAIN orders /\ Plain(orders[taker])
  BY MatchStepKeeps DEF AllPlain
<1>2. M!Req(taker).type = "Limit" /\ M!Req(taker).stp = "AST"
  BY <1>1 DEF Plain, M!Req
<1>3. ~M!FokCheck /\ ~M!Exhausted
  BY <1>2 DEF M!FokCheck, M!Exhausted
<1>4. CASE M!TakerFinished \/ M!Enqueue
  BY <1>1, <1>4, FinalizeIsPlain DEF M!TakerFinished, M!Enqueue
<1>5. ASSUME NEW m
      PROVE  ~M!CircuitBreak(m) /\ ~M!PrecisionCancel(m) /\ ~M!CancelBoth(m)
             /\ ~M!CancelOld(m) /\ ~M!CancelNew(m) /\ ~M!DecreaseCancel(m)
  BY <1>2 DEF M!CircuitBreak, M!PrecisionCancel, M!TooPrecise, M!CashBased,
              M!CancelBoth, M!CancelOld, M!CancelNew, M!DecreaseCancel,
              M!SelfTrade, M!SelfTrading
<1>6. ASSUME NEW m, M!AssertionFails(m) PROVE AllPlain' /\ Published
  BY <1>6 DEF M!AssertionFails, AllPlain, Published
<1>7. ASSUME NEW m, M!Fill(m) PROVE AllPlain' /\ Published
  BY <1>1, <1>7, FillIsPlain
<1>8. QED
  BY <1>3, <1>4, <1>5, <1>6, <1>7 DEF M!MatchStep, M!Meeting

(* An order comes plain and nothing is published of it; a cancellation     *)
(* publishes only of its own order.                                        *)
LEMMA TakeIsSafe ==
  ASSUME WayInv, CommandsSafe, AllPlain, ToldSafe, Safe \subseteq Safe', Take
  PROVE  CommandsSafe' /\ AllPlain' /\ ToldSafe'
<1> DEFINE c == Head(channel)
           r == RequestOf(placed[c.id])
<1>1. channel # <<>> /\ channel' = Tail(channel) /\ UNCHANGED <<pool, loop>>
  BY DEF Take
<1>2. CancelsIn(Tail(channel), Safe) /\ (c.kind = "cancel" => c.id \in Safe)
  BY <1>1, CancelsInTail DEF WayInv, CommandsSafe
<1>3. CommandsSafe'
  BY <1>1, <1>2, CancelsInMore DEF CommandsSafe
<1>4. CASE c.kind = "order" /\ M!StartMatching(c.id, r)
  <2> DEFINE o == M!Incoming(r)
  <2>1. Plain(o) /\ o.told \notin CanceledStates
    BY DEF Plain, Fields, M!Incoming, RequestOf, CanceledStates
  <2>2. orders' = [j \in DOMAIN orders \cup {c.id} |-> IF j = c.id THEN o ELSE orders[j]]
        /\ taker' = c.id
    BY <1>4 DEF M!StartMatching, M!Record
  <2> HIDE DEF o
  <2>3. QED
    BY <1>3, <2>1, <2>2 DEF AllPlain, ToldSafe
<1>5. CASE c.kind = "cancel" /\ M!Cancel(0, c.id)
  <2> DEFINE told == M!CancelState(orders[c.id].state)
  <2>1. UNCHANGED taker /\ \/ UNCHANGED orders
                           \/ orders' = [orders EXCEPT ![c.id].told = told]
    BY <1>5 DEF M!Cancel
  <2> HIDE DEF told
  <2>2. /\ DOMAIN orders' = DOMAIN orders
        /\ \A i \in DOMAIN orders : i # c.id => orders'[i] = orders[i]
        /\ c.id \in DOMAIN orders => Plain(orders'[c.id])
    BY <2>1, PlainTold DEF AllPlain
  <2>3. QED
    BY <1>2, <1>3, <1>5, <2>1, <2>2 DEF AllPlain, ToldSafe
<1>6. QED
  BY <1>4, <1>5 DEF Take

-----------------------------------------------------------------------------
(* Every step, given that what is safe stays safe.                         *)
LEMMA CancelStutter ==
  ASSUME CancelInv, Safe \subseteq Safe',
         UNCHANGED <<handler, pool, channel, loop, engineVars>>
  PROVE  CancelInv'
BY HandlersStay, CommandsStay, EngineStays DEF CancelInv

LEMMA ClientIsSafe ==
  ASSUME CancelInv, WayInv, Safe \subseteq Safe', NEW i \in Ids, Client(i),
         UNCHANGED <<settleVars, cancelVars>>
  PROVE  CancelInv'
<1>1. CASE RecordSubmit(i) \/ (PostOrder(i) /\ Refused("order", i))
  BY <1>1, CancelStutter DEF RecordSubmit, PostOrder, Refused, cancelVars
<1>2. CASE PostOrder(i) /\ Submitted("order", i)
  <2>1. UNCHANGED <<handler, channel, loop, engineVars>>
    BY <1>2 DEF PostOrder, cancelVars
  <2>2. QED
    BY <1>2, <2>1, CommandAdded, HandlersStay, EngineStays DEF CancelInv
<1>3. QED
  BY <1>1, <1>2 DEF Client, PostOrder

LEMMA EventLoopIsSafe ==
  ASSUME CancelInv, WayInv, Safe \subseteq Safe', EventLoop,
         UNCHANGED <<settleVars, cancelVars>>
  PROVE  CancelInv'
<1>1. UNCHANGED <<handler, engineVars>>
  BY DEF EventLoop, Receive, Send, Complete, cancelVars
<1>2. CommandsSafe'
  <2>1. CASE Complete
    <3>1. UNCHANGED <<pool, channel>> /\ loop'.step # "send"
      BY <2>1 DEF Complete, Receiving
    <3>2. QED
      BY <3>1, CancelsInMore DEF CancelInv, CommandsSafe
  <2>2. QED
    BY <2>1, ReceiveIsSafe, SendIsSafe DEF EventLoop, CancelInv
<1>3. QED
  BY <1>1, <1>2, HandlersStay, EngineStays DEF CancelInv

LEMMA MatcherIsSafe ==
  ASSUME CancelInv, WayInv, Safe \subseteq Safe', MatcherStep,
         UNCHANGED <<settleVars, cancelVars>>
  PROVE  CancelInv'
<1>1. UNCHANGED handler
  BY DEF cancelVars
<1>2. CASE Take
  BY <1>1, <1>2, TakeIsSafe, HandlersStay DEF CancelInv
<1>3. CASE Match
  <2>1. M!MatchStep /\ UNCHANGED <<pool, channel, loop>>
    BY <1>3 DEF Match, handlerVars
  <2>2. AllPlain' /\ Published /\ DOMAIN orders' = DOMAIN orders
    BY <2>1, MatchIsPlain, MatchStepKeeps DEF CancelInv
  <2>3. ToldSafe'
    BY <2>2 DEF CancelInv, ToldSafe, Published
  <2>4. QED
    BY <1>1, <2>1, <2>2, <2>3, HandlersStay, CommandsStay DEF CancelInv
<1>4. CASE RecordMatch
  BY <1>1, <1>4, CancelStutter DEF RecordMatch, handlerVars
<1>5. QED
  BY <1>2, <1>3, <1>4 DEF MatcherStep

LEMMA SettlingIsSafe ==
  ASSUME CancelInv, Safe \subseteq Safe', SettleBatch \/ RetryLoop, UNCHANGED cancelVars
  PROVE  CancelInv'
<1>1. UNCHANGED <<handler, pool, channel, loop, engineVars>>
  <2>1. CASE SettlePair("matcher") \/ SettlePair("retry")
    BY <2>1 DEF SettlePair, TransferBase, TransferQuote, Transfer, Settle,
                VerifySettled, poolVars, handlerVars, cancelVars
  <2>2. CASE \/ StartItem \/ FinishItem
             \/ RetryRound \/ RetryStart \/ RetryFinish
    BY <2>2 DEF StartItem, FinishItem, RetryRound, RetryStart, RetryFinish,
                poolVars, handlerVars, cancelVars
  <2>3. QED
    BY <2>1, <2>2 DEF SettleBatch, RetryLoop
<1>2. QED
  BY <1>1, CancelStutter

(* A handler submits its Cancel order after the contract has confirmed the *)
(* cancellation of a public order, or when the order is private.           *)
LEMMA HandlerIsSafe ==
  ASSUME CancelInv, WayInv, Safe \subseteq Safe', UNCHANGED placed,
         NEW i \in Ids, CancelHandler(i)
  PROVE  CancelInv'
<1>1. ASSUME UNCHANGED poolVars, HandlersSafe' PROVE CancelInv'
  BY <1>1, CommandsStay, EngineStays DEF CancelInv, poolVars, handlerVars
<1>2. CASE CancelRequest(i)
  <2> DEFINE h == [step |-> IF Public(i) THEN "refund" ELSE "cancel",
                   branch |-> IF po[i] = "order" THEN placed[i].side ELSE "Buy",
                   creds |-> creds]
  <2>1. handler' = [handler EXCEPT ![i] = h] /\ UNCHANGED poolVars
    BY <1>2 DEF CancelRequest
  <2>2. HandlerRecord(h) /\ h.step # "submit"
    BY DEF HandlerRecord
  <2> HIDE DEF h
  <2>3. HandlersSafe'
    BY <2>1, <2>2 DEF CancelInv, HandlersSafe
  <2>4. QED
    BY <1>1, <2>1, <2>3
<1>3. CASE Refund(i)
  <2>1. \E step : Continue(i, step) /\ step # "submit"
    BY <1>3 DEF Refund
  <2>2. QED
    BY <1>1, <1>3, <2>1, HandlerMoves DEF Refund, CancelInv
<1>4. CASE CancelOnChain(i)
  <2>1. \E step : Continue(i, step) /\ (step = "submit" => ~Public(i))
    BY <1>4 DEF CancelOnChain
  <2>2. ~Public(i) => i \in Safe'
    BY DEF Safe, Public
  <2>3. QED
    BY <1>1, <1>4, <2>1, <2>2, HandlerMoves DEF CancelOnChain, CancelInv
<1>5. CASE VerifyCanceled(i)
  <2>1. \E step : Continue(i, step) /\ (step = "submit" => ledger.status[i] = 2)
    BY <1>5 DEF VerifyCanceled, Verify
  <2>2. ledger.status[i] = 2 => i \in Safe'
    BY DEF Safe
  <2>3. QED
    BY <1>1, <1>5, <2>1, <2>2, HandlerMoves DEF VerifyCanceled, CancelInv
<1>6. CASE SubmitCancel(i)
  <2>1. i \in Safe'
    BY <1>6 DEF SubmitCancel, HandlerAt, CancelInv, HandlersSafe
  <2>2. HandlersSafe'
    BY <1>6, HandlerMoves DEF SubmitCancel, CancelInv
  <2>3. UNCHANGED <<channel, loop, engineVars>>
    BY <1>6 DEF SubmitCancel
  <2>4. CommandsSafe'
    BY <1>6, <2>1, <2>3, CommandAdded, CommandsStay
       DEF SubmitCancel, Refused, CancelInv
  <2>5. QED
    BY <2>2, <2>3, <2>4, EngineStays DEF CancelInv
<1>7. QED
  BY <1>2, <1>3, <1>4, <1>5, <1>6 DEF CancelHandler

LEMMA CancelStarts == Init => CancelInv
<1> SUFFICES ASSUME Init PROVE CancelInv
  OBVIOUS
<1>1. HandlersSafe
  BY DEF Init, CancelInit, HandlersSafe, HandlerRecord, NoHandler
<1>2. CommandsSafe
  BY EmptySeq DEF Init, PoolInit, CommandsSafe, CancelsIn, Receiving
<1>3. AllPlain /\ ToldSafe
  BY DEF Init, PoolInit, M!Init, AllPlain, ToldSafe
<1>4. QED
  BY <1>1, <1>2, <1>3 DEF CancelInv

LEMMA CancelNext == CancelInv /\ WayInv /\ LedgerInv /\ [Next]_vars => CancelInv'
<1> SUFFICES ASSUME CancelInv, WayInv, LedgerInv, [Next]_vars PROVE CancelInv'
  OBVIOUS
<1>1. Safe \subseteq Safe' /\ UNCHANGED placed
  BY LedgerNext, PlacedStays, SafeGrows
<1>2. CASE Chain /\ UNCHANGED <<poolVars, settleVars, cancelVars>>
  BY <1>1, <1>2, CancelStutter DEF poolVars, handlerVars, cancelVars
<1>3. CASE UNCHANGED vars
  BY <1>1, <1>3, CancelStutter DEF vars, poolVars, handlerVars, cancelVars
<1>4. QED
  BY <1>1, <1>2, <1>3, ClientIsSafe, EventLoopIsSafe, MatcherIsSafe,
     SettlingIsSafe, HandlerIsSafe DEF Next

(* The book lets go of a public order by a cancellation only when the      *)
(* contract has it as canceled, whichever handlers, settlements and late   *)
(* transactions run in between (cancel.go).                                *)
THEOREM CanceledOnChain == Spec => []CanceledPublicIsOnChain
<1>1. CancelInv /\ WayInv => CanceledPublicIsOnChain
  BY DEF CancelInv, ToldSafe, Safe, CanceledStates, CanceledPublicIsOnChain
<1>2. Spec => []LedgerInv
  BY LedgerStarts, LedgerNext, PTL DEF Spec
<1>3. QED
  BY <1>1, <1>2, WayInvariant, CancelStarts, CancelNext, PTL DEF Spec
=============================================================================
