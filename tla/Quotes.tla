------------------------------- MODULE Quotes -------------------------------
(***************************************************************************)
(* The level-2 quotes of one symbol (core/l2quote): the klines of every    *)
(* period, the market of the last 24 hours, their copies in Redis and the  *)
(* snapshots they come back from.  The results of the matcher arrive in    *)
(* the order of their ids, each with the time its order was created.       *)
(*                                                                         *)
(* Time is counted in minutes.  A bar has its four prices, and one count   *)
(* for the count, volume and turnover that are added up together.  A       *)
(* result is the sequence of the prices its fills were made at.            *)
(*                                                                         *)
(* An operator whose name ends in _Slip is the definition after it with a  *)
(* plausible mistake in it; no specification uses one.                     *)
(***************************************************************************)
EXTENDS Integers, Sequences, FiniteSets, FiniteSetsExt, Functions, SequencesExt

CONSTANTS
  Types,       \* the periods of klines
  Starts,      \* [Types -> sets of times]: when the windows of a period begin
  Step,        \* HmType2Step: the nominal length of a window
  Fills,       \* what a result may fill: sequences of prices
  Day,         \* the minutes of the market, 24*60
  Forward,     \* l2quote.kline-forward-limit
  Keep,        \* the klines of a period that are kept in memory, 1440
  MaxTime,     \* bound: the clock stops there
  MaxResults,  \* bound: results of the matcher
  MaxLag,      \* bound: how old a result may be when it is counted
  MaxCrashes,  \* bound: restarts of the process
  MaxFailures  \* bound: failures of Redis

ASSUME QuotesAssumption ==
  /\ Starts \in [Types -> SUBSET Int] /\ \A t \in Types : 0 \in Starts[t]
  /\ Step \in [Types -> Nat \ {0}]
  /\ Fills \subseteq Seq(Nat \ {0})
  /\ {Day, Forward, Keep} \subseteq Nat \ {0}
  /\ {MaxTime, MaxResults, MaxLag, MaxCrashes, MaxFailures} \subseteq Nat

VARIABLES
  now,        \* the clock
  results,    \* the results the matcher has made; the id is the place
  max,        \* MaxMRId: the last result that was applied
  klines,     \* the klines in memory, by period and start
  cache,      \* redisCache: the klines to write to Redis
  market,     \* the bars of the last Day minutes, the newest first
  marketTs,   \* the minute of the newest
  detail,     \* marketDetail: the count of the whole day
  spTime,     \* lastSnapshotTime
  snapshot,   \* the newest snapshot
  redis,      \* the klines of Redis and its maxMRID
  redisDown,  \* Redis has failed in this minute
  up,         \* the process runs
  crashes,    \* restarts so far
  failures    \* failures of Redis so far

memory == <<max, klines, cache, market, marketTs, detail, spTime>>
vars == <<now, results, memory, snapshot, redis, redisDown, up, crashes, failures>>

Bars == [open : Nat, close : Nat, high : Nat, low : Nat, count : Nat]

Flat(price, n) ==
  [open |-> price, close |-> price, high |-> price, low |-> price, count |-> n]

(* CurWindowTime and NextKlineTimeWindow.                                  *)
CurWindowTime(ts, t) == Max({s \in Starts[t] : s <= ts})

(* The windows of a period from one to another.                            *)
WindowsFrom(from, to, t) == {s \in Starts[t] : from <= s /\ s <= to}

(* No trade: the bars do not change.                                       *)
isPendingOrder(mr) == mr.prices = <<>>

(* A bar to which the fills of a result are added.                         *)
Traded(b, prices) ==
  LET new == b.count = 0
      seen == Range(prices)
  IN  [open  |-> IF new THEN Head(prices) ELSE b.open,
       close |-> Last(prices),
       high  |-> Max(IF new THEN seen ELSE seen \cup {b.high}),
       low   |-> Min(IF new THEN seen ELSE seen \cup {b.low}),
       count |-> b.count + Len(prices)]

-----------------------------------------------------------------------------
(* The klines.                                                             *)

(* getCurrentKline: the windows that are missing up to the time, with the  *)
(* price of the last one.                                                  *)
MissingWindows(k, ts, t) ==
  LET cur == CurWindowTime(ts, t)
  IN  IF k = <<>> THEN {cur}
      ELSE IF cur \in DOMAIN k THEN {}
      ELSE WindowsFrom(Max(DOMAIN k) + 1, cur, t)

getCurrentKline(k, ts, t) ==
  LET last == IF k = <<>> THEN 0 ELSE k[Max(DOMAIN k)].close
  IN  [w \in DOMAIN k \cup MissingWindows(k, ts, t) |->
         IF w \in DOMAIN k THEN k[w] ELSE Flat(last, 0)]

(* updateKline: the window of the result and those after it up to now, at  *)
(* most Forward of them; a result later than now changes none.             *)
UpdatedWindows(mr, ts, t) ==
  LET own == CurWindowTime(mr.ts, t)
      all == WindowsFrom(own, CurWindowTime(ts, t), t)
  IN  IF isPendingOrder(mr) THEN {}
      ELSE {w \in all : Cardinality({v \in all : v < w}) < Forward}

(* The slip takes the fills of a late result into the current window.      *)
updateKline_Now_Slip(k, mr, ts, t) ==
  [w \in DOMAIN k \cup UpdatedWindows(mr, ts, t) |->
     LET b == IF w \in DOMAIN k THEN k[w] ELSE Flat(0, 0)
     IN  IF w \notin UpdatedWindows(mr, ts, t) THEN b
         ELSE IF w = CurWindowTime(ts, t) THEN Traded(b, mr.prices)
         ELSE Flat(Last(mr.prices), b.count)]

updateKline(k, mr, ts, t) ==
  [w \in DOMAIN k \cup UpdatedWindows(mr, ts, t) |->
     LET b == IF w \in DOMAIN k THEN k[w] ELSE Flat(0, 0)
     IN  IF w \notin UpdatedWindows(mr, ts, t) THEN b
         ELSE IF w = CurWindowTime(mr.ts, t) THEN Traded(b, mr.prices)
         ELSE Flat(Last(mr.prices), b.count)]

-----------------------------------------------------------------------------
(* The market of the last 24 hours.                                        *)

DayCount(m) == MapThenSumSet(LAMBDA i : m[i].count, DOMAIN m)

(* buildMarket24Hour: a bar at the last price for every minute since.  The *)
(* slip makes one for every minute of an idle time longer than the day.    *)
Rolled_Long_Slip(m, from, ts) ==
  LET off == ts - from
  IN  [i \in 1..Max({off, Day}) |-> IF i <= off THEN Flat(m[1].close, 0) ELSE m[i - off]]

Rolled(m, from, ts) ==
  LET off == Min({ts - from, Day})
  IN  [i \in 1..Day |-> IF i <= off THEN Flat(m[1].close, 0) ELSE m[i - off]]

BuiltMarket == Rolled(market, marketTs, now)

(* Nothing is added up again within a minute.  The slip adds up the bars   *)
(* before those of the minutes since have pushed the oldest ones out.      *)
BuiltDetail_Before_Slip == IF marketTs = now THEN detail ELSE DayCount(market)

BuiltDetail == IF marketTs = now THEN detail ELSE DayCount(BuiltMarket)

(* updateMarketDetail24Hour: the minute of the result and all after it; of *)
(* a result older than the day only the price.                             *)
UpdatedMarket(m, mr, ts) ==
  LET old == ts - mr.ts > Day - 1
      off == IF old THEN Day ELSE ts - mr.ts + 1
  IN  [i \in 1..Day |->
         IF isPendingOrder(mr) \/ i > off THEN m[i]
         ELSE IF i = off /\ ~old THEN Traded(m[i], mr.prices)
         ELSE Flat(Last(mr.prices), m[i].count)]

UpdatedDetail(d, mr, ts) ==
  IF ts - mr.ts > Day - 1 THEN d ELSE d + Len(mr.prices)

-----------------------------------------------------------------------------
NoSnapshot == [at |-> 0]

Fresh == [i \in 1..Day |-> Flat(0, 0)]

(* NewL2quote, Init and Run without a snapshot.                            *)
Init ==
  /\ now = 0 /\ results = <<>> /\ max = 0
  /\ klines = [t \in Types |-> <<>>] /\ cache = [t \in Types |-> {}]
  /\ market = Fresh /\ marketTs = 0 /\ detail = 0 /\ spTime = 0
  /\ snapshot = NoSnapshot
  /\ redis = [max |-> 0, klines |-> [t \in Types |-> <<>>]]
  /\ redisDown = FALSE /\ up = TRUE /\ crashes = 0 /\ failures = 0

(* The last result of the newest snapshot: a restart counts those after it *)
(* again.                                                                  *)
SnapMax == IF snapshot = NoSnapshot THEN 0 ELSE snapshot.max

(* No result after the n-th is older than MaxLag at the time.              *)
InTime(n, ts) == \A i \in DOMAIN results : i > n => ts - results[i].ts <= MaxLag

(* The ticker of Redis fires every second: what a minute leaves in the     *)
(* cache is written before the next, if Redis does not fail.  The results  *)
(* that are not counted yet, or are to be counted again, are not older     *)
(* than MaxLag.                                                            *)
Clock ==
  /\ now < MaxTime
  /\ up => redisDown \/ \A t \in Types : cache[t] = {}
  /\ InTime(IF up THEN max ELSE SnapMax, now + 1)
  /\ now' = now + 1
  /\ redisDown' = FALSE
  /\ UNCHANGED <<results, memory, snapshot, redis, up, crashes, failures>>

(* The matcher makes a result; an order may have been created a while ago, *)
(* and before one that came earlier.                                       *)
Result ==
  /\ Len(results) < MaxResults
  /\ \E ts \in (now - MaxLag)..now, ps \in Fills :
       /\ ts >= 0
       /\ results' = Append(results, [ts |-> ts, prices |-> ps])
  /\ UNCHANGED <<now, memory, snapshot, redis, redisDown, up, crashes, failures>>

(* What getAllCurrentKline adds is written to Redis as well.               *)
Current(ts) == [t \in Types |-> getCurrentKline(klines[t], ts, t)]

Touched(ts) == [t \in Types |-> cache[t] \cup MissingWindows(klines[t], ts, t)]

(* A result goes to the klines of every period and to the market, and is   *)
(* the last from then on.                                                  *)
Apply ==
  /\ up /\ max < Len(results)
  /\ LET mr == results[max + 1]
     IN  /\ klines' = [t \in Types |-> updateKline(Current(now)[t], mr, now, t)]
         /\ cache' = [t \in Types |-> Touched(now)[t] \cup UpdatedWindows(mr, now, t)]
         /\ market' = UpdatedMarket(BuiltMarket, mr, now)
         /\ marketTs' = now
         /\ detail' = UpdatedDetail(BuiltDetail, mr, now)
  /\ max' = max + 1
  /\ UNCHANGED <<now, results, spTime, snapshot, redis, redisDown, up, crashes,
                 failures>>

(* The tickers that look for a new kline.                                  *)
CheckKlines ==
  /\ up
  /\ klines' = Current(now) /\ cache' = Touched(now)
  /\ UNCHANGED <<now, results, max, market, marketTs, detail, spTime, snapshot,
                 redis, redisDown, up, crashes, failures>>

(* The tickers of the market.                                              *)
BuildMarket ==
  /\ up /\ marketTs # now
  /\ market' = BuiltMarket /\ marketTs' = now /\ detail' = BuiltDetail
  /\ UNCHANGED <<now, results, max, klines, cache, spTime, snapshot, redis,
                 redisDown, up, crashes, failures>>

(* The hourly release of old klines: the oldest ones before the window of  *)
(* the last snapshot, down to Keep.  The slip keeps none of those.         *)
Released_All_Slip(k, t) == {w \in DOMAIN k : w < CurWindowTime(spTime, t)}

Released(k, t) ==
  {w \in DOMAIN k :
     /\ Cardinality({v \in DOMAIN k : v >= w}) > Keep
     /\ w < CurWindowTime(spTime, t)}

Clear ==
  /\ up
  /\ klines' = [t \in Types |-> Restrict(klines[t], DOMAIN klines[t] \ Released(klines[t], t))]
  /\ UNCHANGED <<now, results, max, cache, market, marketTs, detail, spTime,
                 snapshot, redis, redisDown, up, crashes, failures>>

-----------------------------------------------------------------------------
(* Redis, snapshots and restarts.                                          *)

(* saveKlinesToRedis stops the process if a kline of the cache is gone.    *)
Savable(k, c) == \A t \in Types : c[t] \subseteq DOMAIN k[t]

(* A restart has gone back behind what Redis holds: nothing is written.    *)
Ahead == redis.max > max

Written(k, c) ==
  IF Ahead THEN redis
  ELSE [max |-> max,
        klines |-> [t \in Types |->
          [w \in DOMAIN redis.klines[t] \cup c[t] |->
             IF w \in c[t] THEN k[t][w] ELSE redis.klines[t][w]]]]

NoCache == [t \in Types |-> {}]

RedisFails ==
  /\ failures < MaxFailures /\ failures' = failures + 1 /\ redisDown' = TRUE
  /\ UNCHANGED <<redis, snapshot, spTime>>

Save ==
  /\ up /\ (Ahead \/ Savable(klines, cache))
  /\ \/ /\ redis' = Written(klines, cache) /\ cache' = NoCache
        /\ UNCHANGED <<redisDown, snapshot, spTime, failures>>
     \/ RedisFails /\ UNCHANGED cache
  /\ UNCHANGED <<now, results, max, klines, market, marketTs, detail, up, crashes>>

(* takeSnapShot: of every period the window of the clock and the one a     *)
(* Step before it, an empty one if there is none at that time.  The order  *)
(* to take one comes at any time through the channel of the results, so    *)
(* also while a restart still counts results again.  The slip keeps the    *)
(* current window only.                                                    *)
TwoWindows_One_Slip(k, t) ==
  LET key == CurWindowTime(now, t) IN [w \in {key} |-> k[w]]

TwoWindows(k, t) ==
  LET key == CurWindowTime(now, t)
      lastKey == key - Step[t]
  IN  [w \in {key, lastKey} |-> IF w \in DOMAIN k THEN k[w] ELSE Flat(0, 0)]

Snapshot ==
  /\ up /\ (Ahead \/ Savable(Current(now), Touched(now)))
  /\ klines' = Current(now)
  /\ \/ /\ redis' = Written(Current(now), Touched(now)) /\ cache' = NoCache
        /\ spTime' = now
        /\ snapshot' = [at |-> now, max |-> max, market |-> market,
                        marketTs |-> marketTs,
                        klines |-> [t \in Types |-> TwoWindows(Current(now)[t], t)]]
        /\ UNCHANGED <<redisDown, failures>>
     \/ RedisFails /\ cache' = Touched(now)
  /\ UNCHANGED <<now, results, max, market, marketTs, detail, up, crashes>>

Crash ==
  /\ up /\ crashes < MaxCrashes /\ InTime(SnapMax, now)
  /\ up' = FALSE /\ crashes' = crashes + 1
  /\ UNCHANGED <<now, results, memory, snapshot, redis, redisDown, failures>>

Restart ==
  /\ ~up /\ up' = TRUE
  /\ cache' = NoCache
  /\ LET new == snapshot = NoSnapshot
     IN  /\ max' = IF new THEN 0 ELSE snapshot.max
         /\ klines' = IF new THEN [t \in Types |-> <<>>] ELSE snapshot.klines
         /\ spTime' = IF new THEN now ELSE snapshot.at
         /\ market' = IF new THEN Fresh
                      ELSE Rolled(snapshot.market, snapshot.marketTs, now)
         /\ marketTs' = now
         /\ detail' = DayCount(market')
  /\ UNCHANGED <<now, results, snapshot, redis, redisDown, crashes, failures>>

Next ==
  \/ Clock \/ Result \/ Apply \/ CheckKlines \/ BuildMarket \/ Clear
  \/ Save \/ Snapshot \/ Crash \/ Restart

Spec == Init /\ [][Next]_vars

-----------------------------------------------------------------------------
(* Every variable has its type.                                            *)
TypeOK ==
  /\ now \in 0..MaxTime /\ max \in 0..Len(results)
  /\ crashes \in 0..MaxCrashes /\ failures \in 0..MaxFailures
  /\ \A t \in Types : /\ Range(klines[t]) \subseteq Bars
                       /\ Range(redis.klines[t]) \subseteq Bars
                       /\ cache[t] \subseteq Starts[t]
  /\ market \in Seq(Bars) /\ Len(market) = Day
  /\ detail \in Nat /\ {marketTs, spTime} \subseteq 0..now
  /\ {up, redisDown} \subseteq BOOLEAN

(* The fills of the first n results that fall in some minutes.             *)
FillsOf(rs, n, minutes) ==
  LET fills[i \in 0..n] ==
        IF i = 0 THEN <<>>
        ELSE IF rs[i].ts \in minutes THEN fills[i - 1] \o rs[i].prices
        ELSE fills[i - 1]
  IN  fills[n]

FillsAt(n, minutes) == FillsOf(results, n, minutes)

Minutes(w, t) == {m \in 0..MaxTime : CurWindowTime(m, t) = w}

(* The 24 hours of the ticker count every fill of the last Day minutes     *)
(* once, however late its result was, and across restarts from a snapshot  *)
(* (market.go:125, 246; snapshot.go:308).                                  *)
DetailIsTheDay ==
  up => detail = Len(FillsAt(max, (marketTs - Day + 1)..marketTs))

(* Each window of a period begins one Step after the one before it, as     *)
(* those of the minutes, hours, days and weeks do and those of the months  *)
(* do not.                                                                 *)
Regular(t) ==
  \A s \in Starts[t] : s >= 0 =>
    /\ s - Step[t] \in Starts[t]
    /\ \A v \in Starts[t] : ~(s - Step[t] < v /\ v < s)

(* The periods of which the two windows of a snapshot reach back to every  *)
(* result that is counted after it.                                        *)
LongPeriods == {t \in Types : Regular(t) /\ MaxLag <= Step[t]}

(* The klines of Redis count every fill of their window once, although     *)
(* they are written bar by bar from a memory that a restart takes back to  *)
(* the two windows of a snapshot, and the snapshot may be of a memory that *)
(* was itself still behind Redis (redis_ops.go:14, snapshot.go:49).        *)
RedisCountsOnce ==
  \A t \in LongPeriods : \A w \in Starts[t] :
    (IF w \in DOMAIN redis.klines[t] THEN redis.klines[t][w].count ELSE 0)
      = Len(FillsAt(redis.max, Minutes(w, t)))

InOrder == \A i, j \in DOMAIN results : i < j => results[i].ts <= results[j].ts

(* The prices of a kline with fills are those of its fills, as long as the *)
(* results come in the order of their times: a late one levels the bars    *)
(* after its own (kline.go:95-172).                                        *)
KlinesAreTheFills ==
  up /\ InOrder =>
    \A t \in LongPeriods : \A w \in DOMAIN klines[t] :
      LET fills == FillsAt(max, Minutes(w, t))
      IN  fills # <<>> =>
            klines[t][w] = [open |-> Head(fills), close |-> Last(fills),
                            high |-> Max(Range(fills)), low |-> Min(Range(fills)),
                            count |-> Len(fills)]

(* What is to be written to Redis is in memory: old klines are kept until  *)
(* the results of their time are done, or saving would stop the process    *)
(* (l2quote.go:236-259, redis_ops.go:38).                                  *)
KeptUntilSaved == up => Savable(klines, cache)

-----------------------------------------------------------------------------
(* What the theorems about the klines ask of the parameters: the klines in *)
(* memory reach back to the oldest result that is to be counted, and to    *)
(* what the cache holds when Redis has failed for some minutes.  A period  *)
(* whose windows differ in length may have one kline more in memory.       *)
MemoryReachesBack == MaxLag < Keep /\ Keep >= 2

CacheReachesBack ==
  \A t \in Types : MaxLag + MaxFailures + (IF Regular(t) THEN 0 ELSE 1) < Keep
=============================================================================
