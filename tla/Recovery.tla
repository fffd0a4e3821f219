------------------------------ MODULE Recovery ------------------------------
(***************************************************************************)
(* The centralized exchange around the matcher of one symbol, and how it   *)
(* comes back after it stopped: cmd/exchange/main.go, centralized/puller,  *)
(* persistence, snapshotter and validate, the loop of dex/runner, and the  *)
(* snapshots of core/l2quote.                                              *)
(*                                                                         *)
(* The matching itself is a function of the orders before (Matching), so a *)
(* book is the set of the orders it was given, its FromId the largest, and *)
(* the result of an order is the book it met.  A quotation is the sequence *)
(* of the results it has counted, its MaxMRId the last.                    *)
(*                                                                         *)
(* An operator whose name ends in _Slip is the definition after it with a  *)
(* plausible mistake in it; no specification uses one.                     *)
(***************************************************************************)
EXTENDS Naturals, Sequences, FiniteSets, FiniteSetsExt, Functions, SequencesExt

CONSTANTS
  MaxId,      \* bound: the order rows have the ids 1..MaxId
  Bounds,     \* bounds of a run: how many ids, starts of the process, snapshot
              \* ticks, writes that fail and late rows it may have, and the
              \* capacity of the channels behind the matcher
  BatchSize,  \* persistence.batch-size
  History     \* snapshot.n-history

Bounded == {"ids", "starts", "ticks", "fails", "late", "chan"}

ASSUME RecoveryAssumption ==
  /\ MaxId \in Nat
  /\ Bounds \subseteq [Bounded -> Nat]
  /\ \A b \in Bounds : b.ids <= MaxId /\ b.chan > 0
  /\ {BatchSize, History} \subseteq Nat \ {0}

Ids == 1..MaxId
Books == SUBSET Ids
From(b) == IF b = {} THEN 0 ELSE Max(b)

Rising(s) == \A j, k \in DOMAIN s : j < k => s[j] < s[k]

(* The ids of a set in their order.                                        *)
InOrder(S) == CHOOSE s \in [1..Cardinality(S) -> S] : Rising(s)

(* The puller of the matcher and the one of the validation.                *)
Pullers == {"matcher", "check"}

VARIABLES
  rows,        \* MySQL: the order rows committed so far
  db,          \* MySQL: the results written so far, by order
  files,       \* the book snapshots of the directory, named by their FromId
  quoteFile,   \* the newest l2quote snapshot
  redis,       \* the klines of Redis and its maxMRID
  main,        \* how far the main goroutine is
  cursor,      \* the id each puller asks for next
  queue,       \* the orders each puller has sent and nobody has taken
  book,        \* the book of the matcher
  perch,       \* the results on their way to persistence
  batches,     \* the batches at the ten writers
  snapshots,   \* snapshotChan
  mrCh,        \* the channel of the matcher to l2quote
  quote,       \* the quotation in memory
  window,      \* the two snapshots the validation works between
  known,       \* the results the validation has read
  replay,      \* the book the validation rebuilds
  left,        \* what is left of the bounds
  published,   \* history: the results given out, as pairs of order and book
  late,        \* history: a row has committed below an id already read
  hidden       \* history: a snapshot of a quotation with a gap, before the check

disk == <<db, files, quoteFile, redis>>
orders == <<rows, late>>
matcher == <<book, perch, snapshots, mrCh, published>>
check == <<window, known, replay>>
vars == <<disk, orders, matcher, check, main, cursor, queue, batches, quote,
          left, hidden>>

(* The message "snapshot!" between the ids of the results.                  *)
Snap == 0

Newest(bs) == CHOOSE b \in bs : \A c \in bs : From(c) <= From(b)

(* GetSnapshotIds: the snapshot of FromId 0 is not one.                    *)
Snapshots == files \ {{}}

(* GetLastSnapshotId and Load.                                             *)
LastBook == IF Snapshots = {} THEN {} ELSE Newest(Snapshots)

(* The slip takes the newest.                                              *)
BaseBook_Newest_Slip == LastBook

(* The second newest, or the empty book.                                   *)
BaseBook ==
  LET older == Snapshots \ {LastBook}
  IN  IF older = {} THEN {} ELSE Newest(older)

MaxMRId(q) == IF q = <<>> THEN 0 ELSE Last(q)

NoWindow == [base |-> {}, last |-> {}]

Spend(b) == left[b] > 0 /\ left' = [left EXCEPT ![b] = @ - 1]

(* The file 0 is there when the operator has made it (or it is not).       *)
Init ==
  /\ rows = {} /\ late = FALSE
  /\ db = <<>> /\ files \in {{}, {{}}} /\ quoteFile = <<>> /\ redis = <<>>
  /\ main = "down"
  /\ cursor = [p \in Pullers |-> 0] /\ queue = [p \in Pullers |-> <<>>]
  /\ book = {} /\ perch = <<>> /\ snapshots = <<>> /\ mrCh = <<>>
  /\ batches = {} /\ quote = <<>>
  /\ window = NoWindow /\ known = <<>> /\ replay = {}
  /\ published = {} /\ hidden = FALSE
  /\ left \in Bounds

Result(i, b) == [id |-> i, book |-> b]

PublishedIds == {r.id : r \in published}

Up == main \notin {"down", "halted"}

-----------------------------------------------------------------------------
(* The order rows are written by another system; the puller selects        *)
(* f_id >= fromId in the order of the ids, and asks next for the last      *)
(* + 1, whatever has committed below in the meantime.                      *)

ReadAbove(i) ==
  \E j \in PublishedIds \cup Range(queue["matcher"]) \cup Range(queue["check"]) :
    i < j

Commit(i) ==
  /\ i \in 1..left.ids \ rows
  /\ rows' = rows \cup {i}
  /\ \/ ~ReadAbove(i) /\ UNCHANGED <<late, left>>
     \/ ReadAbove(i) /\ Spend("late") /\ late' = TRUE
  /\ UNCHANGED <<disk, matcher, check, main, cursor, queue, batches, quote,
                 hidden>>

Pulling(p) == IF p = "matcher" THEN Up ELSE main \in {"loaded", "replaying"}

Selected(from) == InOrder({i \in rows : i >= from})

(* The slip asks again for the last one.                                   *)
Pull_SameRow_Slip(p) ==
  LET found == Selected(cursor[p])
  IN  /\ Pulling(p) /\ found # <<>>
      /\ queue' = [queue EXCEPT ![p] = @ \o found]
      /\ cursor' = [cursor EXCEPT ![p] = Last(found)]
      /\ UNCHANGED <<disk, orders, matcher, check, main, batches, quote, left,
                     hidden>>

(* The slip leaves one id out.                                             *)
Pull_Skip_Slip(p) ==
  LET found == Selected(cursor[p])
  IN  /\ Pulling(p) /\ found # <<>>
      /\ queue' = [queue EXCEPT ![p] = @ \o found]
      /\ cursor' = [cursor EXCEPT ![p] = Last(found) + 2]
      /\ UNCHANGED <<disk, orders, matcher, check, main, batches, quote, left,
                     hidden>>

(* A round of GoPuller that finds rows; the puller of the validation       *)
(* starts with it.                                                         *)
Pull(p) ==
  LET found == Selected(cursor[p])
  IN  /\ Pulling(p) /\ found # <<>>
      /\ queue' = [queue EXCEPT ![p] = @ \o found]
      /\ cursor' = [cursor EXCEPT ![p] = Last(found) + 1]
      /\ UNCHANGED <<disk, orders, matcher, check, main, batches, quote, left,
                     hidden>>

-----------------------------------------------------------------------------
(* The matcher goroutine and the goroutines behind its channels.           *)

(* Room in the channels: onOrder blocks the matcher when one is full.      *)
Room == Len(perch) < left.chan /\ Len(mrCh) < left.chan

(* An order is matched; the result goes to persistence, to the readers of  *)
(* RabbitMQ and to l2quote, in this order.                                 *)
Match ==
  /\ Up /\ queue["matcher"] # <<>> /\ Room
  /\ LET i == Head(queue["matcher"])
         r == Result(i, book)
     IN  /\ queue' = [queue EXCEPT !["matcher"] = Tail(@)]
         /\ book' = book \cup {i}
         /\ perch' = Append(perch, r)
         /\ published' = published \cup {r}
         /\ mrCh' = Append(mrCh, i)
  /\ UNCHANGED <<disk, orders, check, snapshots, main, cursor, batches, quote,
                 left, hidden>>

(* The snapshot ticker: a copy of the book to the dumper, and the signal   *)
(* to l2quote behind the results of that book.                             *)
Tick ==
  /\ Up /\ Len(snapshots) < left.chan /\ Len(mrCh) < left.chan /\ Spend("ticks")
  /\ snapshots' = Append(snapshots, book)
  /\ mrCh' = Append(mrCh, Snap)
  /\ UNCHANGED <<disk, orders, check, book, perch, published, main, cursor,
                 queue, batches, quote, hidden>>

(* The History newest of the snapshots, and the file 0, which has no id    *)
(* to be removed by.                                                       *)
Kept(bs) ==
  {b \in bs : b = {} \/ Cardinality({c \in bs : From(c) > From(b)}) < History}

(* DumpSnapshotChan: the book is written to a temporary file, renamed to   *)
(* its FromId, and the old snapshots removed.                              *)
Dump ==
  /\ Up /\ snapshots # <<>>
  /\ LET b == Head(snapshots)
     IN  files' = Kept({c \in files : From(c) # From(b)} \cup {b})
  /\ snapshots' = Tail(snapshots)
  /\ UNCHANGED <<db, quoteFile, redis, orders, check, book, perch, mrCh,
                 published, main, cursor, queue, batches, quote, left, hidden>>

(* goBatch: what the channel holds, up to the size of a batch, to any      *)
(* writer that is free.                                                    *)
Batch ==
  /\ Up /\ perch # <<>>
  /\ LET n == Min({Len(perch), BatchSize})
     IN  /\ batches' = batches \cup {Range(SubSeq(perch, 1, n))}
         /\ perch' = SubSeq(perch, n + 1, Len(perch))
  /\ UNCHANGED <<disk, orders, check, book, snapshots, mrCh, published, main,
                 cursor, queue, quote, left, hidden>>

(* insert ignore: a row that is there stays.                               *)
Inserted(table, batch) ==
  [i \in DOMAIN table \cup {r.id : r \in batch} |->
     IF i \in DOMAIN table THEN table[i]
     ELSE (CHOOSE r \in batch : r.id = i).book]

(* A writer inserts its batch, or the statement fails, which is only       *)
(* logged.                                                                 *)
Write(batch) ==
  /\ Up
  /\ \/ db' = Inserted(db, batch) /\ UNCHANGED left
     \/ Spend("fails") /\ UNCHANGED db
  /\ batches' = batches \ {batch}
  /\ UNCHANGED <<files, quoteFile, redis, orders, matcher, check, main, cursor,
                 queue, quote, hidden>>

-----------------------------------------------------------------------------
(* The goroutine of l2quote.                                               *)

(* The slip drops the duplicate check.                                     *)
Counted_Twice_Slip(q, i) == Append(q, i)

(* A result of an id up to MaxMRId was counted before.                     *)
Counted(q, i) == IF i <= MaxMRId(q) THEN q ELSE Append(q, i)

Quote ==
  /\ Up /\ mrCh # <<>> /\ Head(mrCh) # Snap
  /\ quote' = Counted(quote, Head(mrCh))
  /\ mrCh' = Tail(mrCh)
  /\ UNCHANGED <<disk, orders, check, book, perch, snapshots, published, main,
                 cursor, queue, batches, left, hidden>>

(* saveKlinesToRedis: nothing while Redis is ahead of the memory.          *)
Saved(q) == IF MaxMRId(redis) > MaxMRId(q) THEN redis ELSE q

(* The ticker of one second.                                               *)
SaveKlines ==
  /\ Up /\ redis # Saved(quote)
  /\ redis' = Saved(quote)
  /\ UNCHANGED <<db, files, quoteFile, orders, matcher, check, main, cursor,
                 queue, batches, quote, left, hidden>>

(* The results a quotation lacks of those given out up to its last.        *)
Gap(q) == {i \in PublishedIds : i <= MaxMRId(q)} # Range(q)

(* The slip takes the snapshot all the same.                               *)
TakeSnapShot_Unsaved_Slip ==
  /\ Up /\ mrCh # <<>> /\ Head(mrCh) = Snap
  /\ mrCh' = Tail(mrCh)
  /\ quoteFile' = quote
  /\ hidden' = (hidden \/ (main = "started" /\ Gap(quote)))
  /\ \/ redis' = Saved(quote) /\ UNCHANGED left
     \/ Spend("fails") /\ UNCHANGED redis
  /\ UNCHANGED <<db, files, orders, check, book, perch, snapshots, published,
                 main, cursor, queue, batches, quote>>

(* "snapshot!": save to Redis first, and only then the snapshot; a Redis   *)
(* that fails skips it.                                                    *)
TakeSnapShot ==
  /\ Up /\ mrCh # <<>> /\ Head(mrCh) = Snap
  /\ mrCh' = Tail(mrCh)
  /\ \/ /\ redis' = Saved(quote)
        /\ quoteFile' = quote
        /\ hidden' = (hidden \/ (main = "started" /\ Gap(quote)))
        /\ UNCHANGED left
     \/ Spend("fails") /\ UNCHANGED <<redis, quoteFile, hidden>>
  /\ UNCHANGED <<db, files, orders, check, book, perch, snapshots, published,
                 main, cursor, queue, batches, quote>>

-----------------------------------------------------------------------------
(* The main goroutine: startExchange, then ValidateOrderbook.              *)

(* The slip matches the last order of the book once more.                  *)
StartsAt_Inclusive_Slip(b) == From(b)

StartsAt(b) == From(b) + 1

(* startExchange: l2quote from its newest snapshot, the book from its own, *)
(* and the puller behind the book.  From here on orders are matched.       *)
Start ==
  /\ ~Up /\ Spend("starts")
  /\ main' = "started"
  /\ book' = LastBook
  /\ quote' = quoteFile
  /\ cursor' = [cursor EXCEPT !["matcher"] = StartsAt(LastBook)]
  /\ UNCHANGED <<disk, orders, check, perch, snapshots, mrCh, published, queue,
                 batches, hidden>>

(* What the process held is gone.                                          *)
Stop(how) ==
  /\ Up /\ main' = how
  /\ cursor' = [p \in Pullers |-> 0] /\ queue' = [p \in Pullers |-> <<>>]
  /\ book' = {} /\ perch' = <<>> /\ snapshots' = <<>> /\ mrCh' = <<>>
  /\ batches' = {} /\ quote' = <<>>
  /\ window' = NoWindow /\ known' = <<>> /\ replay' = {}
  /\ UNCHANGED <<disk, orders, published, hidden, left>>

Crash == Stop("down")

Fatal == Stop("halted")

NoSnapshotFile == main = "started" /\ files = {} /\ Fatal

NothingToCheck ==
  /\ main = "started" /\ files # {} /\ Snapshots = {}
  /\ main' = "ready"
  /\ UNCHANGED <<disk, orders, matcher, check, cursor, queue, batches, quote,
                 left, hidden>>

QuotesBehind ==
  /\ main = "started" /\ Snapshots # {}
  /\ From(LastBook) > MaxMRId(quoteFile)
  /\ Fatal

(* The slip pulls the last order of the older book again.                  *)
LoadWindow_NotAfter_Slip ==
  /\ main = "started" /\ Snapshots # {}
  /\ From(LastBook) <= MaxMRId(quoteFile)
  /\ main' = "loaded"
  /\ window' = [base |-> BaseBook, last |-> LastBook]
  /\ replay' = BaseBook
  /\ cursor' = [cursor EXCEPT !["check"] = From(BaseBook)]
  /\ UNCHANGED <<disk, orders, matcher, known, queue, batches, quote, left,
                 hidden>>

(* The two newest books are loaded, and the orders after the older pulled. *)
LoadWindow ==
  /\ main = "started" /\ Snapshots # {}
  /\ From(LastBook) <= MaxMRId(quoteFile)
  /\ main' = "loaded"
  /\ window' = [base |-> BaseBook, last |-> LastBook]
  /\ replay' = BaseBook
  /\ cursor' = [cursor EXCEPT !["check"] = From(BaseBook) + 1]
  /\ UNCHANGED <<disk, orders, matcher, known, queue, batches, quote, left,
                 hidden>>

(* GetMatchResult of the window's ids.                                     *)
ReadResults ==
  /\ main = "loaded"
  /\ main' = "replaying"
  /\ known' = [i \in {j \in DOMAIN db : From(window.base) < j
                                        /\ j <= From(window.last)} |-> db[i]]
  /\ UNCHANGED <<disk, orders, matcher, window, replay, cursor, queue, batches,
                 quote, left, hidden>>

Replaying == main = "replaying" /\ queue["check"] # <<>>

(* The slip lets a result pass that was not written.                       *)
Agrees_Missing_Slip(i) == i \in DOMAIN known => known[i] = replay

(* CheckResult: the result of the replay is the one that was written.      *)
Agrees(i) == i \in DOMAIN known /\ known[i] = replay

Reaches(i) == i = From(window.last)

(* CompareOrderBook.                                                       *)
SameBook(i) == replay \cup {i} = window.last

(* An order of the window before the last.                                 *)
Replay ==
  LET i == Head(queue["check"])
  IN  /\ Replaying /\ Agrees(i) /\ ~Reaches(i)
      /\ replay' = replay \cup {i}
      /\ queue' = [queue EXCEPT !["check"] = Tail(@)]
      /\ UNCHANGED <<disk, orders, matcher, window, known, main, cursor,
                     batches, quote, left, hidden>>

(* The last snapshot is reached and is the same: the exchange is started,  *)
(* and nobody takes what the puller of the validation still sends.         *)
Validated ==
  LET i == Head(queue["check"])
  IN  /\ Replaying /\ Agrees(i) /\ Reaches(i) /\ SameBook(i)
      /\ main' = "ready"
      /\ replay' = {} /\ known' = <<>>
      /\ queue' = [queue EXCEPT !["check"] = <<>>]
      /\ cursor' = [cursor EXCEPT !["check"] = 0]
      /\ UNCHANGED <<disk, orders, matcher, window, batches, quote, left,
                     hidden>>

NotValidated ==
  LET i == Head(queue["check"])
  IN  /\ Replaying /\ (Agrees(i) => Reaches(i) /\ ~SameBook(i))
      /\ Fatal

Main ==
  \/ NoSnapshotFile \/ NothingToCheck \/ QuotesBehind \/ LoadWindow
  \/ ReadResults \/ Replay \/ Validated \/ NotValidated

Next ==
  \/ Start \/ Crash \/ Main
  \/ \E i \in Ids : Commit(i)
  \/ \E p \in Pullers : Pull(p)
  \/ Match \/ Tick \/ Dump \/ Batch \/ (\E b \in batches : Write(b))
  \/ Quote \/ SaveKlines \/ TakeSnapShot

(* The main goroutine and the puller of the validation get to run; nothing *)
(* is fair about crashes and restarts.                                     *)
Spec ==
  /\ Init /\ [][Next]_vars
  /\ WF_vars(Pull("check"))
  /\ WF_vars(Main)

-----------------------------------------------------------------------------
(* Every variable has its type.                                            *)
TypeOK ==
  /\ rows \subseteq Ids /\ published \subseteq [id : Ids, book : Books]
  /\ DOMAIN db \subseteq Ids /\ Range(db) \subseteq Books
  /\ DOMAIN known \subseteq Ids /\ Range(known) \subseteq Books
  /\ files \subseteq Books /\ {book, replay} \subseteq Books
  /\ window \in [base : Books, last : Books]
  /\ \A q \in {quoteFile, redis, quote} : q \in Seq(Ids)
  /\ main \in {"down", "halted", "started", "loaded", "replaying", "ready"}
  /\ cursor \in [Pullers -> 0..MaxId + 1] /\ queue \in [Pullers -> Seq(Ids)]
  /\ perch \in Seq([id : Ids, book : Books]) /\ snapshots \in Seq(Books)
  /\ batches \subseteq SUBSET [id : Ids, book : Books]
  /\ mrCh \in Seq(Ids \cup {Snap})
  /\ left \in [Bounded -> Nat] /\ left.ids <= MaxId
  /\ late \in BOOLEAN /\ hidden \in BOOLEAN

(* An exchange that stops and starts gives out the results of one that     *)
(* never does: a result given out again is the same, no order is skipped   *)
(* or matched on another book (main.go:86-98, puller.go:132-167), until a  *)
(* row commits below an id already read.                                   *)
Log == INSTANCE MatchLog WITH log <- published
OneLog == Log!Spec

(* The validation of a start does not stop an exchange for nothing: what   *)
(* it found is a directory without snapshots, quotes behind the book, a    *)
(* result of the window that was not written, or a row that came late.     *)
HaltsForAReason ==
  [][main' = "halted" /\ main # "halted" =>
       \/ files = {} \/ late
       \/ From(LastBook) > MaxMRId(quoteFile)
       \/ \E i \in rows : /\ From(window.base) < i /\ i <= From(window.last)
                          /\ i \notin DOMAIN known]_vars

(* An exchange that has started lost no result between its two newest      *)
(* snapshots, and those that were written are the right ones               *)
(* (validate.go:59-68, 108-132), however the writes of the runs before     *)
(* failed or were cut off.                                                 *)
WindowIsWritten ==
  main = "ready" /\ ~late =>
    \A i \in window.last \ window.base :
      i \in DOMAIN db /\ db[i] = {j \in rows : j < i}

(* The quotes of an exchange that has started count every result once, in  *)
(* the order of the ids: a result given out again after a restart is       *)
(* dropped, and quotes that lost results are found by the validation       *)
(* (l2quote.go:293, validate.go:33), unless a snapshot tick came between   *)
(* the start and the check and moved MaxMRId over the gap.                 *)
QuotesCountOnce ==
  main = "ready" /\ ~late /\ ~hidden =>
    quote = InOrder({i \in PublishedIds : i <= MaxMRId(quote)})

(* A snapshot holds no more than Redis does (l2quote.go:272), also when    *)
(* writes to Redis fail and after restarts.                                *)
SnapshotBehindRedis == ~late => Range(quoteFile) \subseteq Range(redis)

(* What the proofs add.  Until a row comes late, a result is that of the   *)
(* rows before its order, all of which have theirs.                        *)
ResultsAreRight ==
  \A r \in published :
    /\ r.id \in rows /\ r.book = {j \in rows : j < r.id}
    /\ r.book \subseteq PublishedIds

(* Every book there is holds the rows up to its FromId, all with results,  *)
(* and the results that are kept anywhere are among those given out.       *)
HoldsAllTo(b, R, ids) == b \subseteq ids /\ b = {j \in R : j <= From(b)}

KeptIsRight ==
  /\ \A b \in files \cup Range(snapshots) \cup {book, replay, window.base, window.last} :
       HoldsAllTo(b, rows, PublishedIds)
  /\ Range(perch) \subseteq published
  /\ \A batch \in batches : batch \subseteq published
  /\ \A i \in DOMAIN db : Result(i, db[i]) \in published
  /\ \A i \in DOMAIN known : i \in DOMAIN db /\ known[i] = db[i]

(* A puller has sent the rows below its cursor, and what is not done yet   *)
(* is queued in order; no row below has gone unread.                       *)
PulledInOrder(p, done) ==
  /\ Rising(queue[p])
  /\ \A j \in done, k \in Range(queue[p]) : j < k
  /\ done \cup Range(queue[p]) = {j \in rows : j < cursor[p]}
  /\ cursor[p] \in {0, 1} \cup {j + 1 : j \in PublishedIds \cup Range(queue[p])}

NothingHeld ==
  /\ queue["check"] = <<>> /\ cursor["check"] = 0 /\ replay = {} /\ known = <<>>

(* Where the main goroutine is in the validation.                          *)
WindowIsReplayed ==
  /\ ~Up => /\ queue["matcher"] = <<>> /\ cursor["matcher"] = 0 /\ book = {}
            /\ snapshots = <<>> /\ perch = <<>> /\ mrCh = <<>> /\ batches = {}
            /\ quote = <<>>
  /\ main \notin {"loaded", "replaying"} => NothingHeld
  /\ main \notin {"loaded", "replaying", "ready"} => window = NoWindow
  /\ main \in {"loaded", "replaying"} =>
       /\ From(window.base) < From(window.last)
       /\ window.base \subseteq replay
       /\ \A j \in replay : j < From(window.last)
       /\ main = "loaded" => replay = window.base
       /\ replay \ window.base \subseteq DOMAIN db
  /\ main = "ready" => window.last \ window.base \subseteq DOMAIN db

(* The ids a quotation has counted, on disk and in memory, and those on    *)
(* their way to it.                                                        *)
Covers(q, from, ids) ==
  \A i \in ids : from < i /\ i <= MaxMRId(q) => i \in Range(q)

IdsRise(ch) ==
  \A j, k \in DOMAIN ch :
    j < k /\ ch[j] # Snap /\ ch[k] # Snap => ch[j] < ch[k]

QuotesInOrder ==
  /\ \A q \in {quoteFile, redis, quote} :
       /\ Rising(q) /\ Range(q) \subseteq PublishedIds
       /\ Covers(q, From(LastBook), PublishedIds)
  /\ IdsRise(mrCh)
  /\ Range(mrCh) \ {Snap} \subseteq book
  /\ \A i \in book : \/ i <= MaxMRId(quote) \/ i <= From(LastBook)
                      \/ i \in Range(mrCh)
  /\ Range(quoteFile) \subseteq Range(redis)
  /\ \A i \in Range(quote) : i <= MaxMRId(redis) => i \in Range(redis)
  /\ Up => /\ Range(quoteFile) \subseteq Range(quote)
           /\ \A q \in {redis, quote} :
                /\ Covers(q, From(book), PublishedIds)
                /\ \A i \in Range(mrCh) : i <= MaxMRId(q) => i = Snap \/ i \in Range(q)

(* Nothing is missing between what is counted and what is on its way.      *)
Whole == /\ ~Gap(quote)
         /\ \A i \in book : i <= MaxMRId(quote) \/ i \in Range(mrCh)

QuotesAreWhole ==
  ~hidden =>
    /\ ~Gap(quoteFile)
    /\ main \in {"loaded", "replaying", "ready"} => Whole
    /\ main = "started" => Whole \/ From(LastBook) > MaxMRId(quoteFile)

AllRight ==
  /\ ResultsAreRight
  /\ KeptIsRight
  /\ PulledInOrder("matcher", book)
  /\ PulledInOrder("check", replay)
  /\ WindowIsReplayed
  /\ QuotesInOrder
  /\ QuotesAreWhole

RecoveryInv == ~late => AllRight

(* Together these are preserved by every step.                             *)
IInv == TypeOK /\ RecoveryInv

(* A start is decided: the exchange is started, or refuses, or crashes.    *)
StartIsDecided ==
  main \in {"started", "loaded", "replaying"} ~> main \in {"ready", "halted", "down"}
=============================================================================
