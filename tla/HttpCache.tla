----------------------------- MODULE HttpCache ------------------------------
(***************************************************************************)
(* HttpCache (net/http/http_cache.cc) and its transactions                 *)
(* (net/http/http_cache_transaction.cc), for one cache key.                *)
(*                                                                         *)
(* An ActiveEntry is a reader/writer lock on an open disk cache entry.     *)
(* Transactions get to it through a PendingOp, which serialises the open,  *)
(* create and doom operations of a key, and then through the entry's queue *)
(* of waiters, which a posted task serves.  Everything runs on the IO      *)
(* thread; the disk cache, the network, the client and the posted tasks    *)
(* decide what comes next.                                                 *)
(*                                                                         *)
(* A helper function is an operator from a cache to a cache.  Notifying    *)
(* the transactions that waited for an operation, or for a writer that     *)
(* failed, is a loop in the code: `run' is what is left of it, and nothing *)
(* else happens until it is done.                                          *)
(*                                                                         *)
(* Abstractions: keys do not interact, but for the creation of the         *)
(* backend, which is here too.  Disk operations complete later, never      *)
(* within the call; those of one entry complete in the order in which they *)
(* were asked for.  The writes of headers, data truncation and metadata    *)
(* truncation are one wait, and truncating the old data, whose result the  *)
(* code ignores, works.  Byte ranges (PartialData) are left out, so a      *)
(* truncated entry is never resumed.  DCHECKs do nothing.                  *)
(***************************************************************************)
EXTENDS Integers, SequencesExt

CONSTANTS
  Trans,       \* HttpCache::Transaction objects
  Entries,     \* addresses of ActiveEntry objects: bounds how many exist at once
  StartModes,  \* the modes that requests ask for
  Responses,   \* what the network may answer
  Lazy,        \* TRUE: the backend is created with the first transaction
  NoTrans, NoEntry

Modes == {"NONE", "READ", "WRITE", "READ_WRITE", "UPDATE"}

AllResponses == {"full", "redirect", "noStore", "notModified", "notModifiedNoStore",
                 "range", "auth", "cert", "error"}

ASSUME CacheAssumption ==
  /\ Entries \subseteq Nat /\ NoEntry \notin Entries /\ NoTrans \notin Trans
  /\ StartModes \subseteq Modes
  /\ Responses \subseteq AllResponses
  /\ Lazy \in BOOLEAN

VARIABLE cache

(***************************************************************************)
(* The state of the cache, of its disk and of its transactions.            *)
(***************************************************************************)
\* Where a transaction is: next_state_ while it waits, or what it told its client.
Places == {"gone", "getBackend", "open", "create", "doom", "add", "init", "readInfo", "send",
           "writeUpdate", "writeInfo", "headers", "auth", "cert", "cacheRead", "netRead",
           "writeData", "done"}

\* cache_pending_: the transaction waits for the cache itself.
CachePending == {"getBackend", "open", "create", "doom", "add", "init"}

\* "unmarked" is a part that was kept, but whose flag as truncated was not written:
\* the code cannot tell it from a complete response.
Contents == {"nothing", "none", "partial", "truncated", "unmarked", "complete"}

Item == [kind : {"open", "create", "doom", "add", "init"}, trans : Trans \cup {NoTrans}]

NoItem == [kind |-> "none", trans |-> NoTrans]

Idle == [op |-> "none", ok |-> FALSE, fail |-> FALSE, items |-> <<>>]

CacheState ==
  [pc       : [Trans -> Places],
   mode     : [Trans -> Modes],                    \* mode_
   entry    : [Trans -> Entries \cup {NoEntry}],   \* entry_, or new_entry_ while in "add"
   reading  : [Trans -> BOOLEAN],                  \* reading_
   active   : Entries \cup {NoEntry},              \* active_entries_
   doomed   : SUBSET Entries,                      \* doomed_entries_
   writer   : [Entries -> Trans \cup {NoTrans}],   \* ActiveEntry::writer
   readers  : [Entries -> SUBSET Trans],           \* ActiveEntry::readers
   queue    : [Entries -> Seq(Trans)],             \* ActiveEntry::pending_queue
   will     : [Entries -> BOOLEAN],                \* ActiveEntry::will_process_pending_queue
   content  : [Entries -> Contents],               \* what the open disk entry holds
   opWriter : Item \cup {NoItem},                  \* PendingOp::writer
   opQueue  : Seq(Item),                           \* PendingOp::pending_queue
   run      : [op : {"none", "open", "create", "doom", "add"}, ok : BOOLEAN, fail : BOOLEAN,
               items : Seq(Item)],
   stored   : Contents,                            \* the disk entry of the key while it is not open
   ready    : BOOLEAN,                             \* disk_cache_ is there
   factory  : BOOLEAN,                             \* backend_factory_ is there
   building : BOOLEAN,                             \* building_backend_
   bkWriter : Trans \cup {NoTrans},                \* the PendingOp of the backend
   bkQueue  : Seq(Trans)]

EmptyCache ==
  [pc       |-> [t \in Trans |-> "gone"],
   mode     |-> [t \in Trans |-> "NONE"],
   entry    |-> [t \in Trans |-> NoEntry],
   reading  |-> [t \in Trans |-> FALSE],
   active   |-> NoEntry,
   doomed   |-> {},
   writer   |-> [e \in Entries |-> NoTrans],
   readers  |-> [e \in Entries |-> {}],
   queue    |-> [e \in Entries |-> <<>>],
   will     |-> [e \in Entries |-> FALSE],
   content  |-> [e \in Entries |-> "nothing"],
   opWriter |-> NoItem,
   opQueue  |-> <<>>,
   run      |-> Idle,
   stored   |-> "nothing",
   ready    |-> ~Lazy,
   factory  |-> Lazy,
   building |-> FALSE,
   bkWriter |-> NoTrans,
   bkQueue  |-> <<>>]

Live(c) == c.doomed \cup ({c.active} \ {NoEntry})
FreeEntries(c) == Entries \ Live(c)
Writes(m) == m \in {"WRITE", "READ_WRITE", "UPDATE"}
Holders(c, e) == c.readers[e] \cup ({c.writer[e]} \ {NoTrans})
InQueue(q, t) == \E i \in 1..Len(q) : q[i] = t
Goes(c, t, p) == [c EXCEPT !.pc[t] = p]

(***************************************************************************)
(* The reader/writer lock.                                                 *)
(***************************************************************************)
\* Fault: a posted task does not stop the next one from being admitted.
AddTransactionUnordered(c, e, t) ==
  IF c.writer[e] # NoTrans \/ (Writes(c.mode[t]) /\ c.readers[e] # {})
  THEN [c EXCEPT !.queue[e] = Append(@, t), !.pc[t] = "add", !.entry[t] = e]
  ELSE LET d == IF Writes(c.mode[t]) THEN [c EXCEPT !.writer[e] = t]
                                     ELSE [c EXCEPT !.readers[e] = @ \cup {t}]
       IN  [d EXCEPT !.entry[t] = e,
                     !.pc[t] = IF c.mode[t] = "WRITE" THEN "send" ELSE "readInfo"]

\* Batches wake-ups: one task is posted until it runs.
ProcessPendingQueue(c, e) == [c EXCEPT !.will[e] = TRUE]

\* The transaction has the lock: it goes to the network or reads the stored headers.
DoAddToEntryComplete(c, e, t) ==
  [c EXCEPT !.entry[t] = e, !.pc[t] = IF c.mode[t] = "WRITE" THEN "send" ELSE "readInfo"]

AddTransactionToEntry(c, e, t) ==
  IF c.writer[e] # NoTrans \/ c.will[e] \/ (Writes(c.mode[t]) /\ c.readers[e] # {})
  THEN [c EXCEPT !.queue[e] = Append(@, t), !.pc[t] = "add", !.entry[t] = e]
  ELSE LET d == IF Writes(c.mode[t]) THEN [c EXCEPT !.writer[e] = t]
                                     ELSE [c EXCEPT !.readers[e] = @ \cup {t}]
       IN  DoAddToEntryComplete(
             IF d.writer[e] = NoTrans /\ d.queue[e] # <<>> THEN ProcessPendingQueue(d, e) ELSE d,
             e, t)

\* FinalizeDoomedEntry or DeactivateEntry; |kept| is what stays on disk of an active entry.
DestroyEntry(c, e, kept) ==
  LET d == [c EXCEPT !.content[e] = "nothing"]
  IN  IF e \in c.doomed THEN [d EXCEPT !.doomed = @ \ {e}]
                        ELSE [d EXCEPT !.active = NoEntry, !.stored = kept]

\* The loop over |items|, all of which are told ERR_CACHE_RACE.
RaceAll(c, items) ==
  IF items = <<>> THEN c ELSE [c EXCEPT !.run = [op |-> "add", ok |-> FALSE, fail |-> TRUE, items |-> items]]

\* Fault: nobody is woken.
DoneWritingNoWakeup(c, e, success) ==
  LET d == [c EXCEPT !.writer[e] = NoTrans]
  IN  IF success THEN (IF d.queue[e] = <<>> THEN ProcessPendingQueue(d, e) ELSE d)
      ELSE RaceAll(DestroyEntry([d EXCEPT !.queue[e] = <<>>], e, "nothing"),
                   [i \in 1..Len(c.queue[e]) |-> [kind |-> "add", trans |-> c.queue[e][i]]])

\* HttpCache::DoneWritingToEntry: a failed writer takes the entry with it, and
\* those who waited start again.
CacheDoneWriting(c, e, success) ==
  LET d == [c EXCEPT !.writer[e] = NoTrans]
  IN  IF success THEN ProcessPendingQueue(d, e)
      ELSE RaceAll(DestroyEntry([d EXCEPT !.queue[e] = <<>>], e, "nothing"),
                   [i \in 1..Len(c.queue[e]) |-> [kind |-> "add", trans |-> c.queue[e][i]]])

\* Transaction::DoneWritingToEntry: from here on the transaction bypasses the cache.
DoneWritingToEntry(c, t, success) ==
  IF c.entry[t] = NoEntry THEN c
  ELSE [CacheDoneWriting(c, c.entry[t], success) EXCEPT !.entry[t] = NoEntry, !.mode[t] = "NONE"]

\* The caller forgets its entry_.
DoneReadingFromEntry(c, t) ==
  LET e == c.entry[t]
  IN  ProcessPendingQueue([c EXCEPT !.readers[e] = @ \ {t}, !.entry[t] = NoEntry], e)

\* ConvertWriterToReader, with the caller's mode_ = READ.
ConvertWriterToReader(c, t) ==
  LET e == c.entry[t]
  IN  ProcessPendingQueue([c EXCEPT !.writer[e] = NoTrans, !.readers[e] = @ \cup {t},
                                    !.mode[t] = "READ"], e)

\* Fault: a cancelled entry is kept without the truncated flag.
DoneWithEntryKeep(c, t, cancel, resumable, flagged) ==
  LET e == c.entry[t]
  IN  IF c.writer[e] # NoTrans THEN CacheDoneWriting(c, e, cancel) ELSE DoneReadingFromEntry(c, t)

\* A cancelled writer keeps the entry only if it could be resumed, and starts to mark it
\* as truncated.  AddTruncatedFlag does not wait for that write of the headers, and its
\* callback is cancelled: |flagged| says how it will end.  Nobody sees the difference
\* before it has ended, for who comes next asks the same disk entry for its headers.
DoneWithEntry(c, t, cancel, resumable, flagged) ==
  LET e == c.entry[t]
  IN  IF c.will[e] /\ c.readers[e] = {} THEN c
      ELSE IF c.writer[e] = NoTrans THEN DoneReadingFromEntry(c, t)
      ELSE IF cancel /\ resumable
           THEN CacheDoneWriting([c EXCEPT !.content[e] = IF flagged THEN "truncated" ELSE "unmarked"],
                                 e, TRUE)
           ELSE CacheDoneWriting(c, e, FALSE)

(***************************************************************************)
(* Operations on the disk cache: one at a time, the others in a queue.     *)
(***************************************************************************)
GetPendingOp(c, kind, t) ==
  LET item == [kind |-> kind, trans |-> t]
  IN  IF c.opWriter = NoItem THEN [c EXCEPT !.opWriter = item]
                             ELSE [c EXCEPT !.opQueue = Append(@, item)]

CreateEntry(c, t) == GetPendingOp(Goes(c, t, "create"), "create", t)

OpenEntry(c, t) ==
  IF c.active # NoEntry THEN AddTransactionToEntry(c, c.active, t)
                        ELSE GetPendingOp(Goes(c, t, "open"), "open", t)

\* The active entry of the key is doomed at once, a closed one by the disk cache.
\* |t| is NoTrans when a transaction dooms what it believes to be its own entry.
DoomEntry(c, t) ==
  IF c.active = NoEntry THEN GetPendingOp(c, "doom", t)
  ELSE [c EXCEPT !.doomed = @ \cup {c.active}, !.active = NoEntry]

DoInitEntry(c, t) ==
  LET d == [c EXCEPT !.entry[t] = NoEntry]
  IN  IF c.mode[t] # "WRITE" THEN OpenEntry(d, t)
      ELSE IF c.active = NoEntry THEN DoomEntry(Goes(d, t, "doom"), t)
      ELSE CreateEntry(DoomEntry(d, t), t)

DoOpenEntryFailed(c, t) ==
  CASE c.mode[t] = "READ_WRITE" -> CreateEntry([c EXCEPT !.mode[t] = "WRITE"], t)
    [] c.mode[t] = "UPDATE"     -> Goes([c EXCEPT !.mode[t] = "NONE"], t, "send")
    [] OTHER                    -> Goes(c, t, "done")

\* WorkItem::NotifyTransaction and the Do...EntryComplete that it leads to.
NotifyTransaction(c, item, result) ==
  LET t == item.trans
  IN  IF t = NoTrans             THEN c
      ELSE IF result = "RACE"    THEN DoInitEntry(c, t)
      ELSE IF item.kind = "doom" THEN CreateEntry(c, t)
      ELSE IF result = "OK"      THEN AddTransactionToEntry(c, c.active, t)
      ELSE IF item.kind = "open" THEN DoOpenEntryFailed(c, t)
      ELSE Goes([c EXCEPT !.mode[t] = "NONE"], t, "send")

\* ActivateEntry for a disk entry that was opened or created.
ActivateEntry(c, content) ==
  LET e == CHOOSE x \in FreeEntries(c) : \A y \in FreeEntries(c) : x <= y
  IN  [c EXCEPT !.active = e, !.content[e] = content, !.stored = "nothing"]

\* What the disk cache did, and what becomes of an entry nobody waits for.
FinishOp(c, ok) ==
  LET item == c.opWriter
  IN  IF ~ok                        THEN c
      ELSE IF item.kind = "doom"    THEN [c EXCEPT !.stored = "nothing"]
      ELSE IF item.trans = NoTrans  THEN c
      ELSE ActivateEntry(c, IF item.kind = "open" THEN c.stored ELSE "none")

\* The operation of the PendingOp completes.  An open or a doom succeeds only if
\* there is an entry, a create only if there is none; each may fail.
OnIOComplete(ok) ==
  LET item == cache.opWriter
      d    == FinishOp(cache, ok)
      fail == ok /\ (item.kind = "doom" \/ item.trans = NoTrans)
      left == IF cache.opQueue = <<>> THEN Idle
              ELSE [op |-> item.kind, ok |-> ok, fail |-> fail, items |-> cache.opQueue]
  IN  /\ cache.run = Idle
      /\ item # NoItem
      /\ ok => (cache.stored = "nothing") = (item.kind = "create")
      /\ FreeEntries(cache) # {}
      /\ cache' = NotifyTransaction([d EXCEPT !.opWriter = NoItem, !.opQueue = <<>>, !.run = left],
                                    item, IF ok THEN "OK" ELSE "FAIL")

\* The loop of OnIOComplete and of DoneWritingToEntry, one waiting item at a time.
NotifyNext ==
  LET r     == cache.run
      item  == Head(r.items)
      fail  == r.fail \/ item.kind = "doom" \/ (r.ok /\ cache.active = NoEntry)
      \* A failed open before a create, or a failed create before an open, is a race.
      mixed == ~r.ok /\ (item.kind = "create") # (r.op = "create")
      race  == fail \/ mixed
      rest  == IF Len(r.items) = 1 THEN Idle ELSE [r EXCEPT !.fail = race, !.items = Tail(@)]
  IN  /\ r # Idle
      /\ cache' = NotifyTransaction([cache EXCEPT !.run = rest], item,
                    IF race THEN "RACE" ELSE IF r.ok /\ item.kind = "open" THEN "OK" ELSE "FAIL")

\* The posted task: destroys an entry that nobody uses, or admits the next transaction.
OnProcessPendingQueue(e) ==
  LET d == [cache EXCEPT !.will[e] = FALSE]
      q == cache.queue[e]
  IN  /\ cache.run = Idle /\ e \in Live(cache) /\ cache.will[e]
      /\ cache' = IF q = <<>>
                  THEN (IF cache.readers[e] = {} THEN DestroyEntry(d, e, cache.content[e]) ELSE d)
                  ELSE IF Writes(cache.mode[Head(q)]) /\ cache.readers[e] # {} THEN d
                  ELSE AddTransactionToEntry([d EXCEPT !.queue[e] = Tail(q)], e, Head(q))

(***************************************************************************)
(* The life of a transaction.                                              *)
(***************************************************************************)
\* Without a backend every request goes to the network, unless it must not.
DoGetBackendComplete(c, t) ==
  IF ~c.ready \/ c.mode[t] = "NONE"
  THEN Goes([c EXCEPT !.mode[t] = "NONE"], t, IF c.mode[t] = "READ" THEN "done" ELSE "send")
  ELSE DoInitEntry(c, t)

\* CreateTransaction and Start, with GetBackendForTransaction.
Start(t, m) ==
  LET b == IF cache.factory /\ ~cache.ready THEN [cache EXCEPT !.building = TRUE] ELSE cache
      c == [b EXCEPT !.mode[t] = m, !.reading[t] = FALSE]
  IN  /\ cache.run = Idle /\ cache.pc[t] = "gone"
      /\ cache' = IF ~c.ready /\ c.building
                  THEN Goes([c EXCEPT !.bkQueue = Append(@, t)], t, "getBackend")
                  ELSE DoGetBackendComplete(c, t)

\* The backend is there, or will never be.  One waiter is told per task.
OnBackendCreated(ok) ==
  LET b    == [cache EXCEPT !.factory = FALSE, !.ready = ok]
      more == cache.bkQueue # <<>>
      c    == IF more THEN [b EXCEPT !.bkWriter = Head(cache.bkQueue), !.bkQueue = Tail(@)]
                      ELSE [b EXCEPT !.bkWriter = NoTrans, !.building = FALSE]
  IN  /\ cache.run = Idle /\ cache.building
      /\ ~cache.factory => ok = cache.ready
      /\ cache' = IF cache.bkWriter = NoTrans THEN c ELSE DoGetBackendComplete(c, cache.bkWriter)

\* The stored headers are read: serve them, validate them, or give up the entry.
ReadResponseInfo(t, ok, choice) ==
  LET e == cache.entry[t]
      m == cache.mode[t]
      cut == cache.content[e] = "truncated"
  IN  /\ cache.run = Idle /\ cache.pc[t] = "readInfo"
      /\ ok => cache.content[e] # "none"
      /\ cache' =
           CASE ~ok \/ (m = "READ" /\ cut) -> Goes(cache, t, "done")
             [] ok /\ m = "READ" /\ ~cut   -> Goes(cache, t, "headers")
             [] ok /\ m = "UPDATE"         ->
                  \* BeginExternallyConditionalizedRequest
                  Goes(IF choice = "validate" /\ ~cut THEN cache
                       ELSE DoneWritingToEntry(cache, t, TRUE), t, "send")
             [] ok /\ m = "READ_WRITE" /\ cut ->
                  \* DoomPartialEntry; then the request starts again and only writes.
                  LET d == DoneWithEntry(DoomEntry(cache, NoTrans), t, FALSE, FALSE, FALSE)
                  IN  [Goes([d EXCEPT !.entry[t] = NoEntry, !.mode[t] = "WRITE"], t, "init")
                         EXCEPT !.run = [op |-> "add", ok |-> FALSE, fail |-> TRUE,
                                         items |-> Append(d.run.items, [kind |-> "init", trans |-> t])]]
             [] OTHER ->
                  \* BeginCacheValidation
                  CASE choice = "skip"     -> Goes(ConvertWriterToReader(cache, t), t, "headers")
                    [] choice = "validate" -> Goes(cache, t, "send")
                    [] OTHER               -> Goes([cache EXCEPT !.mode[t] = "WRITE"], t, "send")

\* DoOverwriteCachedResponse with WriteResponseInfoToEntry, for a response that is stored.
OverwriteCachedResponse(c, t, r) ==
  IF c.entry[t] = NoEntry \/ c.mode[t] = "READ" THEN Goes(c, t, "headers")
  ELSE IF r \in {"noStore", "notModifiedNoStore"} THEN Goes(DoneWritingToEntry(c, t, FALSE), t, "headers")
  ELSE Goes([c EXCEPT !.content[c.entry[t]] = IF r = "redirect" THEN "complete" ELSE "partial"],
            t, "writeInfo")

\* DoUpdateCachedResponseComplete.
UpdateCachedResponseComplete(c, t) ==
  Goes(IF c.mode[t] = "UPDATE"       THEN DoneWritingToEntry(c, t, TRUE)
       ELSE IF c.entry[t] # NoEntry  THEN ConvertWriterToReader(c, t)
       ELSE c, t, "headers")

\* The answer of the network, or the end of its patience.
NetworkResponse(t, r) ==
  LET m == cache.mode[t]
      validating == m \in {"READ_WRITE", "UPDATE"}
      overwriting == [cache EXCEPT !.mode[t] = IF validating THEN "WRITE" ELSE m]
  IN  /\ cache.run = Idle /\ cache.pc[t] = "send"
      /\ cache' =
           CASE r = "error" -> Goes(cache, t, "done")
             [] r \in {"auth", "cert"} -> Goes(cache, t, r)
             [] r = "range" ->
                  \* IgnoreRangeRequest: nobody asked for a range.
                  Goes(DoneWritingToEntry(cache, t, m # "WRITE"), t, "headers")
             [] r = "notModified" /\ validating -> Goes(cache, t, "writeUpdate")
             [] r = "notModifiedNoStore" /\ validating ->
                  UpdateCachedResponseComplete(DoomEntry(cache, NoTrans), t)
             [] OTHER -> OverwriteCachedResponse(overwriting, t, r)

\* The headers are written.  A redirect is finished with its headers.
ResponseInfoWritten(t, ok) ==
  LET c == IF ok THEN cache ELSE DoneWritingToEntry(cache, t, FALSE)
  IN  /\ cache.run = Idle
      /\ \/ cache.pc[t] = "writeUpdate" /\ cache' = UpdateCachedResponseComplete(c, t)
         \/ /\ cache.pc[t] = "writeInfo"
            /\ cache' = Goes(IF ok /\ cache.content[cache.entry[t]] = "complete"
                             THEN DoneWritingToEntry(c, t, TRUE) ELSE c, t, "headers")

\* The client reads.  Reading the body of a request for credentials gives up the entry.
Read(t) ==
  /\ cache.run = Idle /\ cache.pc[t] \in {"headers", "auth"}
  /\ LET c == IF cache.pc[t] = "auth" /\ cache.mode[t] # "NONE"
              THEN DoneWritingToEntry(cache, t, cache.mode[t] = "READ_WRITE") ELSE cache
     IN  cache' = Goes([c EXCEPT !.reading[t] = TRUE], t,
                       IF c.mode[t] = "READ" THEN "cacheRead" ELSE "netRead")

\* RestartWithAuth, RestartWithCertificate, RestartIgnoringLastError.
Restart(t) ==
  /\ cache.run = Idle /\ cache.pc[t] \in {"auth", "cert"}
  /\ cache' = Goes(cache, t, "send")

CacheReadDone(t, r) ==
  /\ cache.run = Idle /\ cache.pc[t] = "cacheRead"
  /\ cache' = CASE r = "data"  -> Goes(cache, t, "headers")
                [] r = "eof"   -> Goes(DoneReadingFromEntry(cache, t), t, "done")
                [] r = "error" -> Goes(cache, t, "done")

\* Data goes to the entry before it goes to the client; after an error the entry
\* is kept for the destructor to decide.
NetworkReadDone(t, r) ==
  LET e == cache.entry[t]
  IN  /\ cache.run = Idle /\ cache.pc[t] = "netRead"
      /\ cache' = CASE r = "error" -> Goes(cache, t, "done")
                    [] r = "data"  -> Goes(cache, t, IF e = NoEntry THEN "headers" ELSE "writeData")
                    [] r = "eof"   ->
                         IF e = NoEntry THEN Goes(cache, t, "done")
                         ELSE Goes(DoneWritingToEntry([cache EXCEPT !.content[e] = "complete"], t, TRUE),
                                   t, "done")

DataWritten(t, ok) ==
  /\ cache.run = Idle /\ cache.pc[t] = "writeData"
  /\ cache' = Goes(IF ok THEN cache ELSE DoneWritingToEntry(cache, t, FALSE), t, "headers")

\* Fault: a transaction that waits for an entry is not found if the entry was doomed.
RemovePendingActiveOnly(c, t) ==
  LET mine(item) == item.trans = t
  IN  [c EXCEPT !.queue = [e \in Entries |-> IF e = c.active THEN RemoveFirst(c.queue[e], t)
                                                            ELSE c.queue[e]],
                !.opWriter = IF mine(@) THEN [@ EXCEPT !.trans = NoTrans] ELSE @,
                !.opQueue = RemoveFirstMatch(@, mine),
                !.bkWriter = IF @ = t THEN NoTrans ELSE @,
                !.bkQueue = RemoveFirst(@, t)]

\* The one place where the transaction waits: the queue of an entry, active or
\* doomed, a PendingOp, or the creation of the backend.  The operation that is
\* under way goes on without its transaction.
RemovePendingTransaction(c, t) ==
  LET mine(item) == item.trans = t
  IN  [c EXCEPT !.queue = [e \in Entries |-> RemoveFirst(c.queue[e], t)],
                !.opWriter = IF mine(@) THEN [@ EXCEPT !.trans = NoTrans] ELSE @,
                !.opQueue = RemoveFirstMatch(@, mine),
                !.bkWriter = IF @ = t THEN NoTrans ELSE @,
                !.bkQueue = RemoveFirst(@, t)]

\* ~Transaction, at any time: |ok200| is the response code, |resumable| CanResume(), and
\* |flagged| whether the write of the truncated flag succeeds.
Destroy(t, ok200, resumable, flagged) ==
  /\ cache.run = Idle /\ cache.pc[t] # "gone"
  /\ LET c == IF cache.pc[t] \in CachePending THEN RemovePendingTransaction(cache, t)
              ELSE IF cache.entry[t] # NoEntry
              THEN DoneWithEntry(cache, t, cache.reading[t] /\ ok200, resumable, flagged)
              ELSE cache
     IN  cache' = [c EXCEPT !.pc[t] = "gone", !.mode[t] = "NONE", !.entry[t] = NoEntry,
                            !.reading[t] = FALSE]

\* The disk cache evicts the entry while it is closed.
Evict == cache.run = Idle /\ cache.stored # "nothing" /\ cache' = [cache EXCEPT !.stored = "nothing"]

Init == cache = EmptyCache

\* What the cache, the disk, the network and the clients do with the started transactions.
Work ==
  \/ \E ok \in BOOLEAN : OnBackendCreated(ok)
  \/ \E ok \in BOOLEAN : OnIOComplete(ok)
  \/ NotifyNext
  \/ \E e \in Entries : OnProcessPendingQueue(e)
  \/ \E t \in Trans, ok \in BOOLEAN, choice \in {"skip", "validate", "fetch"} :
       ReadResponseInfo(t, ok, choice)
  \/ \E t \in Trans, r \in Responses : NetworkResponse(t, r)
  \/ \E t \in Trans, ok \in BOOLEAN : ResponseInfoWritten(t, ok)
  \/ \E t \in Trans : Read(t)
  \/ \E t \in Trans : Restart(t)
  \/ \E t \in Trans, r \in {"data", "eof", "error"} : CacheReadDone(t, r)
  \/ \E t \in Trans, r \in {"data", "eof", "error"} : NetworkReadDone(t, r)
  \/ \E t \in Trans, ok \in BOOLEAN : DataWritten(t, ok)
  \/ \E t \in Trans, ok200, resumable, flagged \in BOOLEAN : Destroy(t, ok200, resumable, flagged)
  \/ Evict

Next ==
  \/ \E t \in Trans, m \in StartModes : Start(t, m)
  \/ Work

Spec == Init /\ [][Next]_cache

(***************************************************************************)
(* Properties.                                                             *)
(***************************************************************************)
\* Type invariant of the cache, its pending operations and its transactions; a pending
\* queue lists a transaction at most once.
TypeOK == cache \in CacheState /\ \A e \in Entries : IsInjective(cache.queue[e])

\* The lock of an entry: a writer is alone, holds no posted wake-up and has a mode
\* that writes, readers only read, and a transaction holds the entry that its entry_
\* points to and no other (the DCHECKs of DoneWritingToEntry, DoneReadingFromEntry,
\* ConvertWriterToReader and OnProcessPendingQueue).
ReaderWriterLock ==
  /\ \A e \in Live(cache) :
       /\ cache.writer[e] # NoTrans =>
            cache.readers[e] = {} /\ ~cache.will[e] /\ Writes(cache.mode[cache.writer[e]])
       /\ \A t \in cache.readers[e] : cache.mode[t] = "READ"
  /\ \A t \in Trans, e \in Entries :
       t \in Holders(cache, e) <=> (cache.entry[t] = e /\ cache.pc[t] \notin CachePending)

\* Nothing points to a deleted ActiveEntry: neither a transaction that holds it or
\* waits for it, unless it is about to be told so, nor a posted OnProcessPendingQueue
\* (the DCHECKs of DeactivateEntry and FinalizeDoomedEntry).
NoDanglingEntry ==
  \A e \in Entries \ Live(cache) :
    /\ ~cache.will[e] /\ cache.queue[e] = <<>>
    /\ \A t \in Trans : cache.entry[t] = e =>
         \E i \in 1..Len(cache.run.items) : cache.run.items[i].trans = t

\* Where the transaction is registered as waiting: for what, in the queue of which
\* entry if it is one, and at which position.
Registrations(t) ==
  LET items   == <<cache.opWriter>> \o cache.opQueue \o cache.run.items
      backend == <<cache.bkWriter>> \o cache.bkQueue
  IN  {<<items[i].kind, NoEntry, i>> : i \in {i \in DOMAIN items : items[i].trans = t}}
      \cup {<<"getBackend", NoEntry, i>> : i \in {i \in DOMAIN backend : backend[i] = t}}
      \cup UNION {{<<"add", e, i>> : i \in {i \in DOMAIN cache.queue[e] : cache.queue[e][i] = t}} :
                     e \in Entries}

\* A transaction with cache_pending_ set waits in exactly one place, the one that its
\* state and its entry_ say, and nobody else is registered anywhere: what
\* RemovePendingTransaction looks for is there and is all there is (DCHECK "Pending
\* transaction not found").
WaitsInOnePlace ==
  \A t \in Trans :
    IF cache.pc[t] \in CachePending
    THEN \E place \in Registrations(t) :
           /\ Registrations(t) = {place}
           /\ place[1] = cache.pc[t] /\ place[2] \in {NoEntry, cache.entry[t]}
    ELSE Registrations(t) = {}

\* There is never an operation pending for a key that has an active entry (the DCHECKs
\* of GetPendingOp, CreateEntry and ActivateEntry).
OpExcludesActive == cache.opWriter # NoItem => cache.active = NoEntry

\* A transaction that only writes never waits for the entry: the one it found has been
\* doomed (the NOTE in AddTransactionToEntry).
WriteOnlyNeverWaits == \A t \in Trans : cache.pc[t] = "add" => cache.mode[t] # "WRITE"

\* An entry that is kept open is held by a transaction or will be looked at by a posted
\* task: none is left "without any transaction attached", and no queue is left with
\* nobody to serve it (the comment of DoOpenEntryComplete).
NoAbandonedEntry ==
  \A e \in Live(cache) : Holders(cache, e) # {} \/ cache.will[e]

\* The bookkeeping of the cache: the locks of its entries, what points to them, where
\* each transaction waits and which operations are pending.
CacheInv ==
  /\ TypeOK
  /\ ReaderWriterLock
  /\ NoDanglingEntry
  /\ WaitsInOnePlace
  /\ OpExcludesActive
  /\ WriteOnlyNeverWaits
  /\ NoAbandonedEntry

\* The transaction gives its client what is in the cache.
Serves(t) ==
  cache.pc[t] \in {"headers", "cacheRead"} /\ cache.mode[t] = "READ" /\ cache.entry[t] # NoEntry

\* What the code cannot tell from a complete response.
PassesForWhole == {"unmarked", "complete"}

\* What a client is given from the cache is a whole response, whatever happened to the
\* writers before it: cancelled, failed, raced or overtaken.  The one exception is a
\* cancelled download whose flag as truncated could not be written to the disk.
OnlyWholeResponsesServed ==
  \A t \in Trans : Serves(t) => cache.content[cache.entry[t]] \in PassesForWhole

\* Without the exception: a part that is kept is indicated as truncated, so it is never
\* served as the whole ("We need to indicate that the response data was truncated",
\* AddTruncatedFlag, which ignores whether the flag reached the disk).
PartsAreIndicated ==
  \A t \in Trans : Serves(t) => cache.content[cache.entry[t]] = "complete"

\* Whoever gets the lock of an entry was the first in its queue, or there was no queue;
\* only a reader may pass those who wait, to join readers who hold the entry already.
AdmittedInOrder ==
  [][\A e \in Live(cache), t \in Trans :
       t \in Holders(cache', e) \ Holders(cache, e) /\ cache.queue[e] # <<>>
         => Head(cache.queue[e]) = t \/ (t \in cache'.readers[e] /\ cache.readers[e] # {})]_cache

\* Nobody passes those who wait ("which ensures FIFO ordering", AddTransactionToEntry).
NobodyOvertakes ==
  [][\A e \in Live(cache), t \in Trans :
       t \in Holders(cache', e) \ Holders(cache, e) /\ cache.queue[e] # <<>>
         => Head(cache.queue[e]) = t]_cache

\* An entry is doomed while somebody uses it (the DCHECK at the end of DoomEntry).
DoomedWhileInUse ==
  [][\A e \in cache'.doomed \ cache.doomed : Holders(cache, e) # {}]_cache

\* The disk cache is asked to doom an entry for a transaction that waits for it: a
\* transaction that dooms its own entry finds it active (DCHECK(trans) in AsyncDoomEntry,
\* DCHECK_EQ(OK, ret) in DoUpdateCachedResponse).
OwnEntryIsActive ==
  [][LET before == IF cache.opWriter = NoItem THEN 0 ELSE 1 + Len(cache.opQueue)
         after  == IF cache'.opWriter = NoItem THEN 0 ELSE 1 + Len(cache'.opQueue)
         new    == IF before = 0 THEN cache'.opWriter ELSE Last(cache'.opQueue)
     IN  after > before /\ new.kind = "doom" => new.trans # NoTrans]_cache

\* Reading the page that comes with a request for credentials leaves the response that
\* was in the cache intact (the comment in Transaction::Read).
AuthPageKeepsResponse ==
  [][\A t \in Trans, e \in Entries :
       cache.pc[t] = "auth" /\ cache'.pc[t] = "netRead" /\ cache.entry[t] = e
         /\ cache.content[e] = "complete" => cache'.content[e] = "complete"]_cache
=============================================================================
