-------------------------- MODULE HttpCacheProofs ---------------------------
(***************************************************************************)
(* Proofs about HttpCache for any transactions, entries and answers: the   *)
(* bookkeeping of the locks and the queues, that only whole responses are  *)
(* served, and that an entry admits its transactions in order.             *)
(*                                                                         *)
(* The invariant is about a cache |c| in the middle of a handler: |x| is   *)
(* the transaction that the handler works for while it is neither the      *)
(* holder of an entry nor registered as waiting (NoTrans if there is       *)
(* none), and |f| the entry that the handler is about to give away.        *)
(***************************************************************************)
EXTENDS HttpCache, SequenceLemmas

Others(x) == Trans \ {x}

\* The lock of each entry, for the transactions that are not in flight.
Locks(c, x) ==
  \A e \in Entries :
    /\ c.writer[e] # NoTrans => c.readers[e] = {} /\ ~c.will[e] /\ Writes(c.mode[c.writer[e]])
    /\ \A t \in c.readers[e] : c.mode[t] = "READ"
    /\ x \notin Holders(c, e)
    /\ \A t \in Others(x) : t \in Holders(c, e) <=> c.entry[t] = e /\ c.pc[t] \notin CachePending

\* A closed entry is forgotten by all but those that wait to be told so; an open one is
\* held or will be looked at.
Upkeep(c, x, f) ==
  /\ c.active \notin c.doomed
  /\ \A e \in Entries \ Live(c) :
       /\ ~c.will[e] /\ c.queue[e] = <<>>
       /\ \A t \in Others(x) : c.entry[t] = e => c.pc[t] = "add"
  /\ \A e \in Live(c) \ {f} : Holders(c, e) # {} \/ c.will[e]

\* What a transaction may want and hold at each place of its life.
PlaceOK(c, t) ==
  LET m == c.mode[t]
      p == c.pc[t]
      held == c.entry[t] # NoEntry
  IN  /\ p \in {"gone", "getBackend", "open", "create", "doom", "init"} => ~held
      /\ p \in {"create", "doom", "init"} => m = "WRITE"
      /\ p \in {"open", "add"} => m \in {"READ", "READ_WRITE", "UPDATE"}
      /\ p = "readInfo" => m \in {"READ", "READ_WRITE", "UPDATE"}
      /\ p \in {"send", "auth", "cert"} => m # "READ"
      /\ p \in {"headers", "netRead"} => m \notin {"READ_WRITE", "UPDATE"}
      /\ p = "netRead" => m # "READ"
      /\ p \in {"send", "auth", "cert", "headers", "netRead"} => (held <=> m # "NONE")
      /\ p = "writeUpdate" => m \in {"READ_WRITE", "UPDATE"}
      /\ p \in {"writeInfo", "writeData"} => m = "WRITE"
      /\ p = "cacheRead" => m = "READ"
      /\ p \in {"add", "readInfo", "writeUpdate", "writeInfo", "writeData", "cacheRead"} => held

PlacesOK(c, x) == \A t \in Others(x) : PlaceOK(c, t)

\* What is on disk when nobody overwrites it: what passes for a whole response, or a part
\* that is flagged as one.
Settled == PassesForWhole \cup {"truncated"}

\* The transactions that count on a whole response: those that serve what passes for one
\* to their client and those that validate it to do so.
Trusts(c, t) ==
  \/ c.pc[t] \in {"headers", "cacheRead"} /\ c.mode[t] = "READ"
  \/ c.pc[t] \in {"send", "auth", "cert", "writeUpdate"} /\ c.mode[t] = "READ_WRITE"

\* A response that is still being written has a transaction in mode WRITE that writes it.
Disk(c, x, f) ==
  /\ c.stored \in Settled \cup {"nothing"}
  /\ \A e \in Live(c) \ {f} :
       c.content[e] \in Settled \/ (c.writer[e] # NoTrans /\ c.mode[c.writer[e]] = "WRITE")
  /\ \A t \in Others(x) :
       c.entry[t] # NoEntry /\ Trusts(c, t) => c.content[c.entry[t]] \in PassesForWhole

\* Pending operations are for a key without an active entry.  A loop of notifications
\* with the result of a failed operation finds none either, unless all are told to
\* start again.
Operations(c) ==
  /\ c.opWriter # NoItem => c.active = NoEntry
  /\ c.opWriter = NoItem => c.opQueue = <<>>
  /\ c.opWriter.kind \notin {"add", "init"}
  /\ \A i \in 1..Len(c.opQueue) : c.opQueue[i].kind \notin {"add", "init"}
  /\ c.run = Idle <=> c.run.items = <<>>
  /\ c.run # Idle /\ ~c.run.ok /\ ~c.run.fail => c.active = NoEntry
  /\ \A i \in 1..Len(c.run.items) : c.run.items[i].kind \in {"add", "init"} => c.run.fail

\* A list of work items names a transaction.
Names(q, t) == \E i \in 1..Len(q) : q[i].trans = t

\* No transaction is named twice.
NamesOnce(q) ==
  \A i, j \in 1..Len(q) : q[i].trans # NoTrans /\ q[i].trans = q[j].trans => i = j

\* A work item is for the operation that its transaction waits for.
ItemOK(c, x, item) ==
  item.trans # NoTrans => item.trans # x /\ c.pc[item.trans] = item.kind

\* Every registration is that of a transaction that waits there ...
Registered(c, x) ==
  /\ ItemOK(c, x, c.opWriter)
  /\ \A i \in 1..Len(c.opQueue) : ItemOK(c, x, c.opQueue[i])
  /\ \A i \in 1..Len(c.run.items) : ItemOK(c, x, c.run.items[i])
  /\ \A e \in Entries : \A i \in 1..Len(c.queue[e]) :
       c.queue[e][i] # x /\ c.pc[c.queue[e][i]] = "add" /\ c.entry[c.queue[e][i]] = e
  /\ c.bkWriter # NoTrans => c.bkWriter # x /\ c.pc[c.bkWriter] = "getBackend"
  /\ \A i \in 1..Len(c.bkQueue) : c.bkQueue[i] # x /\ c.pc[c.bkQueue[i]] = "getBackend"

\* ... who is registered is so once ...
Once(c) ==
  /\ NamesOnce(c.opQueue) /\ NamesOnce(c.run.items)
  /\ \A e \in Entries : IsInjective(c.queue[e])
  /\ IsInjective(c.bkQueue)
  /\ \A t \in Trans :
       /\ c.opWriter.trans = t => ~Names(c.opQueue, t)
       /\ c.opWriter.trans = t \/ Names(c.opQueue, t) => ~Names(c.run.items, t)
       /\ Names(c.run.items, t) => \A e \in Entries : ~Contains(c.queue[e], t)
       /\ c.bkWriter = t => ~Contains(c.bkQueue, t)

\* ... and who waits is registered.
WaitsSomewhere(c, t) ==
  LET p == c.pc[t]
  IN  /\ p \in {"open", "create", "doom"} =>
           c.opWriter.trans = t \/ Names(c.opQueue, t) \/ Names(c.run.items, t)
      /\ p = "init" => Names(c.run.items, t)
      /\ p = "add" => Contains(c.queue[c.entry[t]], t) \/ Names(c.run.items, t)
      /\ p = "getBackend" => c.bkWriter = t \/ Contains(c.bkQueue, t)

Waiting(c, x) == Registered(c, x) /\ Once(c) /\ \A t \in Others(x) : WaitsSomewhere(c, t)

Inv(c, x, f) ==
  /\ c \in CacheState
  /\ Locks(c, x) /\ Upkeep(c, x, f) /\ PlacesOK(c, x) /\ Disk(c, x, f)
  /\ Operations(c) /\ Waiting(c, x)

IInv == Inv(cache, NoTrans, NoEntry)

(***************************************************************************)
(* What an operation leaves alone.                                         *)
(***************************************************************************)
SameLocks(c, d) ==
  /\ d.active = c.active /\ d.doomed = c.doomed /\ d.writer = c.writer
  /\ d.readers = c.readers /\ d.queue = c.queue /\ d.will = c.will

SameDisk(c, d) == d.stored = c.stored /\ d.content = c.content

SameOps(c, d) == d.opWriter = c.opWriter /\ d.opQueue = c.opQueue /\ d.run = c.run

SameBackend(c, d) == d.bkWriter = c.bkWriter /\ d.bkQueue = c.bkQueue

\* All transactions but one stay where they are.
OnlyTrans(c, d, t) ==
  \A u \in Others(t) : d.pc[u] = c.pc[u] /\ d.mode[u] = c.mode[u] /\ d.entry[u] = c.entry[u]

SameTrans(c, d) == d.pc = c.pc /\ d.mode = c.mode /\ d.entry = c.entry

USE CacheAssumption

\* The fields of a cache.
LEMMA Fields ==
  ASSUME NEW c \in CacheState
  PROVE  /\ c.pc \in [Trans -> Places] /\ c.mode \in [Trans -> Modes]
         /\ c.entry \in [Trans -> Entries \cup {NoEntry}]
         /\ c.active \in Entries \cup {NoEntry} /\ c.doomed \in SUBSET Entries
         /\ c.writer \in [Entries -> Trans \cup {NoTrans}]
         /\ c.readers \in [Entries -> SUBSET Trans]
         /\ c.queue \in [Entries -> Seq(Trans)] /\ c.will \in [Entries -> BOOLEAN]
         /\ c.content \in [Entries -> Contents] /\ c.stored \in Contents
         /\ c.opWriter \in Item \cup {NoItem} /\ c.opQueue \in Seq(Item)
         /\ c.run.items \in Seq(Item) /\ c.run.ok \in BOOLEAN /\ c.run.fail \in BOOLEAN
         /\ c.run.op \in {"none", "open", "create", "doom", "add"}
         /\ c.bkWriter \in Trans \cup {NoTrans} /\ c.bkQueue \in Seq(Trans)
BY DEF CacheState

\* Functions that agree everywhere.
LEMMA SameFunction ==
  ASSUME NEW S, NEW T, NEW g \in [S -> T], NEW h \in [S -> T], \A k \in S : g[k] = h[k]
  PROVE  g = h
OBVIOUS

\* Who holds an entry.
LEMMA HoldersAre ==
  ASSUME NEW c \in CacheState, NEW e \in Entries, NEW t
  PROVE  t \in Holders(c, e) <=> t \in c.readers[e] \/ (t = c.writer[e] /\ t # NoTrans)
BY DEF Holders

\* The members of its lists.
LEMMA Members ==
  ASSUME NEW c \in CacheState
  PROVE  /\ \A i \in 1..Len(c.opQueue) : c.opQueue[i] \in Item
         /\ \A i \in 1..Len(c.run.items) : c.run.items[i] \in Item
         /\ \A e \in Entries : \A i \in 1..Len(c.queue[e]) : c.queue[e][i] \in Trans
         /\ \A i \in 1..Len(c.bkQueue) : c.bkQueue[i] \in Trans
BY Fields

(***************************************************************************)
(* A transaction in flight.                                                *)
(***************************************************************************)
\* A registration of a transaction that stays where it is.
LEMMA ItemFrame ==
  ASSUME NEW t, NEW c, NEW d, NEW item \in Item \cup {NoItem}, ItemOK(c, t, item),
         OnlyTrans(c, d, t)
  PROVE  ItemOK(d, t, item)
BY DEF ItemOK, OnlyTrans, Others, Item, NoItem

\* Who is registered stays so if nothing is taken off a list.
LEMMA WaitingFrame ==
  ASSUME NEW t, NEW c \in CacheState, NEW d, Waiting(c, t),
         d.queue = c.queue, SameOps(c, d), SameBackend(c, d), OnlyTrans(c, d, t)
  PROVE  Waiting(d, t)
<1>1. Registered(d, t)
  <2>1. /\ ItemOK(d, t, d.opWriter)
        /\ \A i \in 1..Len(d.opQueue) : ItemOK(d, t, d.opQueue[i])
        /\ \A i \in 1..Len(d.run.items) : ItemOK(d, t, d.run.items[i])
    BY Fields, Members, ItemFrame DEF Waiting, Registered, SameOps
  <2>2. \A e \in Entries : \A i \in 1..Len(c.queue[e]) :
          c.queue[e][i] # t /\ d.pc[c.queue[e][i]] = "add" /\ d.entry[c.queue[e][i]] = e
    <3> SUFFICES ASSUME NEW e \in Entries, NEW i \in 1..Len(c.queue[e])
                 PROVE  /\ c.queue[e][i] # t /\ d.pc[c.queue[e][i]] = "add"
                        /\ d.entry[c.queue[e][i]] = e
      OBVIOUS
    <3>1. c.queue[e][i] \in Trans
      BY Members
    <3>2. c.queue[e][i] # t /\ c.pc[c.queue[e][i]] = "add" /\ c.entry[c.queue[e][i]] = e
      BY DEF Waiting, Registered
    <3> QED BY <3>1, <3>2 DEF OnlyTrans, Others
  <2>3. /\ d.bkWriter # NoTrans => d.bkWriter # t /\ d.pc[d.bkWriter] = "getBackend"
        /\ \A i \in 1..Len(d.bkQueue) : d.bkQueue[i] # t /\ d.pc[d.bkQueue[i]] = "getBackend"
    BY Fields, Members DEF Waiting, Registered, SameBackend, OnlyTrans, Others
  <2> QED BY <2>1, <2>2, <2>3 DEF Registered
<1>2. Once(d)
  BY DEF Waiting, Once, SameOps, SameBackend
<1>3. \A u \in Others(t) : WaitsSomewhere(d, u)
  BY DEF Waiting, WaitsSomewhere, SameOps, SameBackend, OnlyTrans
<1> QED BY <1>1, <1>2, <1>3 DEF Waiting

\* The handler may do what it likes with the transaction it works for.
LEMMA FreeMove ==
  ASSUME NEW t \in Trans, NEW f, NEW c, Inv(c, t, f), NEW d \in CacheState,
         SameLocks(c, d), SameDisk(c, d), SameOps(c, d), SameBackend(c, d), OnlyTrans(c, d, t)
  PROVE  Inv(d, t, f)
<1>0. c \in CacheState
  BY DEF Inv
<1>a. \A e \in Entries : Holders(d, e) = Holders(c, e)
  BY DEF Holders, SameLocks
<1>b. Live(d) = Live(c) /\ Live(c) \subseteq Entries
  BY <1>0, Fields DEF Live, SameLocks
<1>1. Locks(d, t)
  BY <1>0, <1>a, Fields DEF Inv, Locks, SameLocks, OnlyTrans, Others, Holders
<1>2. Upkeep(d, t, f)
  <2>1. \A e \in Entries \ Live(d) :
          /\ ~d.will[e] /\ d.queue[e] = <<>>
          /\ \A u \in Others(t) : d.entry[u] = e => d.pc[u] = "add"
    BY <1>b DEF Inv, Upkeep, SameLocks, OnlyTrans
  <2>2. \A e \in Live(d) \ {f} : Holders(d, e) # {} \/ d.will[e]
    BY <1>a, <1>b DEF Inv, Upkeep, SameLocks
  <2> QED BY <2>1, <2>2 DEF Inv, Upkeep, SameLocks
<1>3. PlacesOK(d, t)
  BY DEF Inv, PlacesOK, PlaceOK, OnlyTrans
<1>4. Disk(d, t, f)
  <2>1. \A e \in Live(d) \ {f} :
          d.content[e] \in Settled \/ (d.writer[e] # NoTrans /\ d.mode[d.writer[e]] = "WRITE")
    <3> SUFFICES ASSUME NEW e \in Live(d) \ {f}, d.content[e] \notin Settled
                 PROVE  d.writer[e] # NoTrans /\ d.mode[d.writer[e]] = "WRITE"
      OBVIOUS
    <3>1. c.writer[e] # NoTrans /\ c.mode[c.writer[e]] = "WRITE"
      BY <1>b DEF Inv, Disk, SameDisk
    <3>2. c.writer[e] \in Others(t)
      <4>0. e \in Entries
        BY <1>b
      <4>1. e \in Entries /\ c.writer[e] \in Trans
        BY ONLY <1>0, <3>1, <4>0, Fields
      <4>2. t \notin Holders(c, e)
        BY <4>1 DEF Inv, Locks
      <4> QED BY <1>0, <3>1, <4>1, <4>2, HoldersAre DEF Others
    <3> QED BY <3>1, <3>2 DEF SameLocks, OnlyTrans
  <2>2. \A u \in Others(t) : d.entry[u] # NoEntry /\ Trusts(d, u) => d.content[d.entry[u]] \in PassesForWhole
    BY DEF Inv, Disk, Trusts, SameDisk, OnlyTrans
  <2> QED BY <2>1, <2>2 DEF Inv, Disk, SameDisk
<1>5. Operations(d)
  BY DEF Inv, Operations, SameLocks, SameOps
<1>6. Waiting(d, t)
  BY <1>0, WaitingFrame DEF Inv, SameLocks
<1> QED BY <1>1, <1>2, <1>3, <1>4, <1>5, <1>6 DEF Inv

\* A transaction that waits for nothing is registered nowhere.
LEMMA StaysOut ==
  ASSUME NEW t \in Trans, NEW c \in CacheState, Registered(c, NoTrans), c.pc[t] \notin CachePending
  PROVE  Registered(c, t)
<1>1. \A item \in Item \cup {NoItem} : ItemOK(c, NoTrans, item) => ItemOK(c, t, item)
  BY DEF ItemOK, Item, NoItem, CachePending
<1>2. /\ ItemOK(c, t, c.opWriter)
      /\ \A i \in 1..Len(c.opQueue) : ItemOK(c, t, c.opQueue[i])
      /\ \A i \in 1..Len(c.run.items) : ItemOK(c, t, c.run.items[i])
  BY <1>1, Fields, Members DEF Registered
<1>3. \A e \in Entries : \A i \in 1..Len(c.queue[e]) :
        c.queue[e][i] # t /\ c.pc[c.queue[e][i]] = "add" /\ c.entry[c.queue[e][i]] = e
  BY DEF Registered, CachePending
<1>4. /\ c.bkWriter # NoTrans => c.bkWriter # t /\ c.pc[c.bkWriter] = "getBackend"
      /\ \A i \in 1..Len(c.bkQueue) : c.bkQueue[i] # t /\ c.pc[c.bkQueue[i]] = "getBackend"
  BY DEF Registered, CachePending
<1> QED BY <1>2, <1>3, <1>4 DEF Registered

\* A transaction that holds nothing and waits for nothing may be taken for one in flight.
LEMMA TakeOff ==
  ASSUME NEW t \in Trans, NEW f, NEW c, Inv(c, NoTrans, f),
         c.pc[t] \notin CachePending, \A e \in Entries : t \notin Holders(c, e)
  PROVE  Inv(c, t, f)
<1>0. c \in CacheState
  BY DEF Inv
<1>1. Locks(c, t)
  BY DEF Inv, Locks, Others
<1>2. Upkeep(c, t, f) /\ PlacesOK(c, t) /\ Disk(c, t, f)
  BY DEF Inv, Upkeep, PlacesOK, Disk, Others
<1>3. Registered(c, t)
  BY <1>0, StaysOut DEF Inv, Waiting
<1>4. Waiting(c, t)
  BY <1>3 DEF Inv, Waiting, Others
<1> QED BY <1>0, <1>1, <1>2, <1>4 DEF Inv

\* It may come to rest where it neither holds nor waits for anything.
LEMMA Land ==
  ASSUME NEW t \in Trans, NEW f, NEW c, Inv(c, t, f),
         PlaceOK(c, t), c.entry[t] = NoEntry, c.pc[t] \notin CachePending
  PROVE  Inv(c, NoTrans, f)
<1>0. c \in CacheState
  BY DEF Inv
<1>a. \A u \in Others(NoTrans) : u = t \/ u \in Others(t)
  BY DEF Others
<1>1. Locks(c, NoTrans)
  <2> SUFFICES ASSUME NEW e \in Entries
               PROVE  /\ NoTrans \notin Holders(c, e)
                      /\ \A u \in Others(NoTrans) :
                           u \in Holders(c, e) <=> c.entry[u] = e /\ c.pc[u] \notin CachePending
    BY DEF Inv, Locks
  <2>1. NoTrans \notin Holders(c, e)
    BY <1>0, Fields DEF Holders
  <2>2. t \notin Holders(c, e) /\ c.entry[t] # e
    BY DEF Inv, Locks
  <2> QED BY <1>a, <2>1, <2>2 DEF Inv, Locks
<1>2. Upkeep(c, NoTrans, f)
  BY <1>a DEF Inv, Upkeep
<1>3. PlacesOK(c, NoTrans) /\ Disk(c, NoTrans, f)
  BY <1>a DEF Inv, PlacesOK, Disk
<1>4. Registered(c, NoTrans)
  <2>1. \A item \in Item \cup {NoItem} : ItemOK(c, t, item) => ItemOK(c, NoTrans, item)
    BY DEF ItemOK
  <2>2. /\ ItemOK(c, NoTrans, c.opWriter)
        /\ \A i \in 1..Len(c.opQueue) : ItemOK(c, NoTrans, c.opQueue[i])
        /\ \A i \in 1..Len(c.run.items) : ItemOK(c, NoTrans, c.run.items[i])
    BY <1>0, <2>1, Fields, Members DEF Inv, Waiting, Registered
  <2>3. \A e \in Entries : \A i \in 1..Len(c.queue[e]) :
          c.queue[e][i] # NoTrans /\ c.pc[c.queue[e][i]] = "add" /\ c.entry[c.queue[e][i]] = e
    <3>1. \A e \in Entries : \A i \in 1..Len(c.queue[e]) : c.queue[e][i] # NoTrans
      BY <1>0, Members
    <3> QED BY <3>1 DEF Inv, Waiting, Registered
  <2>4. /\ c.bkWriter # NoTrans => c.pc[c.bkWriter] = "getBackend"
        /\ \A i \in 1..Len(c.bkQueue) : c.bkQueue[i] # NoTrans /\ c.pc[c.bkQueue[i]] = "getBackend"
    BY <1>0, Members DEF Inv, Waiting, Registered
  <2> QED BY <2>2, <2>3, <2>4 DEF Registered
<1>5. WaitsSomewhere(c, t)
  BY DEF WaitsSomewhere, CachePending
<1>6. Waiting(c, NoTrans)
  BY <1>a, <1>4, <1>5 DEF Inv, Waiting
<1> QED BY <1>0, <1>1, <1>2, <1>3, <1>6 DEF Inv

(***************************************************************************)
(* Lists of work items.                                                    *)
(***************************************************************************)
LEMMA AppendNames ==
  ASSUME NEW q \in Seq(Item), NEW item \in Item
  PROVE  LET r == Append(q, item)
         IN  /\ r \in Seq(Item)
             /\ \A t : Names(r, t) <=> Names(q, t) \/ item.trans = t
             /\ NamesOnce(q) /\ (item.trans # NoTrans => ~Names(q, item.trans)) => NamesOnce(r)
             /\ \A i \in 1..Len(r) : r[i] = item \/ \E j \in 1..Len(q) : r[i] = q[j]
<1> DEFINE r == Append(q, item)
<1>1. /\ r \in Seq(Item) /\ Len(r) = Len(q) + 1 /\ Len(q) \in Nat
      /\ \A i \in 1..Len(q) : r[i] = q[i]
      /\ r[Len(q) + 1] = item
  BY AppendProperties
<1> HIDE DEF r
<1>2. \A i \in 1..Len(r) : i \in 1..Len(q) \/ i = Len(q) + 1
  BY <1>1
<1>3. \A t : Names(r, t) <=> Names(q, t) \/ item.trans = t
  BY <1>1, <1>2 DEF Names
<1>4. ASSUME NamesOnce(q), item.trans # NoTrans => ~Names(q, item.trans) PROVE NamesOnce(r)
  BY <1>1, <1>2, <1>4 DEF NamesOnce, Names
<1>5. \A i \in 1..Len(r) : r[i] = item \/ \E j \in 1..Len(q) : r[i] = q[j]
  BY <1>1, <1>2
<1> QED BY <1>1, <1>3, <1>4, <1>5 DEF r

LEMMA TailNames ==
  ASSUME NEW q \in Seq(Item), q # <<>>, NamesOnce(q)
  PROVE  /\ Tail(q) \in Seq(Item) /\ Head(q) \in Item /\ NamesOnce(Tail(q))
         /\ Len(q) = 1 => Tail(q) = <<>>
         /\ Len(q) # 1 => Tail(q) # <<>>
         /\ 1 \in 1..Len(q) /\ Head(q) = q[1]
         /\ \A i \in 1..Len(Tail(q)) : \E j \in 1..Len(q) : Tail(q)[i] = q[j]
         /\ \A t : Names(q, t) <=> Head(q).trans = t \/ Names(Tail(q), t)
         /\ Head(q).trans # NoTrans => ~Names(Tail(q), Head(q).trans)
<1> DEFINE r == Tail(q)
<1>1. /\ r \in Seq(Item) /\ Len(r) = Len(q) - 1 /\ Len(q) \in Nat /\ 1 \in 1..Len(q)
      /\ Head(q) = q[1]
      /\ \A i \in 1..Len(r) : r[i] = q[i + 1] /\ i + 1 \in 1..Len(q)
  BY HeadTailProperties, EmptySeq
<1>0. Len(r) = 0 <=> r = <<>>
  BY <1>1, EmptySeq
<1> HIDE DEF r
<1>2. \A i \in 1..Len(q) : i = 1 \/ (i - 1 \in 1..Len(r) /\ r[i - 1] = q[i])
  BY <1>1
<1>3. \A t : Names(q, t) <=> Head(q).trans = t \/ Names(r, t)
  BY <1>1, <1>2 DEF Names
<1>4. NamesOnce(r) /\ (Head(q).trans # NoTrans => ~Names(r, Head(q).trans))
  <2>1. \A i, j \in 1..Len(q) : q[i].trans # NoTrans /\ q[i].trans = q[j].trans => i = j
    BY DEF NamesOnce
  <2>2. NamesOnce(r)
    <3> SUFFICES ASSUME NEW i \in 1..Len(r), NEW j \in 1..Len(r),
                        r[i].trans # NoTrans, r[i].trans = r[j].trans
                 PROVE  i = j
      BY DEF NamesOnce
    <3>1. i + 1 \in 1..Len(q) /\ j + 1 \in 1..Len(q) /\ r[i] = q[i + 1] /\ r[j] = q[j + 1]
      BY <1>1
    <3>2. i + 1 = j + 1
      BY <2>1, <3>1
    <3> QED BY <1>1, <3>2
  <2>3. ASSUME Head(q).trans # NoTrans, NEW i \in 1..Len(r), r[i].trans = Head(q).trans PROVE FALSE
    <3>1. i + 1 \in 1..Len(q) /\ r[i] = q[i + 1] /\ 1 \in 1..Len(q) /\ Head(q) = q[1]
      BY <1>1
    <3>2. i + 1 = 1
      BY <2>1, <2>3, <3>1
    <3> QED BY <1>1, <3>2
  <2> QED BY <2>2, <2>3 DEF Names
<1> QED BY <1>0, <1>1, <1>3, <1>4 DEF r

\* Erasing the item that names a transaction.
LEMMA EraseNames ==
  ASSUME NEW q \in Seq(Item), NEW t \in Trans, NamesOnce(q)
  PROVE  LET mine(item) == item.trans = t
             r == RemoveFirstMatch(q, mine)
         IN  /\ r \in Seq(Item) /\ NamesOnce(r)
             /\ \A i \in 1..Len(r) : \E j \in 1..Len(q) : r[i] = q[j]
             /\ \A u : Names(r, u) <=> Names(q, u) /\ u # t
             /\ q = <<>> => r = <<>>
<1> DEFINE mine(item) == item.trans = t
           r == RemoveFirstMatch(q, mine)
           I == {i \in 1..Len(q) : q[i].trans = t}
<1>0. NoTrans # t
  OBVIOUS
<1>1. CASE ~\E i \in 1..Len(q) : q[i].trans = t
  <2>1. r = q
    BY <1>1 DEF RemoveFirstMatch
  <2> QED BY <1>1, <2>1 DEF Names
<1>2. CASE \E i \in 1..Len(q) : q[i].trans = t
  <2>1. PICK k \in 1..Len(q) : q[k].trans = t
    BY <1>2
  <2>2. \A i, j \in 1..Len(q) : q[i].trans # NoTrans /\ q[i].trans = q[j].trans => i = j
    BY DEF NamesOnce
  <2>3. I = {k}
    BY <1>0, <2>1, <2>2
  <2>4. SelectInSeq(q, mine) = k
    BY <2>3 DEF SelectInSeq, Min
  <2>5. r = RemoveAt(q, k)
    BY <1>2, <2>4 DEF RemoveFirstMatch
  <2>6. /\ r \in Seq(Item) /\ Len(r) = Len(q) - 1
        /\ \A j \in 1..(Len(q) - 1) : r[j] = IF j < k THEN q[j] ELSE q[j + 1]
    BY <2>5, RemoveAtProperties
  <2> HIDE DEF r, mine, I
  <2> DEFINE from(j) == IF j < k THEN j ELSE j + 1
  <2>7. \A j \in 1..Len(r) : from(j) \in 1..Len(q) /\ from(j) # k /\ r[j] = q[from(j)]
    BY <2>6
  <2>8. \A i \in 1..Len(q) : i # k => \E j \in 1..Len(r) : r[j] = q[i]
    <3> SUFFICES ASSUME NEW i \in 1..Len(q), i # k PROVE \E j \in 1..Len(r) : r[j] = q[i]
      OBVIOUS
    <3>1. CASE i < k
      BY <2>6, <3>1
    <3>2. CASE i > k
      <4>1. i - 1 \in 1..Len(r) /\ r[i - 1] = q[i]
        BY <2>6, <3>2
      <4> QED BY <4>1
    <3> QED BY <3>1, <3>2
  <2>9. NamesOnce(r)
    <3> SUFFICES ASSUME NEW i \in 1..Len(r), NEW j \in 1..Len(r),
                        r[i].trans # NoTrans, r[i].trans = r[j].trans
                 PROVE  i = j
      BY DEF NamesOnce
    <3>1. from(i) = from(j)
      BY <2>2, <2>7
    <3> QED BY <3>1
  <2>10. \A u : Names(r, u) <=> Names(q, u) /\ u # t
    <3>1. ASSUME NEW u, Names(r, u) PROVE Names(q, u) /\ u # t
      <4>1. PICK j \in 1..Len(r) : r[j].trans = u
        BY <3>1 DEF Names
      <4>2. q[from(j)].trans = u /\ from(j) \in 1..Len(q) /\ from(j) # k
        BY <2>7, <4>1
      <4>3. u # t
        BY <1>0, <2>1, <2>2, <4>2
      <4> QED BY <4>2, <4>3 DEF Names
    <3>2. ASSUME NEW u, Names(q, u), u # t PROVE Names(r, u)
      BY <2>1, <2>8, <3>2 DEF Names
    <3> QED BY <3>1, <3>2
  <2>11. q # <<>>
    BY <2>1
  <2>12. \A i \in 1..Len(r) : \E j \in 1..Len(q) : r[i] = q[j]
    BY <2>7
  <2> QED BY <2>6, <2>9, <2>10, <2>11, <2>12 DEF r, mine
<1> QED BY <1>1, <1>2

(***************************************************************************)
(* Operations on the disk cache.                                           *)
(***************************************************************************)
\* The locks, the entries and the places of an invariant.
Standing(c, x, f) == Locks(c, x) /\ Upkeep(c, x, f) /\ PlacesOK(c, x) /\ Disk(c, x, f)

\* They do not depend on who waits for which operation.
LEMMA StandingFrame ==
  ASSUME NEW x, NEW f, NEW c, Standing(c, x, f), NEW d,
         SameLocks(c, d), SameDisk(c, d), SameTrans(c, d)
  PROVE  Standing(d, x, f)
<1>a. \A e : Holders(d, e) = Holders(c, e)
  BY DEF Holders, SameLocks
<1>b. Live(d) = Live(c)
  BY DEF Live, SameLocks
<1>1. Locks(d, x)
  BY <1>a DEF Standing, Locks, SameLocks, SameTrans
<1>2. Upkeep(d, x, f)
  BY <1>a, <1>b DEF Standing, Upkeep, SameLocks, SameTrans
<1>3. PlacesOK(d, x)
  BY DEF Standing, PlacesOK, PlaceOK, SameTrans
<1>4. Disk(d, x, f)
  BY <1>b DEF Standing, Disk, Trusts, SameLocks, SameDisk, SameTrans
<1> QED BY <1>1, <1>2, <1>3, <1>4 DEF Standing

\* A transaction in flight settles down to wait, for an open entry if for one.
LEMMA Parks ==
  ASSUME NEW t \in Trans, NEW f, NEW c, Inv(c, t, f), PlaceOK(c, t), c.pc[t] \in CachePending,
         c.entry[t] = NoEntry \/ c.entry[t] \in Live(c)
  PROVE  Standing(c, NoTrans, f)
<1>0. c \in CacheState
  BY DEF Inv
<1>a. \A u \in Others(NoTrans) : u = t \/ u \in Others(t)
  BY DEF Others
<1>1. Locks(c, NoTrans)
  <2> SUFFICES ASSUME NEW e \in Entries
               PROVE  /\ NoTrans \notin Holders(c, e)
                      /\ \A u \in Others(NoTrans) :
                           u \in Holders(c, e) <=> c.entry[u] = e /\ c.pc[u] \notin CachePending
    BY DEF Inv, Locks
  <2>1. NoTrans \notin Holders(c, e)
    BY <1>0, Fields DEF Holders
  <2>2. t \notin Holders(c, e)
    BY DEF Inv, Locks
  <2> QED BY <1>a, <2>1, <2>2 DEF Inv, Locks
<1>2. Upkeep(c, NoTrans, f)
  <2>1. \A e \in Entries \ Live(c) : c.entry[t] # e
    OBVIOUS
  <2> QED BY <1>a, <2>1 DEF Inv, Upkeep
<1>3. PlacesOK(c, NoTrans)
  BY <1>a DEF Inv, PlacesOK
<1>4. Disk(c, NoTrans, f)
  <2>1. ~Trusts(c, t)
    BY DEF Trusts, CachePending
  <2> QED BY <1>a, <2>1 DEF Inv, Disk
<1> QED BY <1>1, <1>2, <1>3, <1>4 DEF Standing

\* The operation is started or put in the queue, for the transaction in flight or for
\* nobody.
LEMMA GetPendingOpResult ==
  ASSUME NEW c \in CacheState, NEW t \in Trans \cup {NoTrans}, NEW kind \in {"open", "create", "doom"}
  PROVE  LET d == GetPendingOp(c, kind, t)
         IN  /\ d \in CacheState /\ SameLocks(c, d) /\ SameDisk(c, d) /\ SameTrans(c, d)
             /\ SameBackend(c, d) /\ d.run = c.run
             /\ \/ /\ c.opWriter = NoItem /\ d.opWriter = [kind |-> kind, trans |-> t]
                   /\ d.opQueue = c.opQueue
                \/ /\ c.opWriter # NoItem /\ d.opWriter = c.opWriter
                   /\ d.opQueue = Append(c.opQueue, [kind |-> kind, trans |-> t])
<1> DEFINE item == [kind |-> kind, trans |-> t]
<1>1. item \in Item
  BY DEF Item
<1>2. CASE c.opWriter = NoItem
  <2>1. GetPendingOp(c, kind, t) = [c EXCEPT !.opWriter = item]
    BY <1>2 DEF GetPendingOp
  <2> HIDE DEF item
  <2> QED BY <1>1, <1>2, <2>1, ZenonT(60) DEF CacheState, SameLocks, SameDisk, SameTrans, SameBackend, item
<1>3. CASE c.opWriter # NoItem
  <2>1. GetPendingOp(c, kind, t) = [c EXCEPT !.opQueue = Append(c.opQueue, item)]
    BY <1>3 DEF GetPendingOp
  <2>2. Append(c.opQueue, item) \in Seq(Item)
    BY <1>1, Fields
  <2> HIDE DEF item
  <2> QED BY <1>1, <1>3, <2>1, <2>2, ZenonT(60) DEF CacheState, SameLocks, SameDisk, SameTrans, SameBackend, item
<1> QED BY <1>2, <1>3

\* The transaction in flight is registered nowhere.
LEMMA Nowhere ==
  ASSUME NEW t \in Trans, NEW c, Waiting(c, t)
  PROVE  /\ c.opWriter.trans # t /\ ~Names(c.opQueue, t) /\ ~Names(c.run.items, t)
         /\ \A e \in Entries : ~Contains(c.queue[e], t)
         /\ c.bkWriter # t /\ ~Contains(c.bkQueue, t)
<1>1. c.opWriter.trans # t /\ ~Names(c.opQueue, t) /\ ~Names(c.run.items, t)
  BY DEF Waiting, Registered, ItemOK, Names
<1>2. (\A e \in Entries : ~Contains(c.queue[e], t)) /\ c.bkWriter # t /\ ~Contains(c.bkQueue, t)
  BY DEF Waiting, Registered, Contains
<1> QED BY <1>1, <1>2

\* A registration that is fine with one transaction in flight is fine with none.
LEMMA ItemsLand ==
  ASSUME NEW x, NEW c, Registered(c, x), c \in CacheState
  PROVE  Registered(c, NoTrans)
<1>1. \A item : ItemOK(c, x, item) => ItemOK(c, NoTrans, item)
  BY DEF ItemOK
<1>2. \A e \in Entries : \A i \in 1..Len(c.queue[e]) : c.queue[e][i] # NoTrans
  BY Members
<1>3. \A i \in 1..Len(c.bkQueue) : c.bkQueue[i] # NoTrans
  BY Members
<1> QED BY <1>1, <1>2, <1>3 DEF Registered

\* Registrations only depend on where the transactions are.
LEMMA ItemSame ==
  ASSUME NEW x, NEW c, NEW d, d.pc = c.pc, NEW item, ItemOK(c, x, item)
  PROVE  ItemOK(d, x, item)
BY DEF ItemOK

\* What a pending operation adds to the registrations.
LEMMA GetPendingOpAdds ==
  ASSUME NEW c \in CacheState, NEW x, NEW t \in Trans \cup {NoTrans},
         NEW kind \in {"open", "create", "doom"}, Registered(c, x), Once(c), Operations(c),
         c.active = NoEntry,
         t # NoTrans => t # x /\ c.pc[t] = kind,
         t # NoTrans => /\ c.opWriter.trans # t /\ ~Names(c.opQueue, t) /\ ~Names(c.run.items, t)
                        /\ \A e \in Entries : ~Contains(c.queue[e], t)
  PROVE  LET d == GetPendingOp(c, kind, t)
         IN  /\ Operations(d) /\ Registered(d, x) /\ Once(d)
             /\ t # NoTrans => d.opWriter.trans = t \/ Names(d.opQueue, t)
             /\ \A u : c.opWriter.trans = u /\ u # NoTrans => d.opWriter.trans = u
             /\ \A u : Names(c.opQueue, u) => Names(d.opQueue, u)
<1> DEFINE d == GetPendingOp(c, kind, t)
           item == [kind |-> kind, trans |-> t]
<1>0. item \in Item /\ item.trans = t /\ item.kind = kind /\ item # NoItem
  BY DEF Item, NoItem
<1>1. /\ d \in CacheState /\ SameLocks(c, d) /\ SameTrans(c, d) /\ SameBackend(c, d) /\ d.run = c.run
      /\ \/ c.opWriter = NoItem /\ d.opWriter = item /\ d.opQueue = c.opQueue
         \/ c.opWriter # NoItem /\ d.opWriter = c.opWriter /\ d.opQueue = Append(c.opQueue, item)
  BY GetPendingOpResult
<1> HIDE DEF d
<1>2. ItemOK(d, x, item)
  BY <1>0, <1>1 DEF ItemOK, SameTrans
<1> HIDE DEF item
<1>3. \A i \in 1..Len(c.run.items) : ItemOK(d, x, d.run.items[i])
  BY <1>1, ItemSame DEF Registered, SameTrans
<1>4. \A i \in 1..Len(c.opQueue) : ItemOK(d, x, c.opQueue[i])
  BY <1>1, ItemSame DEF Registered, SameTrans
<1>5. ItemOK(d, x, c.opWriter)
  BY <1>1, ItemSame DEF Registered, SameTrans
<1>6. /\ \A e \in Entries : \A i \in 1..Len(d.queue[e]) :
           d.queue[e][i] # x /\ d.pc[d.queue[e][i]] = "add" /\ d.entry[d.queue[e][i]] = e
      /\ d.bkWriter # NoTrans => d.bkWriter # x /\ d.pc[d.bkWriter] = "getBackend"
      /\ \A i \in 1..Len(d.bkQueue) : d.bkQueue[i] # x /\ d.pc[d.bkQueue[i]] = "getBackend"
  BY <1>1 DEF Registered, SameLocks, SameBackend, SameTrans
<1>7. CASE c.opWriter = NoItem
  <2>1. d.opWriter = item /\ d.opQueue = c.opQueue
    BY <1>1, <1>7
  <2>2. c.opQueue = <<>>
    BY <1>7 DEF Operations
  <2>3. \A u : ~Names(c.opQueue, u)
    BY <2>2 DEF Names
  <2>4. Registered(d, x)
    BY <1>1, <1>2, <1>3, <1>4, <1>6, <2>1 DEF Registered
  <2>5. Once(d)
    BY <1>0, <1>1, <2>1, <2>3 DEF Once, SameLocks, SameBackend
  <2>6. Operations(d)
    BY <1>0, <1>1, <2>1, <2>2 DEF Operations, SameLocks
  <2> QED BY <1>0, <1>7, <2>1, <2>3, <2>4, <2>5, <2>6 DEF d, NoItem
<1>8. CASE c.opWriter # NoItem
  <2>1. d.opWriter = c.opWriter /\ d.opQueue = Append(c.opQueue, item)
    BY <1>1, <1>8
  <2>2. /\ d.opQueue \in Seq(Item)
        /\ \A u : Names(d.opQueue, u) <=> Names(c.opQueue, u) \/ u = t
        /\ NamesOnce(c.opQueue) /\ (t # NoTrans => ~Names(c.opQueue, t)) => NamesOnce(d.opQueue)
        /\ \A i \in 1..Len(d.opQueue) : d.opQueue[i] = item \/ \E j \in 1..Len(c.opQueue) : d.opQueue[i] = c.opQueue[j]
    BY <1>0, <2>1, Fields, AppendNames
  <2>3. Registered(d, x)
    BY <1>2, <1>3, <1>4, <1>5, <1>6, <1>1, <2>1, <2>2 DEF Registered
  <2>4. Once(d)
    BY <1>1, <2>1, <2>2 DEF Once, SameLocks, SameBackend
  <2>5. Operations(d)
    BY <1>0, <1>1, <1>8, <2>1, <2>2 DEF Operations, SameLocks
  <2> QED BY <2>1, <2>2, <2>3, <2>4, <2>5 DEF d
<1> QED BY <1>7, <1>8

\* The transaction in flight waits for an operation.
LEMMA GetPendingOpFor ==
  ASSUME NEW t \in Trans, NEW f, NEW c, Inv(c, t, f), c.active = NoEntry,
         NEW kind \in {"open", "create", "doom"}, c.pc[t] = kind, PlaceOK(c, t)
  PROVE  Inv(GetPendingOp(c, kind, t), NoTrans, f)
<1> DEFINE d == GetPendingOp(c, kind, t)
<1>0. c \in CacheState /\ t # NoTrans
  BY DEF Inv
<1>1. Standing(c, NoTrans, f)
  BY Parks DEF CachePending, PlaceOK
<1>2. /\ d \in CacheState /\ SameLocks(c, d) /\ SameDisk(c, d) /\ SameTrans(c, d)
      /\ SameBackend(c, d) /\ d.run = c.run
  BY <1>0, GetPendingOpResult
<1>3. Standing(d, NoTrans, f)
  BY <1>1, <1>2, StandingFrame
<1>4. Registered(c, NoTrans) /\ Once(c) /\ Operations(c)
  BY <1>0, ItemsLand DEF Inv, Waiting
<1>5. /\ Operations(d) /\ Registered(d, NoTrans) /\ Once(d)
      /\ d.opWriter.trans = t \/ Names(d.opQueue, t)
      /\ \A u : c.opWriter.trans = u /\ u # NoTrans => d.opWriter.trans = u
      /\ \A u : Names(c.opQueue, u) => Names(d.opQueue, u)
  <2>1. /\ c.opWriter.trans # t /\ ~Names(c.opQueue, t) /\ ~Names(c.run.items, t)
        /\ \A e \in Entries : ~Contains(c.queue[e], t)
    BY Nowhere DEF Inv
  <2> QED BY <1>0, <1>4, <2>1, GetPendingOpAdds
<1> HIDE DEF d
<1>6. ASSUME NEW u \in Others(NoTrans) PROVE WaitsSomewhere(d, u)
  <2>1. CASE u = t
    BY <1>2, <1>5, <2>1 DEF WaitsSomewhere, SameTrans
  <2>2. CASE u # t
    <3>1. WaitsSomewhere(c, u) /\ u # NoTrans
      BY <2>2 DEF Inv, Waiting, Others
    <3> QED BY <1>2, <1>5, <3>1 DEF WaitsSomewhere, SameTrans, SameLocks, SameBackend
  <2> QED BY <2>1, <2>2
<1> QED BY <1>2, <1>3, <1>5, <1>6 DEF Inv, Standing, Waiting, d

\* The disk cache dooms a closed entry that a transaction believes to be its own.
LEMMA GetPendingOpForNobody ==
  ASSUME NEW x, NEW f, NEW c, Inv(c, x, f), c.active = NoEntry
  PROVE  Inv(GetPendingOp(c, "doom", NoTrans), x, f)
<1> DEFINE d == GetPendingOp(c, "doom", NoTrans)
<1>0. c \in CacheState
  BY DEF Inv
<1>2. /\ d \in CacheState /\ SameLocks(c, d) /\ SameDisk(c, d) /\ SameTrans(c, d)
      /\ SameBackend(c, d) /\ d.run = c.run
  BY <1>0, GetPendingOpResult
<1>3. Standing(d, x, f)
  BY <1>2, StandingFrame DEF Inv, Standing
<1>5. /\ Operations(d) /\ Registered(d, x) /\ Once(d)
      /\ \A u : c.opWriter.trans = u /\ u # NoTrans => d.opWriter.trans = u
      /\ \A u : Names(c.opQueue, u) => Names(d.opQueue, u)
  BY <1>0, GetPendingOpAdds DEF Inv, Waiting
<1> HIDE DEF d
<1>6. ASSUME NEW u \in Others(x) PROVE WaitsSomewhere(d, u)
  <2>1. WaitsSomewhere(c, u) /\ u # NoTrans
    BY DEF Inv, Waiting, Others
  <2> QED BY <1>2, <1>5, <2>1 DEF WaitsSomewhere, SameTrans, SameLocks, SameBackend
<1> QED BY <1>2, <1>3, <1>5, <1>6 DEF Inv, Standing, Waiting, d

(***************************************************************************)
(* The reader/writer lock.                                                 *)
(***************************************************************************)
\* A transaction has to wait for the entry.
Busy(c, e, t) == c.writer[e] # NoTrans \/ c.will[e] \/ (Writes(c.mode[t]) /\ c.readers[e] # {})

\* The transaction goes to another place, with an entry or without one.
Moves(c, t, p, e) == [c EXCEPT !.pc[t] = p, !.entry[t] = e]

\* It waits at the end of the queue of an entry.
Joins(c, e, t) == [c EXCEPT !.queue[e] = Append(@, t), !.pc[t] = "add", !.entry[t] = e]

\* Only the place and the entry_ of one transaction change.
LEMMA MovesTrans ==
  ASSUME NEW c \in CacheState, NEW t \in Trans, NEW e \in Entries \cup {NoEntry}, NEW p \in Places
  PROVE  LET d == Moves(c, t, p, e)
         IN  /\ d \in CacheState /\ SameLocks(c, d) /\ SameDisk(c, d) /\ SameOps(c, d)
             /\ SameBackend(c, d) /\ OnlyTrans(c, d, t)
             /\ d.pc[t] = p
             /\ d.mode = c.mode /\ d.entry[t] = e
<1> DEFINE d == Moves(c, t, p, e)
<1>1. d.pc = [c.pc EXCEPT ![t] = p] /\ d.entry = [c.entry EXCEPT ![t] = e] /\ d.mode = c.mode
  BY DEF CacheState, Moves
<1>2. d \in CacheState /\ SameLocks(c, d) /\ SameDisk(c, d) /\ SameOps(c, d) /\ SameBackend(c, d)
  BY DEF CacheState, Moves, SameLocks, SameDisk, SameOps, SameBackend
<1> HIDE DEF d
<1>3. OnlyTrans(c, d, t) /\ d.pc[t] = p /\ d.entry[t] = e
  BY <1>1, Fields DEF OnlyTrans, Others
<1> QED BY <1>1, <1>2, <1>3 DEF d

\* A transaction waits at the end of the queue.
LEMMA JoinsQueue ==
  ASSUME NEW t \in Trans, NEW c, Inv(c, t, NoEntry), NEW e \in Live(c),
         c.mode[t] \in {"READ", "READ_WRITE", "UPDATE"}
  PROVE  Inv(Joins(c, e, t), NoTrans, NoEntry)
<1> DEFINE b == Moves(c, t, "add", e)
           d == Joins(c, e, t)
<1>0. c \in CacheState /\ e \in Entries
  BY Fields DEF Inv, Live
<1>1. /\ b \in CacheState /\ SameLocks(c, b) /\ SameDisk(c, b) /\ SameOps(c, b)
      /\ SameBackend(c, b) /\ OnlyTrans(c, b, t) /\ b.pc[t] = "add" /\ b.mode = c.mode /\ b.entry[t] = e
  <2>1. "add" \in Places /\ e \in Entries \cup {NoEntry}
    BY <1>0 DEF Places
  <2> QED BY <1>0, <2>1, MovesTrans
<1>2. d = [b EXCEPT !.queue[e] = Append(b.queue[e], t)]
  BY <1>0 DEF CacheState, Moves, Joins
<1> HIDE DEF b, d
<1>3. Inv(b, t, NoEntry)
  BY <1>1, FreeMove
<1>4. PlaceOK(b, t)
  BY <1>0, <1>1 DEF PlaceOK
<1>5. e \in Live(b)
  BY <1>1 DEF Live, SameLocks
<1>6. Standing(b, NoTrans, NoEntry)
  BY <1>1, <1>3, <1>4, <1>5, Parks DEF CachePending
<1>7. Append(b.queue[e], t) \in Seq(Trans)
  <2>1. b.queue[e] \in Seq(Trans)
    BY <1>0, <1>1, Fields
  <2> QED BY <2>1
<1>8. /\ d \in CacheState /\ d.queue = [b.queue EXCEPT ![e] = Append(b.queue[e], t)]
      /\ SameDisk(b, d) /\ SameTrans(b, d) /\ SameOps(b, d) /\ SameBackend(b, d)
      /\ d.active = b.active /\ d.doomed = b.doomed /\ d.writer = b.writer
      /\ d.readers = b.readers /\ d.will = b.will
  BY <1>0, <1>1, <1>2, <1>7, ZenonT(60) DEF CacheState, SameDisk, SameTrans, SameOps, SameBackend
<1>a. b.queue \in [Entries -> Seq(Trans)]
  BY <1>1, Fields
<1>b. /\ d.queue[e] = Append(b.queue[e], t)
      /\ \A k \in Entries : k # e => d.queue[k] = b.queue[k]
  BY <1>0, <1>8, <1>a
<1>9. Live(d) = Live(b) /\ \A k : Holders(d, k) = Holders(b, k)
  BY <1>8 DEF Live, Holders
<1>10. Standing(d, NoTrans, NoEntry)
  <2>1. Locks(d, NoTrans)
    BY <1>6, <1>8, <1>9 DEF Standing, Locks, SameTrans
  <2>2. Upkeep(d, NoTrans, NoEntry)
    BY <1>5, <1>6, <1>8, <1>9, <1>b DEF Standing, Upkeep, SameTrans
  <2>3. PlacesOK(d, NoTrans)
    BY <1>6, <1>8 DEF Standing, PlacesOK, PlaceOK, SameTrans
  <2>4. Disk(d, NoTrans, NoEntry)
    BY <1>6, <1>8, <1>9 DEF Standing, Disk, Trusts, SameDisk, SameTrans
  <2> QED BY <2>1, <2>2, <2>3, <2>4 DEF Standing
<1>11. Operations(d)
  BY <1>3, <1>8 DEF Inv, Operations, SameOps
<1>c. /\ IsInjective(b.queue[e]) /\ ~Contains(b.queue[e], t)
      /\ b.queue[e] \in Seq(Trans)
  BY <1>0, <1>3, <1>a, Nowhere DEF Inv, Waiting, Once
<1>d. /\ \A y : Contains(d.queue[e], y) <=> Contains(b.queue[e], y) \/ y = t
      /\ IsInjective(d.queue[e])
      /\ Len(d.queue[e]) = Len(b.queue[e]) + 1
      /\ \A i \in 1..Len(b.queue[e]) : d.queue[e][i] = b.queue[e][i]
      /\ d.queue[e][Len(b.queue[e]) + 1] = t
  BY <1>b, <1>c, AppendMembers
<1>12. Registered(d, NoTrans)
  <2>1. Registered(b, NoTrans)
    BY <1>1, <1>3, ItemsLand DEF Inv, Waiting
  <2>2. /\ ItemOK(d, NoTrans, d.opWriter)
        /\ \A i \in 1..Len(d.opQueue) : ItemOK(d, NoTrans, d.opQueue[i])
        /\ \A i \in 1..Len(d.run.items) : ItemOK(d, NoTrans, d.run.items[i])
    BY <1>8, <2>1, ItemSame DEF Registered, SameOps, SameTrans
  <2>3. ASSUME NEW k \in Entries, NEW i \in 1..Len(d.queue[k])
        PROVE  d.queue[k][i] # NoTrans /\ d.pc[d.queue[k][i]] = "add" /\ d.entry[d.queue[k][i]] = k
    <3>1. CASE k # e
      BY <1>8, <1>b, <2>1, <3>1 DEF Registered, SameTrans
    <3>2. CASE k = e /\ i = Len(b.queue[e]) + 1
      BY <1>1, <1>8, <1>d, <3>2 DEF SameTrans
    <3>3. CASE k = e /\ i \in 1..Len(b.queue[e])
      BY <1>8, <1>d, <2>1, <3>3, <1>0 DEF Registered, SameTrans
    <3> QED BY <1>c, <1>d, <3>1, <3>2, <3>3
  <2> QED BY <1>8, <2>1, <2>2, <2>3 DEF Registered, SameBackend, SameTrans
<1>13. Once(d)
  <2>1. \A k \in Entries : IsInjective(d.queue[k])
    BY <1>3, <1>b, <1>d DEF Inv, Waiting, Once
  <2>2. \A u \in Trans : Names(d.run.items, u) => \A k \in Entries : ~Contains(d.queue[k], u)
    <3>1. ~Names(b.run.items, t)
      BY <1>3, Nowhere DEF Inv
    <3> QED BY <1>3, <1>8, <1>b, <1>d, <3>1 DEF Inv, Waiting, Once, SameOps
  <2> QED BY <1>3, <1>8, <2>1, <2>2 DEF Inv, Waiting, Once, SameOps, SameBackend
<1>14. ASSUME NEW u \in Others(NoTrans) PROVE WaitsSomewhere(d, u)
  <2>1. CASE u = t
    BY <1>1, <1>8, <1>d, <2>1 DEF WaitsSomewhere, SameTrans
  <2>2. CASE u # t
    <3>1. WaitsSomewhere(b, u) /\ u \in Trans
      BY <1>3, <2>2 DEF Inv, Waiting, Others
    <3>2. b.pc[u] = "add" => b.entry[u] \in Entries
      BY <1>1, <1>3, <2>2, <3>1, Fields DEF Inv, PlacesOK, PlaceOK, Others
    <3> QED BY <1>8, <1>b, <1>d, <3>1, <3>2 DEF WaitsSomewhere, SameTrans, SameOps, SameBackend
  <2> QED BY <2>1, <2>2
<1> QED BY <1>8, <1>10, <1>11, <1>12, <1>13, <1>14 DEF Inv, Standing, Waiting, d

\* What admission changes.
LEMMA AdmitResult ==
  ASSUME NEW c \in CacheState, NEW t \in Trans, NEW e \in Entries, ~Busy(c, e, t)
  PROVE  LET d == AddTransactionToEntry(c, e, t)
             p == IF c.mode[t] = "WRITE" THEN "send" ELSE "readInfo"
         IN  /\ d \in CacheState /\ SameDisk(c, d) /\ SameOps(c, d) /\ SameBackend(c, d)
             /\ d.active = c.active /\ d.doomed = c.doomed /\ d.queue = c.queue
             /\ OnlyTrans(c, d, t) /\ d.pc[t] = p /\ d.mode = c.mode /\ d.entry[t] = e
             /\ \A k \in Entries \ {e} : /\ d.writer[k] = c.writer[k] /\ d.readers[k] = c.readers[k]
                                         /\ d.will[k] = c.will[k]
             /\ IF Writes(c.mode[t])
                THEN d.writer[e] = t /\ d.readers[e] = c.readers[e] /\ ~d.will[e]
                ELSE d.writer[e] = c.writer[e] /\ d.readers[e] = c.readers[e] \cup {t}
<1> DEFINE d == AddTransactionToEntry(c, e, t)
           p == IF c.mode[t] = "WRITE" THEN "send" ELSE "readInfo"
           w == IF Writes(c.mode[t]) THEN [c.writer EXCEPT ![e] = t] ELSE c.writer
           r == IF Writes(c.mode[t]) THEN c.readers ELSE [c.readers EXCEPT ![e] = @ \cup {t}]
           v == IF w[e] = NoTrans /\ c.queue[e] # <<>> THEN [c.will EXCEPT ![e] = TRUE] ELSE c.will
           n == [c.entry EXCEPT ![t] = e]
           g == [c.pc EXCEPT ![t] = p]
<1>1. /\ w \in [Entries -> Trans \cup {NoTrans}] /\ r \in [Entries -> SUBSET Trans]
      /\ v \in [Entries -> BOOLEAN] /\ n \in [Trans -> Entries \cup {NoEntry}]
      /\ g \in [Trans -> Places]
  BY Fields, ZenonT(60) DEF Places
<1>2. /\ \A k \in Entries \ {e} : w[k] = c.writer[k] /\ r[k] = c.readers[k] /\ v[k] = c.will[k]
      /\ \A u \in Others(t) : g[u] = c.pc[u] /\ n[u] = c.entry[u]
      /\ g[t] = p /\ n[t] = e
  BY Fields DEF Others
<1>3. IF Writes(c.mode[t]) THEN w[e] = t /\ r[e] = c.readers[e] /\ ~v[e]
                          ELSE w[e] = c.writer[e] /\ r[e] = c.readers[e] \cup {t}
  BY Fields DEF Busy
<1>4. d = [c EXCEPT !.writer = w, !.readers = r, !.will = v, !.entry = n, !.pc = g]
  <2>1. CASE Writes(c.mode[t])
    <3> DEFINE a == [c EXCEPT !.writer[e] = t]
    <3>1. a.writer[e] = t /\ t # NoTrans /\ a.mode = c.mode
      BY DEF CacheState
    <3>2. d = DoAddToEntryComplete(a, e, t)
      BY <2>1, <3>1 DEF AddTransactionToEntry, Busy
    <3>3. w = [c.writer EXCEPT ![e] = t] /\ r = c.readers
      BY <2>1
    <3>4. w[e] = t
      BY <3>3, Fields
    <3>5. v = c.will
      BY <3>1, <3>4
    <3> HIDE DEF w, r, v
    <3>6. d = [c EXCEPT !.writer = w, !.entry = n, !.pc = g]
      BY <3>2, <3>3 DEF DoAddToEntryComplete, CacheState
    <3> QED BY <3>3, <3>5, <3>6, ZenonT(60) DEF CacheState
  <2>2. CASE ~Writes(c.mode[t]) /\ c.queue[e] # <<>>
    BY <2>2, Fields, ZenonT(60) DEF AddTransactionToEntry, Busy, ProcessPendingQueue, DoAddToEntryComplete, CacheState
  <2>3. CASE ~Writes(c.mode[t]) /\ c.queue[e] = <<>>
    BY <2>3, Fields, ZenonT(60) DEF AddTransactionToEntry, Busy, ProcessPendingQueue, DoAddToEntryComplete, CacheState
  <2> QED BY <2>1, <2>2, <2>3
<1> HIDE DEF d, w, r, v, n, g, p
<1>5. /\ d.writer = w /\ d.readers = r /\ d.will = v /\ d.entry = n /\ d.pc = g /\ d.mode = c.mode
      /\ d \in CacheState /\ SameDisk(c, d) /\ SameOps(c, d) /\ SameBackend(c, d)
      /\ d.active = c.active /\ d.doomed = c.doomed /\ d.queue = c.queue
  BY <1>1, <1>4, ZenonT(60) DEF CacheState, SameDisk, SameOps, SameBackend
<1>6. OnlyTrans(c, d, t)
  BY <1>2, <1>5 DEF OnlyTrans
<1> QED BY <1>2, <1>3, <1>5, <1>6 DEF d, p

\* A transaction that does not wait any more has nothing to be registered for.
LEMMA WaitingEnds ==
  ASSUME NEW t, NEW c \in CacheState, Waiting(c, t), c.pc[t] \notin CachePending
  PROVE  Waiting(c, NoTrans)
<1>1. Registered(c, NoTrans)
  BY ItemsLand DEF Waiting
<1>2. WaitsSomewhere(c, t)
  BY DEF WaitsSomewhere, CachePending
<1>3. \A u \in Others(NoTrans) : u = t \/ u \in Others(t)
  BY DEF Others
<1> QED BY <1>1, <1>2, <1>3 DEF Waiting

\* A transaction gets the lock, alone to write or with others to read.
LEMMA GetsLock ==
  ASSUME NEW t \in Trans, NEW f, NEW c, Inv(c, t, f), NEW e \in Live(c), f \in {NoEntry, e},
         NEW d \in CacheState, SameDisk(c, d), SameOps(c, d), SameBackend(c, d),
         d.active = c.active, d.doomed = c.doomed, d.queue = c.queue, OnlyTrans(c, d, t),
         d.entry[t] = e, d.pc[t] \notin CachePending, PlaceOK(d, t),
         Trusts(d, t) => c.content[e] \in PassesForWhole,
         c.content[e] \in Settled \/ d.mode[t] = "WRITE",
         c.writer[e] = NoTrans,
         \A k \in Entries \ {e} : /\ d.writer[k] = c.writer[k] /\ d.readers[k] = c.readers[k]
                                  /\ d.will[k] = c.will[k],
         IF Writes(d.mode[t])
         THEN d.writer[e] = t /\ d.readers[e] = {} /\ c.readers[e] = {} /\ ~d.will[e]
         ELSE d.writer[e] = NoTrans /\ d.readers[e] = c.readers[e] \cup {t} /\ d.mode[t] = "READ"
  PROVE  Inv(d, NoTrans, NoEntry)
<1>0. c \in CacheState /\ e \in Entries /\ t # NoTrans /\ e # NoEntry
  <2>1. c \in CacheState
    BY DEF Inv
  <2> QED BY <2>1, Fields DEF Live
<1>3. /\ \A k \in Entries \ {e} : Holders(d, k) = Holders(c, k)
      /\ Holders(d, e) = Holders(c, e) \cup {t}
  BY <1>0 DEF Holders
<1>4. Live(d) = Live(c) /\ Live(c) \subseteq Entries
  BY <1>0, Fields DEF Live
<1>a. \A u \in Others(NoTrans) : u = t \/ u \in Others(t)
  BY DEF Others
<1>b. \A k \in Entries : t \notin Holders(c, k)
  BY DEF Inv, Locks
<1>c. \A k \in Entries : /\ c.writer[k] # NoTrans => c.writer[k] \in Others(t)
                         /\ \A u \in c.readers[k] : u \in Others(t)
  BY <1>0, <1>b, Fields, HoldersAre DEF Others
<1>d. \A k \in Entries : \A u \in c.readers[k] : c.mode[u] = "READ"
  BY DEF Inv, Locks
<1>6. Locks(d, NoTrans)
  <2> SUFFICES ASSUME NEW k \in Entries
               PROVE  /\ d.writer[k] # NoTrans =>
                           d.readers[k] = {} /\ ~d.will[k] /\ Writes(d.mode[d.writer[k]])
                      /\ \A u \in d.readers[k] : d.mode[u] = "READ"
                      /\ NoTrans \notin Holders(d, k)
                      /\ \A u \in Others(NoTrans) :
                           u \in Holders(d, k) <=> d.entry[u] = k /\ d.pc[u] \notin CachePending
    BY DEF Locks
  <2>1. NoTrans \notin Holders(d, k)
    <3>1. d.readers[k] \in SUBSET Trans
      BY ONLY k \in Entries, d \in CacheState, Fields
    <3> QED BY <3>1 DEF Holders
  <2>2. /\ d.writer[k] # NoTrans => d.readers[k] = {} /\ ~d.will[k] /\ Writes(d.mode[d.writer[k]])
        /\ \A u \in d.readers[k] : d.mode[u] = "READ"
    <3>1. CASE k # e
      <4>1. d.writer[k] = c.writer[k] /\ d.readers[k] = c.readers[k] /\ d.will[k] = c.will[k]
        BY <3>1
      <4>2. \A u \in c.readers[k] : u \in Others(t)
        BY <1>c
      <4>0. \A u \in c.readers[k] : c.mode[u] = "READ"
        BY <1>d
      <4>3. c.writer[k] # NoTrans =>
              /\ c.readers[k] = {} /\ ~c.will[k] /\ Writes(c.mode[c.writer[k]])
              /\ c.writer[k] \in Others(t)
        BY <1>c DEF Inv, Locks
      <4> QED BY <4>1, <4>0, <4>2, <4>3 DEF OnlyTrans
    <3>2. CASE k = e
      <4>1. \A u \in c.readers[e] : u \in Others(t)
        BY <1>0, <1>c
      <4>0. \A u \in c.readers[e] : c.mode[u] = "READ"
        BY <1>0, <1>d
      <4>2. \A u \in c.readers[e] : d.mode[u] = "READ"
        BY <4>0, <4>1 DEF OnlyTrans
      <4> QED BY <1>0, <3>2, <4>2
    <3> QED BY <3>1, <3>2
  <2>3. t \in Holders(d, k) <=> d.entry[t] = k /\ d.pc[t] \notin CachePending
    BY <1>3, <1>b
  <2>4. ASSUME NEW u \in Others(t)
        PROVE  u \in Holders(d, k) <=> d.entry[u] = k /\ d.pc[u] \notin CachePending
    <3>1. u \in Holders(d, k) <=> u \in Holders(c, k)
      BY <1>3 DEF Others
    <3> QED BY <3>1 DEF Inv, Locks, OnlyTrans
  <2> QED BY <1>a, <2>1, <2>2, <2>3, <2>4
<1>7. Upkeep(d, NoTrans, NoEntry)
  <2>1. ASSUME NEW k \in Entries \ Live(d)
        PROVE  /\ ~d.will[k] /\ d.queue[k] = <<>>
               /\ \A u \in Others(NoTrans) : d.entry[u] = k => d.pc[u] = "add"
    <3>1. k # e /\ k \in Entries \ Live(c)
      BY <1>4
    <3>2. ~d.will[k] /\ d.queue[k] = <<>> /\ d.entry[t] # k
      BY <3>1 DEF Inv, Upkeep
    <3>3. \A u \in Others(t) : c.entry[u] = k => c.pc[u] = "add"
      BY <3>1 DEF Inv, Upkeep
    <3>4. \A u \in Others(t) : d.entry[u] = k => d.pc[u] = "add"
      BY <3>3 DEF OnlyTrans
    <3> QED BY <1>a, <3>2, <3>4
  <2>2. ASSUME NEW k \in Live(d) PROVE Holders(d, k) # {} \/ d.will[k]
    <3>1. CASE k = e
      BY <1>3, <3>1
    <3>2. CASE k # e
      <4>1. k \in Live(c) \ {f} /\ k \in Entries \ {e}
        BY <1>0, <1>4, <3>2
      <4> QED BY <1>3, <4>1 DEF Inv, Upkeep
    <3> QED BY <3>1, <3>2
  <2>3. d.active \notin d.doomed
    BY DEF Inv, Upkeep
  <2> QED BY <2>1, <2>2, <2>3 DEF Upkeep
<1>8. PlacesOK(d, NoTrans)
  <2>1. \A u \in Others(t) : PlaceOK(d, u)
    BY DEF Inv, PlacesOK, PlaceOK, OnlyTrans
  <2> QED BY <1>a, <2>1 DEF PlacesOK
<1>9. Disk(d, NoTrans, NoEntry)
  <2>1. ASSUME NEW k \in Live(d)
        PROVE  d.content[k] \in Settled \/ (d.writer[k] # NoTrans /\ d.mode[d.writer[k]] = "WRITE")
    <3>1. CASE k = e
      <4>1. d.mode[t] = "WRITE" => d.writer[e] = t
        BY DEF Writes
      <4> QED BY <1>0, <3>1, <4>1 DEF SameDisk
    <3>2. CASE k # e
      <4>1. k \in Live(c) \ {f} /\ k \in Entries \ {e}
        BY <1>0, <1>4, <3>2
      <4>2. c.content[k] \in Settled \/ (c.writer[k] # NoTrans /\ c.mode[c.writer[k]] = "WRITE")
        BY <4>1 DEF Inv, Disk
      <4>3. d.writer[k] = c.writer[k] /\ (c.writer[k] # NoTrans => c.writer[k] \in Others(t))
        BY <1>c, <4>1
      <4> QED BY <4>2, <4>3 DEF SameDisk, OnlyTrans
    <3> QED BY <3>1, <3>2
  <2>2. Trusts(d, t) => d.content[d.entry[t]] \in PassesForWhole
    BY DEF SameDisk
  <2>3. \A u \in Others(t) : d.entry[u] # NoEntry /\ Trusts(d, u) => d.content[d.entry[u]] \in PassesForWhole
    BY DEF Inv, Disk, Trusts, SameDisk, OnlyTrans
  <2>4. d.stored \in Settled \cup {"nothing"}
    BY DEF Inv, Disk, SameDisk
  <2> QED BY <1>a, <2>1, <2>2, <2>3, <2>4 DEF Disk
<1>10. Operations(d)
  BY DEF Inv, Operations, SameOps
<1>11. Waiting(d, NoTrans)
  <2>1. Waiting(d, t)
    BY <1>0, WaitingFrame DEF Inv
  <2> QED BY <2>1, WaitingEnds
<1> QED BY <1>6, <1>7, <1>8, <1>9, <1>10, <1>11 DEF Inv

\* A transaction is admitted.
LEMMA Admits ==
  ASSUME NEW t \in Trans, NEW f, NEW c, Inv(c, t, f), NEW e \in Live(c), f \in {NoEntry, e},
         c.mode[t] # "NONE", ~Busy(c, e, t), c.content[e] \in Settled \/ c.mode[t] = "WRITE"
  PROVE  Inv(AddTransactionToEntry(c, e, t), NoTrans, NoEntry)
<1> DEFINE d == AddTransactionToEntry(c, e, t)
           p == IF c.mode[t] = "WRITE" THEN "send" ELSE "readInfo"
<1>0. /\ c \in CacheState /\ e \in Entries /\ t # NoTrans /\ e # NoEntry
      /\ c.mode[t] \in {"READ", "WRITE", "READ_WRITE", "UPDATE"}
  <2>1. c \in CacheState
    BY DEF Inv
  <2>2. e \in Entries
    BY <2>1, Fields DEF Live
  <2>3. c.mode[t] \in Modes
    BY <2>1, Fields
  <2> QED BY <2>1, <2>2, <2>3 DEF Modes
<1>1. /\ d \in CacheState /\ SameDisk(c, d) /\ SameOps(c, d) /\ SameBackend(c, d)
      /\ d.active = c.active /\ d.doomed = c.doomed /\ d.queue = c.queue
      /\ OnlyTrans(c, d, t) /\ d.pc[t] = p /\ d.mode = c.mode /\ d.entry[t] = e
      /\ \A k \in Entries \ {e} : /\ d.writer[k] = c.writer[k] /\ d.readers[k] = c.readers[k]
                                  /\ d.will[k] = c.will[k]
      /\ IF Writes(c.mode[t])
         THEN d.writer[e] = t /\ d.readers[e] = c.readers[e] /\ ~d.will[e]
         ELSE d.writer[e] = c.writer[e] /\ d.readers[e] = c.readers[e] \cup {t}
  BY <1>0, AdmitResult
<1> HIDE DEF d
<1>2. /\ c.writer[e] = NoTrans /\ (Writes(c.mode[t]) => c.readers[e] = {})
      /\ (~Writes(c.mode[t]) => c.mode[t] = "READ")
  BY <1>0 DEF Busy, Writes
<1>3. d.pc[t] \notin CachePending /\ PlaceOK(d, t) /\ ~Trusts(d, t)
  BY <1>0, <1>1 DEF CachePending, PlaceOK, Trusts
<1> QED BY <1>1, <1>2, <1>3, GetsLock DEF d

\* A transaction asks for the lock: only one that must not overwrite a doomed entry waits.
LEMMA Asks ==
  ASSUME NEW t \in Trans, NEW f, NEW c, Inv(c, t, f), NEW e \in Live(c), f \in {NoEntry, e},
         c.mode[t] # "NONE",
         f = e \/ c.mode[t] = "WRITE" => ~Busy(c, e, t),
         f = e => c.content[e] \in Settled \/ c.mode[t] = "WRITE"
  PROVE  Inv(AddTransactionToEntry(c, e, t), NoTrans, NoEntry)
<1>0. c \in CacheState /\ e \in Entries /\ c.mode[t] \in Modes
  BY Fields DEF Inv, Live
<1>1. CASE Busy(c, e, t)
  <2>1. AddTransactionToEntry(c, e, t) = Joins(c, e, t)
    BY <1>1 DEF AddTransactionToEntry, Busy, Joins
  <2>2. f = NoEntry /\ c.mode[t] \in {"READ", "READ_WRITE", "UPDATE"}
    BY <1>0, <1>1 DEF Modes
  <2> QED BY <2>1, <2>2, JoinsQueue
<1>2. CASE ~Busy(c, e, t)
  <2>1. c.content[e] \in Settled \/ c.mode[t] = "WRITE"
    <3>1. CASE f = e
      BY <3>1
    <3>2. CASE f # e
      BY <1>2, <3>2 DEF Inv, Disk, Busy
    <3> QED BY <3>1, <3>2
  <2> QED BY <1>2, <2>1, Admits
<1> QED BY <1>1, <1>2

(***************************************************************************)
(* Leaving an entry.                                                       *)
(***************************************************************************)
\* Who holds an entry, and as what.
LEMMA HolderOf ==
  ASSUME NEW c, NEW f, Inv(c, NoTrans, f), NEW t \in Trans, NEW e \in Entries, t \in Holders(c, e)
  PROVE  /\ e \in Live(c) /\ c.entry[t] = e /\ c.pc[t] \notin CachePending
         /\ \A k \in Entries : t \in Holders(c, k) => k = e
         /\ \/ c.writer[e] = t /\ c.readers[e] = {} /\ ~c.will[e] /\ Writes(c.mode[t])
            \/ c.writer[e] = NoTrans /\ t \in c.readers[e] /\ c.mode[t] = "READ"
<1>0. c \in CacheState /\ t \in Others(NoTrans)
  BY DEF Inv, Others
<1>1. c.entry[t] = e /\ c.pc[t] \notin CachePending
  BY <1>0 DEF Inv, Locks
<1>2. e \in Live(c)
  BY <1>0, <1>1 DEF Inv, Upkeep, CachePending
<1>3. \A k \in Entries : t \in Holders(c, k) => k = e
  BY <1>0, <1>1 DEF Inv, Locks
<1>4. t \in c.readers[e] \/ c.writer[e] = t
  BY <1>0, HoldersAre
<1>5. \/ c.writer[e] = t /\ c.readers[e] = {} /\ ~c.will[e] /\ Writes(c.mode[t])
      \/ c.writer[e] = NoTrans /\ t \in c.readers[e] /\ c.mode[t] = "READ"
  BY <1>4 DEF Inv, Locks
<1> QED BY <1>1, <1>2, <1>3, <1>5

\* A transaction with an entry_ that does not wait for it holds it.
LEMMA HoldsIt ==
  ASSUME NEW c, NEW f, Inv(c, NoTrans, f), NEW t \in Trans,
         c.entry[t] # NoEntry, c.pc[t] \notin CachePending
  PROVE  c.entry[t] \in Entries /\ t \in Holders(c, c.entry[t])
<1>1. c \in CacheState /\ t \in Others(NoTrans)
  BY DEF Inv, Others
<1>2. c.entry[t] \in Entries
  BY <1>1, Fields
<1> QED BY <1>1, <1>2 DEF Inv, Locks

\* One transaction leaves the lock: what remains true of the lock.
LEMMA LeavesLock ==
  ASSUME NEW c, NEW f, Inv(c, NoTrans, f), NEW t \in Trans, NEW e \in Entries, t \in Holders(c, e),
         NEW d \in CacheState, OnlyTrans(c, d, t),
         \A k \in Entries \ {e} : /\ d.writer[k] = c.writer[k] /\ d.readers[k] = c.readers[k]
                                  /\ d.will[k] = c.will[k],
         d.writer[e] = NoTrans, d.readers[e] = c.readers[e] \ {t}
  PROVE  /\ Locks(d, t)
         /\ \A k \in Entries \ {e} : Holders(d, k) = Holders(c, k)
<1>0. c \in CacheState /\ t # NoTrans
  BY DEF Inv
<1>1. /\ \A k \in Entries : t \in Holders(c, k) => k = e
      /\ \/ c.writer[e] = t /\ c.readers[e] = {}
         \/ c.writer[e] = NoTrans
  BY HolderOf
<1>2. /\ \A k \in Entries \ {e} : Holders(d, k) = Holders(c, k)
      /\ Holders(d, e) = Holders(c, e) \ {t}
  BY <1>1 DEF Holders
<1>3. \A k \in Entries : t \notin Holders(d, k)
  BY <1>1, <1>2
<1>4. Locks(d, t)
  <2> SUFFICES ASSUME NEW k \in Entries
               PROVE  /\ d.writer[k] # NoTrans =>
                           d.readers[k] = {} /\ ~d.will[k] /\ Writes(d.mode[d.writer[k]])
                      /\ \A u \in d.readers[k] : d.mode[u] = "READ"
                      /\ t \notin Holders(d, k)
                      /\ \A u \in Others(t) :
                           u \in Holders(d, k) <=> d.entry[u] = k /\ d.pc[u] \notin CachePending
    BY DEF Locks
  <2>1. d.writer[k] # NoTrans => d.readers[k] = {} /\ ~d.will[k] /\ Writes(d.mode[d.writer[k]])
    <3> SUFFICES ASSUME d.writer[k] # NoTrans PROVE d.readers[k] = {} /\ ~d.will[k] /\ Writes(d.mode[d.writer[k]])
      OBVIOUS
    <3>1. k # e /\ k \in Entries \ {e}
      OBVIOUS
    <3>2. c.readers[k] = {} /\ ~c.will[k] /\ Writes(c.mode[c.writer[k]]) /\ c.writer[k] # NoTrans
      BY <3>1 DEF Inv, Locks
    <3>3. c.writer[k] \in Trans
      BY <1>0, <3>2, Fields
    <3>4. c.writer[k] # t
      BY <1>0, <1>1, <3>1, <3>3, HoldersAre
    <3> QED BY <3>1, <3>2, <3>3, <3>4 DEF OnlyTrans, Others
  <2>2. \A u \in d.readers[k] : d.mode[u] = "READ"
    <3> SUFFICES ASSUME NEW u \in d.readers[k] PROVE d.mode[u] = "READ"
      OBVIOUS
    <3>1. u \in c.readers[k]
      OBVIOUS
    <3>2. u \in Trans /\ c.mode[u] = "READ"
      BY <1>0, <3>1, Fields DEF Inv, Locks
    <3>3. u # t
      BY <1>3 DEF Holders
    <3> QED BY <3>2, <3>3 DEF OnlyTrans, Others
  <2>3. ASSUME NEW u \in Others(t)
        PROVE  u \in Holders(d, k) <=> d.entry[u] = k /\ d.pc[u] \notin CachePending
    <3>1. u \in Holders(d, k) <=> u \in Holders(c, k)
      BY <1>2 DEF Others
    <3>2. u \in Others(NoTrans)
      BY DEF Others
    <3>3. u \in Holders(c, k) <=> c.entry[u] = k /\ c.pc[u] \notin CachePending
      BY <3>2 DEF Inv, Locks
    <3>4. d.entry[u] = c.entry[u] /\ d.pc[u] = c.pc[u]
      BY DEF OnlyTrans
    <3> QED BY ONLY <3>1, <3>3, <3>4
  <2> QED BY <1>3, <2>1, <2>2, <2>3
<1> QED BY <1>2, <1>4

\* A transaction that holds an entry is taken off its lock.  |w| tells whether a wake-up
\* is posted then, and |x| is what the transaction leaves on disk, if it was the writer.
Leaves(c, t, e, w, x) ==
  [c EXCEPT !.writer[e] = NoTrans, !.readers[e] = @ \ {t}, !.will[e] = w, !.content[e] = x]

LEMMA LeavesResult ==
  ASSUME NEW c \in CacheState, NEW t \in Trans, NEW e \in Entries, NEW w \in BOOLEAN, NEW x \in Contents
  PROVE  LET d == Leaves(c, t, e, w, x)
         IN  /\ d \in CacheState /\ SameTrans(c, d) /\ SameOps(c, d) /\ SameBackend(c, d)
             /\ d.active = c.active /\ d.doomed = c.doomed /\ d.queue = c.queue /\ d.stored = c.stored
             /\ \A k \in Entries \ {e} : /\ d.writer[k] = c.writer[k] /\ d.readers[k] = c.readers[k]
                                         /\ d.will[k] = c.will[k] /\ d.content[k] = c.content[k]
             /\ d.writer[e] = NoTrans /\ d.readers[e] = c.readers[e] \ {t}
             /\ d.will[e] = w /\ d.content[e] = x
<1> DEFINE d == Leaves(c, t, e, w, x)
<1>1. /\ d \in CacheState /\ SameTrans(c, d) /\ SameOps(c, d) /\ SameBackend(c, d)
      /\ d.active = c.active /\ d.doomed = c.doomed /\ d.queue = c.queue /\ d.stored = c.stored
  BY ZenonT(60) DEF Leaves, CacheState, SameTrans, SameOps, SameBackend
<1>2. /\ \A k \in Entries \ {e} : /\ d.writer[k] = c.writer[k] /\ d.readers[k] = c.readers[k]
                                  /\ d.will[k] = c.will[k] /\ d.content[k] = c.content[k]
      /\ d.writer[e] = NoTrans /\ d.readers[e] = c.readers[e] \ {t}
      /\ d.will[e] = w /\ d.content[e] = x
  BY DEF Leaves, CacheState
<1> QED BY <1>1, <1>2

\* The entry is left for those who wait, or in the hands of the handler.
LEMMA LeavesKeeps ==
  ASSUME NEW c, Inv(c, NoTrans, NoEntry), NEW t \in Trans, NEW e \in Entries, t \in Holders(c, e),
         NEW d \in CacheState, SameTrans(c, d), SameOps(c, d), SameBackend(c, d),
         d.active = c.active, d.doomed = c.doomed, d.queue = c.queue, d.stored = c.stored,
         \A k \in Entries \ {e} : /\ d.writer[k] = c.writer[k] /\ d.readers[k] = c.readers[k]
                                  /\ d.will[k] = c.will[k] /\ d.content[k] = c.content[k],
         d.writer[e] = NoTrans, d.readers[e] = c.readers[e] \ {t},
         c.writer[e] = t \/ d.content[e] = c.content[e],
         NEW f \in {NoEntry, e}, f = NoEntry => d.will[e] /\ d.content[e] \in Settled
  PROVE  Inv(d, t, f)
<1>0. c \in CacheState /\ t # NoTrans
  BY DEF Inv
<1>1. /\ d \in CacheState /\ SameTrans(c, d) /\ SameOps(c, d) /\ SameBackend(c, d)
      /\ d.active = c.active /\ d.doomed = c.doomed /\ d.queue = c.queue /\ d.stored = c.stored
  OBVIOUS
<1>2. /\ \A k \in Entries \ {e} : /\ d.writer[k] = c.writer[k] /\ d.readers[k] = c.readers[k]
                                  /\ d.will[k] = c.will[k] /\ d.content[k] = c.content[k]
      /\ d.writer[e] = NoTrans /\ d.readers[e] = c.readers[e] \ {t}
      /\ f = NoEntry => d.will[e] /\ d.content[e] \in Settled
      /\ c.writer[e] = t \/ d.content[e] = c.content[e]
  OBVIOUS
<1>3. OnlyTrans(c, d, t)
  BY <1>1 DEF OnlyTrans, SameTrans
<1>4. /\ e \in Live(c) /\ c.entry[t] = e
      /\ \/ c.writer[e] = t /\ c.readers[e] = {}
         \/ c.writer[e] = NoTrans
  BY HolderOf
<1>5. Locks(d, t) /\ \A k \in Entries \ {e} : Holders(d, k) = Holders(c, k)
  BY <1>1, <1>2, <1>3, LeavesLock
<1>6. Live(d) = Live(c) /\ Live(c) \subseteq Entries
  BY <1>0, <1>1, Fields DEF Live
<1>a. \A u \in Others(t) : u \in Others(NoTrans)
  BY DEF Others
<1>7. Upkeep(d, t, f)
  <2>1. ASSUME NEW k \in Entries \ Live(d)
        PROVE  /\ ~d.will[k] /\ d.queue[k] = <<>>
               /\ \A u \in Others(t) : d.entry[u] = k => d.pc[u] = "add"
    <3>1. k \in Entries \ Live(c) /\ k \in Entries \ {e}
      BY <1>4, <1>6
    <3>2. ~c.will[k] /\ c.queue[k] = <<>> /\ \A u \in Others(NoTrans) : c.entry[u] = k => c.pc[u] = "add"
      BY <3>1, ZenonT(60) DEF Inv, Upkeep
    <3> QED BY <1>1, <1>2, <1>a, <3>1, <3>2 DEF SameTrans
  <2>2. ASSUME NEW k \in Live(d) \ {f} PROVE Holders(d, k) # {} \/ d.will[k]
    <3>1. CASE k = e
      BY <1>2, <3>1
    <3>2. CASE k # e
      <4>1. k \in Live(c) \ {NoEntry} /\ k \in Entries \ {e}
        BY <1>6, <3>2
      <4> QED BY <1>2, <1>5, <4>1 DEF Inv, Upkeep
    <3> QED BY <3>1, <3>2
  <2>3. d.active \notin d.doomed
    BY <1>1 DEF Inv, Upkeep
  <2> QED BY <2>1, <2>2, <2>3 DEF Upkeep
<1>8. PlacesOK(d, t)
  BY <1>1, <1>a DEF Inv, PlacesOK, PlaceOK, SameTrans
<1>9. Disk(d, t, f)
  <2>1. ASSUME NEW k \in Live(d) \ {f}
        PROVE  d.content[k] \in Settled \/ (d.writer[k] # NoTrans /\ d.mode[d.writer[k]] = "WRITE")
    <3>1. CASE k = e
      BY <1>2, <3>1
    <3>2. CASE k # e
      <4>1. k \in Live(c) \ {NoEntry} /\ k \in Entries \ {e}
        BY <1>6, <3>2
      <4>2. c.content[k] \in Settled \/ (c.writer[k] # NoTrans /\ c.mode[c.writer[k]] = "WRITE")
        BY <4>1 DEF Inv, Disk
      <4> QED BY <1>1, <1>2, <4>1, <4>2 DEF SameTrans
    <3> QED BY <3>1, <3>2
  <2>2. ASSUME NEW u \in Others(t), d.entry[u] # NoEntry, Trusts(d, u)
        PROVE  d.content[d.entry[u]] \in PassesForWhole
    <3>1. /\ c.entry[u] # NoEntry /\ c.entry[u] = d.entry[u] /\ c.content[c.entry[u]] \in PassesForWhole
          /\ c.pc[u] \notin CachePending /\ u \in Trans /\ u # t
      BY <1>1, <1>a, <2>2 DEF Inv, Disk, Trusts, SameTrans, CachePending, Others
    <3>2. CASE c.entry[u] # e
      <4>1. c.entry[u] \in Entries \ {e}
        BY <1>0, <3>1, <3>2, Fields
      <4> QED BY <1>2, <3>1, <4>1
    <3>3. CASE c.entry[u] = e
      <4>1. u \in Holders(c, e)
        BY <3>1, <3>3, HoldsIt
      <4>2. c.writer[e] # t
        BY <1>0, <1>4, <3>1, <4>1, HoldersAre
      <4> QED BY <1>2, <3>1, <3>3, <4>2
    <3> QED BY <3>2, <3>3
  <2>3. d.stored \in Settled \cup {"nothing"}
    BY <1>1 DEF Inv, Disk
  <2> QED BY <2>1, <2>2, <2>3 DEF Disk
<1>10. Operations(d)
  BY <1>1 DEF Inv, Operations, SameOps
<1>11. Waiting(d, t)
  <2>1. c.pc[t] \notin CachePending
    BY HolderOf
  <2>2. Waiting(c, t)
    <3>1. Registered(c, t)
      BY <1>0, <2>1, StaysOut DEF Inv, Waiting
    <3> QED BY <1>a, <3>1 DEF Inv, Waiting
  <2> QED BY <1>0, <1>1, <1>3, <2>2, WaitingFrame
<1> QED BY <1>1, <1>2, <1>5, <1>7, <1>8, <1>9, <1>10, <1>11 DEF Inv

\* A holder goes on with the lock that it has; a writer may have written.
LEMMA HolderStays ==
  ASSUME NEW c, Inv(c, NoTrans, NoEntry), NEW t \in Trans, NEW e \in Entries, t \in Holders(c, e),
         NEW d \in CacheState, SameLocks(c, d), SameOps(c, d), SameBackend(c, d), OnlyTrans(c, d, t),
         d.stored = c.stored, d.entry[t] = e, d.pc[t] \notin CachePending, PlaceOK(d, t),
         \A k \in Entries \ {e} : d.content[k] = c.content[k],
         c.writer[e] = t \/ d.content[e] = c.content[e],
         c.writer[e] = t => Writes(d.mode[t]),
         c.writer[e] # t => d.mode[t] = "READ",
         Trusts(d, t) => d.content[e] \in PassesForWhole,
         d.content[e] \in Settled \/ d.mode[t] = "WRITE"
  PROVE  Inv(d, NoTrans, NoEntry)
<1> DEFINE w == c.will[e]
           x == d.content[e]
<1>0. c \in CacheState /\ w \in BOOLEAN /\ x \in Contents /\ e # NoEntry
  <2>1. c \in CacheState
    BY DEF Inv
  <2> QED BY <2>1, Fields, ZenonT(60)
<1>x. w = c.will[e] /\ x = d.content[e]
  OBVIOUS
<1> HIDE DEF w, x
<1>b. PICK b : b = Leaves(c, t, e, w, x)
  OBVIOUS
<1>1. /\ b \in CacheState /\ SameTrans(c, b) /\ SameOps(c, b) /\ SameBackend(c, b)
      /\ b.active = c.active /\ b.doomed = c.doomed /\ b.queue = c.queue /\ b.stored = c.stored
      /\ \A k \in Entries \ {e} : /\ b.writer[k] = c.writer[k] /\ b.readers[k] = c.readers[k]
                                  /\ b.will[k] = c.will[k] /\ b.content[k] = c.content[k]
      /\ b.writer[e] = NoTrans /\ b.readers[e] = c.readers[e] \ {t}
      /\ b.will[e] = w /\ b.content[e] = x
  BY ONLY t \in Trans, e \in Entries, <1>0, <1>b, LeavesResult
<1>2. b \in CacheState /\ Inv(b, t, e)
  <2>1. e \in {NoEntry, e} /\ (c.writer[e] = t \/ b.content[e] = c.content[e])
    BY <1>1, <1>x
  <2> QED BY <1>0, <1>1, <2>1, LeavesKeeps
<1>3. d.content = b.content
  <2>1. d.content \in [Entries -> Contents] /\ b.content \in [Entries -> Contents]
    BY <1>2, Fields
  <2>2. \A k \in Entries : d.content[k] = b.content[k]
    BY <1>1, <1>x
  <2>3. /\ d.content = [k \in Entries |-> d.content[k]]
        /\ b.content = [k \in Entries |-> b.content[k]]
    BY <2>1
  <2> QED BY ONLY <2>2, <2>3
<1>4. e \in Live(b)
  <2>1. e \in Live(c)
    BY HolderOf
  <2> QED BY <1>1, <2>1 DEF Live
<1>5. \/ c.writer[e] = t /\ c.readers[e] = {} /\ ~c.will[e]
      \/ c.writer[e] = NoTrans /\ t \in c.readers[e]
  BY HolderOf
<1>6. SameDisk(b, d) /\ SameOps(b, d) /\ SameBackend(b, d) /\ OnlyTrans(b, d, t)
  BY <1>1, <1>3 DEF SameDisk, SameOps, SameBackend, OnlyTrans, SameTrans
<1>7. IF Writes(d.mode[t])
      THEN d.writer[e] = t /\ d.readers[e] = {} /\ b.readers[e] = {} /\ ~d.will[e]
      ELSE d.writer[e] = NoTrans /\ d.readers[e] = b.readers[e] \cup {t} /\ d.mode[t] = "READ"
  <2>1. t # NoTrans /\ (d.mode[t] = "READ" => ~Writes(d.mode[t]))
    BY DEF Writes
  <2>2. d.writer[e] = c.writer[e] /\ d.readers[e] = c.readers[e] /\ d.will[e] = c.will[e]
    BY DEF SameLocks
  <2>3. CASE c.writer[e] = t
    BY <1>1, <1>5, <2>1, <2>2, <2>3
  <2>4. CASE c.writer[e] # t
    <3>1. c.writer[e] = NoTrans /\ t \in c.readers[e]
      BY <1>5, <2>4
    <3> QED BY <1>1, <2>1, <2>2, <2>4, <3>1
  <2> QED BY <2>3, <2>4
<1>8. /\ d.active = b.active /\ d.doomed = b.doomed /\ d.queue = b.queue
      /\ \A k \in Entries \ {e} : /\ d.writer[k] = b.writer[k] /\ d.readers[k] = b.readers[k]
                                  /\ d.will[k] = b.will[k]
  BY <1>1 DEF SameLocks
<1>9. /\ Trusts(d, t) => b.content[e] \in PassesForWhole
      /\ b.content[e] \in Settled \/ d.mode[t] = "WRITE"
  BY <1>1, <1>x
<1>10. /\ d.entry[t] = e /\ d.pc[t] \notin CachePending /\ PlaceOK(d, t) /\ e \in {NoEntry, e}
       /\ b.writer[e] = NoTrans
  BY <1>1
<1> QED BY ONLY t \in Trans, d \in CacheState, <1>2, <1>4, <1>6, <1>7, <1>8, <1>9, <1>10, GetsLock

\* A writer becomes a reader of what it has, and those who wait are woken.
LEMMA TurnsReader ==
  ASSUME NEW c, Inv(c, NoTrans, NoEntry), NEW t \in Trans, NEW e \in Entries, t \in Holders(c, e),
         c.content[e] \in PassesForWhole,
         NEW d \in CacheState, SameDisk(c, d), SameOps(c, d), SameBackend(c, d), OnlyTrans(c, d, t),
         d.active = c.active, d.doomed = c.doomed, d.queue = c.queue,
         d.entry[t] = e, d.pc[t] = "headers", d.mode[t] = "READ",
         \A k \in Entries \ {e} : /\ d.writer[k] = c.writer[k] /\ d.readers[k] = c.readers[k]
                                  /\ d.will[k] = c.will[k],
         d.writer[e] = NoTrans, d.readers[e] = c.readers[e] \cup {t}, d.will[e]
  PROVE  Inv(d, NoTrans, NoEntry)
<1> DEFINE w == d.will[e]
           x == c.content[e]
<1>0. c \in CacheState /\ x \in Contents /\ x \in Settled /\ e # NoEntry
  <2>1. c \in CacheState
    BY DEF Inv
  <2>2. x \in Settled
    BY DEF Settled, PassesForWhole
  <2>3. x \in Contents
    BY DEF PassesForWhole, Contents
  <2> QED BY <2>1, <2>2, <2>3
<1>w. w \in BOOLEAN
  BY Fields
<1>x. x = c.content[e]
  OBVIOUS
<1> HIDE DEF w, x
<1>b. PICK b : b = Leaves(c, t, e, w, x)
  OBVIOUS
<1>2. /\ b \in CacheState /\ SameTrans(c, b) /\ SameOps(c, b) /\ SameBackend(c, b)
      /\ b.active = c.active /\ b.doomed = c.doomed /\ b.queue = c.queue /\ b.stored = c.stored
      /\ \A k \in Entries \ {e} : /\ b.writer[k] = c.writer[k] /\ b.readers[k] = c.readers[k]
                                  /\ b.will[k] = c.will[k] /\ b.content[k] = c.content[k]
      /\ b.writer[e] = NoTrans /\ b.readers[e] = c.readers[e] \ {t}
      /\ b.will[e] = w /\ b.content[e] = x
  BY ONLY t \in Trans, e \in Entries, <1>0, <1>w, <1>b, LeavesResult
<1>1. Inv(b, t, NoEntry)
  <2>1. b.will[e] /\ b.content[e] \in Settled /\ b.content[e] = c.content[e]
    BY <1>0, <1>2, <1>x DEF w
  <2> QED BY <1>0, <1>2, <2>1, LeavesKeeps
<1>3. d.content = b.content
  <2>1. d.content \in [Entries -> Contents] /\ b.content \in [Entries -> Contents]
    BY <1>2, Fields
  <2>2. \A k \in Entries : d.content[k] = b.content[k]
    <3>1. \A k \in Entries : k = e \/ b.content[k] = c.content[k]
      BY ONLY <1>2
    <3>2. b.content[e] = c.content[e]
      BY ONLY <1>2, <1>x
    <3>3. d.content = c.content
      BY DEF SameDisk
    <3> QED BY ONLY <3>1, <3>2, <3>3
  <2>3. /\ d.content = [k \in Entries |-> d.content[k]]
        /\ b.content = [k \in Entries |-> b.content[k]]
    BY <2>1
  <2> QED BY ONLY <2>2, <2>3
<1>4. e \in Live(b)
  <2>1. e \in Live(c)
    BY HolderOf
  <2> QED BY <1>2, <2>1 DEF Live
<1>5. /\ SameDisk(b, d) /\ SameOps(b, d) /\ SameBackend(b, d) /\ OnlyTrans(b, d, t)
      /\ d.active = b.active /\ d.doomed = b.doomed /\ d.queue = b.queue
  BY <1>2, <1>3 DEF SameDisk, SameOps, SameBackend, OnlyTrans, SameTrans
<1>6. d.pc[t] \notin CachePending /\ PlaceOK(d, t) /\ ~Writes(d.mode[t])
  BY <1>0 DEF PlaceOK, CachePending, Writes
<1>7. /\ \A k \in Entries \ {e} : /\ d.writer[k] = b.writer[k] /\ d.readers[k] = b.readers[k]
                                  /\ d.will[k] = b.will[k]
      /\ d.readers[e] = b.readers[e] \cup {t}
  BY <1>2
<1>8. b.content[e] \in PassesForWhole /\ b.content[e] \in Settled /\ b.writer[e] = NoTrans
  BY <1>0, <1>2, <1>x
<1>9. IF Writes(d.mode[t])
      THEN d.writer[e] = t /\ d.readers[e] = {} /\ b.readers[e] = {} /\ ~d.will[e]
      ELSE d.writer[e] = NoTrans /\ d.readers[e] = b.readers[e] \cup {t} /\ d.mode[t] = "READ"
  BY <1>6, <1>7
<1>10. /\ NoEntry \in {NoEntry, e} /\ (Trusts(d, t) => b.content[e] \in PassesForWhole)
       /\ b.content[e] \in Settled \/ d.mode[t] = "WRITE"
  BY <1>8
<1> QED BY ONLY t \in Trans, d \in CacheState, d.entry[t] = e, <1>1, <1>4, <1>5, <1>6, <1>7, <1>8, <1>9,
                <1>10, GetsLock

LEMMA WriterTurnsReader ==
  ASSUME NEW c, Inv(c, NoTrans, NoEntry), NEW t \in Trans, c.entry[t] # NoEntry,
         c.pc[t] \notin CachePending, c.content[c.entry[t]] \in PassesForWhole
  PROVE  Inv(Goes(ConvertWriterToReader(c, t), t, "headers"), NoTrans, NoEntry)
<1>0. c \in CacheState
  BY DEF Inv
<1>1. PICK e \in Entries : e = c.entry[t]
  BY HoldsIt
<1> DEFINE d == Goes(ConvertWriterToReader(c, t), t, "headers")
           r == [c.readers EXCEPT ![e] = @ \cup {t}]
           v == [c.writer EXCEPT ![e] = NoTrans]
           w == [c.will EXCEPT ![e] = TRUE]
           m == [c.mode EXCEPT ![t] = "READ"]
           p == [c.pc EXCEPT ![t] = "headers"]
<1>2. d = [c EXCEPT !.readers = r, !.writer = v, !.will = w, !.mode = m, !.pc = p]
  BY <1>0, <1>1, ZenonT(60) DEF ConvertWriterToReader, ProcessPendingQueue, Goes, CacheState
<1>3. r \in [Entries -> SUBSET Trans] /\ v \in [Entries -> Trans \cup {NoTrans}]
  BY <1>0, Fields
<1>4. w \in [Entries -> BOOLEAN]
  BY <1>0, Fields
<1>5. m \in [Trans -> Modes] /\ p \in [Trans -> Places]
  BY <1>0, Fields DEF Modes, Places
<1>6. /\ \A k \in Entries \ {e} : v[k] = c.writer[k] /\ r[k] = c.readers[k] /\ w[k] = c.will[k]
      /\ v[e] = NoTrans /\ r[e] = c.readers[e] \cup {t} /\ w[e]
  BY <1>0, <1>1, Fields
<1>7. /\ m[t] = "READ" /\ p[t] = "headers"
      /\ \A u \in Others(t) : m[u] = c.mode[u] /\ p[u] = c.pc[u]
  BY <1>0, Fields DEF Others
<1> HIDE DEF d, r, v, w, m, p
<1>8. /\ d \in CacheState /\ SameDisk(c, d) /\ SameOps(c, d) /\ SameBackend(c, d)
      /\ d.active = c.active /\ d.doomed = c.doomed /\ d.queue = c.queue /\ d.entry = c.entry
      /\ d.readers = r /\ d.writer = v /\ d.will = w /\ d.mode = m /\ d.pc = p
  BY <1>0, <1>2, <1>3, <1>4, <1>5 DEF CacheState, SameDisk, SameOps, SameBackend
<1>9. OnlyTrans(c, d, t) /\ d.entry[t] = e /\ d.pc[t] = "headers" /\ d.mode[t] = "READ"
  BY <1>1, <1>7, <1>8 DEF OnlyTrans
<1>10. t \in Holders(c, e) /\ c.content[e] \in PassesForWhole
  BY <1>1, HoldsIt
<1> QED BY <1>6, <1>8, <1>9, <1>10, TurnsReader DEF d

(***************************************************************************)
(* A handler takes a transaction or an entry into its hands.               *)
(***************************************************************************)
\* A transaction that waited is taken off the list that it was on.
LEMMA Withdraws ==
  ASSUME NEW t \in Trans, NEW f, NEW c, Inv(c, NoTrans, f), c.pc[t] \in CachePending,
         NEW d \in CacheState, SameTrans(c, d), SameDisk(c, d),
         d.active = c.active, d.doomed = c.doomed, d.writer = c.writer, d.readers = c.readers,
         d.will = c.will, \A e \in Entries : c.queue[e] = <<>> => d.queue[e] = <<>>,
         Operations(d), Registered(d, t), Once(d), \A u \in Others(t) : WaitsSomewhere(d, u)
  PROVE  Inv(d, t, f)
<1>0. c \in CacheState /\ t \in Others(NoTrans)
  BY DEF Inv, Others
<1>a. \A e \in Entries : Holders(d, e) = Holders(c, e)
  BY DEF Holders
<1>b. Live(d) = Live(c) /\ Live(c) \subseteq Entries
  BY <1>0, Fields DEF Live
<1>c. \A u \in Others(t) : u \in Others(NoTrans)
  BY DEF Others
<1>1. Locks(d, t)
  <2>1. \A e \in Entries : t \notin Holders(d, e)
    BY <1>0, <1>a DEF Inv, Locks
  <2>2. \A e \in Entries :
          /\ d.writer[e] # NoTrans => d.readers[e] = {} /\ ~d.will[e] /\ Writes(d.mode[d.writer[e]])
          /\ \A u \in d.readers[e] : d.mode[u] = "READ"
    BY DEF Inv, Locks, SameTrans
  <2>3. \A e \in Entries : \A u \in Others(t) :
          u \in Holders(d, e) <=> d.entry[u] = e /\ d.pc[u] \notin CachePending
    BY <1>a, <1>c DEF Inv, Locks, SameTrans
  <2> QED BY <2>1, <2>2, <2>3 DEF Locks
<1>2. Upkeep(d, t, f)
  <2>1. \A e \in Entries \ Live(d) :
          /\ ~d.will[e] /\ d.queue[e] = <<>>
          /\ \A u \in Others(t) : d.entry[u] = e => d.pc[u] = "add"
    BY <1>b, <1>c, ZenonT(60) DEF Inv, Upkeep, SameTrans
  <2>2. \A e \in Live(d) \ {f} : Holders(d, e) # {} \/ d.will[e]
    BY <1>a, <1>b DEF Inv, Upkeep
  <2> QED BY <2>1, <2>2 DEF Inv, Upkeep
<1>3. PlacesOK(d, t)
  BY <1>c DEF Inv, PlacesOK, PlaceOK, SameTrans
<1>4. Disk(d, t, f)
  BY <1>b, <1>c DEF Inv, Disk, Trusts, SameTrans, SameDisk
<1> QED BY <1>1, <1>2, <1>3, <1>4 DEF Inv, Waiting

\* The task that looks at an entry has begun.
LEMMA Handed ==
  ASSUME NEW x, NEW c, Inv(c, x, NoEntry), NEW e \in Entries, NEW d \in CacheState,
         SameTrans(c, d), SameDisk(c, d), SameOps(c, d), SameBackend(c, d),
         d.active = c.active, d.doomed = c.doomed, d.writer = c.writer, d.readers = c.readers,
         d.queue = c.queue, \A k \in Entries \ {e} : d.will[k] = c.will[k], ~d.will[e]
  PROVE  Inv(d, x, e)
<1>0. c \in CacheState /\ e # NoEntry
  BY DEF Inv
<1>a. \A k \in Entries : Holders(d, k) = Holders(c, k)
  BY DEF Holders
<1>b. Live(d) = Live(c) /\ Live(c) \subseteq Entries \ {NoEntry}
  BY <1>0, Fields DEF Live
<1>c. \A k \in Entries : ~c.will[k] => ~d.will[k]
  OBVIOUS
<1>1. Locks(d, x)
  <2>1. \A k \in Entries : x \notin Holders(d, k)
    BY <1>a DEF Inv, Locks
  <2>2. \A k \in Entries :
          /\ d.writer[k] # NoTrans => d.readers[k] = {} /\ ~d.will[k] /\ Writes(d.mode[d.writer[k]])
          /\ \A u \in d.readers[k] : d.mode[u] = "READ"
    BY <1>c DEF Inv, Locks, SameTrans
  <2>3. \A k \in Entries : \A u \in Others(x) :
          u \in Holders(d, k) <=> d.entry[u] = k /\ d.pc[u] \notin CachePending
    BY <1>a DEF Inv, Locks, SameTrans
  <2> QED BY <2>1, <2>2, <2>3 DEF Locks
<1>2. Upkeep(d, x, e)
  <2>1. \A k \in Entries \ Live(d) :
          /\ ~d.will[k] /\ d.queue[k] = <<>>
          /\ \A u \in Others(x) : d.entry[u] = k => d.pc[u] = "add"
    BY <1>b, <1>c, ZenonT(60) DEF Inv, Upkeep, SameTrans
  <2>2. \A k \in Live(d) \ {e} : Holders(d, k) # {} \/ d.will[k]
    BY <1>a, <1>b DEF Inv, Upkeep
  <2> QED BY <2>1, <2>2 DEF Inv, Upkeep
<1>3. PlacesOK(d, x)
  BY DEF Inv, PlacesOK, PlaceOK, SameTrans
<1>4. Disk(d, x, e)
  BY <1>b DEF Inv, Disk, Trusts, SameTrans, SameDisk
<1>5. Operations(d)
  BY DEF Inv, Operations, SameOps
<1>6. Waiting(d, x)
  <2>1. SameTrans(c, d) => OnlyTrans(c, d, x)
    BY DEF SameTrans, OnlyTrans
  <2> QED BY <1>0, <2>1, WaitingFrame DEF Inv
<1> QED BY <1>1, <1>2, <1>3, <1>4, <1>5, <1>6 DEF Inv

\* An entry that nobody holds is closed; those who waited for it wait for something else.
LEMMA Destroys ==
  ASSUME NEW x, NEW c, NEW e \in Live(c), Inv(c, x, e), Holders(c, e) = {}, ~c.will[e],
         NEW d \in CacheState, d.writer = c.writer, d.readers = c.readers,
         \A k \in Entries : d.will[k] = c.will[k],
         SameTrans(c, d),
         e \in c.doomed => d.active = c.active /\ d.doomed = c.doomed \ {e} /\ d.stored = c.stored,
         e \notin c.doomed =>
           d.active = NoEntry /\ d.doomed = c.doomed /\ d.stored \in Settled \cup {"nothing"},
         \A k \in Entries \ {e} : d.content[k] = c.content[k] /\ d.queue[k] = c.queue[k],
         d.queue[e] = <<>>,
         Operations(d), Waiting(d, x)
  PROVE  Inv(d, x, NoEntry)
<1>0. c \in CacheState /\ e \in Entries /\ e # NoEntry
  BY Fields DEF Inv, Live
<1>a. \A k \in Entries : Holders(d, k) = Holders(c, k)
  BY DEF Holders
<1>b. Live(d) = Live(c) \ {e} /\ Live(c) \subseteq Entries \ {NoEntry}
  <2>1. c.active \notin c.doomed /\ c.doomed \subseteq Entries /\ c.active \in Entries \cup {NoEntry}
    BY <1>0, Fields DEF Inv, Upkeep
  <2>2. CASE e \in c.doomed
    BY <2>1, <2>2 DEF Live
  <2>3. CASE e \notin c.doomed
    BY <2>1, <2>3 DEF Live
  <2> QED BY <2>2, <2>3
<1>1. Locks(d, x)
  BY <1>a DEF Inv, Locks, SameTrans
<1>c. \A u \in Others(x) : c.entry[u] = e => c.pc[u] \in CachePending
  BY <1>0 DEF Inv, Locks
<1>2. Upkeep(d, x, NoEntry)
  <2>1. ASSUME NEW k \in Entries \ Live(d)
        PROVE  /\ ~d.will[k] /\ d.queue[k] = <<>>
               /\ \A u \in Others(x) : d.entry[u] = k => d.pc[u] = "add"
    <3>1. CASE k = e
      <4>1. \A u \in Others(x) : c.entry[u] = e => c.pc[u] = "add"
        BY <1>0, <1>c DEF Inv, PlacesOK, PlaceOK, CachePending
      <4> QED BY <3>1, <4>1 DEF SameTrans
    <3>2. CASE k # e
      <4>1. k \in Entries \ Live(c)
        BY <1>b, <3>2
      <4>2. /\ ~c.will[k] /\ c.queue[k] = <<>>
            /\ \A u \in Others(x) : c.entry[u] = k => c.pc[u] = "add"
        BY <4>1 DEF Inv, Upkeep
      <4>3. d.will[k] = c.will[k] /\ d.queue[k] = c.queue[k]
        BY <3>2
      <4> QED BY <4>2, <4>3 DEF SameTrans
    <3> QED BY <3>1, <3>2
  <2>2. \A k \in Live(d) \ {NoEntry} : Holders(d, k) # {} \/ d.will[k]
    BY <1>a, <1>b, ZenonT(60) DEF Inv, Upkeep
  <2>3. d.active \notin d.doomed
    <3>1. c.active \notin c.doomed /\ NoEntry \notin c.doomed
      BY <1>0, Fields DEF Inv, Upkeep
    <3> QED BY <3>1
  <2> QED BY <2>1, <2>2, <2>3 DEF Upkeep
<1>3. PlacesOK(d, x)
  BY DEF Inv, PlacesOK, PlaceOK, SameTrans
<1>4. Disk(d, x, NoEntry)
  <2>1. ASSUME NEW k \in Live(d) \ {NoEntry}
        PROVE  d.content[k] \in Settled \/ (d.writer[k] # NoTrans /\ d.mode[d.writer[k]] = "WRITE")
    <3>1. k \in Live(c) \ {e} /\ k \in Entries \ {e}
      BY <1>b
    <3> QED BY <3>1 DEF Inv, Disk, SameTrans
  <2>2. ASSUME NEW u \in Others(x), d.entry[u] # NoEntry, Trusts(d, u)
        PROVE  d.content[d.entry[u]] \in PassesForWhole
    <3>1. /\ c.entry[u] # NoEntry /\ c.entry[u] = d.entry[u] /\ c.content[c.entry[u]] \in PassesForWhole
          /\ c.pc[u] \notin CachePending /\ u \in Trans
      BY <2>2 DEF Inv, Disk, Trusts, SameTrans, CachePending, Others
    <3>2. c.entry[u] \in Entries \ {e}
      BY <1>0, <1>c, <3>1, Fields
    <3> QED BY <3>1, <3>2
  <2>3. d.stored \in Settled \cup {"nothing"}
    BY DEF Inv, Disk
  <2> QED BY <2>1, <2>2, <2>3 DEF Disk
<1> QED BY <1>1, <1>2, <1>3, <1>4 DEF Inv

(***************************************************************************)
(* A writer that fails.                                                    *)
(***************************************************************************)
\* What those who waited for an entry are told.
RaceItems(q) == [i \in 1..Len(q) |-> [kind |-> "add", trans |-> q[i]]]

LEMMA RaceItemsNames ==
  ASSUME NEW q \in Seq(Trans), IsInjective(q)
  PROVE  LET r == RaceItems(q)
         IN  /\ r \in Seq(Item) /\ NamesOnce(r)
             /\ r = <<>> <=> q = <<>>
             /\ \A u : Names(r, u) <=> Contains(q, u)
             /\ \A i \in 1..Len(r) : r[i].kind = "add" /\ r[i].trans \in Trans
<1> DEFINE r == RaceItems(q)
<1>0. Len(q) \in Nat /\ \A i \in 1..Len(q) : q[i] \in Trans
  OBVIOUS
<1>1. \A i \in 1..Len(q) : [kind |-> "add", trans |-> q[i]] \in Item
  BY <1>0 DEF Item
<1>2. /\ r \in Seq(Item) /\ Len(r) = Len(q)
      /\ \A i \in 1..Len(q) : r[i].kind = "add" /\ r[i].trans = q[i]
  BY <1>0, <1>1 DEF RaceItems
<1> HIDE DEF r
<1>3. r = <<>> <=> q = <<>>
  BY <1>2, EmptySeq
<1>4. NamesOnce(r)
  BY <1>2 DEF NamesOnce, IsInjective
<1>5. \A u : Names(r, u) <=> Contains(q, u)
  BY <1>2 DEF Names, Contains
<1> QED BY <1>0, <1>2, <1>3, <1>4, <1>5 DEF r

\* The queue of an entry becomes the loop of those who start again.
LEMMA Races ==
  ASSUME NEW x, NEW c \in CacheState, Waiting(c, x), Operations(c), c.run.items = <<>>,
         \A u \in Others(x) : c.pc[u] = "add" => c.entry[u] \in Entries,
         NEW e \in Entries, NEW d \in CacheState, SameTrans(c, d), SameBackend(c, d),
         d.opWriter = c.opWriter, d.opQueue = c.opQueue,
         \A k \in Entries \ {e} : d.queue[k] = c.queue[k],
         d.queue[e] = <<>>, d.run.items = RaceItems(c.queue[e])
  PROVE  Waiting(d, x)
<1> DEFINE q == c.queue[e]
           r == RaceItems(q)
<1>0. q \in Seq(Trans) /\ IsInjective(q)
  <2>1. c.queue[e] \in Seq(Trans)
    BY Fields
  <2> QED BY <2>1 DEF Waiting, Once
<1>1. /\ r \in Seq(Item) /\ NamesOnce(r)
      /\ \A u : Names(r, u) <=> Contains(q, u)
      /\ \A i \in 1..Len(r) : r[i].kind = "add" /\ r[i].trans \in Trans
  BY <1>0, RaceItemsNames
<1> HIDE DEF r
<1>2. \A u : Contains(q, u) => u # x /\ c.pc[u] = "add" /\ c.entry[u] = e
  BY DEF Waiting, Registered, Contains
<1>3. \A i \in 1..Len(r) : ItemOK(d, x, r[i])
  <2> SUFFICES ASSUME NEW i \in 1..Len(r) PROVE ItemOK(d, x, r[i])
    OBVIOUS
  <2>1. Contains(q, r[i].trans) /\ r[i].kind = "add"
    BY <1>1 DEF Names
  <2>2. r[i].trans # x /\ c.pc[r[i].trans] = "add"
    BY <1>2, <2>1
  <2> QED BY <2>1, <2>2 DEF ItemOK, SameTrans
<1>4. d.run.items = r
  BY DEF r
<1> HIDE DEF q
<1>5. Registered(d, x)
  <2>1. /\ ItemOK(d, x, d.opWriter)
        /\ \A i \in 1..Len(d.opQueue) : ItemOK(d, x, d.opQueue[i])
    BY ItemSame DEF Waiting, Registered, SameTrans
  <2>2. ASSUME NEW k \in Entries, NEW i \in 1..Len(d.queue[k])
        PROVE  d.queue[k][i] # x /\ d.pc[d.queue[k][i]] = "add" /\ d.entry[d.queue[k][i]] = k
    <3>1. k # e
      OBVIOUS
    <3>2. d.queue[k] = c.queue[k]
      BY <3>1
    <3> QED BY <3>2 DEF Waiting, Registered, SameTrans
  <2>3. /\ d.bkWriter # NoTrans => d.bkWriter # x /\ d.pc[d.bkWriter] = "getBackend"
        /\ \A i \in 1..Len(d.bkQueue) : d.bkQueue[i] # x /\ d.pc[d.bkQueue[i]] = "getBackend"
    BY DEF Waiting, Registered, SameTrans, SameBackend
  <2> QED BY <1>3, <1>4, <2>1, <2>2, <2>3 DEF Registered
<1>6. Once(d)
  <2>1. NamesOnce(d.opQueue) /\ NamesOnce(d.run.items) /\ IsInjective(d.bkQueue)
    BY <1>1, <1>4 DEF Waiting, Once, SameBackend
  <2>2. ASSUME NEW k \in Entries PROVE IsInjective(d.queue[k])
    <3>1. CASE k = e
      BY <3>1 DEF IsInjective
    <3>2. CASE k # e
      BY <3>2 DEF Waiting, Once
    <3> QED BY <3>1, <3>2
  <2>3. ASSUME NEW u \in Trans, d.opWriter.trans = u \/ Names(d.opQueue, u) PROVE ~Names(r, u)
    <3>1. c.pc[u] # "add"
      <4>1. CASE d.opWriter.trans = u
        BY <4>1 DEF Waiting, Registered, ItemOK, Operations
      <4>2. CASE Names(d.opQueue, u)
        BY <4>2 DEF Waiting, Registered, ItemOK, Operations, Names
      <4> QED BY <2>3, <4>1, <4>2
    <3> QED BY <1>1, <1>2, <3>1
  <2>4. ASSUME NEW u \in Trans, Names(r, u), NEW k \in Entries PROVE ~Contains(d.queue[k], u)
    <3>1. c.entry[u] = e
      BY <1>1, <1>2, <2>4
    <3>2. CASE k = e
      BY <3>2 DEF Contains
    <3>3. CASE k # e
      BY <3>1, <3>3 DEF Waiting, Registered, Contains
    <3> QED BY <3>2, <3>3
  <2> QED BY <1>4, <2>1, <2>2, <2>3, <2>4 DEF Waiting, Once, SameBackend
<1>7. ASSUME NEW u \in Others(x) PROVE WaitsSomewhere(d, u)
  <2>1. ~Names(c.run.items, u)
    BY DEF Names
  <2>2. WaitsSomewhere(c, u)
    BY DEF Waiting
  <2>3. c.pc[u] = "add" => Contains(d.queue[c.entry[u]], u) \/ Names(r, u)
    <3>1. CASE c.entry[u] = e
      BY <1>1, <2>1, <2>2, <3>1 DEF WaitsSomewhere, q
    <3>2. CASE c.entry[u] # e
      BY <2>1, <2>2, <3>2 DEF WaitsSomewhere
    <3> QED BY <3>1, <3>2
  <2> QED BY <1>4, <2>1, <2>2, <2>3 DEF WaitsSomewhere, SameTrans, SameBackend
<1> QED BY <1>5, <1>6, <1>7 DEF Waiting

\* The loop in which those who waited for an entry are told to start again.
Racing(r) == r.op = "add" /\ ~r.ok /\ r.fail

Failed(c, e) == CacheDoneWriting(c, e, FALSE)

\* What a failed writer changes.
LEMMA FailResult ==
  ASSUME NEW c \in CacheState, NEW e \in Entries, c.run = Idle, IsInjective(c.queue[e])
  PROVE  LET d == Failed(c, e)
         IN  /\ d \in CacheState /\ SameTrans(c, d) /\ SameBackend(c, d)
             /\ d.opWriter = c.opWriter /\ d.opQueue = c.opQueue
             /\ d.readers = c.readers /\ d.will = c.will
             /\ \A k \in Entries \ {e} : /\ d.writer[k] = c.writer[k] /\ d.queue[k] = c.queue[k]
                                         /\ d.content[k] = c.content[k]
             /\ d.writer[e] = NoTrans /\ d.queue[e] = <<>>
             /\ d.run.items = RaceItems(c.queue[e])
             /\ d.run = Idle \/ (d.run.items # <<>> /\ Racing(d.run))
             /\ e \in c.doomed => d.active = c.active /\ d.doomed = c.doomed \ {e} /\ d.stored = c.stored
             /\ e \notin c.doomed => d.active = NoEntry /\ d.doomed = c.doomed /\ d.stored = "nothing"
<1> DEFINE v == [c.writer EXCEPT ![e] = NoTrans]
           q == [c.queue EXCEPT ![e] = <<>>]
           n == [c.content EXCEPT ![e] = "nothing"]
           items == RaceItems(c.queue[e])
           b == [c EXCEPT !.writer = v, !.queue = q, !.content = n]
           g == IF e \in c.doomed THEN [b EXCEPT !.doomed = c.doomed \ {e}]
                                  ELSE [b EXCEPT !.active = NoEntry, !.stored = "nothing"]
           run == IF items = <<>> THEN c.run
                  ELSE [op |-> "add", ok |-> FALSE, fail |-> TRUE, items |-> items]
           d == Failed(c, e)
<1>1. /\ v \in [Entries -> Trans \cup {NoTrans}] /\ v[e] = NoTrans
      /\ \A k \in Entries \ {e} : v[k] = c.writer[k]
  BY Fields
<1>2. /\ q \in [Entries -> Seq(Trans)] /\ q[e] = <<>>
      /\ \A k \in Entries \ {e} : q[k] = c.queue[k]
  BY Fields
<1>3. n \in [Entries -> Contents] /\ \A k \in Entries \ {e} : n[k] = c.content[k]
  BY Fields DEF Contents
<1>4. items \in Seq(Item)
  <2>1. c.queue[e] \in Seq(Trans)
    BY Fields
  <2> QED BY <2>1, RaceItemsNames
<1>5. d = [g EXCEPT !.run = run]
  <2>1. /\ [c EXCEPT !.writer[e] = NoTrans] = [c EXCEPT !.writer = v]
        /\ [[c EXCEPT !.writer = v] EXCEPT !.queue[e] = <<>>] = [c EXCEPT !.writer = v, !.queue = q]
        /\ [[c EXCEPT !.writer = v, !.queue = q] EXCEPT !.content[e] = "nothing"] = b
    BY DEF CacheState
  <2>2. DestroyEntry([c EXCEPT !.writer = v, !.queue = q], e, "nothing") = g
    BY <2>1 DEF DestroyEntry, CacheState
  <2>3. d = RaceAll(g, items)
    BY <2>1, <2>2 DEF Failed, CacheDoneWriting, RaceItems
  <2> HIDE DEF items, v, q, n
  <2>4. g = [g EXCEPT !.run = c.run]
    BY DEF CacheState
  <2> HIDE DEF g
  <2> QED BY <2>3, <2>4 DEF RaceAll
<1>6. run = Idle \/ (run.items # <<>> /\ Racing(run))
  BY DEF Racing
<1>7. run.items = items
  BY DEF Idle
<1>8. run \in [op : {"none", "open", "create", "doom", "add"}, ok : BOOLEAN, fail : BOOLEAN,
               items : Seq(Item)]
  <2>1. CASE items = <<>>
    BY <2>1 DEF CacheState
  <2>2. CASE items # <<>>
    BY <1>4, <2>2
  <2> QED BY <2>1, <2>2
<1> HIDE DEF v, q, n, items, run, d
<1>9. d \in CacheState /\ SameTrans(c, d) /\ SameBackend(c, d)
  <2>1. b \in CacheState /\ SameTrans(c, b) /\ SameBackend(c, b)
    BY <1>1, <1>2, <1>3, ZenonT(60) DEF CacheState, SameTrans, SameBackend
  <2>2. c.doomed \ {e} \in SUBSET Entries /\ "nothing" \in Contents
    BY Fields DEF Contents
  <2> HIDE DEF b
  <2>3. g \in CacheState /\ SameTrans(b, g) /\ SameBackend(b, g)
    <3>1. CASE e \in c.doomed
      BY <2>1, <2>2, <3>1, ZenonT(60) DEF CacheState, SameTrans, SameBackend
    <3>2. CASE e \notin c.doomed
      BY <2>1, <2>2, <3>2, ZenonT(60) DEF CacheState, SameTrans, SameBackend
    <3> QED BY <3>1, <3>2
  <2> HIDE DEF g
  <2>4. d \in CacheState /\ SameTrans(g, d) /\ SameBackend(g, d)
    BY <1>5, <1>8, <2>3 DEF CacheState, SameTrans, SameBackend
  <2> QED BY <2>1, <2>3, <2>4 DEF SameTrans, SameBackend
<1>10. /\ d.opWriter = c.opWriter /\ d.opQueue = c.opQueue
       /\ d.readers = c.readers /\ d.will = c.will
       /\ d.writer = v /\ d.queue = q /\ d.content = n /\ d.run = run
  BY <1>5 DEF CacheState
<1>11. /\ e \in c.doomed => d.active = c.active /\ d.doomed = c.doomed \ {e} /\ d.stored = c.stored
       /\ e \notin c.doomed => d.active = NoEntry /\ d.doomed = c.doomed /\ d.stored = "nothing"
  BY <1>5 DEF CacheState
<1> QED BY <1>1, <1>2, <1>3, <1>6, <1>7, <1>9, <1>10, <1>11 DEF d, items

\* A failed writer takes the entry with it, and those who waited start again.
LEMMA Fails ==
  ASSUME NEW c, Inv(c, NoTrans, NoEntry), c.run = Idle, NEW t \in Trans, NEW e \in Entries,
         c.writer[e] = t
  PROVE  LET d == Failed(c, e)
         IN  /\ Inv(d, t, NoEntry) /\ SameTrans(c, d) /\ SameBackend(c, d)
             /\ d.run = Idle \/ Racing(d.run)
<1> DEFINE w == c.will[e]
           x == c.content[e]
           b == Leaves(c, t, e, w, x)
           d == Failed(c, e)
<1>0. c \in CacheState /\ x \in Contents /\ e # NoEntry /\ t # NoTrans
  <2>1. c \in CacheState
    BY DEF Inv
  <2> QED BY <2>1, Fields
<1>w. w \in BOOLEAN
  BY <1>0, Fields
<1>1. /\ t \in Holders(c, e) /\ e \in Live(c) /\ c.readers[e] = {} /\ ~w /\ c.pc[t] \notin CachePending
  <2>1. t \in Holders(c, e)
    BY <1>0, HoldersAre
  <2> QED BY <1>0, <2>1, HolderOf
<1>x. x = c.content[e]
  OBVIOUS
<1> HIDE DEF w, x
<1>2. /\ b \in CacheState /\ SameTrans(c, b) /\ SameOps(c, b) /\ SameBackend(c, b)
      /\ b.active = c.active /\ b.doomed = c.doomed /\ b.queue = c.queue /\ b.stored = c.stored
      /\ \A k \in Entries \ {e} : /\ b.writer[k] = c.writer[k] /\ b.readers[k] = c.readers[k]
                                  /\ b.will[k] = c.will[k] /\ b.content[k] = c.content[k]
      /\ b.writer[e] = NoTrans /\ b.readers[e] = c.readers[e] \ {t}
      /\ b.will[e] = w /\ b.content[e] = x
  BY <1>0, <1>w, LeavesResult
<1> HIDE DEF b
<1>3. Inv(b, t, e)
  <2>1. e \in {NoEntry, e} /\ b.content[e] = c.content[e]
    BY <1>x, <1>2
  <2> QED BY <1>0, <1>1, <1>2, <2>1, LeavesKeeps
<1>4. c.queue[e] \in Seq(Trans) /\ IsInjective(c.queue[e])
  BY <1>0, Fields DEF Inv, Waiting, Once
<1>5. /\ d \in CacheState /\ SameTrans(c, d) /\ SameBackend(c, d)
      /\ d.opWriter = c.opWriter /\ d.opQueue = c.opQueue
      /\ d.readers = c.readers /\ d.will = c.will
      /\ \A k \in Entries \ {e} : /\ d.writer[k] = c.writer[k] /\ d.queue[k] = c.queue[k]
                                  /\ d.content[k] = c.content[k]
      /\ d.writer[e] = NoTrans /\ d.queue[e] = <<>>
      /\ d.run.items = RaceItems(c.queue[e])
      /\ d.run = Idle \/ (d.run.items # <<>> /\ Racing(d.run))
      /\ e \in c.doomed => d.active = c.active /\ d.doomed = c.doomed \ {e} /\ d.stored = c.stored
      /\ e \notin c.doomed => d.active = NoEntry /\ d.doomed = c.doomed /\ d.stored = "nothing"
  BY <1>0, <1>4, FailResult
<1> HIDE DEF d
<1>6. d.writer = b.writer /\ d.readers = b.readers /\ \A k \in Entries : d.will[k] = b.will[k]
  <2>1. /\ d.writer \in [Entries -> Trans \cup {NoTrans}] /\ b.writer \in [Entries -> Trans \cup {NoTrans}]
        /\ d.readers \in [Entries -> SUBSET Trans] /\ b.readers \in [Entries -> SUBSET Trans]
    BY <1>2, <1>5, Fields
  <2>3. \A k \in Entries : d.writer[k] = b.writer[k]
    BY <1>2, <1>5
  <2>4. \A k \in Entries : d.readers[k] = b.readers[k]
    <3>1. d.readers[e] = {} /\ b.readers[e] = {}
      BY <1>1, <1>2, <1>5
    <3> SUFFICES ASSUME NEW k \in Entries, k # e PROVE d.readers[k] = b.readers[k]
      BY <3>1
    <3> QED BY <1>2, <1>5
  <2>5. \A k \in Entries : d.will[k] = b.will[k]
    BY <1>2, <1>5 DEF w
  <2>6. d.writer = b.writer /\ d.readers = b.readers
    BY <2>1, <2>3, <2>4, SameFunction
  <2> QED BY <2>5, <2>6
<1>7. Holders(b, e) = {} /\ ~b.will[e]
  BY <1>1, <1>2 DEF Holders
<1>8. Operations(d)
  <2>1. d.run.items # <<>> => d.run # Idle
    BY DEF Idle
  <2>2. d.run = Idle => d.run.items = <<>>
    BY DEF Idle
  <2>3. \A i \in 1..Len(d.run.items) : d.run.items[i].kind \in {"add", "init"} => d.run.fail
    <3>1. CASE d.run = Idle
      BY <3>1 DEF Idle
    <3>2. CASE d.run # Idle
      BY <1>5, <3>2 DEF Racing
    <3> QED BY <3>1, <3>2
  <2>4. d.opWriter # NoItem => d.active = NoEntry
    BY <1>5 DEF Inv, Operations
  <2>5. d.run # Idle => d.run.fail
    BY <1>5 DEF Racing
  <2> QED BY <1>5, <2>1, <2>2, <2>3, <2>4, <2>5 DEF Inv, Operations
<1>9. Waiting(d, t)
  <2>1. Waiting(b, t) /\ Operations(b)
    BY <1>3 DEF Inv
  <2>2. b.run.items = <<>>
    BY <1>2 DEF SameOps, Idle
  <2>3. \A u \in Others(t) : b.pc[u] = "add" => b.entry[u] \in Entries
    BY <1>2, <1>3, Fields DEF Inv, PlacesOK, PlaceOK, Others
  <2>4. SameTrans(b, d) /\ SameBackend(b, d) /\ d.opWriter = b.opWriter /\ d.opQueue = b.opQueue
    BY <1>2, <1>5 DEF SameTrans, SameBackend, SameOps
  <2>5. \A k \in Entries \ {e} : d.queue[k] = b.queue[k]
    BY <1>2, <1>5
  <2>6. d.run.items = RaceItems(b.queue[e])
    BY <1>2, <1>5
  <2> QED BY <1>2, <1>5, <2>1, <2>2, <2>3, <2>4, <2>5, <2>6, Races
<1>10. Inv(d, t, NoEntry)
  <2>1. e \in Live(b)
    BY <1>1, <1>2 DEF Live
  <2>2. SameTrans(b, d)
    BY <1>2, <1>5 DEF SameTrans
  <2>3. \A k \in Entries \ {e} : d.content[k] = b.content[k] /\ d.queue[k] = b.queue[k]
    BY <1>2, <1>5
  <2>4. /\ e \in b.doomed => d.active = b.active /\ d.doomed = b.doomed \ {e} /\ d.stored = b.stored
        /\ e \notin b.doomed =>
             d.active = NoEntry /\ d.doomed = b.doomed /\ d.stored \in Settled \cup {"nothing"}
    BY <1>2, <1>5
  <2> QED BY <1>3, <1>5, <1>6, <1>7, <1>8, <1>9, <2>1, <2>2, <2>3, <2>4, Destroys
<1> QED BY <1>5, <1>10 DEF d

(***************************************************************************)
(* A transaction that is done with its entry.                              *)
(***************************************************************************)
\* A writer has written |x|, and succeeds with it.
Filled(c, e, x) == [c EXCEPT !.content[e] = x]

Kept(c, e, x) == CacheDoneWriting(Filled(c, e, x), e, TRUE)

LEMMA KeptResult ==
  ASSUME NEW c \in CacheState, NEW e \in Entries, NEW x \in Contents
  PROVE  LET d == Kept(c, e, x)
         IN  /\ d \in CacheState /\ SameTrans(c, d) /\ SameOps(c, d) /\ SameBackend(c, d)
             /\ d.active = c.active /\ d.doomed = c.doomed /\ d.queue = c.queue /\ d.stored = c.stored
             /\ d.readers = c.readers
             /\ \A k \in Entries \ {e} : /\ d.writer[k] = c.writer[k]
                                         /\ d.will[k] = c.will[k] /\ d.content[k] = c.content[k]
             /\ d.writer[e] = NoTrans /\ d.will[e] /\ d.content[e] = x
<1> DEFINE v == [c.writer EXCEPT ![e] = NoTrans]
           w == [c.will EXCEPT ![e] = TRUE]
           n == [c.content EXCEPT ![e] = x]
           d == Kept(c, e, x)
<1>1. v \in [Entries -> Trans \cup {NoTrans}] /\ n \in [Entries -> Contents]
  BY Fields
<1>2. w \in [Entries -> BOOLEAN]
  BY Fields
<1>3. /\ \A k \in Entries \ {e} : v[k] = c.writer[k] /\ w[k] = c.will[k] /\ n[k] = c.content[k]
      /\ v[e] = NoTrans /\ w[e] /\ n[e] = x
  BY Fields
<1>4. d = [c EXCEPT !.writer = v, !.will = w, !.content = n]
  BY DEF Kept, Filled, CacheDoneWriting, ProcessPendingQueue, CacheState
<1> HIDE DEF v, w, n, d
<1>5. /\ d \in CacheState /\ SameTrans(c, d) /\ SameOps(c, d) /\ SameBackend(c, d)
      /\ d.active = c.active /\ d.doomed = c.doomed /\ d.queue = c.queue /\ d.stored = c.stored
      /\ d.readers = c.readers /\ d.writer = v /\ d.will = w /\ d.content = n
  BY <1>1, <1>2, <1>4 DEF CacheState, SameTrans, SameOps, SameBackend
<1> QED BY <1>3, <1>5 DEF d

LEMMA Keeps ==
  ASSUME NEW c, Inv(c, NoTrans, NoEntry), NEW t \in Trans, NEW e \in Entries, c.writer[e] = t,
         NEW x \in Settled
  PROVE  LET d == Kept(c, e, x)
         IN  Inv(d, t, NoEntry) /\ SameTrans(c, d) /\ SameOps(c, d) /\ SameBackend(c, d)
<1> DEFINE d == Kept(c, e, x)
<1>0. c \in CacheState /\ x \in Contents /\ t # NoTrans
  BY DEF Inv, Settled, PassesForWhole, Contents
<1>1. t \in Holders(c, e) /\ c.readers[e] = {}
  <2>1. t \in Holders(c, e)
    BY <1>0, HoldersAre
  <2> QED BY <1>0, <2>1, HolderOf
<1>2. /\ d \in CacheState /\ SameTrans(c, d) /\ SameOps(c, d) /\ SameBackend(c, d)
      /\ d.active = c.active /\ d.doomed = c.doomed /\ d.queue = c.queue /\ d.stored = c.stored
      /\ d.readers = c.readers
      /\ \A k \in Entries \ {e} : /\ d.writer[k] = c.writer[k]
                                  /\ d.will[k] = c.will[k] /\ d.content[k] = c.content[k]
      /\ d.writer[e] = NoTrans /\ d.will[e] /\ d.content[e] = x
  BY <1>0, KeptResult
<1> HIDE DEF d
<1>3. /\ \A k \in Entries \ {e} : /\ d.writer[k] = c.writer[k] /\ d.readers[k] = c.readers[k]
                                  /\ d.will[k] = c.will[k] /\ d.content[k] = c.content[k]
      /\ d.readers[e] = c.readers[e] \ {t}
      /\ NoEntry \in {NoEntry, e} /\ d.will[e] /\ d.content[e] \in Settled
  BY <1>1, <1>2
<1>4. Inv(d, t, NoEntry)
  BY <1>1, <1>2, <1>3, LeavesKeeps
<1> QED BY <1>2, <1>4 DEF d

\* What the writer of an entry has done to it so far.
LEMMA WriterOf ==
  ASSUME NEW c, Inv(c, NoTrans, NoEntry), NEW t \in Trans, c.entry[t] # NoEntry,
         c.pc[t] \notin CachePending
  PROVE  /\ c.entry[t] \in Entries /\ c.entry[t] \in Live(c) /\ t \in Holders(c, c.entry[t])
         /\ Writes(c.mode[t]) => c.writer[c.entry[t]] = t
         /\ ~Writes(c.mode[t]) =>
              /\ c.writer[c.entry[t]] = NoTrans /\ t \in c.readers[c.entry[t]]
              /\ c.mode[t] = "READ"
         /\ c.mode[t] # "WRITE" => c.content[c.entry[t]] \in Settled
<1> DEFINE e == c.entry[t]
<1>1. e \in Entries /\ t \in Holders(c, e)
  BY HoldsIt
<1> HIDE DEF e
<1>2. /\ e \in Live(c)
      /\ \/ c.writer[e] = t /\ c.readers[e] = {} /\ ~c.will[e] /\ Writes(c.mode[t])
         \/ c.writer[e] = NoTrans /\ t \in c.readers[e] /\ c.mode[t] = "READ"
  BY <1>1, HolderOf
<1>3. ~Writes("READ")
  BY DEF Writes
<1>4. c.mode[t] # "WRITE" => c.content[e] \in Settled
  <2>1. e \in Live(c) \ {NoEntry}
    BY <1>1, <1>2
  <2> QED BY <1>2, <2>1 DEF Inv, Disk
<1> QED BY <1>1, <1>2, <1>3, <1>4 DEF e

\* The transaction forgets its entry_.
Forgets(c, t, m) == [c EXCEPT !.entry[t] = NoEntry, !.mode[t] = m]

LEMMA ForgetsResult ==
  ASSUME NEW t \in Trans, NEW c, Inv(c, t, NoEntry), NEW m \in Modes
  PROVE  LET d == Forgets(c, t, m)
         IN  /\ Inv(d, t, NoEntry) /\ d.entry[t] = NoEntry /\ d.mode[t] = m
             /\ d.pc = c.pc /\ SameOps(c, d) /\ SameLocks(c, d)
<1> DEFINE d == Forgets(c, t, m)
           n == [c.entry EXCEPT ![t] = NoEntry]
           g == [c.mode EXCEPT ![t] = m]
<1>0. c \in CacheState
  BY DEF Inv
<1>1. /\ n \in [Trans -> Entries \cup {NoEntry}] /\ g \in [Trans -> Modes]
      /\ n[t] = NoEntry /\ g[t] = m
      /\ \A u \in Others(t) : n[u] = c.entry[u] /\ g[u] = c.mode[u]
  BY <1>0, Fields DEF Others
<1>2. d = [c EXCEPT !.entry = n, !.mode = g]
  BY <1>0 DEF Forgets, CacheState
<1> HIDE DEF d, n, g
<1>3. /\ d \in CacheState /\ SameLocks(c, d) /\ SameDisk(c, d) /\ SameOps(c, d) /\ SameBackend(c, d)
      /\ d.pc = c.pc /\ d.entry = n /\ d.mode = g
  BY <1>0, <1>1, <1>2, ZenonT(60) DEF CacheState, SameLocks, SameDisk, SameOps, SameBackend
<1>4. OnlyTrans(c, d, t)
  BY <1>1, <1>3 DEF OnlyTrans
<1>5. Inv(d, t, NoEntry)
  BY <1>3, <1>4, FreeMove
<1> QED BY <1>1, <1>3, <1>5 DEF d

\* It goes somewhere without an entry.
LEMMA GoesAway ==
  ASSUME NEW t \in Trans, NEW c, Inv(c, t, NoEntry), c.entry[t] = NoEntry,
         NEW p \in Places \ CachePending,
         p \in {"gone", "done"} \/ (p \in {"send", "headers", "netRead"} /\ c.mode[t] = "NONE")
  PROVE  Inv(Goes(c, t, p), NoTrans, NoEntry)
<1> DEFINE d == Goes(c, t, p)
           g == [c.pc EXCEPT ![t] = p]
<1>0. c \in CacheState
  BY DEF Inv
<1>1. /\ g \in [Trans -> Places] /\ g[t] = p
      /\ \A u \in Others(t) : g[u] = c.pc[u]
  BY <1>0, Fields DEF Others
<1>2. d = [c EXCEPT !.pc = g]
  BY <1>0 DEF Goes, CacheState
<1> HIDE DEF d, g
<1>3. /\ d \in CacheState /\ SameLocks(c, d) /\ SameDisk(c, d) /\ SameOps(c, d) /\ SameBackend(c, d)
      /\ d.pc = g /\ d.entry = c.entry /\ d.mode = c.mode
  BY <1>0, <1>1, <1>2, ZenonT(60) DEF CacheState, SameLocks, SameDisk, SameOps, SameBackend
<1>4. OnlyTrans(c, d, t)
  BY <1>1, <1>3 DEF OnlyTrans
<1>5. Inv(d, t, NoEntry)
  BY <1>3, <1>4, FreeMove
<1>6. PlaceOK(d, t) /\ d.entry[t] = NoEntry /\ d.pc[t] \notin CachePending
  BY <1>1, <1>3 DEF PlaceOK
<1> QED BY <1>5, <1>6, Land DEF d

\* A transaction without an entry_ that waits for nothing is in nobody's way.
LEMMA Unattached ==
  ASSUME NEW c, Inv(c, NoTrans, NoEntry), NEW t \in Trans, c.entry[t] = NoEntry,
         c.pc[t] \notin CachePending
  PROVE  Inv(c, t, NoEntry)
<1>1. t \in Others(NoTrans)
  BY DEF Others
<1>2. \A e \in Entries : t \notin Holders(c, e)
  BY <1>1 DEF Inv, Locks
<1> QED BY <1>2, TakeOff

\* The transaction bypasses the cache from here on, and its entry is lost.
LEMMA GivesUp ==
  ASSUME NEW c, Inv(c, NoTrans, NoEntry), c.run = Idle, NEW t \in Trans, c.pc[t] \notin CachePending,
         c.entry[t] # NoEntry => Writes(c.mode[t]),
         c.entry[t] = NoEntry => c.mode[t] = "NONE"
  PROVE  LET d == DoneWritingToEntry(c, t, FALSE)
         IN  Inv(d, t, NoEntry) /\ d.entry[t] = NoEntry /\ d.mode[t] = "NONE" /\ d.pc = c.pc
<1>1. CASE c.entry[t] = NoEntry
  BY <1>1, Unattached DEF DoneWritingToEntry
<1>2. CASE c.entry[t] # NoEntry
  <2> DEFINE b == Failed(c, c.entry[t])
  <2>1. Inv(b, t, NoEntry) /\ SameTrans(c, b)
    BY <1>2, WriterOf, Fails
  <2>2. DoneWritingToEntry(c, t, FALSE) = Forgets(b, t, "NONE")
    BY <1>2 DEF DoneWritingToEntry, Forgets, Failed
  <2> HIDE DEF b
  <2>3. "NONE" \in Modes
    BY DEF Modes
  <2>4. LET d == Forgets(b, t, "NONE")
        IN  Inv(d, t, NoEntry) /\ d.entry[t] = NoEntry /\ d.mode[t] = "NONE" /\ d.pc = b.pc
    BY <2>1, <2>3, ForgetsResult
  <2> QED BY <2>1, <2>2, <2>4 DEF SameTrans
<1> QED BY <1>1, <1>2

\* It bypasses the cache, and leaves |x| there.
LEMMA FinishesWith ==
  ASSUME NEW c, Inv(c, NoTrans, NoEntry), NEW t \in Trans, c.pc[t] \notin CachePending,
         NEW e \in Entries, c.entry[t] = e, Writes(c.mode[t]), NEW x \in Settled
  PROVE  LET d == DoneWritingToEntry(Filled(c, e, x), t, TRUE)
         IN  Inv(d, t, NoEntry) /\ d.entry[t] = NoEntry /\ d.mode[t] = "NONE" /\ d.pc = c.pc
<1> DEFINE b == Kept(c, e, x)
           g == Filled(c, e, x)
<1>0. e # NoEntry /\ c \in CacheState
  BY DEF Inv
<1>1. Inv(b, t, NoEntry) /\ SameTrans(c, b)
  BY <1>0, WriterOf, Keeps
<1>2. DoneWritingToEntry(g, t, TRUE) = Forgets(b, t, "NONE")
  <2>1. g.entry = c.entry
    BY <1>0 DEF CacheState, Filled
  <2>2. CacheDoneWriting(g, e, TRUE) = b
    BY DEF Kept
  <2> HIDE DEF b, g
  <2> QED BY <1>0, <2>1, <2>2 DEF DoneWritingToEntry, Forgets
<1> HIDE DEF b
<1>3. "NONE" \in Modes
  BY DEF Modes
<1>4. LET d == Forgets(b, t, "NONE")
      IN  Inv(d, t, NoEntry) /\ d.entry[t] = NoEntry /\ d.mode[t] = "NONE" /\ d.pc = b.pc
  BY <1>1, <1>3, ForgetsResult
<1> HIDE DEF g
<1>5. DoneWritingToEntry(g, t, TRUE) = Forgets(b, t, "NONE")
  BY <1>2
<1> QED BY <1>1, <1>4, <1>5 DEF SameTrans, g

LEMMA Finishes ==
  ASSUME NEW c, Inv(c, NoTrans, NoEntry), NEW t \in Trans, c.pc[t] \notin CachePending,
         c.entry[t] # NoEntry => Writes(c.mode[t]) /\ c.content[c.entry[t]] \in Settled,
         c.entry[t] = NoEntry => c.mode[t] = "NONE"
  PROVE  LET d == DoneWritingToEntry(c, t, TRUE)
         IN  Inv(d, t, NoEntry) /\ d.entry[t] = NoEntry /\ d.mode[t] = "NONE" /\ d.pc = c.pc
<1>1. CASE c.entry[t] = NoEntry
  BY <1>1, Unattached DEF DoneWritingToEntry
<1>2. CASE c.entry[t] # NoEntry
  <2>1. PICK e \in Entries : e = c.entry[t]
    BY <1>2, WriterOf
  <2>2. PICK x \in Settled : x = c.content[e]
    BY <1>2, <2>1
  <2>3. Filled(c, e, x) = c
    BY <2>2 DEF Inv, CacheState, Filled
  <2>4. LET d == DoneWritingToEntry(Filled(c, e, x), t, TRUE)
        IN  Inv(d, t, NoEntry) /\ d.entry[t] = NoEntry /\ d.mode[t] = "NONE" /\ d.pc = c.pc
    BY <1>2, <2>1, FinishesWith, ZenonT(60)
  <2> QED BY <2>3, <2>4
<1> QED BY <1>1, <1>2

\* A reader leaves.
LEMMA DoneReads ==
  ASSUME NEW c, Inv(c, NoTrans, NoEntry), NEW t \in Trans, c.entry[t] # NoEntry,
         c.pc[t] \notin CachePending, c.mode[t] = "READ"
  PROVE  LET d == DoneReadingFromEntry(c, t)
         IN  /\ Inv(d, t, NoEntry) /\ d.entry[t] = NoEntry /\ d.mode[t] = "READ" /\ d.pc = c.pc
             /\ d.run = c.run
<1>0. c \in CacheState /\ "READ" \in Modes
  BY DEF Inv, Modes
<1>1. PICK e \in Entries : e = c.entry[t]
  BY WriterOf
<1>2. /\ c.writer[e] = NoTrans /\ t \in Holders(c, e) /\ c.content[e] \in Settled
  BY <1>1, WriterOf DEF Writes
<1>y. PICK yes \in BOOLEAN : yes = TRUE
  OBVIOUS
<1> DEFINE x == c.content[e]
           b == Leaves(c, t, e, yes, x)
<1>3. b = [c EXCEPT !.readers[e] = @ \ {t}, !.will[e] = TRUE]
  <2>1. [c.writer EXCEPT ![e] = NoTrans] = c.writer /\ [c.content EXCEPT ![e] = x] = c.content
    BY <1>0, <1>2, Fields
  <2> QED BY <1>0, <1>y, <2>1 DEF Leaves, CacheState
<1>4. DoneReadingFromEntry(c, t) = Forgets(b, t, "READ")
  <2>1. [c.mode EXCEPT ![t] = "READ"] = c.mode
    BY <1>0, Fields
  <2> QED BY <1>0, <1>1, <1>3, <2>1, ZenonT(60) DEF DoneReadingFromEntry, ProcessPendingQueue, Forgets, CacheState
<1>5. x \in Contents
  BY <1>0, Fields
<1> HIDE DEF x
<1>6. /\ b \in CacheState /\ SameTrans(c, b) /\ SameOps(c, b) /\ SameBackend(c, b)
      /\ b.active = c.active /\ b.doomed = c.doomed /\ b.queue = c.queue /\ b.stored = c.stored
      /\ \A k \in Entries \ {e} : /\ b.writer[k] = c.writer[k] /\ b.readers[k] = c.readers[k]
                                  /\ b.will[k] = c.will[k] /\ b.content[k] = c.content[k]
      /\ b.writer[e] = NoTrans /\ b.readers[e] = c.readers[e] \ {t}
      /\ b.will[e] = yes /\ b.content[e] = x
  BY <1>0, <1>5, LeavesResult
<1> HIDE DEF b
<1>7. Inv(b, t, NoEntry)
  <2>1. b.will[e] /\ b.content[e] = c.content[e] /\ b.content[e] \in Settled
    BY <1>2, <1>y, <1>6 DEF x
  <2> QED BY <1>2, <1>6, <2>1, LeavesKeeps
<1> QED BY <1>0, <1>4, <1>6, <1>7, ForgetsResult DEF SameTrans, SameOps

\* A transaction leaves the entry that it holds, for good.
LEMMA DoneWith ==
  ASSUME NEW c, Inv(c, NoTrans, NoEntry), c.run = Idle, NEW t \in Trans, c.entry[t] # NoEntry,
         c.pc[t] \notin CachePending, NEW cancel, NEW resumable, NEW flagged
  PROVE  LET d == DoneWithEntry(c, t, cancel, resumable, flagged)
         IN  /\ Inv(d, t, NoEntry) /\ d.pc = c.pc /\ d.mode = c.mode
             /\ d.run = Idle \/ Racing(d.run)
<1>0. c \in CacheState
  BY DEF Inv
<1>1. PICK e \in Entries : e = c.entry[t]
  BY WriterOf
<1>2. /\ t \in Holders(c, e)
      /\ Writes(c.mode[t]) => c.writer[e] = t
      /\ ~Writes(c.mode[t]) => c.writer[e] = NoTrans /\ t \in c.readers[e] /\ c.mode[t] = "READ"
  BY <1>1, WriterOf
<1>3. ~(c.will[e] /\ c.readers[e] = {}) /\ t # NoTrans
  BY <1>2, HolderOf
<1>4. CASE ~Writes(c.mode[t])
  <2>1. DoneWithEntry(c, t, cancel, resumable, flagged) = DoneReadingFromEntry(c, t)
    BY <1>1, <1>2, <1>3, <1>4 DEF DoneWithEntry
  <2>2. DoneReadingFromEntry(c, t).mode = c.mode
    BY <1>0 DEF DoneReadingFromEntry, ProcessPendingQueue, CacheState
  <2>3. c.mode[t] = "READ"
    BY <1>2, <1>4
  <2> QED BY <2>1, <2>2, <2>3, DoneReads
<1>5. CASE Writes(c.mode[t]) /\ cancel /\ resumable
  <2>1. PICK x \in Settled : x = IF flagged THEN "truncated" ELSE "unmarked"
    BY DEF Settled, PassesForWhole
  <2>2. DoneWithEntry(c, t, cancel, resumable, flagged) = Kept(c, e, x)
    BY <1>1, <1>2, <1>3, <1>5, <2>1 DEF DoneWithEntry, Kept, Filled
  <2>3. c.writer[e] = t
    BY <1>2, <1>5
  <2> QED BY <2>2, <2>3, Keeps DEF SameTrans, SameOps
<1>6. CASE Writes(c.mode[t]) /\ ~(cancel /\ resumable)
  <2>1. DoneWithEntry(c, t, cancel, resumable, flagged) = Failed(c, e)
    BY <1>1, <1>2, <1>3, <1>6 DEF DoneWithEntry, Failed
  <2> QED BY <1>2, <1>6, <2>1, Fails DEF SameTrans
<1> QED BY <1>4, <1>5, <1>6

(***************************************************************************)
(* The way of a transaction in flight to an entry.                         *)
(***************************************************************************)
LEMMA GoesOn ==
  ASSUME NEW t \in Trans, NEW f, NEW c, Inv(c, t, f), NEW p \in Places
  PROVE  LET d == Goes(c, t, p)
         IN  /\ Inv(d, t, f) /\ d.pc[t] = p /\ d.mode = c.mode /\ d.entry = c.entry
             /\ SameLocks(c, d) /\ SameOps(c, d)
<1> DEFINE d == Goes(c, t, p)
           g == [c.pc EXCEPT ![t] = p]
<1>0. c \in CacheState
  BY DEF Inv
<1>1. /\ g \in [Trans -> Places] /\ g[t] = p
      /\ \A u \in Others(t) : g[u] = c.pc[u]
  BY <1>0, Fields DEF Others
<1>2. d = [c EXCEPT !.pc = g]
  BY <1>0 DEF Goes, CacheState
<1> HIDE DEF d, g
<1>3. /\ d \in CacheState /\ SameLocks(c, d) /\ SameDisk(c, d) /\ SameOps(c, d) /\ SameBackend(c, d)
      /\ d.pc = g /\ d.entry = c.entry /\ d.mode = c.mode
  BY <1>0, <1>1, <1>2 DEF CacheState, SameLocks, SameDisk, SameOps, SameBackend
<1>4. OnlyTrans(c, d, t)
  BY <1>1, <1>3 DEF OnlyTrans
<1>5. Inv(d, t, f)
  BY <1>3, <1>4, FreeMove
<1> QED BY <1>1, <1>3, <1>5 DEF d

\* The active entry is doomed, and remains open for those who have it.
Dooms(c) == [c EXCEPT !.doomed = @ \cup {c.active}, !.active = NoEntry]

LEMMA DoomsActive ==
  ASSUME NEW x, NEW f, NEW c, Inv(c, x, f), c.active # NoEntry
  PROVE  LET d == Dooms(c)
         IN  Inv(d, x, f) /\ SameTrans(c, d) /\ SameOps(c, d) /\ d.active = NoEntry
<1> DEFINE d == Dooms(c)
<1>0. c \in CacheState /\ c.active \in Entries
  <2>1. c \in CacheState
    BY DEF Inv
  <2> QED BY <2>1, Fields
<1>1. /\ d \in CacheState /\ SameTrans(c, d) /\ SameOps(c, d) /\ SameBackend(c, d) /\ SameDisk(c, d)
      /\ d.writer = c.writer /\ d.readers = c.readers /\ d.queue = c.queue /\ d.will = c.will
      /\ d.active = NoEntry /\ d.doomed = c.doomed \cup {c.active}
  BY <1>0 DEF Dooms, CacheState, SameTrans, SameOps, SameBackend, SameDisk
<1> HIDE DEF d
<1>a. \A k \in Entries : Holders(d, k) = Holders(c, k)
  BY <1>1 DEF Holders
<1>b. Live(d) = Live(c) /\ Live(c) \subseteq Entries
  BY <1>0, <1>1, Fields DEF Live
<1>2. Locks(d, x)
  BY <1>1, <1>a DEF Inv, Locks, SameTrans
<1>3. Upkeep(d, x, f)
  <2>1. \A k \in Entries \ Live(d) :
          /\ ~d.will[k] /\ d.queue[k] = <<>>
          /\ \A u \in Others(x) : d.entry[u] = k => d.pc[u] = "add"
    BY <1>1, <1>b, ZenonT(60) DEF Inv, Upkeep, SameTrans
  <2>2. \A k \in Live(d) \ {f} : Holders(d, k) # {} \/ d.will[k]
    BY <1>1, <1>a, <1>b DEF Inv, Upkeep
  <2>3. d.active \notin d.doomed
    BY <1>0, <1>1, Fields
  <2> QED BY <2>1, <2>2, <2>3 DEF Upkeep
<1>4. PlacesOK(d, x)
  BY <1>1 DEF Inv, PlacesOK, PlaceOK, SameTrans
<1>5. Disk(d, x, f)
  BY <1>1, <1>b DEF Inv, Disk, Trusts, SameTrans, SameDisk
<1>6. Operations(d)
  BY <1>1 DEF Inv, Operations, SameOps
<1>7. Waiting(d, x)
  <2>1. OnlyTrans(c, d, x)
    BY <1>1 DEF SameTrans, OnlyTrans
  <2> QED BY <1>0, <1>1, <2>1, WaitingFrame DEF Inv
<1> QED BY <1>1, <1>2, <1>3, <1>4, <1>5, <1>6, <1>7 DEF Inv, d

\* A transaction dooms what it believes to be its own entry.
LEMMA DoomsOwn ==
  ASSUME NEW x, NEW f, NEW c, Inv(c, x, f)
  PROVE  LET d == DoomEntry(c, NoTrans)
         IN  Inv(d, x, f) /\ SameTrans(c, d) /\ d.run = c.run
<1>0. c \in CacheState
  BY DEF Inv
<1>1. CASE c.active = NoEntry
  <2>1. DoomEntry(c, NoTrans) = GetPendingOp(c, "doom", NoTrans)
    BY <1>1 DEF DoomEntry
  <2>2. Inv(GetPendingOp(c, "doom", NoTrans), x, f)
    BY <1>1, GetPendingOpForNobody
  <2>3. LET d == GetPendingOp(c, "doom", NoTrans) IN SameTrans(c, d) /\ d.run = c.run
    BY <1>0, GetPendingOpResult
  <2> QED BY <2>1, <2>2, <2>3
<1>2. CASE c.active # NoEntry
  <2>1. DoomEntry(c, NoTrans) = Dooms(c)
    BY <1>2 DEF DoomEntry, Dooms
  <2>2. LET d == Dooms(c) IN Inv(d, x, f) /\ SameTrans(c, d) /\ SameOps(c, d)
    BY <1>2, DoomsActive
  <2> QED BY <2>1, <2>2 DEF SameOps
<1> QED BY <1>1, <1>2

\* A transaction waits for the operation that it asks for.
LEMMA WaitsFor ==
  ASSUME NEW t \in Trans, NEW c, Inv(c, t, NoEntry), c.active = NoEntry, c.entry[t] = NoEntry,
         NEW kind \in {"open", "create", "doom"},
         kind = "open" => c.mode[t] \in {"READ", "READ_WRITE", "UPDATE"},
         kind # "open" => c.mode[t] = "WRITE"
  PROVE  Inv(GetPendingOp(Goes(c, t, kind), kind, t), NoTrans, NoEntry)
<1> DEFINE d == Goes(c, t, kind)
<1>1. kind \in Places
  BY DEF Places
<1>2. /\ Inv(d, t, NoEntry) /\ d.pc[t] = kind /\ d.mode = c.mode /\ d.entry = c.entry
      /\ SameLocks(c, d)
  BY <1>1, GoesOn
<1> HIDE DEF d
<1>3. PlaceOK(d, t) /\ d.active = NoEntry
  BY <1>2 DEF PlaceOK, SameLocks
<1>4. Inv(GetPendingOp(d, kind, t), NoTrans, NoEntry)
  BY <1>2, <1>3, GetPendingOpFor
<1> QED BY <1>4 DEF d

LEMMA Creates ==
  ASSUME NEW t \in Trans, NEW c, Inv(c, t, NoEntry), c.active = NoEntry, c.entry[t] = NoEntry,
         c.mode[t] = "WRITE"
  PROVE  Inv(CreateEntry(c, t), NoTrans, NoEntry)
BY WaitsFor DEF CreateEntry

LEMMA InitEntry ==
  ASSUME NEW t \in Trans, NEW c, Inv(c, t, NoEntry), c.mode[t] # "NONE"
  PROVE  Inv(DoInitEntry(c, t), NoTrans, NoEntry)
<1> DEFINE m == c.mode[t]
           d == Forgets(c, t, m)
<1>0. c \in CacheState /\ m \in Modes
  <2>1. c \in CacheState
    BY DEF Inv
  <2> QED BY <2>1, Fields
<1>1. /\ Inv(d, t, NoEntry) /\ d.entry[t] = NoEntry /\ d.mode[t] = m /\ SameLocks(c, d)
  BY <1>0, ForgetsResult
<1>2. d = [c EXCEPT !.entry[t] = NoEntry]
  BY <1>0 DEF Forgets, CacheState
<1> HIDE DEF d
<1>3. d \in CacheState
  BY <1>1 DEF Inv
<1>4. CASE m # "WRITE"
  <2>1. DoInitEntry(c, t) = OpenEntry(d, t)
    BY <1>2, <1>4 DEF DoInitEntry
  <2>2. m \in {"READ", "READ_WRITE", "UPDATE"}
    BY <1>0, <1>4 DEF Modes
  <2> HIDE DEF m
  <2>3. CASE d.active # NoEntry
    <3>1. d.active \in Live(d)
      BY <2>3 DEF Live
    <3>2. d.mode[t] # "NONE" /\ d.mode[t] # "WRITE" /\ NoEntry # d.active /\ NoEntry \in {NoEntry, d.active}
      BY <1>1, <2>2, <2>3
    <3>3. Inv(AddTransactionToEntry(d, d.active, t), NoTrans, NoEntry)
      BY <1>1, <3>1, <3>2, Asks
    <3> QED BY <2>1, <2>3, <3>3 DEF OpenEntry
  <2>4. CASE d.active = NoEntry
    <3>1. Inv(GetPendingOp(Goes(d, t, "open"), "open", t), NoTrans, NoEntry)
      BY <1>1, <2>2, <2>4, WaitsFor
    <3> QED BY <2>1, <2>4, <3>1 DEF OpenEntry
  <2> QED BY <2>3, <2>4
<1>5. CASE m = "WRITE" /\ c.active = NoEntry
  <2>1. d.active = NoEntry
    BY <1>1, <1>5 DEF SameLocks
  <2>2. Goes(d, t, "doom").active = NoEntry
    BY <1>3, <2>1 DEF Goes, CacheState
  <2>3. DoInitEntry(c, t) = GetPendingOp(Goes(d, t, "doom"), "doom", t)
    BY <1>2, <1>5, <2>2 DEF DoInitEntry, DoomEntry
  <2> HIDE DEF m
  <2> QED BY <1>1, <1>5, <2>1, <2>3, WaitsFor
<1>6. CASE m = "WRITE" /\ c.active # NoEntry
  <2>1. d.active # NoEntry
    BY <1>1, <1>6 DEF SameLocks
  <2>2. DoInitEntry(c, t) = CreateEntry(Dooms(d), t)
    BY <1>2, <1>6, <2>1 DEF DoInitEntry, DoomEntry, Dooms
  <2>3. LET b == Dooms(d)
        IN  Inv(b, t, NoEntry) /\ SameTrans(d, b) /\ b.active = NoEntry
    BY <1>1, <2>1, DoomsActive
  <2> HIDE DEF m
  <2> QED BY <1>1, <1>6, <2>2, <2>3, Creates DEF SameTrans
<1> QED BY <1>4, <1>5, <1>6

\* The backend is there, or will never be.
LEMMA BackendComplete ==
  ASSUME NEW t \in Trans, NEW c, Inv(c, t, NoEntry), c.entry[t] = NoEntry
  PROVE  Inv(DoGetBackendComplete(c, t), NoTrans, NoEntry)
<1>0. c \in CacheState /\ "NONE" \in Modes
  BY DEF Inv, Modes
<1>1. CASE ~c.ready \/ c.mode[t] = "NONE"
  <2> DEFINE b == Forgets(c, t, "NONE")
             p == IF c.mode[t] = "READ" THEN "done" ELSE "send"
  <2>1. Inv(b, t, NoEntry) /\ b.entry[t] = NoEntry /\ b.mode[t] = "NONE"
    BY <1>0, ForgetsResult
  <2>2. DoGetBackendComplete(c, t) = Goes(b, t, p)
    <3>1. [c.entry EXCEPT ![t] = NoEntry] = c.entry
      BY <1>0, Fields
    <3>2. [c EXCEPT !.mode[t] = "NONE"] = b
      BY <1>0, <3>1 DEF Forgets, CacheState
    <3> HIDE DEF b
    <3> QED BY <1>1, <3>2 DEF DoGetBackendComplete
  <2>3. /\ p \in Places \ CachePending
        /\ p \in {"gone", "done"} \/ (p \in {"send", "headers", "netRead"} /\ b.mode[t] = "NONE")
    BY <2>1 DEF Places, CachePending
  <2> HIDE DEF b, p
  <2> QED BY <2>1, <2>2, <2>3, GoesAway
<1>2. CASE ~(~c.ready \/ c.mode[t] = "NONE")
  BY <1>2, InitEntry DEF DoGetBackendComplete
<1> QED BY <1>1, <1>2

\* The entry could not be opened.
LEMMA OpenFailed ==
  ASSUME NEW t \in Trans, NEW c, Inv(c, t, NoEntry), c.active = NoEntry, c.entry[t] = NoEntry
  PROVE  Inv(DoOpenEntryFailed(c, t), NoTrans, NoEntry)
<1>0. c \in CacheState /\ "NONE" \in Modes /\ "WRITE" \in Modes
  BY DEF Inv, Modes
<1>a. [c.entry EXCEPT ![t] = NoEntry] = c.entry
  BY <1>0, Fields
<1>1. CASE c.mode[t] = "READ_WRITE"
  <2> DEFINE b == Forgets(c, t, "WRITE")
  <2>1. Inv(b, t, NoEntry) /\ b.entry[t] = NoEntry /\ b.mode[t] = "WRITE" /\ SameLocks(c, b)
    BY <1>0, ForgetsResult
  <2>2. DoOpenEntryFailed(c, t) = CreateEntry(b, t)
    <3>1. [c EXCEPT !.mode[t] = "WRITE"] = b
      BY <1>0, <1>a DEF Forgets, CacheState
    <3> HIDE DEF b
    <3> QED BY <1>1, <3>1 DEF DoOpenEntryFailed
  <2> HIDE DEF b
  <2> QED BY <2>1, <2>2, Creates DEF SameLocks
<1>2. CASE c.mode[t] = "UPDATE"
  <2> DEFINE b == Forgets(c, t, "NONE")
  <2>1. Inv(b, t, NoEntry) /\ b.entry[t] = NoEntry /\ b.mode[t] = "NONE"
    BY <1>0, ForgetsResult
  <2>2. DoOpenEntryFailed(c, t) = Goes(b, t, "send")
    <3>1. [c EXCEPT !.mode[t] = "NONE"] = b
      BY <1>0, <1>a DEF Forgets, CacheState
    <3> HIDE DEF b
    <3> QED BY <1>2, <3>1 DEF DoOpenEntryFailed
  <2>3. "send" \in Places \ CachePending
    BY DEF Places, CachePending
  <2> HIDE DEF b
  <2> QED BY <2>1, <2>2, <2>3, GoesAway
<1>3. CASE c.mode[t] \notin {"READ_WRITE", "UPDATE"}
  <2>1. DoOpenEntryFailed(c, t) = Goes(c, t, "done")
    BY <1>3 DEF DoOpenEntryFailed
  <2>2. "done" \in Places \ CachePending
    BY DEF Places, CachePending
  <2> QED BY <2>1, <2>2, GoesAway
<1> QED BY <1>1, <1>2, <1>3

\* A transaction that waited is told the result: what it finds, |f| being the entry that
\* was made for it.
LEMMA Notifies ==
  ASSUME NEW t \in Trans, NEW f, NEW c, Inv(c, t, f), NEW item \in Item, item.trans = t,
         c.pc[t] = item.kind, PlaceOK(c, t), NEW result \in {"RACE", "OK", "FAIL"},
         f = NoEntry \/ (result = "OK" /\ item.kind \in {"open", "create"} /\ f = c.active),
         item.kind = "doom" /\ result # "RACE" => c.active = NoEntry,
         item.kind \in {"add", "init"} => result = "RACE",
         result = "FAIL" /\ item.kind = "open" => c.active = NoEntry,
         result = "OK" /\ item.kind \in {"open", "create"} =>
           /\ c.active # NoEntry
           /\ f = NoEntry => item.kind = "open"
           /\ f # NoEntry => /\ ~Busy(c, f, t)
                             /\ c.content[f] \in Settled \/ item.kind = "create"
  PROVE  Inv(NotifyTransaction(c, item, result), NoTrans, NoEntry)
<1>0. /\ c \in CacheState /\ t # NoTrans /\ "NONE" \in Modes
      /\ item.kind \in {"open", "create", "doom", "add", "init"}
  BY DEF Inv, Item, Modes
<1>1. CASE result = "RACE"
  <2>1. NotifyTransaction(c, item, result) = DoInitEntry(c, t)
    BY <1>0, <1>1 DEF NotifyTransaction
  <2>2. c.mode[t] # "NONE" /\ f = NoEntry
    BY <1>0, <1>1 DEF PlaceOK
  <2> QED BY <2>1, <2>2, InitEntry
<1>2. CASE result # "RACE" /\ item.kind = "doom"
  <2>1. NotifyTransaction(c, item, result) = CreateEntry(c, t)
    BY <1>0, <1>2 DEF NotifyTransaction
  <2>2. c.mode[t] = "WRITE" /\ f = NoEntry /\ c.entry[t] = NoEntry /\ c.active = NoEntry
    BY <1>0, <1>2 DEF PlaceOK
  <2> QED BY <2>1, <2>2, Creates
<1>3. CASE result = "OK" /\ item.kind \in {"open", "create"}
  <2>1. NotifyTransaction(c, item, result) = AddTransactionToEntry(c, c.active, t)
    BY <1>0, <1>3 DEF NotifyTransaction
  <2> DEFINE e == c.active
  <2>2. e \in Live(c) /\ f \in {NoEntry, e} /\ e # NoEntry
    BY <1>3 DEF Live
  <2>3. /\ c.mode[t] # "NONE"
        /\ item.kind = "open" => c.mode[t] # "WRITE"
        /\ item.kind = "create" => c.mode[t] = "WRITE"
    BY <1>3 DEF PlaceOK
  <2>4. f = e \/ c.mode[t] = "WRITE" => ~Busy(c, e, t)
    BY <1>3, <2>2, <2>3
  <2>5. f = e => c.content[e] \in Settled \/ c.mode[t] = "WRITE"
    BY <1>3, <2>2, <2>3
  <2> HIDE DEF e
  <2>6. Inv(AddTransactionToEntry(c, e, t), NoTrans, NoEntry)
    BY <2>2, <2>3, <2>4, <2>5, Asks
  <2> QED BY <2>1, <2>6 DEF e
<1>4. CASE result = "FAIL" /\ item.kind = "open"
  <2>1. NotifyTransaction(c, item, result) = DoOpenEntryFailed(c, t)
    BY <1>0, <1>4 DEF NotifyTransaction
  <2>2. f = NoEntry /\ c.entry[t] = NoEntry /\ c.active = NoEntry
    BY <1>0, <1>4 DEF PlaceOK
  <2> QED BY <2>1, <2>2, OpenFailed
<1>5. CASE result = "FAIL" /\ item.kind = "create"
  <2> DEFINE b == Forgets(c, t, "NONE")
  <2>0. f = NoEntry /\ c.entry[t] = NoEntry
    BY <1>5 DEF PlaceOK
  <2>1. Inv(b, t, NoEntry) /\ b.entry[t] = NoEntry /\ b.mode[t] = "NONE"
    BY <1>0, <2>0, ForgetsResult
  <2>2. NotifyTransaction(c, item, result) = Goes(b, t, "send")
    <3>1. [c.entry EXCEPT ![t] = NoEntry] = c.entry
      BY <1>0, <2>0, Fields
    <3>2. [c EXCEPT !.mode[t] = "NONE"] = b
      BY <1>0, <3>1 DEF Forgets, CacheState
    <3> HIDE DEF b
    <3> QED BY <1>0, <1>5, <3>2 DEF NotifyTransaction
  <2>3. "send" \in Places \ CachePending
    BY DEF Places, CachePending
  <2> HIDE DEF b
  <2> QED BY <2>1, <2>2, <2>3, GoesAway
<1> QED BY <1>0, <1>1, <1>2, <1>3, <1>4, <1>5

\* It waits for the backend.
Queues(c, t) == [c EXCEPT !.bkQueue = Append(@, t)]

LEMMA WaitsForBackend ==
  ASSUME NEW t \in Trans, NEW c, Inv(c, t, NoEntry), c.entry[t] = NoEntry
  PROVE  Inv(Queues(Goes(c, t, "getBackend"), t), NoTrans, NoEntry)
<1> DEFINE b == Goes(c, t, "getBackend")
           d == Queues(b, t)
<1>1. /\ Inv(b, t, NoEntry) /\ b.pc[t] = "getBackend" /\ b.entry[t] = NoEntry
  <2>1. "getBackend" \in Places
    BY DEF Places
  <2> QED BY <2>1, GoesOn
<1> HIDE DEF b
<1>0. b \in CacheState /\ b.bkQueue \in Seq(Trans)
  <2>1. b \in CacheState
    BY <1>1 DEF Inv
  <2> QED BY <2>1, Fields
<1>2. Standing(b, NoTrans, NoEntry)
  BY <1>1, Parks DEF PlaceOK, CachePending
<1>3. /\ d \in CacheState /\ SameLocks(b, d) /\ SameDisk(b, d) /\ SameTrans(b, d) /\ SameOps(b, d)
      /\ d.bkWriter = b.bkWriter /\ d.bkQueue = Append(b.bkQueue, t)
  <2>1. Append(b.bkQueue, t) \in Seq(Trans)
    BY <1>0
  <2> QED BY <1>0, <2>1, ZenonT(60) DEF Queues, CacheState, SameLocks, SameDisk, SameTrans, SameOps
<1> HIDE DEF d
<1>4. IsInjective(b.bkQueue) /\ ~Contains(b.bkQueue, t) /\ b.bkWriter # t
  BY <1>1, Nowhere DEF Inv, Waiting, Once
<1>5. /\ \A y : Contains(d.bkQueue, y) <=> Contains(b.bkQueue, y) \/ y = t
      /\ IsInjective(d.bkQueue)
      /\ Len(d.bkQueue) = Len(b.bkQueue) + 1
      /\ \A i \in 1..Len(b.bkQueue) : d.bkQueue[i] = b.bkQueue[i]
      /\ d.bkQueue[Len(b.bkQueue) + 1] = t
  BY <1>0, <1>3, <1>4, AppendMembers
<1>6. Registered(d, NoTrans)
  <2>1. Registered(b, NoTrans)
    BY <1>0, <1>1, ItemsLand DEF Inv, Waiting
  <2>2. /\ ItemOK(d, NoTrans, d.opWriter)
        /\ \A i \in 1..Len(d.opQueue) : ItemOK(d, NoTrans, d.opQueue[i])
        /\ \A i \in 1..Len(d.run.items) : ItemOK(d, NoTrans, d.run.items[i])
    BY <1>3, <2>1, ItemSame DEF Registered, SameOps, SameTrans
  <2>3. \A e \in Entries : \A i \in 1..Len(d.queue[e]) :
          d.queue[e][i] # NoTrans /\ d.pc[d.queue[e][i]] = "add" /\ d.entry[d.queue[e][i]] = e
    BY <1>3, <2>1 DEF Registered, SameLocks, SameTrans
  <2>4. ASSUME NEW i \in 1..Len(d.bkQueue)
        PROVE  d.bkQueue[i] # NoTrans /\ d.pc[d.bkQueue[i]] = "getBackend"
    <3>1. CASE i \in 1..Len(b.bkQueue)
      BY <1>3, <1>5, <2>1, <3>1 DEF Registered, SameTrans
    <3>2. CASE i = Len(b.bkQueue) + 1
      BY <1>1, <1>3, <1>5, <3>2 DEF SameTrans
    <3> QED BY <1>0, <1>5, <3>1, <3>2
  <2>5. d.bkWriter # NoTrans => d.pc[d.bkWriter] = "getBackend"
    BY <1>3, <2>1 DEF Registered, SameTrans
  <2> QED BY <2>2, <2>3, <2>4, <2>5 DEF Registered
<1>7. Once(d)
  BY <1>1, <1>3, <1>4, <1>5 DEF Inv, Waiting, Once, SameOps, SameLocks
<1>8. ASSUME NEW u \in Others(NoTrans) PROVE WaitsSomewhere(d, u)
  <2>1. CASE u = t
    BY <1>1, <1>3, <1>5, <2>1 DEF WaitsSomewhere, SameTrans
  <2>2. CASE u # t
    <3>1. WaitsSomewhere(b, u)
      BY <1>1, <2>2 DEF Inv, Waiting, Others
    <3> QED BY <1>3, <1>5, <3>1 DEF WaitsSomewhere, SameTrans, SameOps, SameLocks
  <2> QED BY <2>1, <2>2
<1>9. Standing(d, NoTrans, NoEntry)
  BY <1>2, <1>3, StandingFrame
<1>10. Operations(d)
  BY <1>1, <1>3 DEF Inv, Operations, SameOps, SameLocks
<1> QED BY <1>3, <1>6, <1>7, <1>8, <1>9, <1>10 DEF Inv, Standing, Waiting, d, b

\* It is the last to be told to start again.
StartsAgain(c, t) ==
  [c EXCEPT !.run = [op |-> "add", ok |-> FALSE, fail |-> TRUE,
                     items |-> Append(@.items, [kind |-> "init", trans |-> t])]]

LEMMA WaitsToStart ==
  ASSUME NEW t \in Trans, NEW c, Inv(c, t, NoEntry), c.entry[t] = NoEntry, c.mode[t] = "WRITE",
         c.run = Idle \/ Racing(c.run)
  PROVE  Inv(StartsAgain(Goes(c, t, "init"), t), NoTrans, NoEntry)
<1> DEFINE b == Goes(c, t, "init")
           item == [kind |-> "init", trans |-> t]
           r == Append(b.run.items, item)
           d == StartsAgain(b, t)
<1>1. /\ Inv(b, t, NoEntry) /\ b.pc[t] = "init" /\ b.entry[t] = NoEntry /\ b.mode[t] = "WRITE"
      /\ b.run = c.run
  <2>1. "init" \in Places
    BY DEF Places
  <2> QED BY <2>1, GoesOn DEF SameOps
<1> HIDE DEF b
<1>0. b \in CacheState /\ b.run.items \in Seq(Item) /\ item \in Item
  <2>1. b \in CacheState
    BY <1>1 DEF Inv
  <2> QED BY <2>1, Fields DEF Item
<1>a. item.trans = t /\ item.kind = "init" /\ t # NoTrans
  OBVIOUS
<1> HIDE DEF item
<1>2. Standing(b, NoTrans, NoEntry)
  BY <1>1, Parks DEF PlaceOK, CachePending
<1>b. /\ NamesOnce(b.run.items) /\ ~Names(b.run.items, t) /\ b.opWriter.trans # t
      /\ ~Names(b.opQueue, t) /\ \A e \in Entries : ~Contains(b.queue[e], t)
  BY <1>1, Nowhere DEF Inv, Waiting, Once
<1>c. /\ r \in Seq(Item) /\ NamesOnce(r)
      /\ \A u : Names(r, u) <=> Names(b.run.items, u) \/ u = t
      /\ \A i \in 1..Len(r) : r[i] = item \/ \E j \in 1..Len(b.run.items) : r[i] = b.run.items[j]
  BY <1>0, <1>a, <1>b, AppendNames
<1>d. r # <<>>
  <2>1. Names(r, t)
    BY <1>c
  <2> HIDE DEF r
  <2> QED BY <2>1 DEF Names
<1> HIDE DEF r
<1>3. /\ d \in CacheState /\ SameLocks(b, d) /\ SameDisk(b, d) /\ SameTrans(b, d) /\ SameBackend(b, d)
      /\ d.opWriter = b.opWriter /\ d.opQueue = b.opQueue
      /\ d.run.items = r /\ d.run.fail /\ ~d.run.ok
  <2>1. d = [b EXCEPT !.run = [op |-> "add", ok |-> FALSE, fail |-> TRUE, items |-> r]]
    BY DEF StartsAgain, r, item
  <2> HIDE DEF d
  <2> QED BY <1>0, <1>c, <2>1, ZenonT(60) DEF CacheState, SameLocks, SameDisk, SameTrans, SameBackend
<1> HIDE DEF d
<1>4. Registered(d, NoTrans)
  <2>1. Registered(b, NoTrans)
    BY <1>0, <1>1, ItemsLand DEF Inv, Waiting
  <2>2. /\ ItemOK(d, NoTrans, d.opWriter)
        /\ \A i \in 1..Len(d.opQueue) : ItemOK(d, NoTrans, d.opQueue[i])
    BY <1>3, <2>1, ItemSame DEF Registered, SameTrans
  <2>3. ASSUME NEW i \in 1..Len(r) PROVE ItemOK(d, NoTrans, r[i])
    <3>1. CASE r[i] = item
      BY <1>1, <1>3, <1>a, <3>1 DEF ItemOK, SameTrans
    <3>2. CASE \E j \in 1..Len(b.run.items) : r[i] = b.run.items[j]
      BY <1>3, <2>1, <3>2, ItemSame DEF Registered, SameTrans
    <3> QED BY <1>c, <3>1, <3>2
  <2>4. /\ \A e \in Entries : \A i \in 1..Len(d.queue[e]) :
             d.queue[e][i] # NoTrans /\ d.pc[d.queue[e][i]] = "add" /\ d.entry[d.queue[e][i]] = e
        /\ d.bkWriter # NoTrans => d.bkWriter # NoTrans /\ d.pc[d.bkWriter] = "getBackend"
        /\ \A i \in 1..Len(d.bkQueue) : d.bkQueue[i] # NoTrans /\ d.pc[d.bkQueue[i]] = "getBackend"
    BY <1>3, <2>1 DEF Registered, SameLocks, SameTrans, SameBackend
  <2> QED BY <1>3, <2>2, <2>3, <2>4 DEF Registered
<1>5. Once(d)
  BY <1>1, <1>3, <1>b, <1>c DEF Inv, Waiting, Once, SameLocks, SameBackend
<1>6. ASSUME NEW u \in Others(NoTrans) PROVE WaitsSomewhere(d, u)
  <2>1. CASE u = t
    BY <1>1, <1>3, <1>c, <2>1 DEF WaitsSomewhere, SameTrans
  <2>2. CASE u # t
    <3>1. WaitsSomewhere(b, u)
      BY <1>1, <2>2 DEF Inv, Waiting, Others
    <3> QED BY <1>3, <1>c, <3>1 DEF WaitsSomewhere, SameTrans, SameLocks, SameBackend
  <2> QED BY <2>1, <2>2
<1>7. Standing(d, NoTrans, NoEntry)
  BY <1>2, <1>3, StandingFrame
<1>8. Operations(d)
  <2>1. d.run # Idle
    BY <1>3, <1>d DEF Idle
  <2> QED BY <1>1, <1>3, <1>d, <2>1 DEF Inv, Operations, SameLocks
<1> QED BY <1>3, <1>4, <1>5, <1>6, <1>7, <1>8 DEF Inv, Standing, Waiting, d, b

(***************************************************************************)
(* Those who waited are taken off the lists.                               *)
(***************************************************************************)
\* A list loses the item of one transaction, or of none.
LEMMA Dismissed ==
  ASSUME NEW c, Inv(c, NoTrans, NoEntry), NEW x \in Trans \cup {NoTrans},
         x # NoTrans => c.pc[x] \in CachePending,
         NEW d \in CacheState, SameTrans(c, d), SameDisk(c, d), SameLocks(c, d),
         Operations(d), Registered(d, x), Once(d), \A u \in Others(x) : WaitsSomewhere(d, u)
  PROVE  Inv(d, x, NoEntry)
<1>1. CASE x = NoTrans
  <2>1. Standing(d, NoTrans, NoEntry)
    BY StandingFrame DEF Inv, Standing
  <2> QED BY <1>1, <2>1 DEF Inv, Standing, Waiting
<1>2. CASE x # NoTrans
  <2>1. \A e \in Entries : c.queue[e] = <<>> => d.queue[e] = <<>>
    BY DEF SameLocks
  <2> QED BY <1>2, <2>1, Withdraws DEF SameLocks
<1> QED BY <1>1, <1>2

\* The next in the loop of notifications.
Shortened(c, fail) ==
  [c EXCEPT !.run = IF Len(c.run.items) = 1 THEN Idle
                    ELSE [c.run EXCEPT !.fail = fail, !.items = Tail(@)]]

LEMMA NextInLoop ==
  ASSUME NEW c, Inv(c, NoTrans, NoEntry), c.run # Idle, NEW fail \in BOOLEAN,
         c.run.fail => fail,
         ~c.run.ok /\ ~fail => c.active = NoEntry
  PROVE  LET item == Head(c.run.items)
             d == Shortened(c, fail)
         IN  /\ item \in Item
             /\ Inv(d, item.trans, NoEntry)
             /\ SameTrans(c, d) /\ d.active = c.active
             /\ item.trans # NoTrans => c.pc[item.trans] = item.kind
             /\ item.kind \in {"add", "init"} => c.run.fail
<1> DEFINE q == c.run.items
           h == Head(q)
           x == h.trans
           rest == IF Len(q) = 1 THEN Idle ELSE [c.run EXCEPT !.fail = fail, !.items = Tail(q)]
           d == Shortened(c, fail)
<1>0. /\ c \in CacheState /\ q \in Seq(Item) /\ q # <<>> /\ NamesOnce(q)
  <2>1. c \in CacheState
    BY DEF Inv
  <2> QED BY <2>1, Fields DEF Inv, Operations, Waiting, Once
<1>1. /\ Tail(q) \in Seq(Item) /\ h \in Item /\ NamesOnce(Tail(q))
      /\ Len(q) = 1 => Tail(q) = <<>>
      /\ Len(q) # 1 => Tail(q) # <<>>
      /\ 1 \in 1..Len(q) /\ h = q[1]
      /\ \A i \in 1..Len(Tail(q)) : \E j \in 1..Len(q) : Tail(q)[i] = q[j]
      /\ \A u : Names(q, u) <=> h.trans = u \/ Names(Tail(q), u)
      /\ h.trans # NoTrans => ~Names(Tail(q), h.trans)
  BY <1>0, TailNames
<1>2. /\ rest \in [op : {"none", "open", "create", "doom", "add"}, ok : BOOLEAN, fail : BOOLEAN,
                   items : Seq(Item)]
      /\ rest.items = Tail(q)
      /\ rest = Idle \/ (rest.ok = c.run.ok /\ rest.fail = fail)
      /\ rest = Idle <=> Tail(q) = <<>>
  <2>1. CASE Len(q) = 1
    <3>1. Idle \in [op : {"none", "open", "create", "doom", "add"}, ok : BOOLEAN, fail : BOOLEAN,
                    items : Seq(Item)]
      BY DEF Idle
    <3> QED BY <1>1, <2>1, <3>1 DEF Idle
  <2>2. CASE Len(q) # 1
    <3>1. rest = [c.run EXCEPT !.fail = fail, !.items = Tail(q)]
      BY <2>2
    <3> QED BY <1>0, <1>1, <2>2, <3>1 DEF CacheState, Idle
  <2> QED BY <2>1, <2>2
<1>3. x \in Trans \cup {NoTrans} /\ h.kind \in {"open", "create", "doom", "add", "init"}
  BY <1>1 DEF Item
<1>5. d = [c EXCEPT !.run = rest]
  BY <1>0 DEF Shortened, CacheState
<1> HIDE DEF d, rest
<1>4. /\ d \in CacheState /\ SameTrans(c, d) /\ SameDisk(c, d) /\ SameLocks(c, d) /\ SameBackend(c, d)
      /\ d.opWriter = c.opWriter /\ d.opQueue = c.opQueue /\ d.run = rest
  BY <1>0, <1>2, <1>5 DEF CacheState, SameTrans, SameDisk, SameLocks, SameBackend
<1>6. ItemOK(c, NoTrans, h) /\ (h.kind \in {"add", "init"} => c.run.fail)
  BY <1>1 DEF Inv, Waiting, Registered, Operations
<1>7. x # NoTrans => c.pc[x] = h.kind /\ c.pc[x] \in CachePending
  BY <1>3, <1>6 DEF ItemOK, CachePending
<1>8. x # NoTrans => /\ c.opWriter.trans # x /\ ~Names(c.opQueue, x) /\ ~Names(Tail(q), x)
                     /\ \A e \in Entries : ~Contains(c.queue[e], x)
  BY <1>1, <1>3 DEF Inv, Waiting, Once
<1>9. Registered(d, x)
  <2>a. \A item : ItemOK(c, NoTrans, item) /\ (x = NoTrans \/ item.trans # x) => ItemOK(d, x, item)
    BY <1>4 DEF ItemOK, SameTrans
  <2>1. ItemOK(d, x, d.opWriter)
    BY <1>4, <1>8, <2>a DEF Inv, Waiting, Registered
  <2>2. \A i \in 1..Len(d.opQueue) : ItemOK(d, x, d.opQueue[i])
    BY <1>4, <1>8, <2>a DEF Inv, Waiting, Registered, Names
  <2>3. \A i \in 1..Len(Tail(q)) : ItemOK(d, x, Tail(q)[i])
    <3>1. \A i \in 1..Len(Tail(q)) : ItemOK(c, NoTrans, Tail(q)[i])
      BY <1>1 DEF Inv, Waiting, Registered
    <3>2. \A i \in 1..Len(Tail(q)) : x = NoTrans \/ Tail(q)[i].trans # x
      BY <1>8 DEF Names
    <3> QED BY <2>a, <3>1, <3>2
  <2>4. \A e \in Entries : \A i \in 1..Len(d.queue[e]) :
          d.queue[e][i] # x /\ d.pc[d.queue[e][i]] = "add" /\ d.entry[d.queue[e][i]] = e
    BY <1>4, <1>8 DEF Inv, Waiting, Registered, SameTrans, SameLocks, Contains
  <2>5. /\ d.bkWriter # NoTrans => d.bkWriter # x /\ d.pc[d.bkWriter] = "getBackend"
        /\ \A i \in 1..Len(d.bkQueue) : d.bkQueue[i] # x /\ d.pc[d.bkQueue[i]] = "getBackend"
    <3>1. x # NoTrans => c.pc[x] # "getBackend"
      BY <1>3, <1>7
    <3> QED BY <1>4, <3>1 DEF Inv, Waiting, Registered, SameTrans, SameBackend
  <2> QED BY <1>2, <1>4, <2>1, <2>2, <2>3, <2>4, <2>5 DEF Registered
<1>10. Once(d)
  BY <1>1, <1>2, <1>4 DEF Inv, Waiting, Once, SameLocks, SameBackend
<1>11. \A u \in Others(x) : WaitsSomewhere(d, u)
  <2> SUFFICES ASSUME NEW u \in Others(x) PROVE WaitsSomewhere(d, u)
    OBVIOUS
  <2>1. WaitsSomewhere(c, u)
    BY DEF Inv, Waiting, Others
  <2>2. Names(q, u) <=> Names(Tail(q), u)
    BY <1>1 DEF Others
  <2> QED BY <1>2, <1>4, <2>1, <2>2 DEF WaitsSomewhere, SameTrans, SameLocks, SameBackend
<1>12. Operations(d)
  <2>1. d.run = Idle <=> d.run.items = <<>>
    BY <1>2, <1>4
  <2>2. d.run # Idle /\ ~d.run.ok /\ ~d.run.fail => d.active = NoEntry
    BY <1>2, <1>4 DEF SameLocks
  <2>3. \A i \in 1..Len(d.run.items) : d.run.items[i].kind \in {"add", "init"} => d.run.fail
    <3>1. \A i \in 1..Len(Tail(q)) : Tail(q)[i].kind \in {"add", "init"} => c.run.fail
      BY <1>1 DEF Inv, Operations
    <3>2. CASE rest = Idle
      BY <1>4, <3>2 DEF Idle
    <3>3. CASE rest # Idle
      BY <1>2, <1>4, <3>1, <3>3
    <3> QED BY <3>2, <3>3
  <2> QED BY <1>4, <2>1, <2>2, <2>3 DEF Inv, Operations, SameLocks
<1>13. Inv(d, x, NoEntry)
  BY <1>3, <1>4, <1>7, <1>9, <1>10, <1>11, <1>12, Dismissed
<1> QED BY <1>1, <1>4, <1>6, <1>7, <1>13 DEF SameLocks, d

(***************************************************************************)
(* The steps of a transaction that does not wait for the cache.            *)
(***************************************************************************)
LEMMA SameContent ==
  ASSUME NEW c \in CacheState, NEW d \in CacheState, \A k \in Entries : d.content[k] = c.content[k]
  PROVE  d.content = c.content
<1>1. c.content \in [Entries -> Contents] /\ d.content \in [Entries -> Contents]
  BY Fields
<1>2. c.content = [k \in Entries |-> c.content[k]] /\ d.content = [k \in Entries |-> d.content[k]]
  BY <1>1
<1> QED BY <1>2

\* A transaction goes on with the entry that it holds, if it holds one.
LEMMA Proceeds ==
  ASSUME NEW c, Inv(c, NoTrans, NoEntry), NEW t \in Trans, c.pc[t] \notin CachePending,
         NEW d \in CacheState, SameLocks(c, d), SameOps(c, d), SameBackend(c, d), OnlyTrans(c, d, t),
         d.stored = c.stored, d.entry[t] = c.entry[t], d.pc[t] \notin CachePending, PlaceOK(d, t),
         \A k \in Entries : k # c.entry[t] => d.content[k] = c.content[k],
         c.entry[t] # NoEntry =>
           /\ Writes(c.mode[t]) => Writes(d.mode[t])
           /\ ~Writes(c.mode[t]) => d.mode[t] = "READ" /\ d.content[c.entry[t]] = c.content[c.entry[t]]
           /\ Trusts(d, t) => d.content[c.entry[t]] \in PassesForWhole
           /\ d.content[c.entry[t]] \in Settled \/ d.mode[t] = "WRITE"
  PROVE  Inv(d, NoTrans, NoEntry)
<1>0. c \in CacheState
  BY DEF Inv
<1>1. CASE c.entry[t] = NoEntry
  <2>1. \A k \in Entries : d.content[k] = c.content[k]
    BY <1>1
  <2>2. d.content = c.content
    BY <1>0, <2>1, SameContent
  <2>3. SameDisk(c, d)
    BY <2>2 DEF SameDisk
  <2>4. Inv(c, t, NoEntry)
    BY <1>1, Unattached
  <2>5. Inv(d, t, NoEntry)
    BY <2>3, <2>4, FreeMove
  <2> QED BY <1>1, <2>5, Land
<1>2. CASE c.entry[t] # NoEntry
  <2>1. PICK e \in Entries : c.entry[t] = e
    BY <1>2, WriterOf
  <2>2. /\ t \in Holders(c, e)
        /\ Writes(c.mode[t]) => c.writer[e] = t
        /\ ~Writes(c.mode[t]) => c.writer[e] = NoTrans
    BY <1>2, <2>1, WriterOf
  <2>3. \A k \in Entries \ {e} : d.content[k] = c.content[k]
    BY <2>1
  <2>4. /\ c.writer[e] = t \/ d.content[e] = c.content[e]
        /\ c.writer[e] = t => Writes(d.mode[t])
        /\ c.writer[e] # t => d.mode[t] = "READ"
        /\ Trusts(d, t) => d.content[e] \in PassesForWhole
        /\ d.content[e] \in Settled \/ d.mode[t] = "WRITE"
        /\ d.entry[t] = e
    BY <1>2, <2>1, <2>2
  <2> QED BY <2>2, <2>3, <2>4, HolderStays
<1> QED BY <1>1, <1>2

\* It goes to another place and keeps its mode.
LEMMA GoesTo ==
  ASSUME NEW c, Inv(c, NoTrans, NoEntry), NEW t \in Trans, c.pc[t] \notin CachePending,
         NEW p \in Places \ CachePending, PlaceOK(Goes(c, t, p), t),
         c.entry[t] # NoEntry =>
           /\ Trusts(Goes(c, t, p), t) => c.content[c.entry[t]] \in PassesForWhole
  PROVE  Inv(Goes(c, t, p), NoTrans, NoEntry)
<1> DEFINE d == Goes(c, t, p)
           g == [c.pc EXCEPT ![t] = p]
<1>0. c \in CacheState
  BY DEF Inv
<1>1. /\ g \in [Trans -> Places] /\ g[t] = p
      /\ \A u \in Others(t) : g[u] = c.pc[u]
  BY <1>0, Fields DEF Others
<1>2. d = [c EXCEPT !.pc = g]
  BY <1>0 DEF Goes, CacheState
<1>3. PlaceOK(d, t) /\ (c.entry[t] # NoEntry => (Trusts(d, t) => c.content[c.entry[t]] \in PassesForWhole))
  OBVIOUS
<1> HIDE DEF d, g
<1>4. /\ d \in CacheState /\ SameLocks(c, d) /\ SameDisk(c, d) /\ SameOps(c, d) /\ SameBackend(c, d)
      /\ d.pc = g /\ d.entry = c.entry /\ d.mode = c.mode /\ d.content = c.content
      /\ d.stored = c.stored
  BY <1>0, <1>1, <1>2 DEF CacheState, SameLocks, SameDisk, SameOps, SameBackend
<1>5. OnlyTrans(c, d, t)
  BY <1>1, <1>4 DEF OnlyTrans
<1>6. d.pc[t] \notin CachePending /\ d.entry[t] = c.entry[t]
  BY <1>1, <1>4
<1>7. c.entry[t] # NoEntry =>
        /\ Writes(c.mode[t]) => Writes(d.mode[t])
        /\ ~Writes(c.mode[t]) => d.mode[t] = "READ" /\ d.content[c.entry[t]] = c.content[c.entry[t]]
        /\ Trusts(d, t) => d.content[c.entry[t]] \in PassesForWhole
        /\ d.content[c.entry[t]] \in Settled \/ d.mode[t] = "WRITE"
  BY <1>3, <1>4, WriterOf
<1>8. Inv(d, NoTrans, NoEntry)
  BY <1>3, <1>4, <1>5, <1>6, <1>7, Proceeds
<1> QED BY <1>8 DEF d

\* What a transaction has where it is.
LEMMA PlaceOf ==
  ASSUME NEW c, Inv(c, NoTrans, NoEntry), NEW t \in Trans
  PROVE  /\ PlaceOK(c, t)
         /\ c.entry[t] # NoEntry /\ Trusts(c, t) => c.content[c.entry[t]] \in PassesForWhole
         /\ c.mode[t] \in Modes /\ c.entry[t] \in Entries \cup {NoEntry}
         /\ c \in CacheState
<1>1. t \in Others(NoTrans) /\ c \in CacheState
  BY DEF Others, Inv
<1> QED BY <1>1, Fields DEF Inv, PlacesOK, Disk

\* Its place, mode and entry_ after a move.
LEMMA GoesPlace ==
  ASSUME NEW c \in CacheState, NEW t \in Trans, NEW p \in Places
  PROVE  LET d == Goes(c, t, p)
         IN  d.pc[t] = p /\ d.mode[t] = c.mode[t] /\ d.entry[t] = c.entry[t]
<1> DEFINE g == [c.pc EXCEPT ![t] = p]
<1>1. g[t] = p
  BY Fields
<1>2. Goes(c, t, p) = [c EXCEPT !.pc = g]
  BY DEF Goes, CacheState
<1> HIDE DEF g
<1> QED BY <1>1, <1>2 DEF CacheState

\* The disk loses or gets the response of the key.
LEMMA Restores ==
  ASSUME NEW x, NEW f, NEW c, Inv(c, x, f), NEW d \in CacheState, SameLocks(c, d), SameTrans(c, d),
         SameOps(c, d), SameBackend(c, d), d.content = c.content,
         d.stored \in Settled \cup {"nothing"}
  PROVE  Inv(d, x, f)
<1>a. \A e : Holders(d, e) = Holders(c, e)
  BY DEF Holders, SameLocks
<1>b. Live(d) = Live(c)
  BY DEF Live, SameLocks
<1>1. Locks(d, x) /\ Upkeep(d, x, f)
  BY <1>a, <1>b DEF Inv, Locks, Upkeep, SameLocks, SameTrans
<1>2. PlacesOK(d, x) /\ Disk(d, x, f)
  BY <1>b DEF Inv, PlacesOK, PlaceOK, Disk, Trusts, SameLocks, SameTrans
<1>3. Operations(d)
  BY DEF Inv, Operations, SameLocks, SameOps
<1>4. Waiting(d, x)
  <2>1. Registered(d, x)
    BY DEF Inv, Waiting, Registered, ItemOK, SameLocks, SameOps, SameTrans, SameBackend
  <2>2. Once(d)
    BY DEF Inv, Waiting, Once, SameLocks, SameOps, SameBackend
  <2>3. \A u \in Others(x) : WaitsSomewhere(d, u)
    BY DEF Inv, Waiting, WaitsSomewhere, SameLocks, SameOps, SameTrans, SameBackend
  <2> QED BY <2>1, <2>2, <2>3 DEF Waiting
<1> QED BY <1>1, <1>2, <1>3, <1>4 DEF Inv

LEMMA RestartStep ==
  ASSUME IInv, NEW t \in Trans, Restart(t)
  PROVE  IInv'
<1>0. Inv(cache, NoTrans, NoEntry)
  BY DEF IInv
<1>1. cache.pc[t] \in {"auth", "cert"} /\ cache' = Goes(cache, t, "send")
  BY DEF Restart
<1>2. /\ PlaceOK(cache, t)
      /\ cache.entry[t] # NoEntry /\ Trusts(cache, t) => cache.content[cache.entry[t]] \in PassesForWhole
      /\ cache \in CacheState
  BY <1>0, PlaceOf
<1>3. "send" \in Places \ CachePending /\ cache.pc[t] \notin CachePending
  BY <1>1 DEF Places, CachePending
<1>4. LET d == Goes(cache, t, "send")
      IN  d.pc[t] = "send" /\ d.mode[t] = cache.mode[t] /\ d.entry[t] = cache.entry[t]
  BY <1>2, <1>3, GoesPlace
<1>5. PlaceOK(Goes(cache, t, "send"), t)
  BY <1>1, <1>2, <1>4 DEF PlaceOK
<1>6. Trusts(Goes(cache, t, "send"), t) => Trusts(cache, t)
  BY <1>1, <1>4 DEF Trusts
<1> QED BY <1>0, <1>1, <1>2, <1>3, <1>5, <1>6, GoesTo DEF IInv

LEMMA EvictStep ==
  ASSUME IInv, Evict
  PROVE  IInv'
<1> DEFINE d == [cache EXCEPT !.stored = "nothing"]
<1>0. Inv(cache, NoTrans, NoEntry) /\ cache \in CacheState
  BY DEF IInv, Inv
<1>1. cache' = d
  BY DEF Evict
<1>2. /\ d \in CacheState /\ SameLocks(cache, d) /\ SameOps(cache, d) /\ SameBackend(cache, d)
      /\ SameTrans(cache, d) /\ d.content = cache.content /\ d.stored = "nothing"
  BY <1>0 DEF CacheState, SameLocks, SameOps, SameBackend, SameTrans, Contents
<1> HIDE DEF d
<1> QED BY <1>0, <1>1, <1>2, Restores DEF IInv

\* The client begins to read.
Opened(c, t) == [c EXCEPT !.reading[t] = TRUE]

LEMMA OpensBody ==
  ASSUME NEW x, NEW c, Inv(c, x, NoEntry), NEW t \in Trans
  PROVE  LET d == Opened(c, t)
         IN  Inv(d, x, NoEntry) /\ SameTrans(c, d) /\ SameDisk(c, d)
<1> DEFINE d == Opened(c, t)
           g == [c.reading EXCEPT ![t] = TRUE]
<1>0. c \in CacheState
  BY DEF Inv
<1>1. g \in [Trans -> BOOLEAN]
  BY <1>0 DEF CacheState
<1>2. d = [c EXCEPT !.reading = g]
  BY <1>0 DEF Opened, CacheState
<1> HIDE DEF d, g
<1>3. /\ d \in CacheState /\ SameLocks(c, d) /\ SameDisk(c, d) /\ SameOps(c, d) /\ SameBackend(c, d)
      /\ SameTrans(c, d) /\ d.content = c.content /\ d.stored = c.stored
  BY <1>0, <1>1, <1>2 DEF CacheState, SameLocks, SameDisk, SameOps, SameBackend, SameTrans
<1>4. c.stored \in Settled \cup {"nothing"}
  BY DEF Inv, Disk
<1>5. Inv(d, x, NoEntry)
  BY <1>3, <1>4, Restores
<1> QED BY <1>3, <1>5 DEF d

LEMMA ReadStep ==
  ASSUME IInv, NEW t \in Trans, Read(t)
  PROVE  IInv'
<1> DEFINE gives == cache.pc[t] = "auth" /\ cache.mode[t] # "NONE"
           b == IF gives THEN DoneWritingToEntry(cache, t, cache.mode[t] = "READ_WRITE") ELSE cache
           d == Opened(b, t)
           p == IF b.mode[t] = "READ" THEN "cacheRead" ELSE "netRead"
<1>0. Inv(cache, NoTrans, NoEntry)
  BY DEF IInv
<1>1. cache.run = Idle /\ cache.pc[t] \in {"headers", "auth"} /\ cache' = Goes(d, t, p)
  BY DEF Read, Opened
<1>2. /\ PlaceOK(cache, t)
      /\ cache.entry[t] # NoEntry /\ Trusts(cache, t) => cache.content[cache.entry[t]] \in PassesForWhole
      /\ cache \in CacheState /\ cache.pc[t] \notin CachePending /\ cache.mode[t] \in Modes
  BY <1>0, <1>1, PlaceOf DEF CachePending
<1>3. p \in Places \ CachePending
  BY DEF Places, CachePending
<1>4. CASE gives
  <2>1. /\ cache.mode[t] \in {"WRITE", "READ_WRITE", "UPDATE"} /\ Writes(cache.mode[t])
        /\ cache.entry[t] # NoEntry
    BY <1>2, <1>4 DEF PlaceOK, Modes, Writes
  <2>2. Inv(b, t, NoEntry) /\ b.entry[t] = NoEntry /\ b.mode[t] = "NONE"
    <3>1. CASE cache.mode[t] = "READ_WRITE"
      <4>1. cache.content[cache.entry[t]] \in Settled
        BY <1>2, <1>4, <2>1, <3>1 DEF Trusts, Settled, PassesForWhole
      <4>2. b = DoneWritingToEntry(cache, t, TRUE)
        BY <1>4, <3>1 DEF DoneWritingToEntry, CacheDoneWriting
      <4> HIDE DEF b
      <4> QED BY <1>0, <1>2, <2>1, <4>1, <4>2, Finishes
    <3>2. CASE cache.mode[t] # "READ_WRITE"
      <4>2. b = DoneWritingToEntry(cache, t, FALSE)
        BY <1>4, <3>2 DEF DoneWritingToEntry, CacheDoneWriting
      <4> HIDE DEF b
      <4> QED BY <1>0, <1>1, <1>2, <2>1, <4>2, GivesUp
    <3> QED BY <3>1, <3>2
  <2> HIDE DEF b
  <2>3. Inv(d, t, NoEntry) /\ SameTrans(b, d)
    BY <2>2, OpensBody
  <2> HIDE DEF d
  <2>4. p = "netRead" /\ d.mode[t] = "NONE" /\ d.entry[t] = NoEntry
    BY <2>2, <2>3 DEF SameTrans
  <2>5. Inv(Goes(d, t, p), NoTrans, NoEntry)
    BY <1>3, <2>3, <2>4, GoesAway
  <2> QED BY <1>1, <2>5 DEF IInv
<1>5. CASE ~gives
  <2>1. b = cache
    BY <1>5
  <2> HIDE DEF b
  <2>2. Inv(d, NoTrans, NoEntry) /\ SameTrans(cache, d) /\ SameDisk(cache, d)
    BY <1>0, <2>1, OpensBody
  <2> HIDE DEF d
  <2>3. d \in CacheState
    BY <2>2 DEF Inv
  <2>4. LET g == Goes(d, t, p)
        IN  g.pc[t] = p /\ g.mode[t] = cache.mode[t] /\ g.entry[t] = cache.entry[t]
    BY <1>3, <2>2, <2>3, GoesPlace DEF SameTrans
  <2>5. PlaceOK(Goes(d, t, p), t)
    BY <1>1, <1>2, <1>5, <2>1, <2>4 DEF PlaceOK, Modes
  <2>6. Trusts(Goes(d, t, p), t) => Trusts(cache, t)
    BY <1>1, <1>2, <1>5, <2>1, <2>4 DEF Trusts, PlaceOK
  <2>7. /\ d.pc[t] \notin CachePending
        /\ d.entry[t] # NoEntry => (Trusts(Goes(d, t, p), t) => d.content[d.entry[t]] \in PassesForWhole)
    BY <1>2, <2>2, <2>6 DEF SameTrans, SameDisk
  <2>8. Inv(Goes(d, t, p), NoTrans, NoEntry)
    BY <1>3, <2>2, <2>5, <2>7, GoesTo
  <2> QED BY <1>1, <2>8 DEF IInv
<1> QED BY <1>4, <1>5

LEMMA CacheReadDoneStep ==
  ASSUME IInv, NEW t \in Trans, NEW r \in {"data", "eof", "error"}, CacheReadDone(t, r)
  PROVE  IInv'
<1>0. Inv(cache, NoTrans, NoEntry)
  BY DEF IInv
<1>1. cache.pc[t] = "cacheRead"
  BY DEF CacheReadDone
<1>2. /\ PlaceOK(cache, t)
      /\ cache.entry[t] # NoEntry /\ Trusts(cache, t) => cache.content[cache.entry[t]] \in PassesForWhole
      /\ cache \in CacheState /\ cache.pc[t] \notin CachePending
  BY <1>0, <1>1, PlaceOf DEF CachePending
<1>3. cache.mode[t] = "READ" /\ cache.entry[t] # NoEntry
  BY <1>1, <1>2 DEF PlaceOK
<1>4. {"headers", "done"} \subseteq Places \ CachePending
  BY DEF Places, CachePending
<1>5. CASE r \in {"data", "error"}
  <2> DEFINE p == IF r = "data" THEN "headers" ELSE "done"
  <2>1. cache' = Goes(cache, t, p) /\ p \in {"headers", "done"}
    BY <1>5 DEF CacheReadDone
  <2> HIDE DEF p
  <2>2. LET g == Goes(cache, t, p)
        IN  g.pc[t] = p /\ g.mode[t] = cache.mode[t] /\ g.entry[t] = cache.entry[t]
    BY <1>2, <1>4, <2>1, GoesPlace
  <2>3. PlaceOK(Goes(cache, t, p), t)
    BY <1>3, <2>1, <2>2 DEF PlaceOK
  <2>4. cache.content[cache.entry[t]] \in PassesForWhole
    BY <1>1, <1>2, <1>3 DEF Trusts
  <2>5. Inv(Goes(cache, t, p), NoTrans, NoEntry)
    BY <1>0, <1>2, <1>4, <2>1, <2>3, <2>4, GoesTo
  <2> QED BY <2>1, <2>5 DEF IInv
<1>6. CASE r = "eof"
  <2> DEFINE d == DoneReadingFromEntry(cache, t)
  <2>1. cache' = Goes(d, t, "done")
    BY <1>6 DEF CacheReadDone
  <2>2. Inv(d, t, NoEntry) /\ d.entry[t] = NoEntry
    BY <1>0, <1>2, <1>3, DoneReads
  <2> HIDE DEF d
  <2>3. Inv(Goes(d, t, "done"), NoTrans, NoEntry)
    BY <1>4, <2>2, GoesAway
  <2> QED BY <2>1, <2>3 DEF IInv
<1> QED BY <1>5, <1>6

LEMMA NetworkReadDoneStep ==
  ASSUME IInv, NEW t \in Trans, NEW r \in {"data", "eof", "error"}, NetworkReadDone(t, r)
  PROVE  IInv'
<1>0. Inv(cache, NoTrans, NoEntry)
  BY DEF IInv
<1>1. cache.pc[t] = "netRead"
  BY DEF NetworkReadDone
<1>2. /\ PlaceOK(cache, t) /\ cache.mode[t] \in Modes /\ cache.entry[t] \in Entries \cup {NoEntry}
      /\ cache \in CacheState /\ cache.pc[t] \notin CachePending
  BY <1>0, <1>1, PlaceOf DEF CachePending
<1>3. /\ cache.mode[t] \in {"NONE", "WRITE"}
      /\ cache.entry[t] # NoEntry <=> cache.mode[t] = "WRITE"
  BY <1>1, <1>2 DEF PlaceOK, Modes
<1>4. {"headers", "done", "writeData"} \subseteq Places \ CachePending
  BY DEF Places, CachePending
<1>5. CASE r # "eof" \/ cache.entry[t] = NoEntry
  <2> DEFINE p == IF r = "data" THEN (IF cache.entry[t] = NoEntry THEN "headers" ELSE "writeData")
                  ELSE "done"
  <2>1. cache' = Goes(cache, t, p)
    BY <1>5 DEF NetworkReadDone
  <2>2. /\ p \in {"headers", "done", "writeData"}
        /\ p = "writeData" => cache.entry[t] # NoEntry
        /\ p = "headers" => cache.entry[t] = NoEntry
    OBVIOUS
  <2> HIDE DEF p
  <2>3. LET g == Goes(cache, t, p)
        IN  g.pc[t] = p /\ g.mode[t] = cache.mode[t] /\ g.entry[t] = cache.entry[t]
    BY <1>2, <1>4, <2>2, GoesPlace
  <2>4. PlaceOK(Goes(cache, t, p), t)
    BY <1>3, <2>2, <2>3 DEF PlaceOK
  <2>5. ~Trusts(Goes(cache, t, p), t)
    BY <1>3, <2>3 DEF Trusts
  <2>6. Inv(Goes(cache, t, p), NoTrans, NoEntry)
    BY <1>0, <1>2, <1>4, <2>2, <2>4, <2>5, GoesTo
  <2> QED BY <2>1, <2>6 DEF IInv
<1>6. CASE r = "eof" /\ cache.entry[t] # NoEntry
  <2>0. PICK e \in Entries : cache.entry[t] = e
    BY <1>2, <1>6
  <2> DEFINE d == DoneWritingToEntry(Filled(cache, e, "complete"), t, TRUE)
  <2>1. cache' = Goes(d, t, "done")
    BY <1>6, <2>0 DEF NetworkReadDone, Filled
  <2>2. Writes(cache.mode[t]) /\ "complete" \in Settled
    BY <1>3, <1>6 DEF Writes, Settled, PassesForWhole
  <2>3. Inv(d, t, NoEntry) /\ d.entry[t] = NoEntry
    BY <1>0, <1>2, <2>0, <2>2, FinishesWith, ZenonT(60)
  <2> HIDE DEF d
  <2>4. Inv(Goes(d, t, "done"), NoTrans, NoEntry)
    BY <1>4, <2>3, GoesAway
  <2> QED BY <2>1, <2>4 DEF IInv
<1> QED BY <1>5, <1>6

\* The writer gives up, and the client is served from the network.
LEMMA GivesUpAndServes ==
  ASSUME NEW c, Inv(c, NoTrans, NoEntry), c.run = Idle, NEW t \in Trans, c.pc[t] \notin CachePending,
         c.entry[t] # NoEntry => Writes(c.mode[t]),
         c.entry[t] = NoEntry => c.mode[t] = "NONE"
  PROVE  Inv(Goes(DoneWritingToEntry(c, t, FALSE), t, "headers"), NoTrans, NoEntry)
<1> DEFINE d == DoneWritingToEntry(c, t, FALSE)
<1>1. Inv(d, t, NoEntry) /\ d.entry[t] = NoEntry /\ d.mode[t] = "NONE"
  BY GivesUp
<1>2. "headers" \in Places \ CachePending
  BY DEF Places, CachePending
<1> HIDE DEF d
<1>3. Inv(Goes(d, t, "headers"), NoTrans, NoEntry)
  BY <1>1, <1>2, GoesAway
<1> QED BY <1>3 DEF d

LEMMA DataWrittenStep ==
  ASSUME IInv, NEW t \in Trans, NEW ok \in BOOLEAN, DataWritten(t, ok)
  PROVE  IInv'
<1>0. Inv(cache, NoTrans, NoEntry)
  BY DEF IInv
<1>1. cache.pc[t] = "writeData" /\ cache.run = Idle
  BY DEF DataWritten
<1>2. /\ PlaceOK(cache, t) /\ cache \in CacheState /\ cache.pc[t] \notin CachePending
  BY <1>0, <1>1, PlaceOf DEF CachePending
<1>3. cache.mode[t] = "WRITE" /\ cache.entry[t] # NoEntry
  BY <1>1, <1>2 DEF PlaceOK
<1>4. "headers" \in Places \ CachePending
  BY DEF Places, CachePending
<1>5. CASE ok
  <2>1. cache' = Goes(cache, t, "headers")
    BY <1>5 DEF DataWritten
  <2>2. LET g == Goes(cache, t, "headers")
        IN  g.pc[t] = "headers" /\ g.mode[t] = cache.mode[t] /\ g.entry[t] = cache.entry[t]
    BY <1>2, <1>4, GoesPlace
  <2>3. PlaceOK(Goes(cache, t, "headers"), t) /\ ~Trusts(Goes(cache, t, "headers"), t)
    BY <1>3, <2>2 DEF PlaceOK, Trusts
  <2>4. Inv(Goes(cache, t, "headers"), NoTrans, NoEntry)
    BY <1>0, <1>2, <1>4, <2>3, GoesTo
  <2> QED BY <2>1, <2>4 DEF IInv
<1>6. CASE ~ok
  <2>1. cache' = Goes(DoneWritingToEntry(cache, t, FALSE), t, "headers")
    BY <1>6 DEF DataWritten
  <2>2. Inv(Goes(DoneWritingToEntry(cache, t, FALSE), t, "headers"), NoTrans, NoEntry)
    BY <1>0, <1>1, <1>2, <1>3, GivesUpAndServes DEF Writes
  <2> QED BY <2>1, <2>2 DEF IInv
<1> QED BY <1>5, <1>6

\* The writer is done, and the client is served from the network.
LEMMA FinishesAndServes ==
  ASSUME NEW c, Inv(c, NoTrans, NoEntry), NEW t \in Trans, c.pc[t] \notin CachePending,
         NEW p \in {"headers", "send"},
         c.entry[t] # NoEntry => Writes(c.mode[t]) /\ c.content[c.entry[t]] \in Settled,
         c.entry[t] = NoEntry => c.mode[t] = "NONE"
  PROVE  Inv(Goes(DoneWritingToEntry(c, t, TRUE), t, p), NoTrans, NoEntry)
<1> DEFINE d == DoneWritingToEntry(c, t, TRUE)
<1>1. Inv(d, t, NoEntry) /\ d.entry[t] = NoEntry /\ d.mode[t] = "NONE"
  BY Finishes
<1>2. p \in Places \ CachePending
  BY DEF Places, CachePending
<1> HIDE DEF d
<1>3. Inv(Goes(d, t, p), NoTrans, NoEntry)
  BY <1>1, <1>2, GoesAway
<1> QED BY <1>3 DEF d

\* The stored headers are updated with those of the answer.
LEMMA UpdateCompletes ==
  ASSUME NEW c, Inv(c, NoTrans, NoEntry), NEW t \in Trans, c.pc[t] \notin CachePending,
         c.entry[t] # NoEntry, c.mode[t] \in {"READ_WRITE", "UPDATE"},
         c.mode[t] = "READ_WRITE" => c.content[c.entry[t]] \in PassesForWhole
  PROVE  Inv(UpdateCachedResponseComplete(c, t), NoTrans, NoEntry)
<1>1. CASE c.mode[t] = "UPDATE"
  <2>1. c.content[c.entry[t]] \in Settled /\ Writes(c.mode[t])
    BY <1>1, WriterOf DEF Writes
  <2>2. Inv(Goes(DoneWritingToEntry(c, t, TRUE), t, "headers"), NoTrans, NoEntry)
    BY <1>1, <2>1, FinishesAndServes
  <2> QED BY <1>1, <2>2 DEF UpdateCachedResponseComplete
<1>2. CASE c.mode[t] = "READ_WRITE"
  <2>1. Inv(Goes(ConvertWriterToReader(c, t), t, "headers"), NoTrans, NoEntry)
    BY <1>2, WriterTurnsReader
  <2> QED BY <1>2, <2>1 DEF UpdateCachedResponseComplete
<1> QED BY <1>1, <1>2

LEMMA ResponseInfoWrittenStep ==
  ASSUME IInv, NEW t \in Trans, NEW ok \in BOOLEAN, ResponseInfoWritten(t, ok)
  PROVE  IInv'
<1>0. Inv(cache, NoTrans, NoEntry)
  BY DEF IInv
<1>1. cache.pc[t] \in {"writeUpdate", "writeInfo"} /\ cache.run = Idle
  BY DEF ResponseInfoWritten
<1>2. /\ PlaceOK(cache, t) /\ cache \in CacheState /\ cache.pc[t] \notin CachePending
      /\ cache.entry[t] # NoEntry /\ Trusts(cache, t) => cache.content[cache.entry[t]] \in PassesForWhole
  BY <1>0, <1>1, PlaceOf DEF CachePending
<1>3. /\ cache.entry[t] # NoEntry /\ Writes(cache.mode[t])
      /\ cache.pc[t] = "writeUpdate" => cache.mode[t] \in {"READ_WRITE", "UPDATE"}
      /\ cache.pc[t] = "writeInfo" => cache.mode[t] = "WRITE"
  BY <1>1, <1>2 DEF PlaceOK, Writes
<1>4. "headers" \in Places \ CachePending
  BY DEF Places, CachePending
<1>5. CASE ~ok
  <2> DEFINE d == DoneWritingToEntry(cache, t, FALSE)
  <2>1. d.entry[t] = NoEntry /\ d.mode[t] = "NONE"
    BY <1>0, <1>1, <1>2, <1>3, GivesUp
  <2>2. cache' = Goes(d, t, "headers")
    <3>1. CASE cache.pc[t] = "writeUpdate"
      <4>1. cache' = UpdateCachedResponseComplete(d, t)
        BY <1>5, <3>1 DEF ResponseInfoWritten
      <4> HIDE DEF d
      <4> QED BY <2>1, <4>1 DEF UpdateCachedResponseComplete
    <3>2. CASE cache.pc[t] = "writeInfo"
      BY <1>5, <3>2 DEF ResponseInfoWritten
    <3> QED BY <1>1, <3>1, <3>2
  <2>3. Inv(Goes(d, t, "headers"), NoTrans, NoEntry)
    BY <1>0, <1>1, <1>2, <1>3, GivesUpAndServes
  <2> QED BY <2>2, <2>3 DEF IInv
<1>6. CASE ok /\ cache.pc[t] = "writeUpdate"
  <2>1. cache' = UpdateCachedResponseComplete(cache, t)
    BY <1>6 DEF ResponseInfoWritten
  <2>2. cache.mode[t] = "READ_WRITE" => cache.content[cache.entry[t]] \in PassesForWhole
    BY <1>2, <1>3, <1>6 DEF Trusts
  <2>3. Inv(UpdateCachedResponseComplete(cache, t), NoTrans, NoEntry)
    BY <1>0, <1>2, <1>3, <1>6, <2>2, UpdateCompletes
  <2> QED BY <2>1, <2>3 DEF IInv
<1>7. CASE ok /\ cache.pc[t] = "writeInfo" /\ cache.content[cache.entry[t]] = "complete"
  <2>1. cache' = Goes(DoneWritingToEntry(cache, t, TRUE), t, "headers")
    BY <1>7 DEF ResponseInfoWritten
  <2>2. Inv(Goes(DoneWritingToEntry(cache, t, TRUE), t, "headers"), NoTrans, NoEntry)
    BY <1>0, <1>2, <1>3, <1>7, FinishesAndServes DEF Settled, PassesForWhole
  <2> QED BY <2>1, <2>2 DEF IInv
<1>8. CASE ok /\ cache.pc[t] = "writeInfo" /\ cache.content[cache.entry[t]] # "complete"
  <2>1. cache' = Goes(cache, t, "headers")
    BY <1>8 DEF ResponseInfoWritten
  <2>2. LET g == Goes(cache, t, "headers")
        IN  g.pc[t] = "headers" /\ g.mode[t] = cache.mode[t] /\ g.entry[t] = cache.entry[t]
    BY <1>2, <1>4, GoesPlace
  <2>3. PlaceOK(Goes(cache, t, "headers"), t) /\ ~Trusts(Goes(cache, t, "headers"), t)
    BY <1>3, <1>8, <2>2 DEF PlaceOK, Trusts
  <2>4. Inv(Goes(cache, t, "headers"), NoTrans, NoEntry)
    BY <1>0, <1>2, <1>4, <2>3, GoesTo
  <2> QED BY <2>1, <2>4 DEF IInv
<1> QED BY <1>1, <1>5, <1>6, <1>7, <1>8

\* A writer that validated goes on to overwrite what is stored.
Retitled(c, t, m) == [c EXCEPT !.mode[t] = m]

LEMMA RetitledResult ==
  ASSUME NEW c \in CacheState, NEW t \in Trans, NEW m \in Modes
  PROVE  LET d == Retitled(c, t, m)
         IN  /\ d \in CacheState /\ SameLocks(c, d) /\ SameDisk(c, d) /\ SameOps(c, d)
             /\ SameBackend(c, d) /\ OnlyTrans(c, d, t)
             /\ d.pc = c.pc /\ d.entry = c.entry /\ d.mode[t] = m
             /\ m = c.mode[t] => d = c
<1> DEFINE d == Retitled(c, t, m)
           g == [c.mode EXCEPT ![t] = m]
<1>1. /\ g \in [Trans -> Modes] /\ g[t] = m
      /\ \A u \in Others(t) : g[u] = c.mode[u]
      /\ m = c.mode[t] => g = c.mode
  BY Fields DEF Others
<1>2. d = [c EXCEPT !.mode = g]
  BY DEF Retitled, CacheState
<1> HIDE DEF d, g
<1>3. /\ d \in CacheState /\ SameLocks(c, d) /\ SameDisk(c, d) /\ SameOps(c, d) /\ SameBackend(c, d)
      /\ d.pc = c.pc /\ d.entry = c.entry /\ d.mode = g
  BY <1>1, <1>2 DEF CacheState, SameLocks, SameDisk, SameOps, SameBackend
<1>4. m = c.mode[t] => d = c
  BY <1>1, <1>2 DEF CacheState
<1>5. OnlyTrans(c, d, t)
  BY <1>1, <1>3 DEF OnlyTrans
<1> QED BY <1>1, <1>3, <1>4, <1>5 DEF d

LEMMA Overwrites ==
  ASSUME NEW c, Inv(c, NoTrans, NoEntry), NEW t \in Trans, c.pc[t] \in {"readInfo", "send"},
         c.entry[t] # NoEntry, Writes(c.mode[t])
  PROVE  /\ c.pc[t] = "send" => Inv(Retitled(c, t, "WRITE"), NoTrans, NoEntry)
         /\ Inv(Goes(Retitled(c, t, "WRITE"), t, "send"), NoTrans, NoEntry)
<1> DEFINE b == Retitled(c, t, "WRITE")
           d == Goes(b, t, "send")
           g == [b.pc EXCEPT ![t] = "send"]
<1>0. c \in CacheState /\ "send" \in Places /\ "WRITE" \in Modes /\ c.pc[t] \notin CachePending
  BY DEF Inv, Places, Modes, CachePending
<1>1. /\ b \in CacheState /\ SameLocks(c, b) /\ SameDisk(c, b) /\ SameOps(c, b)
      /\ SameBackend(c, b) /\ OnlyTrans(c, b, t)
      /\ b.pc = c.pc /\ b.entry = c.entry /\ b.mode[t] = "WRITE"
  BY <1>0, RetitledResult
<1> HIDE DEF b
<1>2. /\ g \in [Trans -> Places] /\ g[t] = "send"
      /\ \A u \in Others(t) : g[u] = c.pc[u]
  BY <1>0, <1>1, Fields DEF Others
<1>3. d = [b EXCEPT !.pc = g]
  BY <1>1 DEF Goes, CacheState
<1> HIDE DEF d, g
<1>4. /\ d \in CacheState /\ SameLocks(b, d) /\ SameDisk(b, d) /\ SameOps(b, d) /\ SameBackend(b, d)
      /\ d.pc = g /\ d.entry = b.entry /\ d.mode = b.mode
  BY <1>1, <1>2, <1>3 DEF CacheState, SameLocks, SameDisk, SameOps, SameBackend
<1>5. /\ SameLocks(c, d) /\ SameDisk(c, d) /\ SameOps(c, d) /\ SameBackend(c, d) /\ OnlyTrans(c, d, t)
  BY <1>1, <1>2, <1>4 DEF SameLocks, SameDisk, SameOps, SameBackend, OnlyTrans
<1>6. /\ d.entry[t] = c.entry[t] /\ d.pc[t] = "send" /\ d.mode[t] = "WRITE" /\ PlaceOK(d, t)
      /\ Writes(d.mode[t]) /\ ~Trusts(d, t) /\ d.pc[t] \notin CachePending
      /\ d.content = c.content /\ d.stored = c.stored
  BY <1>1, <1>2, <1>4, <1>5 DEF PlaceOK, Writes, Trusts, CachePending, SameDisk
<1>7. Inv(d, NoTrans, NoEntry)
  BY <1>0, <1>4, <1>5, <1>6, Proceeds
<1>8. ASSUME c.pc[t] = "send" PROVE Inv(b, NoTrans, NoEntry)
  <2>1. /\ b.entry[t] = c.entry[t] /\ b.pc[t] = "send" /\ b.mode[t] = "WRITE" /\ PlaceOK(b, t)
        /\ Writes(b.mode[t]) /\ ~Trusts(b, t) /\ b.pc[t] \notin CachePending
        /\ b.content = c.content /\ b.stored = c.stored
    BY <1>1, <1>8 DEF PlaceOK, Writes, Trusts, CachePending, SameDisk
  <2> QED BY <1>0, <1>1, <2>1, Proceeds
<1> QED BY <1>7, <1>8 DEF b, d

\* The headers of the answer go to the entry.
LEMMA WritesInfo ==
  ASSUME NEW c, Inv(c, NoTrans, NoEntry), NEW t \in Trans, c.pc[t] \notin CachePending,
         NEW e \in Entries, c.entry[t] = e, c.mode[t] = "WRITE", NEW x \in Contents
  PROVE  Inv(Goes(Filled(c, e, x), t, "writeInfo"), NoTrans, NoEntry)
<1> DEFINE g == [c.pc EXCEPT ![t] = "writeInfo"]
           h == [c.content EXCEPT ![e] = x]
           d == Goes(Filled(c, e, x), t, "writeInfo")
<1>0. c \in CacheState /\ "writeInfo" \in Places
  BY DEF Inv, Places
<1>1. /\ g \in [Trans -> Places] /\ g[t] = "writeInfo"
      /\ \A u \in Others(t) : g[u] = c.pc[u]
  BY <1>0, Fields DEF Others
<1>2. /\ h \in [Entries -> Contents]
      /\ \A k \in Entries : k # e => h[k] = c.content[k]
  BY <1>0, Fields
<1>3. d = [c EXCEPT !.pc = g, !.content = h]
  BY <1>0 DEF Goes, Filled, CacheState
<1> HIDE DEF d, g, h
<1>4. /\ d \in CacheState /\ SameLocks(c, d) /\ SameOps(c, d) /\ SameBackend(c, d)
      /\ d.pc = g /\ d.entry = c.entry /\ d.mode = c.mode /\ d.content = h /\ d.stored = c.stored
  BY <1>0, <1>1, <1>2, <1>3 DEF CacheState, SameLocks, SameOps, SameBackend
<1>5. OnlyTrans(c, d, t)
  BY <1>1, <1>4 DEF OnlyTrans
<1>6. /\ d.entry[t] = c.entry[t] /\ d.pc[t] = "writeInfo" /\ d.mode[t] = "WRITE" /\ PlaceOK(d, t)
      /\ Writes(c.mode[t]) /\ Writes(d.mode[t]) /\ ~Trusts(d, t) /\ d.pc[t] \notin CachePending
  BY <1>1, <1>4 DEF PlaceOK, Writes, Trusts, CachePending
<1>7. \A k \in Entries : k # c.entry[t] => d.content[k] = c.content[k]
  BY <1>2, <1>4
<1>8. Inv(d, NoTrans, NoEntry)
  BY <1>4, <1>5, <1>6, <1>7, Proceeds
<1> QED BY <1>8 DEF d

\* A response that is stored, or that its transaction does not store.
LEMMA OverwritesResponse ==
  ASSUME NEW c, Inv(c, NoTrans, NoEntry), c.run = Idle, NEW t \in Trans, c.pc[t] = "send",
         c.mode[t] \in {"NONE", "WRITE"}, NEW r \in AllResponses
  PROVE  Inv(OverwriteCachedResponse(c, t, r), NoTrans, NoEntry)
<1>0. /\ PlaceOK(c, t) /\ c \in CacheState /\ c.pc[t] \notin CachePending
      /\ c.entry[t] \in Entries \cup {NoEntry}
  BY PlaceOf DEF CachePending
<1>1. c.entry[t] # NoEntry <=> c.mode[t] = "WRITE"
  BY <1>0 DEF PlaceOK
<1>2. "headers" \in Places \ CachePending
  BY DEF Places, CachePending
<1>3. CASE c.entry[t] = NoEntry
  <2>1. OverwriteCachedResponse(c, t, r) = Goes(c, t, "headers")
    BY <1>3 DEF OverwriteCachedResponse
  <2>2. Inv(c, t, NoEntry)
    BY <1>0, <1>3, Unattached
  <2>3. Inv(Goes(c, t, "headers"), NoTrans, NoEntry)
    BY <1>1, <1>2, <1>3, <2>2, GoesAway
  <2> QED BY <2>1, <2>3
<1>4. CASE c.entry[t] # NoEntry /\ r \in {"noStore", "notModifiedNoStore"}
  <2>1. OverwriteCachedResponse(c, t, r) = Goes(DoneWritingToEntry(c, t, FALSE), t, "headers")
    BY <1>1, <1>4 DEF OverwriteCachedResponse
  <2>2. Inv(Goes(DoneWritingToEntry(c, t, FALSE), t, "headers"), NoTrans, NoEntry)
    BY <1>0, <1>1, <1>4, GivesUpAndServes DEF Writes
  <2> QED BY <2>1, <2>2
<1>5. CASE c.entry[t] # NoEntry /\ r \notin {"noStore", "notModifiedNoStore"}
  <2>0. PICK e \in Entries : c.entry[t] = e
    BY <1>0, <1>5
  <2> DEFINE x == IF r = "redirect" THEN "complete" ELSE "partial"
  <2>1. OverwriteCachedResponse(c, t, r) = Goes(Filled(c, e, x), t, "writeInfo")
    BY <1>1, <1>5, <2>0 DEF OverwriteCachedResponse, Filled
  <2>2. x \in Contents
    BY DEF Contents
  <2> HIDE DEF x
  <2>3. Inv(Goes(Filled(c, e, x), t, "writeInfo"), NoTrans, NoEntry)
    BY <1>0, <1>1, <1>5, <2>0, <2>2, WritesInfo
  <2> QED BY <2>1, <2>3
<1> QED BY <1>3, <1>4, <1>5

LEMMA NetworkResponseStep ==
  ASSUME IInv, NEW t \in Trans, NEW r \in Responses, NetworkResponse(t, r)
  PROVE  IInv'
<1> DEFINE m == cache.mode[t]
           validating == m \in {"READ_WRITE", "UPDATE"}
<1>0. Inv(cache, NoTrans, NoEntry)
  BY DEF IInv
<1>1. cache.pc[t] = "send" /\ cache.run = Idle /\ r \in AllResponses
  BY DEF NetworkResponse
<1>2. /\ PlaceOK(cache, t) /\ cache \in CacheState /\ cache.pc[t] \notin CachePending
      /\ cache.entry[t] # NoEntry /\ Trusts(cache, t) => cache.content[cache.entry[t]] \in PassesForWhole
      /\ m \in Modes
  BY <1>0, <1>1, PlaceOf DEF CachePending
<1>3. m # "READ" /\ (cache.entry[t] # NoEntry <=> m # "NONE") /\ (m # "NONE" => Writes(m))
  BY <1>1, <1>2 DEF PlaceOK, Writes, Modes
<1>4. {"done", "auth", "cert", "writeUpdate"} \subseteq Places \ CachePending
  BY DEF Places, CachePending
<1>5. CASE r \in {"error", "auth", "cert"} \/ (r = "notModified" /\ validating)
  <2> DEFINE p == IF r = "error" THEN "done" ELSE IF r = "notModified" THEN "writeUpdate" ELSE r
  <2>1. cache' = Goes(cache, t, p)
    BY <1>5 DEF NetworkResponse
  <2>2. p \in {"done", "auth", "cert", "writeUpdate"} /\ (p = "writeUpdate" => validating)
    BY <1>5
  <2> HIDE DEF p
  <2>3. LET g == Goes(cache, t, p)
        IN  g.pc[t] = p /\ g.mode[t] = m /\ g.entry[t] = cache.entry[t]
    BY <1>2, <1>4, <2>2, GoesPlace
  <2>4. PlaceOK(Goes(cache, t, p), t)
    BY <1>3, <2>2, <2>3 DEF PlaceOK
  <2>5. Trusts(Goes(cache, t, p), t) => Trusts(cache, t)
    BY <1>1, <2>2, <2>3 DEF Trusts
  <2>6. Inv(Goes(cache, t, p), NoTrans, NoEntry)
    BY <1>0, <1>2, <1>4, <2>2, <2>4, <2>5, GoesTo
  <2> QED BY <2>1, <2>6 DEF IInv
<1>6. CASE r = "range"
  <2>1. CASE m = "WRITE"
    <3>a. cache' = Goes(DoneWritingToEntry(cache, t, m # "WRITE"), t, "headers")
      BY <1>6 DEF NetworkResponse
    <3>b. DoneWritingToEntry(cache, t, m # "WRITE") = DoneWritingToEntry(cache, t, FALSE)
      BY <2>1 DEF DoneWritingToEntry, CacheDoneWriting
    <3>1. cache' = Goes(DoneWritingToEntry(cache, t, FALSE), t, "headers")
      BY <3>a, <3>b
    <3>2. Inv(Goes(DoneWritingToEntry(cache, t, FALSE), t, "headers"), NoTrans, NoEntry)
      BY <1>0, <1>1, <1>2, <1>3, GivesUpAndServes
    <3> QED BY ONLY <3>1, <3>2 DEF IInv
  <2>2. CASE m # "WRITE"
    <3>a. cache' = Goes(DoneWritingToEntry(cache, t, m # "WRITE"), t, "headers")
      BY <1>6 DEF NetworkResponse
    <3>b. DoneWritingToEntry(cache, t, m # "WRITE") = DoneWritingToEntry(cache, t, TRUE)
      BY <2>2 DEF DoneWritingToEntry, CacheDoneWriting
    <3>1. cache' = Goes(DoneWritingToEntry(cache, t, TRUE), t, "headers")
      BY <3>a, <3>b
    <3>2. cache.entry[t] # NoEntry => cache.content[cache.entry[t]] \in Settled
      BY <1>0, <1>2, <2>2, WriterOf
    <3>3. Inv(Goes(DoneWritingToEntry(cache, t, TRUE), t, "headers"), NoTrans, NoEntry)
      BY <1>0, <1>2, <1>3, <3>2, FinishesAndServes
    <3> QED BY <3>1, <3>3 DEF IInv
  <2> QED BY <2>1, <2>2
<1>7. CASE r = "notModifiedNoStore" /\ validating
  <2> DEFINE d == DoomEntry(cache, NoTrans)
  <2>1. cache' = UpdateCachedResponseComplete(d, t)
    BY <1>7 DEF NetworkResponse
  <2>2. Inv(d, NoTrans, NoEntry) /\ SameTrans(cache, d)
    BY <1>0, DoomsOwn
  <2> HIDE DEF d
  <2>3. /\ d.pc[t] = "send" /\ d.mode[t] = m /\ d.entry[t] # NoEntry
        /\ d.mode[t] = "READ_WRITE" => Trusts(d, t)
    BY <1>1, <1>3, <1>7, <2>2 DEF SameTrans, Trusts
  <2>4. Trusts(d, t) => d.content[d.entry[t]] \in PassesForWhole
    BY <2>2, <2>3, PlaceOf
  <2>5. d.pc[t] \notin CachePending /\ d.mode[t] \in {"READ_WRITE", "UPDATE"}
    BY <1>7, <2>3 DEF CachePending
  <2>6. Inv(UpdateCachedResponseComplete(d, t), NoTrans, NoEntry)
    BY <2>2, <2>3, <2>4, <2>5, UpdateCompletes
  <2> QED BY <2>1, <2>6 DEF IInv
<1>8. CASE /\ r \notin {"error", "auth", "cert", "range"}
           /\ ~(r \in {"notModified", "notModifiedNoStore"} /\ validating)
  <2> DEFINE n == IF validating THEN "WRITE" ELSE m
             b == Retitled(cache, t, n)
  <2>1. cache' = OverwriteCachedResponse(b, t, r)
    BY <1>8 DEF NetworkResponse, Retitled
  <2>2. n \in {"NONE", "WRITE"} /\ n \in Modes
    BY <1>2, <1>3 DEF Modes
  <2>3. b.pc = cache.pc /\ b.mode[t] = n /\ SameOps(cache, b) /\ (n = m => b = cache)
    BY <1>2, <2>2, RetitledResult
  <2>4. Inv(b, NoTrans, NoEntry)
    <3>1. CASE validating
      <4>1. cache.entry[t] # NoEntry /\ Writes(m) /\ n = "WRITE"
        BY <1>3, <3>1 DEF Writes
      <4> QED BY <1>0, <1>1, <4>1, Overwrites
    <3>2. CASE ~validating
      <4>1. n = m
        BY <3>2
      <4> QED BY <1>0, <2>3, <4>1
    <3> QED BY <3>1, <3>2
  <2> HIDE DEF b, n
  <2>5. b.run = Idle /\ b.pc[t] = "send" /\ b.mode[t] \in {"NONE", "WRITE"}
    BY <1>1, <2>2, <2>3 DEF SameOps
  <2>6. Inv(OverwriteCachedResponse(b, t, r), NoTrans, NoEntry)
    BY <1>1, <2>4, <2>5, OverwritesResponse
  <2> QED BY <2>1, <2>6 DEF IInv
<1> QED BY <1>5, <1>6, <1>7, <1>8

\* A transaction dooms a truncated entry, leaves it and starts again.
LEMMA DoomsPartial ==
  ASSUME NEW c, Inv(c, NoTrans, NoEntry), c.run = Idle, NEW t \in Trans, c.entry[t] # NoEntry,
         c.pc[t] \notin CachePending
  PROVE  Inv(StartsAgain(Goes(Forgets(DoneWithEntry(DoomEntry(c, NoTrans), t, FALSE, FALSE, FALSE), t, "WRITE"),
                              t, "init"), t), NoTrans, NoEntry)
<1> DEFINE a == DoomEntry(c, NoTrans)
           b == DoneWithEntry(a, t, FALSE, FALSE, FALSE)
           d == Forgets(b, t, "WRITE")
<1>1. Inv(a, NoTrans, NoEntry) /\ SameTrans(c, a) /\ a.run = Idle
  BY DoomsOwn
<1> HIDE DEF a
<1>2. a.entry[t] # NoEntry /\ a.pc[t] \notin CachePending
  BY <1>1 DEF SameTrans
<1>3. Inv(b, t, NoEntry) /\ (b.run = Idle \/ Racing(b.run))
  BY <1>1, <1>2, DoneWith
<1> HIDE DEF b
<1>4. /\ Inv(d, t, NoEntry) /\ d.entry[t] = NoEntry /\ d.mode[t] = "WRITE" /\ SameOps(b, d)
  <2>1. "WRITE" \in Modes
    BY DEF Modes
  <2> QED BY <1>3, <2>1, ForgetsResult
<1> HIDE DEF d
<1>5. d.run = Idle \/ Racing(d.run)
  BY <1>3, <1>4 DEF SameOps
<1>6. Inv(StartsAgain(Goes(d, t, "init"), t), NoTrans, NoEntry)
  BY <1>4, <1>5, WaitsToStart
<1> QED BY <1>6 DEF a, b, d

LEMMA ReadResponseInfoStep ==
  ASSUME IInv, NEW t \in Trans, NEW ok \in BOOLEAN, NEW choice \in {"skip", "validate", "fetch"},
         ReadResponseInfo(t, ok, choice)
  PROVE  IInv'
<1> DEFINE m == cache.mode[t]
           cut == cache.content[cache.entry[t]] = "truncated"
<1>0. Inv(cache, NoTrans, NoEntry)
  BY DEF IInv
<1>1. cache.pc[t] = "readInfo" /\ cache.run = Idle
  BY DEF ReadResponseInfo
<1>2. /\ PlaceOK(cache, t) /\ cache \in CacheState /\ cache.pc[t] \notin CachePending
  BY <1>0, <1>1, PlaceOf DEF CachePending
<1>3. m \in {"READ", "READ_WRITE", "UPDATE"} /\ cache.entry[t] # NoEntry
  BY <1>1, <1>2 DEF PlaceOK
<1>4. cache.content[cache.entry[t]] \in Settled
  BY <1>0, <1>2, <1>3, WriterOf
<1>5. {"done", "headers", "send"} \subseteq Places \ CachePending
  BY DEF Places, CachePending
<1>6. ASSUME NEW p \in {"done", "headers", "send"}, p = "headers" => m = "READ" /\ ~cut,
             p = "send" => m # "READ" /\ ~cut
      PROVE  Inv(Goes(cache, t, p), NoTrans, NoEntry)
  <2>1. LET g == Goes(cache, t, p)
        IN  g.pc[t] = p /\ g.mode[t] = m /\ g.entry[t] = cache.entry[t]
    BY <1>2, <1>5, GoesPlace
  <2>2. PlaceOK(Goes(cache, t, p), t)
    BY <1>3, <1>6, <2>1 DEF PlaceOK
  <2>3. Trusts(Goes(cache, t, p), t) => cache.content[cache.entry[t]] \in PassesForWhole
    BY <1>4, <1>6, <2>1 DEF Trusts, Settled, PassesForWhole
  <2> QED BY <1>0, <1>2, <1>5, <2>2, <2>3, GoesTo
<1>7. CASE ~ok \/ (m = "READ" /\ cut)
  <2>1. cache' = Goes(cache, t, "done")
    BY <1>7 DEF ReadResponseInfo
  <2> QED BY <1>6, <2>1 DEF IInv
<1>8. CASE ok /\ m = "READ" /\ ~cut
  <2>1. cache' = Goes(cache, t, "headers")
    BY <1>8 DEF ReadResponseInfo
  <2>2. Inv(Goes(cache, t, "headers"), NoTrans, NoEntry)
    BY <1>6, <1>8
  <2> QED BY <2>1, <2>2 DEF IInv
<1>9. CASE ok /\ m = "UPDATE" /\ choice = "validate" /\ ~cut
  <2>1. cache' = Goes(cache, t, "send")
    BY <1>9 DEF ReadResponseInfo
  <2>2. Inv(Goes(cache, t, "send"), NoTrans, NoEntry)
    BY <1>6, <1>9
  <2> QED BY <2>1, <2>2 DEF IInv
<1>10. CASE ok /\ m = "UPDATE" /\ ~(choice = "validate" /\ ~cut)
  <2>1. cache' = Goes(DoneWritingToEntry(cache, t, TRUE), t, "send")
    BY <1>10 DEF ReadResponseInfo
  <2>2. Inv(Goes(DoneWritingToEntry(cache, t, TRUE), t, "send"), NoTrans, NoEntry)
    BY <1>0, <1>2, <1>3, <1>4, <1>10, FinishesAndServes DEF Writes
  <2> QED BY <2>1, <2>2 DEF IInv
<1>11. CASE ok /\ m = "READ_WRITE" /\ cut
  <2>1. cache' = StartsAgain(Goes(Forgets(DoneWithEntry(DoomEntry(cache, NoTrans), t, FALSE, FALSE, FALSE),
                                          t, "WRITE"), t, "init"), t)
    BY <1>11 DEF ReadResponseInfo, StartsAgain, Forgets, Goes
  <2>2. Inv(StartsAgain(Goes(Forgets(DoneWithEntry(DoomEntry(cache, NoTrans), t, FALSE, FALSE, FALSE),
                                     t, "WRITE"), t, "init"), t), NoTrans, NoEntry)
    BY <1>0, <1>1, <1>2, <1>3, DoomsPartial
  <2> QED BY <2>1, <2>2 DEF IInv
<1>12. CASE ok /\ m = "READ_WRITE" /\ ~cut
  <2>0. cache.content[cache.entry[t]] \in PassesForWhole
    BY <1>4, <1>12 DEF Settled, PassesForWhole
  <2>1. CASE choice = "skip"
    <3>1. cache' = Goes(ConvertWriterToReader(cache, t), t, "headers")
      BY <1>12, <2>1 DEF ReadResponseInfo
    <3>2. Inv(Goes(ConvertWriterToReader(cache, t), t, "headers"), NoTrans, NoEntry)
      BY <1>0, <1>2, <1>3, <2>0, WriterTurnsReader
    <3> QED BY <3>1, <3>2 DEF IInv
  <2>2. CASE choice = "validate"
    <3>1. cache' = Goes(cache, t, "send")
      BY <1>12, <2>2 DEF ReadResponseInfo
    <3>2. Inv(Goes(cache, t, "send"), NoTrans, NoEntry)
      BY <1>6, <1>12
    <3> QED BY <3>1, <3>2 DEF IInv
  <2>3. CASE choice = "fetch"
    <3>1. cache' = Goes(Retitled(cache, t, "WRITE"), t, "send")
      BY <1>12, <2>3 DEF ReadResponseInfo, Retitled
    <3>2. Inv(Goes(Retitled(cache, t, "WRITE"), t, "send"), NoTrans, NoEntry)
      BY <1>0, <1>1, <1>3, <1>12, Overwrites DEF Writes
    <3> QED BY <3>1, <3>2 DEF IInv
  <2> QED BY <2>1, <2>2, <2>3
<1> QED BY <1>3, <1>7, <1>8, <1>9, <1>10, <1>11, <1>12

(***************************************************************************)
(* The beginning and the end of a transaction.                             *)
(***************************************************************************)
\* A transaction begins with nothing but a mode.
Begun(c, t, m) == [c EXCEPT !.mode[t] = m, !.reading[t] = FALSE]

LEMMA Begins ==
  ASSUME NEW t \in Trans, NEW c, Inv(c, t, NoEntry), NEW m \in Modes
  PROVE  LET d == Begun(c, t, m)
         IN  Inv(d, t, NoEntry) /\ d.entry = c.entry
<1> DEFINE d == Begun(c, t, m)
           g == [c.mode EXCEPT ![t] = m]
           h == [c.reading EXCEPT ![t] = FALSE]
<1>0. c \in CacheState
  BY DEF Inv
<1>1. /\ g \in [Trans -> Modes]
      /\ \A u \in Others(t) : g[u] = c.mode[u]
  BY <1>0, Fields DEF Others
<1>2. h \in [Trans -> BOOLEAN]
  BY <1>0 DEF CacheState
<1>3. d = [c EXCEPT !.mode = g, !.reading = h]
  BY <1>0 DEF Begun, CacheState
<1> HIDE DEF d, g, h
<1>4. /\ d \in CacheState /\ SameLocks(c, d) /\ SameDisk(c, d) /\ SameOps(c, d) /\ SameBackend(c, d)
      /\ d.pc = c.pc /\ d.entry = c.entry /\ d.mode = g
  BY <1>0, <1>1, <1>2, <1>3 DEF CacheState, SameLocks, SameDisk, SameOps, SameBackend
<1>5. OnlyTrans(c, d, t)
  BY <1>1, <1>4 DEF OnlyTrans
<1>6. Inv(d, t, NoEntry)
  BY <1>4, <1>5, FreeMove
<1> QED BY <1>4, <1>6 DEF d

LEMMA StartStep ==
  ASSUME IInv, NEW t \in Trans, NEW m \in StartModes, Start(t, m)
  PROVE  IInv'
<1> DEFINE b == IF cache.factory /\ ~cache.ready THEN [cache EXCEPT !.building = TRUE] ELSE cache
           c == Begun(b, t, m)
<1>0. Inv(cache, NoTrans, NoEntry) /\ cache \in CacheState /\ m \in Modes
  BY DEF IInv, Inv
<1>1. /\ cache.run = Idle /\ cache.pc[t] = "gone"
      /\ cache' = IF ~c.ready /\ c.building
                  THEN Goes([c EXCEPT !.bkQueue = Append(@, t)], t, "getBackend")
                  ELSE DoGetBackendComplete(c, t)
  BY DEF Start, Begun
<1>2. PlaceOK(cache, t) /\ cache.pc[t] \notin CachePending
  BY <1>0, <1>1, PlaceOf DEF CachePending
<1>3. cache.entry[t] = NoEntry
  BY <1>1, <1>2 DEF PlaceOK
<1>4. Inv(cache, t, NoEntry)
  BY <1>0, <1>2, <1>3, Unattached
<1>5. Inv(b, t, NoEntry) /\ b.entry = cache.entry
  <2>1. CASE cache.factory /\ ~cache.ready
    <3>1. b = [cache EXCEPT !.building = TRUE]
      BY <2>1
    <3> HIDE DEF b
    <3>2. /\ b \in CacheState /\ SameLocks(cache, b) /\ SameOps(cache, b) /\ SameBackend(cache, b)
          /\ SameTrans(cache, b) /\ b.content = cache.content /\ b.stored = cache.stored
      BY <1>0, <3>1 DEF CacheState, SameLocks, SameOps, SameBackend, SameTrans
    <3>3. b.stored \in Settled \cup {"nothing"}
      BY <1>0, <3>2 DEF Inv, Disk
    <3>4. Inv(b, t, NoEntry)
      BY <1>4, <3>2, <3>3, Restores
    <3> QED BY <3>2, <3>4 DEF SameTrans
  <2>2. CASE ~(cache.factory /\ ~cache.ready)
    BY <1>4, <2>2
  <2> QED BY <2>1, <2>2
<1> HIDE DEF b
<1>6. Inv(c, t, NoEntry) /\ c.entry = b.entry
  BY <1>0, <1>5, Begins
<1> HIDE DEF c
<1>7. c.entry[t] = NoEntry /\ c \in CacheState
  BY <1>3, <1>5, <1>6 DEF Inv
<1>8. CASE ~c.ready /\ c.building
  <2>1. cache' = Goes([c EXCEPT !.bkQueue = Append(@, t)], t, "getBackend")
    BY <1>1, <1>8
  <2>2. Goes([c EXCEPT !.bkQueue = Append(@, t)], t, "getBackend") = Queues(Goes(c, t, "getBackend"), t)
    BY <1>7 DEF Goes, Queues, CacheState
  <2>3. Inv(Queues(Goes(c, t, "getBackend"), t), NoTrans, NoEntry)
    BY <1>6, <1>7, WaitsForBackend
  <2> QED BY ONLY <2>1, <2>2, <2>3 DEF IInv
<1>9. CASE ~(~c.ready /\ c.building)
  <2>1. cache' = DoGetBackendComplete(c, t)
    BY <1>1, <1>9
  <2>2. Inv(DoGetBackendComplete(c, t), NoTrans, NoEntry)
    BY <1>6, <1>7, BackendComplete
  <2> QED BY ONLY <2>1, <2>2 DEF IInv
<1> QED BY <1>8, <1>9

\* The backend has been created: the next one who waits for it.
Built(c, ok) == [c EXCEPT !.factory = FALSE, !.ready = ok]

NextWaits(c, ok) ==
  IF c.bkQueue # <<>>
  THEN [Built(c, ok) EXCEPT !.bkWriter = Head(c.bkQueue), !.bkQueue = Tail(@)]
  ELSE [Built(c, ok) EXCEPT !.bkWriter = NoTrans, !.building = FALSE]

LEMMA NextForBackend ==
  ASSUME NEW c, Inv(c, NoTrans, NoEntry), NEW ok \in BOOLEAN
  PROVE  LET d == NextWaits(c, ok)
         IN  Inv(d, c.bkWriter, NoEntry) /\ d.entry = c.entry
<1> DEFINE q == c.bkQueue
           x == c.bkWriter
           d == NextWaits(c, ok)
<1>0. c \in CacheState /\ q \in Seq(Trans) /\ IsInjective(q) /\ x \in Trans \cup {NoTrans}
  <2>1. c \in CacheState
    BY DEF Inv
  <2> QED BY <2>1, Fields DEF Inv, Waiting, Once
<1>1. x # NoTrans => c.pc[x] = "getBackend" /\ ~Contains(q, x)
  BY <1>0 DEF Inv, Waiting, Registered, Once
<1>2. /\ d \in CacheState /\ SameTrans(c, d) /\ SameDisk(c, d) /\ SameLocks(c, d) /\ SameOps(c, d)
      /\ \A u : Contains(q, u) <=> Contains(d.bkQueue, u) \/ (q # <<>> /\ u = d.bkWriter)
      /\ q = <<>> => d.bkWriter = NoTrans /\ d.bkQueue = <<>>
      /\ q # <<>> => d.bkWriter \in Trans /\ ~Contains(d.bkQueue, d.bkWriter)
      /\ IsInjective(d.bkQueue)
      /\ \A i \in 1..Len(d.bkQueue) : Contains(q, d.bkQueue[i])
  <2>1. CASE q # <<>>
    <3>1. /\ Tail(q) \in Seq(Trans) /\ IsInjective(Tail(q)) /\ Contains(q, Head(q))
          /\ \A y : Contains(Tail(q), y) <=> Contains(q, y) /\ y # Head(q)
      BY <1>0, <2>1, TailMembers
    <3>2. Head(q) \in Trans
      BY <1>0, <2>1
    <3>3. d = [c EXCEPT !.factory = FALSE, !.ready = ok, !.bkWriter = Head(q), !.bkQueue = Tail(q)]
      BY <1>0, <2>1 DEF CacheState, NextWaits, Built
    <3> HIDE DEF d
    <3>4. /\ d \in CacheState /\ SameTrans(c, d) /\ SameDisk(c, d) /\ SameLocks(c, d) /\ SameOps(c, d)
          /\ d.bkWriter = Head(q) /\ d.bkQueue = Tail(q)
      BY <1>0, <3>1, <3>2, <3>3, ZenonT(60) DEF CacheState, SameTrans, SameDisk, SameLocks, SameOps
    <3>5. \A i \in 1..Len(Tail(q)) : Contains(Tail(q), Tail(q)[i])
      BY DEF Contains
    <3> HIDE DEF q
    <3> QED BY <2>1, <3>1, <3>2, <3>4, <3>5
  <2>2. CASE q = <<>>
    <3>1. d = [c EXCEPT !.factory = FALSE, !.ready = ok, !.bkWriter = NoTrans, !.building = FALSE]
      BY <1>0, <2>2 DEF CacheState, NextWaits, Built
    <3> HIDE DEF d
    <3>2. /\ d \in CacheState /\ SameTrans(c, d) /\ SameDisk(c, d) /\ SameLocks(c, d) /\ SameOps(c, d)
          /\ d.bkWriter = NoTrans /\ d.bkQueue = q
      BY <1>0, <3>1, ZenonT(60) DEF CacheState, SameTrans, SameDisk, SameLocks, SameOps
    <3> QED BY <1>0, <2>2, <3>2 DEF Contains
  <2> QED BY <2>1, <2>2
<1> HIDE DEF d
<1>3. Registered(d, x)
  <2>1. \A item \in Item \cup {NoItem} : ItemOK(c, NoTrans, item) => ItemOK(d, x, item)
    BY <1>0, <1>1, <1>2 DEF ItemOK, Item, NoItem, SameTrans
  <2>2. /\ ItemOK(d, x, d.opWriter)
        /\ \A i \in 1..Len(d.opQueue) : ItemOK(d, x, d.opQueue[i])
        /\ \A i \in 1..Len(d.run.items) : ItemOK(d, x, d.run.items[i])
    BY <1>0, <1>2, <2>1, Fields, Members DEF Inv, Waiting, Registered, SameOps
  <2>3. \A e \in Entries : \A i \in 1..Len(d.queue[e]) :
          d.queue[e][i] # x /\ d.pc[d.queue[e][i]] = "add" /\ d.entry[d.queue[e][i]] = e
    <3>1. x = NoTrans => \A e \in Entries : \A i \in 1..Len(c.queue[e]) : c.queue[e][i] # x
      BY <1>0, Members
    <3> QED BY <1>1, <1>2, <3>1 DEF Inv, Waiting, Registered, SameLocks, SameTrans
  <2>4. \A u : Contains(q, u) => u # x /\ d.pc[u] = "getBackend"
    <3>1. \A u : Contains(q, u) => u \in Trans /\ c.pc[u] = "getBackend"
      BY <1>0, Members DEF Inv, Waiting, Registered, Contains
    <3> QED BY <1>1, <1>2, <3>1 DEF SameTrans
  <2>5. /\ d.bkWriter # NoTrans => d.bkWriter # x /\ d.pc[d.bkWriter] = "getBackend"
        /\ \A i \in 1..Len(d.bkQueue) : d.bkQueue[i] # x /\ d.pc[d.bkQueue[i]] = "getBackend"
    BY <1>2, <2>4
  <2> QED BY <2>2, <2>3, <2>5 DEF Registered
<1>4. Once(d)
  <2>1. \A t \in Trans : d.bkWriter = t => ~Contains(d.bkQueue, t)
    BY <1>2
  <2> QED BY <1>2, <2>1 DEF Inv, Waiting, Once, SameLocks, SameOps
<1>5. \A u \in Others(x) : WaitsSomewhere(d, u)
  <2> SUFFICES ASSUME NEW u \in Others(x) PROVE WaitsSomewhere(d, u)
    OBVIOUS
  <2>1. WaitsSomewhere(c, u) /\ u # x
    BY DEF Inv, Waiting, Others
  <2> QED BY <1>2, <2>1 DEF WaitsSomewhere, SameTrans, SameLocks, SameOps
<1>6. Operations(d)
  BY <1>2 DEF Inv, Operations, SameLocks, SameOps
<1>7. x # NoTrans => c.pc[x] \in CachePending
  BY <1>1 DEF CachePending
<1>8. Inv(d, x, NoEntry)
  BY <1>0, <1>2, <1>3, <1>4, <1>5, <1>6, <1>7, Dismissed
<1> QED BY <1>2, <1>8 DEF d, SameTrans

LEMMA OnBackendCreatedStep ==
  ASSUME IInv, NEW ok \in BOOLEAN, OnBackendCreated(ok)
  PROVE  IInv'
<1> DEFINE x == cache.bkWriter
           d == NextWaits(cache, ok)
<1>0. Inv(cache, NoTrans, NoEntry) /\ cache \in CacheState
  BY DEF IInv, Inv
<1>1. cache' = IF x = NoTrans THEN d ELSE DoGetBackendComplete(d, x)
  BY DEF OnBackendCreated, NextWaits, Built
<1>2. Inv(d, x, NoEntry) /\ d.entry = cache.entry
  BY <1>0, NextForBackend
<1> HIDE DEF d
<1>3. CASE x = NoTrans
  BY <1>1, <1>2, <1>3 DEF IInv
<1>4. CASE x # NoTrans
  <2>1. x \in Trans /\ cache.pc[x] = "getBackend"
    BY <1>0, <1>4, Fields DEF Inv, Waiting, Registered
  <2>2. d.entry[x] = NoEntry
    BY <1>0, <1>2, <2>1, PlaceOf DEF PlaceOK
  <2>3. Inv(DoGetBackendComplete(d, x), NoTrans, NoEntry)
    BY <1>2, <2>1, <2>2, BackendComplete
  <2> QED BY <1>1, <1>4, <2>3 DEF IInv
<1> QED BY <1>3, <1>4

\* What the withdrawal of a transaction that waits changes.
LEMMA RemoveResult ==
  ASSUME NEW t \in Trans, NEW c \in CacheState, Once(c)
  PROVE  LET d == RemovePendingTransaction(c, t)
         IN  /\ d \in CacheState /\ SameTrans(c, d) /\ SameDisk(c, d)
             /\ d.active = c.active /\ d.doomed = c.doomed /\ d.writer = c.writer
             /\ d.readers = c.readers /\ d.will = c.will /\ d.run = c.run
             /\ \A e \in Entries : /\ IsInjective(d.queue[e])
                                   /\ c.queue[e] = <<>> => d.queue[e] = <<>>
                                   /\ \A u : Contains(d.queue[e], u) <=> Contains(c.queue[e], u) /\ u # t
             /\ d.opWriter = NoItem <=> c.opWriter = NoItem
             /\ d.opWriter.kind = c.opWriter.kind
             /\ d.opWriter.trans = IF c.opWriter.trans = t THEN NoTrans ELSE c.opWriter.trans
             /\ NamesOnce(d.opQueue)
             /\ \A i \in 1..Len(d.opQueue) : \E j \in 1..Len(c.opQueue) : d.opQueue[i] = c.opQueue[j]
             /\ \A u : Names(d.opQueue, u) <=> Names(c.opQueue, u) /\ u # t
             /\ c.opQueue = <<>> => d.opQueue = <<>>
             /\ d.bkWriter = IF c.bkWriter = t THEN NoTrans ELSE c.bkWriter
             /\ IsInjective(d.bkQueue)
             /\ \A u : Contains(d.bkQueue, u) <=> Contains(c.bkQueue, u) /\ u # t
<1> DEFINE mine(item) == item.trans = t
           d == RemovePendingTransaction(c, t)
           g == [e \in Entries |-> RemoveFirst(c.queue[e], t)]
           w == IF c.opWriter.trans = t THEN [c.opWriter EXCEPT !.trans = NoTrans] ELSE c.opWriter
           q == RemoveFirstMatch(c.opQueue, mine)
           bw == IF c.bkWriter = t THEN NoTrans ELSE c.bkWriter
           bq == RemoveFirst(c.bkQueue, t)
<1>1. \A e \in Entries : /\ g[e] \in Seq(Trans) /\ IsInjective(g[e])
                         /\ c.queue[e] = <<>> => g[e] = <<>>
                         /\ \A u : Contains(g[e], u) <=> Contains(c.queue[e], u) /\ u # t
  <2> SUFFICES ASSUME NEW e \in Entries
               PROVE  /\ g[e] \in Seq(Trans) /\ IsInjective(g[e])
                      /\ c.queue[e] = <<>> => g[e] = <<>>
                      /\ \A u : Contains(g[e], u) <=> Contains(c.queue[e], u) /\ u # t
    OBVIOUS
  <2>1. c.queue[e] \in Seq(Trans) /\ IsInjective(c.queue[e]) /\ g[e] = RemoveFirst(c.queue[e], t)
    BY Fields DEF Once
  <2>2. /\ g[e] \in Seq(Trans) /\ IsInjective(g[e])
        /\ \A u : Contains(g[e], u) <=> Contains(c.queue[e], u) /\ u # t
    BY <2>1, RemoveFirstMembers
  <2>3. c.queue[e] = <<>> => g[e] = <<>>
    BY <2>1 DEF RemoveFirst, Contains
  <2> QED BY <2>2, <2>3
<1>2. g \in [Entries -> Seq(Trans)]
  BY <1>1
<1>3. /\ w \in Item \cup {NoItem} /\ w.kind = c.opWriter.kind
      /\ w.trans = IF c.opWriter.trans = t THEN NoTrans ELSE c.opWriter.trans
      /\ w = NoItem <=> c.opWriter = NoItem
  <2>1. CASE c.opWriter = NoItem
    BY <2>1 DEF NoItem
  <2>2. CASE c.opWriter # NoItem
    <3>1. c.opWriter \in Item
      BY <2>2, Fields
    <3> QED BY <3>1 DEF Item, NoItem
  <2> QED BY <2>1, <2>2
<1>4. /\ q \in Seq(Item) /\ NamesOnce(q)
      /\ \A i \in 1..Len(q) : \E j \in 1..Len(c.opQueue) : q[i] = c.opQueue[j]
      /\ \A u : Names(q, u) <=> Names(c.opQueue, u) /\ u # t
      /\ c.opQueue = <<>> => q = <<>>
  <2>1. c.opQueue \in Seq(Item) /\ NamesOnce(c.opQueue)
    BY Fields DEF Once
  <2> QED BY <2>1, EraseNames
<1>5. bw \in Trans \cup {NoTrans}
  BY Fields
<1>6. /\ bq \in Seq(Trans) /\ IsInjective(bq)
      /\ \A u : Contains(bq, u) <=> Contains(c.bkQueue, u) /\ u # t
  <2>1. c.bkQueue \in Seq(Trans) /\ IsInjective(c.bkQueue)
    BY Fields DEF Once
  <2> QED BY <2>1, RemoveFirstMembers
<1>7. d = [c EXCEPT !.queue = g, !.opWriter = w, !.opQueue = q, !.bkWriter = bw, !.bkQueue = bq]
  BY DEF RemovePendingTransaction, CacheState
<1> HIDE DEF d, g, w, q, bw, bq
<1>8. /\ d \in CacheState /\ SameTrans(c, d) /\ SameDisk(c, d)
      /\ d.active = c.active /\ d.doomed = c.doomed /\ d.writer = c.writer
      /\ d.readers = c.readers /\ d.will = c.will /\ d.run = c.run
      /\ d.queue = g /\ d.opWriter = w /\ d.opQueue = q /\ d.bkWriter = bw /\ d.bkQueue = bq
  BY <1>2, <1>3, <1>4, <1>5, <1>6, <1>7 DEF CacheState, SameTrans, SameDisk
<1>9. d.bkWriter = IF c.bkWriter = t THEN NoTrans ELSE c.bkWriter
  BY <1>8 DEF bw
<1> QED BY <1>1, <1>3, <1>4, <1>6, <1>8, <1>9 DEF d

\* A transaction that waits is withdrawn.
LEMMA Removes ==
  ASSUME NEW t \in Trans, NEW c, Inv(c, NoTrans, NoEntry), c.pc[t] \in CachePending, c.run = Idle
  PROVE  Inv(RemovePendingTransaction(c, t), t, NoEntry)
<1> DEFINE d == RemovePendingTransaction(c, t)
<1>0. c \in CacheState /\ Once(c) /\ Operations(c) /\ Registered(c, NoTrans)
  BY DEF Inv, Waiting
<1>1. /\ d \in CacheState /\ SameTrans(c, d) /\ SameDisk(c, d)
      /\ d.active = c.active /\ d.doomed = c.doomed /\ d.writer = c.writer
      /\ d.readers = c.readers /\ d.will = c.will /\ d.run = c.run
      /\ \A e \in Entries : /\ IsInjective(d.queue[e])
                            /\ c.queue[e] = <<>> => d.queue[e] = <<>>
                            /\ \A u : Contains(d.queue[e], u) <=> Contains(c.queue[e], u) /\ u # t
      /\ d.opWriter = NoItem <=> c.opWriter = NoItem
      /\ d.opWriter.kind = c.opWriter.kind
      /\ d.opWriter.trans = IF c.opWriter.trans = t THEN NoTrans ELSE c.opWriter.trans
      /\ NamesOnce(d.opQueue)
      /\ \A i \in 1..Len(d.opQueue) : \E j \in 1..Len(c.opQueue) : d.opQueue[i] = c.opQueue[j]
      /\ \A u : Names(d.opQueue, u) <=> Names(c.opQueue, u) /\ u # t
      /\ c.opQueue = <<>> => d.opQueue = <<>>
      /\ d.bkWriter = IF c.bkWriter = t THEN NoTrans ELSE c.bkWriter
      /\ IsInjective(d.bkQueue)
      /\ \A u : Contains(d.bkQueue, u) <=> Contains(c.bkQueue, u) /\ u # t
  BY <1>0, RemoveResult, ZenonT(60)
<1> HIDE DEF d
<1>2. c.run.items = <<>> /\ \A u : ~Names(c.run.items, u)
  BY <1>0 DEF Idle, Operations, Names
<1>3. Operations(d)
  <2>1. \A i \in 1..Len(d.opQueue) : d.opQueue[i].kind \notin {"add", "init"}
    BY <1>0, <1>1 DEF Operations
  <2> QED BY <1>0, <1>1, <2>1 DEF Operations
<1>4. Once(d)
  <2>1. \A u \in Trans : d.opWriter.trans = u => c.opWriter.trans = u
    BY <1>1
  <2>2. \A u \in Trans : d.bkWriter = u => c.bkWriter = u
    BY <1>1
  <2> QED BY <1>0, <1>1, <1>2, <2>1, <2>2 DEF Once
<1>5. Registered(d, t)
  <2>1. ItemOK(d, t, d.opWriter)
    BY <1>0, <1>1 DEF Registered, ItemOK, SameTrans
  <2>2. \A i \in 1..Len(d.opQueue) : ItemOK(d, t, d.opQueue[i])
    <3> SUFFICES ASSUME NEW i \in 1..Len(d.opQueue) PROVE ItemOK(d, t, d.opQueue[i])
      OBVIOUS
    <3>1. d.opQueue[i].trans # t
      BY <1>1 DEF Names
    <3>2. ItemOK(c, NoTrans, d.opQueue[i])
      BY <1>0, <1>1 DEF Registered
    <3> QED BY <1>1, <3>1, <3>2 DEF ItemOK, SameTrans
  <2>3. \A i \in 1..Len(d.run.items) : ItemOK(d, t, d.run.items[i])
    BY <1>1, <1>2
  <2>4. ASSUME NEW e \in Entries, NEW i \in 1..Len(d.queue[e])
        PROVE  d.queue[e][i] # t /\ d.pc[d.queue[e][i]] = "add" /\ d.entry[d.queue[e][i]] = e
    <3>1. Contains(d.queue[e], d.queue[e][i])
      BY DEF Contains
    <3>2. d.queue[e][i] # t /\ Contains(c.queue[e], d.queue[e][i])
      BY <1>1, <3>1
    <3>3. PICK j \in 1..Len(c.queue[e]) : c.queue[e][j] = d.queue[e][i]
      BY <3>2 DEF Contains
    <3> QED BY <1>0, <1>1, <3>2, <3>3 DEF Registered, SameTrans
  <2>5. d.bkWriter # NoTrans => d.bkWriter # t /\ d.pc[d.bkWriter] = "getBackend"
    BY <1>0, <1>1 DEF Registered, SameTrans
  <2>6. ASSUME NEW i \in 1..Len(d.bkQueue)
        PROVE  d.bkQueue[i] # t /\ d.pc[d.bkQueue[i]] = "getBackend"
    <3>1. Contains(d.bkQueue, d.bkQueue[i])
      BY DEF Contains
    <3>2. d.bkQueue[i] # t /\ Contains(c.bkQueue, d.bkQueue[i])
      BY <1>1, <3>1
    <3>3. PICK j \in 1..Len(c.bkQueue) : c.bkQueue[j] = d.bkQueue[i]
      BY <3>2 DEF Contains
    <3> QED BY <1>0, <1>1, <3>2, <3>3 DEF Registered, SameTrans
  <2> QED BY <2>1, <2>2, <2>3, <2>4, <2>5, <2>6 DEF Registered
<1>6. ASSUME NEW u \in Others(t) PROVE WaitsSomewhere(d, u)
  <2>1. WaitsSomewhere(c, u) /\ u # t /\ u # NoTrans
    BY DEF Inv, Waiting, Others
  <2>2. d.pc[u] = "add" => d.entry[u] \in Entries
    <3>1. PlaceOK(c, u) /\ c.entry[u] \in Entries \cup {NoEntry}
      BY PlaceOf DEF Others
    <3> QED BY <1>1, <3>1 DEF PlaceOK, SameTrans
  <2> QED BY <1>1, <2>1, <2>2 DEF WaitsSomewhere, SameTrans
<1>7. \A e \in Entries : c.queue[e] = <<>> => d.queue[e] = <<>>
  BY <1>1
<1>8. Inv(d, t, NoEntry)
  BY <1>1, <1>3, <1>4, <1>5, <1>6, <1>7, Withdraws
<1> QED BY <1>8 DEF d

\* A transaction without a lock and a list is deleted.
Vanished(c, t) == [c EXCEPT !.pc[t] = "gone", !.mode[t] = "NONE", !.entry[t] = NoEntry, !.reading[t] = FALSE]

LEMMA Vanishes ==
  ASSUME NEW t \in Trans, NEW c, Inv(c, t, NoEntry)
  PROVE  Inv(Vanished(c, t), NoTrans, NoEntry)
<1> DEFINE d == Vanished(c, t)
           g == [c.pc EXCEPT ![t] = "gone"]
           h == [c.mode EXCEPT ![t] = "NONE"]
           k == [c.entry EXCEPT ![t] = NoEntry]
           r == [c.reading EXCEPT ![t] = FALSE]
<1>0. c \in CacheState /\ "gone" \in Places \ CachePending /\ "NONE" \in Modes
  BY DEF Inv, Places, CachePending, Modes
<1>1. /\ g \in [Trans -> Places] /\ h \in [Trans -> Modes] /\ k \in [Trans -> Entries \cup {NoEntry}]
      /\ g[t] = "gone" /\ h[t] = "NONE" /\ k[t] = NoEntry
      /\ \A u \in Others(t) : g[u] = c.pc[u] /\ h[u] = c.mode[u] /\ k[u] = c.entry[u]
  BY <1>0, Fields DEF Others
<1>2. r \in [Trans -> BOOLEAN]
  BY <1>0 DEF CacheState
<1>3. d = [c EXCEPT !.pc = g, !.mode = h, !.entry = k, !.reading = r]
  BY <1>0 DEF Vanished, CacheState
<1> HIDE DEF d, g, h, k, r
<1>4. /\ d \in CacheState /\ SameLocks(c, d) /\ SameDisk(c, d) /\ SameOps(c, d) /\ SameBackend(c, d)
      /\ d.pc = g /\ d.mode = h /\ d.entry = k
  BY <1>0, <1>1, <1>2, <1>3, ZenonT(60) DEF CacheState, SameLocks, SameDisk, SameOps, SameBackend
<1>5. OnlyTrans(c, d, t)
  BY <1>1, <1>4 DEF OnlyTrans
<1>6. Inv(d, t, NoEntry)
  BY <1>4, <1>5, FreeMove
<1>7. PlaceOK(d, t) /\ d.entry[t] = NoEntry /\ d.pc[t] \notin CachePending
  BY <1>0, <1>1, <1>4 DEF PlaceOK
<1>8. Inv(d, NoTrans, NoEntry)
  BY <1>6, <1>7, Land
<1> QED BY <1>8 DEF d

LEMMA DestroyStep ==
  ASSUME IInv, NEW t \in Trans, NEW ok200 \in BOOLEAN, NEW resumable \in BOOLEAN,
         NEW flagged \in BOOLEAN,
         Destroy(t, ok200, resumable, flagged)
  PROVE  IInv'
<1> DEFINE c == IF cache.pc[t] \in CachePending THEN RemovePendingTransaction(cache, t)
                ELSE IF cache.entry[t] # NoEntry
                THEN DoneWithEntry(cache, t, cache.reading[t] /\ ok200, resumable, flagged)
                ELSE cache
<1>0. Inv(cache, NoTrans, NoEntry) /\ cache.run = Idle
  BY DEF IInv, Destroy
<1>1. cache' = Vanished(c, t)
  BY DEF Destroy, Vanished
<1>2. Inv(c, t, NoEntry)
  <2>1. CASE cache.pc[t] \in CachePending
    <3>1. Inv(RemovePendingTransaction(cache, t), t, NoEntry)
      BY <1>0, <2>1, Removes
    <3> QED BY <2>1, <3>1
  <2>2. CASE cache.pc[t] \notin CachePending /\ cache.entry[t] # NoEntry
    <3>1. Inv(DoneWithEntry(cache, t, cache.reading[t] /\ ok200, resumable, flagged), t, NoEntry)
      BY <1>0, <2>2, DoneWith
    <3> QED BY <2>2, <3>1
  <2>3. CASE cache.pc[t] \notin CachePending /\ cache.entry[t] = NoEntry
    <3>1. Inv(cache, t, NoEntry)
      BY <1>0, <2>3, Unattached
    <3> QED BY <2>3, <3>1
  <2> QED BY <2>1, <2>2, <2>3
<1> HIDE DEF c
<1>3. Inv(Vanished(c, t), NoTrans, NoEntry)
  BY <1>2, Vanishes
<1> QED BY ONLY <1>1, <1>3 DEF IInv

(***************************************************************************)
(* The posted task.                                                        *)
(***************************************************************************)
\* The entry in the handler's hands is held or looked at again.
LEMMA GivesBack ==
  ASSUME NEW x, NEW e, NEW c, Inv(c, x, e), Holders(c, e) # {} \/ c.will[e], c.content[e] \in Settled
  PROVE  Inv(c, x, NoEntry)
<1>1. Upkeep(c, x, NoEntry)
  BY DEF Inv, Upkeep
<1>2. Disk(c, x, NoEntry)
  BY DEF Inv, Disk
<1> QED BY <1>1, <1>2 DEF Inv

\* The task has begun to look at the entry.
Looked(c, e) == [c EXCEPT !.will[e] = FALSE]

LEMMA Looks ==
  ASSUME NEW c, Inv(c, NoTrans, NoEntry), NEW e \in Live(c), c.will[e]
  PROVE  LET d == Looked(c, e)
         IN  /\ Inv(d, NoTrans, e) /\ SameTrans(c, d) /\ SameDisk(c, d) /\ SameOps(c, d)
             /\ SameBackend(c, d) /\ d.active = c.active /\ d.doomed = c.doomed
             /\ d.writer = c.writer /\ d.readers = c.readers /\ d.queue = c.queue
             /\ ~d.will[e] /\ e \in Entries /\ d.writer[e] = NoTrans /\ d.content[e] \in Settled
             /\ \A k \in Entries : ~c.will[k] => ~d.will[k]
<1> DEFINE d == Looked(c, e)
           w == [c.will EXCEPT ![e] = FALSE]
<1>0. c \in CacheState /\ e \in Entries
  <2>1. c \in CacheState
    BY DEF Inv
  <2> QED BY <2>1, Fields DEF Live
<1>1. w \in [Entries -> BOOLEAN]
  BY <1>0, Fields
<1>2. ~w[e] /\ \A k \in Entries \ {e} : w[k] = c.will[k]
  BY <1>0, Fields
<1>3. d = [c EXCEPT !.will = w]
  BY <1>0 DEF Looked, CacheState
<1> HIDE DEF d, w
<1>4. /\ d \in CacheState /\ SameTrans(c, d) /\ SameDisk(c, d) /\ SameOps(c, d) /\ SameBackend(c, d)
      /\ d.active = c.active /\ d.doomed = c.doomed /\ d.writer = c.writer
      /\ d.readers = c.readers /\ d.queue = c.queue /\ d.will = w
  BY <1>0, <1>1, <1>3 DEF CacheState, SameTrans, SameDisk, SameOps, SameBackend
<1>5. \A k \in Entries \ {e} : d.will[k] = c.will[k]
  BY <1>2, <1>4
<1>6. ~d.will[e]
  BY <1>2, <1>4
<1>7. Inv(d, NoTrans, e)
  BY <1>0, <1>4, <1>5, <1>6, Handed
<1>8. c.writer[e] = NoTrans
  BY <1>0 DEF Inv, Locks
<1>9. c.content[e] \in Settled
  <2>1. e # NoEntry
    BY <1>0
  <2> QED BY <1>8, <2>1 DEF Inv, Disk
<1>10. \A k \in Entries : ~c.will[k] => ~d.will[k]
  BY <1>5, <1>6
<1> QED BY <1>0, <1>4, <1>6, <1>7, <1>8, <1>9, <1>10 DEF d, SameDisk

\* The first in the queue is taken off it.
Called(c, e) == [c EXCEPT !.queue[e] = Tail(@)]

LEMMA Calls ==
  ASSUME NEW f, NEW c, Inv(c, NoTrans, f), NEW e \in Entries, c.queue[e] # <<>>
  PROVE  LET t == Head(c.queue[e])
             d == Called(c, e)
         IN  /\ t \in Trans /\ c.pc[t] = "add" /\ c.entry[t] = e
             /\ Inv(d, t, f) /\ SameTrans(c, d) /\ SameDisk(c, d)
             /\ d.active = c.active /\ d.doomed = c.doomed /\ d.writer = c.writer
             /\ d.readers = c.readers /\ d.will = c.will
<1> DEFINE q == c.queue[e]
           t == Head(q)
           r == Tail(q)
           d == Called(c, e)
           g == [c.queue EXCEPT ![e] = r]
<1>0. /\ c \in CacheState /\ Once(c) /\ Operations(c) /\ Registered(c, NoTrans)
      /\ q \in Seq(Trans) /\ IsInjective(q)
  <2>1. c \in CacheState /\ Once(c) /\ Operations(c) /\ Registered(c, NoTrans)
    BY DEF Inv, Waiting
  <2> QED BY <2>1, Fields DEF Once
<1>1. /\ r \in Seq(Trans) /\ IsInjective(r) /\ Contains(q, t)
      /\ \A y : Contains(r, y) <=> Contains(q, y) /\ y # t
  BY <1>0, TailMembers
<1>2. t \in Trans
  BY <1>0
<1>3. \A u : Contains(q, u) => c.pc[u] = "add" /\ c.entry[u] = e
  BY <1>0 DEF Registered, Contains
<1>4. /\ g \in [Entries -> Seq(Trans)] /\ g[e] = r
      /\ \A k \in Entries \ {e} : g[k] = c.queue[k]
  BY <1>0, <1>1, Fields
<1>5. d = [c EXCEPT !.queue = g]
  BY <1>0 DEF Called, CacheState
<1> HIDE DEF q, t, r, d, g
<1>6. /\ d \in CacheState /\ SameTrans(c, d) /\ SameDisk(c, d) /\ SameOps(c, d) /\ SameBackend(c, d)
      /\ d.active = c.active /\ d.doomed = c.doomed /\ d.writer = c.writer
      /\ d.readers = c.readers /\ d.will = c.will /\ d.queue = g
  BY <1>0, <1>4, <1>5 DEF CacheState, SameTrans, SameDisk, SameOps, SameBackend
<1>7. \A k \in Entries : c.queue[k] = <<>> => d.queue[k] = <<>>
  <2>1. c.queue[e] # <<>>
    OBVIOUS
  <2> QED BY <1>4, <1>6, <2>1
<1>8. Operations(d)
  BY <1>0, <1>6 DEF Operations, SameOps
<1>9. \A k \in Entries : \A u : Contains(d.queue[k], u) <=> Contains(c.queue[k], u) /\ (k = e => u # t)
  BY <1>1, <1>4, <1>6 DEF q
<1>10. Once(d)
  <2>1. \A k \in Entries : IsInjective(d.queue[k])
    BY <1>0, <1>1, <1>4, <1>6 DEF Once
  <2> QED BY <1>0, <1>6, <1>9, <2>1 DEF Once, SameOps, SameBackend
<1>11. c.pc[t] = "add" /\ c.entry[t] = e
  BY <1>1, <1>3
<1>12. Registered(d, t)
  <2>1. ~Names(c.run.items, t)
    BY <1>0, <1>1, <1>2 DEF Once, q
  <2>2. c.opWriter.trans # t /\ ~Names(c.opQueue, t)
    <3>1. \A item : ItemOK(c, NoTrans, item) /\ item.kind \notin {"add", "init"} => item.trans # t
      BY <1>2, <1>11 DEF ItemOK
    <3> QED BY <1>0, <3>1 DEF Registered, Operations, Names
  <2>3. \A item : ItemOK(c, NoTrans, item) /\ item.trans # t => ItemOK(d, t, item)
    BY <1>6 DEF ItemOK, SameTrans
  <2>4. /\ ItemOK(d, t, d.opWriter)
        /\ \A i \in 1..Len(d.opQueue) : ItemOK(d, t, d.opQueue[i])
        /\ \A i \in 1..Len(d.run.items) : ItemOK(d, t, d.run.items[i])
    BY <1>0, <1>6, <2>1, <2>2, <2>3 DEF Registered, SameOps, Names
  <2>5. ASSUME NEW k \in Entries, NEW i \in 1..Len(d.queue[k])
        PROVE  d.queue[k][i] # t /\ d.pc[d.queue[k][i]] = "add" /\ d.entry[d.queue[k][i]] = k
    <3>1. Contains(d.queue[k], d.queue[k][i])
      BY DEF Contains
    <3>2. Contains(c.queue[k], d.queue[k][i]) /\ (k = e => d.queue[k][i] # t)
      BY <1>9, <3>1
    <3>3. c.pc[d.queue[k][i]] = "add" /\ c.entry[d.queue[k][i]] = k
      BY <1>0, <3>2 DEF Registered, Contains
    <3> QED BY <1>6, <1>11, <3>2, <3>3 DEF SameTrans
  <2>6. /\ d.bkWriter # NoTrans => d.bkWriter # t /\ d.pc[d.bkWriter] = "getBackend"
        /\ \A i \in 1..Len(d.bkQueue) : d.bkQueue[i] # t /\ d.pc[d.bkQueue[i]] = "getBackend"
    BY <1>0, <1>6, <1>11 DEF Registered, SameBackend, SameTrans
  <2> QED BY <2>4, <2>5, <2>6 DEF Registered
<1>13. ASSUME NEW u \in Others(t) PROVE WaitsSomewhere(d, u)
  <2>1. WaitsSomewhere(c, u) /\ u # t /\ u \in Others(NoTrans)
    BY DEF Inv, Waiting, Others
  <2>2. d.pc[u] = "add" => d.entry[u] \in Entries
    <3>1. PlaceOK(c, u) /\ c.entry[u] \in Entries \cup {NoEntry}
      BY <1>0, <2>1, Fields DEF Inv, PlacesOK, Others
    <3> QED BY <1>6, <3>1 DEF PlaceOK, SameTrans
  <2> QED BY <1>6, <1>9, <2>1, <2>2 DEF WaitsSomewhere, SameTrans, SameOps, SameBackend
<1>14. c.pc[t] \in CachePending
  BY <1>11 DEF CachePending
<1>15. Inv(d, t, f)
  BY <1>2, <1>6, <1>7, <1>8, <1>10, <1>12, <1>13, <1>14, Withdraws
<1> QED BY <1>2, <1>6, <1>11, <1>15 DEF d, t, q

\* What a closed entry leaves behind.
LEMMA DestroyResult ==
  ASSUME NEW c \in CacheState, NEW e \in Entries, NEW x \in Contents
  PROVE  LET d == DestroyEntry(c, e, x)
         IN  /\ d \in CacheState /\ SameTrans(c, d) /\ SameOps(c, d) /\ SameBackend(c, d)
             /\ d.writer = c.writer /\ d.readers = c.readers /\ d.queue = c.queue /\ d.will = c.will
             /\ \A k \in Entries \ {e} : d.content[k] = c.content[k]
             /\ e \in c.doomed => d.active = c.active /\ d.doomed = c.doomed \ {e} /\ d.stored = c.stored
             /\ e \notin c.doomed => d.active = NoEntry /\ d.doomed = c.doomed /\ d.stored = x
<1> DEFINE d == DestroyEntry(c, e, x)
           g == [c.content EXCEPT ![e] = "nothing"]
<1>1. g \in [Entries -> Contents] /\ \A k \in Entries \ {e} : g[k] = c.content[k]
  BY Fields DEF Contents
<1>2. CASE e \in c.doomed
  <2>1. d = [c EXCEPT !.content = g, !.doomed = c.doomed \ {e}]
    BY <1>2 DEF DestroyEntry, CacheState
  <2>2. c.doomed \ {e} \in SUBSET Entries
    BY Fields
  <2> HIDE DEF d, g
  <2>3. /\ d \in CacheState /\ SameTrans(c, d) /\ SameOps(c, d) /\ SameBackend(c, d)
        /\ d.writer = c.writer /\ d.readers = c.readers /\ d.queue = c.queue /\ d.will = c.will
        /\ d.content = g /\ d.active = c.active /\ d.doomed = c.doomed \ {e} /\ d.stored = c.stored
    BY <1>1, <2>1, <2>2 DEF CacheState, SameTrans, SameOps, SameBackend
  <2> QED BY <1>1, <1>2, <2>3 DEF d
<1>3. CASE e \notin c.doomed
  <2>1. d = [c EXCEPT !.content = g, !.active = NoEntry, !.stored = x]
    BY <1>3 DEF DestroyEntry, CacheState
  <2> HIDE DEF d, g
  <2>3. /\ d \in CacheState /\ SameTrans(c, d) /\ SameOps(c, d) /\ SameBackend(c, d)
        /\ d.writer = c.writer /\ d.readers = c.readers /\ d.queue = c.queue /\ d.will = c.will
        /\ d.content = g /\ d.active = NoEntry /\ d.doomed = c.doomed /\ d.stored = x
    BY <1>1, <2>1 DEF CacheState, SameTrans, SameOps, SameBackend
  <2> QED BY <1>1, <1>3, <2>3 DEF d
<1> QED BY <1>2, <1>3

\* The task closes an entry that nobody uses.
LEMMA Closes ==
  ASSUME NEW c, NEW e \in Live(c), Inv(c, NoTrans, e), c.writer[e] = NoTrans, c.readers[e] = {},
         ~c.will[e], c.queue[e] = <<>>, NEW x \in Settled
  PROVE  Inv(DestroyEntry(c, e, x), NoTrans, NoEntry)
<1> DEFINE d == DestroyEntry(c, e, x)
<1>0. c \in CacheState /\ e \in Entries /\ x \in Contents /\ e # NoEntry
  <2>1. c \in CacheState
    BY DEF Inv
  <2> QED BY <2>1, Fields DEF Live, Settled, PassesForWhole, Contents
<1>1. /\ d \in CacheState /\ SameTrans(c, d) /\ SameOps(c, d) /\ SameBackend(c, d)
      /\ d.writer = c.writer /\ d.readers = c.readers /\ d.queue = c.queue /\ d.will = c.will
      /\ \A k \in Entries \ {e} : d.content[k] = c.content[k]
      /\ e \in c.doomed => d.active = c.active /\ d.doomed = c.doomed \ {e} /\ d.stored = c.stored
      /\ e \notin c.doomed => d.active = NoEntry /\ d.doomed = c.doomed /\ d.stored = x
  BY <1>0, DestroyResult
<1> HIDE DEF d
<1>2. Holders(c, e) = {}
  BY DEF Holders
<1>3. Operations(d)
  <2>1. c.active = NoEntry => d.active = NoEntry
    BY <1>1
  <2> QED BY <1>1, <2>1 DEF Inv, Operations, SameOps
<1>4. Waiting(d, NoTrans)
  <2>1. OnlyTrans(c, d, NoTrans)
    BY <1>1 DEF OnlyTrans, SameTrans
  <2> QED BY <1>0, <1>1, <2>1, WaitingFrame DEF Inv
<1>5. \A k \in Entries \ {e} : d.content[k] = c.content[k] /\ d.queue[k] = c.queue[k]
  BY <1>1
<1>6. \A k \in Entries : d.will[k] = c.will[k]
  BY <1>1
<1>7. e \notin c.doomed =>
        d.active = NoEntry /\ d.doomed = c.doomed /\ d.stored \in Settled \cup {"nothing"}
  BY <1>1
<1>8. d.queue[e] = <<>>
  BY <1>1
<1>9. Inv(d, NoTrans, NoEntry)
  BY <1>1, <1>2, <1>3, <1>4, <1>5, <1>6, <1>7, <1>8, Destroys
<1> QED BY <1>9 DEF d

LEMMA OnProcessPendingQueueStep ==
  ASSUME IInv, NEW e \in Entries, OnProcessPendingQueue(e)
  PROVE  IInv'
<1> DEFINE q == cache.queue[e]
           d == Looked(cache, e)
           t == Head(q)
           b == Called(d, e)
<1>0. Inv(cache, NoTrans, NoEntry) /\ e \in Live(cache) /\ cache.will[e] /\ cache \in CacheState
  BY DEF IInv, Inv, OnProcessPendingQueue
<1>1. cache' = IF q = <<>>
               THEN (IF cache.readers[e] = {} THEN DestroyEntry(d, e, cache.content[e]) ELSE d)
               ELSE IF Writes(cache.mode[t]) /\ cache.readers[e] # {} THEN d
               ELSE AddTransactionToEntry([d EXCEPT !.queue[e] = Tail(q)], e, t)
  BY DEF OnProcessPendingQueue, Looked
<1>2. /\ Inv(d, NoTrans, e) /\ SameTrans(cache, d) /\ SameDisk(cache, d) /\ SameOps(cache, d)
      /\ SameBackend(cache, d) /\ d.active = cache.active /\ d.doomed = cache.doomed
      /\ d.writer = cache.writer /\ d.readers = cache.readers /\ d.queue = cache.queue
      /\ ~d.will[e] /\ d.writer[e] = NoTrans /\ d.content[e] \in Settled
  BY <1>0, Looks
<1>3. d.queue[e] = q /\ d.readers[e] = cache.readers[e] /\ d.content[e] = cache.content[e] /\ d \in CacheState
  BY <1>2 DEF SameDisk, Inv
<1>4. e \in Live(d)
  BY <1>0, <1>2 DEF Live
<1>5. [d EXCEPT !.queue[e] = Tail(q)] = b
  BY <1>3 DEF Called, CacheState
<1> HIDE DEF d, q
<1>6. CASE q = <<>> /\ cache.readers[e] = {}
  <2>1. cache' = DestroyEntry(d, e, cache.content[e])
    BY <1>1, <1>6
  <2>2. Inv(DestroyEntry(d, e, cache.content[e]), NoTrans, NoEntry)
    BY <1>2, <1>3, <1>4, <1>6, Closes
  <2> QED BY ONLY <2>1, <2>2 DEF IInv
<1>7. CASE cache.readers[e] # {} /\ (q = <<>> \/ Writes(cache.mode[t]))
  <2>1. cache' = d
    BY <1>1, <1>7
  <2>2. Holders(d, e) # {}
    BY <1>3, <1>7 DEF Holders
  <2>3. Inv(d, NoTrans, NoEntry)
    BY <1>2, <2>2, GivesBack
  <2> QED BY ONLY <2>1, <2>3 DEF IInv
<1>8. CASE q # <<>> /\ ~(Writes(cache.mode[t]) /\ cache.readers[e] # {})
  <2>1. cache' = AddTransactionToEntry(b, e, t)
    BY <1>1, <1>5, <1>8
  <2>2. /\ t \in Trans /\ d.pc[t] = "add" /\ d.entry[t] = e
        /\ Inv(b, t, e) /\ SameTrans(d, b) /\ SameDisk(d, b)
        /\ b.active = d.active /\ b.doomed = d.doomed /\ b.writer = d.writer
        /\ b.readers = d.readers /\ b.will = d.will
    BY <1>2, <1>3, <1>8, Calls
  <2> HIDE DEF b, t
  <2>3. e \in Live(b)
    BY <1>4, <2>2 DEF Live
  <2>4. b.mode[t] = cache.mode[t] /\ cache.mode[t] \in {"READ", "READ_WRITE", "UPDATE"}
    <3>1. cache.pc[t] = "add" /\ b.mode[t] = cache.mode[t]
      BY <1>2, <2>2 DEF SameTrans
    <3> QED BY <1>0, <2>2, <3>1, PlaceOf DEF PlaceOK
  <2>5. ~Busy(b, e, t)
    BY <1>2, <1>3, <1>8, <2>2, <2>4 DEF Busy
  <2>6. b.content[e] \in Settled
    BY <1>2, <2>2 DEF SameDisk
  <2>7. Inv(AddTransactionToEntry(b, e, t), NoTrans, NoEntry)
    BY <2>2, <2>3, <2>4, <2>5, <2>6, Admits
  <2> QED BY ONLY <2>1, <2>7 DEF IInv
<1> QED BY <1>6, <1>7, <1>8

(***************************************************************************)
(* The disk cache answers.                                                 *)
(***************************************************************************)
LEMMA NotifyNextStep ==
  ASSUME IInv, NotifyNext
  PROVE  IInv'
<1> DEFINE r == cache.run
           item == Head(r.items)
           x == item.trans
<1>0. Inv(cache, NoTrans, NoEntry) /\ cache \in CacheState /\ cache.run # Idle
  BY DEF IInv, Inv, NotifyNext
<1>1. PICK race \in BOOLEAN :
        race = (\/ r.fail \/ item.kind = "doom" \/ (r.ok /\ cache.active = NoEntry)
                \/ (~r.ok /\ (item.kind = "create") # (r.op = "create")))
  OBVIOUS
<1> DEFINE d == Shortened(cache, race)
           result == IF race THEN "RACE" ELSE IF r.ok /\ item.kind = "open" THEN "OK" ELSE "FAIL"
<1>2. cache' = NotifyTransaction(d, item, result)
  BY <1>1 DEF NotifyNext, Shortened
<1>3. cache.run.fail => race
  BY <1>1
<1>4. ~cache.run.ok /\ ~race => cache.active = NoEntry
  BY <1>0, <1>3 DEF Inv, Operations
<1>5. /\ item \in Item /\ Inv(d, x, NoEntry) /\ SameTrans(cache, d) /\ d.active = cache.active
      /\ x # NoTrans => cache.pc[x] = item.kind
      /\ item.kind \in {"add", "init"} => cache.run.fail
  BY <1>0, <1>3, <1>4, NextInLoop
<1>6. /\ result \in {"RACE", "OK", "FAIL"}
      /\ result # "RACE" => ~race
      /\ result = "OK" => r.ok /\ item.kind = "open"
      /\ result = "FAIL" /\ item.kind = "open" => ~r.ok
  OBVIOUS
<1>7. /\ item.kind = "doom" => race
      /\ r.ok /\ ~race => cache.active # NoEntry
  BY <1>1
<1> HIDE DEF d, result
<1>8. CASE x = NoTrans
  <2>1. cache' = d
    BY <1>2, <1>8 DEF NotifyTransaction
  <2> QED BY <1>5, <1>8, <2>1 DEF IInv
<1>9. CASE x # NoTrans
  <2>1. x \in Trans
    BY <1>5, <1>9 DEF Item
  <2>2. PlaceOK(d, x) /\ d.pc[x] = item.kind
    <3>1. PlaceOK(cache, x)
      BY <1>0, <2>1, PlaceOf
    <3>2. d.pc = cache.pc /\ d.mode = cache.mode /\ d.entry = cache.entry
      BY <1>5 DEF SameTrans
    <3> HIDE DEF x, item
    <3>3. PlaceOK(d, x)
      BY <3>1, <3>2 DEF PlaceOK
    <3> QED BY <1>5, <1>9, <3>2, <3>3
  <2>3. /\ item.kind = "doom" /\ result # "RACE" => d.active = NoEntry
        /\ item.kind \in {"add", "init"} => result = "RACE"
        /\ result = "FAIL" /\ item.kind = "open" => d.active = NoEntry
        /\ result = "OK" /\ item.kind \in {"open", "create"} => d.active # NoEntry /\ item.kind = "open"
    BY <1>3, <1>4, <1>5, <1>6, <1>7
  <2>4. Inv(NotifyTransaction(d, item, result), NoTrans, NoEntry)
    BY <1>5, <1>6, <2>1, <2>2, <2>3, Notifies
  <2> QED BY ONLY <1>2, <2>4 DEF IInv
<1> QED BY <1>8, <1>9

\* An operation is over: those who waited for it are in the loop.
Completed(c, run) == [c EXCEPT !.opWriter = NoItem, !.opQueue = <<>>, !.run = run]

LEMMA Completes ==
  ASSUME NEW c, Inv(c, NoTrans, NoEntry), c.run = Idle, c.opWriter # NoItem,
         NEW run \in [op : {"none", "open", "create", "doom", "add"}, ok : BOOLEAN, fail : BOOLEAN,
                      items : Seq(Item)],
         run.items = c.opQueue, c.opQueue = <<>> <=> run = Idle
  PROVE  LET d == Completed(c, run)
         IN  /\ Inv(d, c.opWriter.trans, NoEntry) /\ SameTrans(c, d) /\ SameLocks(c, d)
             /\ SameDisk(c, d) /\ d.run = run /\ d.opWriter = NoItem /\ d.active = NoEntry
             /\ c.opWriter \in Item /\ c.opWriter.kind \in {"open", "create", "doom"}
             /\ c.opWriter.trans # NoTrans => c.pc[c.opWriter.trans] = c.opWriter.kind
<1> DEFINE d == Completed(c, run)
           x == c.opWriter.trans
           q == c.opQueue
<1>0. /\ c \in CacheState /\ Operations(c) /\ Once(c) /\ Registered(c, NoTrans)
      /\ c.opWriter \in Item /\ q \in Seq(Item)
  <2>1. c \in CacheState /\ Operations(c) /\ Once(c) /\ Registered(c, NoTrans)
    BY DEF Inv, Waiting
  <2> QED BY <2>1, Fields
<1>1. x \in Trans \cup {NoTrans} /\ c.opWriter.kind \in {"open", "create", "doom"} /\ c.active = NoEntry
  BY <1>0 DEF Item, Operations
<1>2. x # NoTrans => c.pc[x] = c.opWriter.kind /\ ~Names(q, x)
  BY <1>0, <1>1 DEF Registered, ItemOK, Once
<1>3. /\ d \in CacheState /\ SameTrans(c, d) /\ SameLocks(c, d) /\ SameDisk(c, d) /\ SameBackend(c, d)
      /\ d.opWriter = NoItem /\ d.opQueue = <<>> /\ d.run = run
  <2>1. <<>> \in Seq(Item)
    OBVIOUS
  <2> QED BY <1>0, <2>1 DEF CacheState, Completed, SameTrans, SameLocks, SameDisk, SameBackend
<1> HIDE DEF d
<1>4. c.run.items = <<>> /\ \A u : ~Names(c.run.items, u)
  BY <1>0 DEF Idle, Operations, Names
<1>5. /\ \A i \in 1..Len(<<>>) : FALSE
      /\ \A u : ~Names(<<>>, u)
      /\ NamesOnce(<<>>)
  BY DEF Names, NamesOnce
<1>6. Operations(d)
  <2>1. \A i \in 1..Len(run.items) : run.items[i].kind \notin {"add", "init"}
    BY <1>0 DEF Operations
  <2>2. NoItem.kind = "none"
    BY DEF NoItem
  <2> QED BY <1>1, <1>3, <1>5, <2>1, <2>2 DEF Operations, SameLocks
<1>7. Registered(d, x)
  <2>1. ItemOK(d, x, NoItem)
    BY DEF ItemOK, NoItem
  <2>2. \A i \in 1..Len(q) : ItemOK(d, x, q[i])
    <3>1. \A i \in 1..Len(q) : ItemOK(c, NoTrans, q[i]) /\ (x # NoTrans => q[i].trans # x)
      BY <1>0, <1>2 DEF Registered, Names
    <3> QED BY <1>3, <3>1 DEF ItemOK, SameTrans
  <2>3. x # NoTrans => c.pc[x] # "add" /\ c.pc[x] # "getBackend"
    BY <1>1, <1>2
  <2>4. \A e \in Entries : \A i \in 1..Len(d.queue[e]) :
          d.queue[e][i] # x /\ d.pc[d.queue[e][i]] = "add" /\ d.entry[d.queue[e][i]] = e
    BY <1>0, <1>3, <2>3 DEF Registered, SameTrans, SameLocks
  <2>5. /\ d.bkWriter # NoTrans => d.bkWriter # x /\ d.pc[d.bkWriter] = "getBackend"
        /\ \A i \in 1..Len(d.bkQueue) : d.bkQueue[i] # x /\ d.pc[d.bkQueue[i]] = "getBackend"
    BY <1>0, <1>3, <2>3 DEF Registered, SameTrans, SameBackend
  <2> QED BY <1>3, <1>5, <2>1, <2>2, <2>4, <2>5 DEF Registered
<1>8. Once(d)
  <2>1. \A u \in Trans : Names(q, u) => c.pc[u] # "add"
    <3> SUFFICES ASSUME NEW u \in Trans, NEW i \in 1..Len(q), q[i].trans = u PROVE c.pc[u] # "add"
      BY DEF Names
    <3>1. ItemOK(c, NoTrans, q[i]) /\ q[i].kind # "add"
      BY <1>0 DEF Registered, Operations
    <3> QED BY <3>1 DEF ItemOK
  <2>2. \A u \in Trans, e \in Entries : Contains(c.queue[e], u) => c.pc[u] = "add"
    BY <1>0 DEF Registered, Contains
  <2>3. \A u \in Trans : NoItem.trans # u
    BY DEF NoItem
  <2> QED BY <1>0, <1>3, <1>5, <2>1, <2>2, <2>3 DEF Once, SameLocks, SameBackend
<1>9. ASSUME NEW u \in Others(x) PROVE WaitsSomewhere(d, u)
  <2>1. WaitsSomewhere(c, u) /\ u # x
    BY DEF Inv, Waiting, Others
  <2> QED BY <1>3, <1>4, <2>1 DEF WaitsSomewhere, SameTrans, SameLocks, SameBackend
<1>10. x # NoTrans => c.pc[x] \in CachePending
  BY <1>1, <1>2 DEF CachePending
<1>11. Inv(d, x, NoEntry)
  BY <1>1, <1>3, <1>6, <1>7, <1>8, <1>9, <1>10, Dismissed
<1>12. d.active = NoEntry
  BY <1>1, <1>3 DEF SameLocks
<1> QED BY <1>0, <1>1, <1>2, <1>3, <1>11, <1>12 DEF d

\* A disk entry is open.
Activated(c, e, x) == [c EXCEPT !.active = e, !.content[e] = x, !.stored = "nothing"]

LEMMA Activates ==
  ASSUME NEW t \in Trans, NEW c, Inv(c, t, NoEntry), c.active = NoEntry, c.opWriter = NoItem,
         c.run = Idle \/ c.run.ok, NEW e \in FreeEntries(c), NEW x \in Contents
  PROVE  LET d == Activated(c, e, x)
         IN  /\ Inv(d, t, e) /\ SameTrans(c, d) /\ d.active = e /\ d.content[e] = x
             /\ ~Busy(d, e, t)
<1> DEFINE d == Activated(c, e, x)
           g == [c.content EXCEPT ![e] = x]
<1>0. c \in CacheState /\ e \in Entries /\ e \notin Live(c) /\ e # NoEntry
  BY DEF Inv, FreeEntries
<1>1. g \in [Entries -> Contents] /\ g[e] = x /\ \A k \in Entries \ {e} : g[k] = c.content[k]
  BY <1>0, Fields
<1>2. d = [c EXCEPT !.active = e, !.content = g, !.stored = "nothing"]
  BY <1>0 DEF Activated, CacheState
<1> HIDE DEF d, g
<1>3. /\ d \in CacheState /\ SameTrans(c, d) /\ SameOps(c, d) /\ SameBackend(c, d)
      /\ d.writer = c.writer /\ d.readers = c.readers /\ d.queue = c.queue /\ d.will = c.will
      /\ d.doomed = c.doomed /\ d.active = e /\ d.content = g /\ d.stored = "nothing"
  BY <1>0, <1>1, <1>2, ZenonT(60) DEF CacheState, SameTrans, SameOps, SameBackend, Contents
<1>4. \A k : Holders(d, k) = Holders(c, k)
  BY <1>3 DEF Holders
<1>5. Live(c) = c.doomed /\ Live(d) = c.doomed \cup {e}
  BY <1>0, <1>3 DEF Live
<1>6. Locks(d, t)
  BY <1>3, <1>4 DEF Inv, Locks, SameTrans
<1>7. Upkeep(d, t, e)
  <2>1. \A k \in Entries \ Live(d) :
          /\ ~d.will[k] /\ d.queue[k] = <<>>
          /\ \A u \in Others(t) : d.entry[u] = k => d.pc[u] = "add"
    BY <1>3, <1>5 DEF Inv, Upkeep, SameTrans
  <2>2. \A k \in Live(d) \ {e} : Holders(d, k) # {} \/ d.will[k]
    <3> SUFFICES ASSUME NEW k \in Live(d) \ {e} PROVE Holders(d, k) # {} \/ d.will[k]
      OBVIOUS
    <3>1. k \in Live(c) \ {NoEntry}
      BY <1>0, <1>5, Fields
    <3> QED BY <1>3, <1>4, <3>1 DEF Inv, Upkeep
  <2> QED BY <1>0, <1>3, <1>5, <2>1, <2>2 DEF Upkeep
<1>8. PlacesOK(d, t)
  BY <1>3 DEF Inv, PlacesOK, PlaceOK, SameTrans
<1>9. \A u \in Others(t) : c.entry[u] = e => c.pc[u] = "add"
  BY <1>0 DEF Inv, Upkeep
<1>10. Disk(d, t, e)
  <2>1. ASSUME NEW k \in Live(d) \ {e}
        PROVE  d.content[k] \in Settled \/ (d.writer[k] # NoTrans /\ d.mode[d.writer[k]] = "WRITE")
    <3>1. k \in Live(c) \ {NoEntry} /\ k \in Entries \ {e}
      BY <1>0, <1>5, Fields
    <3> QED BY <1>1, <1>3, <3>1 DEF Inv, Disk, SameTrans
  <2>2. ASSUME NEW u \in Others(t), d.entry[u] # NoEntry, Trusts(d, u)
        PROVE  d.content[d.entry[u]] \in PassesForWhole
    <3>1. c.entry[u] # NoEntry /\ Trusts(c, u)
      BY <1>3, <2>2 DEF Trusts, SameTrans
    <3>2. c.entry[u] # e
      BY <1>9, <3>1 DEF Trusts
    <3>a. c.entry \in [Trans -> Entries \cup {NoEntry}] /\ u \in Trans
      BY <1>0, Fields DEF Others
    <3>3. PICK k \in Entries \ {e} : c.entry[u] = k
      BY <3>1, <3>2, <3>a
    <3>4. c.content[k] \in PassesForWhole
      BY <3>1, <3>3 DEF Inv, Disk
    <3>5. d.content[k] = c.content[k] /\ d.entry[u] = k
      BY <1>1, <1>3, <3>3 DEF SameTrans
    <3> QED BY <3>4, <3>5
  <2> QED BY <1>3, <2>1, <2>2 DEF Disk
<1>11. Operations(d)
  BY <1>3 DEF Inv, Operations, SameOps
<1>12. Waiting(d, t)
  <2>1. OnlyTrans(c, d, t)
    BY <1>3 DEF OnlyTrans, SameTrans
  <2> QED BY <1>0, <1>3, <2>1, WaitingFrame DEF Inv
<1>13. Inv(d, t, e)
  BY <1>3, <1>6, <1>7, <1>8, <1>10, <1>11, <1>12 DEF Inv
<1>14. Holders(c, e) = {}
  <2> SUFFICES ASSUME NEW u \in Holders(c, e) PROVE FALSE
    OBVIOUS
  <2>1. u \in Trans /\ u # t
    BY <1>0, Fields DEF Holders, Inv, Locks
  <2>2. c.entry[u] = e /\ c.pc[u] \notin CachePending
    BY <1>0, <2>1 DEF Inv, Locks, Others
  <2> QED BY <1>9, <2>1, <2>2 DEF Others, CachePending
<1>15. ~d.will[e]
  BY <1>0, <1>3 DEF Inv, Upkeep
<1>16. ~Busy(d, e, t)
  BY <1>3, <1>14, <1>15 DEF Busy, Holders
<1>17. d.content[e] = x /\ d.active = e
  BY <1>1, <1>3
<1> QED BY <1>3, <1>13, <1>16, <1>17 DEF d

\* What the disk cache did, seen from the cache after the operation.
Finished(c, item, ok) ==
  IF ~ok                       THEN c
  ELSE IF item.kind = "doom"   THEN [c EXCEPT !.stored = "nothing"]
  ELSE IF item.trans = NoTrans THEN c
  ELSE ActivateEntry(c, IF item.kind = "open" THEN c.stored ELSE "none")

LEMMA FinishesOp ==
  ASSUME NEW c \in CacheState, NEW ok \in BOOLEAN,
         NEW run \in [op : {"none", "open", "create", "doom", "add"}, ok : BOOLEAN, fail : BOOLEAN,
                      items : Seq(Item)]
  PROVE  Completed(FinishOp(c, ok), run) = Finished(Completed(c, run), c.opWriter, ok)
<1> DEFINE a == Completed(c, run)
<1>1. a = [c EXCEPT !.opWriter = NoItem, !.opQueue = <<>>, !.run = run]
  BY DEF Completed
<1>2. FreeEntries(a) = FreeEntries(c) /\ a.stored = c.stored
  BY <1>1 DEF FreeEntries, Live, CacheState
<1>3. CASE ~ok \/ (c.opWriter.kind # "doom" /\ c.opWriter.trans = NoTrans)
  BY <1>1, <1>3 DEF FinishOp, Finished
<1>4. CASE ok /\ c.opWriter.kind = "doom"
  <2>1. FinishOp(c, ok) = [c EXCEPT !.stored = "nothing"]
    BY <1>4 DEF FinishOp
  <2>2. Finished(a, c.opWriter, ok) = [a EXCEPT !.stored = "nothing"]
    BY <1>4 DEF Finished
  <2>3. PICK z : z = [c EXCEPT !.stored = "nothing"]
    OBVIOUS
  <2>4. Completed(z, run) = [a EXCEPT !.stored = "nothing"]
    BY <1>1, <2>3 DEF CacheState, Completed
  <2>5. Completed(FinishOp(c, ok), run) = Completed(z, run)
    BY <2>1, <2>3
  <2> QED BY <2>2, <2>4, <2>5
<1>5. CASE ok /\ c.opWriter.kind # "doom" /\ c.opWriter.trans # NoTrans
  <2> DEFINE x == IF c.opWriter.kind = "open" THEN c.stored ELSE "none"
             e == CHOOSE k \in FreeEntries(c) : \A l \in FreeEntries(c) : k <= l
  <2>1. FinishOp(c, ok) = ActivateEntry(c, x) /\ Finished(a, c.opWriter, ok) = ActivateEntry(a, x)
    BY <1>2, <1>5 DEF FinishOp, Finished
  <2>2. ActivateEntry(c, x) = [c EXCEPT !.active = e, !.content[e] = x, !.stored = "nothing"]
    BY DEF ActivateEntry
  <2>3. ActivateEntry(a, x) = [a EXCEPT !.active = e, !.content[e] = x, !.stored = "nothing"]
    BY <1>2 DEF ActivateEntry
  <2> HIDE DEF x, e
  <2>4. PICK z : z = [c EXCEPT !.active = e, !.content[e] = x, !.stored = "nothing"]
    OBVIOUS
  <2>5. Completed(z, run) = [a EXCEPT !.active = e, !.content[e] = x, !.stored = "nothing"]
    BY <1>1, <2>4 DEF CacheState, Completed
  <2>6. Completed(FinishOp(c, ok), run) = Completed(z, run)
    BY <2>1, <2>2, <2>4
  <2> QED BY <2>1, <2>3, <2>5, <2>6
<1> QED BY <1>3, <1>4, <1>5

LEMMA OnIOCompleteStep ==
  ASSUME IInv, NEW ok \in BOOLEAN, OnIOComplete(ok)
  PROVE  IInv'
<1> DEFINE item == cache.opWriter
           x == item.trans
           result == IF ok THEN "OK" ELSE "FAIL"
<1>0. /\ Inv(cache, NoTrans, NoEntry) /\ cache \in CacheState /\ cache.run = Idle /\ item # NoItem
      /\ ok => (cache.stored = "nothing") = (item.kind = "create")
      /\ FreeEntries(cache) # {}
  BY DEF IInv, Inv, OnIOComplete
<1>1. PICK fail \in BOOLEAN : fail = (ok /\ (item.kind = "doom" \/ item.trans = NoTrans))
  OBVIOUS
<1> DEFINE left == IF cache.opQueue = <<>> THEN Idle
                   ELSE [op |-> item.kind, ok |-> ok, fail |-> fail, items |-> cache.opQueue]
           a == Completed(cache, left)
           b == Finished(a, item, ok)
<1>2. item \in Item /\ item.kind \in {"open", "create", "doom"}
  <2>1. item \in Item
    BY <1>0, Fields
  <2> QED BY <1>0, <2>1 DEF Inv, Operations, Item
<1>3. /\ left \in [op : {"none", "open", "create", "doom", "add"}, ok : BOOLEAN, fail : BOOLEAN,
                   items : Seq(Item)]
      /\ left.items = cache.opQueue /\ (cache.opQueue = <<>> <=> left = Idle)
      /\ left = Idle \/ left.ok = ok
  <2>1. CASE cache.opQueue = <<>>
    BY <2>1 DEF Idle
  <2>2. CASE cache.opQueue # <<>>
    <3>1. cache.opQueue \in Seq(Item)
      BY <1>0, Fields
    <3> QED BY <1>2, <2>2, <3>1 DEF Idle
  <2> QED BY <2>1, <2>2
<1>4. cache' = NotifyTransaction(b, item, result)
  <2>1. cache' = NotifyTransaction(Completed(FinishOp(cache, ok), left), item, result)
    BY <1>1 DEF OnIOComplete, Completed
  <2> HIDE DEF left
  <2>2. Completed(FinishOp(cache, ok), left) = b
    BY <1>0, <1>3, FinishesOp
  <2> QED BY <2>1, <2>2
<1> HIDE DEF left
<1>5. /\ Inv(a, x, NoEntry) /\ SameTrans(cache, a) /\ SameLocks(cache, a)
      /\ SameDisk(cache, a) /\ a.run = left /\ a.opWriter = NoItem /\ a.active = NoEntry
      /\ x # NoTrans => cache.pc[x] = item.kind
  BY <1>0, <1>3, Completes
<1> HIDE DEF a
<1>6. PICK f \in Entries \cup {NoEntry} :
        /\ Inv(b, x, f) /\ SameTrans(a, b)
        /\ f = NoEntry => b.active = NoEntry /\ (ok => item.kind = "doom" \/ x = NoTrans)
        /\ f # NoEntry => /\ ok /\ item.kind \in {"open", "create"} /\ f = b.active /\ x # NoTrans
                          /\ ~Busy(b, f, x)
                          /\ b.content[f] \in Settled \/ item.kind = "create"
  <2>1. CASE ~ok \/ (item.kind # "doom" /\ x = NoTrans)
    <3>1. b = a
      BY <2>1 DEF Finished
    <3> QED BY <1>5, <2>1, <3>1 DEF SameTrans
  <2>2. CASE ok /\ item.kind = "doom"
    <3>1. b = [a EXCEPT !.stored = "nothing"] /\ a \in CacheState
      BY <1>5, <2>2 DEF Finished, Inv
    <3> HIDE DEF b
    <3>2. /\ b \in CacheState /\ SameLocks(a, b) /\ SameTrans(a, b) /\ SameOps(a, b)
          /\ SameBackend(a, b) /\ b.content = a.content /\ b.stored = "nothing"
      BY <3>1 DEF CacheState, Contents, SameLocks, SameTrans, SameOps, SameBackend
    <3>3. Inv(b, x, NoEntry)
      BY <1>5, <3>2, Restores
    <3>4. b.active = NoEntry
      BY <1>5, <3>2 DEF SameLocks
    <3> QED BY <2>2, <3>2, <3>3, <3>4
  <2>3. CASE ok /\ item.kind # "doom" /\ x # NoTrans
    <3> DEFINE y == IF item.kind = "open" THEN a.stored ELSE "none"
    <3>1. b = ActivateEntry(a, y)
      BY <2>3 DEF Finished
    <3>2. FreeEntries(a) # {} /\ FreeEntries(a) \in SUBSET Nat
      BY <1>0, <1>5 DEF FreeEntries, Live, SameLocks
    <3>3. PICK e \in FreeEntries(a) : e = CHOOSE k \in FreeEntries(a) : \A l \in FreeEntries(a) : k <= l
      BY <3>2, LeastNatural
    <3>4. b = Activated(a, e, y)
      BY <3>1, <3>3 DEF ActivateEntry, Activated
    <3>5. y \in Contents /\ (y \in Settled \/ item.kind = "create")
      <4>1. a.stored \in Settled \cup {"nothing"}
        BY <1>5 DEF Inv, Disk
      <4>2. item.kind = "open" => a.stored # "nothing"
        BY <1>0, <1>5, <2>3 DEF SameDisk
      <4> QED BY <1>2, <2>3, <4>1, <4>2 DEF Settled, PassesForWhole, Contents
    <3> HIDE DEF b, y
    <3>6. x \in Trans /\ (a.run = Idle \/ a.run.ok)
      BY <1>2, <1>3, <1>5, <2>3 DEF Item
    <3>7. Inv(b, x, e) /\ SameTrans(a, b) /\ b.active = e /\ b.content[e] = y /\ ~Busy(b, e, x)
      BY <1>5, <3>4, <3>5, <3>6, Activates
    <3>8. e \in Entries /\ e # NoEntry
      BY DEF FreeEntries
    <3> QED BY <1>2, <2>3, <3>5, <3>7, <3>8
  <2> QED BY <2>1, <2>2, <2>3
<1> HIDE DEF b
<1>7. CASE x = NoTrans
  <2>1. cache' = b
    BY <1>4, <1>7 DEF NotifyTransaction
  <2> QED BY <1>6, <1>7, <2>1 DEF IInv
<1>8. CASE x # NoTrans
  <2>1. x \in Trans
    BY <1>2, <1>8 DEF Item
  <2>2. PlaceOK(b, x) /\ b.pc[x] = item.kind
    <3>1. PlaceOK(cache, x)
      BY <1>0, <2>1, PlaceOf
    <3>2. b.pc = cache.pc /\ b.mode = cache.mode /\ b.entry = cache.entry
      BY <1>5, <1>6 DEF SameTrans
    <3>3. PlaceOK(b, x)
      BY <3>1, <3>2 DEF PlaceOK
    <3> QED BY <1>5, <1>8, <3>2, <3>3
  <2>3. /\ f = NoEntry \/ (result = "OK" /\ item.kind \in {"open", "create"} /\ f = b.active)
        /\ item.kind = "doom" /\ result # "RACE" => b.active = NoEntry
        /\ item.kind \in {"add", "init"} => result = "RACE"
        /\ result = "FAIL" /\ item.kind = "open" => b.active = NoEntry
        /\ result = "OK" /\ item.kind \in {"open", "create"} =>
             /\ b.active # NoEntry
             /\ f = NoEntry => item.kind = "open"
             /\ f # NoEntry => /\ ~Busy(b, f, x)
                               /\ b.content[f] \in Settled \/ item.kind = "create"
    BY <1>2, <1>6, <1>8
  <2>4. result \in {"RACE", "OK", "FAIL"}
    OBVIOUS
  <2> HIDE DEF result
  <2>5. Inv(NotifyTransaction(b, item, result), NoTrans, NoEntry)
    BY <1>2, <1>6, <2>1, <2>2, <2>3, <2>4, Notifies
  <2> QED BY ONLY <1>4, <2>5 DEF IInv
<1> QED BY <1>7, <1>8

(***************************************************************************)
(* The invariant.                                                          *)
(***************************************************************************)
LEMMA StartsWell ==
  ASSUME Init
  PROVE  IInv
<1> DEFINE c == EmptyCache
<1>1. cache = c
  BY DEF Init
<1>2. /\ c.pc = [t \in Trans |-> "gone"] /\ c.mode = [t \in Trans |-> "NONE"]
      /\ c.entry = [t \in Trans |-> NoEntry] /\ c.active = NoEntry /\ c.doomed = {}
      /\ c.writer = [e \in Entries |-> NoTrans] /\ c.readers = [e \in Entries |-> {}]
      /\ c.queue = [e \in Entries |-> <<>>] /\ c.will = [e \in Entries |-> FALSE]
      /\ c.content = [e \in Entries |-> "nothing"] /\ c.opWriter = NoItem /\ c.opQueue = <<>>
      /\ c.run = Idle /\ c.stored = "nothing" /\ c.bkWriter = NoTrans /\ c.bkQueue = <<>>
  BY DEF EmptyCache
<1>3. c \in CacheState
  <2>1. /\ [t \in Trans |-> "gone"] \in [Trans -> Places] /\ [t \in Trans |-> "NONE"] \in [Trans -> Modes]
        /\ [t \in Trans |-> NoEntry] \in [Trans -> Entries \cup {NoEntry}]
        /\ [e \in Entries |-> NoTrans] \in [Entries -> Trans \cup {NoTrans}]
        /\ [e \in Entries |-> {}] \in [Entries -> SUBSET Trans]
        /\ [e \in Entries |-> "nothing"] \in [Entries -> Contents] /\ "nothing" \in Contents
    BY DEF Places, Modes, Contents
  <2>2. [e \in Entries |-> FALSE] \in [Entries -> BOOLEAN]
    OBVIOUS
  <2>3. [t \in Trans |-> FALSE] \in [Trans -> BOOLEAN]
    OBVIOUS
  <2>4. /\ [e \in Entries |-> <<>>] \in [Entries -> Seq(Trans)]
        /\ Idle \in [op : {"none", "open", "create", "doom", "add"}, ok : BOOLEAN, fail : BOOLEAN,
                     items : Seq(Item)]
    BY DEF Idle
  <2>5. <<>> \in Seq(Item) /\ <<>> \in Seq(Trans)
    OBVIOUS
  <2>6. Lazy \in BOOLEAN
    BY CacheAssumption
  <2>7. (~Lazy) \in BOOLEAN
    OBVIOUS
  <2> QED BY <2>1, <2>2, <2>3, <2>4, <2>5, <2>6, <2>7 DEF EmptyCache, CacheState
<1> HIDE DEF c
<1>4. Live(c) = {} /\ \A e \in Entries : Holders(c, e) = {}
  BY <1>2 DEF Live, Holders
<1>5. Locks(c, NoTrans)
  BY <1>2, <1>4 DEF Locks, Others
<1>6. Upkeep(c, NoTrans, NoEntry)
  BY <1>2, <1>4 DEF Upkeep, Others
<1>7. PlacesOK(c, NoTrans)
  BY <1>2 DEF PlacesOK, PlaceOK, Others
<1>8. Disk(c, NoTrans, NoEntry)
  BY <1>2, <1>4 DEF Disk, Others
<1>9. Operations(c)
  BY <1>2 DEF Operations, NoItem, Idle
<1>10. Waiting(c, NoTrans)
  <2>1. Registered(c, NoTrans)
    BY <1>2 DEF Registered, ItemOK, NoItem, Idle
  <2>2. Once(c)
    BY <1>2 DEF Once, NamesOnce, Names, IsInjective, Contains, NoItem, Idle
  <2>3. \A t \in Others(NoTrans) : WaitsSomewhere(c, t)
    BY <1>2 DEF WaitsSomewhere, Others
  <2> QED BY <2>1, <2>2, <2>3 DEF Waiting
<1> QED BY <1>1, <1>3, <1>5, <1>6, <1>7, <1>8, <1>9, <1>10 DEF Inv, IInv

\* What every step of the code preserves.
LEMMA StepKeepsIInv ==
  ASSUME IInv, [Next]_cache
  PROVE  IInv'
<1>1. CASE \E t \in Trans, m \in StartModes : Start(t, m)
  BY <1>1, StartStep
<1>2. CASE \E ok \in BOOLEAN : OnBackendCreated(ok)
  BY <1>2, OnBackendCreatedStep
<1>3. CASE \E ok \in BOOLEAN : OnIOComplete(ok)
  BY <1>3, OnIOCompleteStep
<1>4. CASE NotifyNext
  BY <1>4, NotifyNextStep
<1>5. CASE \E e \in Entries : OnProcessPendingQueue(e)
  BY <1>5, OnProcessPendingQueueStep
<1>6. CASE \E t \in Trans, ok \in BOOLEAN, choice \in {"skip", "validate", "fetch"} :
             ReadResponseInfo(t, ok, choice)
  BY <1>6, ReadResponseInfoStep
<1>7. CASE \E t \in Trans, r \in Responses : NetworkResponse(t, r)
  BY <1>7, NetworkResponseStep
<1>8. CASE \E t \in Trans, ok \in BOOLEAN : ResponseInfoWritten(t, ok)
  BY <1>8, ResponseInfoWrittenStep
<1>9. CASE \E t \in Trans : Read(t)
  BY <1>9, ReadStep
<1>10. CASE \E t \in Trans : Restart(t)
  BY <1>10, RestartStep
<1>11. CASE \E t \in Trans, r \in {"data", "eof", "error"} : CacheReadDone(t, r)
  BY <1>11, CacheReadDoneStep
<1>12. CASE \E t \in Trans, r \in {"data", "eof", "error"} : NetworkReadDone(t, r)
  BY <1>12, NetworkReadDoneStep
<1>13. CASE \E t \in Trans, ok \in BOOLEAN : DataWritten(t, ok)
  BY <1>13, DataWrittenStep
<1>14. CASE \E t \in Trans, ok200, resumable, flagged \in BOOLEAN :
               Destroy(t, ok200, resumable, flagged)
  BY <1>14, DestroyStep
<1>15. CASE Evict
  BY <1>15, EvictStep
<1>16. CASE UNCHANGED cache
  BY <1>16 DEF IInv
<1> QED BY <1>1, <1>2, <1>3, <1>4, <1>5, <1>6, <1>7, <1>8, <1>9, <1>10, <1>11, <1>12, <1>13, <1>14,
           <1>15, <1>16 DEF Next, Work

\* The bookkeeping of the cache is right in every state, and between any two steps of a
\* handler.
THEOREM Bookkeeping == Spec => []IInv
<1>1. Init => IInv
  BY StartsWell
<1>2. IInv /\ [Next]_cache => IInv'
  BY StepKeepsIInv
<1> QED BY <1>1, <1>2, PTL DEF Spec

(***************************************************************************)
(* Where a transaction is registered.                                      *)
(***************************************************************************)
\* A list that is two lists, one behind the other.
IsConcat(s, p, q) == s = p \o q

\* Its positions.
LEMMA ConcatPlaces ==
  ASSUME NEW S, NEW p \in Seq(S), NEW q \in Seq(S), NEW s, IsConcat(s, p, q)
  PROVE  /\ s \in Seq(S) /\ DOMAIN s = 1..Len(s)
         /\ \A j \in 1..Len(p) : j \in 1..Len(s) /\ s[j] = p[j]
         /\ \A j \in 1..Len(q) : Len(p) + j \in 1..Len(s) /\ s[Len(p) + j] = q[j]
         /\ \A i \in 1..Len(s) : i \in 1..Len(p) \/ \E j \in 1..Len(q) : i = Len(p) + j
<1> DEFINE m == Len(p)
           n == Len(q)
<1>1. /\ s \in Seq(S) /\ Len(s) = m + n
      /\ \A i \in 1..(m + n) : s[i] = IF i <= m THEN p[i] ELSE q[i - m]
  BY ConcatProperties DEF IsConcat
<1>2. m \in Nat /\ n \in Nat /\ DOMAIN s = 1..Len(s)
  BY <1>1
<1> HIDE DEF m, n
<1>3. ASSUME NEW j \in 1..m PROVE j \in 1..(m + n) /\ s[j] = p[j]
  BY <1>1, <1>2
<1>4. ASSUME NEW j \in 1..n PROVE m + j \in 1..(m + n) /\ s[m + j] = q[j]
  <2>1. m + j \in 1..(m + n) /\ ~(m + j <= m) /\ (m + j) - m = j
    BY <1>2
  <2> QED BY <1>1, <2>1
<1>5. ASSUME NEW i \in 1..(m + n), i \notin 1..m PROVE \E j \in 1..n : i = m + j
  <2>1. i - m \in 1..n /\ i = m + (i - m)
    BY <1>2, <1>5
  <2> QED BY <2>1
<1> QED BY <1>1, <1>2, <1>3, <1>4, <1>5 DEF m, n

\* A list names a transaction at one position at most.
NamesAtOnePlace(s, t) ==
  \A i, j \in 1..Len(s) : s[i].trans = t /\ s[j].trans = t => i = j

LEMMA ConcatNames ==
  ASSUME NEW S, NEW p \in Seq(S), NEW q \in Seq(S), NEW s, IsConcat(s, p, q), NEW t,
         NamesAtOnePlace(p, t), NamesAtOnePlace(q, t), ~(Names(p, t) /\ Names(q, t))
  PROVE  /\ s \in Seq(S) /\ DOMAIN s = 1..Len(s)
         /\ NamesAtOnePlace(s, t)
         /\ Names(s, t) <=> Names(p, t) \/ Names(q, t)
         /\ \A i \in 1..Len(s) : \/ \E j \in 1..Len(p) : s[i] = p[j]
                                 \/ \E j \in 1..Len(q) : s[i] = q[j]
<1> DEFINE m == Len(p)
<1>1. /\ s \in Seq(S) /\ DOMAIN s = 1..Len(s)
      /\ \A j \in 1..Len(p) : j \in 1..Len(s) /\ s[j] = p[j]
      /\ \A j \in 1..Len(q) : m + j \in 1..Len(s) /\ s[m + j] = q[j]
      /\ \A i \in 1..Len(s) : i \in 1..Len(p) \/ \E j \in 1..Len(q) : i = m + j
  BY ConcatPlaces
<1> HIDE DEF m
<1>2. Names(s, t) <=> Names(p, t) \/ Names(q, t)
  <2>1. ASSUME Names(s, t) PROVE Names(p, t) \/ Names(q, t)
    <3>1. PICK i \in 1..Len(s) : s[i].trans = t
      BY <2>1 DEF Names
    <3> QED BY <1>1, <3>1 DEF Names
  <2>2. Names(p, t) => Names(s, t)
    BY <1>1 DEF Names
  <2>3. ASSUME Names(q, t) PROVE Names(s, t)
    <3>1. PICK j \in 1..Len(q) : q[j].trans = t
      BY <2>3 DEF Names
    <3>2. m + j \in 1..Len(s) /\ s[m + j].trans = t
      BY <1>1, <3>1
    <3> QED BY <3>2 DEF Names
  <2> QED BY <2>1, <2>2, <2>3
<1>3. \A i \in 1..Len(s) : \/ \E j \in 1..Len(p) : s[i] = p[j]
                           \/ \E j \in 1..Len(q) : s[i] = q[j]
  BY <1>1
<1>4. ASSUME NEW i \in 1..Len(s), NEW j \in 1..Len(s), s[i].trans = t, s[j].trans = t
      PROVE  i = j
  <2>1. CASE i \in 1..Len(p) /\ j \in 1..Len(p)
    BY <1>1, <1>4, <2>1 DEF NamesAtOnePlace
  <2>2. ASSUME NEW k \in 1..Len(q), NEW l \in 1..Len(q), i = m + k, j = m + l PROVE i = j
    <3>1. q[k].trans = t /\ q[l].trans = t
      BY <1>1, <1>4, <2>2
    <3>2. k = l
      BY <3>1 DEF NamesAtOnePlace
    <3> QED BY <2>2, <3>2
  <2>3. ASSUME NEW k \in 1..Len(p), NEW l \in 1..Len(q),
               (i = k /\ j = m + l) \/ (j = k /\ i = m + l)
        PROVE  FALSE
    <3>1. p[k].trans = t /\ q[l].trans = t
      BY <1>1, <1>4, <2>3
    <3> QED BY <3>1 DEF Names
  <2> QED BY <1>1, <2>1, <2>2, <2>3
<1>5. NamesAtOnePlace(s, t)
  BY <1>4 DEF NamesAtOnePlace
<1> QED BY <1>1, <1>2, <1>3, <1>5

\* The operation under way, those that wait for their turn and those in the loop.
Lines(s, w, q, r) == s = <<w>> \o q \o r

LEMMA ItemsInOrder ==
  ASSUME NEW w \in Item \cup {NoItem}, NEW q \in Seq(Item), NEW r \in Seq(Item), NEW t \in Trans,
         NamesOnce(q), NamesOnce(r), w.trans = t => ~Names(q, t),
         w.trans = t \/ Names(q, t) => ~Names(r, t), NEW s, Lines(s, w, q, r)
  PROVE  /\ DOMAIN s = 1..Len(s) /\ NamesAtOnePlace(s, t)
         /\ w.trans = t \/ Names(q, t) \/ Names(r, t) => Names(s, t)
         /\ \A i \in 1..Len(s) : \/ s[i] = w
                                 \/ \E j \in 1..Len(q) : s[i] = q[j]
                                 \/ \E j \in 1..Len(r) : s[i] = r[j]
<1>0. PICK T : T = Item \cup {NoItem}
  OBVIOUS
<1> DEFINE p == <<w>>
<1>p. PICK a : IsConcat(a, p, q)
  BY DEF IsConcat
<1>q. IsConcat(s, a, r)
  BY <1>p DEF IsConcat, Lines
<1>1. p \in Seq(T) /\ Len(p) = 1 /\ p[1] = w /\ q \in Seq(T) /\ r \in Seq(T)
  BY <1>0
<1> HIDE DEF p
<1>2. /\ NamesAtOnePlace(p, t) /\ (Names(p, t) <=> w.trans = t)
      /\ \A i \in 1..Len(p) : p[i] = w
  BY <1>1 DEF NamesAtOnePlace, Names
<1>3. NamesAtOnePlace(q, t) /\ NamesAtOnePlace(r, t)
  BY DEF NamesAtOnePlace, NamesOnce
<1>4. /\ a \in Seq(T) /\ NamesAtOnePlace(a, t)
      /\ Names(a, t) <=> Names(p, t) \/ Names(q, t)
      /\ \A i \in 1..Len(a) : \/ \E j \in 1..Len(p) : a[i] = p[j]
                              \/ \E j \in 1..Len(q) : a[i] = q[j]
  BY <1>p, <1>1, <1>2, <1>3, ConcatNames
<1>a. ~(Names(a, t) /\ Names(r, t))
  BY <1>2, <1>4
<1>5. /\ s \in Seq(T) /\ DOMAIN s = 1..Len(s) /\ NamesAtOnePlace(s, t)
      /\ Names(s, t) <=> Names(a, t) \/ Names(r, t)
      /\ \A i \in 1..Len(s) : \/ \E j \in 1..Len(a) : s[i] = a[j]
                              \/ \E j \in 1..Len(r) : s[i] = r[j]
  BY <1>q, <1>1, <1>3, <1>4, <1>a, ConcatNames
<1>6. \A i \in 1..Len(s) : \/ s[i] = w
                           \/ \E j \in 1..Len(q) : s[i] = q[j]
                           \/ \E j \in 1..Len(r) : s[i] = r[j]
  <2> SUFFICES ASSUME NEW i \in 1..Len(s), ~\E j \in 1..Len(r) : s[i] = r[j]
               PROVE  s[i] = w \/ \E j \in 1..Len(q) : s[i] = q[j]
    OBVIOUS
  <2>1. PICK k \in 1..Len(a) : s[i] = a[k]
    BY <1>5
  <2> QED BY <1>2, <1>4, <2>1
<1> QED BY <1>2, <1>4, <1>5, <1>6

\* Those who wait for the backend.
LEMMA BackendInOrder ==
  ASSUME NEW w \in Trans \cup {NoTrans}, NEW q \in Seq(Trans), NEW t \in Trans,
         IsInjective(q), w = t => ~Contains(q, t), NEW s, IsConcat(s, <<w>>, q)
  PROVE  /\ DOMAIN s = 1..Len(s)
         /\ \A i \in 1..Len(s) : s[i] = w \/ \E j \in 1..Len(q) : s[i] = q[j]
         /\ w = t \/ Contains(q, t) => \E i \in 1..Len(s) : s[i] = t
         /\ \A i, j \in 1..Len(s) : s[i] = t /\ s[j] = t => i = j
<1>0. PICK T : T = Trans \cup {NoTrans}
  OBVIOUS
<1> DEFINE p == <<w>>
<1>s. IsConcat(s, p, q)
  OBVIOUS
<1>1. Len(p) = 1 /\ p[1] = w
  OBVIOUS
<1>a. p \in Seq(T)
  BY <1>0
<1>b. q \in Seq(T)
  BY <1>0
<1> HIDE DEF p
<1>2. /\ s \in Seq(T) /\ DOMAIN s = 1..Len(s)
      /\ \A j \in 1..Len(p) : j \in 1..Len(s) /\ s[j] = p[j]
      /\ \A j \in 1..Len(q) : Len(p) + j \in 1..Len(s) /\ s[Len(p) + j] = q[j]
      /\ \A i \in 1..Len(s) : i \in 1..Len(p) \/ \E j \in 1..Len(q) : i = Len(p) + j
  BY ONLY <1>s, <1>a, <1>b, ConcatPlaces
<1>3. 1 \in 1..Len(p) /\ \A k \in 1..Len(p) : k = 1
  BY <1>1
<1>4. /\ 1 \in 1..Len(s) /\ s[1] = w
      /\ \A j \in 1..Len(q) : 1 + j \in 1..Len(s) /\ s[1 + j] = q[j]
      /\ \A i \in 1..Len(s) : i = 1 \/ \E j \in 1..Len(q) : i = 1 + j
  BY <1>1, <1>2, <1>3
<1>5. \A k, l \in 1..Len(q) : q[k] = q[l] => k = l
  BY DEF IsInjective
<1>6. ASSUME NEW i \in 1..Len(s), NEW j \in 1..Len(s), s[i] = t, s[j] = t PROVE i = j
  <2>1. CASE w = t
    <3>1. \A k \in 1..Len(q) : q[k] # t
      BY <2>1 DEF Contains
    <3> QED BY <1>4, <1>6, <3>1
  <2>2. CASE w # t
    <3>1. PICK k \in 1..Len(q) : i = 1 + k
      BY <1>4, <1>6, <2>2
    <3>2. PICK l \in 1..Len(q) : j = 1 + l
      BY <1>4, <1>6, <2>2
    <3>3. q[k] = t /\ q[l] = t
      BY <1>4, <1>6, <3>1, <3>2
    <3>4. k = l
      BY <1>5, <3>3
    <3> QED BY <3>1, <3>2, <3>4
  <2> QED BY <2>1, <2>2
<1>7. w = t \/ Contains(q, t) => \E i \in 1..Len(s) : s[i] = t
  BY <1>4 DEF Contains
<1>8. \A i \in 1..Len(s) : s[i] = w \/ \E j \in 1..Len(q) : s[i] = q[j]
  BY <1>4
<1> QED BY <1>2, <1>6, <1>7, <1>8

\* The lists of those who wait for an operation, and of those who wait for the backend.
ItemsInLine == <<cache.opWriter>> \o cache.opQueue \o cache.run.items
BackendLine == <<cache.bkWriter>> \o cache.bkQueue

LEMMA RegistrationsAre ==
  ASSUME NEW t, NEW place
  PROVE  place \in Registrations(t) <=>
           \/ \E i \in DOMAIN ItemsInLine :
                ItemsInLine[i].trans = t /\ place = <<ItemsInLine[i].kind, NoEntry, i>>
           \/ \E i \in DOMAIN BackendLine : BackendLine[i] = t /\ place = <<"getBackend", NoEntry, i>>
           \/ \E e \in Entries : \E i \in DOMAIN cache.queue[e] :
                cache.queue[e][i] = t /\ place = <<"add", e, i>>
<1> DEFINE I == {<<ItemsInLine[i].kind, NoEntry, i>> : i \in {i \in DOMAIN ItemsInLine : ItemsInLine[i].trans = t}}
           B == {<<"getBackend", NoEntry, i>> : i \in {i \in DOMAIN BackendLine : BackendLine[i] = t}}
           Q(e) == {<<"add", e, i>> : i \in {i \in DOMAIN cache.queue[e] : cache.queue[e][i] = t}}
<1>1. Registrations(t) = I \cup B \cup UNION {Q(e) : e \in Entries}
  BY DEF Registrations, ItemsInLine, BackendLine
<1>2. place \in I <=> \E i \in DOMAIN ItemsInLine :
        ItemsInLine[i].trans = t /\ place = <<ItemsInLine[i].kind, NoEntry, i>>
  OBVIOUS
<1>3. place \in B <=> \E i \in DOMAIN BackendLine : BackendLine[i] = t /\ place = <<"getBackend", NoEntry, i>>
  OBVIOUS
<1>4. \A e : place \in Q(e) <=>
        \E i \in DOMAIN cache.queue[e] : cache.queue[e][i] = t /\ place = <<"add", e, i>>
  OBVIOUS
<1> HIDE DEF I, B, Q
<1>5. place \in UNION {Q(e) : e \in Entries} <=> \E e \in Entries : place \in Q(e)
  OBVIOUS
<1> QED BY <1>1, <1>2, <1>3, <1>4, <1>5

\* Whoever stands in a line waits there, and stands there once.
LEMMA LinesInOrder ==
  ASSUME IInv, NEW t \in Trans
  PROVE  /\ NamesAtOnePlace(ItemsInLine, t) /\ DOMAIN ItemsInLine = 1..Len(ItemsInLine)
         /\ \A i \in DOMAIN ItemsInLine : ItemsInLine[i].trans = t =>
              ItemsInLine[i].kind = cache.pc[t] /\ ItemsInLine[i] \in Item
         /\ cache.opWriter.trans = t \/ Names(cache.opQueue, t) \/ Names(cache.run.items, t)
              => Names(ItemsInLine, t)
         /\ cache.pc[t] = "add" /\ ~Names(cache.run.items, t) => ~Names(ItemsInLine, t)
         /\ \A i \in DOMAIN BackendLine : BackendLine[i] = t => cache.pc[t] = "getBackend"
         /\ \A i, j \in DOMAIN BackendLine : BackendLine[i] = t /\ BackendLine[j] = t => i = j
         /\ cache.bkWriter = t \/ Contains(cache.bkQueue, t)
              => \E i \in DOMAIN BackendLine : BackendLine[i] = t
<1> DEFINE w == cache.opWriter
           q == cache.opQueue
           r == cache.run.items
           s == ItemsInLine
<1>0. cache \in CacheState
  BY DEF IInv, Inv
<1>1. w \in Item \cup {NoItem} /\ q \in Seq(Item) /\ r \in Seq(Item)
  BY <1>0, Fields
<1>2. /\ NamesOnce(q) /\ NamesOnce(r)
      /\ w.trans = t => ~Names(q, t)
      /\ w.trans = t \/ Names(q, t) => ~Names(r, t)
  BY DEF IInv, Inv, Waiting, Once
<1>3. /\ DOMAIN s = 1..Len(s) /\ NamesAtOnePlace(s, t)
      /\ w.trans = t \/ Names(q, t) \/ Names(r, t) => Names(s, t)
      /\ \A i \in 1..Len(s) : \/ s[i] = w
                              \/ \E j \in 1..Len(q) : s[i] = q[j]
                              \/ \E j \in 1..Len(r) : s[i] = r[j]
  <2>1. Lines(s, w, q, r)
    BY DEF Lines, ItemsInLine
  <2> HIDE DEF w, q, r, s
  <2>2. q \in Seq(Item) /\ r \in Seq(Item)
    BY <1>1
  <2>3. NamesOnce(q) /\ NamesOnce(r)
    BY <1>2
  <2> QED BY ONLY t \in Trans, <1>1, <2>2, <2>3, <1>2, <2>1, ItemsInOrder
<1>4. /\ ItemOK(cache, NoTrans, w)
      /\ \A i \in 1..Len(q) : ItemOK(cache, NoTrans, q[i]) /\ q[i] \in Item
      /\ \A i \in 1..Len(r) : ItemOK(cache, NoTrans, r[i]) /\ r[i] \in Item
  BY <1>0, Members DEF IInv, Inv, Waiting, Registered
<1>5. /\ w.kind \notin {"add", "init"}
      /\ \A i \in 1..Len(q) : q[i].kind \notin {"add", "init"}
  BY DEF IInv, Inv, Operations
<1> HIDE DEF w, q, r, s
<1>6. \A i \in 1..Len(s) : ItemOK(cache, NoTrans, s[i]) /\ s[i] \in Item \cup {NoItem}
  BY <1>1, <1>3, <1>4
<1>7. \A i \in DOMAIN s : s[i].trans = t => s[i].kind = cache.pc[t] /\ s[i] \in Item
  BY <1>3, <1>6 DEF ItemOK, NoItem
<1>8. ASSUME cache.pc[t] = "add", ~Names(r, t), Names(s, t) PROVE FALSE
  <2>1. PICK i \in 1..Len(s) : s[i].trans = t
    BY <1>8 DEF Names
  <2>2. s[i].kind = "add"
    BY <1>3, <1>7, <1>8, <2>1
  <2>3. PICK j \in 1..Len(r) : s[i] = r[j]
    BY <1>3, <1>5, <2>2
  <2> QED BY <1>8, <2>1, <2>3 DEF Names
<1>9. /\ cache.bkWriter \in Trans \cup {NoTrans} /\ cache.bkQueue \in Seq(Trans)
      /\ IsInjective(cache.bkQueue)
      /\ cache.bkWriter = t => ~Contains(cache.bkQueue, t)
  BY <1>0, Fields DEF IInv, Inv, Waiting, Once
<1>10. LET b == BackendLine
       IN  /\ DOMAIN b = 1..Len(b)
           /\ \A i \in 1..Len(b) :
                b[i] = cache.bkWriter \/ \E j \in 1..Len(cache.bkQueue) : b[i] = cache.bkQueue[j]
           /\ cache.bkWriter = t \/ Contains(cache.bkQueue, t) => \E i \in 1..Len(b) : b[i] = t
           /\ \A i, j \in 1..Len(b) : b[i] = t /\ b[j] = t => i = j
  <2>1. PICK b : b = BackendLine
    OBVIOUS
  <2>2. IsConcat(b, <<cache.bkWriter>>, cache.bkQueue)
    BY <2>1 DEF IsConcat, BackendLine
  <2>3. /\ DOMAIN b = 1..Len(b)
        /\ \A i \in 1..Len(b) :
             b[i] = cache.bkWriter \/ \E j \in 1..Len(cache.bkQueue) : b[i] = cache.bkQueue[j]
        /\ cache.bkWriter = t \/ Contains(cache.bkQueue, t) => \E i \in 1..Len(b) : b[i] = t
        /\ \A i, j \in 1..Len(b) : b[i] = t /\ b[j] = t => i = j
    BY <1>9, <2>2, BackendInOrder
  <2> QED BY <2>1, <2>3
<1>11. /\ cache.bkWriter = t => cache.pc[t] = "getBackend"
       /\ \A i \in 1..Len(cache.bkQueue) : cache.bkQueue[i] = t => cache.pc[t] = "getBackend"
  BY DEF IInv, Inv, Waiting, Registered
<1>12. \A i \in DOMAIN BackendLine : BackendLine[i] = t => cache.pc[t] = "getBackend"
  BY <1>10, <1>11
<1> QED BY <1>3, <1>7, <1>8, <1>10, <1>12 DEF w, q, r, s

\* A transaction is registered once, where it waits, and nowhere if it does not.
LEMMA OnePlace ==
  ASSUME IInv
  PROVE  WaitsInOnePlace
<1> SUFFICES ASSUME NEW t \in Trans
             PROVE  IF cache.pc[t] \in CachePending
                    THEN \E place \in Registrations(t) :
                           /\ Registrations(t) = {place}
                           /\ place[1] = cache.pc[t] /\ place[2] \in {NoEntry, cache.entry[t]}
                    ELSE Registrations(t) = {}
  BY DEF WaitsInOnePlace
<1>0. PICK items : items = ItemsInLine
  OBVIOUS
<1>00. PICK line : line = BackendLine
  OBVIOUS
<1> DEFINE Here(place) ==
             \/ \E i \in DOMAIN items : items[i].trans = t /\ place = <<items[i].kind, NoEntry, i>>
             \/ \E i \in DOMAIN line : line[i] = t /\ place = <<"getBackend", NoEntry, i>>
             \/ \E e \in Entries : \E i \in DOMAIN cache.queue[e] :
                  cache.queue[e][i] = t /\ place = <<"add", e, i>>
<1>1. \A place : place \in Registrations(t) <=> Here(place)
  BY <1>0, <1>00, RegistrationsAre
<1>2. /\ \A i, j \in DOMAIN items : items[i].trans = t /\ items[j].trans = t => i = j
      /\ \A i \in DOMAIN items : items[i].trans = t => items[i].kind = cache.pc[t] /\ items[i] \in Item
      /\ cache.opWriter.trans = t \/ Names(cache.opQueue, t) \/ Names(cache.run.items, t)
           => \E i \in DOMAIN items : items[i].trans = t
      /\ cache.pc[t] = "add" /\ ~Names(cache.run.items, t)
           => \A i \in DOMAIN items : items[i].trans # t
      /\ \A i \in DOMAIN line : line[i] = t => cache.pc[t] = "getBackend"
      /\ \A i, j \in DOMAIN line : line[i] = t /\ line[j] = t => i = j
      /\ cache.bkWriter = t \/ Contains(cache.bkQueue, t) => \E i \in DOMAIN line : line[i] = t
  BY <1>0, <1>00, LinesInOrder DEF NamesAtOnePlace, Names
<1>3. cache \in CacheState
  BY DEF IInv, Inv
<1>4. \A e \in Entries : \A i \in DOMAIN cache.queue[e] :
        cache.queue[e][i] = t => cache.pc[t] = "add" /\ cache.entry[t] = e
  <2>1. \A e \in Entries : DOMAIN cache.queue[e] = 1..Len(cache.queue[e])
    BY <1>3, Fields
  <2> QED BY <2>1 DEF IInv, Inv, Waiting, Registered
<1>5. \A i \in DOMAIN items : items[i].trans = t =>
        cache.pc[t] \in {"open", "create", "doom", "add", "init"} /\ items[i].kind = cache.pc[t]
  BY <1>2 DEF Item
<1>6. WaitsSomewhere(cache, t) /\ PlaceOK(cache, t)
  BY CacheAssumption DEF IInv, Inv, Waiting, PlacesOK, Others
<1> HIDE DEF Here
<1>7. CASE cache.pc[t] \notin CachePending
  <2>1. \A place : ~Here(place)
    BY <1>2, <1>4, <1>5, <1>7 DEF Here, CachePending
  <2> QED BY <1>1, <1>7, <2>1
<1>8. CASE /\ cache.pc[t] \in CachePending
           /\ \E place : /\ Here(place) /\ \A other : Here(other) => other = place
                         /\ place[1] = cache.pc[t] /\ place[2] \in {NoEntry, cache.entry[t]}
  <2>1. PICK place : /\ Here(place) /\ \A other : Here(other) => other = place
                     /\ place[1] = cache.pc[t] /\ place[2] \in {NoEntry, cache.entry[t]}
    BY <1>8
  <2>2. place \in Registrations(t) /\ Registrations(t) = {place}
    BY <1>1, <2>1
  <2> QED BY <1>8, <2>1, <2>2
<1>9. ASSUME NEW i \in DOMAIN items, items[i].trans = t,
             \A e \in Entries : \A j \in DOMAIN cache.queue[e] : cache.queue[e][j] # t
      PROVE  \E place : /\ Here(place) /\ \A other : Here(other) => other = place
                        /\ place[1] = cache.pc[t] /\ place[2] \in {NoEntry, cache.entry[t]}
  <2>1. PICK place : place = <<items[i].kind, NoEntry, i>>
    OBVIOUS
  <2>2. Here(place)
    BY <1>9, <2>1 DEF Here
  <2>3. place[1] = cache.pc[t] /\ place[2] = NoEntry
    BY <1>5, <1>9, <2>1
  <2>4. cache.pc[t] # "getBackend"
    BY <1>5, <1>9
  <2>5. ASSUME NEW other, Here(other) PROVE other = place
    <3>1. PICK j \in DOMAIN items : items[j].trans = t /\ other = <<items[j].kind, NoEntry, j>>
      BY <1>2, <1>9, <2>4, <2>5 DEF Here
    <3>2. j = i
      BY <1>2, <1>9, <3>1
    <3> QED BY <2>1, <3>1, <3>2
  <2> QED BY <2>2, <2>3, <2>5
<1>10. CASE cache.pc[t] = "getBackend"
  <2>1. PICK i \in DOMAIN line : line[i] = t
    BY <1>2, <1>6, <1>10 DEF WaitsSomewhere
  <2>2. PICK place : place = <<"getBackend", NoEntry, i>>
    OBVIOUS
  <2>3. Here(place) /\ place[1] = cache.pc[t] /\ place[2] = NoEntry
    BY <1>10, <2>1, <2>2 DEF Here
  <2>4. ASSUME NEW other, Here(other) PROVE other = place
    <3>1. PICK j \in DOMAIN line : line[j] = t /\ other = <<"getBackend", NoEntry, j>>
      BY <1>4, <1>5, <1>10, <2>4 DEF Here
    <3>2. j = i
      BY <1>2, <2>1, <3>1
    <3> QED BY <2>2, <3>1, <3>2
  <2> QED BY <1>8, <1>10, <2>3, <2>4 DEF CachePending
<1>11. CASE cache.pc[t] \in {"open", "create", "doom", "init"}
  <2>1. PICK i \in DOMAIN items : items[i].trans = t
    BY <1>2, <1>6, <1>11 DEF WaitsSomewhere
  <2>2. \A e \in Entries : \A j \in DOMAIN cache.queue[e] : cache.queue[e][j] # t
    BY <1>4, <1>11
  <2> QED BY <1>8, <1>9, <1>11, <2>1, <2>2 DEF CachePending
<1>12. CASE cache.pc[t] = "add" /\ Names(cache.run.items, t)
  <2>1. PICK i \in DOMAIN items : items[i].trans = t
    BY <1>2, <1>12
  <2>2. \A e \in Entries : ~Contains(cache.queue[e], t)
    BY <1>12 DEF IInv, Inv, Waiting, Once
  <2>3. \A e \in Entries : \A j \in DOMAIN cache.queue[e] : cache.queue[e][j] # t
    BY <1>3, <2>2, Fields DEF Contains
  <2> QED BY <1>8, <1>9, <1>12, <2>1, <2>3 DEF CachePending
<1>13. CASE cache.pc[t] = "add" /\ ~Names(cache.run.items, t)
  <2>1. PICK e : e = cache.entry[t]
    OBVIOUS
  <2>2. e \in Entries /\ Contains(cache.queue[e], t)
    BY <1>3, <1>6, <1>13, <2>1, Fields DEF PlaceOK, WaitsSomewhere
  <2>3. DOMAIN cache.queue[e] = 1..Len(cache.queue[e]) /\ IsInjective(cache.queue[e])
    <3>1. DOMAIN cache.queue[e] = 1..Len(cache.queue[e])
      BY <1>3, <2>2, Fields
    <3>2. Once(cache)
      BY DEF IInv, Inv, Waiting
    <3>3. IsInjective(cache.queue[e])
      BY <2>2, <3>2 DEF Once
    <3> QED BY <3>1, <3>3
  <2>4. PICK i \in DOMAIN cache.queue[e] : cache.queue[e][i] = t
    BY <2>2, <2>3 DEF Contains
  <2>5. PICK place : place = <<"add", e, i>>
    OBVIOUS
  <2>6. Here(place) /\ place[1] = cache.pc[t] /\ place[2] = cache.entry[t]
    BY <1>13, <2>1, <2>2, <2>4, <2>5 DEF Here
  <2>7. ASSUME NEW other, Here(other) PROVE other = place
    <3>1. PICK f \in Entries : \E j \in DOMAIN cache.queue[f] :
                 cache.queue[f][j] = t /\ other = <<"add", f, j>>
      BY <1>2, <1>13, <2>7 DEF Here
    <3>2. PICK j \in DOMAIN cache.queue[f] : cache.queue[f][j] = t /\ other = <<"add", f, j>>
      BY <3>1
    <3>3. f = e
      BY <1>4, <2>1, <3>2
    <3>4. j = i
      BY <2>3, <2>4, <3>2, <3>3 DEF IsInjective
    <3> QED BY <2>5, <3>2, <3>3, <3>4
  <2> QED BY <1>8, <1>13, <2>6, <2>7 DEF CachePending
<1> QED BY <1>7, <1>10, <1>11, <1>12, <1>13 DEF CachePending

(***************************************************************************)
(* What the bookkeeping is for.                                            *)
(***************************************************************************)
\* Nothing points to a deleted entry.
LEMMA NothingDangles ==
  ASSUME IInv
  PROVE  NoDanglingEntry
<1> SUFFICES ASSUME NEW e \in Entries \ Live(cache)
             PROVE  /\ ~cache.will[e] /\ cache.queue[e] = <<>>
                    /\ \A t \in Trans : cache.entry[t] = e => Names(cache.run.items, t)
  BY DEF NoDanglingEntry, Names
<1>1. Upkeep(cache, NoTrans, NoEntry)
  BY DEF IInv, Inv
<1>2. ~cache.will[e] /\ cache.queue[e] = <<>>
  BY <1>1 DEF Upkeep
<1>3. ASSUME NEW t \in Trans, cache.entry[t] = e PROVE Names(cache.run.items, t)
  <2>1. t \in Others(NoTrans)
    BY CacheAssumption DEF Others
  <2>2. cache.pc[t] = "add"
    BY <1>1, <1>3, <2>1 DEF Upkeep
  <2>3. ~Contains(cache.queue[e], t)
    BY <1>2 DEF Contains
  <2>4. WaitsSomewhere(cache, t)
    BY <2>1 DEF IInv, Inv, Waiting
  <2> QED BY <1>3, <2>2, <2>3, <2>4 DEF WaitsSomewhere
<1> QED BY <1>2, <1>3

\* The bookkeeping of the cache: the locks of its entries, what points to them, where
\* each transaction waits and which operations are pending (the DCHECKs of http_cache.cc).
THEOREM BookkeepingIsRight == Spec => []CacheInv
<1>1. ASSUME IInv PROVE CacheInv
  <2>0. cache \in CacheState
    BY <1>1 DEF IInv, Inv
  <2>a. \A t \in Trans : t \in Others(NoTrans)
    BY CacheAssumption DEF Others
  <2>b. Live(cache) \subseteq Entries /\ NoEntry \notin Live(cache)
    BY <2>0, CacheAssumption, Fields DEF Live
  <2>1. TypeOK
    <3>1. Once(cache)
      BY <1>1 DEF IInv, Inv, Waiting
    <3>2. \A e \in Entries : IsInjective(cache.queue[e])
      BY <3>1 DEF Once
    <3> QED BY <2>0, <3>2 DEF TypeOK
  <2>2. ReaderWriterLock
    <3>1. Locks(cache, NoTrans)
      BY <1>1 DEF IInv, Inv
    <3> QED BY <2>a, <2>b, <3>1 DEF Locks, ReaderWriterLock
  <2>3. NoDanglingEntry
    BY <1>1, NothingDangles
  <2>4. WaitsInOnePlace
    BY <1>1, OnePlace
  <2>5. OpExcludesActive
    BY <1>1 DEF IInv, Inv, Operations, OpExcludesActive
  <2>6. WriteOnlyNeverWaits
    BY <1>1, <2>a DEF IInv, Inv, PlacesOK, PlaceOK, WriteOnlyNeverWaits
  <2>7. NoAbandonedEntry
    BY <1>1, <2>b DEF IInv, Inv, Upkeep, NoAbandonedEntry
  <2> QED BY <2>1, <2>2, <2>3, <2>4, <2>5, <2>6, <2>7 DEF CacheInv
<1> QED BY <1>1, Bookkeeping, PTL

\* A client is served from the cache only what is whole on disk, whatever happened to
\* the writers of the entry, but for a cancelled download whose flag was not written.
THEOREM WholeResponses == Spec => []OnlyWholeResponsesServed
<1>1. ASSUME IInv PROVE OnlyWholeResponsesServed
  <2>1. \A t \in Trans : t \in Others(NoTrans)
    BY CacheAssumption DEF Others
  <2> QED BY <1>1, <2>1 DEF IInv, Inv, Disk, Trusts, Serves, OnlyWholeResponsesServed
<1> QED BY <1>1, Bookkeeping, PTL

(***************************************************************************)
(* Who is admitted.                                                        *)
(***************************************************************************)
\* The fields that tell who holds what: enough of the type of a cache to follow them
\* through a handler.
Shaped(c) ==
  /\ DOMAIN c = {"pc", "mode", "entry", "reading", "active", "doomed", "writer", "readers", "queue",
                 "will", "content", "opWriter", "opQueue", "run", "stored", "ready", "factory",
                 "building", "bkWriter", "bkQueue"}
  /\ DOMAIN c.pc = Trans /\ DOMAIN c.entry = Trans

LEMMA CacheIsShaped == ASSUME NEW c \in CacheState PROVE Shaped(c)
BY DEF CacheState, Shaped

\* No transaction comes to hold another entry; only |t| goes elsewhere.
Loosens(c, d, t) ==
  /\ Shaped(d)
  /\ \A u \in Trans : d.entry[u] = c.entry[u] \/ d.entry[u] = NoEntry
  /\ \A u \in Others(t) : d.pc[u] = c.pc[u]

LEMMA GoesLoosens ==
  ASSUME NEW t, NEW c, Shaped(c), NEW p
  PROVE  Loosens(c, Goes(c, t, p), t)
BY DEF Shaped, Loosens, Goes, Others

LEMMA ProcessLoosens ==
  ASSUME NEW t, NEW c, Shaped(c), NEW e
  PROVE  Loosens(c, ProcessPendingQueue(c, e), t)
BY DEF Shaped, Loosens, ProcessPendingQueue, Others

LEMMA RaceLoosens ==
  ASSUME NEW t, NEW c, Shaped(c), NEW items
  PROVE  Loosens(c, RaceAll(c, items), t)
BY DEF Shaped, Loosens, RaceAll, Others

LEMMA DestroyLoosens ==
  ASSUME NEW t, NEW c, Shaped(c), NEW e, NEW kept
  PROVE  Loosens(c, DestroyEntry(c, e, kept), t)
BY DEF Shaped, Loosens, DestroyEntry, Others

LEMMA LoosensTwice ==
  ASSUME NEW t, NEW b, NEW c, NEW d, Loosens(b, c, t), Loosens(c, d, t)
  PROVE  Loosens(b, d, t)
BY DEF Loosens

LEMMA CacheDoneLoosens ==
  ASSUME NEW t, NEW c, Shaped(c), NEW e, NEW success
  PROVE  Loosens(c, CacheDoneWriting(c, e, success), t)
<1>1. PICK d : d = [c EXCEPT !.writer[e] = NoTrans]
  OBVIOUS
<1>2. Loosens(c, d, t)
  BY <1>1 DEF Shaped, Loosens, Others
<1>3. PICK g : g = [d EXCEPT !.queue[e] = <<>>]
  OBVIOUS
<1>4. Loosens(d, g, t)
  BY <1>2, <1>3 DEF Shaped, Loosens, Others
<1>5. PICK items : items = [i \in 1..Len(c.queue[e]) |-> [kind |-> "add", trans |-> c.queue[e][i]]]
  OBVIOUS
<1>6. CacheDoneWriting(c, e, success) =
        IF success THEN ProcessPendingQueue(d, e) ELSE RaceAll(DestroyEntry(g, e, "nothing"), items)
  BY <1>1, <1>3, <1>5 DEF CacheDoneWriting
<1>7. Loosens(d, ProcessPendingQueue(d, e), t)
  BY <1>2, ProcessLoosens DEF Loosens
<1>8. PICK h : h = DestroyEntry(g, e, "nothing")
  OBVIOUS
<1>9. Loosens(g, h, t)
  BY <1>4, <1>8, DestroyLoosens DEF Loosens
<1>10. Loosens(h, RaceAll(h, items), t)
  BY <1>9, RaceLoosens DEF Loosens
<1>11. Loosens(c, h, t)
  BY <1>2, <1>4, <1>9, LoosensTwice
<1> QED BY <1>2, <1>6, <1>7, <1>8, <1>10, <1>11, LoosensTwice

LEMMA DoneWritingLoosens ==
  ASSUME NEW t, NEW c, Shaped(c), NEW success
  PROVE  Loosens(c, DoneWritingToEntry(c, t, success), t)
<1>1. PICK d : d = CacheDoneWriting(c, c.entry[t], success)
  OBVIOUS
<1>2. Loosens(c, d, t)
  BY <1>1, CacheDoneLoosens
<1>3. PICK g : g = [d EXCEPT !.entry[t] = NoEntry, !.mode[t] = "NONE"]
  OBVIOUS
<1>4. Loosens(d, g, t)
  BY <1>2, <1>3 DEF Shaped, Loosens, Others
<1>5. Loosens(c, c, t)
  BY DEF Loosens
<1> QED BY <1>1, <1>2, <1>3, <1>4, <1>5, LoosensTwice DEF DoneWritingToEntry

LEMMA DoneReadingLoosens ==
  ASSUME NEW t, NEW c, Shaped(c)
  PROVE  Loosens(c, DoneReadingFromEntry(c, t), t)
BY DEF Shaped, Loosens, DoneReadingFromEntry, ProcessPendingQueue, Others

LEMMA ConvertLoosens ==
  ASSUME NEW t, NEW c, Shaped(c)
  PROVE  Loosens(c, ConvertWriterToReader(c, t), t)
BY DEF Shaped, Loosens, ConvertWriterToReader, ProcessPendingQueue, Others

LEMMA DoneWithLoosens ==
  ASSUME NEW t, NEW c, Shaped(c), NEW cancel, NEW resumable, NEW flagged
  PROVE  Loosens(c, DoneWithEntry(c, t, cancel, resumable, flagged), t)
<1>1. PICK d : d = [c EXCEPT !.content[c.entry[t]] = IF flagged THEN "truncated" ELSE "unmarked"]
  OBVIOUS
<1>2. Loosens(c, d, t) /\ Loosens(c, c, t)
  BY <1>1 DEF Shaped, Loosens, Others
<1>3. Loosens(d, CacheDoneWriting(d, c.entry[t], TRUE), t)
  <2>1. Shaped(d)
    BY <1>2 DEF Loosens
  <2> QED BY <2>1, CacheDoneLoosens
<1>4. Loosens(c, CacheDoneWriting(d, c.entry[t], TRUE), t)
  BY <1>2, <1>3, LoosensTwice
<1>5. Loosens(c, CacheDoneWriting(c, c.entry[t], FALSE), t)
  BY CacheDoneLoosens
<1>6. Loosens(c, DoneReadingFromEntry(c, t), t)
  BY DoneReadingLoosens
<1> QED BY <1>1, <1>2, <1>4, <1>5, <1>6 DEF DoneWithEntry

LEMMA DoomLoosens ==
  ASSUME NEW t, NEW u, NEW c, Shaped(c)
  PROVE  Loosens(c, DoomEntry(c, u), t)
BY DEF Shaped, Loosens, DoomEntry, GetPendingOp, Others

\* A step that only loosens admits nobody: a transaction that waits for nothing and
\* does not move to an entry does not come to hold one.
LEMMA NobodyAdmitted ==
  ASSUME IInv, IInv', NEW t, Loosens(cache, cache', t),
         t \in Trans => cache.pc[t] \notin CachePending \/ cache'.entry[t] = NoEntry,
         NEW e \in Entries, NEW u \in Trans, u \in Holders(cache', e)
  PROVE  u \in Holders(cache, e)
<1>1. u \in Others(NoTrans)
  BY CacheAssumption DEF Others
<1>2. cache'.entry[u] = e /\ cache'.pc[u] \notin CachePending
  BY <1>1 DEF IInv, Inv, Locks
<1>3. cache.entry[u] = e
  BY <1>2, CacheAssumption DEF Loosens
<1>4. cache.pc[u] \notin CachePending
  BY <1>2, CacheAssumption DEF Loosens, Others
<1> QED BY <1>1, <1>3, <1>4 DEF IInv, Inv, Locks

LEMMA GoesAfter ==
  ASSUME NEW t, NEW b, NEW c, Loosens(b, c, t), NEW p
  PROVE  Loosens(b, Goes(c, t, p), t)
BY GoesLoosens, LoosensTwice DEF Loosens

LEMMA DoneWritingAfter ==
  ASSUME NEW t, NEW b, NEW c, Loosens(b, c, t), NEW success
  PROVE  Loosens(b, DoneWritingToEntry(c, t, success), t)
<1>1. Shaped(c)
  BY DEF Loosens
<1>2. Loosens(c, DoneWritingToEntry(c, t, success), t)
  BY <1>1, DoneWritingLoosens
<1> QED BY <1>2, LoosensTwice

LEMMA CacheLoosens ==
  ASSUME IInv, NEW t
  PROVE  Shaped(cache) /\ Loosens(cache, cache, t)
<1>1. Shaped(cache)
  BY CacheIsShaped DEF IInv, Inv
<1> QED BY <1>1 DEF Loosens

\* The steps of a transaction that is past the lock.
LEMMA ReadLoosens ==
  ASSUME IInv, NEW t \in Trans, Read(t)
  PROVE  Loosens(cache, cache', t) /\ cache.pc[t] \notin CachePending
<1>1. PICK c : /\ c = IF cache.pc[t] = "auth" /\ cache.mode[t] # "NONE"
                      THEN DoneWritingToEntry(cache, t, cache.mode[t] = "READ_WRITE") ELSE cache
              /\ cache' = Goes([c EXCEPT !.reading[t] = TRUE], t,
                               IF c.mode[t] = "READ" THEN "cacheRead" ELSE "netRead")
  BY DEF Read
<1>2. Loosens(cache, c, t)
  BY <1>1, CacheLoosens, DoneWritingLoosens
<1>3. PICK d : d = [c EXCEPT !.reading[t] = TRUE]
  OBVIOUS
<1>4. Loosens(c, d, t)
  BY <1>2, <1>3 DEF Shaped, Loosens, Others
<1>5. Loosens(cache, d, t)
  BY <1>2, <1>4, LoosensTwice
<1>6. cache.pc[t] \notin CachePending
  BY DEF Read, CachePending
<1> QED BY <1>1, <1>3, <1>5, <1>6, GoesAfter

LEMMA RestartLoosens ==
  ASSUME IInv, NEW t \in Trans, Restart(t)
  PROVE  Loosens(cache, cache', t) /\ cache.pc[t] \notin CachePending
BY CacheLoosens, GoesAfter DEF Restart, CachePending

LEMMA CacheReadLoosens ==
  ASSUME IInv, NEW t \in Trans, NEW r, CacheReadDone(t, r), r \in {"data", "eof", "error"}
  PROVE  Loosens(cache, cache', t) /\ cache.pc[t] \notin CachePending
BY CacheLoosens, DoneReadingLoosens, GoesAfter DEF CacheReadDone, CachePending

LEMMA NetworkReadLoosens ==
  ASSUME IInv, NEW t \in Trans, NEW r, NetworkReadDone(t, r), r \in {"data", "eof", "error"}
  PROVE  Loosens(cache, cache', t) /\ cache.pc[t] \notin CachePending
<1>1. PICK d : d = [cache EXCEPT !.content[cache.entry[t]] = "complete"]
  OBVIOUS
<1>2. Loosens(cache, d, t)
  BY <1>1, CacheLoosens DEF Shaped, Loosens, Others
<1>4. Loosens(cache, DoneWritingToEntry(d, t, TRUE), t)
  BY <1>2, DoneWritingAfter
<1>5. Loosens(cache, cache, t)
  BY CacheLoosens
<1>6. \E c, p : Loosens(cache, c, t) /\ cache' = Goes(c, t, p)
  BY <1>1, <1>4, <1>5 DEF NetworkReadDone
<1>7. cache.pc[t] \notin CachePending
  BY DEF NetworkReadDone, CachePending
<1> QED BY <1>6, <1>7, GoesAfter

LEMMA DataWrittenLoosens ==
  ASSUME IInv, NEW t \in Trans, NEW ok, DataWritten(t, ok)
  PROVE  Loosens(cache, cache', t) /\ cache.pc[t] \notin CachePending
BY CacheLoosens, DoneWritingLoosens, GoesAfter DEF DataWritten, CachePending

LEMMA UpdateLoosens ==
  ASSUME NEW t, NEW b, NEW c, Loosens(b, c, t)
  PROVE  Loosens(b, UpdateCachedResponseComplete(c, t), t)
<1>1. Shaped(c)
  BY DEF Loosens
<1>2. /\ Loosens(b, DoneWritingToEntry(c, t, TRUE), t)
      /\ Loosens(b, ConvertWriterToReader(c, t), t)
  BY <1>1, DoneWritingLoosens, ConvertLoosens, LoosensTwice
<1> QED BY <1>2, GoesAfter DEF UpdateCachedResponseComplete

LEMMA ResponseInfoLoosens ==
  ASSUME IInv, NEW t \in Trans, NEW ok, ResponseInfoWritten(t, ok)
  PROVE  Loosens(cache, cache', t) /\ cache.pc[t] \notin CachePending
<1>1. PICK c : c = IF ok THEN cache ELSE DoneWritingToEntry(cache, t, FALSE)
  OBVIOUS
<1>2. Loosens(cache, c, t)
  BY <1>1, CacheLoosens, DoneWritingLoosens
<1>3. Loosens(cache, DoneWritingToEntry(c, t, TRUE), t)
  BY <1>2, DoneWritingAfter
<1>4. cache.pc[t] \in {"writeUpdate", "writeInfo"}
  BY DEF ResponseInfoWritten
<1>5. \/ cache' = UpdateCachedResponseComplete(c, t)
      \/ cache' = Goes(DoneWritingToEntry(c, t, TRUE), t, "headers")
      \/ cache' = Goes(c, t, "headers")
  BY <1>1 DEF ResponseInfoWritten
<1> QED BY <1>2, <1>3, <1>4, <1>5, UpdateLoosens, GoesAfter DEF CachePending

LEMMA NetworkLoosens ==
  ASSUME IInv, NEW t \in Trans, NEW r, NetworkResponse(t, r)
  PROVE  Loosens(cache, cache', t) /\ cache.pc[t] \notin CachePending
<1>1. PICK c : c = [cache EXCEPT !.mode[t] = IF cache.mode[t] \in {"READ_WRITE", "UPDATE"}
                                            THEN "WRITE" ELSE cache.mode[t]]
  OBVIOUS
<1>2. Loosens(cache, c, t)
  BY <1>1, CacheLoosens DEF Shaped, Loosens, Others
<1>3. \A success : Loosens(cache, DoneWritingToEntry(cache, t, success), t)
  BY CacheLoosens, DoneWritingLoosens
<1>4. Loosens(cache, UpdateCachedResponseComplete(DoomEntry(cache, NoTrans), t), t)
  BY CacheLoosens, DoomLoosens, UpdateLoosens
<1>5. Loosens(cache, OverwriteCachedResponse(c, t, r), t)
  <2>1. Loosens(cache, DoneWritingToEntry(c, t, FALSE), t)
    BY <1>2, DoneWritingAfter
  <2>2. PICK d : d = [c EXCEPT !.content[c.entry[t]] = IF r = "redirect" THEN "complete" ELSE "partial"]
    OBVIOUS
  <2>3. Loosens(c, d, t)
    BY <1>2, <2>2 DEF Shaped, Loosens, Others
  <2>4. Loosens(cache, d, t)
    BY <1>2, <2>3, LoosensTwice
  <2> QED BY <1>2, <2>1, <2>2, <2>4, GoesAfter DEF OverwriteCachedResponse
<1>6. \/ \E p : cache' = Goes(cache, t, p)
      \/ \E success : cache' = Goes(DoneWritingToEntry(cache, t, success), t, "headers")
      \/ cache' = UpdateCachedResponseComplete(DoomEntry(cache, NoTrans), t)
      \/ cache' = OverwriteCachedResponse(c, t, r)
  BY <1>1 DEF NetworkResponse
<1>7. cache.pc[t] \notin CachePending
  BY DEF NetworkResponse, CachePending
<1> QED BY <1>3, <1>4, <1>5, <1>6, <1>7, CacheLoosens, GoesAfter

LEMMA ReadInfoLoosens ==
  ASSUME IInv, NEW t \in Trans, NEW ok, NEW choice, ReadResponseInfo(t, ok, choice)
  PROVE  Loosens(cache, cache', t) /\ cache.pc[t] \notin CachePending
<1>0. /\ Loosens(cache, cache, t) /\ Loosens(cache, DoneWritingToEntry(cache, t, TRUE), t)
      /\ Loosens(cache, ConvertWriterToReader(cache, t), t)
  BY CacheLoosens, DoneWritingAfter, ConvertLoosens
<1>1. PICK d : d = DoneWithEntry(DoomEntry(cache, NoTrans), t, FALSE, FALSE, FALSE)
  OBVIOUS
<1>2. Loosens(cache, d, t)
  <2>1. Loosens(cache, DoomEntry(cache, NoTrans), t)
    BY CacheLoosens, DoomLoosens
  <2>2. Shaped(DoomEntry(cache, NoTrans))
    BY <2>1 DEF Loosens
  <2>3. Loosens(DoomEntry(cache, NoTrans), d, t)
    BY <1>1, <2>2, DoneWithLoosens
  <2> QED BY <2>1, <2>3, LoosensTwice
<1>3. PICK g : g = Goes([d EXCEPT !.entry[t] = NoEntry, !.mode[t] = "WRITE"], t, "init")
  OBVIOUS
<1>4. Loosens(cache, g, t)
  <2>1. PICK h : h = [d EXCEPT !.entry[t] = NoEntry, !.mode[t] = "WRITE"]
    OBVIOUS
  <2>2. Loosens(d, h, t)
    BY <1>2, <2>1 DEF Shaped, Loosens, Others
  <2> QED BY <1>2, <1>3, <2>1, <2>2, LoosensTwice, GoesAfter
<1>5. PICK run : run = [op |-> "add", ok |-> FALSE, fail |-> TRUE,
                        items |-> Append(d.run.items, [kind |-> "init", trans |-> t])]
  OBVIOUS
<1>6. PICK k : k = [g EXCEPT !.run = run]
  OBVIOUS
<1>7. Loosens(cache, k, t)
  <2>1. Loosens(g, k, t)
    BY <1>4, <1>6 DEF Shaped, Loosens, Others
  <2> QED BY <1>4, <2>1, LoosensTwice
<1>8. PICK w : w = [cache EXCEPT !.mode[t] = "WRITE"]
  OBVIOUS
<1>9. Loosens(cache, w, t)
  BY <1>0, <1>8 DEF Shaped, Loosens, Others
<1>10. \/ \E p : cache' = Goes(cache, t, p)
       \/ cache' = Goes(DoneWritingToEntry(cache, t, TRUE), t, "send")
       \/ cache' = Goes(ConvertWriterToReader(cache, t), t, "headers")
       \/ cache' = Goes(w, t, "send")
       \/ cache' = k
  BY <1>1, <1>3, <1>5, <1>6, <1>8 DEF ReadResponseInfo
<1>11. cache.pc[t] \notin CachePending
  BY DEF ReadResponseInfo, CachePending
<1> QED BY <1>0, <1>7, <1>9, <1>10, <1>11, GoesAfter

LEMMA DestroyLoosensToo ==
  ASSUME IInv, NEW t \in Trans, NEW ok200, NEW resumable, NEW flagged, Destroy(t, ok200, resumable, flagged)
  PROVE  Loosens(cache, cache', t) /\ cache'.entry[t] = NoEntry
<1>1. PICK c : c = IF cache.pc[t] \in CachePending THEN RemovePendingTransaction(cache, t)
                   ELSE IF cache.entry[t] # NoEntry
                   THEN DoneWithEntry(cache, t, cache.reading[t] /\ ok200, resumable, flagged)
                   ELSE cache
  OBVIOUS
<1>2. Loosens(cache, c, t)
  <2>1. Loosens(cache, RemovePendingTransaction(cache, t), t)
    BY CacheLoosens DEF RemovePendingTransaction, Shaped, Loosens
  <2>2. PICK cancel : cancel = (cache.reading[t] /\ ok200)
    OBVIOUS
  <2>3. Loosens(cache, DoneWithEntry(cache, t, cancel, resumable, flagged), t)
    BY CacheLoosens, DoneWithLoosens
  <2> QED BY <1>1, <2>1, <2>2, <2>3, CacheLoosens
<1>3. cache' = [c EXCEPT !.pc[t] = "gone", !.mode[t] = "NONE", !.entry[t] = NoEntry, !.reading[t] = FALSE]
  BY <1>1 DEF Destroy
<1>4. Loosens(c, cache', t) /\ cache'.entry[t] = NoEntry
  BY <1>2, <1>3 DEF Shaped, Loosens, Others
<1> QED BY <1>2, <1>4, LoosensTwice

\* The handler has not touched the locks, nor moved anybody but |t|.
SameRoom(b, c, t) ==
  /\ Shaped(c) /\ c.writer = b.writer /\ c.will = b.will
  /\ \A u \in Others(t) : c.pc[u] = b.pc[u] /\ c.entry[u] = b.entry[u]

\* Only |t| goes elsewhere, and where it comes to hold an entry there is no writer and
\* no wake-up is on its way.
Gets(b, d, t) ==
  /\ \A u \in Others(t) : d.pc[u] = b.pc[u] /\ d.entry[u] = b.entry[u]
  /\ \/ d.pc[t] \in CachePending \/ d.entry[t] = NoEntry
     \/ b.writer[d.entry[t]] = NoTrans /\ ~b.will[d.entry[t]]

LEMMA AddGets ==
  ASSUME NEW t \in Trans, NEW b, NEW c, SameRoom(b, c, t), NEW e
  PROVE  LET d == AddTransactionToEntry(c, e, t)
         IN  Gets(b, d, t) /\ (d.pc[t] \in CachePending \/ d.entry[t] = e)
<1> DEFINE d == AddTransactionToEntry(c, e, t)
<1>1. CASE c.writer[e] # NoTrans \/ c.will[e] \/ (Writes(c.mode[t]) /\ c.readers[e] # {})
  <2>1. d = [c EXCEPT !.queue[e] = Append(@, t), !.pc[t] = "add", !.entry[t] = e]
    BY <1>1 DEF AddTransactionToEntry
  <2> HIDE DEF d
  <2>2. d.pc[t] = "add" /\ \A u \in Others(t) : d.pc[u] = c.pc[u] /\ d.entry[u] = c.entry[u]
    BY <2>1 DEF SameRoom, Shaped, Others
  <2> QED BY <2>2 DEF SameRoom, Gets, CachePending, d
<1>2. CASE ~(c.writer[e] # NoTrans \/ c.will[e] \/ (Writes(c.mode[t]) /\ c.readers[e] # {}))
  <2>1. PICK g : g = IF Writes(c.mode[t]) THEN [c EXCEPT !.writer[e] = t]
                                          ELSE [c EXCEPT !.readers[e] = @ \cup {t}]
    OBVIOUS
  <2>2. Shaped(g) /\ g.pc = c.pc /\ g.entry = c.entry
    BY <2>1 DEF SameRoom, Shaped
  <2>3. PICK h : h = IF g.writer[e] = NoTrans /\ g.queue[e] # <<>> THEN ProcessPendingQueue(g, e) ELSE g
    OBVIOUS
  <2>4. Shaped(h) /\ h.pc = c.pc /\ h.entry = c.entry
    BY <2>2, <2>3 DEF ProcessPendingQueue, Shaped
  <2>5. d = DoAddToEntryComplete(h, e, t)
    BY <1>2, <2>1, <2>3 DEF AddTransactionToEntry
  <2> HIDE DEF d
  <2>6. d.entry[t] = e /\ \A u \in Others(t) : d.pc[u] = c.pc[u] /\ d.entry[u] = c.entry[u]
    BY <2>4, <2>5 DEF DoAddToEntryComplete, Shaped, Others
  <2> QED BY <1>2, <2>6 DEF SameRoom, Gets, d
<1> QED BY <1>1, <1>2

LEMMA PendingGets ==
  ASSUME NEW t \in Trans, NEW b, NEW c, SameRoom(b, c, t), c.pc[t] \in CachePending, NEW kind, NEW u
  PROVE  Gets(b, GetPendingOp(c, kind, u), t)
<1> DEFINE d == GetPendingOp(c, kind, u)
<1>1. d.pc = c.pc /\ d.entry = c.entry
  BY DEF GetPendingOp, SameRoom, Shaped
<1> HIDE DEF d
<1>2. Gets(b, d, t)
  BY <1>1 DEF SameRoom, Gets
<1> QED BY <1>2 DEF d

LEMMA GoesSameRoom ==
  ASSUME NEW t \in Trans, NEW b, NEW c, SameRoom(b, c, t), NEW p
  PROVE  LET d == Goes(c, t, p)
         IN  SameRoom(b, d, t) /\ d.pc[t] = p /\ d.entry = c.entry
BY DEF Goes, SameRoom, Shaped, Others

LEMMA CreateGets ==
  ASSUME NEW t \in Trans, NEW b, NEW c, SameRoom(b, c, t)
  PROVE  Gets(b, CreateEntry(c, t), t)
BY GoesSameRoom, PendingGets DEF CreateEntry, CachePending

LEMMA GoesGets ==
  ASSUME NEW t \in Trans, NEW b, NEW c, SameRoom(b, c, t), c.entry[t] = NoEntry, NEW p
  PROVE  Gets(b, Goes(c, t, p), t)
BY GoesSameRoom DEF SameRoom, Gets

LEMMA InitGets ==
  ASSUME NEW t \in Trans, NEW b, NEW c, SameRoom(b, c, t)
  PROVE  Gets(b, DoInitEntry(c, t), t)
<1>1. PICK d : d = [c EXCEPT !.entry[t] = NoEntry]
  OBVIOUS
<1>2. SameRoom(b, d, t)
  BY <1>1 DEF SameRoom, Shaped, Others
<1>3. Gets(b, OpenEntry(d, t), t)
  <2>1. Gets(b, AddTransactionToEntry(d, d.active, t), t)
    BY <1>2, AddGets
  <2>2. Gets(b, GetPendingOp(Goes(d, t, "open"), "open", t), t)
    BY <1>2, GoesSameRoom, PendingGets DEF CachePending
  <2> QED BY <2>1, <2>2 DEF OpenEntry
<1>4. Gets(b, DoomEntry(Goes(d, t, "doom"), t), t)
  <2>1. PICK g : g = Goes(d, t, "doom")
    OBVIOUS
  <2>2. SameRoom(b, g, t) /\ g.pc[t] \in CachePending
    BY <1>2, <2>1, GoesSameRoom DEF CachePending
  <2>3. Gets(b, GetPendingOp(g, "doom", t), t)
    BY <2>2, PendingGets
  <2>4. Gets(b, Dooms(g), t)
    BY <2>2 DEF SameRoom, Shaped, Gets, Dooms
  <2> QED BY <2>1, <2>3, <2>4 DEF DoomEntry, Dooms
<1>5. CASE c.active # NoEntry
  <2>1. d.active # NoEntry
    BY <1>1, <1>5 DEF SameRoom, Shaped
  <2>2. DoomEntry(d, t) = Dooms(d)
    BY <2>1 DEF DoomEntry, Dooms
  <2>3. SameRoom(b, Dooms(d), t)
    BY <1>2 DEF Dooms, SameRoom, Shaped
  <2>4. Gets(b, CreateEntry(DoomEntry(d, t), t), t)
    BY <2>2, <2>3, CreateGets
  <2> QED BY <1>1, <1>3, <1>5, <2>4 DEF DoInitEntry
<1>6. CASE c.active = NoEntry
  BY <1>1, <1>3, <1>4, <1>6 DEF DoInitEntry
<1> QED BY <1>5, <1>6

LEMMA OpenFailedGets ==
  ASSUME NEW t \in Trans, NEW b, NEW c, SameRoom(b, c, t), c.entry[t] = NoEntry
  PROVE  Gets(b, DoOpenEntryFailed(c, t), t)
<1>1. \A m : LET d == [c EXCEPT !.mode[t] = m] IN SameRoom(b, d, t) /\ d.entry[t] = NoEntry
  BY DEF SameRoom, Shaped
<1>2. PICK w : w = [c EXCEPT !.mode[t] = "WRITE"]
  OBVIOUS
<1>3. PICK g : g = [c EXCEPT !.mode[t] = "NONE"]
  OBVIOUS
<1>4. Gets(b, CreateEntry(w, t), t)
  BY <1>1, <1>2, CreateGets
<1>5. Gets(b, Goes(g, t, "send"), t)
  BY <1>1, <1>3, GoesGets
<1>6. Gets(b, Goes(c, t, "done"), t)
  BY GoesGets
<1> QED BY <1>2, <1>3, <1>4, <1>5, <1>6 DEF DoOpenEntryFailed

LEMMA NotifyGets ==
  ASSUME NEW t \in Trans, NEW b, NEW c, SameRoom(b, c, t), NEW item, item.trans = t, NEW result,
         result # "RACE" => c.entry[t] = NoEntry, t # NoTrans
  PROVE  Gets(b, NotifyTransaction(c, item, result), t)
<1>1. PICK g : g = [c EXCEPT !.mode[t] = "NONE"]
  OBVIOUS
<1>2. SameRoom(b, g, t) /\ g.entry = c.entry
  BY <1>1 DEF SameRoom, Shaped
<1>3. result # "RACE" => Gets(b, Goes(g, t, "send"), t)
  BY <1>2, GoesGets
<1>4. Gets(b, DoInitEntry(c, t), t) /\ Gets(b, CreateEntry(c, t), t)
  BY InitGets, CreateGets
<1>5. Gets(b, AddTransactionToEntry(c, c.active, t), t)
  BY AddGets
<1>6. result # "RACE" => Gets(b, DoOpenEntryFailed(c, t), t)
  BY OpenFailedGets
<1> QED BY <1>1, <1>3, <1>4, <1>5, <1>6 DEF NotifyTransaction

LEMMA BackendGets ==
  ASSUME NEW t \in Trans, NEW b, NEW c, SameRoom(b, c, t), c.entry[t] = NoEntry
  PROVE  Gets(b, DoGetBackendComplete(c, t), t)
<1>1. PICK g : g = [c EXCEPT !.mode[t] = "NONE"]
  OBVIOUS
<1>2. SameRoom(b, g, t) /\ g.entry[t] = NoEntry
  BY <1>1 DEF SameRoom, Shaped
<1>3. \A p : Gets(b, Goes(g, t, p), t)
  BY <1>2, GoesGets
<1> QED BY <1>1, <1>3, InitGets DEF DoGetBackendComplete

\* Who waits for something else than an entry has none.
LEMMA WaitsWithout ==
  ASSUME IInv, NEW t \in Trans,
         cache.pc[t] \in {"gone", "getBackend", "open", "create", "doom", "init"}
  PROVE  cache.entry[t] = NoEntry
<1>1. t \in Others(NoTrans)
  BY CacheAssumption DEF Others
<1> QED BY <1>1 DEF IInv, Inv, PlacesOK, PlaceOK

LEMMA StartGets ==
  ASSUME IInv, NEW t \in Trans, NEW m, Start(t, m)
  PROVE  Gets(cache, cache', t)
<1>1. Shaped(cache) /\ cache.entry[t] = NoEntry
  BY CacheLoosens, WaitsWithout DEF Start
<1> QED BY <1>1, BackendGets, GoesGets DEF Start, SameRoom, Shaped, Others

LEMMA BackendCreatedGets ==
  ASSUME IInv, NEW ok, OnBackendCreated(ok)
  PROVE  Loosens(cache, cache', NoTrans) \/ \E t \in Trans : Gets(cache, cache', t)
<1>1. Shaped(cache)
  BY CacheLoosens
<1>2. PICK c : /\ Shaped(c) /\ SameTrans(cache, c) /\ c.writer = cache.writer /\ c.will = cache.will
               /\ cache' = IF cache.bkWriter = NoTrans THEN c ELSE DoGetBackendComplete(c, cache.bkWriter)
  BY <1>1 DEF OnBackendCreated, Shaped, SameTrans
<1>3. CASE cache.bkWriter = NoTrans
  BY <1>2, <1>3 DEF Loosens, SameTrans
<1>4. CASE cache.bkWriter # NoTrans
  <2>1. PICK t \in Trans : t = cache.bkWriter
    BY <1>4, Fields DEF IInv, Inv
  <2>2. cache.pc[t] = "getBackend"
    BY <1>4, <2>1 DEF IInv, Inv, Waiting, Registered
  <2>3. SameRoom(cache, c, t) /\ c.entry[t] = NoEntry
    BY <1>2, <2>2, WaitsWithout DEF SameRoom, SameTrans
  <2> QED BY <1>2, <1>4, <2>1, <2>3, BackendGets
<1> QED BY <1>3, <1>4

LEMMA NotifyNextGets ==
  ASSUME IInv, NotifyNext
  PROVE  Loosens(cache, cache', NoTrans) \/ \E t \in Trans : Gets(cache, cache', t)
<1> DEFINE r == cache.run
           item == Head(r.items)
<1>1. Shaped(cache) /\ cache \in CacheState
  BY CacheLoosens DEF IInv, Inv
<1>2. PICK race, rest, result :
        /\ cache' = NotifyTransaction([cache EXCEPT !.run = rest], item, result)
        /\ r.fail \/ item.kind = "doom" => result = "RACE"
  BY DEF NotifyNext
<1>3. /\ item \in Item /\ ItemOK(cache, NoTrans, item)
      /\ item.kind \in {"add", "init"} => r.fail
  <2>1. r.items # <<>> /\ r.items \in Seq(Item)
    BY <1>1, Fields DEF NotifyNext, IInv, Inv, Operations
  <2>2. 1 \in 1..Len(r.items) /\ item = r.items[1] /\ item \in Item
    BY <2>1, HeadTailProperties, EmptySeq
  <2> HIDE DEF item
  <2>3. ItemOK(cache, NoTrans, item)
    BY <2>2 DEF IInv, Inv, Waiting, Registered
  <2>4. item.kind \in {"add", "init"} => r.fail
    BY <2>2 DEF IInv, Inv, Operations
  <2> QED BY <2>2, <2>3, <2>4
<1> HIDE DEF item, r
<1>4. PICK c : c = [cache EXCEPT !.run = rest]
  OBVIOUS
<1>5. Shaped(c) /\ SameTrans(cache, c) /\ c.writer = cache.writer /\ c.will = cache.will
  BY <1>1, <1>4 DEF Shaped, SameTrans
<1>6. CASE item.trans = NoTrans
  <2>1. cache' = c
    BY <1>2, <1>4, <1>6 DEF NotifyTransaction
  <2> QED BY <1>5, <2>1 DEF Loosens, SameTrans
<1>7. CASE item.trans # NoTrans
  <2>1. PICK t \in Trans : t = item.trans
    BY <1>3, <1>7 DEF Item
  <2>2. SameRoom(cache, c, t) /\ c.entry[t] = cache.entry[t]
    BY <1>5 DEF SameRoom, SameTrans
  <2>3. result # "RACE" => cache.pc[t] \in {"open", "create"}
    BY <1>2, <1>3, <1>7, <2>1 DEF ItemOK, Item
  <2>4. result # "RACE" => c.entry[t] = NoEntry
    BY <2>2, <2>3, WaitsWithout
  <2> QED BY <1>2, <1>4, <1>7, <2>1, <2>2, <2>4, NotifyGets
<1> QED BY <1>6, <1>7

LEMMA IOCompleteGets ==
  ASSUME IInv, NEW ok, OnIOComplete(ok)
  PROVE  Loosens(cache, cache', NoTrans) \/ \E t \in Trans : Gets(cache, cache', t)
<1> DEFINE item == cache.opWriter
<1>1. Shaped(cache) /\ cache \in CacheState
  BY CacheLoosens DEF IInv, Inv
<1>2. PICK d : d = FinishOp(cache, ok)
  OBVIOUS
<1>3. Shaped(d) /\ SameTrans(cache, d) /\ d.writer = cache.writer /\ d.will = cache.will
  BY <1>1, <1>2 DEF FinishOp, ActivateEntry, Shaped, SameTrans
<1>f. PICK fail : fail = (ok /\ (item.kind = "doom" \/ item.trans = NoTrans))
  OBVIOUS
<1>r. PICK run : run = IF cache.opQueue = <<>> THEN Idle
                       ELSE [op |-> item.kind, ok |-> ok, fail |-> fail, items |-> cache.opQueue]
  OBVIOUS
<1>s. PICK result : result = IF ok THEN "OK" ELSE "FAIL"
  OBVIOUS
<1>4. cache' = NotifyTransaction(Completed(d, run), item, result)
  BY <1>2, <1>f, <1>r, <1>s DEF OnIOComplete, Completed
<1>5. /\ item \in Item /\ ItemOK(cache, NoTrans, item) /\ item.kind \notin {"add", "init"}
  <2>1. item # NoItem /\ item \in Item \cup {NoItem}
    BY <1>1, Fields DEF OnIOComplete
  <2> QED BY <2>1 DEF IInv, Inv, Waiting, Registered, Operations
<1> HIDE DEF item
<1>6. PICK c : c = Completed(d, run)
  OBVIOUS
<1>7. Shaped(c) /\ SameTrans(cache, c) /\ c.writer = cache.writer /\ c.will = cache.will
  BY <1>3, <1>6 DEF Completed, Shaped, SameTrans
<1>8. CASE item.trans = NoTrans
  <2>1. cache' = c
    BY <1>4, <1>6, <1>8 DEF NotifyTransaction
  <2> QED BY <1>7, <2>1 DEF Loosens, SameTrans
<1>9. CASE item.trans # NoTrans
  <2>1. PICK t \in Trans : t = item.trans
    BY <1>5, <1>9 DEF Item
  <2>2. SameRoom(cache, c, t) /\ c.entry[t] = cache.entry[t]
    BY <1>7 DEF SameRoom, SameTrans
  <2>3. cache.pc[t] \in {"open", "create", "doom"}
    BY <1>5, <1>9, <2>1 DEF ItemOK, Item
  <2>4. c.entry[t] = NoEntry
    BY <2>2, <2>3, WaitsWithout
  <2> QED BY <1>4, <1>6, <1>9, <2>1, <2>2, <2>4, NotifyGets
<1> QED BY <1>8, <1>9

\* The posted task admits nobody, or the first in the queue of its entry.
LEMMA QueueGets ==
  ASSUME IInv, NEW e \in Entries, OnProcessPendingQueue(e)
  PROVE  \/ Loosens(cache, cache', NoTrans)
         \/ \E t \in Trans :
              /\ cache.queue[e] # <<>> /\ t = Head(cache.queue[e])
              /\ \A u \in Others(t) : cache'.pc[u] = cache.pc[u] /\ cache'.entry[u] = cache.entry[u]
              /\ cache'.pc[t] \in CachePending \/ cache'.entry[t] = e
<1> DEFINE q == cache.queue[e]
<1>1. Shaped(cache) /\ cache \in CacheState
  BY CacheLoosens DEF IInv, Inv
<1>2. PICK d : d = [cache EXCEPT !.will[e] = FALSE]
  OBVIOUS
<1>3. Loosens(cache, d, NoTrans) /\ SameTrans(cache, d)
  BY <1>1, <1>2 DEF Shaped, Loosens, SameTrans
<1>4. \A kept : Loosens(cache, DestroyEntry(d, e, kept), NoTrans)
  <2>1. Shaped(d)
    BY <1>3 DEF Loosens
  <2> QED BY <1>3, <2>1, DestroyLoosens, LoosensTwice
<1>5. PICK c : c = [d EXCEPT !.queue[e] = Tail(q)]
  OBVIOUS
<1>6. Shaped(c) /\ SameTrans(cache, c)
  BY <1>3, <1>5 DEF Loosens, Shaped, SameTrans
<1>7. \/ \E kept : cache' = DestroyEntry(d, e, kept)
      \/ cache' = d
      \/ q # <<>> /\ cache' = AddTransactionToEntry(c, e, Head(q))
  BY <1>2, <1>5 DEF OnProcessPendingQueue
<1>8. CASE q # <<>> /\ cache' = AddTransactionToEntry(c, e, Head(q))
  <2>1. q \in Seq(Trans)
    BY <1>1, Fields
  <2> HIDE DEF q
  <2>2. PICK t \in Trans : t = Head(q)
    BY <1>8, <2>1, HeadTailProperties
  <2>3. SameRoom(c, c, t)
    BY <1>6 DEF SameRoom
  <2>4. Gets(c, cache', t) /\ (cache'.pc[t] \in CachePending \/ cache'.entry[t] = e)
    BY <1>8, <2>2, <2>3, AddGets
  <2>5. \A u \in Others(t) : cache'.pc[u] = cache.pc[u] /\ cache'.entry[u] = cache.entry[u]
    BY <1>6, <2>4 DEF Gets, SameTrans
  <2> QED BY <1>8, <2>2, <2>4, <2>5 DEF q
<1> QED BY <1>3, <1>4, <1>7, <1>8

\* Who gets in past a queue joins the readers: without a writer and without a wake-up on
\* its way, the entry is open for its readers.
LEMMA JoinsReaders ==
  ASSUME IInv, IInv', NEW t \in Trans, Gets(cache, cache', t),
         NEW e \in Live(cache), NEW u \in Trans, u \in Holders(cache', e), u \notin Holders(cache, e)
  PROVE  u \in cache'.readers[e] /\ cache.readers[e] # {}
<1>0. cache \in CacheState /\ cache' \in CacheState /\ e \in Entries /\ e # NoEntry
  <2>1. cache \in CacheState /\ cache' \in CacheState
    BY DEF IInv, Inv
  <2>2. e \in Entries
    BY <2>1, Fields DEF Live
  <2> QED BY <2>1, <2>2, CacheAssumption
<1>1. \A v \in Trans : /\ v \in Holders(cache, e) <=> cache.entry[v] = e /\ cache.pc[v] \notin CachePending
                       /\ v \in Holders(cache', e) <=> cache'.entry[v] = e /\ cache'.pc[v] \notin CachePending
  BY <1>0, CacheAssumption DEF IInv, Inv, Locks, Others
<1>2. u = t
  BY <1>1 DEF Gets, Others
<1>3. cache.writer[e] = NoTrans /\ ~cache.will[e]
  BY <1>0, <1>1, <1>2 DEF Gets
<1>4. Holders(cache, e) # {}
  BY <1>0, <1>3 DEF IInv, Inv, Upkeep
<1>5. PICK v \in Trans : v \in cache.readers[e]
  BY <1>0, <1>3, <1>4, Fields DEF Holders
<1>6. v \in Holders(cache, e)
  BY <1>5 DEF Holders
<1>7. v \in Holders(cache', e) /\ v # t
  BY <1>1, <1>2, <1>6 DEF Gets, Others
<1>8. cache'.writer[e] # NoTrans => cache'.readers[e] = {}
  BY <1>0 DEF IInv, Inv, Locks
<1>9. u \in cache'.readers[e]
  BY <1>2, <1>7, <1>8 DEF Holders
<1> QED BY <1>5, <1>9

\* What AdmittedInOrder says of one entry and one transaction in one step.
LEMMA StepAdmitsInOrder ==
  ASSUME IInv, IInv', [Next]_cache, NEW e \in Live(cache), NEW t \in Trans,
         t \in Holders(cache', e) \ Holders(cache, e), cache.queue[e] # <<>>
  PROVE  Head(cache.queue[e]) = t \/ (t \in cache'.readers[e] /\ cache.readers[e] # {})
<1>0. e \in Entries /\ e # NoEntry
  BY CacheAssumption, Fields DEF IInv, Inv, Live
<1>1. CASE Loosens(cache, cache', NoTrans)
  BY <1>0, <1>1, NobodyAdmitted, CacheAssumption
<1>2. ASSUME NEW u \in Trans, Loosens(cache, cache', u),
             cache.pc[u] \notin CachePending \/ cache'.entry[u] = NoEntry
      PROVE  FALSE
  BY <1>0, <1>2, NobodyAdmitted
<1>3. CASE \E u \in Trans : Gets(cache, cache', u)
  BY <1>3, JoinsReaders
<1>4. CASE \E u \in Trans, m \in StartModes : Start(u, m)
  BY <1>3, <1>4, StartGets
<1>5. CASE \E ok \in BOOLEAN : OnBackendCreated(ok)
  BY <1>1, <1>3, <1>5, BackendCreatedGets
<1>6. CASE \E ok \in BOOLEAN : OnIOComplete(ok)
  BY <1>1, <1>3, <1>6, IOCompleteGets
<1>7. CASE NotifyNext
  BY <1>1, <1>3, <1>7, NotifyNextGets
<1>8. CASE \E k \in Entries : OnProcessPendingQueue(k)
  <2>1. PICK k \in Entries : OnProcessPendingQueue(k)
    BY <1>8
  <2>2. SUFFICES ASSUME NEW v \in Trans, v = Head(cache.queue[k]),
                        \A u \in Others(v) : cache'.pc[u] = cache.pc[u] /\ cache'.entry[u] = cache.entry[u],
                        cache'.pc[v] \in CachePending \/ cache'.entry[v] = k
                 PROVE  Head(cache.queue[e]) = t
    BY <1>1, <2>1, QueueGets
  <2>3. /\ cache'.entry[t] = e /\ cache'.pc[t] \notin CachePending
        /\ ~(cache.entry[t] = e /\ cache.pc[t] \notin CachePending)
    BY <1>0, CacheAssumption DEF IInv, Inv, Locks, Others
  <2>4. t = v
    BY <2>2, <2>3 DEF Others
  <2>5. e = k
    BY <2>2, <2>3, <2>4
  <2> QED BY <2>2, <2>4, <2>5
<1>9. CASE \E u \in Trans, ok \in BOOLEAN, choice \in {"skip", "validate", "fetch"} :
             ReadResponseInfo(u, ok, choice)
  BY <1>2, <1>9, ReadInfoLoosens
<1>10. CASE \E u \in Trans, r \in Responses : NetworkResponse(u, r)
  BY <1>2, <1>10, NetworkLoosens
<1>11. CASE \E u \in Trans, ok \in BOOLEAN : ResponseInfoWritten(u, ok)
  BY <1>2, <1>11, ResponseInfoLoosens
<1>12. CASE \E u \in Trans : Read(u)
  BY <1>2, <1>12, ReadLoosens
<1>13. CASE \E u \in Trans : Restart(u)
  BY <1>2, <1>13, RestartLoosens
<1>14. CASE \E u \in Trans, r \in {"data", "eof", "error"} : CacheReadDone(u, r)
  BY <1>2, <1>14, CacheReadLoosens
<1>15. CASE \E u \in Trans, r \in {"data", "eof", "error"} : NetworkReadDone(u, r)
  BY <1>2, <1>15, NetworkReadLoosens
<1>16. CASE \E u \in Trans, ok \in BOOLEAN : DataWritten(u, ok)
  BY <1>2, <1>16, DataWrittenLoosens
<1>17. CASE \E u \in Trans, ok200, resumable, flagged \in BOOLEAN :
               Destroy(u, ok200, resumable, flagged)
  BY <1>2, <1>17, DestroyLoosensToo
<1>18. CASE Evict
  <2>1. Loosens(cache, cache', NoTrans)
    BY <1>18, CacheLoosens DEF Evict, Shaped, Loosens
  <2> QED BY <1>1, <2>1
<1>19. CASE UNCHANGED cache
  BY <1>19 DEF Holders
<1> QED BY <1>4, <1>5, <1>6, <1>7, <1>8, <1>9, <1>10, <1>11, <1>12, <1>13, <1>14, <1>15, <1>16, <1>17,
           <1>18, <1>19 DEF Next, Work

\* Whoever gets the lock of an entry was the first in its queue, or joins the readers
\* that hold it (AddTransactionToEntry and OnProcessPendingQueue).
THEOREM FirstComeFirstAdmitted == Spec => AdmittedInOrder
<1>1. IInv /\ IInv' /\ [Next]_cache =>
        [\A e \in Live(cache), t \in Trans :
           t \in Holders(cache', e) \ Holders(cache, e) /\ cache.queue[e] # <<>>
             => Head(cache.queue[e]) = t \/ (t \in cache'.readers[e] /\ cache.readers[e] # {})]_cache
  BY StepAdmitsInOrder
<1> QED BY <1>1, Bookkeeping, PTL DEF Spec, AdmittedInOrder
=============================================================================
