------------------------------ MODULE Rankings ------------------------------
(***************************************************************************)
(* The LRU lists of the disk cache: net/disk_cache/rankings.cc, and their  *)
(* users in eviction.cc, backend_impl.cc and entry_impl.cc.                *)
(*                                                                         *)
(* The lists are doubly linked through records on disk.  The cache thread  *)
(* changes them one small write at a time and the process may die between  *)
(* any two writes; at the next start CompleteTransaction() finishes or     *)
(* reverts the operation that was under way.  An operation is therefore    *)
(* an operator from an image of the cache to the SEQUENCE of images that   *)
(* its writes produce; the variable todo holds the images still to come    *)
(* and a crash drops them.                                                 *)
(*                                                                         *)
(* Abstractions: a rankings node and the entry it belongs to share one     *)
(* identity in Nodes.  reuse_count is kept as the list it selects, times   *)
(* and user data are left out.  Writes that reach the files stay there     *)
(* when the process dies.  The copy of a node that an open entry has in    *)
(* memory equals the node on disk between operations.                      *)
(***************************************************************************)
EXTENDS Integers, FiniteSets, SequencesExt, FiniteSetsExt

CONSTANTS
  Nodes,            \* rankings nodes, with their entries
  None,             \* address 0
  Kinds,            \* the kinds of cache: with the new eviction or not, a bound on the entries, enumerations
  MaxCrashes,       \* bound on the number of crashes
  CrashInFinish,    \* may the process die while FinishInsert() runs?
  CrashWhenMisfiled \* may it die while an entry is not on the list its record selects?

ASSUME RankingsAssumption ==
  /\ IsFiniteSet(Nodes) /\ None \notin Nodes
  /\ \A k \in Kinds : /\ DOMAIN k = {"newEviction", "entries", "iterationLists"}
                        /\ k.newEviction \in BOOLEAN /\ k.entries \in Nat /\ k.iterationLists \subseteq 0..2
  /\ CrashInFinish \in BOOLEAN /\ CrashWhenMisfiled \in BOOLEAN
  /\ MaxCrashes \in Nat

VARIABLES
  cache,    \* the files, as the writes so far left them, and the clients' iterator
  todo,     \* the images that the operation under way has still to produce
  doomed,   \* open entries with doomed_ set
  phase,    \* is the process down, recovering, or running?
  crashes,  \* number of crashes so far
  visible,  \* history: the lists that a restart would show
  kind      \* the kind of this cache, which does not change

vars == <<cache, todo, doomed, phase, crashes, visible, kind>>

(***************************************************************************)
(* The state on disk, and the iterator's copy of a node.                   *)
(***************************************************************************)
NO_USE == 0
LOW_USE == 1
HIGH_USE == 2
DELETED == 4

Lists == {NO_USE, LOW_USE, HIGH_USE, DELETED}

NewEviction == kind.newEviction   \* new_eviction_: four lists, or only NO_USE
UseLists == IF NewEviction THEN {NO_USE, LOW_USE, HIGH_USE} ELSE {NO_USE}

Addr == Nodes \cup {None}
Links == [next : Addr, prev : Addr]
OutOfList == [next |-> None, prev |-> None]

Image ==
  [heads  : [Lists -> Addr],                          \* LruData::heads
   tails  : [Lists -> Addr],                          \* LruData::tails
   sizes  : [Lists -> Nat],                           \* LruData::sizes
   txn    : Addr,                                     \* LruData::transaction
   op     : {"INSERT", "REMOVE"},                     \* LruData::operation
   oplist : Lists,                                    \* LruData::operation_list
   links  : [Nodes -> Links],                         \* RankingsNode::next, prev
   dirty  : [Nodes -> {"clean", "in use", "stale"}],  \* RankingsNode::dirty: 0, this_id, other
   state  : [Nodes -> {"FREE", "NORMAL", "EVICTED", "DOOMED"}],  \* EntryStore::state
   use    : [Nodes -> 0..2],                          \* EntryStore::reuse_count
   indexed: SUBSET Nodes,                             \* entries that the hash table leads to
   broken : BOOLEAN,                                  \* table_len = 1: files will be recreated
   iter   : [node : Addr, list : Lists, hasData : BOOLEAN, copy : Links]]   \* Rankings::iterators_

NoIterator == [node |-> None, list |-> NO_USE, hasData |-> FALSE, copy |-> OutOfList]

EmptyCache ==
  [heads  |-> [l \in Lists |-> None],
   tails  |-> [l \in Lists |-> None],
   sizes  |-> [l \in Lists |-> 0],
   txn    |-> None,
   op     |-> "INSERT",
   oplist |-> NO_USE,
   links  |-> [n \in Nodes |-> OutOfList],
   dirty  |-> [n \in Nodes |-> "clean"],
   state  |-> [n \in Nodes |-> "FREE"],
   use    |-> [n \in Nodes |-> NO_USE],
   indexed |-> {},
   broken |-> FALSE,
   iter   |-> NoIterator]

\* The image that a sequence of writes to c ends in.
Final(c, writes) == IF writes = <<>> THEN c ELSE Last(writes)

CriticalError(c) == [c EXCEPT !.broken = TRUE]

(***************************************************************************)
(* Checks on the links.                                                    *)
(***************************************************************************)
IsHead(c, n) == \E l \in Lists : c.heads[l] = n
IsTail(c, n) == \E l \in Lists : c.tails[l] = n
HeadList(c, n) == Min({l \in Lists : c.heads[l] = n})
TailList(c, n) == Min({l \in Lists : c.tails[l] = n})

SanityCheck(c, n, fromList) ==
  LET k == c.links[n]
  IN  /\ k.next = None <=> k.prev = None
      /\ fromList => k.next # None
      /\ k.prev = n => IsHead(c, n)
      /\ k.next = n => IsTail(c, n)

\* Outcomes of CheckLinks(): go on with a list, take the node out, or give up.
CheckLinks(c, n, list) ==
  LET p == c.links[n].prev
      x == c.links[n].next
      fromPrev == c.links[p].next = n
      fromNext == c.links[x].prev = n
  IN  CASE fromPrev /\ fromNext -> [verdict |-> "linked", list |-> list]
        [] /\ n \notin {p, x} /\ c.links[p].next = x /\ c.links[x].prev = p
           -> [verdict |-> "not linked", list |-> list]
        [] fromNext /\ ~fromPrev /\ IsHead(c, n) -> [verdict |-> "linked", list |-> HeadList(c, n)]
        [] fromPrev /\ ~fromNext /\ IsTail(c, n) -> [verdict |-> "linked", list |-> TailList(c, n)]
        [] OTHER -> [verdict |-> "inconsistent", list |-> list]

(***************************************************************************)
(* Single writes and in-memory side effects.                               *)
(***************************************************************************)
\* Transaction's constructor.  operation and operation_list are only read
\* while transaction is set, so the three assignments are one write.
OpenTransaction(c, n, op, l) == [c EXCEPT !.txn = n, !.op = op, !.oplist = l]

\* Transaction's destructor.
CloseTransaction(c) == [c EXCEPT !.txn = None]

Store(c, n, k) == [c EXCEPT !.links[n] = k]
WriteHead(c, l, n) == [c EXCEPT !.heads[l] = n]
WriteTail(c, l, n) == [c EXCEPT !.tails[l] = n]

\* count_lists_ is new_eviction_.
IncrementCounter(c, l) == IF NewEviction THEN [c EXCEPT !.sizes[l] = @ + 1] ELSE c

DecrementCounter(c, l) ==
  IF NewEviction /\ c.sizes[l] > 0 THEN [c EXCEPT !.sizes[l] = @ - 1] ELSE c

\* The block of node n now has links k.
UpdateIterators(c, n, k) ==
  IF c.iter.node = n /\ c.iter.hasData THEN [c EXCEPT !.iter.copy = k] ELSE c

InvalidateIterators(c, n) == 
  IF c.iter.node = n THEN [c EXCEPT !.iter.hasData = FALSE, !.iter.copy = OutOfList] ELSE c

(***************************************************************************)
(* Insert node n at the head of list l.                                    *)
(***************************************************************************)
\* Fault: the head moves to a node that is not stored yet.
InsertHeadFirst(c, n, l) ==
  LET h == c.heads[l]
      alone == c.tails[l] \in {None, n}
      c1 == OpenTransaction(c, n, "INSERT", l)
      c2 == IF h = None THEN c1 ELSE Store(c1, h, [c.links[h] EXCEPT !.prev = n])
      c3 == IF alone THEN WriteTail(c2, l, n) ELSE c2
      c4 == WriteHead(c3, l, n)
      c5 == Store(c4, n, [next |-> IF alone THEN n ELSE h, prev |-> n])
      c6 == IncrementCounter(c5, l)
  IN  <<c1, c2, c3, c4, c5, c6, CloseTransaction(c6)>>

Insert(c, n, l) ==
  LET h == c.heads[l]
      alone == c.tails[l] \in {None, n}
      hk == [c.links[h] EXCEPT !.prev = n]
      c1 == OpenTransaction(c, n, "INSERT", l)
      bad == h # None /\ (~SanityCheck(c, h, TRUE) \/ c.links[h].prev \notin {h, n})
      c2 == IF h = None THEN c1 ELSE UpdateIterators(Store(c1, h, hk), h, hk)
      c3 == IF alone THEN WriteTail(c2, l, n) ELSE c2
      c4 == Store(c3, n, [next |-> IF alone THEN n ELSE h, prev |-> n])
      c5 == WriteHead(c4, l, n)
      c6 == IncrementCounter(c5, l)
  IN  IF bad THEN <<c1, CriticalError(CloseTransaction(c1))>>
      ELSE <<c1, c2, c3, c4, c5, c6, CloseTransaction(c6)>>

(***************************************************************************)
(* Remove node n, which is expected on list `expected`.  The blocks of its *)
(* neighbours are separate copies, except that a block of n itself shares  *)
(* the memory of the entry while that entry is open: clearing the node     *)
(* then clears the block too.                                              *)
(***************************************************************************)
RemoveLinked(c, n, l, shared) ==
  LET p == c.links[n].prev
      x == c.links[n].next
      only == c.heads[l] = c.tails[l] /\ c.heads[l] = n
      first == ~only /\ c.heads[l] = n
      last == ~only /\ ~first /\ c.tails[l] = n
      xk == IF shared /\ x = n THEN OutOfList
            ELSE [c.links[x] EXCEPT !.prev = IF first THEN x ELSE p]
      tailk == [c.links[p] EXCEPT !.next = p]
      pk == IF shared /\ p = n THEN OutOfList
            ELSE IF last THEN tailk ELSE [c.links[p] EXCEPT !.next = x]
      c1 == OpenTransaction(c, n, "REMOVE", l)
      ends == CASE only  -> <<WriteHead(c1, l, None), WriteTail(WriteHead(c1, l, None), l, None)>>
                [] first -> <<WriteHead(c1, l, x)>>
                [] last  -> <<WriteTail(c1, l, p), Store(WriteTail(c1, l, p), p, tailk)>>
                [] OTHER -> <<>>
      c2 == Store(Final(c1, ends), x, xk)
      c3 == Store(c2, p, pk)
      c4 == Store(c3, n, OutOfList)
      c5 == DecrementCounter(c4, l)
      c6 == UpdateIterators(UpdateIterators(CloseTransaction(c5), x, xk), p, pk)
  IN  <<c1>> \o ends \o <<c2, c3, c4, c5, c6>>

RemoveNode(c0, n, expected, shared) ==
  LET c == InvalidateIterators(c0, n)
      p == c.links[n].prev
      x == c.links[n].next
      check == CheckLinks(c, n, expected)
  IN  IF x = None \/ p = None THEN <<c>>
      ELSE IF ~SanityCheck(c, x, TRUE) \/ ~SanityCheck(c, p, TRUE) THEN <<CriticalError(c)>>
      ELSE CASE check.verdict = "linked"       -> RemoveLinked(c, n, check.list, shared)
             [] check.verdict = "not linked"   -> <<Store(c, n, OutOfList)>>
             [] check.verdict = "inconsistent" -> <<CriticalError(c)>>

\* The second operation starts from where the first ends, unless that disabled the cache.
Then(c, writes, Op(_)) ==
  IF Final(c, writes).broken THEN writes ELSE writes \o Op(Final(c, writes))

MoveTo(c, n, from, to) == LET Ins(d) == Insert(d, n, to) IN Then(c, RemoveNode(c, n, from, TRUE), Ins)

UpdateRank(c, n, l) == IF c.heads[l] = n THEN <<>> ELSE MoveTo(c, n, l, l)

(***************************************************************************)
(* Recovery at start-up.                                                   *)
(***************************************************************************)
\* The entry becomes reachable through the hash table again, if its links are sane.
RecoveredEntry(c, n) ==
  IF SanityCheck(c, n, FALSE) THEN <<[c EXCEPT !.indexed = @ \cup {n}]>> ELSE <<>>

\* The transaction is cleared first; Insert() then opens a new one.
FinishInsert(c) ==
  LET n == c.txn
      c1 == CloseTransaction(c)
      Tell(d) == RecoveredEntry(d, n)
  IN  Then(c, <<c1>> \o IF c.heads[c.oplist] = n THEN <<>> ELSE Insert(c1, n, c.oplist), Tell)

\* Fault: the lists' ends are left as they are.
RevertRemoveLinksOnly(c) ==
  LET n == c.txn
      p == c.links[n].prev
      x == c.links[n].next
      c1 == IF n = x THEN c ELSE Store(c, x, [c.links[x] EXCEPT !.prev = n])
      c2 == IF n = p THEN c1 ELSE Store(c1, p, [c1.links[p] EXCEPT !.next = n])
  IN  IF x = None \/ p = None THEN <<CloseTransaction(c)>> ELSE <<c1, c2, CloseTransaction(c2)>>

RevertRemove(c) ==
  LET n == c.txn
      l == c.oplist
      p == c.links[n].prev
      x == c.links[n].next
      empty == None \in {c.heads[l], c.tails[l]}
      first == ~empty /\ c.heads[l] = x
      last == ~empty /\ ~first /\ c.tails[l] = p
      pk == [c.links[p] EXCEPT !.next = IF first THEN x ELSE IF n # p THEN n ELSE @]
      xk == [c.links[x] EXCEPT !.prev = IF last THEN p ELSE IF n # x THEN n ELSE @]
      ends == CASE empty -> <<WriteHead(c, l, n), WriteTail(WriteHead(c, l, n), l, n)>>
                [] first -> <<WriteHead(c, l, n)>>
                [] last  -> <<WriteTail(c, l, n)>>
                [] OTHER -> <<>>
      c1 == Store(Final(c, ends), x, xk)
      c2 == Store(c1, p, pk)
  IN  IF x = None \/ p = None THEN <<CloseTransaction(c)>>
      ELSE ends \o <<c1, c2, CloseTransaction(c2)>>

CompleteTransaction(c) ==
  IF c.txn = None THEN <<>> ELSE IF c.op = "INSERT" THEN FinishInsert(c) ELSE RevertRemove(c)

\* What the next start would make of the files.
Recovered(c) == Final(c, CompleteTransaction(c))

(***************************************************************************)
(* Entries: eviction.cc, and the parts of backend_impl.cc and              *)
(* entry_impl.cc that decide when an entry moves.                          *)
(***************************************************************************)
SetDirty(c, n, flag) == [c EXCEPT !.dirty[n] = flag]
StoreEntry(c, n, st, u) == [c EXCEPT !.state[n] = st, !.use[n] = u]
Unindex(c, n) == [c EXCEPT !.indexed = @ \ {n}]

\* The list selected by the record of a NORMAL entry: GetListForEntry and ...V2.
GetListForEntry(c, n) == c.use[n]

\* reuse_count goes up by one.
NextUse(u) == CASE u = NO_USE -> {LOW_USE} [] u = LOW_USE -> {LOW_USE, HIGH_USE} [] OTHER -> {u}

\* Fault: the new count is not stored.
OnOpenEntryKeepRecord(c, n, u) == IF u = c.use[n] THEN <<>> ELSE MoveTo(c, n, c.use[n], u)

OnOpenEntry(c, n, u) ==
  LET Record(d) == <<StoreEntry(d, n, "NORMAL", u)>>
  IN  IF u = c.use[n] THEN <<>> ELSE Then(c, MoveTo(c, n, c.use[n], u), Record)

OnCreateEvicted(c, n, u) ==
  LET c1 == StoreEntry(c, n, "NORMAL", u) IN <<c1>> \o MoveTo(c1, n, DELETED, u)

\* Out of its list, a new state on record, and on to DELETED: for dooming and for evicting.
Delete(c, n, st) ==
  LET Record(d) == <<StoreEntry(d, n, st, d.use[n])>>
      Ins(d) == Insert(d, n, DELETED)
      removed == RemoveNode(c, n, GetListForEntry(c, n), TRUE)
      recorded == Then(c, removed, Record)
  IN  IF NewEviction THEN Then(c, recorded, Ins) ELSE removed

\* Fault: an evicted entry is looked for on the list it was evicted from.
OnDoomEntryAnyState(c, n) == Delete(c, n, "DOOMED")

OnDoomEntry(c, n) == IF c.state[n] = "NORMAL" THEN Delete(c, n, "DOOMED") ELSE <<>>

\* DeleteEntryData(true) of the destructor.  The entry is no longer open, so
\* Remove() shares no memory with it.
DestroyEntry(c, n) ==
  LET Clear(d) == LET e == SetDirty(Store(d, n, OutOfList), n, "clean")
                  IN  <<e, StoreEntry(e, n, "FREE", NO_USE)>>
  IN  Then(c, IF NewEviction THEN RemoveNode(c, n, DELETED, FALSE) ELSE <<>>, Clear)

\* SetPointerForInvalidEntry and InternalDoomEntry.
DoomImpl(c, n) ==
  LET c1 == SetDirty(c, n, "in use")
      Forget(d) == <<Unindex(d, n)>>
  IN  Then(c, <<c1>> \o OnDoomEntry(c1, n), Forget)

DoomAndDestroy(c, n) == LET D(d) == DestroyEntry(d, n) IN Then(c, DoomImpl(c, n), D)

\* An entry left dirty by an earlier run, met by MatchEntry or GetEnumeratedEntry.
DestroyInvalidEntry(c, n) ==
  LET c1 == Unindex(c, n)
      c2 == IF n \in c.indexed THEN SetDirty(c1, n, "in use") ELSE c
      D(d) == DestroyEntry(d, n)
  IN  Then(c, <<c1, c2>> \o OnDoomEntry(c2, n), D)

\* EvictEntry without `empty`: the entry is opened, moved and closed.
EvictToDeleted(c, n) ==
  LET c1 == SetDirty(c, n, "in use")
      Close(d) == <<SetDirty(d, n, "clean")>>
  IN  Then(c, <<c1>> \o Delete(c1, n, "EVICTED"), Close)

(***************************************************************************)
(* Lists, as a walk from the head sees them.                               *)
(***************************************************************************)
ListOf(c, l) ==
  LET N == Cardinality(Nodes)
      walk[i \in 1..N] == IF i = 1 THEN c.heads[l]
                          ELSE IF walk[i - 1] = None THEN None ELSE c.links[walk[i - 1]].next
      stops == {i \in 1..N : walk[i] # None /\ c.links[walk[i]].next \in {walk[i], None}}
  IN  IF stops = {} THEN <<>> ELSE [i \in 1..Min(stops) |-> walk[i]]

OnList(c, n, l) == Contains(ListOf(c, l), n)

\* Everything behind n on its list is open: a walk with GetPrev() that skips
\* open entries comes to n.
OldestClosed(c, n, l) ==
  LET s == ListOf(c, l)
  IN  \E i \in 1..Len(s) : /\ s[i] = n /\ c.dirty[n] # "in use"
                           /\ \A j \in (i + 1)..Len(s) : c.dirty[s[j]] = "in use"

\* The lists as the next start would find them; while FinishInsert() runs, as it will leave them.
VisibleLists(c, writes, ph) ==
  LET r == IF ph = "finishing" THEN Final(c, writes) ELSE Recovered(c)
  IN  [l \in Lists |-> ListOf(r, l)]

(***************************************************************************)
(* Actions.                                                                *)
(***************************************************************************)
Idle == phase = "running" /\ todo = <<>> /\ ~cache.broken

\* A write that changes nothing is not a step.
Changes(c, writes) ==
  LET Add(seq, w) == IF w = Final(c, seq) THEN seq ELSE Append(seq, w)
  IN  FoldLeft(Add, <<>>, writes)

Begin(writes) == todo' = Changes(cache, writes) /\ UNCHANGED <<cache, phase, crashes, visible>>

CreateEntry(n) ==
  LET c1 == SetDirty(StoreEntry(cache, n, "NORMAL", NO_USE), n, "in use")
      AddToTable(d) == <<[d EXCEPT !.indexed = @ \cup {n}]>>
  IN  /\ Idle
      /\ cache.state[n] = "FREE"
      /\ Cardinality({m \in Nodes : cache.state[m] # "FREE"}) < kind.entries
      /\ Begin(Then(cache, <<c1>> \o Insert(c1, n, NO_USE), AddToTable))
      /\ UNCHANGED doomed

\* OpenEntryImpl on a good entry, which may be open already.
OpenEntry(n) ==
  LET c1 == SetDirty(cache, n, "in use")
  IN  /\ Idle
      /\ n \in cache.indexed /\ cache.state[n] = "NORMAL" /\ cache.dirty[n] # "stale"
      /\ SanityCheck(cache, n, FALSE)
      /\ \E u \in IF NewEviction THEN NextUse(cache.use[n]) ELSE {NO_USE} :
           Begin(<<c1>> \o OnOpenEntry(c1, n, u))
      /\ UNCHANGED doomed

\* CreateEntryImpl finds an evicted entry: ResurrectEntry.  One that was
\* fetched often (refetch_count) goes to HIGH_USE at once.
ResurrectEntry(n) ==
  LET c1 == SetDirty(cache, n, "in use")
  IN  /\ Idle
      /\ n \in cache.indexed /\ cache.state[n] = "EVICTED" /\ cache.dirty[n] = "clean"
      /\ SanityCheck(cache, n, FALSE)
      /\ \E u \in NextUse(cache.use[n]) \cup {HIGH_USE} : Begin(<<c1>> \o OnCreateEvicted(c1, n, u))
      /\ UNCHANGED doomed

\* OpenEntryImpl on an evicted entry, CreateEntryImpl on a good one: MatchEntry
\* marks it, and the last reference goes away again.
LookUpInVain(n) ==
  LET c1 == SetDirty(cache, n, "in use")
  IN  /\ Idle
      /\ n \in cache.indexed /\ cache.state[n] \in {"EVICTED", "NORMAL"} /\ cache.dirty[n] = "clean"
      /\ SanityCheck(cache, n, FALSE)
      /\ Begin(<<c1, cache>>)
      /\ UNCHANGED doomed

\* Either function of the backend meets an entry of an earlier run, by key or by list.
MeetInvalidEntry(n) ==
  /\ Idle
  /\ cache.dirty[n] = "stale"
  /\ n \in cache.indexed \/ \E l \in Lists : OldestClosed(cache, n, l)
  /\ SanityCheck(cache, n, FALSE)
  /\ Begin(DestroyInvalidEntry(cache, n))
  /\ UNCHANGED doomed

\* An open entry is read or written.
UseEntry(n) ==
  /\ Idle
  /\ cache.dirty[n] = "in use" /\ n \notin doomed
  /\ Begin(UpdateRank(cache, n, GetListForEntry(cache, n)))
  /\ UNCHANGED doomed

DoomOpenEntry(n) ==
  /\ Idle
  /\ cache.dirty[n] = "in use" /\ n \notin doomed
  /\ Begin(DoomImpl(cache, n))
  /\ doomed' = doomed \cup {n}

\* The last reference goes away.
CloseEntry(n) ==
  /\ Idle
  /\ cache.dirty[n] = "in use"
  /\ Begin(IF n \in doomed THEN DestroyEntry(cache, n) ELSE <<SetDirty(cache, n, "clean")>>)
  /\ doomed' = doomed \ {n}

\* TrimCache: one step of its loop that evicts an entry.
TrimEntry(n, l) ==
  /\ Idle
  /\ l \in UseLists
  /\ cache.dirty[n] = "clean" /\ OldestClosed(cache, n, l)
  /\ Begin(IF NewEviction THEN EvictToDeleted(cache, n) ELSE DoomAndDestroy(cache, n))
  /\ UNCHANGED doomed

\* TrimCache(true), SyncDoomEntriesSince: a closed entry goes for good.
DoomClosedEntry(n) ==
  /\ Idle
  /\ cache.dirty[n] = "clean"
  /\ \E l \in UseLists : OnList(cache, n, l)
  /\ Begin(DoomAndDestroy(cache, n))
  /\ UNCHANGED doomed

\* TrimDeleted and RemoveDeletedNode, which sets the state to DOOMED in memory
\* first, so that OnDoomEntry has nothing to do.
TrimDeleted(n) ==
  LET c1 == SetDirty(cache, n, "in use")
      c2 == Unindex(c1, n)
  IN  /\ Idle
      /\ NewEviction
      /\ cache.dirty[n] = "clean" /\ OldestClosed(cache, n, DELETED)
      /\ Begin(<<c1, c2>> \o DestroyEntry(c2, n))
      /\ UNCHANGED doomed

\* GetNext and GetPrev: the node that the iterator moves to.
Following(l, forward) ==
  LET it == cache.iter
      k == IF it.hasData THEN it.copy ELSE cache.links[it.node]
      end == IF forward THEN cache.tails[l] ELSE cache.heads[l]
      step == IF forward THEN k.next ELSE k.prev
  IN  IF it.node = None THEN (IF forward THEN cache.heads[l] ELSE cache.tails[l])
      ELSE IF end \in {None, it.node} \/ step = it.node THEN None ELSE step

CheckSingleLink(from, fromLinks, to, forward) ==
  IF forward THEN fromLinks.next = to /\ cache.links[to].prev = from
             ELSE fromLinks.prev = to /\ cache.links[to].next = from

\* OpenFollowingEntryFromList, GetEnumeratedEntry: the entry is opened.
MoveIterator(l, forward) ==
  LET it == cache.iter
      k == IF it.hasData THEN it.copy ELSE cache.links[it.node]
      t == Following(l, forward)
      at == [node |-> t, list |-> l, hasData |-> TRUE, copy |-> cache.links[t]]
      good == /\ SanityCheck(cache, t, TRUE)
              /\ it.node # None => CheckSingleLink(it.node, k, t, forward)
      ended == [cache EXCEPT !.iter = NoIterator]
  IN  /\ Idle
      /\ it.node # None => l = it.list
      /\ Begin(IF t = None THEN <<ended>>
               ELSE IF ~good THEN <<CriticalError(ended)>>
               ELSE IF cache.dirty[t] = "stale" THEN <<ended>> \o DestroyInvalidEntry(ended, t)
               ELSE <<SetDirty([cache EXCEPT !.iter = at], t, "in use")>>)
      /\ UNCHANGED doomed

EndEnumeration ==
  /\ Idle
  /\ cache.iter.node # None
  /\ Begin(<<[cache EXCEPT !.iter = NoIterator]>>)
  /\ UNCHANGED doomed

\* The next write reaches the files.
Write ==
  LET ph == IF Tail(todo) = <<>> THEN "running" ELSE phase
  IN  /\ phase # "down" /\ todo # <<>>
      /\ cache' = Head(todo)
      /\ todo' = Tail(todo)
      /\ phase' = ph
      /\ visible' = VisibleLists(Head(todo), Tail(todo), ph)
      /\ UNCHANGED <<doomed, crashes>>

\* On no list whose number its record does not select.
Misfiled(c) ==
  \E l \in Lists, n \in Nodes :
    /\ OnList(c, n, l)
    /\ l # IF NewEviction /\ c.state[n] # "NORMAL" THEN DELETED ELSE c.use[n]

\* The process dies.  The entries that were open keep a dirty flag with an id
\* that the next run will not use.
Crash ==
  LET left == [cache EXCEPT
                 !.dirty = [n \in Nodes |-> IF @[n] = "clean" THEN @[n] ELSE "stale"],
                 !.iter = NoIterator]
  IN  /\ phase # "down" /\ crashes < MaxCrashes /\ ~cache.broken
      /\ phase = "finishing" => CrashInFinish
      /\ CrashWhenMisfiled \/ ~Misfiled(Recovered(cache))
      /\ cache' = left
      /\ todo' = <<>> /\ doomed' = {} /\ phase' = "down" /\ crashes' = crashes + 1
      /\ visible' = VisibleLists(left, <<>>, "down")

\* Rankings::Init.
Restart ==
  LET writes == Changes(cache, CompleteTransaction(cache))
      ph == IF cache.txn = None THEN "running"
            ELSE IF cache.op = "INSERT" THEN "finishing" ELSE "reverting"
  IN  /\ phase = "down"
      /\ todo' = writes
      /\ phase' = ph
      /\ visible' = VisibleLists(cache, writes, ph)
      /\ UNCHANGED <<cache, doomed, crashes>>

Init ==
  /\ cache = EmptyCache /\ todo = <<>> /\ doomed = {} /\ phase = "running" /\ crashes = 0
  /\ visible = [l \in Lists |-> <<>>]
  /\ kind \in Kinds

Step ==
  \/ \E n \in Nodes : CreateEntry(n)
  \/ \E n \in Nodes : OpenEntry(n)
  \/ \E n \in Nodes : ResurrectEntry(n)
  \/ \E n \in Nodes : LookUpInVain(n)
  \/ \E n \in Nodes : MeetInvalidEntry(n)
  \/ \E n \in Nodes : UseEntry(n)
  \/ \E n \in Nodes : DoomOpenEntry(n)
  \/ \E n \in Nodes : CloseEntry(n)
  \/ \E n \in Nodes, l \in Lists : TrimEntry(n, l)
  \/ \E n \in Nodes : DoomClosedEntry(n)
  \/ \E n \in Nodes : TrimDeleted(n)
  \/ \E l \in kind.iterationLists, forward \in BOOLEAN : MoveIterator(l, forward)
  \/ EndEnumeration
  \/ Write
  \/ Crash
  \/ Restart

Next == Step /\ UNCHANGED kind

Spec == Init /\ [][Next]_vars

-----------------------------------------------------------------------------
(***************************************************************************)
(* Properties.                                                             *)
(***************************************************************************)
\* Every part of the files and of the memory has its type.
TypeOK ==
  /\ cache \in Image /\ \A i \in 1..Len(todo) : todo[i] \in Image
  /\ doomed \subseteq Nodes
  /\ phase \in {"down", "finishing", "reverting", "running"}
  /\ crashes \in 0..MaxCrashes
  /\ visible \in [Lists -> Seq(Nodes)]
  /\ kind \in Kinds

\* List l is a doubly linked list from its head to its tail.
WellLinked(c, l) ==
  LET s == ListOf(c, l)
      N == Len(s)
  IN  IF s = <<>> THEN c.heads[l] = None /\ c.tails[l] = None
      ELSE /\ c.tails[l] = s[N]
           /\ IsInjective(s)
           /\ \A i \in 1..N : c.links[s[i]] = [next |-> s[IF i = N THEN N ELSE i + 1],
                                               prev |-> s[IF i = 1 THEN 1 ELSE i - 1]]

Sound(c) ==
  /\ \A l \in Lists : WellLinked(c, l)
  /\ \A n \in Nodes : Cardinality({l \in Lists : OnList(c, n, l)}) =
                        IF c.links[n] = OutOfList THEN 0 ELSE 1

\* Whatever write the process dies after, the next start finds every list well
\* linked from its head to its tail and every node on one list or, with no
\* links, on none: the purpose of Transaction and CompleteTransaction.
CrashConsistent == phase # "finishing" => Sound(Recovered(cache))

\* The code never finds its own lists inconsistent: no CriticalError, which
\* throws the whole cache away, from CheckLinks, GetRanking, Insert or
\* CheckSingleLink, not even through an iterator kept across other operations.
NoCriticalError == ~cache.broken

\* Between operations a NORMAL entry of this run is on the list its record selects,
\* evicted and doomed ones are on DELETED.
RecordsMatchLists ==
  todo = <<>> /\ phase = "running" =>
    /\ ~Misfiled(cache)
    /\ \A n \in Nodes : cache.dirty[n] # "stale" /\ n \in cache.indexed =>
         \E l \in Lists : OnList(cache, n, l)

\* Neither the hash table nor a list ever leads to a freed block, crashes included.
NoDanglingReference ==
  LET c == Recovered(cache)
  IN  phase # "finishing" =>
        \A n \in Nodes : c.state[n] = "FREE" => n \notin c.indexed /\ c.links[n] = OutOfList

\* The sizes kept in the header, from which the list to trim is chosen, are
\* exact but for one per crash.
SizesDriftWithCrashes ==
  NewEviction /\ phase = "running" /\ todo = <<>> =>
    \A l \in Lists : cache.sizes[l] - Len(ListOf(cache, l)) \in -crashes..crashes

\* With the DELETED list a crash loses at most one entry: one that neither the
\* table nor a list leads to, so that its blocks are never freed.
OneLeakPerCrash ==
  NewEviction /\ phase = "running" /\ todo = <<>> =>
    Cardinality({n \in Nodes : /\ cache.state[n] # "FREE"
                               /\ n \notin cache.indexed
                               /\ cache.links[n] = OutOfList}) <= crashes

\* The tables agree with the lists between operations, and a crash costs no more than
\* one leaked entry and one miscounted one.
RankingsInv ==
  /\ TypeOK
  /\ RecordsMatchLists
  /\ NoDanglingReference
  /\ SizesDriftWithCrashes
  /\ OneLeakPerCrash

Lru == INSTANCE LruLists WITH lists <- visible

\* The files implement atomic LRU lists: at every single write, crash and
\* restart the lists that a restart would show change by at most one whole
\* Insert at the head or one whole Remove, never by anything in between.
ImplementsLruLists == Lru!Spec

\* DCHECK(ENTRY_NORMAL == info->state) of GetListForEntryV2: an entry that a client
\* has open and can read or write is neither evicted nor doomed.
OpenEntriesAreNormal ==
  todo = <<>> /\ phase = "running" =>
    \A n \in Nodes : cache.dirty[n] = "in use" /\ n \notin doomed => cache.state[n] = "NORMAL"

\* Between operations every list is well linked.
ListsSoundAtRest == todo = <<>> /\ phase = "running" => Sound(cache)
=============================================================================
