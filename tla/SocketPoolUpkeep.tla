-------------------------- MODULE SocketPoolUpkeep --------------------------
(***************************************************************************)
(* The upkeep of the groups, of the flush generations and of the limits of *)
(* the socket pool, for every set of groups, handles and sockets.          *)
(***************************************************************************)
EXTENDS SocketPoolProofs

\* A timer runs only for a group with a job and a request; the groups in P are about to
\* get the request.
TimersOK(s, P) ==
  \A g \in Groups : s.backup[g] => s.jobs[g] # {} /\ (g \in P \/ s.pending[g] # <<>>)

\* A socket from before a Flush() is in some handle's hands and has an older pool id.
Fresh(s) ==
  /\ s.stale \subseteq HeldSockets(s)
  /\ \A h \in Holders(s) :
       /\ s.hpoolId[h] <= s.generation
       /\ s.hpoolId[h] = s.generation => s.hsocket[h] \notin s.stale

Kept(s, P) == GroupsInMapIn(s) /\ TimersOK(s, P) /\ Fresh(s) /\ WithinLimitsIn(s)

Total(s) == s.handedOut + s.connecting + s.idleCount

\* There is room for one more socket in group g.
Room(s, g) == IgnoreLimits = {} => Total(s) < MaxSockets /\ NumActiveSocketSlots(s, g) < MaxSocketsPerGroup

-----------------------------------------------------------------------------
(***************************************************************************)
(* The single steps.                                                       *)
(***************************************************************************)
\* The sockets and the jobs of a group are finitely many.
LEMMA GroupFinite ==
  ASSUME NEW s \in PoolState, NEW g \in Groups
  PROVE  /\ s.idle[g] \subseteq Sockets /\ IsFiniteSet(s.idle[g]) /\ Cardinality(s.idle[g]) \in Nat
         /\ s.jobs[g] \subseteq Sockets /\ IsFiniteSet(s.jobs[g]) /\ Cardinality(s.jobs[g]) \in Nat
         /\ s.active[g] \in Int
<1>1. s.idle[g] \subseteq Sockets /\ s.jobs[g] \subseteq Sockets /\ s.active[g] \in Int
  BY Fields
<1> QED BY <1>1, PoolAssumption, FS_Subset, FS_CardinalityType

\* The fields the upkeep reads.
SameUpkeep(s, t) ==
  /\ t.groups = s.groups /\ t.idle = s.idle /\ t.jobs = s.jobs /\ t.pending = s.pending
  /\ t.active = s.active /\ t.backup = s.backup
  /\ t.idleCount = s.idleCount /\ t.connecting = s.connecting /\ t.handedOut = s.handedOut
  /\ t.generation = s.generation /\ t.hsocket = s.hsocket /\ t.stale = s.stale
  /\ \A h \in Holders(s) : t.hpoolId[h] = s.hpoolId[h]

\* The upkeep does not change when those fields do not.
LEMMA SameUpkeepKeeps ==
  ASSUME NEW s, NEW t, NEW P, SameUpkeep(s, t), Kept(s, P)
  PROVE  Kept(t, P)
<1>1. Holders(t) = Holders(s) /\ HeldSockets(t) = HeldSockets(s)
  BY DEF SameUpkeep, Holders, HeldSockets
<1>2. GroupsInMapIn(t)
  BY DEF SameUpkeep, Kept, GroupsInMapIn, IsEmpty
<1>3. TimersOK(t, P)
  BY DEF SameUpkeep, Kept, TimersOK
<1>4. Fresh(t)
  BY <1>1 DEF SameUpkeep, Kept, Fresh
<1>5. WithinLimitsIn(t)
  BY DEF SameUpkeep, Kept, WithinLimitsIn, NumActiveSocketSlots
<1> QED BY <1>2, <1>3, <1>4, <1>5 DEF Kept

\* The groups of the map may grow; a group may go when nothing is left in it.
LEMMA MapKept ==
  ASSUME NEW s \in PoolState, NEW P, Kept(s, P), NEW g \in Groups
  PROVE  /\ Kept(GetOrCreateGroup(s, g), P) /\ g \in GetOrCreateGroup(s, g).groups
         /\ IsEmpty(s, g) => Kept(RemoveGroup(s, g), P)
         /\ Kept(RemoveGroupIfEmpty(s, g), P)
<1>1. ASSUME NEW t, t.idle = s.idle, t.jobs = s.jobs, t.pending = s.pending, t.active = s.active,
             t.idleCount = s.idleCount, t.connecting = s.connecting, t.handedOut = s.handedOut,
             t.generation = s.generation, t.hsocket = s.hsocket, t.stale = s.stale,
             t.hpoolId = s.hpoolId
      PROVE  /\ \A x : IsEmpty(t, x) <=> IsEmpty(s, x)
             /\ Fresh(t) /\ WithinLimitsIn(t)
  <2>1. \A x : IsEmpty(t, x) <=> IsEmpty(s, x)
    BY <1>1 DEF IsEmpty
  <2>2. Fresh(t)
    <3>1. Holders(t) = Holders(s) /\ HeldSockets(t) = HeldSockets(s)
      BY <1>1 DEF Holders, HeldSockets
    <3> QED BY <1>1, <3>1 DEF Kept, Fresh
  <2>3. WithinLimitsIn(t)
    BY <1>1 DEF Kept, WithinLimitsIn, NumActiveSocketSlots
  <2> QED BY <2>1, <2>2, <2>3
<1>2. Kept(GetOrCreateGroup(s, g), P) /\ g \in GetOrCreateGroup(s, g).groups
  <2> DEFINE t == GetOrCreateGroup(s, g)
  <2>1. /\ t.idle = s.idle /\ t.jobs = s.jobs /\ t.pending = s.pending /\ t.active = s.active
        /\ t.idleCount = s.idleCount /\ t.connecting = s.connecting /\ t.handedOut = s.handedOut
        /\ t.generation = s.generation /\ t.hsocket = s.hsocket /\ t.stale = s.stale
        /\ t.hpoolId = s.hpoolId /\ t.backup = s.backup /\ t.groups = s.groups \cup {g}
    BY DEF GetOrCreateGroup, PoolState
  <2> HIDE DEF t
  <2>2. (\A x : IsEmpty(t, x) <=> IsEmpty(s, x)) /\ Fresh(t) /\ WithinLimitsIn(t)
    BY <1>1, <2>1
  <2>3. GroupsInMapIn(t) /\ TimersOK(t, P)
    BY <2>1, <2>2 DEF Kept, GroupsInMapIn, TimersOK
  <2> QED BY <2>1, <2>2, <2>3 DEF Kept, t
<1>3. ASSUME IsEmpty(s, g) PROVE Kept(RemoveGroup(s, g), P)
  <2> DEFINE t == RemoveGroup(s, g)
  <2>1. /\ t.idle = s.idle /\ t.jobs = s.jobs /\ t.pending = s.pending /\ t.active = s.active
        /\ t.idleCount = s.idleCount /\ t.connecting = s.connecting /\ t.handedOut = s.handedOut
        /\ t.generation = s.generation /\ t.hsocket = s.hsocket /\ t.stale = s.stale
        /\ t.hpoolId = s.hpoolId /\ t.backup = [s.backup EXCEPT ![g] = FALSE]
        /\ t.groups = s.groups \ {g}
    BY DEF RemoveGroup, PoolState
  <2> HIDE DEF t
  <2>2. (\A x : IsEmpty(t, x) <=> IsEmpty(s, x)) /\ Fresh(t) /\ WithinLimitsIn(t)
    BY <1>1, <2>1
  <2>3. \A x \in Groups : t.backup[x] = IF x = g THEN FALSE ELSE s.backup[x]
    BY <2>1, Fields
  <2>4. GroupsInMapIn(t) /\ TimersOK(t, P)
    BY <1>3, <2>1, <2>2, <2>3 DEF Kept, GroupsInMapIn, TimersOK
  <2> QED BY <2>2, <2>4 DEF Kept, t
<1> QED BY <1>2, <1>3 DEF RemoveGroupIfEmpty

\* A handle gets a socket that was free; there must be room for it.
LEMMA HandOutSocketKept ==
  ASSUME NEW s \in PoolState, NEW P, Kept(s, P), NEW g \in s.groups, NEW h \in Handles,
         NEW k \in FreeSockets(s), s.hsocket[h] = NoSocket, Room(s, g)
  PROVE  Kept(HandOutSocket(s, g, h, k), P)
<1> DEFINE t == HandOutSocket(s, g, h, k)
<1>0. g \in Groups /\ k \in Sockets /\ k # NoSocket /\ k \notin HeldSockets(s)
  BY Fields, PoolAssumption DEF FreeSockets
<1>1. /\ t.groups = s.groups /\ t.idle = s.idle /\ t.jobs = s.jobs /\ t.pending = s.pending
      /\ t.backup = s.backup /\ t.idleCount = s.idleCount /\ t.connecting = s.connecting
      /\ t.generation = s.generation /\ t.stale = s.stale
      /\ t.hsocket = [s.hsocket EXCEPT ![h] = k] /\ t.hpoolId = [s.hpoolId EXCEPT ![h] = s.generation]
      /\ t.handedOut = s.handedOut + 1 /\ t.active = [s.active EXCEPT ![g] = @ + 1]
  BY DEF HandOutSocket, PoolState
<1> HIDE DEF t
<1>2. GroupsInMapIn(t)
  <2>1. \A x \in Groups : x # g => t.active[x] = s.active[x]
    BY <1>1, Fields
  <2> QED BY <1>1, <2>1 DEF Kept, GroupsInMapIn, IsEmpty
<1>3. TimersOK(t, P)
  BY <1>1 DEF Kept, TimersOK
<1>4. Fresh(t)
  <2>1. t.hsocket[h] = k /\ t.hpoolId[h] = t.generation /\ t.generation \in Nat
    BY <1>1, Fields
  <2>2. Holders(t) = Holders(s) \cup {h} /\ h \notin Holders(s)
    BY <1>0, <1>1, Fields DEF Holders
  <2>3. \A y \in Holders(s) : t.hsocket[y] = s.hsocket[y] /\ t.hpoolId[y] = s.hpoolId[y]
    BY <1>1, <2>2, Fields DEF Holders
  <2>4. HeldSockets(s) \subseteq HeldSockets(t)
    BY <2>2, <2>3 DEF HeldSockets
  <2>5. k \notin t.stale
    BY <1>0, <1>1 DEF Kept, Fresh
  <2> QED BY <1>1, <2>1, <2>2, <2>3, <2>4, <2>5 DEF Kept, Fresh
<1>5. WithinLimitsIn(t)
  <2>1. t.active[g] = s.active[g] + 1 /\ \A x \in Groups : x # g => t.active[x] = s.active[x]
    BY <1>0, <1>1, Fields
  <2>2. \A x \in Groups : s.active[x] \in Int /\ Cardinality(s.jobs[x]) \in Int /\ Cardinality(s.idle[x]) \in Int
    BY GroupFinite
  <2>3. MaxSockets \in Int /\ MaxSocketsPerGroup \in Int /\ s.handedOut \in Int /\ s.connecting \in Int
        /\ s.idleCount \in Int
    BY PoolAssumption, Fields
  <2>4. IgnoreLimits = {} => t.handedOut + t.connecting + t.idleCount <= MaxSockets
    BY <1>1, <2>3 DEF Room, Total
  <2>5. ASSUME NEW x \in Groups, IgnoreLimits = {}
        PROVE  NumActiveSocketSlots(t, x) <= MaxSocketsPerGroup
    <3>1. CASE x = g
      BY <1>1, <2>1, <2>2, <2>3, <2>5, <3>1 DEF Room, NumActiveSocketSlots
    <3>2. CASE x # g
      BY <1>1, <2>1, <2>5, <3>2 DEF Kept, WithinLimitsIn, NumActiveSocketSlots
    <3> QED BY <3>1, <3>2
  <2> QED BY <2>4, <2>5 DEF WithinLimitsIn
<1> QED BY <1>2, <1>3, <1>4, <1>5 DEF Kept, t

\* A free identity becomes an idle socket of a group that has room.
LEMMA AddIdleSocketKept ==
  ASSUME NEW s \in PoolState, NEW P, Kept(s, P), NEW g \in s.groups, NEW k \in FreeSockets(s), Room(s, g)
  PROVE  Kept(AddIdleSocket(s, g, k), P)
<1> DEFINE t == AddIdleSocket(s, g, k)
<1>0. g \in Groups
  BY Fields
<1>1. /\ t.groups = s.groups /\ t.jobs = s.jobs /\ t.pending = s.pending /\ t.active = s.active
      /\ t.backup = s.backup /\ t.connecting = s.connecting /\ t.handedOut = s.handedOut
      /\ t.generation = s.generation /\ t.stale = s.stale
      /\ t.hsocket = s.hsocket /\ t.hpoolId = s.hpoolId
      /\ t.idleCount = s.idleCount + 1 /\ t.idle = [s.idle EXCEPT ![g] = @ \cup {k}]
  BY DEF AddIdleSocket, PoolState
<1> HIDE DEF t
<1>2. t.idle[g] = s.idle[g] \cup {k} /\ \A x \in Groups : x # g => t.idle[x] = s.idle[x]
  BY <1>0, <1>1, Fields
<1>3. GroupsInMapIn(t)
  BY <1>1, <1>2 DEF Kept, GroupsInMapIn, IsEmpty
<1>4. TimersOK(t, P)
  BY <1>1 DEF Kept, TimersOK
<1>5. Fresh(t)
  <2>1. Holders(t) = Holders(s) /\ HeldSockets(t) = HeldSockets(s)
    BY <1>1 DEF Holders, HeldSockets
  <2> QED BY <1>1, <2>1 DEF Kept, Fresh
<1>6. WithinLimitsIn(t)
  <2>1. k \notin s.idle[g]
    BY <1>0 DEF FreeSockets, IdleSockets
  <2>2. Cardinality(t.idle[g]) = Cardinality(s.idle[g]) + 1
    BY <1>0, <1>2, <2>1, GroupFinite, FS_AddElement
  <2>3. \A x \in Groups : s.active[x] \in Int /\ Cardinality(s.jobs[x]) \in Int /\ Cardinality(s.idle[x]) \in Int
    BY GroupFinite
  <2>4. MaxSockets \in Int /\ MaxSocketsPerGroup \in Int /\ s.handedOut \in Int /\ s.connecting \in Int
        /\ s.idleCount \in Int
    BY PoolAssumption, Fields
  <2>5. IgnoreLimits = {} => t.handedOut + t.connecting + t.idleCount <= MaxSockets
    BY <1>1, <2>4 DEF Room, Total
  <2>6. ASSUME NEW x \in Groups, IgnoreLimits = {}
        PROVE  NumActiveSocketSlots(t, x) <= MaxSocketsPerGroup
    <3>1. CASE x = g
      BY <1>1, <2>2, <2>3, <2>4, <2>6, <3>1 DEF Room, NumActiveSocketSlots
    <3>2. CASE x # g
      BY <1>1, <1>2, <2>6, <3>2 DEF Kept, WithinLimitsIn, NumActiveSocketSlots
    <3> QED BY <3>1, <3>2
  <2> QED BY <2>5, <2>6 DEF WithinLimitsIn
<1> QED BY <1>3, <1>4, <1>5, <1>6 DEF Kept, t

\* A free identity becomes a ConnectJob of a group that has room.
LEMMA AddConnectJobKept ==
  ASSUME NEW s \in PoolState, NEW P, Kept(s, P), NEW g \in s.groups, NEW k \in FreeSockets(s), Room(s, g)
  PROVE  Kept(AddConnectJob(s, g, k), P)
<1> DEFINE t == AddConnectJob(s, g, k)
<1>0. g \in Groups
  BY Fields
<1>1. /\ t.groups = s.groups /\ t.idle = s.idle /\ t.pending = s.pending /\ t.active = s.active
      /\ t.backup = s.backup /\ t.idleCount = s.idleCount /\ t.handedOut = s.handedOut
      /\ t.generation = s.generation /\ t.stale = s.stale
      /\ t.hsocket = s.hsocket /\ t.hpoolId = s.hpoolId
      /\ t.connecting = s.connecting + 1 /\ t.jobs = [s.jobs EXCEPT ![g] = @ \cup {k}]
  BY DEF AddConnectJob, PoolState
<1> HIDE DEF t
<1>2. t.jobs[g] = s.jobs[g] \cup {k} /\ \A x \in Groups : x # g => t.jobs[x] = s.jobs[x]
  BY <1>0, <1>1, Fields
<1>3. GroupsInMapIn(t)
  BY <1>1, <1>2 DEF Kept, GroupsInMapIn, IsEmpty
<1>4. TimersOK(t, P)
  BY <1>1, <1>2 DEF Kept, TimersOK
<1>5. Fresh(t)
  <2>1. Holders(t) = Holders(s) /\ HeldSockets(t) = HeldSockets(s)
    BY <1>1 DEF Holders, HeldSockets
  <2> QED BY <1>1, <2>1 DEF Kept, Fresh
<1>6. WithinLimitsIn(t)
  <2>1. k \notin s.jobs[g]
    BY <1>0 DEF FreeSockets, ConnectJobs
  <2>2. Cardinality(t.jobs[g]) = Cardinality(s.jobs[g]) + 1
    BY <1>0, <1>2, <2>1, GroupFinite, FS_AddElement
  <2>3. \A x \in Groups : s.active[x] \in Int /\ Cardinality(s.jobs[x]) \in Int /\ Cardinality(s.idle[x]) \in Int
    BY GroupFinite
  <2>4. MaxSockets \in Int /\ MaxSocketsPerGroup \in Int /\ s.handedOut \in Int /\ s.connecting \in Int
        /\ s.idleCount \in Int
    BY PoolAssumption, Fields
  <2>5. IgnoreLimits = {} => t.handedOut + t.connecting + t.idleCount <= MaxSockets
    BY <1>1, <2>4 DEF Room, Total
  <2>6. ASSUME NEW x \in Groups, IgnoreLimits = {}
        PROVE  NumActiveSocketSlots(t, x) <= MaxSocketsPerGroup
    <3>1. CASE x = g
      BY <1>1, <2>2, <2>3, <2>4, <2>6, <3>1 DEF Room, NumActiveSocketSlots
    <3>2. CASE x # g
      BY <1>1, <1>2, <2>6, <3>2 DEF Kept, WithinLimitsIn, NumActiveSocketSlots
    <3> QED BY <3>1, <3>2
  <2> QED BY <2>5, <2>6 DEF WithinLimitsIn
<1> QED BY <1>3, <1>4, <1>5, <1>6 DEF Kept, t

\* A ConnectJob goes, and the timer with the last one of a group; its place is free.
LEMMA RemoveConnectJobKept ==
  ASSUME NEW s \in PoolState, NEW P, Kept(s, P), NEW g \in Groups, NEW k \in s.jobs[g]
  PROVE  LET t == RemoveConnectJob(s, g, k)
         IN  Kept(t, P) /\ g \in t.groups /\ Room(t, g)
<1> DEFINE t == RemoveConnectJob(s, g, k)
<1>1. /\ t.groups = s.groups /\ t.idle = s.idle /\ t.pending = s.pending /\ t.active = s.active
      /\ t.idleCount = s.idleCount /\ t.handedOut = s.handedOut
      /\ t.generation = s.generation /\ t.stale = s.stale
      /\ t.hsocket = s.hsocket /\ t.hpoolId = s.hpoolId
      /\ t.connecting = s.connecting - 1 /\ t.jobs = [s.jobs EXCEPT ![g] = @ \ {k}]
      /\ t.backup = [s.backup EXCEPT ![g] = @ /\ s.jobs[g] \ {k} # {}]
  BY DEF RemoveConnectJob, PoolState
<1> HIDE DEF t
<1>2. t.jobs[g] = s.jobs[g] \ {k} /\ \A x \in Groups : x # g => t.jobs[x] = s.jobs[x]
  BY <1>1, Fields
<1>3. \A x \in Groups : t.backup[x] => s.backup[x] /\ (x = g => t.jobs[g] # {})
  <2>1. s.backup \in [Groups -> BOOLEAN]
    BY Fields
  <2>2. t.backup[g] => s.backup[g] /\ s.jobs[g] \ {k} # {}
    BY <1>1, <2>1
  <2>3. \A x \in Groups : x # g => t.backup[x] = s.backup[x]
    BY <1>1, <2>1
  <2> QED BY <1>2, <2>2, <2>3
<1>4. g \in s.groups
  BY DEF Kept, GroupsInMapIn, IsEmpty
<1>5. GroupsInMapIn(t)
  BY <1>1, <1>2, <1>3, <1>4 DEF Kept, GroupsInMapIn, IsEmpty
<1>6. TimersOK(t, P)
  BY <1>1, <1>2, <1>3 DEF Kept, TimersOK
<1>7. Fresh(t)
  <2>1. Holders(t) = Holders(s) /\ HeldSockets(t) = HeldSockets(s)
    BY <1>1 DEF Holders, HeldSockets
  <2> QED BY <1>1, <2>1 DEF Kept, Fresh
<1>8. WithinLimitsIn(t) /\ Room(t, g)
  <2>1. Cardinality(t.jobs[g]) = Cardinality(s.jobs[g]) - 1
    BY <1>2, GroupFinite, FS_RemoveElement
  <2>2. \A x \in Groups : s.active[x] \in Int /\ Cardinality(s.jobs[x]) \in Int /\ Cardinality(s.idle[x]) \in Int
    BY GroupFinite
  <2>3. MaxSockets \in Int /\ MaxSocketsPerGroup \in Int /\ s.handedOut \in Int /\ s.connecting \in Int
        /\ s.idleCount \in Int
    BY PoolAssumption, Fields
  <2>4. IgnoreLimits = {} => Total(t) < MaxSockets
    BY <1>1, <2>3 DEF Kept, WithinLimitsIn, Total
  <2>5. IgnoreLimits = {} => NumActiveSocketSlots(t, g) < MaxSocketsPerGroup
    BY <1>1, <2>1, <2>2, <2>3 DEF Kept, WithinLimitsIn, NumActiveSocketSlots
  <2>6. ASSUME NEW x \in Groups, IgnoreLimits = {}, x # g
        PROVE  NumActiveSocketSlots(t, x) <= MaxSocketsPerGroup
    BY <1>1, <1>2, <2>6 DEF Kept, WithinLimitsIn, NumActiveSocketSlots
  <2>7. /\ NumActiveSocketSlots(t, g) \in Int
        /\ t.handedOut + t.connecting + t.idleCount \in Int
    BY <1>1, <2>1, <2>2, <2>3 DEF NumActiveSocketSlots
  <2>8. IgnoreLimits = {} => t.handedOut + t.connecting + t.idleCount <= MaxSockets
    BY <2>3, <2>4, <2>7 DEF Total
  <2>9. IgnoreLimits = {} => \A x \in Groups : NumActiveSocketSlots(t, x) <= MaxSocketsPerGroup
    BY <2>3, <2>5, <2>6, <2>7
  <2> QED BY <2>4, <2>5, <2>8, <2>9 DEF WithinLimitsIn, Room
<1> QED BY <1>1, <1>4, <1>5, <1>6, <1>7, <1>8 DEF Kept, t

\* Idle sockets of a group are deleted; when there were any, there is room for one.
LEMMA DropIdleKept ==
  ASSUME NEW s \in PoolState, NEW P, Kept(s, P), NEW g \in Groups, NEW dead \in SUBSET s.idle[g]
  PROVE  LET t == DropIdle(s, g, dead)
         IN  /\ Kept(t, P) /\ t.groups = s.groups
             /\ dead # {} => g \in t.groups /\ Room(t, g)
<1> DEFINE n == Cardinality(dead)
           t == DropIdle(s, g, dead)
<1>1. /\ t.groups = s.groups /\ t.jobs = s.jobs /\ t.pending = s.pending /\ t.active = s.active
      /\ t.backup = s.backup /\ t.connecting = s.connecting /\ t.handedOut = s.handedOut
      /\ t.generation = s.generation /\ t.stale = s.stale
      /\ t.hsocket = s.hsocket /\ t.hpoolId = s.hpoolId
      /\ t.idleCount = s.idleCount - n /\ t.idle = [s.idle EXCEPT ![g] = @ \ dead]
  BY DEF DropIdle, PoolState
<1>2. /\ dead \subseteq s.idle[g] /\ IsFiniteSet(dead) /\ n \in Nat /\ (dead # {} => n # 0)
  BY GroupFinite, FS_Subset, FS_CardinalityType, FS_EmptySet
<1>3. Cardinality(s.idle[g] \ dead) = Cardinality(s.idle[g]) - n
  <2>1. s.idle[g] \cap dead = dead
    OBVIOUS
  <2> QED BY <2>1, <1>2, GroupFinite, FS_Difference, ZenonT(60)
<1> HIDE DEF t, n
<1>4. t.idle[g] = s.idle[g] \ dead /\ \A x \in Groups : x # g => t.idle[x] = s.idle[x]
  BY <1>1, Fields
<1>5. dead # {} => g \in s.groups
  BY DEF Kept, GroupsInMapIn, IsEmpty
<1>6. GroupsInMapIn(t)
  BY <1>1, <1>4 DEF Kept, GroupsInMapIn, IsEmpty
<1>7. TimersOK(t, P)
  BY <1>1 DEF Kept, TimersOK
<1>8. Fresh(t)
  <2>1. Holders(t) = Holders(s) /\ HeldSockets(t) = HeldSockets(s)
    BY <1>1 DEF Holders, HeldSockets
  <2> QED BY <1>1, <2>1 DEF Kept, Fresh
<1>9. WithinLimitsIn(t) /\ (dead # {} => Room(t, g))
  <2>2. \A x \in Groups : s.active[x] \in Int /\ Cardinality(s.jobs[x]) \in Int /\ Cardinality(s.idle[x]) \in Int
    BY GroupFinite
  <2>3. MaxSockets \in Int /\ MaxSocketsPerGroup \in Int /\ s.handedOut \in Int /\ s.connecting \in Int
        /\ s.idleCount \in Int
    BY PoolAssumption, Fields
  <2>4. IgnoreLimits = {} => Total(t) <= MaxSockets - n
    BY <1>1, <1>2, <2>3 DEF Kept, WithinLimitsIn, Total
  <2>5. IgnoreLimits = {} => NumActiveSocketSlots(t, g) <= MaxSocketsPerGroup - n
    <3> DEFINE c == Cardinality(s.idle[g])
               d == Cardinality(s.jobs[g])
    <3>0. /\ NumActiveSocketSlots(s, g) = s.active[g] + d + c
          /\ NumActiveSocketSlots(t, g) = s.active[g] + d + (c - n)
      BY <1>1, <1>3, <1>4 DEF NumActiveSocketSlots
    <3>1. NumActiveSocketSlots(t, g) = NumActiveSocketSlots(s, g) - n /\ NumActiveSocketSlots(s, g) \in Int
      BY <1>2, <2>2, <3>0
    <3>2. IgnoreLimits = {} => NumActiveSocketSlots(s, g) <= MaxSocketsPerGroup
      BY DEF Kept, WithinLimitsIn
    <3> QED BY <1>2, <2>3, <3>1, <3>2
  <2>6. ASSUME NEW x \in Groups, IgnoreLimits = {}, x # g
        PROVE  NumActiveSocketSlots(t, x) <= MaxSocketsPerGroup
    BY <1>1, <1>4, <2>6 DEF Kept, WithinLimitsIn, NumActiveSocketSlots
  <2>7. /\ NumActiveSocketSlots(t, g) \in Int
        /\ Total(t) \in Int
    BY <1>1, <1>2, <1>3, <1>4, <2>2, <2>3 DEF NumActiveSocketSlots, Total
  <2>8. IgnoreLimits = {} => Total(t) <= MaxSockets /\ (dead # {} => Total(t) < MaxSockets)
    BY <1>2, <2>3, <2>4, <2>7
  <2>9. IgnoreLimits = {} => /\ NumActiveSocketSlots(t, g) <= MaxSocketsPerGroup
                             /\ dead # {} => NumActiveSocketSlots(t, g) < MaxSocketsPerGroup
    BY <1>2, <2>3, <2>5, <2>7
  <2> QED BY <2>6, <2>8, <2>9 DEF WithinLimitsIn, Room, Total
<1> QED BY <1>1, <1>5, <1>6, <1>7, <1>8, <1>9 DEF Kept, t

\* One idle socket is taken from its list.
LEMMA RemoveIdleSocketKept ==
  ASSUME NEW s \in PoolState, NEW P, Kept(s, P), NEW g \in Groups, NEW k \in s.idle[g]
  PROVE  LET t == RemoveIdleSocket(s, g, k)
         IN  Kept(t, P) /\ g \in t.groups /\ t.groups = s.groups /\ Room(t, g)
<1>1. RemoveIdleSocket(s, g, k) = DropIdle(s, g, {k})
  BY FS_Singleton DEF RemoveIdleSocket, DropIdle
<1>2. {k} \in SUBSET s.idle[g] /\ {k} # {}
  OBVIOUS
<1> QED BY <1>1, <1>2, DropIdleKept

\* A request leaves its queue, and the timer goes with the last one of a group.
LEMMA RemoveRequestKept ==
  ASSUME NEW s \in PoolState, NEW P, Kept(s, P), NEW g \in Groups, NEW i \in 1..Len(s.pending[g])
  PROVE  LET t == RemoveRequestFromQueue(s, g, i)
         IN  Kept(t, P) /\ t.groups = s.groups /\ g \in t.groups
<1> DEFINE q == RemoveAt(s.pending[g], i)
           t == RemoveRequestFromQueue(s, g, i)
<1>1. /\ t.groups = s.groups /\ t.idle = s.idle /\ t.jobs = s.jobs /\ t.active = s.active
      /\ t.idleCount = s.idleCount /\ t.handedOut = s.handedOut /\ t.connecting = s.connecting
      /\ t.generation = s.generation /\ t.stale = s.stale
      /\ t.hsocket = s.hsocket /\ t.hpoolId = s.hpoolId
      /\ t.pending = [s.pending EXCEPT ![g] = q]
      /\ t.backup = [s.backup EXCEPT ![g] = @ /\ q # <<>>]
  BY DEF RemoveRequestFromQueue, PoolState
<1> HIDE DEF t, q
<1>2. t.pending[g] = q /\ \A x \in Groups : x # g => t.pending[x] = s.pending[x]
  BY <1>1, Fields
<1>3. \A x \in Groups : t.backup[x] => s.backup[x] /\ (x = g => q # <<>>)
  <2>1. s.backup \in [Groups -> BOOLEAN]
    BY Fields
  <2>2. t.backup[g] => s.backup[g] /\ q # <<>>
    BY <1>1, <2>1
  <2>3. \A x \in Groups : x # g => t.backup[x] = s.backup[x]
    BY <1>1, <2>1
  <2> QED BY <2>2, <2>3
<1>4. g \in s.groups
  <2>1. s.pending[g] # <<>>
    BY Fields
  <2> QED BY <2>1 DEF Kept, GroupsInMapIn, IsEmpty
<1>5. GroupsInMapIn(t)
  BY <1>1, <1>2, <1>3, <1>4 DEF Kept, GroupsInMapIn, IsEmpty
<1>6. TimersOK(t, P)
  BY <1>1, <1>2, <1>3 DEF Kept, TimersOK
<1>7. Fresh(t)
  <2>1. Holders(t) = Holders(s) /\ HeldSockets(t) = HeldSockets(s)
    BY <1>1 DEF Holders, HeldSockets
  <2> QED BY <1>1, <2>1 DEF Kept, Fresh
<1>8. WithinLimitsIn(t)
  BY <1>1 DEF Kept, WithinLimitsIn, NumActiveSocketSlots
<1> QED BY <1>1, <1>4, <1>5, <1>6, <1>7, <1>8 DEF Kept, t

-----------------------------------------------------------------------------
(***************************************************************************)
(* Requesting a socket.                                                    *)
(***************************************************************************)
\* Closing one idle socket makes room in the pool and does not touch group x.
LEMMA CloseOneIdleSocketKept ==
  ASSUME NEW s \in PoolState, NEW P, Kept(s, P), NEW x, NEW t \in CloseOneIdleSocketExceptInGroup(s, x)
  PROVE  /\ Kept(t, P)
         /\ IgnoreLimits = {} => Total(t) < MaxSockets
         /\ x \in Groups => NumActiveSocketSlots(t, x) = NumActiveSocketSlots(s, x)
         /\ x \in s.groups => x \in t.groups
<1>1. PICK g \in Groups \ {x} : \E k \in s.idle[g] : t = RemoveGroupIfEmpty(RemoveIdleSocket(s, g, k), g)
  BY DEF CloseOneIdleSocketExceptInGroup
<1>2. PICK k \in s.idle[g] : t = RemoveGroupIfEmpty(RemoveIdleSocket(s, g, k), g)
  BY <1>1
<1> DEFINE u == RemoveIdleSocket(s, g, k)
<1>3. u \in PoolState /\ Kept(u, P) /\ Room(u, g) /\ u.groups = s.groups
  BY RemoveIdleSocketType, RemoveIdleSocketKept
<1>4. u.jobs = s.jobs /\ u.active = s.active /\ u.idle = [s.idle EXCEPT ![g] = @ \ {k}]
  BY DEF RemoveIdleSocket, PoolState
<1> HIDE DEF u
<1>5. /\ t.jobs = u.jobs /\ t.active = u.active /\ t.idle = u.idle /\ u.groups \ {g} \subseteq t.groups
      /\ t.handedOut = u.handedOut /\ t.connecting = u.connecting /\ t.idleCount = u.idleCount
  BY <1>2, <1>3 DEF u, RemoveGroupIfEmpty, RemoveGroup, PoolState
<1>6. Kept(t, P)
  BY <1>2, <1>3, MapKept DEF u
<1>7. IgnoreLimits = {} => Total(t) < MaxSockets
  BY <1>3, <1>5 DEF Room, Total
<1>8. x \in Groups => t.idle[x] = s.idle[x]
  BY <1>2, <1>4, <1>5, Fields
<1>9. x \in Groups => NumActiveSocketSlots(t, x) = NumActiveSocketSlots(s, x)
  BY <1>4, <1>5, <1>8 DEF NumActiveSocketSlots
<1> QED BY <1>2, <1>3, <1>5, <1>6, <1>7, <1>9

\* Reusing an idle socket; without an answer none is left in the group.
LEMMA AssignIdleSocketToGroupKept ==
  ASSUME NEW s \in PoolState, Books(s), NEW P, Kept(s, P), NEW g \in s.groups, NEW h \in Handles,
         s.hsocket[h] = NoSocket, NEW r \in AssignIdleSocketToGroup(s, g, h)
  PROVE  /\ Kept(r.st, P) /\ g \in r.st.groups
         /\ r.rv = "NONE" => r.st.idle[g] = {}
<1>0. g \in Groups
  BY Fields
<1>1. PICK dead \in SUBSET s.idle[g] :
        r \in IF DropIdle(s, g, dead).idle[g] = {}
              THEN {Outcome(DropIdle(s, g, dead), "NONE")}
              ELSE {Outcome(HandOutSocket(RemoveIdleSocket(DropIdle(s, g, dead), g, k), g, h, k), "OK")
                      : k \in DropIdle(s, g, dead).idle[g]}
  BY DEF AssignIdleSocketToGroup, DropIdle
<1> DEFINE t == DropIdle(s, g, dead)
<1>2. t \in PoolState /\ t.hsocket = s.hsocket /\ Books(t) /\ Kept(t, P) /\ t.groups = s.groups
  <2>1. t \in PoolState /\ t.hsocket = s.hsocket
    BY <1>0, DropIdleEffect
  <2>2. Books(t)
    BY <1>0, DropIdleBooks
  <2>3. Kept(t, P) /\ t.groups = s.groups
    BY <1>0, DropIdleKept
  <2> QED BY <2>1, <2>2, <2>3
<1> HIDE DEF t
<1>3. CASE t.idle[g] = {} /\ r = Outcome(t, "NONE")
  BY <1>2, <1>3 DEF Outcome
<1>4. ASSUME NEW k \in t.idle[g],
             r = Outcome(HandOutSocket(RemoveIdleSocket(t, g, k), g, h, k), "OK")
      PROVE  Kept(r.st, P) /\ g \in r.st.groups /\ r.rv = "OK"
  <2> DEFINE u == RemoveIdleSocket(t, g, k)
  <2>1. u \in PoolState /\ u.hsocket = t.hsocket
    BY <1>0, <1>2, RemoveIdleSocketType, ElementarySockets
  <2>2. Kept(u, P) /\ g \in u.groups /\ Room(u, g) /\ k \in FreeSockets(u)
    BY <1>0, <1>2, RemoveIdleSocketKept, RemoveIdleSocketBooks
  <2> HIDE DEF u
  <2>3. Kept(HandOutSocket(u, g, h, k), P)
    BY <1>2, <2>1, <2>2, HandOutSocketKept
  <2>4. HandOutSocket(u, g, h, k).groups = u.groups
    BY <2>1 DEF HandOutSocket, PoolState
  <2> QED BY <1>4, <2>2, <2>3, <2>4 DEF Outcome, u
<1>5. \/ t.idle[g] = {} /\ r = Outcome(t, "NONE")
      \/ \E k \in t.idle[g] : r = Outcome(HandOutSocket(RemoveIdleSocket(t, g, k), g, h, k), "OK")
  BY <1>1 DEF t
<1> QED BY <1>3, <1>4, <1>5

\* What is kept up when a request returns: a timer may wait for the request to be queued.
RequestKept(r, g, h) ==
  /\ Kept(r.st, {g})
  /\ r.rv # "PENDING" \/ h = NoHandle => Kept(r.st, {})
  /\ r.rv # "ERR" => g \in r.st.groups

\* Fewer groups about to get a request is the stronger statement.
LEMMA KeptWeaker ==
  ASSUME NEW s, NEW P, Kept(s, {})
  PROVE  Kept(s, P)
BY DEF Kept, TimersOK

\* A group that has a request already is not waiting for one.
LEMMA KeptStronger ==
  ASSUME NEW s, NEW g, Kept(s, {g}), s.pending[g] # <<>>
  PROVE  Kept(s, {})
BY DEF Kept, TimersOK

\* The timer starts together with the job it watches.
LEMMA ConnectPendingKept ==
  ASSUME NEW s \in PoolState, Kept(s, {}), NEW g \in s.groups, NEW h, NEW k \in FreeSockets(s), Room(s, g)
  PROVE  RequestKept(ConnectPending(s, g, h, k), g, h)
<1> DEFINE b == BackupJobsEnabled /\ IsEmpty(s, g) /\ ~s.backup[g] /\ h # NoHandle
           t == IF b THEN StartBackupSocketTimer(s, g) ELSE s
           u == AddConnectJob(t, g, k)
           v == IF h = NoHandle THEN [u EXCEPT !.unusedPre = @ \cup {k}] ELSE u
           a == AddConnectJob(s, g, k)
<1>0. g \in Groups
  BY Fields
<1>1. Kept(a, {})
  BY AddConnectJobKept
<1>2. a.groups = s.groups /\ k \in a.jobs[g]
  BY <1>0 DEF AddConnectJob, PoolState
<1>3. /\ v.groups = a.groups /\ v.idle = a.idle /\ v.jobs = a.jobs /\ v.pending = a.pending
      /\ v.active = a.active /\ v.idleCount = a.idleCount /\ v.connecting = a.connecting
      /\ v.handedOut = a.handedOut /\ v.generation = a.generation /\ v.hsocket = a.hsocket
      /\ v.stale = a.stale /\ v.hpoolId = a.hpoolId
      /\ \A x \in Groups : v.backup[x] => a.backup[x] \/ x = g
      /\ h = NoHandle => v.backup = a.backup
  BY <1>0 DEF AddConnectJob, StartBackupSocketTimer, PoolState
<1>4. ConnectPending(s, g, h, k) = Outcome(v, "PENDING")
  BY DEF ConnectPending
<1> HIDE DEF a, v
<1>5. Fresh(v)
  <2>1. Holders(v) = Holders(a) /\ HeldSockets(v) = HeldSockets(a)
    BY <1>3 DEF Holders, HeldSockets
  <2> QED BY <1>1, <1>3, <2>1 DEF Kept, Fresh
<1>6. GroupsInMapIn(v) /\ WithinLimitsIn(v)
  BY <1>1, <1>2, <1>3 DEF Kept, GroupsInMapIn, IsEmpty, WithinLimitsIn, NumActiveSocketSlots
<1>7. TimersOK(v, {g}) /\ (h = NoHandle => TimersOK(v, {}))
  BY <1>1, <1>2, <1>3 DEF Kept, TimersOK
<1> QED BY <1>2, <1>3, <1>4, <1>5, <1>6, <1>7 DEF RequestKept, Outcome, Kept

\* A new ConnectJob where there is room for it.
LEMMA ConnectNewSocketKept ==
  ASSUME NEW s \in PoolState, Kept(s, {}), NEW g \in s.groups, NEW h \in Handles \cup {NoHandle},
         h \in Handles => s.hsocket[h] = NoSocket, Room(s, g), NEW r \in ConnectNewSocket(s, g, h)
  PROVE  RequestKept(r, g, h)
<1>1. PICK rv \in ConnectResults, k \in FreeSockets(s) :
        r = CASE rv = "OK" ->
                   Outcome(IF h = NoHandle THEN AddIdleSocket(s, g, k)
                                           ELSE HandOutSocket(s, g, h, k), "OK")
              [] rv = "PENDING" -> ConnectPending(s, g, h, k)
              [] rv = "ERR_WITH_SOCKET" /\ h # NoHandle ->
                   Outcome(HandOutSocket(s, g, h, k), "ERR")
              [] OTHER -> Outcome(RemoveGroupIfEmpty(s, g), "ERR")
  BY DEF ConnectNewSocket
<1>2. g \in Groups
  BY Fields
<1>3. h # NoHandle => /\ Kept(HandOutSocket(s, g, h, k), {})
                      /\ HandOutSocket(s, g, h, k).groups = s.groups
  <2>1. HandOutSocket(s, g, h, k).groups = s.groups
    BY DEF HandOutSocket, PoolState
  <2> QED BY <2>1, HandOutSocketKept
<1>4. Kept(AddIdleSocket(s, g, k), {}) /\ AddIdleSocket(s, g, k).groups = s.groups
  <2>1. AddIdleSocket(s, g, k).groups = s.groups
    BY DEF AddIdleSocket, PoolState
  <2> QED BY <2>1, AddIdleSocketKept
<1>5. Kept(RemoveGroupIfEmpty(s, g), {})
  BY <1>2, MapKept
<1>6. RequestKept(ConnectPending(s, g, h, k), g, h)
  BY ConnectPendingKept
<1>7. ASSUME NEW t, Kept(t, {}), g \in t.groups, NEW x PROVE RequestKept(Outcome(t, x), g, h)
  BY <1>7, KeptWeaker DEF Outcome, RequestKept
<1>8. ASSUME NEW t, Kept(t, {}) PROVE RequestKept(Outcome(t, "ERR"), g, h)
  BY <1>8, KeptWeaker DEF Outcome, RequestKept
<1>9. CASE rv = "OK" /\ h = NoHandle
  BY <1>1, <1>4, <1>7, <1>9
<1>10. CASE rv = "OK" /\ h # NoHandle
  BY <1>1, <1>3, <1>7, <1>10
<1>11. CASE rv = "PENDING"
  BY <1>1, <1>6, <1>11
<1>12. CASE rv = "ERR_WITH_SOCKET" /\ h # NoHandle
  BY <1>1, <1>3, <1>8, <1>12
<1>13. CASE rv # "OK" /\ rv # "PENDING" /\ ~(rv = "ERR_WITH_SOCKET" /\ h # NoHandle)
  BY <1>1, <1>5, <1>8, <1>13
<1> QED BY <1>9, <1>10, <1>11, <1>12, <1>13

\* The limits are looked at before a job is made; when the pool is full, closing an
\* idle socket makes the room.
LEMMA ActivateNewSocketKept ==
  ASSUME NEW s \in PoolState, Books(s), Kept(s, {}), NEW g \in s.groups,
         NEW h \in Handles \cup {NoHandle},
         h \in Handles => s.hsocket[h] = NoSocket /\ s.idle[g] = {},
         NEW r \in ActivateNewSocket(s, g, h)
  PROVE  RequestKept(r, g, h)
<1>0. g \in Groups
  BY Fields
<1>1. \/ \E k : r = Outcome([s EXCEPT !.unusedPre = @ \ {k}], "PENDING")
      \/ r = Outcome(s, "PENDING") \/ r = Outcome(s, "ERR")
      \/ /\ r \in ConnectNewSocket(s, g, h)
         /\ h \notin IgnoreLimits => HasAvailableSocketSlot(s, g) /\ ~ReachedMaxSocketsLimit(s)
      \/ /\ \E t \in CloseOneIdleSocketExceptInGroup(s, g) : r \in ConnectNewSocket(t, g, h)
         /\ h \notin IgnoreLimits => HasAvailableSocketSlot(s, g)
      \/ h # NoHandle /\ ~(s.idleCount <= 0) /\ CloseOneIdleSocketExceptInGroup(s, g) = {}
  BY DEF ActivateNewSocket
<1>2. ASSUME NEW k, r = Outcome([s EXCEPT !.unusedPre = @ \ {k}], "PENDING") PROVE RequestKept(r, g, h)
  <2> DEFINE t == [s EXCEPT !.unusedPre = @ \ {k}]
  <2>1. SameUpkeep(s, t)
    BY DEF SameUpkeep, PoolState
  <2>2. t.groups = s.groups
    BY DEF PoolState
  <2>3. r = Outcome(t, "PENDING")
    BY <1>2
  <2> HIDE DEF t
  <2>4. Kept(t, {}) /\ Kept(t, {g})
    BY <2>1, SameUpkeepKeeps, KeptWeaker
  <2> QED BY <2>2, <2>3, <2>4 DEF Outcome, RequestKept
<1>3. CASE r = Outcome(s, "PENDING") \/ r = Outcome(s, "ERR")
  BY <1>3, KeptWeaker DEF Outcome, RequestKept
<1>4. CASE /\ r \in ConnectNewSocket(s, g, h)
           /\ h \notin IgnoreLimits => HasAvailableSocketSlot(s, g) /\ ~ReachedMaxSocketsLimit(s)
  <2>1. s.handedOut + s.connecting + s.idleCount \in Int /\ MaxSockets \in Int
    BY Fields, PoolAssumption
  <2>2. Room(s, g)
    BY <1>4, <2>1 DEF Room, Total, HasAvailableSocketSlot, ReachedMaxSocketsLimit
  <2> QED BY <1>4, <2>2, ConnectNewSocketKept
<1>5. CASE /\ \E t \in CloseOneIdleSocketExceptInGroup(s, g) : r \in ConnectNewSocket(t, g, h)
           /\ h \notin IgnoreLimits => HasAvailableSocketSlot(s, g)
  <2>1. PICK t \in CloseOneIdleSocketExceptInGroup(s, g) : r \in ConnectNewSocket(t, g, h)
    BY <1>5
  <2>2. t \in PoolState /\ t.hsocket = s.hsocket
    BY CloseOneIdleSocketEffect
  <2>3. Kept(t, {}) /\ g \in t.groups /\ Room(t, g)
    BY <1>0, <1>5, CloseOneIdleSocketKept DEF Room, HasAvailableSocketSlot
  <2> QED BY <2>1, <2>2, <2>3, ConnectNewSocketKept
<1>6. ~(h # NoHandle /\ ~(s.idleCount <= 0) /\ CloseOneIdleSocketExceptInGroup(s, g) = {})
  <2>1. SUFFICES ASSUME h # NoHandle, ~(s.idleCount <= 0), CloseOneIdleSocketExceptInGroup(s, g) = {}
                 PROVE  FALSE
    OBVIOUS
  <2>2. \A x \in Groups : s.idle[x] = {}
    BY <2>1 DEF CloseOneIdleSocketExceptInGroup
  <2>3. IdleSockets(s) = {}
    BY <2>2 DEF IdleSockets
  <2>4. s.idleCount = 0
    BY <2>3, FS_EmptySet DEF Books, CountersMatchIn
  <2> QED BY <2>1, <2>4
<1> QED BY <1>1, <1>2, <1>3, <1>4, <1>5, <1>6

\* RequestSocketInternal keeps the groups, the generations and the limits up.
LEMMA RequestSocketInternalKept ==
  ASSUME NEW s \in PoolState, Books(s), Kept(s, {}), NEW g \in Groups,
         NEW h \in Handles \cup {NoHandle},
         h \in Handles => s.hsocket[h] = NoSocket /\ s.hgroup[h] = g,
         NEW r \in RequestSocketInternal(s, g, h)
  PROVE  RequestKept(r, g, h)
<1> DEFINE a == GetOrCreateGroup(s, g)
<1>1. /\ a \in PoolState /\ Books(a) /\ Kept(a, {}) /\ g \in a.groups
      /\ a.hsocket = s.hsocket /\ a.hgroup = s.hgroup
  <2>1. a.hgroup = s.hgroup
    BY DEF GetOrCreateGroup, PoolState
  <2> QED BY <2>1, GetOrCreateGroupType, ElementaryBooks, ElementarySockets, MapKept
<1> HIDE DEF a
<1>2. CASE h = NoHandle
  BY <1>1, <1>2, ActivateNewSocketKept, PoolAssumption DEF RequestSocketInternal, a
<1>3. CASE h # NoHandle
  <2>1. PICK b \in AssignIdleSocketToGroup(a, g, h) :
          r \in IF b.rv = "OK" THEN {b} ELSE ActivateNewSocket(b.st, g, h)
    BY <1>3 DEF RequestSocketInternal, a
  <2>2. /\ b \in [st : PoolState, rv : {"OK", "NONE"}]
        /\ b.rv = "NONE" => b.st.hsocket = a.hsocket
    BY <1>1, <1>3, AssignIdleSocketToGroupEffect
  <2>3. Books(b.st)
    BY <1>1, <1>3, AssignIdleSocketToGroupBooks
  <2>4. Kept(b.st, {}) /\ g \in b.st.groups /\ (b.rv = "NONE" => b.st.idle[g] = {})
    BY <1>1, <1>3, AssignIdleSocketToGroupKept
  <2>5. CASE b.rv = "OK"
    BY <2>1, <2>4, <2>5, KeptWeaker DEF RequestKept
  <2>6. CASE b.rv = "NONE"
    <3>1. b.st \in PoolState /\ b.st.hsocket[h] = NoSocket /\ r \in ActivateNewSocket(b.st, g, h)
      BY <1>1, <1>3, <2>1, <2>2, <2>6
    <3> QED BY <2>3, <2>4, <2>6, <3>1, ActivateNewSocketKept
  <2> QED BY <2>2, <2>5, <2>6
<1> QED BY <1>2, <1>3

-----------------------------------------------------------------------------
(***************************************************************************)
(* Waking up requests.                                                     *)
(***************************************************************************)
\* Answering a request is no matter of upkeep.
LEMMA AnswerKept ==
  ASSUME NEW s \in PoolState, NEW P, Kept(s, P), NEW h, NEW rv
  PROVE  Kept(InvokeUserCallbackLater(s, h, rv), P)
<1> DEFINE t == InvokeUserCallbackLater(s, h, rv)
<1>1. SameUpkeep(s, t)
  BY DEF InvokeUserCallbackLater, SameUpkeep, PoolState
<1> HIDE DEF t
<1> QED BY <1>1, SameUpkeepKeeps DEF t

\* ProcessPendingRequest keeps the pool up: a request that gets a job only is still in
\* its queue when the timer of the job runs.
LEMMA ProcessPendingRequestKept ==
  ASSUME NEW s, NEW X \in SUBSET Handles, Serving(s, X), Kept(s, {}), NEW g \in Groups,
         s.pending[g] # <<>>, NEW t \in ProcessPendingRequest(s, g)
  PROVE  Kept(t, {})
<1> DEFINE h == Head(s.pending[g])
<1>0. s \in PoolState /\ Books(s)
  BY DEF Serving, Good
<1>1. QueuedAt(s, g, 1, h)
  BY <1>0, Fields DEF QueuedAt
<1>2. h \in Handles /\ s.hgroup[h] = g /\ s.hsocket[h] = NoSocket
  BY <1>1, HeadOfQueue
<1>3. PICK r \in RequestSocketInternal(s, g, h) :
        t = IF r.rv = "PENDING" THEN r.st
            ELSE InvokeUserCallbackLater(
                   RemoveGroupIfEmpty(RemoveRequestFromQueue(r.st, g, 1), g), h, r.rv)
  BY DEF ProcessPendingRequest
<1> HIDE DEF h
<1>4. RequestKept(r, g, h)
  BY <1>0, <1>2, RequestSocketInternalKept
<1>5. r.st \in PoolState /\ r.st.pending = s.pending
  BY <1>0, <1>2, RequestSocketInternalEffect DEF RequestEffect, RequestOutcomes, SameRequests
<1>6. CASE r.rv = "PENDING"
  BY <1>3, <1>4, <1>5, <1>6, KeptStronger DEF RequestKept
<1>7. CASE r.rv # "PENDING"
  <2> DEFINE u == RemoveRequestFromQueue(r.st, g, 1)
             v == RemoveGroupIfEmpty(u, g)
  <2>1. 1 \in 1..Len(r.st.pending[g])
    BY <1>1, <1>5 DEF QueuedAt
  <2>2. Kept(u, {}) /\ u \in PoolState
    BY <1>4, <1>5, <1>7, <2>1, RemoveRequestKept, RemoveRequestFromQueueType DEF RequestKept
  <2> HIDE DEF u
  <2>3. Kept(v, {}) /\ v \in PoolState
    BY <2>2, MapKept, RemoveGroupIfEmptyType
  <2>4. t = InvokeUserCallbackLater(v, h, r.rv)
    BY <1>3, <1>7 DEF u
  <2> HIDE DEF v
  <2> QED BY <2>3, <2>4, AnswerKept
<1> QED BY <1>6, <1>7

\* OnAvailableSocketSlot keeps the pool up.
LEMMA OnAvailableSocketSlotKept ==
  ASSUME NEW s, NEW X \in SUBSET Handles, Serving(s, X), Kept(s, {}), NEW g \in Groups,
         NEW t \in OnAvailableSocketSlot(s, g)
  PROVE  Kept(t, {})
<1>0. s \in PoolState
  BY DEF Serving, Good
<1>1. \/ IsEmpty(s, g) /\ t = RemoveGroup(s, g)
      \/ s.pending[g] # <<>> /\ t \in ProcessPendingRequest(s, g)
      \/ t = s
  BY DEF OnAvailableSocketSlot
<1> QED BY <1>0, <1>1, MapKept, ProcessPendingRequestKept

\* CheckForStalledSocketGroups keeps the pool up.
LEMMA CheckForStalledSocketGroupsKept ==
  ASSUME NEW s, NEW X \in SUBSET Handles, Serving(s, X), Kept(s, {}),
         NEW t \in CheckForStalledSocketGroups(s)
  PROVE  Kept(t, {})
<1>0. s \in PoolState /\ Good(s, X) /\ Books(s)
  BY DEF Serving, Good
<1>1. TopStalledGroups(s) \subseteq Groups
  BY <1>0, Fields DEF TopStalledGroups
<1>2. \/ t = s
      \/ \E g \in TopStalledGroups(s) : t \in OnAvailableSocketSlot(s, g)
      \/ \E g \in TopStalledGroups(s) :
           \E u \in CloseOneIdleSocketExceptInGroup(s, NoGroup) : t \in OnAvailableSocketSlot(u, g)
  BY DEF CheckForStalledSocketGroups, CloseOneIdleSocket
<1>3. \A u \in CloseOneIdleSocketExceptInGroup(s, NoGroup) : Serving(u, X) /\ Kept(u, {})
  <2> TAKE u \in CloseOneIdleSocketExceptInGroup(s, NoGroup)
  <2>1. u \in PoolState /\ SameRequests(s, u, NoHandle) /\ u.hsocket = s.hsocket /\ Books(u)
    BY <1>0, CloseOneIdleSocketEffect, CloseOneIdleSocketBooks
  <2>2. Serving(u, X)
    BY <1>0, <2>1, GoodFrame
  <2>3. Kept(u, {})
    BY <1>0, CloseOneIdleSocketKept
  <2> QED BY <2>2, <2>3
<1> QED BY <1>1, <1>2, <1>3, OnAvailableSocketSlotKept

\* OnAvailableThenCheckStalled keeps the pool up.
LEMMA OnAvailableThenCheckStalledKept ==
  ASSUME NEW s, NEW X \in SUBSET Handles, Serving(s, X), Kept(s, {}), NEW g \in Groups,
         NEW t \in OnAvailableThenCheckStalled(s, g)
  PROVE  Kept(t, {})
<1>1. PICK u \in OnAvailableSocketSlot(s, g) : t \in CheckForStalledSocketGroups(u)
  BY DEF OnAvailableThenCheckStalled
<1>2. Serving(u, X) /\ Kept(u, {})
  BY OnAvailableSocketSlotGood, OnAvailableSocketSlotKept
<1> QED BY <1>1, <1>2, CheckForStalledSocketGroupsKept

-----------------------------------------------------------------------------
(***************************************************************************)
(* Releasing, cancelling, and the end of a ConnectJob.                     *)
(***************************************************************************)
\* What else does not change when a handle lets go of its socket.
LetsGoElse(s, h, b) ==
  /\ b.groups = s.groups /\ b.backup = s.backup
  /\ b.generation = s.generation /\ b.stale = s.stale
  /\ \A y \in Handles \ {h} : b.hpoolId[y] = s.hpoolId[y]

\* A socket that comes back leaves its place to another one; it may become idle in its
\* group if it was handed out after the last flush.
LEMMA ReleasedKept ==
  ASSUME NEW s, Good(s, {}), Kept(s, {}), NEW h \in Handles, NEW b, LetsGo(s, h, b), LetsGoElse(s, h, b)
  PROVE  LET g == s.hgroup[h]
             k == s.hsocket[h]
             d == Released(b, g)
         IN  /\ Kept([d EXCEPT !.stale = d.stale \ {k}], {})
             /\ s.hpoolId[h] = s.generation => Kept(AddIdleSocket(d, g, k), {})
<1> DEFINE g == s.hgroup[h]
           k == s.hsocket[h]
           d == Released(b, g)
           e == [d EXCEPT !.stale = d.stale \ {k}]
<1>0. s \in PoolState /\ Books(s) /\ b \in PoolState
  BY DEF Good, LetsGo
<1>1. g \in Groups /\ k \in Sockets /\ h \in Holders(s)
  BY <1>0, Fields DEF LetsGo, Holders
<1> HIDE DEF g, k
<1>2. d \in PoolState /\ k \in FreeSockets(d)
  BY ReleasedServing DEF Serving, Good, g, k
<1>3. /\ e.groups = s.groups /\ e.idle = s.idle /\ e.jobs = s.jobs /\ e.pending = s.pending
      /\ e.backup = s.backup /\ e.idleCount = s.idleCount /\ e.connecting = s.connecting
      /\ e.generation = s.generation /\ e.stale = s.stale \ {k}
      /\ e.handedOut = s.handedOut - 1
      /\ e.active = [s.active EXCEPT ![g] = s.active[g] - 1]
      /\ e.hsocket = [s.hsocket EXCEPT ![h] = NoSocket] /\ e.hpoolId = b.hpoolId
  BY <1>0, <1>2 DEF LetsGo, LetsGoElse, Released, PoolState
<1>4. /\ d.groups = e.groups /\ d.idle = e.idle /\ d.jobs = e.jobs /\ d.pending = e.pending
      /\ d.active = e.active /\ d.backup = e.backup
      /\ d.idleCount = e.idleCount /\ d.connecting = e.connecting /\ d.handedOut = e.handedOut
      /\ d.generation = e.generation /\ d.hsocket = e.hsocket /\ d.hpoolId = e.hpoolId
      /\ d.stale \ {k} = e.stale
  BY <1>2 DEF PoolState
<1>5. d.stale = s.stale
  BY <1>0 DEF Released, LetsGoElse, PoolState
<1> HIDE DEF d, e
<1>6. e.active[g] = s.active[g] - 1 /\ \A x \in Groups : x # g => e.active[x] = s.active[x]
  BY <1>0, <1>1, <1>3, Fields
<1>7. g \in s.groups
  <2> DEFINE H == {y \in Holders(s) : s.hgroup[y] = g}
  <2>1. h \in H /\ H \subseteq Handles
    BY <1>1 DEF Holders, g
  <2>2. IsFiniteSet(H)
    BY <2>1, PoolAssumption, FS_Subset
  <2>3. Cardinality(H) # 0
    BY <2>1, <2>2, FS_EmptySet
  <2>4. s.active[g] = Cardinality(H)
    BY <1>0, <1>1 DEF Books, CountersMatchIn
  <2> QED BY <1>1, <2>3, <2>4 DEF Kept, GroupsInMapIn, IsEmpty
<1>8. GroupsInMapIn(e)
  BY <1>3, <1>6, <1>7 DEF Kept, GroupsInMapIn, IsEmpty
<1>9. TimersOK(e, {})
  BY <1>3 DEF Kept, TimersOK
<1>10. Fresh(e)
  <2>1. Holders(e) = Holders(s) \ {h}
    BY <1>0, <1>3, Fields DEF Holders
  <2>2. \A y \in Holders(e) : e.hsocket[y] = s.hsocket[y] /\ e.hpoolId[y] = s.hpoolId[y]
    BY <1>0, <1>3, <2>1, Fields DEF Holders, LetsGoElse
  <2>3. \A z \in HeldSockets(s) : z # k => z \in HeldSockets(e)
    BY <2>1, <2>2 DEF HeldSockets, k
  <2> QED BY <1>3, <2>1, <2>2, <2>3 DEF Kept, Fresh
<1>11. WithinLimitsIn(e) /\ Room(e, g)
  <2>1. \A x \in Groups : s.active[x] \in Int /\ Cardinality(s.jobs[x]) \in Int /\ Cardinality(s.idle[x]) \in Int
    BY <1>0, GroupFinite
  <2>2. MaxSockets \in Int /\ MaxSocketsPerGroup \in Int /\ s.handedOut \in Int /\ s.connecting \in Int
        /\ s.idleCount \in Int
    BY <1>0, PoolAssumption, Fields
  <2>3. IgnoreLimits = {} => Total(e) < MaxSockets /\ Total(e) <= MaxSockets
    BY <1>3, <2>2 DEF Kept, WithinLimitsIn, Total
  <2>4. IgnoreLimits = {} => /\ NumActiveSocketSlots(e, g) < MaxSocketsPerGroup
                             /\ NumActiveSocketSlots(e, g) <= MaxSocketsPerGroup
    BY <1>1, <1>3, <1>6, <2>1, <2>2 DEF Kept, WithinLimitsIn, NumActiveSocketSlots
  <2>5. ASSUME NEW x \in Groups, IgnoreLimits = {}, x # g
        PROVE  NumActiveSocketSlots(e, x) <= MaxSocketsPerGroup
    BY <1>3, <1>6, <2>5 DEF Kept, WithinLimitsIn, NumActiveSocketSlots
  <2> QED BY <2>3, <2>4, <2>5 DEF WithinLimitsIn, Room, Total
<1>12. Kept(e, {})
  BY <1>8, <1>9, <1>10, <1>11 DEF Kept
<1>13. ASSUME s.hpoolId[h] = s.generation PROVE Kept(AddIdleSocket(d, g, k), {})
  <2>1. k \notin s.stale
    BY <1>1, <1>13 DEF Kept, Fresh, k
  <2>2. SameUpkeep(e, d)
    BY <1>3, <1>4, <1>5, <2>1 DEF SameUpkeep
  <2>3. Kept(d, {})
    BY <1>12, <2>2, SameUpkeepKeeps
  <2>4. Room(d, g) /\ g \in d.groups
    BY <1>3, <1>4, <1>7, <1>11 DEF Room, Total, NumActiveSocketSlots
  <2> QED BY <1>2, <2>3, <2>4, AddIdleSocketKept
<1> QED BY <1>12, <1>13 DEF g, k, d, e

\* ReleaseSocket keeps the pool up.
LEMMA ReleaseSocketKept ==
  ASSUME NEW s, Good(s, {}), Kept(s, {}), NEW h \in Handles, NEW b, LetsGo(s, h, b), LetsGoElse(s, h, b),
         NEW connected, NEW t \in ReleaseSocket(b, s.hgroup[h], s.hsocket[h], s.hpoolId[h], connected)
  PROVE  Kept(t, {})
<1> DEFINE g == s.hgroup[h]
           k == s.hsocket[h]
           d == Released(b, g)
           e == [d EXCEPT !.stale = d.stale \ {k}]
<1>1. \/ s.hpoolId[h] = s.generation /\ t \in OnAvailableThenCheckStalled(AddIdleSocket(d, g, k), g)
      \/ t \in CheckForStalledSocketGroups(e)
  BY DEF ReleaseSocket, Released, LetsGoElse
<1> HIDE DEF g, k, d, e
<1>2. g \in Groups /\ Serving(d, {h}) /\ Serving(AddIdleSocket(d, g, k), {h})
  BY ReleasedServing DEF g, k, d
<1>3. Serving(e, {h})
  <2>0. d \in PoolState
    BY <1>2 DEF Serving, Good
  <2>1. d.stale \ {k} \in SUBSET Sockets
    BY <2>0, Fields
  <2>2. e \in PoolState
    BY <2>0, <2>1, SetStale DEF e
  <2>3. SameBooks(d, e) /\ e.pending = d.pending /\ e.callback = d.callback /\ e.hinit = d.hinit
    BY <2>0 DEF SameBooks, PoolState, e
  <2> QED BY <1>2, <2>2, <2>3, GoodSame
<1>4. /\ Kept(e, {})
      /\ s.hpoolId[h] = s.generation => Kept(AddIdleSocket(d, g, k), {})
  BY ReleasedKept DEF g, k, d, e
<1>5. {h} \in SUBSET Handles
  OBVIOUS
<1> QED BY <1>1, <1>2, <1>3, <1>4, <1>5, OnAvailableThenCheckStalledKept, CheckForStalledSocketGroupsKept

\* CancelPendingRequest keeps the pool up.
LEMMA CancelPendingRequestKept ==
  ASSUME NEW s, Good(s, {}), Kept(s, {}), NEW h \in Handles, Queued(s, h),
         NEW t \in CancelPendingRequest(s, s.hgroup[h], h)
  PROVE  Kept(t, {})
<1> DEFINE g == s.hgroup[h]
           i == CHOOSE j \in 1..Len(s.pending[g]) : s.pending[g][j] = h
           u == RemoveRequestFromQueue(s, g, i)
<1>0. RequestOK(s, h) /\ s \in PoolState
  BY DEF Good
<1>1. g \in Groups /\ Contains(s.pending[g], h)
  BY <1>0 DEF Queued, RequestOK
<1>2. i \in 1..Len(s.pending[g]) /\ s.pending[g][i] = h
  BY <1>1 DEF Contains
<1>3. t = u \/ \E k \in u.jobs[g] : t \in CheckForStalledSocketGroups(RemoveConnectJob(u, g, k))
  BY <1>1 DEF CancelPendingRequest
<1> HIDE DEF g, i
<1>4. OnlyIn(s, g, h) /\ Unqueued(s, g, i, h, u)
  BY <1>0, <1>2 DEF RequestOK, OnlyIn, Unqueued, QueuedAt, g
<1>5. Kept(u, {})
  BY <1>0, <1>1, <1>2, RemoveRequestKept
<1> HIDE DEF u
<1>6. Good(u, {} \cup {h}) /\ ~Queued(u, h) /\ OnlyQueues(s, u)
  BY <1>1, <1>4, RemoveRequestGood
<1>7. s.callback[h] = NoResult /\ s.hsocket[h] = NoSocket
  BY <1>0 DEF RequestOK
<1>8. {} \cup {h} = {h} /\ {h} \in SUBSET Handles
  OBVIOUS
<1>9. Serving(u, {h}) /\ u \in PoolState
  BY <1>6, <1>7, <1>8 DEF Serving, NoRequest, OnlyQueues, Good
<1>10. ASSUME NEW k \in u.jobs[g]
       PROVE  Serving(RemoveConnectJob(u, g, k), {h}) /\ Kept(RemoveConnectJob(u, g, k), {})
  BY <1>1, <1>5, <1>9, RemoveConnectJobServing, RemoveConnectJobKept
<1> QED BY <1>3, <1>5, <1>8, <1>10, CheckForStalledSocketGroupsKept

\* CancelRequest keeps the pool up.
LEMMA CancelRequestKept ==
  ASSUME NEW s, Good(s, {}), Kept(s, {}), NEW h \in Handles, Waiting(s, h),
         NEW t \in CancelRequest(s, s.hgroup[h], h)
  PROVE  Kept(t, {})
<1> DEFINE g == s.hgroup[h]
           a == [s EXCEPT !.callback[h] = NoResult]
           b == [a EXCEPT !.hsocket[h] = NoSocket]
<1>0. RequestOK(s, h) /\ s \in PoolState
  BY DEF Good
<1>1. a \in PoolState
  BY <1>0, Fields, SetCallback
<1>2. b \in PoolState
  BY <1>1, Fields, SetHSocket
<1>3. /\ b.idle = s.idle /\ b.jobs = s.jobs /\ b.active = s.active /\ b.idleCount = s.idleCount
      /\ b.connecting = s.connecting /\ b.handedOut = s.handedOut
      /\ b.pending = s.pending /\ b.hgroup = s.hgroup /\ b.hinit = s.hinit
      /\ b.hsocket = [s.hsocket EXCEPT ![h] = NoSocket]
      /\ b.callback = [s.callback EXCEPT ![h] = NoResult]
      /\ b.groups = s.groups /\ b.backup = s.backup
      /\ b.generation = s.generation /\ b.stale = s.stale /\ b.hpoolId = s.hpoolId
  BY <1>0 DEF PoolState
<1>4. \/ s.callback[h] = NoResult /\ t \in CancelPendingRequest(s, g, h)
      \/ s.callback[h] # NoResult /\ s.hsocket[h] = NoSocket /\ t = b
      \/ /\ s.callback[h] # NoResult /\ s.hsocket[h] # NoSocket
         /\ \E c \in BOOLEAN : t \in ReleaseSocket(b, g, s.hsocket[h], s.hpoolId[h], c)
  BY DEF CancelRequest
<1> HIDE DEF g, a, b
<1>5. s.callback[h] = NoResult => Queued(s, h)
  BY <1>0 DEF RequestOK
<1>6. s.callback[h] # NoResult => ~Queued(s, h)
  BY <1>0 DEF RequestOK
<1>7. b.callback[h] = NoResult /\ \A y \in Handles \ {h} : b.callback[y] = s.callback[y]
  BY <1>0, <1>3, Fields
<1>8. CASE s.callback[h] = NoResult /\ t \in CancelPendingRequest(s, g, h)
  BY <1>5, <1>8, CancelPendingRequestKept DEF g
<1>9. CASE s.callback[h] # NoResult /\ s.hsocket[h] = NoSocket /\ t = b
  <2>1. b.hsocket = s.hsocket
    BY <1>0, <1>3, <1>9, Fields
  <2>2. SameUpkeep(s, b)
    BY <1>3, <2>1 DEF SameUpkeep
  <2> QED BY <1>9, <2>2, SameUpkeepKeeps
<1>10. CASE /\ s.callback[h] # NoResult /\ s.hsocket[h] # NoSocket
            /\ \E c \in BOOLEAN : t \in ReleaseSocket(b, g, s.hsocket[h], s.hpoolId[h], c)
  <2>1. LetsGo(s, h, b) /\ LetsGoElse(s, h, b)
    BY <1>2, <1>3, <1>6, <1>7, <1>10 DEF Waiting, LetsGo, LetsGoElse
  <2> QED BY <1>10, <2>1, ReleaseSocketKept DEF g
<1> QED BY <1>4, <1>8, <1>9, <1>10

\* OnConnectJobComplete keeps the pool up: the socket takes the place of its job.
LEMMA OnConnectJobCompleteKept ==
  ASSUME NEW s, Good(s, {}), Kept(s, {}), NEW g \in Groups, NEW k \in s.jobs[g], NEW result,
         NEW t \in OnConnectJobComplete(s, g, k, result)
  PROVE  Kept(t, {})
<1>0. s \in PoolState /\ Serving(s, {}) /\ {} \in SUBSET Handles
  BY DEF Good, Serving
<1>1. CASE s.pending[g] = <<>>
  <2> DEFINE b == RemoveConnectJob(s, g, k)
  <2>1. Serving(b, {}) /\ k \in FreeSockets(b) /\ b \in PoolState
    BY <1>0, RemoveConnectJobServing, RemoveConnectJobType
  <2>2. Kept(b, {}) /\ g \in b.groups /\ Room(b, g)
    BY <1>0, RemoveConnectJobKept
  <2>3. t \in OnAvailableThenCheckStalled(IF result = "OK" THEN AddIdleSocket(b, g, k) ELSE b, g)
    BY <1>1 DEF OnConnectJobComplete
  <2> HIDE DEF b
  <2>4. Serving(AddIdleSocket(b, g, k), {}) /\ Kept(AddIdleSocket(b, g, k), {})
    BY <2>1, <2>2, AddIdleSocketServing, AddIdleSocketKept
  <2> QED BY <1>0, <2>1, <2>2, <2>3, <2>4, OnAvailableThenCheckStalledKept
<1>2. CASE s.pending[g] # <<>>
  <2> DEFINE h == Head(s.pending[g])
             u == RemoveRequestFromQueue(s, g, 1)
             b == RemoveConnectJob(u, g, k)
             c == HandOutSocket(b, g, h, k)
             e == InvokeUserCallbackLater(b, h, "ERR")
  <2>1. QueuedAt(s, g, 1, h) /\ Unqueued(s, g, 1, h, u)
    BY <1>0, <1>2, Fields DEF QueuedAt, Unqueued
  <2>2. /\ h \in Handles /\ s.hgroup[h] = g /\ ~s.hinit[h]
        /\ s.hsocket[h] = NoSocket /\ s.callback[h] = NoResult
        /\ OnlyIn(s, g, h)
    BY <1>0, <2>1, HeadOfQueue
  <2>3. \/ \E rv \in {"OK", "ERR"} : t = InvokeUserCallbackLater(c, h, rv)
        \/ t \in OnAvailableThenCheckStalled(e, g)
    BY <1>2 DEF OnConnectJobComplete
  <2>4. Kept(u, {})
    BY <1>0, <2>1, RemoveRequestKept DEF QueuedAt
  <2> HIDE DEF h, u
  <2>5. Good(u, {} \cup {h}) /\ ~Queued(u, h) /\ OnlyQueues(s, u)
    BY <2>1, <2>2, RemoveRequestGood
  <2>6. Serving(u, {h}) /\ k \in u.jobs[g] /\ u \in PoolState
    <3>1. {} \cup {h} = {h}
      OBVIOUS
    <3> QED BY <2>2, <2>5, <3>1 DEF Serving, NoRequest, OnlyQueues, Good
  <2>7. /\ Serving(b, {h}) /\ k \in FreeSockets(b)
        /\ SameRequests(u, b, NoHandle)
    BY <2>6, RemoveConnectJobServing
  <2>8. Kept(b, {}) /\ g \in b.groups /\ Room(b, g)
    BY <2>4, <2>6, RemoveConnectJobKept
  <2> HIDE DEF b
  <2>9. /\ b \in PoolState /\ Good(b, {h}) /\ ~Queued(b, h)
        /\ b.hgroup[h] = g /\ ~b.hinit[h] /\ b.hsocket[h] = NoSocket
    BY <2>2, <2>5, <2>7 DEF Serving, Good, NoRequest, SameRequests, OnlyQueues
  <2>10. Kept(c, {}) /\ c \in PoolState
    <3>1. k \in Sockets
      BY <2>7 DEF FreeSockets
    <3> QED BY <2>2, <2>7, <2>8, <2>9, <3>1, HandOutSocketKept, HandOutSocketType
  <2>11. Serving(e, {}) /\ Kept(e, {})
    <3>1. Good(b, {} \cup {h})
      <4>1. {h} = {} \cup {h}
        OBVIOUS
      <4> QED BY <2>9, <4>1
    <3>2. "ERR" \in Results /\ g # NoGroup
      BY PoolAssumption DEF Results
    <3>3. Good(e, {})
      BY <2>2, <2>9, <3>1, <3>2, AnswerGood
    <3> QED BY <2>8, <2>9, <3>3, AnswerKept DEF Serving
  <2> HIDE DEF c, e
  <2>12. t \in OnAvailableThenCheckStalled(e, g) => Kept(t, {})
    BY <1>0, <2>11, OnAvailableThenCheckStalledKept
  <2> QED BY <2>3, <2>10, <2>12, AnswerKept
<1> QED BY <1>1, <1>2

-----------------------------------------------------------------------------
(***************************************************************************)
(* The entry points.                                                       *)
(***************************************************************************)
KeptUp == Kept(pool, {})

UpkeepInv == Inv /\ KeptUp

\* A handle without a socket is unbound.
LEMMA ClearHandleKept ==
  ASSUME NEW s \in PoolState, Kept(s, {}), NEW h \in Handles, s.hsocket[h] = NoSocket
  PROVE  Kept(ClearHandle(s, h), {})
<1> DEFINE t == ClearHandle(s, h)
<1>1. /\ t.groups = s.groups /\ t.idle = s.idle /\ t.jobs = s.jobs /\ t.pending = s.pending
      /\ t.active = s.active /\ t.backup = s.backup
      /\ t.idleCount = s.idleCount /\ t.connecting = s.connecting /\ t.handedOut = s.handedOut
      /\ t.generation = s.generation /\ t.hsocket = s.hsocket /\ t.stale = s.stale
      /\ t.hpoolId = [s.hpoolId EXCEPT ![h] = -1]
  BY DEF ClearHandle, PoolState
<1> HIDE DEF t
<1>2. SameUpkeep(s, t)
  BY <1>1, Fields DEF SameUpkeep, Holders
<1> QED BY <1>2, SameUpkeepKeeps DEF t

\* The handle takes the result.
LEMMA HandleInitCompletionKept ==
  ASSUME NEW s \in PoolState, Kept(s, {}), NEW h \in Handles
  PROVE  Kept(HandleInitCompletion(s, h), {})
<1>1. CASE s.hsocket[h] = NoSocket
  BY <1>1, ClearHandleKept DEF HandleInitCompletion
<1>2. CASE s.hsocket[h] # NoSocket
  <2> DEFINE t == [s EXCEPT !.hinit[h] = TRUE]
  <2>1. SameUpkeep(s, t)
    BY DEF SameUpkeep, PoolState
  <2>2. HandleInitCompletion(s, h) = t
    BY <1>2 DEF HandleInitCompletion
  <2> HIDE DEF t
  <2> QED BY <2>1, <2>2, SameUpkeepKeeps
<1> QED BY <1>1, <1>2

\* The request is what a timer of its group was waiting for.
LEMMA InsertRequestKept ==
  ASSUME NEW s \in PoolState, NEW g \in s.groups, Kept(s, {g}), NEW h \in Handles
  PROVE  Kept(InsertRequestIntoQueue(s, g, h), {})
<1> DEFINE q == s.pending[g]
           r == InsertAt(q, InsertPosition(q, h), h)
           t == InsertRequestIntoQueue(s, g, h)
<1>0. g \in Groups /\ q \in Seq(Handles)
  BY Fields
<1>1. r \in Seq(Handles) /\ r # <<>>
  <2>1. InsertPosition(q, h) \in 1..(Len(q) + 1)
    BY <1>0, InsertPositionProperties
  <2>2. r \in Seq(Handles) /\ Len(r) = Len(q) + 1
    BY <1>0, <2>1, InsertAtProperties
  <2> QED BY <1>0, <2>2
<1>2. /\ t.groups = s.groups /\ t.idle = s.idle /\ t.jobs = s.jobs
      /\ t.active = s.active /\ t.backup = s.backup
      /\ t.idleCount = s.idleCount /\ t.connecting = s.connecting /\ t.handedOut = s.handedOut
      /\ t.generation = s.generation /\ t.hsocket = s.hsocket /\ t.stale = s.stale
      /\ t.hpoolId = s.hpoolId /\ t.pending = [s.pending EXCEPT ![g] = r]
  BY DEF InsertRequestIntoQueue, PoolState
<1> HIDE DEF t, r
<1>3. t.pending[g] # <<>> /\ \A x \in Groups : x # g => t.pending[x] = s.pending[x]
  BY <1>0, <1>1, <1>2, Fields
<1>4. GroupsInMapIn(t)
  BY <1>2, <1>3 DEF Kept, GroupsInMapIn, IsEmpty
<1>5. TimersOK(t, {})
  BY <1>2, <1>3 DEF Kept, TimersOK
<1>6. Fresh(t)
  <2>1. Holders(t) = Holders(s) /\ HeldSockets(t) = HeldSockets(s)
    BY <1>2 DEF Holders, HeldSockets
  <2> QED BY <1>2, <2>1 DEF Kept, Fresh
<1>7. WithinLimitsIn(t)
  BY <1>2 DEF Kept, WithinLimitsIn, NumActiveSocketSlots
<1> QED BY <1>4, <1>5, <1>6, <1>7 DEF Kept, t

\* The entry point RequestSocket preserves the invariant.
LEMMA RequestSocketKept ==
  ASSUME UpkeepInv, NEW h \in Handles, NEW g \in Groups, RequestSocket(h, g)
  PROVE  Kept(pool', {})
<1> DEFINE s == [pool EXCEPT !.hgroup[h] = g]
<1>0. pool \in PoolState /\ Books(pool) /\ Kept(pool, {}) /\ pool.hsocket[h] = NoSocket
  BY DEF UpkeepInv, KeptUp, Inv, Good, RequestOK, RequestSocket
<1>1. s \in PoolState
  BY <1>0, Fields, SetHGroup
<1>2. /\ s.hgroup = [pool.hgroup EXCEPT ![h] = g]
      /\ s.idle = pool.idle /\ s.jobs = pool.jobs /\ s.active = pool.active
      /\ s.idleCount = pool.idleCount /\ s.connecting = pool.connecting
      /\ s.handedOut = pool.handedOut /\ s.hsocket = pool.hsocket /\ SameUpkeep(pool, s)
  BY <1>0 DEF PoolState, SameUpkeep
<1>3. PICK r \in RequestSocketInternal(s, g, h) :
        pool' = IF r.rv = "PENDING" THEN InsertRequestIntoQueue(r.st, g, h)
                                    ELSE HandleInitCompletion(r.st, h)
  BY DEF RequestSocket
<1> HIDE DEF s
<1>4. Books(s)
  <2>1. \A y \in Holders(pool) : s.hgroup[y] = pool.hgroup[y]
    BY <1>0, <1>2, Fields DEF Holders
  <2> QED BY <1>0, <1>2, <2>1, HGroupBooks
<1>5. s.hsocket[h] = NoSocket /\ s.hgroup[h] = g /\ Kept(s, {})
  BY <1>0, <1>2, Fields, SameUpkeepKeeps
<1>6. RequestKept(r, g, h)
  BY <1>1, <1>4, <1>5, RequestSocketInternalKept
<1>7. r.st \in PoolState
  BY <1>1, RequestSocketInternalEffect DEF RequestEffect, RequestOutcomes
<1>8. CASE r.rv = "PENDING"
  BY <1>3, <1>6, <1>7, <1>8, InsertRequestKept DEF RequestKept
<1>9. CASE r.rv # "PENDING"
  BY <1>3, <1>6, <1>7, <1>9, HandleInitCompletionKept DEF RequestKept
<1> QED BY <1>8, <1>9

\* The entry point RequestSockets preserves the invariant.
LEMMA RequestSocketsKept ==
  ASSUME UpkeepInv, NEW g \in Groups, RequestSockets(g)
  PROVE  Kept(pool', {})
<1>0. pool \in PoolState /\ Books(pool) /\ Kept(pool, {})
  BY DEF UpkeepInv, KeptUp, Inv, Good
<1>1. PICK r \in RequestSocketInternal(pool, g, NoHandle) : pool' = RemoveGroupIfEmpty(r.st, g)
  BY DEF RequestSockets
<1>2. RequestKept(r, g, NoHandle)
  BY <1>0, PoolAssumption, RequestSocketInternalKept
<1>3. r.st \in PoolState
  BY <1>0, RequestSocketInternalEffect DEF RequestEffect, RequestOutcomes
<1> QED BY <1>1, <1>2, <1>3, MapKept DEF RequestKept

\* The entry point ResetInitialized preserves the invariant.
LEMMA ResetInitializedKept ==
  ASSUME UpkeepInv, NEW h \in Handles, NEW connected \in BOOLEAN, ResetInitialized(h, connected)
  PROVE  Kept(pool', {})
<1> DEFINE b == [pool EXCEPT !.hsocket[h] = NoSocket]
<1>0. pool \in PoolState /\ Good(pool, {}) /\ RequestOK(pool, h) /\ Kept(pool, {})
  BY DEF UpkeepInv, KeptUp, Inv, Good
<1>1. pool.hgroup[h] # NoGroup /\ pool.hinit[h] /\ pool.hsocket[h] # NoSocket
  BY <1>0 DEF ResetInitialized, RequestOK
<1>2. ~Queued(pool, h) /\ pool.callback[h] = NoResult
  BY <1>0, <1>1 DEF RequestOK, Waiting
<1>3. b \in PoolState
  BY <1>0, Fields, SetHSocket
<1>4. LetsGo(pool, h, b) /\ LetsGoElse(pool, h, b)
  <2>1. /\ b.idle = pool.idle /\ b.jobs = pool.jobs /\ b.active = pool.active
        /\ b.idleCount = pool.idleCount /\ b.connecting = pool.connecting
        /\ b.handedOut = pool.handedOut /\ b.pending = pool.pending
        /\ b.hgroup = pool.hgroup /\ b.hinit = pool.hinit /\ b.callback = pool.callback
        /\ b.hsocket = [pool.hsocket EXCEPT ![h] = NoSocket]
        /\ b.groups = pool.groups /\ b.backup = pool.backup
        /\ b.generation = pool.generation /\ b.stale = pool.stale /\ b.hpoolId = pool.hpoolId
    BY <1>0 DEF PoolState
  <2> HIDE DEF b
  <2> QED BY <1>1, <1>2, <1>3, <2>1 DEF LetsGo, LetsGoElse
<1>5. PICK t \in ReleaseSocket(b, pool.hgroup[h], pool.hsocket[h], pool.hpoolId[h], connected) :
        pool' = ClearHandle(t, h)
  BY DEF ResetInitialized
<1> HIDE DEF b
<1>6. Serving(t, {h}) /\ Kept(t, {})
  BY <1>0, <1>4, <1>5, ReleaseSocketGood, ReleaseSocketKept
<1> QED BY <1>5, <1>6, ClearHandleKept DEF Serving, Good, NoRequest

\* The entry point ResetPending preserves the invariant.
LEMMA ResetPendingKept ==
  ASSUME UpkeepInv, NEW h \in Handles, ResetPending(h)
  PROVE  Kept(pool', {})
<1>1. PICK t \in CancelRequest(pool, pool.hgroup[h], h) : pool' = ClearHandle(t, h)
  BY DEF ResetPending
<1>2. Waiting(pool, h)
  BY DEF ResetPending, Waiting
<1>3. Serving(t, {h}) /\ Kept(t, {})
  BY <1>2, CancelRequestGood, CancelRequestKept DEF UpkeepInv, KeptUp, Inv
<1> QED BY <1>1, <1>3, ClearHandleKept DEF Serving, Good, NoRequest

\* The entry point InvokeUserCallback preserves the invariant.
LEMMA InvokeUserCallbackKept ==
  ASSUME UpkeepInv, NEW h \in Handles, InvokeUserCallback(h)
  PROVE  Kept(pool', {})
<1> DEFINE s == [pool EXCEPT !.callback[h] = NoResult]
<1>0. pool \in PoolState /\ Kept(pool, {})
  BY DEF UpkeepInv, KeptUp, Inv, Good
<1>1. s \in PoolState
  BY <1>0, Fields, SetCallback
<1>2. SameUpkeep(pool, s)
  BY <1>0 DEF PoolState, SameUpkeep
<1>3. pool' = HandleInitCompletion(s, h)
  BY DEF InvokeUserCallback
<1> HIDE DEF s
<1> QED BY <1>0, <1>1, <1>2, <1>3, SameUpkeepKeeps, HandleInitCompletionKept

\* The entry point OnBackupSocketTimerFired preserves the invariant: the limits are
\* looked at before the backup job is made.
LEMMA OnBackupSocketTimerFiredKept ==
  ASSUME UpkeepInv, NEW g \in Groups, OnBackupSocketTimerFired(g)
  PROVE  Kept(pool', {})
<1>0. pool \in PoolState /\ Books(pool) /\ Good(pool, {}) /\ Kept(pool, {})
  BY DEF UpkeepInv, KeptUp, Inv, Good
<1>1. \/ pool' = [pool EXCEPT !.backup[g] = FALSE]
      \/ /\ ~ReachedMaxSocketsLimit(pool) /\ HasAvailableSocketSlot(pool, g) /\ pool.jobs[g] # {}
         /\ \E k \in FreeSockets(pool), rv \in ConnectResults :
              \E t \in {AddConnectJob(pool, g, k)}
                         \cup OnConnectJobComplete(AddConnectJob(pool, g, k), g, k, rv) :
                pool' = [t EXCEPT !.backup[g] = FALSE]
  BY DEF OnBackupSocketTimerFired
<1>2. ASSUME NEW t, t \in PoolState, Kept(t, {}) PROVE Kept([t EXCEPT !.backup[g] = FALSE], {})
  <2> DEFINE u == [t EXCEPT !.backup[g] = FALSE]
  <2>1. /\ u.groups = t.groups /\ u.idle = t.idle /\ u.jobs = t.jobs /\ u.pending = t.pending
        /\ u.active = t.active /\ u.backup = [t.backup EXCEPT ![g] = FALSE]
        /\ u.idleCount = t.idleCount /\ u.connecting = t.connecting /\ u.handedOut = t.handedOut
        /\ u.generation = t.generation /\ u.hsocket = t.hsocket /\ u.stale = t.stale
        /\ u.hpoolId = t.hpoolId
    BY <1>2 DEF PoolState
  <2> HIDE DEF u
  <2>2. \A x \in Groups : u.backup[x] => t.backup[x]
    <3>1. t.backup \in [Groups -> BOOLEAN]
      BY <1>2, Fields
    <3> QED BY <2>1, <3>1
  <2>3. GroupsInMapIn(u) /\ TimersOK(u, {})
    BY <1>2, <2>1, <2>2 DEF Kept, GroupsInMapIn, IsEmpty, TimersOK
  <2>4. Fresh(u)
    <3>1. Holders(u) = Holders(t) /\ HeldSockets(u) = HeldSockets(t)
      BY <2>1 DEF Holders, HeldSockets
    <3> QED BY <1>2, <2>1, <3>1 DEF Kept, Fresh
  <2>5. WithinLimitsIn(u)
    BY <1>2, <2>1 DEF Kept, WithinLimitsIn, NumActiveSocketSlots
  <2>6. Kept(u, {})
    BY <2>3, <2>4, <2>5 DEF Kept
  <2> QED BY <2>6 DEF u
<1>3. CASE pool' = [pool EXCEPT !.backup[g] = FALSE]
  BY <1>0, <1>2, <1>3
<1>4. ASSUME ~ReachedMaxSocketsLimit(pool), HasAvailableSocketSlot(pool, g), pool.jobs[g] # {},
             NEW k \in FreeSockets(pool), NEW rv \in ConnectResults,
             NEW t \in {AddConnectJob(pool, g, k)}
                         \cup OnConnectJobComplete(AddConnectJob(pool, g, k), g, k, rv)
      PROVE  t \in PoolState /\ Kept(t, {})
  <2> DEFINE u == AddConnectJob(pool, g, k)
  <2>1. k \in Sockets
    BY DEF FreeSockets
  <2>2. /\ u \in PoolState /\ Books(u) /\ SameRequests(pool, u, NoHandle)
        /\ u.hsocket = pool.hsocket /\ k \in u.jobs[g]
    <3>1. k \in u.jobs[g]
      BY <1>0 DEF AddConnectJob, PoolState
    <3> QED BY <1>0, <2>1, <3>1, AddConnectJobType, AddConnectJobBooks, ElementaryFrames, ElementarySockets
  <2>3. g \in pool.groups
    BY <1>0, <1>4 DEF Kept, GroupsInMapIn, IsEmpty
  <2>4. Room(pool, g)
    <3>1. pool.handedOut + pool.connecting + pool.idleCount \in Int /\ MaxSockets \in Int
      BY <1>0, Fields, PoolAssumption
    <3> QED BY <1>4, <3>1 DEF Room, Total, ReachedMaxSocketsLimit, HasAvailableSocketSlot
  <2>5. Kept(u, {})
    BY <1>0, <2>3, <2>4, AddConnectJobKept
  <2> HIDE DEF u
  <2>6. Good(u, {})
    BY <1>0, <2>2, GoodFrame
  <2>7. t = u \/ t \in OnConnectJobComplete(u, g, k, rv)
    BY DEF u
  <2>8. t \in OnConnectJobComplete(u, g, k, rv) => Good(t, {}) /\ Kept(t, {})
    BY <2>2, <2>5, <2>6, OnConnectJobCompleteGood, OnConnectJobCompleteKept
  <2> QED BY <2>2, <2>5, <2>7, <2>8 DEF Good
<1>5. CASE /\ ~ReachedMaxSocketsLimit(pool) /\ HasAvailableSocketSlot(pool, g) /\ pool.jobs[g] # {}
           /\ \E k \in FreeSockets(pool), rv \in ConnectResults :
                \E t \in {AddConnectJob(pool, g, k)}
                           \cup OnConnectJobComplete(AddConnectJob(pool, g, k), g, k, rv) :
                  pool' = [t EXCEPT !.backup[g] = FALSE]
  <2>1. PICK k \in FreeSockets(pool), rv \in ConnectResults :
                \E t \in {AddConnectJob(pool, g, k)}
                           \cup OnConnectJobComplete(AddConnectJob(pool, g, k), g, k, rv) :
                  pool' = [t EXCEPT !.backup[g] = FALSE]
    BY <1>5
  <2>2. PICK t \in {AddConnectJob(pool, g, k)}
                     \cup OnConnectJobComplete(AddConnectJob(pool, g, k), g, k, rv) :
          pool' = [t EXCEPT !.backup[g] = FALSE]
    BY <2>1
  <2>3. t \in PoolState /\ Kept(t, {})
    BY <1>4, <1>5
  <2> QED BY <1>2, <2>2, <2>3
<1> QED BY <1>1, <1>3, <1>5

\* The entry point CleanupIdleSockets preserves the invariant: only empty groups go.
LEMMA CleanupIdleSocketsKept ==
  ASSUME UpkeepInv, NEW dead \in SUBSET Sockets, CleanupIdleSockets(dead)
  PROVE  Kept(pool', {})
<1> DEFINE n == Cardinality(dead)
           t == pool'
           a == [pool EXCEPT !.idle = [g \in Groups |-> @[g] \ dead], !.idleCount = @ - n]
           E == {g \in a.groups : IsEmpty(a, g)}
<1>0. pool \in PoolState /\ Kept(pool, {}) /\ n \in Nat
  <2>1. IsFiniteSet(dead)
    BY PoolAssumption, FS_Subset
  <2> QED BY <2>1, FS_CardinalityType DEF UpkeepInv, KeptUp, Inv, Good
<1>1. /\ a.groups = pool.groups /\ a.pending = pool.pending /\ a.jobs = pool.jobs
      /\ a.active = pool.active /\ a.backup = pool.backup
      /\ a.idle = [g \in Groups |-> pool.idle[g] \ dead]
  BY <1>0 DEF PoolState
<1>2. /\ t.groups = pool.groups \ E /\ t.idle = [g \in Groups |-> pool.idle[g] \ dead]
      /\ t.jobs = pool.jobs /\ t.pending = pool.pending /\ t.active = pool.active
      /\ t.backup = [g \in Groups |-> pool.backup[g] /\ g \notin E]
      /\ t.idleCount = pool.idleCount - n
      /\ t.connecting = pool.connecting /\ t.handedOut = pool.handedOut
      /\ t.generation = pool.generation /\ t.hsocket = pool.hsocket /\ t.stale = pool.stale
      /\ t.hpoolId = pool.hpoolId
  BY <1>0 DEF CleanupIdleSockets, PoolState
<1> HIDE DEF a, t, n
<1>3. \A g \in Groups : t.idle[g] = pool.idle[g] \ dead /\ (t.backup[g] <=> pool.backup[g] /\ g \notin E)
  BY <1>2
<1>4. \A g \in Groups : IsEmpty(t, g) <=> IsEmpty(a, g)
  BY <1>1, <1>2 DEF IsEmpty
<1>5. \A g \in Groups : IsEmpty(pool, g) => IsEmpty(t, g)
  BY <1>2, <1>3 DEF IsEmpty
<1>6. GroupsInMapIn(t)
  <2> SUFFICES ASSUME NEW g \in Groups, g \notin t.groups
               PROVE  IsEmpty(t, g) /\ ~t.backup[g]
    BY DEF GroupsInMapIn
  <2>1. CASE g \in E
    BY <1>3, <1>4, <2>1
  <2>2. CASE g \notin pool.groups
    BY <1>0, <1>3, <1>5, <2>2 DEF Kept, GroupsInMapIn
  <2> QED BY <1>2, <2>1, <2>2
<1>7. TimersOK(t, {})
  BY <1>0, <1>2, <1>3 DEF Kept, TimersOK
<1>8. Fresh(t)
  <2>1. Holders(t) = Holders(pool) /\ HeldSockets(t) = HeldSockets(pool)
    BY <1>2 DEF Holders, HeldSockets
  <2> QED BY <1>0, <1>2, <2>1 DEF Kept, Fresh
<1>9. WithinLimitsIn(t)
  <2>1. /\ MaxSockets \in Int /\ MaxSocketsPerGroup \in Int
        /\ pool.handedOut \in Int /\ pool.connecting \in Int /\ pool.idleCount \in Int
    BY <1>0, PoolAssumption, Fields
  <2>2. IgnoreLimits = {} => t.handedOut + t.connecting + t.idleCount <= MaxSockets
    BY <1>0, <1>2, <2>1 DEF Kept, WithinLimitsIn
  <2>3. ASSUME NEW g \in Groups, IgnoreLimits = {}
        PROVE  NumActiveSocketSlots(t, g) <= MaxSocketsPerGroup
    <3>1. /\ IsFiniteSet(pool.idle[g]) /\ Cardinality(pool.idle[g]) \in Nat
          /\ Cardinality(pool.jobs[g]) \in Nat /\ pool.active[g] \in Int
      BY <1>0, GroupFinite
    <3>2. t.idle[g] \subseteq pool.idle[g]
      BY <1>3
    <3>3. Cardinality(t.idle[g]) <= Cardinality(pool.idle[g])
      BY <3>1, <3>2, FS_Subset
    <3>4. Cardinality(t.idle[g]) \in Nat
      BY <3>1, <3>2, FS_Subset, FS_CardinalityType
    <3>5. NumActiveSocketSlots(pool, g) <= MaxSocketsPerGroup
      BY <1>0, <2>3 DEF Kept, WithinLimitsIn
    <3> QED BY <1>2, <2>1, <3>1, <3>3, <3>4, <3>5 DEF NumActiveSocketSlots
  <2> QED BY <2>2, <2>3 DEF WithinLimitsIn
<1> QED BY <1>6, <1>7, <1>8, <1>9 DEF Kept, t

\* The entry point Flush preserves the invariant: every socket in a client's hands is
\* stale, and every one of them has an older generation than the pool.
LEMMA FlushKept ==
  ASSUME UpkeepInv, Flush
  PROVE  Kept(pool', {})
<1> DEFINE t == pool'
           ni == Cardinality(IdleSockets(pool))
           nj == Cardinality(ConnectJobs(pool))
<1>0. pool \in PoolState /\ Books(pool) /\ Kept(pool, {})
  BY DEF UpkeepInv, KeptUp, Inv, Good
<1>1. /\ t.idle = [g \in Groups |-> {}] /\ t.jobs = [g \in Groups |-> {}]
      /\ t.pending = [g \in Groups |-> <<>>] /\ t.backup = [g \in Groups |-> FALSE]
      /\ t.groups = {g \in pool.groups : pool.active[g] # 0}
      /\ t.idleCount = pool.idleCount - ni /\ t.connecting = pool.connecting - nj
      /\ t.active = pool.active /\ t.handedOut = pool.handedOut /\ t.hsocket = pool.hsocket
      /\ t.generation = pool.generation + 1 /\ t.stale = HeldSockets(pool)
      /\ t.hpoolId = pool.hpoolId
  BY <1>0 DEF Flush, PoolState
<1>2. pool.idleCount = ni /\ pool.connecting = nj /\ ni \in Nat /\ nj \in Nat
  <2>1. IsFiniteSet(IdleSockets(pool)) /\ IsFiniteSet(ConnectJobs(pool))
    BY <1>0, Finite
  <2> QED BY <1>0, <2>1, FS_CardinalityType DEF Books, CountersMatchIn
<1> HIDE DEF t, ni, nj
<1>3. t.idleCount = 0 /\ t.connecting = 0
  BY <1>1, <1>2
<1>4. GroupsInMapIn(t)
  BY <1>0, <1>1 DEF Kept, GroupsInMapIn, IsEmpty
<1>5. TimersOK(t, {})
  BY <1>1 DEF TimersOK
<1>6. Fresh(t)
  <2>1. Holders(t) = Holders(pool) /\ HeldSockets(t) = HeldSockets(pool)
    BY <1>1 DEF Holders, HeldSockets
  <2>2. pool.generation \in Nat /\ \A h \in Holders(pool) : pool.hpoolId[h] \in Int
    BY <1>0, Fields DEF Holders
  <2> QED BY <1>0, <1>1, <2>1, <2>2 DEF Kept, Fresh
<1>7. WithinLimitsIn(t)
  <2>1. MaxSockets \in Int /\ MaxSocketsPerGroup \in Int /\ pool.handedOut \in Int
    BY <1>0, PoolAssumption, Fields
  <2>2. IgnoreLimits = {} => t.handedOut + t.connecting + t.idleCount <= MaxSockets
    BY <1>0, <1>1, <1>2, <1>3, <2>1 DEF Kept, WithinLimitsIn
  <2>3. ASSUME NEW g \in Groups, IgnoreLimits = {}
        PROVE  NumActiveSocketSlots(t, g) <= MaxSocketsPerGroup
    <3>1. /\ Cardinality(pool.idle[g]) \in Nat /\ Cardinality(pool.jobs[g]) \in Nat
          /\ pool.active[g] \in Int
      BY <1>0, GroupFinite
    <3>2. t.idle[g] = {} /\ t.jobs[g] = {} /\ t.active[g] = pool.active[g] /\ Cardinality({}) = 0
      BY <1>1, FS_EmptySet
    <3>3. NumActiveSocketSlots(pool, g) <= MaxSocketsPerGroup
      BY <1>0, <2>3 DEF Kept, WithinLimitsIn
    <3> QED BY <2>1, <3>1, <3>2, <3>3 DEF NumActiveSocketSlots
  <2> QED BY <2>2, <2>3 DEF WithinLimitsIn
<1> QED BY <1>4, <1>5, <1>6, <1>7 DEF Kept, t

-----------------------------------------------------------------------------
(***************************************************************************)
(* The theorems.                                                           *)
(***************************************************************************)
\* Every reachable pool is kept up: one step for each entry point of
\* ClientSocketPoolBaseHelper and ClientSocketHandle.
THEOREM UpkeepInvariant == Spec => []KeptUp
<1>1. Init => KeptUp
  <2> SUFFICES ASSUME Init PROVE KeptUp
    OBVIOUS
  <2>1. /\ pool.idle = [g \in Groups |-> {}] /\ pool.jobs = [g \in Groups |-> {}]
        /\ pool.pending = [g \in Groups |-> <<>>] /\ pool.active = [g \in Groups |-> 0]
        /\ pool.backup = [g \in Groups |-> FALSE]
        /\ pool.idleCount = 0 /\ pool.connecting = 0 /\ pool.handedOut = 0
        /\ pool.hsocket = [h \in Handles |-> NoSocket] /\ pool.stale = {}
    BY DEF Init, EmptyPool
  <2>2. GroupsInMapIn(pool) /\ TimersOK(pool, {})
    BY <2>1 DEF GroupsInMapIn, IsEmpty, TimersOK
  <2>3. Fresh(pool)
    BY <2>1 DEF Fresh, Holders, HeldSockets
  <2>4. \A g \in Groups : NumActiveSocketSlots(pool, g) = 0
    BY <2>1, FS_EmptySet DEF NumActiveSocketSlots
  <2>5. WithinLimitsIn(pool)
    BY <2>1, <2>4, PoolAssumption DEF WithinLimitsIn
  <2> QED BY <2>2, <2>3, <2>5 DEF KeptUp, Kept
<1>2. Inv /\ KeptUp /\ [Next]_pool => KeptUp'
  <2> SUFFICES ASSUME UpkeepInv, [Next]_pool PROVE KeptUp'
    BY DEF UpkeepInv
  <2>1. ASSUME NEW h \in Handles, NEW g \in Groups, RequestSocket(h, g) PROVE KeptUp'
    BY <2>1, RequestSocketKept DEF KeptUp
  <2>2. ASSUME NEW g \in Groups, RequestSockets(g) PROVE KeptUp'
    BY <2>2, RequestSocketsKept DEF KeptUp
  <2>3. ASSUME NEW h \in Handles, NEW connected \in BOOLEAN, ResetInitialized(h, connected)
        PROVE  KeptUp'
    BY <2>3, ResetInitializedKept DEF KeptUp
  <2>4. ASSUME NEW h \in Handles, ResetPending(h) PROVE KeptUp'
    BY <2>4, ResetPendingKept DEF KeptUp
  <2>5. ASSUME NEW g \in Groups, NEW k \in Sockets, ConnectJobDone(g, k) PROVE KeptUp'
    BY <2>5, OnConnectJobCompleteKept DEF ConnectJobDone, UpkeepInv, KeptUp, Inv
  <2>6. ASSUME NEW h \in Handles, InvokeUserCallback(h) PROVE KeptUp'
    BY <2>6, InvokeUserCallbackKept DEF KeptUp
  <2>7. ASSUME NEW g \in Groups, OnBackupSocketTimerFired(g) PROVE KeptUp'
    BY <2>7, OnBackupSocketTimerFiredKept DEF KeptUp
  <2>8. ASSUME NEW dead \in SUBSET Sockets, CleanupIdleSockets(dead) PROVE KeptUp'
    BY <2>8, CleanupIdleSocketsKept DEF KeptUp
  <2>9. CASE Flush
    BY <2>9, FlushKept DEF KeptUp
  <2>10. CASE UNCHANGED pool
    BY <2>10 DEF UpkeepInv, KeptUp
  <2> QED BY <2>1, <2>2, <2>3, <2>4, <2>5, <2>6, <2>7, <2>8, <2>9, <2>10 DEF Next
<1> QED BY <1>1, <1>2, PoolInvariant, PTL DEF Spec

\* Whatever has something left is found in group_map_, and a backup timer that fires
\* finds a job and a request.
THEOREM GroupsAreKeptUp == Spec => []GroupsKeptUp
<1>1. KeptUp => GroupsKeptUp
  BY DEF KeptUp, Kept, TimersOK, GroupsKeptUp, GroupsInMap, BackupTimerHasWork, BackupTimerHasWorkIn
<1> QED BY <1>1, UpkeepInvariant, PTL

\* No socket from before a Flush() is idle again, so none is reused.
THEOREM FlushedSocketsStayOut == Spec => []NoReuseAcrossFlush
<1>1. Inv /\ KeptUp => NoReuseAcrossFlush
  BY DEF Inv, Good, Books, SingleOwnerIn, KeptUp, Kept, Fresh, NoReuseAcrossFlush, NoReuseAcrossFlushIn
<1> QED BY <1>1, PoolInvariant, UpkeepInvariant, PTL

\* Neither the pool nor a group ever has more sockets than its limit.
THEOREM LimitsAreKept == Spec => []WithinLimits
<1>1. KeptUp => WithinLimits
  BY DEF KeptUp, Kept, WithinLimits
<1> QED BY <1>1, UpkeepInvariant, PTL
=============================================================================
