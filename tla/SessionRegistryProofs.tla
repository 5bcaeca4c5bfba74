----------------------- MODULE SessionRegistryProofs -----------------------
(***************************************************************************)
(* Proofs about SessionRegistry, for every set of Sessions and any finite  *)
(* numbers of handlers and workers.                                        *)
(***************************************************************************)
EXTENDS SessionRegistry, FiniteSetTheorems, TLAPS
-----------------------------------------------------------------------------
(***************************************************************************)
(* The inductive invariant behind the safety properties.                   *)
(***************************************************************************)

\* Nothing ever leaves the map: each Session that is in a group, in a queue or
\* in the hands of a handler is still there.
MapKeepsAll ==
    /\ \A w \in Workers : \A i \in DOMAIN group[w] : group[w][i] \in sessions
    /\ \A w \in Workers : \A i \in DOMAIN newly_added[w] : newly_added[w][i] \in sessions
    /\ \A h \in Handlers : hpc[h] \in {"add", "found", "use"} => mine[h] \in sessions

\* A worker's iterator and a handler's choice of a group are valid when they
\* are used.
Positions ==
    /\ \A w \in Workers : wpc[w] \in {"visit", "tick"} => it[w] >= 1
    /\ \A w \in Workers : wpc[w] = "tick" => it[w] <= Len(group[w])
    /\ \A h \in Handlers : hpc[h] \in {"insert", "add"} => dest[h] \in Workers

\* A pointer to a Session is in one place of one group, queue or handler that
\* adds it: the order of creations and drains never doubles it.
GroupsDistinct ==
    \A v, w \in Workers : \A i \in DOMAIN group[v], j \in DOMAIN group[w] :
        group[v][i] = group[w][j] => v = w /\ i = j

QueuesDistinct ==
    \A v, w \in Workers : \A i \in DOMAIN newly_added[v], j \in DOMAIN newly_added[w] :
        newly_added[v][i] = newly_added[w][j] => v = w /\ i = j

QueuedNotWatched ==
    \A v, w \in Workers : \A i \in DOMAIN group[v], j \in DOMAIN newly_added[w] :
        group[v][i] # newly_added[w][j]

AddedIsNew ==
    \A h \in Handlers : hpc[h] = "add" =>
        /\ \A w \in Workers : \A i \in DOMAIN group[w] : group[w][i] # mine[h]
        /\ \A w \in Workers : \A i \in DOMAIN newly_added[w] : newly_added[w][i] # mine[h]
        /\ \A g \in Handlers : hpc[g] = "add" /\ mine[g] = mine[h] => g = h

OnePlace == GroupsDistinct /\ QueuesDistinct /\ QueuedNotWatched /\ AddedIsNew

RegistryInv ==
    /\ TypeOK
    /\ MapKeepsAll
    /\ Positions
    /\ OnePlace
    /\ NothingReclaimed
-----------------------------------------------------------------------------
USE SessionsAssumption, HandlersAssumption, WorkersAssumption

\* The members of the sets that count the pointers to a Session.
LEMMA OwnerMembers ==
    \A s, x :
        /\ x \in InGroups(s) <=>
                \E w \in Workers : \E i \in DOMAIN group[w] :
                    group[w][i] = s /\ x = <<"group", w, i>>
        /\ x \in InQueues(s) <=>
                \E w \in Workers : \E i \in DOMAIN newly_added[w] :
                    newly_added[w][i] = s /\ x = <<"added", w, i>>
        /\ x \in HeldAt({"add"}, s) <=>
                \E h \in Handlers : hpc[h] = "add" /\ mine[h] = s /\ x = <<"handler", h>>
        /\ x \in HeldAt({"add", "use"}, s) <=>
                \E h \in Handlers : hpc[h] \in {"add", "use"} /\ mine[h] = s
                                    /\ x = <<"handler", h>>
BY DEF InGroups, InQueues, HeldAt

\* No two pointers to a Session are where its worker looks for it.
LEMMA OnePlaceIsEnough == OnePlace => WatchedOnce
<1> SUFFICES ASSUME OnePlace,
                    NEW s \in Sessions,
                    NEW x \in InGroups(s) \cup InQueues(s) \cup HeldAt({"add"}, s),
                    NEW y \in InGroups(s) \cup InQueues(s) \cup HeldAt({"add"}, s)
             PROVE  x = y
  BY DEF WatchedOnce
<1> USE DEF OnePlace
<1>1. CASE x \in InGroups(s) /\ y \in InGroups(s)
  BY <1>1, OwnerMembers DEF GroupsDistinct
<1>2. CASE x \in InQueues(s) /\ y \in InQueues(s)
  BY <1>2, OwnerMembers DEF QueuesDistinct
<1>3. CASE x \in HeldAt({"add"}, s) /\ y \in HeldAt({"add"}, s)
  BY <1>3, OwnerMembers DEF AddedIsNew
<1>4. ~(x \in InGroups(s) /\ y \in InQueues(s)) /\ ~(x \in InQueues(s) /\ y \in InGroups(s))
  BY OwnerMembers DEF QueuedNotWatched
<1>5. /\ ~(x \in HeldAt({"add"}, s) /\ y \in InGroups(s) \cup InQueues(s))
      /\ ~(x \in InGroups(s) \cup InQueues(s) /\ y \in HeldAt({"add"}, s))
  BY OwnerMembers DEF AddedIsNew
<1>6. QED
  BY <1>1, <1>2, <1>3, <1>4, <1>5
-----------------------------------------------------------------------------
(***************************************************************************)
(* Counting pointers.                                                      *)
(***************************************************************************)

\* A Session has finitely many owners.
LEMMA OwnersFinite ==
    ASSUME OnePlace, NEW s \in Sessions
    PROVE  IsFiniteSet(InMap(s) \cup InGroups(s) \cup InQueues(s) \cup HeldAt({"add", "use"}, s))
<1>1. IsFiniteSet(InMap(s))
  <2>1. InMap(s) \subseteq {<<"map", s>>}
    BY DEF InMap
  <2>2. QED
    BY <2>1, FS_Singleton, FS_Subset
<1>2. IsFiniteSet(InGroups(s) \cup InQueues(s))
  <2>1. \A x, y \in InGroups(s) \cup InQueues(s) : x = y
    BY OnePlaceIsEnough DEF WatchedOnce
  <2>2. CASE InGroups(s) \cup InQueues(s) = {}
    BY <2>2, FS_EmptySet
  <2>3. CASE InGroups(s) \cup InQueues(s) # {}
    <3>1. PICK x : x \in InGroups(s) \cup InQueues(s)
      BY <2>3
    <3>2. InGroups(s) \cup InQueues(s) = {x}
      BY <2>1, <3>1
    <3>3. QED
      BY <3>2, FS_Singleton
  <2>4. QED
    BY <2>2, <2>3
<1>3. IsFiniteSet(HeldAt({"add", "use"}, s))
  <2>1. HeldAt({"add", "use"}, s) \subseteq {"handler"} \X Handlers
    BY DEF HeldAt
  <2>2. IsFiniteSet({"handler"} \X Handlers)
    BY FS_Singleton, FS_Product
  <2>3. QED
    BY <2>1, <2>2, FS_Subset
<1>4. QED
  <2>1. IsFiniteSet(InMap(s) \cup (InGroups(s) \cup InQueues(s)))
    BY <1>1, <1>2, FS_Union
  <2>2. IsFiniteSet((InMap(s) \cup (InGroups(s) \cup InQueues(s))) \cup HeldAt({"add", "use"}, s))
    BY <1>3, <2>1, FS_Union
  <2>3. QED
    BY <2>2

\* A Session that the map and somebody else own has a count of two or more.
LEMMA OwnedTwice ==
    ASSUME OnePlace, NEW s \in Sessions, s \in sessions,
           NEW x \in InGroups(s) \cup InQueues(s) \cup HeldAt({"add", "use"}, s)
    PROVE  UseCount(s) \in Nat /\ UseCount(s) >= 2
<1> DEFINE owners == InMap(s) \cup InGroups(s) \cup InQueues(s) \cup HeldAt({"add", "use"}, s)
<1>1. IsFiniteSet(owners) /\ UseCount(s) = Cardinality(owners)
  BY OwnersFinite DEF UseCount
<1>2. <<"map", s>> \in owners /\ x \in owners
  BY DEF InMap
<1>3. x # <<"map", s>>
  BY OwnerMembers
<1>4. IsFiniteSet({x}) /\ Cardinality({x}) = 1
  BY FS_Singleton
<1>5. IsFiniteSet({x} \cup {<<"map", s>>}) /\ Cardinality({x} \cup {<<"map", s>>}) = 2
  <2>1. <<"map", s>> \notin {x}
    BY <1>3
  <2>2. /\ IsFiniteSet({x} \cup {<<"map", s>>})
        /\ Cardinality({x} \cup {<<"map", s>>}) = Cardinality({x}) + 1
    BY <1>4, <2>1, FS_AddElement
  <2>3. QED
    BY <1>4, <2>2
<1>6. {x} \cup {<<"map", s>>} \in SUBSET owners
  BY <1>2
<1>7. Cardinality(owners) \in Nat /\ 2 <= Cardinality(owners)
  <2> HIDE DEF owners
  <2>1. QED
    BY <1>1, <1>5, <1>6, FS_Subset, FS_CardinalityType
<1>8. QED
  BY <1>1, <1>7
-----------------------------------------------------------------------------
(***************************************************************************)
(* RegistryInv is inductive.                                               *)
(***************************************************************************)

\* It holds of the empty registry.
LEMMA RegistryInvInit == Init => RegistryInv
BY DEF Init, RegistryInv, TypeOK, MapKeepsAll, Positions, OnePlace, GroupsDistinct,
    QueuesDistinct, QueuedNotWatched, AddedIsNew, NothingReclaimed

\* Requests that leave the map, the groups and the queues alone: only the
\* handler's own place, group and pointer change.
LEMMA HandlerStep ==
    ASSUME RegistryInv, NEW h \in Handlers,
           UNCHANGED <<sessions, groups, workers, is_live>>,
           is_active' \in [Sessions -> BOOLEAN],
           NEW place \in {"idle", "insert", "found", "use"},
           NEW w \in Workers \cup {NoWorker},
           NEW s \in Sessions \cup {NoSession},
           hpc' = [hpc EXCEPT ![h] = place],
           dest' = [dest EXCEPT ![h] = w],
           mine' = [mine EXCEPT ![h] = s],
           place = "insert" => w \in Workers,
           place \in {"found", "use"} => s \in sessions
    PROVE  RegistryInv'
<1> USE DEF RegistryInv, groups, workers
<1>1. TypeOK'
  BY DEF TypeOK
<1>2. MapKeepsAll'
  <2>1. \A g \in Handlers : hpc'[g] \in {"add", "found", "use"} => mine'[g] \in sessions
    BY DEF MapKeepsAll, TypeOK
  <2>2. QED
    BY <2>1 DEF MapKeepsAll
<1>3. Positions'
  BY DEF Positions, TypeOK
<1>4. OnePlace'
  <2>1. GroupsDistinct' /\ QueuesDistinct' /\ QueuedNotWatched'
    BY DEF OnePlace, GroupsDistinct, QueuesDistinct, QueuedNotWatched
  <2>2. AddedIsNew'
    BY DEF OnePlace, AddedIsNew, TypeOK
  <2>3. QED
    BY <2>1, <2>2 DEF OnePlace
<1>5. NothingReclaimed'
  BY DEF NothingReclaimed
<1>6. QED
  BY <1>1, <1>2, <1>3, <1>4, <1>5

LEMMA ChooseGroupStep ==
    ASSUME RegistryInv, NEW h \in Handlers, NEW w \in Workers, ChooseGroup(h, w)
    PROVE  RegistryInv'
<1>1. /\ mine' = [mine EXCEPT ![h] = mine[h]] /\ mine[h] \in Sessions \cup {NoSession}
      /\ is_active' \in [Sessions -> BOOLEAN]
  BY DEF ChooseGroup, registry, RegistryInv, TypeOK
<1>2. QED
  BY <1>1, HandlerStep DEF ChooseGroup, registry

\* The Session that a request names was created, since the map has it.
LEMMA FindSessionStep ==
    ASSUME RegistryInv, NEW h \in Handlers, NEW s \in Sessions, FindSession(h, s)
    PROVE  RegistryInv'
<1>1. /\ dest' = [dest EXCEPT ![h] = dest[h]] /\ dest[h] \in Workers \cup {NoWorker}
      /\ is_active' \in [Sessions -> BOOLEAN]
      /\ s \in sessions
  BY DEF FindSession, registry, RegistryInv, TypeOK
<1>2. QED
  BY <1>1, HandlerStep DEF FindSession, registry

\* Copying the pointer and tearing down keep the handler's Session.
LEMMA UseSessionStep ==
    ASSUME RegistryInv, NEW h \in Handlers, CopySession(h) \/ Teardown(h)
    PROVE  RegistryInv'
<1> USE DEF CopySession, Teardown, registry, handlers
<1>1. /\ dest' = [dest EXCEPT ![h] = dest[h]] /\ dest[h] \in Workers \cup {NoWorker}
      /\ mine' = [mine EXCEPT ![h] = mine[h]] /\ mine[h] \in Sessions \cup {NoSession}
      /\ mine[h] \in sessions
      /\ is_active' \in [Sessions -> BOOLEAN]
      /\ hpc' = [hpc EXCEPT ![h] = "use"]
  <2>1. /\ hpc \in [Handlers -> {"idle", "insert", "add", "found", "use"}]
        /\ dest \in [Handlers -> Workers \cup {NoWorker}]
        /\ mine \in [Handlers -> Sessions \cup {NoSession}]
        /\ is_active \in [Sessions -> BOOLEAN]
    BY DEF RegistryInv, TypeOK
  <2>2. mine[h] \in sessions
    BY DEF RegistryInv, MapKeepsAll
  <2>3. CASE CopySession(h)
    BY <2>1, <2>2, <2>3
  <2>4. CASE Teardown(h)
    BY <2>1, <2>2, <2>4
  <2>5. QED
    BY <2>3, <2>4
<1>2. UNCHANGED <<sessions, groups, workers, is_live>>
  OBVIOUS
<1>3. QED
  BY <1>1, <1>2, HandlerStep

LEMMA ReleaseStep ==
    ASSUME RegistryInv, NEW h \in Handlers, Release(h)
    PROVE  RegistryInv'
<1>1. is_active' \in [Sessions -> BOOLEAN]
  BY DEF Release, registry, RegistryInv, TypeOK
<1>2. QED
  BY <1>1, HandlerStep DEF Release, registry

\* A new Session enters the map; only its creator has it.
LEMMA InsertSessionStep ==
    ASSUME RegistryInv, NEW h \in Handlers, NEW s \in Sessions, InsertSession(h, s)
    PROVE  RegistryInv'
<1> USE DEF RegistryInv, InsertSession, groups, workers
<1>1. TypeOK'
  BY DEF TypeOK
<1>2. MapKeepsAll'
  BY DEF MapKeepsAll, TypeOK
<1>3. Positions'
  BY DEF Positions, TypeOK
<1>4. OnePlace'
  <2>1. GroupsDistinct' /\ QueuesDistinct' /\ QueuedNotWatched'
    BY DEF OnePlace, GroupsDistinct, QueuesDistinct, QueuedNotWatched
  <2>2. AddedIsNew'
    BY DEF OnePlace, AddedIsNew, MapKeepsAll, TypeOK
  <2>3. QED
    BY <2>1, <2>2 DEF OnePlace
<1>5. NothingReclaimed'
  BY DEF NothingReclaimed
<1>6. QED
  BY <1>1, <1>2, <1>3, <1>4, <1>5

\* The new Session is queued for its worker.
LEMMA AddSessionStep ==
    ASSUME RegistryInv, NEW h \in Handlers, AddSession(h)
    PROVE  RegistryInv'
<1> USE DEF RegistryInv, AddSession, registry, workers
<1> DEFINE w == dest[h]
           q == newly_added[w]
<1>0. /\ w \in Workers
      /\ mine[h] \in Sessions /\ mine[h] \in sessions
      /\ q \in Seq(Sessions)
      /\ newly_added' = [newly_added EXCEPT ![w] = Append(q, mine[h])]
  BY DEF TypeOK, MapKeepsAll, Positions
<1>1. /\ DOMAIN newly_added'[w] = 1..(Len(q) + 1)
      /\ DOMAIN q = 1..Len(q) /\ Len(q) \in Nat
      /\ \A i \in DOMAIN newly_added'[w] :
            newly_added'[w][i] = IF i = Len(q) + 1 THEN mine[h] ELSE q[i]
      /\ \A v \in Workers \ {w} : newly_added'[v] = newly_added[v]
  BY <1>0 DEF TypeOK
<1>2. TypeOK'
  BY <1>0 DEF TypeOK
<1> HIDE DEF w, q
<1>3. MapKeepsAll'
  <2>1. \A v \in Workers : \A i \in DOMAIN newly_added'[v] : newly_added'[v][i] \in sessions
    BY <1>0, <1>1 DEF MapKeepsAll, q
  <2>2. QED
    BY <2>1 DEF MapKeepsAll, TypeOK
<1>4. Positions'
  BY DEF Positions, TypeOK
<1>5. OnePlace'
  <2>1. GroupsDistinct'
    BY DEF OnePlace, GroupsDistinct
  <2>2. QueuesDistinct'
    BY <1>1 DEF OnePlace, QueuesDistinct, AddedIsNew, q
  <2>3. QueuedNotWatched'
    BY <1>1 DEF OnePlace, QueuedNotWatched, AddedIsNew, q
  <2>4. AddedIsNew'
    <3> SUFFICES ASSUME NEW g \in Handlers, hpc'[g] = "add"
                 PROVE  /\ \A v \in Workers : \A i \in DOMAIN group[v] : group[v][i] # mine[g]
                        /\ \A v \in Workers : \A i \in DOMAIN newly_added'[v] :
                                newly_added'[v][i] # mine[g]
                        /\ \A f \in Handlers : hpc'[f] = "add" /\ mine[f] = mine[g] => f = g
      BY DEF AddedIsNew
    <3>1. g # h /\ hpc[g] = "add" /\ mine[g] # mine[h]
      BY DEF TypeOK, OnePlace, AddedIsNew
    <3>2. \A f \in Handlers : hpc'[f] = "add" => hpc[f] = "add"
      BY DEF TypeOK
    <3>3. QED
      BY <1>1, <3>1, <3>2 DEF OnePlace, AddedIsNew, q
  <2>5. QED
    BY <2>1, <2>2, <2>3, <2>4 DEF OnePlace
<1>6. NothingReclaimed'
  BY DEF NothingReclaimed
<1>7. QED
  BY <1>2, <1>3, <1>4, <1>5, <1>6

\* Shutdown, and the steps of a worker that only move it or its iterator.
LEMMA WorkerStep ==
    ASSUME RegistryInv, NEW w \in Workers,
           UNCHANGED <<registry, groups, to_remove, handlers>>,
           is_live' \in BOOLEAN,
           wpc' = [wpc EXCEPT ![w] = wpc'[w]],
           wpc'[w] \in {"check", "visit", "tick", "drain", "push", "stopped"},
           it' = [it EXCEPT ![w] = it'[w]],
           it'[w] \in Nat,
           wpc'[w] \in {"visit", "tick"} => it'[w] >= 1,
           wpc'[w] = "tick" => it'[w] <= Len(group[w])
    PROVE  RegistryInv'
<1> USE DEF RegistryInv, registry, groups, handlers
<1>1. TypeOK'
  BY DEF TypeOK
<1>2. MapKeepsAll'
  BY DEF MapKeepsAll
<1>3. Positions'
  BY DEF Positions, TypeOK
<1>4. OnePlace'
  BY DEF OnePlace, GroupsDistinct, QueuesDistinct, QueuedNotWatched, AddedIsNew
<1>5. NothingReclaimed'
  BY DEF NothingReclaimed
<1>6. QED
  BY <1>1, <1>2, <1>3, <1>4, <1>5

LEMMA ShutdownStep ==
    ASSUME RegistryInv, Shutdown
    PROVE  RegistryInv'
<1> USE DEF RegistryInv, Shutdown, registry, groups, workers, handlers
<1>1. TypeOK'
  BY DEF TypeOK
<1>2. MapKeepsAll' /\ Positions' /\ NothingReclaimed'
  BY DEF MapKeepsAll, Positions, NothingReclaimed
<1>3. OnePlace'
  BY DEF OnePlace, GroupsDistinct, QueuesDistinct, QueuedNotWatched, AddedIsNew
<1>4. QED
  BY <1>1, <1>2, <1>3

LEMMA MoveStep ==
    ASSUME RegistryInv, NEW w \in Workers,
           CheckLive(w) \/ VisitActive(w) \/ Tick(w) \/ TickThrows(w) \/ LockAdded(w)
    PROVE  RegistryInv'
<1>1. /\ is_live \in BOOLEAN /\ it[w] \in Nat
      /\ wpc \in [Workers -> {"check", "visit", "tick", "drain", "push", "stopped"}]
      /\ wpc[w] \in {"visit", "tick"} => it[w] >= 1
      /\ it \in [Workers -> Nat]
  BY DEF RegistryInv, TypeOK, Positions
<1>2. UNCHANGED <<is_live, registry, groups, to_remove, handlers>>
  BY DEF CheckLive, VisitActive, Tick, TickThrows, LockAdded
<1>3. /\ wpc' = [wpc EXCEPT ![w] = wpc'[w]]
      /\ wpc'[w] \in {"check", "visit", "tick", "drain", "push", "stopped"}
      /\ it' = [it EXCEPT ![w] = it'[w]]
      /\ it'[w] \in Nat
      /\ wpc'[w] \in {"visit", "tick"} => it'[w] >= 1
      /\ wpc'[w] = "tick" => it'[w] <= Len(group[w])
  BY <1>1 DEF CheckLive, VisitActive, Tick, TickThrows, LockAdded
<1>4. QED
  BY <1>1, <1>2, <1>3, WorkerStep

\* The map holds the inactive Session, too: it is not queued for removal.
LEMMA VisitInactiveStep ==
    ASSUME RegistryInv, NEW w \in Workers, VisitInactive(w)
    PROVE  RegistryInv'
<1> USE DEF VisitInactive
<1>1. /\ it[w] \in DOMAIN group[w] /\ group[w][it[w]] \in Sessions
      /\ group[w][it[w]] \in sessions
  BY DEF RegistryInv, TypeOK, Positions, MapKeepsAll
<1>2. <<"group", w, it[w]>> \in InGroups(group[w][it[w]])
  BY <1>1, OwnerMembers
<1>3. UseCount(group[w][it[w]]) # 1
  BY <1>1, <1>2, OwnedTwice DEF RegistryInv
<1>4. to_remove' = to_remove
  BY <1>3 DEF RegistryInv, TypeOK
<1>5. /\ wpc' = [wpc EXCEPT ![w] = wpc'[w]] /\ wpc'[w] = "visit"
      /\ it' = [it EXCEPT ![w] = it'[w]] /\ it'[w] \in Nat /\ it'[w] >= 1
      /\ is_live' \in BOOLEAN
  BY DEF RegistryInv, TypeOK
<1>6. QED
  BY <1>4, <1>5, WorkerStep

\* With nothing queued the loop over the queue does nothing.
LEMMA NothingErased ==
    ASSUME NEW g
    PROVE  ErasedAt(g, <<>>) = g
<1> DEFINE Step(f) ==
        [n \in 0..Len(<<>>) |-> IF n = 0 THEN g ELSE RemoveAt(f[n - 1], <<>>[n])]
<1> DEFINE only == [n \in {0} |-> g]
<1>1. 0..Len(<<>>) = {0} /\ Len(<<>>) = 0
  OBVIOUS
<1>2. \A f : Step(f) = only
  BY <1>1
<1>3. ErasedAt(g, <<>>) = (CHOOSE f : f = Step(f))[0]
  BY <1>1 DEF ErasedAt
<1> HIDE DEF Step
<1>4. (CHOOSE f : f = Step(f)) = only
  BY <1>2
<1>5. QED
  BY <1>3, <1>4

LEMMA EraseRemovedStep ==
    ASSUME RegistryInv, NEW w \in Workers, EraseRemoved(w)
    PROVE  RegistryInv'
<1> USE DEF EraseRemoved
<1>1. to_remove[w] = <<>>
  BY DEF RegistryInv, NothingReclaimed
<1>2. group' = group
  BY <1>1, NothingErased DEF RegistryInv, TypeOK
<1>3. to_remove' = to_remove
  BY <1>1 DEF RegistryInv, TypeOK
<1>4. /\ it' = [it EXCEPT ![w] = it'[w]] /\ it'[w] \in Nat /\ is_live' \in BOOLEAN
      /\ wpc' = [wpc EXCEPT ![w] = wpc'[w]] /\ wpc'[w] = "drain"
  BY DEF RegistryInv, TypeOK
<1>5. QED
  BY <1>2, <1>3, <1>4, WorkerStep DEF groups

\* The elements of a concatenation.
LEMMA Concatenated ==
    ASSUME NEW g \in Seq(Sessions), NEW q \in Seq(Sessions)
    PROVE  /\ Len(g) \in Nat /\ Len(q) \in Nat
           /\ DOMAIN g = 1..Len(g) /\ DOMAIN q = 1..Len(q)
           /\ DOMAIN (g \o q) = 1..(Len(g) + Len(q))
           /\ \A i \in 1..(Len(g) + Len(q)) :
                 (g \o q)[i] = IF i <= Len(g) THEN g[i] ELSE q[i - Len(g)]
<1>1. Len(g) \in Nat /\ Len(q) \in Nat /\ DOMAIN g = 1..Len(g) /\ DOMAIN q = 1..Len(q)
  OBVIOUS
<1>2. DOMAIN (g \o q) = 1..(Len(g) + Len(q))
  BY <1>1
<1>3. ASSUME NEW i \in 1..(Len(g) + Len(q))
      PROVE  (g \o q)[i] = IF i <= Len(g) THEN g[i] ELSE q[i - Len(g)]
  BY <1>1, <1>3
<1>4. QED
  BY <1>1, <1>2, <1>3

\* The queued Sessions move to the worker's group, each to one place.
LEMMA TakeAddedStep ==
    ASSUME RegistryInv, NEW w \in Workers, TakeAdded(w)
    PROVE  RegistryInv'
<1> USE DEF RegistryInv
<1> DEFINE g == group[w]
           q == newly_added[w]
<1>0. /\ g \in Seq(Sessions) /\ q \in Seq(Sessions)
      /\ group' = [group EXCEPT ![w] = g \o q]
      /\ newly_added' = [newly_added EXCEPT ![w] = <<>>]
      /\ wpc' = [wpc EXCEPT ![w] = "check"]
      /\ UNCHANGED <<is_live, sessions, is_active, it, to_remove, hpc, dest, mine>>
  BY DEF TypeOK, TakeAdded, registry, handlers
<1>1. /\ group'[w] = g \o q /\ newly_added'[w] = <<>>
      /\ \A v \in Workers \ {w} : group'[v] = group[v] /\ newly_added'[v] = newly_added[v]
  BY <1>0 DEF TypeOK
<1>2. TypeOK'
  <2>1. group' \in [Workers -> Seq(Sessions)] /\ newly_added' \in [Workers -> Seq(Sessions)]
    BY <1>0 DEF TypeOK
  <2>2. QED
    BY <1>0, <2>1 DEF TypeOK
\* Where an element of the new group comes from.
<1> DEFINE Old(i) == i \in DOMAIN g /\ group'[w][i] = g[i]
           New(i) == i - Len(g) \in DOMAIN q /\ group'[w][i] = q[i - Len(g)]
<1>3. Len(g) \in Nat /\ \A i \in DOMAIN group'[w] : i \in Int /\ (Old(i) \/ New(i))
  <2> HIDE DEF g, q
  <2>1. QED
    BY <1>0, <1>1, Concatenated
<1>4. MapKeepsAll'
  <2>1. \A v \in Workers : \A i \in DOMAIN group'[v] : group'[v][i] \in sessions
    BY <1>1, <1>3 DEF MapKeepsAll
  <2>2. \A v \in Workers : \A i \in DOMAIN newly_added'[v] : newly_added'[v][i] \in sessions
    BY <1>1 DEF MapKeepsAll
  <2>3. QED
    BY <1>0, <2>1, <2>2 DEF MapKeepsAll
<1>5. Positions'
  BY <1>0 DEF Positions, TypeOK
<1>6. GroupsDistinct'
  <2> SUFFICES ASSUME NEW v \in Workers, NEW u \in Workers,
                      NEW i \in DOMAIN group'[v], NEW j \in DOMAIN group'[u],
                      group'[v][i] = group'[u][j]
               PROVE  v = u /\ i = j
    BY DEF GroupsDistinct
  <2>1. CASE v # w /\ u # w
    BY <1>1, <2>1 DEF OnePlace, GroupsDistinct
  <2>2. CASE v = w /\ u = w
    <3>1. ASSUME Old(i), New(j) PROVE FALSE
      BY <2>2, <3>1 DEF OnePlace, QueuedNotWatched
    <3>2. ASSUME New(i), Old(j) PROVE FALSE
      BY <2>2, <3>2 DEF OnePlace, QueuedNotWatched
    <3>3. ASSUME Old(i), Old(j) PROVE i = j
      BY <2>2, <3>3 DEF OnePlace, GroupsDistinct
    <3>4. ASSUME New(i), New(j) PROVE i - Len(g) = j - Len(g)
      BY <2>2, <3>4 DEF OnePlace, QueuesDistinct
    <3>5. i \in Int /\ j \in Int /\ Len(g) \in Nat /\ (Old(i) \/ New(i)) /\ (Old(j) \/ New(j))
      BY <1>3, <2>2
    <3> HIDE DEF Old, New, g
    <3>6. QED
      BY <2>2, <3>1, <3>2, <3>3, <3>4, <3>5
  <2>3. CASE v = w /\ u # w
    <3>1. group'[u] = group[u] /\ (Old(i) \/ New(i))
      BY <1>1, <1>3, <2>3
    <3>2. ~Old(i)
      BY <2>3, <3>1 DEF OnePlace, GroupsDistinct
    <3>3. ~New(i)
      BY <2>3, <3>1 DEF OnePlace, QueuedNotWatched
    <3>4. QED
      BY <3>1, <3>2, <3>3
  <2>4. CASE v # w /\ u = w
    <3>1. group'[v] = group[v] /\ (Old(j) \/ New(j))
      BY <1>1, <1>3, <2>4
    <3>2. ~Old(j)
      BY <2>4, <3>1 DEF OnePlace, GroupsDistinct
    <3>3. ~New(j)
      BY <2>4, <3>1 DEF OnePlace, QueuedNotWatched
    <3>4. QED
      BY <3>1, <3>2, <3>3
  <2>5. QED
    BY <2>1, <2>2, <2>3, <2>4
<1>7. QueuesDistinct'
  BY <1>1 DEF OnePlace, QueuesDistinct
<1>8. QueuedNotWatched'
  <2> SUFFICES ASSUME NEW v \in Workers, NEW u \in Workers,
                      NEW i \in DOMAIN newly_added'[v], NEW j \in DOMAIN group'[u],
                      newly_added'[v][i] = group'[u][j]
               PROVE  FALSE
    BY DEF QueuedNotWatched
  <2>1. v # w /\ newly_added'[v] = newly_added[v]
    BY <1>1
  <2>2. CASE u # w
    BY <1>1, <2>1, <2>2 DEF OnePlace, QueuedNotWatched
  <2>3. CASE u = w
    BY <1>3, <2>1, <2>3 DEF OnePlace, QueuedNotWatched, QueuesDistinct
  <2>4. QED
    BY <2>2, <2>3
<1>9. AddedIsNew'
  <2> SUFFICES ASSUME NEW h \in Handlers, hpc[h] = "add"
               PROVE  /\ \A v \in Workers : \A i \in DOMAIN group'[v] : group'[v][i] # mine[h]
                      /\ \A v \in Workers : \A i \in DOMAIN newly_added'[v] :
                              newly_added'[v][i] # mine[h]
                      /\ \A f \in Handlers : hpc[f] = "add" /\ mine[f] = mine[h] => f = h
    <3>1. hpc' = hpc /\ mine' = mine
      BY <1>0
    <3>2. QED
      BY <3>1 DEF AddedIsNew
  <2>1. ASSUME NEW v \in Workers, NEW i \in DOMAIN group'[v]
        PROVE  group'[v][i] # mine[h]
    <3>1. CASE v # w
      BY <1>1, <3>1 DEF OnePlace, AddedIsNew
    <3>2. CASE v = w
      BY <1>3, <3>2 DEF OnePlace, AddedIsNew
    <3>3. QED
      BY <3>1, <3>2
  <2>2. \A v \in Workers : \A i \in DOMAIN newly_added'[v] : newly_added'[v][i] # mine[h]
    BY <1>1 DEF OnePlace, AddedIsNew
  <2>3. QED
    BY <2>1, <2>2 DEF OnePlace, AddedIsNew
<1>10. NothingReclaimed'
  BY <1>0 DEF NothingReclaimed
<1>11. QED
  BY <1>2, <1>4, <1>5, <1>6, <1>7, <1>8, <1>9, <1>10 DEF OnePlace

LEMMA RegistryInvNext == RegistryInv /\ [Next]_vars => RegistryInv'
<1> SUFFICES ASSUME RegistryInv, [Next]_vars
             PROVE  RegistryInv'
  OBVIOUS
<1>1. CASE Shutdown
  BY <1>1, ShutdownStep
<1>2. CASE \E h \in Handlers : Handle(h)
  BY <1>2, ChooseGroupStep, InsertSessionStep, FindSessionStep, AddSessionStep,
     UseSessionStep, ReleaseStep DEF Handle
<1>3. CASE \E w \in Workers : Watch(w) \/ Tick(w) \/ TickThrows(w)
  BY <1>3, MoveStep, VisitInactiveStep, EraseRemovedStep, TakeAddedStep DEF Watch
<1>4. CASE UNCHANGED vars
  <2> USE <1>4 DEF vars, RegistryInv
  <2>1. TypeOK'
    BY DEF TypeOK
  <2>2. MapKeepsAll' /\ Positions' /\ NothingReclaimed'
    BY DEF MapKeepsAll, Positions, NothingReclaimed
  <2>3. OnePlace'
    BY DEF OnePlace, GroupsDistinct, QueuesDistinct, QueuedNotWatched, AddedIsNew
  <2>4. QED
    BY <2>1, <2>2, <2>3
<1>5. QED
  BY <1>1, <1>2, <1>3, <1>4 DEF Next
-----------------------------------------------------------------------------
(***************************************************************************)
(* The theorems.                                                           *)
(***************************************************************************)

\* In every state of the registry the map has each Session that anyone points
\* to, and a Session has one place where a worker finds it or will find it.
THEOREM RegistryInvariant == Spec => []RegistryInv
BY RegistryInvInit, RegistryInvNext, PTL DEF Spec

\* The variables of the registry have their types.
THEOREM RegistryTypes == Spec => []TypeOK
<1>1. RegistryInv => TypeOK
  BY DEF RegistryInv
<1>2. QED
  BY <1>1, RegistryInvariant, PTL

\* However creations and drains interleave, at most one worker ticks a
\* Session, and meets it at most once in a pass.
THEOREM EverySessionWatchedOnce == Spec => []WatchedOnce
<1>1. RegistryInv => WatchedOnce
  BY OnePlaceIsEnough DEF RegistryInv
<1>2. QED
  BY <1>1, RegistryInvariant, PTL

\* A Session that a handler or a worker works on is always owned by the map,
\* too: no return of a handler and no worker's pass destroys it.
THEOREM NoLastPointer == Spec => []NeverLastPointer
<1>1. ASSUME RegistryInv PROVE NeverLastPointer
  <2>1. ASSUME NEW h \in Handlers, hpc[h] \in {"add", "found", "use"}
        PROVE  mine[h] \in Sessions /\ mine[h] \in sessions
    BY <1>1, <2>1 DEF RegistryInv, MapKeepsAll, TypeOK
  <2>2. ASSUME NEW h \in Handlers, hpc[h] \in {"add", "use"}
        PROVE  UseCount(mine[h]) >= 2
    <3>1. <<"handler", h>> \in HeldAt({"add", "use"}, mine[h])
      BY <2>2 DEF HeldAt
    <3>2. QED
      BY <1>1, <2>1, <2>2, <3>1, OwnedTwice DEF RegistryInv
  <2>3. ASSUME NEW w \in Workers, wpc[w] = "tick"
        PROVE  it[w] <= Len(group[w]) /\ UseCount(group[w][it[w]]) >= 2
    <3>1. /\ it[w] <= Len(group[w]) /\ it[w] \in DOMAIN group[w]
          /\ group[w][it[w]] \in Sessions /\ group[w][it[w]] \in sessions
      BY <1>1, <2>3 DEF RegistryInv, TypeOK, Positions, MapKeepsAll
    <3>2. <<"group", w, it[w]>> \in InGroups(group[w][it[w]])
      BY <3>1, OwnerMembers
    <3>3. QED
      BY <1>1, <3>1, <3>2, OwnedTwice DEF RegistryInv
  <2>4. QED
    BY <2>1, <2>2, <2>3 DEF NeverLastPointer
<1>2. QED
  BY <1>1, RegistryInvariant, PTL

\* No pass of a worker ever queues a Session for removal: torn-down Sessions
\* stay in the map and in their group, although watch_streams() has code that
\* is to remove them.
THEOREM NoSessionReclaimed == Spec => []NothingReclaimed
<1>1. RegistryInv => NothingReclaimed
  BY DEF RegistryInv
<1>2. QED
  BY <1>1, RegistryInvariant, PTL
=============================================================================
