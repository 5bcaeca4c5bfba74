-------------------------- MODULE SessionRegistry --------------------------
(***************************************************************************)
(* Who holds a Session: the map Session::sessions, the groups that the     *)
(* session workers watch, and the server threads that create, look up and  *)
(* tear down sessions while handling a request.                            *)
(*                                                                         *)
(* A step is one critical section of a Locker, one load or store of an     *)
(* atomic, or one copy of a shared_ptr outside any lock.                   *)
(***************************************************************************)
EXTENDS Integers, Sequences, FiniteSets, SequencesExt

CONSTANTS
    Sessions,   \* Session objects; each one is named by its id
    Handlers,   \* server threads that handle a request
    Workers,    \* session workers: each one watches its own Group
    NoSession, NoWorker

ASSUME SessionsAssumption == NoSession \notin Sessions
ASSUME HandlersAssumption == IsFiniteSet(Handlers)
ASSUME WorkersAssumption == IsFiniteSet(Workers) /\ Workers # {} /\ NoWorker \notin Workers

VARIABLES
    is_live,        \* Session::is_live
    sessions,       \* the ids in Session::sessions
    is_active,      \* Session::is_active
    group,          \* Group::sessions of each worker
    newly_added,    \* Group::newly_added of each worker
    wpc,            \* where each worker is in Group::watch_streams()
    it,             \* the worker's iterator, as an index
    to_remove,      \* indices queued for erase()
    hpc,            \* where each handler is
    dest,           \* Session::get(): the group it chose
    mine            \* the session a handler's iterator or shared_ptr refers to

vars == <<is_live, sessions, is_active, group, newly_added, wpc, it,
          to_remove, hpc, dest, mine>>

registry == <<sessions, is_active>>
groups == <<group, newly_added>>
workers == <<wpc, it, to_remove>>
handlers == <<hpc, dest, mine>>

\* The elements of Group::sessions and Group::newly_added that point to s.
InGroups(s) ==
    UNION {{<<"group", w, i>> : i \in {j \in DOMAIN group[w] : group[w][j] = s}} : w \in Workers}

InQueues(s) ==
    UNION {{<<"added", w, i>> : i \in {j \in DOMAIN newly_added[w] : newly_added[w][j] = s}} : w \in Workers}

\* The handlers at one of these places with a pointer to s of their own.
HeldAt(places, s) == {<<"handler", h>> : h \in {g \in Handlers : hpc[g] \in places /\ mine[g] = s}}

InMap(s) == {<<"map", x>> : x \in sessions \cap {s}}

\* shared_ptr::use_count()
UseCount(s) ==
    Cardinality(InMap(s) \cup InGroups(s) \cup InQueues(s) \cup HeldAt({"add", "use"}, s))

(***************************************************************************)
(* Session::get(): a new session.                                          *)
(***************************************************************************)

\* The smallest group (the code takes the first of several, here it may be
\* any of them); Group::sessions is read without the lock its worker would
\* need, so while a worker grows its vector any size may be read.  (The second
\* conjunct is the bound on the number of sessions.)
ChooseGroup(h, w) ==
    /\ hpc[h] = "idle"
    /\ Cardinality({g \in Handlers : hpc[g] = "insert"}) < Cardinality(Sessions \ sessions)
    /\ \/ \E v \in Workers : wpc[v] = "push"
       \/ \A v \in Workers : Len(group[w]) <= Len(group[v])
    /\ dest' = [dest EXCEPT ![h] = w]
    /\ hpc' = [hpc EXCEPT ![h] = "insert"]
    /\ UNCHANGED <<is_live, registry, groups, workers, mine>>

\* Mutant of InsertSession: the id is not looked up first; insert() leaves a
\* Session that has it already in its place and returns that one.
InsertAnyId(h, s) ==
    /\ hpc[h] = "insert"
    /\ sessions' = sessions \cup {s}
    /\ is_active' = [is_active EXCEPT ![s] = s \notin sessions \/ @]
    /\ mine' = [mine EXCEPT ![h] = s]
    /\ hpc' = [hpc EXCEPT ![h] = "add"]
    /\ UNCHANGED <<is_live, groups, workers, dest>>

\* generate_id() until the id is new, and the insertion, under one lock.
InsertSession(h, s) ==
    /\ hpc[h] = "insert"
    /\ s \notin sessions
    /\ sessions' = sessions \cup {s}
    /\ is_active' = [is_active EXCEPT ![s] = TRUE]
    /\ mine' = [mine EXCEPT ![h] = s]
    /\ hpc' = [hpc EXCEPT ![h] = "add"]
    /\ UNCHANGED <<is_live, groups, workers, dest>>

\* Mutant of AddSession: the pointer was moved from before it is pushed.
AddMovedFrom(h) ==
    /\ hpc[h] = "add"
    /\ wpc[dest[h]] # "push"
    /\ newly_added' = [newly_added EXCEPT ![dest[h]] = Append(@, NoSession)]
    /\ hpc' = [hpc EXCEPT ![h] = "use"]
    /\ UNCHANGED <<is_live, registry, group, workers, dest, mine>>

\* Group::add_session()
AddSession(h) ==
    /\ hpc[h] = "add"
    /\ wpc[dest[h]] # "push"
    /\ newly_added' = [newly_added EXCEPT ![dest[h]] = Append(@, mine[h])]
    /\ hpc' = [hpc EXCEPT ![h] = "use"]
    /\ UNCHANGED <<is_live, registry, group, workers, dest, mine>>

(***************************************************************************)
(* Session::get(id) and what handlers do with the session.                 *)
(***************************************************************************)

\* Under the lock: the id is found and the session is active; otherwise the
\* exception ends the handling.
FindSession(h, s) ==
    /\ hpc[h] = "idle"
    /\ s \in sessions
    /\ is_active[s]
    /\ mine' = [mine EXCEPT ![h] = s]
    /\ hpc' = [hpc EXCEPT ![h] = "found"]
    /\ UNCHANGED <<is_live, registry, groups, workers, dest>>

\* After the lock: return s->second copies the shared_ptr.  The node the
\* iterator refers to stays where it is when other threads insert.
CopySession(h) ==
    /\ hpc[h] = "found"
    /\ hpc' = [hpc EXCEPT ![h] = "use"]
    /\ UNCHANGED <<is_live, registry, groups, workers, dest, mine>>

\* Mutant of Teardown: the session is taken out of the map as well.
TeardownAndErase(h) ==
    /\ hpc[h] = "use"
    /\ is_active' = [is_active EXCEPT ![mine[h]] = FALSE]
    /\ sessions' = sessions \ {mine[h]}
    /\ UNCHANGED <<is_live, groups, workers, handlers>>

\* Session::teardown()
Teardown(h) ==
    /\ hpc[h] = "use"
    /\ is_active' = [is_active EXCEPT ![mine[h]] = FALSE]
    /\ UNCHANGED <<is_live, sessions, groups, workers, handlers>>

\* The handler returns and its shared_ptr is destroyed.
Release(h) ==
    /\ hpc[h] = "use"
    /\ hpc' = [hpc EXCEPT ![h] = "idle"]
    /\ mine' = [mine EXCEPT ![h] = NoSession]
    /\ dest' = [dest EXCEPT ![h] = NoWorker]
    /\ UNCHANGED <<is_live, registry, groups, workers>>

\* Session::shutdown()
Shutdown ==
    /\ is_live
    /\ is_live' = FALSE
    /\ UNCHANGED <<registry, groups, workers, handlers>>

(***************************************************************************)
(* Group::watch_streams()                                                  *)
(***************************************************************************)

\* Mutant of CheckLive: a worker goes on while its group has sessions.
CheckLiveOrBusy(w) ==
    /\ wpc[w] = "check"
    /\ wpc' = [wpc EXCEPT ![w] = IF is_live \/ group[w] # <<>> THEN "visit" ELSE "stopped"]
    /\ it' = [it EXCEPT ![w] = 1]
    /\ UNCHANGED <<is_live, registry, groups, to_remove, handlers>>

\* while (is_live.load())
CheckLive(w) ==
    /\ wpc[w] = "check"
    /\ wpc' = [wpc EXCEPT ![w] = IF is_live THEN "visit" ELSE "stopped"]
    /\ it' = [it EXCEPT ![w] = 1]
    /\ UNCHANGED <<is_live, registry, groups, to_remove, handlers>>

\* An active session is about to be ticked.
VisitActive(w) ==
    /\ wpc[w] = "visit"
    /\ it[w] <= Len(group[w])
    /\ is_active[group[w][it[w]]]
    /\ wpc' = [wpc EXCEPT ![w] = "tick"]
    /\ UNCHANGED <<is_live, registry, groups, it, to_remove, handlers>>

\* Session::tick() returns.
Tick(w) ==
    /\ wpc[w] = "tick"
    /\ wpc' = [wpc EXCEPT ![w] = "visit"]
    /\ it' = [it EXCEPT ![w] = @ + 1]
    /\ UNCHANGED <<is_live, registry, groups, to_remove, handlers>>

\* Session::tick() throws, as when a UDP socket refuses to send: the catch
\* block ends the pass, the sessions behind this one are not visited and
\* newly_added is not drained.
TickThrows(w) ==
    /\ wpc[w] = "tick"
    /\ wpc' = [wpc EXCEPT ![w] = "check"]
    /\ UNCHANGED <<is_live, registry, groups, it, to_remove, handlers>>

\* An inactive one is queued for removal when this is the last pointer to it.
VisitInactive(w) ==
    /\ wpc[w] = "visit"
    /\ it[w] <= Len(group[w])
    /\ ~is_active[group[w][it[w]]]
    /\ to_remove' = [to_remove EXCEPT ![w] = IF UseCount(group[w][it[w]]) = 1
                                             THEN Append(@, it[w]) ELSE @]
    /\ it' = [it EXCEPT ![w] = @ + 1]
    /\ UNCHANGED <<is_live, registry, groups, wpc, handlers>>

\* g after an erase() at each of these positions in turn.
ErasedAt(g, positions) ==
    LET erased[n \in 0..Len(positions)] ==
            IF n = 0 THEN g ELSE RemoveAt(erased[n - 1], positions[n])
    IN  erased[Len(positions)]

\* The loop is over: the queued iterators are erased one by one.
EraseRemoved(w) ==
    /\ wpc[w] = "visit"
    /\ it[w] > Len(group[w])
    /\ group' = [group EXCEPT ![w] = ErasedAt(@, to_remove[w])]
    /\ to_remove' = [to_remove EXCEPT ![w] = <<>>]
    /\ wpc' = [wpc EXCEPT ![w] = "drain"]
    /\ UNCHANGED <<is_live, registry, newly_added, it, handlers>>

\* newly_added.use(): under its lock, push_back() moves elements ...
LockAdded(w) ==
    /\ wpc[w] = "drain"
    /\ wpc' = [wpc EXCEPT ![w] = "push"]
    /\ UNCHANGED <<is_live, registry, groups, it, to_remove, handlers>>

\* Mutant of TakeAdded: the queue is not emptied.
TakeAddedAgain(w) ==
    /\ wpc[w] = "push"
    /\ group' = [group EXCEPT ![w] = @ \o newly_added[w]]
    /\ wpc' = [wpc EXCEPT ![w] = "check"]
    /\ UNCHANGED <<is_live, registry, newly_added, it, to_remove, handlers>>

\* Mutant of TakeAdded: one element is moved, the others are dropped.
TakeFirstAdded(w) ==
    /\ wpc[w] = "push"
    /\ group' = [group EXCEPT ![w] = IF newly_added[w] = <<>> THEN @
                                       ELSE Append(@, Head(newly_added[w]))]
    /\ newly_added' = [newly_added EXCEPT ![w] = <<>>]
    /\ wpc' = [wpc EXCEPT ![w] = "check"]
    /\ UNCHANGED <<is_live, registry, it, to_remove, handlers>>

\* ... and has moved all of them.
TakeAdded(w) ==
    /\ wpc[w] = "push"
    /\ group' = [group EXCEPT ![w] = @ \o newly_added[w]]
    /\ newly_added' = [newly_added EXCEPT ![w] = <<>>]
    /\ wpc' = [wpc EXCEPT ![w] = "check"]
    /\ UNCHANGED <<is_live, registry, it, to_remove, handlers>>
-----------------------------------------------------------------------------
Init ==
    /\ is_live = TRUE
    /\ sessions = {}
    /\ is_active = [s \in Sessions |-> FALSE]
    /\ group = [w \in Workers |-> <<>>]
    /\ newly_added = [w \in Workers |-> <<>>]
    /\ wpc = [w \in Workers |-> "check"]
    /\ it = [w \in Workers |-> 1]
    /\ to_remove = [w \in Workers |-> <<>>]
    /\ hpc = [h \in Handlers |-> "idle"]
    /\ dest = [h \in Handlers |-> NoWorker]
    /\ mine = [h \in Handlers |-> NoSession]

Handle(h) ==
    \/ \E w \in Workers : ChooseGroup(h, w)
    \/ \E s \in Sessions : InsertSession(h, s) \/ FindSession(h, s)
    \/ AddSession(h)
    \/ CopySession(h)
    \/ Teardown(h)
    \/ Release(h)

Watch(w) ==
    \/ CheckLive(w)
    \/ VisitActive(w)
    \/ VisitInactive(w)
    \/ EraseRemoved(w)
    \/ LockAdded(w)
    \/ TakeAdded(w)

Next ==
    \/ Shutdown
    \/ \E h \in Handlers : Handle(h)
    \/ \E w \in Workers : Watch(w) \/ Tick(w) \/ TickThrows(w)

Spec == Init /\ [][Next]_vars

\* The kernel schedules the workers and the handlers that are on their way to
\* add or use a session, and a handler that waits for the lock of newly_added,
\* which its worker keeps releasing, gets it at last.  Clients need not ever
\* send a request, and nothing is assumed of tick(): it may never return.
FairSpec ==
    /\ Spec
    /\ \A w \in Workers : WF_vars(Watch(w))
    /\ \A h \in Handlers : WF_vars(CopySession(h)) /\ SF_vars(AddSession(h))
-----------------------------------------------------------------------------
TypeOK ==
    /\ is_live \in BOOLEAN
    /\ sessions \subseteq Sessions
    /\ is_active \in [Sessions -> BOOLEAN]
    /\ group \in [Workers -> Seq(Sessions)]
    /\ newly_added \in [Workers -> Seq(Sessions)]
    /\ wpc \in [Workers -> {"check", "visit", "tick", "drain", "push", "stopped"}]
    /\ it \in [Workers -> Nat]
    /\ to_remove \in [Workers -> Seq(Nat)]
    /\ hpc \in [Handlers -> {"idle", "insert", "add", "found", "use"}]
    /\ dest \in [Handlers -> Workers \cup {NoWorker}]
    /\ mine \in [Handlers -> Sessions \cup {NoSession}]

\* Session::tick() is not synchronised with itself: a session is watched by
\* one worker at most, which meets it once in a pass over its group, however
\* creations and drains interleave.
WatchedOnce ==
    \A s \in Sessions :
        LET watches == InGroups(s) \cup InQueues(s) \cup HeldAt({"add"}, s)
        IN  \A x, y \in watches : x = y

\* Nothing that is in use is destroyed.  get(id) uses its map iterator after
\* it has released the lock: the node is still in the map.  A Session that a
\* worker ticks or a handler works on is held by somebody else, too, so
\* neither the return of the handler nor the end of its stay in the group is
\* its end.
NeverLastPointer ==
    /\ \A h \in Handlers : hpc[h] = "found" => mine[h] \in sessions
    /\ \A h \in Handlers : hpc[h] \in {"add", "use"} => UseCount(mine[h]) >= 2
    /\ \A w \in Workers : wpc[w] = "tick" =>
            /\ it[w] <= Len(group[w])
            /\ UseCount(group[w][it[w]]) >= 2

\* Contrary to what the second half of watch_streams() is there for, no
\* iterator is ever queued for erase(), because the map keeps every Session
\* and no count falls to 1: torn-down sessions are never reclaimed.  (It is
\* also why erase(), which would invalidate the iterators queued behind the
\* first one, does no harm.)  This states a defect, not a requirement.
NothingReclaimed == \A w \in Workers : to_remove[w] = <<>>

\* Every worker completes a pass over its group again and again: no tick()
\* lasts forever, and some passes meet no exception.
PassesComplete == \A w \in Workers : []<>(wpc[w] = "drain" \/ ~is_live)

\* A session that was created comes to be watched, as long as passes complete
\* and the server does not shut down.
EventuallyWatched ==
    PassesComplete =>
        \A s \in Sessions :
            s \in sessions ~> \/ \E w \in Workers : s \in Range(group[w])
                            \/ ~is_live

\* Session::shutdown() stops every worker whose ticks return, also one whose
\* ticks only ever throw.
WorkersStop ==
    (\A w \in Workers : []<>(wpc[w] # "tick")) =>
        (~is_live ~> \A w \in Workers : wpc[w] = "stopped")
=============================================================================
