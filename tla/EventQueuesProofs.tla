------------------------- MODULE EventQueuesProofs -------------------------
(***************************************************************************)
(* For any number of threads, queues and events: no queue is used after it *)
(* is deleted; the events of a queue that one stream reads at a time are   *)
(* written in order and none is lost; and a stream does not sleep on an    *)
(* event or on a cancelled queue.                                          *)
(***************************************************************************)
EXTENDS EventQueues, FiniteSetTheorems, SequenceTheorems, TLAPS

-----------------------------------------------------------------------------
(* The inductive invariant                                                 *)

\* A thread at one of these steps creates a queue, ...
Creating == {"create", "create_own"}
\* ... has an event to add, ...
Adding == {"add_list", "add_find", "add_listed", "add"}
\* ... or is a user of the lock of its queue.
Using == Producing \cup Streaming

\* The steps of the calls that name a queue, and all of them
Named == Adding \cup Using \cup Destroying \cup
         {"add_dec_signal", "stream_list", "stream_find", "stream_dec_signal",
          "destroy", "destroy_own"}
Steps == Named \cup Creating \cup {"idle"}

CallType == [at : Steps, id : 0..MaxQueue, event : 0..MaxEvent]

Types == /\ queues \subseteq Queue /\ cancel \subseteq Queue
         /\ freed \subseteq Queue /\ shared \subseteq Queue
         /\ maxId \in 1..(MaxQueue + 1)
         /\ listUse \in RW!Lock
         /\ queueUse \in [Queue -> RW!Lock]
         /\ events \in [Queue -> Seq(1..MaxEvent)]
         /\ added \in [Queue -> 0..MaxEvent]
         /\ sent \in [Queue -> Seq(0..MaxEvent)]
         /\ call \in [Thread -> CallType]
         /\ \A t \in Thread : call[t].at \in Named => call[t].id \in Queue
         /\ calls \in 0..MaxCalls
         /\ \A q \in Queue : Len(events[q]) <= added[q]

\* The users of a queue are the threads that add to it or stream it.
QueuesHeld == \A t \in Thread, q \in Queue :
                 t \in queueUse[q].users <=> call[t].at \in Using /\ call[t].id = q

\* A queue is in the map, or being destroyed by one thread, or deleted.
OneLife ==
    /\ queues \cap freed = {}
    /\ \A q \in queues \cup freed : q < maxId
    /\ \A t \in Thread : call[t].at \in Using => call[t].id \notin freed /\ call[t].id < maxId
    /\ \A t \in Thread : call[t].at \in Destroying =>
          /\ call[t].id < maxId
          /\ call[t].id \notin queues \cup freed
          /\ \A u \in Thread : call[u].at \in Destroying /\ call[u].id = call[t].id => u = t

\* The calls that create queues, and those that add events, stay below the bounds.
Creators == {t \in Thread : call[t].at \in Creating}
CreatorsBounded == maxId + Cardinality(Creators) <= MaxQueue + 1

Adders(q) == {t \in Thread : On(t, q) /\ call[t].at \in Adding}
AddersBounded == \A q \in Queue : added[q] + Cardinality(Adders(q)) <= MaxEvent

IInv == /\ Types /\ QueuesHeld /\ OneLife /\ CreatorsBounded /\ AddersBounded

\* A queue that two streams have not read at once has one stream at most.
OneStream ==
    \A t, u \in Thread :
        (/\ call[t].at \in Streaming /\ call[u].at \in Streaming
         /\ call[t].id = call[u].id /\ call[t].id \notin shared) => t = u

\* The number of the first event of the queue, and what a stream knows of it.
Removed(q) == IF \E t \in Thread : At(t, "pop") /\ On(t, q) THEN Len(sent[q]) - 1 ELSE Len(sent[q])
InOrder(q) ==
    /\ sent[q] = [i \in 1..Len(sent[q]) |-> i]
    /\ events[q] = [i \in 1..(added[q] - Removed(q)) |-> Removed(q) + i]
    /\ Len(sent[q]) <= added[q]
    /\ \A t \in Thread : On(t, q) =>
          /\ At(t, "send") => call[t].event = Len(sent[q]) + 1 /\ Len(sent[q]) < added[q]
          /\ At(t, "pop") => Len(sent[q]) > 0
OrderInv == \A q \in Queue \ shared : InOrder(q)

-----------------------------------------------------------------------------
(* What a step leaves alone                                                *)

\* Thread t makes a step: another thread stays where it is, unless it is woken.
Moves(t) ==
    /\ call' \in [Thread -> CallType]
    /\ \A u \in Thread : u # t =>
          /\ call'[u].id = call[u].id /\ call'[u].event = call[u].event
          /\ call'[u].at = call[u].at \/ (call[u].at = "asleep" /\ call'[u].at = "peek")

\* Waking a thread changes none of the sets of steps the invariant is about.
LEMMA OthersStay ==
  ASSUME NEW t \in Thread, Moves(t), NEW u \in Thread, u # t
  PROVE  /\ call'[u].id = call[u].id
         /\ call'[u].at \in Creating <=> call[u].at \in Creating
         /\ call'[u].at \in Adding <=> call[u].at \in Adding
         /\ call'[u].at \in Streaming <=> call[u].at \in Streaming
         /\ call'[u].at \in Using <=> call[u].at \in Using
         /\ call'[u].at \in Destroying <=> call[u].at \in Destroying
         /\ call'[u].at \in Named <=> call[u].at \in Named
BY DEF Moves, Creating, Adding, Using, Producing, Streaming, Destroying, Named

\* Finitely many threads create queues, or add events, at once.
LEMMA FiniteThreads ==
  /\ IsFiniteSet(Creators) /\ Cardinality(Creators) \in Nat
  /\ \A q : IsFiniteSet(Adders(q)) /\ Cardinality(Adders(q)) \in Nat
<1>1. IsFiniteSet(Creators) /\ \A q : IsFiniteSet(Adders(q))
  BY EventAssumption, FS_Subset DEF Creators, Adders
<1> QED  BY <1>1, FS_CardinalityType

\* A step that starts no creation keeps the creators below the bound, ...
LEMMA CreatorsKeep ==
  ASSUME IInv, NEW t \in Thread, Moves(t), maxId' = maxId,
         call'[t].at \in Creating => call[t].at \in Creating
  PROVE  CreatorsBounded'
<1>1. Creators' \subseteq Creators
  BY OthersStay DEF Creators
<1>2. Cardinality(Creators') <= Cardinality(Creators) /\ Cardinality(Creators') \in Nat
  BY <1>1, FiniteThreads, FS_Subset, FS_CardinalityType
<1> QED  BY <1>2, FiniteThreads, EventAssumption DEF IInv, CreatorsBounded, Types

\* ... one that starts no addition those that add, ...
LEMMA AddersKeep ==
  ASSUME IInv, NEW t \in Thread, Moves(t), added' = added,
         call'[t].at \in Adding => call[t].at \in Adding /\ call'[t].id = call[t].id
  PROVE  AddersBounded'
<1> SUFFICES ASSUME NEW q \in Queue PROVE added[q] + Cardinality(Adders(q)') <= MaxEvent
  BY DEF AddersBounded
<1>1. Adders(q)' \subseteq Adders(q)
  BY OthersStay DEF Adders, On
<1>2. Cardinality(Adders(q)') <= Cardinality(Adders(q)) /\ Cardinality(Adders(q)') \in Nat
  BY <1>1, FiniteThreads, FS_Subset, FS_CardinalityType
<1>3. added[q] + Cardinality(Adders(q)) <= MaxEvent /\ added[q] \in Nat
  BY DEF IInv, AddersBounded, Types
<1> QED  BY <1>2, <1>3, FiniteThreads, EventAssumption

\* ... one that neither takes nor gives back a queue its users, ...
LEMMA HeldKeep ==
  ASSUME IInv, NEW t \in Thread, Moves(t), queueUse' = queueUse,
         call'[t].at \in Using <=> call[t].at \in Using,
         call'[t].at \in Using => call'[t].id = call[t].id
  PROVE  QueuesHeld'
<1> SUFFICES ASSUME NEW u \in Thread, NEW q \in Queue
             PROVE  u \in queueUse[q].users <=> call'[u].at \in Using /\ call'[u].id = q
  BY DEF QueuesHeld
<1>1. u \in queueUse[q].users <=> call[u].at \in Using /\ call[u].id = q
  BY DEF IInv, QueuesHeld
<1> QED  BY <1>1, OthersStay

\* ... and one that leaves the map alone the life of the queues.
LEMMA LifeKeep ==
  ASSUME IInv, NEW t \in Thread, Moves(t), UNCHANGED <<queues, maxId, freed>>,
         call'[t].at \in Using => call[t].at \in Using /\ call'[t].id = call[t].id,
         call'[t].at \in Destroying => call[t].at \in Destroying /\ call'[t].id = call[t].id
  PROVE  OneLife'
<1>1. \A u \in Thread : call'[u].at \in Using => call[u].at \in Using /\ call'[u].id = call[u].id
  BY OthersStay
<1>2. \A u \in Thread :
         call'[u].at \in Destroying => call[u].at \in Destroying /\ call'[u].id = call[u].id
  BY OthersStay
<1> QED  BY <1>1, <1>2 DEF IInv, OneLife

\* The steps of a call that take no lock of a queue and leave the map alone.
LEMMA QuietKeeps ==
  ASSUME IInv, NEW t \in Thread, Moves(t), Types',
         UNCHANGED <<queues, maxId, freed, queueUse, added>>,
         call'[t].at \in Using <=> call[t].at \in Using,
         \/ /\ call'[t].id = call[t].id
            /\ call'[t].at \in Creating => call[t].at \in Creating
            /\ call'[t].at \in Adding => call[t].at \in Adding
            /\ call'[t].at \in Destroying => call[t].at \in Destroying
         \/ call'[t].at \in {"idle", "stream_list", "destroy"}
  PROVE  IInv'
<1>1. call'[t].at \in {"idle", "stream_list", "destroy"} =>
         call'[t].at \notin Using \cup Creating \cup Adding \cup Destroying
  BY DEF Using, Creating, Adding, Destroying, Producing, Streaming
<1>2. CreatorsBounded' /\ AddersBounded'
  BY <1>1, CreatorsKeep, AddersKeep
<1>3. QueuesHeld' /\ OneLife'
  BY <1>1, HeldKeep, LifeKeep
<1> QED  BY <1>2, <1>3 DEF IInv

-----------------------------------------------------------------------------
(* The ways a thread moves                                                 *)

\* It goes on to its next step, ...
LEMMA GotoMoves ==
  ASSUME Types, NEW t \in Thread, NEW to \in Steps, Goto(t, to)
  PROVE  /\ Moves(t) /\ call'[t].at = to
         /\ call'[t].id = call[t].id /\ call'[t].event = call[t].event
BY DEF Types, CallType, Goto, Moves

\* ... returns, ...
LEMMA ReturnMoves ==
  ASSUME Types, NEW t \in Thread, Return(t)
  PROVE  Moves(t) /\ call'[t].at = "idle"
<1>1. Idle \in CallType /\ Idle.at = "idle"
  BY EventAssumption DEF CallType, Idle, Steps
<1> QED  BY <1>1 DEF Types, Return, Moves

\* ... starts a call, ...
LEMMA StartMoves ==
  ASSUME Types, NEW t \in Thread, NEW step \in Steps, NEW id \in 0..MaxQueue, Start(t, step, id)
  PROVE  /\ Moves(t) /\ call[t].at = "idle" /\ call'[t].at = step /\ call'[t].id = id
         /\ UNCHANGED <<queues, maxId, listUse, queueUse, queueData, freed>>
         /\ calls' \in 0..MaxCalls
<1>1. [at |-> step, id |-> id, event |-> 0] \in CallType
  BY EventAssumption DEF CallType
<1>2. call' = [call EXCEPT ![t] = [at |-> step, id |-> id, event |-> 0]]
  BY DEF Start
<1>3. call'[t] = [at |-> step, id |-> id, event |-> 0] /\ Moves(t)
  BY <1>1, <1>2 DEF Types, Moves
<1> QED  BY <1>3, EventAssumption DEF Start, At, Types

\* ... or signals, which may wake another one.
LEMMA SignalMoves ==
  ASSUME Types, NEW t \in Thread, call[t].at # "asleep", NEW q, NEW to \in Steps, Signal(t, q, to)
  PROVE  /\ Moves(t) /\ call'[t].at = to
         /\ call'[t].id = call[t].id /\ call'[t].event = call[t].event
<1>1. CASE Goto(t, to)
  BY <1>1, GotoMoves
<1>2. ASSUME NEW u \in Thread, At(u, "asleep"),
             call' = [call EXCEPT ![t].at = to, ![u].at = "peek"]
      PROVE  /\ Moves(t) /\ call'[t].at = to
             /\ call'[t].id = call[t].id /\ call'[t].event = call[t].event
  <2>1. u # t /\ "peek" \in Steps /\ call[u].at = "asleep"
    BY <1>2 DEF At, Steps, Named, Using, Streaming
  <2> DEFINE c == [call EXCEPT ![t].at = to]
  <2>2. c \in [Thread -> CallType]
    BY DEF Types, CallType
  <2>3. call' = [c EXCEPT ![u].at = "peek"]
    BY <1>2
  <2>4. call' \in [Thread -> CallType]
    BY <2>1, <2>2, <2>3 DEF CallType
  <2>5. \A v \in Thread : v # u => call'[v] = c[v]
    BY <2>2, <2>3
  <2>6. /\ call'[u].at = "peek" /\ call'[u].id = c[u].id /\ call'[u].event = c[u].event
    BY <2>2, <2>3 DEF CallType
  <2>7. /\ c[t].at = to /\ c[t].id = call[t].id /\ c[t].event = call[t].event
        /\ \A v \in Thread : v # t => c[v] = call[v]
    BY DEF Types, CallType
  <2> QED  BY <2>1, <2>4, <2>5, <2>6, <2>7 DEF Moves
<1> QED  BY <1>1, <1>2 DEF Signal

\* A step that changes no queue keeps the types.
LEMMA TypesKeep ==
  ASSUME Types, NEW t \in Thread, Moves(t), shared' = shared \cup Doubled(call'),
         UNCHANGED <<queues, maxId, queueUse, queueData, freed>>,
         listUse' \in RW!Lock, calls' \in 0..MaxCalls,
         call'[t].at \in Named => call'[t].id \in Queue
  PROVE  Types'
<1>1. shared' \subseteq Queue
  BY DEF Types, Doubled
<1>2. \A u \in Thread : call'[u].at \in Named => call'[u].id \in Queue
  BY OthersStay DEF Types
<1>3. call' \in [Thread -> CallType]
  BY DEF Moves
<1> QED  BY <1>1, <1>2, <1>3 DEF Types, queueData

\* What listUse.IncUse, DecUse, WaitUnusedAndLock and Unlock leave is a lock.
LEMMA LockTypes ==
  ASSUME NEW l \in RW!Lock, NEW t \in Thread
  PROVE  /\ RW!IncUse(l, t) \in RW!Lock /\ RW!IncUse(l, t).users = l.users \cup {t}
         /\ RW!DecUse(l, t) \in RW!Lock /\ RW!DecUse(l, t).users = l.users \ {t}
         /\ RW!Claimed(l, t) \in RW!Lock /\ RW!Claimed(l, t).users = l.users
         /\ RW!Unlock(l) \in RW!Lock
BY DEF RW!IncUse, RW!DecUse, RW!Claimed, RW!Unlock, RW!Lock

\* The claim of listUse.WaitUnusedAndLock()
LEMMA ClaimKeeps ==
  ASSUME IInv, NEW t \in Thread, NEW from, NEW to, Claim(t, from, to),
         <<from, to>> \in {<<"create", "create_own">>, <<"destroy", "destroy_own">>},
         shared' = shared \cup Doubled(call')
  PROVE  IInv'
<1>1. Types /\ to \in Steps /\ call[t].at = from /\ Goto(t, to)
  BY DEF IInv, Claim, At, Steps, Named, Creating
<1>2. Moves(t) /\ call'[t].at = to /\ call'[t].id = call[t].id
  BY <1>1, GotoMoves
<1>3. /\ UNCHANGED <<queues, maxId, queueUse, queueData, freed, calls>>
      /\ listUse' \in RW!Lock
  BY <1>1, LockTypes DEF Claim, Types
<1>4. call'[t].at \in Named => call'[t].id \in Queue
  BY <1>1, <1>2 DEF Types, Named, Adding, Using, Producing, Streaming, Destroying
<1>5. Types'
  BY <1>1, <1>2, <1>3, <1>4, TypesKeep DEF Types
<1>6. /\ call'[t].at \notin Using \cup Destroying \cup Adding /\ call[t].at \notin Using
      /\ call'[t].at \in Creating => call[t].at \in Creating
  BY <1>1, <1>2 DEF Using, Producing, Streaming, Destroying, Creating, Adding
<1> QED  BY <1>2, <1>3, <1>5, <1>6, QuietKeeps DEF queueData

\* A queue is found in the map, and used from then on: it has not been deleted.
LEMMA FindQueueKeeps ==
  ASSUME IInv, NEW t \in Thread, NEW from, NEW find, NEW listed, NEW to,
         \/ from = "add_list" /\ find = "add_find" /\ listed = "add_listed" /\ to = "add"
         \/ /\ from = "stream_list" /\ find = "stream_find"
            /\ listed = "stream_listed" /\ to = "stream",
         FindQueue(t, from, find, listed, to), shared' = shared \cup Doubled(call')
  PROVE  IInv'
<1> DEFINE q == call[t].id
<1>0. /\ Types /\ {find, listed, to} \subseteq Steps
      /\ {from, find, listed, to} \subseteq Named
      /\ from \notin Using /\ find \notin Using /\ listed \in Using /\ to \in Using
      /\ find \in Adding <=> from \in Adding
      /\ listed \in Adding <=> from \in Adding
      /\ to \in Adding <=> from \in Adding
      /\ {from, find, listed, to} \cap (Creating \cup Destroying) = {}
  BY DEF IInv, Steps, Named, Adding, Using, Producing, Streaming, Creating, Destroying
<1>1. CASE /\ At(t, from) /\ Goto(t, find)
           /\ RW!CanIncUse(listUse) /\ listUse' = RW!IncUse(listUse, t)
           /\ UNCHANGED <<queues, maxId, queueUse, queueData, freed, calls>>
  <2>1. Moves(t) /\ call[t].at = from /\ call'[t].at = find /\ call'[t].id = call[t].id
    BY <1>0, <1>1, GotoMoves DEF At
  <2>2. Types'
    BY <1>0, <1>1, <2>1, LockTypes, TypesKeep DEF Types
  <2> QED  BY <1>0, <1>1, <2>1, <2>2, QuietKeeps DEF queueData
<1>2. CASE /\ At(t, find) /\ call[t].id \notin queues
           /\ listUse' = RW!DecUse(listUse, t)
           /\ Return(t)
           /\ UNCHANGED <<queues, maxId, queueUse, queueData, freed, calls>>
  <2>1. Moves(t) /\ call[t].at = find /\ call'[t].at = "idle"
    BY <1>0, <1>2, ReturnMoves DEF At
  <2>2. call'[t].at \notin Named /\ call'[t].at \notin Using
    BY <2>1 DEF Named, Adding, Using, Producing, Streaming, Destroying
  <2>3. Types'
    BY <1>0, <1>2, <2>1, <2>2, LockTypes, TypesKeep DEF Types
  <2> QED  BY <1>0, <1>2, <2>1, <2>2, <2>3, QuietKeeps DEF queueData
<1>3. CASE /\ At(t, find) /\ call[t].id \in queues
           /\ RW!CanIncUse(queueUse[call[t].id])
           /\ queueUse' = [queueUse EXCEPT ![call[t].id] = RW!IncUse(@, t)]
           /\ Goto(t, listed)
           /\ UNCHANGED <<queues, maxId, listUse, queueData, freed, calls>>
  <2>1. Moves(t) /\ call[t].at = find /\ call'[t].at = listed /\ call'[t].id = q
    BY <1>0, <1>3, GotoMoves DEF At
  <2>2. q \in Queue /\ q \in queues
    BY <1>0, <1>3 DEF Types
  <2>3. /\ queueUse' \in [Queue -> RW!Lock] /\ queueUse'[q].users = queueUse[q].users \cup {t}
        /\ \A p \in Queue : p # q => queueUse'[p] = queueUse[p]
    BY <1>0, <1>3, <2>2, LockTypes, ZenonT(30) DEF Types
  <2>4. Types'
    <3>1. shared' \subseteq Queue
      BY <1>0 DEF Types, Doubled
    <3>2. \A u \in Thread : call'[u].at \in Named => call'[u].id \in Queue
      BY <1>0, <2>1, <2>2, OthersStay DEF Types
    <3> QED  BY <1>0, <1>3, <2>1, <2>3, <3>1, <3>2 DEF Types, Moves, queueData
  <2>5. QueuesHeld'
    <3> SUFFICES ASSUME NEW u \in Thread, NEW p \in Queue
                 PROVE  u \in queueUse'[p].users <=> call'[u].at \in Using /\ call'[u].id = p
      BY DEF QueuesHeld
    <3>1. u \in queueUse[p].users <=> call[u].at \in Using /\ call[u].id = p
      BY DEF IInv, QueuesHeld
    <3>2. CASE u = t
      BY <1>0, <2>1, <2>3, <3>1, <3>2
    <3>3. CASE u # t
      BY <2>1, <2>3, <3>1, <3>3, OthersStay
    <3> QED  BY <3>2, <3>3
  <2>6. OneLife'
    <3>1. q \notin freed /\ q < maxId
      BY <2>2 DEF IInv, OneLife
    <3>2. \A u \in Thread : call'[u].at \in Using => call'[u].id \notin freed /\ call'[u].id < maxId
      BY <2>1, <3>1, OthersStay DEF IInv, OneLife
    <3>3. \A u \in Thread :
             call'[u].at \in Destroying => call[u].at \in Destroying /\ call'[u].id = call[u].id
      BY <1>0, <2>1, OthersStay
    <3> QED  BY <1>3, <3>2, <3>3 DEF IInv, OneLife
  <2>7. CreatorsBounded' /\ AddersBounded'
    BY <1>0, <1>3, <2>1, CreatorsKeep, AddersKeep DEF queueData
  <2> QED  BY <2>4, <2>5, <2>6, <2>7 DEF IInv
<1>4. CASE /\ At(t, listed) /\ Goto(t, to)
           /\ listUse' = RW!DecUse(listUse, t)
           /\ UNCHANGED <<queues, maxId, queueUse, queueData, freed, calls>>
  <2>1. Moves(t) /\ call[t].at = listed /\ call'[t].at = to /\ call'[t].id = call[t].id
    BY <1>0, <1>4, GotoMoves DEF At
  <2>2. Types'
    BY <1>0, <1>4, <2>1, LockTypes, TypesKeep DEF Types
  <2> QED  BY <1>0, <1>4, <2>1, <2>2, QuietKeeps DEF queueData
<1> QED  BY <1>1, <1>2, <1>3, <1>4 DEF FindQueue

\* queue->DecUse()
LEMMA DecUseKeeps ==
  ASSUME IInv, NEW t \in Thread, NEW from, NEW to,
         <<from, to>> \in {<<"add_done", "add_dec_signal">>, <<"stream_done", "stream_dec_signal">>},
         DecUse(t, from, to), shared' = shared \cup Doubled(call')
  PROVE  IInv'
<1> DEFINE q == call[t].id
<1>0. /\ Types /\ to \in Steps /\ from \in Named /\ to \in Named
      /\ from \in Using /\ to \notin Using
      /\ to \notin Creating \cup Adding \cup Destroying
  BY DEF IInv, Steps, Named, Adding, Using, Producing, Streaming, Creating, Destroying
<1>1. CASE /\ At(t, from) /\ Goto(t, to)
           /\ queueUse' = [queueUse EXCEPT ![call[t].id] = RW!DecUse(@, t)]
           /\ UNCHANGED <<queues, maxId, listUse, queueData, freed, calls>>
  <2>1. Moves(t) /\ call[t].at = from /\ call'[t].at = to /\ call'[t].id = q
    BY <1>0, <1>1, GotoMoves DEF At
  <2>2. q \in Queue
    BY <1>0, <2>1 DEF Types
  <2>3. /\ queueUse' \in [Queue -> RW!Lock] /\ queueUse'[q].users = queueUse[q].users \ {t}
        /\ \A p \in Queue : p # q => queueUse'[p] = queueUse[p]
    BY <1>0, <1>1, <2>2, LockTypes, ZenonT(30) DEF Types
  <2>4. Types'
    <3>1. shared' \subseteq Queue
      BY <1>0 DEF Types, Doubled
    <3>2. \A u \in Thread : call'[u].at \in Named => call'[u].id \in Queue
      BY <1>0, <2>1, <2>2, OthersStay DEF Types
    <3> QED  BY <1>0, <1>1, <2>1, <2>3, <3>1, <3>2 DEF Types, Moves, queueData
  <2>5. QueuesHeld'
    <3> SUFFICES ASSUME NEW u \in Thread, NEW p \in Queue
                 PROVE  u \in queueUse'[p].users <=> call'[u].at \in Using /\ call'[u].id = p
      BY DEF QueuesHeld
    <3>1. u \in queueUse[p].users <=> call[u].at \in Using /\ call[u].id = p
      BY DEF IInv, QueuesHeld
    <3>2. CASE u = t
      BY <1>0, <2>1, <2>3, <3>1, <3>2
    <3>3. CASE u # t
      BY <2>1, <2>3, <3>1, <3>3, OthersStay
    <3> QED  BY <3>2, <3>3
  <2>6. OneLife'
    BY <1>0, <1>1, <2>1, LifeKeep
  <2>7. CreatorsBounded' /\ AddersBounded'
    BY <1>0, <1>1, <2>1, CreatorsKeep, AddersKeep DEF queueData
  <2> QED  BY <2>4, <2>5, <2>6, <2>7 DEF IInv
<1>2. CASE /\ At(t, to) /\ Return(t)
           /\ UNCHANGED <<queues, maxId, listUse, queueUse, queueData, freed, calls>>
  <2>1. Moves(t) /\ call[t].at = to /\ call'[t].at = "idle"
    BY <1>0, <1>2, ReturnMoves DEF At
  <2>2. call'[t].at \notin Named /\ call'[t].at \notin Using
    BY <2>1 DEF Named, Adding, Using, Producing, Streaming, Destroying
  <2>3. Types'
    BY <1>0, <1>2, <2>1, <2>2, TypesKeep DEF Types
  <2> QED  BY <1>0, <1>2, <2>1, <2>2, <2>3, QuietKeeps DEF queueData
<1> QED  BY <1>1, <1>2 DEF DecUse

-----------------------------------------------------------------------------
(* The calls                                                               *)

\* A queue gets an id above those of all others.
LEMMA CreateEventQueueKeeps ==
  ASSUME IInv, NEW t \in Thread, CreateEventQueue(t), shared' = shared \cup Doubled(call')
  PROVE  IInv'
<1>0. Types /\ "create" \in Steps /\ 0 \in 0..MaxQueue
  BY EventAssumption DEF IInv, Steps, Creating
<1>1. CASE /\ maxId + Cardinality({u \in Thread : call[u].at \in {"create", "create_own"}}) <= MaxQueue
           /\ Start(t, "create", 0)
  <2>1. /\ Moves(t) /\ call[t].at = "idle" /\ call'[t].at = "create" /\ call'[t].id = 0
        /\ UNCHANGED <<queues, maxId, listUse, queueUse, queueData, freed>>
        /\ calls' \in 0..MaxCalls
    BY <1>0, <1>1, StartMoves
  <2>2. /\ call'[t].at \notin Named \cup Using \cup Destroying \cup Adding
        /\ call[t].at \notin Using \cup Creating
    BY <2>1 DEF Named, Adding, Using, Producing, Streaming, Destroying, Creating
  <2>3. Types'
    BY <1>0, <2>1, <2>2, TypesKeep DEF Types
  <2>4. QueuesHeld' /\ OneLife' /\ AddersBounded'
    BY <2>1, <2>2, HeldKeep, LifeKeep, AddersKeep DEF queueData
  <2>5. CreatorsBounded'
    <3>1. t \notin Creators /\ Creators' = Creators \cup {t}
      BY <2>1, <2>2, OthersStay DEF Creators, Creating
    <3>2. Cardinality(Creators') = Cardinality(Creators) + 1
      BY <3>1, FiniteThreads, FS_AddElement
    <3>3. maxId + Cardinality(Creators) <= MaxQueue
      BY <1>1 DEF Creators, Creating
    <3> QED  BY <2>1, <3>2, <3>3, FiniteThreads, EventAssumption DEF IInv, Types, CreatorsBounded
  <2> QED  BY <2>3, <2>4, <2>5 DEF IInv
<1>2. CASE Claim(t, "create", "create_own")
  BY <1>2, ClaimKeeps
<1>3. CASE /\ At(t, "create_own") /\ OwnAndUnlock(t)
           /\ queues' = queues \cup {maxId}
           /\ maxId' = maxId + 1
           /\ Return(t)
           /\ UNCHANGED <<queueUse, queueData, freed>>
  <2>1. Moves(t) /\ call[t].at = "create_own" /\ call'[t].at = "idle"
    BY <1>0, <1>3, ReturnMoves DEF At
  <2>2. /\ call'[t].at \notin Named \cup Using \cup Destroying \cup Adding \cup Creating
        /\ call[t].at \notin Using /\ call[t].at \in Creating
    BY <2>1 DEF Named, Adding, Using, Producing, Streaming, Destroying, Creating
  <2>3. /\ t \in Creators /\ Creators' = Creators \ {t}
    BY <2>1, <2>2, OthersStay DEF Creators
  <2>4. Cardinality(Creators') = Cardinality(Creators) - 1 /\ Cardinality(Creators') \in Nat
    BY <2>3, FiniteThreads, FS_RemoveElement, FS_CardinalityType
  <2>5. maxId \in Queue
    BY <2>4, FiniteThreads, EventAssumption DEF IInv, Types, CreatorsBounded, Queue
  <2>6. Types'
    <3>1. shared' \subseteq Queue
      BY <1>0 DEF Types, Doubled
    <3>2. \A u \in Thread : call'[u].at \in Named => call'[u].id \in Queue
      BY <1>0, <2>1, <2>2, OthersStay DEF Types
    <3>3. listUse' \in RW!Lock /\ calls' = calls
      BY <1>0, <1>3, LockTypes DEF OwnAndUnlock, Types
    <3>4. queues' \subseteq Queue /\ maxId' \in 1..(MaxQueue + 1)
      BY <1>0, <1>3, <2>5, EventAssumption DEF Types, Queue
    <3> QED  BY <1>0, <1>3, <2>1, <3>1, <3>2, <3>3, <3>4 DEF Types, Moves, queueData
  <2>7. QueuesHeld' /\ AddersBounded'
    BY <1>3, <2>1, <2>2, HeldKeep, AddersKeep DEF queueData
  <2>8. OneLife'
    <3>1. \A u \in Thread : call'[u].at \in Using => call[u].at \in Using /\ call'[u].id = call[u].id
      BY <2>1, <2>2, OthersStay
    <3>2. \A u \in Thread :
             call'[u].at \in Destroying => call[u].at \in Destroying /\ call'[u].id = call[u].id
      BY <2>1, <2>2, OthersStay
    <3>3. /\ maxId \in Nat /\ maxId \notin freed /\ queues \subseteq Nat /\ freed \subseteq Nat
          /\ \A u \in Thread : call[u].id \in Nat
      BY <1>0 DEF IInv, OneLife, Types, Queue, CallType
    <3>4. queues' \cap freed' = {} /\ \A p \in queues' \cup freed' : p < maxId'
      <4>1. queues \cap freed = {} /\ \A p \in queues \cup freed : p < maxId
        BY DEF IInv, OneLife
      <4>2. maxId < maxId + 1 /\ \A p \in Nat : p < maxId => p < maxId + 1
        BY <3>3
      <4>3. queues' = queues \cup {maxId} /\ freed' = freed /\ maxId' = maxId + 1
        BY <1>3
      <4>4. \A p \in queues \cup freed : p < maxId + 1
        BY <4>1, <4>2, <3>3, Zenon
      <4> QED  BY <4>1, <4>2, <4>3, <4>4, <3>3, Zenon
    <3>5. \A u \in Thread : call'[u].at \in Using => call'[u].id \notin freed' /\ call'[u].id < maxId'
      BY <1>3, <3>1, <3>3 DEF IInv, OneLife
    <3>6. ASSUME NEW u \in Thread, call'[u].at \in Destroying
          PROVE  /\ call'[u].id < maxId'
                 /\ call'[u].id \notin queues' \cup freed'
                 /\ \A v \in Thread : call'[v].at \in Destroying /\ call'[v].id = call'[u].id => v = u
      <4>1. call[u].id < maxId /\ call[u].id \notin queues \cup freed /\ call'[u].id = call[u].id
        BY <3>2, <3>6 DEF IInv, OneLife
      <4>2. call'[u].id # maxId /\ call'[u].id < maxId'
        BY <1>3, <3>3, <4>1
      <4> QED  BY <1>3, <3>2, <3>6, <4>1, <4>2 DEF IInv, OneLife
    <3> QED  BY <3>4, <3>5, <3>6 DEF OneLife
  <2>9. CreatorsBounded'
    BY <1>3, <2>4, FiniteThreads, EventAssumption DEF IInv, Types, CreatorsBounded
  <2> QED  BY <2>6, <2>7, <2>8, <2>9 DEF IInv
<1> QED  BY <1>1, <1>2, <1>3 DEF CreateEventQueue

\* XmlEventQueue::AddEvent: the event is one of those the bound allows for.
LEMMA AddKeeps ==
  ASSUME IInv, NEW t \in Thread, Add(t),
         UNCHANGED <<queues, maxId, listUse, queueUse, cancel, sent, freed, calls>>,
         shared' = shared \cup Doubled(call')
  PROVE  IInv'
<1> DEFINE q == call[t].id
<1>0. /\ Types /\ {"add_signal", "add_done"} \subseteq Steps
      /\ {"add", "add_signal", "add_done"} \subseteq Named
      /\ {"add", "add_signal", "add_done"} \subseteq Using
      /\ "add" \in Adding
      /\ {"add_signal", "add_done"} \cap (Creating \cup Destroying \cup Adding) = {}
  BY DEF IInv, Steps, Named, Adding, Using, Producing, Streaming, Creating, Destroying
<1>1. CASE /\ At(t, "add") /\ Goto(t, "add_signal")
           /\ events' = [events EXCEPT ![call[t].id] = Append(@, added[call[t].id] + 1)]
           /\ added' = [added EXCEPT ![call[t].id] = @ + 1]
  <2>1. Moves(t) /\ call[t].at = "add" /\ call'[t].at = "add_signal" /\ call'[t].id = q
    BY <1>0, <1>1, GotoMoves DEF At
  <2>2. q \in Queue
    BY <1>0, <2>1 DEF Types
  <2>3. t \in Adders(q) /\ Adders(q)' = Adders(q) \ {t}
    BY <1>0, <2>1, OthersStay DEF Adders, On
  <2>4. Cardinality(Adders(q)') = Cardinality(Adders(q)) - 1 /\ Cardinality(Adders(q)') \in Nat
    BY <2>3, FiniteThreads, FS_RemoveElement, FS_CardinalityType
  <2>5. added[q] \in Nat /\ added[q] + Cardinality(Adders(q)) <= MaxEvent
    BY <2>2 DEF IInv, AddersBounded, Types
  <2>6. added[q] + 1 \in 1..MaxEvent
    BY <2>4, <2>5, FiniteThreads, EventAssumption
  <2>7. /\ added' \in [Queue -> 0..MaxEvent] /\ added'[q] = added[q] + 1
        /\ \A p \in Queue : p # q => added'[p] = added[p]
    BY <1>0, <1>1, <2>2, <2>6 DEF Types
  <2>8. /\ events' \in [Queue -> Seq(1..MaxEvent)]
        /\ Len(events'[q]) = Len(events[q]) + 1
        /\ \A p \in Queue : p # q => events'[p] = events[p]
    <3>1. events[q] \in Seq(1..MaxEvent)
      BY <1>0, <2>2 DEF Types
    <3>2. /\ Append(events[q], added[q] + 1) \in Seq(1..MaxEvent)
          /\ Len(Append(events[q], added[q] + 1)) = Len(events[q]) + 1
      BY <2>6, <3>1
    <3> QED  BY <1>0, <1>1, <2>2, <3>2 DEF Types
  <2>9. Types'
    <3>1. shared' \subseteq Queue
      BY <1>0 DEF Types, Doubled
    <3>2. \A u \in Thread : call'[u].at \in Named => call'[u].id \in Queue
      BY <1>0, <2>1, <2>2, OthersStay DEF Types
    <3>3. ASSUME NEW p \in Queue PROVE Len(events'[p]) <= added'[p]
      <4>1. Len(events[p]) <= added[p] /\ added[p] \in Nat /\ Len(events[p]) \in Nat
        BY <1>0 DEF Types
      <4>2. CASE p = q
        BY <2>7, <2>8, <4>1, <4>2
      <4>3. CASE p # q
        BY <2>7, <2>8, <4>1, <4>3
      <4> QED  BY <4>2, <4>3
    <3> QED  BY <1>0, <2>1, <2>7, <2>8, <3>1, <3>2, <3>3 DEF Types, Moves
  <2>10. QueuesHeld' /\ OneLife' /\ CreatorsBounded'
    BY <1>0, <2>1, HeldKeep, LifeKeep, CreatorsKeep
  <2>11. ASSUME NEW p \in Queue PROVE added'[p] + Cardinality(Adders(p)') <= MaxEvent
    <3>1. CASE p = q
      <4>1. Adders(p)' = Adders(q)'
        BY <2>1, <3>1 DEF Adders, On
      <4> QED  BY <2>4, <2>5, <2>7, <3>1, <4>1, FiniteThreads
    <3>2. CASE p # q
      <4>1. Adders(p)' = Adders(p)
        BY <2>1, <3>2, OthersStay DEF Adders, On
      <4> QED  BY <2>7, <3>2, <4>1 DEF IInv, AddersBounded
    <3> QED  BY <3>1, <3>2
  <2> QED  BY <2>9, <2>10, <2>11 DEF IInv, AddersBounded
<1>2. CASE /\ At(t, "add_signal") /\ Signal(t, call[t].id, "add_done")
           /\ UNCHANGED <<events, added>>
  <2>1. call[t].at = "add_signal"
    BY <1>2 DEF At
  <2>2. Moves(t) /\ call'[t].at = "add_done" /\ call'[t].id = q
    BY <1>0, <1>2, <2>1, SignalMoves
  <2>3. q \in Queue
    BY <1>0, <2>1 DEF Types
  <2>4. Types'
    BY <1>0, <1>2, <2>2, <2>3, TypesKeep DEF Types, queueData
  <2> QED  BY <1>0, <1>2, <2>1, <2>2, <2>4, QuietKeeps
<1> QED  BY <1>1, <1>2 DEF Add

\* AddEvent, from the look up of the queue to its release
LEMMA AddEventKeeps ==
  ASSUME IInv, NEW t \in Thread, AddEvent(t), shared' = shared \cup Doubled(call')
  PROVE  IInv'
<1>1. ASSUME NEW q \in Queue,
             added[q] + Cardinality({u \in Thread : On(u, q) /\ call[u].at \in
                           {"add_list", "add_find", "add_listed", "add"}}) < MaxEvent,
             Start(t, "add_list", q)
      PROVE  IInv'
  <2>0. Types /\ "add_list" \in Steps /\ q \in 0..MaxQueue
    BY EventAssumption DEF IInv, Steps, Named, Adding, Queue
  <2>1. /\ Moves(t) /\ call[t].at = "idle" /\ call'[t].at = "add_list" /\ call'[t].id = q
        /\ UNCHANGED <<queues, maxId, listUse, queueUse, queueData, freed>>
        /\ calls' \in 0..MaxCalls
    BY <1>1, <2>0, StartMoves
  <2>2. /\ call'[t].at \notin Using \cup Destroying \cup Creating
        /\ call[t].at \notin Using \cup Adding /\ call'[t].at \in Adding
    BY <2>1 DEF Named, Adding, Using, Producing, Streaming, Destroying, Creating
  <2>3. Types'
    BY <2>0, <2>1, TypesKeep DEF Types
  <2>4. QueuesHeld' /\ OneLife' /\ CreatorsBounded'
    BY <2>1, <2>2, HeldKeep, LifeKeep, CreatorsKeep
  <2>5. ASSUME NEW p \in Queue PROVE added'[p] + Cardinality(Adders(p)') <= MaxEvent
    <3>1. added' = added /\ added[p] \in Nat
      BY <2>0, <2>1 DEF queueData, Types
    <3>2. CASE p = q
      <4>1. t \notin Adders(q) /\ Adders(q)' = Adders(q) \cup {t}
        BY <2>1, <2>2, OthersStay DEF Adders, On
      <4>2. Cardinality(Adders(q)') = Cardinality(Adders(q)) + 1
        BY <4>1, FiniteThreads, FS_AddElement
      <4>3. added[q] + Cardinality(Adders(q)) < MaxEvent
        BY <1>1 DEF Adders, Adding
      <4> QED  BY <3>1, <3>2, <4>2, <4>3, FiniteThreads, EventAssumption
    <3>3. CASE p # q
      <4>1. Adders(p)' = Adders(p)
        BY <2>1, <2>2, <3>3, OthersStay DEF Adders, On
      <4> QED  BY <3>1, <4>1 DEF IInv, AddersBounded
    <3> QED  BY <3>2, <3>3
  <2> QED  BY <2>3, <2>4, <2>5 DEF IInv, AddersBounded
<1>2. CASE FindQueue(t, "add_list", "add_find", "add_listed", "add")
  BY <1>2, FindQueueKeeps
<1>3. CASE Add(t) /\ UNCHANGED <<queues, maxId, listUse, queueUse, cancel, sent, freed, calls>>
  BY <1>3, AddKeeps
<1>4. CASE DecUse(t, "add_done", "add_dec_signal")
  BY <1>4, DecUseKeeps
<1> QED  BY <1>1, <1>2, <1>3, <1>4 DEF AddEvent

\* What a stream does between IncUse and DecUse keeps the invariant, as long as
\* the events and what was sent keep their types and no event appears.
LEMMA StreamStepKeeps ==
  ASSUME IInv, NEW t \in Thread, Moves(t), call[t].at \in Streaming, call'[t].at \in Streaming,
         call'[t].id = call[t].id,
         events' \in [Queue -> Seq(1..MaxEvent)], sent' \in [Queue -> Seq(0..MaxEvent)],
         \A q \in Queue : events'[q] = events[q] \/ Len(events'[q]) <= Len(events[q]),
         UNCHANGED <<queues, maxId, listUse, queueUse, cancel, added, freed, calls>>,
         shared' = shared \cup Doubled(call')
  PROVE  IInv'
<1>0. /\ Types /\ Streaming \subseteq Using /\ Streaming \subseteq Named
      /\ Streaming \cap (Creating \cup Adding \cup Destroying) = {}
  BY DEF IInv, Named, Adding, Using, Producing, Streaming, Destroying, Creating
<1>1. shared' \subseteq Queue
  BY <1>0 DEF Types, Doubled
<1>2. \A u \in Thread : call'[u].at \in Named => call'[u].id \in Queue
  BY <1>0, OthersStay DEF Types
<1>3. ASSUME NEW q \in Queue PROVE Len(events'[q]) <= added'[q]
  <2>1. /\ Len(events'[q]) \in Nat /\ Len(events[q]) \in Nat /\ added[q] \in Nat
        /\ Len(events[q]) <= added[q]
    BY <1>0 DEF Types
  <2> QED  BY <2>1, SMTT(30)
<1>4. Types'
  BY <1>0, <1>1, <1>2, <1>3 DEF Types, Moves
<1> QED  BY <1>0, <1>4, QuietKeeps

\* ProcessRequest, a stream
LEMMA ProcessRequestKeeps ==
  ASSUME IInv, NEW t \in Thread, ProcessRequest(t), shared' = shared \cup Doubled(call')
  PROVE  IInv'
<1> DEFINE q == call[t].id
           rest == UNCHANGED <<queues, maxId, listUse, queueUse, cancel, added, freed, calls>>
<1>0. /\ Types /\ Streaming \subseteq Steps /\ Streaming \subseteq Named
      /\ {"stream", "asleep", "peek", "send", "pop", "stream_done"} \subseteq Streaming
  BY DEF IInv, Steps, Named, Using, Streaming
<1>1. ASSUME NEW p \in Queue, Start(t, "stream_list", p) PROVE IInv'
  <2>0. "stream_list" \in Steps /\ p \in 0..MaxQueue
    BY EventAssumption DEF Steps, Named, Queue
  <2>1. /\ Moves(t) /\ call[t].at = "idle" /\ call'[t].at = "stream_list" /\ call'[t].id = p
        /\ UNCHANGED <<queues, maxId, listUse, queueUse, queueData, freed>>
        /\ calls' \in 0..MaxCalls
    BY <1>0, <1>1, <2>0, StartMoves
  <2>2. call'[t].at \notin Using /\ call[t].at \notin Using
    BY <2>1 DEF Using, Producing, Streaming
  <2>3. Types'
    BY <1>0, <2>1, TypesKeep DEF Types
  <2> QED  BY <2>1, <2>2, <2>3, QuietKeeps DEF queueData
<1>2. CASE FindQueue(t, "stream_list", "stream_find", "stream_listed", "stream")
  BY <1>2, FindQueueKeeps
<1>3. ASSUME call[t].at \in Streaming PROVE q \in Queue /\ events[q] \in Seq(1..MaxEvent)
  BY <1>0, <1>3 DEF Types
<1>4. CASE WaitForEvent(t) /\ UNCHANGED <<events, sent>> /\ rest
  <2>1. PICK to \in {"stream_done", "peek", "asleep"} : Goto(t, to)
    BY <1>4 DEF WaitForEvent
  <2>2. call[t].at \in Streaming
    BY <1>0, <1>4 DEF WaitForEvent, At
  <2>3. Moves(t) /\ call'[t].at = to /\ call'[t].id = q
    BY <1>0, <2>1, GotoMoves
  <2> QED  BY <1>0, <1>4, <2>2, <2>3, StreamStepKeeps DEF Types
<1>5. CASE PeekXMLEvent(t) /\ UNCHANGED sent /\ rest
  <2>1. call[t].at = "peek" /\ call[t].at \in Streaming /\ events' = events
    BY <1>0, <1>5 DEF PeekXMLEvent, At
  <2>2. Moves(t) /\ call'[t].at \in Streaming /\ call'[t].id = q
    <3>1. ASSUME NEW to \in {"stream", "stream_done"}, Goto(t, to)
          PROVE  Moves(t) /\ call'[t].at \in Streaming /\ call'[t].id = q
      BY <1>0, <3>1, GotoMoves
    <3>2. CASE /\ events[q] # <<>>
               /\ call' = [call EXCEPT ![t].at = "send", ![t].event = Head(events[q])]
      <4>1. Head(events[q]) \in 0..MaxEvent
        <5>1. events[q] \in Seq(1..MaxEvent) /\ events[q] # <<>>
          BY <1>3, <2>1, <3>2
        <5>2. \A s \in Seq(1..MaxEvent) : s # <<>> => Head(s) \in 1..MaxEvent
          BY EventAssumption
        <5> QED  BY <5>1, <5>2
      <4> QED  BY <1>0, <3>2, <4>1 DEF Types, CallType, Moves
    <3> QED  BY <1>5, <3>1, <3>2 DEF PeekXMLEvent
  <2> QED  BY <1>0, <1>5, <2>1, <2>2, StreamStepKeeps DEF Types
<1>6. CASE Send(t) /\ UNCHANGED events /\ rest
  <2>1. call[t].at = "send" /\ call[t].at \in Streaming
    BY <1>0, <1>6 DEF Send, At
  <2>2. PICK to \in {"pop", "stream_done"} : Goto(t, to)
    BY <1>6 DEF Send
  <2>3. Moves(t) /\ call'[t].at = to /\ call'[t].id = q
    BY <1>0, <2>2, GotoMoves
  <2>4. sent' \in [Queue -> Seq(0..MaxEvent)]
    <3>1. sent[q] \in Seq(0..MaxEvent) /\ call[t].event \in 0..MaxEvent
      BY <1>0, <1>3, <2>1 DEF Types, CallType
    <3>2. Append(sent[q], call[t].event) \in Seq(0..MaxEvent)
      BY <3>1
    <3> QED  BY <1>0, <1>6, <3>2 DEF Send, Types
  <2> QED  BY <1>0, <1>6, <2>1, <2>3, <2>4, StreamStepKeeps DEF Types
<1>7. CASE PopEvent(t) /\ UNCHANGED sent /\ rest
  <2>1. call[t].at = "pop" /\ call[t].at \in Streaming /\ Goto(t, "stream")
    BY <1>0, <1>7 DEF PopEvent, At
  <2>2. Moves(t) /\ call'[t].at = "stream" /\ call'[t].id = q
    BY <1>0, <2>1, GotoMoves
  <2> DEFINE rem == IF events[q] = <<>> THEN events[q] ELSE Tail(events[q])
  <2>3. rem \in Seq(1..MaxEvent) /\ Len(rem) <= Len(events[q])
    <3>1. events[q] \in Seq(1..MaxEvent)
      BY <1>3, <2>1
    <3>2. CASE events[q] = <<>>
      BY <3>1, <3>2, LenProperties
    <3>3. CASE events[q] # <<>>
      <4>1. Tail(events[q]) \in Seq(1..MaxEvent) /\ Len(Tail(events[q])) = Len(events[q]) - 1
        BY <3>1, <3>3, HeadTailProperties
      <4> QED  BY <3>1, <3>3, <4>1, LenProperties
    <3> QED  BY <3>2, <3>3
  <2>4. events' = [events EXCEPT ![q] = rem]
    BY <1>7 DEF PopEvent
  <2>5. /\ events' \in [Queue -> Seq(1..MaxEvent)]
        /\ \A p \in Queue : Len(events'[p]) <= Len(events[p])
    <3> HIDE DEF rem
    <3>1. events' \in [Queue -> Seq(1..MaxEvent)]
      BY <1>0, <2>3, <2>4 DEF Types
    <3>2. ASSUME NEW p \in Queue PROVE Len(events'[p]) <= Len(events[p])
      <4>1. CASE p = q
        BY <1>0, <2>3, <2>4, <4>1 DEF Types
      <4>2. CASE p # q
        BY <1>0, <2>4, <4>2 DEF Types
      <4> QED  BY <4>1, <4>2
    <3> QED  BY <3>1, <3>2
  <2> QED  BY <1>0, <1>7, <2>1, <2>2, <2>5, StreamStepKeeps DEF Types
<1>8. CASE DecUse(t, "stream_done", "stream_dec_signal")
  BY <1>8, DecUseKeeps
<1> QED  BY <1>1, <1>2, <1>4, <1>5, <1>6, <1>7, <1>8 DEF ProcessRequest

\* DestroyEventQueue: the thread that takes a queue out of the map is the only one
\* to delete it, when its users have left.
LEMMA DestroyEventQueueKeeps ==
  ASSUME IInv, NEW t \in Thread, DestroyEventQueue(t), shared' = shared \cup Doubled(call')
  PROVE  IInv'
<1> DEFINE q == call[t].id
<1>0. /\ Types /\ Destroying \subseteq Steps /\ Destroying \subseteq Named
      /\ {"destroy", "destroy_own"} \subseteq Named /\ "destroy" \in Steps
      /\ {"cancel", "cancel_signal", "destroy_claim", "destroy_wait"} \subseteq Destroying
      /\ Destroying \cap (Using \cup Creating \cup Adding) = {}
      /\ {"destroy_own", "destroy", "idle"} \cap (Using \cup Creating \cup Adding \cup Destroying) = {}
      /\ "idle" \notin Named
  BY DEF IInv, Steps, Named, Adding, Using, Producing, Streaming, Destroying, Creating
<1>1. ASSUME NEW p \in Queue, Start(t, "destroy", p) PROVE IInv'
  <2>0. p \in 0..MaxQueue
    BY EventAssumption DEF Queue
  <2>1. /\ Moves(t) /\ call[t].at = "idle" /\ call'[t].at = "destroy" /\ call'[t].id = p
        /\ UNCHANGED <<queues, maxId, listUse, queueUse, queueData, freed>>
        /\ calls' \in 0..MaxCalls
    BY <1>0, <1>1, <2>0, StartMoves
  <2>2. Types'
    BY <1>0, <2>1, TypesKeep DEF Types
  <2> QED  BY <1>0, <2>1, <2>2, QuietKeeps DEF queueData
<1>2. CASE Claim(t, "destroy", "destroy_own")
  BY <1>2, ClaimKeeps
<1>3. CASE /\ At(t, "destroy_own") /\ OwnAndUnlock(t) /\ Return(t)
           /\ UNCHANGED <<queues, maxId, queueUse, queueData, freed>>
  <2>1. Moves(t) /\ call[t].at = "destroy_own" /\ call'[t].at = "idle"
    BY <1>0, <1>3, ReturnMoves DEF At
  <2>2. listUse' \in RW!Lock /\ calls' = calls
    BY <1>0, <1>3, LockTypes DEF OwnAndUnlock, Types
  <2>3. Types'
    BY <1>0, <1>3, <2>1, <2>2, TypesKeep DEF Types
  <2> QED  BY <1>0, <1>3, <2>1, <2>3, QuietKeeps DEF queueData
<1>4. CASE /\ At(t, "destroy_own") /\ OwnAndUnlock(t)
           /\ call[t].id \in queues /\ queues' = queues \ {call[t].id}
           /\ Goto(t, "cancel")
           /\ UNCHANGED <<maxId, queueUse, queueData, freed>>
  <2>1. Moves(t) /\ call[t].at = "destroy_own" /\ call'[t].at = "cancel" /\ call'[t].id = q
    BY <1>0, <1>4, GotoMoves DEF At
  <2>2. listUse' \in RW!Lock /\ calls' = calls /\ q \in Queue
    BY <1>0, <1>4, LockTypes DEF OwnAndUnlock, Types
  <2>3. Types'
    <3>1. shared' \subseteq Queue
      BY <1>0 DEF Types, Doubled
    <3>2. \A u \in Thread : call'[u].at \in Named => call'[u].id \in Queue
      BY <1>0, <2>1, <2>2, OthersStay DEF Types
    <3> QED  BY <1>0, <1>4, <2>1, <2>2, <3>1, <3>2 DEF Types, Moves, queueData
  <2>4. QueuesHeld' /\ CreatorsBounded' /\ AddersBounded'
    BY <1>0, <1>4, <2>1, HeldKeep, CreatorsKeep, AddersKeep DEF queueData
  <2>5. OneLife'
    <3>1. q < maxId /\ q \notin freed
      BY <1>4 DEF IInv, OneLife
    <3>2. \A u \in Thread : call[u].at \in Destroying => call[u].id # q
      BY <1>4 DEF IInv, OneLife
    <3>3. \A u \in Thread :
             /\ call'[u].at \in Using => call[u].at \in Using /\ call'[u].id = call[u].id
             /\ u # t /\ call'[u].at \in Destroying =>
                   call[u].at \in Destroying /\ call'[u].id = call[u].id
      BY <1>0, <2>1, OthersStay
    <3>4. /\ queues' \cap freed' = {} /\ \A p \in queues' \cup freed' : p < maxId'
          /\ \A u \in Thread : call'[u].at \in Using => call'[u].id \notin freed' /\ call'[u].id < maxId'
      BY <1>4, <3>3 DEF IInv, OneLife
    <3>5. ASSUME NEW u \in Thread, call'[u].at \in Destroying
          PROVE  /\ call'[u].id < maxId'
                 /\ call'[u].id \notin queues' \cup freed'
                 /\ \A v \in Thread : call'[v].at \in Destroying /\ call'[v].id = call'[u].id => v = u
      <4>1. CASE u = t
        BY <1>4, <2>1, <3>1, <3>2, <3>3, <4>1
      <4>2. CASE u # t
        BY <1>4, <2>1, <3>2, <3>3, <3>5, <4>2 DEF IInv, OneLife
      <4> QED  BY <4>1, <4>2
    <3> QED  BY <3>4, <3>5 DEF OneLife
  <2> QED  BY <2>3, <2>4, <2>5 DEF IInv
<1>5. CASE Cancel(t) /\ UNCHANGED <<queues, maxId, listUse, queueUse, events, added, sent, freed, calls>>
  <2>1. call[t].at \in {"cancel", "cancel_signal"} /\ q \in Queue
    BY <1>0, <1>5 DEF Cancel, At, Types
  <2>2. Moves(t) /\ call'[t].at \in {"cancel_signal", "destroy_claim"} /\ call'[t].id = q
    BY <1>0, <1>5, <2>1, GotoMoves, SignalMoves DEF Cancel, At
  <2>3. cancel' \subseteq Queue
    BY <1>0, <1>5, <2>1 DEF Cancel, Types
  <2>4. Types'
    <3>1. shared' \subseteq Queue
      BY <1>0 DEF Types, Doubled
    <3>2. \A u \in Thread : call'[u].at \in Named => call'[u].id \in Queue
      BY <1>0, <2>1, <2>2, OthersStay DEF Types
    <3> QED  BY <1>0, <1>5, <2>2, <2>3, <3>1, <3>2 DEF Types, Moves
  <2> QED  BY <1>0, <1>5, <2>1, <2>2, <2>4, QuietKeeps
<1>6. CASE /\ At(t, "destroy_claim") /\ RW!CanClaim(queueUse[call[t].id])
           /\ queueUse' = [queueUse EXCEPT ![call[t].id] = RW!Claimed(@, t)]
           /\ Goto(t, "destroy_wait")
           /\ UNCHANGED <<queues, maxId, listUse, queueData, freed, calls>>
  <2>1. Moves(t) /\ call[t].at = "destroy_claim" /\ call'[t].at = "destroy_wait" /\ call'[t].id = q
    BY <1>0, <1>6, GotoMoves DEF At
  <2>2. q \in Queue
    BY <1>0, <2>1 DEF Types
  <2>3. /\ queueUse' \in [Queue -> RW!Lock]
        /\ \A p \in Queue : queueUse'[p].users = queueUse[p].users
    <3>1. queueUse[q] \in RW!Lock
      BY <1>0, <2>2 DEF Types
    <3>2. /\ RW!Claimed(queueUse[q], t) \in RW!Lock
          /\ RW!Claimed(queueUse[q], t).users = queueUse[q].users
      BY <3>1, LockTypes
    <3> QED  BY <1>0, <1>6, <2>2, <3>2 DEF Types
  <2>4. Types'
    <3>1. shared' \subseteq Queue
      BY <1>0 DEF Types, Doubled
    <3>2. \A u \in Thread : call'[u].at \in Named => call'[u].id \in Queue
      BY <1>0, <2>1, <2>2, OthersStay DEF Types
    <3> QED  BY <1>0, <1>6, <2>1, <2>3, <3>1, <3>2 DEF Types, Moves, queueData
  <2>5. QueuesHeld'
    <3> SUFFICES ASSUME NEW u \in Thread, NEW p \in Queue
                 PROVE  u \in queueUse'[p].users <=> call'[u].at \in Using /\ call'[u].id = p
      BY DEF QueuesHeld
    <3>1. u \in queueUse[p].users <=> call[u].at \in Using /\ call[u].id = p
      BY DEF IInv, QueuesHeld
    <3> QED  BY <1>0, <2>1, <2>3, <3>1, OthersStay
  <2>6. OneLife' /\ CreatorsBounded' /\ AddersBounded'
    BY <1>0, <1>6, <2>1, LifeKeep, CreatorsKeep, AddersKeep DEF queueData
  <2> QED  BY <2>4, <2>5, <2>6 DEF IInv
<1>7. CASE /\ At(t, "destroy_wait") /\ QueueIsUnused(call[t].id)
           /\ freed' = freed \cup {call[t].id}
           /\ Return(t)
           /\ UNCHANGED <<queues, maxId, listUse, queueUse, queueData, calls>>
  <2>1. Moves(t) /\ call[t].at = "destroy_wait" /\ call'[t].at = "idle" /\ call[t].at \in Destroying
    BY <1>0, <1>7, ReturnMoves DEF At
  <2>2. q \in Queue /\ queueUse[q].users = {}
    BY <1>0, <1>7, <2>1 DEF Types, QueueIsUnused, RW!IsUnused
  <2>3. Types'
    <3>1. shared' \subseteq Queue
      BY <1>0 DEF Types, Doubled
    <3>2. \A u \in Thread : call'[u].at \in Named => call'[u].id \in Queue
      BY <1>0, <2>1, OthersStay DEF Types
    <3>3. freed' \subseteq Queue
      BY <1>0, <1>7, <2>2 DEF Types
    <3> QED  BY <1>0, <1>7, <2>1, <3>1, <3>2, <3>3 DEF Types, Moves, queueData
  <2>4. QueuesHeld' /\ CreatorsBounded' /\ AddersBounded'
    BY <1>0, <1>7, <2>1, HeldKeep, CreatorsKeep, AddersKeep DEF queueData
  <2>5. OneLife'
    <3>1. /\ q < maxId /\ q \notin queues
          /\ \A u \in Thread : call[u].at \in Destroying /\ call[u].id = q => u = t
      BY <2>1 DEF IInv, OneLife
    <3>2. \A u \in Thread : call[u].at \in Using => call[u].id # q
      BY <2>2 DEF IInv, QueuesHeld
    <3>3. \A u \in Thread :
             /\ call'[u].at \in Using => call[u].at \in Using /\ call'[u].id = call[u].id
             /\ call'[u].at \in Destroying =>
                   u # t /\ call[u].at \in Destroying /\ call'[u].id = call[u].id
      BY <1>0, <2>1, OthersStay
    <3>4. /\ queues' \cap freed' = {} /\ \A p \in queues' \cup freed' : p < maxId'
      BY <1>7, <3>1 DEF IInv, OneLife
    <3>5. \A u \in Thread : call'[u].at \in Using => call'[u].id \notin freed' /\ call'[u].id < maxId'
      BY <1>7, <3>2, <3>3 DEF IInv, OneLife
    <3>6. ASSUME NEW u \in Thread, call'[u].at \in Destroying
          PROVE  /\ call'[u].id < maxId'
                 /\ call'[u].id \notin queues' \cup freed'
                 /\ \A v \in Thread : call'[v].at \in Destroying /\ call'[v].id = call'[u].id => v = u
      BY <1>7, <3>1, <3>3, <3>6 DEF IInv, OneLife
    <3> QED  BY <3>4, <3>5, <3>6 DEF OneLife
  <2> QED  BY <2>3, <2>4, <2>5 DEF IInv
<1> QED  BY <1>1, <1>2, <1>3, <1>4, <1>5, <1>6, <1>7 DEF DestroyEventQueue

-----------------------------------------------------------------------------
(* No queue is used after it is deleted                                    *)

\* There is no queue at first, and every thread is idle.
LEMMA InitIInv == Init => IInv
<1> SUFFICES ASSUME Init PROVE IInv  OBVIOUS
<1>1. \A t \in Thread : call[t] = Idle
  BY DEF Init
<1>2. Idle.at \notin Named \cup Using \cup Creating \cup Adding \cup Destroying
  BY DEF Idle, Named, Using, Creating, Adding, Destroying, Producing, Streaming
<1>3. Types
  <2>1. Idle \in CallType
    BY EventAssumption DEF Idle, CallType, Steps
  <2>2. RW!Unlocked \in RW!Lock
    BY DEF RW!Unlocked, RW!Lock
  <2>3. <<>> \in Seq(1..MaxEvent) /\ <<>> \in Seq(0..MaxEvent) /\ Len(<<>>) = 0
    BY EmptySeq
  <2>4. \A q \in Queue : Len(events[q]) <= added[q]
    BY <2>3 DEF Init
  <2> QED  BY <1>1, <1>2, <2>1, <2>2, <2>3, <2>4, EventAssumption DEF Init, Types
<1>4. QueuesHeld /\ OneLife
  BY <1>1, <1>2 DEF Init, QueuesHeld, OneLife, RW!Unlocked
<1>5. CreatorsBounded /\ AddersBounded
  <2>1. Creators = {} /\ \A q : Adders(q) = {}
    BY <1>1, <1>2 DEF Creators, Adders
  <2>2. Cardinality(Creators) = 0 /\ \A q : Cardinality(Adders(q)) = 0
    BY <2>1, FS_EmptySet
  <2>3. maxId = 1 /\ \A q \in Queue : added[q] = 0
    BY DEF Init
  <2> QED  BY <2>2, <2>3, EventAssumption DEF CreatorsBounded, AddersBounded
<1> QED  BY <1>3, <1>4, <1>5 DEF IInv

\* Every step keeps the inductive invariant.
LEMMA NextIInv == IInv /\ [Next]_vars => IInv'
<1> SUFFICES ASSUME IInv, [Next]_vars PROVE IInv'  OBVIOUS
<1>1. CASE UNCHANGED vars
  <2>1. Types' /\ QueuesHeld' /\ OneLife'
    BY <1>1 DEF IInv, vars, queueData, Types, QueuesHeld, OneLife
  <2>2. CreatorsBounded' /\ AddersBounded'
    BY <1>1 DEF IInv, vars, queueData, CreatorsBounded, AddersBounded, Creators, Adders, On
  <2> QED  BY <2>1, <2>2 DEF IInv
<1>2. CASE Next
  BY <1>2, CreateEventQueueKeeps, AddEventKeeps, ProcessRequestKeeps, DestroyEventQueueKeeps
  DEF Next, Step
<1> QED  BY <1>1, <1>2

\* The inductive invariant holds in every state.
LEMMA InvariantHolds == Spec => []IInv
BY InitIInv, NextIInv, PTL DEF Spec

\* xmlstreaminghandler.cpp AddEvent, ProcessRequest, DestroyEventQueue: for any
\* number of threads, a queue is deleted once and never while a thread that found
\* it in the map still adds to it or streams it.
THEOREM QueuesSound == Spec => []QueuesAreSound
<1>1. IInv => QueuesAreSound
  <2> SUFFICES ASSUME IInv PROVE QueuesAreSound  OBVIOUS
  <2>1. QueueOutlivesItsUsers
    BY DEF IInv, OneLife, QueueOutlivesItsUsers, Using
  <2>2. ASSUME NEW q \in Queue
        PROVE  /\ Len(events[q]) <= MaxEvent
               /\ \A i \in DOMAIN events[q] : events[q][i] \in 1..MaxEvent
               /\ added[q] \in 0..MaxEvent
    <3>1. /\ events[q] \in Seq(1..MaxEvent) /\ added[q] \in 0..MaxEvent
          /\ Len(events[q]) <= added[q]
      BY DEF IInv, Types
    <3>2. events[q] \in [1..Len(events[q]) -> 1..MaxEvent] /\ Len(events[q]) \in Nat
      BY <3>1, LenProperties
    <3> QED  BY <3>1, <3>2, EventAssumption
  <2>3. TypeOK
    BY <2>2 DEF IInv, Types, TypeOK, CallType
  <2> QED  BY <2>1, <2>3 DEF QueuesAreSound
<1> QED  BY <1>1, InvariantHolds, PTL

-----------------------------------------------------------------------------
(* What a step does to the events of a queue                               *)

Waking == {"add_signal", "cancel_signal"}

\* It leaves them alone, ...
Quiet(t) == /\ Moves(t) /\ UNCHANGED queueData
            /\ call[t].at \notin Waking \cup {"pop"}
            /\ call'[t].at \notin {"asleep", "send", "pop"}

\* ... finds none and sleeps, ...
Sleeps(t) == /\ At(t, "stream") /\ Goto(t, "asleep")
             /\ events[call[t].id] = <<>> /\ call[t].id \notin cancel
             /\ UNCHANGED queueData

\* ... adds one, ...
Appends(t) == /\ At(t, "add") /\ Goto(t, "add_signal")
              /\ events' = [events EXCEPT ![call[t].id] = Append(@, added[call[t].id] + 1)]
              /\ added' = [added EXCEPT ![call[t].id] = @ + 1]
              /\ UNCHANGED <<cancel, sent>>

\* ... wakes a sleeper, ...
Wakes(t) == /\ call[t].at \in Waking
            /\ \E to \in {"add_done", "destroy_claim"} : Signal(t, call[t].id, to)
            /\ UNCHANGED queueData

\* ... cancels the queue, ...
Cancels(t) == /\ At(t, "cancel") /\ Goto(t, "cancel_signal")
              /\ cancel' = cancel \cup {call[t].id}
              /\ UNCHANGED <<events, added, sent>>

\* ... or looks at the first, sends it or removes it.
Peeks(t) == /\ At(t, "peek") /\ events[call[t].id] # <<>>
            /\ call' = [call EXCEPT ![t].at = "send", ![t].event = Head(events[call[t].id])]
            /\ UNCHANGED queueData

Sends(t) == /\ At(t, "send") /\ Goto(t, "pop")
            /\ sent' = [sent EXCEPT ![call[t].id] = Append(@, call[t].event)]
            /\ UNCHANGED <<events, cancel, added>>

Pops(t) == /\ At(t, "pop") /\ Goto(t, "stream")
           /\ events' = [events EXCEPT ![call[t].id] = IF @ = <<>> THEN @ ELSE Tail(@)]
           /\ UNCHANGED <<cancel, added, sent>>

\* Every step is one of these.
LEMMA StepKinds ==
  ASSUME IInv, NEW t \in Thread, Step(t)
  PROVE  \/ Quiet(t) \/ Sleeps(t) \/ Appends(t) \/ Wakes(t) \/ Cancels(t)
         \/ Peeks(t) \/ Sends(t) \/ Pops(t)
<1>0. Types /\ \A q \in Queue : q \in 0..MaxQueue
  BY DEF IInv, Queue
<1>1. ASSUME NEW step \in {"create", "add_list", "stream_list", "destroy"},
             NEW id \in 0..MaxQueue, Start(t, step, id)
      PROVE  Quiet(t)
  <2>1. step \in Steps
    BY DEF Steps, Named, Adding, Creating
  <2> QED  BY <1>0, <1>1, <2>1, StartMoves DEF Quiet, Waking
<1>2. ASSUME NEW from, NEW to \in Steps, At(t, from), Goto(t, to), UNCHANGED queueData,
             from \notin Waking \cup {"pop"}, to \notin {"asleep", "send", "pop"}
      PROVE  Quiet(t)
  BY <1>0, <1>2, GotoMoves DEF Quiet, At
<1>3. ASSUME NEW from, At(t, from), Return(t), UNCHANGED queueData, from \notin Waking \cup {"pop"}
      PROVE  Quiet(t)
  BY <1>0, <1>3, ReturnMoves DEF Quiet, At
<1>4. {"create_own", "destroy_own", "add_find", "add_listed", "add", "add_dec_signal", "stream_find",
       "stream_listed", "stream", "stream_done", "stream_dec_signal", "peek", "cancel",
       "destroy_wait"} \subseteq Steps
  BY DEF Steps, Named, Adding, Creating, Using, Producing, Streaming, Destroying
<1>5. ASSUME CreateEventQueue(t) PROVE Quiet(t)
  <2>1. CASE Start(t, "create", 0)
    BY <1>1, <2>1, EventAssumption
  <2>2. CASE Claim(t, "create", "create_own")
    BY <1>2, <1>4, <2>2 DEF Claim, Waking
  <2>3. CASE At(t, "create_own") /\ Return(t) /\ UNCHANGED queueData
    BY <1>3, <2>3 DEF Waking
  <2> QED  BY <1>5, <2>1, <2>2, <2>3 DEF CreateEventQueue
<1>6. ASSUME NEW from, NEW find, NEW listed, NEW to, FindQueue(t, from, find, listed, to),
             {find, listed, to} \subseteq Steps,
             {from, find, listed} \cap (Waking \cup {"pop"}) = {},
             {find, listed, to} \cap {"asleep", "send", "pop"} = {}
      PROVE  Quiet(t)
  BY <1>2, <1>3, <1>6 DEF FindQueue
<1>7. ASSUME NEW from, NEW to, DecUse(t, from, to), to \in Steps,
             {from, to} \cap (Waking \cup {"pop"}) = {}, to \notin {"asleep", "send", "pop"}
      PROVE  Quiet(t)
  BY <1>2, <1>3, <1>7 DEF DecUse
<1>8. ASSUME AddEvent(t) PROVE Quiet(t) \/ Appends(t) \/ Wakes(t)
  <2>1. CASE \E q \in Queue : Start(t, "add_list", q)
    BY <1>0, <1>1, <2>1
  <2>2. CASE FindQueue(t, "add_list", "add_find", "add_listed", "add")
    BY <1>4, <1>6, <2>2 DEF Waking
  <2>3. CASE Add(t) /\ UNCHANGED <<queues, maxId, listUse, queueUse, cancel, sent, freed, calls>>
    BY <2>3 DEF Add, Appends, Wakes, Waking, At, queueData
  <2>4. CASE DecUse(t, "add_done", "add_dec_signal")
    BY <1>4, <1>7, <2>4 DEF Waking
  <2> QED  BY <1>8, <2>1, <2>2, <2>3, <2>4 DEF AddEvent
<1>9. ASSUME ProcessRequest(t) PROVE Quiet(t) \/ Sleeps(t) \/ Peeks(t) \/ Sends(t) \/ Pops(t)
  <2>1. CASE \E q \in Queue : Start(t, "stream_list", q)
    BY <1>0, <1>1, <2>1
  <2>2. CASE FindQueue(t, "stream_list", "stream_find", "stream_listed", "stream")
    BY <1>4, <1>6, <2>2 DEF Waking
  <2>3. CASE WaitForEvent(t) /\ UNCHANGED <<events, sent>> /\ UNCHANGED <<cancel, added>>
    BY <1>2, <1>4, <2>3 DEF WaitForEvent, Sleeps, Waking, queueData
  <2>4. CASE PeekXMLEvent(t) /\ UNCHANGED sent /\ UNCHANGED <<cancel, added>>
    BY <1>2, <1>4, <2>4 DEF PeekXMLEvent, Peeks, Waking, queueData
  <2>5. CASE Send(t) /\ UNCHANGED events /\ UNCHANGED <<cancel, added>>
    BY <1>2, <1>4, <2>5 DEF Send, Sends, Waking, queueData
  <2>6. CASE PopEvent(t) /\ UNCHANGED sent /\ UNCHANGED <<cancel, added>>
    BY <2>6 DEF PopEvent, Pops
  <2>7. CASE DecUse(t, "stream_done", "stream_dec_signal")
    BY <1>4, <1>7, <2>7 DEF Waking
  <2> QED  BY <1>9, <2>1, <2>2, <2>3, <2>4, <2>5, <2>6, <2>7 DEF ProcessRequest
<1>10. ASSUME DestroyEventQueue(t) PROVE Quiet(t) \/ Cancels(t) \/ Wakes(t)
  <2>1. CASE \E q \in Queue : Start(t, "destroy", q)
    BY <1>0, <1>1, <2>1
  <2>2. CASE Claim(t, "destroy", "destroy_own")
    BY <1>2, <1>4, <2>2 DEF Claim, Waking
  <2>3. CASE At(t, "destroy_own") /\ Return(t) /\ UNCHANGED queueData
    BY <1>3, <2>3 DEF Waking
  <2>4. CASE At(t, "destroy_own") /\ Goto(t, "cancel") /\ UNCHANGED queueData
    BY <1>2, <1>4, <2>4 DEF Waking
  <2>5. CASE Cancel(t) /\ UNCHANGED <<queues, maxId, listUse, queueUse, events, added, sent, freed, calls>>
    BY <2>5 DEF Cancel, Cancels, Wakes, Waking, At, queueData
  <2>6. CASE At(t, "destroy_claim") /\ Goto(t, "destroy_wait") /\ UNCHANGED queueData
    BY <1>2, <1>4, <2>6 DEF Waking
  <2>7. CASE At(t, "destroy_wait") /\ Return(t) /\ UNCHANGED queueData
    BY <1>3, <2>7 DEF Waking
  <2> QED  BY <1>10, <2>1, <2>2, <2>3, <2>4, <2>5, <2>6, <2>7 DEF DestroyEventQueue
<1> QED  BY <1>5, <1>8, <1>9, <1>10 DEF Step

\* Looking at the first event
LEMMA PeeksMoves ==
  ASSUME IInv, NEW t \in Thread, Peeks(t)
  PROVE  /\ Moves(t) /\ call'[t].at = "send" /\ call'[t].id = call[t].id
         /\ call'[t].event = Head(events[call[t].id])
<1>1. /\ call[t].at = "peek" /\ call[t].id \in Queue /\ events[call[t].id] # <<>>
      /\ "send" \in Steps
  BY DEF Peeks, At, IInv, Types, Named, Using, Streaming, Steps
<1>2. events[call[t].id] \in Seq(1..MaxEvent)
  BY <1>1 DEF IInv, Types
<1>3. Head(events[call[t].id]) \in 1..MaxEvent
  BY <1>1, <1>2, HeadTailProperties
<1>4. Head(events[call[t].id]) \in 0..MaxEvent
  BY <1>3, EventAssumption
<1> QED  BY <1>1, <1>4 DEF IInv, Peeks, Types, CallType, Moves

\* A step writes down which queues two streams read.
LEMMA OneStreamKeeps ==
  ASSUME IInv', OneStream, [Next]_vars PROVE OneStream'
<1>1. CASE UNCHANGED vars
  BY <1>1 DEF vars, OneStream
<1>2. CASE Next
  <2> SUFFICES ASSUME NEW t \in Thread, NEW u \in Thread, t # u,
                      call'[t].at \in Streaming, call'[u].at \in Streaming, call'[t].id = call'[u].id
               PROVE  call'[t].id \in shared'
    BY DEF OneStream
  <2>1. call'[t].id \in Queue
    BY DEF IInv, Types, Named, Using
  <2>2. {call'[t].at, call'[u].at} \subseteq Streaming
    OBVIOUS
  <2>3. call'[t].id \in Doubled(call')
    BY <2>1, <2>2 DEF Doubled
  <2> QED  BY <1>2, <2>3 DEF Next, Step
<1> QED  BY <1>1, <1>2

-----------------------------------------------------------------------------
(* Nobody sleeps on an event                                               *)

\* Whoever adds an event or cancels the queue is about to signal; and the signal
\* wakes the one stream of the queue.
LEMMA SleeperKeeps ==
  ASSUME IInv, OneStream, SleeperIsWoken, NEW t \in Thread, Step(t)
  PROVE  SleeperIsWoken'
<1> DEFINE q == call[t].id
<1>0. /\ Types /\ shared \subseteq shared'
      /\ {"asleep", "add_signal", "cancel_signal", "pop", "send", "stream",
          "add_done", "destroy_claim"} \subseteq Steps
      /\ {"asleep", "pop", "send", "peek"} \subseteq Streaming
  BY DEF IInv, Step, Steps, Named, Using, Producing, Streaming, Destroying
\* Another thread that sleeps after the step slept before it, ...
<1>1. ASSUME Moves(t), NEW s \in Thread, s # t, call'[s].at = "asleep"
      PROVE  call[s].at = "asleep" /\ call'[s].id = call[s].id
  BY <1>1 DEF Moves
\* ... and whoever was about to signal still is.
<1>2. ASSUME Moves(t), NEW p, NEW u \in Thread, u # t, On(u, p), call[u].at \in Waking
      PROVE  call'[u].id = p /\ call'[u].at \in Waking
  BY <1>2 DEF Moves, On, Waking
<1>3. ASSUME NEW s \in Thread, call[s].at = "asleep", call[s].id \notin shared'
      PROVE  \/ events[call[s].id] = <<>> /\ call[s].id \notin cancel
             \/ \E u \in Thread : On(u, call[s].id) /\ call[u].at \in Waking
  BY <1>0, <1>3 DEF SleeperIsWoken, At, Waking
<1>4. SUFFICES ASSUME NEW s \in Thread, call'[s].at = "asleep", call'[s].id \notin shared'
               PROVE  \/ events'[call'[s].id] = <<>> /\ call'[s].id \notin cancel'
                      \/ \E u \in Thread : call'[u].id = call'[s].id /\ call'[u].at \in Waking
  BY DEF SleeperIsWoken, At, On, Waking
<1>5. CASE Quiet(t)
  <2>1. Moves(t) /\ s # t /\ events' = events /\ cancel' = cancel
    BY <1>4, <1>5 DEF Quiet, queueData
  <2>2. call[s].at = "asleep" /\ call'[s].id = call[s].id
    BY <1>1, <1>4, <2>1
  <2>3. CASE events[call[s].id] = <<>> /\ call[s].id \notin cancel
    BY <2>1, <2>2, <2>3
  <2>4. ASSUME NEW u \in Thread, On(u, call[s].id), call[u].at \in Waking
        PROVE  call'[u].id = call'[s].id /\ call'[u].at \in Waking
    <3>1. u # t
      BY <1>5, <2>4 DEF Quiet
    <3> QED  BY <1>2, <2>1, <2>2, <2>4, <3>1
  <2> QED  BY <1>3, <1>4, <2>2, <2>3, <2>4
<1>6. CASE Sleeps(t)
  <2>1. /\ Moves(t) /\ events' = events /\ cancel' = cancel /\ call'[t].id = q
        /\ call[t].at = "stream" /\ events[q] = <<>> /\ q \notin cancel
    BY <1>0, <1>6, GotoMoves DEF Sleeps, queueData, At
  <2>2. CASE s = t
    BY <2>1, <2>2
  <2>3. CASE s # t
    <3>1. call[s].at = "asleep" /\ call'[s].id = call[s].id
      BY <1>1, <1>4, <2>1, <2>3
    <3>2. CASE events[call[s].id] = <<>> /\ call[s].id \notin cancel
      BY <2>1, <3>1, <3>2
    <3>3. ASSUME NEW u \in Thread, On(u, call[s].id), call[u].at \in Waking
          PROVE  call'[u].id = call'[s].id /\ call'[u].at \in Waking
      <4>1. u # t
        BY <2>1, <3>3 DEF Waking
      <4> QED  BY <1>2, <2>1, <3>1, <3>3, <4>1
    <3> QED  BY <1>3, <1>4, <3>1, <3>2, <3>3
  <2> QED  BY <2>2, <2>3
<1>7. CASE Appends(t) \/ Cancels(t)
  <2>1. /\ Moves(t) /\ call'[t].at \in Waking /\ call'[t].id = q
        /\ call[t].at \in {"add", "cancel"}
    BY <1>0, <1>7, GotoMoves DEF Appends, Cancels, Waking, At
  <2>2. s # t /\ call[s].at = "asleep" /\ call'[s].id = call[s].id
    BY <1>1, <1>4, <2>1 DEF Waking
  <2>3. CASE call[s].id = q
    BY <2>1, <2>2, <2>3
  <2>4. CASE call[s].id # q
    <3>1. call[s].id \in Queue
      BY <1>0, <2>2 DEF Types, Named, Using
    <3>2. events'[call[s].id] = events[call[s].id] /\ (call[s].id \in cancel' <=> call[s].id \in cancel)
      BY <1>0, <1>7, <2>4, <3>1 DEF Appends, Cancels, Types
    <3>3. ASSUME NEW u \in Thread, On(u, call[s].id), call[u].at \in Waking
          PROVE  call'[u].id = call'[s].id /\ call'[u].at \in Waking
      <4>1. u # t
        BY <2>1, <3>3 DEF Waking
      <4> QED  BY <1>2, <2>1, <2>2, <3>3, <4>1
    <3> QED  BY <1>3, <1>4, <2>2, <3>2, <3>3
  <2> QED  BY <2>3, <2>4
<1>8. CASE Wakes(t)
  <2>1. PICK to \in {"add_done", "destroy_claim"} : Signal(t, q, to)
    BY <1>8 DEF Wakes
  <2>2. call[t].at \in Waking /\ call[t].at # "asleep" /\ events' = events /\ cancel' = cancel
    BY <1>8 DEF Wakes, Waking, queueData
  <2>3. Moves(t) /\ call'[t].at = to
    BY <1>0, <2>1, <2>2, SignalMoves
  <2>4. s # t /\ call[s].at = "asleep" /\ call'[s].id = call[s].id
    BY <1>1, <1>4, <2>1, <2>3
  <2>5. call[s].id # q
    <3> SUFFICES ASSUME call[s].id = q PROVE FALSE
      OBVIOUS
    <3>1. PICK u \in Thread : /\ At(u, "asleep") /\ On(u, q)
                              /\ call' = [call EXCEPT ![t].at = to, ![u].at = "peek"]
      BY <2>1, <2>4 DEF Signal, At, On
    <3>2. u = s
      BY <1>0, <1>4, <2>4, <3>1 DEF OneStream, At, On
    <3>3. call'[u].at = "peek"
      BY <1>0, <3>1 DEF Types, CallType
    <3> QED  BY <1>4, <3>2, <3>3
  <2>6. ASSUME NEW u \in Thread, On(u, call[s].id), call[u].at \in Waking
        PROVE  call'[u].id = call'[s].id /\ call'[u].at \in Waking
    <3>1. u # t
      BY <2>5, <2>6 DEF On
    <3> QED  BY <1>2, <2>3, <2>4, <2>6, <3>1
  <2> QED  BY <1>3, <1>4, <2>2, <2>4, <2>6
<1>9. CASE Peeks(t) \/ Sends(t) \/ Pops(t)
  <2>1. /\ Moves(t) /\ call'[t].at # "asleep" /\ call[t].at \in {"peek", "send", "pop"}
        /\ cancel' = cancel
    <3>1. CASE Peeks(t)
      BY <3>1, PeeksMoves DEF Peeks, queueData, At
    <3>2. CASE Sends(t) \/ Pops(t)
      BY <1>0, <3>2, GotoMoves DEF Sends, Pops, At
    <3> QED  BY <1>9, <3>1, <3>2
  <2>2. s # t /\ call[s].at = "asleep" /\ call'[s].id = call[s].id
    BY <1>1, <1>4, <2>1
  <2>3. call[s].id # q
    BY <1>0, <1>4, <2>1, <2>2 DEF OneStream
  <2>4. call[s].id \in Queue
    BY <1>0, <2>2 DEF Types, Named, Using
  <2>5. events'[call[s].id] = events[call[s].id]
    BY <1>0, <1>9, <2>3, <2>4 DEF Peeks, Sends, Pops, queueData, Types
  <2>6. ASSUME NEW u \in Thread, On(u, call[s].id), call[u].at \in Waking
        PROVE  call'[u].id = call'[s].id /\ call'[u].at \in Waking
    <3>1. u # t
      BY <2>3, <2>6 DEF On
    <3> QED  BY <1>2, <2>1, <2>2, <2>6, <3>1
  <2> QED  BY <1>3, <1>4, <2>1, <2>2, <2>5, <2>6
<1> QED  BY <1>5, <1>6, <1>7, <1>8, <1>9, StepKinds

\* No two streams read a queue that is not in shared.
LEMMA OneStreamHolds == Spec => []OneStream
<1>1. Init => OneStream
  BY DEF Init, OneStream, Idle, Streaming
<1>2. IInv' /\ OneStream /\ [Next]_vars => OneStream'
  BY OneStreamKeeps
<1> QED  BY <1>1, <1>2, InvariantHolds, PTL DEF Spec

\* xmlstreaminghandler.cpp AddEvent, Cancel, WaitForEvent: no wake-up is lost.  The
\* signal comes after the mutex is unlocked, so a stream may well sleep on an event
\* or on a cancelled queue for a while, but only as long as the thread that is to
\* signal has not done so.
THEOREM NoLostWakeup == Spec => []SleeperIsWoken
<1>1. Init => SleeperIsWoken
  BY DEF Init, SleeperIsWoken, Idle, At
<1>2. IInv /\ OneStream /\ SleeperIsWoken /\ [Next]_vars => SleeperIsWoken'
  <2> SUFFICES ASSUME IInv, OneStream, SleeperIsWoken, [Next]_vars PROVE SleeperIsWoken'
    OBVIOUS
  <2>1. CASE UNCHANGED vars
    BY <2>1 DEF vars, queueData, SleeperIsWoken, At, On
  <2>2. CASE Next
    BY <2>2, SleeperKeeps DEF Next
  <2> QED  BY <2>1, <2>2
<1> QED  BY <1>1, <1>2, InvariantHolds, OneStreamHolds, PTL DEF Spec

-----------------------------------------------------------------------------
(* The order of the events                                                 *)

\* What a sequence that counts up from r looks like one longer and one shorter.
LEMMA CountingUp ==
  ASSUME NEW r \in Nat, NEW n \in Nat, NEW e \in Seq(Nat), e = [i \in 1..n |-> r + i]
  PROVE  /\ Append(e, r + n + 1) = [i \in 1..(n + 1) |-> r + i]
         /\ e # <<>> <=> n > 0
         /\ e # <<>> => Head(e) = r + 1 /\ Tail(e) = [i \in 1..(n - 1) |-> r + 1 + i]
<1>1. Len(e) = n
  BY LenProperties
<1>2. Append(e, r + n + 1) = [i \in 1..(n + 1) |-> r + i]
  <2>1. /\ Append(e, r + n + 1) \in Seq(Nat)
        /\ Len(Append(e, r + n + 1)) = n + 1
        /\ \A i \in 1..n : Append(e, r + n + 1)[i] = e[i]
        /\ Append(e, r + n + 1)[n + 1] = r + n + 1
    BY <1>1, AppendProperties
  <2>2. \A i \in 1..(n + 1) : Append(e, r + n + 1)[i] = r + i
    <3> TAKE i \in 1..(n + 1)
    <3>1. CASE i = n + 1
      BY <2>1, <3>1
    <3>2. CASE i \in 1..n
      BY <2>1, <3>2
    <3> QED  BY <3>1, <3>2
  <2>3. DOMAIN Append(e, r + n + 1) = 1..(n + 1)
    BY <2>1, LenProperties
  <2>4. Append(e, r + n + 1) = [i \in DOMAIN Append(e, r + n + 1) |-> Append(e, r + n + 1)[i]]
    BY <2>1, LenProperties
  <2> QED  BY <2>2, <2>3, <2>4
<1>3. e # <<>> <=> n > 0
  BY <1>1, EmptySeq
<1>4. ASSUME e # <<>> PROVE Head(e) = r + 1 /\ Tail(e) = [i \in 1..(n - 1) |-> r + 1 + i]
  <2>1. Head(e) = r + 1
    BY <1>1, <1>3, <1>4
  <2>2. /\ Tail(e) \in Seq(Nat) /\ Len(Tail(e)) = n - 1
        /\ \A i \in 1..(n - 1) : Tail(e)[i] = e[i + 1]
    BY <1>1, <1>4, HeadTailProperties
  <2>3. \A i \in 1..(n - 1) : Tail(e)[i] = r + 1 + i
    BY <2>2
  <2>4. Tail(e) = [i \in 1..(n - 1) |-> Tail(e)[i]]
    BY <2>2, LenProperties
  <2> QED  BY <2>1, <2>3, <2>4
<1> QED  BY <1>2, <1>3, <1>4

LEMMA CountingFromOne ==
  ASSUME NEW s \in Seq(Nat), s = [i \in 1..Len(s) |-> i]
  PROVE  /\ Append(s, Len(s) + 1) = [i \in 1..(Len(s) + 1) |-> i]
         /\ Len(Append(s, Len(s) + 1)) = Len(s) + 1
<1> DEFINE n == Len(s)
<1>1. n \in Nat
  BY LenProperties
<1>2. Len(Append(s, n + 1)) = n + 1
  BY <1>1, AppendProperties
<1>3. s = [i \in 1..n |-> i]
  OBVIOUS
<1> HIDE DEF n
<1>4. [i \in 1..n |-> i] = [i \in 1..n |-> 0 + i] /\ [i \in 1..(n + 1) |-> i] = [i \in 1..(n + 1) |-> 0 + i]
  BY <1>1
<1>5. Append(s, 0 + n + 1) = [i \in 1..(n + 1) |-> 0 + i]
  BY <1>1, <1>3, <1>4, CountingUp
<1>6. 0 + n + 1 = n + 1
  BY <1>1
<1> QED  BY <1>2, <1>4, <1>5, <1>6 DEF n

\* A stream that is about to remove the first event of the queue
Popping(q) == \E t \in Thread : At(t, "pop") /\ On(t, q)

\* What has been removed is what has been sent, up to the event being removed.
LEMMA RemovedType ==
  ASSUME IInv, NEW q \in Queue, InOrder(q)
  PROVE  /\ Len(sent[q]) \in Nat /\ added[q] \in Nat /\ Removed(q) \in Nat
         /\ Removed(q) <= Len(sent[q]) /\ Len(sent[q]) <= added[q]
         /\ Popping(q) => Removed(q) = Len(sent[q]) - 1
         /\ ~Popping(q) => Removed(q) = Len(sent[q])
<1>1. sent[q] \in Seq(0..MaxEvent) /\ added[q] \in Nat
  BY EventAssumption DEF IInv, Types
<1>2. Len(sent[q]) \in Nat
  BY <1>1, LenProperties
<1>3. Popping(q) => Len(sent[q]) > 0
  BY DEF Popping, InOrder
<1>4. Len(sent[q]) <= added[q]
  BY DEF InOrder
<1> QED  BY <1>1, <1>2, <1>3, <1>4 DEF Removed, Popping

\* A step of another call, or of a call on another queue, changes nothing.
LEMMA OrderStays ==
  ASSUME NEW t \in Thread, Moves(t), NEW q \in Queue, InOrder(q),
         events'[q] = events[q], added'[q] = added[q], sent'[q] = sent[q],
         \/ call[t].at # "pop" /\ call'[t].at \notin {"send", "pop"}
         \/ call[t].id # q /\ call'[t].id # q
  PROVE  InOrder(q)'
<1>1. \A u \in Thread : /\ call'[u].at = "pop" /\ call'[u].id = q <=> call[u].at = "pop" /\ call[u].id = q
                        /\ call'[u].at = "send" /\ call'[u].id = q =>
                              call[u].at = "send" /\ call[u].id = q /\ call'[u].event = call[u].event
  BY DEF Moves
<1>2. Removed(q)' = Removed(q)
  BY <1>1 DEF Removed, At, On
<1> QED  BY <1>1, <1>2 DEF InOrder, At, On

\* One stream reads the queue, so that the event it has seen is still the first
\* when it removes it.
LEMMA OrderKeeps ==
  ASSUME IInv, OneStream, OrderInv, NEW t \in Thread, Step(t)
  PROVE  OrderInv'
<1> SUFFICES ASSUME NEW q \in Queue, q \notin shared' PROVE InOrder(q)'
  BY DEF OrderInv
<1> DEFINE s == sent[q]
           e == events[q]
           a == added[q]
           r == Removed(q)
<1>0. /\ Types /\ q \notin shared /\ InOrder(q)
      /\ {"asleep", "add_signal", "cancel_signal", "pop", "send", "stream",
          "add_done", "destroy_claim"} \subseteq Steps
      /\ {"asleep", "pop", "send", "peek"} \subseteq Streaming
  BY DEF IInv, OrderInv, Step, Steps, Named, Using, Producing, Streaming, Destroying
<1>1. /\ Len(s) \in Nat /\ a \in Nat /\ r \in Nat /\ r <= Len(s) /\ Len(s) <= a
      /\ Popping(q) => r = Len(s) - 1
      /\ ~Popping(q) => r = Len(s)
  BY <1>0, RemovedType
<1>2. /\ s \in Seq(Nat) /\ s = [i \in 1..Len(s) |-> i]
      /\ e \in Seq(Nat) /\ e = [i \in 1..(a - r) |-> r + i] /\ a - r \in Nat
  <2>1. s = [i \in 1..Len(s) |-> i] /\ e = [i \in 1..(a - r) |-> r + i] /\ a - r \in Nat
    BY <1>0, <1>1 DEF InOrder
  <2>2. s \in Seq(Nat)
    BY <1>1, <2>1
  <2>3. e \in Seq(Nat)
    BY <1>1, <2>1, SMTT(30)
  <2> QED  BY <2>1, <2>2, <2>3
<1> HIDE DEF s, e, a, r
\* The stream that reads q is the only one: no other is about to send or to remove.
<1>3. ASSUME call[t].id = q, call[t].at \in Streaming, NEW u \in Thread, u # t
      PROVE  ~(call[u].id = q /\ call[u].at \in {"send", "pop"})
  BY <1>0, <1>3 DEF OneStream
<1>4. CASE Quiet(t) \/ Sleeps(t) \/ Wakes(t) \/ Cancels(t)
  <2>1. /\ Moves(t) /\ events' = events /\ added' = added /\ sent' = sent
        /\ call[t].at # "pop" /\ call'[t].at \notin {"send", "pop"}
    <3>1. CASE Quiet(t)
      BY <3>1 DEF Quiet, queueData
    <3>2. CASE Sleeps(t) \/ Cancels(t)
      BY <1>0, <3>2, GotoMoves DEF Sleeps, Cancels, queueData, At
    <3>3. CASE Wakes(t)
      <4>1. PICK to \in {"add_done", "destroy_claim"} : Signal(t, call[t].id, to)
        BY <3>3 DEF Wakes
      <4>2. call[t].at \in Waking /\ call[t].at # "asleep" /\ UNCHANGED queueData
        BY <3>3 DEF Wakes, Waking
      <4> QED  BY <1>0, <4>1, <4>2, SignalMoves DEF Waking, queueData
    <3> QED  BY <1>4, <3>1, <3>2, <3>3
  <2> QED  BY <1>0, <2>1, OrderStays
<1>5. CASE Appends(t)
  <2>1. /\ Moves(t) /\ call[t].at = "add" /\ call'[t].at = "add_signal"
        /\ call'[t].id = call[t].id
    BY <1>0, <1>5, GotoMoves DEF Appends, At
  <2>2. CASE call[t].id # q
    <3>1. events'[q] = events[q] /\ added'[q] = added[q] /\ sent'[q] = sent[q]
      BY <1>0, <1>5, <2>2 DEF Appends, Types
    <3> QED  BY <1>0, <2>1, <2>2, <3>1, OrderStays
  <2>3. CASE call[t].id = q
    <3>1. /\ events'[q] = Append(e, a + 1) /\ added'[q] = a + 1 /\ sent'[q] = s
      BY <1>0, <1>5, <2>3 DEF Appends, Types, e, a, s
    <3>2. \A u \in Thread : /\ call'[u].at = "pop" /\ call'[u].id = q <=> call[u].at = "pop" /\ call[u].id = q
                            /\ call'[u].at = "send" /\ call'[u].id = q =>
                                  call[u].at = "send" /\ call[u].id = q /\ call'[u].event = call[u].event
      BY <2>1 DEF Moves
    <3>3. Removed(q)' = r
      BY <3>1, <3>2 DEF Removed, At, On, r, s
    <3>4. Append(e, r + (a - r) + 1) = [i \in 1..((a - r) + 1) |-> r + i]
      BY <1>1, <1>2, CountingUp
    <3>5. r + (a - r) + 1 = a + 1 /\ (a - r) + 1 = (a + 1) - r
      BY <1>1
    <3>6. events'[q] = [i \in 1..(added'[q] - Removed(q)') |-> Removed(q)' + i]
      BY <3>1, <3>3, <3>4, <3>5
    <3>7. sent'[q] = [i \in 1..Len(sent'[q]) |-> i] /\ Len(sent'[q]) <= added'[q]
      BY <1>0, <1>1, <3>1 DEF InOrder, s
    <3>8. ASSUME NEW u \in Thread, call'[u].id = q
          PROVE  /\ call'[u].at = "send" => call'[u].event = Len(sent'[q]) + 1 /\ Len(sent'[q]) < added'[q]
                 /\ call'[u].at = "pop" => Len(sent'[q]) > 0
      <4>1. /\ call[u].at = "send" /\ call[u].id = q => call[u].event = Len(s) + 1 /\ Len(s) < a
            /\ call[u].at = "pop" /\ call[u].id = q => Len(s) > 0
        BY <1>0 DEF InOrder, At, On, s, a
      <4> QED  BY <1>1, <3>1, <3>2, <3>8, <4>1
    <3> QED  BY <3>6, <3>7, <3>8 DEF InOrder, At, On
  <2> QED  BY <2>2, <2>3
<1>6. CASE Peeks(t)
  <2>1. /\ Moves(t) /\ call[t].at = "peek" /\ call'[t].at = "send" /\ call'[t].id = call[t].id
        /\ call'[t].event = Head(events[call[t].id]) /\ events[call[t].id] # <<>>
        /\ events' = events /\ added' = added /\ sent' = sent
    BY <1>0, <1>6, PeeksMoves DEF Peeks, queueData, At
  <2>2. CASE call[t].id # q
    BY <1>0, <2>1, <2>2, OrderStays
  <2>3. CASE call[t].id = q
    <3>1. \A u \in Thread : /\ ~(call[u].at = "pop" /\ call[u].id = q)
                            /\ ~(call'[u].at = "pop" /\ call'[u].id = q)
                            /\ call'[u].at = "send" /\ call'[u].id = q => u = t
      BY <1>0, <1>3, <2>1, <2>3 DEF Moves
    <3>2. Removed(q)' = r /\ r = Len(s)
      BY <2>1, <3>1 DEF Removed, At, On, r, s
    <3>3. Head(e) = r + 1 /\ a - r > 0
      BY <1>1, <1>2, <2>1, <2>3, CountingUp, ZenonT(30) DEF e
    <3>4. call'[t].event = Len(s) + 1 /\ Len(s) < a
      BY <1>1, <2>1, <2>3, <3>2, <3>3 DEF e
    <3> QED  BY <1>0, <2>1, <3>1, <3>2, <3>4 DEF InOrder, At, On, s, a, r
  <2> QED  BY <2>2, <2>3
<1>7. CASE Sends(t)
  <2>1. /\ Moves(t) /\ call[t].at = "send" /\ call'[t].at = "pop" /\ call'[t].id = call[t].id
    BY <1>0, <1>7, GotoMoves DEF Sends, At
  <2>2. CASE call[t].id # q
    <3>1. events'[q] = events[q] /\ added'[q] = added[q] /\ sent'[q] = sent[q]
      BY <1>0, <1>7, <2>2 DEF Sends, Types
    <3> QED  BY <1>0, <2>1, <2>2, <3>1, OrderStays
  <2>3. CASE call[t].id = q
    <3>1. \A u \in Thread : /\ ~(call[u].at = "pop" /\ call[u].id = q)
                            /\ call'[u].at = "pop" /\ call'[u].id = q => u = t
                            /\ ~(call'[u].at = "send" /\ call'[u].id = q)
      BY <1>0, <1>3, <2>1, <2>3 DEF Moves
    <3>2. call[t].event = Len(s) + 1 /\ Len(s) < a
      BY <1>0, <2>1, <2>3 DEF InOrder, At, On, s, a
    <3>3. sent'[q] = Append(s, Len(s) + 1) /\ events'[q] = e /\ added'[q] = a
      BY <1>0, <1>7, <2>3, <3>2 DEF Sends, Types, s, e, a
    <3>4. /\ Append(s, Len(s) + 1) = [i \in 1..(Len(s) + 1) |-> i]
          /\ Len(Append(s, Len(s) + 1)) = Len(s) + 1
      BY <1>2, CountingFromOne
    <3>5. Len(sent'[q]) = Len(s) + 1
      BY <3>3, <3>4
    <3>6. Removed(q)' = Len(sent'[q]) - 1 /\ r = Len(s)
      <4>1. Popping(q)' /\ ~Popping(q)
        BY <2>1, <2>3, <3>1 DEF Popping, At, On
      <4>2. Removed(q)' = Len(sent'[q]) - 1
        BY <4>1 DEF Removed, Popping
      <4> QED  BY <1>1, <4>1, <4>2
    <3>7. Removed(q)' = r
      BY <1>1, <3>5, <3>6
    <3>8. sent'[q] = [i \in 1..Len(sent'[q]) |-> i]
      BY <3>3, <3>4, <3>5
    <3>9. events'[q] = [i \in 1..(added'[q] - Removed(q)') |-> Removed(q)' + i]
      BY <1>2, <3>3, <3>7
    <3>10. Len(sent'[q]) <= added'[q] /\ Len(sent'[q]) > 0
      BY <1>1, <3>2, <3>3, <3>5
    <3> QED  BY <3>1, <3>8, <3>9, <3>10 DEF InOrder, At, On
  <2> QED  BY <2>2, <2>3
<1>8. CASE Pops(t)
  <2>1. /\ Moves(t) /\ call[t].at = "pop" /\ call'[t].at = "stream" /\ call'[t].id = call[t].id
    BY <1>0, <1>8, GotoMoves DEF Pops, At
  <2>2. CASE call[t].id # q
    <3>1. events'[q] = events[q] /\ added'[q] = added[q] /\ sent'[q] = sent[q]
      BY <1>0, <1>8, <2>2 DEF Pops, Types
    <3> QED  BY <1>0, <2>1, <2>2, <3>1, OrderStays
  <2>3. CASE call[t].id = q
    <3>1. \A u \in Thread : /\ ~(call'[u].at = "pop" /\ call'[u].id = q)
                            /\ ~(call'[u].at = "send" /\ call'[u].id = q)
      BY <1>0, <1>3, <2>1, <2>3 DEF Moves
    <3>2. Popping(q) /\ ~Popping(q)'
      BY <2>1, <2>3, <3>1 DEF Popping, At, On
    <3>3. r = Len(s) - 1 /\ a - r > 0
      BY <1>1, <3>2
    <3>4. e # <<>> /\ Tail(e) = [i \in 1..((a - r) - 1) |-> r + 1 + i]
      BY <1>1, <1>2, <3>3, CountingUp
    <3>5. sent'[q] = s /\ events'[q] = Tail(e) /\ added'[q] = a
      BY <1>0, <1>8, <2>3, <3>4 DEF Pops, Types, s, e, a
    <3>6. Removed(q)' = Len(s)
      BY <3>2, <3>5 DEF Removed, Popping
    <3>7. r + 1 = Len(s) /\ (a - r) - 1 = a - Len(s)
      BY <1>1, <3>3
    <3>8. events'[q] = [i \in 1..(added'[q] - Removed(q)') |-> Removed(q)' + i]
      BY <3>4, <3>5, <3>6, <3>7
    <3>9. sent'[q] = [i \in 1..Len(sent'[q]) |-> i] /\ Len(sent'[q]) <= added'[q]
      BY <1>0, <3>5 DEF InOrder, s, a
    <3> QED  BY <3>1, <3>8, <3>9 DEF InOrder, At, On
  <2> QED  BY <2>2, <2>3
<1> QED  BY <1>4, <1>5, <1>6, <1>7, <1>8, StepKinds

\* xmlstreaminghandler.cpp ProcessRequest: for any number of threads and events, the
\* events of a queue that one stream reads at a time are written in the order they
\* were added, and those not written yet are in the queue, whatever write fails and
\* however the streams follow one another.
THEOREM EventsInOrder == Spec => []SentInOrder
<1>1. Init => OrderInv
  <2> SUFFICES ASSUME Init, NEW q \in Queue PROVE InOrder(q)
    BY DEF OrderInv
  <2>1. /\ sent[q] = <<>> /\ events[q] = <<>> /\ added[q] = 0
        /\ \A t \in Thread : call[t].at = "idle"
    BY DEF Init, Idle
  <2>2. Len(sent[q]) = 0 /\ Removed(q) = 0
    BY <2>1, EmptySeq DEF Removed, At
  <2>3. <<>> = [i \in 1..0 |-> i] /\ <<>> = [i \in 1..0 |-> 0 + i]
    OBVIOUS
  <2> QED  BY <2>1, <2>2, <2>3 DEF InOrder, At
<1>2. IInv /\ OneStream /\ OrderInv /\ [Next]_vars => OrderInv'
  <2> SUFFICES ASSUME IInv, OneStream, OrderInv, [Next]_vars PROVE OrderInv'
    OBVIOUS
  <2>1. CASE UNCHANGED vars
    BY <2>1 DEF vars, queueData, OrderInv, InOrder, Removed, At, On
  <2>2. CASE Next
    BY <2>2, OrderKeeps DEF Next
  <2> QED  BY <2>1, <2>2
<1>3. OrderInv => SentInOrder
  BY DEF OrderInv, InOrder, Removed, SentInOrder
<1> QED  BY <1>1, <1>2, <1>3, InvariantHolds, OneStreamHolds, PTL DEF Spec

=============================================================================
