---------------------------- MODULE EventQueues ----------------------------
(***************************************************************************)
(* The event queues of XmlStreamingHandler (xmlstreaminghandler.cpp).  The *)
(* MCU and the JSR 309 manager add events to a queue; a controller streams *)
(* a queue over HTTP, waiting up to 30 seconds for each event; it creates  *)
(* and destroys queues by XML-RPC while other threads use them.            *)
(*                                                                         *)
(* listUse and each queue are locks of the class Use, that is RWLock; a    *)
(* queue also has a mutex and a condition variable of its own.  A section  *)
(* under the mutex is one step; the pthread_cond_signal after it, and the  *)
(* one at the end of DecUse, is a step of its own.                         *)
(***************************************************************************)
EXTENDS Naturals, Sequences, FiniteSets

CONSTANTS
    Thread, NoThread,   \* the threads of the server, and nobody
    MaxQueue,           \* how many queues are created
    MaxEvent,           \* how many events are added to each queue
    MaxCalls            \* how many calls the threads make in all

ASSUME EventAssumption == /\ NoThread \notin Thread /\ IsFiniteSet(Thread)
                          /\ MaxQueue \in Nat /\ MaxEvent \in Nat /\ MaxCalls \in Nat

VARIABLES
    queues,         \* XmlStreamingHandler::queues: the ids in the map
    maxId,          \* XmlStreamingHandler::maxId: the id of the next queue
    listUse,        \* XmlStreamingHandler::listUse
    queueUse,       \* the lock of each queue
    events,         \* XmlEventQueue::events, numbered as they were added
    cancel,         \* the queues with XmlEventQueue::cancel set
    freed,          \* the queues deleted
    added,          \* how many events have been added to each queue
    sent,           \* the events of each queue written to a stream, in order
    shared,         \* the queues that two streams have read at the same time
    call,           \* what each thread does: its next step, its queue, its event
    calls           \* how many calls have been made

queueData == <<events, cancel, added, sent>>
vars == <<queues, maxId, listUse, queueUse, queueData, freed, shared, call, calls>>

RW == INSTANCE RWLock WITH rw <- listUse

Queue == 1..MaxQueue

Idle == [at |-> "idle", id |-> 0, event |-> 0]

\* A thread at one of these steps has called IncUse on its queue, not DecUse
Producing == {"add_listed", "add", "add_signal", "add_done"}
Streaming == {"stream_listed", "stream", "asleep", "peek", "send", "pop", "stream_done"}
\* A thread at one of these steps has taken its queue out of the map
Destroying == {"cancel", "cancel_signal", "destroy_claim", "destroy_wait"}

At(t, step) == call[t].at = step
On(t, q) == call[t].id = q
Goto(t, step) == call' = [call EXCEPT ![t].at = step]
Return(t) == call' = [call EXCEPT ![t] = Idle]

-----------------------------------------------------------------------------

Init == /\ queues = {} /\ cancel = {} /\ freed = {} /\ shared = {}
        /\ maxId = 1
        /\ listUse = RW!Unlocked
        /\ queueUse = [q \in Queue |-> RW!Unlocked]
        /\ events = [q \in Queue |-> <<>>]
        /\ added = [q \in Queue |-> 0]
        /\ sent = [q \in Queue |-> <<>>]
        /\ call = [t \in Thread |-> Idle]
        /\ calls = 0

Start(t, step, id) ==
    /\ At(t, "idle") /\ calls < MaxCalls
    /\ call' = [call EXCEPT ![t] = [at |-> step, id |-> id, event |-> 0]]
    /\ calls' = calls + 1
    /\ UNCHANGED <<queues, maxId, listUse, queueUse, queueData, freed>>

\* listUse.WaitUnusedAndLock(): the claim, then the wait with what follows it
\* up to listUse.Unlock()
Claim(t, from, to) ==
    /\ At(t, from) /\ Goto(t, to)
    /\ RW!CanClaim(listUse) /\ listUse' = RW!Claimed(listUse, t)
    /\ UNCHANGED <<queues, maxId, queueUse, queueData, freed, calls>>

OwnAndUnlock(t) == /\ listUse.claim = t /\ RW!IsUnused(listUse)
                   /\ listUse' = RW!Unlock(listUse)
                   /\ UNCHANGED calls

\* listUse.IncUse(), find the queue, queue->IncUse(), listUse.DecUse()
FindQueue(t, from, find, listed, to) ==
    \/ /\ At(t, from) /\ Goto(t, find)
       /\ RW!CanIncUse(listUse) /\ listUse' = RW!IncUse(listUse, t)
       /\ UNCHANGED <<queues, maxId, queueUse, queueData, freed, calls>>
    \/ /\ At(t, find) /\ call[t].id \notin queues
       /\ listUse' = RW!DecUse(listUse, t)
       /\ Return(t)
       /\ UNCHANGED <<queues, maxId, queueUse, queueData, freed, calls>>
    \/ /\ At(t, find) /\ call[t].id \in queues
       /\ RW!CanIncUse(queueUse[call[t].id])
       /\ queueUse' = [queueUse EXCEPT ![call[t].id] = RW!IncUse(@, t)]
       /\ Goto(t, listed)
       /\ UNCHANGED <<queues, maxId, listUse, queueData, freed, calls>>
    \/ /\ At(t, listed) /\ Goto(t, to)
       /\ listUse' = RW!DecUse(listUse, t)
       /\ UNCHANGED <<queues, maxId, queueUse, queueData, freed, calls>>

\* queue->DecUse(): the counter, then pthread_cond_signal on the queue
DecUse(t, from, to) ==
    \/ /\ At(t, from) /\ Goto(t, to)
       /\ queueUse' = [queueUse EXCEPT ![call[t].id] = RW!DecUse(@, t)]
       /\ UNCHANGED <<queues, maxId, listUse, queueData, freed, calls>>
    \/ /\ At(t, to) /\ Return(t)
       /\ UNCHANGED <<queues, maxId, listUse, queueUse, queueData, freed, calls>>

\* pthread_cond_signal(&cond) wakes one thread that waits for an event of q, if
\* there is one
Signal(t, q, to) ==
    LET sleepers == {u \in Thread : At(u, "asleep") /\ On(u, q)}
    IN  \/ sleepers = {} /\ Goto(t, to)
        \/ \E u \in sleepers : call' = [call EXCEPT ![t].at = to, ![u].at = "peek"]

-----------------------------------------------------------------------------

CreateEventQueue(t) ==
    \/ /\ maxId + Cardinality({u \in Thread : call[u].at \in {"create", "create_own"}}) <= MaxQueue
       /\ Start(t, "create", 0)
    \/ Claim(t, "create", "create_own")
    \/ /\ At(t, "create_own") /\ OwnAndUnlock(t)
       /\ queues' = queues \cup {maxId}
       /\ maxId' = maxId + 1
       /\ Return(t)
       /\ UNCHANGED <<queueUse, queueData, freed>>

\* Mutant: the event is added when the thread that streams has been woken
AddLate(t) == \/ /\ At(t, "add") /\ Signal(t, call[t].id, "add_signal")
                 /\ UNCHANGED <<events, added>>
              \/ /\ At(t, "add_signal") /\ Goto(t, "add_done")
                 /\ events' = [events EXCEPT ![call[t].id] = Append(@, added[call[t].id] + 1)]
                 /\ added' = [added EXCEPT ![call[t].id] = @ + 1]

\* XmlEventQueue::AddEvent
Add(t) == \/ /\ At(t, "add") /\ Goto(t, "add_signal")
             /\ events' = [events EXCEPT ![call[t].id] = Append(@, added[call[t].id] + 1)]
             /\ added' = [added EXCEPT ![call[t].id] = @ + 1]
          \/ /\ At(t, "add_signal") /\ Signal(t, call[t].id, "add_done")
             /\ UNCHANGED <<events, added>>

AddEvent(t) ==
    \/ \E q \in Queue :
          /\ added[q] + Cardinality({u \in Thread : On(u, q) /\ call[u].at \in
                                        {"add_list", "add_find", "add_listed", "add"}}) < MaxEvent
          /\ Start(t, "add_list", q)
    \/ FindQueue(t, "add_list", "add_find", "add_listed", "add")
    \/ Add(t) /\ UNCHANGED <<queues, maxId, listUse, queueUse, cancel, sent, freed, calls>>
    \/ DecUse(t, "add_done", "add_dec_signal")

-----------------------------------------------------------------------------
(* ProcessRequest: a stream                                                *)

\* XmlEventQueue::WaitForEvent: false when cancelled, else true, at once if
\* there are events or else after a signal, the 30 seconds or no reason
WaitForEvent(t) ==
    LET q == call[t].id
    IN  \/ At(t, "stream") /\ q \in cancel /\ Goto(t, "stream_done")
        \/ At(t, "stream") /\ q \notin cancel /\ events[q] # <<>> /\ Goto(t, "peek")
        \/ At(t, "stream") /\ q \notin cancel /\ events[q] = <<>> /\ Goto(t, "asleep")
        \/ At(t, "asleep") /\ Goto(t, "peek")

\* Mutant: the event leaves the queue before it is sent
PeekAndPop(t) ==
    LET q == call[t].id
    IN  /\ At(t, "peek")
        /\ \/ /\ events[q] # <<>>
              /\ call' = [call EXCEPT ![t].at = "send", ![t].event = Head(events[q])]
              /\ events' = [events EXCEPT ![q] = Tail(@)]
           \/ /\ events[q] = <<>> /\ UNCHANGED events
              /\ Goto(t, "stream") \/ Goto(t, "stream_done")

\* XmlEventQueue::PeekXMLEvent; with no event a keep alive is written, which
\* may fail
PeekXMLEvent(t) ==
    LET q == call[t].id
    IN  /\ At(t, "peek")
        /\ \/ /\ events[q] # <<>>
              /\ call' = [call EXCEPT ![t].at = "send", ![t].event = Head(events[q])]
           \/ /\ events[q] = <<>>
              /\ Goto(t, "stream") \/ Goto(t, "stream_done")
        /\ UNCHANGED events

\* ResponseWriteBody: the event is written, or the stream ends
Send(t) == /\ At(t, "send")
           /\ \/ /\ Goto(t, "pop")
                 /\ sent' = [sent EXCEPT ![call[t].id] = Append(@, call[t].event)]
              \/ Goto(t, "stream_done") /\ UNCHANGED sent

PopEvent(t) == /\ At(t, "pop") /\ Goto(t, "stream")
               /\ events' = [events EXCEPT ![call[t].id] = IF @ = <<>> THEN @ ELSE Tail(@)]

ProcessRequest(t) ==
    \/ \E q \in Queue : Start(t, "stream_list", q)
    \/ FindQueue(t, "stream_list", "stream_find", "stream_listed", "stream")
    \/ /\ \/ WaitForEvent(t) /\ UNCHANGED <<events, sent>>
          \/ PeekXMLEvent(t) /\ UNCHANGED sent
          \/ Send(t) /\ UNCHANGED events
          \/ PopEvent(t) /\ UNCHANGED sent
       /\ UNCHANGED <<queues, maxId, listUse, queueUse, cancel, added, freed, calls>>
    \/ DecUse(t, "stream_done", "stream_dec_signal")

-----------------------------------------------------------------------------

\* Mutant: Cancel wakes the stream but leaves no trace
CancelWakesOnly(t) == \/ At(t, "cancel") /\ Goto(t, "cancel_signal") /\ UNCHANGED cancel
                      \/ At(t, "cancel_signal") /\ Signal(t, call[t].id, "destroy_claim") /\ UNCHANGED cancel

\* XmlEventQueue::Cancel
Cancel(t) == \/ /\ At(t, "cancel") /\ Goto(t, "cancel_signal")
                /\ cancel' = cancel \cup {call[t].id}
             \/ /\ At(t, "cancel_signal") /\ Signal(t, call[t].id, "destroy_claim")
                /\ UNCHANGED cancel

\* Mutant: the destroyer waits for the streams only
NoStreamUses(q) == \A t \in queueUse[q].users : call[t].at \notin Streaming

QueueIsUnused(q) == RW!IsUnused(queueUse[q])

DestroyEventQueue(t) ==
    \/ \E q \in Queue : Start(t, "destroy", q)
    \/ Claim(t, "destroy", "destroy_own")
    \/ /\ At(t, "destroy_own") /\ OwnAndUnlock(t)
       /\ call[t].id \notin queues /\ Return(t)
       /\ UNCHANGED <<queues, maxId, queueUse, queueData, freed>>
    \/ /\ At(t, "destroy_own") /\ OwnAndUnlock(t)
       /\ call[t].id \in queues /\ queues' = queues \ {call[t].id}
       /\ Goto(t, "cancel")
       /\ UNCHANGED <<maxId, queueUse, queueData, freed>>
    \/ Cancel(t) /\ UNCHANGED <<queues, maxId, listUse, queueUse, events, added, sent, freed, calls>>
    \* queue->WaitUnusedAndLock(), delete(queue)
    \/ /\ At(t, "destroy_claim") /\ RW!CanClaim(queueUse[call[t].id])
       /\ queueUse' = [queueUse EXCEPT ![call[t].id] = RW!Claimed(@, t)]
       /\ Goto(t, "destroy_wait")
       /\ UNCHANGED <<queues, maxId, listUse, queueData, freed, calls>>
    \/ /\ At(t, "destroy_wait") /\ QueueIsUnused(call[t].id)
       /\ freed' = freed \cup {call[t].id}
       /\ Return(t)
       /\ UNCHANGED <<queues, maxId, listUse, queueUse, queueData, calls>>

\* The queues that two threads stream
Doubled(c) == {q \in Queue : \E t, u \in Thread : /\ t # u /\ c[t].id = q /\ c[u].id = q
                                                 /\ {c[t].at, c[u].at} \subseteq Streaming}

Step(t) == /\ \/ CreateEventQueue(t) \/ AddEvent(t)
              \/ ProcessRequest(t) \/ DestroyEventQueue(t)
           /\ shared' = shared \cup Doubled(call')

Next == \E t \in Thread : Step(t)

Spec == Init /\ [][Next]_vars

\* A thread inside a call goes on when it can: the 30 seconds of WaitForEvent
\* end, and a write to a stream returns.
FairSpec == Spec /\ \A t \in Thread : WF_vars(~At(t, "idle") /\ Step(t))

-----------------------------------------------------------------------------

TypeOK == /\ queues \cup cancel \cup freed \cup shared \subseteq Queue
          /\ maxId \in 1..(MaxQueue + 1)
          /\ listUse \in RW!Lock
          /\ queueUse \in [Queue -> RW!Lock]
          /\ \A q \in Queue : /\ Len(events[q]) <= MaxEvent
                              /\ \A i \in DOMAIN events[q] : events[q][i] \in 1..MaxEvent
                              /\ added[q] \in 0..MaxEvent
          /\ \A t \in Thread : call[t].id \in 0..MaxQueue /\ call[t].event \in 0..MaxEvent
          /\ calls \in 0..MaxCalls

\* xmlstreaminghandler.cpp AddEvent, ProcessRequest, DestroyEventQueue: the
\* queue a thread adds to, streams or destroys has not been deleted, though it
\* may have left the map since the thread found it there.
QueueOutlivesItsUsers ==
    \A t \in Thread : call[t].at \in Producing \cup Streaming \cup Destroying =>
        call[t].id \notin freed

\* xmlstreaminghandler.cpp: queues and the calls on them are sound; none is used
\* after it is deleted.
QueuesAreSound == TypeOK /\ QueueOutlivesItsUsers

\* xmlstreaminghandler.cpp ProcessRequest: the events of a queue are written in
\* the order they were added, and none is lost: the queue holds the rest, after
\* a failed write and the next stream too.  (An event whose write has been done
\* and that has still to be removed is in both.)  A queue read by two streams at
\* once is the exception: both send its first event, and each removes one.
SentInOrder ==
    \A q \in Queue \ shared :
        LET popping == \E t \in Thread : At(t, "pop") /\ On(t, q)
            removed == IF popping THEN Len(sent[q]) - 1 ELSE Len(sent[q])
        IN  /\ sent[q] = [i \in 1..Len(sent[q]) |-> i]
            /\ events[q] = [i \in 1..(added[q] - removed) |-> removed + i]

\* xmlstreaminghandler.cpp: a stream sleeps only while there is nothing to send
\* and the queue is not being destroyed, or else it is about to be woken: it
\* never waits 30 seconds with an event at hand.  (A signal wakes one stream: with
\* two on the queue the other may.)
SleeperIsWoken ==
    \A t \in Thread : At(t, "asleep") /\ call[t].id \notin shared =>
        \/ events[call[t].id] = <<>> /\ call[t].id \notin cancel
        \/ \E u \in Thread : On(u, call[t].id) /\ call[u].at \in {"add_signal", "cancel_signal"}

\* xmlstreaminghandler.cpp DestroyEventQueue: once the queue has left the map
\* every stream on it ends, though Cancel wakes one of them only, and the queue
\* is deleted.
DestroyReturns == \A t \in Thread : At(t, "cancel") ~> At(t, "idle")

=============================================================================
