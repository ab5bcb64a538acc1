# TLA+ models of the MCU media server

This directory models, checks and proves properties of the control logic of the
multiparty conference server in `src/mcu`: a C++ process that mixes the audio,
video and text of conferences, is driven by XML-RPC, and talks to participants
over RTP, RTMP and WebSockets. Samples, pixels and byte formats are left out;
the parts that decide, count, order, lock and free are what the models are of.

The server has a thread per connection (HTTP, WebSocket, RTMP), one or two per
media stream, and a few timers. They share maps of objects. A map and each of
its objects are protected by the class `Use` (a readers–writer lock made by
hand), by a pthread mutex, or by nothing.

## Inventory

Paths are relative to `src/mcu/src`, headers to `src/mcu/include`.

| Component | State | Operations | Interacts with | What is hard | Correct when |
|---|---|---|---|---|---|
| **Floor control**: `bfcp.cpp`, `bfcp/*` | users, chair flags, subscriptions, transports, floor requests, `ending` | BFCP messages, connect, close, add and remove users, set chair, end | listener `MultiConf`, which calls back into it; `AppMixer`; WebSockets | callbacks that revoke while a grant is running; a thread per connection and no lock on the requests; reconnection before the old connection closes | one grant per floor; presenter and editor follow grants; no grant for someone gone; subscribers know the status |
| **Use lock**: `use.h` | two mutexes, a condition, a counter | `IncUse`, `DecUse`, `WaitUnusedAndLock`, `Unlock` | every registry | signal outside the mutex, spurious wake-ups, writers against a stream of readers | owner excludes users; no wake-up lost; writer gets its turn |
| **Conference registry**: `mcu.cpp` | maps id → entry and tag → id, `maxId`, `enabled` per entry | create, get and release a reference, find by tag, list, delete, end | XML-RPC, uploads, WebSockets, RTMP, floor servers | two levels of locks taken in both orders; an iterator kept over two waits; a conference in use while deleted | references stay valid; deleted once; tags right; calls return |
| **Event queues**: `xmlstreaminghandler.cpp` | map id → queue; per queue: events, `cancel`, a lock and a condition | create, add an event, stream over HTTP, destroy | MCU and JSR 309 callbacks; controllers | queue used after it left the map; failed writes; one signal for several sleepers | no use after delete; events in order, none lost; destroy returns |
| **MultiConf, participants**: `multiconf.cpp`, `*participant.cpp` | participants, mosaics, sidebars, broadcaster, recorder, publishers | create and destroy participants, start and stop media, broadcast, record | all mixers, floor control, RTMP | start and stop from several threads; listeners on encoders | nothing called after it is deleted; each start matched by a stop |
| **AppMixer**: `appmixer.cpp` | presenter, editor, viewers, VNC server | set presenter and editor, VNC messages | floor control, VNC | presenter changes while a frame is read | input of the editor only |
| **WebSockets**: `websocketserver.cpp`, `websocketconnection.cpp` | frames to send, listener, `upgraded` | read and write loops, close, detach | BFCP, group chat, AppMixer | listener called under a mutex that other locks are nested in | no callback after detach; close is announced once |
| **Group chat**: `groupchat.cpp`, `cpim.cpp` | map participant → client | connect, disconnect, message | WebSockets | reconnection against a close in progress | one client per participant; no deadlock with the listener mutex |
| **Jitter buffer, wait queue**: `rtpbuffer.h`, `waitqueue.h`, `wait.h` | ordered packets, `next`, `cancel`, `hurryUp` | add, wait, cancel, reset, hurry up | RTP session and stream threads | reset and cancel against a waiting thread | packets in order, once; cancelled waits end |
| **RTP session**: `rtpsession.cpp`, `fecdecoder.cpp` | sequence cycles, losses, RTX and FEC windows, STUN and DTLS state | receive, send, RTCP, request a picture | jitter buffer, streams, rate control | wrap-around, reordering, requests in flight | extended numbers monotone; lost packets asked for once |
| **Rate control**: `remoteratecontrol.cpp`, `remoterateestimator.cpp` | controller state, bit rates | update per packet | RTP session | hysteresis, several streams | rate within its limits |
| **Mixers**: `audiomixer.cpp`, `videomixer.cpp`, `textmixer.cpp`, `sidebar.cpp` | sources, mosaics, sidebars | create, init, end and delete a source; mix | pipes, mosaics | mixing thread against control calls | no source used after its end |
| **Mosaics**: `mosaic.cpp` and variants | slots, fixed and VAD slots, order by score | add, remove, set slot, calculate positions | VideoMixer | counters beside the slots they count | a participant at most once; fixed slots kept |
| **Pipes and streams**: `videopipe.cpp`, `pipe*.cpp`, `*stream.cpp` | a frame or a fifo, flags | start, stop, put, get, cancel | mixers, RTP | a stop while the other end waits | stop returns; no frame used after free |
| **RTMP**: `rtmp*.cpp`, `amf.cpp` | connections, streams, listeners | connect, create stream, publish, play, disconnect | MCU, broadcaster, MultiConf | disconnection from either side, joins with locks held | each disconnection announced once |
| **Broadcaster, recorders, players** | sessions, publishers, files | start, stop, publish, record, play | RTMP, MultiConf | files and codecs | – |
| **Event sources**: `eventstreaminghandler.cpp` | sources, clients | add, stream, remove | browsers | as event queues | as event queues |
| **Media gateway**: `mediagateway.cpp` | map of bridge sessions | as the registry | RTP, RTMP | as the registry | as the registry |
| **JSR 309**: `jsr309/` | map of sessions; endpoints, mixers, players and joins | create, join, delete | event queues, RTP | joins between objects that are deleted | no join to a deleted object |
| **XML-RPC handlers, uploads, HTTP** | – | decode, take a reference, call, release | registry | – | every reference is released |
| **Codecs, VNC, parsers, DTLS, Java clients, vendored code** | – | – | – | numbers, bytes, libraries | out of scope |

`PROJECT.json` lists the same components with their status, and the hazards with the
line where each bites and the property that covers it. Hazards of parts that are
not modelled are at the end of this file.

## Modules

| Module | Models | Uses |
|---|---|---|
| `FloorControl` | floor control of a conference, a handler with all its callbacks in one step | |
| `FloorControlSteps` | the same, call by call, on several threads | refines `FloorControl` |
| `FloorControlProofs` | theorems on `FloorControl` | |
| `FloorControlStepsProofs` | theorems on `FloorControlSteps`, with those on `FloorControl` carried over | |
| `RWLock` | what the class `Use` promises; operators on a lock value | |
| `UseLock` | the class `Use`, a pthread call a step | refines `RWLock` |
| `ConferenceRefs` | the registry of conferences | two levels of `RWLock` |
| `ConferenceRefsProofs` | theorems on `ConferenceRefs` and on `MediaSession` | |
| `EventQueues` | the event queues | two levels of `RWLock` |
| `EventQueuesProofs` | theorems on `EventQueues` | |
| `RTPLostPackets` | the window of lost packets and its NACKs | |
| `RTPReceive` | a stream received: network, session, jitter buffer, decoder | extends `RTPLostPackets` |
| `RTPReceiveProofs` | theorems on `RTPReceive` and `RTPLostPackets` | |
| `Mosaic` | a mosaic: a record, its methods as operators | |
| `VideoMixer` | the video mixer: its calls and its thread | extends `Mosaic` |
| `VideoMixerProofs` | theorems on `VideoMixer` and `Mosaic`, and on `UseLock` | |
| `TextMixerWorker` | what one reader of the text gets: a record and operators | |
| `TextMixer` | the text mixer: its calls and its thread | extends `TextMixerWorker` |
| `TextMixerProofs` | theorems on `TextMixer` and `TextMixerWorker` | |
| `Joinables` | sources and listeners of a JSR 309 session: a record and operators | |
| `MediaSession` | the calls of such a session and the threads of its coders | extends `Joinables` |
| `MultiConf` | participants, players, broadcaster and recorders of a conference | `RWLock` |
| `MultiConfProofs` | theorems on `MultiConf` | |
| `MC*` | instances for TLC: symmetry and sets of messages | |

Definitions under a comment that starts with `Mutant:` are broken variants of the
definition that follows them. Nothing uses them: with one of them in place of the
definition, the property it is listed with in `PROJECT.json` fails.

### Floor control

State in `FloorControl` is the state of the C++ objects: `users`, `requests`,
`counter` and `ending` of `BFCPFloorControlServer`; `chairs`, `queried`,
`transport` of its `BFCPUser`s; `chairId` of `MultiConf`; `presenterId` and
`editorId` of `AppMixer`; `conn`, the connections with their user and their
`closedByServer` flag. `answered` and `told` record what the server has sent on
a user's transport, and are read by properties only. A message that the server
answers with an error changes nothing and is a stuttering step.

An action is a handler: `ProcessFloorRequest` includes the decision of
`MultiConf::onFloorRequest`, the revocation of every request that shares a
floor, the callbacks `onFloorGranted` and `onFloorReleased` with the editor's
revocation that they cause, and all notifications. The nested calls are given
in closed form (`Released`, `AfterRelease`, `RevokedForGrant`, ...). That the
closed form is right is not obvious, since revocations go on over a list of
pointers taken before the callbacks change the map; `FloorControlSteps` shows
it. There each thread has a list of calls to make, `todo`; a step makes the
first, and puts the calls that one makes in front of the rest. A loop over ids that
were collected is one call with the set of those left, which takes the least, makes the
call for it and comes back with the others. With `Serial` a
handler starts only when no other runs, and the run checks, and `StepsRefine` proves,
that the state at the ends of handlers follows `FloorControl`. Without it the handlers
interleave, as they do in the code, whose map of requests has no lock.

The floors are the two that `MultiConf::Init` adds. Participants have the ids
1, 2, ... in the order they are created.

### Use lock, registry, event queues

`UseLock` has a program counter per thread and one action per pthread call. A
section under `mutex` that tests or sets `cont` is one step with the release of
the mutex. `RWLock` is a record of users, claimant and owner: a claim keeps new
users out from the moment `lock` is taken, before the owner owns.

`ConferenceRefs` and `EventQueues` use the operators of `RWLock` on a value for
the map and on one for each object, so a step goes from one call that can block
to the next. `call` says which step of which call a thread is at and on what.
In both, the final step of a deletion frees the object. A conference's
reference is a user of its entry's lock. In `EventQueues` the mutex of a queue
is not a variable (a section under it is one step) and the signals that follow
outside of it are steps of their own, because a thread may act between the two.
The 30 seconds of `WaitForEvent`, a signal and a spurious wake-up are the same
step: the sleeper goes on to look for an event, as in the code.

Any number of streams may read a queue. Two at once both send its first event and
each removes one, and one signal leaves the other asleep; `shared` remembers the
queues this has happened to, and `SentInOrder` and `SleeperIsWoken` speak of the
others. Controllers open a stream when the last one has ended.

Clients are modelled by what they do: mcuWeb makes the tag of a conference from
a UUID, so `IsFresh` keeps tags apart. An id is used before the conference
exists and after it is deleted, since clients hold ids.

### Reception of a stream

`RTPReceive` has four actors. Senders follow one another, each with its SSRC, and
number their packets from a start near the wrap; the network loses, duplicates
and reorders what is under way, and brings what a NACK asks for. The thread of
the session (`rd`) takes a packet through `ReadRTP`: new SSRC, cycle, window of
lost packets in two steps (`Locate`, then the mark), NACK, jitter buffer. The
decoder (`dec`) waits for the next packet in order, and on a gap resets window
and buffer (`RequestFPU`). A control thread starts and stops the decoder. The
window has no lock in the code, so the decoder's reset may come between the two
steps of the session; `torn` remembers that it did, and the properties of the
window resume at its next reset.

Numbers are modulo `M`, with `Low` and `High` in the roles of 0x0FFF and 0xF000 of the test for
a wrap. `origin`, `newest`, `arrived` and `prev` are what a reader of the sender's
numbers would know, and only properties read them. Time is left out: a wait for
a missing packet may end at any moment, which includes the moments it really
ends.

A number of so many bits can be extended only if packets are not too early or
too late: `MaxAhead` bounds how far the sender gets ahead of what was received, and
`Overtaken` in `Receive` leaves out a packet more than `MaxBehind` behind the
newest, of before a wrap, or of a former sender (see the observations).
`ReceiveAssumption` says how the bounds, the window and the test for a wrap must
fit; the code's 16 bits, 0x0FFF, 0xF000 and window of 640 fit with 4,095 packets
ahead and 57,346 behind.

### Mosaics and the video mixer

A mosaic is a record with the slots, the score and the counter `isFixed` of each
participant, the speaker, the positions, and what each slot was painted with.
Scores are times in the code; only their order matters, so they are ranks.
`VideoMixer` has the calls of `VideoMixer.h` that change mosaics, sources or
speakers, each one section under its lock, except `EndMixer`, which has two. The
mixing thread wakes, delivers, waits and mixes; a signal that finds it elsewhere
than in its wait is lost, as in the code. `image` and `stale` say which picture
a slot shows and whether it is an old one.

### Text mixer

A worker puts together what one participant reads: its writers have queues, one
has the turn, and a turn ends at a space, a full stop, a message delimiter, after
inactivity, or when others have waited too long. A character is its kind and its
number. The clocks of the code are ages that stop at the first value beyond all
limits. `TextMixer` announces writers to workers as participants and private
players come and go.

### JSR 309 sessions

The graph of a session holds both pointers of each join, the threads that run and
the queues that are cancelled. A method of `MediaSession` is one step. A loop over
listeners whose iterations concern different coders is one operator on the set of
them (`StopEncoding`, `Dettach`, `DeleteCoders`). Recorders are
left out of `JoinsAreMutual`: they never leave their sources.

### Conference

`MultiConf` follows the threads of the XML-RPC server from lock to lock. An id is read
and incremented in two steps, since callers hold different locks when they do it.
`mixers` holds the ids with a source in each mixer, `running` the ids whose threads
use theirs. The properties leave out, by name, what the code gets wrong: an id
given to the broadcaster and to a caller (`Clashes`), an FLV recorder on the encoder
of the AppMixer, and a participant recorded while it is deleted (`late`). A clashing
id is left out for good: with three threads the stop of the broadcaster takes the
sources of a participant away, and a third caller may be given the same id, which
two threads cannot show and the attempt at the proof did.

## Runs

Bounds are constants of the modules whose names begin with `Max`, and the sets in the
cfg files. Deadlock is not checked where a bound, or the end of a conference, stops
the system; `use_lock` checks it. Invariants are conjunctions of parts with names
and comments of their own: `MosaicsAreConsistent`, say, is `TypeOK`, `ScoresAreUnique`
and `FixedCountsSlots`. The types of the modules that have proofs are proved, and
not checked again.

| Run | States | Shows |
|---|---|---|
| `floors` | 393,492 | two participants, two connections, three requests for any set of floors, queries: the invariants and the action property of `FloorControl` |
| `floor_steps` | 1,285,631 | two users, one connection, three requests: handlers executed call by call implement `FloorControl`, decide each request, use no deleted request |
| `floor_steps_end` | 102,626 | one user on two connections, two requests, fair threads: reconnections implement `FloorControl` too, and every handler ends |
| `use_lock` | 2,808 | three threads, two spurious wake-ups: implements `RWLock`, no lost wake-up, a claim is served |
| `conferences` | 100,997 | three threads, two conferences, two tags, four calls: references, deletion, tags, and that calls return |
| `event_queues` | 95,917 | three fair threads, a queue, two events, five calls: lifetime, order, wake-ups, and that `DestroyEventQueue` returns |
| `rtp_receive` | 2,136,914 | two senders, four packets, two under way, across a wrap: losses known, numbers right, delivery in order, the decoder woken to stop |
| `video_mixer` | 754,305 | three participants, two mosaics of one or two slots, three calls: mosaics consistent, the right ones shown, no deleted mosaic sent, pictures current |
| `text_mixer` | 105,854 | three participants and a player, three calls, fair thread: writers known, text in order and labelled, everybody gets a turn |
| `media_session` | 248,952 | two endpoints, a player, a recorder, two ports, a transcoder, five calls: joins are sound, coders follow them |
| `multiconf` | 2,667,109 | two threads, five calls, an id or a recorder for each call that makes one: sources and owners, media and sources, nothing used after it is deleted |
| `media_restart` | – | the finding below |

Why the bounds are enough. Floor control: a third request is the first that can
meet two others, granted to different people for different floors, which is
what the nested revocations need; two connections of one user is what
reconnection needs, and a third would only repeat it. The lock: a writer, a
user that it waits for and a thread that comes in between. Registry: creator,
user and deleter at once; a second conference is needed to reuse a tag, four
calls for a creation, a reference and two deletions. Queues: a creation, two
additions, two streams of which one may fail, or one and a destruction; queues
do not meet except in the map. Reception: with a window of three and four packets
the window fills, moves by one and by more, and is passed over; starts at 13 and
14 of 16 put the wrap among the four; masks of two make a NACK of more than one
field. Video: one slot more than participants shown, one fewer, and a second
mosaic to move to; a third participant joins while two are in. Text: a queue of
two overflows, a third writer waits while two alternate, the player is private
to one. Sessions: two endpoints joined, one joined again, then deleted on
either side. Conference: two calls in progress at a time, and five in all:
creation, use, recording, and deletion against another of these, for a
participant, a player and the broadcaster. Symmetry of connections or threads
is used in runs without liveness; ids are ordered and never symmetric.

### Fairness

Weak fairness of the steps of a thread that is inside a call, per thread: the
operating system runs every thread, and a thread inside a call does not stop by
itself. No thread has to start a call. In `UseLock`, users and owners also come
back (`DecUse`, `Unlock` follow in each caller), and nothing is assumed about
who gets a contended mutex: `ClaimIsServed` starts where the writer has `lock`.
In `EventQueues` fairness includes that the 30 seconds pass and that a write
to a client returns; `DestroyReturns` needs the first, because `Cancel` wakes
one sleeper only and the others find out at their time-out.
In the registries `RWLock` gives a free lock to any thread that can take it
with weak fairness, which holds for calls bounded in number.
In `TextMixer` the thread wakes from its 200 ms and gets the lock again, and `End`
returns from its join; nobody has to write or to stop. In `MediaSession` the
threads of smoothers and decoders take what is in their queues.

### Findings

`media_restart` is a run that TLC must find violated. `WaitQueue::Cancel`
(`waitqueue.h:59`) is never taken back for the queue of a JSR 309 decoder, so a port
that is attached a second time has a thread that runs and decodes nothing, against
"Check if need to restart" at `jsr309/AudioDecoderWorker.cpp:53`.

Seen in the models, and kept out of the properties by the exceptions they name, or
by handlers that run one at a time:

- two connection threads both grant the same floor (`BFCPFloorControlServer.cpp:210`,
  against "can only be one" at 407); `FloorControlSteps` with `Serial` FALSE shows it;
- a granted request that ends is never deleted (`BFCPFloorControlServer.cpp:385`).
  `NoDanglingRequest` holds because of it: its mutant, which deletes, fails;
- a request read from a connection that the server is closing is granted and outlives
  the connection (`BFCPFloorControlServer.cpp:535`);
- the same threads: a request is deleted by the removal of its participant while a
  connection's thread grants it, and uses it (`BFCPFloorControlServer.cpp:223`);
- a conference is deleted while its creator still works on it (`mcu.cpp:172`);
- a queue is deleted between the two steps of a `DecUse` on it
  (`xmlstreaminghandler.cpp:274`); two streams on one queue duplicate and lose events (352);
- `SetChair` with an id that is not a user (`multiconf.cpp:701`) leaves the former chair
  with its automatic grants;
- reception: a packet from before a wrap that arrives after it is given the new cycle
  (without `Overtaken`, `NumbersFollowTheSender` fails); `StopReceiving` leaves the buffer cancelled for
  the next `StartReceiving` (`videostream.cpp:268`); a packet with number 0 is left
  out of a NACK;
- video: a change of layout signalled while the thread is busy is sent at the next
  100 ms time-out only (`videomixer.cpp:143`); `SetCompositionType` takes the speaker
  from the new mosaic, which has none (989); `EndMixer` walks the mosaics under another
  lock than those who change them, and a participant added to a mosaic after its
  `EndMixer` stays there; `SetSlot` with a number out of range frees the slot of the
  participant all the same;
- text: `FlushText` goes on to the next writer without a label; a full queue drops a
  block; two private players keep the others from their turn; `End` leaks the
  private writers; a player initialised before its target never writes to it;
- JSR 309: recorders never leave their sources; `GetJoinable` takes the video for a
  missing audio; attaching to a port that is not there detaches;
  `MediaSession::End` leaves the mixers; the maps of a session have no lock;
- conference: a participant recorded between the two halves of its deletion leaves a
  deleted recorder with the watcher's encoder; an FLV recorder is removed twice from one
  encoder and never from the AppMixer's (`multiconf.cpp:352`); `StartRecordingBroadcaster`
  overwrites a recorder; `StopBroadcaster` tests `broadcastId` without the lock;
  `StartBroadcaster` does not look whether the mixers refuse its id.

## Proofs

All hold for every value of the constants that the named assumptions of the modules
allow; each module of proofs begins with its inductive invariant and ends with
its theorems. `VideoMixerProofs` and `ConferenceRefsProofs` are about two components
each, which share no state. The invariants that are proved are those the runs check, so a
run shows a theorem on a small instance.

| Module | Obligations | Theorems, and the property each states |
|---|---|---|
| `FloorControlProofs` | 1,196 | `TypeCorrect`; `OneGrant` (`OneGrantPerFloor`), `MixerFollows` (`MixerFollowsFloors`), `HoldersArePresent` (`BeneficiariesAreUsers`), `PresenterChange` (`PresenterChangeDropsEditor`), `OneTransport` (`TransportIsTheLiveConnection`), `SubscribersCorrect` (`SubscribersInSync`) |
| `FloorControlStepsProofs` | 4,970 | `InvariantHolds`; `EveryDecided` (`EveryRequestDecided`), `NothingDangles` (`NoDanglingRequest`), `StepsRefine` (`ImplementsFloorControl`), `PromisesAtRest`, `PresenterChangesAtRest` |
| `VideoMixerProofs` | 2,802 | `Invariance`; `MosaicsStayConsistent` (`MosaicsAreConsistent`), `TheRightOnesAreShown` (`SlotsShowTheRightOnes`), `SourcesSeeLive` (`SourcesSeeLiveMosaics`), `PicturesStayCurrent` (`PicturesAreCurrent`); of the lock, `LockTypeCorrect`, `OwnerExcludes` (`OwnerExcludesUsers`), `WakeupNotLost` (`NoLostWakeup`), `UseRefinement` (`ImplementsRWLock`) |
| `ConferenceRefsProofs` | 1,894 | `RegistryTypeCorrect`, `ReferencesValid` (`ReferencesStayValid`), `DeletedOnce` (`OneDeleter`), `TagsCorrect` (`TagsFindConferences`); of a session, `SessionJoinsAreSound` (`JoinsAreSound`), `SessionCodersFollow` (`CodersFollowJoins`) |
| `EventQueuesProofs` | 1,976 | `QueuesSound` (`QueuesAreSound`), `NoLostWakeup` (`SleeperIsWoken`), `EventsInOrder` (`SentInOrder`) |
| `RTPReceiveProofs` | 2,404 | `NacksAreExact`, `NumbersCorrect` (`NumbersFollowTheSender`), `Delivery` (`DeliveredInOrder`), `LossesCorrect` (`LossesAreKnown`), `DecoderWoken` (`StoppedDecoderIsWoken`) |
| `TextMixerProofs` | 1,467 | `WrittersKnown` (`WorkersKnowTheirWritters`), `TextShown` (`TextIsShown`) |
| `MultiConfProofs` | 3,493 | `SourcesOwned` (`SourcesAreOwned`), `MediaSourced` (`MediaHasSources`), `ParticipantsThere` (`UsedParticipantsAreThere`), `RecordersThere` (`RecordersAreThere`) |

**Floor control**, for any number of users, requests and connections, and any messages.
`IInv` is the types, one grant per floor, that the mixer follows the floors, and that
beneficiaries are users. None is inductive
alone: that a grant leaves one holder per floor needs that there was one before
(the callback revokes *the* editor's request); that the mixer follows needs that
the request that ends was the only holder, and that holders are users; and all
need the types. `EndRequestsKeeps` says that ending any set of requests in the
closed form keeps the parts about them, `GrantKeeps` that adding one after the
revocations does; the lemma of each action cites these. `EndedIsEmpty` says that a
conference that has ended has no users, so no message of a late connection is
handled. `PresenterChange` also needs that ids are below the counter
(`IdsBelowCounter`), so a new request is not an old one. `OneTransport` adds that an id
that has not been given out yet has no transport and no connection (`Newcomers`), and
`SubscribersCorrect` that a user without a transport was told nothing on it
(`Unanswered`); it follows what each `NotifyForFloorRequest` tells each subscriber, and
needs `OneGrantPerFloor` for a report to be about one request. Assumptions: `MaxUser`
and `MaxRequest` are naturals, `NoConn` is not a connection, messages name sets
of the two floors; the same of `FloorControlSteps`, where XML-RPC is not a connection either.

**Floor control, call by call**, for any users, requests, connections and messages. The
invariant is about what the threads have still to do, wherever their nested calls have
got to. `Known`: requests in the map have ids of their own, given out before, and live
objects. `Deciding`: each request that is not Granted has a thread with a call that will
decide it, or a call about a request that was decided meanwhile; `Emptying`: a
conference that has ended has a thread that goes on to empty the map. Neither needs that
handlers exclude each other, so `EveryDecided` holds for connections whose handlers
interleave, as they do in the code. `NothingDangles` assumes `Serial`, without which it
is false (TLC finds a request that an XML-RPC thread denies and deletes, because its
participant is removed, while the connection's thread is granting it). Then one thread at a time has calls to make (`Alone`), and `Safe`
says that before a kept pointer is used it makes only calls that delete nothing (`Quiet`): a
revocation, its callback, the revocation of the editor's request. `DenyFloorRequest`, which
does delete, is never among them. `Pushed` says where the calls of a thread are after
one of them has put its own in front; `StepKeeps` gives the invariant after any call
from what it does to the requests and from the calls it makes, and each call's lemma
is an instance of it.

`StepsRefine` also assumes `Serial`, and is the proof that the closed form of the nested
revocations is right, for any number of requests. `Follows` says of the thread that runs how
far its handler has come since the state `C` it started in: `Phase` has a part for each
kind of handler and says what its list of calls can be, and what has been done by then.
What the handlers share is a revocation in progress (`At`): `these` are the requests to be
revoked, `all` those and what falls with them, `gone` those that have ended already, `ids`
what is left of the loop, and `inner` the one nested call that may be pending (the
revocation, the callback, or what the callback asks for). `Tight` fixes `all` in advance: it
is closed under the callback's taking of the editor's floor, and has no more than it must;
`Inner` and `Settled` say who presents and edits, and that the editor's floor is free when it
has to be, except while the call that will see to it is pending. That each `inner` leads to
the next (`LoopGoes`), and that at the end `gone` is `all` (`RevokingEnds`), is proved once for
the loops of `GrantFloorRequest` and `RevokeUserFloorRequests`, the release of a request and
the editor's revocation. `...Leads` says that a step of a handler stays in its
phase, goes to the next, or ends in what an action of `FloorControl` does. The invariant
needs a part of what `FloorControl` promises, at the start of each handler (`Kept`): one
grant per floor, without which the editor's request that the callback finds is not
determined, and no report to a user without a transport. The requests of the map have a
status, those of `FloorControl` none; `Up...` lemmas say that nothing depends on it, when
all are Granted.

With it, the theorems on `FloorControl` hold of the state at the ends of handlers:
`PromisesAtRest` states them of the state of `FloorControlSteps` whenever no handler runs. Two
handlers at once may grant one floor twice (see the findings).

**The lock**, for any finite set of threads and any number of spurious wake-ups.
`UseInv` adds to the types: a mutex is held by exactly the threads whose program
counters say so (`MutexesHeld`), the counter is the number of users
(`ContCountsUsers`), and an owner has seen it 0 with new users locked out
(`OwnedIsUnused`). `NoLostWakeup` is inductive with the types alone. The finiteness
of the threads is needed for the counter to be a cardinality. By `UseRefinement`, what is
shown of the modules over `RWLock` is about `use.h`.

**The registry**, for any finite set of threads, any tags and any bound on conferences
and calls. `ReferencesStayValid` is not inductive: the deleting thread erases a conference
some steps after it disabled it. `IInv` says why nobody refers to it then. The
users and the owner of the map's lock are the threads at the steps between taking
and giving it back (`MapHeld`); the users of an entry are the threads that refer
to its conference, and there is none once the deleter has waited (`EntriesHeld`);
a conference is enabled, or being deleted by one thread, or deleted (`OneLife`), so
a reference is never taken to one being deleted; a thread finds what it refers
to (`ReferredIsInMap`). `CreatorsBounded` only keeps ids below the bound
`MaxConf`: it counts the threads that create a conference, which is why the
threads must be finitely many. `TagsCorrect` adds that the tag of a conference
being created is that of no other (`TagsTaken`).

**The event queues**, for any finite set of threads and any bounds. `IInv` is of the
registry's kind: the users of a queue are the threads at the steps between its `IncUse` and
`DecUse` (`QueuesHeld`), a queue is in the map, or destroyed by one thread, or deleted
(`OneLife`). `SleeperIsWoken` needs `OneStream` besides: a queue that was never read by
two streams at once has one. For the order, `InOrder` says that what was sent is 1 to
some n and what is in the queue goes on from there to the last one added, where between
the write and the removal of an event the queue still begins with the event just sent
(`Removed`).

**Reception**, for every `M`, window, bounds and number of senders that
`ReceiveAssumption` allows. `IInv` has six parts, each kept by every step given the others:
the types; that what is under way is near to what was received (`Senders`); that cycles
and extended numbers are the sender's less the wraps before it started (`Numbers`);
that the buffer holds packets of this sender from the next one on (`Buffered`); who waits for
the decoder has told it so (`Wakeup`); that each position of the window is marked
exactly when its packet has arrived (`Windowed`). The proof of the last is arithmetic on
remainders, and shows where `MaxAhead + MaxBehind + Size <= M` is needed: a packet
behind the window must not be taken for one ahead of it. `NacksAreExact` is about the
scan of `GetNacks` over any window, by induction on its length: a recursive function
over an interval can be reasoned about with an induction on a *set* of numbers, for which
well-founded induction gives the least counterexample.

**The text mixer**, for any participants, players, texts and sizes. Each operator on a
worker is shown to keep it `Sound` (what is in a queue is numbered on from what was shown,
and the turn is a present writer's) and `Labelled`; the mixer then keeps `Known`, that a
worker's writers are some of those that write to it and all those with a worker.

**The video mixer**, for any number of participants, mosaics and slots. A mosaic is
`Ready` when its scores are unique, its slots name a participant at most once and
`isFixed` counts them, and `Placed` when `pos` is as `CalculatePositions` should leave it: fixed
slots show whom they name and the VAD slot the speaker, nobody is shown twice, the free
slots go by score, and nobody is left out while one is free. The walk of `CalculatePositions` over the slots is a recursive function; that it
exists and steps as written is shown by an induction over the naturals (`WalkExists`,
`WalkSteps`), and `WalkedAll` says that it puts the participants without a slot of their own into
the free slots from the highest score down, each once. `RankedScores` says that the ranks given
after a change keep the order and stay apart, which `ScoresAreUnique` needs.
`IInv` is `Numbered` (mosaics have numbers given out before), `Good` (each mosaic is
`Sound`, and where a slot is out of date, its source is there and says that its
picture has changed), `Seen` (sources are sent live mosaics) and `Stepping`, types. `PicturesAreCurrent`
needs the second half of `Good`: the thread draws what is out of date only if the
source says it has changed.

**The joins of a session**, for any endpoints, ports, mixers, players and recorders.
`SessionInv` is `Fits` (the graph names live objects, the two pointers of a join agree,
and a decoder runs exactly while it is joined) and `Heard` (an encoder that runs has a listener, and
one that has a codec and a listener runs). A deletion breaks both on the way: it
stops the encoders of an object before their listeners leave, so `Heard` has for
parameter the encoders that are off between its steps, and `Smaller` says that the
steps only take joins away. The loops are operators on sets, which can be reasoned
about; TLC finds the same reachable states as with the loops one listener at a time.
Assumption: ids of different kinds of objects are different, as the maps of
`MediaSession` make them.

**The conference**, for any finite set of threads and any number of calls. `Control` says
what the step of a call implies of its id, that ids and recorders suffice for the
calls still to be made (`MakersBounded`), and which threads hold the two locks
(`LocksHeld`). `Owners` says that the sources of an id are those of the participant or player
in the map, or of the one call that makes or destroys it, as far as it has come
(`Stage`); `Broadcast` the same of the broadcaster's under `broacasterLock`; `Runs` who
may have threads running; `Found` that a participant in use stays in the map, which is what
the claim before `Erase` gives; `Recorded` and `Listeners` who is recorded and who listens.

Only model-checked is liveness (`HandlersEnd`, `ClaimIsServed`, `CallsReturn`,
`DestroyReturns`, `EverybodyGetsATurn`), which is out of the prover's reach.

## Not modelled, and why

- `MCU::End` and the order of shutdown: it frees conferences without waiting.
- Text, formats, logging and XML-RPC parameters: no property is about them.
- Chair policies and priorities of floors: the server stores and never reads them.
- Acceptance of a WebSocket in two halves (`bfcp.cpp:82`): one handler so far.
- Reception: FEC, RTCP reports, encryption, STUN, sending, `HurryUp`, and the
  overflow of extended numbers beyond 32 bits.
- Mixers: samples and sidebars of the audio mixer, drawing, layouts and overlays of
  mosaics; erasures and line ends of text.
- JSR 309: start and stop of sending, receiving, playing and recording.
- Conference: publishing, tokens and the RTMP streams of participants.
- Group chat, RTMP, event sources, `VideoPipe`: planned, see below.
- Media processing, codecs, encryption, file formats, VNC, Java clients and vendored
  code, which are most of the repository's lines: numbers and bytes, not
  control. See the components in `PROJECT.json`.

Hazards of these parts, that no property covers: a WebSocket accepted in two halves
(`bfcp.cpp:82`); ids of conferences that start from the time (`mcu.cpp:50`), `End` without
references (77), ids of event queues without a lock (117), one tag for two
conferences (166), a conference returned after its reference is released (427); the
destructor of a net connection that calls listeners under their lock
(`rtmpnetconnection.cpp:6`); group chat's lock order and reconnection (`groupchat.cpp:61`
and 101); `HurryUp` (`rtpbuffer.h:197`); a stop of `VideoPipe` during a grab
(`videopipe.cpp:99`).

## Plan

1. Done: floor control in two levels, the lock, the registry, the event queues,
   and the proofs above.
2. Done: reception with the jitter buffer; mosaics and the video mixer; the text
   mixer; JSR 309 sessions; participants, players, broadcaster and recorders.
3. Proofs. Done: every invariant that a run checks, that `UseLock` implements `RWLock`,
   and that `FloorControlSteps` implements `FloorControl`.
4. To model: `GroupChat` over the listener mutex of a WebSocket connection; the net
   connection of RTMP with `MCU::Connect`; `VideoPipe`; the sidebars of the audio mixer.
   Worth an abstract specification: a session registry, which MCU, JSR 309, media
   gateway and broadcaster share, and an ordered buffer that gives each packet once.
