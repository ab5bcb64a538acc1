----------------------------- MODULE MultiConf -----------------------------
(***************************************************************************)
(* The life of a conference (multiconf.cpp): participants, players and the *)
(* broadcaster come and go, each with sources in the video, audio and text *)
(* mixers, media threads that read and write them, and recorders that      *)
(* listen to the encoders.  The threads of the XML-RPC server call in      *)
(* parallel; participantsLock is a Use (RWLock), broacasterLock is only    *)
(* ever locked as a mutex, and players have no lock at all.                *)
(*                                                                         *)
(* Ids come from maxId++, which callers do under different locks or none:  *)
(* it is a read and a write, and two calls may be given one id.  They are  *)
(* counted here from the first one after the watcher's.                    *)
(***************************************************************************)
EXTENDS Naturals, FiniteSets

CONSTANTS
    Thread, NoThread,   \* the threads of the XML-RPC server, and nobody
    MaxCalls            \* how many calls are made in all

ASSUME ConfAssumption == /\ NoThread \notin Thread /\ IsFiniteSet(Thread)
                         /\ MaxCalls \in Nat

VARIABLES
    inited,         \* MultiConf::inited
    maxId,          \* MultiConf::maxId
    lock,           \* participantsLock
    broadcastLock,  \* broacasterLock: the thread that holds it
    participants,   \* the ids in the map
    players,        \* the ids in the map
    broadcastId,    \* 0 without broadcaster
    appEnabled,     \* appMixerBroadcastEnabled
    mixers,         \* the ids with a source in each mixer
    running,        \* the ids whose threads use their sources
    recorder,       \* MultiConf::recorder
    made,           \* how many recorders of the broadcast have been made
    listeners,      \* the recorders that listen to flvEncoder and to appMixerEncoder
    recording,      \* the participants whose recorder listens to the watcher's encoders
    deleted,        \* the participants deleted
    closed,         \* the recorders of the broadcast deleted
    given,          \* to whom each id has been given
    late,           \* the participants recorded once their deletion had begun
    returned,       \* the ids returned to the controller
    call,           \* what each thread does: its next step, and with which id
    calls           \* how many calls have been made

registry == <<inited, participants, players, broadcastId, appEnabled, mixers, running>>
records == <<recorder, made, listeners, closed, recording, late>>
vars == <<registry, records, maxId, lock, broadcastLock, deleted, given, returned, call, calls>>

RW == INSTANCE RWLock WITH rw <- lock

\* A call is given one id, or makes one recorder, at most
Id == 1..MaxCalls
AppMixerBroadcasterId == MaxCalls + 1

Kind == {"video", "audio", "text", "private"}
RecorderType == {"flv", "mp4"}
Recorder == [n : 1..MaxCalls, type : RecorderType]
NoRecorder == [n |-> 0, type |-> "none"]

Idle == [at |-> "idle", id |-> 0, for |-> "none", found |-> FALSE]

At(t, step) == call[t].at = step
Goto(t, step) == call' = [call EXCEPT ![t].at = step]
Return(t) == call' = [call EXCEPT ![t] = Idle]

\* The controller makes one call at a time about a player
About(id) == {t \in Thread : call[t].id = id}

-----------------------------------------------------------------------------

\* The watcher of the conference encodes from the start; its sources and the one of
\* the AppMixer stay as long as the conference
Init == /\ inited = TRUE /\ maxId = 1
        /\ lock = RW!Unlocked /\ broadcastLock = NoThread
        /\ participants = {} /\ players = {} /\ broadcastId = 0 /\ appEnabled = FALSE
        /\ mixers = [k \in Kind |-> {}] /\ running = {}
        /\ recorder = NoRecorder /\ made = 0 /\ closed = {}
        /\ listeners = [flv |-> {}, app |-> {}]
        /\ recording = {} /\ late = {} /\ deleted = {}
        /\ given = [id \in Id |-> {}] /\ returned = {}
        /\ call = [t \in Thread |-> Idle] /\ calls = 0

Start(t, step, id, for) ==
    /\ At(t, "idle") /\ calls < MaxCalls
    /\ \A u \in Thread : call[u].for # "end"
    /\ call' = [call EXCEPT ![t] = [at |-> step, id |-> id, for |-> for, found |-> FALSE]]
    /\ calls' = calls + 1
    /\ UNCHANGED <<registry, records, maxId, lock, broadcastLock, deleted, given, returned>>

\* participantsLock.WaitUnusedAndLock(): the claim; OwnAndUnlock is the rest, with
\* what is done up to participantsLock.Unlock()
Claim(t, from, to) ==
    /\ At(t, from) /\ Goto(t, to)
    /\ RW!CanClaim(lock) /\ lock' = RW!Claimed(lock, t)
    /\ UNCHANGED <<registry, records, maxId, broadcastLock, deleted, given, returned, calls>>

OwnAndUnlock(t) == /\ lock.claim = t /\ RW!IsUnused(lock)
                   /\ lock' = RW!Unlock(lock)

LockBroadcaster(t, from, to) ==
    /\ At(t, from) /\ Goto(t, to)
    /\ broadcastLock = NoThread /\ broadcastLock' = t
    /\ UNCHANGED <<registry, records, maxId, lock, deleted, given, returned, calls>>

\* maxId++, the read
ReadId(t, from, to, whom) ==
    /\ At(t, from)
    /\ call' = [call EXCEPT ![t].at = to, ![t].id = maxId]
    /\ given' = [given EXCEPT ![maxId] = @ \cup {whom}]
    /\ UNCHANGED <<registry, records, maxId, broadcastLock, deleted, returned, calls>>

-----------------------------------------------------------------------------
(* The sources of a participant, a player or the broadcaster               *)

\* Mutant: an id that has a source already is taken for a new one
CreateMixerAgain(t, kind, id, to) ==
    /\ Goto(t, to)
    /\ mixers' = [mixers EXCEPT ![kind] = @ \cup {id}]

\* A mixer refuses an id that it has, and the sources made so far are deleted
CreateMixer(t, kind, id, to) ==
    LET before == IF kind = "video" THEN {} ELSE {"video", "audio"} \ {kind}
    IN  \/ /\ id \notin mixers[kind] /\ Goto(t, to)
           /\ mixers' = [mixers EXCEPT ![kind] = @ \cup {id}]
        \/ /\ id \in mixers[kind] /\ Return(t)
           /\ mixers' = [k \in Kind |-> IF k \in before THEN mixers[k] \ {id} ELSE mixers[k]]

CreateMixers(t) ==
    LET id == call[t].id
        last == IF call[t].for = "player" THEN "private" ELSE "text"
    IN  /\ \/ At(t, "video") /\ CreateMixer(t, "video", id, "audio")
           \/ At(t, "audio") /\ CreateMixer(t, "audio", id, "text")
           \/ At(t, "text") /\ CreateMixer(t, last, id, "init")
           \* a player that writes to nobody
           \/ At(t, "text") /\ last = "private" /\ Goto(t, "init") /\ UNCHANGED mixers
        /\ UNCHANGED <<inited, participants, players, broadcastId, appEnabled, running>>

\* EndMixer and DeleteMixer of each mixer, DeletePrivate for a player
DeleteMixers(ids, kinds) ==
    mixers' = [k \in Kind |-> IF k \in kinds THEN mixers[k] \ ids ELSE mixers[k]]

\* GetInput, GetOutput and Init of the new participant, InitMixer
Ready(id) == deleted' = deleted \ {id}

-----------------------------------------------------------------------------
(* Participants                                                            *)

CreateParticipant(t) ==
    /\ \/ inited /\ Start(t, "part_lock", 0, "part")
       \/ Claim(t, "part_lock", "part_own")
       \/ ReadId(t, "part_own", "part_id", "caller") /\ lock.claim = t /\ RW!IsUnused(lock)
             /\ UNCHANGED lock
       \/ /\ At(t, "part_id") /\ Goto(t, "video") /\ OwnAndUnlock(t)
          /\ maxId' = call[t].id + 1
          /\ UNCHANGED <<registry, records, broadcastLock, deleted, given, returned, calls>>
       \/ /\ call[t].for = "part" /\ CreateMixers(t)
          /\ UNCHANGED <<records, maxId, lock, broadcastLock, deleted, given, returned, calls>>
       \/ /\ At(t, "init") /\ call[t].for = "part"
          /\ Ready(call[t].id) /\ Goto(t, "part_insert")
          /\ UNCHANGED <<registry, records, maxId, lock, broadcastLock, given, returned, calls>>
       \/ Claim(t, "part_insert", "part_listed")
       \/ /\ At(t, "part_listed") /\ OwnAndUnlock(t) /\ Return(t)
          /\ participants' = participants \cup {call[t].id}
          /\ returned' = returned \cup {call[t].id}
          /\ UNCHANGED <<inited, players, broadcastId, appEnabled, mixers, running>>
          /\ UNCHANGED <<records, maxId, broadcastLock, deleted, given, calls>>

\* A call about a participant: participantsLock.IncUse(), GetParticipant, the work,
\* participantsLock.DecUse()
Find(t, from, to) ==
    /\ At(t, from)
    /\ call' = [call EXCEPT ![t].at = to, ![t].found = call[t].id \in participants]
    /\ RW!CanIncUse(lock) /\ lock' = RW!IncUse(lock, t)
    /\ UNCHANGED <<registry, records, maxId, broadcastLock, deleted, given, returned, calls>>

\* StartSending, StartReceiving, StopSending, StopReceiving; the settings are left out
SetMedia(t) == /\ running' \in IF call[t].found THEN {running \cup {call[t].id}, running \ {call[t].id}}
                               ELSE {running}
               /\ UNCHANGED <<recording, late>>

\* The recorder may fail to create its file
StartRecordingParticipant(t) ==
    LET id == call[t].id
        deleting == \E u \in About(id) : call[u].at \in {"del_lock", "del_own"}
    IN  /\ \/ call[t].found /\ recording' = recording \cup {id}
           \/ UNCHANGED recording
        /\ late' = IF recording' # recording /\ deleting THEN late \cup {id} ELSE late
        /\ UNCHANGED running

\* Mutant: the recorder stays a listener of the watcher's encoders
StopRecordingVideo(t) == UNCHANGED <<recording, late, running>>

StopRecordingParticipant(t) ==
    /\ recording' = IF call[t].found THEN recording \ {call[t].id} ELSE recording
    /\ UNCHANGED <<running, late>>

ParticipantCall(t) ==
    \/ \E id \in returned, for \in {"media", "record", "unrecord"} : Start(t, "find", id, for)
    \/ Find(t, "find", "use")
    \/ /\ At(t, "use") /\ Return(t)
       /\ \/ call[t].for = "media" /\ SetMedia(t)
          \/ call[t].for = "record" /\ StartRecordingParticipant(t)
          \/ call[t].for = "unrecord" /\ StopRecordingParticipant(t)
       /\ lock' = RW!DecUse(lock, t)
       /\ UNCHANGED <<inited, participants, players, broadcastId, appEnabled, mixers>>
       /\ UNCHANGED <<recorder, made, listeners, closed, maxId, broadcastLock, deleted, given, returned, calls>>

\* Mutant: the sources are deleted while the streams of the participant run
DestroySources(t) ==
    \/ /\ At(t, "destroy") /\ Goto(t, "destroy_mixers")
       /\ DeleteMixers({call[t].id}, {"video", "audio", "text"})
       /\ UNCHANGED <<running, deleted>>
    \/ /\ At(t, "destroy_mixers") /\ Return(t)
       /\ running' = running \ {call[t].id} /\ deleted' = deleted \cup {call[t].id}
       /\ UNCHANGED mixers

\* part->End, then the sources, then delete part
DestroyParticipant(t) ==
    \/ /\ At(t, "destroy") /\ Goto(t, "destroy_mixers")
       /\ running' = running \ {call[t].id}
       /\ UNCHANGED <<mixers, deleted>>
    \/ /\ At(t, "destroy_mixers") /\ Return(t)
       /\ DeleteMixers({call[t].id}, {"video", "audio", "text"})
       /\ deleted' = deleted \cup {call[t].id}
       /\ UNCHANGED running

\* Mutant: the participant leaves the map while others may be using it
EraseInUse(t) == /\ lock.claim = t /\ lock' = RW!Unlock(lock)
                 /\ participants' = participants \ {call[t].id}

Erase(t) == OwnAndUnlock(t) /\ participants' = participants \ {call[t].id}

DeleteParticipant(t) ==
    \/ \E id \in returned : Start(t, "del", id, "del")
    \/ Find(t, "del", "del_stop")
    \/ /\ At(t, "del_stop")
       /\ call' = [call EXCEPT ![t].at = "del_lock", ![t].found = FALSE]
       /\ StopRecordingParticipant(t)
       /\ lock' = RW!DecUse(lock, t)
       /\ UNCHANGED <<inited, participants, players, broadcastId, appEnabled, mixers>>
       /\ UNCHANGED <<recorder, made, listeners, closed, maxId, broadcastLock, deleted, given, returned, calls>>
    \/ Claim(t, "del_lock", "del_own")
    \/ /\ At(t, "del_own") /\ Erase(t)
       /\ IF call[t].id \in participants THEN Goto(t, "destroy") ELSE Return(t)
       /\ UNCHANGED <<inited, players, broadcastId, appEnabled, mixers, running>>
       /\ UNCHANGED <<records, maxId, broadcastLock, deleted, given, returned, calls>>
    \/ /\ DestroyParticipant(t)
       /\ UNCHANGED <<inited, participants, players, broadcastId, appEnabled>>
       /\ UNCHANGED <<records, maxId, lock, broadcastLock, given, returned, calls>>

-----------------------------------------------------------------------------
(* Players                                                                 *)

CreatePlayer(t) ==
    /\ \/ inited /\ Start(t, "player_id", 0, "player")
       \/ ReadId(t, "player_id", "player_next", "caller") /\ UNCHANGED lock
       \/ /\ At(t, "player_next") /\ Goto(t, "video")
          /\ maxId' = call[t].id + 1
          /\ UNCHANGED <<registry, records, lock, broadcastLock, deleted, given, returned, calls>>
       \/ /\ call[t].for = "player" /\ CreateMixers(t)
          /\ UNCHANGED <<records, maxId, lock, broadcastLock, deleted, given, returned, calls>>
       \/ /\ At(t, "init") /\ call[t].for = "player" /\ Return(t)
          /\ players' = players \cup {call[t].id}
          /\ returned' = returned \cup {call[t].id}
          /\ UNCHANGED <<inited, participants, broadcastId, appEnabled, mixers, running>>
          /\ UNCHANGED <<records, maxId, lock, broadcastLock, deleted, given, calls>>

\* StartPlaying and StopPlaying
Play(id) ==
    /\ id \in players /\ About(id) = {} /\ calls < MaxCalls
    /\ running' \in {running \cup {id}, running \ {id}}
    /\ calls' = calls + 1
    /\ UNCHANGED <<inited, participants, players, broadcastId, appEnabled, mixers>>
    /\ UNCHANGED <<records, maxId, lock, broadcastLock, deleted, given, returned, call>>

DeletePlayer(t) ==
    \/ \E id \in players : About(id) = {} /\ Start(t, "player_erase", id, "del_player")
    \/ /\ At(t, "player_erase") /\ Goto(t, "player_stop")
       /\ players' = players \ {call[t].id}
       /\ UNCHANGED <<inited, participants, broadcastId, appEnabled, mixers, running>>
       /\ UNCHANGED <<records, maxId, lock, broadcastLock, deleted, given, returned, calls>>
    \/ /\ At(t, "player_stop") /\ Goto(t, "player_mixers")
       /\ running' = running \ {call[t].id}
       /\ UNCHANGED <<inited, participants, players, broadcastId, appEnabled, mixers>>
       /\ UNCHANGED <<records, maxId, lock, broadcastLock, deleted, given, returned, calls>>
    \/ /\ At(t, "player_mixers") /\ Return(t)
       /\ DeleteMixers({call[t].id}, {"video", "audio", "private"})
       /\ UNCHANGED <<inited, participants, players, broadcastId, appEnabled, running>>
       /\ UNCHANGED <<records, maxId, lock, broadcastLock, deleted, given, returned, calls>>

-----------------------------------------------------------------------------
(* The broadcaster and its recorder                                        *)

StartBroadcaster(t) ==
    \/ \E for \in {"cast", "cast_app"} : inited /\ Start(t, "cast_lock", 0, for)
    \/ LockBroadcaster(t, "cast_lock", "cast_test")
    \/ /\ At(t, "cast_test") /\ broadcastId > 0 /\ Return(t)
       /\ broadcastLock' = NoThread
       /\ UNCHANGED <<registry, records, maxId, lock, deleted, given, returned, calls>>
    \/ broadcastId = 0 /\ ReadId(t, "cast_test", "cast_id", "broadcaster") /\ UNCHANGED lock
    \/ /\ At(t, "cast_id") /\ Goto(t, "cast_mixers")
       /\ maxId' = call[t].id + 1 /\ broadcastId' = call[t].id
       /\ UNCHANGED <<inited, participants, players, appEnabled, mixers, running>>
       /\ UNCHANGED <<records, lock, broadcastLock, deleted, given, returned, calls>>
    \* nobody asks whether CreateMixer has refused
    \/ /\ At(t, "cast_mixers") /\ Goto(t, "cast_encode")
       /\ mixers' = [k \in Kind |-> IF k = "private" THEN mixers[k] ELSE mixers[k] \cup {broadcastId}]
       /\ UNCHANGED <<inited, participants, players, broadcastId, appEnabled, running>>
       /\ UNCHANGED <<records, maxId, lock, broadcastLock, deleted, given, returned, calls>>
    \/ /\ At(t, "cast_encode") /\ Return(t) /\ broadcastLock' = NoThread
       /\ IF call[t].for = "cast_app"
          THEN /\ appEnabled' = TRUE
               /\ mixers' = [mixers EXCEPT !["video"] = @ \cup {AppMixerBroadcasterId}]
               /\ running' = running \cup {broadcastId, AppMixerBroadcasterId}
          ELSE /\ running' = running \cup {broadcastId}
               /\ UNCHANGED <<appEnabled, mixers>>
       /\ UNCHANGED <<inited, participants, players, broadcastId>>
       /\ UNCHANGED <<records, maxId, lock, deleted, given, returned, calls>>

\* Nobody asks whether there is a broadcaster, or a recorder already.  Create or
\* Record may fail.
StartRecordingBroadcaster(t) ==
    \/ \E type \in RecorderType : Start(t, "rec_lock", 0, type)
    \/ LockBroadcaster(t, "rec_lock", "rec")
    \/ LET new == [n |-> made + 1, type |-> call[t].for]
       IN  /\ At(t, "rec") /\ Return(t) /\ broadcastLock' = NoThread
           /\ \/ /\ recorder' = new
                 /\ listeners' = [flv |-> listeners.flv \cup {new},
                                  app |-> listeners.app \cup (IF appEnabled THEN {new} ELSE {})]
                 /\ UNCHANGED closed
              \/ /\ recorder' = NoRecorder /\ closed' = closed \cup {new}
                 /\ UNCHANGED listeners
           /\ made' = made + 1
           /\ UNCHANGED <<registry, recording, late, maxId, lock, deleted, given, returned, calls>>

\* An FLV recorder is removed from flvEncoder, twice if the AppMixer is broadcast, and
\* not from appMixerEncoder
Unlistened(r) ==
    [flv |-> listeners.flv \ {r},
     app |-> IF r.type = "mp4" /\ appEnabled THEN listeners.app \ {r} ELSE listeners.app]

StopRecordingBroadcaster(t) ==
    \/ Start(t, "stop_rec_lock", 0, "unrec")
    \/ LockBroadcaster(t, "stop_rec_lock", "stop_rec")
    \/ /\ At(t, "stop_rec") /\ broadcastLock' = NoThread
       /\ IF recorder = NoRecorder THEN UNCHANGED <<listeners, closed>>
          ELSE listeners' = Unlistened(recorder) /\ closed' = closed \cup {recorder}
       /\ recorder' = NoRecorder
       /\ IF call[t].for = "unrec" THEN Return(t) ELSE Goto(t, "stop_lock")
       /\ UNCHANGED <<registry, made, recording, late, maxId, lock, deleted, given, returned, calls>>

\* FLVEncoder::End
EndEncoder(encoder) == listeners' = [listeners EXCEPT ![encoder] = {}]

Done(t) == IF call[t].for = "end" THEN Goto(t, "end") ELSE Return(t)

\* The test of broadcastId is made before the lock is taken, and not again
StopBroadcaster(t) ==
    \/ Start(t, "stop_test", 0, "stop")
    \/ /\ At(t, "stop_test")
       /\ IF broadcastId = 0 THEN Done(t) ELSE Goto(t, "stop_rec_lock")
       /\ UNCHANGED <<registry, records, maxId, lock, broadcastLock, deleted, given, returned, calls>>
    \/ LockBroadcaster(t, "stop_lock", "stop_encode")
    \/ /\ At(t, "stop_encode") /\ Goto(t, "stop_mixers")
       /\ running' = running \ {broadcastId}
       /\ UNCHANGED <<inited, participants, players, broadcastId, appEnabled, mixers>>
       /\ UNCHANGED <<records, maxId, lock, broadcastLock, deleted, given, returned, calls>>
    \/ /\ At(t, "stop_mixers") /\ Goto(t, "stop_app")
       /\ DeleteMixers({broadcastId}, {"video", "audio", "text"})
       /\ IF broadcastId = 0 THEN UNCHANGED listeners ELSE EndEncoder("flv")
       /\ broadcastId' = 0
       /\ UNCHANGED <<inited, participants, players, appEnabled, running>>
       /\ UNCHANGED <<recorder, made, closed, recording, late>>
       /\ UNCHANGED <<maxId, lock, broadcastLock, deleted, given, returned, calls>>
    \/ /\ At(t, "stop_app") /\ Done(t) /\ broadcastLock' = NoThread
       /\ IF appEnabled
          THEN /\ EndEncoder("app") /\ DeleteMixers({AppMixerBroadcasterId}, {"video"})
               /\ running' = running \ {AppMixerBroadcasterId}
          ELSE UNCHANGED <<listeners, mixers, running>>
       /\ appEnabled' = FALSE
       /\ UNCHANGED <<inited, participants, players, broadcastId>>
       /\ UNCHANGED <<recorder, made, closed, recording, late>>
       /\ UNCHANGED <<maxId, lock, deleted, given, returned, calls>>

\* The MCU ends a conference when nobody refers to it (ConferenceRefs), and deletes it
End(t) ==
    \/ /\ inited /\ \A u \in Thread : At(u, "idle")
       /\ Start(t, "stop_test", 0, "end")
    \/ /\ At(t, "end") /\ Return(t)
       /\ inited' = FALSE
       /\ participants' = {} /\ players' = {} /\ returned' = {}
       /\ deleted' = deleted \cup participants
       /\ running' = running \ (participants \cup players)
       /\ mixers' = [k \in Kind |-> {}]
       /\ UNCHANGED <<broadcastId, appEnabled, records, maxId, lock, broadcastLock, given, calls>>

Next ==
    \/ \E t \in Thread :
          \/ CreateParticipant(t) \/ ParticipantCall(t) \/ DeleteParticipant(t)
          \/ CreatePlayer(t) \/ DeletePlayer(t)
          \/ StartBroadcaster(t) \/ StartRecordingBroadcaster(t)
          \/ StopRecordingBroadcaster(t) \/ StopBroadcaster(t) \/ End(t)
    \/ \E id \in Id : Play(id)

Spec == Init /\ [][Next]_vars

-----------------------------------------------------------------------------

\* maxId++ may give the broadcaster the id of a participant or a player, which then
\* loses its sources when the broadcast stops; somebody may be given the id again
Clashes(id) == id \in Id /\ given[id] = {"caller", "broadcaster"}

TypeOK ==
    /\ maxId \in 1..(MaxCalls + 1) /\ broadcastId \in 0..MaxCalls
    /\ lock \in RW!Lock /\ broadcastLock \in Thread \cup {NoThread}
    /\ participants \cup players \cup deleted \cup recording \cup late \cup returned \subseteq Id
    /\ mixers \in [Kind -> SUBSET (Id \cup {AppMixerBroadcasterId})]
    /\ running \subseteq Id \cup {AppMixerBroadcasterId}
    /\ recorder \in Recorder \cup {NoRecorder}
    /\ listeners.flv \cup listeners.app \cup closed \subseteq Recorder

\* multiconf.cpp CreateParticipant, CreatePlayer, DeleteParticipant, DeletePlayer: when
\* no call is in progress each source of a mixer has its one owner, and no owner is
\* without, though maxId++ may have given two of them one id: the mixers refuse the
\* second.
EverySourceHasAnOwner ==
    (\A t \in Thread : At(t, "idle")) =>
        /\ \A id \in Id : ~Clashes(id) =>
              /\ id \notin participants \cap players
              /\ id \in mixers["video"] <=> id \in participants \cup players \cup {broadcastId}
              /\ id \in mixers["text"] <=> id \in participants \cup {broadcastId}
              /\ id \in mixers["private"] => id \in players
        /\ AppMixerBroadcasterId \in mixers["video"] <=> appEnabled

\* multiconf.cpp: the sources in the mixers are those of the maps of the conference.
SourcesAreOwned == TypeOK /\ EverySourceHasAnOwner

\* multiconf.cpp DestroyParticipant, DeletePlayer, StopBroadcaster, End: the threads of
\* a participant, a player or an encoder run only while the sources they read and
\* write are in the mixers, whatever other calls come and go.
MediaHasSources ==
    \A id \in running : ~Clashes(id) =>
        /\ id \in mixers["video"]
        /\ id \in Id => id \in mixers["audio"]

\* multiconf.cpp, every call under participantsLock.IncUse(): the participant found is
\* not deleted, nor its sources, before the call is done with it.
UsedParticipantsAreThere ==
    \A t \in Thread : call[t].found /\ ~Clashes(call[t].id) =>
        call[t].id \notin deleted /\ call[t].id \in mixers["video"]

\* multiconf.cpp StartRecordingBroadcaster, StopRecordingBroadcaster, StopBroadcaster: a
\* recorder that has been deleted listens to no encoder, in whatever order broadcast
\* and recording were started and stopped.  (An FLV recorder of the AppMixer does:
\* it is never removed from appMixerEncoder.)
BroadcastRecordersAreThere ==
    \A r \in closed : /\ r \notin listeners.flv
                      /\ r.type = "mp4" => r \notin listeners.app

\* multiconf.cpp:714 "Stop recording participant just in case": while the watcher
\* encodes it calls the recorder of no deleted participant.  (Of one that somebody
\* starts to record between this and its removal from the map, it does.)
ParticipantRecordersAreThere ==
    inited => \A id \in recording \cap deleted : id \in late \/ Clashes(id)

\* multiconf.cpp: no encoder, of the broadcast or of the watcher, calls a recorder that
\* has been deleted.
RecordersAreThere == BroadcastRecordersAreThere /\ ParticipantRecordersAreThere

=============================================================================
