-------------------------- MODULE MultiConfProofs --------------------------
(***************************************************************************)
(* For any number of threads and calls: the sources in the mixers are      *)
(* those of the maps of the conference, media threads have their sources,  *)
(* a participant found in the map is there until the call is done with it, *)
(* and no encoder calls a recorder that has been deleted.                  *)
(***************************************************************************)
EXTENDS MultiConf, FiniteSetTheorems, TLAPS

-----------------------------------------------------------------------------
(* The steps of the calls                                                  *)

\* A thread at one of these steps has read maxId and has still to set it, ...
Reading == {"part_id", "player_next", "cast_id"}
\* ... may use up an id or the number of a recorder, ...
Making == {"part_lock", "part_own", "player_id", "cast_lock", "cast_test", "rec_lock", "rec"}
          \cup Reading
\* ... creates the sources of a participant or a player, and inserts it, ...
Creating == {"video", "audio", "text", "init"}
Inserting == {"part_insert", "part_listed"}
\* ... uses a participant, removes it from the map, or destroys it, ...
Using == {"use", "del_stop"}
Deleting == {"del_lock", "del_own"}
Destroying == {"destroy", "destroy_mixers"}
\* ... starts or stops the broadcaster.
Casting == {"cast_mixers", "cast_encode"}
Stopping == {"stop_test", "stop_rec_lock", "stop_rec", "stop_lock",
             "stop_encode", "stop_mixers", "stop_app"}

\* It has claimed participantsLock, or has broacasterLock.
Owning == {"part_own", "part_id", "part_listed", "del_own"}
Broadcasting == {"cast_test", "cast_id", "cast_mixers", "cast_encode", "rec", "stop_rec",
                 "stop_encode", "stop_mixers", "stop_app"}

\* Its call is about a participant or a player.
Named == {"part_id", "player_next", "find", "del", "player_erase", "player_stop", "player_mixers"}
         \cup Creating \cup Inserting \cup Using \cup Deleting \cup Destroying

Steps == {"idle", "end"} \cup Making \cup Casting \cup Stopping \cup Named
Fors == {"none", "part", "player", "media", "record", "unrecord", "del", "del_player",
         "cast", "cast_app", "flv", "mp4", "unrec", "stop", "end"}
CallType == [at : Steps, id : 0..MaxCalls, for : Fors, found : BOOLEAN]

-----------------------------------------------------------------------------
(* The inductive invariant: the calls and the locks                        *)

Types ==
    /\ inited \in BOOLEAN /\ appEnabled \in BOOLEAN
    /\ maxId \in 1..(MaxCalls + 1) /\ broadcastId \in 0..MaxCalls
    /\ lock \in RW!Lock /\ broadcastLock \in Thread \cup {NoThread}
    /\ participants \subseteq Id /\ players \subseteq Id /\ deleted \subseteq Id
    /\ recording \subseteq Id /\ late \subseteq Id /\ returned \subseteq Id
    /\ mixers \in [Kind -> SUBSET (Id \cup {AppMixerBroadcasterId})]
    /\ running \subseteq Id \cup {AppMixerBroadcasterId}
    /\ recorder \in Recorder \cup {NoRecorder} /\ closed \subseteq Recorder
    /\ made \in 0..MaxCalls
    /\ listeners \in [flv : SUBSET Recorder, app : SUBSET Recorder]
    /\ given \in [Id -> SUBSET {"caller", "broadcaster"}]
    /\ call \in [Thread -> CallType]
    /\ calls \in 0..MaxCalls

\* What a step tells of the call, and of the id that the call has been given.
CallIsSound(c) ==
    /\ c.at = "idle" => c.for = "none"
    /\ c.at \in {"part_lock", "part_own", "part_id"} => c.for = "part"
    /\ c.at \in {"player_id", "player_next"} => c.for = "player"
    /\ c.at \in Creating => c.for \in {"part", "player"}
    /\ c.at \in {"rec_lock", "rec"} => c.for \in RecorderType
    /\ c.for = "end" => c.at \in Stopping \cup {"end"}
    /\ c.at = "end" => c.for = "end"
    /\ c.found => c.at \in Using
    /\ c.at \in Named => c.id \in Id /\ "caller" \in given[c.id]
    /\ c.at \in Casting \cup {"cast_id"} => c.id \in Id /\ "broadcaster" \in given[c.id]
    /\ c.at \notin Named \cup Casting \cup {"cast_id"} => c.id = 0

\* A conference is ended when nothing else is going on.
CallsAreSound ==
    /\ \A t \in Thread : CallIsSound(call[t])
    /\ \A t, u \in Thread : call[t].for = "end" => u = t \/ call[u].at = "idle"
    /\ \A id \in participants \cup players \cup returned : "caller" \in given[id]

\* Calls use up one id, or make one recorder, each.
Makers == {t \in Thread : call[t].at \in Making}
MakersBounded ==
    /\ maxId + Cardinality(Makers) <= calls + 1
    /\ made + Cardinality(Makers) <= calls
    /\ \A t \in Thread : call[t].at \in Reading => call[t].id + Cardinality(Makers) <= calls + 1

LocksHeld ==
    \A t \in Thread : /\ t \in lock.users <=> call[t].at \in Using
                      /\ t = lock.claim <=> call[t].at \in Owning
                      /\ t = broadcastLock <=> call[t].at \in Broadcasting

Control == Types /\ CallsAreSound /\ MakersBounded /\ LocksHeld

-----------------------------------------------------------------------------
(* The inductive invariant: the conference                                 *)

\* The ids not given to the broadcaster, and those given to nobody else
Callers == {id \in Id : "broadcaster" \notin given[id]}
Casters == {id \in Id : "caller" \notin given[id]}

\* How far a call has come with the sources of its id: it has made that of the video
\* mixer, that of the audio mixer too, all those of a participant or of a player; or it
\* is about to take a player out of the map.
Stage(c) ==
    IF c.at = "audio" THEN "video"
    ELSE IF c.at = "text" THEN "audio"
    ELSE IF c.at \in Inserting \cup Destroying \/ (c.at = "init" /\ c.for = "part") THEN "part"
    ELSE IF c.at \in {"player_stop", "player_mixers"} \/ (c.at = "init" /\ c.for = "player") THEN "player"
    ELSE IF c.at = "player_erase" THEN "erase" ELSE "none"

OwningStages == {"video", "audio", "part", "player"}
Staged(id, stages) == \E t \in Thread : call[t].id = id /\ Stage(call[t]) \in stages

\* The sources of an id belong to the participant, to the player or to the one call that
\* makes or destroys it.
OneOwner(id) ==
    /\ id \notin participants \cap players
    /\ Staged(id, OwningStages) => id \notin participants \cup players
    /\ \A t, u \in Thread :
          (/\ call[t].id = id /\ Stage(call[t]) \in OwningStages
           /\ call[u].id = id /\ Stage(call[u]) \in OwningStages) => t = u
    /\ Staged(id, {"erase"}) => id \in players
    /\ \A t, u \in Thread :
          (/\ call[t].id = id /\ Stage(call[t]) = "erase"
           /\ call[u].id = id /\ Stage(call[u]) = "erase") => t = u
    /\ id \in mixers["video"] <=> id \in participants \cup players \/ Staged(id, OwningStages)
    /\ id \in mixers["audio"] <=> id \in participants \cup players
                                  \/ Staged(id, {"audio", "part", "player"})
    /\ id \in mixers["text"] <=> id \in participants \/ Staged(id, {"part"})
    /\ id \in mixers["private"] => id \in players \/ Staged(id, {"player"})

Owners == \A id \in Callers : OneOwner(id)

\* The broadcaster has its sources from the step that makes them to the one that
\* deletes them, under broacasterLock.
Broadcast ==
    /\ broadcastId # 0 => "broadcaster" \in given[broadcastId]
    /\ \A id \in Casters :
          /\ \A k \in {"video", "audio", "text"} :
                id \in mixers[k] <=> id = broadcastId /\ \A t \in Thread : ~At(t, "cast_mixers")
          /\ id \notin mixers["private"]
    /\ \A t \in Thread : /\ At(t, "cast_id") => broadcastId = 0
                         /\ call[t].at \in Casting => broadcastId = call[t].id
                         /\ call[t].at \in {"stop_app", "end"} => broadcastId = 0
    /\ AppMixerBroadcasterId \in mixers["video"] <=> appEnabled
    /\ appEnabled /\ broadcastId = 0 => \E t \in Thread : At(t, "stop_app")

\* Whose media threads run
Runs ==
    /\ \A id \in running \cap Callers :
          \/ id \in participants \cup players
          \/ \E t \in Thread : call[t].id = id /\ call[t].at \in {"destroy", "player_stop"}
    /\ \A id \in running \cap Casters :
          id = broadcastId /\ \A t \in Thread : call[t].at \notin {"cast_mixers", "stop_mixers"}
    /\ AppMixerBroadcasterId \in running => appEnabled

\* A participant in the map, or about to be, is not deleted; and those who use one keep
\* it in the map.
Found ==
    /\ \A id \in Callers \cap deleted :
          /\ id \notin participants
          /\ \A t \in Thread : call[t].id = id => call[t].at \notin Inserting
    /\ \A t \in Thread : call[t].at \in Using => (call[t].found <=> call[t].id \in participants)

\* Between the end of its recording and its removal from the map nobody records a
\* participant, but for those in late.
Recorded ==
    inited => /\ recording \ late \subseteq participants
              /\ \A t \in Thread : call[t].at \in Deleting => call[t].id \notin recording \ late

\* A recorder that has been made is never made again; only while the AppMixer is
\* broadcast does anyone listen to its encoder.
Listeners ==
    /\ \A r \in closed \cup listeners.flv \cup listeners.app \cup {recorder} : r.n <= made
    /\ BroadcastRecordersAreThere
    /\ listeners.app # {} => appEnabled

Conference == Owners /\ Broadcast /\ Runs /\ Found /\ Recorded /\ Listeners
IInv == Control /\ Conference

-----------------------------------------------------------------------------
(* The ways a thread moves                                                 *)

\* Thread t makes a step, and no other one.
Moves(t) == /\ call' \in [Thread -> CallType]
            /\ \A u \in Thread : u # t => call'[u] = call[u]

LEMMA GotoMoves ==
  ASSUME Types, NEW t \in Thread, NEW to \in Steps, Goto(t, to)
  PROVE  /\ Moves(t) /\ call'[t].at = to /\ call'[t].id = call[t].id
         /\ call'[t].for = call[t].for /\ call'[t].found = call[t].found
BY DEF Types, CallType, Goto, Moves

LEMMA ReturnMoves ==
  ASSUME Types, NEW t \in Thread, Return(t)
  PROVE  /\ Moves(t) /\ call'[t].at = "idle" /\ call'[t].id = 0
         /\ call'[t].for = "none" /\ call'[t].found = FALSE
<1>1. Idle \in CallType
  BY ConfAssumption DEF CallType, Idle, Steps, Fors
<1>2. Idle.at = "idle" /\ Idle.id = 0 /\ Idle.for = "none" /\ Idle.found = FALSE
  BY DEF Idle
<1>3. call'[t] = Idle /\ Moves(t)
  BY <1>1 DEF Types, Return, Moves
<1> QED  BY <1>2, <1>3

LEMMA StartMoves ==
  ASSUME Types, NEW t \in Thread, NEW step \in Steps, NEW id \in 0..MaxCalls, NEW for \in Fors,
         Start(t, step, id, for)
  PROVE  /\ Moves(t) /\ call[t].at = "idle"
         /\ call'[t].at = step /\ call'[t].id = id /\ call'[t].for = for /\ call'[t].found = FALSE
         /\ calls < MaxCalls /\ calls' = calls + 1
         /\ \A u \in Thread : call[u].for # "end"
         /\ UNCHANGED <<registry, records, maxId, lock, broadcastLock, deleted, given, returned>>
<1>1. [at |-> step, id |-> id, for |-> for, found |-> FALSE] \in CallType
  BY DEF CallType
<1>2. call'[t] = [at |-> step, id |-> id, for |-> for, found |-> FALSE] /\ Moves(t)
  BY <1>1 DEF Types, Start, Moves
<1> QED  BY <1>2 DEF Start, At

LEMMA ReadMoves ==
  ASSUME Types, NEW t \in Thread, NEW from, NEW to \in Steps, NEW whom, ReadId(t, from, to, whom),
         maxId \in 0..MaxCalls
  PROVE  /\ Moves(t) /\ call[t].at = from /\ call'[t].at = to /\ call'[t].id = maxId
         /\ call'[t].for = call[t].for /\ call'[t].found = call[t].found
BY DEF Types, CallType, ReadId, At, Moves

LEMMA FindMoves ==
  ASSUME Types, NEW t \in Thread, NEW from, NEW to \in Steps, Find(t, from, to)
  PROVE  /\ Moves(t) /\ call[t].at = from /\ call'[t].at = to /\ call'[t].id = call[t].id
         /\ call'[t].for = call[t].for /\ call'[t].found = (call[t].id \in participants)
<1>1. (call[t].id \in participants) \in BOOLEAN
  OBVIOUS
<1>2. call'[t] = [call[t] EXCEPT !.at = to, !.found = (call[t].id \in participants)]
  BY DEF Types, Find
<1>3. call'[t] \in CallType
  BY <1>1, <1>2 DEF Types, CallType
<1>4. Moves(t)
  BY <1>3 DEF Types, Find, Moves
<1> QED  BY <1>2, <1>4 DEF Types, CallType, Find, At

-----------------------------------------------------------------------------
(* Steps and the calls                                                     *)

\* An id is never taken back from whom it has been given.
GivenGrows == \A id \in Id : given[id] \subseteq given'[id]

\* The calls stay sound when that of t does and t does not end the conference.
LEMMA SoundKeeps ==
  ASSUME Control, NEW t \in Thread, Moves(t), GivenGrows, CallIsSound(call[t])',
         call[t].at # "idle", call'[t].for = "end" => call[t].for = "end",
         \A id \in participants' \cup players' \cup returned' : "caller" \in given'[id]
  PROVE  CallsAreSound'
<1>1. ASSUME NEW u \in Thread, u # t PROVE CallIsSound(call[u])'
  <2>1. CallIsSound(call[u]) /\ call'[u] = call[u]
    BY <1>1 DEF Control, CallsAreSound, Moves
  <2> QED  BY <2>1 DEF CallIsSound, GivenGrows
<1>2. ASSUME NEW u \in Thread, NEW v \in Thread, call'[u].for = "end", v # u
      PROVE  call'[v].at = "idle"
  <2>1. \A w \in Thread : w # t => call'[w] = call[w]
    BY DEF Moves
  <2>2. call[u].for = "end"
    BY <1>2, <2>1
  <2>3. call[v].at = "idle" /\ u = t
    BY <1>2, <2>2 DEF Control, CallsAreSound
  <2> QED  BY <1>2, <2>1, <2>3
<1> QED  BY <1>1, <1>2 DEF CallsAreSound

\* The makers
LEMMA MakersFinite == IsFiniteSet(Makers) /\ Cardinality(Makers) \in Nat
<1>1. IsFiniteSet(Makers)
  BY ConfAssumption, FS_Subset DEF Makers
<1> QED  BY <1>1, FS_CardinalityType

\* A step that starts no maker and sets no counter keeps them below the bounds, ...
LEMMA MakersKeep ==
  ASSUME Control, NEW t \in Thread, Moves(t), UNCHANGED <<maxId, made>>,
         calls' = calls \/ calls' = calls + 1,
         call'[t].at \in Making => call[t].at \in Making,
         call'[t].at \in Reading => \/ call'[t].id = maxId
                                    \/ call[t].at \in Reading /\ call'[t].id = call[t].id
  PROVE  MakersBounded'
<1>1. Makers' \subseteq Makers
  BY DEF Makers, Moves
<1>2. Cardinality(Makers') <= Cardinality(Makers) /\ Cardinality(Makers') \in Nat
  BY <1>1, MakersFinite, FS_Subset, FS_CardinalityType
<1>3. /\ maxId \in Nat /\ made \in Nat /\ calls \in Nat
      /\ maxId + Cardinality(Makers) <= calls + 1 /\ made + Cardinality(Makers) <= calls
  BY ConfAssumption DEF Control, Types, MakersBounded
<1>4. ASSUME NEW u \in Thread, call'[u].at \in Reading
      PROVE  call'[u].id + Cardinality(Makers') <= calls' + 1
  <2>1. \/ call'[u].id = maxId
        \/ call[u].at \in Reading /\ call'[u].id = call[u].id
    BY <1>4 DEF Moves
  <2>2. call'[u].id \in Nat
    BY DEF Moves, CallType
  <2>3. call'[u].id + Cardinality(Makers) <= calls + 1
    BY <1>3, <2>1 DEF Control, MakersBounded
  <2> QED  BY <1>2, <1>3, <2>2, <2>3, MakersFinite
<1> QED  BY <1>2, <1>3, <1>4, MakersFinite DEF MakersBounded

\* ... so does one that starts a call, ...
LEMMA MakersStart ==
  ASSUME Control, NEW t \in Thread, Moves(t), UNCHANGED <<maxId, made>>, calls' = calls + 1,
         call[t].at = "idle", call'[t].at \notin Reading
  PROVE  MakersBounded'
<1>1. t \notin Makers /\ Makers' \subseteq Makers \cup {t}
  BY DEF Makers, Moves, Making, Reading
<1>2. IsFiniteSet(Makers \cup {t}) /\ Cardinality(Makers \cup {t}) = Cardinality(Makers) + 1
  BY <1>1, MakersFinite, FS_AddElement
<1>3. Cardinality(Makers') <= Cardinality(Makers) + 1 /\ Cardinality(Makers') \in Nat
  BY <1>1, <1>2, FS_Subset, FS_CardinalityType
<1>4. /\ maxId \in Nat /\ made \in Nat /\ calls \in Nat
      /\ maxId + Cardinality(Makers) <= calls + 1 /\ made + Cardinality(Makers) <= calls
  BY ConfAssumption DEF Control, Types, MakersBounded
<1>5. ASSUME NEW u \in Thread, call'[u].at \in Reading
      PROVE  call'[u].id + Cardinality(Makers') <= calls' + 1
  <2>1. call[u].at \in Reading /\ call'[u].id = call[u].id
    BY <1>5 DEF Moves
  <2>2. call'[u].id \in Nat
    BY DEF Moves, CallType
  <2>3. call'[u].id + Cardinality(Makers) <= calls + 1
    BY <2>1 DEF Control, MakersBounded
  <2> QED  BY <1>3, <1>4, <2>2, <2>3, MakersFinite
<1> QED  BY <1>3, <1>4, <1>5, MakersFinite DEF MakersBounded

\* ... and one that ends a maker, which may set a counter.
LEMMA MakerDone ==
  ASSUME Control, NEW t \in Thread, Moves(t), calls' = calls,
         call[t].at \in Making, call'[t].at \notin Making,
         maxId' = maxId \/ (call[t].at \in Reading /\ maxId' = call[t].id + 1),
         made' = made \/ made' = made + 1
  PROVE  MakersBounded'
<1>1. t \in Makers /\ Makers' = Makers \ {t}
  BY DEF Makers, Moves
<1>2. Cardinality(Makers') = Cardinality(Makers) - 1 /\ Cardinality(Makers') \in Nat
  BY <1>1, MakersFinite, FS_RemoveElement, FS_CardinalityType
<1>3. /\ maxId \in Nat /\ made \in Nat /\ calls \in Nat
      /\ maxId + Cardinality(Makers) <= calls + 1 /\ made + Cardinality(Makers) <= calls
  BY ConfAssumption DEF Control, Types, MakersBounded
<1>4. ASSUME NEW u \in Thread, call'[u].at \in Reading
      PROVE  call'[u].id + Cardinality(Makers') <= calls' + 1
  <2>1. call[u].at \in Reading /\ call'[u].id = call[u].id
    BY <1>4 DEF Moves, Making
  <2>2. call'[u].id \in Nat
    BY DEF Moves, CallType
  <2>3. call'[u].id + Cardinality(Makers) <= calls + 1
    BY <2>1 DEF Control, MakersBounded
  <2> QED  BY <1>2, <1>3, <2>2, <2>3, MakersFinite
<1>5. call[t].at \in Reading => call[t].id \in Nat /\ call[t].id + Cardinality(Makers) <= calls + 1
  BY DEF Control, Types, CallType, MakersBounded
<1> QED  BY <1>2, <1>3, <1>4, <1>5, MakersFinite DEF MakersBounded

\* A maker finds an id and a number left.
LEMMA MakerIsBelow ==
  ASSUME Control, NEW t \in Thread, call[t].at \in Making
  PROVE  maxId \in Id /\ maxId \in 0..MaxCalls /\ made + 1 \in 1..MaxCalls
<1>1. Cardinality(Makers) >= 1
  <2>1. t \in Makers
    BY DEF Makers
  <2>2. Cardinality(Makers) # 0
    BY <2>1, MakersFinite, FS_EmptySet
  <2> QED  BY <2>2, MakersFinite
<1>2. /\ maxId \in Nat /\ maxId >= 1 /\ made \in Nat /\ calls \in Nat /\ calls <= MaxCalls
      /\ maxId + Cardinality(Makers) <= calls + 1 /\ made + Cardinality(Makers) <= calls
  BY ConfAssumption DEF Control, Types, MakersBounded
<1> QED  BY <1>1, <1>2, MakersFinite, ConfAssumption DEF Id

\* The locks stay with their holders when t holds after the step what its step says.
LEMMA LocksKeep ==
  ASSUME Control, NEW t \in Thread, Moves(t),
         t \in lock'.users <=> call'[t].at \in Using,
         t = lock'.claim <=> call'[t].at \in Owning,
         t = broadcastLock' <=> call'[t].at \in Broadcasting,
         \A u \in Thread : u # t => /\ u \in lock'.users <=> u \in lock.users
                                    /\ u = lock'.claim <=> u = lock.claim
                                    /\ u = broadcastLock' <=> u = broadcastLock
  PROVE  LocksHeld'
<1> SUFFICES ASSUME NEW u \in Thread, u # t
             PROVE  /\ u \in lock'.users <=> call'[u].at \in Using
                    /\ u = lock'.claim <=> call'[u].at \in Owning
                    /\ u = broadcastLock' <=> call'[u].at \in Broadcasting
  BY DEF LocksHeld
<1>1. call'[u] = call[u]
  BY DEF Moves
<1> QED  BY <1>1 DEF Control, LocksHeld

\* What participantsLock is after IncUse, DecUse, the claim and Unlock.
LEMMA LockValues ==
  ASSUME NEW l \in RW!Lock, NEW t \in Thread
  PROVE  /\ RW!IncUse(l, t) \in RW!Lock
         /\ RW!IncUse(l, t).users = l.users \cup {t} /\ RW!IncUse(l, t).claim = l.claim
         /\ RW!DecUse(l, t) \in RW!Lock
         /\ RW!DecUse(l, t).users = l.users \ {t} /\ RW!DecUse(l, t).claim = l.claim
         /\ RW!Claimed(l, t) \in RW!Lock
         /\ RW!Claimed(l, t).users = l.users /\ RW!Claimed(l, t).claim = t
         /\ RW!Unlock(l) \in RW!Lock
         /\ RW!Unlock(l).users = l.users /\ RW!Unlock(l).claim = NoThread
BY DEF RW!IncUse, RW!DecUse, RW!Claimed, RW!Unlock, RW!Lock

-----------------------------------------------------------------------------
(* Steps and the conference                                                *)

LEMMA StageOf ==
  ASSUME NEW c
  PROVE  /\ c.at = "audio" => Stage(c) = "video"
         /\ c.at = "text" => Stage(c) = "audio"
         /\ c.at \in Inserting \cup Destroying => Stage(c) = "part"
         /\ c.at = "init" /\ c.for = "part" => Stage(c) = "part"
         /\ c.at \in {"player_stop", "player_mixers"} => Stage(c) = "player"
         /\ c.at = "init" /\ c.for = "player" => Stage(c) = "player"
         /\ c.at = "player_erase" => Stage(c) = "erase"
         /\ c.at \notin {"audio", "text", "init", "player_stop", "player_mixers", "player_erase"}
                        \cup Inserting \cup Destroying => Stage(c) = "none"
BY DEF Stage, Inserting, Destroying

\* Fewer ids are exempt than before.
LEMMA ExemptGrows ==
  ASSUME GivenGrows PROVE Callers' \subseteq Callers /\ Casters' \subseteq Casters
BY DEF GivenGrows, Callers, Casters

\* An id whose maps, sources and stages stay keeps its owner.
LEMMA OwnerKeeps ==
  ASSUME NEW t \in Thread, Moves(t), NEW id, OneOwner(id),
         id \in participants' <=> id \in participants,
         id \in players' <=> id \in players,
         \A k \in Kind : id \in mixers'[k] <=> id \in mixers[k],
         \/ call'[t].id = call[t].id /\ Stage(call'[t]) = Stage(call[t])
         \/ /\ call[t].id # id \/ Stage(call[t]) = "none"
            /\ call'[t].id # id \/ Stage(call'[t]) = "none"
  PROVE  OneOwner(id)'
<1>1. \A u \in Thread, s \in OwningStages \cup {"erase"} :
         call'[u].id = id /\ Stage(call'[u]) = s <=> call[u].id = id /\ Stage(call[u]) = s
  BY DEF Moves, OwningStages
<1>2. /\ \A u \in Thread : call'[u].id = id /\ Stage(call'[u]) \in OwningStages <=>
                           call[u].id = id /\ Stage(call[u]) \in OwningStages
      /\ \A u \in Thread : call'[u].id = id /\ Stage(call'[u]) = "erase" <=>
                           call[u].id = id /\ Stage(call[u]) = "erase"
      /\ \A u \in Thread : call'[u].id = id /\ Stage(call'[u]) \in {"audio", "part", "player"} <=>
                           call[u].id = id /\ Stage(call[u]) \in {"audio", "part", "player"}
      /\ \A u \in Thread : call'[u].id = id /\ Stage(call'[u]) = "part" <=>
                           call[u].id = id /\ Stage(call[u]) = "part"
      /\ \A u \in Thread : call'[u].id = id /\ Stage(call'[u]) = "player" <=>
                           call[u].id = id /\ Stage(call[u]) = "player"
  BY <1>1 DEF OwningStages
<1>3. /\ Staged(id, OwningStages)' <=> Staged(id, OwningStages)
      /\ Staged(id, {"erase"})' <=> Staged(id, {"erase"})
      /\ Staged(id, {"audio", "part", "player"})' <=> Staged(id, {"audio", "part", "player"})
      /\ Staged(id, {"part"})' <=> Staged(id, {"part"})
      /\ Staged(id, {"player"})' <=> Staged(id, {"player"})
  BY <1>2 DEF Staged
<1> HIDE DEF Staged
<1>4. {"video", "audio", "text", "private"} \subseteq Kind
  BY DEF Kind
<1> QED  BY <1>2, <1>3, <1>4 DEF OneOwner

LEMMA OwnersKeep ==
  ASSUME NEW t \in Thread, Moves(t), GivenGrows, Owners, UNCHANGED <<participants, players, mixers>>,
         \/ call'[t].id = call[t].id /\ Stage(call'[t]) = Stage(call[t])
         \/ Stage(call[t]) = "none" /\ Stage(call'[t]) = "none"
  PROVE  Owners'
<1> SUFFICES ASSUME NEW id \in Callers' PROVE OneOwner(id)'
  BY DEF Owners
<1>1. OneOwner(id)
  BY ExemptGrows DEF Owners
<1> QED  BY <1>1, OwnerKeeps

LEMMA BroadcastKeeps ==
  ASSUME NEW t \in Thread, Moves(t), Types, GivenGrows, Broadcast, UNCHANGED <<broadcastId, appEnabled>>,
         \A id \in Casters' \cup {AppMixerBroadcasterId}, k \in Kind : id \in mixers'[k] <=> id \in mixers[k],
         call[t].at \notin Casting \cup {"stop_app"},
         call'[t].at \notin Casting \cup {"stop_app"},
         call'[t].at \in {"cast_id", "end"} => broadcastId = 0
  PROVE  Broadcast'
<1>1. broadcastId' # 0 => "broadcaster" \in given'[broadcastId']
  BY DEF Broadcast, GivenGrows, Types, Id
<1>2. \A u \in Thread : /\ call'[u].at = "cast_mixers" <=> call[u].at = "cast_mixers"
                        /\ call'[u].at = "stop_app" <=> call[u].at = "stop_app"
  BY DEF Moves, Casting
<1>3. {"video", "audio", "text", "private"} \subseteq Kind
  BY DEF Kind
<1>4. ASSUME NEW id \in Casters'
      PROVE  /\ \A k \in {"video", "audio", "text"} :
                   id \in mixers'[k] <=> id = broadcastId' /\ \A u \in Thread : call'[u].at # "cast_mixers"
             /\ id \notin mixers'["private"]
  <2>1. id \in Casters
    BY ExemptGrows
  <2> QED  BY <1>2, <1>3, <2>1 DEF Broadcast, At
<1>5. \A u \in Thread : /\ call'[u].at = "cast_id" => broadcastId' = 0
                        /\ call'[u].at \in Casting => broadcastId' = call'[u].id
                        /\ call'[u].at \in {"stop_app", "end"} => broadcastId' = 0
  BY DEF Broadcast, Moves, At
<1>6. AppMixerBroadcasterId \in mixers'["video"] <=> appEnabled'
  BY <1>3 DEF Broadcast
<1>7. appEnabled' /\ broadcastId' = 0 => \E u \in Thread : call'[u].at = "stop_app"
  BY <1>2 DEF Broadcast, At
<1> QED  BY <1>1, <1>4, <1>5, <1>6, <1>7 DEF Broadcast, At

\* Those that run anew are in a map; those that leave a map are being destroyed.
LEMMA RunsKeep ==
  ASSUME NEW t \in Thread, Moves(t), GivenGrows, Runs, UNCHANGED <<broadcastId, appEnabled>>,
         \A id \in running' \ running :
            id \in participants' \cup players' /\ id \notin Casters \cup {AppMixerBroadcasterId},
         \A id \in running' \cap Callers' : id \in participants \cup players =>
            \/ id \in participants' \cup players'
            \/ call'[t].id = id /\ call'[t].at \in {"destroy", "player_stop"},
         \/ call[t].at \notin {"destroy", "player_stop"}
         \/ call[t].id \notin running',
         call'[t].at \notin {"cast_mixers", "stop_mixers"}
  PROVE  Runs'
<1>1. ASSUME NEW id \in running' \cap Callers'
      PROVE  \/ id \in participants' \cup players'
             \/ \E u \in Thread : call'[u].id = id /\ call'[u].at \in {"destroy", "player_stop"}
  <2>1. CASE id \notin running \/ id \in participants \cup players
    BY <2>1
  <2>2. CASE id \in running /\ id \notin participants \cup players
    <3>1. PICK u \in Thread : call[u].id = id /\ call[u].at \in {"destroy", "player_stop"}
      BY <2>2, ExemptGrows DEF Runs
    <3>2. u # t
      BY <1>1, <3>1
    <3> QED  BY <3>1, <3>2 DEF Moves
  <2> QED  BY <2>1, <2>2
<1>2. ASSUME NEW id \in running' \cap Casters'
      PROVE  /\ id = broadcastId'
             /\ \A u \in Thread : call'[u].at \notin {"cast_mixers", "stop_mixers"}
  <2>1. id \in running \cap Casters
    BY ExemptGrows
  <2> QED  BY <2>1 DEF Runs, Moves
<1>3. AppMixerBroadcasterId \in running' => appEnabled'
  BY DEF Runs
<1> QED  BY <1>1, <1>2, <1>3 DEF Runs

LEMMA FoundKeeps ==
  ASSUME NEW t \in Thread, Moves(t), GivenGrows, Found, UNCHANGED <<participants, deleted>>,
         call'[t].at \in Inserting => call[t].at \in Inserting /\ call'[t].id = call[t].id,
         call'[t].at \notin Using
  PROVE  Found'
<1>1. \A u \in Thread : call'[u].at \in Inserting => call[u].at \in Inserting /\ call'[u].id = call[u].id
  BY DEF Moves
<1>2. \A u \in Thread : call'[u].at \in Using => call'[u] = call[u]
  BY DEF Moves
<1> QED  BY <1>1, <1>2, ExemptGrows DEF Found

LEMMA RecordedKeeps ==
  ASSUME NEW t \in Thread, Moves(t), Recorded, UNCHANGED <<inited, participants, recording, late>>,
         call'[t].at \in Deleting => call[t].at \in Deleting /\ call'[t].id = call[t].id
  PROVE  Recorded'
<1>1. \A u \in Thread : call'[u].at \in Deleting => call[u].at \in Deleting /\ call'[u].id = call[u].id
  BY DEF Moves
<1> QED  BY <1>1 DEF Recorded

LEMMA ListenersKeep ==
  ASSUME Listeners, UNCHANGED <<recorder, closed, listeners, made, appEnabled>>
  PROVE  Listeners'
BY DEF Listeners, BroadcastRecordersAreThere

\* A step that changes nothing of the conference.
LEMMA CalmKeeps ==
  ASSUME IInv, NEW t \in Thread, Moves(t), GivenGrows, UNCHANGED <<registry, records, deleted>>,
         \/ call'[t].id = call[t].id /\ Stage(call'[t]) = Stage(call[t])
         \/ Stage(call[t]) = "none" /\ Stage(call'[t]) = "none",
         call[t].at \notin Casting \cup {"stop_app", "destroy", "player_stop"},
         call'[t].at \notin Casting \cup Using \cup {"stop_app", "stop_mixers"},
         call'[t].at \in {"cast_id", "end"} => broadcastId = 0,
         call'[t].at \in Inserting => call[t].at \in Inserting /\ call'[t].id = call[t].id,
         call'[t].at \in Deleting => call[t].at \in Deleting /\ call'[t].id = call[t].id
  PROVE  Conference'
<1>1. Owners'
  BY OwnersKeep DEF IInv, Conference, registry
<1>2. Broadcast'
  BY BroadcastKeeps DEF IInv, Conference, Control, registry
<1>3. Runs'
  BY RunsKeep DEF IInv, Conference, registry, Casting
<1>4. Found' /\ Recorded' /\ Listeners'
  BY FoundKeeps, RecordedKeeps, ListenersKeep DEF IInv, Conference, registry, records
<1> QED  BY <1>1, <1>2, <1>3, <1>4 DEF Conference

-----------------------------------------------------------------------------
(* Starting a call, and taking a lock                                      *)

\* A step that changes no more than the locks and the counter of calls keeps the types.
LEMMA TypesKeep ==
  ASSUME Types, NEW t \in Thread, Moves(t), calls' \in 0..MaxCalls,
         UNCHANGED <<registry, records, maxId, deleted, given, returned>>,
         lock' \in RW!Lock, broadcastLock' \in Thread \cup {NoThread}
  PROVE  Types'
BY DEF Types, Moves, registry, records

LEMMA StartKeeps ==
  ASSUME IInv, NEW t \in Thread, NEW step \in Steps, NEW id \in 0..MaxCalls, NEW for \in Fors,
         Start(t, step, id, for),
         step \in {"part_lock", "player_id", "cast_lock", "rec_lock", "stop_rec_lock", "stop_test"}
            => id = 0,
         step \in {"find", "del", "player_erase"} => id \in Id /\ "caller" \in given[id],
         step \in {"part_lock", "player_id", "cast_lock", "rec_lock", "stop_rec_lock", "stop_test",
                   "find", "del", "player_erase"},
         step = "part_lock" => for = "part", step = "player_id" => for = "player",
         step = "rec_lock" => for \in RecorderType,
         for = "end" => step = "stop_test" /\ \A u \in Thread : At(u, "idle")
  PROVE  Control' /\ (step # "player_erase" => Conference')
<1>1. /\ Moves(t) /\ call[t].at = "idle"
      /\ call'[t].at = step /\ call'[t].id = id /\ call'[t].for = for /\ call'[t].found = FALSE
      /\ calls < MaxCalls /\ calls' = calls + 1
      /\ \A u \in Thread : call[u].for # "end"
      /\ UNCHANGED <<registry, records, maxId, lock, broadcastLock, deleted, given, returned>>
  BY StartMoves DEF IInv, Control
<1>2. step \notin Reading \cup Using \cup Owning \cup Broadcasting \cup Casting \cup Inserting
                  \cup Deleting \cup Creating \cup Destroying
  BY DEF Reading, Using, Owning, Broadcasting, Casting, Inserting, Deleting, Creating, Destroying
<1>3. Types'
  <2>1. calls' \in 0..MaxCalls
    BY <1>1, ConfAssumption DEF IInv, Control, Types
  <2>2. lock' \in RW!Lock /\ broadcastLock' \in Thread \cup {NoThread}
    BY <1>1 DEF IInv, Control, Types
  <2> QED  BY <1>1, <2>1, <2>2, TypesKeep DEF IInv, Control
<1>4. CallIsSound(call[t])'
  BY <1>1, <1>2 DEF CallIsSound, Named, Stopping
<1>5. CallsAreSound'
  <2>1. ASSUME NEW u \in Thread, u # t PROVE CallIsSound(call[u])'
    BY <1>1, <2>1 DEF IInv, Control, CallsAreSound, CallIsSound, Moves
  <2>2. ASSUME NEW u \in Thread, NEW v \in Thread, call'[u].for = "end", v # u
        PROVE  call'[v].at = "idle"
    BY <1>1, <2>2 DEF Moves, At
  <2>3. \A i \in participants' \cup players' \cup returned' : "caller" \in given'[i]
    BY <1>1 DEF IInv, Control, CallsAreSound, registry
  <2> QED  BY <1>4, <2>1, <2>2, <2>3 DEF CallsAreSound
<1>6. MakersBounded'
  BY <1>1, <1>2, MakersStart DEF IInv, records
<1>7. LocksHeld'
  <2>1. call[t].at \notin Using \cup Owning \cup Broadcasting
    BY <1>1 DEF Using, Owning, Broadcasting
  <2>2. /\ t \in lock.users <=> call[t].at \in Using
        /\ t = lock.claim <=> call[t].at \in Owning
        /\ t = broadcastLock <=> call[t].at \in Broadcasting
    BY DEF IInv, Control, LocksHeld
  <2> QED  BY <1>1, <1>2, <2>1, <2>2, LocksKeep DEF IInv
<1>8. ASSUME step # "player_erase" PROVE Conference'
  <2>1. Stage(call[t]) = "none" /\ Stage(call'[t]) = "none"
    BY <1>1, <1>2, <1>8, StageOf DEF Inserting, Destroying
  <2>2. GivenGrows
    BY <1>1 DEF GivenGrows
  <2>3. call[t].at \notin Casting \cup {"stop_app", "destroy", "player_stop"}
    BY <1>1 DEF Casting
  <2>4. step \notin {"cast_id", "stop_app", "stop_mixers", "end"}
    OBVIOUS
  <2> QED  BY <1>1, <1>2, <2>1, <2>2, <2>3, <2>4, CalmKeeps
<1> QED  BY <1>3, <1>5, <1>6, <1>7, <1>8 DEF Control

\* The claim of participantsLock
LEMMA ClaimKeeps ==
  ASSUME IInv, NEW t \in Thread, NEW from, NEW to, Claim(t, from, to),
         \/ from = "part_lock" /\ to = "part_own"
         \/ from = "part_insert" /\ to = "part_listed"
         \/ from = "del_lock" /\ to = "del_own"
  PROVE  IInv'
<1>0. to \in Steps /\ Types
  BY DEF IInv, Control, Steps, Making, Named, Inserting, Deleting
<1>1. /\ Moves(t) /\ call[t].at = from /\ call'[t].at = to /\ call'[t].id = call[t].id
      /\ call'[t].for = call[t].for /\ call'[t].found = call[t].found
      /\ lock.claim = NoThread /\ lock' = RW!Claimed(lock, t)
      /\ UNCHANGED <<registry, records, maxId, broadcastLock, deleted, given, returned, calls>>
  BY <1>0, GotoMoves DEF Claim, At, RW!CanClaim
<1>2. lock' \in RW!Lock /\ lock'.users = lock.users /\ lock'.claim = t
  BY <1>0, <1>1, LockValues DEF Types
<1>3. Types'
  BY <1>0, <1>1, <1>2, TypesKeep DEF Types
<1>4. GivenGrows
  BY <1>1 DEF GivenGrows
<1>5. CallsAreSound'
  <2>1. CallIsSound(call[t]) /\ from # "idle"
    BY DEF IInv, Control, CallsAreSound
  <2>2. CallIsSound(call[t])'
    BY <1>1, <2>1 DEF CallIsSound, Named, Creating, Inserting, Deleting, Using, Destroying, Casting, Stopping
  <2>3. \A i \in participants' \cup players' \cup returned' : "caller" \in given'[i]
    BY <1>1 DEF IInv, Control, CallsAreSound, registry
  <2> QED  BY <1>1, <1>4, <2>1, <2>2, <2>3, SoundKeeps DEF IInv
<1>6. MakersBounded'
  <2>1. to \in Making => from \in Making
    BY DEF Making, Reading
  <2>2. to \notin Reading
    BY DEF Reading
  <2> QED  BY <1>1, <2>1, <2>2, MakersKeep DEF IInv, records
<1>7. LocksHeld'
  <2>1. /\ t \in lock.users <=> call[t].at \in Using
        /\ t = broadcastLock <=> call[t].at \in Broadcasting
    BY DEF IInv, Control, LocksHeld
  <2>2. from \notin Using \cup Broadcasting /\ to \notin Using \cup Broadcasting /\ to \in Owning
    BY DEF Using, Broadcasting, Owning
  <2>3. NoThread \notin Thread
    BY ConfAssumption
  <2> QED  BY <1>1, <1>2, <2>1, <2>2, <2>3, LocksKeep DEF IInv
<1>8. Conference'
  <2>1. Stage(call'[t]) = Stage(call[t])
    BY <1>1, StageOf DEF Inserting, Destroying
  <2>2. /\ from \notin Casting \cup {"stop_app", "destroy", "player_stop"}
        /\ to \notin Casting \cup Using \cup {"cast_id", "stop_app", "stop_mixers", "end"}
        /\ to \in Inserting => from \in Inserting
        /\ to \in Deleting => from \in Deleting
    BY DEF Casting, Using, Inserting, Deleting
  <2> QED  BY <1>1, <1>4, <2>1, <2>2, CalmKeeps
<1> QED  BY <1>3, <1>5, <1>6, <1>7, <1>8 DEF IInv, Control

\* broacasterLock
LEMMA LockBroadcasterKeeps ==
  ASSUME IInv, NEW t \in Thread, NEW from, NEW to, LockBroadcaster(t, from, to),
         \/ from = "cast_lock" /\ to = "cast_test"
         \/ from = "rec_lock" /\ to = "rec"
         \/ from = "stop_rec_lock" /\ to = "stop_rec"
         \/ from = "stop_lock" /\ to = "stop_encode"
  PROVE  IInv'
<1>0. to \in Steps /\ Types
  BY DEF IInv, Control, Steps, Making, Stopping
<1>1. /\ Moves(t) /\ call[t].at = from /\ call'[t].at = to /\ call'[t].id = call[t].id
      /\ call'[t].for = call[t].for /\ call'[t].found = call[t].found
      /\ broadcastLock = NoThread /\ broadcastLock' = t
      /\ UNCHANGED <<registry, records, maxId, lock, deleted, given, returned, calls>>
  BY <1>0, GotoMoves DEF LockBroadcaster, At
<1>2. Types'
  BY <1>0, <1>1, TypesKeep DEF Types
<1>3. GivenGrows
  BY <1>1 DEF GivenGrows
<1>4. CallsAreSound'
  <2>1. CallIsSound(call[t]) /\ from # "idle"
    BY DEF IInv, Control, CallsAreSound
  <2>2. CallIsSound(call[t])'
    BY <1>1, <2>1 DEF CallIsSound, Named, Creating, Inserting, Deleting, Using, Destroying, Casting, Stopping
  <2>3. \A i \in participants' \cup players' \cup returned' : "caller" \in given'[i]
    BY <1>1 DEF IInv, Control, CallsAreSound, registry
  <2> QED  BY <1>1, <1>3, <2>1, <2>2, <2>3, SoundKeeps DEF IInv
<1>5. MakersBounded'
  <2>1. to \in Making => from \in Making
    BY DEF Making, Reading
  <2>2. to \notin Reading
    BY DEF Reading
  <2> QED  BY <1>1, <2>1, <2>2, MakersKeep DEF IInv, records
<1>6. LocksHeld'
  <2>1. /\ t \in lock.users <=> call[t].at \in Using
        /\ t = lock.claim <=> call[t].at \in Owning
    BY DEF IInv, Control, LocksHeld
  <2>2. from \notin Using \cup Owning /\ to \notin Using \cup Owning /\ to \in Broadcasting
    BY DEF Using, Broadcasting, Owning
  <2>3. NoThread \notin Thread
    BY ConfAssumption
  <2> QED  BY <1>1, <2>1, <2>2, <2>3, LocksKeep DEF IInv
<1>7. Conference'
  <2>1. Stage(call'[t]) = Stage(call[t])
    BY <1>1, StageOf DEF Inserting, Destroying
  <2>2. /\ from \notin Casting \cup {"stop_app", "destroy", "player_stop"}
        /\ to \notin Casting \cup Using \cup {"cast_id", "stop_app", "stop_mixers", "end"}
        /\ to \notin Inserting \cup Deleting
    BY DEF Casting, Using, Inserting, Deleting
  <2> QED  BY <1>1, <1>3, <2>1, <2>2, CalmKeeps
<1> QED  BY <1>2, <1>4, <1>5, <1>6, <1>7 DEF IInv, Control

-----------------------------------------------------------------------------
(* Taking an id                                                            *)

\* A step inside a call that neither takes nor gives back a lock
LEMMA InnerControl ==
  ASSUME Control, NEW t \in Thread, Moves(t), Types', GivenGrows, CallIsSound(call[t])',
         UNCHANGED <<lock, broadcastLock>>, MakersBounded',
         call[t].at # "idle", call'[t].for = "end" => call[t].for = "end",
         \A id \in participants' \cup players' \cup returned' : "caller" \in given'[id],
         call'[t].at \in Using <=> call[t].at \in Using,
         call'[t].at \in Owning <=> call[t].at \in Owning,
         call'[t].at \in Broadcasting <=> call[t].at \in Broadcasting
  PROVE  Control'
<1>1. CallsAreSound'
  BY SoundKeeps
<1>2. /\ t \in lock.users <=> call[t].at \in Using
      /\ t = lock.claim <=> call[t].at \in Owning
      /\ t = broadcastLock <=> call[t].at \in Broadcasting
  BY DEF Control, LocksHeld
<1>3. LocksHeld'
  BY <1>2, LocksKeep
<1> QED  BY <1>1, <1>3 DEF Control

\* maxId++, the read
LEMMA ReadKeeps ==
  ASSUME IInv, NEW t \in Thread, NEW from, NEW to, NEW whom, ReadId(t, from, to, whom), lock' = lock,
         \/ from = "part_own" /\ to = "part_id" /\ whom = "caller"
         \/ from = "player_id" /\ to = "player_next" /\ whom = "caller"
         \/ from = "cast_test" /\ to = "cast_id" /\ whom = "broadcaster" /\ broadcastId = 0
  PROVE  IInv'
<1>0. to \in Steps /\ Types /\ from \in Making /\ to \in Making /\ to \in Reading /\ call[t].at = from
  BY DEF IInv, Control, Steps, Making, Reading, ReadId, At
<1>1. maxId \in Id /\ maxId \in 0..MaxCalls
  BY <1>0, MakerIsBelow DEF IInv
<1>2. /\ Moves(t) /\ call'[t].at = to /\ call'[t].id = maxId
      /\ call'[t].for = call[t].for /\ call'[t].found = call[t].found
  BY <1>0, <1>1, ReadMoves
<1>3. /\ UNCHANGED <<registry, records, maxId, broadcastLock, deleted, returned, calls>>
      /\ given' = [given EXCEPT ![maxId] = @ \cup {whom}]
  BY DEF ReadId
<1>4. /\ given' \in [Id -> SUBSET {"caller", "broadcaster"}] /\ GivenGrows /\ whom \in given'[maxId]
  BY <1>0, <1>1, <1>3 DEF Types, GivenGrows
<1>5. Types'
  BY <1>0, <1>2, <1>3, <1>4 DEF Types, Moves, registry, records
<1>6. CallIsSound(call[t]) /\ from # "idle"
  BY DEF IInv, Control, CallsAreSound
<1>7. CallIsSound(call[t])'
  BY <1>0, <1>1, <1>2, <1>4, <1>6
  DEF CallIsSound, Named, Creating, Inserting, Deleting, Using, Destroying, Casting, Stopping
<1>8. \A i \in participants' \cup players' \cup returned' : "caller" \in given'[i]
  BY <1>0, <1>3, <1>4 DEF IInv, Control, CallsAreSound, registry, GivenGrows, Types
<1>9. MakersBounded'
  BY <1>0, <1>2, <1>3, MakersKeep DEF IInv, records
<1>10. /\ from \in Using <=> to \in Using
       /\ from \in Owning <=> to \in Owning
       /\ from \in Broadcasting <=> to \in Broadcasting
  BY DEF Using, Owning, Broadcasting
<1>11. Control'
  BY <1>0, <1>2, <1>3, <1>4, <1>5, <1>6, <1>7, <1>8, <1>9, <1>10, InnerControl DEF IInv
<1>12. Stage(call[t]) = "none" /\ Stage(call'[t]) = "none"
  BY <1>0, <1>2, StageOf DEF Inserting, Destroying
<1>13. /\ from \notin Casting \cup {"stop_app", "destroy", "player_stop"}
       /\ to \notin Casting \cup Using \cup {"stop_app", "stop_mixers"}
       /\ to \notin Inserting \cup Deleting
  BY DEF Casting, Using, Inserting, Deleting
<1>14. Conference'
  BY <1>0, <1>2, <1>3, <1>4, <1>12, <1>13, CalmKeeps
<1> QED  BY <1>11, <1>14 DEF IInv

\* maxId++, the write
LEMMA WriteKeeps ==
  ASSUME IInv, NEW t \in Thread, NEW from, At(t, from), Goto(t, "video"),
         maxId' = call[t].id + 1,
         UNCHANGED <<registry, records, broadcastLock, deleted, given, returned, calls>>,
         \/ from = "part_id" /\ OwnAndUnlock(t)
         \/ from = "player_next" /\ UNCHANGED lock
  PROVE  IInv'
<1>0. Types /\ from \in Reading /\ from \in Making /\ call[t].at = from /\ "video" \in Steps
  BY DEF IInv, Control, Reading, Making, At, Steps, Named, Creating
<1>1. /\ Moves(t) /\ call'[t].at = "video" /\ call'[t].id = call[t].id
      /\ call'[t].for = call[t].for /\ call'[t].found = call[t].found
  BY <1>0, GotoMoves
<1>2. CallIsSound(call[t])
  BY DEF IInv, Control, CallsAreSound
<1>3. call[t].id \in Id /\ maxId' \in 1..(MaxCalls + 1)
  BY <1>0, <1>2, ConfAssumption DEF CallIsSound, Id, Named
<1>4. lock' \in RW!Lock /\ lock'.users = lock.users
  BY <1>0, LockValues DEF OwnAndUnlock, Types
<1>5. Types'
  BY <1>0, <1>1, <1>3, <1>4 DEF Types, Moves, registry, records
<1>6. GivenGrows
  BY DEF GivenGrows
<1>7. CallsAreSound'
  <2>1. CallIsSound(call[t])'
    BY <1>0, <1>1, <1>2
    DEF CallIsSound, Named, Creating, Inserting, Deleting, Using, Destroying, Casting, Stopping
  <2>2. \A i \in participants' \cup players' \cup returned' : "caller" \in given'[i]
    BY DEF IInv, Control, CallsAreSound, registry
  <2>3. from # "idle"
    OBVIOUS
  <2> QED  BY <1>0, <1>1, <1>6, <2>1, <2>2, <2>3, SoundKeeps DEF IInv
<1>8. MakersBounded'
  <2>1. "video" \notin Making
    BY DEF Making, Reading
  <2> QED  BY <1>0, <1>1, <2>1, MakerDone DEF IInv, records
<1>9. LocksHeld'
  <2>1. /\ t \in lock.users <=> call[t].at \in Using
        /\ t = lock.claim <=> call[t].at \in Owning
        /\ t = broadcastLock <=> call[t].at \in Broadcasting
    BY DEF IInv, Control, LocksHeld
  <2>2. /\ from \notin Using \cup Broadcasting /\ "video" \notin Using \cup Broadcasting \cup Owning
        /\ from \in Owning <=> from = "part_id"
    BY DEF Using, Broadcasting, Owning
  <2>3. CASE from = "part_id"
    <3>1. lock.claim = t /\ lock'.claim = NoThread /\ NoThread \notin Thread
      BY <1>0, <2>3, LockValues, ConfAssumption DEF OwnAndUnlock, Types
    <3> QED  BY <1>0, <1>1, <1>4, <2>1, <2>2, <3>1, LocksKeep DEF IInv
  <2>4. CASE from = "player_next"
    BY <1>0, <1>1, <2>1, <2>2, <2>4, LocksKeep DEF IInv
  <2> QED  BY <2>3, <2>4
<1>10. Conference'
  <2>1. Stage(call[t]) = "none" /\ Stage(call'[t]) = "none"
    BY <1>0, <1>1, StageOf DEF Inserting, Destroying
  <2>2. /\ from \notin Casting \cup {"stop_app", "destroy", "player_stop"}
        /\ "video" \notin Casting \cup Using \cup {"stop_app", "stop_mixers"}
        /\ "video" \notin Inserting \cup Deleting
    BY DEF Casting, Using, Inserting, Deleting
  <2> QED  BY <1>0, <1>1, <1>6, <2>1, <2>2, CalmKeeps
<1> QED  BY <1>5, <1>7, <1>8, <1>9, <1>10 DEF IInv, Control

-----------------------------------------------------------------------------
(* The owner of the sources                                                *)

LEMMA StageType == ASSUME NEW c PROVE Stage(c) \in OwningStages \cup {"erase", "none"}
BY DEF Stage, OwningStages

\* A call that makes or destroys the sources of an id is alone with it, ...
LEMMA OwnerIsAlone ==
  ASSUME NEW t \in Thread, NEW id, OneOwner(id), call[t].id = id, Stage(call[t]) \in OwningStages
  PROVE  /\ id \notin participants \cup players
         /\ \A u \in Thread : u # t /\ call[u].id = id => Stage(call[u]) = "none"
<1>1. Staged(id, OwningStages) /\ id \notin participants \cup players
  BY DEF OneOwner, Staged
<1>2. ~Staged(id, {"erase"})
  BY <1>1 DEF OneOwner
<1>3. \A u \in Thread : u # t /\ call[u].id = id => Stage(call[u]) \notin OwningStages
  BY DEF OneOwner
<1>4. \A u \in Thread : call[u].id = id => Stage(call[u]) # "erase"
  BY <1>2 DEF Staged
<1> QED  BY <1>1, <1>3, <1>4, StageType

\* ... and nobody has an id that is not in the video mixer.
LEMMA NobodyOwns ==
  ASSUME NEW id, OneOwner(id), id \notin mixers["video"]
  PROVE  /\ id \notin participants \cup players
         /\ \A u \in Thread : call[u].id = id => Stage(call[u]) = "none"
<1>1. ~Staged(id, OwningStages) /\ id \notin participants \cup players
  BY DEF OneOwner
<1>2. ~Staged(id, {"erase"})
  BY <1>1 DEF OneOwner
<1> QED  BY <1>1, <1>2, StageType DEF Staged

\* A thread that is alone with an id makes it its own, or gives it to a map, or to
\* nobody.
LEMMA OwnerIs ==
  ASSUME NEW t \in Thread, Moves(t), NEW id, NEW stage \in OwningStages \cup {"none"},
         \A u \in Thread : u # t /\ call[u].id = id => Stage(call[u]) = "none",
         \/ call'[t].id = id /\ Stage(call'[t]) = stage
         \/ stage = "none" /\ (call'[t].id # id \/ Stage(call'[t]) = "none"),
         id \notin participants' \cap players',
         stage # "none" => id \notin participants' \cup players',
         id \in mixers'["video"] <=> id \in participants' \cup players' \/ stage # "none",
         id \in mixers'["audio"] <=> id \in participants' \cup players'
                                     \/ stage \in {"audio", "part", "player"},
         id \in mixers'["text"] <=> id \in participants' \/ stage = "part",
         id \in mixers'["private"] => id \in players' \/ stage = "player"
  PROVE  OneOwner(id)'
<1>1. \A u \in Thread : u # t => call'[u] = call[u]
  BY DEF Moves
<1>2. \A u \in Thread : u # t /\ call'[u].id = id => Stage(call'[u]) = "none"
  BY <1>1
<1>3. \A u \in Thread : call'[u].id = id /\ Stage(call'[u]) # "none" => u = t /\ Stage(call'[u]) = stage
  BY <1>2
<1>4. stage # "none" => call'[t].id = id /\ Stage(call'[t]) = stage
  OBVIOUS
<1>5. "none" \notin OwningStages /\ "erase" \notin OwningStages
  BY DEF OwningStages
<1>6. /\ Staged(id, OwningStages)' <=> stage # "none"
      /\ ~Staged(id, {"erase"})'
      /\ Staged(id, {"audio", "part", "player"})' <=> stage \in {"audio", "part", "player"}
      /\ Staged(id, {"part"})' <=> stage = "part"
      /\ Staged(id, {"player"})' <=> stage = "player"
  BY <1>3, <1>4, <1>5 DEF Staged
<1>7. \A u, v \in Thread :
         (/\ call'[u].id = id /\ Stage(call'[u]) \in OwningStages
          /\ call'[v].id = id /\ Stage(call'[v]) \in OwningStages) => u = v
  BY <1>3, <1>5
<1>8. \A u, v \in Thread :
         (/\ call'[u].id = id /\ Stage(call'[u]) = "erase"
          /\ call'[v].id = id /\ Stage(call'[v]) = "erase") => u = v
  BY <1>3, <1>5
<1> HIDE DEF Staged
<1> QED  BY <1>6, <1>7, <1>8 DEF OneOwner

\* The step of a call about one id leaves the owners of the others alone.
LEMMA OwnersBut ==
  ASSUME NEW t \in Thread, Moves(t), GivenGrows, Owners, NEW id,
         \A i \in Callers' : i # id => /\ i \in participants' <=> i \in participants
                                       /\ i \in players' <=> i \in players
                                       /\ \A k \in Kind : i \in mixers'[k] <=> i \in mixers[k],
         call[t].id = id \/ Stage(call[t]) = "none",
         call'[t].id = id \/ Stage(call'[t]) = "none",
         id \in Callers' => OneOwner(id)'
  PROVE  Owners'
<1> SUFFICES ASSUME NEW i \in Callers', i # id PROVE OneOwner(i)'
  BY DEF Owners
<1>1. OneOwner(i)
  BY ExemptGrows DEF Owners
<1> QED  BY <1>1, OwnerKeeps

\* The id of a call about a participant or a player is not the broadcaster's alone.
LEMMA CallerId ==
  ASSUME Control, NEW t \in Thread, call[t].at \in Named
  PROVE  /\ call[t].id \in Id /\ "caller" \in given[call[t].id] /\ call[t].id \notin Casters
         /\ call[t].id # AppMixerBroadcasterId /\ call[t].id # 0
<1>1. call[t].id \in Id /\ "caller" \in given[call[t].id]
  BY DEF Control, CallsAreSound, CallIsSound
<1> QED  BY <1>1, ConfAssumption DEF Casters, Id, AppMixerBroadcasterId

-----------------------------------------------------------------------------
(* Creating the sources                                                    *)

\* A source is made, ...
Makes(t, from, kind, to) ==
    /\ At(t, from) /\ Goto(t, to)
    /\ call[t].id \notin mixers[kind]
    /\ mixers' = [mixers EXCEPT ![kind] = @ \cup {call[t].id}]

\* ... refused, ...
Refuses(t, from, kind, before) ==
    /\ At(t, from) /\ Return(t)
    /\ call[t].id \in mixers[kind]
    /\ mixers' = [k \in Kind |-> IF k \in before THEN mixers[k] \ {call[t].id} ELSE mixers[k]]

LEMMA CreateMixersSteps ==
  ASSUME NEW t \in Thread, CreateMixers(t), call[t].for \in {"part", "player"}
  PROVE  \/ Makes(t, "video", "video", "audio")
         \/ Makes(t, "audio", "audio", "text")
         \/ Makes(t, "text", "text", "init") /\ call[t].for = "part"
         \/ Makes(t, "text", "private", "init") /\ call[t].for = "player"
         \/ Refuses(t, "video", "video", {})
         \/ Refuses(t, "audio", "audio", {"video"})
         \/ Refuses(t, "text", "text", {"video", "audio"}) /\ call[t].for = "part"
         \/ Refuses(t, "text", "private", {"video", "audio"}) /\ call[t].for = "player"
         \/ At(t, "text") /\ Goto(t, "init") /\ mixers' = mixers /\ call[t].for = "player"
<1> DEFINE id == call[t].id
           last == IF call[t].for = "player" THEN "private" ELSE "text"
<1>1. ASSUME NEW from, NEW kind, NEW to, At(t, from), CreateMixer(t, kind, id, to),
             NEW before, before = IF kind = "video" THEN {} ELSE {"video", "audio"} \ {kind}
      PROVE  Makes(t, from, kind, to) \/ Refuses(t, from, kind, before)
  BY <1>1 DEF CreateMixer, Makes, Refuses
<1> DEFINE Before(kind) == IF kind = "video" THEN {} ELSE {"video", "audio"} \ {kind}
<1>2. /\ {} = Before("video") /\ {"video"} = Before("audio")
      /\ {"video", "audio"} = Before("text")
      /\ {"video", "audio"} = Before("private")
  OBVIOUS
<1>3. CASE At(t, "video") /\ CreateMixer(t, "video", id, "audio")
  <2>1. Makes(t, "video", "video", "audio") \/ Refuses(t, "video", "video", {})
    BY <1>1, <1>2, <1>3, Zenon
  <2> QED  BY <2>1
<1>4. CASE At(t, "audio") /\ CreateMixer(t, "audio", id, "text")
  <2>1. Makes(t, "audio", "audio", "text") \/ Refuses(t, "audio", "audio", {"video"})
    BY <1>1, <1>2, <1>4, Zenon
  <2> QED  BY <2>1
<1>5. CASE At(t, "text") /\ CreateMixer(t, last, id, "init")
  <2>1. CASE call[t].for = "player"
    <3>1. CreateMixer(t, "private", id, "init")
      BY <1>5, <2>1
    <3>2. \/ Makes(t, "text", "private", "init")
          \/ Refuses(t, "text", "private", {"video", "audio"})
      BY <1>1, <1>2, <1>5, <3>1, Zenon
    <3> QED  BY <2>1, <3>2
  <2>2. CASE call[t].for = "part"
    <3>1. CreateMixer(t, "text", id, "init")
      BY <1>5, <2>2
    <3>2. Makes(t, "text", "text", "init") \/ Refuses(t, "text", "text", {"video", "audio"})
      BY <1>1, <1>2, <1>5, <3>1, Zenon
    <3> QED  BY <2>2, <3>2
  <2> QED  BY <2>1, <2>2
<1>6. CASE At(t, "text") /\ last = "private" /\ Goto(t, "init") /\ UNCHANGED mixers
  BY <1>6
<1> QED  BY <1>3, <1>4, <1>5, <1>6 DEF CreateMixers

\* What a step of CreateMixers leaves alone
CreateFrame ==
    /\ UNCHANGED <<inited, participants, players, broadcastId, appEnabled, running>>
    /\ UNCHANGED <<records, maxId, lock, broadcastLock, deleted, given, returned, calls>>

LEMMA CreateKeeps ==
  ASSUME IInv, NEW t \in Thread, Moves(t), CreateFrame, NEW id, id = call[t].id,
         mixers' \in [Kind -> SUBSET (Id \cup {AppMixerBroadcasterId})],
         \A i \in Id \cup {AppMixerBroadcasterId}, k \in Kind :
            i # id => (i \in mixers'[k] <=> i \in mixers[k]),
         call[t].at \in {"video", "audio", "text"},
         \/ /\ call'[t].at \in {"audio", "text", "init"} /\ call'[t].id = call[t].id
            /\ call'[t].for = call[t].for /\ call'[t].found = call[t].found
         \/ /\ call'[t].at = "idle" /\ call'[t].id = 0
            /\ call'[t].for = "none" /\ call'[t].found = FALSE,
         id \in Callers' => OneOwner(id)'
  PROVE  IInv'
<1>1. Types'
  BY DEF IInv, Control, Types, Moves, CreateFrame, records
<1>2. GivenGrows
  BY DEF GivenGrows, CreateFrame
<1>3. CallIsSound(call[t])'
  <2>1. CallIsSound(call[t])
    BY DEF IInv, Control, CallsAreSound
  <2> QED  BY <2>1 DEF CallIsSound, Named, Creating, Inserting, Deleting, Using, Destroying, Casting,
                       Stopping, CreateFrame
<1>4. \A i \in participants' \cup players' \cup returned' : "caller" \in given'[i]
  BY DEF IInv, Control, CallsAreSound, CreateFrame
<1>5. MakersBounded'
  <2>1. call'[t].at \notin Making /\ call'[t].at \notin Reading
    BY DEF Making, Reading
  <2> QED  BY <2>1, MakersKeep DEF IInv, CreateFrame, records
<1>6. /\ call[t].at \notin Using \cup Owning \cup Broadcasting
      /\ call'[t].at \notin Using \cup Owning \cup Broadcasting
  BY DEF Using, Owning, Broadcasting
<1>7. Control'
  BY <1>1, <1>2, <1>3, <1>4, <1>5, <1>6, InnerControl DEF IInv, CreateFrame
<1>8. /\ call[t].at \notin Casting \cup {"stop_app", "destroy", "player_stop"}
      /\ call'[t].at \notin Casting \cup Using \cup Inserting \cup Deleting
      /\ call'[t].at \notin {"stop_app", "stop_mixers", "cast_id", "end", "cast_mixers"}
  BY DEF Casting, Using, Inserting, Deleting
<1>9. call[t].at \in Named
  BY DEF Named, Creating
<1>10. id \in Id /\ id \notin Casters /\ id # AppMixerBroadcasterId
  BY <1>9, CallerId DEF IInv
<1>11. Owners'
  <2>1. call'[t].id = id \/ Stage(call'[t]) = "none"
    BY StageOf DEF Inserting, Destroying
  <2>2. \A i \in Callers' : i \in Id
    BY DEF Callers
  <2>3. participants' = participants /\ players' = players
    BY DEF CreateFrame
  <2> QED  BY <1>2, <2>1, <2>2, <2>3, OwnersBut DEF IInv, Conference
<1>12. Broadcast'
  <2>1. \A i \in Casters' \cup {AppMixerBroadcasterId} : i \in Id \cup {AppMixerBroadcasterId} /\ i # id
    BY <1>2, <1>10, ExemptGrows DEF Casters
  <2> QED  BY <1>2, <1>8, <2>1, BroadcastKeeps DEF IInv, Conference, Control, CreateFrame
<1>13. Runs'
  BY <1>2, <1>8, RunsKeep DEF IInv, Conference, CreateFrame
<1>14. Found' /\ Recorded' /\ Listeners'
  BY <1>2, <1>8, FoundKeeps, RecordedKeeps, ListenersKeep DEF IInv, Conference, CreateFrame, records
<1> QED  BY <1>7, <1>11, <1>12, <1>13, <1>14 DEF IInv, Conference

\* Another source: the caller is, or becomes, the owner of its id.
LEMMA MakesKeeps ==
  ASSUME IInv, NEW t \in Thread, NEW from, NEW kind, NEW to, Makes(t, from, kind, to), CreateFrame,
         \/ from = "video" /\ kind = "video" /\ to = "audio"
         \/ from = "audio" /\ kind = "audio" /\ to = "text"
         \/ from = "text" /\ kind = "text" /\ to = "init" /\ call[t].for = "part"
         \/ from = "text" /\ kind = "private" /\ to = "init" /\ call[t].for = "player"
  PROVE  IInv'
<1> PICK id : id = call[t].id
  OBVIOUS
<1>0. to \in Steps /\ Types /\ kind \in Kind /\ from \in Named /\ call[t].at = from
  BY DEF IInv, Control, Steps, Named, Creating, Kind, Makes, At
<1>1. /\ Moves(t) /\ call'[t].at = to /\ call'[t].id = id
      /\ call'[t].for = call[t].for /\ call'[t].found = call[t].found
  BY <1>0, GotoMoves DEF Makes
<1>2. id \in Id
  BY <1>0, CallerId DEF IInv
<1>3. /\ mixers' \in [Kind -> SUBSET (Id \cup {AppMixerBroadcasterId})]
      /\ \A k \in Kind : mixers'[k] = IF k = kind THEN mixers[k] \cup {id} ELSE mixers[k]
  BY <1>0, <1>2 DEF Makes, Types
<1>4. \A i \in Id \cup {AppMixerBroadcasterId}, k \in Kind :
         i # id => (i \in mixers'[k] <=> i \in mixers[k])
  BY <1>3
<1>5. ASSUME id \in Callers' PROVE OneOwner(id)'
  <2>1. OneOwner(id) /\ participants' = participants /\ players' = players
    BY <1>5 DEF IInv, Conference, Owners, CreateFrame, Callers
  <2>2. {"video", "audio", "text", "private"} \subseteq Kind
    BY DEF Kind
  <2>3. CASE from = "video"
    <3>1. id \notin mixers["video"] /\ kind = "video" /\ Stage(call'[t]) = "video"
      BY <1>1, <2>3, StageOf DEF Makes
    <3>2. /\ id \notin participants \cup players
          /\ \A u \in Thread : call[u].id = id => Stage(call[u]) = "none"
      BY <2>1, <3>1, NobodyOwns
    <3>3. id \notin mixers["audio"] /\ id \notin mixers["text"] /\ id \notin mixers["private"]
      <4>1. ~Staged(id, {"audio", "part", "player"}) /\ ~Staged(id, {"part"}) /\ ~Staged(id, {"player"})
        BY <3>2 DEF Staged
      <4> QED  BY <2>1, <3>2, <4>1 DEF OneOwner
    <3>4. "video" \in OwningStages
      BY DEF OwningStages
    <3> QED  BY <1>1, <1>3, <2>1, <2>2, <3>1, <3>2, <3>3, <3>4, OwnerIs
  <2>4. CASE from \in {"audio", "text"}
    <3>1. Stage(call[t]) = (IF from = "audio" THEN "video" ELSE "audio")
      BY <1>0, <2>4, StageOf
    <3>2. Stage(call[t]) \in OwningStages
      BY <2>4, <3>1 DEF OwningStages
    <3>3. /\ id \notin participants \cup players
          /\ \A u \in Thread : u # t /\ call[u].id = id => Stage(call[u]) = "none"
      BY <2>1, <3>2, OwnerIsAlone
    <3>4. /\ Staged(id, OwningStages)
          /\ Staged(id, {"audio", "part", "player"}) <=> from = "text"
          /\ ~Staged(id, {"part"}) /\ ~Staged(id, {"player"})
      BY <2>4, <3>1, <3>2, <3>3 DEF Staged
    <3>5. /\ id \in mixers["video"] /\ (id \in mixers["audio"] <=> from = "text")
          /\ id \notin mixers["text"] /\ id \notin mixers["private"]
      BY <2>1, <3>3, <3>4 DEF OneOwner
    <3> DEFINE stage == IF to = "text" THEN "audio" ELSE IF call[t].for = "part" THEN "part" ELSE "player"
    <3>6. Stage(call'[t]) = stage
      BY <1>1, <2>4, StageOf
    <3>7. stage \in OwningStages
      BY DEF OwningStages
    <3>8. /\ id \in mixers'["video"]
          /\ id \in mixers'["audio"]
          /\ id \in mixers'["text"] <=> stage = "part"
          /\ id \in mixers'["private"] <=> stage = "player"
      BY <1>3, <2>2, <2>4, <3>5
    <3>9. stage \in {"audio", "part", "player"}
      OBVIOUS
    <3> HIDE DEF stage
    <3> QED  BY <1>1, <2>1, <3>3, <3>6, <3>7, <3>8, <3>9, OwnerIs
  <2> QED  BY <2>3, <2>4
<1> QED  BY <1>0, <1>1, <1>3, <1>4, <1>5, CreateKeeps

\* A refusal: only an id given to the broadcaster too is refused when its caller has
\* made the first source.
LEMMA RefusesKeeps ==
  ASSUME IInv, NEW t \in Thread, NEW from, NEW kind, NEW before, Refuses(t, from, kind, before), CreateFrame,
         \/ from = "video" /\ kind = "video" /\ before = {}
         \/ from = "audio" /\ kind = "audio" /\ before = {"video"}
         \/ from = "text" /\ kind \in {"text", "private"} /\ before = {"video", "audio"}
  PROVE  IInv'
<1> PICK id : id = call[t].id
  OBVIOUS
<1>0. Types /\ kind \in Kind /\ from \in Named /\ call[t].at = from
  BY DEF IInv, Control, Named, Creating, Kind, Refuses, At
<1>1. /\ Moves(t) /\ call'[t].at = "idle" /\ call'[t].id = 0
      /\ call'[t].for = "none" /\ call'[t].found = FALSE
  BY <1>0, ReturnMoves DEF Refuses
<1>2. id \in Id /\ id # 0
  BY <1>0, CallerId DEF IInv
<1>3. /\ mixers' \in [Kind -> SUBSET (Id \cup {AppMixerBroadcasterId})]
      /\ \A k \in Kind : mixers'[k] = IF k \in before THEN mixers[k] \ {id} ELSE mixers[k]
  BY <1>0, <1>2 DEF Refuses, Types
<1>4. \A i \in Id \cup {AppMixerBroadcasterId}, k \in Kind :
         i # id => (i \in mixers'[k] <=> i \in mixers[k])
  BY <1>3
<1>5. ASSUME id \in Callers' PROVE OneOwner(id)'
  <2>1. OneOwner(id) /\ participants' = participants /\ players' = players
    BY <1>5 DEF IInv, Conference, Owners, CreateFrame, Callers
  <2>2. CASE from = "video"
    <3>1. Stage(call[t]) = "none" /\ Stage(call'[t]) = "none"
      BY <1>0, <1>1, <2>2, StageOf DEF Inserting, Destroying
    <3>2. \A k \in Kind : mixers'[k] = mixers[k]
      BY <1>3, <2>2
    <3> QED  BY <1>1, <2>1, <3>1, <3>2, OwnerKeeps
  <2>3. CASE from \in {"audio", "text"}
    <3>1. Stage(call[t]) = (IF from = "audio" THEN "video" ELSE "audio")
      BY <1>0, <2>3, StageOf
    <3>2. Stage(call[t]) \in OwningStages
      BY <2>3, <3>1 DEF OwningStages
    <3>3. /\ id \notin participants \cup players
          /\ \A u \in Thread : u # t /\ call[u].id = id => Stage(call[u]) = "none"
      BY <2>1, <3>2, OwnerIsAlone
    <3>4. /\ Staged(id, {"audio", "part", "player"}) <=> from = "text"
          /\ ~Staged(id, {"part"}) /\ ~Staged(id, {"player"})
      BY <2>3, <3>1, <3>2, <3>3 DEF Staged
    <3>5. /\ id \in mixers["audio"] <=> from = "text"
          /\ id \notin mixers["text"] /\ id \notin mixers["private"]
      BY <2>1, <3>3, <3>4 DEF OneOwner
    <3>6. id \in mixers[kind]
      BY DEF Refuses
    <3> QED  BY <2>3, <3>5, <3>6
  <2> QED  BY <2>2, <2>3
<1> QED  BY <1>0, <1>1, <1>3, <1>4, <1>5, CreateKeeps

LEMMA CreateMixersKeeps ==
  ASSUME IInv, NEW t \in Thread, call[t].for \in {"part", "player"}, CreateMixers(t),
         UNCHANGED <<records, maxId, lock, broadcastLock, deleted, given, returned, calls>>
  PROVE  IInv'
<1>1. CreateFrame
  BY DEF CreateMixers, CreateFrame
<1>2. CASE At(t, "text") /\ Goto(t, "init") /\ mixers' = mixers /\ call[t].for = "player"
  <2>1. Types /\ "init" \in Steps /\ call[t].at = "text"
    BY <1>2 DEF IInv, Control, Steps, Named, Creating, At
  <2>2. /\ Moves(t) /\ call'[t].at = "init" /\ call'[t].id = call[t].id
        /\ call'[t].for = call[t].for /\ call'[t].found = call[t].found
    BY <1>2, <2>1, GotoMoves
  <2> PICK id : id = call[t].id
    OBVIOUS
  <2>3. ASSUME id \in Callers' PROVE OneOwner(id)'
    <3>1. OneOwner(id) /\ participants' = participants /\ players' = players
      BY <1>1, <2>3 DEF IInv, Conference, Owners, CreateFrame, Callers
    <3>2. Stage(call[t]) = "audio" /\ Stage(call'[t]) = "player"
      BY <1>2, <2>1, <2>2, StageOf
    <3>3. "audio" \in OwningStages /\ "player" \in OwningStages
      BY DEF OwningStages
    <3>4. /\ id \notin participants \cup players
          /\ \A u \in Thread : u # t /\ call[u].id = id => Stage(call[u]) = "none"
      BY <3>1, <3>2, <3>3, OwnerIsAlone
    <3>5. /\ Staged(id, OwningStages) /\ Staged(id, {"audio", "part", "player"})
          /\ ~Staged(id, {"part"}) /\ ~Staged(id, {"player"})
      BY <3>2, <3>3, <3>4 DEF Staged
    <3>6. /\ id \in mixers["video"] /\ id \in mixers["audio"]
          /\ id \notin mixers["text"] /\ id \notin mixers["private"]
      BY <3>1, <3>4, <3>5 DEF OneOwner
    <3> QED  BY <1>2, <2>2, <3>1, <3>2, <3>3, <3>4, <3>6, OwnerIs
  <2> QED  BY <1>1, <1>2, <2>1, <2>2, <2>3, CreateKeeps DEF Types
<1> QED  BY <1>1, <1>2, CreateMixersSteps, MakesKeeps, RefusesKeeps

-----------------------------------------------------------------------------
(* Participants                                                            *)

\* The step of WaitUnusedAndLock ... Unlock: nobody uses a participant.
LEMMA UnlockKeeps ==
  ASSUME Control, NEW t \in Thread, Moves(t), OwnAndUnlock(t), UNCHANGED broadcastLock,
         call[t].at \in Owning, call[t].at \notin Broadcasting,
         call'[t].at \notin Owning \cup Using \cup Broadcasting
  PROVE  /\ LocksHeld' /\ lock' \in RW!Lock
         /\ \A u \in Thread : call[u].at \notin Using
<1>1. lock \in RW!Lock /\ lock' = RW!Unlock(lock) /\ lock.users = {} /\ lock.claim = t
  BY DEF Control, Types, OwnAndUnlock, RW!IsUnused
<1>2. lock' \in RW!Lock /\ lock'.users = {} /\ lock'.claim = NoThread
  BY <1>1, LockValues
<1>3. \A u \in Thread : call[u].at \notin Using
  BY <1>1 DEF Control, LocksHeld
<1>4. /\ t = broadcastLock <=> call[t].at \in Broadcasting
  BY DEF Control, LocksHeld
<1>5. LocksHeld'
  BY <1>1, <1>2, <1>4, ConfAssumption, LocksKeep
<1> QED  BY <1>2, <1>3, <1>5

\* The participant is ready to be inserted.
LEMMA ReadyKeeps ==
  ASSUME IInv, NEW t \in Thread, At(t, "init"), call[t].for = "part", Ready(call[t].id),
         Goto(t, "part_insert"),
         UNCHANGED <<registry, records, maxId, lock, broadcastLock, given, returned, calls>>
  PROVE  IInv'
<1> PICK id : id = call[t].id
  OBVIOUS
<1>0. Types /\ "part_insert" \in Steps /\ call[t].at = "init" /\ "init" \in Named
  BY DEF IInv, Control, Steps, Named, Creating, Inserting, At
<1>1. /\ Moves(t) /\ call'[t].at = "part_insert" /\ call'[t].id = id
      /\ call'[t].for = "part" /\ call'[t].found = call[t].found
  BY <1>0, GotoMoves
<1>2. id \in Id /\ deleted' = deleted \ {id}
  BY <1>0, CallerId DEF IInv, Ready
<1>3. Types'
  BY <1>0, <1>1, <1>2 DEF Types, Moves, registry, records
<1>4. GivenGrows
  BY DEF GivenGrows
<1>5. CallIsSound(call[t])'
  <2>1. CallIsSound(call[t])
    BY DEF IInv, Control, CallsAreSound
  <2> QED  BY <1>0, <1>1, <2>1 DEF CallIsSound, Named, Creating, Inserting, Deleting, Using,
                                   Destroying, Casting, Stopping
<1>6. \A i \in participants' \cup players' \cup returned' : "caller" \in given'[i]
  BY DEF IInv, Control, CallsAreSound, registry
<1>7. MakersBounded'
  <2>1. "part_insert" \notin Making \cup Reading
    BY DEF Making, Reading
  <2> QED  BY <1>1, <2>1, MakersKeep DEF IInv, records
<1>8. {"init", "part_insert"} \cap (Using \cup Owning \cup Broadcasting) = {}
  BY DEF Using, Owning, Broadcasting
<1>9. Control'
  BY <1>0, <1>1, <1>3, <1>4, <1>5, <1>6, <1>7, <1>8, InnerControl DEF IInv
<1>10. /\ call[t].at \notin Casting \cup {"stop_app", "destroy", "player_stop"}
       /\ call'[t].at \notin Casting \cup Using \cup Deleting
       /\ call'[t].at \notin {"stop_app", "stop_mixers", "cast_id", "end", "cast_mixers"}
  BY <1>0, <1>1 DEF Casting, Using, Deleting
<1>11. Stage(call[t]) = "part" /\ Stage(call'[t]) = "part"
  BY <1>0, <1>1, StageOf DEF Inserting
<1>12. Owners'
  BY <1>1, <1>4, <1>11, OwnersKeep DEF IInv, Conference, registry
<1>13. Broadcast' /\ Runs'
  BY <1>1, <1>4, <1>10, BroadcastKeeps, RunsKeep DEF IInv, Conference, Control, registry
<1>14. Found'
  <2>1. \A u \in Thread : call'[u].at \in Inserting => call'[u].id = id \/ (call[u].at \in Inserting /\ call'[u].id = call[u].id)
    BY <1>1 DEF Moves
  <2>2. \A u \in Thread : call'[u].at \in Using => call'[u] = call[u]
    BY <1>1, <1>10 DEF Moves
  <2> QED  BY <1>2, <1>4, <2>1, <2>2, ExemptGrows DEF IInv, Conference, Found, registry
<1>15. Recorded' /\ Listeners'
  BY <1>1, <1>10, RecordedKeeps, ListenersKeep DEF IInv, Conference, registry, records
<1> QED  BY <1>9, <1>12, <1>13, <1>14, <1>15 DEF IInv, Conference

\* The participant is inserted: the call gives it its sources.
LEMMA InsertKeeps ==
  ASSUME IInv, NEW t \in Thread, At(t, "part_listed"), OwnAndUnlock(t), Return(t),
         participants' = participants \cup {call[t].id},
         returned' = returned \cup {call[t].id},
         UNCHANGED <<inited, players, broadcastId, appEnabled, mixers, running>>,
         UNCHANGED <<records, maxId, broadcastLock, deleted, given, calls>>
  PROVE  IInv'
<1> PICK id : id = call[t].id
  OBVIOUS
<1>0. Types /\ call[t].at = "part_listed" /\ "part_listed" \in Named
  BY DEF IInv, Control, Named, Inserting, At
<1>1. /\ Moves(t) /\ call'[t].at = "idle" /\ call'[t].id = 0
      /\ call'[t].for = "none" /\ call'[t].found = FALSE
  BY <1>0, ReturnMoves
<1>2. id \in Id /\ "caller" \in given[id] /\ id # 0
  BY <1>0, CallerId DEF IInv
<1>3. /\ "part_listed" \in Owning /\ "part_listed" \notin Broadcasting
      /\ "idle" \notin Owning \cup Using \cup Broadcasting
  BY DEF Owning, Broadcasting, Using
<1>4. LocksHeld' /\ lock' \in RW!Lock /\ \A u \in Thread : call[u].at \notin Using
  BY <1>0, <1>1, <1>3, UnlockKeeps DEF IInv
<1>5. Types'
  BY <1>0, <1>1, <1>2, <1>4 DEF Types, Moves, records
<1>6. GivenGrows
  BY DEF GivenGrows
<1>7. CallsAreSound'
  <2>1. CallIsSound(call[t])'
    BY <1>1 DEF CallIsSound, Named, Creating, Inserting, Deleting, Using, Destroying, Casting
  <2>2. \A i \in participants' \cup players' \cup returned' : "caller" \in given'[i]
    BY <1>2 DEF IInv, Control, CallsAreSound
  <2> QED  BY <1>0, <1>1, <1>6, <2>1, <2>2, SoundKeeps DEF IInv
<1>8. MakersBounded'
  <2>1. "idle" \notin Making \cup Reading
    BY DEF Making, Reading
  <2> QED  BY <1>1, <2>1, MakersKeep DEF IInv, records
<1>9. /\ call[t].at \notin Casting \cup {"stop_app", "destroy", "player_stop"}
      /\ call'[t].at \notin Casting \cup Using \cup Inserting \cup Deleting
      /\ call'[t].at \notin {"stop_app", "stop_mixers", "cast_id", "end", "cast_mixers"}
  BY <1>0, <1>1 DEF Casting, Using, Inserting, Deleting
<1>10. Stage(call[t]) = "part" /\ Stage(call'[t]) = "none"
  BY <1>0, <1>1, StageOf DEF Inserting, Destroying
<1>11. Owners'
  <2>1. ASSUME id \in Callers' PROVE OneOwner(id)'
    <3>1. OneOwner(id)
      BY <1>6, <2>1, ExemptGrows DEF IInv, Conference, Owners
    <3>2. "part" \in OwningStages
      BY DEF OwningStages
    <3>3. /\ id \notin participants \cup players
          /\ \A u \in Thread : u # t /\ call[u].id = id => Stage(call[u]) = "none"
      BY <1>10, <3>1, <3>2, OwnerIsAlone
    <3>4. /\ Staged(id, OwningStages) /\ Staged(id, {"audio", "part", "player"})
          /\ Staged(id, {"part"}) /\ ~Staged(id, {"player"})
      BY <1>10, <3>2, <3>3 DEF Staged
    <3>5. /\ id \in mixers["video"] /\ id \in mixers["audio"]
          /\ id \in mixers["text"] /\ id \notin mixers["private"]
      BY <3>1, <3>3, <3>4 DEF OneOwner
    <3>6. id \in participants' /\ id \notin players'
      BY <3>3
    <3> QED  BY <1>1, <1>10, <3>3, <3>5, <3>6, OwnerIs
  <2>2. \A i \in Callers' : i # id => /\ i \in participants' <=> i \in participants
                                      /\ i \in players' <=> i \in players
                                      /\ \A k \in Kind : i \in mixers'[k] <=> i \in mixers[k]
    OBVIOUS
  <2> QED  BY <1>1, <1>6, <1>10, <2>1, <2>2, OwnersBut DEF IInv, Conference
<1>12. Broadcast' /\ Runs'
  BY <1>0, <1>1, <1>6, <1>9, BroadcastKeeps, RunsKeep DEF IInv, Conference, Control
<1>13. Found'
  <2>1. id \notin Callers \cap deleted
    BY <1>0 DEF IInv, Conference, Found, Inserting
  <2>2. \A u \in Thread : call'[u].at \in Inserting => call[u].at \in Inserting /\ call'[u].id = call[u].id
    BY <1>1, <1>9 DEF Moves
  <2>3. \A u \in Thread : call'[u].at \notin Using
    BY <1>1, <1>4, <1>9 DEF Moves
  <2> QED  BY <1>6, <2>1, <2>2, <2>3, ExemptGrows DEF IInv, Conference, Found
<1>14. Recorded'
  <2>1. \A u \in Thread : call'[u].at \in Deleting => call[u].at \in Deleting /\ call'[u].id = call[u].id
    BY <1>1, <1>9 DEF Moves
  <2> QED  BY <2>1 DEF IInv, Conference, Recorded, records
<1>15. Listeners'
  BY ListenersKeep DEF IInv, Conference, records
<1> QED  BY <1>5, <1>7, <1>8, <1>4, <1>11, <1>12, <1>13, <1>14, <1>15 DEF IInv, Control, Conference

LEMMA CreateParticipantKeeps ==
  ASSUME IInv, NEW t \in Thread, CreateParticipant(t) PROVE IInv'
<1>1. CASE Start(t, "part_lock", 0, "part")
  BY <1>1, StartKeeps, ConfAssumption DEF IInv, Steps, Making, Fors
<1>2. CASE Claim(t, "part_lock", "part_own") \/ Claim(t, "part_insert", "part_listed")
  BY <1>2, ClaimKeeps
<1>3. CASE ReadId(t, "part_own", "part_id", "caller") /\ UNCHANGED lock
  BY <1>3, ReadKeeps
<1>4. CASE /\ At(t, "part_id") /\ Goto(t, "video") /\ OwnAndUnlock(t)
           /\ maxId' = call[t].id + 1
           /\ UNCHANGED <<registry, records, broadcastLock, deleted, given, returned, calls>>
  BY <1>4, WriteKeeps
<1>5. CASE /\ call[t].for = "part" /\ CreateMixers(t)
           /\ UNCHANGED <<records, maxId, lock, broadcastLock, deleted, given, returned, calls>>
  BY <1>5, CreateMixersKeeps
<1>6. CASE /\ At(t, "init") /\ call[t].for = "part"
           /\ Ready(call[t].id) /\ Goto(t, "part_insert")
           /\ UNCHANGED <<registry, records, maxId, lock, broadcastLock, given, returned, calls>>
  BY <1>6, ReadyKeeps
<1>7. CASE /\ At(t, "part_listed") /\ OwnAndUnlock(t) /\ Return(t)
           /\ participants' = participants \cup {call[t].id}
           /\ returned' = returned \cup {call[t].id}
           /\ UNCHANGED <<inited, players, broadcastId, appEnabled, mixers, running>>
           /\ UNCHANGED <<records, maxId, broadcastLock, deleted, given, calls>>
  BY <1>7, InsertKeeps
<1> QED  BY <1>1, <1>2, <1>3, <1>4, <1>5, <1>6, <1>7 DEF CreateParticipant

\* A call finds its participant, and keeps it in the map from now on.
LEMMA FindKeeps ==
  ASSUME IInv, NEW t \in Thread, NEW from, NEW to, Find(t, from, to),
         \/ from = "find" /\ to = "use"
         \/ from = "del" /\ to = "del_stop"
  PROVE  IInv'
<1>0. Types /\ to \in Steps /\ from \in Named
  BY DEF IInv, Control, Steps, Named, Using
<1>1. /\ Moves(t) /\ call[t].at = from /\ call'[t].at = to /\ call'[t].id = call[t].id
      /\ call'[t].for = call[t].for /\ call'[t].found = (call[t].id \in participants)
  BY <1>0, FindMoves
<1>2. /\ lock.claim = NoThread /\ lock' = RW!IncUse(lock, t)
      /\ UNCHANGED <<registry, records, maxId, broadcastLock, deleted, given, returned, calls>>
  BY DEF Find, RW!CanIncUse
<1>3. lock' \in RW!Lock /\ lock'.users = lock.users \cup {t} /\ lock'.claim = lock.claim
  BY <1>0, <1>2, LockValues DEF Types
<1>4. Types'
  BY <1>0, <1>1, <1>2, <1>3, TypesKeep DEF Types
<1>5. GivenGrows
  BY <1>2 DEF GivenGrows
<1>6. CallsAreSound'
  <2>1. CallIsSound(call[t]) /\ from # "idle"
    BY DEF IInv, Control, CallsAreSound
  <2>2. CallIsSound(call[t])'
    BY <1>1, <1>2, <2>1 DEF CallIsSound, Named, Creating, Inserting, Deleting, Using, Destroying, Casting, Stopping
  <2>3. \A i \in participants' \cup players' \cup returned' : "caller" \in given'[i]
    BY <1>2 DEF IInv, Control, CallsAreSound, registry
  <2> QED  BY <1>1, <1>5, <2>1, <2>2, <2>3, SoundKeeps DEF IInv
<1>7. MakersBounded'
  <2>1. to \notin Making \cup Reading
    BY DEF Making, Reading
  <2> QED  BY <1>1, <1>2, <2>1, MakersKeep DEF IInv, records
<1>8. LocksHeld'
  <2>1. /\ t = lock.claim <=> call[t].at \in Owning
        /\ t = broadcastLock <=> call[t].at \in Broadcasting
    BY DEF IInv, Control, LocksHeld
  <2>2. from \notin Owning \cup Broadcasting /\ to \notin Owning \cup Broadcasting /\ to \in Using
    BY DEF Using, Broadcasting, Owning
  <2> QED  BY <1>1, <1>2, <1>3, <2>1, <2>2, LocksKeep DEF IInv
<1>9. /\ from \notin Casting \cup {"stop_app", "destroy", "player_stop"}
      /\ to \notin Casting \cup Inserting \cup Deleting
      /\ to \notin {"stop_app", "stop_mixers", "cast_id", "end", "cast_mixers"}
  BY DEF Casting, Inserting, Deleting
<1>10. Stage(call[t]) = "none" /\ Stage(call'[t]) = "none"
  BY <1>1, StageOf DEF Inserting, Destroying
<1>11. Owners' /\ Broadcast' /\ Runs'
  BY <1>1, <1>2, <1>5, <1>9, <1>10, OwnersKeep, BroadcastKeeps, RunsKeep
  DEF IInv, Conference, Control, registry
<1>12. Found'
  <2>1. \A u \in Thread : call'[u].at \in Inserting => call[u].at \in Inserting /\ call'[u].id = call[u].id
    BY <1>1, <1>9 DEF Moves
  <2>2. participants' = participants /\ deleted' = deleted
    BY <1>2 DEF registry
  <2>3. \A u \in Thread : u # t => call'[u] = call[u]
    BY <1>1 DEF Moves
  <2>4. \A u \in Thread : call'[u].at \in Using => (call'[u].found <=> call'[u].id \in participants')
    BY <1>1, <2>2, <2>3 DEF IInv, Conference, Found
  <2> QED  BY <1>5, <2>1, <2>2, <2>4, ExemptGrows DEF IInv, Conference, Found
<1>13. Recorded' /\ Listeners'
  BY <1>1, <1>2, <1>9, RecordedKeeps, ListenersKeep DEF IInv, Conference, registry, records
<1> QED  BY <1>4, <1>6, <1>7, <1>8, <1>11, <1>12, <1>13 DEF IInv, Control, Conference

\* The call is done with it.
LEMMA ReleaseControl ==
  ASSUME IInv, NEW t \in Thread, Moves(t), lock' = RW!DecUse(lock, t), call[t].at \in Using, Types',
         UNCHANGED <<participants, players, made, maxId, broadcastLock, given, returned, calls>>,
         \/ /\ call'[t].at = "idle" /\ call'[t].id = 0
            /\ call'[t].for = "none" /\ call'[t].found = FALSE
         \/ /\ call'[t].at = "del_lock" /\ call'[t].id = call[t].id
            /\ call'[t].for = call[t].for /\ call'[t].found = FALSE
  PROVE  Control' /\ GivenGrows
<1>1. lock \in RW!Lock /\ lock'.users = lock.users \ {t} /\ lock'.claim = lock.claim
  BY LockValues DEF IInv, Control, Types
<1>2. GivenGrows
  BY DEF GivenGrows
<1>3. CallsAreSound'
  <2>1. CallIsSound(call[t]) /\ call[t].at # "idle"
    BY DEF IInv, Control, CallsAreSound, Using
  <2>2. CallIsSound(call[t])'
    BY <2>1 DEF CallIsSound, Named, Creating, Inserting, Deleting, Using, Destroying, Casting, Stopping
  <2>3. \A i \in participants' \cup players' \cup returned' : "caller" \in given'[i]
    BY DEF IInv, Control, CallsAreSound
  <2> QED  BY <1>2, <2>1, <2>2, <2>3, SoundKeeps DEF IInv
<1>4. MakersBounded'
  <2>1. call'[t].at \notin Making \cup Reading
    BY DEF Making, Reading
  <2> QED  BY <2>1, MakersKeep DEF IInv
<1>5. LocksHeld'
  <2>1. /\ t = lock.claim <=> call[t].at \in Owning
        /\ t = broadcastLock <=> call[t].at \in Broadcasting
    BY DEF IInv, Control, LocksHeld
  <2>2. call[t].at \notin Owning \cup Broadcasting /\ call'[t].at \notin Owning \cup Broadcasting \cup Using
    BY DEF Using, Broadcasting, Owning
  <2> QED  BY <1>1, <2>1, <2>2, LocksKeep DEF IInv
<1> QED  BY <1>2, <1>3, <1>4, <1>5 DEF Control

LEMMA ReleaseKeeps ==
  ASSUME IInv, NEW t \in Thread, Moves(t), lock' = RW!DecUse(lock, t), call[t].at \in Using, Types',
         UNCHANGED <<inited, participants, players, broadcastId, appEnabled, mixers>>,
         UNCHANGED <<recorder, made, listeners, closed, maxId, broadcastLock, deleted, given, returned, calls>>,
         \A id \in running' \ running : id = call[t].id /\ call[t].found,
         \/ /\ call'[t].at = "idle" /\ call'[t].id = 0
            /\ call'[t].for = "none" /\ call'[t].found = FALSE
         \/ /\ call'[t].at = "del_lock" /\ call'[t].id = call[t].id
            /\ call'[t].for = call[t].for /\ call'[t].found = FALSE,
         Recorded'
  PROVE  IInv'
<1>1. Control' /\ GivenGrows
  BY ReleaseControl
<1>2. /\ call[t].at \notin Casting \cup {"stop_app", "destroy", "player_stop"}
      /\ call'[t].at \notin Casting \cup Inserting \cup Using
      /\ call'[t].at \notin {"stop_app", "stop_mixers", "cast_id", "end", "cast_mixers"}
  BY DEF Casting, Inserting, Using
<1>3. Stage(call[t]) = "none" /\ Stage(call'[t]) = "none"
  BY StageOf DEF Inserting, Destroying, Using
<1>4. Owners' /\ Broadcast'
  BY <1>1, <1>2, <1>3, OwnersKeep, BroadcastKeeps DEF IInv, Conference, Control
<1>5. Runs'
  <2>1. call[t].at \in Named
    BY DEF Named
  <2>2. call[t].id \notin Casters \cup {AppMixerBroadcasterId}
    BY <2>1, CallerId DEF IInv
  <2>3. call[t].found => call[t].id \in participants
    BY DEF IInv, Conference, Found
  <2> QED  BY <1>1, <1>2, <2>2, <2>3, RunsKeep DEF IInv, Conference
<1>6. Found' /\ Listeners'
  BY <1>1, <1>2, FoundKeeps, ListenersKeep DEF IInv, Conference
<1> QED  BY <1>1, <1>4, <1>5, <1>6 DEF IInv, Conference

LEMMA ParticipantCallKeeps ==
  ASSUME IInv, NEW t \in Thread, ParticipantCall(t) PROVE IInv'
<1>0. Types
  BY DEF IInv, Control
<1>1. ASSUME NEW id \in returned, NEW for \in {"media", "record", "unrecord"}, Start(t, "find", id, for)
      PROVE  IInv'
  <2>1. id \in Id /\ "caller" \in given[id] /\ id \in 0..MaxCalls
    BY <1>0, ConfAssumption DEF IInv, Control, CallsAreSound, Types, Id
  <2>2. "find" \in Steps /\ for \in Fors /\ for # "end"
    BY DEF Steps, Named, Fors
  <2> QED  BY <1>1, <2>1, <2>2, StartKeeps DEF IInv
<1>2. CASE Find(t, "find", "use")
  BY <1>2, FindKeeps
<1>3. CASE /\ At(t, "use") /\ Return(t)
           /\ \/ call[t].for = "media" /\ SetMedia(t)
              \/ call[t].for = "record" /\ StartRecordingParticipant(t)
              \/ call[t].for = "unrecord" /\ StopRecordingParticipant(t)
           /\ lock' = RW!DecUse(lock, t)
           /\ UNCHANGED <<inited, participants, players, broadcastId, appEnabled, mixers>>
           /\ UNCHANGED <<recorder, made, listeners, closed, maxId, broadcastLock, deleted, given, returned, calls>>
  <2> PICK id : id = call[t].id
    OBVIOUS
  <2>1. call[t].at = "use" /\ "use" \in Using /\ "use" \in Named
    BY <1>3 DEF At, Using, Named
  <2>2. /\ Moves(t) /\ call'[t].at = "idle" /\ call'[t].id = 0
        /\ call'[t].for = "none" /\ call'[t].found = FALSE
    BY <1>0, <1>3, ReturnMoves
  <2>3. id \in Id /\ (call[t].found => id \in participants)
    BY <2>1, CallerId DEF IInv, Conference, Found
  <2>4. lock' \in RW!Lock
    BY <1>0, <1>3, LockValues DEF Types
  <2>5. \A u \in Thread : call'[u].at \in Deleting => call[u].at \in Deleting /\ call'[u].id = call[u].id
    BY <2>2 DEF Moves, Deleting
  <2>6. CASE SetMedia(t)
    <3>1. running' \in IF call[t].found THEN {running \cup {id}, running \ {id}} ELSE {running}
      BY <2>6 DEF SetMedia
    <3>2. recording' = recording /\ late' = late
      BY <2>6 DEF SetMedia
    <3>3. Types'
      BY <1>0, <1>3, <2>2, <2>3, <2>4, <3>1, <3>2 DEF Types, Moves
    <3>4. \A i \in running' \ running : i = id /\ call[t].found
      BY <3>1
    <3>5. Recorded'
      BY <1>3, <2>5, <3>2 DEF IInv, Conference, Recorded
    <3> QED  BY <1>3, <2>1, <2>2, <3>3, <3>4, <3>5, ReleaseKeeps
  <2>7. CASE StartRecordingParticipant(t)
    <3>1. CASE recording' = recording
      <4>1. late' = late /\ running' = running
        BY <2>7, <3>1 DEF StartRecordingParticipant
      <4>2. Types'
        BY <1>0, <1>3, <2>2, <2>4, <3>1, <4>1 DEF Types, Moves
      <4>3. Recorded'
        BY <1>3, <2>5, <3>1, <4>1 DEF IInv, Conference, Recorded
      <4> QED  BY <1>3, <2>1, <2>2, <4>1, <4>2, <4>3, ReleaseKeeps
    <3>2. CASE recording' # recording
      <4>1. /\ recording' = recording \cup {id} /\ call[t].found /\ running' = running
            /\ (\E u \in Thread : call[u].id = id /\ call[u].at \in Deleting) => late' = late \cup {id}
            /\ late' = late \/ late' = late \cup {id}
        BY <2>7, <3>2 DEF StartRecordingParticipant, About, Deleting
      <4>2. Types'
        BY <1>0, <1>3, <2>2, <2>3, <2>4, <4>1 DEF Types, Moves
      <4>3. Recorded'
        BY <1>3, <2>3, <2>5, <4>1 DEF IInv, Conference, Recorded
      <4> QED  BY <1>3, <2>1, <2>2, <4>1, <4>2, <4>3, ReleaseKeeps
    <3> QED  BY <3>1, <3>2
  <2>8. CASE StopRecordingParticipant(t)
    <3>1. recording' \subseteq recording /\ late' = late /\ running' = running
      BY <2>8 DEF StopRecordingParticipant
    <3>2. Types'
      BY <1>0, <1>3, <2>2, <2>4, <3>1 DEF Types, Moves
    <3>3. Recorded'
      BY <1>3, <2>5, <3>1 DEF IInv, Conference, Recorded
    <3> QED  BY <1>3, <2>1, <2>2, <3>1, <3>2, <3>3, ReleaseKeeps
  <2> QED  BY <1>3, <2>6, <2>7, <2>8
<1> QED  BY <1>1, <1>2, <1>3 DEF ParticipantCall

\* A participant leaves the map when nobody uses it, and its sources are its destroyer's.
LEMMA EraseKeeps ==
  ASSUME IInv, NEW t \in Thread, At(t, "del_own"), Erase(t),
         IF call[t].id \in participants THEN Goto(t, "destroy") ELSE Return(t),
         UNCHANGED <<inited, players, broadcastId, appEnabled, mixers, running>>,
         UNCHANGED <<records, maxId, broadcastLock, deleted, given, returned, calls>>
  PROVE  IInv'
<1> PICK id : id = call[t].id
  OBVIOUS
<1>0. /\ Types /\ call[t].at = "del_own" /\ "del_own" \in Named /\ "destroy" \in Steps
      /\ OwnAndUnlock(t) /\ participants' = participants \ {id}
  BY DEF IInv, Control, Named, Deleting, Destroying, Steps, At, Erase
<1>1. /\ Moves(t) /\ call'[t].at \in {"destroy", "idle"}
      /\ call'[t].at = "destroy" => /\ id \in participants /\ call'[t].id = id
                                    /\ call'[t].for = call[t].for /\ call'[t].found = call[t].found
      /\ call'[t].at = "idle" => /\ id \notin participants /\ call'[t].id = 0
                                 /\ call'[t].for = "none" /\ call'[t].found = FALSE
  BY <1>0, GotoMoves, ReturnMoves
<1>2. id \in Id /\ "caller" \in given[id] /\ id # 0
  BY <1>0, CallerId DEF IInv
<1>3. /\ "del_own" \in Owning /\ "del_own" \notin Broadcasting
      /\ call'[t].at \notin Owning \cup Using \cup Broadcasting
  BY <1>1 DEF Owning, Broadcasting, Using
<1>4. LocksHeld' /\ lock' \in RW!Lock /\ \A u \in Thread : call[u].at \notin Using
  BY <1>0, <1>1, <1>3, UnlockKeeps DEF IInv
<1>5. Types'
  BY <1>0, <1>1, <1>4 DEF Types, Moves, records
<1>6. GivenGrows
  BY DEF GivenGrows
<1>7. CallsAreSound'
  <2>1. CallIsSound(call[t])
    BY DEF IInv, Control, CallsAreSound
  <2>2. CallIsSound(call[t])'
    BY <1>0, <1>1, <2>1 DEF CallIsSound, Named, Creating, Inserting, Deleting, Using, Destroying, Casting, Stopping
  <2>3. \A i \in participants' \cup players' \cup returned' : "caller" \in given'[i]
    BY <1>0 DEF IInv, Control, CallsAreSound
  <2>4. call'[t].for = "end" => call[t].for = "end"
    BY <1>1
  <2> QED  BY <1>0, <1>1, <1>6, <2>2, <2>3, <2>4, SoundKeeps DEF IInv
<1>8. MakersBounded'
  <2>1. call'[t].at \notin Making \cup Reading
    BY <1>1 DEF Making, Reading
  <2> QED  BY <1>1, <2>1, MakersKeep DEF IInv, records
<1>9. /\ call[t].at \notin Casting \cup {"stop_app", "destroy", "player_stop"}
      /\ call'[t].at \notin Casting \cup Using \cup Inserting \cup Deleting
      /\ call'[t].at \notin {"stop_app", "stop_mixers", "cast_id", "end", "cast_mixers"}
  BY <1>0, <1>1 DEF Casting, Using, Inserting, Deleting
<1>10. /\ Stage(call[t]) = "none"
       /\ Stage(call'[t]) = (IF call'[t].at = "destroy" THEN "part" ELSE "none")
  BY <1>0, <1>1, StageOf DEF Inserting, Destroying
<1>11. Owners'
  <2>1. ASSUME id \in Callers' PROVE OneOwner(id)'
    <3>1. OneOwner(id)
      BY <1>6, <2>1, ExemptGrows DEF IInv, Conference, Owners
    <3>2. CASE id \in participants
      <4>1. ~Staged(id, OwningStages) /\ id \notin players
        BY <3>1, <3>2 DEF OneOwner
      <4>2. ~Staged(id, {"erase"}) /\ ~Staged(id, {"player"})
        BY <3>1, <4>1 DEF OneOwner, Staged, OwningStages
      <4>3. \A u \in Thread : call[u].id = id => Stage(call[u]) = "none"
        BY <4>1, <4>2, StageType DEF Staged
      <4>4. /\ id \in mixers["video"] /\ id \in mixers["audio"]
            /\ id \in mixers["text"] /\ id \notin mixers["private"]
        BY <3>1, <3>2, <4>1, <4>2 DEF OneOwner
      <4>5. call'[t].id = id /\ Stage(call'[t]) = "part" /\ "part" \in OwningStages
        BY <1>1, <1>10, <3>2 DEF OwningStages
      <4>6. id \notin participants' \cup players'
        BY <1>0, <4>1
      <4> QED  BY <1>1, <4>3, <4>4, <4>5, <4>6, OwnerIs
    <3>3. CASE id \notin participants
      <4>1. participants' = participants /\ Stage(call'[t]) = "none"
        BY <1>0, <1>1, <1>10, <3>3
      <4> QED  BY <1>1, <1>10, <3>1, <4>1, OwnerKeeps
    <3> QED  BY <3>2, <3>3
  <2>2. \A i \in Callers' : i # id => /\ i \in participants' <=> i \in participants
                                      /\ i \in players' <=> i \in players
                                      /\ \A k \in Kind : i \in mixers'[k] <=> i \in mixers[k]
    BY <1>0
  <2>3. call'[t].id = id \/ Stage(call'[t]) = "none"
    BY <1>1, <1>10
  <2> QED  BY <1>1, <1>6, <1>10, <2>1, <2>2, <2>3, OwnersBut DEF IInv, Conference
<1>12. Broadcast'
  BY <1>0, <1>1, <1>6, <1>9, BroadcastKeeps DEF IInv, Conference, Control
<1>13. Runs'
  <2>1. \A i \in running' \cap Callers' : i \in participants \cup players =>
            \/ i \in participants' \cup players'
            \/ call'[t].id = i /\ call'[t].at \in {"destroy", "player_stop"}
    BY <1>0, <1>1
  <2> QED  BY <1>0, <1>1, <1>6, <1>9, <2>1, RunsKeep DEF IInv, Conference
<1>14. Found'
  <2>1. \A u \in Thread : call'[u].at \in Inserting => call[u].at \in Inserting /\ call'[u].id = call[u].id
    BY <1>1, <1>9 DEF Moves
  <2>2. \A u \in Thread : call'[u].at \notin Using
    BY <1>1, <1>4, <1>9 DEF Moves
  <2> QED  BY <1>0, <1>6, <2>1, <2>2, ExemptGrows DEF IInv, Conference, Found
<1>15. Recorded'
  <2>1. \A u \in Thread : call'[u].at \in Deleting => call[u].at \in Deleting /\ call'[u].id = call[u].id
    BY <1>1, <1>9 DEF Moves
  <2>2. "del_own" \in Deleting
    BY DEF Deleting
  <2> QED  BY <1>0, <2>1, <2>2 DEF IInv, Conference, Recorded, records
<1>16. Listeners'
  BY ListenersKeep DEF IInv, Conference, records
<1> QED  BY <1>4, <1>5, <1>7, <1>8, <1>11, <1>12, <1>13, <1>14, <1>15, <1>16 DEF IInv, Control, Conference

\* The threads of the participant end, ...
LEMMA EndPartKeeps ==
  ASSUME IInv, NEW t \in Thread, At(t, "destroy"), Goto(t, "destroy_mixers"),
         running' = running \ {call[t].id},
         UNCHANGED <<inited, participants, players, broadcastId, appEnabled, mixers, deleted>>,
         UNCHANGED <<records, maxId, lock, broadcastLock, given, returned, calls>>
  PROVE  IInv'
<1>0. /\ Types /\ call[t].at = "destroy" /\ "destroy_mixers" \in Steps
  BY DEF IInv, Control, Named, Destroying, Steps, At
<1>1. /\ Moves(t) /\ call'[t].at = "destroy_mixers" /\ call'[t].id = call[t].id
      /\ call'[t].for = call[t].for /\ call'[t].found = call[t].found
  BY <1>0, GotoMoves
<1>2. Types'
  BY <1>0, <1>1 DEF Types, Moves, records
<1>3. GivenGrows
  BY DEF GivenGrows
<1>4. CallIsSound(call[t])'
  <2>1. CallIsSound(call[t])
    BY DEF IInv, Control, CallsAreSound
  <2> QED  BY <1>0, <1>1, <2>1 DEF CallIsSound, Named, Creating, Inserting, Deleting, Using,
                                   Destroying, Casting, Stopping
<1>5. \A i \in participants' \cup players' \cup returned' : "caller" \in given'[i]
  BY DEF IInv, Control, CallsAreSound
<1>6. MakersBounded'
  <2>1. "destroy_mixers" \notin Making \cup Reading
    BY DEF Making, Reading
  <2> QED  BY <1>1, <2>1, MakersKeep DEF IInv, records
<1>7. {"destroy", "destroy_mixers"} \cap (Using \cup Owning \cup Broadcasting) = {}
  BY DEF Using, Owning, Broadcasting
<1>8. Control'
  BY <1>0, <1>1, <1>2, <1>3, <1>4, <1>5, <1>6, <1>7, InnerControl DEF IInv
<1>9. /\ call[t].at \notin Casting \cup {"stop_app"}
      /\ call'[t].at \notin Casting \cup Using \cup Deleting \cup Inserting
      /\ call'[t].at \notin {"stop_app", "stop_mixers", "cast_id", "end", "cast_mixers"}
  BY <1>0, <1>1 DEF Casting, Using, Deleting, Inserting
<1>10. Stage(call[t]) = "part" /\ Stage(call'[t]) = "part"
  BY <1>0, <1>1, StageOf DEF Destroying
<1>11. Owners' /\ Broadcast' /\ Runs'
  BY <1>1, <1>3, <1>9, <1>10, OwnersKeep, BroadcastKeeps, RunsKeep DEF IInv, Conference, Control
<1>12. Found' /\ Recorded' /\ Listeners'
  BY <1>1, <1>3, <1>9, FoundKeeps, RecordedKeeps, ListenersKeep DEF IInv, Conference, records
<1> QED  BY <1>8, <1>11, <1>12 DEF IInv, Conference

\* ... then its sources go.
LEMMA DestroyKeeps ==
  ASSUME IInv, NEW t \in Thread, At(t, "destroy_mixers"), Return(t),
         DeleteMixers({call[t].id}, {"video", "audio", "text"}),
         deleted' = deleted \cup {call[t].id},
         UNCHANGED <<inited, participants, players, broadcastId, appEnabled, running>>,
         UNCHANGED <<records, maxId, lock, broadcastLock, given, returned, calls>>
  PROVE  IInv'
<1> PICK id : id = call[t].id
  OBVIOUS
<1>0. Types /\ call[t].at = "destroy_mixers" /\ "destroy_mixers" \in Named
  BY DEF IInv, Control, Named, Destroying, At
<1>1. /\ Moves(t) /\ call'[t].at = "idle" /\ call'[t].id = 0
      /\ call'[t].for = "none" /\ call'[t].found = FALSE
  BY <1>0, ReturnMoves
<1>2. id \in Id /\ id \notin Casters /\ id # AppMixerBroadcasterId /\ id # 0
  BY <1>0, CallerId DEF IInv
<1>3. \A k \in Kind : mixers'[k] = IF k \in {"video", "audio", "text"} THEN mixers[k] \ {id} ELSE mixers[k]
  BY DEF DeleteMixers
<1>4. Types'
  BY <1>0, <1>1, <1>2 DEF Types, Moves, records, DeleteMixers
<1>5. GivenGrows
  BY DEF GivenGrows
<1>6. CallIsSound(call[t])'
  BY <1>1 DEF CallIsSound, Named, Creating, Inserting, Deleting, Using, Destroying, Casting
<1>7. \A i \in participants' \cup players' \cup returned' : "caller" \in given'[i]
  BY DEF IInv, Control, CallsAreSound
<1>8. MakersBounded'
  <2>1. "idle" \notin Making \cup Reading
    BY DEF Making, Reading
  <2> QED  BY <1>1, <2>1, MakersKeep DEF IInv, records
<1>9. {"idle", "destroy_mixers"} \cap (Using \cup Owning \cup Broadcasting) = {}
  BY DEF Using, Owning, Broadcasting
<1>10. Control'
  BY <1>0, <1>1, <1>4, <1>5, <1>6, <1>7, <1>8, <1>9, InnerControl DEF IInv
<1>11. /\ call[t].at \notin Casting \cup {"stop_app", "destroy", "player_stop"}
       /\ call'[t].at \notin Casting \cup Using \cup Deleting \cup Inserting
       /\ call'[t].at \notin {"stop_app", "stop_mixers", "cast_id", "end", "cast_mixers"}
  BY <1>0, <1>1 DEF Casting, Using, Deleting, Inserting
<1>12. Stage(call[t]) = "part" /\ Stage(call'[t]) = "none" /\ "part" \in OwningStages
  BY <1>0, <1>1, StageOf DEF Destroying, Inserting, OwningStages
\* The destroyer is alone with the id.
<1>13. ASSUME id \in Callers
       PROVE  /\ OneOwner(id) /\ id \notin participants \cup players
              /\ \A u \in Thread : u # t /\ call[u].id = id => Stage(call[u]) = "none"
  BY <1>12, <1>13, OwnerIsAlone DEF IInv, Conference, Owners
<1>14. Owners'
  <2>1. ASSUME id \in Callers' PROVE OneOwner(id)'
    <3>1. /\ OneOwner(id) /\ id \notin participants \cup players
          /\ \A u \in Thread : u # t /\ call[u].id = id => Stage(call[u]) = "none"
      BY <1>5, <1>13, <2>1, ExemptGrows
    <3>2. ~Staged(id, {"player"})
      BY <1>12, <3>1 DEF Staged
    <3>3. id \notin mixers["private"]
      BY <3>1, <3>2 DEF OneOwner
    <3>4. \A k \in {"video", "audio", "text", "private"} : id \notin mixers'[k]
      BY <1>3, <3>3 DEF Kind
    <3> QED  BY <1>1, <1>12, <3>1, <3>4, OwnerIs
  <2>2. \A i \in Callers' : i # id => /\ i \in participants' <=> i \in participants
                                      /\ i \in players' <=> i \in players
                                      /\ \A k \in Kind : i \in mixers'[k] <=> i \in mixers[k]
    BY <1>3
  <2> QED  BY <1>1, <1>5, <1>12, <2>1, <2>2, OwnersBut DEF IInv, Conference
<1>15. Broadcast'
  <2>1. \A i \in Casters' \cup {AppMixerBroadcasterId}, k \in Kind : i \in mixers'[k] <=> i \in mixers[k]
    BY <1>2, <1>3, <1>5, ExemptGrows
  <2> QED  BY <1>0, <1>1, <1>5, <1>11, <2>1, BroadcastKeeps DEF IInv, Conference
<1>16. Runs'
  BY <1>1, <1>5, <1>11, RunsKeep DEF IInv, Conference
<1>17. Found'
  <2>1. ASSUME NEW u \in Thread, call'[u].id = id, id \in Callers PROVE call'[u].at \notin Inserting
    <3>1. Stage(call'[u]) = "none"
      BY <1>1, <1>12, <1>13, <2>1 DEF Moves
    <3> QED  BY <3>1, StageOf
  <2>2. \A u \in Thread : call'[u].at \in Inserting => call[u].at \in Inserting /\ call'[u].id = call[u].id
    BY <1>1, <1>11 DEF Moves
  <2>3. \A u \in Thread : call'[u].at \in Using => call'[u] = call[u]
    BY <1>1, <1>11 DEF Moves
  <2> QED  BY <1>5, <1>13, <2>1, <2>2, <2>3, ExemptGrows DEF IInv, Conference, Found
<1>18. Recorded' /\ Listeners'
  BY <1>1, <1>11, RecordedKeeps, ListenersKeep DEF IInv, Conference, records
<1> QED  BY <1>10, <1>14, <1>15, <1>16, <1>17, <1>18 DEF IInv, Conference

LEMMA DeleteParticipantKeeps ==
  ASSUME IInv, NEW t \in Thread, DeleteParticipant(t) PROVE IInv'
<1>0. Types
  BY DEF IInv, Control
<1>1. ASSUME NEW id \in returned, Start(t, "del", id, "del") PROVE IInv'
  <2>1. id \in Id /\ "caller" \in given[id] /\ id \in 0..MaxCalls
    BY <1>0, ConfAssumption DEF IInv, Control, CallsAreSound, Types, Id
  <2>2. "del" \in Steps /\ "del" \in Fors
    BY DEF Steps, Named, Fors
  <2> QED  BY <1>1, <2>1, <2>2, StartKeeps DEF IInv
<1>2. CASE Find(t, "del", "del_stop")
  BY <1>2, FindKeeps
<1>3. CASE /\ At(t, "del_stop")
           /\ call' = [call EXCEPT ![t].at = "del_lock", ![t].found = FALSE]
           /\ StopRecordingParticipant(t)
           /\ lock' = RW!DecUse(lock, t)
           /\ UNCHANGED <<inited, participants, players, broadcastId, appEnabled, mixers>>
           /\ UNCHANGED <<recorder, made, listeners, closed, maxId, broadcastLock, deleted, given, returned, calls>>
  <2> PICK id : id = call[t].id
    OBVIOUS
  <2>1. call[t].at = "del_stop" /\ "del_stop" \in Using /\ "del_lock" \in Steps
    BY <1>3 DEF At, Using, Steps, Named, Deleting
  <2>2. /\ Moves(t) /\ call'[t].at = "del_lock" /\ call'[t].id = id
        /\ call'[t].for = call[t].for /\ call'[t].found = FALSE
    BY <1>0, <1>3, <2>1 DEF Types, CallType, Moves
  <2>3. /\ recording' = IF call[t].found THEN recording \ {id} ELSE recording
        /\ late' = late /\ running' = running
    BY <1>3 DEF StopRecordingParticipant
  <2>4. lock' \in RW!Lock
    BY <1>0, <1>3, LockValues DEF Types
  <2>5. Types'
    BY <1>0, <1>3, <2>2, <2>3, <2>4 DEF Types, Moves
  <2>6. Recorded'
    <3>1. call[t].found <=> id \in participants
      BY <2>1 DEF IInv, Conference, Found
    <3>2. inited => recording' \ late' \subseteq recording \ late /\ id \notin recording' \ late'
      BY <2>3, <3>1 DEF IInv, Conference, Recorded
    <3>3. \A u \in Thread : call'[u].at \in Deleting => call'[u].id = id \/ (call[u].at \in Deleting /\ call'[u].id = call[u].id)
      BY <2>2 DEF Moves
    <3> QED  BY <1>3, <3>2, <3>3 DEF IInv, Conference, Recorded
  <2> QED  BY <1>3, <2>1, <2>2, <2>3, <2>5, <2>6, ReleaseKeeps
<1>4. CASE Claim(t, "del_lock", "del_own")
  BY <1>4, ClaimKeeps
<1>5. CASE /\ At(t, "del_own") /\ Erase(t)
           /\ IF call[t].id \in participants THEN Goto(t, "destroy") ELSE Return(t)
           /\ UNCHANGED <<inited, players, broadcastId, appEnabled, mixers, running>>
           /\ UNCHANGED <<records, maxId, broadcastLock, deleted, given, returned, calls>>
  BY <1>5, EraseKeeps
<1>6. CASE /\ DestroyParticipant(t)
           /\ UNCHANGED <<inited, participants, players, broadcastId, appEnabled>>
           /\ UNCHANGED <<records, maxId, lock, broadcastLock, given, returned, calls>>
  BY <1>6, EndPartKeeps, DestroyKeeps DEF DestroyParticipant
<1> QED  BY <1>1, <1>2, <1>3, <1>4, <1>5, <1>6 DEF DeleteParticipant

-----------------------------------------------------------------------------
(* Players                                                                 *)

\* The player is inserted: the call gives it its sources.
LEMMA InsertPlayerKeeps ==
  ASSUME IInv, NEW t \in Thread, At(t, "init"), call[t].for = "player", Return(t),
         players' = players \cup {call[t].id},
         returned' = returned \cup {call[t].id},
         UNCHANGED <<inited, participants, broadcastId, appEnabled, mixers, running>>,
         UNCHANGED <<records, maxId, lock, broadcastLock, deleted, given, calls>>
  PROVE  IInv'
<1> PICK id : id = call[t].id
  OBVIOUS
<1>0. Types /\ call[t].at = "init" /\ "init" \in Named
  BY DEF IInv, Control, Named, Creating, At
<1>1. /\ Moves(t) /\ call'[t].at = "idle" /\ call'[t].id = 0
      /\ call'[t].for = "none" /\ call'[t].found = FALSE
  BY <1>0, ReturnMoves
<1>2. id \in Id /\ "caller" \in given[id] /\ id # 0
  BY <1>0, CallerId DEF IInv
<1>3. {"idle", "init"} \cap (Owning \cup Using \cup Broadcasting) = {}
  BY DEF Owning, Broadcasting, Using
<1>4. Types'
  BY <1>0, <1>1, <1>2 DEF Types, Moves, records
<1>5. GivenGrows
  BY DEF GivenGrows
<1>6. CallIsSound(call[t])'
  BY <1>1 DEF CallIsSound, Named, Creating, Inserting, Deleting, Using, Destroying, Casting
<1>7. \A i \in participants' \cup players' \cup returned' : "caller" \in given'[i]
  BY <1>2 DEF IInv, Control, CallsAreSound
<1>8. MakersBounded'
  <2>1. "idle" \notin Making \cup Reading
    BY DEF Making, Reading
  <2> QED  BY <1>1, <2>1, MakersKeep DEF IInv, records
<1>9. Control'
  BY <1>0, <1>1, <1>3, <1>4, <1>5, <1>6, <1>7, <1>8, InnerControl DEF IInv
<1>10. /\ call[t].at \notin Casting \cup {"stop_app", "destroy", "player_stop"}
       /\ call'[t].at \notin Casting \cup Using \cup Inserting \cup Deleting
       /\ call'[t].at \notin {"stop_app", "stop_mixers", "cast_id", "end", "cast_mixers"}
  BY <1>0, <1>1 DEF Casting, Using, Inserting, Deleting
<1>11. Stage(call[t]) = "player" /\ Stage(call'[t]) = "none"
  BY <1>0, <1>1, StageOf DEF Inserting, Destroying
<1>12. Owners'
  <2>1. ASSUME id \in Callers' PROVE OneOwner(id)'
    <3>1. OneOwner(id)
      BY <1>5, <2>1, ExemptGrows DEF IInv, Conference, Owners
    <3>2. "player" \in OwningStages
      BY DEF OwningStages
    <3>3. /\ id \notin participants \cup players
          /\ \A u \in Thread : u # t /\ call[u].id = id => Stage(call[u]) = "none"
      BY <1>11, <3>1, <3>2, OwnerIsAlone
    <3>4. /\ Staged(id, OwningStages) /\ Staged(id, {"audio", "part", "player"})
          /\ ~Staged(id, {"part"})
      BY <1>11, <3>2, <3>3 DEF Staged
    <3>5. id \in mixers["video"] /\ id \in mixers["audio"] /\ id \notin mixers["text"]
      BY <3>1, <3>3, <3>4 DEF OneOwner
    <3>6. id \in players' /\ id \notin participants'
      BY <3>3
    <3> QED  BY <1>1, <1>11, <3>3, <3>5, <3>6, OwnerIs
  <2>2. \A i \in Callers' : i # id => /\ i \in participants' <=> i \in participants
                                      /\ i \in players' <=> i \in players
                                      /\ \A k \in Kind : i \in mixers'[k] <=> i \in mixers[k]
    OBVIOUS
  <2> QED  BY <1>1, <1>5, <1>11, <2>1, <2>2, OwnersBut DEF IInv, Conference
<1>13. Broadcast' /\ Runs'
  BY <1>0, <1>1, <1>5, <1>10, BroadcastKeeps, RunsKeep DEF IInv, Conference, Control
<1>14. Found' /\ Recorded' /\ Listeners'
  BY <1>1, <1>5, <1>10, FoundKeeps, RecordedKeeps, ListenersKeep DEF IInv, Conference, records
<1> QED  BY <1>9, <1>12, <1>13, <1>14 DEF IInv, Conference

LEMMA CreatePlayerKeeps ==
  ASSUME IInv, NEW t \in Thread, CreatePlayer(t) PROVE IInv'
<1>1. CASE Start(t, "player_id", 0, "player")
  BY <1>1, StartKeeps, ConfAssumption DEF IInv, Steps, Making, Fors
<1>2. CASE ReadId(t, "player_id", "player_next", "caller") /\ UNCHANGED lock
  BY <1>2, ReadKeeps
<1>3. CASE /\ At(t, "player_next") /\ Goto(t, "video")
           /\ maxId' = call[t].id + 1
           /\ UNCHANGED <<registry, records, lock, broadcastLock, deleted, given, returned, calls>>
  BY <1>3, WriteKeeps
<1>4. CASE /\ call[t].for = "player" /\ CreateMixers(t)
           /\ UNCHANGED <<records, maxId, lock, broadcastLock, deleted, given, returned, calls>>
  BY <1>4, CreateMixersKeeps
<1>5. CASE /\ At(t, "init") /\ call[t].for = "player" /\ Return(t)
           /\ players' = players \cup {call[t].id}
           /\ returned' = returned \cup {call[t].id}
           /\ UNCHANGED <<inited, participants, broadcastId, appEnabled, mixers, running>>
           /\ UNCHANGED <<records, maxId, lock, broadcastLock, deleted, given, calls>>
  BY <1>5, InsertPlayerKeeps
<1> QED  BY <1>1, <1>2, <1>3, <1>4, <1>5 DEF CreatePlayer

\* A player plays, or stops.
LEMMA PlayKeeps ==
  ASSUME IInv, NEW id, Play(id) PROVE IInv'
<1>1. /\ id \in players /\ running' \in {running \cup {id}, running \ {id}} /\ calls < MaxCalls /\ calls' = calls + 1
      /\ UNCHANGED <<inited, participants, players, broadcastId, appEnabled, mixers>>
      /\ UNCHANGED <<records, maxId, lock, broadcastLock, deleted, given, returned, call>>
  BY DEF Play
<1>2. Types /\ calls \in Nat /\ calls' \in 0..MaxCalls
  BY <1>1, ConfAssumption DEF IInv, Control, Types
<1>3. id \in Id /\ id \notin Casters /\ id # AppMixerBroadcasterId
  BY <1>1, <1>2, ConfAssumption
  DEF IInv, Control, CallsAreSound, Types, Casters, Id, AppMixerBroadcasterId
<1>4. Types'
  BY <1>1, <1>2, <1>3 DEF Types, records
<1>5. CallsAreSound' /\ LocksHeld'
  BY <1>1 DEF IInv, Control, CallsAreSound, CallIsSound, LocksHeld
<1>6. MakersBounded'
  <2>1. Makers' = Makers /\ maxId \in Nat /\ made \in Nat /\ Cardinality(Makers) \in Nat
    BY <1>1, <1>2, ConfAssumption, MakersFinite DEF Makers, Types
  <2>2. \A t \in Thread : call[t].id \in Nat
    BY <1>2 DEF Types, CallType
  <2>3. maxId' = maxId /\ made' = made /\ call' = call
    BY <1>1 DEF records
  <2>4. \A t \in Thread : call'[t].at \in Reading => call'[t].id + Cardinality(Makers') <= calls' + 1
    BY <1>1, <1>2, <2>1, <2>2, <2>3 DEF IInv, Control, MakersBounded
  <2>5. maxId' + Cardinality(Makers') <= calls' + 1 /\ made' + Cardinality(Makers') <= calls'
    BY <1>1, <1>2, <2>1, <2>3 DEF IInv, Control, MakersBounded
  <2> QED  BY <2>4, <2>5 DEF MakersBounded
<1>7. Owners'
  BY <1>1 DEF IInv, Conference, Owners, OneOwner, Staged, Callers
<1>8. Broadcast'
  BY <1>1 DEF IInv, Conference, Broadcast, Casters, At
<1>9. Runs'
  BY <1>1, <1>3 DEF IInv, Conference, Runs, Casters, Callers
<1>10. Found' /\ Recorded' /\ Listeners'
  BY <1>1 DEF IInv, Conference, Found, Recorded, Listeners, BroadcastRecordersAreThere, Callers, records
<1> QED  BY <1>4, <1>5, <1>6, <1>7, <1>8, <1>9, <1>10 DEF IInv, Control, Conference

\* The controller asks for the deletion of a player; nobody else does until the end.
LEMMA AskKeeps ==
  ASSUME IInv, NEW t \in Thread, NEW id \in players, About(id) = {},
         Start(t, "player_erase", id, "del_player")
  PROVE  IInv'
<1>0. /\ Types /\ "player_erase" \in Steps /\ "del_player" \in Fors
      /\ id \in Id /\ "caller" \in given[id] /\ id \in 0..MaxCalls
  BY ConfAssumption DEF IInv, Control, CallsAreSound, Types, Id, Steps, Named, Fors
<1>1. /\ Moves(t) /\ call[t].at = "idle"
      /\ call'[t].at = "player_erase" /\ call'[t].id = id
      /\ UNCHANGED <<registry, records, maxId, lock, broadcastLock, deleted, given, returned>>
  BY <1>0, StartMoves
<1>2. Control'
  BY <1>0, StartKeeps
<1>3. GivenGrows
  BY <1>1 DEF GivenGrows
<1>4. Stage(call[t]) = "none" /\ Stage(call'[t]) = "erase"
  BY <1>1, StageOf DEF Inserting, Destroying
<1>5. /\ call[t].at \notin Casting \cup {"stop_app", "destroy", "player_stop"}
      /\ call'[t].at \notin Casting \cup Using \cup Deleting \cup Inserting
      /\ call'[t].at \notin {"stop_app", "stop_mixers", "cast_id", "end", "cast_mixers"}
  BY <1>1 DEF Casting, Using, Deleting, Inserting
<1>6. Owners'
  <2>1. ASSUME id \in Callers' PROVE OneOwner(id)'
    <3>1. OneOwner(id) /\ UNCHANGED <<participants, players, mixers>>
      BY <1>1, <1>3, <2>1, ExemptGrows DEF IInv, Conference, Owners, registry
    <3>2. \A u \in Thread : call[u].id # id
      BY DEF About
    <3>3. \A u \in Thread : call'[u].id = id => u = t
      BY <1>1, <3>2 DEF Moves
    <3>4. "erase" \notin OwningStages
      BY DEF OwningStages
    <3>5. ~Staged(id, OwningStages) /\ ~Staged(id, {"audio", "part", "player"})
          /\ ~Staged(id, {"part"}) /\ ~Staged(id, {"player"})
      BY <3>2 DEF Staged
    <3>6. ~Staged(id, OwningStages)' /\ ~Staged(id, {"audio", "part", "player"})'
          /\ ~Staged(id, {"part"})' /\ ~Staged(id, {"player"})'
      BY <1>4, <3>3, <3>4 DEF Staged
    <3>7. \A u, v \in Thread : call'[u].id = id /\ call'[v].id = id => u = v
      BY <3>3
    <3> HIDE DEF Staged
    <3> QED  BY <3>1, <3>5, <3>6, <3>7 DEF OneOwner
  <2> QED  BY <1>1, <1>3, <1>4, <2>1, OwnersBut DEF IInv, Conference, registry
<1>7. Broadcast' /\ Runs'
  BY <1>0, <1>1, <1>3, <1>5, BroadcastKeeps, RunsKeep DEF IInv, Conference, registry
<1>8. Found' /\ Recorded' /\ Listeners'
  BY <1>1, <1>3, <1>5, FoundKeeps, RecordedKeeps, ListenersKeep DEF IInv, Conference, registry, records
<1> QED  BY <1>2, <1>6, <1>7, <1>8 DEF IInv, Conference

\* The steps of the deletion that take no lock
LEMMA DeletingControl ==
  ASSUME IInv, NEW t \in Thread, Moves(t), Types',
         call[t].at \in {"player_erase", "player_stop", "player_mixers"},
         \/ /\ call'[t].at \in {"player_stop", "player_mixers"} /\ call'[t].id = call[t].id
            /\ call'[t].for = call[t].for /\ call'[t].found = call[t].found
         \/ /\ call'[t].at = "idle" /\ call'[t].id = 0
            /\ call'[t].for = "none" /\ call'[t].found = FALSE,
         participants' = participants, players' \subseteq players,
         UNCHANGED <<made, maxId, lock, broadcastLock, given, returned, calls>>
  PROVE  /\ Control' /\ GivenGrows
         /\ call[t].at \notin Casting \cup {"stop_app", "destroy"}
         /\ call'[t].at \notin Casting \cup Using \cup Deleting \cup Inserting
         /\ call'[t].at \notin {"stop_app", "stop_mixers", "cast_id", "end", "cast_mixers"}
         /\ call[t].id \in Id /\ call[t].id \notin Casters
         /\ call[t].id # AppMixerBroadcasterId /\ call[t].id # 0
<1>1. GivenGrows
  BY DEF GivenGrows
<1>2. CallIsSound(call[t])'
  <2>1. CallIsSound(call[t])
    BY DEF IInv, Control, CallsAreSound
  <2> QED  BY <2>1 DEF CallIsSound, Named, Creating, Inserting, Deleting, Using, Destroying, Casting, Stopping
<1>3. \A i \in participants' \cup players' \cup returned' : "caller" \in given'[i]
  BY DEF IInv, Control, CallsAreSound
<1>4. call'[t].at \notin Making \cup Reading
  BY DEF Making, Reading
<1>5. MakersBounded'
  BY <1>4, MakersKeep DEF IInv
<1>6. /\ call[t].at \notin Using \cup Owning \cup Broadcasting
      /\ call'[t].at \notin Using \cup Owning \cup Broadcasting
  BY DEF Using, Owning, Broadcasting
<1>7. Control'
  BY <1>1, <1>2, <1>3, <1>5, <1>6, InnerControl DEF IInv
<1>8. call[t].at \in Named
  BY DEF Named
<1>9. /\ call[t].id \in Id /\ call[t].id \notin Casters
      /\ call[t].id # AppMixerBroadcasterId /\ call[t].id # 0
  BY <1>8, CallerId DEF IInv
<1>10. /\ call[t].at \notin Casting \cup {"stop_app", "destroy"}
       /\ call'[t].at \notin Casting \cup Using \cup Deleting \cup Inserting
       /\ call'[t].at \notin {"stop_app", "stop_mixers", "cast_id", "end", "cast_mixers"}
  BY DEF Casting, Using, Deleting, Inserting
<1> QED  BY <1>1, <1>7, <1>9, <1>10

\* The player leaves the map: its sources are its deleter's.
LEMMA ErasePlayerKeeps ==
  ASSUME IInv, NEW t \in Thread, At(t, "player_erase"), Goto(t, "player_stop"),
         players' = players \ {call[t].id},
         UNCHANGED <<inited, participants, broadcastId, appEnabled, mixers, running>>,
         UNCHANGED <<records, maxId, lock, broadcastLock, deleted, given, returned, calls>>
  PROVE  IInv'
<1> PICK id : id = call[t].id
  OBVIOUS
<1>0. Types /\ call[t].at = "player_erase" /\ "player_stop" \in Steps
  BY DEF IInv, Control, Steps, Named, At
<1>1. /\ Moves(t) /\ call'[t].at = "player_stop" /\ call'[t].id = id
      /\ call'[t].for = call[t].for /\ call'[t].found = call[t].found
  BY <1>0, GotoMoves
<1>2. Types'
  BY <1>0, <1>1 DEF Types, Moves, records
<1>3. /\ Control' /\ GivenGrows
      /\ call[t].at \notin Casting \cup {"stop_app", "destroy"}
      /\ call'[t].at \notin Casting \cup Using \cup Deleting \cup Inserting
      /\ call'[t].at \notin {"stop_app", "stop_mixers", "cast_id", "end", "cast_mixers"}
  BY <1>0, <1>1, <1>2, DeletingControl DEF records
<1>4. Stage(call[t]) = "erase" /\ Stage(call'[t]) = "player"
  BY <1>0, <1>1, StageOf
<1>5. Owners'
  <2>1. ASSUME id \in Callers' PROVE OneOwner(id)'
    <3>1. OneOwner(id)
      BY <1>3, <2>1, ExemptGrows DEF IInv, Conference, Owners
    <3>2. Staged(id, {"erase"}) /\ id \in players
      BY <1>4, <3>1 DEF OneOwner, Staged
    <3>3. ~Staged(id, OwningStages) /\ id \notin participants
      BY <3>1, <3>2 DEF OneOwner
    <3>4. \A u \in Thread : u # t /\ call[u].id = id => Stage(call[u]) # "erase"
      BY <1>4, <3>1 DEF OneOwner
    <3>5. \A u \in Thread : u # t /\ call[u].id = id => Stage(call[u]) = "none"
      BY <3>3, <3>4, StageType DEF Staged
    <3>6. ~Staged(id, {"part"})
      BY <3>3 DEF Staged, OwningStages
    <3>7. id \in mixers["video"] /\ id \in mixers["audio"] /\ id \notin mixers["text"]
      BY <3>1, <3>2, <3>3, <3>6 DEF OneOwner
    <3>8. id \notin participants' \cup players' /\ "player" \in OwningStages
      BY <3>3 DEF OwningStages
    <3> QED  BY <1>1, <1>4, <3>5, <3>7, <3>8, OwnerIs
  <2>2. \A i \in Callers' : i # id => /\ i \in participants' <=> i \in participants
                                      /\ i \in players' <=> i \in players
                                      /\ \A k \in Kind : i \in mixers'[k] <=> i \in mixers[k]
    OBVIOUS
  <2> QED  BY <1>1, <1>3, <2>1, <2>2, OwnersBut DEF IInv, Conference
<1>6. Broadcast'
  BY <1>0, <1>1, <1>3, BroadcastKeeps DEF IInv, Conference
<1>7. Runs'
  <2>1. \A i \in running' \cap Callers' : i \in participants \cup players =>
            \/ i \in participants' \cup players'
            \/ call'[t].id = i /\ call'[t].at \in {"destroy", "player_stop"}
    BY <1>1
  <2> QED  BY <1>0, <1>1, <1>3, <2>1, RunsKeep DEF IInv, Conference
<1>8. Found' /\ Recorded' /\ Listeners'
  BY <1>1, <1>3, FoundKeeps, RecordedKeeps, ListenersKeep DEF IInv, Conference, records
<1> QED  BY <1>3, <1>5, <1>6, <1>7, <1>8 DEF IInv, Conference

\* It stops, ...
LEMMA StopPlayerKeeps ==
  ASSUME IInv, NEW t \in Thread, At(t, "player_stop"), Goto(t, "player_mixers"),
         running' = running \ {call[t].id},
         UNCHANGED <<inited, participants, players, broadcastId, appEnabled, mixers>>,
         UNCHANGED <<records, maxId, lock, broadcastLock, deleted, given, returned, calls>>
  PROVE  IInv'
<1>0. Types /\ call[t].at = "player_stop" /\ "player_mixers" \in Steps
  BY DEF IInv, Control, Steps, Named, At
<1>1. /\ Moves(t) /\ call'[t].at = "player_mixers" /\ call'[t].id = call[t].id
      /\ call'[t].for = call[t].for /\ call'[t].found = call[t].found
  BY <1>0, GotoMoves
<1>2. Types'
  BY <1>0, <1>1 DEF Types, Moves, records
<1>3. /\ Control' /\ GivenGrows
      /\ call[t].at \notin Casting \cup {"stop_app", "destroy"}
      /\ call'[t].at \notin Casting \cup Using \cup Deleting \cup Inserting
      /\ call'[t].at \notin {"stop_app", "stop_mixers", "cast_id", "end", "cast_mixers"}
  BY <1>0, <1>1, <1>2, DeletingControl DEF records
<1>4. Stage(call[t]) = "player" /\ Stage(call'[t]) = "player"
  BY <1>0, <1>1, StageOf
<1>5. Owners' /\ Broadcast' /\ Runs'
  BY <1>0, <1>1, <1>3, <1>4, OwnersKeep, BroadcastKeeps, RunsKeep DEF IInv, Conference
<1>6. Found' /\ Recorded' /\ Listeners'
  BY <1>1, <1>3, FoundKeeps, RecordedKeeps, ListenersKeep DEF IInv, Conference, records
<1> QED  BY <1>3, <1>5, <1>6 DEF IInv, Conference

\* ... then its sources go.
LEMMA DestroyPlayerKeeps ==
  ASSUME IInv, NEW t \in Thread, At(t, "player_mixers"), Return(t),
         DeleteMixers({call[t].id}, {"video", "audio", "private"}),
         UNCHANGED <<inited, participants, players, broadcastId, appEnabled, running>>,
         UNCHANGED <<records, maxId, lock, broadcastLock, deleted, given, returned, calls>>
  PROVE  IInv'
<1> PICK id : id = call[t].id
  OBVIOUS
<1>0. Types /\ call[t].at = "player_mixers"
  BY DEF IInv, Control, At
<1>1. /\ Moves(t) /\ call'[t].at = "idle" /\ call'[t].id = 0
      /\ call'[t].for = "none" /\ call'[t].found = FALSE
  BY <1>0, ReturnMoves
<1>2. \A k \in Kind : mixers'[k] = IF k \in {"video", "audio", "private"} THEN mixers[k] \ {id} ELSE mixers[k]
  BY DEF DeleteMixers
<1>3. Types'
  BY <1>0, <1>1 DEF Types, Moves, records, DeleteMixers
<1>4. /\ Control' /\ GivenGrows
      /\ call[t].at \notin Casting \cup {"stop_app", "destroy"}
      /\ call'[t].at \notin Casting \cup Using \cup Deleting \cup Inserting
      /\ call'[t].at \notin {"stop_app", "stop_mixers", "cast_id", "end", "cast_mixers"}
      /\ id \notin Casters /\ id # AppMixerBroadcasterId /\ id # 0
  BY <1>0, <1>1, <1>3, DeletingControl DEF records
<1>5. Stage(call[t]) = "player" /\ Stage(call'[t]) = "none" /\ "player" \in OwningStages
  BY <1>0, <1>1, StageOf DEF Inserting, Destroying, OwningStages
<1>6. Owners'
  <2>1. ASSUME id \in Callers' PROVE OneOwner(id)'
    <3>1. OneOwner(id)
      BY <1>4, <2>1, ExemptGrows DEF IInv, Conference, Owners
    <3>2. /\ id \notin participants \cup players
          /\ \A u \in Thread : u # t /\ call[u].id = id => Stage(call[u]) = "none"
      BY <1>5, <3>1, OwnerIsAlone
    <3>3. ~Staged(id, {"part"})
      BY <1>5, <3>2 DEF Staged
    <3>4. id \notin mixers["text"]
      BY <3>1, <3>2, <3>3 DEF OneOwner
    <3>5. \A k \in {"video", "audio", "text", "private"} : id \notin mixers'[k]
      BY <1>2, <3>4 DEF Kind
    <3> QED  BY <1>1, <1>5, <3>2, <3>5, OwnerIs
  <2>2. \A i \in Callers' : i # id => /\ i \in participants' <=> i \in participants
                                      /\ i \in players' <=> i \in players
                                      /\ \A k \in Kind : i \in mixers'[k] <=> i \in mixers[k]
    BY <1>2
  <2> QED  BY <1>1, <1>4, <1>5, <2>1, <2>2, OwnersBut DEF IInv, Conference
<1>7. Broadcast'
  <2>1. \A i \in Casters' \cup {AppMixerBroadcasterId}, k \in Kind : i \in mixers'[k] <=> i \in mixers[k]
    BY <1>2, <1>4, ExemptGrows
  <2> QED  BY <1>0, <1>1, <1>4, <2>1, BroadcastKeeps DEF IInv, Conference
<1>8. Runs'
  BY <1>0, <1>1, <1>4, RunsKeep DEF IInv, Conference
<1>9. Found' /\ Recorded' /\ Listeners'
  BY <1>1, <1>4, FoundKeeps, RecordedKeeps, ListenersKeep DEF IInv, Conference, records
<1> QED  BY <1>4, <1>6, <1>7, <1>8, <1>9 DEF IInv, Conference

LEMMA DeletePlayerKeeps ==
  ASSUME IInv, NEW t \in Thread, DeletePlayer(t) PROVE IInv'
BY AskKeeps, ErasePlayerKeeps, StopPlayerKeeps, DestroyPlayerKeeps DEF DeletePlayer

-----------------------------------------------------------------------------
(* The broadcaster and its recorder                                        *)

\* The steps of the calls about them, and of End
Apart == {"idle", "end", "cast_lock", "cast_test", "cast_id", "rec_lock", "rec"} \cup Casting \cup Stopping

LEMMA ApartSteps ==
  ASSUME NEW s \in Apart
  PROVE  /\ s \notin Named /\ s \notin Using /\ s \notin Owning /\ s \notin Inserting /\ s \notin Deleting
         /\ s \notin Destroying /\ s \notin {"audio", "text", "init", "player_stop", "player_mixers",
                                             "player_erase", "destroy"}
         /\ s \in Steps
<1>1. s \in Steps
  BY DEF Apart, Steps, Making, Reading
<1> QED  BY <1>1 DEF Apart, Casting, Stopping, Named, Creating, Using, Owning, Inserting, Deleting, Destroying

\* broacasterLock is one thread's, and nobody ends the conference meanwhile.
LEMMA OnlyBroadcaster ==
  ASSUME Control, NEW t \in Thread, call[t].at \in Broadcasting
  PROVE  /\ broadcastLock = t
         /\ \A u \in Thread : u # t => call[u].at \notin Broadcasting \cup {"end"}
<1>1. broadcastLock = t /\ \A u \in Thread : u # t => call[u].at \notin Broadcasting
  BY DEF Control, LocksHeld
<1>2. ASSUME NEW u \in Thread, u # t, call[u].at = "end" PROVE FALSE
  <2>1. call[u].for = "end"
    BY <1>2 DEF Control, CallsAreSound, CallIsSound
  <2>2. call[t].at = "idle"
    BY <1>2, <2>1 DEF Control, CallsAreSound
  <2> QED  BY <2>2 DEF Broadcasting
<1> QED  BY <1>1, <1>2

\* What a step of theirs does not touch
LEMMA ApartKeeps ==
  ASSUME IInv, NEW t \in Thread, Moves(t), call[t].at \in Apart, call'[t].at \in Apart,
         UNCHANGED <<inited, participants, players, recording, late, deleted, given>>,
         \A id \in Callers, k \in Kind : id \in mixers'[k] <=> id \in mixers[k],
         \A id \in Callers : id \in running' => id \in running
  PROVE  /\ GivenGrows /\ Callers' = Callers /\ Casters' = Casters
         /\ Owners' /\ Found' /\ Recorded'
         /\ \A id \in running' \cap Callers' :
               \/ id \in participants' \cup players'
               \/ \E u \in Thread : call'[u].id = id /\ call'[u].at \in {"destroy", "player_stop"}
<1>1. GivenGrows /\ Callers' = Callers /\ Casters' = Casters
  BY DEF GivenGrows, Callers, Casters
<1>2. Stage(call[t]) = "none" /\ Stage(call'[t]) = "none"
  BY ApartSteps, StageOf
<1>3. Owners'
  <2> SUFFICES ASSUME NEW id \in Callers PROVE OneOwner(id)'
    BY <1>1 DEF Owners
  <2>1. OneOwner(id)
    BY DEF IInv, Conference, Owners
  <2> QED  BY <1>2, <2>1, OwnerKeeps
<1>4. Found' /\ Recorded'
  BY <1>1, ApartSteps, FoundKeeps, RecordedKeeps DEF IInv, Conference
<1>5. ASSUME NEW id \in running' \cap Callers', id \notin participants \cup players
      PROVE  \E u \in Thread : call'[u].id = id /\ call'[u].at \in {"destroy", "player_stop"}
  <2>1. PICK u \in Thread : call[u].id = id /\ call[u].at \in {"destroy", "player_stop"}
    BY <1>1, <1>5 DEF IInv, Conference, Runs
  <2>2. u # t
    BY <2>1, ApartSteps
  <2> QED  BY <2>1, <2>2 DEF Moves
<1> QED  BY <1>1, <1>3, <1>4, <1>5

\* A step that unlocks broacasterLock
LEMMA LeaveControl ==
  ASSUME IInv, NEW t \in Thread, Moves(t), Types', MakersBounded',
         UNCHANGED <<participants, players, returned, given, lock>>, broadcastLock' = NoThread,
         call[t].at \in {"cast_test", "cast_encode", "rec", "stop_rec", "stop_app"},
         \/ /\ call'[t].at = "idle" /\ call'[t].id = 0
            /\ call'[t].for = "none" /\ call'[t].found = FALSE
         \/ /\ call[t].at \in {"stop_rec", "stop_app"}
            /\ call'[t].at = "stop_lock" \/ (call'[t].at = "end" /\ call[t].for = "end")
            /\ call'[t].id = call[t].id
            /\ call'[t].for = call[t].for /\ call'[t].found = call[t].found
  PROVE  Control'
<1>1. GivenGrows
  BY DEF GivenGrows
<1>2. CallIsSound(call[t])
  BY DEF IInv, Control, CallsAreSound
<1>3. CallIsSound(call[t])'
  BY <1>2 DEF CallIsSound, Named, Creating, Inserting, Deleting, Using, Destroying, Casting, Stopping
<1>4. \A i \in participants' \cup players' \cup returned' : "caller" \in given'[i]
  BY DEF IInv, Control, CallsAreSound
<1>5. CallsAreSound'
  BY <1>1, <1>3, <1>4, SoundKeeps DEF IInv
<1>6. /\ call[t].at \in Broadcasting /\ call[t].at \notin Using \cup Owning
      /\ call'[t].at \notin Broadcasting \cup Using \cup Owning
  BY DEF Broadcasting, Using, Owning
<1>7. broadcastLock = t /\ (t \in lock.users <=> call[t].at \in Using) /\ (t = lock.claim <=> call[t].at \in Owning)
  BY <1>6 DEF IInv, Control, LocksHeld
<1>8. LocksHeld'
  BY <1>6, <1>7, ConfAssumption, LocksKeep DEF IInv
<1> QED  BY <1>5, <1>8 DEF Control

\* A step under broacasterLock
LEMMA UnderControl ==
  ASSUME IInv, NEW t \in Thread, Moves(t), Types', MakersBounded',
         UNCHANGED <<participants, players, returned, given, lock, broadcastLock>>,
         call[t].at \in {"cast_id", "cast_mixers", "stop_encode", "stop_mixers"},
         call[t].at \in {"cast_id", "cast_mixers"} => call'[t].at \in Casting,
         call[t].at \in {"stop_encode", "stop_mixers"} => call'[t].at \in {"stop_mixers", "stop_app"},
         call'[t].id = call[t].id, call'[t].for = call[t].for, call'[t].found = call[t].found
  PROVE  Control'
<1>1. GivenGrows
  BY DEF GivenGrows
<1>2. CallIsSound(call[t])
  BY DEF IInv, Control, CallsAreSound
<1>3. CallIsSound(call[t])'
  BY <1>2 DEF CallIsSound, Named, Creating, Inserting, Deleting, Using, Destroying, Casting, Stopping
<1>4. \A i \in participants' \cup players' \cup returned' : "caller" \in given'[i]
  BY DEF IInv, Control, CallsAreSound
<1>5. /\ call[t].at \in Broadcasting /\ call[t].at \notin Using \cup Owning
      /\ call'[t].at \in Broadcasting /\ call'[t].at \notin Using \cup Owning
  BY DEF Broadcasting, Using, Owning, Casting
<1> QED  BY <1>1, <1>3, <1>4, <1>5, InnerControl DEF IInv

\* There is a broadcaster already.
LEMMA CastAgainKeeps ==
  ASSUME IInv, NEW t \in Thread, At(t, "cast_test"), Return(t), broadcastLock' = NoThread,
         UNCHANGED <<registry, records, maxId, lock, deleted, given, returned, calls>>
  PROVE  IInv'
<1>0. Types /\ call[t].at = "cast_test"
  BY DEF IInv, Control, At
<1>1. /\ Moves(t) /\ call'[t].at = "idle" /\ call'[t].id = 0
      /\ call'[t].for = "none" /\ call'[t].found = FALSE
  BY <1>0, ReturnMoves
<1>2. Types'
  BY <1>0, <1>1, TypesKeep DEF Types
<1>3. MakersBounded'
  <2>1. "cast_test" \in Making /\ "idle" \notin Making
    BY DEF Making, Reading
  <2> QED  BY <1>0, <1>1, <2>1, MakerDone DEF IInv, records
<1>4. Control'
  BY <1>0, <1>1, <1>2, <1>3, LeaveControl DEF registry
<1>5. GivenGrows /\ Stage(call[t]) = "none" /\ Stage(call'[t]) = "none"
  BY <1>0, <1>1, StageOf DEF GivenGrows, Inserting, Destroying
<1>6. /\ call[t].at \notin Casting \cup {"stop_app", "destroy", "player_stop"}
      /\ call'[t].at \notin Casting \cup Using \cup Inserting \cup Deleting
      /\ call'[t].at \notin {"stop_app", "stop_mixers", "cast_id", "end"}
  BY <1>0, <1>1 DEF Casting, Using, Inserting, Deleting
<1>7. Conference'
  BY <1>1, <1>5, <1>6, CalmKeeps
<1> QED  BY <1>4, <1>7 DEF IInv

\* The id is the broadcaster's, ...
LEMMA CastIdKeeps ==
  ASSUME IInv, NEW t \in Thread, At(t, "cast_id"), Goto(t, "cast_mixers"),
         maxId' = call[t].id + 1, broadcastId' = call[t].id,
         UNCHANGED <<inited, participants, players, appEnabled, mixers, running>>,
         UNCHANGED <<records, lock, broadcastLock, deleted, given, returned, calls>>
  PROVE  IInv'
<1> PICK id : id = call[t].id
  OBVIOUS
<1>0. /\ Types /\ call[t].at = "cast_id" /\ "cast_id" \in Apart /\ "cast_mixers" \in Apart
      /\ "cast_mixers" \in Steps /\ "cast_id" \in Broadcasting /\ "cast_id" \in Making /\ "cast_id" \in Reading
      /\ "cast_mixers" \notin Making /\ "cast_mixers" \in Casting
  BY DEF IInv, Control, At, Apart, Casting, Steps, Broadcasting, Making, Reading
<1>1. /\ Moves(t) /\ call'[t].at = "cast_mixers" /\ call'[t].id = id
      /\ call'[t].for = call[t].for /\ call'[t].found = call[t].found
  BY <1>0, GotoMoves
<1>2. id \in Id /\ "broadcaster" \in given[id] /\ id # 0
  <2>1. CallIsSound(call[t])
    BY DEF IInv, Control, CallsAreSound
  <2> QED  BY <1>0, <2>1, ConfAssumption DEF CallIsSound, Id
<1>3. Types'
  <2>1. maxId' \in 1..(MaxCalls + 1) /\ broadcastId' \in 0..MaxCalls
    BY <1>2, ConfAssumption DEF Id
  <2> QED  BY <1>0, <1>1, <2>1 DEF Types, Moves, records
<1>4. MakersBounded'
  BY <1>0, <1>1, MakerDone DEF IInv, records
<1>5. Control'
  BY <1>0, <1>1, <1>3, <1>4, UnderControl
<1>6. /\ Callers' = Callers /\ Casters' = Casters /\ Owners' /\ Found' /\ Recorded'
      /\ \A i \in running' \cap Callers' :
            \/ i \in participants' \cup players'
            \/ \E u \in Thread : call'[u].id = i /\ call'[u].at \in {"destroy", "player_stop"}
  BY <1>0, <1>1, ApartKeeps DEF records
<1>7. \A u \in Thread : u # t => call'[u].at \notin Broadcasting \cup {"end"}
  BY <1>0, <1>1, OnlyBroadcaster DEF IInv, Moves
<1>8. broadcastId = 0 /\ \A i \in Casters : i # 0 /\ \A k \in {"video", "audio", "text", "private"} : i \notin mixers[k]
  <2>1. broadcastId = 0
    BY <1>0 DEF IInv, Conference, Broadcast, At
  <2>2. \A i \in Casters : i # 0
    BY ConfAssumption DEF Casters, Id
  <2> QED  BY <2>1, <2>2 DEF IInv, Conference, Broadcast
<1>9. Broadcast'
  <2>1. \A u \in Thread : /\ call'[u].at # "cast_id"
                          /\ call'[u].at \in Casting => broadcastId' = call'[u].id
                          /\ call'[u].at \notin {"stop_app", "end"}
    BY <1>1, <1>7 DEF Casting, Broadcasting
  <2>2. AppMixerBroadcasterId \in mixers'["video"] <=> appEnabled'
    BY DEF IInv, Conference, Broadcast
  <2> QED  BY <1>1, <1>2, <1>6, <1>8, <2>1, <2>2 DEF Broadcast, At
<1>10. Runs'
  <2>1. running \cap Casters = {}
    BY <1>8 DEF IInv, Conference, Runs
  <2>2. AppMixerBroadcasterId \in running' => appEnabled'
    BY DEF IInv, Conference, Runs
  <2> QED  BY <1>6, <2>1, <2>2 DEF Runs
<1>11. Listeners'
  BY ListenersKeep DEF IInv, Conference, records
<1> QED  BY <1>5, <1>6, <1>9, <1>10, <1>11 DEF IInv, Conference

\* ... it has its sources, ...
LEMMA CastMixersKeeps ==
  ASSUME IInv, NEW t \in Thread, At(t, "cast_mixers"), Goto(t, "cast_encode"),
         mixers' = [k \in Kind |-> IF k = "private" THEN mixers[k] ELSE mixers[k] \cup {broadcastId}],
         UNCHANGED <<inited, participants, players, broadcastId, appEnabled, running>>,
         UNCHANGED <<records, maxId, lock, broadcastLock, deleted, given, returned, calls>>
  PROVE  IInv'
<1>0. /\ Types /\ call[t].at = "cast_mixers" /\ "cast_encode" \in Apart /\ "cast_mixers" \in Apart
      /\ "cast_encode" \in Steps /\ "cast_mixers" \in Broadcasting /\ "cast_encode" \notin Making \cup Reading
      /\ "cast_mixers" \in Casting /\ "cast_encode" \in Casting
  BY DEF IInv, Control, At, Apart, Casting, Steps, Broadcasting, Making, Reading
<1>1. /\ Moves(t) /\ call'[t].at = "cast_encode" /\ call'[t].id = call[t].id
      /\ call'[t].for = call[t].for /\ call'[t].found = call[t].found
  BY <1>0, GotoMoves
<1>2. /\ call[t].id \in Id /\ "broadcaster" \in given[call[t].id]
      /\ broadcastId = call[t].id /\ broadcastId \notin Callers /\ broadcastId # AppMixerBroadcasterId
      /\ broadcastId # 0
  <2>1. CallIsSound(call[t])
    BY DEF IInv, Control, CallsAreSound
  <2>2. broadcastId = call[t].id
    BY <1>0 DEF IInv, Conference, Broadcast
  <2> QED  BY <1>0, <2>1, <2>2, ConfAssumption DEF CallIsSound, Id, Callers, AppMixerBroadcasterId
<1>3. Types'
  <2>1. mixers' \in [Kind -> SUBSET (Id \cup {AppMixerBroadcasterId})]
    BY <1>0, <1>2 DEF Types
  <2> QED  BY <1>0, <1>1, <2>1 DEF Types, Moves, records
<1>4. MakersBounded'
  BY <1>0, <1>1, MakersKeep DEF IInv, records
<1>5. Control'
  BY <1>0, <1>1, <1>3, <1>4, UnderControl
<1>6. /\ Callers' = Callers /\ Casters' = Casters /\ Owners' /\ Found' /\ Recorded'
      /\ \A i \in running' \cap Callers' :
            \/ i \in participants' \cup players'
            \/ \E u \in Thread : call'[u].id = i /\ call'[u].at \in {"destroy", "player_stop"}
  BY <1>0, <1>1, <1>2, ApartKeeps DEF records
<1>7. \A u \in Thread : u # t => call'[u].at \notin Broadcasting \cup {"end"}
  BY <1>0, <1>1, OnlyBroadcaster DEF IInv, Moves
<1>8. Broadcast'
  <2>1. \A u \in Thread : /\ call'[u].at # "cast_id" /\ call'[u].at # "cast_mixers"
                          /\ call'[u].at \in Casting => broadcastId' = call'[u].id
                          /\ call'[u].at \notin {"stop_app", "end"}
    BY <1>1, <1>2, <1>7 DEF Casting, Broadcasting
  <2>2. {"video", "audio", "text", "private"} = Kind
    BY DEF Kind
  <2>3. AppMixerBroadcasterId \in mixers'["video"] <=> appEnabled'
    BY <1>2, <2>2 DEF IInv, Conference, Broadcast
  <2>4. \A i \in Casters : \A k \in {"video", "audio", "text", "private"} : i \notin mixers[k]
    BY <1>0 DEF IInv, Conference, Broadcast, At
  <2>5. \A i \in Casters : /\ \A k \in {"video", "audio", "text"} : i \in mixers'[k] <=> i = broadcastId'
                           /\ i \notin mixers'["private"]
    BY <2>2, <2>4
  <2> QED  BY <1>1, <1>2, <1>6, <2>1, <2>3, <2>5 DEF Broadcast, At
<1>9. Runs'
  <2>1. running \cap Casters = {}
    BY <1>0 DEF IInv, Conference, Runs
  <2>2. AppMixerBroadcasterId \in running' => appEnabled'
    BY DEF IInv, Conference, Runs
  <2> QED  BY <1>6, <2>1, <2>2 DEF Runs
<1>10. Listeners'
  BY ListenersKeep DEF IInv, Conference, records
<1> QED  BY <1>5, <1>6, <1>8, <1>9, <1>10 DEF IInv, Conference

\* ... and the encoders run, the one of the AppMixer too if it is broadcast.
LEMMA CastEncodeKeeps ==
  ASSUME IInv, NEW t \in Thread, At(t, "cast_encode"), Return(t), broadcastLock' = NoThread,
         IF call[t].for = "cast_app"
         THEN /\ appEnabled' = TRUE
              /\ mixers' = [mixers EXCEPT !["video"] = @ \cup {AppMixerBroadcasterId}]
              /\ running' = running \cup {broadcastId, AppMixerBroadcasterId}
         ELSE /\ running' = running \cup {broadcastId}
              /\ UNCHANGED <<appEnabled, mixers>>,
         UNCHANGED <<inited, participants, players, broadcastId>>,
         UNCHANGED <<records, maxId, lock, deleted, given, returned, calls>>
  PROVE  IInv'
<1>0. /\ Types /\ call[t].at = "cast_encode" /\ "cast_encode" \in Apart /\ "idle" \in Apart
      /\ "cast_encode" \in Broadcasting /\ "idle" \notin Making \cup Reading
      /\ "cast_encode" \in Casting /\ "idle" \notin Casting
  BY DEF IInv, Control, At, Apart, Casting, Broadcasting, Making, Reading
<1>1. /\ Moves(t) /\ call'[t].at = "idle" /\ call'[t].id = 0
      /\ call'[t].for = "none" /\ call'[t].found = FALSE
  BY <1>0, ReturnMoves
<1>2. /\ broadcastId \in Id /\ "broadcaster" \in given[broadcastId]
      /\ broadcastId \notin Callers /\ broadcastId # 0
  <2>1. CallIsSound(call[t])
    BY DEF IInv, Control, CallsAreSound
  <2>2. broadcastId = call[t].id
    BY <1>0 DEF IInv, Conference, Broadcast
  <2> QED  BY <1>0, <2>1, <2>2, ConfAssumption DEF CallIsSound, Id, Callers
<1>3. AppMixerBroadcasterId \notin Callers /\ AppMixerBroadcasterId \notin Casters
  BY ConfAssumption DEF Callers, Casters, Id, AppMixerBroadcasterId
<1>4. /\ mixers' \in [Kind -> SUBSET (Id \cup {AppMixerBroadcasterId})] /\ appEnabled' \in BOOLEAN
      /\ \A k \in Kind : mixers'[k] \ {AppMixerBroadcasterId} = mixers[k] \ {AppMixerBroadcasterId}
      /\ running' \subseteq Id \cup {AppMixerBroadcasterId}
      /\ running' \ running \subseteq {broadcastId, AppMixerBroadcasterId}
      /\ AppMixerBroadcasterId \in mixers'["video"] <=> appEnabled'
      /\ AppMixerBroadcasterId \in running' => appEnabled'
      /\ appEnabled => appEnabled'
  <2>1. AppMixerBroadcasterId \notin Id
    BY ConfAssumption DEF Id, AppMixerBroadcasterId
  <2>2. /\ AppMixerBroadcasterId \in mixers["video"] <=> appEnabled
        /\ AppMixerBroadcasterId \in running => appEnabled
    BY DEF IInv, Conference, Broadcast, Runs
  <2>3. "video" \in Kind
    BY DEF Kind
  <2>4. CASE call[t].for = "cast_app"
    <3>1. \A k \in Kind : mixers'[k] = IF k = "video" THEN mixers[k] \cup {AppMixerBroadcasterId} ELSE mixers[k]
      BY <1>0, <2>4 DEF Types
    <3>2. mixers' \in [Kind -> SUBSET (Id \cup {AppMixerBroadcasterId})]
      BY <1>0, <2>3, <2>4 DEF Types
    <3>3. /\ appEnabled' = TRUE /\ running' = running \cup {broadcastId, AppMixerBroadcasterId}
          /\ running' \subseteq Id \cup {AppMixerBroadcasterId}
      BY <1>0, <1>2, <2>4 DEF Types
    <3>4. \A k \in Kind : mixers'[k] \ {AppMixerBroadcasterId} = mixers[k] \ {AppMixerBroadcasterId}
      BY <3>1
    <3> QED  BY <2>3, <3>1, <3>2, <3>3, <3>4
  <2>5. CASE call[t].for # "cast_app"
    BY <1>0, <1>2, <2>1, <2>2, <2>3, <2>5 DEF Types
  <2> QED  BY <2>4, <2>5
<1>5. Types'
  BY <1>0, <1>1, <1>4 DEF Types, Moves, records
<1>6. MakersBounded'
  BY <1>0, <1>1, MakersKeep DEF IInv, records
<1>7. Control'
  BY <1>0, <1>1, <1>5, <1>6, LeaveControl
<1>8. /\ Callers' = Callers /\ Casters' = Casters /\ Owners' /\ Found' /\ Recorded'
      /\ \A i \in running' \cap Callers' :
            \/ i \in participants' \cup players'
            \/ \E u \in Thread : call'[u].id = i /\ call'[u].at \in {"destroy", "player_stop"}
  <2>1. \A id \in Callers, k \in Kind : id \in mixers'[k] <=> id \in mixers[k]
    BY <1>3, <1>4
  <2>2. \A id \in Callers : id \in running' => id \in running
    BY <1>2, <1>3, <1>4
  <2> QED  BY <1>0, <1>1, <2>1, <2>2, ApartKeeps DEF records
<1>9. \A u \in Thread : call[u].at # "cast_mixers" /\ call'[u].at \notin Broadcasting \cup {"end"}
  <2>1. "idle" \notin Broadcasting \cup {"end"} /\ "cast_mixers" \in Broadcasting
    BY DEF Broadcasting
  <2> QED  BY <1>0, <1>1, <2>1, OnlyBroadcaster DEF IInv, Moves
<1>10. {"cast_id", "cast_mixers", "stop_mixers", "stop_app"} \cup Casting \subseteq Broadcasting
  BY DEF Casting, Broadcasting
<1>11. Broadcast'
  <2>1. {"video", "audio", "text", "private"} = Kind
    BY DEF Kind
  <2>2. \A i \in Casters : \A k \in Kind : i \in mixers'[k] <=> i \in mixers[k]
    BY <1>3, <1>4
  <2>3. \A i \in Casters : /\ \A k \in {"video", "audio", "text"} : i \in mixers'[k] <=> i = broadcastId'
                           /\ i \notin mixers'["private"]
    BY <1>9, <2>1, <2>2 DEF IInv, Conference, Broadcast, At
  <2> QED  BY <1>2, <1>4, <1>8, <1>9, <1>10, <2>3 DEF Broadcast, At
<1>12. Runs'
  <2>1. ASSUME NEW i \in running' \cap Casters' PROVE i = broadcastId'
    BY <1>3, <1>4, <1>8, <2>1 DEF IInv, Conference, Runs
  <2> QED  BY <1>4, <1>8, <1>9, <1>10, <2>1 DEF Runs
<1>13. Listeners'
  BY <1>4 DEF IInv, Conference, Listeners, BroadcastRecordersAreThere, records
<1> QED  BY <1>7, <1>8, <1>11, <1>12, <1>13 DEF IInv, Conference

LEMMA StartBroadcasterKeeps ==
  ASSUME IInv, NEW t \in Thread, StartBroadcaster(t) PROVE IInv'
<1>1. ASSUME NEW for \in {"cast", "cast_app"}, Start(t, "cast_lock", 0, for) PROVE IInv'
  BY <1>1, StartKeeps, ConfAssumption DEF IInv, Steps, Making, Fors
<1>2. CASE LockBroadcaster(t, "cast_lock", "cast_test")
  BY <1>2, LockBroadcasterKeeps
<1>3. CASE broadcastId = 0 /\ ReadId(t, "cast_test", "cast_id", "broadcaster") /\ UNCHANGED lock
  BY <1>3, ReadKeeps
<1> QED  BY <1>1, <1>2, <1>3, CastAgainKeeps, CastIdKeeps, CastMixersKeeps, CastEncodeKeeps DEF StartBroadcaster

\* A recorder is made; it may fail.
LEMMA RecKeeps ==
  ASSUME IInv, NEW t \in Thread, NEW new, new = [n |-> made + 1, type |-> call[t].for],
         At(t, "rec"), Return(t), broadcastLock' = NoThread,
         \/ /\ recorder' = new
            /\ listeners' = [flv |-> listeners.flv \cup {new},
                             app |-> listeners.app \cup (IF appEnabled THEN {new} ELSE {})]
            /\ UNCHANGED closed
         \/ /\ recorder' = NoRecorder /\ closed' = closed \cup {new}
            /\ UNCHANGED listeners,
         made' = made + 1,
         UNCHANGED <<registry, recording, late, maxId, lock, deleted, given, returned, calls>>
  PROVE  IInv'
<1>0. Types /\ call[t].at = "rec" /\ "rec" \in Making /\ "idle" \notin Making
  BY DEF IInv, Control, At, Making, Reading
<1>1. /\ Moves(t) /\ call'[t].at = "idle" /\ call'[t].id = 0
      /\ call'[t].for = "none" /\ call'[t].found = FALSE
  BY <1>0, ReturnMoves
<1>2. new \in Recorder /\ new.n = made + 1 /\ made + 1 \in 1..MaxCalls /\ made \in Nat
  <2>1. call[t].for \in RecorderType
    BY <1>0 DEF IInv, Control, CallsAreSound, CallIsSound
  <2>2. made + 1 \in 1..MaxCalls
    BY <1>0, MakerIsBelow DEF IInv
  <2> QED  BY <1>0, <2>1, <2>2 DEF Recorder, Types
<1>3. NoRecorder.n = 0
  BY DEF NoRecorder
<1>4. Types'
  <2>1. /\ recorder' \in Recorder \cup {NoRecorder} /\ closed' \subseteq Recorder
        /\ listeners' \in [flv : SUBSET Recorder, app : SUBSET Recorder]
    BY <1>0, <1>2 DEF Types
  <2>2. made' \in 0..MaxCalls
    BY <1>2
  <2> QED  BY <1>0, <1>1, <2>1, <2>2 DEF Types, Moves, registry
<1>5. MakersBounded'
  BY <1>0, <1>1, MakerDone DEF IInv
<1>6. Control'
  BY <1>0, <1>1, <1>4, <1>5, LeaveControl DEF registry
<1>7. "rec" \in Apart /\ "idle" \in Apart
  BY DEF Apart
<1>8. GivenGrows /\ Owners' /\ Found' /\ Recorded'
  BY <1>0, <1>1, <1>7, ApartKeeps DEF registry
<1>9. /\ call[t].at \notin Casting \cup {"stop_app", "destroy", "player_stop"}
      /\ call'[t].at \notin Casting \cup {"stop_app", "stop_mixers", "cast_mixers", "cast_id", "end"}
  BY <1>0, <1>1 DEF Casting
<1>10. Broadcast' /\ Runs'
  BY <1>0, <1>1, <1>8, <1>9, BroadcastKeeps, RunsKeep DEF IInv, Conference, registry
<1>11. Listeners'
  <2>1. \A r \in closed \cup listeners.flv \cup listeners.app \cup {recorder} : r \in Recorder \cup {NoRecorder} /\ r.n \in Nat /\ r.n <= made
    BY <1>0, ConfAssumption DEF IInv, Conference, Listeners, Types, Recorder, NoRecorder
  <2>2. \A r \in closed \cup listeners.flv \cup listeners.app \cup {recorder, new, NoRecorder} : r.n <= made'
    BY <1>2, <1>3, <2>1
  <2>3. new \notin closed \cup listeners.flv \cup listeners.app
    BY <1>2, <2>1
  <2>4. /\ listeners'.flv \subseteq listeners.flv \cup {new} /\ listeners'.app \subseteq listeners.app \cup {new}
        /\ closed' \subseteq closed \cup {new} /\ recorder' \in {new, NoRecorder}
        /\ new \in closed' => listeners' = listeners
        /\ listeners'.app # {} => listeners.app # {} \/ appEnabled
    BY <2>3
  <2>5. \A r \in closed' : r \notin listeners'.flv /\ (r.type = "mp4" => r \notin listeners'.app)
    BY <2>3, <2>4 DEF IInv, Conference, Listeners, BroadcastRecordersAreThere
  <2>6. \A r \in closed' \cup listeners'.flv \cup listeners'.app \cup {recorder'} : r.n <= made'
    BY <2>2, <2>4
  <2>7. listeners'.app # {} => appEnabled'
    BY <2>4 DEF IInv, Conference, Listeners, registry
  <2> QED  BY <2>5, <2>6, <2>7 DEF Listeners, BroadcastRecordersAreThere
<1> QED  BY <1>6, <1>8, <1>10, <1>11 DEF IInv, Conference

LEMMA StartRecordingBroadcasterKeeps ==
  ASSUME IInv, NEW t \in Thread, StartRecordingBroadcaster(t) PROVE IInv'
<1>1. ASSUME NEW type \in RecorderType, Start(t, "rec_lock", 0, type) PROVE IInv'
  <2>1. type \in Fors /\ type # "end" /\ "rec_lock" \in Steps
    BY DEF RecorderType, Fors, Steps, Making
  <2> QED  BY <1>1, <2>1, StartKeeps, ConfAssumption DEF IInv
<1>2. CASE LockBroadcaster(t, "rec_lock", "rec")
  BY <1>2, LockBroadcasterKeeps
<1> QED  BY <1>1, <1>2, RecKeeps DEF StartRecordingBroadcaster

\* The recorder is removed from the encoders, and deleted.
LEMMA StopRecKeeps ==
  ASSUME IInv, NEW t \in Thread, At(t, "stop_rec"), broadcastLock' = NoThread,
         IF recorder = NoRecorder THEN UNCHANGED <<listeners, closed>>
         ELSE listeners' = Unlistened(recorder) /\ closed' = closed \cup {recorder},
         recorder' = NoRecorder,
         IF call[t].for = "unrec" THEN Return(t) ELSE Goto(t, "stop_lock"),
         UNCHANGED <<registry, made, recording, late, maxId, lock, deleted, given, returned, calls>>
  PROVE  IInv'
<1>0. /\ Types /\ call[t].at = "stop_rec" /\ "stop_lock" \in Steps
      /\ {"stop_lock", "idle"} \cap (Making \cup Reading) = {}
  BY DEF IInv, Control, At, Making, Reading, Steps, Stopping
<1>1. /\ Moves(t)
      /\ \/ /\ call'[t].at = "idle" /\ call'[t].id = 0
            /\ call'[t].for = "none" /\ call'[t].found = FALSE
         \/ /\ call'[t].at = "stop_lock" /\ call'[t].id = call[t].id
            /\ call'[t].for = call[t].for /\ call'[t].found = call[t].found
  BY <1>0, ReturnMoves, GotoMoves
<1>2. /\ listeners'.flv \subseteq listeners.flv /\ listeners'.app \subseteq listeners.app
      /\ listeners' \in [flv : SUBSET Recorder, app : SUBSET Recorder]
      /\ closed' \subseteq Recorder /\ closed' \subseteq closed \cup {recorder}
      /\ recorder \in closed' \ closed => /\ recorder \notin listeners'.flv
                                          /\ recorder.type = "mp4" => recorder \notin listeners'.app
  <2>1. listeners.app # {} => appEnabled
    BY DEF IInv, Conference, Listeners
  <2>2. CASE recorder = NoRecorder
    BY <1>0, <2>2 DEF Types
  <2>3. CASE recorder # NoRecorder
    BY <1>0, <2>1, <2>3 DEF Types, Unlistened
  <2> QED  BY <2>2, <2>3
<1>3. Types'
  BY <1>0, <1>1, <1>2 DEF Types, Moves, registry
<1>4. MakersBounded'
  BY <1>0, <1>1, MakersKeep DEF IInv
<1>5. Control'
  BY <1>0, <1>1, <1>3, <1>4, LeaveControl DEF registry
<1>6. call[t].at \in Apart /\ call'[t].at \in Apart
  BY <1>0, <1>1 DEF Apart, Stopping
<1>7. GivenGrows /\ Owners' /\ Found' /\ Recorded'
  BY <1>1, <1>6, ApartKeeps DEF registry
<1>8. /\ call[t].at \notin Casting \cup {"stop_app", "destroy", "player_stop"}
      /\ call'[t].at \notin Casting \cup {"stop_app", "stop_mixers", "cast_mixers", "cast_id", "end"}
  BY <1>0, <1>1 DEF Casting
<1>9. Broadcast' /\ Runs'
  BY <1>0, <1>1, <1>7, <1>8, BroadcastKeeps, RunsKeep DEF IInv, Conference, registry
<1>10. Listeners'
  <2>1. NoRecorder.n <= made
    BY <1>0, ConfAssumption DEF NoRecorder, Types
  <2> QED  BY <1>2, <2>1 DEF IInv, Conference, Listeners, BroadcastRecordersAreThere, registry
<1> QED  BY <1>5, <1>7, <1>9, <1>10 DEF IInv, Conference

LEMMA StopRecordingBroadcasterKeeps ==
  ASSUME IInv, NEW t \in Thread, StopRecordingBroadcaster(t) PROVE IInv'
<1>1. CASE Start(t, "stop_rec_lock", 0, "unrec")
  BY <1>1, StartKeeps, ConfAssumption DEF IInv, Steps, Stopping, Fors
<1>2. CASE LockBroadcaster(t, "stop_rec_lock", "stop_rec")
  BY <1>2, LockBroadcasterKeeps
<1> QED  BY <1>1, <1>2, StopRecKeeps DEF StopRecordingBroadcaster

\* Is there a broadcaster to stop?
LEMMA StopTestKeeps ==
  ASSUME IInv, NEW t \in Thread, At(t, "stop_test"),
         IF broadcastId = 0 THEN Done(t) ELSE Goto(t, "stop_rec_lock"),
         UNCHANGED <<registry, records, maxId, lock, broadcastLock, deleted, given, returned, calls>>
  PROVE  IInv'
<1>0. /\ Types /\ call[t].at = "stop_test" /\ "stop_rec_lock" \in Steps /\ "end" \in Steps
      /\ {"stop_test", "stop_rec_lock", "idle", "end"} \cap (Making \cup Reading) = {}
      /\ {"stop_test", "stop_rec_lock", "idle", "end"} \cap (Using \cup Owning \cup Broadcasting) = {}
  BY DEF IInv, Control, At, Making, Reading, Steps, Stopping, Using, Owning, Broadcasting
<1>1. /\ Moves(t)
      /\ \/ /\ call'[t].at = "idle" /\ call'[t].id = 0
            /\ call'[t].for = "none" /\ call'[t].found = FALSE
         \/ /\ \/ call'[t].at = "stop_rec_lock"
               \/ call'[t].at = "end" /\ call[t].for = "end" /\ broadcastId = 0
            /\ call'[t].id = call[t].id
            /\ call'[t].for = call[t].for /\ call'[t].found = call[t].found
  <2>1. CASE Goto(t, "stop_rec_lock")
    BY <1>0, <2>1, GotoMoves
  <2>2. CASE broadcastId = 0 /\ call[t].for = "end" /\ Goto(t, "end")
    BY <1>0, <2>2, GotoMoves
  <2>3. CASE Return(t)
    BY <1>0, <2>3, ReturnMoves
  <2> QED  BY <2>1, <2>2, <2>3 DEF Done
<1>2. Types'
  BY <1>0, <1>1, TypesKeep DEF Types
<1>3. MakersBounded'
  BY <1>0, <1>1, MakersKeep DEF IInv, records
<1>4. GivenGrows
  BY DEF GivenGrows
<1>5. CallIsSound(call[t])'
  <2>1. CallIsSound(call[t])
    BY DEF IInv, Control, CallsAreSound
  <2> QED  BY <1>0, <1>1, <2>1 DEF CallIsSound, Named, Creating, Inserting, Deleting, Using,
                                   Destroying, Casting, Stopping
<1>6. \A i \in participants' \cup players' \cup returned' : "caller" \in given'[i]
  BY DEF IInv, Control, CallsAreSound, registry
<1>7. Control'
  BY <1>0, <1>1, <1>2, <1>3, <1>4, <1>5, <1>6, InnerControl DEF IInv
<1>8. Stage(call[t]) = "none" /\ Stage(call'[t]) = "none"
  BY <1>0, <1>1, StageOf DEF Inserting, Destroying
<1>9. /\ call[t].at \notin Casting \cup {"stop_app", "destroy", "player_stop"}
      /\ call'[t].at \notin Casting \cup Using \cup {"stop_app", "stop_mixers", "cast_id"}
      /\ call'[t].at \notin Inserting \cup Deleting
  BY <1>0, <1>1 DEF Casting, Using, Inserting, Deleting
<1>10. Conference'
  BY <1>1, <1>4, <1>8, <1>9, CalmKeeps
<1> QED  BY <1>7, <1>10 DEF IInv

\* The encoders of the broadcast stop, ...
LEMMA StopEncodeKeeps ==
  ASSUME IInv, NEW t \in Thread, At(t, "stop_encode"), Goto(t, "stop_mixers"),
         running' = running \ {broadcastId},
         UNCHANGED <<inited, participants, players, broadcastId, appEnabled, mixers>>,
         UNCHANGED <<records, maxId, lock, broadcastLock, deleted, given, returned, calls>>
  PROVE  IInv'
<1>0. /\ Types /\ call[t].at = "stop_encode" /\ "stop_mixers" \in Steps
      /\ "stop_mixers" \notin Making \cup Reading
      /\ "stop_encode" \in Apart /\ "stop_mixers" \in Apart
  BY DEF IInv, Control, At, Making, Reading, Steps, Stopping, Apart
<1>1. /\ Moves(t) /\ call'[t].at = "stop_mixers" /\ call'[t].id = call[t].id
      /\ call'[t].for = call[t].for /\ call'[t].found = call[t].found
  BY <1>0, GotoMoves
<1>2. Types'
  BY <1>0, <1>1 DEF Types, Moves, records
<1>3. MakersBounded'
  BY <1>0, <1>1, MakersKeep DEF IInv, records
<1>4. Control'
  BY <1>0, <1>1, <1>2, <1>3, UnderControl
<1>5. /\ GivenGrows /\ Callers' = Callers /\ Casters' = Casters /\ Owners' /\ Found' /\ Recorded'
      /\ \A i \in running' \cap Callers' :
            \/ i \in participants' \cup players'
            \/ \E u \in Thread : call'[u].id = i /\ call'[u].at \in {"destroy", "player_stop"}
  BY <1>0, <1>1, ApartKeeps DEF records
<1>6. /\ call[t].at \notin Casting \cup {"stop_app"}
      /\ call'[t].at \notin Casting \cup {"stop_app", "cast_id", "end"}
  BY <1>0, <1>1 DEF Casting
<1>7. Broadcast'
  BY <1>0, <1>1, <1>5, <1>6, BroadcastKeeps DEF IInv, Conference
<1>8. Runs'
  <2>1. running' \cap Casters = {} /\ (AppMixerBroadcasterId \in running' => appEnabled')
    BY DEF IInv, Conference, Runs
  <2> QED  BY <1>5, <2>1 DEF Runs
<1>9. Listeners'
  BY ListenersKeep DEF IInv, Conference, records
<1> QED  BY <1>4, <1>5, <1>7, <1>8, <1>9 DEF IInv, Conference

\* ... its sources go, ...
LEMMA StopMixersKeeps ==
  ASSUME IInv, NEW t \in Thread, At(t, "stop_mixers"), Goto(t, "stop_app"),
         DeleteMixers({broadcastId}, {"video", "audio", "text"}),
         IF broadcastId = 0 THEN UNCHANGED listeners ELSE EndEncoder("flv"),
         broadcastId' = 0,
         UNCHANGED <<inited, participants, players, appEnabled, running>>,
         UNCHANGED <<recorder, made, closed, recording, late>>,
         UNCHANGED <<maxId, lock, broadcastLock, deleted, given, returned, calls>>
  PROVE  IInv'
<1>0. /\ Types /\ call[t].at = "stop_mixers" /\ "stop_app" \in Steps
      /\ "stop_app" \notin Making \cup Reading /\ "stop_mixers" \in Broadcasting
      /\ "stop_mixers" \in Apart /\ "stop_app" \in Apart
  BY DEF IInv, Control, At, Making, Reading, Steps, Stopping, Apart, Broadcasting
<1>1. /\ Moves(t) /\ call'[t].at = "stop_app" /\ call'[t].id = call[t].id
      /\ call'[t].for = call[t].for /\ call'[t].found = call[t].found
  BY <1>0, GotoMoves
<1>2. \A k \in Kind : mixers'[k] = IF k \in {"video", "audio", "text"} THEN mixers[k] \ {broadcastId} ELSE mixers[k]
  BY DEF DeleteMixers
<1>3. broadcastId \notin Callers /\ broadcastId # AppMixerBroadcasterId
  BY <1>0, ConfAssumption DEF IInv, Conference, Broadcast, Callers, Id, AppMixerBroadcasterId, Types
<1>4. /\ listeners' \in [flv : SUBSET Recorder, app : SUBSET Recorder]
      /\ listeners'.flv \subseteq listeners.flv /\ listeners'.app = listeners.app
  BY <1>0 DEF Types, EndEncoder
<1>5. Types'
  <2>1. mixers' \in [Kind -> SUBSET (Id \cup {AppMixerBroadcasterId})]
    BY <1>0 DEF Types, DeleteMixers
  <2>2. broadcastId' \in 0..MaxCalls
    BY ConfAssumption
  <2> QED  BY <1>0, <1>1, <1>4, <2>1, <2>2 DEF Types, Moves
<1>6. MakersBounded'
  BY <1>0, <1>1, MakersKeep DEF IInv
<1>7. Control'
  BY <1>0, <1>1, <1>5, <1>6, UnderControl
<1>8. /\ Callers' = Callers /\ Casters' = Casters /\ Owners' /\ Found' /\ Recorded'
      /\ \A i \in running' \cap Callers' :
            \/ i \in participants' \cup players'
            \/ \E u \in Thread : call'[u].id = i /\ call'[u].at \in {"destroy", "player_stop"}
  <2>1. \A id \in Callers, k \in Kind : id \in mixers'[k] <=> id \in mixers[k]
    BY <1>2, <1>3
  <2> QED  BY <1>0, <1>1, <2>1, ApartKeeps
<1>9. \A u \in Thread : u # t => call'[u].at \notin Broadcasting \cup {"end"}
  BY <1>0, <1>1, OnlyBroadcaster DEF IInv, Moves
<1>10. {"cast_id", "cast_mixers", "stop_mixers", "stop_app"} \cup Casting \subseteq Broadcasting
  BY DEF Casting, Broadcasting
<1>11. Broadcast'
  <2>1. {"video", "audio", "text", "private"} = Kind /\ "stop_app" \notin Casting
    BY DEF Kind, Casting
  <2>2. \A i \in Casters : /\ \A k \in {"video", "audio", "text"} : i \notin mixers'[k]
                           /\ i \notin mixers'["private"] /\ i # 0
    <3>1. \A i \in Casters : i # 0
      BY ConfAssumption DEF Casters, Id
    <3> QED  BY <1>2, <2>1, <3>1 DEF IInv, Conference, Broadcast
  <2>3. AppMixerBroadcasterId \in mixers'["video"] <=> appEnabled'
    BY <1>2, <1>3, <2>1 DEF IInv, Conference, Broadcast
  <2>4. \A u \in Thread : call'[u].at \notin Casting
    BY <1>1, <1>9, <1>10, <2>1
  <2> QED  BY <1>1, <1>8, <2>2, <2>3, <2>4 DEF Broadcast, At
<1>12. Runs'
  <2>1. running \cap Casters = {} /\ (AppMixerBroadcasterId \in running' => appEnabled')
    BY <1>0 DEF IInv, Conference, Runs
  <2> QED  BY <1>8, <2>1 DEF Runs
<1>13. Listeners'
  BY <1>4 DEF IInv, Conference, Listeners, BroadcastRecordersAreThere
<1> QED  BY <1>7, <1>8, <1>11, <1>12, <1>13 DEF IInv, Conference

\* ... and that of the AppMixer.
LEMMA StopAppKeeps ==
  ASSUME IInv, NEW t \in Thread, At(t, "stop_app"), Done(t), broadcastLock' = NoThread,
         IF appEnabled
         THEN /\ EndEncoder("app") /\ DeleteMixers({AppMixerBroadcasterId}, {"video"})
              /\ running' = running \ {AppMixerBroadcasterId}
         ELSE UNCHANGED <<listeners, mixers, running>>,
         appEnabled' = FALSE,
         UNCHANGED <<inited, participants, players, broadcastId>>,
         UNCHANGED <<recorder, made, closed, recording, late>>,
         UNCHANGED <<maxId, lock, deleted, given, returned, calls>>
  PROVE  IInv'
<1>0. /\ Types /\ call[t].at = "stop_app" /\ "end" \in Steps
      /\ {"idle", "end"} \cap (Making \cup Reading) = {} /\ "stop_app" \in Broadcasting
      /\ "stop_app" \in Apart /\ "idle" \in Apart /\ "end" \in Apart
  BY DEF IInv, Control, At, Making, Reading, Steps, Stopping, Apart, Broadcasting
<1>1. /\ Moves(t)
      /\ \/ /\ call'[t].at = "idle" /\ call'[t].id = 0
            /\ call'[t].for = "none" /\ call'[t].found = FALSE
         \/ /\ call'[t].at = "end" /\ call[t].for = "end" /\ call'[t].id = call[t].id
            /\ call'[t].for = call[t].for /\ call'[t].found = call[t].found
  BY <1>0, ReturnMoves, GotoMoves DEF Done
<1>2. AppMixerBroadcasterId \notin Callers /\ AppMixerBroadcasterId \notin Casters
  BY ConfAssumption DEF Callers, Casters, Id, AppMixerBroadcasterId
<1>3. /\ mixers' \in [Kind -> SUBSET (Id \cup {AppMixerBroadcasterId})]
      /\ \A k \in Kind : mixers'[k] \ {AppMixerBroadcasterId} = mixers[k] \ {AppMixerBroadcasterId}
      /\ AppMixerBroadcasterId \notin mixers'["video"]
      /\ running' = running \ {AppMixerBroadcasterId}
      /\ listeners' \in [flv : SUBSET Recorder, app : SUBSET Recorder]
      /\ listeners'.flv = listeners.flv /\ listeners'.app = {}
  <2>1. /\ AppMixerBroadcasterId \in mixers["video"] <=> appEnabled
        /\ AppMixerBroadcasterId \in running => appEnabled
        /\ listeners.app # {} => appEnabled
    BY DEF IInv, Conference, Broadcast, Runs, Listeners
  <2>2. "video" \in Kind
    BY DEF Kind
  <2>3. CASE appEnabled
    <3>1. \A k \in Kind : mixers'[k] = IF k = "video" THEN mixers[k] \ {AppMixerBroadcasterId} ELSE mixers[k]
      BY <2>3 DEF DeleteMixers
    <3>2. mixers' \in [Kind -> SUBSET (Id \cup {AppMixerBroadcasterId})]
      BY <1>0, <2>3 DEF Types, DeleteMixers
    <3>3. /\ running' = running \ {AppMixerBroadcasterId}
          /\ listeners' \in [flv : SUBSET Recorder, app : SUBSET Recorder]
          /\ listeners'.flv = listeners.flv /\ listeners'.app = {}
      BY <1>0, <2>3 DEF Types, EndEncoder
    <3> QED  BY <2>2, <3>1, <3>2, <3>3
  <2>4. CASE ~appEnabled
    BY <1>0, <2>1, <2>4 DEF Types
  <2> QED  BY <2>3, <2>4
<1>4. Types'
  BY <1>0, <1>1, <1>3 DEF Types, Moves
<1>5. MakersBounded'
  BY <1>0, <1>1, MakersKeep DEF IInv
<1>6. Control'
  BY <1>0, <1>1, <1>4, <1>5, LeaveControl
<1>7. /\ Callers' = Callers /\ Casters' = Casters /\ Owners' /\ Found' /\ Recorded'
      /\ \A i \in running' \cap Callers' :
            \/ i \in participants' \cup players'
            \/ \E u \in Thread : call'[u].id = i /\ call'[u].at \in {"destroy", "player_stop"}
  <2>1. \A id \in Callers, k \in Kind : id \in mixers'[k] <=> id \in mixers[k]
    BY <1>2, <1>3
  <2> QED  BY <1>0, <1>1, <1>3, <2>1, ApartKeeps
<1>8. broadcastId = 0
  BY <1>0 DEF IInv, Conference, Broadcast
<1>9. \A u \in Thread : call'[u].at \notin Broadcasting
  <2>1. "idle" \notin Broadcasting /\ "end" \notin Broadcasting
    BY DEF Broadcasting
  <2> QED  BY <1>0, <1>1, <2>1, OnlyBroadcaster DEF IInv, Moves
<1>10. {"cast_id", "cast_mixers", "stop_mixers", "stop_app"} \cup Casting \subseteq Broadcasting
  BY DEF Casting, Broadcasting
<1>11. \A i \in Casters : i # 0
  BY ConfAssumption DEF Casters, Id
<1>12. Broadcast'
  <2>1. {"video", "audio", "text", "private"} = Kind
    BY DEF Kind
  <2>2. \A i \in Casters : /\ \A k \in {"video", "audio", "text"} : i \notin mixers'[k]
                           /\ i \notin mixers'["private"]
    BY <1>2, <1>3, <1>8, <1>11, <2>1 DEF IInv, Conference, Broadcast
  <2> QED  BY <1>3, <1>7, <1>8, <1>9, <1>10, <1>11, <2>2 DEF Broadcast, At
<1>13. Runs'
  <2>1. running' \cap Casters = {} /\ AppMixerBroadcasterId \notin running'
    BY <1>3, <1>8, <1>11 DEF IInv, Conference, Runs
  <2> QED  BY <1>7, <2>1 DEF Runs
<1>14. Listeners'
  BY <1>3 DEF IInv, Conference, Listeners, BroadcastRecordersAreThere
<1> QED  BY <1>6, <1>7, <1>12, <1>13, <1>14 DEF IInv, Conference

LEMMA StopBroadcasterKeeps ==
  ASSUME IInv, NEW t \in Thread, StopBroadcaster(t) PROVE IInv'
<1>1. CASE Start(t, "stop_test", 0, "stop")
  BY <1>1, StartKeeps, ConfAssumption DEF IInv, Steps, Stopping, Fors
<1>2. CASE LockBroadcaster(t, "stop_lock", "stop_encode")
  BY <1>2, LockBroadcasterKeeps
<1> QED  BY <1>1, <1>2, StopTestKeeps, StopEncodeKeeps, StopMixersKeeps, StopAppKeeps DEF StopBroadcaster

-----------------------------------------------------------------------------
(* The end of the conference                                               *)

\* Nothing else goes on: all that is left goes.
LEMMA EndStepKeeps ==
  ASSUME IInv, NEW t \in Thread, At(t, "end"), Return(t), inited' = FALSE,
         participants' = {}, players' = {}, returned' = {},
         deleted' = deleted \cup participants,
         running' = running \ (participants \cup players),
         mixers' = [k \in Kind |-> {}],
         UNCHANGED <<broadcastId, appEnabled, records, maxId, lock, broadcastLock, given, calls>>
  PROVE  IInv'
<1>0. Types /\ call[t].at = "end" /\ call[t].for = "end"
  BY DEF IInv, Control, CallsAreSound, CallIsSound, At
<1>1. /\ Moves(t) /\ call'[t].at = "idle" /\ call'[t].id = 0
      /\ call'[t].for = "none" /\ call'[t].found = FALSE
  BY <1>0, ReturnMoves
<1>2. /\ \A u \in Thread : call[u].at \in {"idle", "end"}
      /\ \A u \in Thread : call'[u].at = "idle"
  BY <1>0, <1>1 DEF IInv, Control, CallsAreSound, Moves
<1>3. Types'
  BY <1>0, <1>1 DEF Types, Moves, records
<1>4. GivenGrows
  BY DEF GivenGrows
<1>5. CallIsSound(call[t])'
  BY <1>1 DEF CallIsSound, Named, Creating, Inserting, Deleting, Using, Destroying, Casting
<1>6. MakersBounded'
  <2>1. "idle" \notin Making \cup Reading
    BY DEF Making, Reading
  <2> QED  BY <1>1, <2>1, MakersKeep DEF IInv, records
<1>7. {"idle", "end"} \cap (Using \cup Owning \cup Broadcasting) = {}
  BY DEF Using, Owning, Broadcasting
<1>8. Control'
  BY <1>0, <1>1, <1>3, <1>4, <1>5, <1>6, <1>7, InnerControl DEF IInv
<1>9. broadcastId = 0 /\ ~appEnabled
  BY <1>0, <1>2 DEF IInv, Conference, Broadcast, At
<1>10. Callers' = Callers /\ Casters' = Casters /\ 0 \notin Casters
  BY ConfAssumption DEF Callers, Casters, Id
<1>11. \A k \in {"video", "audio", "text", "private"} : mixers'[k] = {}
  BY DEF Kind
<1>12. Owners'
  <2>1. \A u \in Thread : Stage(call'[u]) = "none"
    BY <1>2, StageOf DEF Inserting, Destroying
  <2> SUFFICES ASSUME NEW id \in Callers PROVE OneOwner(id)'
    BY <1>10 DEF Owners
  <2>2. /\ ~Staged(id, OwningStages)' /\ ~Staged(id, {"audio", "part", "player"})'
        /\ ~Staged(id, {"part"})' /\ ~Staged(id, {"player"})' /\ ~Staged(id, {"erase"})'
    BY <2>1 DEF Staged, OwningStages
  <2>3. \A u \in Thread : Stage(call'[u]) \notin OwningStages /\ Stage(call'[u]) # "erase"
    BY <2>1 DEF OwningStages
  <2> HIDE DEF Staged
  <2> QED  BY <1>11, <2>2, <2>3 DEF OneOwner
<1>13. Broadcast'
  BY <1>2, <1>9, <1>10, <1>11 DEF Broadcast, Casting, At
<1>14. Runs'
  <2>1. running' \cap Callers = {}
    BY <1>2 DEF IInv, Conference, Runs
  <2>2. running' \cap Casters = {} /\ AppMixerBroadcasterId \notin running'
    BY <1>9, <1>10 DEF IInv, Conference, Runs
  <2> QED  BY <1>10, <2>1, <2>2 DEF Runs
<1>15. Found' /\ Recorded'
  BY <1>2 DEF Found, Recorded, Inserting, Using
<1>16. Listeners'
  BY ListenersKeep DEF IInv, Conference, records
<1> QED  BY <1>8, <1>12, <1>13, <1>14, <1>15, <1>16 DEF IInv, Conference

LEMMA EndKeeps ==
  ASSUME IInv, NEW t \in Thread, End(t) PROVE IInv'
<1>1. CASE (\A u \in Thread : At(u, "idle")) /\ Start(t, "stop_test", 0, "end")
  BY <1>1, StartKeeps, ConfAssumption DEF IInv, Steps, Stopping, Fors
<1> QED  BY <1>1, EndStepKeeps DEF End

-----------------------------------------------------------------------------
(* The invariant holds                                                     *)

LEMMA InitHolds ==
  ASSUME Init PROVE IInv
<1>1. /\ inited = TRUE /\ maxId = 1 /\ lock = RW!Unlocked /\ broadcastLock = NoThread
      /\ participants = {} /\ players = {} /\ broadcastId = 0 /\ appEnabled = FALSE
      /\ mixers = [k \in Kind |-> {}] /\ running = {}
      /\ recorder = NoRecorder /\ made = 0 /\ closed = {}
      /\ listeners = [flv |-> {}, app |-> {}]
      /\ recording = {} /\ late = {} /\ deleted = {}
      /\ given = [id \in Id |-> {}] /\ returned = {}
      /\ call = [t \in Thread |-> Idle] /\ calls = 0
  BY DEF Init
<1>2. Idle \in CallType /\ Idle.at = "idle" /\ Idle.id = 0 /\ Idle.for = "none" /\ Idle.found = FALSE
  BY ConfAssumption DEF CallType, Idle, Steps, Fors
<1>3. call \in [Thread -> CallType] /\ \A t \in Thread : call[t] = Idle
  BY <1>1, <1>2
<1>4. lock \in RW!Lock /\ lock.users = {} /\ lock.claim = NoThread
  BY <1>1 DEF RW!Lock, RW!Unlocked
<1>5. Types
  <2>1. /\ maxId \in 1..(MaxCalls + 1) /\ broadcastId \in 0..MaxCalls
        /\ made \in 0..MaxCalls /\ calls \in 0..MaxCalls
    BY <1>1, ConfAssumption
  <2> QED  BY <1>1, <1>3, <1>4, <2>1 DEF Types
<1>6. CallsAreSound
  BY <1>1, <1>2, <1>3 DEF CallsAreSound, CallIsSound, Named, Creating, Inserting, Deleting, Using,
                          Destroying, Casting
<1>7. MakersBounded
  <2>1. Makers = {} /\ \A t \in Thread : call[t].at \notin Reading
    BY <1>2, <1>3 DEF Makers, Making, Reading
  <2>2. Cardinality(Makers) = 0
    BY <2>1, FS_EmptySet
  <2> QED  BY <1>1, <2>1, <2>2 DEF MakersBounded
<1>8. LocksHeld
  BY <1>1, <1>2, <1>3, <1>4, ConfAssumption DEF LocksHeld, Using, Owning, Broadcasting
<1>9. \A k \in {"video", "audio", "text", "private"} : mixers[k] = {}
  BY <1>1 DEF Kind
<1>10. Owners
  <2>1. \A u \in Thread : Stage(call[u]) = "none"
    BY <1>2, <1>3, StageOf DEF Inserting, Destroying
  <2> SUFFICES ASSUME NEW id \in Callers PROVE OneOwner(id)
    BY DEF Owners
  <2>2. /\ ~Staged(id, OwningStages) /\ ~Staged(id, {"audio", "part", "player"})
        /\ ~Staged(id, {"part"}) /\ ~Staged(id, {"player"}) /\ ~Staged(id, {"erase"})
    BY <2>1 DEF Staged, OwningStages
  <2>3. \A u \in Thread : Stage(call[u]) \notin OwningStages /\ Stage(call[u]) # "erase"
    BY <2>1 DEF OwningStages
  <2> HIDE DEF Staged
  <2> QED  BY <1>1, <1>9, <2>2, <2>3 DEF OneOwner
<1>11. Broadcast
  <2>1. 0 \notin Casters
    BY ConfAssumption DEF Casters, Id
  <2> QED  BY <1>1, <1>2, <1>3, <1>9, <2>1 DEF Broadcast, Casting, At
<1>12. Runs /\ Found /\ Recorded
  BY <1>1, <1>2, <1>3 DEF Runs, Found, Recorded, Using, Deleting
<1>13. Listeners
  BY <1>1 DEF Listeners, BroadcastRecordersAreThere, NoRecorder
<1> QED  BY <1>5, <1>6, <1>7, <1>8, <1>10, <1>11, <1>12, <1>13 DEF IInv, Control, Conference

LEMMA NextKeeps == ASSUME IInv, [Next]_vars PROVE IInv'
<1>1. ASSUME NEW t \in Thread,
             \/ CreateParticipant(t) \/ ParticipantCall(t) \/ DeleteParticipant(t)
             \/ CreatePlayer(t) \/ DeletePlayer(t)
             \/ StartBroadcaster(t) \/ StartRecordingBroadcaster(t)
             \/ StopRecordingBroadcaster(t) \/ StopBroadcaster(t) \/ End(t)
      PROVE  IInv'
  BY <1>1, CreateParticipantKeeps, ParticipantCallKeeps, DeleteParticipantKeeps, CreatePlayerKeeps,
     DeletePlayerKeeps, StartBroadcasterKeeps, StartRecordingBroadcasterKeeps,
     StopRecordingBroadcasterKeeps, StopBroadcasterKeeps, EndKeeps
<1>2. ASSUME NEW id \in Id, Play(id) PROVE IInv'
  BY <1>2, PlayKeeps
<1>3. CASE UNCHANGED vars
  <2>1. /\ UNCHANGED <<inited, participants, players, broadcastId, appEnabled, mixers, running>>
        /\ UNCHANGED <<recorder, made, listeners, closed, recording, late>>
        /\ UNCHANGED <<maxId, lock, broadcastLock, deleted, given, returned, call, calls>>
    BY <1>3 DEF vars, registry, records
  <2>2. Types' /\ CallsAreSound' /\ MakersBounded' /\ LocksHeld'
    BY <2>1 DEF IInv, Control, Types, CallsAreSound, CallIsSound, MakersBounded, Makers, LocksHeld
  <2>3. Owners' /\ Broadcast'
    BY <2>1 DEF IInv, Conference, Owners, OneOwner, Staged, Callers, Casters, Broadcast, At
  <2>4. Runs' /\ Found' /\ Recorded' /\ Listeners'
    BY <2>1 DEF IInv, Conference, Callers, Casters, Runs, Found, Recorded, Listeners,
                BroadcastRecordersAreThere
  <2> QED  BY <2>2, <2>3, <2>4 DEF IInv, Control, Conference
<1> QED  BY <1>1, <1>2, <1>3 DEF Next

LEMMA InvariantHolds == Spec => []IInv
BY InitHolds, NextKeeps, PTL DEF Spec

-----------------------------------------------------------------------------
(* What it says                                                            *)

\* An id that has not been given both to the broadcaster and to somebody else
LEMMA Unclashed ==
  ASSUME IInv, NEW id \in Id, ~Clashes(id) PROVE id \in Callers \/ id \in Casters
<1>1. given[id] \subseteq {"caller", "broadcaster"}
  BY DEF IInv, Control, Types
<1> QED  BY <1>1 DEF Clashes, Callers, Casters

\* multiconf.cpp CreateParticipant, CreatePlayer, DeleteParticipant, DeletePlayer,
\* StartBroadcaster, StopBroadcaster: however many threads call in parallel, when no call
\* is in progress the sources in the mixers are those of the maps of the conference.
THEOREM SourcesOwned == Spec => []SourcesAreOwned
<1>1. ASSUME IInv PROVE SourcesAreOwned
  <2>1. TypeOK
    BY <1>1 DEF IInv, Control, Types, TypeOK
  <2>2. ASSUME \A t \in Thread : At(t, "idle"), NEW id \in Id, ~Clashes(id)
        PROVE  /\ id \notin participants \cap players
               /\ id \in mixers["video"] <=> id \in participants \cup players \cup {broadcastId}
               /\ id \in mixers["text"] <=> id \in participants \cup {broadcastId}
               /\ id \in mixers["private"] => id \in players
    <3>1. CASE id \in Callers
      <4>1. OneOwner(id)
        BY <1>1, <3>1 DEF IInv, Conference, Owners
      <4>2. \A u \in Thread : Stage(call[u]) = "none"
        BY <2>2, StageOf DEF At, Inserting, Destroying
      <4>3. ~Staged(id, OwningStages) /\ ~Staged(id, {"part"}) /\ ~Staged(id, {"player"})
        BY <4>2 DEF Staged, OwningStages
      <4>4. id # broadcastId
        BY <1>1, <3>1, ConfAssumption DEF IInv, Conference, Broadcast, Callers, Id
      <4> QED  BY <4>1, <4>3, <4>4 DEF OneOwner
    <3>2. CASE id \in Casters
      <4>1. id \notin participants \cup players
        BY <1>1, <3>2 DEF IInv, Control, CallsAreSound, Casters
      <4>2. \A t \in Thread : ~At(t, "cast_mixers")
        BY <2>2 DEF At
      <4> QED  BY <1>1, <3>2, <4>1, <4>2 DEF IInv, Conference, Broadcast
    <3> QED  BY <1>1, <2>2, <3>1, <3>2, Unclashed
  <2>3. AppMixerBroadcasterId \in mixers["video"] <=> appEnabled
    BY <1>1 DEF IInv, Conference, Broadcast
  <2> QED  BY <2>1, <2>2, <2>3 DEF SourcesAreOwned, EverySourceHasAnOwner
<1> QED  BY <1>1, InvariantHolds, PTL

\* multiconf.cpp DestroyParticipant, DeletePlayer, StopBroadcaster, End: in whatever order
\* the calls come, media threads are stopped before their sources are taken from them.
THEOREM MediaSourced == Spec => []MediaHasSources
<1>1. ASSUME IInv PROVE MediaHasSources
  <2> SUFFICES ASSUME NEW id \in running, ~Clashes(id)
               PROVE  id \in mixers["video"] /\ (id \in Id => id \in mixers["audio"])
    BY DEF MediaHasSources
  <2>1. id \in Id \/ id = AppMixerBroadcasterId
    BY <1>1 DEF IInv, Control, Types
  <2>2. CASE id \in Callers
    <3>1. OneOwner(id)
      BY <1>1, <2>2 DEF IInv, Conference, Owners
    <3>2. CASE id \in participants \cup players
      BY <3>1, <3>2 DEF OneOwner
    <3>3. CASE \E t \in Thread : call[t].id = id /\ call[t].at \in {"destroy", "player_stop"}
      <4>1. Staged(id, OwningStages) /\ Staged(id, {"audio", "part", "player"})
        BY <3>3, StageOf DEF Staged, Destroying, OwningStages
      <4> QED  BY <3>1, <4>1 DEF OneOwner
    <3> QED  BY <1>1, <2>2, <3>2, <3>3 DEF IInv, Conference, Runs
  <2>3. CASE id \in Casters
    <3>1. id = broadcastId /\ \A t \in Thread : ~At(t, "cast_mixers")
      BY <1>1, <2>3 DEF IInv, Conference, Runs, At
    <3> QED  BY <1>1, <2>3, <3>1 DEF IInv, Conference, Broadcast
  <2>4. CASE id = AppMixerBroadcasterId
    <3>1. id \notin Id
      BY <2>4, ConfAssumption DEF Id, AppMixerBroadcasterId
    <3> QED  BY <1>1, <2>4, <3>1 DEF IInv, Conference, Broadcast, Runs
  <2> QED  BY <1>1, <2>1, <2>2, <2>3, <2>4, Unclashed
<1> QED  BY <1>1, InvariantHolds, PTL

\* multiconf.cpp, the calls between participantsLock.IncUse() and DecUse(): none of any
\* number of threads deletes the participant that one of them has found.
THEOREM ParticipantsThere == Spec => []UsedParticipantsAreThere
<1>1. ASSUME IInv PROVE UsedParticipantsAreThere
  <2> SUFFICES ASSUME NEW t \in Thread, call[t].found, ~Clashes(call[t].id)
               PROVE  call[t].id \notin deleted /\ call[t].id \in mixers["video"]
    BY DEF UsedParticipantsAreThere
  <2>1. call[t].at \in Using /\ call[t].at \in Named
    BY <1>1 DEF IInv, Control, CallsAreSound, CallIsSound, Named
  <2>2. call[t].id \in participants
    BY <1>1, <2>1 DEF IInv, Conference, Found
  <2>3. call[t].id \in Callers
    BY <1>1, <2>1, CallerId, Unclashed DEF IInv
  <2>4. call[t].id \notin deleted
    BY <1>1, <2>2, <2>3 DEF IInv, Conference, Found
  <2>5. OneOwner(call[t].id)
    BY <1>1, <2>3 DEF IInv, Conference, Owners
  <2> QED  BY <2>2, <2>4, <2>5 DEF OneOwner
<1> QED  BY <1>1, InvariantHolds, PTL

\* multiconf.cpp StartRecordingBroadcaster, StopRecordingBroadcaster, StopBroadcaster,
\* DeleteParticipant: however the calls interleave, no encoder calls a recorder deleted.
THEOREM RecordersThere == Spec => []RecordersAreThere
<1>1. ASSUME IInv PROVE RecordersAreThere
  <2>1. BroadcastRecordersAreThere
    BY <1>1 DEF IInv, Conference, Listeners
  <2>2. ASSUME inited, NEW id \in recording \cap deleted, id \notin late, ~Clashes(id) PROVE FALSE
    <3>1. id \in participants /\ id \in Id
      BY <1>1, <2>2 DEF IInv, Conference, Control, Types, Recorded
    <3>2. id \notin Casters
      BY <1>1, <3>1 DEF IInv, Control, CallsAreSound, Casters
    <3>3. id \in Callers
      BY <1>1, <2>2, <3>1, <3>2, Unclashed
    <3> QED  BY <1>1, <2>2, <3>1, <3>3 DEF IInv, Conference, Found
  <2> QED  BY <2>1, <2>2 DEF RecordersAreThere, ParticipantRecordersAreThere
<1> QED  BY <1>1, InvariantHolds, PTL

=============================================================================
