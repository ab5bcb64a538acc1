------------------------ MODULE ConferenceRefsProofs ------------------------
(***************************************************************************)
(* What the objects of the two servers point to while others are deleted.  *)
(*                                                                         *)
(* For any number of threads and conferences of the MCU, a reference to a  *)
(* conference stays valid until it is released, one thread only deletes a  *)
(* conference, and a tag finds the conference that has it.                 *)
(*                                                                         *)
(* For any objects of a media session of the JSR 309 server, a listener    *)
(* and the source it has joined point to each other and to nothing that    *)
(* has been deleted, and the threads of the coders follow the joins.       *)
(***************************************************************************)
EXTENDS ConferenceRefs, MediaSession, FiniteSetTheorems, TLAPS

-----------------------------------------------------------------------------
(* Conferences: the inductive invariant                                    *)

\* A thread at one of these steps is a user of "use", or has claimed it.
MapUsing == {"tag_find", "ref_find", "ref_done", "release_find", "release_signal", "listing"}
MapClaiming == {"create_own", "delete_own", "delete_erase"}

\* A thread at one of these steps has found the entry unused, and keeps it.
EntryOwning == {"delete_again", "delete_erase", "delete_free"}

\* The lock of the map is held by the threads whose next step says so.
MapHeld == /\ \A t \in Thread : t \in use.users <=> call[t].at \in MapUsing
           /\ \A t \in Thread : use.claim = t <=> call[t].at \in MapClaiming

\* The users of an entry are the threads that refer to its conference; none is
\* left once the deleting thread has waited for them.
EntriesHeld ==
    /\ \A t \in Thread, c \in Conf :
          t \in entryUse[c].users <=> call[t].at \in Referring /\ call[t].id = c
    /\ \A t \in Thread : call[t].at \in EntryOwning => entryUse[call[t].id].users = {}

\* A conference is enabled, or being deleted by one thread, or deleted.
OneLife ==
    /\ enabled \subseteq conferences
    /\ conferences \cap freed = {}
    /\ \A c \in conferences \cup freed : c < maxId
    /\ \A t \in Thread : call[t].at \in Deleting =>
          /\ call[t].id \in 1..(maxId - 1)
          /\ call[t].id \notin enabled
          /\ call[t].id \notin freed
          /\ call[t].at = "delete_free" <=> call[t].id \notin conferences
          /\ \A u \in Thread : call[u].at \in Deleting /\ call[u].id = call[t].id => u = t

\* A thread that refers to a conference, or is about to return from releasing
\* it, finds the conference in the map.
ReferredIsInMap ==
    \A t \in Thread : call[t].at \in Referring \cup {"release_signal"} => call[t].id \in conferences

\* The calls that create a conference stay below MaxConf.
Creators == {t \in Thread : call[t].at \in Creating}
CreatorsBounded == maxId + Cardinality(Creators) <= MaxConf + 1

IInv == /\ TypeOK /\ MapHeld /\ EntriesHeld /\ OneLife
        /\ ReferredIsInMap /\ CreatorsBounded

-----------------------------------------------------------------------------
(* What a step leaves alone                                                *)

\* Thread t makes a step: the other threads stay where they are.
Moves(t) == /\ call' \in [Thread -> [at : Steps, id : 0..MaxConf, tag : Tag \cup {NoTag}]]
            /\ \A u \in Thread : u # t => call'[u] = call[u]

\* A thread that deletes a conference names one (DeleteConference found it).
LEMMA DeletingConf == IInv => \A t \in Thread : call[t].at \in Deleting => call[t].id \in Conf
<1> SUFFICES ASSUME IInv, NEW t \in Thread, call[t].at \in Deleting PROVE call[t].id \in Conf
  OBVIOUS
<1>1. call[t].id \in 1..(maxId - 1) /\ maxId \in 1..(MaxConf + 1)
  BY DEF IInv, OneLife, TypeOK
<1> QED  BY <1>1, ConferenceAssumption DEF Conf

\* Finitely many threads create conferences at once.
LEMMA CreatorsFinite == IsFiniteSet(Creators)
BY ConferenceAssumption, FS_Subset DEF Creators

\* A step of a thread that neither starts nor ends the creation of a conference
\* keeps the creators.
LEMMA CreatorsKeep ==
  ASSUME IInv, NEW t \in Thread, Moves(t), maxId' = maxId,
         call'[t].at \in Creating <=> call[t].at \in Creating
  PROVE  CreatorsBounded'
<1>1. Creators' = Creators
  BY DEF Creators, Moves
<1> QED  BY <1>1 DEF IInv, CreatorsBounded

\* So does one that neither takes, gives back nor waits for an entry.
LEMMA EntriesKeep ==
  ASSUME IInv, NEW t \in Thread, Moves(t), entryUse' = entryUse,
         call'[t].at \in Referring <=> call[t].at \in Referring,
         call'[t].at \in Referring => call'[t].id = call[t].id,
         call'[t].at \in EntryOwning => call[t].at \in EntryOwning /\ call'[t].id = call[t].id
  PROVE  EntriesHeld'
<1>1. ASSUME NEW u \in Thread, NEW c \in Conf
      PROVE  u \in entryUse'[c].users <=> call'[u].at \in Referring /\ call'[u].id = c
  <2>1. u \in entryUse[c].users <=> call[u].at \in Referring /\ call[u].id = c
    BY DEF IInv, EntriesHeld
  <2> QED  BY <2>1 DEF Moves
<1>2. ASSUME NEW u \in Thread, call'[u].at \in EntryOwning
      PROVE  entryUse'[call'[u].id].users = {}
  <2>1. call[u].at \in EntryOwning /\ call'[u].id = call[u].id
    BY <1>2 DEF Moves
  <2> QED  BY <2>1 DEF IInv, EntriesHeld
<1> QED  BY <1>1, <1>2 DEF EntriesHeld

-----------------------------------------------------------------------------
(* A call starts; a thread takes or asks for the lock of the map           *)

\* A thread enters one of the calls: it asks for the lock of the map next.
LEMMA StartKeeps ==
  ASSUME IInv, NEW t \in Thread,
         NEW step \in {"create", "tag", "ref", "list", "delete"},
         NEW id \in 0..MaxConf, NEW tag \in Tag \cup {NoTag},
         step = "create" => BelowMaxConf, step \in {"create", "tag"} => tag \in Tag,
         Start(t, step, id, tag)
  PROVE  IInv'
<1>1. /\ TypeOK' /\ Moves(t)
      /\ call[t].at = "idle" /\ call'[t].at = step
      /\ UNCHANGED <<registry, use, entryUse>>
  BY ConferenceAssumption
  DEF IInv, Start, At, TypeOK, Steps, Referring, Deleting, Creating, registry, Moves
<1>2. MapHeld'
  BY <1>1 DEF IInv, MapHeld, MapUsing, MapClaiming, Moves
<1>3. EntriesHeld'
  BY <1>1, EntriesKeep DEF Referring, EntryOwning
<1>4. OneLife'
  BY <1>1 DEF IInv, OneLife, Deleting, registry, Moves
<1>5. ReferredIsInMap'
  BY <1>1 DEF IInv, ReferredIsInMap, Referring, registry, Moves
<1>6. CreatorsBounded'
  <2>1. CASE step = "create"
    <3>1. t \notin Creators /\ Creators' = Creators \cup {t}
      BY <1>1, <2>1 DEF Creators, Creating, Moves
    <3>2. Cardinality(Creators') = Cardinality(Creators) + 1
      BY <3>1, CreatorsFinite, FS_AddElement
    <3>3. maxId + Cardinality(Creators) <= MaxConf
      BY <2>1 DEF BelowMaxConf, Creators
    <3> QED
      BY <1>1, <3>2, <3>3, CreatorsFinite, FS_CardinalityType, ConferenceAssumption
      DEF IInv, TypeOK, CreatorsBounded, registry
  <2>2. CASE step # "create"
    BY <1>1, <2>2, CreatorsKeep DEF Creating, registry
  <2> QED  BY <2>1, <2>2
<1> QED  BY <1>1, <1>2, <1>3, <1>4, <1>5, <1>6 DEF IInv

\* use.IncUse()
LEMMA IncUseKeeps ==
  ASSUME IInv, NEW t \in Thread, NEW from, NEW to, IncUse(t, from, to),
         <<from, to>> \in {<<"tag", "tag_find">>, <<"ref", "ref_find">>,
                           <<"release", "release_find">>, <<"list", "listing">>}
  PROVE  IInv'
<1>1. /\ call[t].at = from /\ call' = [call EXCEPT ![t].at = to]
      /\ UNCHANGED <<registry, entryUse, calls>>
  BY DEF IncUse, At, Goto
<1>2. use' \in RW!Lock /\ use'.users = use.users \cup {t} /\ use'.claim = use.claim
  BY DEF IInv, TypeOK, IncUse, RW!IncUse, RW!Lock
<1>3. /\ Moves(t) /\ TypeOK'
      /\ call'[t].at = to /\ call'[t].id = call[t].id /\ call'[t].tag = call[t].tag
  BY <1>1, <1>2 DEF IInv, TypeOK, Moves, Steps, Referring, Creating, registry
<1>4. MapHeld'
  BY <1>1, <1>2, <1>3 DEF IInv, MapHeld, MapUsing, MapClaiming, Moves
<1>5. EntriesHeld'
  BY <1>1, <1>3, EntriesKeep DEF Referring, EntryOwning
<1>6. OneLife'
  BY <1>1, <1>3 DEF IInv, OneLife, Deleting, registry, Moves
<1>7. ReferredIsInMap'
  BY <1>1, <1>3 DEF IInv, ReferredIsInMap, Referring, registry, Moves
<1>8. CreatorsBounded'
  BY <1>1, <1>3, CreatorsKeep DEF Creating, registry
<1> QED  BY <1>3, <1>4, <1>5, <1>6, <1>7, <1>8 DEF IInv

\* The claim of use.WaitUnusedAndLock()
LEMMA ClaimKeeps ==
  ASSUME IInv, NEW t \in Thread, NEW from, NEW to, Claim(t, from, to),
         <<from, to>> \in {<<"create", "create_own">>, <<"delete", "delete_own">>,
                           <<"delete_again", "delete_erase">>}
  PROVE  IInv'
<1>1. /\ call[t].at = from /\ call' = [call EXCEPT ![t].at = to]
      /\ UNCHANGED <<registry, entryUse, calls>>
  BY DEF Claim, At, Goto
<1>2. /\ use.claim = NoThread
      /\ use' \in RW!Lock /\ use'.users = use.users /\ use'.claim = t
  BY DEF IInv, TypeOK, Claim, RW!CanClaim, RW!Claimed, RW!Lock
<1>3. /\ Moves(t) /\ TypeOK'
      /\ call'[t].at = to /\ call'[t].id = call[t].id /\ call'[t].tag = call[t].tag
  BY <1>1, <1>2 DEF IInv, TypeOK, Moves, Steps, Deleting, Creating, registry
<1>4. MapHeld'
  BY <1>1, <1>2, <1>3, ConferenceAssumption DEF IInv, MapHeld, MapUsing, MapClaiming, Moves
<1>5. EntriesHeld'
  BY <1>1, <1>3, EntriesKeep DEF Referring, EntryOwning
<1>6. OneLife'
  BY <1>1, <1>3 DEF IInv, OneLife, Deleting, registry, Moves
<1>7. ReferredIsInMap'
  BY <1>1, <1>3 DEF IInv, ReferredIsInMap, Referring, registry, Moves
<1>8. CreatorsBounded'
  BY <1>1, <1>3, CreatorsKeep DEF Creating, registry
<1> QED  BY <1>3, <1>4, <1>5, <1>6, <1>7, <1>8 DEF IInv

\* use.DecUse(), the last step under the lock of the map
LEMMA DecUseKeeps ==
  ASSUME IInv, NEW t \in Thread,
         NEW r \in [at : Steps, id : 0..MaxConf, tag : Tag \cup {NoTag}],
         \/ /\ call[t].at \in {"tag_find", "ref_find", "release_signal", "listing"}
            /\ r.at \in {"idle", "ref"}
         \/ call[t].at = "ref_done" /\ r.at = "using" /\ r.id = call[t].id,
         call' = [call EXCEPT ![t] = r], use' = RW!DecUse(use, t),
         UNCHANGED <<registry, entryUse, calls>>
  PROVE  IInv'
<1>1. /\ use' \in RW!Lock /\ use'.users = use.users \ {t} /\ use'.claim = use.claim
  BY DEF IInv, TypeOK, RW!DecUse, RW!Lock
<1>2. Moves(t) /\ TypeOK' /\ call'[t] = r
  BY <1>1 DEF IInv, TypeOK, Moves, Creating, registry
<1>3. MapHeld'
  BY <1>1, <1>2 DEF IInv, MapHeld, MapUsing, MapClaiming, Moves
<1>4. EntriesHeld'
  BY <1>2, EntriesKeep DEF Referring, EntryOwning
<1>5. OneLife'
  BY <1>2 DEF IInv, OneLife, Deleting, registry, Moves
<1>6. ReferredIsInMap'
  BY <1>2 DEF IInv, ReferredIsInMap, Referring, registry, Moves
<1>7. CreatorsBounded'
  BY <1>2, CreatorsKeep DEF Creating, registry
<1> QED  BY <1>2, <1>3, <1>4, <1>5, <1>6, <1>7 DEF IInv

-----------------------------------------------------------------------------
(* The calls                                                               *)

\* mcu.cpp CreateConference: the new conference is below the next id, and its
\* entry has no user.
LEMMA CreateConferenceKeeps ==
  ASSUME IInv, NEW t \in Thread, CreateConference(t) PROVE IInv'
<1>1. CASE \E g \in Tag : IsFresh(g) /\ BelowMaxConf /\ Start(t, "create", 0, g)
  BY <1>1, StartKeeps, ConferenceAssumption
<1>2. CASE Claim(t, "create", "create_own")
  BY <1>2, ClaimKeeps
<1>3. CASE /\ At(t, "create_own") /\ OwnAndUnlock(t)
           /\ conferences' = conferences \cup {maxId}
           /\ enabled' = enabled \cup {maxId}
           /\ tagOf' = [tagOf EXCEPT ![maxId] = call[t].tag]
           /\ tags' = [tags EXCEPT ![call[t].tag] = maxId]
           /\ maxId' = maxId + 1
           /\ call' = [call EXCEPT ![t] = [at |-> "create_listen", id |-> maxId, tag |-> NoTag]]
           /\ UNCHANGED <<entryUse, freed>>
  <2>1. /\ use.claim = t /\ use' \in RW!Lock
        /\ use'.users = use.users /\ use'.claim = NoThread /\ calls' = calls
    BY <1>3 DEF IInv, TypeOK, OwnAndUnlock, RW!Unlock, RW!Lock
  <2>2. t \in Creators /\ Cardinality(Creators \ {t}) = Cardinality(Creators) - 1
    BY <1>3, CreatorsFinite, FS_RemoveElement DEF Creators, Creating, At
  <2>3. maxId \in Conf /\ call[t].tag \in Tag
    <3>1. Cardinality(Creators \ {t}) \in Nat
      BY CreatorsFinite, FS_RemoveElement, FS_CardinalityType
    <3> QED  BY <1>3, <2>2, <3>1, CreatorsFinite, FS_CardinalityType, ConferenceAssumption
             DEF IInv, TypeOK, CreatorsBounded, Conf, At, Creating
  <2>4. /\ Moves(t) /\ TypeOK'
        /\ call[t].at = "create_own" /\ call'[t].at = "create_listen"
    BY <1>3, <2>1, <2>3, ConferenceAssumption DEF IInv, TypeOK, Moves, Steps, Creating, At, Conf
  <2>5. MapHeld'
    BY <2>1, <2>4, ConferenceAssumption DEF IInv, MapHeld, MapUsing, MapClaiming, Moves
  <2>6. EntriesHeld'
    BY <1>3, <2>4, EntriesKeep DEF Referring, EntryOwning
  <2>7. OneLife'
    BY <1>3, <2>3, <2>4 DEF IInv, TypeOK, OneLife, Deleting, Moves, Conf
  <2>8. ReferredIsInMap'
    BY <1>3, <2>4 DEF IInv, ReferredIsInMap, Referring, Moves
  <2>9. CreatorsBounded'
    <3>1. Creators' = Creators \ {t}
      BY <2>4 DEF Creators, Creating, Moves
    <3> QED
      BY <1>3, <2>2, <3>1, CreatorsFinite, FS_CardinalityType, ConferenceAssumption
      DEF IInv, TypeOK, CreatorsBounded
  <2> QED  BY <2>4, <2>5, <2>6, <2>7, <2>8, <2>9 DEF IInv
<1>4. CASE /\ At(t, "create_listen") /\ Return(t)
           /\ UNCHANGED <<registry, use, entryUse, calls>>
  <2>1. /\ Moves(t) /\ TypeOK'
        /\ call[t].at = "create_listen" /\ call'[t].at = "idle"
    BY <1>4, ConferenceAssumption DEF IInv, TypeOK, Moves, Steps, Creating, At, Return, Idle, registry
  <2>2. MapHeld'
    BY <1>4, <2>1 DEF IInv, MapHeld, MapUsing, MapClaiming, Moves
  <2>3. EntriesHeld'
    BY <1>4, <2>1, EntriesKeep DEF Referring, EntryOwning
  <2>4. OneLife'
    BY <1>4, <2>1 DEF IInv, OneLife, Deleting, Moves, registry
  <2>5. ReferredIsInMap'
    BY <1>4, <2>1 DEF IInv, ReferredIsInMap, Referring, Moves, registry
  <2>6. CreatorsBounded'
    BY <1>4, <2>1, CreatorsKeep DEF Creating, registry
  <2> QED  BY <2>1, <2>2, <2>3, <2>4, <2>5, <2>6 DEF IInv
<1> QED  BY <1>1, <1>2, <1>3, <1>4 DEF CreateConference

\* mcu.cpp GetConferenceId only reads the map.
LEMMA GetConferenceIdKeeps ==
  ASSUME IInv, NEW t \in Thread, GetConferenceId(t) PROVE IInv'
<1>1. CASE \E g \in Tag : Start(t, "tag", 0, g)
  BY <1>1, StartKeeps, ConferenceAssumption
<1>2. CASE IncUse(t, "tag", "tag_find")
  BY <1>2, IncUseKeeps
<1>3. CASE At(t, "tag_find")
  <2> DEFINE id == tags[call[t].tag]
             r == IF id = 0 THEN Idle ELSE [at |-> "ref", id |-> id, tag |-> NoTag]
  <2>1. /\ call' = [call EXCEPT ![t] = r]
        /\ use' = RW!DecUse(use, t) /\ UNCHANGED <<registry, entryUse, calls>>
    BY <1>3 DEF GetConferenceId, At, Start, IncUse
  <2>2. id \in 0..MaxConf
    <3>1. call[t].tag \in Tag
      BY <1>3 DEF At, IInv, TypeOK
    <3> QED  BY <3>1 DEF IInv, TypeOK
  <2>3. r \in [at : Steps, id : 0..MaxConf, tag : Tag \cup {NoTag}] /\ r.at \in {"idle", "ref"}
    BY <2>2, ConferenceAssumption DEF Idle, Steps
  <2> QED  BY <1>3, <2>1, <2>3, DecUseKeeps DEF At
<1> QED  BY <1>1, <1>2, <1>3 DEF GetConferenceId

\* mcu.cpp GetConferenceRef: a reference is taken to an enabled conference, which
\* nobody deletes.
LEMMA GetConferenceRefKeeps ==
  ASSUME IInv, NEW t \in Thread, GetConferenceRef(t) PROVE IInv'
<1>1. CASE \E c \in Conf : Start(t, "ref", c, NoTag)
  BY <1>1, StartKeeps, ConferenceAssumption DEF Conf
<1>2. CASE IncUse(t, "ref", "ref_find")
  BY <1>2, IncUseKeeps
<1>3. CASE /\ At(t, "ref_find") /\ use' = RW!DecUse(use, t) /\ Return(t)
           /\ UNCHANGED <<registry, entryUse, calls>>
  <2>1. Idle \in [at : Steps, id : 0..MaxConf, tag : Tag \cup {NoTag}]
    BY ConferenceAssumption DEF Idle, Steps
  <2> QED  BY <1>3, <2>1, DecUseKeeps DEF At, Return, Idle
<1>4. CASE /\ At(t, "ref_find") /\ CanBeReferred(call[t].id)
           /\ entryUse' = [entryUse EXCEPT ![call[t].id] = RW!IncUse(@, t)]
           /\ Goto(t, "ref_done")
           /\ UNCHANGED <<registry, use, calls>>
  <2>1. call[t].id \in Conf /\ call[t].id \in conferences /\ call[t].id \in enabled
    BY <1>4 DEF CanBeReferred, IInv, TypeOK
  <2>2. /\ entryUse' \in [Conf -> RW!Lock]
        /\ \A c \in Conf : entryUse'[c].users =
              IF c = call[t].id THEN entryUse[c].users \cup {t} ELSE entryUse[c].users
    BY <1>4, <2>1 DEF IInv, TypeOK, RW!IncUse, RW!Lock
  <2>3. /\ Moves(t) /\ TypeOK'
        /\ call[t].at = "ref_find" /\ call'[t].at = "ref_done" /\ call'[t].id = call[t].id
    BY <1>4, <2>2 DEF IInv, TypeOK, Moves, Steps, Referring, Creating, At, Goto, registry
  <2>4. MapHeld'
    BY <1>4, <2>3 DEF IInv, MapHeld, MapUsing, MapClaiming, Moves
  <2>5. EntriesHeld'
    <3>1. ASSUME NEW u \in Thread, NEW c \in Conf
          PROVE  u \in entryUse'[c].users <=> call'[u].at \in Referring /\ call'[u].id = c
      <4>1. u \in entryUse[c].users <=> call[u].at \in Referring /\ call[u].id = c
        BY DEF IInv, EntriesHeld
      <4>2. u \in entryUse'[c].users <=> u \in entryUse[c].users \/ (u = t /\ c = call[t].id)
        BY <2>2
      <4>3. CASE u = t
        BY <2>3, <4>1, <4>2, <4>3 DEF Referring
      <4>4. CASE u # t
        BY <2>3, <4>1, <4>2, <4>4 DEF Moves
      <4> QED  BY <4>3, <4>4
    <3>2. ASSUME NEW u \in Thread, call'[u].at \in EntryOwning
          PROVE  entryUse'[call'[u].id].users = {}
      <4>1. u # t /\ call'[u] = call[u] /\ call[u].at \in EntryOwning
        BY <2>3, <3>2 DEF Moves, EntryOwning
      <4>2. call[u].id # call[t].id /\ call[u].id \in Conf
        BY <2>1, <4>1, ConferenceAssumption DEF IInv, OneLife, Deleting, EntryOwning, TypeOK, Conf
      <4>3. entryUse[call[u].id].users = {}
        BY <4>1 DEF IInv, EntriesHeld
      <4> QED  BY <2>2, <4>1, <4>2, <4>3
    <3> QED  BY <3>1, <3>2 DEF EntriesHeld
  <2>6. OneLife'
    BY <1>4, <2>3 DEF IInv, OneLife, Deleting, Moves, registry
  <2>7. ReferredIsInMap'
    BY <1>4, <2>1, <2>3 DEF IInv, ReferredIsInMap, Referring, Moves, registry
  <2>8. CreatorsBounded'
    BY <1>4, <2>3, CreatorsKeep DEF Creating, registry
  <2> QED  BY <2>3, <2>4, <2>5, <2>6, <2>7, <2>8 DEF IInv
<1>5. CASE /\ At(t, "ref_done") /\ use' = RW!DecUse(use, t) /\ Goto(t, "using")
           /\ UNCHANGED <<registry, entryUse, calls>>
  <2> DEFINE r == [call[t] EXCEPT !.at = "using"]
  <2>1. call' = [call EXCEPT ![t] = r] /\ call[t].at = "ref_done"
    BY <1>5 DEF At, Goto, IInv, TypeOK
  <2>2. /\ r \in [at : Steps, id : 0..MaxConf, tag : Tag \cup {NoTag}]
        /\ r.at = "using" /\ r.id = call[t].id
    BY DEF IInv, TypeOK, Steps, Referring
  <2> QED  BY <1>5, <2>1, <2>2, DecUseKeeps
<1> QED  BY <1>1, <1>2, <1>3, <1>4, <1>5 DEF GetConferenceRef

\* The work of a caller between GetConferenceRef and ReleaseConferenceRef.
LEMMA UseConferenceKeeps ==
  ASSUME IInv, NEW t \in Thread, UseConference(t) PROVE IInv'
<1>1. /\ Moves(t) /\ TypeOK' /\ UNCHANGED <<registry, use, entryUse>>
      /\ call[t].at = "using" /\ call'[t].at = "release" /\ call'[t].id = call[t].id
  BY DEF UseConference, IInv, TypeOK, Moves, Steps, Referring, Creating, At, Goto, registry
<1>2. MapHeld'
  BY <1>1 DEF IInv, MapHeld, MapUsing, MapClaiming, Moves
<1>3. EntriesHeld'
  BY <1>1, EntriesKeep DEF Referring, EntryOwning
<1>4. OneLife'
  BY <1>1 DEF IInv, OneLife, Deleting, Moves, registry
<1>5. ReferredIsInMap'
  BY <1>1 DEF IInv, ReferredIsInMap, Referring, Moves, registry
<1>6. CreatorsBounded'
  BY <1>1, CreatorsKeep DEF Creating, registry
<1> QED  BY <1>1, <1>2, <1>3, <1>4, <1>5, <1>6 DEF IInv

\* mcu.cpp ReleaseConferenceRef: the thread leaves the users of its own entry.
LEMMA ReleaseConferenceRefKeeps ==
  ASSUME IInv, NEW t \in Thread, ReleaseConferenceRef(t) PROVE IInv'
<1>1. CASE IncUse(t, "release", "release_find")
  BY <1>1, IncUseKeeps
<1>2. CASE At(t, "release_find")
  <2>1. call[t].id \in conferences /\ call[t].id \in Conf
    BY <1>2 DEF At, IInv, ReferredIsInMap, Referring, TypeOK
  <2>2. /\ entryUse' = [entryUse EXCEPT ![call[t].id] = RW!DecUse(@, t)]
        /\ Goto(t, "release_signal") /\ UNCHANGED <<registry, use, calls>>
    BY <1>2, <2>1 DEF ReleaseConferenceRef, IncUse, At
  <2>3. /\ entryUse' \in [Conf -> RW!Lock]
        /\ \A c \in Conf : entryUse'[c].users =
              IF c = call[t].id THEN entryUse[c].users \ {t} ELSE entryUse[c].users
    BY <2>1, <2>2 DEF IInv, TypeOK, RW!DecUse, RW!Lock
  <2>4. /\ Moves(t) /\ TypeOK'
        /\ call[t].at = "release_find" /\ call'[t].at = "release_signal"
        /\ call'[t].id = call[t].id
    BY <1>2, <2>2, <2>3 DEF IInv, TypeOK, Moves, Steps, Creating, At, Goto, registry
  <2>5. MapHeld'
    BY <2>2, <2>4 DEF IInv, MapHeld, MapUsing, MapClaiming, Moves
  <2>6. EntriesHeld'
    <3>1. ASSUME NEW u \in Thread, NEW c \in Conf
          PROVE  u \in entryUse'[c].users <=> call'[u].at \in Referring /\ call'[u].id = c
      <4>1. u \in entryUse[c].users <=> call[u].at \in Referring /\ call[u].id = c
        BY DEF IInv, EntriesHeld
      <4>2. CASE u = t
        BY <2>1, <2>3, <2>4, <4>1, <4>2 DEF Referring
      <4>3. CASE u # t
        BY <2>1, <2>3, <2>4, <4>1, <4>3 DEF Moves
      <4> QED  BY <4>2, <4>3
    <3>2. ASSUME NEW u \in Thread, call'[u].at \in EntryOwning
          PROVE  entryUse'[call'[u].id].users = {}
      <4>1. u # t /\ call'[u] = call[u] /\ call[u].at \in EntryOwning
        BY <2>4, <3>2 DEF Moves, EntryOwning
      <4>2. call[u].id \in Conf
        BY <4>1, ConferenceAssumption DEF IInv, OneLife, Deleting, EntryOwning, TypeOK, Conf
      <4>3. entryUse[call[u].id].users = {}
        BY <4>1 DEF IInv, EntriesHeld
      <4> QED  BY <2>3, <4>1, <4>2, <4>3
    <3> QED  BY <3>1, <3>2 DEF EntriesHeld
  <2>7. OneLife'
    BY <2>2, <2>4 DEF IInv, OneLife, Deleting, Moves, registry
  <2>8. ReferredIsInMap'
    BY <2>1, <2>2, <2>4 DEF IInv, ReferredIsInMap, Referring, Moves, registry
  <2>9. CreatorsBounded'
    BY <2>2, <2>4, CreatorsKeep DEF Creating, registry
  <2> QED  BY <2>4, <2>5, <2>6, <2>7, <2>8, <2>9 DEF IInv
<1>3. CASE /\ At(t, "release_signal") /\ Return(t) /\ use' = RW!DecUse(use, t)
           /\ UNCHANGED <<registry, entryUse, calls>>
  <2>1. Idle \in [at : Steps, id : 0..MaxConf, tag : Tag \cup {NoTag}]
    BY ConferenceAssumption DEF Idle, Steps
  <2> QED  BY <1>3, <2>1, DecUseKeeps DEF At, Return, Idle
<1> QED  BY <1>1, <1>2, <1>3 DEF ReleaseConferenceRef

\* mcu.cpp GetConferenceList only reads the map.
LEMMA GetConferenceListKeeps ==
  ASSUME IInv, NEW t \in Thread, GetConferenceList(t) PROVE IInv'
<1>1. CASE Start(t, "list", 0, NoTag)
  BY <1>1, StartKeeps, ConferenceAssumption
<1>2. CASE IncUse(t, "list", "listing")
  BY <1>2, IncUseKeeps
<1>3. CASE /\ At(t, "listing") /\ Return(t) /\ use' = RW!DecUse(use, t)
           /\ UNCHANGED <<registry, entryUse, calls>>
  <2>1. Idle \in [at : Steps, id : 0..MaxConf, tag : Tag \cup {NoTag}]
    BY ConferenceAssumption DEF Idle, Steps
  <2> QED  BY <1>3, <2>1, DecUseKeeps DEF At, Return, Idle
<1> QED  BY <1>1, <1>2, <1>3 DEF GetConferenceList

\* mcu.cpp DeleteConference: the thread that disables a conference is the only one
\* to erase it, after the users of its entry have left.
LEMMA DeleteConferenceKeeps ==
  ASSUME IInv, NEW t \in Thread, DeleteConference(t) PROVE IInv'
<1>1. CASE \E c \in Conf : Start(t, "delete", c, NoTag)
  BY <1>1, StartKeeps, ConferenceAssumption DEF Conf
<1>2. CASE Claim(t, "delete", "delete_own") \/ Claim(t, "delete_again", "delete_erase")
  BY <1>2, ClaimKeeps
<1>3. ASSUME OwnAndUnlock(t)
      PROVE  /\ use.claim = t /\ \A u \in Thread : call[u].at \notin MapUsing
             /\ use' \in RW!Lock /\ use'.users = use.users /\ use'.claim = NoThread
             /\ calls' = calls
  BY <1>3 DEF IInv, TypeOK, MapHeld, OwnAndUnlock, RW!IsUnused, RW!Unlock, RW!Lock
<1>4. CASE /\ At(t, "delete_own") /\ OwnAndUnlock(t) /\ Return(t)
           /\ UNCHANGED <<registry, entryUse>>
  <2>1. /\ Moves(t) /\ TypeOK' /\ call[t].at = "delete_own" /\ call'[t].at = "idle"
    BY <1>3, <1>4, ConferenceAssumption
    DEF IInv, TypeOK, Moves, Steps, Creating, At, Return, Idle, registry
  <2>2. MapHeld'
    BY <1>3, <1>4, <2>1, ConferenceAssumption DEF IInv, MapHeld, MapUsing, MapClaiming, Moves
  <2>3. EntriesHeld'
    BY <1>4, <2>1, EntriesKeep DEF Referring, EntryOwning
  <2>4. OneLife'
    BY <1>4, <2>1 DEF IInv, OneLife, Deleting, Moves, registry
  <2>5. ReferredIsInMap'
    BY <1>4, <2>1 DEF IInv, ReferredIsInMap, Referring, Moves, registry
  <2>6. CreatorsBounded'
    BY <1>4, <2>1, CreatorsKeep DEF Creating, registry
  <2> QED  BY <2>1, <2>2, <2>3, <2>4, <2>5, <2>6 DEF IInv
<1>5. CASE /\ At(t, "delete_own") /\ OwnAndUnlock(t)
           /\ CanBeDeleted(call[t].id) /\ Disable(call[t].id)
           /\ Goto(t, "delete_entry")
           /\ UNCHANGED <<conferences, tagOf, maxId, freed, entryUse>>
  <2>1. /\ call[t].id \in conferences /\ call[t].id \in enabled /\ call[t].id \in Conf
        /\ enabled' = enabled \ {call[t].id} /\ tags' \in [Tag -> 0..MaxConf]
    <3>1. call[t].id \in conferences /\ call[t].id \in enabled /\ call[t].id \in Conf
      BY <1>5 DEF CanBeDeleted, IInv, TypeOK
    <3>2. enabled' = enabled \ {call[t].id} /\ tags' = [tags EXCEPT ![tagOf[call[t].id]] = 0]
      BY <1>5 DEF Disable
    <3>3. 0 \in 0..MaxConf /\ tags \in [Tag -> 0..MaxConf]
      BY ConferenceAssumption DEF IInv, TypeOK
    <3> QED  BY <3>1, <3>2, <3>3
  <2>2. /\ Moves(t) /\ TypeOK' /\ call[t].at = "delete_own"
        /\ call'[t].at = "delete_entry" /\ call'[t].id = call[t].id
    BY <1>3, <1>5, <2>1 DEF IInv, TypeOK, Moves, Steps, Deleting, Creating, At, Goto
  <2>3. MapHeld'
    BY <1>3, <1>5, <2>2, ConferenceAssumption DEF IInv, MapHeld, MapUsing, MapClaiming, Moves
  <2>4. EntriesHeld'
    BY <1>5, <2>2, EntriesKeep DEF Referring, EntryOwning
  <2>5. OneLife'
    <3>1. \A u \in Thread : call[u].at \in Deleting => call[u].id # call[t].id
      BY <2>1 DEF IInv, OneLife
    <3>2. call[t].id \in 1..(maxId - 1) /\ call[t].id \notin freed
      BY <2>1 DEF IInv, OneLife, TypeOK, Conf
    <3>3. /\ enabled' \subseteq conferences' /\ conferences' \cap freed' = {}
          /\ \A c \in conferences' \cup freed' : c < maxId'
      BY <1>5, <2>1 DEF IInv, OneLife
    <3>4. ASSUME NEW u \in Thread, call'[u].at \in Deleting
          PROVE  /\ call'[u].id \in 1..(maxId' - 1)
                 /\ call'[u].id \notin enabled' /\ call'[u].id \notin freed'
                 /\ call'[u].at = "delete_free" <=> call'[u].id \notin conferences'
      BY <1>5, <2>1, <2>2, <3>2, <3>4 DEF IInv, OneLife, Moves
    <3>5. \A u, v \in Thread :
             call'[u].at \in Deleting /\ call'[v].at \in Deleting /\ call'[v].id = call'[u].id => v = u
      BY <2>2, <3>1 DEF IInv, OneLife, Moves
    <3> QED  BY <3>3, <3>4, <3>5 DEF OneLife
  <2>6. ReferredIsInMap'
    BY <1>5, <2>2 DEF IInv, ReferredIsInMap, Referring, Moves
  <2>7. CreatorsBounded'
    BY <1>5, <2>2, CreatorsKeep DEF Creating
  <2> QED  BY <2>2, <2>3, <2>4, <2>5, <2>6, <2>7 DEF IInv
<1>6. CASE /\ At(t, "delete_entry") /\ RW!CanClaim(entryUse[call[t].id])
           /\ entryUse' = [entryUse EXCEPT ![call[t].id] = RW!Claimed(@, t)]
           /\ Goto(t, "delete_wait")
           /\ UNCHANGED <<registry, use, calls>>
  <2>1. /\ entryUse' \in [Conf -> RW!Lock]
        /\ \A c \in Conf : entryUse'[c].users = entryUse[c].users
    BY <1>6 DEF IInv, TypeOK, RW!Claimed, RW!Lock
  <2>2. /\ Moves(t) /\ TypeOK' /\ call[t].at = "delete_entry"
        /\ call'[t].at = "delete_wait" /\ call'[t].id = call[t].id
    BY <1>6, <2>1 DEF IInv, TypeOK, Moves, Steps, Deleting, Creating, At, Goto, registry
  <2>3. MapHeld'
    BY <1>6, <2>2 DEF IInv, MapHeld, MapUsing, MapClaiming, Moves
  <2>4. EntriesHeld'
    <3>1. \A u \in Thread : call'[u].at \in EntryOwning =>
             call[u].at \in EntryOwning /\ call'[u].id = call[u].id /\ call[u].id \in Conf
      BY <2>2, DeletingConf DEF EntryOwning, Deleting, Moves
    <3>2. \A u \in Thread : /\ call'[u].at \in Referring <=> call[u].at \in Referring
                            /\ call'[u].id = call[u].id
      BY <2>2 DEF Referring, Moves
    <3>3. \A u \in Thread, c \in Conf :
             u \in entryUse'[c].users <=> call'[u].at \in Referring /\ call'[u].id = c
      BY <2>1, <3>2 DEF IInv, EntriesHeld
    <3>4. \A u \in Thread : call'[u].at \in EntryOwning => entryUse'[call'[u].id].users = {}
      BY <2>1, <3>1 DEF IInv, EntriesHeld
    <3> QED  BY <3>3, <3>4 DEF EntriesHeld
  <2>5. OneLife'
    BY <1>6, <2>2 DEF IInv, OneLife, Deleting, Moves, registry
  <2>6. ReferredIsInMap'
    BY <1>6, <2>2 DEF IInv, ReferredIsInMap, Referring, Moves, registry
  <2>7. CreatorsBounded'
    BY <1>6, <2>2, CreatorsKeep DEF Creating, registry
  <2> QED  BY <2>2, <2>3, <2>4, <2>5, <2>6, <2>7 DEF IInv
<1>7. CASE /\ At(t, "delete_wait") /\ EntryIsUnused(call[t].id)
           /\ entryUse' = [entryUse EXCEPT ![call[t].id] = RW!Owned(@, t)]
           /\ Goto(t, "delete_again")
           /\ UNCHANGED <<registry, use, calls>>
  <2>1. /\ entryUse' \in [Conf -> RW!Lock]
        /\ \A c \in Conf : entryUse'[c].users = entryUse[c].users
        /\ entryUse[call[t].id].users = {}
    BY <1>7 DEF EntryIsUnused, IInv, TypeOK, RW!IsUnused, RW!Owned, RW!Lock
  <2>2. /\ Moves(t) /\ TypeOK' /\ call[t].at = "delete_wait"
        /\ call'[t].at = "delete_again" /\ call'[t].id = call[t].id
    BY <1>7, <2>1 DEF IInv, TypeOK, Moves, Steps, Deleting, Creating, At, Goto, registry
  <2>3. MapHeld'
    BY <1>7, <2>2 DEF IInv, MapHeld, MapUsing, MapClaiming, Moves
  <2>4. EntriesHeld'
    <3>1. \A u \in Thread : /\ call'[u].at \in Referring <=> call[u].at \in Referring
                            /\ call'[u].id = call[u].id
      BY <2>2 DEF Referring, Moves
    <3>2. ASSUME NEW u \in Thread, call'[u].at \in EntryOwning
          PROVE  entryUse'[call'[u].id].users = {}
      <4>1. call[u].id \in Conf
        BY <2>2, <3>2, DeletingConf DEF EntryOwning, Deleting, Moves
      <4>2. CASE u = t
        BY <2>1, <3>1, <4>1, <4>2
      <4>3. CASE u # t
        <5>1. call[u].at \in EntryOwning
          BY <2>2, <3>2, <4>3 DEF Moves
        <5>2. entryUse[call[u].id].users = {}
          BY <5>1 DEF IInv, EntriesHeld
        <5> QED  BY <2>1, <3>1, <4>1, <5>2
      <4> QED  BY <4>2, <4>3
    <3>3. \A u \in Thread, c \in Conf :
             u \in entryUse'[c].users <=> call'[u].at \in Referring /\ call'[u].id = c
      BY <2>1, <3>1 DEF IInv, EntriesHeld
    <3> QED  BY <3>2, <3>3 DEF EntriesHeld
  <2>5. OneLife'
    BY <1>7, <2>2 DEF IInv, OneLife, Deleting, Moves, registry
  <2>6. ReferredIsInMap'
    BY <1>7, <2>2 DEF IInv, ReferredIsInMap, Referring, Moves, registry
  <2>7. CreatorsBounded'
    BY <1>7, <2>2, CreatorsKeep DEF Creating, registry
  <2> QED  BY <2>2, <2>3, <2>4, <2>5, <2>6, <2>7 DEF IInv
<1>8. CASE /\ At(t, "delete_erase") /\ OwnAndUnlock(t)
           /\ conferences' = conferences \ {call[t].id}
           /\ Goto(t, "delete_free")
           /\ UNCHANGED <<enabled, tagOf, tags, maxId, freed, entryUse>>
  <2>1. /\ Moves(t) /\ TypeOK' /\ call[t].at = "delete_erase"
        /\ call'[t].at = "delete_free" /\ call'[t].id = call[t].id
    BY <1>3, <1>8 DEF IInv, TypeOK, Moves, Steps, Deleting, Creating, At, Goto
  <2>2. MapHeld'
    BY <1>3, <1>8, <2>1, ConferenceAssumption DEF IInv, MapHeld, MapUsing, MapClaiming, Moves
  <2>3. EntriesHeld'
    BY <1>8, <2>1, EntriesKeep DEF Referring, EntryOwning
  <2>4. OneLife'
    BY <1>8, <2>1 DEF IInv, OneLife, Deleting, Moves
  <2>5. ReferredIsInMap'
    <3>1. ASSUME NEW u \in Thread, call'[u].at \in Referring \cup {"release_signal"}
          PROVE  call'[u].id \in conferences'
      <4>1. u # t /\ call'[u] = call[u]
        BY <2>1, <3>1 DEF Referring, Moves
      <4>2. call[u].at \in Referring
        BY <1>3, <1>8, <3>1, <4>1 DEF MapUsing
      <4>3. u \in entryUse[call[u].id].users /\ call[u].id \in conferences
        BY <4>2 DEF IInv, EntriesHeld, ReferredIsInMap, TypeOK
      <4>4. entryUse[call[t].id].users = {}
        BY <2>1 DEF IInv, EntriesHeld, EntryOwning
      <4> QED  BY <1>8, <4>1, <4>3, <4>4
    <3> QED  BY <3>1 DEF ReferredIsInMap
  <2>6. CreatorsBounded'
    BY <1>8, <2>1, CreatorsKeep DEF Creating
  <2> QED  BY <2>1, <2>2, <2>3, <2>4, <2>5, <2>6 DEF IInv
<1>9. CASE /\ At(t, "delete_free") /\ Return(t)
           /\ freed' = freed \cup {call[t].id}
           /\ UNCHANGED <<conferences, enabled, tagOf, tags, maxId, use, entryUse, calls>>
  <2>1. /\ call[t].at = "delete_free" /\ call[t].id \in 1..(maxId - 1)
        /\ call[t].id \notin conferences
    BY <1>9 DEF At, IInv, OneLife, Deleting
  <2>2. call[t].id \in Conf
    BY <2>1, ConferenceAssumption DEF IInv, TypeOK, Conf
  <2>3. Moves(t) /\ TypeOK' /\ call'[t].at = "idle"
    BY <1>9, <2>2, ConferenceAssumption DEF IInv, TypeOK, Moves, Steps, Creating, Return, Idle
  <2>4. MapHeld'
    BY <1>9, <2>1, <2>3 DEF IInv, MapHeld, MapUsing, MapClaiming, Moves
  <2>5. EntriesHeld'
    BY <1>9, <2>1, <2>3, EntriesKeep DEF Referring, EntryOwning
  <2>6. OneLife'
    <3>1. \A u \in Thread : u # t /\ call[u].at \in Deleting => call[u].id # call[t].id
      BY <2>1 DEF IInv, OneLife, Deleting
    <3>2. /\ enabled' \subseteq conferences' /\ conferences' \cap freed' = {}
      BY <1>9, <2>1 DEF IInv, OneLife
    <3>3. \A c \in conferences' \cup freed' : c < maxId'
      BY <1>9, <2>1 DEF IInv, TypeOK, OneLife
    <3>4. \A u \in Thread : call'[u].at \in Deleting => u # t /\ call'[u] = call[u]
      BY <2>3 DEF Deleting, Moves
    <3> QED  BY <1>9, <3>1, <3>2, <3>3, <3>4 DEF IInv, OneLife
  <2>7. ReferredIsInMap'
    BY <1>9, <2>1, <2>3 DEF IInv, ReferredIsInMap, Referring, Moves
  <2>8. CreatorsBounded'
    BY <1>9, <2>1, <2>3, CreatorsKeep DEF Creating
  <2> QED  BY <2>3, <2>4, <2>5, <2>6, <2>7, <2>8 DEF IInv
<1> QED  BY <1>1, <1>2, <1>4, <1>5, <1>6, <1>7, <1>8, <1>9 DEF DeleteConference

-----------------------------------------------------------------------------

\* The registry starts empty, with every thread idle.
LEMMA InitIInv == Init => IInv
<1> SUFFICES ASSUME Init PROVE IInv  OBVIOUS
<1>1. \A t \in Thread : call[t] = Idle
  BY DEF Init
<1>2. TypeOK
  BY ConferenceAssumption DEF Init, TypeOK, Idle, Steps, Creating, Conf, RW!Lock, RW!Unlocked
<1>3. MapHeld /\ EntriesHeld
  BY <1>1, ConferenceAssumption
  DEF Init, MapHeld, EntriesHeld, Idle, MapUsing, MapClaiming, Referring, EntryOwning, RW!Unlocked
<1>4. OneLife /\ ReferredIsInMap
  BY <1>1 DEF Init, OneLife, ReferredIsInMap, Idle, Deleting, Referring
<1>5. CreatorsBounded
  <2>1. Creators = {}
    BY <1>1 DEF Creators, Creating, Idle
  <2> QED  BY <2>1, FS_EmptySet, ConferenceAssumption DEF Init, CreatorsBounded
<1> QED  BY <1>2, <1>3, <1>4, <1>5 DEF IInv

\* Every step keeps the inductive invariant.
LEMMA NextIInv == IInv /\ [Next]_vars => IInv'
<1> SUFFICES ASSUME IInv, [Next]_vars PROVE IInv'  OBVIOUS
<1>1. CASE UNCHANGED vars
  <2>1. TypeOK' /\ MapHeld' /\ EntriesHeld'
    BY <1>1 DEF IInv, vars, registry, TypeOK, MapHeld, EntriesHeld
  <2>2. OneLife' /\ ReferredIsInMap' /\ CreatorsBounded'
    BY <1>1 DEF IInv, vars, registry, OneLife, ReferredIsInMap, CreatorsBounded, Creators
  <2> QED  BY <2>1, <2>2 DEF IInv
<1>2. CASE Next
  BY <1>2, CreateConferenceKeeps, DeleteConferenceKeeps, GetConferenceListKeeps,
     GetConferenceIdKeeps, GetConferenceRefKeeps, UseConferenceKeeps, ReleaseConferenceRefKeeps
  DEF Next
<1> QED  BY <1>1, <1>2

\* The inductive invariant holds in every state of the registry.
LEMMA InvariantHolds == Spec => []IInv
BY InitIInv, NextIInv, PTL DEF Spec

\* mcu.cpp: the registry keeps its types; in particular ids start at 1 and a
\* call by tag has a tag.
THEOREM RegistryTypeCorrect == Spec => []TypeOK
BY InvariantHolds, PTL DEF IInv

\* mcu.cpp GetConferenceRef, ReleaseConferenceRef: a conference is not erased or
\* deleted while a thread refers to it, however many threads delete it, and its
\* entry is still there when a reference is released.
THEOREM ReferencesValid == Spec => []ReferencesStayValid
<1>1. IInv => ReferencesStayValid
  <2> SUFFICES ASSUME IInv PROVE ReferencesStayValid  OBVIOUS
  <2>1. conferences \cap freed = {}
    BY DEF IInv, OneLife
  <2>2. \A t \in Thread : call[t].at \in Referring \cup {"release_signal"} => call[t].id \in conferences
    BY DEF IInv, ReferredIsInMap
  <2>3. \A t \in Thread : call[t].at \in Referring => call[t].id \in conferences
    BY <2>2
  <2>4. \A t \in Thread : At(t, "release_signal") => call[t].id \notin freed
    BY <2>1, <2>2 DEF At
  <2> QED  BY <2>1, <2>3, <2>4 DEF ReferencesStayValid
<1> QED  BY <1>1, InvariantHolds, PTL

\* mcu.cpp DeleteConference: of all the threads that delete a conference one goes
\* on, and finds it in the map when it erases it.
THEOREM DeletedOnce == Spec => []OneDeleter
<1>1. IInv => OneDeleter
  BY DEF IInv, OneDeleter, OneLife
<1> QED  BY <1>1, InvariantHolds, PTL

-----------------------------------------------------------------------------
(* The tags                                                                *)

\* The tag of a conference being created is that of no other conference: its
\* client took a fresh one, and nobody else can have taken it since.
TagsTaken ==
    \A t \in Thread : call[t].at \in Creating =>
        /\ \A c \in enabled : tagOf[c] # call[t].tag
        /\ \A u \in Thread : call[u].at \in Creating /\ call[u].tag = call[t].tag => u = t

TagInv == TagsFindConferences /\ TagsTaken

\* A step that leaves the maps alone and starts no creation keeps the tags.
LEMMA TagsKeep ==
  ASSUME TagInv, NEW t \in Thread, UNCHANGED <<enabled, tagOf, tags>>,
         \A u \in Thread : u # t => call'[u] = call[u],
         call'[t].at \in Creating => call[t].at \in Creating /\ call'[t].tag = call[t].tag
  PROVE  TagInv'
<1>1. TagsFindConferences'
  BY DEF TagInv, TagsFindConferences
<1>2. ASSUME NEW u \in Thread, call'[u].at \in Creating
      PROVE  call[u].at \in Creating /\ call'[u].tag = call[u].tag
  BY <1>2
<1>3. TagsTaken'
  BY <1>2 DEF TagInv, TagsTaken
<1> QED  BY <1>1, <1>3 DEF TagInv

\* mcu.cpp CreateConference: the new id is in no map yet, so it is found by its
\* own tag only.
LEMMA CreateConferenceTags ==
  ASSUME IInv, TagInv, NEW t \in Thread, CreateConference(t) PROVE TagInv'
<1> USE DEF Creating
<1>0. call \in [Thread -> [at : Steps, id : 0..MaxConf, tag : Tag \cup {NoTag}]]
  BY DEF IInv, TypeOK
<1>1. CASE \E g \in Tag : IsFresh(g) /\ BelowMaxConf /\ Start(t, "create", 0, g)
  <2> PICK g \in Tag : IsFresh(g) /\ Start(t, "create", 0, g)
    BY <1>1
  <2>1. /\ UNCHANGED <<enabled, tagOf, tags>>
        /\ call'[t].at = "create" /\ call'[t].tag = g
        /\ \A u \in Thread : u # t => call'[u] = call[u]
    BY <1>0 DEF Start, registry
  <2>2. TagsFindConferences'
    BY <2>1 DEF TagInv, TagsFindConferences
  <2>3. ASSUME NEW u \in Thread, call'[u].at \in Creating
        PROVE  /\ \A c \in enabled' : tagOf'[c] # call'[u].tag
               /\ \A v \in Thread : call'[v].at \in Creating /\ call'[v].tag = call'[u].tag => v = u
    <3>1. CASE u = t
      BY <2>1, <3>1 DEF IsFresh
    <3>2. CASE u # t
      BY <2>1, <2>3, <3>2 DEF IsFresh, TagInv, TagsTaken
    <3> QED  BY <3>1, <3>2
  <2>4. TagsTaken'
    BY <2>3 DEF TagsTaken
  <2> QED  BY <2>2, <2>4 DEF TagInv
<1>2. CASE Claim(t, "create", "create_own")
  <2>1. /\ UNCHANGED <<enabled, tagOf, tags>> /\ call[t].at = "create"
        /\ call'[t].at = "create_own" /\ call'[t].tag = call[t].tag
        /\ \A u \in Thread : u # t => call'[u] = call[u]
    BY <1>0, <1>2 DEF Claim, Goto, At, registry
  <2> QED  BY <2>1, TagsKeep
<1>3. CASE /\ At(t, "create_own") /\ OwnAndUnlock(t)
           /\ conferences' = conferences \cup {maxId}
           /\ enabled' = enabled \cup {maxId}
           /\ tagOf' = [tagOf EXCEPT ![maxId] = call[t].tag]
           /\ tags' = [tags EXCEPT ![call[t].tag] = maxId]
           /\ maxId' = maxId + 1
           /\ call' = [call EXCEPT ![t] = [at |-> "create_listen", id |-> maxId, tag |-> NoTag]]
           /\ UNCHANGED <<entryUse, freed>>
  <2> DEFINE g == call[t].tag
  <2>1. /\ call[t].at = "create_own" /\ call'[t].at = "create_listen"
        /\ \A u \in Thread : u # t => call'[u] = call[u]
    BY <1>0, <1>3 DEF At
  <2>2. g \in Tag /\ tagOf \in [Conf -> Tag \cup {NoTag}] /\ tags \in [Tag -> 0..MaxConf]
    BY <2>1 DEF IInv, TypeOK
  <2>3. maxId \notin enabled /\ enabled \subseteq Conf
    BY DEF IInv, OneLife, TypeOK, Conf
  <2>4. \A c \in enabled : tagOf'[c] = tagOf[c]
    BY <1>3, <2>2, <2>3
  <2>5. \A c \in enabled : tagOf[c] # g
    BY <2>1 DEF TagInv, TagsTaken
  <2>6. maxId \in Conf
    <3>1. t \in Creators
      BY <2>1 DEF Creators
    <3>2. Cardinality(Creators \ {t}) = Cardinality(Creators) - 1 /\ Cardinality(Creators \ {t}) \in Nat
      BY <3>1, CreatorsFinite, FS_RemoveElement, FS_CardinalityType
    <3> QED  BY <3>2, CreatorsFinite, FS_CardinalityType, ConferenceAssumption
             DEF IInv, TypeOK, CreatorsBounded, Conf
  <2>7. tagOf'[maxId] = g /\ tags'[g] = maxId /\ \A h \in Tag : h # g => tags'[h] = tags[h]
    BY <1>3, <2>2, <2>6
  <2>8. ASSUME NEW h \in Tag, NEW c \in Conf
        PROVE  tags'[h] = c <=> c \in enabled' /\ tagOf'[c] = h
    <3>1. tags[h] = c <=> c \in enabled /\ tagOf[c] = h
      BY DEF TagInv, TagsFindConferences
    <3>2. CASE h = g
      BY <1>3, <2>4, <2>5, <2>7, <3>2
    <3>3. CASE h # g
      BY <1>3, <2>3, <2>4, <2>7, <3>1, <3>3
    <3> QED  BY <3>2, <3>3
  <2>9. TagsTaken'
    <3>1. ASSUME NEW u \in Thread, call'[u].at \in Creating
          PROVE  /\ u # t /\ call[u].at \in Creating /\ call'[u].tag = call[u].tag
                 /\ call[u].tag # g
      BY <2>1, <3>1 DEF TagInv, TagsTaken
    <3> QED  BY <1>3, <2>4, <2>7, <3>1 DEF TagInv, TagsTaken
  <2> QED  BY <2>8, <2>9 DEF TagInv, TagsFindConferences
<1>4. CASE /\ At(t, "create_listen") /\ Return(t)
           /\ UNCHANGED <<registry, use, entryUse, calls>>
  <2>1. /\ UNCHANGED <<enabled, tagOf, tags>> /\ call'[t].at = "idle"
        /\ \A u \in Thread : u # t => call'[u] = call[u]
    BY <1>0, <1>4 DEF Return, Idle, registry
  <2> QED  BY <2>1, TagsKeep
<1> QED  BY <1>1, <1>2, <1>3, <1>4 DEF CreateConference

\* mcu.cpp DeleteConference: the entry of the tag goes when its conference is
\* disabled, and no other conference has that tag.
LEMMA DeleteConferenceTags ==
  ASSUME IInv, TagInv, NEW t \in Thread, DeleteConference(t) PROVE TagInv'
<1>0. call \in [Thread -> [at : Steps, id : 0..MaxConf, tag : Tag \cup {NoTag}]]
  BY DEF IInv, TypeOK
<1>1. /\ \A u \in Thread : u # t => call'[u] = call[u]
      /\ call'[t].at \notin Creating
  BY <1>0 DEF DeleteConference, Start, Claim, Goto, Return, Idle, Creating
<1>2. CASE UNCHANGED <<enabled, tagOf, tags>>
  BY <1>1, <1>2, TagsKeep
<1>3. CASE /\ CanBeDeleted(call[t].id) /\ Disable(call[t].id) /\ UNCHANGED tagOf
  <2> DEFINE d == call[t].id
  <2>1. /\ d \in enabled /\ d \in Conf /\ enabled' = enabled \ {d}
        /\ tags' = [tags EXCEPT ![tagOf[d]] = 0] /\ tagOf' = tagOf
    BY <1>3 DEF CanBeDeleted, Disable, IInv, TypeOK
  <2>2. tags \in [Tag -> 0..MaxConf]
    BY DEF IInv, TypeOK
  <2>3. ASSUME NEW h \in Tag, NEW c \in Conf
        PROVE  tags'[h] = c <=> c \in enabled' /\ tagOf'[c] = h
    <3>1. /\ tags[h] = c <=> c \in enabled /\ tagOf[c] = h
          /\ tags[h] = d <=> d \in enabled /\ tagOf[d] = h
      BY <2>1 DEF TagInv, TagsFindConferences
    <3>2. CASE h = tagOf[d]
      BY <2>1, <2>2, <3>1, <3>2 DEF Conf
    <3>3. CASE h # tagOf[d]
      BY <2>1, <2>2, <3>1, <3>3
    <3> QED  BY <3>2, <3>3
  <2>4. TagsTaken'
    BY <1>1, <2>1 DEF TagInv, TagsTaken
  <2> QED  BY <2>3, <2>4 DEF TagInv, TagsFindConferences
<1> QED  BY <1>2, <1>3 DEF DeleteConference, Start, Claim, registry

\* mcu.cpp: the other calls only read the tags.
LEMMA ReferenceTags ==
  ASSUME IInv, TagInv, NEW t \in Thread,
         \/ GetConferenceList(t) \/ GetConferenceId(t) \/ GetConferenceRef(t)
         \/ UseConference(t) \/ ReleaseConferenceRef(t)
  PROVE  TagInv'
<1>0. call \in [Thread -> [at : Steps, id : 0..MaxConf, tag : Tag \cup {NoTag}]]
  BY DEF IInv, TypeOK
<1>1. UNCHANGED <<enabled, tagOf, tags>>
  BY DEF GetConferenceList, GetConferenceId, GetConferenceRef, UseConference,
         ReleaseConferenceRef, Start, IncUse, registry
<1>2. \A u \in Thread : u # t => call'[u] = call[u]
  BY <1>0 DEF GetConferenceList, GetConferenceId, GetConferenceRef, UseConference,
              ReleaseConferenceRef, Start, IncUse, Goto, Return
<1>3. call'[t].at \notin Creating
  BY <1>0 DEF GetConferenceList, GetConferenceId, GetConferenceRef, UseConference,
              ReleaseConferenceRef, Start, IncUse, Goto, Return, Idle, Creating
<1> QED  BY <1>1, <1>2, <1>3, TagsKeep

\* mcu.cpp CreateConference, DeleteConference, GetConferenceId: whatever the calls
\* in progress, a tag finds the conference that has it and no other, and finds
\* none as soon as that conference is disabled.
THEOREM TagsCorrect == Spec => []TagsFindConferences
<1>1. Init => TagInv
  BY ConferenceAssumption DEF Init, TagInv, TagsFindConferences, TagsTaken, Idle, Creating, Conf
<1>2. IInv /\ TagInv /\ [Next]_vars => TagInv'
  <2> SUFFICES ASSUME IInv, TagInv, [Next]_vars PROVE TagInv'  OBVIOUS
  <2>1. CASE UNCHANGED vars
    BY <2>1 DEF TagInv, TagsFindConferences, TagsTaken, vars, registry
  <2>2. CASE Next
    BY <2>2, CreateConferenceTags, DeleteConferenceTags, ReferenceTags DEF Next
  <2> QED  BY <2>1, <2>2
<1>3. TagInv => TagsFindConferences
  BY DEF TagInv
<1> QED  BY <1>1, <1>2, <1>3, InvariantHolds, PTL DEF Spec

-----------------------------------------------------------------------------
(* The joins of a session. What is true of the graph whichever objects are *)
(* alive, and what is true between the steps of a deletion.                *)

Graph ==
    [joined           : [Listener -> Source \cup {None}],
     listeners        : [Source -> SUBSET Listener],
     encoding         : SUBSET Coder,
     codec            : SUBSET Coder,
     decoding         : SUBSET Coder,
     packets          : SUBSET Coder,
     frames           : SUBSET Coder,
     cancelledPackets : SUBSET Coder,
     cancelledFrames  : SUBSET Coder]

\* What JoinsAreSound and DecodesWhileJoined say of a graph, when ids are alive
Fits(g, ids) ==
    /\ g \in Graph
    /\ \A c \in g.encoding \cup g.codec : c[1] \in ids
    /\ \A l \in Follower, s \in Source : l \in g.listeners[s] <=> g.joined[l] = s
    /\ \A l \in Follower : g.joined[l] # None => l[1] \in ids /\ g.joined[l][1] \in ids
    /\ \A d \in Coder : d \in g.decoding <=> g.joined[d] # None

\* What EncodesWhileHeard says, but that the encoders of off have been stopped
Heard(g, off) ==
    \A e \in Coder : /\ e \in g.encoding => g.listeners[e] # {}
                     /\ e \notin off /\ g.listeners[e] # {} /\ e \in g.codec => e \in g.encoding

\* Joins, listeners, threads and codecs are only taken away
Smaller(h, g) ==
    /\ \A l \in Listener : h.joined[l] \in {g.joined[l], None}
    /\ \A s \in Source : h.listeners[s] \subseteq g.listeners[s]
    /\ h.encoding \subseteq g.encoding /\ h.codec \subseteq g.codec

SessionInv == Fits(graph, alive) /\ Heard(graph, {})

-----------------------------------------------------------------------------

\* A coder is not the stream of an endpoint, a player or a recorder.
LEMMA Kinds ==
    /\ None \notin Source
    /\ Coder \subseteq Follower /\ Coder \subseteq Source
    /\ Follower \subseteq Listener
    /\ Video \subseteq Coder
    /\ \A s \in Source : s[1] \notin Recorder
BY JoinablesAssumption DEF Source, Listener, Follower, Coder, Video, StreamsOf

\* The fields of a graph whose decoders of ds have been stopped
LEMMA StopDecodingFields ==
    ASSUME NEW g \in Graph, NEW ds, NEW h, h = StopDecoding(g, ds)
    PROVE  /\ h \in Graph
           /\ h.joined = g.joined /\ h.listeners = g.listeners
           /\ h.encoding = g.encoding /\ h.codec = g.codec /\ h.decoding = g.decoding \ ds
BY DEF Graph, StopDecoding

\* ... whose encoders of es have been stopped, ...
LEMMA StopEncodingFields ==
    ASSUME NEW g \in Graph, NEW es, NEW h, h = StopEncoding(g, es)
    PROVE  /\ h \in Graph
           /\ h.joined = g.joined /\ h.listeners = g.listeners
           /\ h.encoding = g.encoding \ es /\ h.codec = g.codec /\ h.decoding = g.decoding
BY DEF Graph, StopEncoding

\* ... whose listeners of ls no longer point to a source, ...
LEMMA ForgetSourceFields ==
    ASSUME NEW g \in Graph, NEW ls, NEW h, h = ForgetSource(g, ls)
    PROVE  /\ h \in Graph
           /\ h.joined = [l \in Listener |-> IF l \in ls THEN None ELSE g.joined[l]]
           /\ h.listeners = g.listeners
           /\ h.encoding = g.encoding /\ h.codec = g.codec /\ h.decoding = g.decoding
BY DEF Graph, ForgetSource

\* ... and whose listeners of ls have been taken from their sources
LEMMA RemoveListenersFields ==
    ASSUME NEW g \in Graph, NEW ls, NEW h, h = RemoveListeners(g, ls)
    PROVE  /\ h \in Graph
           /\ h.joined = g.joined /\ h.listeners = Without(g, ls)
           /\ h.encoding = g.encoding \ Unheard(g, ls)
           /\ h.codec = g.codec /\ h.decoding = g.decoding
<1>1. Without(g, ls) \in [Source -> SUBSET Listener]
  BY DEF Graph, Without
<1>2. PICK x : x = StopEncoding(g, Unheard(g, ls))
  OBVIOUS
<1>3. /\ x \in Graph
      /\ x.joined = g.joined /\ x.listeners = g.listeners
      /\ x.encoding = g.encoding \ Unheard(g, ls) /\ x.codec = g.codec /\ x.decoding = g.decoding
  BY <1>2, StopEncodingFields
<1>4. h = [x EXCEPT !.listeners = Without(g, ls)]
  BY <1>2 DEF RemoveListeners
<1> QED
  BY <1>1, <1>3, <1>4 DEF Graph

\* The listeners of ls have left the sources they had joined.
LEMMA DettachFields ==
    ASSUME NEW g \in Graph, NEW ls, NEW h, h = Dettach(g, ls)
    PROVE  /\ h \in Graph
           /\ h.joined = [l \in Listener |-> IF l \in ls THEN None ELSE g.joined[l]]
           /\ h.listeners = Without(g, Joiners(g, ls))
           /\ h.encoding = g.encoding \ Unheard(g, Joiners(g, ls))
           /\ h.codec = g.codec /\ h.decoding = g.decoding \ Joiners(g, ls)
<1>1. PICK js : js = Joiners(g, ls)
  OBVIOUS
<1>2. PICK x : x = StopDecoding(g, js)
  OBVIOUS
<1>3. /\ x \in Graph
      /\ x.joined = g.joined /\ x.listeners = g.listeners
      /\ x.encoding = g.encoding /\ x.codec = g.codec /\ x.decoding = g.decoding \ js
  BY <1>2, StopDecodingFields
<1>4. PICK y : y = RemoveListeners(x, js)
  OBVIOUS
<1>5. /\ y \in Graph
      /\ y.joined = x.joined /\ y.listeners = Without(x, js)
      /\ y.encoding = x.encoding \ Unheard(x, js) /\ y.codec = x.codec /\ y.decoding = x.decoding
  BY <1>3, <1>4, RemoveListenersFields
<1>6. Without(x, js) = Without(g, js)
  BY <1>3 DEF Without
<1>7. Unheard(x, js) = Unheard(g, js)
  BY <1>3, <1>6 DEF Unheard
<1>8. h = ForgetSource(y, ls)
  BY <1>1, <1>2, <1>4 DEF Dettach
<1> QED
  BY <1>1, <1>3, <1>5, <1>6, <1>7, <1>8, ForgetSourceFields

\* The sources of ss have been destroyed.
LEMMA DestroyFields ==
    ASSUME NEW g \in Graph, NEW ss, NEW h, h = Destroy(g, ss),
           NEW told, told = Told(UNION {g.listeners[s] : s \in ss})
    PROVE  /\ h \in Graph
           /\ h.joined = [l \in Listener |-> IF l \in told THEN None ELSE g.joined[l]]
           /\ h.listeners = [s \in Source |-> IF s \in ss THEN {} ELSE g.listeners[s]]
           /\ h.encoding = g.encoding /\ h.codec = g.codec /\ h.decoding = g.decoding \ told
<1>1. PICK x : x = StopDecoding(g, told)
  OBVIOUS
<1>2. /\ x \in Graph
      /\ x.joined = g.joined /\ x.listeners = g.listeners
      /\ x.encoding = g.encoding /\ x.codec = g.codec /\ x.decoding = g.decoding \ told
  BY <1>1, StopDecodingFields
<1>3. PICK y : y = ForgetSource(x, told)
  OBVIOUS
<1>4. /\ y \in Graph
      /\ y.joined = [l \in Listener |-> IF l \in told THEN None ELSE x.joined[l]]
      /\ y.listeners = x.listeners
      /\ y.encoding = x.encoding /\ y.codec = x.codec /\ y.decoding = x.decoding
  BY <1>2, <1>3, ForgetSourceFields
<1>5. h = [y EXCEPT !.listeners = [s \in Source |-> IF s \in ss THEN {} ELSE @[s]]]
  BY <1>1, <1>3 DEF Destroy, EndStream
<1>6. h = [y EXCEPT !.listeners = [s \in Source |-> IF s \in ss THEN {} ELSE g.listeners[s]]]
  BY <1>2, <1>4, <1>5
<1>7. [s \in Source |-> IF s \in ss THEN {} ELSE g.listeners[s]] \in [Source -> SUBSET Listener]
  BY DEF Graph
<1> QED
  BY <1>2, <1>4, <1>6, <1>7 DEF Graph

-----------------------------------------------------------------------------

\* What several steps of a deletion take away is taken away.
LEMMA SmallerChain ==
    ASSUME NEW f, NEW g, NEW h, Smaller(g, f), Smaller(h, g)
    PROVE  Smaller(h, f)
BY DEF Smaller

\* Listeners leave: the graph still fits, and an encoder stops with its last one.
LEMMA DettachFits ==
    ASSUME NEW g, NEW ids, Fits(g, ids), NEW off, Heard(g, off), NEW ls,
           NEW h, h = Dettach(g, ls)
    PROVE  /\ Fits(h, ids) /\ Heard(h, off) /\ Smaller(h, g)
           /\ \A l \in ls \cap Listener : h.joined[l] = None
<1>1. PICK js : js = Joiners(g, ls)
  OBVIOUS
<1>2. /\ g \in Graph /\ h \in Graph
      /\ h.joined = [l \in Listener |-> IF l \in ls THEN None ELSE g.joined[l]]
      /\ h.listeners = Without(g, js)
      /\ h.encoding = g.encoding \ Unheard(g, js)
      /\ h.codec = g.codec /\ h.decoding = g.decoding \ js
  BY <1>1, DettachFields DEF Fits
<1>3. \A l : l \in js <=> l \in ls /\ g.joined[l] # None
  BY <1>1 DEF Joiners
<1>4. \A l \in Listener : h.joined[l] = IF l \in ls THEN None ELSE g.joined[l]
  BY <1>2
<1>5. \A s \in Source : h.listeners[s] = {l \in g.listeners[s] : ~(l \in js /\ g.joined[l] = s)}
  BY <1>2 DEF Without
<1>6. ASSUME NEW l \in Follower, NEW s \in Source
      PROVE  l \in h.listeners[s] <=> h.joined[l] = s
  BY <1>3, <1>4, <1>5, <1>6, Kinds DEF Fits
<1>7. ASSUME NEW l \in Follower, h.joined[l] # None
      PROVE  l[1] \in ids /\ h.joined[l][1] \in ids
  BY <1>4, <1>7, Kinds DEF Fits
<1>8. ASSUME NEW d \in Coder
      PROVE  d \in h.decoding <=> h.joined[d] # None
  BY <1>2, <1>3, <1>4, <1>8, Kinds DEF Fits
<1>9. Fits(h, ids)
  BY <1>2, <1>6, <1>7, <1>8 DEF Fits
<1>10. ASSUME NEW e \in Coder
       PROVE  /\ e \in h.encoding => h.listeners[e] # {}
              /\ e \notin off /\ h.listeners[e] # {} /\ e \in h.codec => e \in h.encoding
  <2>1. e \in Unheard(g, js) <=> (\E l \in js : g.joined[l] = e) /\ h.listeners[e] = {}
    BY <1>2 DEF Unheard
  <2>2. (\A l \in js : g.joined[l] # e) => h.listeners[e] = g.listeners[e]
    BY <1>5, Kinds
  <2>3. h.listeners[e] \subseteq g.listeners[e]
    BY <1>5, Kinds
  <2> QED
    BY <1>2, <2>1, <2>2, <2>3 DEF Heard
<1>11. Heard(h, off)
  BY <1>10 DEF Heard
<1>12. Smaller(h, g)
  BY <1>2, <1>4, <1>5 DEF Smaller
<1> QED
  BY <1>4, <1>9, <1>11, <1>12

\* Sources whose encoders have stopped are destroyed: nobody has joined them.
LEMMA DestroyFits ==
    ASSUME NEW g, NEW ids, Fits(g, ids), NEW off, Heard(g, off),
           NEW ss \in SUBSET Source, ss \cap g.encoding = {},
           NEW h, h = Destroy(g, ss)
    PROVE  /\ Fits(h, ids) /\ Heard(h, off \ ss) /\ Smaller(h, g)
           /\ \A s \in ss : h.listeners[s] = {}
<1>1. PICK told : told = Told(UNION {g.listeners[s] : s \in ss})
  OBVIOUS
<1>2. /\ g \in Graph /\ h \in Graph
      /\ h.joined = [l \in Listener |-> IF l \in told THEN None ELSE g.joined[l]]
      /\ h.listeners = [s \in Source |-> IF s \in ss THEN {} ELSE g.listeners[s]]
      /\ h.encoding = g.encoding /\ h.codec = g.codec /\ h.decoding = g.decoding \ told
  BY <1>1, DestroyFields DEF Fits
<1>3. \A l \in Follower : l \in told <=> g.joined[l] \in ss
  <2>1. \A l \in Follower : l \in told <=> \E s \in ss : l \in g.listeners[s]
    BY <1>1 DEF Told, Follower
  <2> QED
    BY <2>1 DEF Fits
<1>4. \A l \in Listener : h.joined[l] = IF l \in told THEN None ELSE g.joined[l]
  BY <1>2
<1>5. \A s \in Source : h.listeners[s] = IF s \in ss THEN {} ELSE g.listeners[s]
  BY <1>2
<1>6. ASSUME NEW l \in Follower, NEW s \in Source
      PROVE  l \in h.listeners[s] <=> h.joined[l] = s
  BY <1>3, <1>4, <1>5, <1>6, Kinds DEF Fits
<1>7. ASSUME NEW l \in Follower, h.joined[l] # None
      PROVE  l[1] \in ids /\ h.joined[l][1] \in ids
  BY <1>4, <1>7, Kinds DEF Fits
<1>8. ASSUME NEW d \in Coder
      PROVE  d \in h.decoding <=> h.joined[d] # None
  BY <1>2, <1>3, <1>4, <1>8, Kinds DEF Fits
<1>9. Fits(h, ids)
  BY <1>2, <1>6, <1>7, <1>8 DEF Fits
<1>10. Heard(h, off \ ss)
  BY <1>2, <1>5, Kinds DEF Heard
<1>11. Smaller(h, g)
  BY <1>2, <1>4, <1>5 DEF Smaller
<1> QED
  BY <1>5, <1>9, <1>10, <1>11

\* Encoders are stopped, whoever listens to them.
LEMMA StopEncodingFits ==
    ASSUME NEW g, NEW ids, Fits(g, ids), NEW off, Heard(g, off), NEW es,
           NEW h, h = StopEncoding(g, es)
    PROVE  Fits(h, ids) /\ Heard(h, off \cup es) /\ Smaller(h, g) /\ h.encoding \cap es = {}
<1>1. /\ g \in Graph /\ h \in Graph
      /\ h.joined = g.joined /\ h.listeners = g.listeners
      /\ h.encoding = g.encoding \ es /\ h.codec = g.codec /\ h.decoding = g.decoding
  BY StopEncodingFields DEF Fits
<1>2. Fits(h, ids)
  BY <1>1 DEF Fits
<1>3. Heard(h, off \cup es)
  BY <1>1 DEF Heard
<1> QED
  BY <1>1, <1>2, <1>3 DEF Smaller

\* Ports or transcoders are deleted: nothing is left of them in the graph.
LEMMA DeleteCodersFits ==
    ASSUME NEW g, NEW ids, Fits(g, ids), Heard(g, {}), NEW cs \in SUBSET Coder,
           NEW h, h = DeleteCoders(g, cs)
    PROVE  /\ Fits(h, ids) /\ Heard(h, {}) /\ Smaller(h, g)
           /\ \A c \in cs : /\ h.joined[c] = None /\ h.listeners[c] = {}
                            /\ c \notin h.encoding \cup h.codec
<1>1. PICK x : x = StopEncoding(g, cs)
  OBVIOUS
<1>2. Fits(x, ids) /\ Heard(x, cs) /\ Smaller(x, g) /\ x.encoding \cap cs = {}
  BY <1>1, StopEncodingFits
<1>3. PICK y : y = Dettach(x, cs)
  OBVIOUS
<1>4. /\ Fits(y, ids) /\ Heard(y, cs) /\ Smaller(y, x)
      /\ \A l \in cs : y.joined[l] = None
  BY <1>2, <1>3, DettachFits, Kinds
<1>5. PICK z : z = Destroy(y, cs)
  OBVIOUS
<1>6. cs \in SUBSET Source /\ cs \cap y.encoding = {}
  BY <1>2, <1>4, Kinds DEF Smaller
<1>7. /\ Fits(z, ids) /\ Heard(z, {}) /\ Smaller(z, y)
      /\ \A s \in cs : z.listeners[s] = {}
  BY <1>4, <1>5, <1>6, DestroyFits
<1>8. \A c \in cs : z.joined[c] = None /\ z.listeners[c] = {} /\ c \notin z.encoding
  BY <1>4, <1>6, <1>7, Kinds DEF Smaller
<1>9. h = [z EXCEPT !.codec = @ \ cs, !.packets = @ \ cs, !.frames = @ \ cs]
  BY <1>1, <1>3, <1>5 DEF DeleteCoders
<1>10. /\ h \in Graph /\ z \in Graph
       /\ h.joined = z.joined /\ h.listeners = z.listeners
       /\ h.encoding = z.encoding /\ h.codec = z.codec \ cs /\ h.decoding = z.decoding
  <2>1. z \in Graph
    BY <1>7 DEF Fits
  <2> QED
    BY <1>9, <2>1 DEF Graph
<1>11. Fits(h, ids)
  BY <1>7, <1>10 DEF Fits
<1>12. Heard(h, {})
  BY <1>7, <1>10 DEF Heard
<1>13. Smaller(h, z)
  BY <1>10 DEF Smaller
<1>14. Smaller(h, g)
  BY <1>2, <1>4, <1>7, <1>13, SmallerChain
<1> QED
  BY <1>8, <1>10, <1>11, <1>12, <1>14

-----------------------------------------------------------------------------

\* A listener that has left its source joins another, that may be null.
LEMMA AddListenerFits ==
    ASSUME NEW g, NEW ids, Fits(g, ids), Heard(g, {}),
           NEW l \in Listener, l[1] \in ids, g.joined[l] = None,
           NEW s \in Source, s[1] \in ids,
           NEW h,
           h = LET started == IF l \in Coder THEN StartDecoding(g, l) ELSE g
               IN  AddListener([started EXCEPT !.joined[l] = s], s, l)
    PROVE  Fits(h, ids) /\ Heard(h, {})
<1>1. PICK started : started = IF l \in Coder THEN StartDecoding(g, l) ELSE g
  OBVIOUS
<1>2. /\ g \in Graph /\ started \in Graph
      /\ started.joined = g.joined /\ started.listeners = g.listeners
      /\ started.encoding = g.encoding /\ started.codec = g.codec
      /\ started.decoding = g.decoding \cup ({l} \cap Coder)
  <2>1. g \in Graph
    BY DEF Fits
  <2>2. PICK x : x = StopDecoding(g, {l})
    OBVIOUS
  <2>3. /\ x \in Graph
        /\ x.joined = g.joined /\ x.listeners = g.listeners
        /\ x.encoding = g.encoding /\ x.codec = g.codec /\ x.decoding = g.decoding \ {l}
    BY <2>1, <2>2, StopDecodingFields
  <2>4. CASE l \in Coder
    <3>1. started = [x EXCEPT !.decoding = @ \cup {l}]
      BY <1>1, <2>2, <2>4 DEF StartDecoding
    <3> QED
      BY <2>1, <2>3, <2>4, <3>1 DEF Graph
  <2>5. CASE l \notin Coder
    BY <1>1, <2>1, <2>5
  <2> QED
    BY <2>4, <2>5
<1>3. PICK x : x = [started EXCEPT !.joined[l] = s]
  OBVIOUS
<1>4. /\ x \in Graph
      /\ x.joined = [g.joined EXCEPT ![l] = s] /\ x.listeners = g.listeners
      /\ x.encoding = g.encoding /\ x.codec = g.codec
      /\ x.decoding = g.decoding \cup ({l} \cap Coder)
  BY <1>2, <1>3 DEF Graph
<1>5. PICK starts \in BOOLEAN :
         starts <=> s \in Coder \ g.encoding /\ (s \in Video \/ s \in g.codec)
  OBVIOUS
<1>6. PICK ready : ready = IF starts THEN StartEncoding(x, s) ELSE x
  OBVIOUS
<1>7. /\ ready \in Graph
      /\ ready.joined = x.joined /\ ready.listeners = x.listeners
      /\ ready.codec = x.codec /\ ready.decoding = x.decoding
      /\ ready.encoding = IF starts THEN g.encoding \cup {s} ELSE g.encoding
  <2>1. PICK y : y = StopEncoding(x, {s})
    OBVIOUS
  <2>2. /\ y \in Graph
        /\ y.joined = x.joined /\ y.listeners = x.listeners
        /\ y.encoding = x.encoding \ {s} /\ y.codec = x.codec /\ y.decoding = x.decoding
    BY <1>4, <2>1, StopEncodingFields
  <2>3. CASE starts
    <3>1. ready = [y EXCEPT !.encoding = @ \cup {s}]
      BY <1>6, <2>1, <2>3 DEF StartEncoding
    <3>2. s \in Coder
      BY <1>5, <2>3
    <3> QED
      BY <1>4, <2>2, <2>3, <3>1, <3>2 DEF Graph
  <2>4. CASE ~starts
    BY <1>4, <1>6, <2>4
  <2> QED
    BY <2>3, <2>4
<1>8. PICK r : r = Reset(ready, l)
  OBVIOUS
<1>9. /\ r \in Graph
      /\ r.joined = ready.joined /\ r.listeners = ready.listeners
      /\ r.codec = ready.codec /\ r.decoding = ready.decoding /\ r.encoding = ready.encoding
  BY <1>7, <1>8 DEF Reset, Graph
<1>10. h = [r EXCEPT !.listeners[s] = @ \cup {l}]
  <2>1. h = AddListener(x, s, l)
    BY <1>1, <1>3
  <2>2. starts <=> s \in Coder \ x.encoding /\ (s \in Video \/ s \in x.codec)
    BY <1>4, <1>5
  <2> QED
    BY <1>6, <1>8, <2>1, <2>2 DEF AddListener
<1>11. /\ h \in Graph
       /\ h.joined = [g.joined EXCEPT ![l] = s]
       /\ h.listeners = [g.listeners EXCEPT ![s] = @ \cup {l}]
       /\ h.codec = g.codec /\ h.decoding = g.decoding \cup ({l} \cap Coder)
       /\ h.encoding = IF starts THEN g.encoding \cup {s} ELSE g.encoding
  <2>1. h.listeners = [r.listeners EXCEPT ![s] = @ \cup {l}] /\ h.listeners \in [Source -> SUBSET Listener]
    <3>1. PICK ls : ls = [r.listeners EXCEPT ![s] = @ \cup {l}]
      OBVIOUS
    <3>2. r.listeners \in [Source -> SUBSET Listener]
      BY <1>9 DEF Graph
    <3>3. ls \in [Source -> SUBSET Listener]
      BY <3>1, <3>2
    <3>4. h = [r EXCEPT !.listeners = ls]
      BY <1>10, <3>1
    <3> QED
      BY <1>9, <3>1, <3>3, <3>4 DEF Graph
  <2>2. /\ h.joined = r.joined /\ h.codec = r.codec /\ h.decoding = r.decoding
        /\ h.encoding = r.encoding /\ h \in Graph
    BY <1>9, <1>10, <2>1 DEF Graph
  <2> QED
    BY <1>4, <1>7, <1>9, <2>1, <2>2
<1>12. \A k \in Listener : h.joined[k] = IF k = l THEN s ELSE g.joined[k]
  BY <1>2, <1>11 DEF Graph
<1>13. \A q \in Source : h.listeners[q] = IF q = s THEN g.listeners[q] \cup {l} ELSE g.listeners[q]
  BY <1>2, <1>11 DEF Graph
<1>14. ASSUME NEW k \in Follower, NEW q \in Source
       PROVE  k \in h.listeners[q] <=> h.joined[k] = q
  <2>1. k \in g.listeners[q] <=> g.joined[k] = q
    BY DEF Fits
  <2>2. h.joined[k] = IF k = l THEN s ELSE g.joined[k]
    BY <1>12, Kinds
  <2>3. q # None
    BY Kinds
  <2> QED
    BY <1>13, <2>1, <2>2, <2>3
<1>15. ASSUME NEW k \in Follower, h.joined[k] # None
       PROVE  k[1] \in ids /\ h.joined[k][1] \in ids
  BY <1>12, <1>15, Kinds DEF Fits
<1>16. ASSUME NEW d \in Coder
       PROVE  d \in h.decoding <=> h.joined[d] # None
  BY <1>11, <1>12, <1>16, Kinds DEF Fits
<1>17. ASSUME NEW c \in h.encoding \cup h.codec
       PROVE  c[1] \in ids
  BY <1>11, <1>17 DEF Fits
<1>18. Fits(h, ids)
  BY <1>11, <1>14, <1>15, <1>16, <1>17 DEF Fits
<1>19. Heard(h, {})
  BY <1>5, <1>11, <1>13, Kinds DEF Heard
<1> QED
  BY <1>18, <1>19

\* A listener leaves the source it has joined and joins another, or none.
LEMMA AttachFits ==
    ASSUME NEW g, NEW ids, Fits(g, ids), Heard(g, {}),
           NEW l \in Listener, l[1] \in ids,
           NEW s \in Source \cup {None}, s # None => s[1] \in ids,
           NEW h, h = Attach(g, l, s)
    PROVE  Fits(h, ids) /\ Heard(h, {})
<1>1. PICK left : left = Dettach(g, {l})
  OBVIOUS
<1>2. Fits(left, ids) /\ Heard(left, {}) /\ left.joined[l] = None
  BY <1>1, DettachFits
<1>3. CASE s = None
  BY <1>1, <1>2, <1>3 DEF Attach
<1>4. CASE s # None
  <2>1. s \in Source /\ s[1] \in ids
    BY <1>4
  <2>2. h = LET started == IF l \in Coder THEN StartDecoding(left, l) ELSE left
            IN  AddListener([started EXCEPT !.joined[l] = s], s, l)
    BY <1>1, <1>4 DEF Attach
  <2> QED
    BY <1>2, <2>1, <2>2, AddListenerFits
<1> QED
  BY <1>3, <1>4

\* An encoder is given a codec.
LEMMA SetCodecFits ==
    ASSUME NEW g, NEW ids, Fits(g, ids), Heard(g, {}), NEW c \in Coder, c[1] \in ids,
           NEW h, h = SetCodec(g, c)
    PROVE  Fits(h, ids) /\ Heard(h, {})
<1>1. g \in Graph
  BY DEF Fits
<1>2. PICK set : set = [g EXCEPT !.codec = @ \cup {c}]
  OBVIOUS
<1>3. /\ set \in Graph
      /\ set.joined = g.joined /\ set.listeners = g.listeners
      /\ set.encoding = g.encoding /\ set.codec = g.codec \cup {c} /\ set.decoding = g.decoding
  BY <1>1, <1>2 DEF Graph
<1>4. PICK y : y = StopEncoding(set, {c})
  OBVIOUS
<1>5. /\ y \in Graph
      /\ y.joined = set.joined /\ y.listeners = set.listeners
      /\ y.encoding = set.encoding \ {c} /\ y.codec = set.codec /\ y.decoding = set.decoding
  BY <1>3, <1>4, StopEncodingFields
<1>6. PICK starts \in BOOLEAN : starts <=> g.listeners[c] # {} /\ (c \in Video \/ c \notin g.encoding)
  OBVIOUS
<1>7. h = IF starts THEN [y EXCEPT !.encoding = @ \cup {c}] ELSE set
  BY <1>2, <1>4, <1>6 DEF SetCodec, StartEncoding
<1>8. /\ h \in Graph
      /\ h.joined = g.joined /\ h.listeners = g.listeners
      /\ h.encoding = (IF starts THEN g.encoding \cup {c} ELSE g.encoding)
      /\ h.codec = g.codec \cup {c} /\ h.decoding = g.decoding
  <2>1. CASE starts
    BY <1>3, <1>5, <1>7, <2>1 DEF Graph
  <2>2. CASE ~starts
    BY <1>3, <1>7, <2>2
  <2> QED
    BY <2>1, <2>2
<1>9. ASSUME NEW e \in h.encoding \cup h.codec
      PROVE  e[1] \in ids
  BY <1>8, <1>9 DEF Fits
<1>10. Fits(h, ids)
  BY <1>8, <1>9 DEF Fits
<1>11. Heard(h, {})
  BY <1>6, <1>8 DEF Heard
<1> QED
  BY <1>10, <1>11

\* What a thread does to the queues of the coders
LEMMA QueuesFit ==
    ASSUME NEW g, NEW ids, Fits(g, ids), Heard(g, {}), NEW h, h \in Graph,
           h.joined = g.joined, h.listeners = g.listeners, h.encoding = g.encoding,
           h.codec = g.codec, h.decoding = g.decoding
    PROVE  Fits(h, ids) /\ Heard(h, {})
BY DEF Fits, Heard

\* Objects to which no join leads, and whose threads have ended, are erased.
LEMMA EraseFits ==
    ASSUME NEW g, NEW ids, Fits(g, ids), NEW dead,
           \A l \in Follower : l[1] \in dead => g.joined[l] = None,
           \A s \in Source : s[1] \in dead => g.listeners[s] = {},
           \A c \in Coder : c[1] \in dead => c \notin g.encoding \cup g.codec
    PROVE  Fits(g, ids \ dead)
<1>1. g \in Graph
  BY DEF Fits
<1>2. ASSUME NEW l \in Follower, g.joined[l] # None
      PROVE  l[1] \in ids \ dead /\ g.joined[l][1] \in ids \ dead
  <2>1. g.joined[l] \in Source
    BY <1>1, <1>2, Kinds DEF Graph
  <2>2. l \in g.listeners[g.joined[l]]
    BY <2>1 DEF Fits
  <2> QED
    BY <1>2, <2>1, <2>2 DEF Fits
<1>3. \A c \in g.encoding \cup g.codec : c[1] \in ids \ dead
  BY <1>1 DEF Fits, Graph
<1> QED
  BY <1>2, <1>3 DEF Fits

-----------------------------------------------------------------------------

\* The object of a port or a transcoder is its only one.
LEMMA OneCoder ==
    ASSUME NEW c \in Port \cup Transcoder
    PROVE  AsCoder(c) \in Coder /\ \A s \in Coder : s[1] = c <=> s = AsCoder(c)
<1>1. \E s \in Coder : s[1] = c
  <2>1. CASE c \in AudioPort
    <3>1. <<c, "audio">> \in Coder
      BY <2>1 DEF Coder
    <3> QED
      BY <3>1
  <2>2. CASE c \in VideoPort \cup Transcoder
    <3>1. <<c, "video">> \in Coder
      BY <2>2 DEF Coder, Video
    <3> QED
      BY <3>1
  <2> QED
    BY <2>1, <2>2 DEF Port
<1>2. AsCoder(c) \in Coder /\ AsCoder(c)[1] = c
  BY <1>1 DEF AsCoder
<1>3. ASSUME NEW s \in Coder, NEW q \in Coder, s[1] = q[1]
      PROVE  s = q
  BY <1>3, JoinablesAssumption DEF Coder, Video
<1> QED
  BY <1>2, <1>3

\* The objects of endpoints, players and recorders are their streams.
LEMMA OnlyStreams ==
    ASSUME NEW id \in Endpoint \cup Player \cup Recorder
    PROVE  /\ \A s \in Source \cup Listener : s[1] = id => s \in StreamsOf({id})
           /\ \A c \in Coder : c[1] # id
           /\ id \in Endpoint => StreamsOf({id}) \subseteq Source \cap Follower
           /\ id \in Player => StreamsOf({id}) \subseteq Source /\ \A l \in Listener : l[1] # id
           /\ id \in Recorder => StreamsOf({id}) \subseteq Listener \ Follower
BY JoinablesAssumption DEF Source, Listener, Follower, Coder, Video, StreamsOf

\* A new session
LEMMA SessionInitKeeps == SessionInit => SessionInv
<1> SUFFICES ASSUME SessionInit PROVE SessionInv
  OBVIOUS
<1>1. /\ graph \in Graph
      /\ graph.joined = [l \in Listener |-> None] /\ graph.listeners = [s \in Source |-> {}]
      /\ graph.encoding = {} /\ graph.codec = {} /\ graph.decoding = {}
  BY DEF SessionInit, NoJoins, Graph
<1>2. Fits(graph, alive)
  BY <1>1, Kinds DEF Fits
<1> QED
  BY <1>1, <1>2, Kinds DEF SessionInv, Heard

\* Something is created: nothing is joined to it yet.
LEMMA CreateKeeps ==
    ASSUME SessionInv, NEW id, Create(id)
    PROVE  SessionInv'
BY DEF SessionInv, Create, Fits, Heard

\* An endpoint leaves what it has joined before its streams are destroyed.
LEMMA EndpointDeleteKeeps ==
    ASSUME SessionInv, NEW e \in Endpoint, EndpointDelete(e)
    PROVE  SessionInv'
<1>1. PICK ss : ss = StreamsOf({e})
  OBVIOUS
<1>2. PICK x : x = Dettach(graph, ss)
  OBVIOUS
<1>3. ss \in SUBSET Source /\ ss \subseteq Follower /\ ss \subseteq Listener /\ ss \cap Coder = {}
  BY <1>1, OnlyStreams, Kinds, JoinablesAssumption DEF StreamsOf, Coder, Video
<1>4. /\ Fits(x, alive) /\ Heard(x, {}) /\ Smaller(x, graph)
      /\ \A l \in ss : x.joined[l] = None
  BY <1>2, <1>3, DettachFits DEF SessionInv
<1>5. alive' = alive \ {e} /\ graph' = Destroy(x, ss)
  BY <1>1, <1>2 DEF EndpointDelete, Erase, DeleteEndpoint
<1>6. ss \cap x.encoding = {}
  BY <1>3, <1>4 DEF Fits, Graph
<1>7. /\ Fits(graph', alive) /\ Heard(graph', {}) /\ Smaller(graph', x)
      /\ \A s \in ss : graph'.listeners[s] = {}
  BY <1>3, <1>4, <1>5, <1>6, DestroyFits
<1>8. \A l \in ss : graph'.joined[l] = None
  BY <1>3, <1>4, <1>7 DEF Smaller
<1>9. Fits(graph', alive \ {e})
  BY <1>1, <1>7, <1>8, OnlyStreams, EraseFits, Kinds
<1> QED
  BY <1>5, <1>7, <1>9 DEF SessionInv

\* A player has joined nothing.
LEMMA PlayerDeleteKeeps ==
    ASSUME SessionInv, NEW p \in Player, PlayerDelete(p)
    PROVE  SessionInv'
<1>1. PICK ss : ss = StreamsOf({p})
  OBVIOUS
<1>2. ss \in SUBSET Source /\ ss \cap Coder = {}
  BY <1>1, OnlyStreams, JoinablesAssumption DEF StreamsOf, Coder, Video
<1>3. alive' = alive \ {p} /\ graph' = Destroy(graph, ss)
  BY <1>1 DEF PlayerDelete, Erase
<1>4. ss \cap graph.encoding = {}
  BY <1>2 DEF SessionInv, Fits, Graph
<1>5. /\ Fits(graph', alive) /\ Heard(graph', {})
      /\ \A s \in ss : graph'.listeners[s] = {}
  BY <1>2, <1>3, <1>4, DestroyFits DEF SessionInv
<1>6. Fits(graph', alive \ {p})
  BY <1>1, <1>5, OnlyStreams, EraseFits, Kinds
<1> QED
  BY <1>3, <1>5, <1>6 DEF SessionInv

\* A recorder goes without a word to its sources: they keep it as a listener.
LEMMA RecorderDeleteKeeps ==
    ASSUME SessionInv, NEW r \in Recorder, RecorderDelete(r)
    PROVE  SessionInv'
<1>1. PICK ls : ls = StreamsOf({r})
  OBVIOUS
<1>2. ls \cap Follower = {}
  BY <1>1, OnlyStreams
<1>3. alive' = alive \ {r} /\ graph' = ForgetSource(graph, ls)
  BY <1>1 DEF RecorderDelete, Erase
<1>4. graph \in Graph
  BY DEF SessionInv, Fits
<1>5. /\ graph' \in Graph
      /\ graph'.joined = [l \in Listener |-> IF l \in ls THEN None ELSE graph.joined[l]]
      /\ graph'.listeners = graph.listeners
      /\ graph'.encoding = graph.encoding /\ graph'.codec = graph.codec
      /\ graph'.decoding = graph.decoding
  BY <1>3, <1>4, ForgetSourceFields
<1>6. \A l \in Follower : graph'.joined[l] = graph.joined[l]
  BY <1>2, <1>5, Kinds
<1>7. Fits(graph', alive)
  BY <1>5, <1>6, Kinds DEF SessionInv, Fits
<1>8. /\ \A l \in Follower : l[1] # r
      /\ \A s \in Source : s[1] # r
      /\ \A c \in Coder : c[1] # r
  BY OnlyStreams, Kinds DEF Follower
<1>9. Fits(graph', alive \ {r})
  BY <1>7, <1>8, EraseFits
<1> QED
  BY <1>3, <1>5, <1>9 DEF SessionInv, Heard

\* Ports or transcoders are erased, and their mixer with them.
LEMMA CodersErased ==
    ASSUME SessionInv, NEW ids \in SUBSET (Port \cup Transcoder), NEW ms \in SUBSET Mixer,
           alive' = alive \ (ids \cup ms), graph' = DeleteCoders(graph, {AsCoder(c) : c \in ids})
    PROVE  SessionInv'
<1>1. PICK cs : cs = {AsCoder(c) : c \in ids}
  OBVIOUS
<1>2. cs \in SUBSET Coder
  BY <1>1, OneCoder
<1>3. /\ Fits(graph', alive) /\ Heard(graph', {})
      /\ \A c \in cs : /\ graph'.joined[c] = None /\ graph'.listeners[c] = {}
                       /\ c \notin graph'.encoding \cup graph'.codec
  BY <1>1, <1>2, DeleteCodersFits DEF SessionInv
<1>4. ASSUME NEW s \in Source \cup Follower, s[1] \in ids \cup ms
      PROVE  s \in cs
  <2>1. s[1] \in Port \cup Transcoder
    <3>1. s[1] \in Endpoint \cup Player \cup Recorder \cup Port \cup Transcoder
      BY JoinablesAssumption DEF Source, Follower, Listener, StreamsOf, Coder, Video, Port
    <3> QED
      BY <1>4, <3>1, SessionAssumption
  <2>2. s[1] \in ids
    BY <1>4, <2>1, SessionAssumption
  <2>3. s \in Coder
    BY <2>1, JoinablesAssumption DEF Source, Follower, Listener, StreamsOf, Port
  <2> QED
    BY <1>1, <2>1, <2>2, <2>3, OneCoder
<1>5. Fits(graph', alive \ (ids \cup ms))
  BY <1>3, <1>4, EraseFits, Kinds
<1> QED
  BY <1>3, <1>5 DEF SessionInv

\* The session ends, in the four loops of MediaSession::End.
LEMMA EndKeeps ==
    ASSUME SessionInv, End
    PROVE  SessionInv'
<1>1. PICK es : es = StreamsOf(alive \cap Endpoint)
  OBVIOUS
<1>2. PICK ps : ps = StreamsOf(alive \cap Player)
  OBVIOUS
<1>3. PICK ts : ts = (alive \cap Transcoder) \X {"video"}
  OBVIOUS
<1>4. /\ es \in SUBSET Source /\ ps \in SUBSET Source /\ ts \in SUBSET Coder
      /\ es \subseteq Listener /\ es \cap Coder = {} /\ ps \cap Coder = {}
  BY <1>1, <1>2, <1>3, JoinablesAssumption DEF StreamsOf, Source, Listener, Coder, Video
<1>5. PICK ended : ended = Dettach(graph, es)
  OBVIOUS
<1>6. /\ Fits(ended, alive) /\ Heard(ended, {})
      /\ \A l \in es : ended.joined[l] = None
  BY <1>4, <1>5, DettachFits DEF SessionInv
<1>7. PICK players : players = Destroy(ended, ps)
  OBVIOUS
<1>8. ps \cap ended.encoding = {}
  BY <1>4, <1>6 DEF Fits, Graph
<1>9. /\ Fits(players, alive) /\ Heard(players, {}) /\ Smaller(players, ended)
      /\ \A s \in ps : players.listeners[s] = {}
  BY <1>4, <1>6, <1>7, <1>8, DestroyFits
<1>10. PICK coders : coders = DeleteCoders(players, ts)
  OBVIOUS
<1>11. /\ Fits(coders, alive) /\ Heard(coders, {}) /\ Smaller(coders, players)
       /\ \A c \in ts : /\ coders.joined[c] = None /\ coders.listeners[c] = {}
                        /\ c \notin coders.encoding \cup coders.codec
  BY <1>4, <1>9, <1>10, DeleteCodersFits
<1>12. graph' = Destroy(coders, es) /\ alive' = alive \ (alive \ (Port \cup Mixer))
  BY <1>1, <1>2, <1>3, <1>5, <1>7, <1>10 DEF End, Erase, EndSession
<1>13. es \cap coders.encoding = {}
  BY <1>4, <1>11 DEF Fits, Graph
<1>14. /\ Fits(graph', alive) /\ Heard(graph', {}) /\ Smaller(graph', coders)
       /\ \A s \in es : graph'.listeners[s] = {}
  BY <1>4, <1>11, <1>12, <1>13, DestroyFits
<1>15. Smaller(graph', ended)
  BY <1>9, <1>11, <1>14, SmallerChain
<1>16. /\ \A l \in es \cup ts : graph'.joined[l] = None
       /\ \A s \in es \cup ps \cup ts : graph'.listeners[s] = {}
       /\ \A c \in ts : c \notin graph'.encoding \cup graph'.codec
  <2>1. ts \subseteq Listener /\ ts \subseteq Source
    BY <1>4, Kinds
  <2>2. Smaller(graph', players)
    BY <1>11, <1>14, SmallerChain
  <2>3. \A l \in es : graph'.joined[l] = None
    BY <1>4, <1>6, <1>15 DEF Smaller
  <2>4. \A l \in ts : graph'.joined[l] = None
    BY <1>11, <1>14, <2>1 DEF Smaller
  <2>5. \A s \in ps : graph'.listeners[s] = {}
    BY <1>4, <1>9, <2>2 DEF Smaller
  <2>6. \A s \in ts : graph'.listeners[s] = {}
    BY <1>11, <1>14, <2>1 DEF Smaller
  <2>7. \A c \in ts : c \notin graph'.encoding \cup graph'.codec
    BY <1>11, <1>14 DEF Smaller
  <2> QED
    BY <1>14, <2>3, <2>4, <2>5, <2>6, <2>7
<1>17. PICK dead : dead = alive \ (Port \cup Mixer)
  OBVIOUS
<1>18. ASSUME NEW s \in Source \cup Follower, s[1] \in dead
       PROVE  s \in es \cup ps \cup ts /\ (s \in Follower => s \in es \cup ts) /\ (s \in Coder => s \in ts)
  BY <1>1, <1>2, <1>3, <1>17, <1>18, JoinablesAssumption
     DEF Source, Follower, Listener, StreamsOf, Coder, Video, Port
<1>19. Fits(graph', alive \ dead)
  BY <1>14, <1>16, <1>18, EraseFits, Kinds
<1> QED
  BY <1>12, <1>14, <1>17, <1>19 DEF SessionInv

\* A source that is there is joined, or none.
LEMMA JoinKeeps ==
    ASSUME SessionInv, NEW l, NEW s \in Source \cup {None}, s # None => s[1] \in alive, Join(l, s)
    PROVE  SessionInv'
BY AttachFits DEF SessionInv, Join

\* What a call finds of an endpoint or a port
LEMMA Joinable ==
    /\ \A e \in Endpoint \cap alive, m \in Media :
          GetJoinable(e, m) # None => GetJoinable(e, m) \in Source /\ GetJoinable(e, m)[1] \in alive
    /\ \A p \in Port : PortSource(p) # None => PortSource(p) \in Source /\ PortSource(p)[1] \in alive
<1>1. ASSUME NEW e \in Endpoint \cap alive, NEW m \in Media, GetJoinable(e, m) # None
      PROVE  GetJoinable(e, m) \in Source /\ GetJoinable(e, m)[1] \in alive
  <2>1. PICK s \in Streams : s = GetJoinable(e, m) /\ s[1] = e
    BY <1>1 DEF GetJoinable
  <2> QED
    BY <2>1 DEF Source, StreamsOf
<1>2. ASSUME NEW p \in Port, PortSource(p) # None
      PROVE  PortSource(p) \in Source /\ PortSource(p)[1] \in alive
  BY <1>2, OneCoder, Kinds DEF PortSource
<1> QED
  BY <1>1, <1>2

\* A listener of an object that is there joins what the call finds.
LEMMA JoinSteps ==
    ASSUME SessionInv,
           \/ \E e \in Endpoint, p \in Player, m \in Media : EndpointAttachToPlayer(e, p, m)
           \/ \E e, s \in Endpoint, m \in Media : EndpointAttachToEndpoint(e, s, m)
           \/ \E e \in Endpoint, p \in Port : EndpointAttachToPort(e, p) \/ PortAttachToEndpoint(p, e)
           \/ \E e \in Endpoint, t \in Transcoder :
                 EndpointAttachToVideoTranscoder(e, t) \/ VideoTranscoderAttachToEndpoint(t, e)
           \/ \E p \in Port, q \in Player : PortAttachToPlayer(p, q)
           \/ \E r \in Recorder, e \in Endpoint, m \in Media : RecorderAttachToEndpoint(r, e, m)
           \/ \E r \in Recorder, p \in Port : RecorderAttachToPort(r, p)
           \/ \E r \in Recorder, m \in Media : RecorderDettach(r, m)
           \/ \E l \in Listener : DettachFrom(l)
    PROVE  SessionInv'
<1> DEFINE Found(s) == s \in Source \cup {None} /\ (s # None => s[1] \in alive)
<1>1. \A l, s : Found(s) /\ Join(l, s) => SessionInv'
  BY JoinKeeps
<1>2. \A e \in Endpoint \cap alive, m \in Media : Found(GetJoinable(e, m))
  BY Joinable
<1>3. \A p \in Port : Found(PortSource(p)) /\ AsCoder(p)[2] \in Media
  <2>1. \A p \in Port : AsCoder(p) \in Coder
    BY OneCoder
  <2>2. \A c \in Coder : c[2] \in Media
    BY DEF Coder, Video, Media
  <2> QED
    BY <2>1, <2>2, Joinable
<1>4. \A p \in Player \cap alive, m \in Media : <<p, m>> \in Streams => Found(<<p, m>>)
  BY DEF Source, StreamsOf
<1>5. \A t \in Transcoder \cap alive : Found(AsCoder(t))
  BY OneCoder, Kinds
<1>6. Found(None) /\ "video" \in Media
  BY DEF Media
<1> HIDE DEF Found
<1>7. ASSUME NEW e \in Endpoint, NEW p \in Player, NEW m \in Media, EndpointAttachToPlayer(e, p, m)
      PROVE  SessionInv'
  BY <1>1, <1>4, <1>7 DEF EndpointAttachToPlayer
<1>8. ASSUME NEW e \in Endpoint, NEW s \in Endpoint, NEW m \in Media, EndpointAttachToEndpoint(e, s, m)
      PROVE  SessionInv'
  BY <1>1, <1>2, <1>8 DEF EndpointAttachToEndpoint
<1>9. ASSUME NEW e \in Endpoint, NEW p \in Port, EndpointAttachToPort(e, p) \/ PortAttachToEndpoint(p, e)
      PROVE  SessionInv'
  BY <1>1, <1>2, <1>3, <1>9 DEF EndpointAttachToPort, PortAttachToEndpoint
<1>10. ASSUME NEW e \in Endpoint, NEW t \in Transcoder,
              EndpointAttachToVideoTranscoder(e, t) \/ VideoTranscoderAttachToEndpoint(t, e)
       PROVE  SessionInv'
  BY <1>1, <1>2, <1>5, <1>6, <1>10 DEF EndpointAttachToVideoTranscoder, VideoTranscoderAttachToEndpoint
<1>11. ASSUME NEW p \in Port, NEW q \in Player, PortAttachToPlayer(p, q)
       PROVE  SessionInv'
  BY <1>1, <1>3, <1>4, <1>11 DEF PortAttachToPlayer
<1>12. ASSUME NEW r \in Recorder, NEW e \in Endpoint, NEW m \in Media, RecorderAttachToEndpoint(r, e, m)
       PROVE  SessionInv'
  BY <1>1, <1>2, <1>12 DEF RecorderAttachToEndpoint
<1>13. ASSUME NEW r \in Recorder, NEW p \in Port, RecorderAttachToPort(r, p)
       PROVE  SessionInv'
  BY <1>1, <1>3, <1>13 DEF RecorderAttachToPort
<1>14. ASSUME NEW r \in Recorder, NEW m \in Media, RecorderDettach(r, m)
       PROVE  SessionInv'
  BY <1>1, <1>6, <1>14 DEF RecorderDettach
<1>15. ASSUME NEW l \in Listener, DettachFrom(l)
       PROVE  SessionInv'
  BY <1>1, <1>6, <1>15 DEF DettachFrom
<1> QED
  BY <1>7, <1>8, <1>9, <1>10, <1>11, <1>12, <1>13, <1>14, <1>15

\* A packet goes through the session: the joins and the threads stay as they are.
LEMMA ThreadSteps ==
    ASSUME SessionInv,
           \/ \E s \in Source : Receive(s)
           \/ \E c \in Coder : Encode(c) \/ Smooth(c) \/ Decode(c)
    PROVE  SessionInv'
<1>1. graph \in Graph /\ alive' = alive
  BY DEF SessionInv, Fits, Receive, Encode, Smooth, Decode
<1>2. \A s \in Source : \A x : x = Multiplex(graph, s) =>
          /\ x \in Graph /\ x.joined = graph.joined /\ x.listeners = graph.listeners
          /\ x.encoding = graph.encoding /\ x.codec = graph.codec /\ x.decoding = graph.decoding
  BY <1>1 DEF Multiplex, Graph
<1>3. \A ps, fs : ps \subseteq graph.packets /\ fs \subseteq Coder =>
          \A x : x = [graph EXCEPT !.packets = ps] \/ x = [graph EXCEPT !.frames = fs] =>
             /\ x \in Graph /\ x.joined = graph.joined /\ x.listeners = graph.listeners
             /\ x.encoding = graph.encoding /\ x.codec = graph.codec /\ x.decoding = graph.decoding
  BY <1>1 DEF Graph
<1>4. /\ graph' \in Graph
      /\ graph'.joined = graph.joined /\ graph'.listeners = graph.listeners
      /\ graph'.encoding = graph.encoding /\ graph'.codec = graph.codec
      /\ graph'.decoding = graph.decoding
  <2>1. ASSUME NEW s \in Source, Receive(s) PROVE <1>4!:
    BY <1>2, <2>1 DEF Receive
  <2>2. ASSUME NEW c \in Coder, Encode(c) PROVE <1>4!:
    <3>1. CASE c \in Video
      <4>1. graph' = [graph EXCEPT !.frames = @ \cup {c}]
        BY <2>2, <3>1 DEF Encode
      <4> QED
        BY <1>1, <4>1 DEF Graph
    <3>2. CASE c \notin Video
      BY <1>2, <2>2, <3>2, Kinds DEF Encode
    <3> QED
      BY <3>1, <3>2
  <2>3. ASSUME NEW c \in Coder, Smooth(c) PROVE <1>4!:
    <3>1. PICK x : x = Multiplex(graph, c)
      OBVIOUS
    <3>2. graph' = [x EXCEPT !.frames = @ \ {c}]
      BY <2>3, <3>1 DEF Smooth
    <3>3. /\ x \in Graph /\ x.joined = graph.joined /\ x.listeners = graph.listeners
          /\ x.encoding = graph.encoding /\ x.codec = graph.codec /\ x.decoding = graph.decoding
      BY <1>2, <3>1, Kinds
    <3> QED
      BY <3>2, <3>3 DEF Graph
  <2>4. ASSUME NEW c \in Coder, Decode(c) PROVE <1>4!:
    <3>1. graph' = [graph EXCEPT !.packets = @ \ {c}]
      BY <2>4 DEF Decode
    <3> QED
      BY <1>1, <3>1 DEF Graph
  <2> QED
    BY <2>1, <2>2, <2>3, <2>4
<1> QED
  BY <1>1, <1>4, QueuesFit DEF SessionInv

\* The invariant is inductive.
LEMMA SessionInvStep == SessionInv /\ [SessionNext]_sessionVars => SessionInv'
<1> SUFFICES ASSUME SessionInv, [SessionNext]_sessionVars PROVE SessionInv'
  OBVIOUS
<1>1. CASE UNCHANGED sessionVars
  BY <1>1 DEF sessionVars, SessionInv, Fits, Heard
<1>2. ASSUME NEW t \in Transcoder, VideoTranscoderDelete(t)
      PROVE  SessionInv'
  <2>1. /\ {t} \in SUBSET (Port \cup Transcoder) /\ {} \in SUBSET Mixer
        /\ alive' = alive \ ({t} \cup {})
        /\ graph' = DeleteCoders(graph, {AsCoder(c) : c \in {t}})
    <3>1. {AsCoder(c) : c \in {t}} = {AsCoder(t)}
      OBVIOUS
    <3> QED
      BY <1>2, <3>1 DEF VideoTranscoderDelete, Erase
  <2> QED
    BY <2>1, CodersErased
<1>3. ASSUME NEW p \in Port, PortDelete(p)
      PROVE  SessionInv'
  <2>1. /\ {p} \in SUBSET (Port \cup Transcoder) /\ {} \in SUBSET Mixer
        /\ alive' = alive \ ({p} \cup {})
        /\ graph' = DeleteCoders(graph, {AsCoder(c) : c \in {p}})
    <3>1. {AsCoder(c) : c \in {p}} = {AsCoder(p)}
      OBVIOUS
    <3> QED
      BY <1>3, <3>1 DEF PortDelete, Erase
  <2> QED
    BY <2>1, CodersErased
<1>4. ASSUME NEW m \in Mixer, MixerDelete(m)
      PROVE  SessionInv'
  <2>1. PICK ports : ports = {p \in Port \cap alive : MixerOf(p) = m}
    OBVIOUS
  <2>2. alive' = alive \ (ports \cup {m}) /\ graph' = DeleteCoders(graph, {AsCoder(c) : c \in ports})
    <3>1. {m} \cup ports = ports \cup {m}
      OBVIOUS
    <3> QED
      BY <1>4, <2>1, <3>1 DEF MixerDelete, Erase
  <2>3. ports \in SUBSET (Port \cup Transcoder) /\ {m} \in SUBSET Mixer
    BY <2>1
  <2> QED
    BY <2>2, <2>3, CodersErased
<1>5. ASSUME NEW c \in Coder, CoderSetCodec(c)
      PROVE  SessionInv'
  BY <1>5, SetCodecFits DEF CoderSetCodec, SessionInv
<1>6. CASE \/ \E s \in Source : Receive(s)
           \/ \E c \in Coder : Encode(c) \/ Smooth(c) \/ Decode(c)
  BY <1>6, ThreadSteps
<1>7. CASE \/ \E id \in Id : Create(id)
           \/ \E e \in Endpoint : EndpointDelete(e)
           \/ \E p \in Player : PlayerDelete(p)
           \/ \E r \in Recorder : RecorderDelete(r)
           \/ End
  BY <1>7, CreateKeeps, EndpointDeleteKeeps, PlayerDeleteKeeps, RecorderDeleteKeeps, EndKeeps
<1> QED
  BY <1>1, <1>2, <1>3, <1>4, <1>5, <1>6, <1>7, JoinSteps DEF SessionNext

\* Hence it holds of every session.
LEMMA SessionInvariant == SessionSpec => []SessionInv
BY SessionInitKeeps, SessionInvStep, PTL DEF SessionSpec

-----------------------------------------------------------------------------

\* RTPMultiplexer.cpp: for any endpoints, players, recorders, ports and
\* transcoders, a source has as listeners exactly those that have joined it, and
\* no pointer is left to an object that has been deleted.
THEOREM SessionJoinsAreSound == SessionSpec => []JoinsAreSound
<1>1. SessionInv => JoinsAreSound
  BY Kinds DEF SessionInv, Fits, Graph, JoinsAreSound, SessionTypeOK, JoinsAreMutual
<1> QED
  BY <1>1, SessionInvariant, PTL

\* AudioDecoderWorker.cpp, AudioEncoderWorker.cpp and those for video: the threads
\* of decoders and encoders run exactly while the joins ask for them.
THEOREM SessionCodersFollow == SessionSpec => []CodersFollowJoins
<1>1. SessionInv => CodersFollowJoins
  BY DEF SessionInv, Fits, Heard, CodersFollowJoins, DecodesWhileJoined, EncodesWhileHeard
<1> QED
  BY <1>1, SessionInvariant, PTL

=============================================================================
