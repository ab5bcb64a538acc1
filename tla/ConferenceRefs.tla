--------------------------- MODULE ConferenceRefs ---------------------------
(***************************************************************************)
(* The registry of conferences of the class MCU (mcu.cpp): the map from    *)
(* ids to entries, the map from tags to ids, and the references that keep  *)
(* a conference from being deleted while a request works on it.            *)
(*                                                                         *)
(* Every XML-RPC, upload, WebSocket and RTMP request runs on a thread of   *)
(* its own.  A thread makes one call after another: CreateConference,      *)
(* DeleteConference, GetConferenceList, or an operation on a conference    *)
(* between GetConferenceRef and ReleaseConferenceRef, by id or by tag.     *)
(* "use" protects the maps and each entry is itself a lock; both are of    *)
(* the class Use, that is RWLock.  A step goes from one call that may      *)
(* block, or that lets another thread in, to the next.                     *)
(***************************************************************************)
EXTENDS Naturals, FiniteSets

CONSTANTS
    Thread, NoThread,   \* the threads of the servers, and nobody
    MaxConf,            \* how many conferences are created
    Tag, NoTag,         \* the tags clients give to conferences, and none
    MaxCalls            \* how many calls the threads make in all

ASSUME ConferenceAssumption == /\ NoThread \notin Thread /\ NoTag \notin Tag
                               /\ IsFiniteSet(Thread)
                               /\ MaxConf \in Nat /\ MaxCalls \in Nat

VARIABLES
    conferences,    \* MCU::conferences: the ids in the map
    enabled,        \* the conferences with ConferenceEntry::enabled set
    tagOf,          \* the tag of each conference
    tags,           \* MCU::tags: the id for each tag, 0 when there is none
    maxId,          \* MCU::maxId: the id of the next conference
    freed,          \* the conferences deleted, with their entries
    use,            \* MCU::use
    entryUse,       \* the lock of each entry
    call,           \* what each thread does: its next step, on what
    calls           \* how many calls have been made

registry == <<conferences, enabled, tagOf, tags, maxId, freed>>
vars == <<registry, use, entryUse, call, calls>>

RW == INSTANCE RWLock WITH rw <- use

Conf == 1..MaxConf

Idle == [at |-> "idle", id |-> 0, tag |-> NoTag]

\* A thread at one of these steps holds a reference, ...
Referring == {"ref_done", "using", "release", "release_find"}
\* ... or is between disabling a conference and deleting it.
Deleting == {"delete_entry", "delete_wait", "delete_again", "delete_erase", "delete_free"}

Creating == {"create", "create_own"}

Steps == Referring \cup Deleting \cup Creating \cup
         {"idle", "create_listen", "tag", "tag_find", "ref", "ref_find",
          "release_signal", "list", "listing", "delete", "delete_own"}

At(t, step) == call[t].at = step
Goto(t, step) == call' = [call EXCEPT ![t].at = step]
Return(t) == call' = [call EXCEPT ![t] = Idle]

-----------------------------------------------------------------------------

Init == /\ conferences = {} /\ enabled = {} /\ freed = {}
        /\ tagOf = [c \in Conf |-> NoTag]
        /\ tags = [g \in Tag |-> 0]
        /\ maxId = 1
        /\ use = RW!Unlocked
        /\ entryUse = [c \in Conf |-> RW!Unlocked]
        /\ call = [t \in Thread |-> Idle]
        /\ calls = 0

\* A thread starts a call
Start(t, step, id, tag) ==
    /\ At(t, "idle") /\ calls < MaxCalls
    /\ call' = [call EXCEPT ![t] = [at |-> step, id |-> id, tag |-> tag]]
    /\ calls' = calls + 1
    /\ UNCHANGED <<registry, use, entryUse>>

\* use.IncUse()
IncUse(t, from, to) ==
    /\ At(t, from) /\ Goto(t, to)
    /\ RW!CanIncUse(use) /\ use' = RW!IncUse(use, t)
    /\ UNCHANGED <<registry, entryUse, calls>>

\* use.WaitUnusedAndLock(): the claim, then the wait.  What follows up to
\* use.Unlock() is one step with the end of the wait.
Claim(t, from, to) ==
    /\ At(t, from) /\ Goto(t, to)
    /\ RW!CanClaim(use) /\ use' = RW!Claimed(use, t)
    /\ UNCHANGED <<registry, entryUse, calls>>

OwnAndUnlock(t) == /\ use.claim = t /\ RW!IsUnused(use)
                   /\ use' = RW!Unlock(use)
                   /\ UNCHANGED calls

-----------------------------------------------------------------------------
(* CreateConference                                                        *)

\* Clients give a conference a tag of its own (mcuWeb makes it from a UUID):
\* no conference has it that has not been deleted, and none being created.
IsFresh(g) == /\ \A c \in enabled : tagOf[c] # g
              /\ \A t \in Thread : call[t].at \in Creating => call[t].tag # g

\* The bound MaxConf counts the conferences being created too
BelowMaxConf == maxId + Cardinality({t \in Thread : call[t].at \in Creating}) <= MaxConf

CreateConference(t) ==
    \/ \E g \in Tag : IsFresh(g) /\ BelowMaxConf /\ Start(t, "create", 0, g)
    \/ Claim(t, "create", "create_own")
    \/ /\ At(t, "create_own") /\ OwnAndUnlock(t)
       /\ conferences' = conferences \cup {maxId}
       /\ enabled' = enabled \cup {maxId}
       /\ tagOf' = [tagOf EXCEPT ![maxId] = call[t].tag]
       /\ tags' = [tags EXCEPT ![call[t].tag] = maxId]
       /\ maxId' = maxId + 1
       /\ call' = [call EXCEPT ![t] = [at |-> "create_listen", id |-> maxId, tag |-> NoTag]]
       /\ UNCHANGED <<entryUse, freed>>
    \* SetListener, BFCP CreateConference, SetFloorControlServer
    \/ /\ At(t, "create_listen") /\ Return(t)
       /\ UNCHANGED <<registry, use, entryUse, calls>>

-----------------------------------------------------------------------------
(* References                                                              *)

\* Mutant: a disabled conference can still be referred to
IsInMap(c) == c \in conferences

\* What GetConferenceRef checks
CanBeReferred(c) == c \in conferences /\ c \in enabled

\* GetConferenceId, then GetConferenceRef; or GetConferenceRef
GetConferenceId(t) ==
    \/ \E g \in Tag : Start(t, "tag", 0, g)
    \/ IncUse(t, "tag", "tag_find")
    \/ /\ At(t, "tag_find")
       /\ LET id == tags[call[t].tag]
          IN  call' = [call EXCEPT ![t] = IF id = 0 THEN Idle
                                          ELSE [at |-> "ref", id |-> id, tag |-> NoTag]]
       /\ use' = RW!DecUse(use, t)
       /\ UNCHANGED <<registry, entryUse, calls>>

GetConferenceRef(t) ==
    \/ \E c \in Conf : Start(t, "ref", c, NoTag)
    \/ IncUse(t, "ref", "ref_find")
    \/ /\ At(t, "ref_find") /\ ~CanBeReferred(call[t].id)
       /\ use' = RW!DecUse(use, t)
       /\ Return(t)
       /\ UNCHANGED <<registry, entryUse, calls>>
    \/ /\ At(t, "ref_find") /\ CanBeReferred(call[t].id)
       /\ RW!CanIncUse(entryUse[call[t].id])
       /\ entryUse' = [entryUse EXCEPT ![call[t].id] = RW!IncUse(@, t)]
       /\ Goto(t, "ref_done")
       /\ UNCHANGED <<registry, use, calls>>
    \/ /\ At(t, "ref_done")
       /\ use' = RW!DecUse(use, t)
       /\ Goto(t, "using")
       /\ UNCHANGED <<registry, entryUse, calls>>

\* The request works on the conference
UseConference(t) == /\ At(t, "using") /\ Goto(t, "release")
                    /\ UNCHANGED <<registry, use, entryUse, calls>>

ReleaseConferenceRef(t) ==
    \/ IncUse(t, "release", "release_find")
    \/ /\ At(t, "release_find")
       /\ IF call[t].id \in conferences
          THEN /\ entryUse' = [entryUse EXCEPT ![call[t].id] = RW!DecUse(@, t)]
               /\ Goto(t, "release_signal")
               /\ UNCHANGED use
          ELSE /\ Return(t)
               /\ use' = RW!DecUse(use, t)
               /\ UNCHANGED entryUse
       /\ UNCHANGED <<registry, calls>>
    \* DecUse of the entry signals after it has decremented the counter
    \/ /\ At(t, "release_signal") /\ Return(t)
       /\ use' = RW!DecUse(use, t)
       /\ UNCHANGED <<registry, entryUse, calls>>

GetConferenceList(t) ==
    \/ Start(t, "list", 0, NoTag)
    \/ IncUse(t, "list", "listing")
    \/ /\ At(t, "listing") /\ Return(t)
       /\ use' = RW!DecUse(use, t)
       /\ UNCHANGED <<registry, entryUse, calls>>

-----------------------------------------------------------------------------
(* DeleteConference                                                        *)

\* Mutant: a conference that is being deleted can be deleted again
CanBeDeletedAgain(c) == c \in conferences

\* What DeleteConference checks
CanBeDeleted(c) == c \in conferences /\ c \in enabled

\* Mutant: the tag stays in the map
DisableOnly(c) == enabled' = enabled \ {c} /\ UNCHANGED tags

Disable(c) == /\ enabled' = enabled \ {c}
              /\ tags' = [tags EXCEPT ![tagOf[c]] = 0]

\* Mutant: DeleteConference takes the lock of the entry without waiting for
\* its users
EntryIsClaimed(c) == entryUse[c].claim # NoThread

EntryIsUnused(c) == RW!IsUnused(entryUse[c])

DeleteConference(t) ==
    \/ \E c \in Conf : Start(t, "delete", c, NoTag)
    \/ Claim(t, "delete", "delete_own")
    \/ /\ At(t, "delete_own") /\ OwnAndUnlock(t)
       /\ ~CanBeDeleted(call[t].id) /\ Return(t)
       /\ UNCHANGED <<registry, entryUse>>
    \/ /\ At(t, "delete_own") /\ OwnAndUnlock(t)
       /\ CanBeDeleted(call[t].id) /\ Disable(call[t].id)
       /\ Goto(t, "delete_entry")
       /\ UNCHANGED <<conferences, tagOf, maxId, freed, entryUse>>
    \* entry->WaitUnusedAndLock(), never unlocked
    \/ /\ At(t, "delete_entry") /\ RW!CanClaim(entryUse[call[t].id])
       /\ entryUse' = [entryUse EXCEPT ![call[t].id] = RW!Claimed(@, t)]
       /\ Goto(t, "delete_wait")
       /\ UNCHANGED <<registry, use, calls>>
    \/ /\ At(t, "delete_wait") /\ EntryIsUnused(call[t].id)
       /\ entryUse' = [entryUse EXCEPT ![call[t].id] = RW!Owned(@, t)]
       /\ Goto(t, "delete_again")
       /\ UNCHANGED <<registry, use, calls>>
    \/ Claim(t, "delete_again", "delete_erase")
    \/ /\ At(t, "delete_erase") /\ OwnAndUnlock(t)
       /\ conferences' = conferences \ {call[t].id}
       /\ Goto(t, "delete_free")
       /\ UNCHANGED <<enabled, tagOf, tags, maxId, freed, entryUse>>
    \* conf->End(), BFCP RemoveConference, delete conf, delete entry
    \/ /\ At(t, "delete_free") /\ Return(t)
       /\ freed' = freed \cup {call[t].id}
       /\ UNCHANGED <<conferences, enabled, tagOf, tags, maxId, use, entryUse, calls>>

-----------------------------------------------------------------------------

Next == \E t \in Thread :
            \/ CreateConference(t) \/ DeleteConference(t) \/ GetConferenceList(t)
            \/ GetConferenceId(t) \/ GetConferenceRef(t)
            \/ UseConference(t) \/ ReleaseConferenceRef(t)

Spec == Init /\ [][Next]_vars

\* A thread inside a call goes on when it can; no thread has to start one.
Progress(t) == ~At(t, "idle") /\
    (\/ CreateConference(t) \/ DeleteConference(t) \/ GetConferenceList(t)
     \/ GetConferenceId(t) \/ GetConferenceRef(t)
     \/ UseConference(t) \/ ReleaseConferenceRef(t))

FairSpec == Spec /\ \A t \in Thread : WF_vars(Progress(t))

-----------------------------------------------------------------------------

TypeOK == /\ conferences \subseteq Conf /\ enabled \subseteq Conf /\ freed \subseteq Conf
          /\ tagOf \in [Conf -> Tag \cup {NoTag}]
          /\ tags \in [Tag -> 0..MaxConf]
          /\ maxId \in 1..(MaxConf + 1)
          /\ use \in RW!Lock
          /\ entryUse \in [Conf -> RW!Lock]
          /\ call \in [Thread -> [at : Steps, id : 0..MaxConf, tag : Tag \cup {NoTag}]]
          /\ \A t \in Thread : call[t].at \in Creating \cup {"tag", "tag_find"} => call[t].tag \in Tag
          /\ calls \in 0..MaxCalls

\* mcu.cpp GetConferenceRef, ReleaseConferenceRef, GetConferenceList: a thread
\* that refers to a conference, or walks the map, finds it alive; and a thread
\* that refers to one still finds its entry in the map to release it.
ReferencesStayValid ==
    /\ \A t \in Thread : call[t].at \in Referring => call[t].id \in conferences
    /\ \A t \in Thread : At(t, "release_signal") => call[t].id \notin freed
    /\ conferences \cap freed = {}

\* mcu.cpp DeleteConference: the iterator kept across the two waits is still
\* good when it is erased, because one thread only deletes a conference.
OneDeleter ==
    \A t \in Thread : call[t].at \in Deleting =>
        /\ call[t].id \notin freed
        /\ call[t].at # "delete_free" => call[t].id \in conferences
        /\ \A u \in Thread : call[u].at \in Deleting /\ call[u].id = call[t].id => u = t

\* mcu.cpp CreateConference, DeleteConference: a tag finds the conference that
\* has it, and no other, as long as tags are not shared.
TagsFindConferences ==
    \A g \in Tag, c \in Conf : tags[g] = c <=> c \in enabled /\ tagOf[c] = g

\* mcu.cpp: every call returns.  A thread that deletes a conference waits for
\* its users, who need "use" to release it; it holds the lock of the entry
\* while it waits for "use", whose users may be about to take that lock.
CallsReturn == \A t \in Thread : ~At(t, "idle") ~> At(t, "idle")

=============================================================================
