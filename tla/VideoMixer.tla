----------------------------- MODULE VideoMixer -----------------------------
(***************************************************************************)
(* The video mixer of a conference (videomixer.cpp): a thread composes the *)
(* mosaics out of the pictures of the participants, while controllers set  *)
(* slots and layouts, participants come and go, and decoders deliver       *)
(* pictures (pipevideooutput.cpp).                                         *)
(*                                                                         *)
(* A section under lstVideosUse, or under mixVideoMutex, is one step.      *)
(* EndMixer has one of each and is two steps; the thread wakes up in one   *)
(* step and mixes in another.  A pthread_cond_signal finds the thread in   *)
(* its wait or is lost.                                                    *)
(***************************************************************************)
EXTENDS Mosaic, FiniteSetsExt

CONSTANTS
    Joined,         \* the participants who have joined at first
    MaxMosaic,      \* ids of mosaics are 0..MaxMosaic - 1
    NumSlots,       \* the numbers of slots of the layouts in use
    VADModes,       \* values of vadMode
    MaxCalls        \* how many calls controllers make

ASSUME MixerAssumption == /\ Joined \subseteq Part
                          /\ MaxMosaic \in Nat \ {0} /\ MaxCalls \in Nat
                          /\ NumSlots \subseteq Nat \ {0} /\ NumSlots # {}
                          /\ VADModes \subseteq {"NoVAD", "BasicVAD", "FullVAD"}

VARIABLES
    mosaics,        \* VideoMixer::mosaics, by id
    maxMosaics,     \* the id of the next mosaic created
    videos,         \* VideoMixer::lstVideos, by participant
    vadMode,        \* VideoMixer::vadMode, which MultiConf sets before Init
    ending,         \* the participant between the two sections of EndMixer
    mixing,         \* VideoMixer::mixingVideo
    mixer,          \* the next step of MixVideo
    calls           \* how many calls have been made

vars == <<mosaics, maxMosaics, videos, vadMode, ending, mixing, mixer, calls>>

MosaicId == 0..(MaxMosaic - 1)
Null == 0

\* Objects of the class Mosaic: a new one is not one that is in use
Object == 1..(MaxMosaic + 1)

Live(m) == m \in DOMAIN mosaics
Objects == {mosaics[m].obj : m \in DOMAIN mosaics}
HasSource(p) == p \in DOMAIN videos

With(f, k, value) == [x \in DOMAIN f \cup {k} |-> IF x = k THEN value ELSE f[x]]
Without(f, k) == [x \in DOMAIN f \ {k} |-> f[x]]

\* pthread_cond_signal(&mixVideoCond)
Signal == mixer' = IF mixer = "wait" THEN "mix" ELSE mixer

\* A mosaic changes in a call, which then works out the positions
Changed(m, mosaic) == mosaics' = With(mosaics, m, CalculatePositions(mosaic))

\* A controller makes a call
Call == calls < MaxCalls /\ calls' = calls + 1

NewSource == [mosaic |-> Null, state |-> "created", isChanged |-> FALSE]

\* Init, and the participants who have joined since: each has its source, is
\* sent the mosaic and is in it
Init ==
    /\ \E n \in NumSlots : mosaics = [m \in {0} |->
           CalculatePositions([NewMosaic(1, n) EXCEPT !.score = [p \in Joined |-> -p],
                                                      !.fixed = [p \in Joined |-> 0]])]
    /\ maxMosaics = 1
    /\ videos = [p \in Joined |-> [NewSource EXCEPT !.mosaic = 1, !.state = "inited"]]
    /\ vadMode \in VADModes
    /\ ending = 0
    /\ mixing = TRUE
    /\ mixer = "deliver"
    /\ calls = 0

-----------------------------------------------------------------------------
(* Sources.                                                                *)

CreateMixer(p) ==
    /\ Call /\ mixing /\ ~HasSource(p)
    /\ videos' = With(videos, p, NewSource)
    /\ UNCHANGED <<mosaics, maxMosaics, vadMode, ending, mixing, mixer>>

InitMixer(p, m) ==
    /\ Call /\ mixing /\ HasSource(p) /\ videos[p].state = "created"
    /\ videos' = [videos EXCEPT ![p].state = "inited",
                                ![p].mosaic = IF Live(m) THEN mosaics[m].obj ELSE @]
    /\ Signal
    /\ UNCHANGED <<mosaics, maxMosaics, vadMode, ending, mixing>>

SetMixerMosaic(p, m) ==
    /\ Call /\ mixing /\ HasSource(p)
    /\ videos' = [videos EXCEPT ![p].mosaic = IF Live(m) THEN mosaics[m].obj ELSE Null]
    /\ Signal
    /\ UNCHANGED <<mosaics, maxMosaics, vadMode, ending, mixing>>

\* EndMixer, under lstVideosUse
EndMixer(p) ==
    /\ Call /\ mixing /\ HasSource(p) /\ videos[p].state = "inited" /\ ending = 0
    /\ videos' = [videos EXCEPT ![p].state = "ended", ![p].mosaic = Null]
    /\ ending' = p
    /\ UNCHANGED <<mosaics, maxMosaics, vadMode, mixing, mixer>>

\* EndMixer, under mixVideoMutex: out of every mosaic
EndMixerRemove ==
    /\ ending # 0
    /\ mosaics' = [m \in DOMAIN mosaics |->
           IF HasParticipant(mosaics[m], ending)
           THEN CalculatePositions(RemoveParticipant(mosaics[m], ending)) ELSE mosaics[m]]
    /\ ending' = 0
    /\ Signal
    /\ UNCHANGED <<maxMosaics, videos, vadMode, mixing, calls>>

\* DeleteMixer, after EndMixer or when the participant could not be created
DeleteMixer(p) ==
    /\ Call /\ mixing /\ HasSource(p) /\ videos[p].state # "inited" /\ p # ending
    /\ videos' = Without(videos, p)
    /\ mosaics' = [m \in DOMAIN mosaics |->
           [mosaics[m] EXCEPT !.stale = {i \in @ : mosaics[m].oldPos[i] # p}]]
    /\ UNCHANGED <<maxMosaics, vadMode, ending, mixing, mixer>>

\* PipeVideoOutput::NextFrame, from the decoder of a participant
NextFrame(p) ==
    /\ mixing /\ HasSource(p) /\ videos[p].state = "inited"
    /\ videos' = [videos EXCEPT ![p].isChanged = TRUE]
    /\ mosaics' = [m \in DOMAIN mosaics |->
           [mosaics[m] EXCEPT !.stale = @ \cup {i \in Slot(mosaics[m]) : mosaics[m].oldPos[i] = p}]]
    /\ Signal
    /\ UNCHANGED <<maxMosaics, vadMode, ending, mixing, calls>>

-----------------------------------------------------------------------------
(* Mosaics.                                                                *)

AddMosaicParticipant(m, p) ==
    /\ Call /\ mixing /\ Live(m)
    /\ Changed(m, AddParticipant(mosaics[m], p, -p))
    /\ UNCHANGED <<maxMosaics, videos, vadMode, ending, mixing, mixer>>

RemoveMosaicParticipant(m, p) ==
    /\ Call /\ mixing /\ Live(m)
    /\ Changed(m, RemoveParticipant(mosaics[m], p))
    /\ UNCHANGED <<maxMosaics, videos, vadMode, ending, mixing, mixer>>

\* Mutant: a participant is not taken out of the slot it was fixed to
FreedOfNobody(mosaic, id) == mosaic

\* SetSlot: a participant leaves the slot that it is fixed to
FreedOf(mosaic, id) ==
    LET old == {i \in Slot(mosaic) : mosaic.slots[i] = id}
    IN  IF id > 0 /\ old # {}
        THEN SetSlot(mosaic, CHOOSE i \in old : \A j \in old : i <= j, SlotFree)
        ELSE mosaic

\* VideoMixer::SetSlot; num may be too large
SetSlotInMosaic(m, num, id) ==
    /\ Call /\ mixing /\ Live(m)
    /\ Changed(m, SetSlot(FreedOf(mosaics[m], id), num, id))
    /\ Signal
    /\ UNCHANGED <<maxMosaics, videos, vadMode, ending, mixing>>

\* Mutant: the sources keep their pointers
RedirectNobody(old, new) == videos

\* SetCompositionType: sources that are sent the old mosaic are sent the new one
Redirect(old, new) ==
    [p \in DOMAIN videos |-> IF videos[p].mosaic = old
                    THEN [videos[p] EXCEPT !.mosaic = new] ELSE videos[p]]

\* SetCompositionType: those participants of the old mosaic that have sources
\* move with their scores, then the slots
CopyTo(new, old) ==
    LET kept  == {p \in Part : HasSource(p) /\ HasParticipant(old, p)}
        added == [new EXCEPT !.score = Ranked([p \in kept |-> old.score[p]]),
                             !.fixed = [p \in kept |-> 0]]
    IN  SetVADParticipant(SetSlots(added, old.slots), new.vad, vadMode = "FullVAD")

SetCompositionType(m, n) ==
    LET new == NewMosaic(CHOOSE o \in Object : o \notin Objects, n)
    IN  /\ Call /\ mixing
        /\ IF Live(m)
           THEN /\ Changed(m, CopyTo(new, mosaics[m]))
                /\ videos' = Redirect(mosaics[m].obj, new.obj)
           ELSE Changed(m, new) /\ UNCHANGED videos
        /\ Signal
        /\ UNCHANGED <<vadMode, ending, mixing>>

CreateMosaic(n) ==
    /\ maxMosaics < MaxMosaic
    /\ maxMosaics' = maxMosaics + 1
    /\ SetCompositionType(maxMosaics, n)

ChangeMosaic(m, n) ==
    /\ m < maxMosaics
    /\ SetCompositionType(m, n)
    /\ UNCHANGED maxMosaics

DeleteMosaic(m) ==
    /\ Call /\ mixing /\ Live(m)
    /\ videos' = Redirect(mosaics[m].obj, Null)
    /\ mosaics' = Without(mosaics, m)
    /\ UNCHANGED <<maxMosaics, vadMode, ending, mixing, mixer>>

-----------------------------------------------------------------------------
(* The thread, MixVideo.                                                   *)

\* The sources are sent the mosaics that they receive
Deliver ==
    /\ mixer = "deliver"
    /\ mixer' = IF mixing THEN "wait" ELSE "off"
    /\ UNCHANGED <<mosaics, maxMosaics, videos, vadMode, ending, mixing, calls>>

\* pthread_cond_timedwait: 100 ms without a signal, the mosaics are sent again
Timeout ==
    /\ mixer = "wait"
    /\ mixer' = "deliver"
    /\ UNCHANGED <<mosaics, maxMosaics, videos, vadMode, ending, mixing, calls>>

\* Who may be the speaker now: the one so far, while the slot is blocked or
\* nobody talks, or any one in the mosaic with a source
Speakers(mosaic) ==
    LET present == {p \in Part : HasSource(p) /\ HasParticipant(mosaic, p)}
    IN  IF vadMode = "NoVAD" \/ ~IsVADShown(mosaic) THEN {mosaic.vad}
        ELSE IF mosaic.vad = 0 /\ present # {} THEN present
        ELSE {mosaic.vad} \cup present

\* A new speaker; the former one comes first among the others when speakers
\* are hidden from the free slots
WithSpeaker(mosaic, p) ==
    LET hide == vadMode = "FullVAD"
        set  == SetVADParticipant(mosaic, p, hide)
    IN  IF p = mosaic.vad THEN mosaic
        ELSE CalculatePositions(IF mosaic.vad # 0 /\ hide THEN SetScore(set, mosaic.vad) ELSE set)

\* Mutant: the first slot that is painted takes the picture from the others
IsChangedOnce(p, m, i, now) ==
    /\ videos[p].state = "inited" /\ videos[p].isChanged
    /\ \A k \in DOMAIN now : k < m => \A j \in Slot(now[k]) : now[k].pos[j] # p
    /\ \A j \in Slot(now[m]) : j < i => now[m].pos[j] # p

\* PipeVideoOutput::IsChanged: the answer for one version is the same for all
\* the slots, though GetFrame takes the change back
IsChanged(p, m, i, now) == videos[p].state = "inited" /\ videos[p].isChanged

\* Whether the pass paints the picture of the participant at slot i of m
Updates(m, i, now) ==
    LET p == now[m].pos[i]
    IN  p # 0 /\ HasSource(p) /\ (IsChanged(p, m, i, now) \/ now[m].oldPos[i] # p)

\* Whether the pass paints the logo there
Cleans(m, i, now) ==
    LET p == now[m].pos[i] IN  now[m].oldPos[i] # p /\ (p = 0 \/ ~HasSource(p))

\* The mosaics after a pass, now being those with the speakers chosen
Painted(now) ==
    [m \in DOMAIN now |->
        [now[m] EXCEPT
            !.oldPos = now[m].pos,
            !.image  = [i \in Slot(now[m]) |->
                CASE Updates(m, i, now) -> now[m].pos[i]
                  [] Cleans(m, i, now)  -> 0
                  [] OTHER              -> @[i]],
            !.stale  = {i \in @ : ~Updates(m, i, now) /\ ~Cleans(m, i, now)}]]

\* PipeVideoOutput::GetFrame takes the change back
Taken(p, now) == \E m \in DOMAIN now : \E i \in Slot(now[m]) :
                     now[m].pos[i] = p /\ Updates(m, i, now)

Mix ==
    /\ mixer = "mix"
    /\ \E speaker \in [DOMAIN mosaics -> Part \cup {0}] :
           LET now == [m \in DOMAIN mosaics |-> WithSpeaker(mosaics[m], speaker[m])]
           IN  /\ \A m \in DOMAIN mosaics : speaker[m] \in Speakers(mosaics[m])
               /\ mosaics' = Painted(now)
               /\ videos' = [p \in DOMAIN videos |-> IF Taken(p, now) THEN [videos[p] EXCEPT !.isChanged = FALSE]
                                            ELSE videos[p]]
    /\ mixer' = "deliver"
    /\ UNCHANGED <<maxMosaics, vadMode, ending, mixing, calls>>

\* VideoMixer::End
End ==
    /\ mixing /\ ending = 0
    /\ mixing' = FALSE
    /\ Signal
    /\ UNCHANGED <<mosaics, maxMosaics, videos, vadMode, ending, calls>>

EndJoined ==
    /\ ~mixing /\ mixer = "off"
    /\ videos' = <<>>
    /\ mosaics' = <<>>
    /\ mixer' = "ended"
    /\ UNCHANGED <<maxMosaics, vadMode, ending, mixing, calls>>

-----------------------------------------------------------------------------

Control ==
    \/ \E p \in Part : CreateMixer(p) \/ EndMixer(p) \/ DeleteMixer(p)
    \/ EndMixerRemove
    \/ \E p \in Part, m \in MosaicId :
          InitMixer(p, m) \/ SetMixerMosaic(p, m) \/ AddMosaicParticipant(m, p) \/ RemoveMosaicParticipant(m, p)
    \/ \E m \in MosaicId, num \in 0..Max(NumSlots), id \in SlotValue : SetSlotInMosaic(m, num, id)
    \/ \E m \in MosaicId, n \in NumSlots : ChangeMosaic(m, n)
    \/ \E n \in NumSlots : CreateMosaic(n)
    \/ \E m \in MosaicId : DeleteMosaic(m)
    \/ End \/ EndJoined

MixerThread == Deliver \/ Timeout \/ Mix

Next == Control \/ MixerThread \/ \E p \in Part : NextFrame(p)

Spec == Init /\ [][Next]_vars

-----------------------------------------------------------------------------

\* Types
TypeOK ==
    /\ \A m \in DOMAIN mosaics :
          /\ mosaics[m].obj \in Object
          /\ DOMAIN mosaics[m].score \subseteq Part
          /\ mosaics[m].fixed \in [DOMAIN mosaics[m].score -> 0..Cardinality(Slot(mosaics[m]))]
          /\ mosaics[m].vad \in Part \cup {0}
          /\ \A i \in Slot(mosaics[m]) :
                /\ mosaics[m].slots[i] \in SlotValue
                /\ mosaics[m].pos[i] \in Part \cup {0}
                /\ mosaics[m].image[i] \in Part \cup {0}
    /\ \A p \in DOMAIN videos : videos[p].mosaic \in Object \cup {Null}
    /\ mixer \in {"deliver", "wait", "mix", "off", "ended"}
    /\ ending \in Part \cup {0}

LiveMosaics == {mosaics[m] : m \in DOMAIN mosaics}

\* mosaic.h "Score SHALL be unique": otherwise the set that orders the
\* participants of a mosaic drops one of them.
ScoresAreUnique ==
    \A x \in LiveMosaics : \A p, q \in DOMAIN x.score : x.score[p] = x.score[q] => p = q

\* mosaic.cpp: over any sequence of SetSlot, layouts, arrivals and departures the
\* counter isFixed of a participant is the number of slots set to it, which is
\* 1 at most, and slots are set to participants of the mosaic only.
FixedCountsSlots ==
    \A x \in LiveMosaics :
        /\ \A p \in DOMAIN x.fixed :
              LET own == {i \in Slot(x) : x.slots[i] = p}
              IN  x.fixed[p] = Cardinality(own) /\ Cardinality(own) <= 1
        /\ \A i \in Slot(x) : x.slots[i] > 0 => HasParticipant(x, x.slots[i])

\* mosaic.cpp: the parts of a mosaic agree with one another after any calls.
MosaicsAreConsistent == TypeOK /\ ScoresAreUnique /\ FixedCountsSlots

\* mosaic.cpp CalculatePositions: leaving VAD slots aside nobody is shown
\* twice, those in free slots are in the order of their scores, and nobody who
\* may be shown is left out for one with a lower score or for an empty slot.
PositionsAreFair ==
    \A x \in LiveMosaics :
        LET free  == {i \in Slot(x) : x.slots[i] = SlotFree}
            shown == {x.pos[i] : i \in free} \ {0}
            waits == {p \in DOMAIN x.score : /\ p \notin shown
                                            /\ \A i \in Slot(x) : x.slots[i] # p
                                            /\ ~(p = x.vad /\ x.hide)}
        IN  /\ \A i, j \in Slot(x) :
                  x.pos[i] = x.pos[j] /\ x.pos[i] # 0 /\ x.slots[i] # SlotVAD /\ x.slots[j] # SlotVAD => i = j
            /\ \A i, j \in free : i < j /\ x.pos[j] # 0 => x.pos[i] # 0 /\ x.score[x.pos[i]] > x.score[x.pos[j]]
            /\ \A p \in waits, i \in free : x.pos[i] # 0 /\ x.score[x.pos[i]] > x.score[p]

\* mosaic.cpp SetSlot, RemoveParticipant and videomixer.cpp: there is a speaker
\* only while a slot shows the speaker, it is in the mosaic, and that slot shows it.
SpeakerIsShown ==
    \A x \in LiveMosaics : x.vad # 0 =>
        /\ HasParticipant(x, x.vad)
        /\ \E i \in Slot(x) : x.slots[i] = SlotVAD /\ x.pos[i] = x.vad

\* mosaic.cpp CalculatePositions, SetVADParticipant: who is shown, and where.
SlotsShowTheRightOnes == PositionsAreFair /\ SpeakerIsShown

\* videomixer.cpp SetCompositionType and DeleteMosaic: the thread sends a source a
\* mosaic that has not been deleted.
SourcesSeeLiveMosaics ==
    \A p \in DOMAIN videos : videos[p].mosaic \in Objects \cup {Null}

\* videomixer.cpp MixVideo: a slot never keeps the picture of one who has left
\* it.
NobodyElsesPicture ==
    \A x \in LiveMosaics : \A i \in Slot(x) : x.image[i] \in {0, x.oldPos[i]}

\* pipevideooutput.cpp IsChanged and GetFrame: as long as a slot shows an older
\* picture of a participant than the last one, the output of that participant
\* says so to the next pass, whatever other slots have been painted with it.
NoPictureForgotten ==
    \A x \in LiveMosaics : \A i \in x.stale :
        LET p == x.oldPos[i]
        IN  HasSource(p) /\ videos[p].state = "inited" => videos[p].isChanged

\* videomixer.cpp MixVideo: a slot shows the last picture of the one at it, or the
\* next pass paints it.
PicturesAreCurrent == NobodyElsesPicture /\ NoPictureForgotten

=============================================================================
