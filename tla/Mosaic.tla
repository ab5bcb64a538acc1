------------------------------- MODULE Mosaic -------------------------------
(***************************************************************************)
(* A mosaic of the video mixer (mosaic.cpp): who is in it, what its slots  *)
(* are set to, and who is shown in each of them.  A mosaic is a record and *)
(* a method an operator on it; the mixer holds the locks.                  *)
(*                                                                         *)
(* Scores order the participants.  The code takes the time, and only       *)
(* compares scores: the time here is one more than the highest score, and  *)
(* scores are numbered afresh when one goes.                               *)
(***************************************************************************)
EXTENDS Integers, FiniteSets

CONSTANT MaxPart    \* ids of participants are 1..MaxPart

ASSUME PartAssumption == MaxPart \in Nat

Part == 1..MaxPart

\* Mosaic::SlotFree, SlotLocked and SlotVAD; a participant's id fixes it
SlotFree == 0
SlotLocked == -1
SlotVAD == -2
SlotValue == {SlotFree, SlotLocked, SlotVAD} \cup Part

\* The constructor.  oldPos is such that every slot is painted once; image is
\* whose picture a slot contains, 0 for none, and stale the slots whose
\* participant has sent another since.
NewMosaic(obj, numSlots) ==
    LET slot == 0..(numSlots - 1)
    IN  [obj    |-> obj,
         slots  |-> [i \in slot |-> SlotFree],
         pos    |-> [i \in slot |-> 0],
         oldPos |-> [i \in slot |-> -1],
         score  |-> <<>>,       \* of each participant in the mosaic
         fixed  |-> <<>>,       \* PartInfo::isFixed of each of them
         vad    |-> 0,
         hide   |-> FALSE,
         image  |-> [i \in slot |-> 0],
         stale  |-> {}]

Slot(m) == DOMAIN m.slots
HasParticipant(m, p) == p \in DOMAIN m.score
IsVADShown(m) == \E i \in Slot(m) : m.slots[i] = SlotVAD

\* Scores with the order of those given, without gaps above 0
Ranked(score) == [p \in DOMAIN score |->
                     IF score[p] < 0 THEN score[p]
                     ELSE Cardinality({score[q] : q \in {r \in DOMAIN score : score[r] > 0 /\ score[r] <= score[p]}})]

\* AddParticipant with the score that the mixer gives: behind those who have
\* spoken, by id
AddParticipant(m, p, score) ==
    IF HasParticipant(m, p) THEN m
    ELSE [m EXCEPT !.score = [q \in DOMAIN @ \cup {p} |-> IF q = p THEN score ELSE @[q]],
                   !.fixed = [q \in DOMAIN @ \cup {p} |-> IF q = p THEN 0 ELSE @[q]]]

RemoveParticipant(m, p) ==
    LET rest == DOMAIN m.score \ {p}
    IN  IF ~HasParticipant(m, p) THEN m
        ELSE [m EXCEPT !.score = Ranked([q \in rest |-> @[q]]),
                       !.fixed = [q \in rest |-> @[q]],
                       !.vad   = IF @ = p THEN 0 ELSE @,
                       !.slots = [i \in Slot(m) |-> IF @[i] = p THEN SlotFree ELSE @[i]],
                       !.pos   = [i \in Slot(m) |-> IF m.slots[i] = p THEN 0 ELSE @[i]]]

\* SetScore with the current time
SetScore(m, p) ==
    IF ~HasParticipant(m, p) THEN m
    ELSE [m EXCEPT !.score = Ranked([@ EXCEPT ![p] = MaxPart + 1])]

\* SetSlot; a number that is not a slot is an error
SetSlot(m, num, id) ==
    LET old == m.slots[num]
        set == [m EXCEPT !.slots[num] = id,
                         !.fixed = [q \in DOMAIN @ |->
                             CASE q = id /\ old # id  -> @[q] + 1
                               [] q = old /\ old # id -> @[q] - 1
                               [] OTHER               -> @[q]]]
    IN  IF num \notin Slot(m) THEN m
        ELSE [set EXCEPT !.vad = IF old = SlotVAD /\ ~IsVADShown(set) THEN 0 ELSE @]

\* SetSlots: the slots of another mosaic, as far as there is room
SetSlots(m, slots) ==
    LET new == [i \in Slot(m) |-> IF i \in DOMAIN slots THEN slots[i] ELSE SlotFree]
    IN  [m EXCEPT !.slots = new,
                  !.fixed = [q \in DOMAIN @ |-> @[q] + Cardinality({i \in Slot(m) : new[i] = q})]]

SetVADParticipant(m, p, hide) == [m EXCEPT !.vad = p, !.hide = hide]

\* Mutant: a fixed participant is not passed over
IsSkippedVADOnly(m, p) == p = m.vad /\ m.hide /\ IsVADShown(m)

\* CalculatePositions: who is passed over for a free slot
IsSkipped(m, p) == (p = m.vad /\ m.hide /\ IsVADShown(m)) \/ m.fixed[p] > 0

\* The set order: bigger score first
First(m, ps) == CHOOSE p \in ps : \A q \in ps : m.score[q] <= m.score[p]
Behind(m, ps, p) == {q \in ps : m.score[q] < m.score[p]}

\* CalculatePositions: a slot of nobody, or of a participant that is not in the mosaic,
\* which becomes free
IsFree(m, i) == m.slots[i] = SlotFree \/ (m.slots[i] > 0 /\ ~HasParticipant(m, m.slots[i]))

\* CalculatePositions: who is shown in a slot that is not
Fixed(m, i) == IF m.slots[i] = SlotLocked THEN 0
               ELSE IF m.slots[i] = SlotVAD THEN m.vad ELSE m.slots[i]

\* CalculatePositions at slot i, the iterator at the first of rest: who is shown, and
\* the participants still ahead of the iterator
Place(m, i, rest) ==
    LET left == {p \in rest : ~IsSkipped(m, p)}
        p    == First(m, left)
    IN  IF ~IsFree(m, i) THEN [rest |-> rest, shown |-> Fixed(m, i)]
        ELSE IF left = {} THEN [rest |-> {}, shown |-> 0]
        ELSE [rest |-> Behind(m, rest, p), shown |-> p]

\* The walk over the slots
Walk(m) ==
    LET walk[k \in 0..Cardinality(Slot(m))] ==
            IF k = 0 THEN [rest |-> DOMAIN m.score, shown |-> 0]
            ELSE Place(m, k - 1, walk[k - 1].rest)
    IN  walk

CalculatePositions(m) ==
    LET walk == Walk(m)
    IN  [m EXCEPT !.pos   = [i \in Slot(m) |-> walk[i + 1].shown],
                  !.slots = [i \in Slot(m) |-> IF IsFree(m, i) THEN SlotFree ELSE @[i]]]

=============================================================================
