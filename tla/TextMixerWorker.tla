-------------------------- MODULE TextMixerWorker --------------------------
(***************************************************************************)
(* The worker of the text mixer that puts together what one participant    *)
(* reads (textmixerworker.cpp): the others take turns to write to it, each *)
(* turn under a label with the name of the writer.  A worker is a record   *)
(* and a method an operator on it.                                         *)
(*                                                                         *)
(* A character is a record: its kind, and its number among those that its  *)
(* writer has written to the worker and the reader has not seen.  Time is  *)
(* in units; a waitingSince is the time gone by since then, up to one more *)
(* than the longest limit, or Zero.  Line separators, erasures and the     *)
(* count of characters displayed are left out; a line is over when the     *)
(* next text begins with a label.                                          *)
(***************************************************************************)
EXTENDS Integers, Sequences, FiniteSets, FiniteSetsExt

CONSTANTS
    QueueSize,      \* the size of a TextWritter::textQueue
    ChunkSize,      \* how much ProcessText writes at a time
    WaitLimit,      \* maxWaitingTimeLimit
    Extension,      \* timeExtension
    Inactive        \* maxCurrentParticipantInactiveLimit

ASSUME WorkerAssumption ==
    /\ {QueueSize, ChunkSize} \subseteq Nat \ {0}
    /\ {WaitLimit, Extension, Inactive} \subseteq Nat

\* ' ', one of ".?!", a message delimiter and any other character
Kind == {"space", "stop", "newline", "other"}

Nobody == 0
Zero == -1
MaxAge == Max({WaitLimit + Extension, Inactive}) + 1
Older(age) == IF age = Zero THEN Zero ELSE Min({age + 1, MaxAge})

Empty == <<>>

\* The constructor, and AddReader.  The reader has seen label last, and after it
\* text of author.
NewWorker == [writters |-> <<>>, current |-> Nobody, isFirst |-> TRUE,
              label |-> Nobody, author |-> Nobody]

Writter(w, id) == w.writters[id]

\* A writer.  in is how many characters it has written that the reader has not
\* seen.
NewWritter(realtime) == [realtime |-> realtime, queue |-> Empty, since |-> Zero, stop |-> FALSE,
                         in |-> 0]

AddWritter(w, id, realtime) ==
    IF id \in DOMAIN w.writters THEN w
    ELSE [w EXCEPT !.writters = [x \in DOMAIN @ \cup {id} |->
             IF x = id THEN NewWritter(realtime) ELSE @[x]]]

RemoveWritter(w, id) ==
    IF id \notin DOMAIN w.writters THEN w
    ELSE [w EXCEPT !.writters = [x \in DOMAIN @ \ {id} |-> @[x]],
                   !.current  = IF @ = id THEN Nobody ELSE @,
                   !.isFirst  = @ \/ w.current = id]

\* WriteText: the text, given as kinds, unless there is no such writer or no room
WriteText(w, id, text) ==
    LET c     == Writter(w, id)
        chars == [i \in 1..Len(text) |-> [n |-> c.in + i, kind |-> text[i]]]
    IN  IF id \notin DOMAIN w.writters \/ Len(c.queue) + Len(text) > QueueSize THEN w
        ELSE [w EXCEPT !.writters[id] = [c EXCEPT !.queue = @ \o chars, !.in = @ + Len(text)]]

\* Time goes by
Aged(w) == [w EXCEPT !.writters = [p \in DOMAIN w.writters |->
               [w.writters[p] EXCEPT !.since = Older(@)]]]

-----------------------------------------------------------------------------
(* ProcessText: who is next                                                *)

HasText(w, id) == Writter(w, id).queue # Empty

\* The others with text, as far as the loop goes: it ends at the first one
\* who writes in private
Waiting(w) == {p \in DOMAIN w.writters : p # w.current /\ HasText(w, p)}
Privates(w) == {p \in Waiting(w) : ~Writter(w, p).realtime}
Visited(w) == {p \in Waiting(w) : \A q \in Privates(w) : p < q}

MaxWaitingTime(w) == Max({0} \cup {Writter(w, p).since : p \in Visited(w)})

NextWritter(w) ==
    LET longest == {p \in Visited(w) : Writter(w, p).since = MaxWaitingTime(w)}
    IN  IF Privates(w) # {} THEN Min(Privates(w))
        ELSE IF Visited(w) = {} THEN Nobody
        ELSE IF MaxWaitingTime(w) > 0 THEN Min(longest)
        ELSE Min(Visited(w))

\* The loop has set waitingSince of those who begin to wait
Waited(w) == [w EXCEPT !.writters = [p \in DOMAIN @ |->
                 IF p \in Visited(w) /\ @[p].since = Zero THEN [@[p] EXCEPT !.since = 0] ELSE @[p]]]

-----------------------------------------------------------------------------
(* ProcessText: how much the current writer writes                         *)

Cut(len, found) == [len |-> len, found |-> found]

\* Up to the last space
CutWord(text, search) ==
    LET spaces == {i \in 1..Len(text) : text[i].kind = "space"}
    IN  IF search /\ spaces # {} THEN Cut(Max(spaces) - 1, TRUE) ELSE Cut(Len(text), FALSE)

\* Up to the last full stop before a space, that may come later
CutSentence(text, len, stop) ==
    LET ends == {i \in 1..(len - 1) : text[i].kind = "stop" /\ text[i + 1].kind = "space"}
    IN  IF stop THEN IF text[1].kind = "space" THEN Cut(1, TRUE) ELSE Cut(len, FALSE)
        ELSE IF ends # {} THEN Cut(Max(ends), TRUE) ELSE Cut(len, FALSE)

\* Up to the first end of a message
CutMessage(text, len) ==
    LET ends == {i \in 1..len : text[i].kind = "newline"}
    IN  IF ends # {} THEN Cut(Min(ends), TRUE) ELSE Cut(len, FALSE)

\* Mutant: a message is written to its end and all of it is taken
RemovedWhole(text, len) == Len(text)

\* What is taken from the queue is what is written
Removed(text, len) == len

\* The label of a line is written with its first text
Label(w) == IF w.isFirst THEN w.current ELSE w.label

\* The reader sees the first len characters of text, the head of the current
\* writer's queue, who waits from now on; stop: a sentence may end with them
Shown(w, text, len, stop) ==
    LET c    == Writter(w, w.current)
        seen == IF len = 0 THEN 0 ELSE text[len].n
        rest == SubSeq(c.queue, Removed(text, len) + 1, Len(c.queue))
    IN  [w EXCEPT !.writters[w.current] =
                      [c EXCEPT !.queue = [i \in DOMAIN rest |-> [rest[i] EXCEPT !.n = @ - seen]],
                                !.in    = @ - seen, !.since = 0, !.stop = stop],
                  !.isFirst = FALSE, !.label = Label(w), !.author = w.current]

Chunk(w) == LET queue == Writter(w, w.current).queue
            IN  SubSeq(queue, 1, Min({Len(queue), ChunkSize}))

\* The current writer writes: the worker, and whether to switch
Write(w, searchWord) ==
    LET c        == Writter(w, w.current)
        text     == Chunk(w)
        word     == CutWord(text, searchWord)
        sentence == CutSentence(text, word.len, c.stop)
        message  == CutMessage(text, sentence.len)
        stop     == sentence.len > 0 /\ text[sentence.len].kind = "stop"
    IN  IF text = Empty
        THEN [worker |-> w, switch |-> c.since = Zero \/ c.since > Inactive]
        ELSE [worker |-> Shown(w, text, message.len, stop),
              switch |-> ~c.realtime \/ word.found \/ sentence.found \/ message.found]

\* The turn goes to the next writer; one who writes in private gives it up
Switch(w, next) ==
    IF w.current = next THEN w
    ELSE IF w.current = Nobody THEN [w EXCEPT !.current = next]
    ELSE IF next = Nobody /\ Writter(w, w.current).realtime THEN w
    ELSE [w EXCEPT !.current = next, !.isFirst = TRUE, !.writters[w.current].since = Zero]

\* Mutant: the writer goes on until the end of a word, however long that takes
IsOverNever(waited) == FALSE

\* Somebody has waited so long that the turn ends within a word
IsOver(waited) == waited > WaitLimit + Extension

ProcessText(w) ==
    LET longest == MaxWaitingTime(w)
        over    == IsOver(longest)
        turn    == IF w.current = Nobody THEN [worker |-> Waited(w), switch |-> TRUE]
                   ELSE Write(Waited(w), ~over /\ longest > WaitLimit)
    IN  IF turn.switch \/ over \/ Privates(w) # {}
        THEN Switch(turn.worker, NextWritter(w)) ELSE turn.worker

-----------------------------------------------------------------------------
(* FlushText, when the mixer ends: the current writer writes all it has and *)
(* then the others, one after the other; with no current one, nobody does.  *)
(* The order in which they do and the labels are left out.                  *)

FlushText(w) ==
    IF w.current = Nobody THEN w
    ELSE [w EXCEPT !.current  = Nobody,
                   !.writters = [p \in DOMAIN @ |-> [@[p] EXCEPT !.queue = Empty, !.in = 0]]]

=============================================================================
