----------------------------- MODULE TextMixer -----------------------------
(***************************************************************************)
(* The text mixer of a conference (textmixer.cpp): every participant has a *)
(* worker, to which the others write; a player may write to one of them in *)
(* private.  A thread moves the text every 200 ms.                         *)
(*                                                                         *)
(* A section under lstTextsUse is one step.  EndMixer and EndPrivate only  *)
(* close the pipes of those that are about to be deleted.                  *)
(***************************************************************************)
EXTENDS TextMixerWorker

CONSTANTS
    Participant,    \* the ids of participants
    Player,         \* the ids of players
    Joined,         \* the participants who have joined at first
    Typing,         \* who writes, with the kind of characters
    OutputSize,     \* the size of a PipeTextOutput::fifoBuffer
    MaxCalls        \* how many calls are made

ASSUME MixerAssumption ==
    /\ Participant \cup Player \subseteq Nat \ {0} /\ Participant \cap Player = {}
    /\ Joined \subseteq Participant
    /\ Typing \subseteq (Participant \cup Player) \X Kind
    /\ OutputSize \in 1..QueueSize /\ MaxCalls \in Nat

VARIABLES
    sources,        \* TextMixer::sources: the worker of each participant
    workers,        \* TextMixer::workers: those whose workers are there
    privates,       \* TextMixer::privates: to whom each player writes
    output,         \* the PipeTextOutput of each participant and player
    gone,           \* those who have been deleted: ids are not used again
    mixing,         \* TextMixer::mixingText
    thread,         \* the thread of MixText is "asleep", "awake" or has "ended"
    calls           \* how many calls have been made

vars == <<sources, workers, privates, output, gone, mixing, thread, calls>>

Present == DOMAIN sources \cup DOMAIN privates

With(f, k, value) == [x \in DOMAIN f \cup {k} |-> IF x = k THEN value ELSE f[x]]
Without(f, k) == [x \in DOMAIN f \ {k} |-> f[x]]

Call == mixing /\ calls < MaxCalls /\ calls' = calls + 1

\* The participants have joined one after the other
Init ==
    /\ sources = [s \in Joined |-> [NewWorker EXCEPT
                     !.writters = [p \in Joined \ {s} |-> NewWritter(TRUE)]]]
    /\ workers = Joined
    /\ privates = <<>>
    /\ output = [s \in Joined |-> Empty]
    /\ gone = {}
    /\ mixing = TRUE /\ thread = "awake"
    /\ calls = 0

-----------------------------------------------------------------------------

CreateMixer(s) ==
    /\ Call /\ s \notin Present \cup gone
    /\ sources' = With(sources, s, NewWorker)
    /\ output' = With(output, s, Empty)
    /\ UNCHANGED <<workers, privates, gone, mixing, thread>>

\* Mutant: those who came before are not told of the participant
AnnouncedToNobody(s) == sources

\* InitMixer: the participant writes to the workers there are
Announced(s) == [r \in DOMAIN sources |->
                    IF r \in workers THEN AddWritter(sources[r], s, TRUE) ELSE sources[r]]

\* InitMixer: and those there are write to its worker
InitMixer(s) ==
    /\ Call /\ s \in DOMAIN sources \ workers
    /\ sources' = [Announced(s) EXCEPT ![s].writters =
                      [p \in DOMAIN @ \cup (DOMAIN sources \ {s}) |->
                          IF p \in DOMAIN @ THEN @[p] ELSE NewWritter(TRUE)]]
    /\ workers' = workers \cup {s}
    /\ UNCHANGED <<privates, output, gone, mixing, thread>>

DeleteMixer(s) ==
    /\ Call /\ s \in DOMAIN sources
    /\ sources' = [r \in DOMAIN sources \ {s} |->
                      IF r \in workers THEN RemoveWritter(sources[r], s) ELSE sources[r]]
    /\ workers' = workers \ {s}
    /\ output' = Without(output, s)
    /\ gone' = gone \cup {s}
    /\ UNCHANGED <<privates, mixing, thread>>

\* to need not be there
CreatePrivate(p, to) ==
    /\ Call /\ p \notin Present \cup gone
    /\ privates' = With(privates, p, [to |-> to, inited |-> FALSE])
    /\ output' = With(output, p, Empty)
    /\ UNCHANGED <<sources, workers, gone, mixing, thread>>

InitPrivate(p) ==
    /\ Call /\ p \in DOMAIN privates /\ ~privates[p].inited
    /\ privates' = [privates EXCEPT ![p].inited = TRUE]
    /\ sources' = [s \in DOMAIN sources |->
                      IF s = privates[p].to THEN AddWritter(sources[s], p, FALSE) ELSE sources[s]]
    /\ UNCHANGED <<workers, output, gone, mixing, thread>>

DeletePrivate(p) ==
    /\ Call /\ p \in DOMAIN privates
    /\ privates' = Without(privates, p)
    /\ sources' = [s \in DOMAIN sources |->
                      IF s = privates[p].to THEN RemoveWritter(sources[s], p) ELSE sources[s]]
    /\ output' = Without(output, p)
    /\ gone' = gone \cup {p}
    /\ UNCHANGED <<workers, mixing, thread>>

\* PipeTextOutput::SendFrame, from the stream of a participant or a player: when
\* there is no room the text so far is dropped
SendFrame(p, kind) ==
    /\ mixing
    /\ p \in workers \/ (p \in DOMAIN privates /\ privates[p].inited)
    /\ output' = [output EXCEPT ![p] = Append(IF Len(@) < OutputSize THEN @ ELSE Empty, kind)]
    /\ UNCHANGED <<sources, workers, privates, gone, mixing, thread, calls>>

-----------------------------------------------------------------------------
(* The thread, MixText.                                                    *)

\* Who writes to the worker of s
WritesTo(s) == (IF s \in workers THEN DOMAIN sources \ {s} ELSE {})
               \cup {p \in DOMAIN privates : privates[p].to = s}

\* The worker of s when the text of all who write to it has been written
Written(s) ==
    LET w == sources[s]
    IN  [w EXCEPT !.writters = [p \in DOMAIN @ |->
            IF p \in WritesTo(s) THEN WriteText(w, p, output[p]).writters[p] ELSE @[p]]]

Mix ==
    /\ mixing /\ thread = "awake" /\ thread' = "asleep"
    /\ sources' = [s \in DOMAIN sources |->
                      IF s \in workers THEN ProcessText(Written(s)) ELSE Written(s)]
    /\ output' = [p \in DOMAIN output |-> Empty]
    /\ UNCHANGED <<workers, privates, gone, mixing, calls>>

\* 200 ms go by, or the thread is kept waiting for the lock
Tick ==
    /\ thread # "ended" /\ thread' = "awake"
    /\ sources' = [s \in DOMAIN sources |-> Aged(sources[s])]
    /\ UNCHANGED <<workers, privates, output, gone, mixing, calls>>

\* End: the thread is told to stop
End ==
    /\ mixing /\ mixing' = FALSE
    /\ thread' = "awake"
    /\ UNCHANGED <<sources, workers, privates, output, gone, calls>>

\* The thread flushes the workers and ends
Flush ==
    /\ ~mixing /\ thread = "awake" /\ thread' = "ended"
    /\ sources' = [s \in DOMAIN sources |->
                      IF s \in workers THEN FlushText(sources[s]) ELSE sources[s]]
    /\ UNCHANGED <<workers, privates, output, gone, mixing, calls>>

\* End: the thread has been joined.  The set of workers and the privates are left.
EndJoined ==
    /\ thread = "ended" /\ sources # <<>> /\ sources' = <<>>
    /\ gone' = gone \cup DOMAIN sources
    /\ output' = [p \in DOMAIN privates |-> output[p]]
    /\ UNCHANGED <<workers, privates, mixing, thread, calls>>

Next ==
    \/ \E s \in Participant : CreateMixer(s) \/ InitMixer(s) \/ DeleteMixer(s)
    \/ \E p \in Player : InitPrivate(p) \/ DeletePrivate(p)
    \/ \E p \in Player, to \in Participant : CreatePrivate(p, to)
    \/ \E t \in Typing : SendFrame(t[1], t[2])
    \/ Mix \/ Tick \/ End \/ Flush \/ EndJoined

Spec == Init /\ [][Next]_vars

\* The thread wakes up, and gets the lock to sleep again or to end
Wakes  == thread = "asleep" /\ thread' = "awake"
Sleeps == thread = "awake" /\ thread' \in {"asleep", "ended"}

FairSpec == Spec /\ WF_thread(Wakes) /\ WF_thread(Sleeps) /\ WF_vars(EndJoined)

-----------------------------------------------------------------------------

TypeOK ==
    /\ thread # "ended" => workers \subseteq DOMAIN sources
    /\ \A s \in DOMAIN sources : \A p \in DOMAIN sources[s].writters :
          LET c == Writter(sources[s], p)
          IN  Len(c.queue) <= QueueSize /\ c.since \in Zero..MaxAge

\* textmixer.cpp InitMixer and DeleteMixer: in whatever order participants and
\* players come and go, all the others who take part can write to a worker,
\* and nobody who has gone.
WrittersAreThere ==
    thread # "ended" => \A s \in workers :
        /\ workers \ {s} \subseteq DOMAIN sources[s].writters
        /\ DOMAIN sources[s].writters \subseteq DOMAIN sources \cup DOMAIN privates

\* textmixerworker.cpp RemoveWritter: the turn belongs to a writer there is.
TurnIsAWritters ==
    \A s \in DOMAIN sources : sources[s].current \in DOMAIN sources[s].writters \cup {Nobody}

\* textmixer.cpp, textmixerworker.cpp: the workers know who can write, and the turn
\* is given to one of these.
WorkersKnowTheirWritters == TypeOK /\ WrittersAreThere /\ TurnIsAWritters

\* textmixerworker.cpp ProcessText: what has been taken from the queue of a
\* writer has been shown to the reader, all of it, in order and once, wherever
\* words, sentences and messages made it stop.
ShownInOrder ==
    \A s \in DOMAIN sources : \A p \in DOMAIN sources[s].writters :
        LET c == Writter(sources[s], p)
        IN  Len(c.queue) = c.in /\ \A i \in DOMAIN c.queue : c.queue[i].n = i

\* textmixerworker.cpp ProcessText: text is shown under the name of the one who
\* wrote it, until the thread ends.  (FlushText goes on to the next writer without a
\* label when the current one has nothing left.)
ShownUnderItsLabel ==
    thread # "ended" => \A s \in DOMAIN sources : sources[s].author = sources[s].label

\* textmixerworker.cpp ProcessText: a reader gets the text of each writer, as it was
\* written and as its own.
TextIsShown == ShownInOrder /\ ShownUnderItsLabel

\* textmixerworker.cpp ProcessText: one who has written comes to have a turn, though
\* another one goes on for ever without the end of a word.
EverybodyGetsATurn ==
    \A s \in Participant, p \in Participant \cup Player :
        LET pending == /\ s \in workers \cap DOMAIN sources
                       /\ p \in DOMAIN sources[s].writters
                       /\ HasText(sources[s], p)
        IN  pending ~> (~pending \/ sources[s].current = p)

=============================================================================
