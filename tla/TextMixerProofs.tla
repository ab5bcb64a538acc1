-------------------------- MODULE TextMixerProofs --------------------------
(***************************************************************************)
(* Proofs about TextMixer, for any participants and players, any texts and *)
(* any sizes and limits: the workers know who writes to them               *)
(* (WorkersKnowTheirWritters), and a reader gets the text of each writer   *)
(* in order, once and under its name (TextIsShown).                        *)
(*                                                                         *)
(* The operators of TextMixerWorker are proved one by one to keep a worker *)
(* sound; the mixer then only has to keep track of who is there.           *)
(***************************************************************************)
EXTENDS TextMixer, SequenceTheorems, WellFoundedInduction, TLAPS

-----------------------------------------------------------------------------
(* The inductive invariant.                                                *)

Char == [n : Int, kind : Kind]

WritterState == [realtime : BOOLEAN, queue : Seq(Char), since : Zero..MaxAge,
                 stop : BOOLEAN, in : Nat]

Writters == UNION {[D -> WritterState] : D \in SUBSET (Nat \ {0})}

WorkerState == [writters : Writters, current : Nat, isFirst : BOOLEAN,
                label : Nat, author : Nat]

\* A queue holds what was written and not shown, in order.
Ordered(c) == /\ Len(c.queue) <= QueueSize /\ Len(c.queue) = c.in
              /\ \A i \in DOMAIN c.queue : c.queue[i].n = i

Sound(w) ==
    /\ w \in WorkerState
    /\ \A p \in DOMAIN w.writters : Ordered(w.writters[p])
    /\ w.current \in DOMAIN w.writters \cup {Nobody}

\* The line under way is labelled, and is the current writer's.
Labelled(w) ==
    /\ w.author = w.label
    /\ w.isFirst \/ (w.label = w.current /\ w.current # Nobody)

\* Who is there
People ==
    /\ DOMAIN sources \subseteq Participant /\ DOMAIN privates \subseteq Player
    /\ DOMAIN output = DOMAIN sources \cup DOMAIN privates
    /\ \A p \in DOMAIN output : output[p] \in Seq(Kind)
    /\ thread # "ended" => workers \subseteq DOMAIN sources
    /\ thread = "ended" => ~mixing

\* A worker's writers are those who write to it, and include all the others with
\* a worker.
Known == thread # "ended" => \A s \in DOMAIN sources :
             /\ DOMAIN sources[s].writters \subseteq WritesTo(s)
             /\ s \in workers => workers \ {s} \subseteq DOMAIN sources[s].writters

IInv ==
    /\ People
    /\ Known
    /\ \A s \in DOMAIN sources : Sound(sources[s])
    /\ thread # "ended" => \A s \in DOMAIN sources : Labelled(sources[s])

-----------------------------------------------------------------------------
(* Numbers and sets.                                                       *)

\* A set of natural numbers has a least element.
LEMMA Least ==
    ASSUME NEW T, T \subseteq Nat, T # {}
    PROVE  \E x \in T : \A y \in T : x <= y
<1> DEFINE R == {ss \in Nat \X Nat : ss[1] < ss[2]}
<1>1. IsWellFoundedOn(R, Nat)
  BY NatLessThanWellFounded DEF OpToRel
<1> HIDE DEF R
<1>2. PICK x \in T : \A y \in T : ~(<<y, x>> \in R)
  BY <1>1, WFMin
<1>3. ASSUME NEW y \in T PROVE x <= y
  <2>1. ~(<<y, x>> \in R)
    BY <1>2
  <2>2. ~(y < x)
    BY <2>1 DEF R
  <2> QED
    BY <2>2
<1> QED
  BY <1>3

\* Min is the least one.
LEMMA MinIsLeast ==
    ASSUME NEW T, T \subseteq Nat, T # {}
    PROVE  Min(T) \in T
  BY Least DEF Min

\* Max is the greatest one of a set with a bound.
LEMMA MaxIsGreatest ==
    ASSUME NEW T, T \subseteq Int, T # {}, NEW m \in Int, \A x \in T : x <= m
    PROVE  Max(T) \in T
<1> DEFINE U == {m - x : x \in T}
<1>0. \A x \in T : x \in Int /\ m - x \in Nat
  OBVIOUS
<1>1. U \subseteq Nat /\ U # {}
  BY <1>0
<1>2. PICK u \in U : \A v \in U : u <= v
  BY <1>1, Least
<1>3. PICK x \in T : u = m - x
  OBVIOUS
<1>4. \A y \in T : m - x <= m - y
  BY <1>2, <1>3
<1>5. \A y \in T : x >= y
  BY <1>0, <1>4
<1> QED
  BY <1>5 DEF Max

LEMMA MaxOfTwo ==
    ASSUME NEW a \in Int, NEW b \in Int
    PROVE  Max({a, b}) = IF a <= b THEN b ELSE a
  BY DEF Max

LEMMA MinOfTwo ==
    ASSUME NEW a \in Int, NEW b \in Int
    PROVE  Min({a, b}) = IF a <= b THEN a ELSE b
  BY DEF Min

LEMMA MaxAgeType == MaxAge \in Nat \ {0}
<1>1. WaitLimit + Extension \in Nat /\ Inactive \in Nat
  BY WorkerAssumption
<1> QED
  BY <1>1, MaxOfTwo DEF MaxAge

LEMMA OlderType == ASSUME NEW age \in Zero..MaxAge PROVE Older(age) \in Zero..MaxAge
<1>1. MaxAge \in Nat
  BY MaxAgeType
<1>2. CASE age = Zero
  BY <1>1, <1>2 DEF Older, Zero
<1>3. CASE age # Zero
  <2>1. age + 1 \in Int /\ MaxAge \in Int /\ age >= 0
    BY <1>1, <1>3 DEF Zero
  <2>2. Min({age + 1, MaxAge}) = IF age + 1 <= MaxAge THEN age + 1 ELSE MaxAge
    BY <2>1, MinOfTwo
  <2> QED
    BY <2>1, <2>2, <1>1, <1>3 DEF Older, Zero
<1> QED
  BY <1>2, <1>3

-----------------------------------------------------------------------------
(* A worker as a record.                                                   *)

LEMMA WrittersDomain ==
    ASSUME NEW f \in Writters
    PROVE  DOMAIN f \subseteq Nat \ {0} /\ f \in [DOMAIN f -> WritterState]
  BY DEF Writters

LEMMA WrittersOver ==
    ASSUME NEW D, D \subseteq Nat \ {0}, NEW f \in [D -> WritterState]
    PROVE  f \in Writters /\ DOMAIN f = D
  BY DEF Writters

\* What is known of a sound worker
LEMMA SoundWorker ==
    ASSUME NEW w, Sound(w)
    PROVE  /\ w \in WorkerState
           /\ w.writters \in Writters
           /\ w.writters \in [DOMAIN w.writters -> WritterState]
           /\ DOMAIN w.writters \subseteq Nat \ {0}
           /\ w.current \in Nat
<1>1. w \in WorkerState /\ w.writters \in Writters /\ w.current \in Nat
  BY DEF Sound, WorkerState
<1> QED
  BY <1>1, WrittersDomain

LEMMA SoundWritter ==
    ASSUME NEW w, Sound(w), NEW p \in DOMAIN w.writters
    PROVE  w.writters[p] \in WritterState /\ Ordered(w.writters[p])
<1>1. w.writters \in [DOMAIN w.writters -> WritterState]
  BY SoundWorker
<1> QED
  BY <1>1 DEF Sound

\* A worker made of writers in order and of one of them whose turn it is
LEMMA Rebuilt ==
    ASSUME NEW D, D \subseteq Nat \ {0}, NEW f \in [D -> WritterState],
           \A p \in D : Ordered(f[p]),
           NEW c \in D \cup {Nobody}, NEW first \in BOOLEAN, NEW l \in Nat, NEW a \in Nat
    PROVE  /\ Sound([writters |-> f, current |-> c, isFirst |-> first, label |-> l, author |-> a])
           /\ DOMAIN f = D
<1>1. f \in Writters /\ DOMAIN f = D
  BY WrittersOver
<1>2. c \in Nat
  BY DEF Nobody
<1>3. [writters |-> f, current |-> c, isFirst |-> first, label |-> l, author |-> a] \in WorkerState
  BY <1>1, <1>2 DEF WorkerState
<1> QED
  BY <1>1, <1>3 DEF Sound

LEMMA WorkerFields ==
    ASSUME NEW w \in WorkerState
    PROVE  /\ w = [writters |-> w.writters, current |-> w.current, isFirst |-> w.isFirst,
                   label |-> w.label, author |-> w.author]
           /\ w.isFirst \in BOOLEAN /\ w.label \in Nat /\ w.author \in Nat
  BY DEF WorkerState

LEMMA NewWritterSound ==
    ASSUME NEW r \in BOOLEAN
    PROVE  NewWritter(r) \in WritterState /\ Ordered(NewWritter(r))
<1>1. MaxAge \in Nat /\ QueueSize \in Nat
  BY MaxAgeType, WorkerAssumption
<1>2. Zero \in Zero..MaxAge
  BY <1>1 DEF Zero
<1>3. <<>> \in Seq(Char) /\ Len(<<>>) = 0 /\ DOMAIN <<>> = {}
  OBVIOUS
<1> QED
  BY <1>1, <1>2, <1>3 DEF NewWritter, WritterState, Ordered, Empty

LEMMA NewWorkerSound == Sound(NewWorker) /\ Labelled(NewWorker) /\ DOMAIN NewWorker.writters = {}
<1>1. <<>> \in [{} -> WritterState] /\ DOMAIN <<>> = {}
  OBVIOUS
<1>2. <<>> \in Writters
  BY <1>1, WrittersOver
<1>3. NewWorker \in WorkerState
  BY <1>2 DEF NewWorker, WorkerState, Nobody
<1> QED
  BY <1>1, <1>3 DEF NewWorker, Sound, Labelled, Nobody
-----------------------------------------------------------------------------
(* Who writes, and what is written.                                        *)

LEMMA AddWritterSound ==
    ASSUME NEW w, Sound(w), NEW id \in Nat \ {0}, NEW r \in BOOLEAN
    PROVE  /\ Sound(AddWritter(w, id, r))
           /\ Labelled(w) => Labelled(AddWritter(w, id, r))
           /\ DOMAIN AddWritter(w, id, r).writters = DOMAIN w.writters \cup {id}
<1>1. CASE id \in DOMAIN w.writters
  BY <1>1 DEF AddWritter
<1>2. CASE id \notin DOMAIN w.writters
  <2> DEFINE D == DOMAIN w.writters \cup {id}
             f == [x \in D |-> IF x = id THEN NewWritter(r) ELSE w.writters[x]]
             v == [writters |-> f, current |-> w.current, isFirst |-> w.isFirst,
                   label |-> w.label, author |-> w.author]
  <2>1. w \in WorkerState /\ w.current \in DOMAIN w.writters \cup {Nobody}
    BY DEF Sound
  <2>2. D \subseteq Nat \ {0}
    BY SoundWorker
  <2>3. \A x \in D : f[x] \in WritterState /\ Ordered(f[x])
    BY NewWritterSound, SoundWritter
  <2>4. f \in [D -> WritterState]
    BY <2>3
  <2>5. w.isFirst \in BOOLEAN /\ w.label \in Nat /\ w.author \in Nat
    BY <2>1, WorkerFields
  <2>6. AddWritter(w, id, r) = v
    BY <1>2, <2>1, WorkerFields DEF AddWritter
  <2> HIDE DEF f, D
  <2>7. Sound(v) /\ DOMAIN f = D
    BY <2>1, <2>2, <2>3, <2>4, <2>5, Rebuilt DEF D
  <2>8. Labelled(w) => Labelled(v)
    BY DEF Labelled
  <2> QED
    BY <2>6, <2>7, <2>8 DEF D
<1> QED
  BY <1>1, <1>2

LEMMA RemoveWritterSound ==
    ASSUME NEW w, Sound(w), NEW id \in Nat \ {0}
    PROVE  /\ Sound(RemoveWritter(w, id))
           /\ Labelled(w) => Labelled(RemoveWritter(w, id))
           /\ DOMAIN RemoveWritter(w, id).writters = DOMAIN w.writters \ {id}
<1>1. CASE id \notin DOMAIN w.writters
  BY <1>1 DEF RemoveWritter
<1>2. CASE id \in DOMAIN w.writters
  <2> DEFINE D == DOMAIN w.writters \ {id}
             f == [x \in D |-> w.writters[x]]
             c == IF w.current = id THEN Nobody ELSE w.current
             first == w.isFirst \/ w.current = id
             v == [writters |-> f, current |-> c, isFirst |-> first,
                   label |-> w.label, author |-> w.author]
  <2>1. w \in WorkerState /\ w.current \in DOMAIN w.writters \cup {Nobody}
    BY DEF Sound
  <2>2. D \subseteq Nat \ {0}
    BY SoundWorker
  <2>3. \A x \in D : f[x] \in WritterState /\ Ordered(f[x])
    BY SoundWritter
  <2>4. f \in [D -> WritterState]
    BY <2>3
  <2>5. w.isFirst \in BOOLEAN /\ w.label \in Nat /\ w.author \in Nat
    BY <2>1, WorkerFields
  <2>6. RemoveWritter(w, id) = v
    <3>1. RemoveWritter(w, id) = [w EXCEPT !.writters = f, !.current = c, !.isFirst = first]
      BY <1>2 DEF RemoveWritter
    <3>2. w = [writters |-> w.writters, current |-> w.current, isFirst |-> w.isFirst,
               label |-> w.label, author |-> w.author]
      BY <2>1, WorkerFields
    <3> HIDE DEF f, c, first
    <3> QED
      BY <3>1, <3>2
  <2>7. c \in D \cup {Nobody} /\ first \in BOOLEAN
    BY <2>1, <2>5
  <2>8. Labelled(w) => Labelled(v)
    BY DEF Labelled
  <2> HIDE DEF f, D, c, first
  <2>9. Sound(v) /\ DOMAIN f = D
    BY <2>1, <2>2, <2>3, <2>4, <2>5, <2>7, Rebuilt
  <2> QED
    BY <2>6, <2>8, <2>9 DEF D
<1> QED
  BY <1>1, <1>2

\* What is written goes behind what is in the queue.
LEMMA WriteTextSound ==
    ASSUME NEW w, Sound(w), NEW id \in DOMAIN w.writters, NEW text \in Seq(Kind)
    PROVE  /\ WriteText(w, id, text).writters[id] \in WritterState
           /\ Ordered(WriteText(w, id, text).writters[id])
<1> DEFINE c == w.writters[id]
           chars == [i \in 1..Len(text) |-> [n |-> c.in + i, kind |-> text[i]]]
           d == [c EXCEPT !.queue = @ \o chars, !.in = @ + Len(text)]
<1>0. c \in WritterState /\ Ordered(c)
  BY SoundWritter
<1>1. CASE Len(c.queue) + Len(text) > QueueSize
  BY <1>0, <1>1 DEF WriteText, Writter
<1>2. CASE ~(Len(c.queue) + Len(text) > QueueSize)
  <2>1. c.in \in Nat /\ c.queue \in Seq(Char) /\ Len(c.queue) = c.in /\ Len(c.queue) \in Nat
    BY <1>0 DEF WritterState, Ordered
  <2>2. Len(text) \in Nat /\ \A i \in 1..Len(text) : text[i] \in Kind
    OBVIOUS
  <2>3. \A i \in 1..Len(text) : chars[i] \in Char /\ chars[i].n = c.in + i
    BY <2>1, <2>2 DEF Char
  <2>4. chars \in Seq(Char) /\ Len(chars) = Len(text)
    <3>1. chars \in [1..Len(text) -> Char]
      BY <2>3
    <3> HIDE DEF chars
    <3> QED
      BY <3>1, <2>2, IsASeq, LenProperties
  <2>5. WriteText(w, id, text).writters[id] = d
    <3>1. w \in WorkerState /\ w.writters \in [DOMAIN w.writters -> WritterState]
      BY SoundWorker
    <3>2. WriteText(w, id, text) = [w EXCEPT !.writters[id] = d]
      BY <1>2 DEF WriteText, Writter
    <3> HIDE DEF d
    <3> QED
      BY <3>1, <3>2 DEF WorkerState
  <2>5a. d = [c EXCEPT !.queue = c.queue \o chars, !.in = c.in + Len(text)]
    OBVIOUS
  <2> HIDE DEF chars, c, d
  <2> DEFINE q == c.queue \o chars
  <2>6. /\ q \in Seq(Char) /\ Len(q) = c.in + Len(text)
        /\ \A i \in 1..Len(q) : q[i] = IF i <= c.in THEN c.queue[i] ELSE chars[i - c.in]
    BY <2>1, <2>4, ConcatProperties
  <2>7. \A i \in 1..Len(q) : q[i].n = i
    <3> SUFFICES ASSUME NEW i \in 1..Len(q) PROVE q[i].n = i
      OBVIOUS
    <3>1. CASE i <= c.in
      <4>1. i \in DOMAIN c.queue
        BY <3>1, <2>1, <2>6
      <4> QED
        BY <3>1, <4>1, <2>6, <1>0 DEF Ordered, c
    <3>2. CASE ~(i <= c.in)
      <4>1. i - c.in \in 1..Len(text) /\ c.in + (i - c.in) = i
        BY <3>2, <2>1, <2>2, <2>6, SMTT(30)
      <4> HIDE DEF q
      <4> QED
        BY <3>2, <4>1, <2>6, <2>3
    <3> QED
      BY <3>1, <3>2
  <2> HIDE DEF q
  <2>8. d = [c EXCEPT !.queue = q, !.in = c.in + Len(text)]
    BY <2>5a DEF q
  <2>9. d \in WritterState /\ d.queue = q /\ d.in = c.in + Len(text)
    <3>1. c.in + Len(text) \in Nat /\ q \in Seq(Char) /\ c \in WritterState
      BY <2>1, <2>2, <2>6, <1>0 DEF c
    <3> QED
      BY <2>8, <3>1 DEF WritterState
  <2>10. DOMAIN q = 1..Len(q) /\ Len(q) <= QueueSize
    BY <1>2, <2>1, <2>2, <2>6, WorkerAssumption
  <2> QED
    BY <2>5, <2>6, <2>7, <2>9, <2>10 DEF Ordered
<1> QED
  BY <1>1, <1>2
-----------------------------------------------------------------------------
(* Who is next.                                                            *)

LEMMA MaxWaitingTimeType ==
    ASSUME NEW w, Sound(w)
    PROVE  /\ MaxWaitingTime(w) \in Int
           /\ MaxWaitingTime(w) > 0 =>
                 \E p \in Visited(w) : Writter(w, p).since = MaxWaitingTime(w)
<1> DEFINE T == {0} \cup {Writter(w, p).since : p \in Visited(w)}
<1>1. MaxAge \in Nat
  BY MaxAgeType
<1>2. \A p \in Visited(w) : p \in DOMAIN w.writters
  BY DEF Visited, Waiting
<1>3. \A p \in Visited(w) : Writter(w, p).since \in Int /\ Writter(w, p).since <= MaxAge
  <2> SUFFICES ASSUME NEW p \in Visited(w)
               PROVE  Writter(w, p).since \in Int /\ Writter(w, p).since <= MaxAge
    OBVIOUS
  <2>1. w.writters[p].since \in Zero..MaxAge
    BY <1>2, SoundWritter DEF WritterState
  <2> QED
    BY <1>1, <2>1 DEF Writter, Zero
<1>4. T \subseteq Int /\ T # {} /\ \A x \in T : x <= MaxAge
  BY <1>1, <1>3
<1>5. MaxAge \in Int
  BY <1>1
<1> HIDE DEF T
<1>6. Max(T) \in T
  BY <1>4, <1>5, MaxIsGreatest
<1>7. MaxWaitingTime(w) = Max(T)
  BY DEF MaxWaitingTime, T
<1>8. Max(T) \in Int
  BY <1>4, <1>6
<1>9. ASSUME Max(T) > 0 PROVE \E p \in Visited(w) : Writter(w, p).since = Max(T)
  <2>1. Max(T) # 0
    BY <1>8, <1>9
  <2> QED
    BY <1>6, <2>1 DEF T
<1> QED
  BY <1>7, <1>8, <1>9

LEMMA NextWritterThere ==
    ASSUME NEW w, Sound(w)
    PROVE  NextWritter(w) \in DOMAIN w.writters \cup {Nobody}
<1> DEFINE longest == {p \in Visited(w) : Writter(w, p).since = MaxWaitingTime(w)}
<1>1. Visited(w) \subseteq DOMAIN w.writters /\ Privates(w) \subseteq DOMAIN w.writters
  BY DEF Visited, Waiting, Privates
<1>2. DOMAIN w.writters \subseteq Nat
  BY SoundWorker
<1>3. CASE Privates(w) # {}
  <2>1. Min(Privates(w)) \in Privates(w)
    BY <1>1, <1>2, <1>3, MinIsLeast
  <2> QED
    BY <1>1, <1>3, <2>1 DEF NextWritter
<1>4. CASE Privates(w) = {} /\ Visited(w) # {} /\ MaxWaitingTime(w) > 0
  <2>1. longest # {} /\ longest \subseteq Nat /\ longest \subseteq DOMAIN w.writters
    BY <1>1, <1>2, <1>4, MaxWaitingTimeType
  <2>2. NextWritter(w) = Min(longest)
    BY <1>4 DEF NextWritter
  <2> HIDE DEF longest
  <2>3. Min(longest) \in longest
    BY <2>1, MinIsLeast
  <2> QED
    BY <2>1, <2>2, <2>3
<1>5. CASE Privates(w) = {} /\ Visited(w) # {} /\ ~(MaxWaitingTime(w) > 0)
  <2>1. Min(Visited(w)) \in Visited(w)
    BY <1>1, <1>2, <1>5, MinIsLeast
  <2> QED
    BY <1>1, <1>5, <2>1 DEF NextWritter
<1>6. CASE Privates(w) = {} /\ Visited(w) = {}
  BY <1>6 DEF NextWritter
<1> QED
  BY <1>3, <1>4, <1>5, <1>6

\* Those who begin to wait only have their waiting time set.
LEMMA WaitedSound ==
    ASSUME NEW w, Sound(w)
    PROVE  /\ Sound(Waited(w))
           /\ Labelled(w) => Labelled(Waited(w))
           /\ DOMAIN Waited(w).writters = DOMAIN w.writters
           /\ Waited(w).current = w.current
<1> DEFINE D == DOMAIN w.writters
           f == [p \in D |-> IF p \in Visited(w) /\ w.writters[p].since = Zero
                             THEN [w.writters[p] EXCEPT !.since = 0] ELSE w.writters[p]]
           v == [writters |-> f, current |-> w.current, isFirst |-> w.isFirst,
                 label |-> w.label, author |-> w.author]
<1>1. w \in WorkerState /\ w.current \in DOMAIN w.writters \cup {Nobody}
  BY DEF Sound
<1>2. D \subseteq Nat \ {0}
  BY SoundWorker
<1>3. 0 \in Zero..MaxAge
  BY MaxAgeType DEF Zero
<1>4. \A c \in WritterState : Ordered(c) =>
         [c EXCEPT !.since = 0] \in WritterState /\ Ordered([c EXCEPT !.since = 0])
  BY <1>3 DEF WritterState, Ordered
<1>5. \A x \in D : f[x] \in WritterState /\ Ordered(f[x])
  BY <1>4, SoundWritter
<1>6. f \in [D -> WritterState]
  BY <1>5
<1>7. w.isFirst \in BOOLEAN /\ w.label \in Nat /\ w.author \in Nat
  BY <1>1, WorkerFields
<1>8. Waited(w) = v
  <2>1. Waited(w) = [w EXCEPT !.writters = f]
    BY DEF Waited
  <2> HIDE DEF f
  <2> QED
    BY <2>1, <1>1, WorkerFields
<1> HIDE DEF f, D
<1>9. Sound(v) /\ DOMAIN f = D
  BY <1>1, <1>2, <1>5, <1>6, <1>7, Rebuilt DEF D
<1>10. Labelled(w) => Labelled(v)
  BY DEF Labelled
<1> QED
  BY <1>8, <1>9, <1>10 DEF D

-----------------------------------------------------------------------------
(* How much is written.                                                    *)

LEMMA CutWordWithin ==
    ASSUME NEW text \in Seq(Char), NEW search \in BOOLEAN
    PROVE  CutWord(text, search).len \in 0..Len(text)
<1> DEFINE spaces == {i \in 1..Len(text) : text[i].kind = "space"}
<1>1. Len(text) \in Nat
  OBVIOUS
<1>2. CASE search /\ spaces # {}
  <2>1. spaces \subseteq Int /\ \A x \in spaces : x <= Len(text)
    BY <1>1
  <2>2. spaces \subseteq 1..Len(text)
    OBVIOUS
  <2>3. CutWord(text, search).len = Max(spaces) - 1
    BY <1>2 DEF CutWord, Cut
  <2> HIDE DEF spaces
  <2>4. Len(text) \in Int /\ spaces # {}
    BY <1>1, <1>2
  <2>5. Max(spaces) \in spaces
    BY <2>1, <2>4, MaxIsGreatest
  <2>6. Max(spaces) \in 1..Len(text)
    BY <2>2, <2>5
  <2> QED
    BY <1>1, <2>3, <2>6
<1>3. CASE ~(search /\ spaces # {})
  <2>1. CutWord(text, search).len = Len(text)
    BY <1>3 DEF CutWord, Cut
  <2> QED
    BY <1>1, <2>1
<1> QED
  BY <1>2, <1>3

LEMMA CutSentenceWithin ==
    ASSUME NEW text \in Seq(Char), text # <<>>, NEW len \in 0..Len(text), NEW stop \in BOOLEAN
    PROVE  CutSentence(text, len, stop).len \in 0..Len(text)
<1> DEFINE ends == {i \in 1..(len - 1) : text[i].kind = "stop" /\ text[i + 1].kind = "space"}
<1>1. Len(text) \in Nat /\ Len(text) > 0
  OBVIOUS
<1>2. CASE stop
  <2>1. CutSentence(text, len, stop).len \in {1, len}
    BY <1>2 DEF CutSentence, Cut
  <2> QED
    BY <1>1, <2>1
<1>3. CASE ~stop /\ ends # {}
  <2>1. ends \subseteq Int /\ \A x \in ends : x <= len
    OBVIOUS
  <2>2. ends \subseteq 1..(len - 1) /\ len \in Int
    OBVIOUS
  <2>3. CutSentence(text, len, stop).len = Max(ends)
    BY <1>3 DEF CutSentence, Cut
  <2> HIDE DEF ends
  <2>4. Max(ends) \in ends
    BY <1>3, <2>1, <2>2, MaxIsGreatest
  <2>5. Max(ends) \in 1..(len - 1)
    BY <2>2, <2>4
  <2> QED
    BY <1>1, <2>3, <2>5
<1>4. CASE ~stop /\ ends = {}
  <2>1. CutSentence(text, len, stop).len = len
    BY <1>4 DEF CutSentence, Cut
  <2> QED
    BY <2>1
<1> QED
  BY <1>2, <1>3, <1>4

LEMMA CutMessageWithin ==
    ASSUME NEW text \in Seq(Char), NEW len \in 0..Len(text)
    PROVE  CutMessage(text, len).len \in 0..Len(text)
<1> DEFINE ends == {i \in 1..len : text[i].kind = "newline"}
<1>1. Len(text) \in Nat
  OBVIOUS
<1>2. CASE ends # {}
  <2>1. ends \subseteq Nat /\ ends \subseteq 1..len
    BY <1>1
  <2>2. CutMessage(text, len).len = Min(ends)
    BY <1>2 DEF CutMessage, Cut
  <2> HIDE DEF ends
  <2>3. Min(ends) \in 1..len
    BY <1>2, <2>1, MinIsLeast
  <2> QED
    BY <1>1, <2>2, <2>3
<1>3. CASE ends = {}
  BY <1>3 DEF CutMessage, Cut
<1> QED
  BY <1>2, <1>3
\* A writer when len of its characters have been shown
Remaining(c, len, stop) ==
    LET rest == SubSeq(c.queue, len + 1, Len(c.queue))
    IN  [c EXCEPT !.queue = [i \in DOMAIN rest |-> [rest[i] EXCEPT !.n = @ - len]],
                  !.in    = @ - len, !.since = 0, !.stop = stop]

\* What is shown is a head of the queue of the current writer, and what is left is
\* numbered from 1 again.
LEMMA ShownWritter ==
    ASSUME NEW c \in WritterState, Ordered(c), NEW len \in 0..Len(c.queue),
           NEW stop \in BOOLEAN
    PROVE  Remaining(c, len, stop) \in WritterState /\ Ordered(Remaining(c, len, stop))
<1> DEFINE rest == SubSeq(c.queue, len + 1, Len(c.queue))
           q == [i \in DOMAIN rest |-> [rest[i] EXCEPT !.n = @ - len]]
           k == c.in - len
           d == Remaining(c, len, stop)
<1>1. /\ c.queue \in Seq(Char) /\ c.in \in Nat /\ Len(c.queue) = c.in
      /\ Len(c.queue) <= QueueSize /\ QueueSize \in Nat
      /\ \A i \in DOMAIN c.queue : c.queue[i].n = i
  BY WorkerAssumption DEF WritterState, Ordered
<1>2. len \in Nat /\ k \in Nat /\ len + k = c.in /\ k <= QueueSize
  <2>1. len \in 0..c.in
    BY <1>1
  <2> QED
    BY <1>1, <2>1
<1> HIDE DEF k
<1>3. /\ rest \in Seq(Char) /\ Len(rest) = k
      /\ \A i \in 1..k : rest[i] = c.queue[len + i]
  <2>1. /\ len + 1 \in Int /\ Len(c.queue) \in Int
        /\ \A i \in (len + 1)..Len(c.queue) : c.queue[i] \in Char
    <3>1. \A i \in 1..c.in : c.queue[i] \in Char
      BY <1>1
    <3>2. \A i \in (len + 1)..c.in : i \in 1..c.in
      BY <1>1, <1>2
    <3> QED
      BY <1>1, <1>2, <3>1, <3>2
  <2>2. /\ rest \in Seq(Char)
        /\ Len(rest) = IF len + 1 <= Len(c.queue) THEN Len(c.queue) - (len + 1) + 1 ELSE 0
        /\ \A i \in 1..(Len(c.queue) - (len + 1) + 1) : rest[i] = c.queue[(len + 1) + i - 1]
    BY <1>1, <2>1, SubSeqProperties
  <2>3. Len(rest) = k /\ Len(c.queue) - (len + 1) + 1 = k
    BY <1>1, <1>2, <2>2 DEF k
  <2>4. \A i \in 1..k : (len + 1) + i - 1 = len + i
    BY <1>2
  <2> QED
    BY <2>2, <2>3, <2>4
<1>8. d = [c EXCEPT !.queue = q, !.in = k, !.since = 0, !.stop = stop]
  BY DEF k, Remaining
<1> HIDE DEF rest, d
<1>4. \A i \in 1..k : rest[i] \in Char /\ rest[i].n = len + i
  <2> SUFFICES ASSUME NEW i \in 1..k PROVE rest[i] \in Char /\ rest[i].n = len + i
    OBVIOUS
  <2>1. len + i \in DOMAIN c.queue
    BY <1>1, <1>2
  <2>2. c.queue[len + i] \in Char
    BY <1>1, <2>1
  <2> QED
    BY <1>1, <1>3, <2>1, <2>2
<1>5. DOMAIN rest = 1..k
  BY <1>2, <1>3
<1>6. \A i \in 1..k : q[i] \in Char /\ q[i].n = i
  <2> SUFFICES ASSUME NEW i \in 1..k PROVE q[i] \in Char /\ q[i].n = i
    OBVIOUS
  <2>1. q[i] = [rest[i] EXCEPT !.n = rest[i].n - len]
    <3>1. rest[i] \in Char
      BY <1>4
    <3> QED
      BY <1>5, <3>1 DEF Char
  <2>2. rest[i].n - len = i /\ i \in Int
    <3>1. rest[i].n = len + i
      BY <1>4
    <3>2. i \in Int /\ len \in Int
      BY <1>2
    <3> DEFINE x == rest[i].n
    <3>3. x = len + i
      BY <3>1
    <3> HIDE DEF x
    <3>4. x - len = i
      BY <3>2, <3>3
    <3> QED
      BY <3>2, <3>4 DEF x
  <2>3. rest[i] \in Char
    BY <1>4
  <2>4. \A r \in Char : [r EXCEPT !.n = i] \in Char /\ [r EXCEPT !.n = i].n = i
    BY <2>2 DEF Char
  <2> HIDE DEF q
  <2> QED
    BY <2>1, <2>2, <2>3, <2>4
<1>7. q \in [1..k -> Char]
  BY <1>5, <1>6
<1> HIDE DEF q
<1>9. q \in Seq(Char) /\ Len(q) = k /\ DOMAIN q = 1..k
  BY <1>2, <1>7, IsASeq, LenProperties
<1>10. d \in WritterState /\ d.queue = q /\ d.in = k
  <2>1. 0 \in Zero..MaxAge
    BY MaxAgeType DEF Zero
  <2> QED
    BY <1>2, <1>8, <1>9, <2>1 DEF WritterState
<1> QED
  BY <1>2, <1>6, <1>9, <1>10 DEF Ordered, d

\* The chunk that is looked at is a head of the queue.
LEMMA ChunkIsHead ==
    ASSUME NEW w, Sound(w), w.current # Nobody
    PROVE  /\ Chunk(w) \in Seq(Char)
           /\ Len(Chunk(w)) <= Len(Writter(w, w.current).queue)
           /\ \A i \in 1..Len(Chunk(w)) : Chunk(w)[i].n = i
<1> DEFINE c == w.writters[w.current]
           k == Min({Len(c.queue), ChunkSize})
<1>1. c \in WritterState /\ Ordered(c)
  BY SoundWritter DEF Sound
<1>2. c.queue \in Seq(Char) /\ \A i \in DOMAIN c.queue : c.queue[i].n = i
  BY <1>1 DEF WritterState, Ordered
<1> HIDE DEF c
<1>3. Len(c.queue) \in Nat /\ ChunkSize \in Nat
  BY <1>2, WorkerAssumption
<1>4. k \in 0..Len(c.queue)
  <2>1. Min({Len(c.queue), ChunkSize}) = IF Len(c.queue) <= ChunkSize THEN Len(c.queue) ELSE ChunkSize
    BY <1>3, MinOfTwo
  <2> QED
    BY <1>3, <2>1
<1>5. Chunk(w) = SubSeq(c.queue, 1, k)
  BY DEF Chunk, Writter, c
<1> HIDE DEF k
<1>6. /\ SubSeq(c.queue, 1, k) \in Seq(Char)
      /\ Len(SubSeq(c.queue, 1, k)) = IF 1 <= k THEN k - 1 + 1 ELSE 0
      /\ \A i \in 1..(k - 1 + 1) : SubSeq(c.queue, 1, k)[i] = c.queue[1 + i - 1]
  <2>1. k \in Int /\ \A i \in 1..k : c.queue[i] \in Char
    BY <1>2, <1>3, <1>4
  <2> QED
    BY <1>2, <2>1, SubSeqProperties
<1>7. Len(SubSeq(c.queue, 1, k)) = k /\ k - 1 + 1 = k /\ k <= Len(c.queue)
  BY <1>3, <1>4, <1>6
<1>8. \A i \in 1..k : i \in DOMAIN c.queue /\ 1 + i - 1 = i
  BY <1>2, <1>3, <1>4
<1> QED
  BY <1>2, <1>5, <1>6, <1>7, <1>8 DEF Writter, c
\* The turn of the current writer, whatever part of its text is shown.
LEMMA WriteSound ==
    ASSUME NEW w, Sound(w), w.current # Nobody, NEW search \in BOOLEAN
    PROVE  LET v == Write(w, search).worker
           IN  /\ Sound(v)
               /\ Labelled(w) => Labelled(v)
               /\ DOMAIN v.writters = DOMAIN w.writters
               /\ v.current = w.current
<1> DEFINE c        == w.writters[w.current]
           text     == Chunk(w)
           word     == CutWord(text, search)
           sentence == CutSentence(text, word.len, c.stop)
           len      == CutMessage(text, sentence.len).len
           stop     == sentence.len > 0 /\ text[sentence.len].kind = "stop"
           v        == Write(w, search).worker
           D        == DOMAIN w.writters
<1>1. w \in WorkerState /\ w.writters \in [D -> WritterState] /\ D \subseteq Nat \ {0}
  BY SoundWorker
<1>2. w.current \in D /\ c \in WritterState /\ Ordered(c)
  BY SoundWritter DEF Sound
<1>3. CASE text = Empty
  <2>1. v = w
    BY <1>3 DEF Write
  <2> QED
    BY <2>1
<1>4. CASE text # Empty
  <2>1. text \in Seq(Char) /\ Len(text) <= Len(c.queue) /\ \A i \in 1..Len(text) : text[i].n = i
    BY ChunkIsHead DEF Writter
  <2>2. text # <<>> /\ c.stop \in BOOLEAN /\ c.queue \in Seq(Char) /\ c.in \in Nat
    BY <1>2, <1>4 DEF Empty, WritterState
  <2> HIDE DEF text, c
  <2>3. word.len \in 0..Len(text)
    BY <2>1, CutWordWithin
  <2> HIDE DEF word
  <2>4. sentence.len \in 0..Len(text)
    BY <2>1, <2>2, <2>3, CutSentenceWithin
  <2> HIDE DEF sentence
  <2>5. len \in 0..Len(text)
    BY <2>1, <2>4, CutMessageWithin
  <2>6. v = Shown(w, text, len, stop)
    BY <1>4 DEF Write, Writter, text, word, sentence, c
  <2>10. stop \in BOOLEAN
    OBVIOUS
  <2> HIDE DEF len, stop, v, D
  <2> DEFINE seen == IF len = 0 THEN 0 ELSE text[len].n
             d    == Remaining(c, len, stop)
             f    == [w.writters EXCEPT ![w.current] = d]
             l    == Label(w)
  <2>7. seen = len /\ len \in 0..Len(c.queue)
    BY <2>1, <2>2, <2>5
  <2>8. Shown(w, text, len, stop) =
            [w EXCEPT !.writters[w.current] = d, !.isFirst = FALSE, !.label = l, !.author = w.current]
    BY <2>7 DEF Shown, Removed, Writter, Remaining, c
  <2>9. d \in WritterState /\ Ordered(d)
    <3>1. c \in WritterState /\ Ordered(c)
      BY <1>2 DEF c
    <3> QED
      BY <3>1, <2>7, <2>10, ShownWritter
  <2> HIDE DEF seen, d
  <2>12. v = [writters |-> f, current |-> w.current, isFirst |-> FALSE, label |-> l,
              author |-> w.current]
    <3>1. w = [writters |-> w.writters, current |-> w.current, isFirst |-> w.isFirst,
               label |-> w.label, author |-> w.author]
      BY <1>1, WorkerFields
    <3> HIDE DEF l
    <3> QED
      BY <2>6, <2>8, <3>1
  <2>13. f \in [D -> WritterState] /\ \A p \in D : Ordered(f[p])
    BY <1>1, <1>2, <2>9 DEF Sound, D
  <2>14. l \in Nat /\ w.current \in Nat /\ w.current \in D \cup {Nobody}
    BY <1>1, <1>2, SoundWorker, WorkerFields DEF Label
  <2>15. Labelled(w) => l = w.current
    BY DEF Labelled, Label
  <2> HIDE DEF f, l
  <2>16. Sound(v) /\ DOMAIN f = D
    BY <1>1, <2>12, <2>13, <2>14, Rebuilt
  <2> QED
    BY <2>12, <2>15, <2>16 DEF Labelled, v, D
<1> QED
  BY <1>3, <1>4
-----------------------------------------------------------------------------
(* A pass of the thread over a worker.                                     *)

LEMMA SwitchSound ==
    ASSUME NEW w, Sound(w), NEW next \in DOMAIN w.writters \cup {Nobody}
    PROVE  /\ Sound(Switch(w, next))
           /\ Labelled(w) => Labelled(Switch(w, next))
           /\ DOMAIN Switch(w, next).writters = DOMAIN w.writters
<1> DEFINE D == DOMAIN w.writters
           v == Switch(w, next)
<1>1. /\ w \in WorkerState /\ w.writters \in [D -> WritterState] /\ D \subseteq Nat \ {0}
      /\ \A p \in D : Ordered(w.writters[p])
  BY SoundWorker DEF Sound
<1>2. w = [writters |-> w.writters, current |-> w.current, isFirst |-> w.isFirst,
           label |-> w.label, author |-> w.author]
  BY <1>1, WorkerFields
<1>3. w.isFirst \in BOOLEAN /\ w.label \in Nat /\ w.author \in Nat
  BY <1>1, WorkerFields
<1>4. CASE v = w
  BY <1>4
<1>5. CASE w.current = Nobody /\ v = [w EXCEPT !.current = next]
  <2>1. v = [writters |-> w.writters, current |-> next, isFirst |-> w.isFirst,
             label |-> w.label, author |-> w.author]
    BY <1>2, <1>5
  <2> HIDE DEF v
  <2>2. Sound(v)
    BY <1>1, <1>3, <2>1, Rebuilt
  <2>3. Labelled(w) => Labelled(v)
    BY <1>5, <2>1 DEF Labelled
  <2> QED
    BY <2>1, <2>2, <2>3 DEF v
<1>6. CASE /\ w.current # Nobody
           /\ v = [w EXCEPT !.current = next, !.isFirst = TRUE, !.writters[w.current].since = Zero]
  <2> DEFINE d == [w.writters[w.current] EXCEPT !.since = Zero]
             f == [w.writters EXCEPT ![w.current] = d]
  <2>1. w.current \in D
    BY <1>6 DEF Sound
  <2>2. w.writters[w.current] \in WritterState /\ Ordered(w.writters[w.current])
    BY <1>1, <2>1
  <2>3. Zero \in Zero..MaxAge
    BY MaxAgeType DEF Zero
  <2>4. d \in WritterState /\ Ordered(d)
    BY <2>2, <2>3 DEF WritterState, Ordered
  <2>5. v = [w EXCEPT !.current = next, !.isFirst = TRUE, !.writters = f]
    BY <1>1, <1>6, <2>1 DEF WorkerState
  <2> HIDE DEF d
  <2>6. f \in [D -> WritterState] /\ \A p \in D : Ordered(f[p])
    BY <1>1, <2>1, <2>4
  <2> HIDE DEF f, v
  <2>7. v = [writters |-> f, current |-> next, isFirst |-> TRUE,
             label |-> w.label, author |-> w.author]
    BY <1>2, <2>5
  <2>8. TRUE \in BOOLEAN
    OBVIOUS
  <2> HIDE DEF D
  <2>9. Sound(v) /\ DOMAIN f = D
    BY <1>1, <1>3, <2>6, <2>7, <2>8, Rebuilt DEF D
  <2>10. Labelled(w) => Labelled(v)
    BY <2>7 DEF Labelled
  <2> QED
    BY <2>7, <2>9, <2>10 DEF v, D
<1> QED
  BY <1>4, <1>5, <1>6 DEF Switch

LEMMA ProcessTextSound ==
    ASSUME NEW w, Sound(w)
    PROVE  /\ Sound(ProcessText(w))
           /\ Labelled(w) => Labelled(ProcessText(w))
           /\ DOMAIN ProcessText(w).writters = DOMAIN w.writters
<1> DEFINE longest == MaxWaitingTime(w)
           over    == IsOver(longest)
           search  == ~over /\ longest > WaitLimit
           turn    == IF w.current = Nobody THEN [worker |-> Waited(w), switch |-> TRUE]
                      ELSE Write(Waited(w), search)
           v       == turn.worker
<1>1. /\ Sound(Waited(w)) /\ (Labelled(w) => Labelled(Waited(w)))
      /\ DOMAIN Waited(w).writters = DOMAIN w.writters /\ Waited(w).current = w.current
  BY WaitedSound
<1>2. Sound(v) /\ (Labelled(w) => Labelled(v)) /\ DOMAIN v.writters = DOMAIN w.writters
  <2>1. CASE w.current = Nobody
    <3>1. v = Waited(w)
      BY <2>1
    <3> HIDE DEF v
    <3> QED
      BY <1>1, <3>1
  <2>2. CASE w.current # Nobody
    <3>1. v = Write(Waited(w), search).worker
      BY <2>2
    <3>2. search \in BOOLEAN
      OBVIOUS
    <3> HIDE DEF v, search
    <3> QED
      BY <1>1, <2>2, <3>1, <3>2, WriteSound
  <2> QED
    BY <2>1, <2>2
<1>3. NextWritter(w) \in DOMAIN w.writters \cup {Nobody}
  BY NextWritterThere
<1>4. ProcessText(w) \in {Switch(v, NextWritter(w)), v}
  BY DEF ProcessText
<1> HIDE DEF v
<1>5. /\ Sound(Switch(v, NextWritter(w)))
      /\ Labelled(v) => Labelled(Switch(v, NextWritter(w)))
      /\ DOMAIN Switch(v, NextWritter(w)).writters = DOMAIN v.writters
  BY <1>2, <1>3, SwitchSound
<1> QED
  BY <1>2, <1>4, <1>5

\* A worker whose writers are changed one by one
LEMMA MappedSound ==
    ASSUME NEW w, Sound(w), NEW f \in [DOMAIN w.writters -> WritterState],
           \A p \in DOMAIN w.writters : Ordered(f[p]),
           NEW c \in DOMAIN w.writters \cup {Nobody},
           NEW v, v = [writters |-> f, current |-> c, isFirst |-> w.isFirst,
                       label |-> w.label, author |-> w.author]
    PROVE  /\ Sound(v)
           /\ DOMAIN v.writters = DOMAIN w.writters
           /\ c = w.current => (Labelled(w) => Labelled(v))
<1>1. w \in WorkerState /\ DOMAIN w.writters \subseteq Nat \ {0}
  BY SoundWorker
<1>2. w.isFirst \in BOOLEAN /\ w.label \in Nat /\ w.author \in Nat
  BY <1>1, WorkerFields
<1> DEFINE D == DOMAIN w.writters
<1>4. /\ D \subseteq Nat \ {0} /\ f \in [D -> WritterState] /\ c \in D \cup {Nobody}
      /\ \A p \in D : Ordered(f[p])
  BY <1>1
<1> HIDE DEF D
<1>6. Sound(v) /\ DOMAIN f = D
  BY <1>1, <1>2, <1>4, Rebuilt
<1>5. c = w.current => (Labelled(w) => Labelled(v))
  BY DEF Labelled
<1> QED
  BY <1>5, <1>6 DEF D

LEMMA FlushTextSound ==
    ASSUME NEW w, Sound(w)
    PROVE  Sound(FlushText(w)) /\ DOMAIN FlushText(w).writters = DOMAIN w.writters
<1>1. CASE w.current = Nobody
  BY <1>1 DEF FlushText
<1>2. CASE w.current # Nobody
  <2> DEFINE f == [p \in DOMAIN w.writters |->
                      [w.writters[p] EXCEPT !.queue = Empty, !.in = 0]]
  <2>1. FlushText(w) = [writters |-> f, current |-> Nobody, isFirst |-> w.isFirst,
                        label |-> w.label, author |-> w.author]
    <3>1. FlushText(w) = [w EXCEPT !.current = Nobody, !.writters = f]
      BY <1>2 DEF FlushText
    <3>2. w = [writters |-> w.writters, current |-> w.current, isFirst |-> w.isFirst,
               label |-> w.label, author |-> w.author]
      BY SoundWorker, WorkerFields
    <3> HIDE DEF f
    <3> QED
      BY <3>1, <3>2
  <2>2. Empty \in Seq(Char) /\ Len(Empty) = 0 /\ DOMAIN Empty = {} /\ QueueSize \in Nat
    BY WorkerAssumption DEF Empty
  <2>3. ASSUME NEW c \in WritterState
        PROVE  LET e == [c EXCEPT !.queue = Empty, !.in = 0]
               IN  e \in WritterState /\ Ordered(e)
    <3> DEFINE e == [c EXCEPT !.queue = Empty, !.in = 0]
    <3>1. e \in WritterState /\ e.queue = Empty /\ e.in = 0
      BY <2>2 DEF WritterState
    <3> HIDE DEF e
    <3>2. Ordered(e)
      BY <2>2, <3>1 DEF Ordered
    <3> QED
      BY <3>1, <3>2 DEF e
  <2>4. \A p \in DOMAIN w.writters : w.writters[p] \in WritterState
    BY SoundWritter
  <2>5. \A p \in DOMAIN w.writters : f[p] \in WritterState /\ Ordered(f[p])
    BY <2>3, <2>4
  <2>6. f \in [DOMAIN w.writters -> WritterState]
    BY <2>5
  <2> HIDE DEF f
  <2>7. Nobody \in DOMAIN w.writters \cup {Nobody}
    OBVIOUS
  <2> QED
    BY <2>1, <2>5, <2>6, <2>7, MappedSound
<1> QED
  BY <1>1, <1>2
LEMMA AgedSound ==
    ASSUME NEW w, Sound(w)
    PROVE  /\ Sound(Aged(w)) /\ (Labelled(w) => Labelled(Aged(w)))
           /\ DOMAIN Aged(w).writters = DOMAIN w.writters
<1> DEFINE f == [p \in DOMAIN w.writters |->
                    [w.writters[p] EXCEPT !.since = Older(w.writters[p].since)]]
<1>1. Aged(w) = [writters |-> f, current |-> w.current, isFirst |-> w.isFirst,
                 label |-> w.label, author |-> w.author]
  <2>1. Aged(w) = [w EXCEPT !.writters = f]
    BY DEF Aged
  <2>2. w = [writters |-> w.writters, current |-> w.current, isFirst |-> w.isFirst,
             label |-> w.label, author |-> w.author]
    BY SoundWorker, WorkerFields
  <2> HIDE DEF f
  <2> QED
    BY <2>1, <2>2
<1>2. ASSUME NEW c \in WritterState, Ordered(c)
      PROVE  LET e == [c EXCEPT !.since = Older(c.since)] IN e \in WritterState /\ Ordered(e)
  <2> DEFINE age == Older(c.since)
             e == [c EXCEPT !.since = age]
  <2>1. c.since \in Zero..MaxAge
    BY DEF WritterState
  <2>2. age \in Zero..MaxAge
    BY <2>1, OlderType
  <2> HIDE DEF age
  <2>3. e \in WritterState /\ e.queue = c.queue /\ e.in = c.in
    BY <2>2 DEF WritterState
  <2> HIDE DEF e
  <2>4. Ordered(e)
    BY <1>2, <2>3 DEF Ordered
  <2> QED
    BY <2>3, <2>4 DEF e, age
<1>3. \A p \in DOMAIN w.writters : f[p] \in WritterState /\ Ordered(f[p])
  BY <1>2, SoundWritter
<1>4. f \in [DOMAIN w.writters -> WritterState]
  BY <1>3
<1>5. w.current \in DOMAIN w.writters \cup {Nobody}
  BY DEF Sound
<1> HIDE DEF f
<1> QED
  BY <1>1, <1>3, <1>4, <1>5, MappedSound

-----------------------------------------------------------------------------
(* The mixer.                                                              *)

LEMMA Ids ==
    /\ Participant \subseteq Nat \ {0} /\ Player \subseteq Nat \ {0}
    /\ Participant \cap Player = {} /\ Joined \subseteq Participant
    /\ TRUE \in BOOLEAN /\ FALSE \in BOOLEAN
  BY MixerAssumption

\* The parts make up the invariant.
LEMMA Together ==
    ASSUME People', Known',
           \A s \in DOMAIN sources' :
              Sound(sources'[s]) /\ (thread' # "ended" => Labelled(sources'[s]))
    PROVE  IInv'
  BY DEF IInv

LEMMA Initial == Init => IInv
<1> SUFFICES ASSUME Init PROVE IInv
  OBVIOUS
<1> DEFINE W(s) == [p \in Joined \ {s} |-> NewWritter(TRUE)]
<1>1. /\ DOMAIN sources = Joined /\ workers = Joined /\ thread = "awake"
      /\ \A s \in Joined : sources[s] = [NewWorker EXCEPT !.writters = W(s)]
  BY DEF Init
<1>2. DOMAIN privates = {} /\ DOMAIN output = Joined /\ \A p \in Joined : output[p] = <<>>
  BY DEF Init, Empty
<1>3. ASSUME NEW s \in Joined
      PROVE  Sound(sources[s]) /\ Labelled(sources[s]) /\ DOMAIN sources[s].writters = Joined \ {s}
  <2> DEFINE f == W(s)
  <2>1. sources[s] = [writters |-> f, current |-> Nobody, isFirst |-> TRUE,
                      label |-> Nobody, author |-> Nobody]
    <3>1. sources[s] = [NewWorker EXCEPT !.writters = f]
      BY <1>1
    <3> HIDE DEF f
    <3> QED
      BY <3>1 DEF NewWorker
  <2>2. NewWorker \in WorkerState /\ Joined \ {s} \subseteq Nat \ {0} /\ Nobody \in Nat
    BY NewWorkerSound, Ids DEF Sound, Nobody
  <2>3. f \in [Joined \ {s} -> WritterState] /\ \A p \in Joined \ {s} : Ordered(f[p])
    BY NewWritterSound, Ids
  <2> DEFINE D == Joined \ {s}
  <2>4. Nobody \in D \cup {Nobody}
    OBVIOUS
  <2> HIDE DEF f, D
  <2>5. Sound(sources[s]) /\ DOMAIN f = D
    <3>1. D \subseteq Nat \ {0} /\ f \in [D -> WritterState] /\ \A p \in D : Ordered(f[p])
      BY <2>2, <2>3 DEF D
    <3> DEFINE no == Nobody
    <3>2. no \in D \cup {Nobody} /\ no \in Nat
      BY <2>2, <2>4
    <3> HIDE DEF no
    <3>3. /\ Sound([writters |-> f, current |-> no, isFirst |-> TRUE, label |-> no, author |-> no])
          /\ DOMAIN f = D
      BY <3>1, <3>2, Ids, Rebuilt
    <3> QED
      BY <2>1, <3>3 DEF no
  <2>6. Labelled(sources[s])
    BY <2>1 DEF Labelled
  <2> QED
    BY <2>1, <2>5, <2>6 DEF D
<1>4. People
  <2>1. <<>> \in Seq(Kind)
    OBVIOUS
  <2> QED
    BY <1>1, <1>2, <2>1, Ids DEF People
<1>5. Known
  BY <1>1, <1>2, <1>3 DEF Known, WritesTo
<1> QED
  BY <1>1, <1>3, <1>4, <1>5 DEF IInv

LEMMA CreateMixerKeeps ==
    ASSUME IInv, NEW s \in Participant, CreateMixer(s)
    PROVE  IInv'
<1>1. /\ s \notin DOMAIN sources /\ s \notin DOMAIN privates /\ thread # "ended"
      /\ thread' = thread /\ workers' = workers /\ privates' = privates /\ mixing' = mixing
  BY DEF CreateMixer, Call, IInv, People, Present
<1>2. /\ DOMAIN sources' = DOMAIN sources \cup {s} /\ sources'[s] = NewWorker
      /\ \A r \in DOMAIN sources : sources'[r] = sources[r]
  BY <1>1 DEF CreateMixer, With
<1>3. /\ DOMAIN output' = DOMAIN output \cup {s} /\ output'[s] = <<>>
      /\ \A r \in DOMAIN output : r # s => output'[r] = output[r]
  BY DEF CreateMixer, With, Empty
<1>4. People'
  <2>1. <<>> \in Seq(Kind)
    OBVIOUS
  <2> QED
    BY <1>1, <1>2, <1>3, <2>1 DEF IInv, People
<1>5. Known'
  <2>1. workers \subseteq DOMAIN sources
    BY <1>1 DEF IInv, People
  <2> QED
    BY <1>1, <1>2, <2>1, NewWorkerSound DEF IInv, Known, WritesTo
<1>6. \A r \in DOMAIN sources' : Sound(sources'[r]) /\ Labelled(sources'[r])
  BY <1>1, <1>2, NewWorkerSound DEF IInv
<1> QED
  BY <1>4, <1>5, <1>6, Together
LEMMA InitMixerKeeps ==
    ASSUME IInv, NEW s \in Participant, InitMixer(s)
    PROVE  IInv'
<1>1. /\ s \in DOMAIN sources /\ s \notin workers /\ thread # "ended" /\ thread' = thread
      /\ workers' = workers \cup {s} /\ privates' = privates /\ mixing' = mixing
      /\ output' = output /\ workers \subseteq DOMAIN sources
  BY DEF InitMixer, Call, IInv, People
<1>2. s \in Nat \ {0} /\ DOMAIN sources \subseteq Participant
  BY Ids DEF IInv, People
<1> DEFINE A == Announced(s)
           f == [p \in DOMAIN A[s].writters \cup (DOMAIN sources \ {s}) |->
                    IF p \in DOMAIN A[s].writters THEN A[s].writters[p] ELSE NewWritter(TRUE)]
<1>3. DOMAIN A = DOMAIN sources /\ A[s] = sources[s]
  BY <1>1 DEF Announced
<1>4. sources' = [A EXCEPT ![s].writters = f]
  BY DEF InitMixer
<1>5. DOMAIN sources' = DOMAIN sources /\ sources'[s] = [sources[s] EXCEPT !.writters = f]
  BY <1>1, <1>3, <1>4
<1>6. \A r \in DOMAIN sources : r # s => sources'[r] =
         IF r \in workers THEN AddWritter(sources[r], s, TRUE) ELSE sources[r]
  BY <1>1, <1>3, <1>4 DEF Announced
<1>7. \A r \in DOMAIN sources : Sound(sources[r]) /\ Labelled(sources[r])
  BY <1>1 DEF IInv
<1>8. ASSUME NEW r \in DOMAIN sources, r # s
      PROVE  /\ Sound(sources'[r]) /\ Labelled(sources'[r])
             /\ DOMAIN sources'[r].writters =
                   DOMAIN sources[r].writters \cup (IF r \in workers THEN {s} ELSE {})
  <2>1. CASE r \in workers
    <3> DEFINE v == AddWritter(sources[r], s, TRUE)
    <3>1. Sound(sources[r]) /\ Labelled(sources[r]) /\ TRUE \in BOOLEAN
      BY <1>7
    <3>2. Sound(v) /\ Labelled(v) /\ DOMAIN v.writters = DOMAIN sources[r].writters \cup {s}
      BY <1>2, <3>1, AddWritterSound, Zenon
    <3>3. sources'[r] = v
      BY <1>6, <1>8, <2>1
    <3> HIDE DEF v
    <3> QED
      BY <2>1, <3>2, <3>3
  <2>2. CASE r \notin workers
    BY <1>6, <1>7, <1>8, <2>2
  <2> QED
    BY <2>1, <2>2
<1>9. /\ Sound(sources'[s]) /\ Labelled(sources'[s])
      /\ DOMAIN sources'[s].writters = DOMAIN sources[s].writters \cup (DOMAIN sources \ {s})
  <2> DEFINE w == sources[s]
             D == DOMAIN w.writters \cup (DOMAIN sources \ {s})
  <2>1. /\ w \in WorkerState /\ w.current \in DOMAIN w.writters \cup {Nobody}
        /\ DOMAIN w.writters \subseteq Nat \ {0} /\ Labelled(w)
    BY <1>1, <1>7, SoundWorker DEF Sound
  <2>2. /\ w.isFirst \in BOOLEAN /\ w.label \in Nat /\ w.author \in Nat
        /\ w = [writters |-> w.writters, current |-> w.current, isFirst |-> w.isFirst,
                label |-> w.label, author |-> w.author]
    BY <2>1, WorkerFields
  <2>3. f = [p \in D |-> IF p \in DOMAIN w.writters THEN w.writters[p] ELSE NewWritter(TRUE)]
    BY <1>3
  <2>4. \A p \in DOMAIN w.writters : w.writters[p] \in WritterState /\ Ordered(w.writters[p])
    BY <1>1, <1>7, SoundWritter
  <2>5. D \subseteq Nat \ {0} /\ w.current \in D \cup {Nobody}
    BY <1>2, <2>1, Ids
  <2> HIDE DEF f, w
  <2>6. f \in [D -> WritterState] /\ \A p \in D : Ordered(f[p])
    <3>1. NewWritter(TRUE) \in WritterState /\ Ordered(NewWritter(TRUE))
      BY NewWritterSound, Ids
    <3>2. \A p \in D : f[p] = IF p \in DOMAIN w.writters THEN w.writters[p] ELSE NewWritter(TRUE)
      BY <2>3
    <3>3. \A p \in D : f[p] \in WritterState /\ Ordered(f[p])
      BY <2>4, <3>1, <3>2 DEF w
    <3> HIDE DEF D
    <3> QED
      BY <2>3, <3>3
  <2>7. sources'[s] = [writters |-> f, current |-> w.current, isFirst |-> w.isFirst,
                       label |-> w.label, author |-> w.author]
    <3>1. sources'[s] = [w EXCEPT !.writters = f]
      BY <1>5 DEF w
    <3> QED
      BY <2>2, <3>1
  <2> HIDE DEF D
  <2>8. Sound(sources'[s]) /\ DOMAIN f = D
    BY <2>2, <2>5, <2>6, <2>7, Rebuilt
  <2>9. Labelled(sources'[s])
    BY <2>1, <2>7 DEF Labelled
  <2> QED
    BY <2>7, <2>8, <2>9 DEF D, w
<1>10. People'
  BY <1>1, <1>5 DEF IInv, People
<1>11. Known'
  <2> SUFFICES ASSUME NEW r \in DOMAIN sources
               PROVE  /\ DOMAIN sources'[r].writters \subseteq WritesTo(r)'
                      /\ r \in workers' => workers' \ {r} \subseteq DOMAIN sources'[r].writters
    BY <1>5 DEF Known
  <2>1. /\ DOMAIN sources[r].writters \subseteq WritesTo(r)
        /\ r \in workers => workers \ {r} \subseteq DOMAIN sources[r].writters
    BY <1>1 DEF IInv, Known
  <2>2. WritesTo(r) \subseteq WritesTo(r)'
    BY <1>1, <1>5 DEF WritesTo
  <2>3. CASE r = s
    <3>1. DOMAIN sources \ {s} \subseteq WritesTo(s)'
      BY <1>1, <1>5 DEF WritesTo
    <3> QED
      BY <1>1, <1>9, <2>1, <2>2, <2>3, <3>1
  <2>4. CASE r # s /\ r \in workers
    <3>1. s \in WritesTo(r)'
      BY <1>1, <1>5, <2>4 DEF WritesTo
    <3> QED
      BY <1>1, <1>8, <2>1, <2>2, <2>4, <3>1
  <2>5. CASE r # s /\ r \notin workers
    BY <1>1, <1>8, <2>1, <2>2, <2>5
  <2> QED
    BY <2>3, <2>4, <2>5
<1>12. \A r \in DOMAIN sources' : Sound(sources'[r]) /\ Labelled(sources'[r])
  BY <1>5, <1>8, <1>9
<1> QED
  BY <1>10, <1>11, <1>12, Together

LEMMA DeleteMixerKeeps ==
    ASSUME IInv, NEW s \in Participant, DeleteMixer(s)
    PROVE  IInv'
<1>1. /\ s \in DOMAIN sources /\ thread # "ended" /\ thread' = thread
      /\ workers' = workers \ {s} /\ privates' = privates /\ mixing' = mixing
      /\ workers \subseteq DOMAIN sources
  BY DEF DeleteMixer, Call, IInv, People
<1>2. s \in Nat \ {0} /\ s \notin DOMAIN privates
  BY Ids DEF IInv, People
<1>3. /\ DOMAIN sources' = DOMAIN sources \ {s}
      /\ \A r \in DOMAIN sources \ {s} : sources'[r] =
            IF r \in workers THEN RemoveWritter(sources[r], s) ELSE sources[r]
  BY DEF DeleteMixer
<1>4. DOMAIN output' = DOMAIN output \ {s} /\ \A p \in DOMAIN output' : output'[p] = output[p]
  BY DEF DeleteMixer, Without
<1>5. ASSUME NEW r \in DOMAIN sources'
      PROVE  /\ Sound(sources'[r]) /\ Labelled(sources'[r])
             /\ DOMAIN sources'[r].writters =
                   DOMAIN sources[r].writters \ (IF r \in workers THEN {s} ELSE {})
  <2>1. Sound(sources[r]) /\ Labelled(sources[r])
    BY <1>1, <1>3 DEF IInv
  <2>2. CASE r \in workers
    BY <1>2, <1>3, <2>1, <2>2, RemoveWritterSound
  <2>3. CASE r \notin workers
    BY <1>3, <2>1, <2>3
  <2> QED
    BY <2>2, <2>3
<1>6. People'
  BY <1>1, <1>2, <1>3, <1>4 DEF IInv, People
<1>7. Known'
  <2> SUFFICES ASSUME NEW r \in DOMAIN sources'
               PROVE  /\ DOMAIN sources'[r].writters \subseteq WritesTo(r)'
                      /\ r \in workers' => workers' \ {r} \subseteq DOMAIN sources'[r].writters
    BY DEF Known
  <2>1. /\ DOMAIN sources[r].writters \subseteq WritesTo(r) /\ r # s
        /\ r \in workers => workers \ {r} \subseteq DOMAIN sources[r].writters
    BY <1>1, <1>3 DEF IInv, Known
  <2>2. CASE r \in workers
    <3>1. WritesTo(r) \ {s} \subseteq WritesTo(r)'
      BY <1>1, <1>3, <2>1, <2>2 DEF WritesTo
    <3> QED
      BY <1>1, <1>5, <2>1, <2>2, <3>1
  <2>3. CASE r \notin workers
    <3>1. WritesTo(r) = WritesTo(r)'
      BY <1>1, <2>3 DEF WritesTo
    <3> QED
      BY <1>1, <1>5, <2>1, <2>3, <3>1
  <2> QED
    BY <2>2, <2>3
<1> QED
  BY <1>5, <1>6, <1>7, Together

LEMMA CreatePrivateKeeps ==
    ASSUME IInv, NEW p \in Player, NEW to \in Participant, CreatePrivate(p, to)
    PROVE  IInv'
<1>1. /\ p \notin DOMAIN sources /\ p \notin DOMAIN privates /\ thread # "ended"
      /\ thread' = thread /\ workers' = workers /\ sources' = sources /\ mixing' = mixing
  BY DEF CreatePrivate, Call, IInv, People, Present
<1>2. /\ DOMAIN privates' = DOMAIN privates \cup {p}
      /\ \A q \in DOMAIN privates : privates'[q] = privates[q]
  BY <1>1 DEF CreatePrivate, With
<1>3. /\ DOMAIN output' = DOMAIN output \cup {p} /\ output'[p] = <<>>
      /\ \A r \in DOMAIN output : r # p => output'[r] = output[r]
  BY DEF CreatePrivate, With, Empty
<1>4. People'
  <2>1. <<>> \in Seq(Kind)
    OBVIOUS
  <2> QED
    BY <1>1, <1>2, <1>3, <2>1 DEF IInv, People
<1>5. Known'
  <2>1. \A s \in DOMAIN sources : WritesTo(s) \subseteq WritesTo(s)'
    BY <1>1, <1>2 DEF WritesTo
  <2> QED
    BY <1>1, <2>1 DEF IInv, Known
<1> QED
  BY <1>1, <1>4, <1>5, Together DEF IInv

LEMMA InitPrivateKeeps ==
    ASSUME IInv, NEW p \in Player, InitPrivate(p)
    PROVE  IInv'
<1>1. /\ p \in DOMAIN privates /\ thread # "ended" /\ thread' = thread
      /\ workers' = workers /\ mixing' = mixing /\ output' = output
  BY DEF InitPrivate, Call, IInv, People
<1>2. /\ DOMAIN privates' = DOMAIN privates
      /\ \A q \in DOMAIN privates : privates'[q].to = privates[q].to
  BY <1>1 DEF InitPrivate
<1>3. /\ DOMAIN sources' = DOMAIN sources
      /\ \A s \in DOMAIN sources : sources'[s] =
            IF s = privates[p].to THEN AddWritter(sources[s], p, FALSE) ELSE sources[s]
  BY DEF InitPrivate
<1>4. ASSUME NEW s \in DOMAIN sources
      PROVE  /\ Sound(sources'[s]) /\ Labelled(sources'[s])
             /\ DOMAIN sources'[s].writters =
                   DOMAIN sources[s].writters \cup (IF s = privates[p].to THEN {p} ELSE {})
  <2>1. Sound(sources[s]) /\ Labelled(sources[s]) /\ p \in Nat \ {0}
    BY <1>1, Ids DEF IInv
  <2>2. CASE s = privates[p].to
    <3> DEFINE v == AddWritter(sources[s], p, FALSE)
    <3>1. FALSE \in BOOLEAN
      OBVIOUS
    <3>2. Sound(v) /\ Labelled(v) /\ DOMAIN v.writters = DOMAIN sources[s].writters \cup {p}
      BY <2>1, <3>1, AddWritterSound, Zenon
    <3>3. sources'[s] = v
      BY <1>3, <2>2
    <3> HIDE DEF v
    <3> QED
      BY <2>2, <3>2, <3>3
  <2>3. CASE s # privates[p].to
    BY <1>3, <2>1, <2>3
  <2> QED
    BY <2>2, <2>3
<1>5. People'
  BY <1>1, <1>2, <1>3 DEF IInv, People
<1>6. Known'
  <2>1. \A s \in DOMAIN sources : WritesTo(s)' = WritesTo(s)
    BY <1>1, <1>2, <1>3 DEF WritesTo
  <2>2. \A s \in DOMAIN sources : s = privates[p].to => p \in WritesTo(s)
    BY <1>1 DEF WritesTo
  <2> SUFFICES ASSUME NEW s \in DOMAIN sources
               PROVE  /\ DOMAIN sources'[s].writters \subseteq WritesTo(s)'
                      /\ s \in workers' => workers' \ {s} \subseteq DOMAIN sources'[s].writters
    BY <1>3 DEF Known
  <2>3. /\ DOMAIN sources[s].writters \subseteq WritesTo(s)
        /\ s \in workers => workers \ {s} \subseteq DOMAIN sources[s].writters
    BY <1>1 DEF IInv, Known
  <2> QED
    BY <1>1, <1>4, <2>1, <2>2, <2>3
<1> QED
  BY <1>3, <1>4, <1>5, <1>6, Together
LEMMA DeletePrivateKeeps ==
    ASSUME IInv, NEW p \in Player, DeletePrivate(p)
    PROVE  IInv'
<1>1. /\ p \in DOMAIN privates /\ thread # "ended" /\ thread' = thread
      /\ workers' = workers /\ mixing' = mixing
  BY DEF DeletePrivate, Call, IInv, People
<1>2. p \in Nat \ {0} /\ p \notin DOMAIN sources
  BY Ids DEF IInv, People
<1>3. /\ DOMAIN privates' = DOMAIN privates \ {p}
      /\ \A q \in DOMAIN privates' : privates'[q] = privates[q]
      /\ DOMAIN output' = DOMAIN output \ {p} /\ \A q \in DOMAIN output' : output'[q] = output[q]
  BY DEF DeletePrivate, Without
<1>4. /\ DOMAIN sources' = DOMAIN sources
      /\ \A s \in DOMAIN sources : sources'[s] =
            IF s = privates[p].to THEN RemoveWritter(sources[s], p) ELSE sources[s]
  BY DEF DeletePrivate
<1>5. ASSUME NEW s \in DOMAIN sources
      PROVE  /\ Sound(sources'[s]) /\ Labelled(sources'[s])
             /\ DOMAIN sources'[s].writters =
                   DOMAIN sources[s].writters \ (IF s = privates[p].to THEN {p} ELSE {})
  <2>1. Sound(sources[s]) /\ Labelled(sources[s])
    BY <1>1 DEF IInv
  <2>2. CASE s = privates[p].to
    BY <1>2, <1>4, <2>1, <2>2, RemoveWritterSound
  <2>3. CASE s # privates[p].to
    BY <1>4, <2>1, <2>3
  <2> QED
    BY <2>2, <2>3
<1>6. People'
  BY <1>1, <1>2, <1>3, <1>4 DEF IInv, People
<1>7. Known'
  <2> SUFFICES ASSUME NEW s \in DOMAIN sources
               PROVE  /\ DOMAIN sources'[s].writters \subseteq WritesTo(s)'
                      /\ s \in workers' => workers' \ {s} \subseteq DOMAIN sources'[s].writters
    BY <1>4 DEF Known
  <2>1. /\ DOMAIN sources[s].writters \subseteq WritesTo(s)
        /\ s \in workers => workers \ {s} \subseteq DOMAIN sources[s].writters
    BY <1>1 DEF IInv, Known
  <2>2. p \notin workers
    BY <1>1, <1>2 DEF IInv, People
  <2>3. CASE s = privates[p].to
    <3>1. WritesTo(s) \ {p} \subseteq WritesTo(s)'
      BY <1>1, <1>3, <1>4 DEF WritesTo
    <3> QED
      BY <1>1, <1>5, <2>1, <2>2, <2>3, <3>1
  <2>4. CASE s # privates[p].to
    <3>1. WritesTo(s) \subseteq WritesTo(s)'
      BY <1>1, <1>2, <1>3, <1>4, <2>4 DEF WritesTo
    <3> QED
      BY <1>1, <1>5, <2>1, <2>4, <3>1
  <2> QED
    BY <2>3, <2>4
<1> QED
  BY <1>4, <1>5, <1>6, <1>7, Together

LEMMA SendFrameKeeps ==
    ASSUME IInv, NEW p, NEW kind \in Kind, SendFrame(p, kind)
    PROVE  IInv'
<1>1. /\ thread # "ended" /\ thread' = thread /\ sources' = sources /\ privates' = privates
      /\ workers' = workers /\ mixing' = mixing
  BY DEF SendFrame, IInv, People
<1>2. p \in DOMAIN output
  BY <1>1 DEF SendFrame, IInv, People
<1>3. /\ DOMAIN output' = DOMAIN output /\ \A q \in DOMAIN output : q # p => output'[q] = output[q]
      /\ output'[p] = Append(IF Len(output[p]) < OutputSize THEN output[p] ELSE Empty, kind)
  BY <1>2 DEF SendFrame
<1>4. output'[p] \in Seq(Kind)
  <2>1. output[p] \in Seq(Kind) /\ <<>> \in Seq(Kind)
    BY <1>2 DEF IInv, People
  <2> DEFINE o == IF Len(output[p]) < OutputSize THEN output[p] ELSE Empty
  <2>2. o \in Seq(Kind) /\ output'[p] = Append(o, kind)
    BY <1>3, <2>1 DEF Empty
  <2> HIDE DEF o
  <2>3. Append(o, kind) \in Seq(Kind)
    BY <2>2, AppendProperties
  <2> QED
    BY <2>2, <2>3
<1>5. People'
  BY <1>1, <1>3, <1>4 DEF IInv, People
<1>6. Known'
  BY <1>1 DEF IInv, Known, WritesTo
<1> QED
  BY <1>1, <1>5, <1>6, Together DEF IInv

\* The pass over a worker when the text of all has been written to it
LEMMA WrittenSound ==
    ASSUME IInv, thread # "ended", NEW s \in DOMAIN sources
    PROVE  /\ Sound(Written(s)) /\ Labelled(Written(s))
           /\ DOMAIN Written(s).writters = DOMAIN sources[s].writters
<1> DEFINE w == sources[s]
           f == [p \in DOMAIN w.writters |->
                    IF p \in WritesTo(s) THEN WriteText(w, p, output[p]).writters[p]
                    ELSE w.writters[p]]
<1>1. Sound(w) /\ Labelled(w)
  BY DEF IInv
<1>2. Written(s) = [writters |-> f, current |-> w.current, isFirst |-> w.isFirst,
                    label |-> w.label, author |-> w.author]
  <2>1. Written(s) = [w EXCEPT !.writters = f]
    BY DEF Written
  <2>2. w = [writters |-> w.writters, current |-> w.current, isFirst |-> w.isFirst,
             label |-> w.label, author |-> w.author]
    BY <1>1, SoundWorker, WorkerFields
  <2> HIDE DEF f, w
  <2> QED
    BY <2>1, <2>2
<1>3. \A p \in WritesTo(s) : output[p] \in Seq(Kind)
  BY DEF IInv, People, WritesTo
<1>4. \A p \in DOMAIN w.writters : f[p] \in WritterState /\ Ordered(f[p])
  <2> SUFFICES ASSUME NEW p \in DOMAIN w.writters
               PROVE  f[p] \in WritterState /\ Ordered(f[p])
    OBVIOUS
  <2>1. CASE p \in WritesTo(s)
    <3>1. f[p] = WriteText(w, p, output[p]).writters[p]
      BY <2>1
    <3> HIDE DEF f, w
    <3> QED
      BY <1>1, <1>3, <2>1, <3>1, WriteTextSound
  <2>2. CASE p \notin WritesTo(s)
    <3>1. f[p] = w.writters[p]
      BY <2>2
    <3> HIDE DEF f, w
    <3> QED
      BY <1>1, <3>1, SoundWritter
  <2> QED
    BY <2>1, <2>2
<1>5. f \in [DOMAIN w.writters -> WritterState]
  <2>1. f = [p \in DOMAIN w.writters |-> f[p]]
    OBVIOUS
  <2> HIDE DEF f
  <2> QED
    BY <1>4, <2>1
<1>6. w.current \in DOMAIN w.writters \cup {Nobody}
  BY <1>1 DEF Sound
<1> HIDE DEF f, w
<1>7. /\ Sound(Written(s)) /\ (Labelled(w) => Labelled(Written(s)))
      /\ DOMAIN Written(s).writters = DOMAIN w.writters
  BY <1>1, <1>2, <1>4, <1>5, <1>6, MappedSound
<1> QED
  BY <1>1, <1>7 DEF w
\* The parts that do not change when the workers do their work
LEMMA WorkKeeps ==
    ASSUME People, Known, DOMAIN sources' = DOMAIN sources,
           \A s \in DOMAIN sources : DOMAIN sources'[s].writters = DOMAIN sources[s].writters,
           workers' = workers, privates' = privates,
           DOMAIN output' = DOMAIN output, \A p \in DOMAIN output : output'[p] \in Seq(Kind),
           thread' # "ended" => thread # "ended", thread' = "ended" => ~mixing'
    PROVE  People' /\ Known'
<1>1. People'
  BY DEF People
<1>2. Known'
  BY DEF Known, WritesTo
<1> QED
  BY <1>1, <1>2

LEMMA MixKeeps == ASSUME IInv, Mix PROVE IInv'
<1>1. /\ thread # "ended" /\ thread' # "ended" /\ workers' = workers /\ privates' = privates
      /\ DOMAIN output' = DOMAIN output /\ \A p \in DOMAIN output : output'[p] = <<>>
      /\ DOMAIN sources' = DOMAIN sources
  BY DEF Mix, Empty
<1>2. ASSUME NEW s \in DOMAIN sources
      PROVE  /\ Sound(sources'[s]) /\ Labelled(sources'[s])
             /\ DOMAIN sources'[s].writters = DOMAIN sources[s].writters
  <2>1. /\ Sound(Written(s)) /\ Labelled(Written(s))
        /\ DOMAIN Written(s).writters = DOMAIN sources[s].writters
    BY <1>1, WrittenSound
  <2>2. /\ Sound(ProcessText(Written(s))) /\ Labelled(ProcessText(Written(s)))
        /\ DOMAIN ProcessText(Written(s)).writters = DOMAIN Written(s).writters
    BY <2>1, ProcessTextSound
  <2>3. sources'[s] = ProcessText(Written(s)) \/ sources'[s] = Written(s)
    BY DEF Mix
  <2> QED
    BY <2>1, <2>2, <2>3
<1>3. \A p \in DOMAIN output : output'[p] \in Seq(Kind)
  <2>1. <<>> \in Seq(Kind)
    OBVIOUS
  <2> QED
    BY <1>1, <2>1
<1>4. People' /\ Known'
  BY <1>1, <1>2, <1>3, WorkKeeps DEF IInv
<1> QED
  BY <1>1, <1>2, <1>4, Together

LEMMA TickKeeps == ASSUME IInv, Tick PROVE IInv'
<1>1. /\ thread # "ended" /\ thread' # "ended" /\ workers' = workers /\ privates' = privates
      /\ output' = output /\ DOMAIN sources' = DOMAIN sources
      /\ \A s \in DOMAIN sources : sources'[s] = Aged(sources[s])
  BY DEF Tick
<1>2. ASSUME NEW s \in DOMAIN sources
      PROVE  /\ Sound(sources'[s]) /\ Labelled(sources'[s])
             /\ DOMAIN sources'[s].writters = DOMAIN sources[s].writters
  <2>1. Sound(sources[s]) /\ Labelled(sources[s])
    BY <1>1 DEF IInv
  <2> QED
    BY <1>1, <2>1, AgedSound
<1>3. \A p \in DOMAIN output : output'[p] \in Seq(Kind)
  BY <1>1 DEF IInv, People
<1>4. People' /\ Known'
  BY <1>1, <1>2, <1>3, WorkKeeps DEF IInv
<1> QED
  BY <1>1, <1>2, <1>4, Together

LEMMA EndKeeps == ASSUME IInv, End PROVE IInv'
<1>1. /\ thread # "ended" /\ thread' # "ended" /\ workers' = workers /\ privates' = privates
      /\ output' = output /\ sources' = sources
  BY DEF End, IInv, People
<1>2. \A p \in DOMAIN output : output'[p] \in Seq(Kind)
  BY <1>1 DEF IInv, People
<1>3. People' /\ Known'
  BY <1>1, <1>2, WorkKeeps DEF IInv
<1> QED
  BY <1>1, <1>3, Together DEF IInv

LEMMA FlushKeeps == ASSUME IInv, Flush PROVE IInv'
<1>1. /\ ~mixing' /\ thread' = "ended" /\ thread # "ended" /\ workers' = workers
      /\ privates' = privates /\ output' = output /\ DOMAIN sources' = DOMAIN sources
  BY DEF Flush
<1>2. ASSUME NEW s \in DOMAIN sources
      PROVE  Sound(sources'[s]) /\ DOMAIN sources'[s].writters = DOMAIN sources[s].writters
  <2>1. Sound(sources[s])
    BY DEF IInv
  <2>2. Sound(FlushText(sources[s]))
        /\ DOMAIN FlushText(sources[s]).writters = DOMAIN sources[s].writters
    BY <2>1, FlushTextSound
  <2>3. sources'[s] = FlushText(sources[s]) \/ sources'[s] = sources[s]
    BY DEF Flush
  <2> QED
    BY <2>1, <2>2, <2>3
<1>3. \A p \in DOMAIN output : output'[p] \in Seq(Kind)
  BY <1>1 DEF IInv, People
<1>4. People' /\ Known'
  BY <1>1, <1>2, <1>3, WorkKeeps DEF IInv
<1> QED
  BY <1>1, <1>2, <1>4, Together

LEMMA EndJoinedKeeps == ASSUME IInv, EndJoined PROVE IInv'
<1>1. /\ thread = "ended" /\ thread' = thread /\ privates' = privates /\ mixing' = mixing
      /\ DOMAIN sources' = {} /\ DOMAIN output' = DOMAIN privates
      /\ \A p \in DOMAIN privates : output'[p] = output[p]
  BY DEF EndJoined
<1>2. People'
  BY <1>1 DEF IInv, People
<1>3. Known'
  BY <1>1 DEF Known
<1> QED
  BY <1>1, <1>2, <1>3, Together

LEMMA Kept == IInv /\ [Next]_vars => IInv'
<1> SUFFICES ASSUME IInv, [Next]_vars PROVE IInv'
  OBVIOUS
<1>1. CASE \E s \in Participant : CreateMixer(s) \/ InitMixer(s) \/ DeleteMixer(s)
  BY <1>1, CreateMixerKeeps, InitMixerKeeps, DeleteMixerKeeps
<1>2. CASE \E p \in Player : InitPrivate(p) \/ DeletePrivate(p)
  BY <1>2, InitPrivateKeeps, DeletePrivateKeeps
<1>3. CASE \E p \in Player, to \in Participant : CreatePrivate(p, to)
  BY <1>3, CreatePrivateKeeps
<1>4. CASE \E t \in Typing : SendFrame(t[1], t[2])
  <2>1. \A t \in Typing : t[2] \in Kind
    BY MixerAssumption
  <2> QED
    BY <1>4, <2>1, SendFrameKeeps
<1>5. CASE Mix \/ Tick \/ End \/ Flush \/ EndJoined
  BY <1>5, MixKeeps, TickKeeps, EndKeeps, FlushKeeps, EndJoinedKeeps
<1>6. CASE UNCHANGED vars
  <2>1. /\ sources' = sources /\ workers' = workers /\ privates' = privates
        /\ output' = output /\ thread' = thread /\ (mixing' <=> mixing)
    BY <1>6 DEF vars
  <2>2. \A p \in DOMAIN output : output'[p] \in Seq(Kind)
    BY <2>1 DEF IInv, People
  <2>3. People' /\ Known'
    BY <2>1, <2>2, WorkKeeps DEF IInv, People
  <2> QED
    BY <2>1, <2>3, Together DEF IInv
<1> QED
  BY <1>1, <1>2, <1>3, <1>4, <1>5, <1>6 DEF Next

LEMMA Invariant == Spec => []IInv
<1> QED
  BY Initial, Kept, PTL DEF Spec

-----------------------------------------------------------------------------

\* textmixer.cpp, textmixerworker.cpp: whatever participants and players come and go,
\* the workers know who can write, and the turn is given to one of these.
THEOREM WrittersKnown == Spec => []WorkersKnowTheirWritters
<1>1. IInv => WorkersKnowTheirWritters
  <2> SUFFICES ASSUME IInv PROVE WorkersKnowTheirWritters
    OBVIOUS
  <2>1. TypeOK
    <3>1. ASSUME NEW s \in DOMAIN sources, NEW p \in DOMAIN sources[s].writters
          PROVE  /\ Len(Writter(sources[s], p).queue) <= QueueSize
                 /\ Writter(sources[s], p).since \in Zero..MaxAge
      <4>1. Sound(sources[s])
        BY DEF IInv
      <4>2. sources[s].writters[p] \in WritterState /\ Ordered(sources[s].writters[p])
        BY <3>1, <4>1, SoundWritter
      <4> QED
        BY <4>2 DEF Writter, Ordered, WritterState
    <3> QED
      BY <3>1 DEF TypeOK, IInv, People
  <2>2. WrittersAreThere
    <3> SUFFICES ASSUME thread # "ended", NEW s \in workers
                 PROVE  /\ workers \ {s} \subseteq DOMAIN sources[s].writters
                        /\ DOMAIN sources[s].writters \subseteq DOMAIN sources \cup DOMAIN privates
      BY DEF WrittersAreThere
    <3>1. s \in DOMAIN sources
      BY DEF IInv, People
    <3> QED
      BY <3>1 DEF IInv, Known, WritesTo
  <2>3. TurnIsAWritters
    BY DEF IInv, Sound, TurnIsAWritters
  <2> QED
    BY <2>1, <2>2, <2>3 DEF WorkersKnowTheirWritters
<1> QED
  BY <1>1, Invariant, PTL

\* textmixerworker.cpp ProcessText: for every text and every size of queues and chunks,
\* a reader gets the text of each writer in order, all of it and once, and as its own.
THEOREM TextShown == Spec => []TextIsShown
<1>1. IInv => TextIsShown
  <2> SUFFICES ASSUME IInv PROVE TextIsShown
    OBVIOUS
  <2>1. ShownInOrder
    <3> SUFFICES ASSUME NEW s \in DOMAIN sources, NEW p \in DOMAIN sources[s].writters
                 PROVE  Ordered(Writter(sources[s], p))
      BY DEF ShownInOrder, Ordered
    <3>1. Sound(sources[s])
      BY DEF IInv
    <3> QED
      BY <3>1, SoundWritter DEF Writter
  <2>2. ShownUnderItsLabel
    BY DEF IInv, Labelled, ShownUnderItsLabel
  <2> QED
    BY <2>1, <2>2 DEF TextIsShown
<1> QED
  BY <1>1, Invariant, PTL

=============================================================================
