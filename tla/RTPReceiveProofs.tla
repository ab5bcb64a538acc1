-------------------------- MODULE RTPReceiveProofs --------------------------
(***************************************************************************)
(* Proofs about RTPReceive, for every length of the sequence numbers, every *)
(* size of the window and every bound: the numbers of session and buffer   *)
(* follow the sender (NumbersFollowTheSender), the decoder gets the packets *)
(* in order (DeliveredInOrder), the window knows what was lost and the     *)
(* NACKs ask for it (LossesAreKnown), and a decoder that is being stopped  *)
(* does not sleep for good (StoppedDecoderIsWoken).                        *)
(*                                                                         *)
(* The inductive invariant IInv has six parts: types, what the senders     *)
(* have under way (Senders), how the extended numbers relate to theirs     *)
(* (Numbers), the jitter buffer (Buffered), the decoder that is stopped    *)
(* (Wakeup) and the window of lost packets (Windowed).                     *)
(***************************************************************************)
EXTENDS RTPReceive, WellFoundedInduction, TLAPS

-----------------------------------------------------------------------------
(* The inductive invariant.                                                *)

Types ==
    /\ source \in 1..MaxSource /\ start \in Nat /\ sent \in Int /\ left \in Nat
    /\ net \subseteq Packet
    /\ recv \in [ssrc : 0..MaxSource, cycles : Nat, extSeq : Nat]
    /\ rd \in [at : {"idle", "locate", "mark", "add"}, p : Packet \cup {NoPacket},
               ext : Nat, pos : 0..(Size - 1), lost : 0..(Size - 1)]
    /\ rd.at # "idle" => rd.p \in Packet
    /\ losts \in Window
    /\ packets \subseteq [ext : Nat, p : Packet]
    /\ next \in Nat \cup {None}
    /\ prev \in Packet \cup {NoPacket}
    /\ dec \in {"off", "loop", "wait", "asleep", "fpu", "fpu_losts"}
    /\ ctl \in [at : {"idle", "cancel", "join"}, restart : BOOLEAN]
    /\ starts \in Nat
    /\ cancel \in BOOLEAN /\ receiving \in BOOLEAN /\ nackEnabled \in BOOLEAN
    /\ torn \in BOOLEAN /\ foreign \in BOOLEAN
    /\ arrived \subseteq Nat /\ newest \in Nat /\ origin \in Nat

\* The packets under way are near to one another and to what was received,
\* and what is sent again is not ahead of it.
Senders ==
    /\ recv.ssrc <= source
    /\ start <= sent + 1
    /\ sent <= (IF recv.ssrc = source THEN newest ELSE start) + MaxAhead
    /\ \A p \in net :
           /\ p.src <= source
           /\ p.rtx => p.src <= recv.ssrc
           /\ p.src = source => start <= p.n /\ p.n <= sent
           /\ p.src = recv.ssrc => p.n <= newest + MaxAhead
           /\ p.src = recv.ssrc /\ p.rtx => p.n <= newest
    /\ \A p, q \in net : p.src = q.src /\ recv.ssrc < p.src => q.n <= p.n + MaxAhead

\* origin + cycles * M is the last wrap of the sender's numbers.
Numbers ==
    /\ origin % M = 0
    /\ origin + recv.cycles * M = newest - (newest % M)
    /\ origin + recv.extSeq <= newest
    /\ rd.at = "idle" => origin + recv.extSeq = newest
    /\ rd.at # "idle" =>
           /\ rd.p.src = recv.ssrc
           /\ rd.p.n = origin + rd.ext
           /\ rd.p.n <= newest /\ newest <= rd.p.n + MaxBehind
           /\ (~rd.p.rtx /\ rd.p.n = newest) \/ origin + recv.extSeq = newest

\* The buffer holds packets of the sender, from the one it expects on.
Buffered ==
    /\ \A q \in packets :
           /\ q.p.src = recv.ssrc
           /\ q.p.n = origin + q.ext /\ q.p.n <= newest
           /\ next # None => next <= q.ext
    /\ \A q, o \in packets : q.ext = o.ext => q = o
    /\ next # None => origin + next <= newest + 1
    /\ prev # NoPacket => /\ prev.src = recv.ssrc
                          /\ next = prev.n - origin + 1 /\ next # None

\* Who waits for the decoder to end has told it so, and a decoder that lost
\* the cancellation finds a packet or is about to be woken by one.
Wakeup ==
    /\ ctl.at # "idle" => ~receiving
    /\ ctl.at = "join" /\ dec = "wait" /\ ~cancel =>
           packets # {} \/ (rd.at # "idle" /\ next = None)
    /\ ctl.at = "join" /\ dec = "asleep" =>
           rd.at # "idle" /\ next = None /\ packets = {}

\* A window mirrors a set of numbers, but for one position.
Mirrors(w, numbers, base, hole) ==
    /\ w.marked \subseteq 0..(w.len - 1)
    /\ \A i \in 0..(w.len - 1) : i # hole => (i \in w.marked <=> base + w.first + i \in numbers)
    /\ \A a \in numbers : a < base + w.first + w.len
    /\ w.first = 0 => w.len <= 1
    /\ w.len = 0 => w.first = 0

\* The window mirrors what arrived, but for the position that AddPacket is
\* about to mark.
Mirror == Mirrors(losts, arrived, origin, IF rd.at = "mark" THEN rd.pos ELSE None)

\* The window is near to the packets that may arrive, so that a position in it
\* is not confused with one that is M further.
Near ==
    /\ rd.at = "mark" => losts.first + rd.pos = rd.ext /\ rd.pos < losts.len
    /\ rd.at = "locate" /\ losts.first # 0 => rd.ext < losts.first + M
    /\ losts.len # 0 /\ ~(rd.at = "locate" /\ rd.p.n = newest) =>
           newest < origin + losts.first + losts.len + MaxBehind

Windowed ==
    /\ rd.at = "mark" /\ nackEnabled =>
           /\ (losts.first + rd.pos) % M = rd.ext % M
           /\ rd.lost > 0 => losts.len = rd.pos + 1
    /\ ~torn /\ ~foreign => Mirror /\ Near

IInv == Types /\ Senders /\ Numbers /\ Buffered /\ Wakeup /\ Windowed
-----------------------------------------------------------------------------
(* Lemmas on numbers: remainders, least elements and induction.            *)

\* M and the bounds are numbers, and 16-bit numbers exist.
LEMMA Bounds ==
    /\ M \in Nat /\ M > 0 /\ Size \in Nat /\ 0 < Size /\ Size < M
    /\ MaskLen \in Nat /\ 0 < MaskLen
    /\ Low \in Nat /\ High \in Nat /\ MaxAhead \in Nat /\ MaxBehind \in Nat
    /\ MaxAhead <= Low /\ MaxAhead + High < M /\ MaxBehind <= High - Low + 1
    /\ MaxAhead + MaxBehind + Size <= M
    /\ MaxSource \in Nat /\ 0 < MaxSource /\ Starts \subseteq 0..(M - 1)
    /\ MaxSent \in Nat
  BY WindowAssumption, ReceiveAssumption

\* A number is a multiple of M and its remainder.
LEMMA Division ==
    ASSUME NEW n \in Int
    PROVE  /\ n = M * (n \div M) + (n % M)
           /\ n % M \in 0..(M - 1) /\ n \div M \in Int
  BY Bounds, SMT

\* The remainder is unique.
LEMMA Remainder ==
    ASSUME NEW n \in Int, NEW q \in Int, NEW r \in 0..(M - 1), n = M * q + r
    PROVE  n % M = r
  BY Bounds, SMT

\* Multiples of M do not change the remainder.
LEMMA AddMultiple ==
    ASSUME NEW r \in Int, NEW q \in Int
    PROVE  (r + M * q) % M = r % M
<1>1. PICK p \in Int, s \in 0..(M - 1) : r = M * p + s /\ r % M = s
  BY Division
<1>2. r + M * q = M * (p + q) + s
  BY <1>1, Bounds
<1> QED
  BY <1>1, <1>2, Remainder, Bounds

\* The remainder of a sum is known from the remainder of a part.
LEMMA AddRemainder ==
    ASSUME NEW a \in Int, NEW b \in Int
    PROVE  ((a % M) + b) % M = (a + b) % M
<1>1. PICK p \in Int, s \in 0..(M - 1) : a = M * p + s /\ a % M = s
  BY Division
<1>2. a + b = (s + b) + M * p /\ s + b \in Int
  BY <1>1, Bounds
<1> QED
  BY <1>1, <1>2, AddMultiple

LEMMA AddZeroRemainder ==
    ASSUME NEW a \in Int, a % M = 0, NEW b \in Int
    PROVE  (a + b) % M = b % M
<1>1. ((a % M) + b) % M = (a + b) % M
  BY AddRemainder
<1>2. (a % M) + b = b
  OBVIOUS
<1> QED
  BY <1>1, <1>2

\* Different numbers with one remainder are M apart.
LEMMA Apart ==
    ASSUME NEW a \in Int, NEW b \in Int, a % M = b % M, a < b
    PROVE  a + M <= b
<1>1. PICK p \in Int, s \in 0..(M - 1) : a = M * p + s /\ a % M = s
  BY Division
<1>2. PICK q \in Int : b = M * q + s
  BY <1>1, Division
<1>3. M * (q - p) > 0
  BY <1>1, <1>2, Bounds
<1>4. q - p >= 1
  BY <1>3, Bounds
<1>5. M * (q - p) >= M
  BY <1>4, Bounds
<1>6. M * (q - p) = M * q - M * p
  BY Bounds
<1> QED
  BY <1>1, <1>2, <1>5, <1>6, Bounds

\* The remainder of a number behind a multiple of M.
LEMMA Behind ==
    ASSUME NEW b \in Int, NEW n \in Int, b % M = 0, b <= n, n < b + M
    PROVE  n % M = n - b
<1>1. b = M * (b \div M) /\ b \div M \in Int
  BY Division, Bounds
<1>2. n = M * (b \div M) + (n - b) /\ n - b \in 0..(M - 1)
  BY <1>1, Bounds
<1> QED
  BY <1>1, <1>2, Remainder, Bounds

\* What is below a number is a multiple of M.
LEMMA Floor ==
    ASSUME NEW n \in Int
    PROVE  (n - (n % M)) % M = 0
<1> DEFINE m == n - (n % M)
<1>1. n \div M \in Int /\ m \in Int /\ m = M * (n \div M) + 0
  BY Division, Bounds
<1>2. 0 \in 0..(M - 1)
  BY Bounds
<1> HIDE DEF m
<1>3. m % M = 0
  BY <1>1, <1>2, Remainder
<1> QED
  BY <1>3 DEF m

\* A set of natural numbers has a least element.
LEMMA Least ==
    ASSUME NEW T, T \subseteq Nat, T # {}
    PROVE  \E x \in T : \A y \in T : x <= y
<1> DEFINE R == {ss \in Nat \X Nat : ss[1] < ss[2]}
<1>1. IsWellFoundedOn(R, Nat)
  BY NatLessThanWellFounded DEF OpToRel
<1> HIDE DEF R
<1>2. PICK x \in T : \A y \in T : ~(<<y, x>> \in R)
  BY <1>1, WFMin
<1>3. ASSUME NEW y \in T PROVE x <= y
  <2>1. ~(<<y, x>> \in R)
    BY <1>2
  <2>2. ~(y < x)
    BY <2>1 DEF R
  <2> QED
    BY <2>2
<1> QED
  BY <1>3

\* Induction over a set of natural numbers.
LEMMA Induction ==
    ASSUME NEW S, 0 \in S, \A n \in Nat : n \in S => n + 1 \in S
    PROVE  Nat \subseteq S
<1> SUFFICES ASSUME NEW m \in Nat, m \notin S PROVE FALSE
  OBVIOUS
<1> DEFINE T == {n \in Nat : n \notin S}
<1>1. PICK x \in T : \A y \in T : x <= y
  BY Least
<1>2. x # 0
  OBVIOUS
<1>3. x - 1 \in Nat /\ x - 1 \notin T
  BY <1>1, <1>2
<1> QED
  BY <1>3

\* The larger and the smaller of two numbers.
LEMMA MaxOfTwo ==
    ASSUME NEW a \in Int, NEW b \in Int
    PROVE  Max({a, b}) = IF a <= b THEN b ELSE a
  BY DEF Max

LEMMA MinOfTwo ==
    ASSUME NEW a \in Int, NEW b \in Int
    PROVE  Min({a, b}) = IF a <= b THEN a ELSE b
  BY DEF Min

\* The marked position next below another one, m when there is none.
LEMMA MaxBelow ==
    ASSUME NEW S, S \subseteq Nat, NEW pos \in Nat, NEW m \in Int, m < 0
    PROVE  Max({m} \cup {i \in S : i < pos}) \in m..(pos - 1)
<1> DEFINE B == {m} \cup {i \in S : i < pos}
           D == {pos - i : i \in B}
<1>1. m \in B /\ B \subseteq m..(pos - 1)
  <2>1. ASSUME NEW i \in S, i < pos PROVE i \in m..(pos - 1)
    BY <2>1
  <2>2. m \in m..(pos - 1)
    OBVIOUS
  <2> QED
    BY <2>1, <2>2
<1> HIDE DEF B
<1>2. D \subseteq Nat /\ D # {}
  BY <1>1
<1>3. PICK d \in D : \A e \in D : d <= e
  BY <1>2, Least
<1>4. PICK x \in B : d = pos - x
  BY <1>3
<1>5. ASSUME NEW y \in B PROVE x >= y
  <2>1. pos - y \in D
    OBVIOUS
  <2>2. pos - x <= pos - y
    BY <1>3, <1>4, <2>1
  <2>3. x \in Int /\ y \in Int
    BY <1>1
  <2> QED
    BY <2>2, <2>3
<1>6. Max(B) \in B
  BY <1>5 DEF Max
<1> QED
  BY <1>1, <1>6 DEF B
-----------------------------------------------------------------------------
(* GetNacks: what its loop computes.                                       *)

NoNacks == [lost |-> 0, n |-> 0, nacks |-> {}]

\* The loop of GetNacks has a state for every number of positions: the
\* recursive definition has a solution.
LEMMA NackScanExists ==
    ASSUME NEW w, NEW len \in Nat
    PROVE  \E g : g = [k \in 0..len |-> IF k = 0 THEN NoNacks ELSE NackStep(w, k - 1, g[k - 1])]
<1> DEFINE IsScan(g, m) ==
        g = [k \in 0..m |-> IF k = 0 THEN NoNacks ELSE NackStep(w, k - 1, g[k - 1])]
           S == {m \in Nat : \E g : IsScan(g, m)}
<1>1. 0 \in S
  <2>1. IsScan([k \in 0..0 |-> NoNacks], 0)
    OBVIOUS
  <2> QED
    BY <2>1
<1>2. ASSUME NEW m \in Nat, m \in S PROVE m + 1 \in S
  <2>1. PICK g : IsScan(g, m)
    BY <1>2
  <2>2. PICK h : h = [k \in 0..(m + 1) |-> IF k <= m THEN g[k] ELSE NackStep(w, m, g[m])]
    OBVIOUS
  <2>3. ASSUME NEW k \in 0..(m + 1)
        PROVE  h[k] = IF k = 0 THEN NoNacks ELSE NackStep(w, k - 1, h[k - 1])
    <3>1. CASE k = 0
      BY <2>1, <2>2, <3>1
    <3>2. CASE k # 0 /\ k <= m
      <4>1. k \in 0..m /\ k - 1 \in 0..m
        BY <3>2
      <4>2. h[k - 1] = g[k - 1] /\ h[k] = g[k]
        BY <2>2, <4>1
      <4>3. g[k] = NackStep(w, k - 1, g[k - 1])
        BY <2>1, <3>2, <4>1
      <4> QED
        BY <3>2, <4>2, <4>3
    <3>3. CASE k = m + 1
      <4>1. k # 0 /\ k - 1 = m /\ k - 1 \in 0..(m + 1) /\ ~(k <= m) /\ m <= m
        BY <3>3
      <4>2. h[k - 1] = g[m] /\ h[k] = NackStep(w, m, g[m])
        BY <2>2, <4>1
      <4> QED
        BY <4>1, <4>2
    <3> QED
      BY <3>1, <3>2, <3>3
  <2>4. IsScan(h, m + 1)
    BY <2>2, <2>3
  <2> QED
    BY <2>4
<1> HIDE DEF S
<1>3. len \in S
  BY <1>1, <1>2, Induction
<1> QED
  BY <1>3 DEF S

\* The loop of GetNacks, step by step.
LEMMA NackScanSteps ==
    ASSUME NEW w, w.len \in Nat
    PROVE  /\ NackScan(w)[0] = NoNacks
           /\ \A i \in 0..(w.len - 1) : NackScan(w)[i + 1] = NackStep(w, i, NackScan(w)[i])
<1>1. NackScan(w) = [k \in 0..w.len |->
                        IF k = 0 THEN NoNacks ELSE NackStep(w, k - 1, NackScan(w)[k - 1])]
  BY NackScanExists, ZenonT(30) DEF NackScan, NoNacks
<1>2. NackScan(w)[0] = NoNacks
  BY <1>1
<1>3. ASSUME NEW i \in 0..(w.len - 1)
      PROVE  NackScan(w)[i + 1] = NackStep(w, i, NackScan(w)[i])
  <2>1. i + 1 \in 0..w.len /\ i + 1 # 0 /\ (i + 1) - 1 = i
    OBVIOUS
  <2> QED
    BY <1>1, <2>1
<1> QED
  BY <1>2, <1>3
\* The numbers on the wire of the positions below k that hold no packet.
MissingBelow(w, k) == {(w.first + i) % M : i \in {j \in 0..(k - 1) : j \notin w.marked}}

\* The fields written after k positions request what is missing there, but for
\* number 0; the next bit of an open field stands for position k.
NacksSoFar(w, k, s) ==
    /\ s.lost \in 0..(M - 1) /\ s.n \in 0..(MaskLen - 1)
    /\ s.lost # 0 => (s.lost + s.n + 1) % M = (w.first + k) % M
    /\ s.nacks \subseteq MissingBelow(w, k)
    /\ MissingBelow(w, k) \ {0} \subseteq s.nacks

LEMMA MissingGrows ==
    ASSUME NEW w, NEW k \in Nat
    PROVE  MissingBelow(w, k + 1) =
               MissingBelow(w, k) \cup (IF k \notin w.marked THEN {(w.first + k) % M} ELSE {})
<1> DEFINE J(m) == {j \in 0..(m - 1) : j \notin w.marked}
<1>1. J(k + 1) = J(k) \cup (IF k \notin w.marked THEN {k} ELSE {})
  OBVIOUS
<1>2. \A m \in Nat : MissingBelow(w, m) = {(w.first + i) % M : i \in J(m)}
  BY DEF MissingBelow
<1> HIDE DEF J
<1>3. CASE k \in w.marked
  BY <1>1, <1>2, <1>3
<1>4. CASE k \notin w.marked
  <2>1. J(k + 1) = J(k) \cup {k}
    BY <1>1, <1>4
  <2>2. {(w.first + i) % M : i \in J(k + 1)} = {(w.first + i) % M : i \in J(k)} \cup {(w.first + k) % M}
    BY <2>1
  <2> QED
    BY <1>2, <1>4, <2>2
<1> QED
  BY <1>3, <1>4

LEMMA NackStepRequests ==
    ASSUME NEW w, w.first \in Nat, NEW k \in Nat, NEW s, NacksSoFar(w, k, s)
    PROVE  NacksSoFar(w, k + 1, NackStep(w, k, s))
<1> DEFINE t == NackStep(w, k, s)
           number == (w.first + k) % M
<1>1. number \in 0..(M - 1)
  BY Division
<1>0. (number + 1) % M = (w.first + (k + 1)) % M
  <2> DEFINE b == w.first + k
  <2>1. b \in Int /\ b + 1 = w.first + (k + 1)
    OBVIOUS
  <2> HIDE DEF b
  <2>2. ((b % M) + 1) % M = (b + 1) % M
    BY <2>1, AddRemainder
  <2> QED
    BY <2>1, <2>2 DEF b
<1>2. MissingBelow(w, k + 1) = MissingBelow(w, k) \cup (IF k \notin w.marked THEN {number} ELSE {})
  BY MissingGrows
<1>3. CASE s.lost # 0
  <2>1. (s.lost + s.n + 1) % M = number
    BY <1>3 DEF NacksSoFar
  <2>2. t.nacks = s.nacks \cup (IF k \notin w.marked THEN {number} ELSE {})
    BY <1>3, <2>1 DEF NackStep
  <2>3. CASE s.n + 1 = MaskLen
    <3>1. t.lost = 0 /\ t.n = 0
      BY <1>3, <2>3 DEF NackStep
    <3> QED
      BY <1>2, <2>2, <3>1, Bounds DEF NacksSoFar
  <2>4. CASE s.n + 1 # MaskLen
    <3>1. t.lost = s.lost /\ t.n = s.n + 1
      BY <1>3, <2>4 DEF NackStep
    <3>2. t.n \in 0..(MaskLen - 1) /\ t.lost \in 0..(M - 1)
      BY <2>4, <3>1, Bounds DEF NacksSoFar
    <3>3. (t.lost + t.n + 1) % M = (w.first + (k + 1)) % M
      <4> DEFINE a == s.lost + s.n + 1
      <4>1. a \in Int /\ t.lost + t.n + 1 = a + 1
        BY <3>1, Bounds DEF NacksSoFar
      <4>2. a % M = (w.first + k) % M
        BY <2>1
      <4> HIDE DEF a
      <4>3. (a + 1) % M = ((a % M) + 1) % M
        BY <4>1, AddRemainder
      <4> QED
        BY <1>0, <4>1, <4>2, <4>3
    <3> QED
      BY <1>2, <2>2, <3>2, <3>3 DEF NacksSoFar
  <2> QED
    BY <2>3, <2>4
<1>4. CASE s.lost = 0 /\ k \notin w.marked
  <2>1. t.lost = number /\ t.n = 0 /\ t.nacks = s.nacks \cup ({number} \ {0})
    BY <1>4 DEF NackStep
  <2>2. (number + 0 + 1) % M = (w.first + (k + 1)) % M
    <3>1. number + 0 + 1 = number + 1
      BY <1>1, Bounds
    <3> QED
      BY <1>0, <3>1
  <2> HIDE DEF t, number
  <2>3. t.lost \in 0..(M - 1) /\ t.n \in 0..(MaskLen - 1)
    BY <1>1, <2>1, Bounds
  <2>4. (t.lost + t.n + 1) % M = (w.first + (k + 1)) % M
    BY <2>1, <2>2
  <2>5. MissingBelow(w, k + 1) = MissingBelow(w, k) \cup {number}
    BY <1>2, <1>4 DEF number
  <2>6. t.nacks \subseteq MissingBelow(w, k + 1) /\ MissingBelow(w, k + 1) \ {0} \subseteq t.nacks
    BY <2>1, <2>5 DEF NacksSoFar
  <2> QED
    BY <2>3, <2>4, <2>6 DEF NacksSoFar, t
<1>5. CASE s.lost = 0 /\ k \in w.marked
  <2>1. t = s /\ MissingBelow(w, k + 1) = MissingBelow(w, k)
    BY <1>2, <1>5 DEF NackStep
  <2> QED
    BY <1>5, <2>1 DEF NacksSoFar
<1> QED
  BY <1>3, <1>4, <1>5

\* rtp.cpp GetNacks: the fields request the positions that hold no packet, and
\* nothing else; number 0 may be left out.
THEOREM NacksAreExact ==
    ASSUME NEW w \in Window
    PROVE  /\ GetNacks(w) \subseteq MissingBelow(w, w.len)
           /\ MissingBelow(w, w.len) \ {0} \subseteq GetNacks(w)
<1> DEFINE S == {k \in Nat : k <= w.len => NacksSoFar(w, k, NackScan(w)[k])}
<1>0. w.first \in Nat /\ w.len \in Nat
  BY Bounds DEF Window
<1>1. 0 \in S
  <2>1. MissingBelow(w, 0) = {}
    BY DEF MissingBelow
  <2>2. NackScan(w)[0] = NoNacks
    BY <1>0, NackScanSteps
  <2> QED
    BY <2>1, <2>2, Bounds DEF NacksSoFar, NoNacks
<1>2. ASSUME NEW k \in Nat, k \in S PROVE k + 1 \in S
  <2>1. CASE k + 1 <= w.len
    <3>1. k <= w.len /\ k \in 0..(w.len - 1)
      BY <1>0, <2>1
    <3>2. NackScan(w)[k + 1] = NackStep(w, k, NackScan(w)[k])
      BY <1>0, <3>1, NackScanSteps
    <3>3. NacksSoFar(w, k, NackScan(w)[k])
      BY <1>2, <3>1
    <3> QED
      BY <1>0, <3>2, <3>3, NackStepRequests
  <2> QED
    BY <2>1
<1> HIDE DEF S
<1>3. w.len \in S
  BY <1>0, <1>1, <1>2, Induction
<1>4. NacksSoFar(w, w.len, NackScan(w)[w.len])
  BY <1>0, <1>3 DEF S
<1> QED
  BY <1>4 DEF NacksSoFar, GetNacks
-----------------------------------------------------------------------------
(* A packet that arrives: its extended number.                             *)

\* A packet with a new SSRC: its number counts from the wrap before it.
LEMMA ReceiveNew ==
    ASSUME IInv, NEW p \in net, Receive(p), ~p.rtx, p.src # recv.ssrc
    PROVE  /\ recv.ssrc < p.src
           /\ recv' = [ssrc |-> p.src, cycles |-> 0, extSeq |-> 0]
           /\ rd' = [at |-> "locate", p |-> p, ext |-> p.n % M, pos |-> 0, lost |-> 0]
           /\ newest' = p.n /\ origin' = p.n - (p.n % M)
           /\ origin' \in Nat /\ origin' % M = 0 /\ p.n % M \in Nat
           /\ packets' = {} /\ next' = None /\ cancel' = FALSE /\ prev' = NoPacket
           /\ dec' = Signal(dec) /\ arrived' = {} /\ foreign' = (losts # Empty)
<1>1. p \in Packet /\ p.n \in Nat /\ p.src \in Nat /\ recv.ssrc \in Nat
  BY Bounds DEF IInv, Types, Packet
<1>2. recv.ssrc < p.src
  BY <1>1 DEF Receive, Overtaken
<1>3. p.n % M \in 0..(M - 1) /\ p.n = M * (p.n \div M) + (p.n % M) /\ p.n \div M \in Int
  BY <1>1, Division
<1>4. p.n - (p.n % M) \in Nat
  <2>1. p.n \div M >= 0
    BY <1>1, <1>3, Bounds
  <2>2. M * (p.n \div M) >= 0
    BY <1>3, <2>1, Bounds
  <2>3. p.n - (p.n % M) = M * (p.n \div M)
    BY <1>1, <1>3, Bounds
  <2> QED
    BY <1>1, <1>3, <2>2, <2>3, Bounds
<1>5. (p.n - (p.n % M)) % M = 0
  BY <1>1, Floor
<1>6. ~IsWrap(p.n % M, NewSSRC(p))
  <2>1. 0 % M = 0
    BY Remainder, Bounds
  <2> QED
    BY <2>1, Bounds DEF IsWrap, NewSSRC
<1>7. recv' = [ssrc |-> p.src, cycles |-> 0, extSeq |-> 0]
  BY <1>6 DEF Receive, NewSSRC
<1>8. rd' = [at |-> "locate", p |-> p, ext |-> p.n % M, pos |-> 0, lost |-> 0]
  <2>1. rd' = [Idle EXCEPT !.at = "locate", !.p = p, !.ext = 0 * M + (p.n % M)]
    BY <1>6 DEF Receive, NewSSRC
  <2>2. 0 * M + (p.n % M) = p.n % M
    BY <1>3, Bounds
  <2> QED
    BY <2>1, <2>2 DEF Idle
<1>9. newest' = p.n /\ origin' = p.n - (p.n % M)
  BY DEF Receive
<1>10. /\ packets' = {} /\ next' = None /\ cancel' = FALSE /\ prev' = NoPacket
       /\ dec' = Signal(dec) /\ arrived' = {} /\ foreign' = (losts # Empty)
  BY DEF Receive, ResetPackets
<1> QED
  BY <1>2, <1>3, <1>4, <1>5, <1>7, <1>8, <1>9, <1>10, Bounds

\* A packet of the sender that is being received: it is not before the last
\* wrap, and the test for a wrap is right about it.
LEMMA ReceiveSame ==
    ASSUME IInv, NEW p \in net, Receive(p), ~(~p.rtx /\ p.src # recv.ssrc)
    PROVE  /\ p.src = recv.ssrc /\ p.n <= newest + MaxAhead /\ newest <= p.n + MaxBehind
           /\ p.rtx => p.n <= newest
           /\ p.n - origin \in Nat
           /\ rd' = [at |-> "locate", p |-> p, ext |-> p.n - origin, pos |-> 0, lost |-> 0]
           /\ recv'.ssrc = recv.ssrc /\ recv'.extSeq = recv.extSeq /\ recv'.cycles \in Nat
           /\ recv' \in [ssrc : 0..MaxSource, cycles : Nat, extSeq : Nat]
           /\ newest' = (IF newest <= p.n THEN p.n ELSE newest) /\ origin' = origin
           /\ origin + recv'.cycles * M = newest' - (newest' % M)
           /\ UNCHANGED <<buffer, dec, arrived, foreign>>
<1>1. /\ p \in Packet /\ p.n \in Nat /\ p.src \in Nat /\ recv.ssrc \in Nat /\ newest \in Nat
      /\ origin \in Nat /\ recv.cycles \in Nat /\ recv.extSeq \in Nat
  BY Bounds DEF IInv, Types, Packet
<1>2. p.src = recv.ssrc
  <2>1. p.rtx => p.src <= recv.ssrc
    BY DEF IInv, Senders
  <2>2. ~(p.src < recv.ssrc)
    BY DEF Receive, Overtaken
  <2> QED
    BY <1>1, <2>1, <2>2
<1>3. p.n <= newest + MaxAhead /\ (p.rtx => p.n <= newest)
  BY <1>2 DEF IInv, Senders
<1> DEFINE b == newest - (newest % M)
           seq == p.n % M
           c == recv.cycles
<1>4. newest % M \in 0..(M - 1) /\ b \in Int /\ b % M = 0 /\ newest - b \in 0..(M - 1)
  BY <1>1, Division, Floor, Bounds
<1>5. b <= p.n /\ newest <= p.n + MaxBehind
  BY <1>1, <1>2, <1>4, Bounds DEF Receive, Overtaken
<1>6. b = origin + c * M /\ c * M \in Int /\ origin <= b
  <2>1. b = origin + c * M
    BY DEF IInv, Numbers
  <2>2. c * M \in Nat
    BY <1>1, Bounds
  <2> QED
    BY <1>1, <2>1, <2>2
<1>7. recv.extSeq % M = newest - b
  <2>1. origin + recv.extSeq = newest /\ origin % M = 0
    BY DEF IInv, Numbers, Receive
  <2>2. (origin + recv.extSeq) % M = recv.extSeq % M
    BY <1>1, <2>1, AddZeroRemainder
  <2>3. newest % M = newest - b
    BY <1>1, <1>4
  <2> QED
    BY <2>1, <2>2, <2>3
<1> DEFINE w == IsWrap(seq, recv)
           d == IF w THEN c + 1 ELSE c
           nn == IF newest <= p.n THEN p.n ELSE newest
<1>8. d \in Nat /\ d * M + seq = p.n - origin /\ origin + d * M = nn - (nn % M)
  <2>1. CASE p.n < b + M
    <3>1. seq = p.n - b
      BY <1>1, <1>4, <1>5, <2>1, Behind
    <3>2. ~w
      <4> HIDE DEF b, seq
      <4>1. seq < Low => ~(newest - b > High)
        <5>1. b \in Int /\ newest <= p.n + MaxBehind
          BY <1>4, <1>5
        <5>2. MaxBehind <= High - Low + 1 /\ MaxBehind \in Nat /\ High \in Nat /\ Low \in Nat
          BY Bounds
        <5> QED
          BY <1>1, <3>1, <5>1, <5>2
      <4> QED
        BY <1>7, <4>1 DEF IsWrap
    <3>3. nn - (nn % M) = b
      BY <1>1, <1>4, <3>1
    <3>4. d = c
      BY <3>2
    <3> HIDE DEF b, seq, w, d, nn, c
    <3>5. c * M + seq = p.n - origin
      BY <1>1, <1>6, <3>1
    <3>6. c \in Nat
      BY <1>1 DEF c
    <3> QED
      BY <1>6, <3>3, <3>4, <3>5, <3>6
  <2>2. CASE b + M <= p.n
    <3>1. (b + M) % M = 0
      <4>1. b + M * 1 = b + M
        BY <1>4, Bounds
      <4>2. (b + M * 1) % M = b % M
        BY <1>4, AddMultiple
      <4> QED
        BY <1>4, <4>1, <4>2
    <3>2. b + M \in Int /\ p.n < (b + M) + M
      BY <1>1, <1>3, <1>4, <2>2, Bounds
    <3>3. seq = p.n - (b + M)
      BY <1>1, <2>2, <3>1, <3>2, Behind
    <3>4. w
      BY <1>1, <1>3, <1>4, <1>7, <2>2, <3>3, Bounds DEF IsWrap
    <3>5. nn = p.n
      BY <1>1, <1>4, <2>2, Bounds
    <3>6. d = c + 1 /\ c \in Nat
      BY <1>1, <3>4
    <3>7. (c + 1) * M = c * M + M
      BY <3>6, Bounds
    <3>8. nn - (nn % M) = b + M
      BY <1>1, <3>2, <3>3, <3>5
    <3> HIDE DEF b, seq, w, d, nn, c
    <3>9. d * M = c * M + M
      BY <3>6, <3>7
    <3>10. d * M + seq = p.n - origin
      BY <1>1, <1>6, <3>2, <3>3, <3>9, Bounds
    <3> QED
      BY <1>1, <1>6, <3>6, <3>8, <3>9, <3>10, Bounds
  <2> QED
    BY <1>1, <1>4, <2>1, <2>2, Bounds
<1>9. p.n - origin \in Nat
  BY <1>1, <1>4, <1>5, <1>6
<1>10. recv' = [recv EXCEPT !.cycles = d]
  BY DEF Receive
<1>11. rd' = [Idle EXCEPT !.at = "locate", !.p = p, !.ext = d * M + seq]
  BY DEF Receive
<1>12. newest' = nn /\ origin' = origin /\ UNCHANGED <<buffer, dec, arrived, foreign>>
  <2>1. newest' = Max({newest, p.n}) /\ origin' = origin /\ UNCHANGED <<buffer, dec, arrived, foreign>>
    BY DEF Receive
  <2> QED
    BY <1>1, <2>1, MaxOfTwo
<1> HIDE DEF b, seq, w, d, nn, c
<1>13. rd' = [at |-> "locate", p |-> p, ext |-> p.n - origin, pos |-> 0, lost |-> 0]
  BY <1>8, <1>11 DEF Idle
<1>14. /\ recv'.ssrc = recv.ssrc /\ recv'.extSeq = recv.extSeq /\ recv'.cycles = d
       /\ recv' \in [ssrc : 0..MaxSource, cycles : Nat, extSeq : Nat]
  BY <1>8, <1>10 DEF IInv, Types
<1>15. origin + recv'.cycles * M = newest' - (newest' % M)
  BY <1>8, <1>12, <1>14
<1>16. newest' = (IF newest <= p.n THEN p.n ELSE newest)
  BY <1>12 DEF nn
<1> QED
  BY <1>2, <1>3, <1>5, <1>8, <1>9, <1>12, <1>13, <1>14, <1>15, <1>16
-----------------------------------------------------------------------------
(* AddPacket: where a packet goes in the window.                           *)

\* Whatever the window holds, AddPacket stays within its array.
LEMMA LocateTypes ==
    ASSUME NEW w \in Window, NEW ext \in Nat, ~IsOld(w, ext)
    PROVE  LET l == Locate(w, ext)
           IN  /\ l.first \in Nat /\ l.len \in 0..Size
               /\ l.pos \in 0..(Size - 1) /\ l.marked \in SUBSET (0..(Size - 1))
               /\ (l.first + l.pos) % M = ext % M
<1> DEFINE l     == Locate(w, ext)
           first == IF w.first = 0 THEN ext ELSE w.first
           pos   == (ext - first) % M
           n     == Min({pos + 1 - Size, Size})
<1>1. w.first \in Nat /\ w.len \in 0..Size /\ w.marked \subseteq 0..(Size - 1) /\ w.first <= ext
  BY DEF Window, IsOld
<1>2. first \in Nat /\ first <= ext
  BY <1>1
<1>3. pos \in 0..(M - 1)
  BY <1>2, Division
<1>4. CASE pos + 1 > Size
  <2>1. l = [first  |-> ext - Size + 1, len |-> Size, pos |-> Size - 1,
             marked |-> {i - n : i \in {j \in w.marked : j >= n}}]
    BY <1>4 DEF Locate
  <2>2. n = IF pos + 1 - Size <= Size THEN pos + 1 - Size ELSE Size
    BY <1>3, MinOfTwo, Bounds
  <2>3. n \in 1..Size
    BY <1>3, <1>4, <2>2, Bounds
  <2> HIDE DEF n
  <2>4. {i - n : i \in {j \in w.marked : j >= n}} \subseteq 0..(Size - 1)
    <3> SUFFICES ASSUME NEW i \in w.marked, i >= n PROVE i - n \in 0..(Size - 1)
      OBVIOUS
    <3>1. i \in 0..(Size - 1)
      BY <1>1
    <3> QED
      BY <2>3, <3>1, Bounds
  <2>5. ext - Size + 1 \in Nat
    <3>1. ext - first >= pos
      <4>1. CASE ext - first < M
        <5>1. pos = ext - first
          BY <1>2, <4>1, Remainder, Bounds
        <5> QED
          BY <1>2, <5>1
      <4>2. CASE ext - first >= M
        <5> HIDE DEF pos, first
        <5> QED
          BY <1>2, <1>3, <4>2, Bounds
      <4> QED
        BY <1>2, <4>1, <4>2, Bounds
    <3> HIDE DEF pos, first
    <3> QED
      BY <1>2, <1>3, <1>4, <3>1, Bounds
  <2>6. (ext - Size + 1) + (Size - 1) = ext
    BY Bounds
  <2> QED
    BY <2>1, <2>4, <2>5, <2>6, Bounds
<1>5. CASE ~(pos + 1 > Size)
  <2>1. l = [first |-> first, len |-> w.len, pos |-> pos, marked |-> w.marked]
    BY <1>5 DEF Locate
  <2>2. (first + pos) % M = ext % M
    <3> DEFINE e == ext - first
    <3>1. e \in Int /\ ext = e + first
      BY <1>2
    <3>3. pos = e % M /\ e % M \in Int
      BY <3>1, Division, Bounds
    <3> HIDE DEF first, pos, e
    <3>2. ((e % M) + first) % M = (e + first) % M
      BY <1>2, <3>1, AddRemainder
    <3>4. first + pos = (e % M) + first
      BY <1>2, <3>3
    <3> QED
      BY <3>1, <3>2, <3>4
  <2>3. pos \in 0..(Size - 1)
    BY <1>3, <1>5, Bounds
  <2> HIDE DEF first, pos
  <2> QED
    BY <1>1, <1>2, <2>1, <2>2, <2>3
<1> QED
  BY <1>4, <1>5

LEMMA ReachTypes ==
    ASSUME NEW w \in Window, NEW ext \in Nat, ~IsOld(w, ext)
    PROVE  LET l == Locate(w, ext)
           IN  /\ Reach(l, l.pos) \in Window
               /\ LostBelow(l, l.pos) \in 0..(Size - 1)
               /\ LostBelow(l, l.pos) > 0 => Reach(l, l.pos).len = l.pos + 1
<1> DEFINE l == Locate(w, ext)
<1>1. /\ l.first \in Nat /\ l.len \in 0..Size
      /\ l.pos \in 0..(Size - 1) /\ l.marked \in SUBSET (0..(Size - 1))
  BY LocateTypes
<1> HIDE DEF l
<1> DEFINE m == Max({-1} \cup {i \in l.marked : i < l.pos})
<1>2. m \in -1..(l.pos - 1)
  <2>1. l.marked \subseteq Nat /\ l.pos \in Nat
    BY <1>1, Bounds
  <2>2. -1 \in Int /\ -1 < 0
    OBVIOUS
  <2> QED
    BY <2>1, <2>2, MaxBelow
<1>3. LostBelow(l, l.pos) = IF l.len - 1 <= l.pos THEN l.pos - 1 - m ELSE 0
  BY DEF LostBelow
<1> HIDE DEF m
<1>4. LostBelow(l, l.pos) \in 0..(Size - 1)
  BY <1>1, <1>2, <1>3, Bounds
<1>5. Reach(l, l.pos) = [first |-> l.first, marked |-> l.marked,
                         len |-> IF l.len - 1 <= l.pos THEN l.pos + 1 ELSE l.len]
  BY DEF Reach
<1>6. (IF l.len - 1 <= l.pos THEN l.pos + 1 ELSE l.len) \in 0..Size
  BY <1>1, Bounds
<1>7. Reach(l, l.pos) \in Window
  BY <1>1, <1>5, <1>6 DEF Window
<1>8. LostBelow(l, l.pos) > 0 => Reach(l, l.pos).len = l.pos + 1
  BY <1>3, <1>5
<1> QED
  BY <1>4, <1>7, <1>8 DEF l
-----------------------------------------------------------------------------
(* Which actions leave what alone.                                         *)

\* The decoder, the control thread and SetRTT.
Bystander == \/ SetRTT \/ Decoder \/ StartReceiving \/ StopReceiving
             \/ CancelGetPacket \/ Join

LEMMA BystanderFrame ==
    ASSUME Bystander
    PROVE  UNCHANGED <<env, recv, rd, stream>>
  BY DEF Bystander, SetRTT, Decoder, RecVideo, WaitCancelled, WaitExpected, WaitExpired,
         Take, WaitSleep, RequestFPU, ResetLosts, StartReceiving, StopReceiving, Call,
         CancelGetPacket, Join

\* The sender and the network.
Environment == Send \/ NewSource \/ Lose

LEMMA EnvironmentFrame ==
    ASSUME Environment
    PROVE  UNCHANGED <<recv, rd, window, nackEnabled, buffer, dec, control, stream>>
  BY DEF Environment, Send, NewSource, Lose

\* Every step is one of these.
LEMMA StepCases ==
    ASSUME Next
    PROVE  Environment \/ (\E p \in net : Receive(p)) \/ Reader \/ Bystander
  BY DEF Next, Environment, Bystander

-----------------------------------------------------------------------------
(* Types.                                                                  *)

LEMMA InitTypes ==
    ASSUME Init
    PROVE  Types
<1>1. losts \in Window
  BY Bounds DEF Init, Empty, Window
<1>2. rd \in [at : {"idle", "locate", "mark", "add"}, p : Packet \cup {NoPacket},
              ext : Nat, pos : 0..(Size - 1), lost : 0..(Size - 1)]
  BY Bounds DEF Init, Idle
<1>3. source \in 1..MaxSource /\ start \in Nat /\ sent \in Int /\ left \in Nat
  BY Bounds DEF Init
<1>4. recv \in [ssrc : 0..MaxSource, cycles : Nat, extSeq : Nat]
  BY Bounds DEF Init
<1> QED
  BY <1>1, <1>2, <1>3, <1>4 DEF Init, Types, Idle

LEMMA RetransmittedTypes ==
    ASSUME Types, NEW nacks
    PROVE  Retransmitted(nacks) \subseteq Packet
<1> SUFFICES ASSUME NEW k \in start..sent
             PROVE  [src |-> source, n |-> k, rtx |-> TRUE] \in Packet
  BY DEF Retransmitted
<1> QED
  BY DEF Types, Packet

LEMMA TypesEnvironment ==
    ASSUME IInv, Environment
    PROVE  Types'
<1>1. UNCHANGED <<recv, rd, window, nackEnabled, buffer, dec, control, stream>>
  BY EnvironmentFrame
<1>2. /\ source' \in 1..MaxSource /\ start' \in Nat /\ sent' \in Int /\ left' \in Nat
      /\ net' \subseteq Packet
  <2>1. CASE Send
    <3>1. [src |-> source, n |-> sent + 1, rtx |-> FALSE] \in Packet
      <4>1. sent + 1 \in Nat
        BY DEF IInv, Types, Senders
      <4> QED
        BY <4>1 DEF IInv, Types, Packet
    <3>2. /\ source' = source /\ start' = start /\ sent' = sent + 1
          /\ left > 0 /\ left' = left - 1
          /\ net' = net \cup {[src |-> source, n |-> sent + 1, rtx |-> FALSE]}
      BY <2>1 DEF Send
    <3>3. source \in 1..MaxSource /\ start \in Nat /\ sent \in Int /\ left \in Nat /\ net \subseteq Packet
      BY DEF IInv, Types
    <3>4. net' \subseteq Packet
      BY <3>1, <3>2, <3>3
    <3>5. left' \in Nat /\ sent' \in Int
      BY <3>2, <3>3
    <3> QED
      BY <3>2, <3>3, <3>4, <3>5
  <2>2. CASE NewSource
    BY <2>2, Bounds DEF NewSource, IInv, Types
  <2>3. CASE Lose
    BY <2>3 DEF Lose, IInv, Types
  <2> QED
    BY <2>1, <2>2, <2>3 DEF Environment
<1> QED
  BY <1>1, <1>2 DEF IInv, Types, window, buffer, control, stream

LEMMA TypesReceive ==
    ASSUME IInv, NEW p \in net, Receive(p)
    PROVE  Types'
<1>1. UNCHANGED <<source, start, sent, left, losts, torn, nackEnabled, control>> /\ net' \subseteq net
  BY DEF Receive
<1>2. p \in Packet /\ p.n \in Nat /\ p.src \in 1..MaxSource /\ newest \in Nat
  BY DEF IInv, Types, Packet
<1>3. CASE ~p.rtx /\ p.src # recv.ssrc
  <2>0. /\ recv' = [ssrc |-> p.src, cycles |-> 0, extSeq |-> 0]
        /\ rd' = [at |-> "locate", p |-> p, ext |-> p.n % M, pos |-> 0, lost |-> 0]
        /\ p.n % M \in Nat
    BY <1>3, ReceiveNew
  <2>1. rd' \in [at : {"idle", "locate", "mark", "add"}, p : Packet \cup {NoPacket},
                 ext : Nat, pos : 0..(Size - 1), lost : 0..(Size - 1)] /\ rd'.p \in Packet
    BY <1>2, <2>0, Bounds
  <2>2. recv' \in [ssrc : 0..MaxSource, cycles : Nat, extSeq : Nat]
    BY <1>2, <2>0, Bounds
  <2>3. /\ newest' \in Nat /\ origin' \in Nat /\ arrived' \subseteq Nat /\ foreign' \in BOOLEAN
        /\ packets' = {} /\ next' = None /\ cancel' = FALSE /\ prev' = NoPacket /\ dec' = Signal(dec)
    BY <1>2, <1>3, ReceiveNew
  <2> QED
    BY <1>1, <2>1, <2>2, <2>3 DEF IInv, Types, control, Signal
<1>4. CASE ~(~p.rtx /\ p.src # recv.ssrc)
  <2>1. rd' \in [at : {"idle", "locate", "mark", "add"}, p : Packet \cup {NoPacket},
                 ext : Nat, pos : 0..(Size - 1), lost : 0..(Size - 1)] /\ rd'.p \in Packet
    BY <1>2, <1>4, ReceiveSame, Bounds
  <2>2. recv' \in [ssrc : 0..MaxSource, cycles : Nat, extSeq : Nat]
    BY <1>4, ReceiveSame
  <2>3. newest' \in Nat /\ origin' = origin /\ UNCHANGED <<buffer, dec, arrived, foreign>>
    BY <1>2, <1>4, ReceiveSame
  <2> QED
    BY <1>1, <2>1, <2>2, <2>3 DEF IInv, Types, control, buffer
<1> QED
  BY <1>3, <1>4

LEMMA TypesReader ==
    ASSUME IInv, Reader
    PROVE  Types'
<1> USE DEF IInv
<1>1. CASE AddPacketLocate
  <2>1. UNCHANGED <<env, recv, arrived, torn, foreign, nackEnabled, buffer, dec, control, stream>>
    BY <1>1 DEF AddPacketLocate
  <2>2. /\ losts' \in Window
        /\ rd' \in [at : {"idle", "locate", "mark", "add"}, p : Packet \cup {NoPacket},
                    ext : Nat, pos : 0..(Size - 1), lost : 0..(Size - 1)]
        /\ rd'.p \in Packet
    <3>1. rd.ext \in Nat /\ losts \in Window /\ rd.p \in Packet
      BY <1>1 DEF Types, AddPacketLocate
    <3>2. CASE IsOld(losts, rd.ext)
      BY <1>1, <3>1, <3>2 DEF AddPacketLocate, Types
    <3>3. CASE ~IsOld(losts, rd.ext)
      <4> DEFINE l == Locate(losts, rd.ext)
      <4>1. l.pos \in 0..(Size - 1)
        BY <3>1, <3>3, LocateTypes
      <4>2. Reach(l, l.pos) \in Window /\ LostBelow(l, l.pos) \in 0..(Size - 1)
        BY <3>1, <3>3, ReachTypes
      <4> HIDE DEF l
      <4>3. /\ losts' = Reach(l, l.pos)
            /\ rd' = [rd EXCEPT !.at = "mark", !.pos = l.pos, !.lost = LostBelow(l, l.pos)]
        BY <1>1, <3>3 DEF AddPacketLocate, l
      <4> QED
        BY <3>1, <4>1, <4>2, <4>3 DEF Types
    <3> QED
      BY <3>2, <3>3
  <2> QED
    BY <2>1, <2>2 DEF Types, env, buffer, control, stream
<1>2. CASE AddPacketMark
  <2>1. UNCHANGED <<source, start, sent, left, recv, torn, foreign, nackEnabled, buffer, dec, control, stream>>
    BY <1>2 DEF AddPacketMark
  <2>2. net' \subseteq Packet
    BY <1>2, RetransmittedTypes DEF AddPacketMark, Types
  <2>3. losts' \in Window
    BY <1>2 DEF AddPacketMark, Mark, Types, Window
  <2>4. rd.p \in Packet /\ rd.p.n \in Nat
    BY <1>2 DEF AddPacketMark, Types, Packet
  <2>5. /\ rd' \in [at : {"idle", "locate", "mark", "add"}, p : Packet \cup {NoPacket},
                    ext : Nat, pos : 0..(Size - 1), lost : 0..(Size - 1)]
        /\ rd'.p \in Packet /\ arrived' \subseteq Nat
    BY <1>2, <2>4 DEF AddPacketMark, Types
  <2> QED
    BY <2>1, <2>2, <2>3, <2>5 DEF Types, buffer, control, stream
<1>3. CASE AddToBuffer
  <2>1. UNCHANGED <<env, window, nackEnabled, next, cancel, prev, control, stream>>
    BY <1>3 DEF AddToBuffer
  <2>2. recv' \in [ssrc : 0..MaxSource, cycles : Nat, extSeq : Nat]
    BY <1>3 DEF AddToBuffer, Types
  <2>3. rd' = Idle /\ rd' \in [at : {"idle", "locate", "mark", "add"}, p : Packet \cup {NoPacket},
                    ext : Nat, pos : 0..(Size - 1), lost : 0..(Size - 1)]
    BY <1>3, Bounds DEF AddToBuffer, Idle
  <2>4. packets' \subseteq [ext : Nat, p : Packet]
    BY <1>3 DEF AddToBuffer, Types
  <2>5. dec' = dec \/ dec' = Signal(dec)
    BY <1>3 DEF AddToBuffer
  <2> QED
    BY <2>1, <2>2, <2>3, <2>4, <2>5 DEF Types, env, window, control, stream, Signal, Idle
<1> QED
  BY <1>1, <1>2, <1>3 DEF Reader
LEMMA TypesBystander ==
    ASSUME IInv, Bystander
    PROVE  Types'
<1>1. UNCHANGED <<env, recv, rd, stream>>
  BY BystanderFrame
<1>2. /\ losts' \in Window /\ arrived' \subseteq Nat
      /\ torn' \in BOOLEAN /\ foreign' \in BOOLEAN /\ nackEnabled' \in BOOLEAN
  <2>1. CASE ResetLosts
    <3>1. PICK f \in {0, losts.first}, k \in {0, losts.len} :
              losts' = [first |-> f, len |-> k, marked |-> {}]
      BY <2>1 DEF ResetLosts
    <3>2. f \in Nat /\ k \in 0..Size
      BY Bounds DEF IInv, Types, Window
    <3>3. losts' \in Window
      BY <3>1, <3>2 DEF Window
    <3>4. torn' \in BOOLEAN /\ foreign' \in BOOLEAN /\ nackEnabled' \in BOOLEAN /\ arrived' = {}
      BY <2>1 DEF ResetLosts
    <3> QED
      BY <3>3, <3>4
  <2>2. CASE ~ResetLosts
    <3>1. UNCHANGED window /\ nackEnabled' \in BOOLEAN
      BY <2>2 DEF Bystander, SetRTT, Decoder, RecVideo, WaitCancelled, WaitExpected, WaitExpired,
                  Take, WaitSleep, RequestFPU, StartReceiving, StopReceiving, Call,
                  CancelGetPacket, Join, IInv, Types
    <3> QED
      BY <3>1 DEF window, IInv, Types
  <2> QED
    BY <2>1, <2>2
<1>3. /\ packets' \subseteq [ext : Nat, p : Packet] /\ next' \in Nat \cup {None}
      /\ prev' \in Packet \cup {NoPacket} /\ cancel' \in BOOLEAN
  <2>1. ASSUME NEW q \in packets, Take(q)
        PROVE  /\ packets' \subseteq [ext : Nat, p : Packet] /\ next' \in Nat \cup {None}
               /\ prev' \in Packet \cup {NoPacket} /\ cancel' \in BOOLEAN
    <3>1. q.ext \in Nat /\ q.p \in Packet
      BY DEF IInv, Types
    <3>2. packets' = packets \ {q} /\ next' = q.ext + 1 /\ prev' = q.p /\ cancel' = cancel
      BY <2>1 DEF Take
    <3> QED
      BY <3>1, <3>2 DEF IInv, Types
  <2>2. CASE RequestFPU
    BY <2>2 DEF RequestFPU, ResetPackets
  <2>3. CASE CancelGetPacket
    BY <2>3 DEF CancelGetPacket, IInv, Types
  <2>4. CASE ~WaitExpected /\ ~WaitExpired /\ ~RequestFPU /\ ~CancelGetPacket
    <3>1. UNCHANGED buffer
      BY <2>4 DEF Bystander, SetRTT, Decoder, RecVideo, WaitCancelled,
                  WaitSleep, ResetLosts, StartReceiving, StopReceiving, Call, Join
    <3> QED
      BY <3>1 DEF buffer, IInv, Types
  <2> QED
    BY <2>1, <2>2, <2>3, <2>4 DEF WaitExpected, WaitExpired
<1>4. /\ dec' \in {"off", "loop", "wait", "asleep", "fpu", "fpu_losts"}
      /\ ctl' \in [at : {"idle", "cancel", "join"}, restart : BOOLEAN]
      /\ starts' \in Nat /\ receiving' \in BOOLEAN
  <2>1. CASE SetRTT \/ Decoder
    BY <2>1 DEF SetRTT, Decoder, RecVideo, WaitCancelled, WaitExpected, WaitExpired,
                Take, WaitSleep, RequestFPU, ResetLosts, IInv, Types, control
  <2>2. ASSUME NEW restart \in BOOLEAN, Call(restart)
        PROVE  /\ dec' \in {"off", "loop", "wait", "asleep", "fpu", "fpu_losts"}
               /\ ctl' \in [at : {"idle", "cancel", "join"}, restart : BOOLEAN]
               /\ starts' \in Nat /\ receiving' \in BOOLEAN
    <3>1. CASE receiving
      <4>1. /\ receiving' = FALSE /\ dec' = dec
            /\ ctl' = [at |-> "cancel", restart |-> restart]
            /\ starts' = starts \/ starts' = starts + 1
        BY <2>2, <3>1 DEF Call
      <4>2. starts \in Nat /\ dec \in {"off", "loop", "wait", "asleep", "fpu", "fpu_losts"}
        BY DEF IInv, Types
      <4>3. ctl' \in [at : {"idle", "cancel", "join"}, restart : BOOLEAN]
        BY <4>1
      <4>4. starts' \in Nat
        BY <4>1, <4>2
      <4>5. receiving' \in BOOLEAN
        BY <4>1
      <4> QED
        BY <4>1, <4>2, <4>3, <4>4, <4>5
    <3>2. CASE ~receiving
      BY <2>2, <3>2 DEF Call, IInv, Types
    <3> QED
      BY <3>1, <3>2
  <2>3. CASE CancelGetPacket
    BY <2>3 DEF CancelGetPacket, IInv, Types, Signal
  <2>4. CASE Join
    BY <2>4 DEF Join, IInv, Types
  <2> QED
    BY <2>1, <2>2, <2>3, <2>4 DEF Bystander, StartReceiving, StopReceiving
<1> QED
  BY <1>1, <1>2, <1>3, <1>4 DEF IInv, Types, env, stream

LEMMA TypesStep ==
    ASSUME IInv, Next
    PROVE  Types'
  BY StepCases, TypesEnvironment, TypesReceive, TypesReader, TypesBystander
-----------------------------------------------------------------------------
(* Senders: what is under way.                                             *)

\* A packet that a NACK makes the sender send again is not ahead of what was
\* received, also when the window was reset or is about a former sender.
LEMMA RetransmittedBehind ==
    ASSUME IInv, AddPacketMark, nackEnabled, rd.lost > 0,
           NEW k \in start..sent, recv.ssrc = source, k % M \in GetNacks(losts')
    PROVE  k <= newest
<1>0. Types /\ Senders /\ Numbers /\ Windowed
  BY DEF IInv
<1>1. losts \in Window /\ rd.ext \in Nat /\ rd.pos \in 0..(Size - 1) /\ origin \in Nat /\ newest \in Nat
  BY <1>0 DEF Types
<1>2. rd.at = "mark" /\ losts' = [losts EXCEPT !.marked = @ \cup {rd.pos}]
  BY DEF AddPacketMark, Mark
<1>3. (losts.first + rd.pos) % M = rd.ext % M /\ losts.len = rd.pos + 1
  BY <1>0, <1>2 DEF Windowed
<1>4. losts' \in Window /\ losts'.first = losts.first /\ losts'.len = rd.pos + 1
  BY <1>1, <1>2, <1>3 DEF Window
<1>5. PICK i \in 0..rd.pos : k % M = (losts.first + i) % M
  <2>1. k % M \in MissingBelow(losts', losts'.len)
    BY <1>4, NacksAreExact
  <2>2. PICK i \in 0..((rd.pos + 1) - 1) : k % M = (losts.first + i) % M
    BY <1>4, <2>1 DEF MissingBelow
  <2>3. i \in 0..rd.pos
    BY <1>1, Bounds
  <2> QED
    BY <2>2, <2>3
<1> DEFINE e == rd.ext + (i - rd.pos)
           m == origin + e
<1>6. e \in Int /\ m \in Int
  BY <1>1, <1>5, Bounds
<1>7. k % M = e % M
  <2> DEFINE a == losts.first + rd.pos
             d == i - rd.pos
  <2>1. a \in Int /\ d \in Int /\ a + d = losts.first + i /\ rd.ext + d = e
    BY <1>1, <1>5, Bounds DEF Window
  <2>2. a % M = rd.ext % M
    BY <1>3
  <2> HIDE DEF a, d, e
  <2>3. ((a % M) + d) % M = (a + d) % M
    BY <2>1, AddRemainder
  <2>4. ((rd.ext % M) + d) % M = (rd.ext + d) % M
    <3>1. rd.ext \in Int
      BY <1>1
    <3> QED
      BY <2>1, <3>1, AddRemainder
  <2> QED
    BY <1>5, <2>1, <2>2, <2>3, <2>4
<1>8. m % M = e % M
  BY <1>0, <1>1, <1>6, AddZeroRemainder DEF Numbers
<1>9. rd.p.n = origin + rd.ext /\ rd.p.n <= newest /\ newest <= rd.p.n + MaxBehind
  BY <1>0, <1>2 DEF Numbers
<1>10. m <= newest /\ newest < m + MaxBehind + Size
  <2>1. m = rd.p.n + (i - rd.pos) /\ rd.p.n \in Nat
    BY <1>1, <1>5, <1>9, Bounds
  <2> HIDE DEF m
  <2>2. m <= rd.p.n
    BY <1>1, <1>5, <2>1, Bounds
  <2>3. rd.p.n < m + Size
    BY <1>1, <1>5, <2>1, Bounds
  <2> QED
    BY <1>1, <1>6, <1>9, <2>1, <2>2, <2>3, Bounds
<1>11. k \in Int /\ k <= newest + MaxAhead
  BY <1>0, <1>1, Bounds DEF Types, Senders
<1> HIDE DEF m, e
<1>12. CASE m < k
  <2>1. m + M <= k
    BY <1>6, <1>7, <1>8, <1>11, <1>12, Apart
  <2> QED
    BY <1>1, <1>6, <1>10, <1>11, <2>1, Bounds
<1>13. CASE k <= m
  BY <1>1, <1>6, <1>10, <1>11, <1>13
<1> QED
  BY <1>6, <1>11, <1>12, <1>13

LEMMA SendersEnvironment ==
    ASSUME IInv, Environment
    PROVE  Senders'
<1>0. Types /\ Senders /\ Numbers /\ Windowed
  BY DEF IInv
<1>1. UNCHANGED <<recv, newest>>
  BY EnvironmentFrame DEF stream
<1>2. /\ source \in Nat /\ start \in Nat /\ sent \in Int /\ recv.ssrc \in Nat /\ newest \in Nat
      /\ \A p \in net : p.src \in Nat /\ p.n \in Nat
  BY <1>0, Bounds DEF Types, Packet
<1>3. CASE Send
  <2> DEFINE new == [src |-> source, n |-> sent + 1, rtx |-> FALSE]
  <2>1. UNCHANGED <<source, start>> /\ sent' = sent + 1 /\ net' = net \cup {new}
    BY <1>3 DEF Send
  <2>2. sent < (IF recv.ssrc = source THEN newest ELSE start) + MaxAhead
    BY <1>3 DEF Send
  <2>3. new.src = source /\ new.n = sent + 1 /\ new.rtx = FALSE
    OBVIOUS
  <2> HIDE DEF new
  <2>4. start <= sent' + 1 /\ sent' <= (IF recv.ssrc = source THEN newest ELSE start) + MaxAhead
    BY <1>0, <1>2, <2>1, <2>2, Bounds DEF Senders
  <2>5. ASSUME NEW p \in net'
        PROVE  /\ p.src <= source
               /\ p.rtx => p.src <= recv.ssrc
               /\ p.src = source => start <= p.n /\ p.n <= sent'
               /\ p.src = recv.ssrc => p.n <= newest + MaxAhead
               /\ p.src = recv.ssrc /\ p.rtx => p.n <= newest
    <3>1. CASE p \in net
      BY <1>0, <1>2, <2>1, <3>1 DEF Senders
    <3>2. CASE p = new
      BY <1>0, <1>2, <2>1, <2>3, <2>4, <3>2, Bounds DEF Senders
    <3> QED
      BY <2>1, <3>1, <3>2
  <2>6. ASSUME NEW p \in net', NEW q \in net', p.src = q.src, recv.ssrc < p.src
        PROVE  q.n <= p.n + MaxAhead
    <3>1. CASE p \in net /\ q \in net
      BY <1>0, <2>6, <3>1 DEF Senders
    <3>2. CASE p = new \/ q = new
      <4>1. p.src = source /\ q.src = source /\ recv.ssrc # source
        BY <1>2, <2>3, <2>6, <3>2
      <4>2. start <= p.n /\ q.n <= start + MaxAhead
        <5>1. start <= p.n /\ q.n <= sent'
          BY <2>5, <4>1
        <5>2. sent' <= start + MaxAhead
          BY <2>4, <4>1
        <5>3. sent' \in Int /\ q.n \in Int
          BY <1>2, <2>1, <2>3
        <5> QED
          BY <1>2, <5>1, <5>2, <5>3, Bounds
      <4>3. p.n \in Int /\ q.n \in Int
        BY <1>2, <2>1, <2>3
      <4> QED
        BY <1>2, <4>2, <4>3, Bounds
    <3> QED
      BY <2>1, <3>1, <3>2
  <2> QED
    BY <1>0, <1>1, <2>1, <2>4, <2>5, <2>6 DEF Senders
<1>4. CASE NewSource
  <2>1. source' = source + 1 /\ start' \in Nat /\ sent' = start' - 1 /\ net' = net
    BY <1>4, Bounds DEF NewSource
  <2>2. recv.ssrc < source'
    BY <1>0, <1>2, <2>1 DEF Senders
  <2>3. start' <= sent' + 1 /\ sent' <= start' + MaxAhead
    <3>1. ASSUME NEW s \in Nat PROVE s <= (s - 1) + 1 /\ s - 1 <= s + MaxAhead
      BY Bounds
    <3>2. start' \in Nat /\ sent' = start' - 1
      BY <2>1
    <3> QED
      BY <3>1, <3>2, Zenon
  <2>4. \A p \in net : p.src < source'
    BY <1>0, <1>2, <2>1 DEF Senders
  <2>5. ASSUME NEW p \in net
        PROVE  /\ p.src <= source'
               /\ p.rtx => p.src <= recv.ssrc
               /\ p.src = source' => start' <= p.n /\ p.n <= sent'
               /\ p.src = recv.ssrc => p.n <= newest + MaxAhead
               /\ p.src = recv.ssrc /\ p.rtx => p.n <= newest
    BY <1>0, <1>2, <2>1, <2>4 DEF Senders
  <2>6. recv.ssrc # source' /\ recv.ssrc <= source'
    BY <1>2, <2>1, <2>2
  <2>7. sent' <= (IF recv.ssrc = source' THEN newest ELSE start') + MaxAhead
    BY <2>3, <2>6, Zenon
  <2>8. \A p, q \in net : p.src = q.src /\ recv.ssrc < p.src => q.n <= p.n + MaxAhead
    BY <1>0 DEF Senders
  <2> QED
    BY <1>1, <2>1, <2>3, <2>5, <2>6, <2>7, <2>8, Zenon DEF Senders
<1>5. CASE Lose
  <2>1. UNCHANGED <<source, start, sent>> /\ net' \subseteq net
    BY <1>5 DEF Lose
  <2> QED
    BY <1>0, <1>1, <2>1 DEF Senders
<1> QED
  BY <1>3, <1>4, <1>5 DEF Environment

LEMMA SendersReceive ==
    ASSUME IInv, NEW p \in net, Receive(p)
    PROVE  Senders'
<1>0. Types /\ Senders /\ Numbers /\ Windowed
  BY DEF IInv
<1>1. UNCHANGED <<source, start, sent>> /\ net' \subseteq net
  BY DEF Receive
<1>2. /\ source \in Nat /\ start \in Nat /\ sent \in Int /\ recv.ssrc \in Nat /\ newest \in Nat
      /\ \A q \in net : q.src \in Nat /\ q.n \in Nat
  BY <1>0, Bounds DEF Types, Packet
<1>3. CASE ~p.rtx /\ p.src # recv.ssrc
  <2>0. /\ recv.ssrc < p.src /\ newest' = p.n
        /\ recv' = [ssrc |-> p.src, cycles |-> 0, extSeq |-> 0]
    BY <1>3, ReceiveNew
  <2>1. recv.ssrc < p.src /\ recv'.ssrc = p.src /\ newest' = p.n
    BY <2>0
  <2>2. sent <= (IF p.src = source THEN p.n ELSE start) + MaxAhead /\ p.src <= source
    BY <1>0, <1>2, <2>1, Bounds DEF Senders
  <2>3. ASSUME NEW q \in net
        PROVE  /\ q.src <= source
               /\ q.rtx => q.src < p.src
               /\ q.src = source => start <= q.n /\ q.n <= sent
               /\ q.src = p.src => q.n <= p.n + MaxAhead
    BY <1>0, <1>2, <2>1 DEF Senders
  <2>4. ASSUME NEW q \in net, NEW o \in net, q.src = o.src, p.src < q.src
        PROVE  o.n <= q.n + MaxAhead
    BY <1>0, <1>2, <2>1, <2>4 DEF Senders
  <2>5. ASSUME NEW q \in net
        PROVE  /\ q.src <= source
               /\ q.rtx => q.src <= p.src
               /\ q.src = source => start <= q.n /\ q.n <= sent
               /\ q.src = p.src => q.n <= p.n + MaxAhead
               /\ q.src = p.src /\ q.rtx => q.n <= p.n
    BY <1>2, <2>3
  <2>6. start <= sent + 1
    BY <1>0 DEF Senders
  <2> QED
    BY <1>0, <1>1, <2>1, <2>2, <2>4, <2>5, <2>6 DEF Senders
<1>4. CASE ~(~p.rtx /\ p.src # recv.ssrc)
  <2> DEFINE nn == IF newest <= p.n THEN p.n ELSE newest
  <2>1. recv'.ssrc = recv.ssrc /\ newest' = nn
    BY <1>4, ReceiveSame
  <2>2. nn \in Nat /\ newest <= nn
    BY <1>2
  <2> HIDE DEF nn
  <2>3. sent <= (IF recv.ssrc = source THEN nn ELSE start) + MaxAhead
    BY <1>0, <1>2, <2>2, Bounds DEF Senders
  <2>4. ASSUME NEW q \in net
        PROVE  /\ q.src <= source
               /\ q.rtx => q.src <= recv.ssrc
               /\ q.src = source => start <= q.n /\ q.n <= sent
               /\ q.src = recv.ssrc => q.n <= nn + MaxAhead
               /\ q.src = recv.ssrc /\ q.rtx => q.n <= nn
    BY <1>0, <1>2, <2>2, Bounds DEF Senders
  <2>5. /\ recv.ssrc <= source /\ start <= sent + 1
        /\ \A q, o \in net : q.src = o.src /\ recv.ssrc < q.src => o.n <= q.n + MaxAhead
    BY <1>0 DEF Senders
  <2> QED
    BY <1>1, <2>1, <2>3, <2>4, <2>5 DEF Senders
<1> QED
  BY <1>3, <1>4

LEMMA SendersStep ==
    ASSUME IInv, Next
    PROVE  Senders'
<1>0. Types /\ Senders /\ Numbers /\ Windowed
  BY DEF IInv
<1>1. CASE AddPacketMark
  <2>1. UNCHANGED <<source, start, sent, recv, newest>>
    BY <1>1 DEF AddPacketMark, stream
  <2>2. CASE net' = net
    BY <1>0, <2>1, <2>2 DEF Senders
  <2>3. CASE nackEnabled /\ rd.lost > 0 /\ net' = net \cup Retransmitted(GetNacks(losts'))
    <3>1. ASSUME NEW q \in Retransmitted(GetNacks(losts'))
          PROVE  q.src = source /\ recv.ssrc = source /\ start <= q.n /\ q.n <= sent /\ q.n <= newest
      <4>1. PICK k \in start..sent :
                /\ recv.ssrc = source /\ k % M \in GetNacks(losts')
                /\ q = [src |-> source, n |-> k, rtx |-> TRUE]
        BY DEF Retransmitted
      <4>2. k <= newest
        BY <1>1, <2>3, <4>1, RetransmittedBehind
      <4>3. k \in Int /\ start <= k /\ k <= sent
        BY <1>0 DEF Types
      <4> QED
        BY <4>1, <4>2, <4>3
    <3>2. source \in Nat /\ newest \in Nat /\ recv.ssrc \in Nat
      BY <1>0, Bounds DEF Types
    <3>3. ASSUME NEW q \in net'
          PROVE  /\ q.src <= source
                 /\ q.rtx => q.src <= recv.ssrc
                 /\ q.src = source => start <= q.n /\ q.n <= sent
                 /\ q.src = recv.ssrc => q.n <= newest + MaxAhead
                 /\ q.src = recv.ssrc /\ q.rtx => q.n <= newest
      <4>1. CASE q \in net
        BY <1>0, <4>1 DEF Senders
      <4>2. CASE q \notin net
        <5>1. q.src = source /\ recv.ssrc = source /\ start <= q.n /\ q.n <= sent /\ q.n <= newest
          BY <2>3, <3>1, <4>2
        <5>2. q.n \in Int
          <6>1. q \in Retransmitted(GetNacks(losts'))
            BY <2>3, <4>2
          <6>2. q \in Packet
            BY <1>0, <6>1, RetransmittedTypes
          <6> QED
            BY <6>2 DEF Packet
        <5> QED
          BY <3>2, <5>1, <5>2, Bounds
      <4> QED
        BY <4>1, <4>2
    <3>4. ASSUME NEW q \in net', NEW o \in net', q.src = o.src, recv.ssrc < q.src
          PROVE  o.n <= q.n + MaxAhead
      <4>1. q \in net /\ o \in net
        BY <2>3, <3>1, <3>2, <3>4
      <4> QED
        BY <1>0, <3>4, <4>1 DEF Senders
    <3> QED
      BY <1>0, <2>1, <3>3, <3>4 DEF Senders
  <2> QED
    BY <1>1, <2>2, <2>3 DEF AddPacketMark
<1>2. CASE AddPacketLocate \/ AddToBuffer
  <2>1. UNCHANGED <<env, newest>> /\ recv'.ssrc = recv.ssrc
    BY <1>0, <1>2 DEF AddPacketLocate, AddToBuffer, stream, Types
  <2> QED
    BY <1>0, <2>1 DEF Senders, env
<1>3. CASE Bystander
  <2>1. UNCHANGED <<env, recv, newest>>
    BY <1>3, BystanderFrame DEF stream
  <2> QED
    BY <1>0, <2>1 DEF Senders, env
<1> QED
  BY <1>1, <1>2, <1>3, StepCases, SendersEnvironment, SendersReceive DEF Reader
-----------------------------------------------------------------------------
(* Numbers: the extended numbers follow the sender.                        *)

LEMMA NumbersReceive ==
    ASSUME IInv, NEW p \in net, Receive(p)
    PROVE  Numbers'
<1>1. /\ p.n \in Nat /\ p.src \in Nat /\ newest \in Nat /\ origin \in Nat
      /\ recv.extSeq \in Nat /\ rd.at = "idle"
  BY DEF IInv, Types, Packet, Receive
<1>2. CASE ~p.rtx /\ p.src # recv.ssrc
  <2> DEFINE o == p.n - (p.n % M)
  <2>1. /\ recv' = [ssrc |-> p.src, cycles |-> 0, extSeq |-> 0]
        /\ rd' = [at |-> "locate", p |-> p, ext |-> p.n % M, pos |-> 0, lost |-> 0]
        /\ newest' = p.n /\ origin' = o /\ origin' \in Nat /\ origin' % M = 0 /\ p.n % M \in Nat
    BY <1>2, ReceiveNew
  <2>2. o % M = 0 /\ o + 0 * M = p.n - (p.n % M) /\ o + 0 <= p.n /\ p.n = o + (p.n % M)
    <3>1. o \in Nat /\ o % M = 0
      BY <2>1
    <3>2. 0 * M = 0
      BY Bounds
    <3>3. o + 0 = o /\ o <= p.n /\ p.n = o + (p.n % M)
      BY <1>1, <2>1, <3>1
    <3> QED
      BY <3>1, <3>2, <3>3
  <2>3. /\ recv'.ssrc = p.src /\ recv'.cycles = 0 /\ recv'.extSeq = 0
        /\ rd'.at = "locate" /\ rd'.p = p /\ rd'.ext = p.n % M
    BY <2>1
  <2>4. p.n <= p.n /\ p.n <= p.n + MaxBehind
    BY <1>1, Bounds
  <2> HIDE DEF o
  <2> QED
    BY <1>2, <2>1, <2>2, <2>3, <2>4 DEF Numbers
<1>3. CASE ~(~p.rtx /\ p.src # recv.ssrc)
  <2> DEFINE nn == IF newest <= p.n THEN p.n ELSE newest
  <2>1. /\ p.src = recv.ssrc /\ newest <= p.n + MaxBehind /\ (p.rtx => p.n <= newest)
        /\ rd' = [at |-> "locate", p |-> p, ext |-> p.n - origin, pos |-> 0, lost |-> 0]
        /\ recv'.ssrc = recv.ssrc /\ recv'.extSeq = recv.extSeq
        /\ newest' = nn /\ origin' = origin
        /\ origin + recv'.cycles * M = newest' - (newest' % M)
    BY <1>3, ReceiveSame
  <2>2. origin % M = 0 /\ origin + recv.extSeq = newest
    BY <1>1 DEF IInv, Numbers
  <2>3. rd'.at = "locate" /\ rd'.p = p /\ rd'.ext = p.n - origin
    BY <2>1
  <2>4. /\ origin + recv.extSeq <= nn /\ p.n <= nn /\ nn <= p.n + MaxBehind
        /\ (~p.rtx /\ p.n = nn) \/ origin + recv.extSeq = nn
    BY <1>1, <2>1, <2>2, Bounds
  <2>5. p.n = origin + (p.n - origin)
    BY <1>1
  <2> HIDE DEF nn
  <2> QED
    BY <2>1, <2>2, <2>3, <2>4, <2>5 DEF Numbers
<1> QED
  BY <1>2, <1>3

LEMMA NumbersStep ==
    ASSUME IInv, Next
    PROVE  Numbers'
<1>1. CASE Environment
  BY <1>1, EnvironmentFrame DEF IInv, Numbers, stream
<1>2. CASE Bystander
  BY <1>2, BystanderFrame DEF IInv, Numbers, stream
<1>3. CASE AddPacketLocate \/ AddPacketMark
  <2>1. UNCHANGED <<recv, newest, origin>>
    BY <1>3 DEF AddPacketLocate, AddPacketMark, stream
  <2>2. rd.at # "idle" /\ rd'.at # "idle" /\ rd'.p = rd.p /\ rd'.ext = rd.ext
    BY <1>3 DEF AddPacketLocate, AddPacketMark, IInv, Types
  <2> QED
    BY <2>1, <2>2 DEF IInv, Numbers
<1>4. CASE AddToBuffer
  <2>1. UNCHANGED <<newest, origin>> /\ rd'.at = "idle" /\ rd.at = "add"
    BY <1>4 DEF AddToBuffer, stream, Idle
  <2>2. recv'.cycles = recv.cycles
    BY <1>4 DEF AddToBuffer, IInv, Types
  <2>3. recv'.extSeq = IF ~rd.p.rtx /\ rd.ext > recv.extSeq THEN rd.ext ELSE recv.extSeq
    BY <1>4 DEF AddToBuffer, IInv, Types
  <2>4. /\ rd.p.n = origin + rd.ext /\ rd.p.n <= newest /\ origin + recv.extSeq <= newest
        /\ (~rd.p.rtx /\ rd.p.n = newest) \/ origin + recv.extSeq = newest
    BY <2>1 DEF IInv, Numbers
  <2>5. rd.ext \in Nat /\ recv.extSeq \in Nat /\ origin \in Nat /\ newest \in Nat
    BY DEF IInv, Types
  <2> DEFINE x == IF ~rd.p.rtx /\ rd.ext > recv.extSeq THEN rd.ext ELSE recv.extSeq
  <2>6. origin + x = newest /\ origin + x <= newest
    BY <2>4, <2>5
  <2>7. recv'.extSeq = x
    BY <2>3
  <2> HIDE DEF x
  <2>8. origin % M = 0 /\ origin + recv.cycles * M = newest - (newest % M)
    BY DEF IInv, Numbers
  <2> QED
    BY <2>1, <2>2, <2>6, <2>7, <2>8 DEF Numbers
<1> QED
  BY <1>1, <1>2, <1>3, <1>4, StepCases, NumbersReceive DEF Reader

-----------------------------------------------------------------------------
(* The jitter buffer.                                                      *)

\* The packet that Wait takes is the first one.
LEMMA FirstIsLeast ==
    ASSUME Types, packets # {}
    PROVE  First \in packets /\ \A o \in packets : First.ext <= o.ext
<1> DEFINE T == {q.ext : q \in packets}
<1>1. T \subseteq Nat /\ T # {}
  BY DEF Types
<1>2. PICK x \in T : \A y \in T : x <= y
  BY <1>1, Least
<1>3. PICK q \in packets : x = q.ext
  BY <1>2
<1>4. \A o \in packets : q.ext <= o.ext
  BY <1>2, <1>3
<1> QED
  BY <1>4 DEF First

LEMMA BufferedTake ==
    ASSUME IInv, NEW q \in packets, Take(q)
    PROVE  Buffered'
<1>1. UNCHANGED <<recv, newest, origin>>
  BY DEF Take, stream
<1>2. packets' = packets \ {q} /\ next' = q.ext + 1 /\ prev' = q.p
  BY DEF Take
<1>3. \A o \in packets : q.ext <= o.ext
  BY FirstIsLeast DEF IInv, Take
<1>4. /\ q.p.src = recv.ssrc /\ q.p.n = origin + q.ext /\ q.p.n <= newest
      /\ q.ext \in Nat /\ origin \in Nat /\ newest \in Nat
  BY DEF IInv, Buffered, Types
<1>5. ASSUME NEW o \in packets'
      PROVE  /\ o.p.src = recv.ssrc
             /\ o.p.n = origin + o.ext /\ o.p.n <= newest
             /\ q.ext + 1 <= o.ext
  <2>1. o \in packets /\ o # q
    BY <1>2
  <2>2. o.ext # q.ext
    BY <2>1 DEF IInv, Buffered
  <2>3. q.ext <= o.ext /\ o.ext \in Nat
    BY <1>3, <2>1 DEF IInv, Types
  <2>4. q.ext + 1 <= o.ext
    BY <1>4, <2>2, <2>3
  <2> QED
    BY <2>1, <2>4 DEF IInv, Buffered
<1>6. origin + (q.ext + 1) <= newest + 1
  BY <1>4
<1>7. q.ext + 1 = q.p.n - origin + 1 /\ q.ext + 1 # None
  BY <1>4 DEF None
<1>8. \A o, r \in packets' : o.ext = r.ext => o = r
  BY <1>2 DEF IInv, Buffered
<1> QED
  BY <1>1, <1>2, <1>4, <1>5, <1>6, <1>7, <1>8 DEF Buffered

LEMMA BufferedStep ==
    ASSUME IInv, Next
    PROVE  Buffered'
<1>1. ASSUME packets' = {}, next' = None, prev' = NoPacket
      PROVE  Buffered'
  BY <1>1 DEF Buffered
<1>2. ASSUME UNCHANGED <<packets, next, prev, newest, origin>>, recv'.ssrc = recv.ssrc
      PROVE  Buffered'
  BY <1>2 DEF IInv, Buffered
<1>3. CASE Environment
  BY <1>2, <1>3, EnvironmentFrame DEF buffer, stream
<1>4. ASSUME NEW p \in net, Receive(p)
      PROVE  Buffered'
  <2>1. CASE ~p.rtx /\ p.src # recv.ssrc
    BY <1>1, <1>4, <2>1, ReceiveNew
  <2>2. CASE ~(~p.rtx /\ p.src # recv.ssrc)
    <3> DEFINE nn == IF newest <= p.n THEN p.n ELSE newest
    <3>1. /\ recv'.ssrc = recv.ssrc /\ origin' = origin /\ newest' = nn
          /\ UNCHANGED <<packets, next, prev>>
      BY <1>4, <2>2, ReceiveSame DEF buffer
    <3>2. newest \in Nat /\ nn \in Nat /\ newest <= nn /\ origin \in Nat
      BY DEF IInv, Types, Packet
    <3> HIDE DEF nn
    <3>3. ASSUME NEW q \in packets PROVE q.p.n <= nn
      <4>1. q.p.n <= newest /\ q.p.n \in Nat
        BY DEF IInv, Buffered, Types, Packet
      <4> QED
        BY <3>2, <4>1
    <3>4. next # None => origin + next <= nn + 1
      <4>1. next # None => origin + next <= newest + 1 /\ next \in Nat
        BY DEF IInv, Buffered, Types
      <4> QED
        BY <3>2, <4>1
    <3> QED
      BY <3>1, <3>3, <3>4 DEF IInv, Buffered
  <2> QED
    BY <2>1, <2>2
<1>5. CASE AddPacketLocate \/ AddPacketMark
  BY <1>2, <1>5 DEF AddPacketLocate, AddPacketMark, buffer, stream
<1>6. CASE AddToBuffer
  <2>1. UNCHANGED <<next, prev, newest, origin>> /\ recv'.ssrc = recv.ssrc /\ rd.at = "add"
    BY <1>6 DEF AddToBuffer, stream, IInv, Types
  <2>2. CASE Refuses(rd.ext)
    BY <1>2, <1>6, <2>1, <2>2 DEF AddToBuffer
  <2>3. CASE ~Refuses(rd.ext)
    <3> DEFINE new == [ext |-> rd.ext, p |-> rd.p]
    <3>1. packets' = packets \cup {new}
      BY <1>6, <2>3 DEF AddToBuffer
    <3>2. new.ext = rd.ext /\ new.p = rd.p
      OBVIOUS
    <3> HIDE DEF new
    <3>3. /\ rd.p.src = recv.ssrc /\ rd.p.n = origin + rd.ext /\ rd.p.n <= newest
          /\ rd.ext \in Nat
      BY <2>1 DEF IInv, Numbers, Types
    <3>4. next # None => next <= rd.ext
      BY <2>3, <3>3 DEF Refuses, IInv, Types
    <3>5. \A q \in packets : q.ext # rd.ext
      BY <2>3 DEF Refuses
    <3>6. ASSUME NEW q \in packets'
          PROVE  /\ q.p.src = recv.ssrc
                 /\ q.p.n = origin + q.ext /\ q.p.n <= newest
                 /\ next # None => next <= q.ext
      <4>1. CASE q \in packets
        BY <4>1 DEF IInv, Buffered
      <4>2. CASE q = new
        BY <3>2, <3>3, <3>4, <4>2
      <4> QED
        BY <3>1, <4>1, <4>2
    <3>7. \A q, o \in packets' : q.ext = o.ext => q = o
      BY <3>1, <3>2, <3>5 DEF IInv, Buffered
    <3> QED
      BY <2>1, <3>6, <3>7 DEF IInv, Buffered
  <2> QED
    BY <2>2, <2>3
<1>7. CASE WaitExpected \/ WaitExpired
  BY <1>7, BufferedTake DEF WaitExpected, WaitExpired
<1>8. CASE RequestFPU
  BY <1>1, <1>8 DEF RequestFPU, ResetPackets
<1>9. CASE Bystander /\ ~WaitExpected /\ ~WaitExpired /\ ~RequestFPU
  <2>1. UNCHANGED <<recv, newest, origin>>
    BY <1>9, BystanderFrame DEF stream
  <2>2. UNCHANGED <<packets, next, prev>>
    BY <1>9 DEF Bystander, SetRTT, Decoder, RecVideo, WaitCancelled, WaitSleep, ResetLosts,
                StartReceiving, StopReceiving, Call, CancelGetPacket, Join, buffer
  <2> QED
    BY <1>2, <2>1, <2>2
<1> QED
  BY <1>3, <1>4, <1>5, <1>6, <1>7, <1>8, <1>9, StepCases DEF Reader
-----------------------------------------------------------------------------
(* The decoder that is being stopped.                                      *)

LEMMA WakeupStep ==
    ASSUME IInv, Next
    PROVE  Wakeup'
<1>0. Types /\ Wakeup
  BY DEF IInv
<1>1. CASE Environment
  BY <1>0, <1>1, EnvironmentFrame DEF Wakeup, buffer, control
<1>2. ASSUME NEW p \in net, Receive(p)
      PROVE  Wakeup'
  <2>1. UNCHANGED <<receiving, ctl>> /\ rd.at = "idle"
    BY <1>2 DEF Receive, control
  <2>2. CASE ~p.rtx /\ p.src # recv.ssrc
    <3>1. /\ packets' = {} /\ next' = None /\ dec' = Signal(dec)
          /\ rd' = [at |-> "locate", p |-> p, ext |-> p.n % M, pos |-> 0, lost |-> 0]
      BY <1>2, <2>2, ReceiveNew
    <3>2. rd'.at # "idle"
      BY <3>1
    <3> QED
      BY <1>0, <2>1, <3>1, <3>2 DEF Wakeup
  <2>3. CASE ~(~p.rtx /\ p.src # recv.ssrc)
    <3>1. /\ UNCHANGED <<packets, next, cancel, dec>>
          /\ rd' = [at |-> "locate", p |-> p, ext |-> p.n - origin, pos |-> 0, lost |-> 0]
      BY <1>2, <2>3, ReceiveSame DEF buffer
    <3> QED
      BY <1>0, <2>1, <3>1 DEF Wakeup
  <2> QED
    BY <2>2, <2>3
<1>3. CASE AddPacketLocate \/ AddPacketMark
  <2>1. UNCHANGED <<packets, next, cancel, dec, receiving, ctl>>
    BY <1>3 DEF AddPacketLocate, AddPacketMark, buffer, control
  <2>2. rd.at # "idle" /\ rd'.at # "idle"
    BY <1>0, <1>3 DEF AddPacketLocate, AddPacketMark, Types
  <2> QED
    BY <1>0, <2>1, <2>2 DEF Wakeup
<1>4. CASE AddToBuffer
  <2>1. UNCHANGED <<next, cancel, receiving, ctl>>
    BY <1>4 DEF AddToBuffer, control
  <2>2. CASE Refuses(rd.ext)
    <3>1. UNCHANGED <<packets, dec>>
      BY <1>4, <2>2 DEF AddToBuffer
    <3>2. next = None => packets # {}
      BY <2>2 DEF Refuses
    <3> QED
      BY <1>0, <2>1, <3>1, <3>2 DEF Wakeup
  <2>3. CASE ~Refuses(rd.ext)
    <3>1. packets' # {} /\ dec' = Signal(dec)
      BY <1>4, <2>3 DEF AddToBuffer
    <3> QED
      BY <1>0, <2>1, <3>1 DEF Wakeup, Signal
  <2> QED
    BY <2>2, <2>3
<1>5. CASE SetRTT
  BY <1>0, <1>5 DEF SetRTT, Wakeup, buffer, control
<1>6. CASE Decoder
  <2>1. UNCHANGED <<rd, receiving, ctl>>
    BY <1>6 DEF Decoder, RecVideo, WaitCancelled, WaitExpected, WaitExpired,
                Take, WaitSleep, RequestFPU, ResetLosts, control
  <2>2. CASE RecVideo
    BY <1>0, <2>1, <2>2 DEF RecVideo, Wakeup
  <2>3. CASE WaitSleep
    BY <1>0, <2>1, <2>3 DEF WaitSleep, Wakeup, buffer
  <2>4. CASE ~RecVideo /\ ~WaitSleep
    <3>1. dec' \notin {"wait", "asleep"}
      BY <1>6, <2>4 DEF Decoder, WaitCancelled, WaitExpected, WaitExpired, Take,
                        RequestFPU, ResetLosts
    <3> QED
      BY <1>0, <2>1, <3>1 DEF Wakeup
  <2> QED
    BY <2>2, <2>3, <2>4
<1>7. ASSUME NEW restart \in BOOLEAN, Call(restart)
      PROVE  Wakeup'
  <2>1. ctl'.at # "join" /\ (ctl'.at # "idle" => receiving' = FALSE)
    BY <1>0, <1>7 DEF Call, Types
  <2> QED
    BY <2>1 DEF Wakeup
<1>8. CASE CancelGetPacket
  <2>1. cancel' = TRUE /\ dec' = Signal(dec) /\ receiving' = receiving /\ ctl.at = "cancel"
    BY <1>8 DEF CancelGetPacket
  <2>2. dec' # "asleep"
    BY <2>1 DEF Signal
  <2> QED
    BY <1>0, <2>1, <2>2 DEF Wakeup
<1>9. CASE Join
  <2>1. ctl'.at = "idle"
    BY <1>9 DEF Join
  <2> QED
    BY <2>1 DEF Wakeup
<1> QED
  BY <1>1, <1>2, <1>3, <1>4, <1>5, <1>6, <1>7, <1>8, <1>9, StepCases
     DEF Reader, Bystander, StartReceiving, StopReceiving
-----------------------------------------------------------------------------
(* The window of lost packets.                                             *)

\* AddPacket, up to the mark: a window that mirrors what arrived, and is near
\* to the packet, still does with the packet's position as the exception.
LEMMA LocateMirrors ==
    ASSUME NEW w \in Window, NEW ext \in Nat, ~IsOld(w, ext),
           NEW base \in Nat, NEW numbers, numbers \subseteq Nat,
           Mirrors(w, numbers, base, None),
           w.first # 0 => ext < w.first + M
    PROVE  LET l == Locate(w, ext)
               v == Reach(l, l.pos)
           IN  /\ Mirrors(v, numbers, base, l.pos)
               /\ v.first + l.pos = ext /\ l.pos < v.len
<1> DEFINE l     == Locate(w, ext)
           v     == Reach(l, l.pos)
           first == IF w.first = 0 THEN ext ELSE w.first
           pos   == (ext - first) % M
           n     == Min({pos + 1 - Size, Size})
           Goal  == /\ Mirrors(v, numbers, base, l.pos)
                    /\ v.first + l.pos = ext /\ l.pos < v.len
<1> SUFFICES Goal
  OBVIOUS
<1> HIDE DEF Goal
<1>1. /\ w.first \in Nat /\ w.len \in Nat /\ w.len <= Size
      /\ w.marked \subseteq 0..(Size - 1) /\ w.first <= ext
  BY Bounds DEF Window, IsOld
<1>2. first \in Nat /\ first <= ext /\ ext < first + M
  BY <1>1, Bounds
<1>3. pos = ext - first
  BY <1>2, Remainder, Bounds
<1>4. /\ w.marked \subseteq 0..(w.len - 1)
      /\ \A i \in 0..(w.len - 1) : i \in w.marked <=> base + w.first + i \in numbers
      /\ \A a \in numbers : a < base + w.first + w.len
      /\ w.first = 0 => w.len <= 1
      /\ w.len = 0 => w.first = 0
  BY <1>1 DEF Mirrors, None
<1>5. CASE ~(pos + 1 > Size)
  <2> DEFINE len == IF w.len - 1 <= pos THEN pos + 1 ELSE w.len
  <2>1. l = [first |-> first, len |-> w.len, pos |-> pos, marked |-> w.marked]
    BY <1>5 DEF Locate
  <2>2. v = [first |-> first, marked |-> w.marked, len |-> len]
    BY <2>1 DEF Reach
  <2> HIDE DEF l, v, pos
  <2>3. l.pos = pos /\ v.first = first /\ v.marked = w.marked /\ v.len = len
    BY <2>1, <2>2
  <2>4. pos \in Nat /\ len \in Nat /\ pos < len /\ w.len <= len /\ first + pos = ext
    <3>1. pos \in Nat /\ first + pos = ext
      <4> HIDE DEF first
      <4> QED
        BY <1>2, <1>3
    <3> HIDE DEF first
    <3> QED
      BY <1>1, <3>1
  <2>5. CASE w.first = 0
    <3>1. first = ext /\ pos = 0 /\ w.len <= 1 /\ len = 1
      BY <1>1, <1>3, <1>4, <2>4, <2>5
    <3> HIDE DEF first, len
    <3>2. w.marked \subseteq 0..(1 - 1)
      BY <1>1, <1>4, <3>1
    <3>3. \A i \in 0..(1 - 1) : i = 0
      OBVIOUS
    <3>4. ASSUME NEW a \in numbers PROVE a < base + ext + 1
      BY <1>1, <1>4, <2>5, <3>1
    <3>5. Mirrors(v, numbers, base, 0)
      BY <2>3, <3>1, <3>2, <3>3, <3>4 DEF Mirrors
    <3> QED
      BY <2>3, <2>4, <3>1, <3>5 DEF Goal
  <2>6. CASE w.first # 0
    <3>1. first = w.first
      BY <2>6
    <3> HIDE DEF first, len
    <3>2. w.marked \subseteq 0..(len - 1)
      BY <1>1, <1>4, <2>4
    <3>3. ASSUME NEW i \in 0..(len - 1)
          PROVE  i \in w.marked <=> base + first + i \in numbers
      <4>1. CASE i < w.len
        <5>1. i \in 0..(w.len - 1)
          BY <1>1, <2>4, <4>1
        <5> QED
          BY <1>4, <3>1, <5>1
      <4>2. CASE ~(i < w.len)
        <5>1. i \notin w.marked
          BY <1>1, <1>4, <2>4, <4>2
        <5>2. ~(base + first + i < base + w.first + w.len)
          BY <1>1, <2>4, <3>1, <4>2
        <5> QED
          BY <1>4, <5>1, <5>2
      <4> QED
        BY <4>1, <4>2
    <3>4. ASSUME NEW a \in numbers PROVE a < base + first + len
      <4>1. a < base + w.first + w.len /\ a \in Nat
        BY <1>4
      <4> QED
        BY <1>1, <2>4, <3>1, <4>1
    <3>5. len # 0 /\ first # 0
      BY <2>4, <2>6, <3>1
    <3>6. Mirrors(v, numbers, base, pos)
      BY <2>3, <3>2, <3>3, <3>4, <3>5 DEF Mirrors
    <3> QED
      BY <2>3, <2>4, <3>6 DEF Goal
  <2> QED
    BY <2>5, <2>6
<1>6. CASE pos + 1 > Size
  <2> DEFINE moved == {i - n : i \in {j \in w.marked : j >= n}}
             f == ext - Size + 1
  <2>1. l = [first |-> f, len |-> Size, pos |-> Size - 1, marked |-> moved]
    BY <1>6 DEF Locate
  <2>2. v = [first |-> f, marked |-> moved, len |-> IF Size - 1 <= Size - 1 THEN Size - 1 + 1 ELSE Size]
    BY <2>1 DEF Reach
  <2>3. n = IF pos + 1 - Size <= Size THEN pos + 1 - Size ELSE Size
    BY <1>2, <1>3, MinOfTwo, Bounds
  <2>4. (IF Size - 1 <= Size - 1 THEN Size - 1 + 1 ELSE Size) = Size
    BY Bounds
  <2> HIDE DEF l, v, pos, n, moved
  <2>5. l.pos = Size - 1 /\ v.first = f /\ v.marked = moved /\ v.len = Size
    BY <2>1, <2>2, <2>4
  <2>6. w.first # 0
    BY <1>2, <1>3, <1>6, Bounds
  <2>7. first = w.first /\ pos \in Nat
    BY <1>2, <1>3, <2>6
  <2> HIDE DEF first
  <2>8. n \in Nat /\ n <= Size /\ n <= pos + 1 - Size /\ (n # pos + 1 - Size => n = Size)
    BY <1>6, <2>3, <2>7, Bounds
  <2>9. f = w.first + (pos + 1 - Size) /\ f \in Nat /\ f # 0 /\ w.first < f
    BY <1>1, <1>2, <1>3, <1>6, <2>6, <2>7, Bounds
  <2>10. f + (Size - 1) = ext
    BY Bounds
  <2> HIDE DEF f
  <2>11. moved \subseteq 0..(Size - 1)
    <3> SUFFICES ASSUME NEW i \in w.marked, i >= n PROVE i - n \in 0..(Size - 1)
      BY DEF moved
    <3> QED
      BY <1>1, <2>8, Bounds
  <2>12. ASSUME NEW i \in 0..(Size - 1)
         PROVE  i \in moved <=> base + f + i \in numbers
    <3>1. i \in moved <=> i + n \in w.marked
      <4>1. ASSUME i \in moved PROVE i + n \in w.marked
        <5>1. PICK j \in w.marked : i = j - n
          BY <4>1 DEF moved
        <5>2. j = i + n
          BY <1>1, <2>8, <5>1, Bounds
        <5> QED
          BY <5>2
      <4>2. ASSUME i + n \in w.marked PROVE i \in moved
        <5>1. i + n >= n /\ i = (i + n) - n
          BY <2>8, Bounds
        <5> QED
          BY <4>2, <5>1 DEF moved
      <4> QED
        BY <4>1, <4>2
    <3>2. CASE i + n < w.len
      <4>1. n = pos + 1 - Size
        BY <1>1, <2>8, <3>2, Bounds
      <4>2. base + f + i = base + w.first + (i + n) /\ i + n \in 0..(w.len - 1)
        BY <1>1, <2>7, <2>8, <2>9, <3>2, <4>1, Bounds
      <4> QED
        BY <1>4, <3>1, <4>2
    <3>3. CASE ~(i + n < w.len)
      <4>1. i + n \notin w.marked
        BY <1>1, <1>4, <2>8, <3>3, Bounds
      <4>2. ~(base + f + i < base + w.first + w.len)
        BY <1>1, <2>7, <2>8, <2>9, <3>3, Bounds
      <4> QED
        BY <1>4, <3>1, <4>1, <4>2
    <3> QED
      BY <3>2, <3>3
  <2>13. ASSUME NEW a \in numbers PROVE a < base + f + Size
    <3>1. a < base + w.first + w.len /\ a \in Nat
      BY <1>4
    <3> QED
      BY <1>1, <2>9, <3>1, Bounds
  <2>14. Mirrors(v, numbers, base, Size - 1)
    <3>1. Size # 0
      BY Bounds
    <3> QED
      BY <2>5, <2>9, <2>11, <2>12, <2>13, <3>1 DEF Mirrors
  <2>15. Size - 1 < Size
    BY Bounds
  <2> QED
    BY <2>5, <2>10, <2>14, <2>15 DEF Goal
<1> QED
  BY <1>5, <1>6
LEMMA WindowedReceive ==
    ASSUME IInv, NEW p \in net, Receive(p)
    PROVE  Windowed'
<1>0. Types /\ Numbers /\ Windowed
  BY DEF IInv
<1>1. UNCHANGED <<losts, torn, nackEnabled>> /\ rd.at = "idle"
  BY DEF Receive
<1>2. CASE ~p.rtx /\ p.src # recv.ssrc
  <2>1. /\ arrived' = {} /\ foreign' = (losts # Empty)
        /\ rd' = [at |-> "locate", p |-> p, ext |-> p.n % M, pos |-> 0, lost |-> 0]
    BY <1>2, ReceiveNew
  <2>2. rd'.at = "locate"
    BY <2>1
  <2>3. ASSUME losts = Empty PROVE Mirror' /\ Near'
    <3>1. losts'.first = 0 /\ losts'.len = 0 /\ losts'.marked = {}
      BY <1>1, <2>3 DEF Empty
    <3>2. Mirror'
      BY <2>1, <3>1 DEF Mirror, Mirrors
    <3> QED
      BY <2>2, <3>1, <3>2 DEF Near
  <2> QED
    BY <2>1, <2>2, <2>3 DEF Windowed
<1>3. CASE ~(~p.rtx /\ p.src # recv.ssrc)
  <2> DEFINE nn == IF newest <= p.n THEN p.n ELSE newest
  <2>1. /\ p.n <= newest + MaxAhead
        /\ rd' = [at |-> "locate", p |-> p, ext |-> p.n - origin, pos |-> 0, lost |-> 0]
        /\ newest' = nn /\ origin' = origin /\ UNCHANGED <<arrived, foreign>>
    BY <1>3, ReceiveSame
  <2>2. rd'.at = "locate" /\ rd'.p = p /\ rd'.ext = p.n - origin
    BY <2>1
  <2>3. ASSUME Mirror, Near PROVE Mirror' /\ Near'
    <3>1. Mirrors(losts, arrived, origin, None)
      BY <1>1, <2>3 DEF Mirror
    <3>2. Mirror'
      BY <1>1, <2>1, <2>2, <3>1 DEF Mirror
    <3>3. /\ p.n \in Nat /\ newest \in Nat /\ origin \in Nat
          /\ losts.first \in Nat /\ losts.len \in Nat /\ losts.len <= Size
      BY <1>0, Bounds DEF Types, Packet, Window
    <3>4. losts.len # 0 => newest < origin + losts.first + losts.len + MaxBehind
      BY <1>1, <2>3 DEF Near
    <3>5. losts.first # 0 => p.n - origin < losts.first + M
      <4> SUFFICES ASSUME losts.first # 0 PROVE p.n - origin < losts.first + M
        OBVIOUS
      <4>1. losts.len # 0
        BY <2>3 DEF Mirror, Mirrors
      <4>2. newest < origin + losts.first + losts.len + MaxBehind
        BY <3>4, <4>1
      <4> QED
        BY <2>1, <3>3, <4>2, Bounds
    <3>6. losts.len # 0 /\ p.n # nn => nn < origin + losts.first + losts.len + MaxBehind
      BY <3>3, <3>4
    <3> HIDE DEF nn
    <3> QED
      BY <1>1, <2>1, <2>2, <3>2, <3>5, <3>6 DEF Near
  <2> QED
    BY <1>0, <1>1, <2>1, <2>2, <2>3 DEF Windowed
<1> QED
  BY <1>2, <1>3

LEMMA WindowedLocate ==
    ASSUME IInv, AddPacketLocate
    PROVE  Windowed'
<1>0. Types /\ Numbers /\ Windowed
  BY DEF IInv
<1>1. rd.at = "locate" /\ UNCHANGED <<arrived, torn, foreign, nackEnabled, newest, origin>>
  BY DEF AddPacketLocate, stream
<1>2. /\ rd.p.n = origin + rd.ext /\ newest <= rd.p.n + MaxBehind /\ rd.p.n <= newest
      /\ losts \in Window /\ rd.ext \in Nat /\ origin \in Nat /\ newest \in Nat /\ arrived \subseteq Nat
  BY <1>0, <1>1 DEF Types, Numbers
<1>3. CASE IsOld(losts, rd.ext)
  <2>1. losts' = losts /\ rd' = [rd EXCEPT !.at = "add"]
    BY <1>3 DEF AddPacketLocate
  <2>2. rd'.at = "add"
    BY <1>0, <2>1 DEF Types
  <2>3. ASSUME Mirror, Near PROVE Mirror' /\ Near'
    <3>1. Mirrors(losts, arrived, origin, None)
      BY <1>1, <2>3 DEF Mirror
    <3>2. Mirror'
      BY <1>1, <2>1, <2>2, <3>1 DEF Mirror
    <3>3. newest < origin + losts.first + losts.len + MaxBehind
      <4>1. losts.first \in Nat /\ losts.len \in Nat /\ rd.ext < losts.first
        BY <1>2, <1>3, Bounds DEF Window, IsOld
      <4> QED
        BY <1>2, <4>1, Bounds
    <3> QED
      BY <1>1, <2>1, <2>2, <3>2, <3>3 DEF Near
  <2> QED
    BY <1>0, <1>1, <2>2, <2>3 DEF Windowed
<1>4. CASE ~IsOld(losts, rd.ext)
  <2> DEFINE l == Locate(losts, rd.ext)
             v == Reach(l, l.pos)
  <2>1. /\ losts' = v
        /\ rd' = [rd EXCEPT !.at = "mark", !.pos = l.pos, !.lost = LostBelow(l, l.pos)]
    BY <1>4 DEF AddPacketLocate
  <2>2. (l.first + l.pos) % M = rd.ext % M
    BY <1>2, <1>4, LocateTypes
  <2>3. v \in Window /\ (LostBelow(l, l.pos) > 0 => v.len = l.pos + 1)
    BY <1>2, <1>4, ReachTypes
  <2>4. v.first = l.first
    BY DEF Reach
  <2>5. ASSUME Mirror, Near
        PROVE  /\ Mirrors(v, arrived, origin, l.pos)
               /\ v.first + l.pos = rd.ext /\ l.pos < v.len
    <3>1. Mirrors(losts, arrived, origin, None)
      BY <1>1, <2>5 DEF Mirror
    <3>2. losts.first # 0 => rd.ext < losts.first + M
      BY <1>1, <2>5 DEF Near
    <3> QED
      BY <1>2, <1>4, <3>1, <3>2, LocateMirrors
  <2>6. l.pos \in Nat
    BY <1>2, <1>4, LocateTypes, Bounds
  <2> HIDE DEF l, v
  <2>7. /\ rd'.at = "mark" /\ rd'.pos = l.pos /\ rd'.lost = LostBelow(l, l.pos)
        /\ rd'.ext = rd.ext /\ rd'.p = rd.p
    BY <1>0, <2>1 DEF Types
  <2>8. ASSUME Mirror, Near PROVE Mirror' /\ Near'
    <3>1. Mirror'
      BY <1>1, <2>1, <2>5, <2>7, <2>8 DEF Mirror
    <3>2. newest < origin + v.first + v.len + MaxBehind
      <4>1. v.first \in Nat /\ v.len \in Nat /\ v.first + l.pos = rd.ext /\ l.pos < v.len
        BY <2>3, <2>5, <2>8, Bounds DEF Window
      <4> QED
        BY <1>2, <2>6, <4>1, Bounds
    <3> QED
      BY <1>1, <2>1, <2>5, <2>7, <2>8, <3>1, <3>2 DEF Near
  <2> QED
    BY <1>0, <1>1, <2>1, <2>2, <2>3, <2>4, <2>7, <2>8 DEF Windowed
<1> QED
  BY <1>3, <1>4

LEMMA WindowedMark ==
    ASSUME IInv, AddPacketMark
    PROVE  Windowed'
<1>0. Types /\ Numbers /\ Windowed
  BY DEF IInv
<1>1. rd.at = "mark" /\ UNCHANGED <<torn, foreign, nackEnabled, newest, origin>>
  BY DEF AddPacketMark, stream
<1>2. /\ losts' = [losts EXCEPT !.marked = @ \cup {rd.pos}]
      /\ arrived' = arrived \cup {rd.p.n} /\ rd' = [rd EXCEPT !.at = "add"]
  BY DEF AddPacketMark, Mark
<1>3. /\ losts'.first = losts.first /\ losts'.len = losts.len
      /\ losts'.marked = losts.marked \cup {rd.pos} /\ rd'.at = "add"
  BY <1>0, <1>2 DEF Types, Window
<1>4. /\ rd.p.n = origin + rd.ext /\ rd.ext \in Nat /\ origin \in Nat /\ rd.pos \in Nat
      /\ losts.first \in Nat /\ losts.len \in Nat
  BY <1>0, <1>1, Bounds DEF Types, Numbers, Window
<1>5. ASSUME Mirror, Near PROVE Mirror' /\ Near'
  <2>1. Mirrors(losts, arrived, origin, rd.pos)
    BY <1>1, <1>5 DEF Mirror
  <2>2. losts.first + rd.pos = rd.ext /\ rd.pos < losts.len
    BY <1>1, <1>5 DEF Near
  <2>3. rd.p.n = origin + losts.first + rd.pos
    BY <1>4, <2>2
  <2>4. losts.marked \cup {rd.pos} \subseteq 0..(losts.len - 1)
    BY <1>4, <2>1, <2>2 DEF Mirrors
  <2>5. ASSUME NEW i \in 0..(losts.len - 1)
        PROVE  i \in losts.marked \cup {rd.pos} <=> origin + losts.first + i \in arrived \cup {rd.p.n}
    <3>1. CASE i = rd.pos
      BY <2>3, <3>1
    <3>2. CASE i # rd.pos
      <4>1. origin + losts.first + i # rd.p.n
        BY <1>4, <2>3, <3>2
      <4>2. i \in losts.marked <=> origin + losts.first + i \in arrived
        BY <2>1, <3>2 DEF Mirrors
      <4> QED
        BY <3>2, <4>1, <4>2
    <3> QED
      BY <3>1, <3>2
  <2>6. ASSUME NEW a \in arrived \cup {rd.p.n} PROVE a < origin + losts.first + losts.len
    <3>1. CASE a \in arrived
      BY <2>1, <3>1 DEF Mirrors
    <3>2. CASE a = rd.p.n
      BY <1>4, <2>2, <2>3, <3>2
    <3> QED
      BY <3>1, <3>2
  <2>7. (losts.first = 0 => losts.len <= 1) /\ (losts.len = 0 => losts.first = 0)
    BY <2>1 DEF Mirrors
  <2>8. Mirror'
    BY <1>1, <1>2, <1>3, <2>4, <2>5, <2>6, <2>7 DEF Mirror, Mirrors
  <2>9. Near'
    BY <1>1, <1>3, <1>5 DEF Near
  <2> QED
    BY <2>8, <2>9
<1> QED
  BY <1>0, <1>1, <1>3, <1>5 DEF Windowed

LEMMA WindowedStep ==
    ASSUME IInv, Next
    PROVE  Windowed'
<1>0. Types /\ Windowed
  BY DEF IInv
<1>1. CASE Environment
  BY <1>0, <1>1, EnvironmentFrame DEF Windowed, Mirror, Near, window, stream
<1>2. CASE AddToBuffer
  <2>1. /\ UNCHANGED <<losts, arrived, torn, foreign, nackEnabled, newest, origin>>
        /\ rd.at = "add" /\ rd'.at = "idle"
    BY <1>2 DEF AddToBuffer, window, stream, Idle
  <2> QED
    BY <1>0, <2>1 DEF Windowed, Mirror, Near
<1>3. CASE ResetLosts
  <2>1. /\ torn' = (rd.at = "mark") /\ nackEnabled' = FALSE /\ arrived' = {} /\ rd' = rd
        /\ ~torn' => losts' = [first |-> 0, len |-> 0, marked |-> {}]
    BY <1>3 DEF ResetLosts
  <2>2. ASSUME ~torn' PROVE Mirror' /\ Near'
    <3>0. rd.at # "mark" /\ rd' = rd /\ losts' = [first |-> 0, len |-> 0, marked |-> {}]
      BY <2>1, <2>2, Zenon
    <3>1. rd'.at # "mark" /\ losts'.first = 0 /\ losts'.len = 0 /\ losts'.marked = {}
      BY <3>0
    <3>2. Mirror'
      BY <2>1, <3>1 DEF Mirror, Mirrors
    <3> QED
      BY <3>1, <3>2 DEF Near
  <2> QED
    BY <2>1, <2>2 DEF Windowed
<1>4. CASE SetRTT
  <2>1. UNCHANGED <<losts, arrived, torn, foreign, newest, origin, rd>> /\ rd.at = "idle"
    BY <1>4 DEF SetRTT, window, stream
  <2> QED
    BY <1>0, <2>1 DEF Windowed, Mirror, Near
<1>5. CASE Bystander /\ ~ResetLosts /\ ~SetRTT
  <2>1. UNCHANGED <<rd, newest, origin>>
    BY <1>5, BystanderFrame DEF stream
  <2>2. UNCHANGED <<losts, arrived, torn, foreign, nackEnabled>>
    BY <1>5 DEF Bystander, Decoder, RecVideo, WaitCancelled, WaitExpected, WaitExpired, Take,
                WaitSleep, RequestFPU, StartReceiving, StopReceiving, Call, CancelGetPacket,
                Join, window
  <2> QED
    BY <1>0, <2>1, <2>2 DEF Windowed, Mirror, Near
<1> QED
  BY <1>1, <1>2, <1>3, <1>4, <1>5, StepCases, WindowedReceive, WindowedLocate, WindowedMark
     DEF Reader
-----------------------------------------------------------------------------
(* The theorems.                                                           *)

LEMMA InitIInv ==
    ASSUME Init
    PROVE  IInv
<1>1. Types
  BY InitTypes
<1>2. Senders
  <2>1. /\ source = 1 /\ start \in Starts /\ sent = start - 1 /\ net = {} /\ recv.ssrc = 0
    BY DEF Init
  <2>2. start \in Nat /\ Starts \subseteq Nat
    BY <2>1, Bounds
  <2>3. recv.ssrc <= source /\ recv.ssrc # source /\ start <= sent + 1 /\ sent <= start + MaxAhead
    BY <2>1, <2>2, Bounds
  <2> QED
    BY <2>1, <2>3 DEF Senders
<1>3. Numbers
  <2>1. 0 % M = 0 /\ 0 * M = 0
    BY Remainder, Bounds
  <2>2. /\ origin = 0 /\ newest = 0 /\ recv.cycles = 0 /\ recv.extSeq = 0 /\ rd.at = "idle"
    BY DEF Init, Idle
  <2> QED
    BY <2>1, <2>2 DEF Numbers
<1>4. Buffered
  BY DEF Init, Buffered
<1>5. Wakeup
  BY DEF Init, Wakeup
<1>6. Windowed
  <2>1. losts.first = 0 /\ losts.len = 0 /\ losts.marked = {} /\ arrived = {} /\ rd.at = "idle"
    BY DEF Init, Empty, Idle
  <2>2. Mirror
    BY <2>1 DEF Mirror, Mirrors
  <2> QED
    BY <2>1, <2>2 DEF Windowed, Near
<1> QED
  BY <1>1, <1>2, <1>3, <1>4, <1>5, <1>6 DEF IInv

LEMMA NextIInv ==
    ASSUME IInv, [Next]_vars
    PROVE  IInv'
<1>1. CASE Next
  BY <1>1, TypesStep, SendersStep, NumbersStep, BufferedStep, WakeupStep, WindowedStep DEF IInv
<1>2. CASE UNCHANGED vars
  <2>1. /\ UNCHANGED <<env, recv, rd, window, nackEnabled, buffer, dec, control, stream>>
    BY <1>2 DEF vars
  <2>2. Types' /\ Senders' /\ Numbers'
    BY <2>1 DEF IInv, Types, Senders, Numbers, env, window, buffer, control, stream
  <2>3. Buffered' /\ Wakeup'
    BY <2>1 DEF IInv, Buffered, Wakeup, buffer, control, stream
  <2>4. Windowed'
    BY <2>1 DEF IInv, Windowed, Mirror, Near, window, stream
  <2> QED
    BY <2>2, <2>3, <2>4 DEF IInv
<1> QED
  BY <1>1, <1>2

\* What is received, numbered, buffered and known to be lost stays in step with
\* what the senders send: IInv is an invariant.
THEOREM Reception == Spec => []IInv
<1>1. Init => IInv
  BY InitIInv
<1>2. IInv /\ [Next]_vars => IInv'
  BY NextIInv
<1> QED
  BY <1>1, <1>2, PTL DEF Spec

\* rtpsession.cpp ReadRTP, rtpbuffer.h: for every length of the numbers, and
\* packets that are lost, duplicated, reordered and sent again within the
\* bounds of ReceiveAssumption, extended numbers are the sender's across wraps
\* and new senders, and the buffer does not expect what was not yet received.
THEOREM NumbersCorrect == Spec => []NumbersFollowTheSender
<1>1. IInv => NumbersFollowTheSender
  BY DEF IInv, Numbers, Buffered, NumbersFollowTheSender, ExtSeqIsNewest, NextIsNotAhead
<1> QED
  BY <1>1, Reception, PTL

\* rtpbuffer.h Wait: between two resets the decoder gets the packets of one
\* sender, each once and in the order of their numbers.
THEOREM Delivery == Spec => DeliveredInOrder
<1> DEFINE Delivers == prev # NoPacket /\ prev' # NoPacket /\ prev' # prev =>
                           prev'.src = prev.src /\ prev'.n > prev.n
<1>1. ASSUME IInv, Next PROVE Delivers
  <2>1. ASSUME NEW q \in packets, Take(q) PROVE Delivers
    <3>1. prev' = q.p
      BY <2>1 DEF Take
    <3>2. q.p.src = recv.ssrc /\ q.p.n = origin + q.ext /\ (next # None => next <= q.ext)
      BY <1>1 DEF IInv, Buffered
    <3>3. q.ext \in Nat /\ origin \in Nat /\ prev \in Packet \cup {NoPacket} /\ next \in Nat \cup {None}
      BY <1>1 DEF IInv, Types
    <3>4. ASSUME prev # NoPacket PROVE q.p.src = prev.src /\ q.p.n > prev.n
      <4>1. prev.src = recv.ssrc /\ next = prev.n - origin + 1 /\ next # None
        BY <1>1, <3>4 DEF IInv, Buffered
      <4>2. prev.n \in Nat
        BY <3>3, <3>4 DEF Packet
      <4>3. prev.n - origin + 1 <= q.ext
        BY <3>2, <4>1
      <4> QED
        BY <3>2, <3>3, <4>1, <4>2, <4>3
    <3> QED
      BY <3>1, <3>4
  <2>2. ASSUME NEW p \in net, Receive(p) PROVE Delivers
    <3>1. CASE ~p.rtx /\ p.src # recv.ssrc
      BY <1>1, <2>2, <3>1, ReceiveNew
    <3>2. CASE ~(~p.rtx /\ p.src # recv.ssrc)
      BY <1>1, <2>2, <3>2, ReceiveSame DEF buffer
    <3> QED
      BY <3>1, <3>2
  <2>3. CASE RequestFPU
    BY <2>3 DEF RequestFPU, ResetPackets
  <2>4. CASE Environment
    BY <2>4, EnvironmentFrame DEF buffer
  <2>5. CASE Reader
    BY <2>5 DEF Reader, AddPacketLocate, AddPacketMark, AddToBuffer, buffer
  <2>6. CASE Bystander /\ ~WaitExpected /\ ~WaitExpired /\ ~RequestFPU
    BY <2>6 DEF Bystander, SetRTT, Decoder, RecVideo, WaitCancelled, WaitSleep, ResetLosts,
                StartReceiving, StopReceiving, Call, CancelGetPacket, Join, buffer
  <2> QED
    BY <1>1, <2>1, <2>2, <2>3, <2>4, <2>5, <2>6, StepCases DEF WaitExpected, WaitExpired
<1>2. IInv /\ [Next]_vars => [Delivers]_vars
  BY <1>1
<1> QED
  BY <1>2, Reception, PTL DEF Spec, DeliveredInOrder

\* videostream.cpp StopReceiving: the decoder that it waits for is not asleep,
\* unless the thread of the session is about to wake it, also when a new SSRC
\* has taken the cancellation back.
THEOREM DecoderWoken == Spec => []StoppedDecoderIsWoken
<1>1. IInv => StoppedDecoderIsWoken
  BY DEF IInv, Wakeup, StoppedDecoderIsWoken, Refuses
<1> QED
  BY <1>1, Reception, PTL

\* rtp.cpp RTPLostPackets: unless a reset tore it or it is about a former
\* sender, the window holds what arrived and its NACKs request what did not,
\* but for number 0.
THEOREM LossesCorrect == Spec => []LossesAreKnown
<1>1. ASSUME IInv PROVE TypeOK
  BY <1>1 DEF IInv, Types, TypeOK, Window
<1>2. ASSUME IInv, Sound PROVE Mirrors(losts, arrived, origin, None)
  BY <1>2 DEF IInv, Windowed, Mirror, Sound
<1>3. ASSUME IInv PROVE WindowMirrorsArrivals
  <2> SUFFICES ASSUME Sound, NEW i \in 0..(losts.len - 1)
               PROVE  i \in losts.marked <=> origin + losts.first + i \in arrived
    BY DEF WindowMirrorsArrivals
  <2>1. i # None
    BY <1>3, Bounds DEF None, IInv, Types, Window
  <2> QED
    BY <1>2, <1>3, <2>1 DEF Mirrors
<1>4. ASSUME IInv, Sound
      PROVE  MissingBelow(losts, losts.len) =
                 {n % M : n \in (origin + losts.first)..(origin + losts.first + losts.len - 1) \ arrived}
  <2> DEFINE N == (origin + losts.first)..(origin + losts.first + losts.len - 1)
  <2>1. /\ losts.first \in Nat /\ losts.len \in Nat /\ origin \in Nat
        /\ origin % M = 0
    BY <1>4, Bounds DEF IInv, Types, Window, Numbers
  <2>2. \A i \in 0..(losts.len - 1) : i \in losts.marked <=> origin + losts.first + i \in arrived
    BY <1>3, <1>4 DEF WindowMirrorsArrivals
  <2>3. ASSUME NEW i \in Int
        PROVE  (losts.first + i) % M = (origin + losts.first + i) % M
    <3> DEFINE e == losts.first + i
    <3>1. e \in Int /\ origin + losts.first + i = origin + e
      BY <2>1
    <3> HIDE DEF e
    <3>2. (origin + e) % M = e % M
      BY <2>1, <3>1, AddZeroRemainder
    <3> QED
      BY <3>1, <3>2 DEF e
  <2>4. ASSUME NEW x \in MissingBelow(losts, losts.len) PROVE x \in {n % M : n \in N \ arrived}
    <3>1. PICK i \in 0..(losts.len - 1) : i \notin losts.marked /\ x = (losts.first + i) % M
      BY DEF MissingBelow
    <3>2. origin + losts.first + i \in N /\ origin + losts.first + i \notin arrived
      BY <2>1, <2>2, <3>1
    <3>3. x = (origin + losts.first + i) % M
      BY <2>1, <2>3, <3>1
    <3> QED
      BY <3>2, <3>3
  <2>5. ASSUME NEW n \in N, n \notin arrived PROVE n % M \in MissingBelow(losts, losts.len)
    <3> DEFINE i == n - (origin + losts.first)
    <3>1. i \in 0..(losts.len - 1) /\ n = origin + losts.first + i
      BY <2>1
    <3> HIDE DEF i
    <3>2. i \notin losts.marked
      BY <2>2, <2>5, <3>1
    <3>3. n % M = (losts.first + i) % M
      BY <2>3, <3>1
    <3> QED
      BY <3>1, <3>2, <3>3 DEF MissingBelow
  <2> QED
    BY <2>4, <2>5
<1>5. ASSUME IInv PROVE NacksAreTheMissing
  <2>1. losts \in Window
    BY <1>5 DEF IInv, Types
  <2> QED
    BY <1>4, <1>5, <2>1, NacksAreExact DEF NacksAreTheMissing
<1>6. IInv => LossesAreKnown
  BY <1>1, <1>3, <1>5 DEF LossesAreKnown
<1> QED
  BY <1>6, Reception, PTL

=============================================================================
