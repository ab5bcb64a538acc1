----------------------------- MODULE RTPReceive -----------------------------
(***************************************************************************)
(* Reception of a video stream: the thread of an RTPSession reads packets  *)
(* (rtpsession.cpp ReadRTP), extends their sequence numbers, watches for   *)
(* losses, asks for retransmissions and puts them into the jitter buffer   *)
(* (rtpbuffer.h); the decoder thread of a VideoStream (videostream.cpp     *)
(* RecVideo) takes them out in order and asks for a refresh when some are  *)
(* missing; a control thread starts and stops the decoder.                 *)
(*                                                                         *)
(* Senders number their packets from a number below M and put the number   *)
(* modulo M on the wire; the network loses, duplicates and reorders.  The  *)
(* extended number of a packet should be its sender's, counted from the    *)
(* wrap before the first packet received.                                  *)
(*                                                                         *)
(* A section under the mutex of the buffer is one step together with the   *)
(* pthread_cond_signal after it: the decoder, alone in waiting, looks      *)
(* again whenever it is woken.  The window of lost packets has no lock.    *)
(* Time is left out: a wait may be over at any moment.                     *)
(***************************************************************************)
EXTENDS RTPLostPackets

CONSTANTS
    Low, High,      \* a number below Low after one above High has wrapped
    Starts,         \* the numbers a sender may start from
    MaxSource,      \* how many senders follow one another
    MaxSent,        \* how many packets they send in all
    MaxFlight,      \* how many packets are under way when one more is sent
    MaxStarts,      \* how many times the decoder is started
    MaxAhead,       \* how far a sender gets ahead of what was received
    MaxBehind       \* how far behind the newest packet one may arrive

ASSUME ReceiveAssumption ==
    /\ Low \in 0..M /\ High \in 0..M /\ Starts \subseteq 0..(M - 1)
    /\ MaxSource \in Nat \ {0} /\ MaxSent \in Nat /\ MaxFlight \in Nat
    /\ MaxStarts \in Nat
    /\ MaxAhead \in Nat /\ MaxAhead <= Low /\ MaxAhead < M - High
    /\ MaxBehind \in Nat /\ MaxBehind <= High - Low + 1
    /\ MaxAhead + MaxBehind + Size <= M

VARIABLES
    source, start, sent, \* the sender, its first and its last number
    left,           \* how many packets remain to be sent
    net,            \* the packets under way
    recv,           \* RTPSession::recv: SSRC, cycles and extSeq
    rd,             \* ReadRTP: its next step, its packet and what it computed
    losts,          \* RTPSession::losts
    nackEnabled,    \* RTPSession::isNACKEnabled
    packets,        \* RTPBuffer::packets, by extended number
    next,           \* RTPBuffer::next, None for (DWORD)-1
    cancel,         \* RTPBuffer::cancel
    dec,            \* RecVideo: its next step
    receiving,      \* VideoStream::receivingVideo
    ctl,            \* StartReceiving and StopReceiving: their next step
    starts,         \* how many times the decoder was started
    arrived,        \* the numbers marked in losts since it was reset
    torn,           \* whether that reset met an AddPacket in progress
    foreign,        \* whether losts holds packets of a former sender
    newest,         \* the highest number received from the sender
    origin,         \* its number that has the extended number 0
    prev            \* the last packet taken from the buffer since it was reset

env     == <<source, start, sent, left, net>>
buffer  == <<packets, next, cancel, prev>>
window  == <<losts, arrived, torn, foreign>>
control == <<receiving, ctl, starts>>
stream  == <<newest, origin>>
vars == <<env, recv, rd, window, nackEnabled, buffer, dec, control, stream>>

None == -1
NoPacket == [src |-> 0, n |-> 0, rtx |-> FALSE]
Packet == [src : 1..MaxSource, n : Nat, rtx : BOOLEAN]

\* Whether a packet of before a wrap, or of a former sender, has been
\* overtaken, or one that is far behind the newest
Overtaken(p) ==
    \/ p.src < recv.ssrc
    \/ p.src = recv.ssrc /\ (p.n < newest - (newest % M) \/ p.n + MaxBehind < newest)

\* pthread_cond_signal: the decoder, if it waits, runs
Signal(d) == IF d = "asleep" THEN "wait" ELSE d

Idle == [at |-> "idle", p |-> NoPacket, ext |-> 0, pos |-> 0, lost |-> 0]

-----------------------------------------------------------------------------
(* The sender and the network.                                             *)

Init ==
    /\ source = 1 /\ start \in Starts /\ sent = start - 1 /\ left = MaxSent
    /\ net = {}
    /\ recv = [ssrc |-> 0, cycles |-> 0, extSeq |-> 0]
    /\ rd = Idle
    /\ losts = Empty /\ arrived = {} /\ torn = FALSE /\ foreign = FALSE
    /\ nackEnabled = FALSE
    /\ packets = {} /\ next = None /\ cancel = FALSE /\ prev = NoPacket
    /\ dec = "off"
    /\ receiving = FALSE /\ ctl = [at |-> "idle", restart |-> FALSE] /\ starts = 0
    /\ newest = 0 /\ origin = 0

Send ==
    /\ left > 0 /\ left' = left - 1
    /\ Cardinality(net) < MaxFlight
    /\ sent < (IF recv.ssrc = source THEN newest ELSE start) + MaxAhead
    /\ sent' = sent + 1
    /\ net' = net \cup {[src |-> source, n |-> sent + 1, rtx |-> FALSE]}
    /\ UNCHANGED <<source, start, recv, rd, window, nackEnabled, buffer, dec, control, stream>>

\* Another sender takes over the port
NewSource ==
    /\ source < MaxSource
    /\ source' = source + 1
    /\ start' \in Starts
    /\ sent' = start' - 1
    /\ UNCHANGED <<left, net, recv, rd, window, nackEnabled, buffer, dec, control, stream>>

Lose ==
    /\ \E p \in net : net' = net \ {p}
    /\ UNCHANGED <<source, start, sent, left, recv, rd, window, nackEnabled, buffer, dec, control, stream>>

\* The packets that a NACK makes the sender of recv.SSRC send again
Retransmitted(nacks) ==
    {[src |-> source, n |-> n, rtx |-> TRUE] :
        n \in {k \in start..sent : recv.ssrc = source /\ k % M \in nacks /\ k + M > sent}}

-----------------------------------------------------------------------------
(* The thread of the session, RTPSession::Run.                             *)

\* RTPBuffer::Reset
ResetPackets == /\ packets' = {} /\ next' = None /\ cancel' = FALSE
                /\ prev' = NoPacket

\* ReadRTP: a packet with a new SSRC starts a stream
NewSSRC(p) == [ssrc |-> p.src, cycles |-> 0, extSeq |-> 0]

\* Mutant: no wrap is seen
IsWrapNever(seq, r) == FALSE

\* ReadRTP: "Check if we have a sequence wrap"
IsWrap(seq, r) == seq < Low /\ r.extSeq % M > High

\* ReadRTP, from the arrival of a packet to its extended number.  A packet
\* that the network duplicates arrives again.
Receive(p) ==
    LET isNew == ~p.rtx /\ p.src # recv.ssrc
        r     == IF isNew THEN NewSSRC(p) ELSE recv
        seq   == p.n % M
        cycles == IF IsWrap(seq, r) THEN r.cycles + 1 ELSE r.cycles
    IN  /\ rd.at = "idle"
        /\ p \in net
        /\ ~Overtaken(p)
        /\ net' = net \ {p}
        /\ recv' = [r EXCEPT !.cycles = cycles]
        /\ rd' = [Idle EXCEPT !.at = "locate", !.p = p, !.ext = cycles * M + seq]
        /\ newest' = IF isNew THEN p.n ELSE Max({newest, p.n})
        /\ origin' = IF isNew THEN p.n - seq ELSE origin
        /\ IF isNew
           THEN /\ ResetPackets /\ dec' = Signal(dec)
                /\ arrived' = {} /\ foreign' = (losts # Empty)
           ELSE UNCHANGED <<buffer, dec, arrived, foreign>>
        /\ UNCHANGED <<source, start, sent, left, losts, torn, nackEnabled, control>>

\* RTPLostPackets::AddPacket, up to the count of the lost packets
AddPacketLocate ==
    /\ rd.at = "locate"
    /\ IF IsOld(losts, rd.ext)
       THEN rd' = [rd EXCEPT !.at = "add"] /\ UNCHANGED losts
       ELSE LET w == Locate(losts, rd.ext)
            IN  /\ losts' = Reach(w, w.pos)
                /\ rd' = [rd EXCEPT !.at = "mark", !.pos = w.pos, !.lost = LostBelow(w, w.pos)]
    /\ UNCHANGED <<env, recv, arrived, torn, foreign, nackEnabled, buffer, dec, control, stream>>

\* RTPLostPackets::AddPacket, the packet itself; and ReadRTP asks for what is
\* missing, unless it asked for a refresh lately.  A NACK that gets lost is
\* an answer that gets lost.
AddPacketMark ==
    /\ rd.at = "mark"
    /\ losts' = Mark(losts, rd.pos)
    /\ arrived' = arrived \cup {rd.p.n}
    /\ \/ /\ nackEnabled /\ rd.lost > 0
          /\ net' = net \cup Retransmitted(GetNacks(losts'))
       \/ UNCHANGED net
    /\ rd' = [rd EXCEPT !.at = "add"]
    /\ UNCHANGED <<source, start, sent, left, recv, torn, foreign, nackEnabled, buffer, dec, control, stream>>

\* Mutant: the buffer does not look whether a packet comes too late
RefusesKnown(ext) == \E q \in packets : q.ext = ext

\* RTPBuffer::Add: packets that are past, or there, are deleted
Refuses(ext) == \/ next # None /\ ext < next
                \/ \E q \in packets : q.ext = ext

\* ReadRTP: the highest extended number, and the buffer
AddToBuffer ==
    /\ rd.at = "add"
    /\ recv' = IF ~rd.p.rtx /\ rd.ext > recv.extSeq
               THEN [recv EXCEPT !.extSeq = rd.ext] ELSE recv
    /\ IF Refuses(rd.ext)
       THEN UNCHANGED <<packets, dec>>
       ELSE /\ packets' = packets \cup {[ext |-> rd.ext, p |-> rd.p]}
            /\ dec' = Signal(dec)
    /\ rd' = Idle
    /\ UNCHANGED <<env, window, nackEnabled, next, cancel, prev, control, stream>>

\* SetRTT, from an RTCP report: NACK is used while the round trip is short
SetRTT ==
    /\ rd.at = "idle"
    /\ nackEnabled' \in BOOLEAN
    /\ UNCHANGED <<env, recv, rd, window, buffer, dec, control, stream>>

Reader == AddPacketLocate \/ AddPacketMark \/ AddToBuffer

-----------------------------------------------------------------------------
(* The thread of the decoder, VideoStream::RecVideo.                       *)

First == CHOOSE q \in packets : \A o \in packets : q.ext <= o.ext

\* while (receivingVideo)
RecVideo ==
    /\ dec = "loop"
    /\ dec' = IF receiving THEN "wait" ELSE "off"
    /\ UNCHANGED <<env, recv, rd, window, nackEnabled, buffer, control, stream>>

\* RTPBuffer::Wait, cancelled: GetPacket returns NULL and RecVideo goes on
WaitCancelled ==
    /\ dec = "wait" /\ cancel
    /\ dec' = "loop"
    /\ UNCHANGED <<env, recv, rd, window, nackEnabled, buffer, control, stream>>

\* RTPBuffer::Wait: the first packet leaves the buffer.  RecVideo decodes it
\* and asks for a refresh when packets are missing before it, when it waits
\* for an intra frame or when decoding fails, and half a second has gone by
\* since it last asked: that may be at any packet.
Take(q) ==
    /\ dec = "wait" /\ ~cancel /\ q = First
    /\ packets' = packets \ {q}
    /\ next' = q.ext + 1
    /\ prev' = q.p
    /\ dec' \in {"loop", "fpu"}
    /\ UNCHANGED <<env, recv, rd, window, nackEnabled, cancel, control, stream>>

\* RTPBuffer::Wait: the first packet is the one expected
WaitExpected == \E q \in packets : (next = None \/ q.ext = next) /\ Take(q)

\* RTPBuffer::Wait: the first packet has waited for long enough.  Until then
\* the decoder sleeps in pthread_cond_timedwait and looks again.
WaitExpired == \E q \in packets : next # None /\ q.ext # next /\ Take(q)

\* RTPBuffer::Wait: pthread_cond_wait
WaitSleep ==
    /\ dec = "wait" /\ ~cancel /\ packets = {}
    /\ dec' = "asleep"
    /\ UNCHANGED <<env, recv, rd, window, nackEnabled, buffer, control, stream>>

\* RequestFPU: packets.Reset()
RequestFPU ==
    /\ dec = "fpu"
    /\ ResetPackets
    /\ dec' = "fpu_losts"
    /\ UNCHANGED <<env, recv, rd, window, nackEnabled, control, stream>>

\* RequestFPU: losts.Reset() and the rest.  When AddPacket is in the middle,
\* it may have read or may yet write the old first and the old length.
ResetLosts ==
    /\ dec = "fpu_losts"
    /\ torn' = (rd.at = "mark")
    /\ \E f \in {0, losts.first}, k \in {0, losts.len} :
           /\ ~torn' => f = 0 /\ k = 0
           /\ losts' = [first |-> f, len |-> k, marked |-> {}]
    /\ arrived' = {}
    /\ foreign' = FALSE
    /\ nackEnabled' = FALSE
    /\ dec' = "loop"
    /\ UNCHANGED <<env, recv, rd, buffer, control, stream>>

Decoder == \/ RecVideo \/ WaitCancelled \/ WaitExpected \/ WaitExpired \/ WaitSleep
           \/ RequestFPU \/ ResetLosts

-----------------------------------------------------------------------------
(* The control thread.                                                     *)

\* StartReceiving, or StopReceiving when restart is FALSE; a call while the
\* decoder runs stops it first
Call(restart) ==
    /\ ctl.at = "idle"
    /\ restart => starts < MaxStarts
    /\ IF receiving
       THEN /\ receiving' = FALSE
            /\ ctl' = [at |-> "cancel", restart |-> restart]
            /\ starts' = IF restart THEN starts + 1 ELSE starts
            /\ UNCHANGED dec
       ELSE /\ restart
            /\ receiving' = TRUE
            /\ dec' = "loop"
            /\ starts' = starts + 1
            /\ UNCHANGED ctl
    /\ UNCHANGED <<env, recv, rd, window, nackEnabled, buffer, stream>>

StartReceiving == Call(TRUE)
StopReceiving == Call(FALSE)

\* Mutant: the flag is set and nobody is woken
CancelGetPacketSilently ==
    /\ ctl.at = "cancel"
    /\ cancel' = TRUE
    /\ ctl' = [ctl EXCEPT !.at = "join"]
    /\ UNCHANGED <<env, recv, rd, window, nackEnabled, packets, next, prev, dec, receiving, starts, stream>>

\* RTPBuffer::Cancel
CancelGetPacket ==
    /\ ctl.at = "cancel"
    /\ cancel' = TRUE
    /\ dec' = Signal(dec)
    /\ ctl' = [ctl EXCEPT !.at = "join"]
    /\ UNCHANGED <<env, recv, rd, window, nackEnabled, packets, next, prev, receiving, starts, stream>>

\* StopReceiving: pthread_join, and StartReceiving goes on
Join ==
    /\ ctl.at = "join" /\ dec = "off"
    /\ ctl' = [at |-> "idle", restart |-> FALSE]
    /\ receiving' = ctl.restart
    /\ dec' = IF ctl.restart THEN "loop" ELSE "off"
    /\ UNCHANGED <<env, recv, rd, window, nackEnabled, buffer, starts, stream>>

-----------------------------------------------------------------------------

Next == \/ Send \/ NewSource \/ Lose
        \/ \E p \in net : Receive(p)
        \/ SetRTT \/ Reader
        \/ Decoder
        \/ StartReceiving \/ StopReceiving \/ CancelGetPacket \/ Join

Spec == Init /\ [][Next]_vars

-----------------------------------------------------------------------------

\* Types.  rtp.cpp: the window stays within its array also when RequestFPU
\* resets it, without a lock, in the middle of an AddPacket.
TypeOK ==
    /\ losts \in [first : Nat, len : 0..Size, marked : SUBSET (0..(Size - 1))]
    /\ rd.pos \in 0..(Size - 1) /\ rd.lost \in 0..(Size - 1)
    /\ net \subseteq Packet
    /\ recv \in [ssrc : 0..MaxSource, cycles : Nat, extSeq : Nat]
    /\ next \in Nat \cup {None}
    /\ \A q \in packets : q.ext \in Nat /\ q.p \in Packet
    /\ cancel \in BOOLEAN /\ receiving \in BOOLEAN /\ nackEnabled \in BOOLEAN

\* Whether losts is about the current stream alone and no reset tore it
Sound == ~torn /\ ~foreign /\ rd.at # "mark"

\* rtp.cpp AddPacket: whatever the order of arrival, and however the window has
\* moved, a position holds a packet exactly when the packet with that number
\* has arrived since the last reset.
WindowMirrorsArrivals ==
    Sound => \A i \in 0..(losts.len - 1) : i \in losts.marked <=> origin + losts.first + i \in arrived

\* rtp.cpp GetNacks: the fields of a NACK request what is missing in the window
\* and nothing else.  The packet with number 0 on the wire may be left out.
NacksAreTheMissing ==
    LET missing == {n % M : n \in (origin + losts.first)..(origin + losts.first + losts.len - 1) \ arrived}
    IN  Sound => /\ GetNacks(losts) \subseteq missing
                 /\ missing \ {0} \subseteq GetNacks(losts)

\* rtp.cpp RTPLostPackets: what is known to be lost is what has not arrived.
LossesAreKnown == TypeOK /\ WindowMirrorsArrivals /\ NacksAreTheMissing

\* rtpsession.cpp:1708 "If we have a not out of order pacekt": recv.extSeq, from
\* which wraps are recognised, is the newest number received from the sender.
ExtSeqIsNewest == rd.at = "idle" /\ recv.ssrc # 0 => origin + recv.extSeq = newest

\* rtpbuffer.h Add: the buffer does not expect a number that no packet
\* received so far has reached, so it does not refuse what the sender sends
\* next.
NextIsNotAhead == next # None /\ recv.ssrc # 0 => origin + next <= newest + 1

\* rtpsession.cpp ReadRTP, rtpbuffer.h: the numbers of session and buffer are those
\* of the packets received from the sender, across wraps and new senders.
NumbersFollowTheSender == ExtSeqIsNewest /\ NextIsNotAhead

\* rtpbuffer.h Wait, with Add and Reset: between two resets the decoder is
\* given the packets of one sender, each at most once and in the order of
\* their numbers, whatever was lost, duplicated, reordered or sent again.
DeliveredInOrder ==
    [][prev # NoPacket /\ prev' # NoPacket /\ prev' # prev =>
           prev'.src = prev.src /\ prev'.n > prev.n]_vars

\* videostream.cpp StopReceiving: the decoder that it waits for does not sleep.
\* A new SSRC takes the cancellation back (RTPBuffer::Reset), but only when the
\* thread of the session is about to add a packet that wakes the decoder.
StoppedDecoderIsWoken ==
    ctl.at = "join" /\ dec = "asleep" => rd.at # "idle" /\ ~Refuses(rd.ext)

=============================================================================
