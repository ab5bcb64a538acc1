--------------------------- MODULE RTPLostPackets ---------------------------
(***************************************************************************)
(* The window of received and lost packets of an RTP session, class        *)
(* RTPLostPackets of rtp.cpp.  A window is a record: the extended sequence *)
(* number of position 0, how many positions are in use, and the positions  *)
(* that hold the time of a packet (the code keeps 0 for a lost one).       *)
(*                                                                         *)
(* Sequence numbers have 16 bits on the wire, as have the fields of type   *)
(* WORD of the code; M stands for 2^16.  An extended number has 32.        *)
(***************************************************************************)
EXTENDS Integers, FiniteSets, FiniteSetsExt

CONSTANTS
    M,          \* how many sequence numbers there are on the wire
    Size,       \* RTPLostPackets::size, the positions of the window
    MaskLen     \* how many packets after the first one a NACK field covers

ASSUME WindowAssumption == /\ M \in Nat /\ Size \in 1..(M - 1)
                           /\ MaskLen \in Nat \ {0}

\* The constructor and Reset: first = 0 means that there is no packet yet
Empty == [first |-> 0, len |-> 0, marked |-> {}]

Window == [first : Nat, len : 0..Size, marked : SUBSET (0..(Size - 1))]

\* Whether AddPacket ignores a packet
IsOld(w, ext) == ext < w.first

\* Mutant: the window moves one position too few
LocateShort(w, ext) ==
    LET first == IF w.first = 0 THEN ext ELSE w.first
        pos   == (ext - first) % M
        n     == Min({pos - Size, Size})
    IN  IF pos + 1 > Size
        THEN [first  |-> ext - Size + 1, len |-> Size, pos |-> Size - 1,
              marked |-> {i - n : i \in {j \in w.marked : j >= n}}]
        ELSE [first |-> first, len |-> w.len, pos |-> pos, marked |-> w.marked]

\* AddPacket up to the test for the last packet: the position of ext, in a
\* window that has been moved forward when the position was beyond its end
Locate(w, ext) ==
    LET first == IF w.first = 0 THEN ext ELSE w.first
        pos   == (ext - first) % M
        n     == Min({pos + 1 - Size, Size})
    IN  IF pos + 1 > Size
        THEN [first  |-> ext - Size + 1, len |-> Size, pos |-> Size - 1,
              marked |-> {i - n : i \in {j \in w.marked : j >= n}}]
        ELSE [first |-> first, len |-> w.len, pos |-> pos, marked |-> w.marked]

\* AddPacket: the lost packets just below the last one, as it returns them
LostBelow(w, pos) ==
    IF w.len - 1 <= pos THEN pos - 1 - Max({-1} \cup {i \in w.marked : i < pos}) ELSE 0

\* AddPacket: the window reaches the new packet
Reach(w, pos) == [first |-> w.first, marked |-> w.marked,
                  len   |-> IF w.len - 1 <= pos THEN pos + 1 ELSE w.len]

\* AddPacket: packets[pos] = packet->GetTime()
Mark(w, pos) == [w EXCEPT !.marked = @ \cup {pos}]

\* GetNacks, the body of its loop: s is the number that opened the field being
\* written (0 when none is), how many bits of its mask are written, and what
\* the fields request, on the wire.  A field is a first lost packet and a mask
\* of MaskLen bits for those behind it.
NackStep(w, i, s) ==
    LET missing == i \notin w.marked
        number  == (w.first + i) % M
    IN  IF s.lost # 0
        THEN [lost  |-> IF s.n + 1 = MaskLen THEN 0 ELSE s.lost,
              n     |-> IF s.n + 1 = MaskLen THEN 0 ELSE s.n + 1,
              nacks |-> s.nacks \cup (IF missing THEN {(s.lost + s.n + 1) % M} ELSE {})]
        ELSE IF missing
        THEN [lost |-> number, n |-> 0, nacks |-> s.nacks \cup ({number} \ {0})]
        ELSE s

\* GetNacks: the state of its loop when k positions have been looked at
NackScan(w) ==
    LET scan[k \in 0..w.len] ==
            IF k = 0 THEN [lost |-> 0, n |-> 0, nacks |-> {}]
            ELSE NackStep(w, k - 1, scan[k - 1])
    IN  scan

\* GetNacks: what the NACK requests.  The number of the first lost packet is
\* also the flag that a field is open, so a field for number 0 is not opened.
GetNacks(w) == NackScan(w)[w.len].nacks

=============================================================================
