---------------------- MODULE FloorControlStepsProofs ----------------------
(***************************************************************************)
(* Proofs about FloorControlSteps, for any number of users, connections    *)
(* and requests.                                                           *)
(*                                                                         *)
(* However the handlers of different threads interleave, every request is  *)
(* decided (EveryRequestDecided). When handlers exclude each other, the    *)
(* loop of GrantFloorRequest keeps no pointer to a deleted request         *)
(* (NoDanglingRequest), and FloorControl is implemented                    *)
(* (ImplementsFloorControl).                                               *)
(*                                                                         *)
(* The last needs to know, of every list of calls that a thread can have   *)
(* still to make, what the handler has done since the state C in which it  *)
(* started: Phase. Most handlers spend their steps in a revocation, which  *)
(* is the same for all: At says which requests have ended (gone), which    *)
(* are left to the loop (ids), and which call of the listener is pending   *)
(* (inner), with the holders of the floors as of then. What is still to    *)
(* fall with the requests to be revoked is fixed in advance (Tight), which *)
(* works because a floor is granted through one request: that part of what *)
(* FloorControl promises is proved along (Kept).                           *)
(***************************************************************************)
EXTENDS FloorControlSteps, SequenceTheorems, TLAPS

-----------------------------------------------------------------------------
(* The inductive invariant.                                                *)

Request == [id : Nat, user : UserId, beneficiary : UserId, floors : Requested,
            status : {"Pending", "Granted"}]

\* The calls a thread may have to make, by the kind of their argument
OnId == {"grant", "deny", "revoke"}
OnIds == {"revokeIfGranted", "revokeOrDeny"}
OnRequest == {"setGranted", "onFloorRequest", "onFloorGranted", "onFloorReleased"}
OnUser == {"removeUser", "setChair", "serverSetChair", "revokeUser", "closeTransport",
           "userConnected", "setTransport", "accept", "onClose", "userDisconnected",
           "disconnectUser", "setEditor", "addUser", "end", "endNext", "revokeEditor"}
CallType ==
    [op : OnId, arg : Nat] \cup [op : OnIds, arg : SUBSET Nat] \cup [op : OnRequest, arg : Request]
    \cup [op : OnUser, arg : 0..MaxUser]
    \cup [op : {"floorRequest"}, arg : [user : UserId, beneficiary : UserId, floors : Requested]]
    \cup [op : {"floorRelease"}, arg : [user : UserId, id : Nat]]
    \cup [op : {"floorQuery"}, arg : [user : UserId, floors : Queried]]

SharedTypes ==
    /\ lastUser \in 0..MaxUser /\ users \subseteq UserId
    /\ conn \in [Conn -> [user : 0..MaxUser, state : {"new", "open", "closed"},
                          closedByServer : BOOLEAN]]
    /\ counter \in Nat /\ ending \in BOOLEAN
    /\ floorRequests \subseteq Request
Types == SharedTypes /\ todo \in [Thread -> Seq(CallType)]

\* Requests have ids of their own, given out before, and are not deleted.
Known ==
    /\ \A r \in floorRequests : r.id < counter /\ r.id \in heap
    /\ \A r, s \in floorRequests : r.id = s.id => r = s

\* A call that will decide request r, or see that it is decided
Decides(c, r) == \/ c.op \in {"grant", "deny"} /\ c.arg = r.id
                 \/ c.op \in {"onFloorRequest", "setGranted"} /\ c.arg = r

\* A thread has still to decide a request that is not Granted.
Deciding == ~ ending => \A r \in floorRequests :
    IsGranted(r) \/ \E t \in Thread : \E i \in 1..Len(todo[t]) : Decides(todo[t][i], r)

\* Once the conference ends, a thread goes on to empty the map.
Emptying == ending /\ floorRequests # {} =>
    \E t \in Thread : \E i \in 1..Len(todo[t]) : todo[t][i].op = "endNext"

\* Calls that keep pointers, what they point to, and the calls that may be made
\* before these are used: they delete nothing.
Pointing == {"revokeIfGranted", "setGranted"}
PointsTo(c) == IF c.op = "setGranted" THEN {c.arg.id} ELSE c.arg
Quiet == {"revokeIfGranted", "revoke", "onFloorReleased", "revokeEditor", "setEditor"}
Safe(calls) == \A j \in 1..Len(calls) : calls[j].op \in Pointing =>
                   /\ PointsTo(calls[j]) \subseteq heap
                   /\ \A i \in 1..(j - 1) : calls[i].op \in Quiet

\* When handlers exclude each other, one thread at a time has calls to make.
Alone == \A t, u \in Thread : todo[t] # <<>> /\ todo[u] # <<>> => t = u
Serially == Serial => Alone /\ \A t \in Thread : Safe(todo[t])

IInv == Types /\ Known /\ Deciding /\ Emptying /\ Serially

-----------------------------------------------------------------------------
(* Sequences of calls.                                                     *)

\* Calls are those of the one sequence or of the other.
LEMMA Joined ==
    ASSUME NEW a \in Seq(CallType), NEW b \in Seq(CallType)
    PROVE  /\ a \o b \in Seq(CallType)
           /\ Len(a \o b) = Len(a) + Len(b) /\ Len(a) \in Nat /\ Len(b) \in Nat
           /\ \A i \in 1..Len(a) : (a \o b)[i] = a[i]
           /\ \A i \in 1..Len(b) : (a \o b)[Len(a) + i] = b[i]
           /\ \A i \in 1..Len(a \o b) : \/ i \in 1..Len(a) /\ (a \o b)[i] = a[i]
                                        \/ i - Len(a) \in 1..Len(b) /\ (a \o b)[i] = b[i - Len(a)]
<1> DEFINE c == a \o b
<1>1. /\ c \in Seq(CallType) /\ Len(c) = Len(a) + Len(b) /\ Len(a) \in Nat /\ Len(b) \in Nat
      /\ \A i \in 1..Len(c) : c[i] = IF i <= Len(a) THEN a[i] ELSE b[i - Len(a)]
  BY ConcatProperties, LenProperties
<1> HIDE DEF c
<1>2. \A i \in 1..Len(a) : c[i] = a[i]
  BY <1>1
<1>3. \A i \in 1..Len(b) : c[Len(a) + i] = b[i]
  <2> SUFFICES ASSUME NEW i \in 1..Len(b) PROVE c[Len(a) + i] = b[i]
    OBVIOUS
  <2>1. Len(a) + i \in 1..Len(c) /\ ~(Len(a) + i <= Len(a)) /\ (Len(a) + i) - Len(a) = i
    BY <1>1
  <2> QED
    BY <1>1, <2>1
<1>4. \A i \in 1..Len(c) : \/ i \in 1..Len(a) /\ c[i] = a[i]
                           \/ i - Len(a) \in 1..Len(b) /\ c[i] = b[i - Len(a)]
  BY <1>1
<1> QED
  BY <1>1, <1>2, <1>3, <1>4 DEF c

\* The calls a thread makes come before those it has still to make.
LEMMA Pushed ==
    ASSUME Types, NEW t \in Thread, todo[t] # <<>>, NEW calls \in Seq(CallType),
           MakesCalls(t, calls)
    PROVE  /\ todo' \in [Thread -> Seq(CallType)]
           /\ \A u \in Thread : u # t => todo'[u] = todo[u]
           /\ Head(todo[t]) = todo[t][1] /\ Len(todo[t]) \in Nat \ {0} /\ Len(calls) \in Nat
           /\ Len(todo'[t]) = Len(calls) + Len(todo[t]) - 1
           /\ \A i \in 1..Len(calls) : todo'[t][i] = calls[i]
           /\ \A i \in 2..Len(todo[t]) : todo'[t][i + Len(calls) - 1] = todo[t][i]
<1> DEFINE q == todo[t]
<1>1. q \in Seq(CallType) /\ q # <<>>
  BY DEF Types
<1>2. /\ Tail(q) \in Seq(CallType) /\ Len(Tail(q)) = Len(q) - 1 /\ Len(q) \in Nat \ {0}
      /\ \A i \in 1..Len(Tail(q)) : Tail(q)[i] = q[i + 1]
  BY <1>1, HeadTailProperties, EmptySeq
<1>3. Head(q) = q[1]
  BY <1>1
<1>4. todo'[t] = calls \o Tail(q) /\ \A u \in Thread : u # t => todo'[u] = todo[u]
  BY DEF MakesCalls, Types
<1> HIDE DEF q
<1> DEFINE rest == Tail(q)
           c == calls \o rest
<1>5. /\ rest \in Seq(CallType) /\ Len(rest) = Len(q) - 1
      /\ \A i \in 1..Len(rest) : rest[i] = q[i + 1]
  BY <1>2
<1> HIDE DEF rest
<1>6. /\ c \in Seq(CallType) /\ Len(c) = Len(calls) + Len(rest) /\ Len(calls) \in Nat
      /\ \A i \in 1..Len(calls) : c[i] = calls[i]
      /\ \A i \in 1..Len(rest) : c[Len(calls) + i] = rest[i]
  BY <1>5, Joined
<1> HIDE DEF c
<1>7. ASSUME NEW i \in 2..Len(q) PROVE c[i + Len(calls) - 1] = q[i]
  <2>1. /\ i - 1 \in 1..Len(rest) /\ (i - 1) + 1 = i
        /\ Len(calls) + (i - 1) = i + Len(calls) - 1
    BY <1>2, <1>5, <1>6
  <2>2. c[Len(calls) + (i - 1)] = rest[i - 1] /\ rest[i - 1] = q[(i - 1) + 1]
    BY <1>5, <1>6, <2>1
  <2> QED
    BY <2>1, <2>2
<1>8. todo' \in [Thread -> Seq(CallType)]
  <2>1. todo' = [todo EXCEPT ![t] = c] /\ todo \in [Thread -> Seq(CallType)]
    BY DEF MakesCalls, Types, c, rest, q
  <2> QED
    BY <2>1, <1>6
<1>9. todo'[t] = c
  BY <1>4 DEF c, rest
<1> QED
  BY <1>2, <1>3, <1>4, <1>5, <1>6, <1>7, <1>8, <1>9 DEF q

\* A loop is no call or one.
LEMMA LoopCalls ==
    ASSUME NEW op \in OnIds, NEW ids \in SUBSET Nat
    PROVE  /\ Loop(op, ids) \in Seq(CallType) /\ Len(Loop(op, ids)) <= 1
           /\ Len(Loop(op, ids)) \in Nat
           /\ \A i \in 1..Len(Loop(op, ids)) : Loop(op, ids)[i] = Call(op, ids)
<1>1. Call(op, ids) \in CallType
  BY DEF Call, CallType
<1>2. CASE ids = {}
  BY <1>2 DEF Loop
<1>3. CASE ids # {}
  BY <1>1, <1>3 DEF Loop
<1> QED
  BY <1>2, <1>3

\* The invariant after a step of thread t, from what the step does to the requests
\* and from the calls it makes.
LEMMA StepKeeps ==
    ASSUME IInv, NEW t \in Thread, todo[t] # <<>>, NEW calls \in Seq(CallType),
           MakesCalls(t, calls), SharedTypes', Known', ending => ending',
           \A r \in floorRequests' : \/ ending' \/ IsGranted(r)
                                     \/ r \in floorRequests /\ ~ Decides(Head(todo[t]), r)
                                     \/ \E i \in 1..Len(calls) : Decides(calls[i], r),
           ending' /\ floorRequests' # {} =>
               \/ \E i \in 1..Len(calls) : calls[i].op = "endNext"
               \/ ending /\ floorRequests # {} /\ Head(todo[t]).op # "endNext",
           Serial => \/ /\ Head(todo[t]).op \in Quiet /\ heap \subseteq heap'
                        /\ \A i \in 1..Len(calls) : /\ calls[i].op \in Quiet
                                                    /\ calls[i].op \in Pointing =>
                                                           PointsTo(calls[i]) \subseteq heap'
                     \/ Head(todo[t]).op \notin Quiet /\ Safe(calls)'
    PROVE  IInv'
<1>1. /\ todo' \in [Thread -> Seq(CallType)]
      /\ \A u \in Thread : u # t => todo'[u] = todo[u]
      /\ Head(todo[t]) = todo[t][1] /\ Len(todo[t]) \in Nat \ {0} /\ Len(calls) \in Nat
      /\ Len(todo'[t]) = Len(calls) + Len(todo[t]) - 1
      /\ \A i \in 1..Len(calls) : todo'[t][i] = calls[i]
      /\ \A i \in 2..Len(todo[t]) : todo'[t][i + Len(calls) - 1] = todo[t][i]
  BY Pushed DEF IInv
<1>2. ASSUME NEW i \in 1..Len(calls) PROVE i \in 1..Len(todo'[t])
  BY <1>1
<1>3. ASSUME NEW u \in Thread, NEW i \in 1..Len(todo[u]), u # t \/ i # 1
      PROVE  \E k \in 1..Len(todo'[u]) : todo'[u][k] = todo[u][i]
  <2>1. CASE u # t
    BY <1>1, <2>1
  <2>2. CASE u = t
    <3>1. i \in 2..Len(todo[t]) /\ i + Len(calls) - 1 \in 1..Len(todo'[t])
      BY <1>1, <1>3, <2>2
    <3> QED
      BY <1>1, <2>2, <3>1
  <2> QED
    BY <2>1, <2>2
<1>4. Types'
  BY <1>1 DEF Types
<1>5. Deciding'
  <2> SUFFICES ASSUME ~ ending', NEW r \in floorRequests', ~ IsGranted(r)
               PROVE  \E u \in Thread : \E k \in 1..Len(todo'[u]) : Decides(todo'[u][k], r)
    BY DEF Deciding, Decides, IsGranted
  <2>1. CASE r \in floorRequests /\ ~ Decides(Head(todo[t]), r)
    <3>1. PICK u \in Thread : \E i \in 1..Len(todo[u]) : Decides(todo[u][i], r)
      BY <2>1 DEF IInv, Deciding
    <3>2. PICK i \in 1..Len(todo[u]) : Decides(todo[u][i], r)
      BY <3>1
    <3>3. u # t \/ i # 1
      BY <1>1, <2>1, <3>2
    <3> QED
      BY <1>3, <3>2, <3>3
  <2>2. CASE \E i \in 1..Len(calls) : Decides(calls[i], r)
    BY <1>1, <1>2, <2>2
  <2> QED
    BY <2>1, <2>2
<1>6. Emptying'
  <2> SUFFICES ASSUME ending', floorRequests' # {}
               PROVE  \E u \in Thread : \E k \in 1..Len(todo'[u]) : todo'[u][k].op = "endNext"
    BY DEF Emptying
  <2>1. CASE ending /\ floorRequests # {} /\ Head(todo[t]).op # "endNext"
    <3>1. PICK u \in Thread : \E i \in 1..Len(todo[u]) : todo[u][i].op = "endNext"
      BY <2>1 DEF IInv, Emptying
    <3>2. PICK i \in 1..Len(todo[u]) : todo[u][i].op = "endNext"
      BY <3>1
    <3>3. u # t \/ i # 1
      BY <1>1, <2>1, <3>2
    <3> QED
      BY <1>3, <3>2, <3>3
  <2>2. CASE \E i \in 1..Len(calls) : calls[i].op = "endNext"
    BY <1>1, <1>2, <2>2
  <2> QED
    BY <2>1, <2>2
<1>7. Serially'
  <2> SUFFICES ASSUME Serial PROVE Alone' /\ \A u \in Thread : Safe(todo[u])'
    BY DEF Serially
  <2>1. \A u \in Thread : u # t => todo'[u] = <<>>
    BY <1>1 DEF IInv, Serially, Alone
  <2>2. Safe(todo[t])'
    <3> SUFFICES ASSUME NEW j \in 1..Len(todo'[t]), todo'[t][j].op \in Pointing
                 PROVE  /\ PointsTo(todo'[t][j]) \subseteq heap'
                        /\ \A i \in 1..(j - 1) : todo'[t][i].op \in Quiet
      BY DEF Safe, PointsTo
    <3>0. Safe(todo[t])
      BY DEF IInv, Serially
    <3>1. CASE j \in 1..Len(calls)
      <4>1. \A i \in 1..(j - 1) : i \in 1..Len(calls) /\ todo'[t][i] = calls[i]
        BY <1>1, <3>1
      <4>2. todo'[t][j] = calls[j]
        BY <1>1, <3>1
      <4>3. CASE Head(todo[t]).op \in Quiet
        BY <3>1, <4>1, <4>2, <4>3
      <4>4. CASE Head(todo[t]).op \notin Quiet
        <5>1. Safe(calls)'
          BY <4>4
        <5>2. PointsTo(calls[j]) \subseteq heap' /\ \A i \in 1..(j - 1) : calls[i].op \in Quiet
          BY <3>1, <4>2, <5>1 DEF Safe, PointsTo
        <5> QED
          BY <4>1, <4>2, <5>2
      <4> QED
        BY <4>3, <4>4
    <3>2. CASE j \notin 1..Len(calls)
      <4> DEFINE m == j + 1 - Len(calls)
      <4>1. m \in 2..Len(todo[t]) /\ m + Len(calls) - 1 = j
        BY <1>1, <3>2
      <4>2. todo'[t][j] = todo[t][m]
        BY <1>1, <4>1
      <4>3. m \in 1..Len(todo[t]) /\ 1 \in 1..(m - 1)
        BY <4>1
      <4> HIDE DEF m
      <4>4. PointsTo(todo[t][m]) \subseteq heap /\ \A i \in 1..(m - 1) : todo[t][i].op \in Quiet
        BY <3>0, <4>2, <4>3 DEF Safe
      <4>5. Head(todo[t]).op \in Quiet
        BY <1>1, <4>3, <4>4
      <4>6. /\ heap \subseteq heap'
            /\ \A i \in 1..Len(calls) : calls[i].op \in Quiet
        BY <4>5
      <4>7. ASSUME NEW i \in 1..(j - 1) PROVE todo'[t][i].op \in Quiet
        <5>1. CASE i \in 1..Len(calls)
          BY <1>1, <4>6, <5>1
        <5>2. CASE i \notin 1..Len(calls)
          <6>1. /\ i + 1 - Len(calls) \in 2..Len(todo[t]) /\ i + 1 - Len(calls) \in 1..(m - 1)
                /\ (i + 1 - Len(calls)) + Len(calls) - 1 = i
            BY <1>1, <4>1, <5>2
          <6>2. todo'[t][i] = todo[t][i + 1 - Len(calls)]
            BY <1>1, <6>1
          <6> QED
            BY <4>4, <6>1, <6>2
        <5> QED
          BY <5>1, <5>2
      <4> QED
        BY <4>2, <4>4, <4>6, <4>7
    <3> QED
      BY <3>1, <3>2
  <2>3. \A u \in Thread : u # t => Safe(todo[u])'
    BY <2>1 DEF Safe
  <2> QED
    BY <2>1, <2>2, <2>3 DEF Alone
<1> QED
  BY <1>4, <1>5, <1>6, <1>7 DEF IInv

\* The call that a thread makes has an argument of its kind.
LEMMA CallMade ==
    ASSUME Types, NEW t \in Thread, NEW op, Makes(t, op)
    PROVE  /\ todo[t] # <<>> /\ Head(todo[t]).op = op /\ Head(todo[t]).arg = Arg(t)
           /\ op \in OnId => Arg(t) \in Nat
           /\ op \in OnIds => Arg(t) \in SUBSET Nat
           /\ op \in OnRequest => Arg(t) \in Request
           /\ op \in OnUser => Arg(t) \in 0..MaxUser
           /\ op = "floorRequest" => Arg(t) \in [user : UserId, beneficiary : UserId, floors : Requested]
           /\ op = "floorRelease" => Arg(t) \in [user : UserId, id : Nat]
           /\ op = "floorQuery" => Arg(t) \in [user : UserId, floors : Queried]
<1>1. todo[t] # <<>> /\ Head(todo[t]).op = op /\ Head(todo[t]).arg = Arg(t)
  BY DEF Makes, Arg
<1>2. Head(todo[t]) \in CallType
  BY <1>1 DEF Types
<1>3. ASSUME NEW c \in CallType
      PROVE  /\ c.op \in OnId => c.arg \in Nat
             /\ c.op \in OnIds => c.arg \in SUBSET Nat
             /\ c.op \in OnRequest => c.arg \in Request
             /\ c.op \in OnUser => c.arg \in 0..MaxUser
             /\ c.op = "floorRequest" => c.arg \in [user : UserId, beneficiary : UserId, floors : Requested]
             /\ c.op = "floorRelease" => c.arg \in [user : UserId, id : Nat]
             /\ c.op = "floorQuery" => c.arg \in [user : UserId, floors : Queried]
  BY DEF CallType, OnId, OnIds, OnRequest, OnUser
<1> QED
  BY <1>1, <1>2, <1>3

\* Calls by the kind of their argument.
LEMMA CallTypes ==
    /\ \A op \in OnId, id \in Nat : Call(op, id) \in CallType
    /\ \A op \in OnIds, ids \in SUBSET Nat : Call(op, ids) \in CallType
    /\ \A op \in OnRequest, r \in Request : Call(op, r) \in CallType
    /\ \A op \in OnUser, u \in 0..MaxUser : Call(op, u) \in CallType
    /\ \A op, arg : Call(op, arg).op = op /\ Call(op, arg).arg = arg
  BY DEF Call, CallType

\* A step that leaves the requests alone and makes no call that keeps a pointer
LEMMA CalmKeeps ==
    ASSUME IInv, NEW t \in Thread, todo[t] # <<>>, NEW calls \in Seq(CallType),
           MakesCalls(t, calls), SharedTypes', UNCHANGED <<floorRequests, heap, ending, counter>>,
           Head(todo[t]).op \notin {"grant", "deny", "onFloorRequest", "setGranted", "endNext"},
           \A i \in 1..Len(calls) : calls[i].op \notin Pointing,
           Head(todo[t]).op \in Quiet => \A i \in 1..Len(calls) : calls[i].op \in Quiet
    PROVE  IInv'
<1>1. Known' /\ (ending => ending')
  BY DEF IInv, Known
<1>2. \A r : ~ Decides(Head(todo[t]), r)
  BY DEF Decides
<1>3. ASSUME Serial, Head(todo[t]).op \notin Quiet PROVE Safe(calls)'
  BY DEF Safe
<1> QED
  BY <1>1, <1>2, <1>3, StepKeeps

-----------------------------------------------------------------------------
(* The calls about requests.                                               *)

\* BFCPFloorControlServer.cpp GrantFloorRequest: the requests to revoke are in the
\* map when they are collected, and the request is decided in the end.
LEMMA GrantKeeps ==
    ASSUME IInv, NEW t \in Thread, Makes(t, "grant"), GrantFloorRequest(t, Arg(t))
    PROVE  IInv'
<1> DEFINE id == Arg(t)
<1>1. Types /\ Known /\ todo[t] # <<>> /\ Head(todo[t]).op = "grant" /\ Head(todo[t]).arg = id /\ id \in Nat
  BY CallMade DEF IInv, OnId
<1>2. SharedTypes' /\ Known' /\ UNCHANGED <<floorRequests, heap, ending>>
  BY <1>1 DEF GrantFloorRequest, shared, Types, SharedTypes, Known
<1>3. Head(todo[t]).op \notin Quiet
  BY <1>1 DEF Quiet
<1>4. CASE ending \/ ~ \E r \in GetFloorRequest(id) : IsUndecided(r)
  <2>1. MakesCalls(t, <<>>) /\ <<>> \in Seq(CallType) /\ Len(<<>>) = 0
    BY <1>4 DEF GrantFloorRequest
  <2>2. \A r \in floorRequests' : ending' \/ IsGranted(r) \/ ~ Decides(Head(todo[t]), r)
    BY <1>1, <1>2, <1>4
    DEF Types, SharedTypes, Request, Decides, GetFloorRequest, IsGranted, IsUndecided
  <2>3. Safe(<<>>)'
    BY DEF Safe
  <2> QED
    BY <1>1, <1>2, <1>3, <2>1, <2>2, <2>3, StepKeeps
<1>5. CASE ~ ending /\ \E r \in GetFloorRequest(id) : IsUndecided(r)
  <2> DEFINE new == CHOOSE r \in GetFloorRequest(id) : TRUE
             ids == Ids({r \in floorRequests : r.floors \intersect new.floors # {}})
             a == Loop("revokeIfGranted", ids)
             b == <<Call("setGranted", new)>>
  <2>1. MakesCalls(t, a \o b)
    BY <1>5 DEF GrantFloorRequest
  <2>2. new \in floorRequests /\ new.id = id /\ new \in Request
    BY <1>1, <1>5 DEF GetFloorRequest, Types, SharedTypes
  <2> HIDE DEF new
  <2>3. ids \in SUBSET Nat /\ ids \subseteq heap /\ id \in heap
    BY <1>1, <2>2 DEF Ids, Known, Types, SharedTypes, Request
  <2> HIDE DEF ids
  <2>4. /\ a \in Seq(CallType) /\ Len(a) \in Nat
        /\ \A i \in 1..Len(a) : a[i] = Call("revokeIfGranted", ids)
    BY <2>3, LoopCalls DEF OnIds
  <2> HIDE DEF a
  <2>5. b \in Seq(CallType) /\ Len(b) = 1 /\ b[1] = Call("setGranted", new)
    BY <2>2, CallTypes DEF OnRequest
  <2> HIDE DEF b
  <2> PICK c : c = a \o b
    OBVIOUS
  <2>6. /\ c \in Seq(CallType) /\ Len(c) = Len(a) + 1
        /\ \A i \in 1..Len(a) : c[i] = Call("revokeIfGranted", ids)
        /\ c[Len(a) + 1] = Call("setGranted", new)
    <3>1. /\ c \in Seq(CallType) /\ Len(c) = Len(a) + Len(b)
          /\ \A i \in 1..Len(a) : c[i] = a[i]
          /\ \A i \in 1..Len(b) : c[Len(a) + i] = b[i]
      BY <2>4, <2>5, Joined
    <3> QED
      BY <2>4, <2>5, <3>1
  <2>7. ASSUME NEW r \in floorRequests'
        PROVE  \/ r \in floorRequests /\ ~ Decides(Head(todo[t]), r)
               \/ \E i \in 1..Len(c) : Decides(c[i], r)
    <3>1. CASE r.id = id
      <4>1. r = new
        BY <1>1, <1>2, <2>2, <3>1 DEF Known
      <4>2. Len(a) + 1 \in 1..Len(c) /\ Decides(c[Len(a) + 1], r)
        BY <2>4, <2>6, <4>1, CallTypes DEF Decides
      <4> QED
        BY <4>2
    <3>2. CASE r.id # id
      BY <1>1, <1>2, <3>2 DEF Decides
    <3> QED
      BY <3>1, <3>2
  <2>8. Safe(c)'
    <3> SUFFICES ASSUME NEW j \in 1..Len(c)
                 PROVE  /\ PointsTo(c[j]) \subseteq heap'
                        /\ \A i \in 1..(j - 1) : c[i].op \in Quiet
      BY DEF Safe, PointsTo
    <3>1. \A i \in 1..Len(a) : c[i].op = "revokeIfGranted" /\ c[i].arg = ids
      BY <2>6, CallTypes
    <3>2. c[Len(a) + 1].op = "setGranted" /\ c[Len(a) + 1].arg = new
      BY <2>6, CallTypes
    <3>3. \A i \in 1..(j - 1) : i \in 1..Len(a)
      BY <2>4, <2>6
    <3>4. j \in 1..Len(a) \/ j = Len(a) + 1
      BY <2>4, <2>6
    <3>5. PointsTo(c[j]) \subseteq heap'
      BY <1>2, <2>2, <2>3, <3>1, <3>2, <3>4 DEF PointsTo
    <3> QED
      BY <3>1, <3>3, <3>5 DEF Quiet
  <2> QED
    <3>1. MakesCalls(t, c) /\ ~ (ending' /\ floorRequests' # {}) /\ (ending => ending')
      BY <1>2, <1>5, <2>1
    <3> QED
      BY <1>1, <1>2, <1>3, <2>6, <2>7, <2>8, <3>1, StepKeeps
<1> QED
  BY <1>4, <1>5

\* The loop of GrantFloorRequest goes on to the next of its pointers.
LEMMA RevokeIfGrantedKeeps ==
    ASSUME IInv, NEW t \in Thread, Makes(t, "revokeIfGranted"), RevokeIfGranted(t, Arg(t))
    PROVE  IInv'
<1>1. /\ Types /\ Known /\ todo[t] # <<>> /\ Head(todo[t]).op = "revokeIfGranted"
      /\ Head(todo[t]).arg = Arg(t) /\ Arg(t) \in SUBSET Nat
  BY CallMade DEF IInv, OnIds
<1>2. PICK ids : ids = Arg(t)
  OBVIOUS
<1>3. PICK id \in ids :
         /\ MakesCalls(t, (IF \E r \in GetFloorRequest(id) : IsGranted(r)
                           THEN <<Call("revoke", id)>> ELSE <<>>)
                          \o Loop("revokeIfGranted", ids \ {id}))
         /\ UNCHANGED shared
  BY <1>2 DEF RevokeIfGranted
<1>4. SharedTypes' /\ Known' /\ UNCHANGED <<floorRequests, heap, ending>>
  BY <1>1, <1>3 DEF shared, Types, SharedTypes, Known
<1> DEFINE a == IF \E r \in GetFloorRequest(id) : IsGranted(r) THEN <<Call("revoke", id)>> ELSE <<>>
           b == Loop("revokeIfGranted", ids \ {id})
<1>5. /\ a \in Seq(CallType) /\ Len(a) \in Nat
      /\ \A i \in 1..Len(a) : a[i].op = "revoke"
  <2>1. Call("revoke", id) \in CallType /\ Call("revoke", id).op = "revoke"
    BY <1>1, <1>2, CallTypes DEF OnId
  <2>2. a = <<>> \/ a = <<Call("revoke", id)>>
    OBVIOUS
  <2> HIDE DEF a
  <2>3. CASE a = <<>>
    BY <2>3
  <2>4. CASE a = <<Call("revoke", id)>>
    BY <2>1, <2>4
  <2> QED
    BY <2>2, <2>3, <2>4
<1>6. /\ b \in Seq(CallType) /\ Len(b) \in Nat
      /\ \A i \in 1..Len(b) : b[i].op = "revokeIfGranted" /\ b[i].arg \subseteq ids
  <2>1. ids \ {id} \in SUBSET Nat
    BY <1>1, <1>2
  <2>2. /\ b \in Seq(CallType) /\ Len(b) \in Nat
        /\ \A i \in 1..Len(b) : b[i] = Call("revokeIfGranted", ids \ {id})
    BY <2>1, LoopCalls DEF OnIds
  <2> HIDE DEF b
  <2>3. /\ Call("revokeIfGranted", ids \ {id}).op = "revokeIfGranted"
        /\ Call("revokeIfGranted", ids \ {id}).arg = ids \ {id}
    BY CallTypes
  <2> QED
    BY <2>2, <2>3
<1> HIDE DEF a, b
<1>7. PICK c : c = a \o b
  OBVIOUS
<1>8. c \in Seq(CallType) /\ MakesCalls(t, c)
  BY <1>3, <1>5, <1>6, <1>7, Joined DEF a, b
<1>9. ASSUME NEW i \in 1..Len(c)
      PROVE  /\ c[i].op \in Quiet
             /\ c[i].op \in Pointing => PointsTo(c[i]) \subseteq ids
  <2>1. (i \in 1..Len(a) /\ c[i] = a[i]) \/ (i - Len(a) \in 1..Len(b) /\ c[i] = b[i - Len(a)])
    BY <1>5, <1>6, <1>7, Joined
  <2>2. c[i].op = "revoke" \/ (c[i].op = "revokeIfGranted" /\ c[i].arg \subseteq ids)
    BY <1>5, <1>6, <2>1
  <2> QED
    BY <2>2 DEF Quiet, Pointing, PointsTo
<1>10. Serial => ids \subseteq heap'
  <2> SUFFICES ASSUME Serial PROVE ids \subseteq heap
    BY <1>4
  <2>1. Safe(todo[t]) /\ todo[t] \in Seq(CallType)
    BY DEF IInv, Serially, Types
  <2>2. 1 \in 1..Len(todo[t]) /\ todo[t][1] = Head(todo[t])
    BY <1>1, <2>1
  <2> QED
    BY <1>1, <1>2, <2>1, <2>2 DEF Safe, Pointing, PointsTo
<1>11. /\ \A r : ~ Decides(Head(todo[t]), r)
       /\ Head(todo[t]).op \in Quiet /\ Head(todo[t]).op # "endNext"
  BY <1>1 DEF Decides, Quiet
<1>12. Serial => \A i \in 1..Len(c) : /\ c[i].op \in Quiet
                                      /\ c[i].op \in Pointing => PointsTo(c[i]) \subseteq heap'
  BY <1>9, <1>10
<1> QED
  BY <1>1, <1>4, <1>8, <1>11, <1>12, StepKeeps

\* RevokeUserFloorRequests and End look each request up again.
LEMMA RevokeOrDenyKeeps ==
    ASSUME IInv, NEW t \in Thread, Makes(t, "revokeOrDeny"), RevokeOrDeny(t, Arg(t))
    PROVE  IInv'
<1>1. /\ Types /\ todo[t] # <<>> /\ Head(todo[t]).op = "revokeOrDeny" /\ Arg(t) \in SUBSET Nat
  BY CallMade DEF IInv, OnIds
<1>2. PICK ids : ids = Arg(t)
  OBVIOUS
<1>3. PICK id \in ids :
         /\ MakesCalls(t, (IF GetFloorRequest(id) = {} THEN <<>>
                           ELSE IF \E r \in GetFloorRequest(id) : IsGranted(r)
                                THEN <<Call("revoke", id)>> ELSE <<Call("deny", id)>>)
                          \o Loop("revokeOrDeny", ids \ {id}))
         /\ UNCHANGED shared
  BY <1>2 DEF RevokeOrDeny
<1>4. SharedTypes' /\ UNCHANGED <<floorRequests, heap, ending, counter>>
  BY <1>1, <1>3 DEF shared, Types, SharedTypes
<1> DEFINE a == IF GetFloorRequest(id) = {} THEN <<>>
                ELSE IF \E r \in GetFloorRequest(id) : IsGranted(r)
                     THEN <<Call("revoke", id)>> ELSE <<Call("deny", id)>>
           b == Loop("revokeOrDeny", ids \ {id})
<1>5. /\ a \in Seq(CallType) /\ Len(a) \in Nat
      /\ \A i \in 1..Len(a) : a[i].op \in {"revoke", "deny"}
  <2>1. /\ Call("revoke", id) \in CallType /\ Call("revoke", id).op = "revoke"
        /\ Call("deny", id) \in CallType /\ Call("deny", id).op = "deny"
    BY <1>1, <1>2, CallTypes DEF OnId
  <2> QED
    BY <2>1
<1>6. /\ b \in Seq(CallType) /\ Len(b) \in Nat
      /\ \A i \in 1..Len(b) : b[i].op = "revokeOrDeny"
  <2>1. ids \ {id} \in SUBSET Nat
    BY <1>1, <1>2
  <2> QED
    BY <2>1, LoopCalls, CallTypes DEF OnIds
<1> HIDE DEF a, b
<1>7. PICK c : c = a \o b
  OBVIOUS
<1>8. c \in Seq(CallType) /\ MakesCalls(t, c)
  BY <1>3, <1>5, <1>6, <1>7, Joined DEF a, b
<1>9. ASSUME NEW i \in 1..Len(c) PROVE c[i].op \notin Pointing
  <2>1. (i \in 1..Len(a) /\ c[i] = a[i]) \/ (i - Len(a) \in 1..Len(b) /\ c[i] = b[i - Len(a)])
    BY <1>5, <1>6, <1>7, Joined
  <2> QED
    BY <1>5, <1>6, <2>1 DEF Pointing
<1>10. Head(todo[t]).op \notin Quiet
  BY <1>1 DEF Quiet
<1> QED
  BY <1>1, <1>4, <1>8, <1>9, <1>10, CalmKeeps

\* SetGranted: the request of the call is not undecided any more.
LEMMA SetGrantedKeeps ==
    ASSUME IInv, NEW t \in Thread, Makes(t, "setGranted"), SetGranted(t, Arg(t))
    PROVE  IInv'
<1> DEFINE old == Arg(t)
           new == [old EXCEPT !.status = "Granted"]
<1>1. /\ Types /\ Known /\ todo[t] # <<>> /\ Head(todo[t]).op = "setGranted"
      /\ Head(todo[t]).arg = old /\ old \in Request
  BY CallMade DEF IInv, OnRequest
<1>2. new \in Request /\ new.id = old.id /\ new.status = "Granted"
  BY <1>1 DEF Request
<1>3. /\ floorRequests' = IF old \in floorRequests
                          THEN (floorRequests \ {old}) \union {new} ELSE floorRequests
      /\ MakesCalls(t, <<Call("onFloorGranted", new)>>)
      /\ UNCHANGED <<lastUser, users, conn, counter, heap, ending>>
  BY DEF SetGranted
<1> HIDE DEF new, old
<1>4. \A r \in floorRequests' : (r \in floorRequests /\ r # old) \/ (old \in floorRequests /\ r = new)
  BY <1>3
<1>5. SharedTypes'
  BY <1>1, <1>2, <1>3, <1>4 DEF Types, SharedTypes
<1>6. Known'
  BY <1>1, <1>2, <1>3, <1>4 DEF Known
<1>7. PICK c : c = <<Call("onFloorGranted", new)>>
  OBVIOUS
<1>8. /\ c \in Seq(CallType) /\ MakesCalls(t, c) /\ Len(c) = 1 /\ c[1].op = "onFloorGranted"
  BY <1>2, <1>3, <1>7, CallTypes DEF OnRequest
<1>9. Safe(c)' /\ Head(todo[t]).op \notin Quiet
  BY <1>1, <1>8 DEF Safe, Quiet, Pointing
<1>10. \A r \in floorRequests' : \/ IsGranted(r)
                                 \/ r \in floorRequests /\ ~ Decides(Head(todo[t]), r)
  BY <1>1, <1>2, <1>4 DEF IsGranted, Decides
<1>11. ending' /\ floorRequests' # {} => ending /\ floorRequests # {} /\ Head(todo[t]).op # "endNext"
  BY <1>1, <1>3
<1> QED
  BY <1>1, <1>3, <1>5, <1>6, <1>8, <1>9, <1>10, <1>11, StepKeeps

\* DenyFloorRequest: the request leaves the map before it is deleted.
LEMMA DenyKeeps ==
    ASSUME IInv, NEW t \in Thread, Makes(t, "deny"), DenyFloorRequest(t, Arg(t))
    PROVE  IInv'
<1> DEFINE id == Arg(t)
           mine == {r \in GetFloorRequest(id) : IsUndecided(r)}
<1>1. /\ Types /\ Known /\ todo[t] # <<>> /\ Head(todo[t]).op = "deny"
      /\ Head(todo[t]).arg = id
  BY CallMade DEF IInv
<1>2. /\ floorRequests' = floorRequests \ mine /\ heap' = heap \ Ids(mine)
      /\ MakesCalls(t, <<>>)
      /\ UNCHANGED <<lastUser, users, conn, counter, ending>>
  BY DEF DenyFloorRequest, Returns
<1>3. SharedTypes'
  BY <1>1, <1>2 DEF Types, SharedTypes
<1>4. Known'
  <2>1. ASSUME NEW r \in floorRequests' PROVE r \in floorRequests /\ r.id \notin Ids(mine)
    <3>1. r \in floorRequests /\ r \notin mine
      BY <1>2
    <3>2. \A m \in mine : m \in floorRequests /\ m # r
      BY <3>1 DEF GetFloorRequest
    <3>3. \A m \in mine : m.id # r.id
      BY <1>1, <3>1, <3>2 DEF Known
    <3> HIDE DEF mine
    <3> QED
      BY <3>1, <3>3 DEF Ids
  <2> QED
    BY <1>1, <1>2, <2>1 DEF Known
<1>5. \A r \in floorRequests' : IsGranted(r) \/ (r \in floorRequests /\ ~ Decides(Head(todo[t]), r))
  BY <1>1, <1>2 DEF Types, SharedTypes, Request, Decides, GetFloorRequest, IsGranted, IsUndecided
<1>6. /\ <<>> \in Seq(CallType) /\ Safe(<<>>)'
      /\ Head(todo[t]).op \notin Quiet /\ Head(todo[t]).op # "endNext"
  BY <1>1 DEF Safe, Quiet
<1>7. /\ ending => ending'
      /\ ending' /\ floorRequests' # {} => ending /\ floorRequests # {}
  BY <1>2
<1> QED
  BY <1>1, <1>2, <1>3, <1>4, <1>5, <1>6, <1>7, StepKeeps

\* A request ends: it leaves the map, but its object is not deleted.
LEMMA EndRequestKeeps ==
    ASSUME IInv, NEW t \in Thread, todo[t] # <<>>, Head(todo[t]).op \in {"revoke", "floorRelease"},
           NEW r \in floorRequests, NEW tellListener, EndRequest(t, r, tellListener)
    PROVE  IInv'
<1> DEFINE calls == IF tellListener THEN <<Call("onFloorReleased", r)>> ELSE <<>>
<1>1. Types /\ Known
  BY DEF IInv
<1>2. /\ floorRequests' = floorRequests \ {r} /\ MakesCalls(t, calls)
      /\ UNCHANGED <<lastUser, users, conn, counter, ending, heap>>
  BY DEF EndRequest
<1>3. SharedTypes' /\ Known'
  BY <1>1, <1>2 DEF Types, SharedTypes, Known
<1>4. /\ calls \in Seq(CallType) /\ Len(calls) \in Nat
      /\ \A i \in 1..Len(calls) : calls[i].op = "onFloorReleased"
  <2>1. Call("onFloorReleased", r) \in CallType /\ Call("onFloorReleased", r).op = "onFloorReleased"
    BY <1>1, CallTypes DEF OnRequest, Types, SharedTypes
  <2>2. CASE tellListener
    BY <2>1, <2>2
  <2>3. CASE ~ tellListener
    BY <2>3
  <2> QED
    BY <2>2, <2>3
<1>5. PICK c : c = calls
  OBVIOUS
<1> HIDE DEF calls
<1>6. c \in Seq(CallType) /\ MakesCalls(t, c)
  BY <1>2, <1>4, <1>5
<1>7. \A i \in 1..Len(c) : c[i].op \in Quiet /\ c[i].op \notin Pointing
  BY <1>4, <1>5 DEF Quiet, Pointing
<1>8. Safe(c)'
  BY <1>7 DEF Safe
<1>9. \A q : ~ Decides(Head(todo[t]), q)
  BY DEF Decides
<1>10. /\ floorRequests' \subseteq floorRequests /\ heap \subseteq heap' /\ ending' = ending
       /\ ending' /\ floorRequests' # {} =>
              ending /\ floorRequests # {} /\ Head(todo[t]).op # "endNext"
  BY <1>2
<1> QED
  BY <1>3, <1>6, <1>7, <1>8, <1>9, <1>10, StepKeeps

\* A call that only returns, and changes none of the requests
LEMMA ReturnKeeps ==
    ASSUME IInv, NEW t \in Thread, todo[t] # <<>>, Returns(t), SharedTypes',
           UNCHANGED <<floorRequests, heap, ending, counter>>,
           Head(todo[t]).op \notin {"grant", "deny", "onFloorRequest", "setGranted", "endNext"}
    PROVE  IInv'
<1>1. PICK calls : calls = <<>>
  OBVIOUS
<1>2. MakesCalls(t, calls) /\ calls \in Seq(CallType) /\ Len(calls) = 0
  BY <1>1 DEF Returns
<1>3. \A i \in 1..Len(calls) : calls[i].op \in Quiet \ Pointing
  BY <1>2
<1> QED
  BY <1>2, <1>3, CalmKeeps

\* RevokeFloorRequest
LEMMA RevokeKeeps ==
    ASSUME IInv, NEW t \in Thread, Makes(t, "revoke"), RevokeFloorRequest(t, Arg(t))
    PROVE  IInv'
<1>1. Types /\ todo[t] # <<>> /\ Head(todo[t]).op = "revoke"
  BY CallMade DEF IInv
<1>2. CASE \E r \in GetFloorRequest(Arg(t)) : IsGranted(r) /\ EndRequest(t, r, ~ ending)
  <2>1. PICK r \in floorRequests : EndRequest(t, r, ~ ending)
    BY <1>2 DEF GetFloorRequest
  <2> QED
    BY <1>1, <2>1, EndRequestKeeps, ZenonT(30)
<1>3. CASE Returns(t) /\ UNCHANGED shared
  <2>1. /\ SharedTypes' /\ UNCHANGED <<floorRequests, heap, ending, counter>>
    BY <1>1, <1>3 DEF shared, Types, SharedTypes
  <2> QED
    BY <1>1, <1>3, <2>1, ReturnKeeps
<1> QED
  BY <1>2, <1>3 DEF RevokeFloorRequest

\* One that makes one more call
LEMMA OneCallKeeps ==
    ASSUME IInv, NEW t \in Thread, todo[t] # <<>>, NEW c \in CallType, MakesCalls(t, <<c>>),
           SharedTypes', UNCHANGED <<floorRequests, heap, ending, counter>>,
           Head(todo[t]).op \notin {"grant", "deny", "onFloorRequest", "setGranted", "endNext"},
           c.op \notin Pointing, Head(todo[t]).op \in Quiet => c.op \in Quiet
    PROVE  IInv'
<1>1. <<c>> \in Seq(CallType) /\ Len(<<c>>) = 1 /\ <<c>>[1] = c
  OBVIOUS
<1>2. PICK calls : calls = <<c>>
  OBVIOUS
<1>3. calls \in Seq(CallType) /\ \A i \in 1..Len(calls) : calls[i] = c
  BY <1>1, <1>2
<1> QED
  BY <1>2, <1>3, CalmKeeps

\* RevokeUserFloorRequests
LEMMA RevokeUserKeeps ==
    ASSUME IInv, NEW t \in Thread, Makes(t, "revokeUser"), RevokeUserFloorRequests(t, Arg(t))
    PROVE  IInv'
<1> DEFINE ids == Ids({r \in floorRequests : r.beneficiary = Arg(t)})
           calls == Loop("revokeOrDeny", ids)
<1>1. Types /\ todo[t] # <<>> /\ Head(todo[t]).op = "revokeUser"
  BY CallMade DEF IInv
<1>2. /\ SharedTypes' /\ UNCHANGED <<floorRequests, heap, ending, counter>> /\ MakesCalls(t, calls)
  BY <1>1 DEF RevokeUserFloorRequests, shared, Types, SharedTypes
<1>3. ids \in SUBSET Nat
  BY <1>1 DEF Ids, Types, SharedTypes, Request
<1> HIDE DEF ids
<1>4. /\ calls \in Seq(CallType)
      /\ \A i \in 1..Len(calls) : calls[i].op = "revokeOrDeny"
  BY <1>3, LoopCalls, CallTypes DEF OnIds
<1> HIDE DEF calls
<1>5. PICK c : c = calls
  OBVIOUS
<1>6. \A i \in 1..Len(c) : c[i].op \notin Pointing
  BY <1>4, <1>5 DEF Pointing
<1>7. Head(todo[t]).op \notin Quiet
  BY <1>1 DEF Quiet
<1> QED
  BY <1>1, <1>2, <1>4, <1>5, <1>6, <1>7, CalmKeeps

-----------------------------------------------------------------------------
(* The listener.                                                           *)

\* multiconf.cpp onFloorRequest: a request is granted or denied.
LEMMA onFloorRequestKeeps ==
    ASSUME IInv, NEW t \in Thread, Makes(t, "onFloorRequest"), onFloorRequest(t, Arg(t))
    PROVE  IInv'
<1>1. /\ Types /\ Known /\ todo[t] # <<>> /\ Head(todo[t]).op = "onFloorRequest"
      /\ Head(todo[t]).arg = Arg(t) /\ Arg(t) \in Request
  BY CallMade DEF IInv, OnRequest
<1>2. PICK r : r = Arg(t)
  OBVIOUS
<1>3. /\ UNCHANGED shared
      /\ MakesCalls(t, <<Call("grant", r.id)>>) \/ MakesCalls(t, <<Call("deny", r.id)>>)
  BY <1>2 DEF onFloorRequest
<1>4. SharedTypes' /\ Known' /\ UNCHANGED <<floorRequests, heap, ending>>
  BY <1>1, <1>3 DEF shared, Types, SharedTypes, Known
<1>5. PICK op \in {"grant", "deny"} : MakesCalls(t, <<Call(op, r.id)>>)
  BY <1>3
<1>6. Call(op, r.id) \in CallType /\ Call(op, r.id).op = op /\ Call(op, r.id).arg = r.id
  BY <1>1, <1>2, CallTypes DEF OnId, Request
<1>7. PICK c : c = <<Call(op, r.id)>>
  OBVIOUS
<1>8. c \in Seq(CallType) /\ Len(c) = 1 /\ c[1] = Call(op, r.id) /\ MakesCalls(t, c)
  BY <1>5, <1>6, <1>7
<1>9. Safe(c)' /\ Head(todo[t]).op \notin Quiet
  BY <1>1, <1>6, <1>8 DEF Safe, Quiet, Pointing
<1>10. ASSUME NEW q \in floorRequests'
       PROVE  \/ q \in floorRequests /\ ~ Decides(Head(todo[t]), q)
              \/ \E i \in 1..Len(c) : Decides(c[i], q)
  <2>1. CASE q = r
    <3>1. 1 \in 1..Len(c) /\ Decides(c[1], q)
      BY <1>6, <1>8, <2>1 DEF Decides
    <3> QED
      BY <3>1
  <2>2. CASE q # r
    BY <1>1, <1>2, <1>4, <2>2 DEF Decides
  <2> QED
    BY <2>1, <2>2
<1>11. /\ ending => ending'
       /\ ending' /\ floorRequests' # {} =>
              ending /\ floorRequests # {} /\ Head(todo[t]).op # "endNext"
  BY <1>1, <1>4
<1> QED
  BY <1>1, <1>4, <1>8, <1>9, <1>10, <1>11, StepKeeps

\* onFloorGranted and onFloorReleased
LEMMA OnFloorChangeKeeps ==
    ASSUME IInv, NEW t \in Thread, NEW op \in {"onFloorGranted", "onFloorReleased"}, Makes(t, op),
           NEW holder \in 0..MaxUser, NEW floors, OnFloorChange(t, floors, holder)
    PROVE  IInv'
<1>1. Types /\ todo[t] # <<>> /\ Head(todo[t]).op = op
  BY CallMade DEF IInv
<1>2. /\ \/ MakesCalls(t, <<Call("setEditor", holder)>>)
         \/ MakesCalls(t, <<Call("revokeEditor", Nobody)>>)
         \/ MakesCalls(t, <<>>)
      /\ UNCHANGED <<lastUser, users, conn, counter, ending, floorRequests, heap>>
  BY DEF OnFloorChange
<1>3. SharedTypes'
  BY <1>1, <1>2 DEF Types, SharedTypes
<1>4. /\ Call("setEditor", holder) \in CallType /\ Call("setEditor", holder).op = "setEditor"
      /\ Call("revokeEditor", Nobody) \in CallType
      /\ Call("revokeEditor", Nobody).op = "revokeEditor"
  BY CallTypes, BoundsAssumption DEF OnUser, Nobody
<1>5. /\ Head(todo[t]).op \notin {"grant", "deny", "onFloorRequest", "setGranted", "endNext"}
      /\ "setEditor" \in Quiet \ Pointing /\ "revokeEditor" \in Quiet \ Pointing
  BY <1>1 DEF Quiet, Pointing
<1>6. CASE MakesCalls(t, <<>>)
  BY <1>1, <1>2, <1>3, <1>5, <1>6, ReturnKeeps DEF Returns
<1>7. CASE MakesCalls(t, <<Call("setEditor", holder)>>)
  BY <1>1, <1>2, <1>3, <1>4, <1>5, <1>7, OneCallKeeps
<1>8. CASE MakesCalls(t, <<Call("revokeEditor", Nobody)>>)
  BY <1>1, <1>2, <1>3, <1>4, <1>5, <1>8, OneCallKeeps
<1> QED
  BY <1>2, <1>6, <1>7, <1>8

\* The listener revokes the request of the editor.
LEMMA RevokeEditorKeeps ==
    ASSUME IInv, NEW t \in Thread, Makes(t, "revokeEditor"), RevokeEditor(t)
    PROVE  IInv'
<1>1. Types /\ todo[t] # <<>> /\ Head(todo[t]).op = "revokeEditor"
  BY CallMade DEF IInv
<1>2. SharedTypes' /\ UNCHANGED <<floorRequests, heap, ending, counter>>
  BY <1>1 DEF RevokeEditor, shared, Types, SharedTypes
<1>3. GrantedIds(Editor) \subseteq Nat
  BY <1>1 DEF GrantedIds, Ids, Types, SharedTypes, Request
<1>4. CASE Returns(t)
  BY <1>1, <1>2, <1>4, ReturnKeeps
<1>5. ASSUME NEW id \in GrantedIds(Editor), MakesCalls(t, <<Call("revoke", id)>>) PROVE IInv'
  <2>1. /\ Call("revoke", id) \in CallType /\ Call("revoke", id).op = "revoke"
        /\ "revoke" \in Quiet \ Pointing
    BY <1>3, CallTypes DEF OnId, Quiet, Pointing
  <2> QED
    BY <1>1, <1>2, <1>5, <2>1, OneCallKeeps
<1> QED
  BY <1>4, <1>5 DEF RevokeEditor

-----------------------------------------------------------------------------
(* Participants, the chair and connections.                                *)

\* Calls that return at once
LEMMA ReturningKeep ==
    ASSUME IInv, NEW t \in Thread, NEW op, Makes(t, op),
           \/ op = "setEditor" /\ SetEditor(t, Arg(t))
           \/ op = "addUser" /\ AddUser(t)
           \/ op = "serverSetChair" /\ ServerSetChair(t, Arg(t))
           \/ op = "closeTransport" /\ CloseTransport(t, Arg(t))
           \/ op = "setTransport" /\ SetTransport(t, Arg(t))
           \/ op = "accept" /\ Accept(t, Arg(t))
           \/ op = "floorQuery" /\ ProcessFloorQuery(t, Arg(t))
    PROVE  IInv'
<1>1. /\ Types /\ todo[t] # <<>> /\ Head(todo[t]).op = op
      /\ op \in OnUser => Arg(t) \in 0..MaxUser
  BY CallMade DEF IInv
<1>2. Returns(t) /\ UNCHANGED <<floorRequests, heap, ending, counter>>
  BY DEF SetEditor, AddUser, ServerSetChair, CloseTransport, SetTransport, Accept, ProcessFloorQuery
<1>3. SharedTypes'
  <2>1. CASE op = "addUser" /\ AddUser(t)
    <3>1. /\ lastUser \in 0..MaxUser /\ MaxUser \in Nat /\ users \subseteq 1..MaxUser
          /\ (lastUser' = lastUser /\ users' = users)
             \/ (lastUser # MaxUser /\ lastUser' = lastUser + 1 /\ users' = users \union {lastUser + 1})
      BY <1>1, <2>1, BoundsAssumption DEF AddUser, Types, SharedTypes, UserId
    <3>2. lastUser' \in 0..MaxUser /\ users' \subseteq UserId
      <4>1. lastUser # MaxUser => lastUser + 1 \in 1..MaxUser
        BY <3>1
      <4>2. lastUser' = lastUser \/ lastUser' \in 1..MaxUser
        BY <3>1, <4>1
      <4>3. 1..MaxUser \subseteq 0..MaxUser
        BY BoundsAssumption
      <4> QED
        BY <3>1, <4>1, <4>2, <4>3 DEF UserId
    <3>3. conn' = conn
      BY <2>1 DEF AddUser
    <3> QED
      BY <1>1, <1>2, <3>2, <3>3 DEF Types, SharedTypes
  <2>2. CASE op = "closeTransport" /\ CloseTransport(t, Arg(t))
    BY <1>1, <1>2, <2>2 DEF CloseTransport, Types, SharedTypes
  <2>3. CASE op = "accept" /\ Accept(t, Arg(t))
    BY <1>1, <1>2, <2>3 DEF Accept, Types, SharedTypes, OnUser
  <2>4. CASE op \notin {"addUser", "closeTransport", "accept"}
    BY <1>1, <1>2, <2>4
    DEF SetEditor, ServerSetChair, SetTransport, ProcessFloorQuery, Types, SharedTypes
  <2> QED
    BY <2>1, <2>2, <2>3, <2>4
<1> QED
  BY <1>1, <1>2, <1>3, ReturnKeeps

\* Calls that make those about a user that follow
LEMMA AboutUserKeep ==
    ASSUME IInv, NEW t \in Thread, NEW op \in OnUser \ {"endNext"}, Makes(t, op),
           NEW calls \in Seq([op : OnUser, arg : 0..MaxUser]), MakesCalls(t, calls),
           op \notin Quiet, SharedTypes', UNCHANGED <<floorRequests, heap, ending, counter>>
    PROVE  IInv'
<1>1. Types /\ todo[t] # <<>> /\ Head(todo[t]).op = op
  BY CallMade DEF IInv
<1> DEFINE About == [op : OnUser, arg : 0..MaxUser]
<1>2. calls \in Seq(CallType) /\ \A i \in 1..Len(calls) : calls[i] \in About
  <2>1. About \subseteq CallType
    BY DEF CallType
  <2> HIDE DEF About
  <2>2. calls \in Seq(About)
    BY DEF About
  <2> QED
    BY <2>1, <2>2
<1>3. \A i \in 1..Len(calls) : calls[i].op \notin Pointing
  <2>1. \A c \in About : c.op \notin Pointing
    BY DEF OnUser, Pointing
  <2> HIDE DEF About
  <2> QED
    BY <1>2, <2>1
<1>4. /\ Head(todo[t]).op \notin {"grant", "deny", "onFloorRequest", "setGranted", "endNext"}
      /\ Head(todo[t]).op \notin Quiet
  BY <1>1 DEF OnUser
<1> QED
  BY <1>1, <1>2, <1>3, <1>4, CalmKeeps

\* Sequences of them
LEMMA AboutUser ==
    ASSUME NEW u \in 0..MaxUser, NEW a \in OnUser, NEW b \in OnUser
    PROVE  /\ <<>> \in Seq([op : OnUser, arg : 0..MaxUser])
           /\ <<Call(a, u)>> \in Seq([op : OnUser, arg : 0..MaxUser])
           /\ <<Call(a, u), Call(b, u)>> \in Seq([op : OnUser, arg : 0..MaxUser])
<1>1. Call(a, u) \in [op : OnUser, arg : 0..MaxUser] /\ Call(b, u) \in [op : OnUser, arg : 0..MaxUser]
  BY DEF Call
<1> QED
  BY <1>1

\* RemoveUser and SetChair
LEMMA RemoveUserKeeps ==
    ASSUME IInv, NEW t \in Thread, Makes(t, "removeUser"), RemoveUser(t, Arg(t))
    PROVE  IInv'
<1>1. Types /\ Arg(t) \in 0..MaxUser
  BY CallMade DEF IInv, OnUser
<1>2. SharedTypes' /\ UNCHANGED <<floorRequests, heap, ending, counter>>
  BY <1>1 DEF RemoveUser, Types, SharedTypes
<1>3. \/ MakesCalls(t, <<>>)
      \/ MakesCalls(t, <<Call("revokeUser", Arg(t)), Call("closeTransport", Arg(t))>>)
  BY DEF RemoveUser, Returns
<1>4. /\ "removeUser" \in OnUser \ {"endNext"} /\ "removeUser" \notin Quiet
      /\ "revokeUser" \in OnUser /\ "closeTransport" \in OnUser
  BY DEF OnUser, Quiet
<1>5. PICK calls \in Seq([op : OnUser, arg : 0..MaxUser]) : MakesCalls(t, calls)
  BY <1>1, <1>3, <1>4, AboutUser
<1> QED
  BY <1>2, <1>4, <1>5, AboutUserKeep

LEMMA SetChairKeeps ==
    ASSUME IInv, NEW t \in Thread, Makes(t, "setChair"), SetChair(t, Arg(t))
    PROVE  IInv'
<1>1. Types /\ Arg(t) \in 0..MaxUser
  BY CallMade DEF IInv, OnUser
<1>2. /\ SharedTypes' /\ UNCHANGED <<floorRequests, heap, ending, counter>>
      /\ MakesCalls(t, <<Call("serverSetChair", Arg(t))>>)
  BY <1>1 DEF SetChair, Types, SharedTypes
<1>3. /\ "setChair" \in OnUser \ {"endNext"} /\ "setChair" \notin Quiet /\ "serverSetChair" \in OnUser
  BY DEF OnUser, Quiet
<1>4. PICK calls \in Seq([op : OnUser, arg : 0..MaxUser]) : MakesCalls(t, calls)
  BY <1>1, <1>2, <1>3, AboutUser
<1> QED
  BY <1>2, <1>3, <1>4, AboutUserKeep

\* UserConnected and DisconnectUser, which begin with a reset of the user
LEMMA UserConnectedKeeps ==
    ASSUME IInv, NEW t \in Thread, NEW op \in {"userConnected", "disconnectUser"}, Makes(t, op),
           \/ op = "userConnected" /\ UserConnected(t, Arg(t))
           \/ op = "disconnectUser" /\ DisconnectUser(t, Arg(t))
    PROVE  IInv'
<1> DEFINE About == [op : OnUser, arg : 0..MaxUser]
<1>0. PICK u : u = Arg(t)
  OBVIOUS
<1>1. /\ Types /\ u \in 0..MaxUser
      /\ {"userConnected", "disconnectUser"} \subseteq OnUser \ ({"endNext"} \cup Quiet)
      /\ {"revokeUser", "closeTransport", "setTransport", "accept"} \subseteq OnUser
  BY <1>0, CallMade DEF IInv, OnUser, Quiet
<1> DEFINE reset == <<Call("revokeUser", u), Call("closeTransport", u)>>
           attach == <<Call("setTransport", u), Call("accept", u)>>
<1>2. reset \in Seq(About) /\ attach \in Seq(About) /\ <<>> \in Seq(About)
  BY <1>1, AboutUser
<1>3. reset \o attach \in Seq(About) /\ reset \o <<>> \in Seq(About)
  BY <1>2, ConcatProperties
<1>4. /\ \/ MakesCalls(t, <<>>) \/ MakesCalls(t, attach)
         \/ MakesCalls(t, reset \o attach) \/ MakesCalls(t, reset \o <<>>)
      /\ UNCHANGED <<floorRequests, heap, ending, counter, lastUser, users, conn>>
  BY <1>0 DEF UserConnected, DisconnectUser, ResetUser, Returns, shared
<1>5. SharedTypes'
  BY <1>1, <1>4 DEF Types, SharedTypes
<1>6. PICK calls \in Seq(About) : MakesCalls(t, calls)
  BY <1>2, <1>3, <1>4
<1> QED
  BY <1>1, <1>4, <1>5, <1>6, AboutUserKeep

\* onClose and UserDisconnected
LEMMA onCloseKeeps ==
    ASSUME IInv, NEW t \in Thread, NEW op \in {"onClose", "userDisconnected"}, Makes(t, op),
           \/ op = "onClose" /\ onClose(t, Arg(t))
           \/ op = "userDisconnected" /\ UserDisconnected(t, Arg(t))
    PROVE  IInv'
<1>0. PICK u : u = Arg(t)
  OBVIOUS
<1>1. /\ Types /\ u \in 0..MaxUser
      /\ {"onClose", "userDisconnected"} \subseteq OnUser \ ({"endNext"} \cup Quiet)
      /\ {"revokeUser", "userDisconnected"} \subseteq OnUser
  BY <1>0, CallMade DEF IInv, OnUser, Quiet
<1>2. /\ \/ MakesCalls(t, <<>>) \/ MakesCalls(t, <<Call("userDisconnected", u)>>)
         \/ MakesCalls(t, <<Call("revokeUser", u)>>)
      /\ UNCHANGED <<floorRequests, heap, ending, counter, lastUser, users>>
      /\ conn' = conn \/ conn' = [conn EXCEPT ![t].state = "closed"]
  BY <1>0 DEF onClose, UserDisconnected, Returns, shared
<1>3. SharedTypes'
  BY <1>1, <1>2 DEF Types, SharedTypes
<1>4. PICK calls \in Seq([op : OnUser, arg : 0..MaxUser]) : MakesCalls(t, calls)
  BY <1>1, <1>2, AboutUser
<1> QED
  BY <1>1, <1>2, <1>3, <1>4, AboutUserKeep

\* End: the thread that sets ending goes on to empty the map, ...
LEMMA EndKeeps ==
    ASSUME IInv, NEW t \in Thread, Makes(t, "end"), End(t)
    PROVE  IInv'
<1>1. Types /\ Known /\ todo[t] # <<>> /\ Head(todo[t]).op = "end"
  BY CallMade DEF IInv
<1>2. /\ ending' = TRUE /\ UNCHANGED <<lastUser, users, conn, counter, floorRequests, heap>>
      /\ IF ending THEN MakesCalls(t, <<>>) ELSE MakesCalls(t, <<Call("endNext", Nobody)>>)
  BY DEF End
<1>3. SharedTypes' /\ Known'
  BY <1>1, <1>2 DEF Types, SharedTypes, Known
<1>4. PICK c : /\ c = IF ending THEN <<>> ELSE <<Call("endNext", Nobody)>>
               /\ MakesCalls(t, c)
  BY <1>2
<1>5. /\ Call("endNext", Nobody) \in CallType
      /\ Call("endNext", Nobody).op = "endNext"
  BY CallTypes, BoundsAssumption DEF OnUser, Nobody
<1>6. /\ c \in Seq(CallType) /\ \A i \in 1..Len(c) : c[i].op = "endNext"
      /\ ~ ending => 1 \in 1..Len(c)
  <2>1. CASE ending
    BY <1>4, <2>1
  <2>2. CASE ~ ending
    BY <1>4, <1>5, <2>2
  <2> QED
    BY <2>1, <2>2
<1>7. Safe(c)' /\ Head(todo[t]).op \notin Quiet
  BY <1>1, <1>6 DEF Safe, Quiet, Pointing
<1>8. ending' /\ floorRequests' # {} =>
         \/ \E i \in 1..Len(c) : c[i].op = "endNext"
         \/ ending /\ floorRequests # {} /\ Head(todo[t]).op # "endNext"
  BY <1>1, <1>2, <1>6
<1> QED
  BY <1>1, <1>2, <1>3, <1>4, <1>6, <1>7, <1>8, StepKeeps

\* ... until it is empty.
LEMMA EndNextKeeps ==
    ASSUME IInv, NEW t \in Thread, Makes(t, "endNext"), EndNext(t)
    PROVE  IInv'
<1>1. Types /\ Known /\ todo[t] # <<>> /\ Head(todo[t]).op = "endNext"
  BY CallMade DEF IInv
<1>2. /\ \A r : ~ Decides(Head(todo[t]), r)
      /\ Head(todo[t]).op \notin Quiet
  BY <1>1 DEF Decides, Quiet
<1>3. ASSUME NEW r \in floorRequests, UNCHANGED shared,
             MakesCalls(t, <<Call("revokeOrDeny", {r.id}), Call("endNext", Nobody)>>)
      PROVE  IInv'
  <2>1. /\ SharedTypes' /\ Known' /\ floorRequests' = floorRequests /\ (ending => ending')
    BY <1>1, <1>3 DEF shared, Types, SharedTypes, Known
  <2>2. /\ Call("revokeOrDeny", {r.id}) \in CallType /\ Call("revokeOrDeny", {r.id}).op = "revokeOrDeny"
        /\ Call("endNext", Nobody) \in CallType /\ Call("endNext", Nobody).op = "endNext"
    <3>1. {r.id} \in SUBSET Nat
      BY <1>1 DEF Types, SharedTypes, Request
    <3> QED
      BY <3>1, CallTypes, BoundsAssumption DEF OnUser, OnIds, Nobody
  <2>3. PICK c : c = <<Call("revokeOrDeny", {r.id}), Call("endNext", Nobody)>>
    OBVIOUS
  <2>4. /\ c \in Seq(CallType) /\ Len(c) = 2 /\ MakesCalls(t, c)
        /\ c[1].op = "revokeOrDeny" /\ c[2].op = "endNext"
    BY <1>3, <2>2, <2>3
  <2>5. Safe(c)' /\ \E i \in 1..Len(c) : c[i].op = "endNext"
    <3>1. \A i \in 1..Len(c) : c[i].op \notin Pointing
      BY <2>4 DEF Pointing
    <3>2. 2 \in 1..Len(c)
      BY <2>4
    <3> QED
      BY <2>4, <3>1, <3>2 DEF Safe
  <2> QED
    BY <1>1, <1>2, <2>1, <2>4, <2>5, StepKeeps
<1>4. ASSUME floorRequests = {}, Returns(t), users' = {},
             conn' = [c \in Conn |-> IF \E u \in users : transport[u] = c
                                     THEN [conn[c] EXCEPT !.closedByServer = TRUE] ELSE conn[c]],
             UNCHANGED <<lastUser, counter, ending, floorRequests, heap>>
      PROVE  IInv'
  <2>1. SharedTypes' /\ Known' /\ floorRequests' = {} /\ (ending => ending')
    BY <1>1, <1>4 DEF Types, SharedTypes, Known
  <2>2. MakesCalls(t, <<>>) /\ <<>> \in Seq(CallType) /\ Safe(<<>>)'
    BY <1>4 DEF Returns, Safe
  <2> QED
    BY <1>1, <1>2, <2>1, <2>2, StepKeeps
<1> QED
  BY <1>3, <1>4 DEF EndNext

-----------------------------------------------------------------------------
(* Messages.                                                               *)

\* A new request has an id of its own, and is to be decided.
LEMMA ProcessFloorRequestKeeps ==
    ASSUME IInv, NEW t \in Thread, Makes(t, "floorRequest"), ProcessFloorRequest(t, Arg(t))
    PROVE  IInv'
<1>1. /\ Types /\ Known /\ todo[t] # <<>> /\ Head(todo[t]).op = "floorRequest"
      /\ Arg(t) \in [user : UserId, beneficiary : UserId, floors : Requested]
  BY CallMade DEF IInv
<1>2. PICK m : m = Arg(t)
  OBVIOUS
<1>3. CASE Returns(t) /\ UNCHANGED shared
  <2>1. SharedTypes' /\ UNCHANGED <<floorRequests, heap, ending, counter>>
    BY <1>1, <1>3 DEF shared, Types, SharedTypes
  <2> QED
    BY <1>1, <1>3, <2>1, ReturnKeeps
<1>4. PICK new : new = [id |-> counter, user |-> m.user, beneficiary |-> m.beneficiary,
                        floors |-> m.floors, status |-> "Pending"]
  OBVIOUS
<1>5. CASE /\ ~ Refused(m) /\ counter' = counter + 1
           /\ floorRequests' = floorRequests \union {new}
           /\ heap' = heap \union {counter}
           /\ MakesCalls(t, IF m.user \in chairs THEN <<Call("grant", counter)>>
                            ELSE <<Call("onFloorRequest", new)>>)
           /\ UNCHANGED <<lastUser, users, ending, conn>>
  <2>1. PICK n \in Nat : n = counter /\ counter' = n + 1
    BY <1>1, <1>5 DEF Types, SharedTypes
  <2>2. new \in Request /\ new.id = n /\ Nat = Nat
    BY <1>1, <1>2, <1>4, <2>1 DEF Request
  <2>3. SharedTypes'
    BY <1>1, <1>5, <2>1, <2>2 DEF Types, SharedTypes
  <2>4. Known'
    <3>1. \A r \in floorRequests : r.id \in Nat /\ r.id < n /\ r.id \in heap
      BY <1>1, <2>1 DEF Known, Types, SharedTypes, Request
    <3>2. \A r \in floorRequests' : r.id < n + 1 /\ r.id \in heap'
      BY <1>5, <2>1, <2>2, <3>1
    <3>3. \A r \in floorRequests : r.id # new.id
      BY <2>2, <3>1
    <3>4. \A r, s \in floorRequests' : r.id = s.id => r = s
      BY <1>1, <1>5, <3>3 DEF Known
    <3> QED
      BY <2>1, <3>2, <3>4 DEF Known
  <2>5. ~ ending /\ ~ ending'
    BY <1>1, <1>5 DEF Refused
  <2>6. PICK call \in CallType : MakesCalls(t, <<call>>) /\ Decides(call, new) /\ call.op \notin Pointing
    <3>1. /\ Call("grant", counter) \in CallType /\ Call("onFloorRequest", new) \in CallType
          /\ Decides(Call("grant", counter), new) /\ Decides(Call("onFloorRequest", new), new)
          /\ Call("grant", counter).op \notin Pointing /\ Call("onFloorRequest", new).op \notin Pointing
      <4>1. counter \in Nat /\ counter = new.id
        BY <2>1, <2>2
      <4> QED
        BY <2>2, <4>1, CallTypes DEF Decides, Pointing, OnId, OnRequest
    <3>2. MakesCalls(t, <<Call("grant", counter)>>) \/ MakesCalls(t, <<Call("onFloorRequest", new)>>)
      BY <1>5
    <3> QED
      BY <3>1, <3>2
  <2>7. PICK c : c = <<call>>
    OBVIOUS
  <2>8. c \in Seq(CallType) /\ Len(c) = 1 /\ c[1] = call /\ MakesCalls(t, c)
    BY <2>6, <2>7
  <2>9. Safe(c)' /\ Head(todo[t]).op \notin Quiet
    BY <1>1, <2>6, <2>8 DEF Safe, Quiet
  <2>10. \A r \in floorRequests' : \/ r \in floorRequests /\ ~ Decides(Head(todo[t]), r)
                                   \/ \E i \in 1..Len(c) : Decides(c[i], r)
    <3>1. 1 \in 1..Len(c) /\ Decides(c[1], new)
      BY <2>6, <2>8
    <3>2. \A r : ~ Decides(Head(todo[t]), r)
      BY <1>1 DEF Decides
    <3> QED
      BY <1>5, <3>1, <3>2
  <2> QED
    BY <1>1, <2>3, <2>4, <2>5, <2>8, <2>9, <2>10, StepKeeps
<1> QED
  BY <1>2, <1>3, <1>4, <1>5 DEF ProcessFloorRequest

\* A request is released in whatever state it is.
LEMMA ProcessFloorReleaseKeeps ==
    ASSUME IInv, NEW t \in Thread, Makes(t, "floorRelease"), ProcessFloorRelease(t, Arg(t))
    PROVE  IInv'
<1>1. Types /\ todo[t] # <<>> /\ Head(todo[t]).op = "floorRelease"
  BY CallMade DEF IInv
<1>2. ASSUME NEW r \in floorRequests, EndRequest(t, r, IsGranted(r))
      PROVE  IInv'
  BY <1>1, <1>2, EndRequestKeeps, ZenonT(30)
<1>3. CASE Returns(t) /\ UNCHANGED shared
  <2>1. SharedTypes' /\ UNCHANGED <<floorRequests, heap, ending, counter>>
    BY <1>1, <1>3 DEF shared, Types, SharedTypes
  <2> QED
    BY <1>1, <1>3, <2>1, ReturnKeeps
<1> QED
  BY <1>2, <1>3 DEF ProcessFloorRelease, GetFloorRequest

-----------------------------------------------------------------------------
(* The handlers that threads start, and the next-state relation.           *)

\* A thread that starts a handler was idle: every other call is still to be made.
LEMMA StartKeeps ==
    ASSUME IInv, NEW t \in Thread, NEW c \in CallType, c.op \notin Pointing, Starts(t, c)
    PROVE  IInv'
<1>1. /\ Types /\ Known /\ Deciding /\ Emptying /\ Serially
      /\ todo \in [Thread -> Seq(CallType)]
  BY DEF IInv, Types
<1>2. /\ todo[t] = <<>> /\ todo' = [todo EXCEPT ![t] = <<c>>]
      /\ Serial => \A x \in Thread : todo[x] = <<>>
      /\ UNCHANGED <<lastUser, users, conn, counter, ending, floorRequests, heap>>
  BY DEF Starts, shared
<1>3. /\ todo' \in [Thread -> Seq(CallType)]
      /\ todo'[t] = <<c>>
      /\ \A u \in Thread : u # t => todo'[u] = todo[u]
  BY <1>1, <1>2
<1>4. Types' /\ Known'
  BY <1>1, <1>2, <1>3 DEF Types, SharedTypes, Known
<1>5. ASSUME NEW u \in Thread, NEW i \in 1..Len(todo[u])
      PROVE  todo'[u] = todo[u]
  <2>1. u # t
    BY <1>2
  <2> QED
    BY <1>3, <2>1
<1>6. Deciding'
  <2> SUFFICES ASSUME ~ ending', NEW r \in floorRequests', ~ IsGranted(r)
               PROVE  \E u \in Thread : \E k \in 1..Len(todo'[u]) : Decides(todo'[u][k], r)
    BY DEF Deciding, Decides, IsGranted
  <2>1. PICK u \in Thread : \E i \in 1..Len(todo[u]) : Decides(todo[u][i], r)
    BY <1>1, <1>2 DEF Deciding
  <2>2. PICK i \in 1..Len(todo[u]) : Decides(todo[u][i], r)
    BY <2>1
  <2> QED
    BY <1>5, <2>2
<1>7. Emptying'
  <2> SUFFICES ASSUME ending', floorRequests' # {}
               PROVE  \E u \in Thread : \E k \in 1..Len(todo'[u]) : todo'[u][k].op = "endNext"
    BY DEF Emptying
  <2>1. PICK u \in Thread : \E i \in 1..Len(todo[u]) : todo[u][i].op = "endNext"
    BY <1>1, <1>2 DEF Emptying
  <2>2. PICK i \in 1..Len(todo[u]) : todo[u][i].op = "endNext"
    BY <2>1
  <2> QED
    BY <1>5, <2>2
<1>8. Serially'
  <2> SUFFICES ASSUME Serial PROVE Alone' /\ \A u \in Thread : Safe(todo[u])'
    BY DEF Serially
  <2>1. \A u \in Thread : u # t => todo'[u] = <<>>
    BY <1>2, <1>3
  <2>2. Safe(todo[t])'
    <3>1. \A j \in 1..Len(todo'[t]) : todo'[t][j].op \notin Pointing
      BY <1>3
    <3> QED
      BY <3>1 DEF Safe
  <2>3. \A u \in Thread : u # t => Safe(todo[u])'
    BY <2>1 DEF Safe
  <2> QED
    BY <2>1, <2>2, <2>3 DEF Alone
<1> QED
  BY <1>4, <1>6, <1>7, <1>8 DEF IInv

\* The handlers that XML-RPC starts
LEMMA AdministerKeeps ==
    ASSUME IInv, Administer
    PROVE  IInv'
<1>1. control \in Thread /\ Nobody \in 0..MaxUser /\ UserId \subseteq 0..MaxUser /\ users \subseteq UserId
  BY BoundsAssumption DEF Thread, Nobody, UserId, IInv, Types, SharedTypes
<1>2. ASSUME NEW op \in {"addUser", "removeUser", "setChair", "end"}, NEW u \in 0..MaxUser,
             Starts(control, Call(op, u))
      PROVE  IInv'
  <2>1. Call(op, u) \in CallType /\ Call(op, u).op \notin Pointing
    BY CallTypes DEF OnUser, Pointing
  <2> QED
    BY <1>1, <1>2, <2>1, StartKeeps
<1> QED
  BY <1>1, <1>2 DEF Administer

\* A connection is accepted for a user.
LEMMA ConnectKeeps ==
    ASSUME IInv, NEW c \in Conn, Connect(c)
    PROVE  IInv'
<1>1. PICK u \in users : Starts(c, Call("userConnected", u))
  BY DEF Connect
<1>2. c \in Thread /\ u \in 0..MaxUser
  BY <1>1, BoundsAssumption DEF Thread, UserId, IInv, Types, SharedTypes
<1>3. Call("userConnected", u) \in CallType /\ Call("userConnected", u).op \notin Pointing
  BY <1>2, CallTypes DEF OnUser, Pointing
<1> QED
  BY <1>1, <1>2, <1>3, StartKeeps

\* The messages a connection delivers, and its end
LEMMA ReceiveKeeps ==
    ASSUME IInv, NEW c \in Conn, Receive(c)
    PROVE  IInv'
<1>1. PICK u : u = conn[c].user
  OBVIOUS
<1>2. /\ c \in Thread /\ u \in 0..MaxUser /\ users \subseteq UserId
      /\ \A r \in floorRequests : r.id \in Nat
  BY <1>1 DEF Thread, IInv, Types, SharedTypes, Request
<1>3. ASSUME NEW op \in {"onClose", "disconnectUser"}, Starts(c, Call(op, u))
      PROVE  IInv'
  <2>1. Call(op, u) \in CallType /\ Call(op, u).op \notin Pointing
    BY <1>2, CallTypes DEF OnUser, Pointing
  <2> QED
    BY <1>2, <1>3, <2>1, StartKeeps
<1>4. ASSUME NEW op, NEW m, Starts(c, Call(op, m)), u \in UserId,
             \/ /\ op = "floorRequest"
                /\ m \in [user : UserId, beneficiary : UserId, floors : Requested]
             \/ op = "floorRelease" /\ m \in [user : UserId, id : Nat]
             \/ op = "floorQuery" /\ m \in [user : UserId, floors : Queried]
      PROVE  IInv'
  <2>1. Call(op, m) \in CallType /\ Call(op, m).op \notin Pointing
    BY <1>4 DEF Call, CallType, Pointing
  <2> QED
    BY <1>2, <1>4, <2>1, StartKeeps
<1>5. ASSUME u \in users, NEW b \in UserId, NEW fs \in Requested,
             Starts(c, Call("floorRequest", [user |-> u, beneficiary |-> b, floors |-> fs]))
      PROVE  IInv'
  <2>1. u \in UserId
    BY <1>2, <1>5
  <2>2. [user |-> u, beneficiary |-> b, floors |-> fs]
            \in [user : UserId, beneficiary : UserId, floors : Requested]
    BY <2>1
  <2> QED
    BY <1>4, <1>5, <2>1, <2>2
<1>6. ASSUME u \in users, NEW r \in floorRequests,
             Starts(c, Call("floorRelease", [user |-> u, id |-> r.id]))
      PROVE  IInv'
  <2>1. u \in UserId /\ [user |-> u, id |-> r.id] \in [user : UserId, id : Nat]
    BY <1>2, <1>6
  <2> QED
    BY <1>4, <1>6, <2>1
<1>7. ASSUME u \in users, NEW fs \in Queried,
             Starts(c, Call("floorQuery", [user |-> u, floors |-> fs]))
      PROVE  IInv'
  <2>1. u \in UserId /\ [user |-> u, floors |-> fs] \in [user : UserId, floors : Queried]
    BY <1>2, <1>7
  <2> QED
    BY <1>4, <1>7, <2>1
<1> QED
  BY <1>1, <1>3, <1>5, <1>6, <1>7 DEF Receive

\* The calls a thread makes
LEMMA CallKeeps ==
    ASSUME IInv, NEW t \in Thread, Step(t)
    PROVE  IInv'
<1>1. ASSUME Makes(t, "onFloorGranted"), onFloorGranted(t, Arg(t)) PROVE IInv'
  <2>1. Arg(t).beneficiary \in 0..MaxUser
    <3>1. Arg(t) \in Request
      BY <1>1, CallMade DEF IInv, OnRequest
    <3> QED
      BY <3>1, BoundsAssumption DEF Request, UserId
  <2>2. OnFloorChange(t, Arg(t).floors, Arg(t).beneficiary)
    BY <1>1 DEF onFloorGranted
  <2> QED
    BY <1>1, <2>1, <2>2, OnFloorChangeKeeps
<1>2. ASSUME Makes(t, "onFloorReleased"), onFloorReleased(t, Arg(t)) PROVE IInv'
  <2>1. Nobody \in 0..MaxUser /\ OnFloorChange(t, Arg(t).floors, Nobody)
    BY <1>2, BoundsAssumption DEF onFloorReleased, Nobody
  <2> QED
    BY <1>2, <2>1, OnFloorChangeKeeps
<1> QED
  BY <1>1, <1>2, GrantKeeps, RevokeIfGrantedKeeps, SetGrantedKeeps, DenyKeeps, RevokeKeeps,
     RevokeUserKeeps, RevokeOrDenyKeeps, onFloorRequestKeeps, RevokeEditorKeeps, ReturningKeep,
     RemoveUserKeeps, SetChairKeeps, EndKeeps, EndNextKeeps, UserConnectedKeeps, onCloseKeeps,
     ProcessFloorRequestKeeps, ProcessFloorReleaseKeeps
  DEF Step

\* The invariant holds in every state.
THEOREM InvariantHolds == Spec => []IInv
<1>1. Init => IInv
  <2> SUFFICES ASSUME Init PROVE IInv
    OBVIOUS
  <2>1. Types
    <3>1. SharedTypes
      <4>1. 0 \in 0..MaxUser /\ 1 \in Nat
        BY BoundsAssumption
      <4>2. conn = [c \in Conn |-> [user |-> 0, state |-> "new", closedByServer |-> FALSE]]
        BY DEF Init, Nobody
      <4>3. /\ lastUser = 0 /\ users = {} /\ counter = 1 /\ ending = FALSE /\ floorRequests = {}
        BY DEF Init
      <4> QED
        BY <4>1, <4>2, <4>3 DEF SharedTypes
    <3>2. <<>> \in Seq(CallType)
      OBVIOUS
    <3> QED
      BY <3>1, <3>2 DEF Init, Types
  <2>2. Known /\ Deciding /\ Emptying
    BY DEF Init, Known, Deciding, Emptying
  <2>3. Serially
    BY DEF Init, Serially, Alone, Safe
  <2> QED
    BY <2>1, <2>2, <2>3 DEF IInv
<1>2. IInv /\ [Next]_vars => IInv'
  <2>1. ASSUME IInv, Next PROVE IInv'
    BY <2>1, AdministerKeeps, ConnectKeeps, ReceiveKeeps, CallKeeps DEF Next
  <2>2. ASSUME IInv, UNCHANGED vars PROVE IInv'
    BY <2>2 DEF vars, shared, IInv, Types, SharedTypes, Known, Deciding, Emptying, Serially,
                Alone, Safe, PointsTo, Decides, IsGranted
  <2> QED
    BY <2>1, <2>2
<1> QED
  BY <1>1, <1>2, PTL DEF Spec

-----------------------------------------------------------------------------
(* What the runs check.                                                    *)

\* Every request is decided (MultiConf::onFloorRequest, GrantFloorRequest,
\* DenyFloorRequest, End): when no handler runs, the map has only Granted requests,
\* whether or not the handlers of different connections interleave.
THEOREM EveryDecided == Spec => []EveryRequestDecided
<1>1. IInv => EveryRequestDecided
  <2> SUFFICES ASSUME IInv, \A t \in Thread : todo[t] = <<>>, NEW r \in floorRequests
               PROVE  IsGranted(r)
    BY DEF EveryRequestDecided, Idle
  <2>1. \A t \in Thread : ~ \E i \in 1..Len(todo[t]) : TRUE
    OBVIOUS
  <2>2. ~ ending
    BY <2>1 DEF IInv, Emptying
  <2> QED
    BY <2>1, <2>2 DEF IInv, Deciding
<1> QED
  BY <1>1, InvariantHolds, PTL

\* GrantFloorRequest uses pointers to live requests only, if no other handler runs
\* at the same time: what the listener does in the revocations that GrantFloorRequest
\* makes deletes no request, so floorRequestsToRevoke and the new request stay valid.
THEOREM NothingDangles == ASSUME Serial PROVE Spec => []NoDanglingRequest
<1>1. IInv => NoDanglingRequest
  <2> SUFFICES ASSUME IInv, NEW t \in Thread,
                      Makes(t, "revokeIfGranted") \/ Makes(t, "setGranted")
               PROVE  PointsTo(Head(todo[t])) \subseteq heap
    BY DEF NoDanglingRequest, PointsTo, Makes, Arg
  <2>1. todo[t] # <<>> /\ todo[t] \in Seq(CallType) /\ Head(todo[t]).op \in Pointing
    BY DEF Makes, Pointing, IInv, Types
  <2>2. 1 \in 1..Len(todo[t]) /\ Head(todo[t]) = todo[t][1]
    BY <2>1, EmptySeq
  <2>3. Safe(todo[t])
    BY DEF IInv, Serially
  <2> QED
    BY <2>1, <2>2, <2>3 DEF Safe
<1> QED
  BY <1>1, InvariantHolds, PTL


-----------------------------------------------------------------------------
(* What a handler has done so far, since the state C it started in.        *)

Bare(r) == [id |-> r.id, user |-> r.user, beneficiary |-> r.beneficiary, floors |-> r.floors]
Full(r) == [id |-> r.id, user |-> r.user, beneficiary |-> r.beneficiary, floors |-> r.floors,
            status |-> "Granted"]
Start(C) == {Full(r) : r \in C.requests}
BareRequest == [id : Nat, user : UserId, beneficiary : UserId, floors : Requested]

\* The requests of extra that are Granted
Given(extra) == {r \in extra : IsGranted(r)}

\* What the users know once those in gone were reported as ended and the Granted one
\* of extra as such. Nothing is said of u, which is about to lose its transport.
Knows(C, gone, extra, u) ==
    /\ told = [v \in UserId |-> told[v]]
    /\ \A v \in UserId :
          IF v \in users /\ transport[v] # NoConn
          THEN v # u => told[v] = (C.told[v] \ FC!Reports(gone, queried[v]))
                                  \cup FC!Reports(Given(extra), queried[v])
          ELSE v # u \/ transport[v] = NoConn => told[v] = {}

\* Who presents and who edits
Presents(C, gone, extra) ==
    /\ \A n \in Given(extra) : Presenter \in n.floors => presenterId = n.beneficiary
    /\ (\A n \in Given(extra) : Presenter \notin n.floors)
          => presenterId = FC!AfterRelease(C.presenterId, gone, Presenter)
Edits(C, gone) == editorId = FC!AfterRelease(C.editorId, gone, Editor)

Drops(rs) == \E r \in rs : FC!DropsEditor(r.floors)

\* The Editor floor is free if it has to be.
Settled(C, gone, extra) ==
    Drops(gone \cup Given(extra)) => \A r \in Start(C) \ gone : Editor \notin r.floors

Apart(r, extra) == \A n \in Given(extra) : n.floors \cap r.floors = {}

\* The call of a revocation that is in progress, none or one
Inner(C, inner, gone, all, extra) ==
    \/ inner = <<>> /\ Presents(C, gone, extra) /\ Edits(C, gone) /\ Settled(C, gone, extra)
    \/ \E r \in all \ gone :
          /\ inner = <<Call("revoke", r.id)>>
          /\ Presents(C, gone, extra) /\ Edits(C, gone) /\ Apart(r, extra)
          /\ Settled(C, gone, extra) \/ Editor \in r.floors
    \/ \E r \in gone :
          /\ inner = <<Call("onFloorReleased", r)>>
          /\ Presents(C, gone \ {r}, extra) /\ Edits(C, gone \ {r}) /\ Apart(r, extra)
          /\ Settled(C, gone \ {r}, extra) \/ Editor \in r.floors
    \/ /\ inner = <<Call("revokeEditor", Nobody)>>
       /\ Presents(C, gone, extra) /\ Edits(C, gone) /\ Drops(gone \cup Given(extra))
    \/ \E r \in gone :
          /\ inner = <<Call("setEditor", Nobody)>>
          /\ Editor \in r.floors /\ Presents(C, gone, extra)

\* The requests to be revoked, and all that falls with them
Tight(C, these, all, extra) ==
    /\ these \subseteq all /\ all \subseteq Start(C)
    /\ \A r \in all \ these : Editor \in r.floors /\ Drops(these \cup Given(extra)) /\ Apart(r, extra)
    /\ \A e \in Start(C) : Editor \in e.floors /\ Drops(all \cup Given(extra)) => e \in all
    /\ \A n \in Given(extra) : Editor \notin n.floors

\* A thread that revokes requests: gone have ended, ids are left to the loop.
At(C, t, u, these, all, extra, op, tail, gone, inner, ids) ==
    /\ gone \subseteq all /\ ids \in SUBSET Nat
    /\ floorRequests = (Start(C) \ gone) \cup extra
    /\ Knows(C, gone, extra, u)
    /\ Inner(C, inner, gone, all, extra)
    /\ \A r \in these : r \in gone \/ r.id \in ids \/ inner = <<Call("revoke", r.id)>>
    /\ \A r \in Start(C) : r.id \in ids => r \in these
    /\ Given(extra) # {} => these \subseteq gone /\ ids = {}
    /\ todo[t] = inner \o (Loop(op, ids) \o tail)

Revoking(C, t, u, these, all, extra, op, tail) ==
    \E gone, inner, ids : At(C, t, u, these, all, extra, op, tail, gone, inner, ids)

\* The state a handler starts in
Based(C) ==
    /\ C.requests \subseteq BareRequest /\ C.counter \in Nat
    /\ \A r \in C.requests : r.id < C.counter
    /\ \A r, s \in C.requests : r.id = s.id => r = s
    /\ \A r, s \in C.requests : \A f \in Floor : f \in r.floors /\ f \in s.floors => r = s
    /\ C.told = [v \in UserId |-> C.told[v]]
    /\ C.queried = [v \in UserId |-> C.queried[v]]
    /\ C.answered = [v \in UserId |-> C.answered[v]]
    /\ C.transport = [v \in UserId |-> C.transport[v]]
    /\ \A v \in UserId : v \notin C.users \/ C.transport[v] = NoConn => C.told[v] = {}
    /\ \A v \in UserId : \A x \in C.told[v] : x[2] \in Nat /\ x[2] < C.counter
    /\ C.ending => C.users = {} /\ C.requests = {}

-----------------------------------------------------------------------------
(* Lists of calls.                                                         *)

\* The first call of a list that begins with it
LEMMA First ==
    ASSUME NEW c \in CallType, NEW s \in Seq(CallType)
    PROVE  /\ <<c>> \in Seq(CallType) /\ <<c>> \o s \in Seq(CallType) /\ <<c>> \o s # <<>>
           /\ Head(<<c>> \o s) = c /\ Tail(<<c>> \o s) = s
<1>1. <<c>> \in Seq(CallType) /\ Len(<<c>>) = 1 /\ <<c>>[1] = c
  OBVIOUS
<1> DEFINE q == <<c>> \o s
<1>2. /\ q \in Seq(CallType) /\ Len(q) = 1 + Len(s) /\ Len(s) \in Nat
      /\ \A i \in 1..(1 + Len(s)) : q[i] = IF i <= 1 THEN <<c>>[i] ELSE s[i - 1]
  BY <1>1, ConcatProperties, LenProperties
<1> HIDE DEF q
<1>3. q # <<>> /\ Head(q) = c
  <2>1. q[1] = c
    BY <1>1, <1>2
  <2>2. q # <<>>
    BY <1>2
  <2> QED
    BY <1>2, <2>1, <2>2
<1>4. Tail(q) = s
  <2>1. /\ Tail(q) \in Seq(CallType) /\ Len(Tail(q)) = Len(q) - 1
        /\ \A i \in 1..Len(Tail(q)) : Tail(q)[i] = q[i + 1]
    BY <1>2, <1>3, HeadTailProperties
  <2>2. Len(Tail(q)) = Len(s)
    BY <1>2, <2>1
  <2>3. ASSUME NEW i \in 1..Len(Tail(q)) PROVE Tail(q)[i] = s[i]
    <3>1. i + 1 \in 1..(1 + Len(s)) /\ ~(i + 1 <= 1) /\ (i + 1) - 1 = i
      BY <1>2, <2>2
    <3>2. q[i + 1] = s[(i + 1) - 1]
      BY <1>2, <3>1
    <3> QED
      BY <2>1, <3>1, <3>2
  <2> QED
    BY <2>1, <2>2, <2>3, SeqEqual
<1> QED
  BY <1>1, <1>2, <1>3, <1>4 DEF q

\* The first call is replaced by those it makes.
LEMMA Replaced ==
    ASSUME Types, NEW t \in Thread, NEW c \in CallType, NEW s \in Seq(CallType),
           todo[t] = <<c>> \o s, NEW calls, MakesCalls(t, calls)
    PROVE  todo'[t] = calls \o s
<1>1. Tail(todo[t]) = s
  BY First
<1>2. todo'[t] = calls \o Tail(todo[t])
  BY DEF MakesCalls, Types
<1> QED
  BY <1>1, <1>2

-----------------------------------------------------------------------------
(* Facts about requests and reports.                                       *)

\* The requests in the map when a handler starts
LEMMA StartFacts ==
    ASSUME NEW C, Based(C)
    PROVE  /\ Start(C) \subseteq Request
           /\ \A r \in Start(C) : IsGranted(r) /\ r.id < C.counter /\ r.id \in Nat
           /\ \A r, s \in Start(C) : r.id = s.id => r = s
           /\ \A r, s \in Start(C) : \A f \in Floor : f \in r.floors /\ f \in s.floors => r = s
<1>1. \A r \in C.requests : r \in BareRequest /\ r.id < C.counter
  BY DEF Based
<1>2. \A r \in Start(C) : \E b \in C.requests : r = Full(b)
  BY DEF Start
<1>3. ASSUME NEW b \in C.requests
      PROVE  /\ Full(b) \in Request /\ IsGranted(Full(b)) /\ Full(b).id = b.id /\ b.id \in Nat
             /\ Full(b).floors = b.floors
  BY <1>1 DEF Full, Request, BareRequest, IsGranted
<1>4. \A r, s \in Start(C) : r.id = s.id => r = s
  BY <1>2, <1>3 DEF Based
<1>5. \A r, s \in Start(C) : \A f \in Floor : f \in r.floors /\ f \in s.floors => r = s
  BY <1>2, <1>3 DEF Based
<1> QED
  BY <1>1, <1>2, <1>3, <1>4, <1>5

\* What is reported about requests
LEMMA ReportsOf ==
    ASSUME NEW rs, NEW q, NEW x
    PROVE  x \in FC!Reports(rs, q) <=> \E r \in rs : x \in (r.floors \cap q) \X {r.id}
  BY DEF FC!Reports

\* The end of a request is reported.
LEMMA EndReported ==
    ASSUME NEW C, NEW gone, NEW extra, NEW u, NEW r \in Request,
           Knows(C, gone, extra, u), \A n \in Given(extra) : n.id # r.id,
           Notify([r EXCEPT !.status = "Revoked"]), UNCHANGED <<users, transport, queried>>
    PROVE  Knows(C, gone \cup {r}, extra, u)'
<1> DEFINE reports(v) == (r.floors \cap queried[v]) \X {r.id}
<1>1. told' = [v \in UserId |->
                 IF v \notin users \/ transport[v] = NoConn THEN told[v] ELSE told[v] \ reports(v)]
  <2> DEFINE s == [r EXCEPT !.status = "Revoked"]
  <2>1. s.floors = r.floors /\ s.id = r.id /\ ~ IsGranted(s)
    BY DEF Request, IsGranted
  <2>2. told' = [v \in UserId |->
                  IF v \notin users \/ transport[v] = NoConn THEN told[v]
                  ELSE IF IsGranted(s) THEN told[v] \union ((s.floors \cap queried[v]) \X {s.id})
                                       ELSE told[v] \ ((s.floors \cap queried[v]) \X {s.id})]
    BY DEF Notify
  <2> HIDE DEF s
  <2> QED
    BY <2>1, <2>2
<1>2. told' = [v \in UserId |-> told'[v]]
  BY <1>1
<1>3. ASSUME NEW v \in UserId, v \in users, transport[v] # NoConn, v # u
      PROVE  told'[v] = (C.told[v] \ FC!Reports(gone \cup {r}, queried[v]))
                        \cup FC!Reports(Given(extra), queried[v])
  <2>1. told'[v] = told[v] \ reports(v)
    BY <1>1, <1>3
  <2>2. told[v] = (C.told[v] \ FC!Reports(gone, queried[v])) \cup FC!Reports(Given(extra), queried[v])
    BY <1>3 DEF Knows
  <2>3. ASSUME NEW x PROVE x \in FC!Reports(gone \cup {r}, queried[v])
                           <=> x \in FC!Reports(gone, queried[v]) \/ x \in reports(v)
    BY ReportsOf
  <2>4. ASSUME NEW x \in FC!Reports(Given(extra), queried[v]) PROVE x \notin reports(v)
    BY ReportsOf
  <2> HIDE DEF reports
  <2> QED
    BY <2>1, <2>2, <2>3, <2>4
<1>4. ASSUME NEW v \in UserId, v \notin users \/ transport[v] = NoConn, v # u \/ transport[v] = NoConn
      PROVE  told'[v] = {}
  BY <1>1, <1>4 DEF Knows
<1> QED
  BY <1>2, <1>3, <1>4 DEF Knows

-----------------------------------------------------------------------------
(* The calls of a revocation.                                              *)

Context(C, these, all, extra, op) ==
    /\ Based(C) /\ Tight(C, these, all, extra) /\ ~ ending
    /\ \A n \in extra : n \in Request /\ \A r \in Start(C) : n.id # r.id
    /\ op = "revokeIfGranted" \/ (op = "revokeOrDeny" /\ extra = {})

Frozen == UNCHANGED <<lastUser, users, chairs, chairId, counter, ending, queried, transport,
                      conn, answered>>

\* The request to be revoked is found, and ends.
LEMMA RevokeEnds ==
    ASSUME IInv, NEW C, NEW these, NEW all, NEW extra, NEW op, Context(C, these, all, extra, op),
           NEW t \in Thread, NEW u, NEW tail \in Seq(CallType), NEW gone, NEW inner, NEW ids,
           At(C, t, u, these, all, extra, op, tail, gone, inner, ids),
           NEW r \in all \ gone, inner = <<Call("revoke", r.id)>>, Apart(r, extra),
           Presents(C, gone, extra), Edits(C, gone),
           Settled(C, gone, extra) \/ Editor \in r.floors,
           RevokeFloorRequest(t, r.id)
    PROVE  /\ At(C, t, u, these, all, extra, op, tail, gone \cup {r}, <<Call("onFloorReleased", r)>>, ids)'
           /\ Frozen
<1> DEFINE rest == Loop(op, ids) \o tail
           now == gone \cup {r}
<1>1. /\ r \in Start(C) /\ r \in Request /\ IsGranted(r) /\ r.id \in Nat
      /\ \A n \in extra : n.id # r.id
      /\ \A s \in Start(C) : s.id = r.id => s = r
  BY StartFacts DEF Context, Tight
<1>2. floorRequests = (Start(C) \ gone) \cup extra
  BY DEF At
<1>3. GetFloorRequest(r.id) = {r}
  BY <1>1, <1>2 DEF GetFloorRequest
<1>4. EndRequest(t, r, TRUE)
  BY <1>1, <1>3 DEF RevokeFloorRequest, Context
<1>5. /\ floorRequests' = floorRequests \ {r}
      /\ Notify([r EXCEPT !.status = "Revoked"])
      /\ MakesCalls(t, <<Call("onFloorReleased", r)>>)
      /\ UNCHANGED <<lastUser, users, chairs, chairId, counter, ending, queried,
                     transport, conn, presenterId, editorId, answered>>
  BY <1>4 DEF EndRequest
<1>6. rest \in Seq(CallType)
  <2>1. Loop(op, ids) \in Seq(CallType)
    BY LoopCalls DEF At, Context, OnIds
  <2> QED
    BY <2>1, ConcatProperties
<1>7. todo'[t] = <<Call("onFloorReleased", r)>> \o rest
  <2>1. Call("revoke", r.id) \in CallType
    BY <1>1, CallTypes DEF OnId
  <2>2. todo[t] = <<Call("revoke", r.id)>> \o rest
    BY DEF At
  <2> HIDE DEF rest
  <2> QED
    BY <1>5, <1>6, <2>1, <2>2, Replaced DEF IInv
<1>8. floorRequests' = (Start(C) \ now) \cup extra
  BY <1>1, <1>2, <1>5
<1>9. Knows(C, now, extra, u)'
  <2>1. \A n \in Given(extra) : n.id # r.id
    BY <1>1 DEF Given
  <2> QED
    BY <1>1, <1>5, <2>1, EndReported DEF At
<1>10. Inner(C, <<Call("onFloorReleased", r)>>, now, all, extra)'
  <2>1. r \in now /\ now \ {r} = gone
    OBVIOUS
  <2>2. Presents(C, gone, extra)' /\ Edits(C, gone)'
    BY <1>5 DEF Presents, Edits
  <2> HIDE DEF now
  <2> QED
    BY <2>1, <2>2 DEF Inner, Settled, Apart
<1>11. /\ now \subseteq all
       /\ \A s \in these : s \in now \/ s.id \in ids
       /\ Given(extra) # {} => these \subseteq now /\ ids = {}
  <2>1. ASSUME NEW s \in these, <<Call("revoke", r.id)>> = <<Call("revoke", s.id)>> PROVE s = r
    <3>1. s \in Start(C)
      BY DEF Context, Tight
    <3>2. s.id = r.id
      BY <2>1 DEF Call
    <3> QED
      BY <1>1, <3>1, <3>2
  <2> QED
    BY <2>1 DEF At
<1>12. Frozen
  BY <1>5 DEF Frozen
<1> HIDE DEF now
<1>13. At(C, t, u, these, all, extra, op, tail, now, <<Call("onFloorReleased", r)>>, ids)'
  BY <1>7, <1>8, <1>9, <1>10, <1>11 DEF At
<1> QED
  BY <1>12, <1>13 DEF now

\* A call in progress that ends no request gives way to the calls it makes.
LEMMA Goes ==
    ASSUME IInv, NEW C, NEW these, NEW all, NEW extra, NEW op, Context(C, these, all, extra, op),
           NEW t \in Thread, NEW u, NEW tail \in Seq(CallType), NEW gone, NEW inner, NEW ids,
           At(C, t, u, these, all, extra, op, tail, gone, inner, ids),
           NEW c \in CallType, inner = <<c>>, c.op # "revoke", NEW calls, MakesCalls(t, calls),
           UNCHANGED <<floorRequests, told, users, transport, queried>>,
           Inner(C, calls, gone, all, extra)'
    PROVE  At(C, t, u, these, all, extra, op, tail, gone, calls, ids)'
<1> DEFINE rest == Loop(op, ids) \o tail
<1>1. rest \in Seq(CallType)
  <2>1. Loop(op, ids) \in Seq(CallType)
    BY LoopCalls DEF At, Context, OnIds
  <2> QED
    BY <2>1, ConcatProperties
<1>2. todo'[t] = calls \o rest
  <2>1. todo[t] = <<c>> \o rest
    BY DEF At
  <2> HIDE DEF rest
  <2> QED
    BY <1>1, <2>1, Replaced DEF IInv
<1>3. \A r \in these : r \in gone \/ r.id \in ids
  <2>1. ASSUME NEW r PROVE <<c>> # <<Call("revoke", r.id)>>
    BY DEF Call
  <2> QED
    BY <2>1 DEF At
<1>4. Knows(C, gone, extra, u)'
  BY DEF At, Knows
<1> QED
  BY <1>2, <1>3, <1>4 DEF At

\* MultiConf::onFloorReleased: nobody holds the floors of the request.
LEMMA ReleaseTells ==
    ASSUME IInv, NEW C, NEW these, NEW all, NEW extra, NEW op, Context(C, these, all, extra, op),
           NEW t \in Thread, NEW u, NEW tail \in Seq(CallType), NEW gone, NEW inner, NEW ids,
           At(C, t, u, these, all, extra, op, tail, gone, inner, ids),
           NEW r \in gone, inner = <<Call("onFloorReleased", r)>>, Apart(r, extra),
           Presents(C, gone \ {r}, extra), Edits(C, gone \ {r}),
           Settled(C, gone \ {r}, extra) \/ Editor \in r.floors,
           onFloorReleased(t, r)
    PROVE  /\ \E calls : At(C, t, u, these, all, extra, op, tail, gone, calls, ids)'
           /\ Frozen
<1>1. r \in Start(C) /\ r \in Request
  BY StartFacts DEF Context, Tight, At
<1> DEFINE calls == IF Editor \in r.floors THEN <<Call("setEditor", Nobody)>>
                    ELSE IF Presenter \in r.floors THEN <<Call("revokeEditor", Nobody)>>
                    ELSE <<>>
<1>2. /\ presenterId' = IF Presenter \in r.floors THEN Nobody ELSE presenterId
      /\ MakesCalls(t, calls)
      /\ UNCHANGED <<lastUser, users, chairs, chairId, counter, ending, queried, transport,
                     conn, editorId, answered, told, floorRequests, heap>>
  BY DEF onFloorReleased, OnFloorChange
<1>3. Presents(C, gone, extra)'
  <2>1. ASSUME NEW n \in Given(extra), Presenter \in n.floors PROVE presenterId' = n.beneficiary
    BY <1>2, <2>1 DEF Presents, Apart
  <2>2. ASSUME \A n \in Given(extra) : Presenter \notin n.floors
        PROVE  presenterId' = FC!AfterRelease(C.presenterId, gone, Presenter)
    <3>1. presenterId = FC!AfterRelease(C.presenterId, gone \ {r}, Presenter)
      BY <2>2 DEF Presents
    <3> QED
      BY <1>2, <3>1 DEF FC!AfterRelease, FC!Nobody, Nobody
  <2> QED
    BY <2>1, <2>2 DEF Presents
<1>4. ASSUME Editor \notin r.floors PROVE Edits(C, gone)'
  BY <1>2, <1>4 DEF Edits, FC!AfterRelease
<1>5. ASSUME Editor \notin r.floors, Presenter \in r.floors PROVE Drops(gone \cup Given(extra))
  BY <1>5 DEF Drops, FC!DropsEditor, FC!Presenter, FC!Editor, Presenter, Editor
<1>6. ASSUME Editor \notin r.floors, Presenter \notin r.floors PROVE Settled(C, gone, extra)
  BY <1>6 DEF Settled, Drops, FC!DropsEditor, FC!Presenter, Presenter
<1>7. Inner(C, calls, gone, all, extra)'
  <2>1. CASE Editor \in r.floors
    <3>1. calls = <<Call("setEditor", Nobody)>>
      BY <2>1
    <3> HIDE DEF calls
    <3> QED
      BY <1>3, <2>1, <3>1 DEF Inner
  <2>2. CASE Editor \notin r.floors /\ Presenter \in r.floors
    <3>1. calls = <<Call("revokeEditor", Nobody)>>
      BY <2>2
    <3> HIDE DEF calls
    <3> QED
      BY <1>3, <1>4, <1>5, <2>2, <3>1 DEF Inner
  <2>3. CASE Editor \notin r.floors /\ Presenter \notin r.floors
    <3>1. calls = <<>>
      BY <2>3
    <3>2. Settled(C, gone, extra)'
      BY <1>6, <2>3 DEF Settled
    <3> HIDE DEF calls
    <3> QED
      BY <1>3, <1>4, <2>3, <3>1, <3>2 DEF Inner
  <2> QED
    BY <2>1, <2>2, <2>3
<1> HIDE DEF calls
<1>8. Call("onFloorReleased", r) \in CallType /\ Call("onFloorReleased", r).op # "revoke"
  BY <1>1, CallTypes DEF OnRequest
<1>9. At(C, t, u, these, all, extra, op, tail, gone, calls, ids)'
  BY <1>2, <1>7, <1>8, Goes
<1>10. Frozen
  BY <1>2 DEF Frozen
<1> QED
  BY <1>9, <1>10

\* AppMixer::SetEditor after a release: nobody edits.
LEMMA NobodyEdits ==
    ASSUME IInv, NEW C, NEW these, NEW all, NEW extra, NEW op, Context(C, these, all, extra, op),
           NEW t \in Thread, NEW u, NEW tail \in Seq(CallType), NEW gone, NEW inner, NEW ids,
           At(C, t, u, these, all, extra, op, tail, gone, inner, ids),
           NEW r \in gone, inner = <<Call("setEditor", Nobody)>>, Editor \in r.floors,
           Presents(C, gone, extra), SetEditor(t, Nobody)
    PROVE  /\ At(C, t, u, these, all, extra, op, tail, gone, <<>>, ids)'
           /\ Frozen
<1>1. /\ editorId' = Nobody /\ MakesCalls(t, <<>>)
      /\ UNCHANGED <<lastUser, users, chairs, chairId, counter, ending, queried, transport,
                     conn, presenterId, answered, told, floorRequests, heap>>
  BY DEF SetEditor, Returns
<1>2. Presents(C, gone, extra)' /\ Edits(C, gone)'
  BY <1>1 DEF Presents, Edits, FC!AfterRelease, FC!Nobody, Nobody
<1>3. Settled(C, gone, extra)'
  <2>1. r \in Start(C) /\ Editor \in Floor
    BY DEF Context, Tight, At, Floor
  <2>2. \A s \in Start(C) \ gone : Editor \notin s.floors
    BY <2>1, StartFacts DEF Context
  <2> QED
    BY <2>2 DEF Settled
<1>4. Inner(C, <<>>, gone, all, extra)'
  BY <1>2, <1>3 DEF Inner
<1>5. Call("setEditor", Nobody) \in CallType /\ Call("setEditor", Nobody).op # "revoke"
  BY CallTypes, BoundsAssumption DEF OnUser, Nobody
<1>6. At(C, t, u, these, all, extra, op, tail, gone, <<>>, ids)'
  BY <1>1, <1>4, <1>5, Goes
<1> QED
  BY <1>1, <1>6 DEF Frozen

\* MultiConf looks for the request that holds the Editor floor, and revokes it.
LEMMA EditorFound ==
    ASSUME IInv, NEW C, NEW these, NEW all, NEW extra, NEW op, Context(C, these, all, extra, op),
           NEW t \in Thread, NEW u, NEW tail \in Seq(CallType), NEW gone, NEW inner, NEW ids,
           At(C, t, u, these, all, extra, op, tail, gone, inner, ids),
           inner = <<Call("revokeEditor", Nobody)>>,
           Presents(C, gone, extra), Edits(C, gone), Drops(gone \cup Given(extra)),
           RevokeEditor(t)
    PROVE  /\ \E calls : At(C, t, u, these, all, extra, op, tail, gone, calls, ids)'
           /\ Frozen
<1>1. UNCHANGED shared
  BY DEF RevokeEditor
<1>2. Call("revokeEditor", Nobody) \in CallType /\ Call("revokeEditor", Nobody).op # "revoke"
  BY CallTypes, BoundsAssumption DEF OnUser, Nobody
<1>3. /\ floorRequests = (Start(C) \ gone) \cup extra /\ gone \subseteq all
      /\ \A n \in Given(extra) : Editor \notin n.floors
      /\ Given(extra) # {} => these \subseteq gone
  BY DEF At, Context, Tight
<1>4. ASSUME NEW id \in GrantedIds(Editor), MakesCalls(t, <<Call("revoke", id)>>)
      PROVE  Inner(C, <<Call("revoke", id)>>, gone, all, extra)'
  <2>1. PICK e \in floorRequests : e.id = id /\ IsGranted(e) /\ Editor \in e.floors
    BY DEF GrantedIds, Ids
  <2>2. e \in Start(C) \ gone
    BY <1>3, <2>1 DEF Given
  <2>3. e \in all
    <3>1. Drops(all \cup Given(extra))
      BY <1>3 DEF Drops
    <3> QED
      BY <2>1, <2>2, <3>1 DEF Context, Tight
  <2>4. Apart(e, extra)
    <3>1. CASE Given(extra) = {}
      BY <3>1 DEF Apart
    <3>2. CASE Given(extra) # {}
      BY <1>3, <2>2, <2>3, <3>2 DEF Context, Tight
    <3> QED
      BY <3>1, <3>2
  <2>5. Presents(C, gone, extra)' /\ Edits(C, gone)'
    BY <1>1 DEF shared, Presents, Edits
  <2> QED
    BY <2>1, <2>2, <2>3, <2>4, <2>5 DEF Inner
<1>5. ASSUME GrantedIds(Editor) = {} PROVE Inner(C, <<>>, gone, all, extra)'
  <2>1. ASSUME NEW e \in Start(C) \ gone, Editor \in e.floors PROVE FALSE
    <3>1. e \in floorRequests /\ IsGranted(e) /\ e.id \in Nat
      BY <1>3, <2>1, StartFacts DEF Context
    <3>2. ASSUME NEW s \in floorRequests, IsGranted(s), Editor \in s.floors PROVE s = e
      <4>1. s \in Start(C)
        BY <1>3, <3>2 DEF Given
      <4> QED
        BY <2>1, <3>2, <4>1, StartFacts DEF Context, Floor
    <3>3. e.id \in GrantedIds(Editor)
      BY <2>1, <3>1, <3>2 DEF GrantedIds, Ids, Context
    <3> QED
      BY <1>5, <3>3
  <2>2. Settled(C, gone, extra)'
    BY <2>1 DEF Settled
  <2>3. Presents(C, gone, extra)' /\ Edits(C, gone)'
    BY <1>1 DEF shared, Presents, Edits
  <2> QED
    BY <2>2, <2>3 DEF Inner
<1>6. UNCHANGED <<floorRequests, told, users, transport, queried>> /\ Frozen
  BY <1>1 DEF shared, Frozen
<1>7. CASE \E id \in GrantedIds(Editor) : MakesCalls(t, <<Call("revoke", id)>>)
  <2>1. PICK id \in GrantedIds(Editor) : MakesCalls(t, <<Call("revoke", id)>>)
    BY <1>7
  <2>2. At(C, t, u, these, all, extra, op, tail, gone, <<Call("revoke", id)>>, ids)'
    BY <1>2, <1>4, <1>6, <2>1, Goes
  <2> QED
    BY <1>6, <2>2
<1>8. CASE GrantedIds(Editor) = {} /\ Returns(t)
  <2>1. MakesCalls(t, <<>>)
    BY <1>8 DEF Returns
  <2>2. At(C, t, u, these, all, extra, op, tail, gone, <<>>, ids)'
    BY <1>2, <1>5, <1>6, <1>8, <2>1, Goes
  <2> QED
    BY <1>6, <2>2
<1> QED
  BY <1>7, <1>8 DEF RevokeEditor

\* The loop goes on with the least of the ids that are left.
LEMMA LoopGoes ==
    ASSUME IInv, NEW C, NEW these, NEW all, NEW extra, NEW op, Context(C, these, all, extra, op),
           NEW t \in Thread, NEW u, NEW tail \in Seq(CallType), NEW gone, NEW ids,
           At(C, t, u, these, all, extra, op, tail, gone, <<>>, ids), ids # {},
           (op = "revokeIfGranted" /\ RevokeIfGranted(t, ids)) \/ (op = "revokeOrDeny" /\ RevokeOrDeny(t, ids))
    PROVE  /\ \E calls, left : At(C, t, u, these, all, extra, op, tail, gone, calls, left)'
           /\ Frozen
<1>1. /\ floorRequests = (Start(C) \ gone) \cup extra /\ gone \subseteq all
      /\ ids \in SUBSET Nat /\ Given(extra) = {}
      /\ these \subseteq all /\ all \subseteq Start(C) /\ \A r \in Start(C) : r.id \in ids => r \in these
      /\ \A r \in Start(C) : IsGranted(r) /\ r.id \in Nat
  BY StartFacts DEF At, Context, Tight
<1>2. Presents(C, gone, extra) /\ Edits(C, gone) /\ Settled(C, gone, extra)
  <2>1. ASSUME NEW c PROVE <<>> # <<c>>
    OBVIOUS
  <2> QED
    BY <2>1 DEF At, Inner
<1>3. PICK id \in ids :
        /\ MakesCalls(t, (IF \E r \in GetFloorRequest(id) : IsGranted(r)
                          THEN <<Call("revoke", id)>> ELSE <<>>) \o Loop(op, ids \ {id}))
        /\ UNCHANGED shared
  <2>1. CASE op = "revokeIfGranted"
    BY <2>1 DEF RevokeIfGranted
  <2>2. CASE op = "revokeOrDeny"
    <3>1. PICK id \in ids :
            /\ MakesCalls(t, (IF GetFloorRequest(id) = {} THEN <<>>
                              ELSE IF \E r \in GetFloorRequest(id) : IsGranted(r)
                                   THEN <<Call("revoke", id)>> ELSE <<Call("deny", id)>>)
                             \o Loop("revokeOrDeny", ids \ {id}))
            /\ UNCHANGED shared
      BY <2>2 DEF RevokeOrDeny
    <3>2. extra = {}
      BY <2>2 DEF Context
    <3>3. GetFloorRequest(id) # {} => \E r \in GetFloorRequest(id) : IsGranted(r)
      BY <1>1, <3>2 DEF GetFloorRequest
    <3>4. (IF GetFloorRequest(id) = {} THEN <<>>
           ELSE IF \E r \in GetFloorRequest(id) : IsGranted(r)
                THEN <<Call("revoke", id)>> ELSE <<Call("deny", id)>>)
          = (IF \E r \in GetFloorRequest(id) : IsGranted(r) THEN <<Call("revoke", id)>> ELSE <<>>)
      BY <3>3
    <3> QED
      BY <2>2, <3>1, <3>4
  <2> QED
    BY <2>1, <2>2 DEF Context
<1> DEFINE calls == IF \E r \in GetFloorRequest(id) : IsGranted(r) THEN <<Call("revoke", id)>> ELSE <<>>
           left == ids \ {id}
           rest == Loop(op, left) \o tail
<1>4. /\ op \in OnIds /\ left \in SUBSET Nat /\ id \in Nat /\ Call(op, ids) \in CallType
      /\ calls \in Seq(CallType) /\ Loop(op, left) \in Seq(CallType)
  <2>1. op \in OnIds /\ left \in SUBSET Nat /\ id \in Nat
    BY <1>1 DEF Context, OnIds
  <2>2. Call("revoke", id) \in CallType /\ Call(op, ids) \in CallType
    BY <1>1, <2>1, CallTypes DEF OnId
  <2>3. <<Call("revoke", id)>> \in Seq(CallType) /\ <<>> \in Seq(CallType)
    BY <2>2
  <2> QED
    BY <2>1, <2>2, <2>3, LoopCalls
<1>5. todo'[t] = calls \o rest
  <2>1. todo[t] = <<Call(op, ids)>> \o tail
    <3>1. Loop(op, ids) = <<Call(op, ids)>>
      BY DEF Loop
    <3>2. todo[t] = <<>> \o (<<Call(op, ids)>> \o tail)
      BY <3>1 DEF At
    <3>3. <<Call(op, ids)>> \o tail \in Seq(CallType)
      BY <1>4, First
    <3> QED
      BY <3>2, <3>3, ConcatEmptySeq
  <2>2. MakesCalls(t, calls \o Loop(op, left))
    BY <1>3
  <2> HIDE DEF calls, left
  <2>3. todo'[t] = (calls \o Loop(op, left)) \o tail
    BY <1>4, <2>1, <2>2, Replaced DEF IInv
  <2> QED
    BY <1>4, <2>3, ConcatAssociative
<1>6. UNCHANGED <<floorRequests, told, users, transport, queried, presenterId, editorId>> /\ Frozen
  BY <1>3 DEF shared, Frozen
<1>7. Presents(C, gone, extra)' /\ Edits(C, gone)' /\ Settled(C, gone, extra)' /\ Knows(C, gone, extra, u)'
  BY <1>2, <1>6 DEF At, Presents, Edits, Settled, Knows
<1>8. CASE \E r \in GetFloorRequest(id) : IsGranted(r)
  <2>1. PICK r \in floorRequests : r.id = id /\ IsGranted(r)
    BY <1>8 DEF GetFloorRequest
  <2>2. r \in Start(C) /\ r \in all \ gone
    BY <1>1, <2>1 DEF Given
  <2>3. calls = <<Call("revoke", r.id)>>
    BY <1>8, <2>1
  <2>4. \A s \in these : s \in gone \/ s.id \in left \/ calls = <<Call("revoke", s.id)>>
    <3>1. ASSUME NEW s \in these, s \notin gone PROVE s.id \in ids
      <4>1. ASSUME NEW c PROVE <<>> # <<c>>
        OBVIOUS
      <4> QED
        BY <3>1, <4>1 DEF At
    <3> QED
      BY <2>1, <2>3, <3>1
  <2>5. Apart(r, extra)
    BY <1>1 DEF Apart
  <2> HIDE DEF calls, left
  <2>6. Inner(C, <<Call("revoke", r.id)>>, gone, all, extra)'
    BY <1>7, <2>2, <2>5 DEF Inner
  <2>7. At(C, t, u, these, all, extra, op, tail, gone, <<Call("revoke", r.id)>>, left)'
    <3>1. \A s \in Start(C) : s.id \in left => s \in these
      BY <1>1 DEF left
    <3> QED
      BY <1>1, <1>4, <1>5, <1>6, <1>7, <2>3, <2>4, <2>6, <3>1 DEF At
  <2> QED
    BY <1>6, <2>7
<1>9. CASE ~ \E r \in GetFloorRequest(id) : IsGranted(r)
  <2>1. calls = <<>>
    BY <1>9
  <2>2. \A s \in these : s \in gone \/ s.id \in left
    <3>1. ASSUME NEW s \in these, s \notin gone PROVE s.id \in ids
      <4>1. ASSUME NEW c PROVE <<>> # <<c>>
        OBVIOUS
      <4> QED
        BY <3>1, <4>1 DEF At
    <3>2. ASSUME NEW s \in these, s \notin gone, s.id = id PROVE FALSE
      <4>1. s \in floorRequests /\ IsGranted(s)
        BY <1>1, <3>2
      <4> QED
        BY <1>9, <3>2, <4>1 DEF GetFloorRequest
    <3> QED
      BY <3>1, <3>2
  <2> HIDE DEF calls, left
  <2>3. Inner(C, <<>>, gone, all, extra)'
    BY <1>7 DEF Inner
  <2>4. At(C, t, u, these, all, extra, op, tail, gone, <<>>, left)'
    <3>1. \A s \in Start(C) : s.id \in left => s \in these
      BY <1>1 DEF left
    <3> QED
      BY <1>1, <1>4, <1>5, <1>6, <1>7, <2>1, <2>2, <2>3, <3>1 DEF At
  <2> QED
    BY <1>6, <2>4
<1> QED
  BY <1>8, <1>9

\* Nothing is left to be revoked.
Revoked(C, u, all, extra) ==
    /\ floorRequests = (Start(C) \ all) \cup extra
    /\ Knows(C, all, extra, u) /\ Presents(C, all, extra) /\ Edits(C, all)

\* When the loop is over, what had to fall has fallen.
LEMMA AllRevoked ==
    ASSUME NEW C, NEW t, NEW u, NEW these, NEW all, NEW extra, NEW op, Context(C, these, all, extra, op),
           NEW tail \in Seq(CallType), NEW gone,
           At(C, t, u, these, all, extra, op, tail, gone, <<>>, {})
    PROVE  todo[t] = tail /\ Revoked(C, u, all, extra)
<1>1. \A c : <<>> # <<c>>
  OBVIOUS
<1>2. gone \subseteq all /\ these \subseteq gone /\ Settled(C, gone, extra)
      /\ Presents(C, gone, extra) /\ Edits(C, gone) /\ Knows(C, gone, extra, u)
  BY <1>1 DEF At, Inner
<1>3. gone = all
  <2> SUFFICES ASSUME NEW r \in all, r \notin gone PROVE FALSE
    BY <1>2
  <2>1. r \in Start(C) /\ Editor \in r.floors /\ Drops(these \cup Given(extra))
    BY <1>2 DEF Context, Tight
  <2>2. Drops(gone \cup Given(extra))
    BY <1>2, <2>1 DEF Drops
  <2> QED
    BY <1>2, <2>1, <2>2 DEF Settled
<1>4. todo[t] = tail
  <2>1. todo[t] = <<>> \o (<<>> \o tail)
    BY DEF At, Loop
  <2> QED
    BY <2>1, ConcatEmptySeq
<1> QED
  BY <1>2, <1>3, <1>4 DEF At, Revoked

\* The calls of a revocation, by name
LEMMA StepOf ==
    ASSUME NEW t, Step(t)
    PROVE  /\ Makes(t, "revoke") => RevokeFloorRequest(t, Arg(t))
           /\ Makes(t, "onFloorReleased") => onFloorReleased(t, Arg(t))
           /\ Makes(t, "revokeEditor") => RevokeEditor(t)
           /\ Makes(t, "setEditor") => SetEditor(t, Arg(t))
           /\ Makes(t, "revokeIfGranted") => RevokeIfGranted(t, Arg(t))
           /\ Makes(t, "revokeOrDeny") => RevokeOrDeny(t, Arg(t))
  BY DEF Step, Makes

\* A list that begins with a call is about to make it.
LEMMA FirstMade ==
    ASSUME NEW t, NEW op, NEW arg, NEW s \in Seq(CallType), Call(op, arg) \in CallType,
           todo[t] = <<Call(op, arg)>> \o s
    PROVE  Makes(t, op) /\ Arg(t) = arg /\ todo[t] # <<>>
<1>1. todo[t] # <<>> /\ Head(todo[t]) = Call(op, arg)
  BY First
<1> QED
  BY <1>1 DEF Makes, Arg, Call

\* A step of a thread that revokes: it goes on, or has revoked all it had to.
LEMMA RevokingSteps ==
    ASSUME IInv, NEW C, NEW these, NEW all, NEW extra, NEW op, Context(C, these, all, extra, op),
           NEW t \in Thread, NEW u, NEW tail \in Seq(CallType),
           Revoking(C, t, u, these, all, extra, op, tail), Step(t)
    PROVE  \/ Revoking(C, t, u, these, all, extra, op, tail)' /\ Frozen
           \/ todo[t] = tail /\ Revoked(C, u, all, extra)
<1>1. PICK gone, inner, ids : At(C, t, u, these, all, extra, op, tail, gone, inner, ids)
  BY DEF Revoking
<1> DEFINE rest == Loop(op, ids) \o tail
<1>2. op \in OnIds /\ ids \in SUBSET Nat /\ Loop(op, ids) \in Seq(CallType) /\ rest \in Seq(CallType)
  <2>1. op \in OnIds /\ ids \in SUBSET Nat
    BY <1>1 DEF At, Context, OnIds
  <2>2. Loop(op, ids) \in Seq(CallType)
    BY <2>1, LoopCalls
  <2> QED
    BY <2>1, <2>2, ConcatProperties
<1>3. todo[t] = inner \o rest /\ gone \subseteq all /\ all \subseteq Start(C)
  BY <1>1 DEF At, Context, Tight
<1>4. \A r \in Start(C) : r \in Request /\ r.id \in Nat
  BY StartFacts DEF Context
<1>5. \A c : <<>> # <<c>>
  OBVIOUS
<1> HIDE DEF rest
<1>6. CASE inner = <<>> /\ Presents(C, gone, extra) /\ Edits(C, gone) /\ Settled(C, gone, extra)
  <2>1. CASE ids = {}
    BY <1>1, <1>6, <2>1, AllRevoked
  <2>2. CASE ids # {}
    <3>1. Call(op, ids) \in CallType
      BY <1>2, CallTypes
    <3>2. todo[t] = <<Call(op, ids)>> \o tail
      <4>1. rest = <<Call(op, ids)>> \o tail
        BY <2>2 DEF rest, Loop
      <4> QED
        BY <1>2, <1>3, <1>6, <4>1, ConcatEmptySeq
    <3>3. Makes(t, op) /\ Arg(t) = ids
      BY <3>1, <3>2, FirstMade
    <3>4. \/ op = "revokeIfGranted" /\ RevokeIfGranted(t, ids)
          \/ op = "revokeOrDeny" /\ RevokeOrDeny(t, ids)
      BY <3>3, StepOf DEF Context
    <3> QED
      BY <1>1, <1>6, <2>2, <3>4, LoopGoes DEF Revoking
  <2> QED
    BY <2>1, <2>2
<1>7. ASSUME NEW r \in all \ gone, inner = <<Call("revoke", r.id)>>,
             Presents(C, gone, extra), Edits(C, gone), Apart(r, extra),
             Settled(C, gone, extra) \/ Editor \in r.floors
      PROVE  Revoking(C, t, u, these, all, extra, op, tail)' /\ Frozen
  <2>1. Call("revoke", r.id) \in CallType
    BY <1>3, <1>4, CallTypes DEF OnId
  <2>2. todo[t] = <<Call("revoke", r.id)>> \o rest
    BY <1>3, <1>7
  <2>3. Makes(t, "revoke") /\ Arg(t) = r.id
    BY <1>2, <2>1, <2>2, FirstMade
  <2>4. RevokeFloorRequest(t, r.id)
    BY <2>3, StepOf
  <2>5. At(C, t, u, these, all, extra, op, tail, gone \cup {r}, <<Call("onFloorReleased", r)>>, ids)'
    BY <1>1, <1>7, <2>4, RevokeEnds
  <2>6. Frozen
    BY <1>1, <1>7, <2>4, RevokeEnds
  <2> QED
    BY <2>5, <2>6 DEF Revoking
<1>8. ASSUME NEW r \in gone, inner = <<Call("onFloorReleased", r)>>,
             Presents(C, gone \ {r}, extra), Edits(C, gone \ {r}), Apart(r, extra),
             Settled(C, gone \ {r}, extra) \/ Editor \in r.floors
      PROVE  Revoking(C, t, u, these, all, extra, op, tail)' /\ Frozen
  <2>1. Call("onFloorReleased", r) \in CallType
    BY <1>3, <1>4, CallTypes DEF OnRequest
  <2>2. todo[t] = <<Call("onFloorReleased", r)>> \o rest
    BY <1>3, <1>8
  <2>3. Makes(t, "onFloorReleased") /\ Arg(t) = r
    BY <1>2, <2>1, <2>2, FirstMade
  <2>4. onFloorReleased(t, r)
    BY <2>3, StepOf
  <2> QED
    BY <1>1, <1>8, <2>4, ReleaseTells DEF Revoking
<1>9. ASSUME inner = <<Call("revokeEditor", Nobody)>>,
             Presents(C, gone, extra), Edits(C, gone), Drops(gone \cup Given(extra))
      PROVE  Revoking(C, t, u, these, all, extra, op, tail)' /\ Frozen
  <2>1. Call("revokeEditor", Nobody) \in CallType
    BY CallTypes, BoundsAssumption DEF OnUser, Nobody
  <2>2. todo[t] = <<Call("revokeEditor", Nobody)>> \o rest
    BY <1>3, <1>9
  <2>3. Makes(t, "revokeEditor") /\ Arg(t) = Nobody
    BY <1>2, <2>1, <2>2, FirstMade
  <2>4. RevokeEditor(t)
    BY <2>3, StepOf
  <2> QED
    BY <1>1, <1>9, <2>4, EditorFound DEF Revoking
<1>10. ASSUME NEW r \in gone, inner = <<Call("setEditor", Nobody)>>,
              Editor \in r.floors, Presents(C, gone, extra)
       PROVE  Revoking(C, t, u, these, all, extra, op, tail)' /\ Frozen
  <2>1. Call("setEditor", Nobody) \in CallType
    BY CallTypes, BoundsAssumption DEF OnUser, Nobody
  <2>2. todo[t] = <<Call("setEditor", Nobody)>> \o rest
    BY <1>3, <1>10
  <2>3. Makes(t, "setEditor") /\ Arg(t) = Nobody
    BY <1>2, <2>1, <2>2, FirstMade
  <2>4. SetEditor(t, Nobody)
    BY <2>3, StepOf
  <2> QED
    BY <1>1, <1>10, <2>4, NobodyEdits DEF Revoking
<1>11. Inner(C, inner, gone, all, extra)
  BY <1>1 DEF At
<1> QED
  BY <1>6, <1>7, <1>8, <1>9, <1>10, <1>11 DEF Inner

\* A thread that has no calls left has revoked all it had to.
LEMMA RevokingEnds ==
    ASSUME NEW C, NEW these, NEW all, NEW extra, NEW op, Context(C, these, all, extra, op),
           NEW t, NEW u, NEW tail \in Seq(CallType),
           Revoking(C, t, u, these, all, extra, op, tail), todo[t] = <<>>
    PROVE  tail = <<>> /\ Revoked(C, u, all, extra)
<1>1. PICK gone, inner, ids : At(C, t, u, these, all, extra, op, tail, gone, inner, ids)
  BY DEF Revoking
<1> DEFINE rest == Loop(op, ids) \o tail
<1>2. op \in OnIds /\ ids \in SUBSET Nat /\ Loop(op, ids) \in Seq(CallType) /\ rest \in Seq(CallType)
  <2>1. op \in OnIds /\ ids \in SUBSET Nat
    BY <1>1 DEF At, Context, OnIds
  <2>2. Loop(op, ids) \in Seq(CallType)
    BY <2>1, LoopCalls
  <2> QED
    BY <2>1, <2>2, ConcatProperties
<1>3. inner = <<>> \/ \E c \in CallType : inner = <<c>>
  <2>1. \A r \in all : r \in Request /\ r.id \in Nat
    BY StartFacts DEF Context, Tight
  <2>2. gone \subseteq all /\ Inner(C, inner, gone, all, extra)
    BY <1>1 DEF At
  <2>3. Call("revokeEditor", Nobody) \in CallType /\ Call("setEditor", Nobody) \in CallType
    BY CallTypes, BoundsAssumption DEF OnUser, Nobody
  <2>4. \A r \in all : Call("revoke", r.id) \in CallType /\ Call("onFloorReleased", r) \in CallType
    BY <2>1, CallTypes DEF OnId, OnRequest
  <2> QED
    BY <2>2, <2>3, <2>4 DEF Inner
<1>4. inner \o rest = <<>>
  BY <1>1 DEF At
<1>5. inner \in Seq(CallType)
  <2>1. \A c \in CallType : <<c>> \in Seq(CallType)
    OBVIOUS
  <2>2. <<>> \in Seq(CallType)
    OBVIOUS
  <2> QED
    BY <1>3, <2>1, <2>2
<1>6. inner = <<>> /\ rest = <<>>
  BY <1>2, <1>4, <1>5, ConcatEqualIffEmpty
<1>7. Loop(op, ids) = <<>> /\ tail = <<>>
  BY <1>2, <1>6, ConcatEqualIffEmpty
<1>8. ids = {}
  <2>1. ids # {} => Loop(op, ids) = <<Call(op, ids)>>
    BY DEF Loop
  <2>2. \A c : <<c>> # <<>>
    OBVIOUS
  <2> QED
    BY <1>7, <2>1, <2>2
<1> QED
  BY <1>1, <1>6, <1>7, <1>8, AllRevoked

-----------------------------------------------------------------------------
(* The closed form of FloorControl.                                        *)

\* What falls with requests that are revoked
LEMMA ReleasedTight ==
    ASSUME NEW C, Based(C), NEW these \in SUBSET Start(C), NEW extra, Given(extra) = {}
    PROVE  Tight(C, these, FC!Released(Start(C), these), extra)
<1> DEFINE S == Start(C)
           all == FC!Released(S, these)
<1>1. /\ \A r, s \in S : Editor \in r.floors /\ Editor \in s.floors => r = s
      /\ \A r \in S : r.id \in Nat
  BY StartFacts DEF Floor
<1>2. \A x : x \in all <=> \/ x \in these
                           \/ /\ Drops(these) /\ x \in S \ these /\ Editor \in x.floors
  <2>1. ASSUME NEW x PROVE x \in FC!GrantedRequest(S \ these, Editor) <=> x \in S \ these /\ Editor \in x.floors
    <3>1. ASSUME x \in S \ these, Editor \in x.floors, NEW s \in S \ these, Editor \in s.floors
          PROVE  x.id =< s.id
      BY <1>1, <3>1
    <3> QED
      BY <3>1 DEF FC!GrantedRequest
  <2>2. all = these \union (IF Drops(these) THEN FC!GrantedRequest(S \ these, Editor) ELSE {})
    BY DEF FC!Released, Drops, FC!Editor, Editor
  <2> HIDE DEF all, S
  <2> QED
    BY <2>1, <2>2
<1>3. \A r \in all : FC!DropsEditor(r.floors) => r \in these
  BY <1>2 DEF FC!DropsEditor, FC!Editor, Editor
<1> HIDE DEF all
<1>4. these \subseteq all /\ all \subseteq S
  BY <1>2
<1>5. \A r \in all \ these : Editor \in r.floors /\ Drops(these \cup Given(extra)) /\ Apart(r, extra)
  BY <1>2 DEF Apart
<1>6. ASSUME NEW e \in S, Editor \in e.floors, Drops(all \cup Given(extra)) PROVE e \in all
  <2>1. Drops(these)
    BY <1>3, <1>6 DEF Drops
  <2> QED
    BY <1>2, <1>6, <2>1
<1> QED
  BY <1>4, <1>5, <1>6 DEF Tight, all

\* The requests that end for one that is granted
Freed(C, floors) == FC!Released(Start(C), FC!SharingAFloor(Start(C), floors))

\* What falls once the Presenter floor, but not the Editor floor, is granted
LEMMA GrantTight ==
    ASSUME NEW C, Based(C), NEW n, IsGranted(n), FC!DropsEditor(n.floors)
    PROVE  Tight(C, Freed(C, n.floors),
                 Freed(C, n.floors) \cup FC!GrantedRequest(Start(C) \ Freed(C, n.floors), Editor), {n})
<1> DEFINE S == Start(C)
           these == Freed(C, n.floors)
           all == these \cup FC!GrantedRequest(S \ these, Editor)
<1>1. /\ \A r, s \in S : Editor \in r.floors /\ Editor \in s.floors => r = s
      /\ \A r \in S : r.id \in Nat
  BY StartFacts DEF Floor
<1>2. Given({n}) = {n} /\ Editor \notin n.floors
  BY DEF Given, FC!DropsEditor, FC!Editor, Editor
<1>3. these \subseteq S /\ \A r \in S : r.floors \cap n.floors # {} => r \in these
  BY DEF Freed, FC!Released, FC!SharingAFloor, FC!GrantedRequest
<1> HIDE DEF these
<1>4. ASSUME NEW x PROVE x \in FC!GrantedRequest(S \ these, Editor) <=> x \in S \ these /\ Editor \in x.floors
  <2>1. ASSUME x \in S \ these, Editor \in x.floors, NEW s \in S \ these, Editor \in s.floors
        PROVE  x.id =< s.id
    BY <1>1, <2>1
  <2> QED
    BY <2>1 DEF FC!GrantedRequest
<1>5. Drops(these \cup Given({n}))
  BY <1>2 DEF Drops
<1>6. \A r \in all \ these : Editor \in r.floors /\ Apart(r, {n})
  BY <1>2, <1>3, <1>4 DEF Apart
<1>7. \A e \in S : Editor \in e.floors => e \in all
  BY <1>4
<1>8. these \subseteq all /\ all \subseteq S
  BY <1>3, <1>4
<1> HIDE DEF all, S
<1>9. Tight(C, these, all, {n})
  BY <1>2, <1>5, <1>6, <1>7, <1>8 DEF Tight, S
<1> QED
  BY <1>9 DEF all, these, S

\* Requests of FloorControl as requests in the map
Up(bs) == {Full(b) : b \in bs}

\* A request and its Granted form in the map determine each other.
LEMMA UpOne ==
    ASSUME NEW C, Based(C), NEW b \in C.requests
    PROVE  /\ Full(b).id = b.id /\ Full(b).floors = b.floors /\ Full(b).user = b.user
           /\ Full(b).beneficiary = b.beneficiary /\ Bare(Full(b)) = b
<1>1. b \in BareRequest
  BY DEF Based
<1> QED
  BY <1>1 DEF Full, Bare, BareRequest

\* Going up and down loses nothing.
LEMMA UpSets ==
    ASSUME NEW C, Based(C), NEW B \in SUBSET C.requests
    PROVE  /\ \A b \in C.requests : Full(b) \in Up(B) <=> b \in B
           /\ \A a \in Up(B) : \E b \in B : a = Full(b)
           /\ Start(C) \ Up(B) = Up(C.requests \ B)
           /\ {Bare(r) : r \in Up(B)} = B
           /\ \A h, f : FC!AfterRelease(h, Up(B), f) = FC!AfterRelease(h, B, f)
           /\ \A q : FC!Reports(Up(B), q) = FC!Reports(B, q)
           /\ Drops(Up(B)) <=> Drops(B)
<1>1. \A b, c \in C.requests : Full(b) = Full(c) => b = c
  BY UpOne
<1>2. \A a \in Up(B) : \E b \in B : a = Full(b)
  BY DEF Up
<1>3. \A b \in B : Full(b) \in Up(B)
  BY DEF Up
<1>4. \A b \in C.requests : Full(b) \in Up(B) <=> b \in B
  BY <1>1, <1>2, <1>3
<1>5. Start(C) \ Up(B) = Up(C.requests \ B)
  BY <1>4 DEF Start, Up
<1>6. {Bare(r) : r \in Up(B)} = B
  <2>1. \A b \in B : Bare(Full(b)) = b
    BY UpOne
  <2> QED
    BY <1>2, <1>3, <2>1
<1>7. \A b \in B : Full(b).id = b.id /\ Full(b).floors = b.floors
  BY UpOne
<1>8. ASSUME NEW h, NEW f PROVE FC!AfterRelease(h, Up(B), f) = FC!AfterRelease(h, B, f)
  <2>1. (\E r \in Up(B) : f \in r.floors) <=> (\E r \in B : f \in r.floors)
    BY <1>2, <1>3, <1>7
  <2> QED
    BY <2>1 DEF FC!AfterRelease
<1>9. ASSUME NEW q PROVE FC!Reports(Up(B), q) = FC!Reports(B, q)
  <2>1. ASSUME NEW x PROVE x \in FC!Reports(Up(B), q) <=> x \in FC!Reports(B, q)
    <3>1. (\E r \in Up(B) : x \in (r.floors \cap q) \X {r.id})
          <=> (\E r \in B : x \in (r.floors \cap q) \X {r.id})
      BY <1>2, <1>3, <1>7
    <3> QED
      BY <3>1, ReportsOf
  <2> QED
    BY <2>1
<1>10. Drops(Up(B)) <=> Drops(B)
  BY <1>2, <1>3, <1>7 DEF Drops
<1> QED
  BY <1>2, <1>4, <1>5, <1>6, <1>8, <1>9, <1>10

\* FloorControl finds the requests that the map has.
LEMMA UpFinds ==
    ASSUME NEW C, Based(C), NEW B \in SUBSET C.requests
    PROVE  /\ FC!GrantedRequest(Up(B), Editor) = Up(FC!GrantedRequest(B, Editor))
           /\ FC!GrantedRequest(B, Editor) \subseteq B
           /\ \A floors : /\ FC!SharingAFloor(Up(B), floors) = Up(FC!SharingAFloor(B, floors))
                          /\ FC!SharingAFloor(B, floors) \subseteq B
<1>1. /\ \A a \in Up(B) : \E b \in B : a = Full(b)
      /\ \A b \in B : Full(b) \in Up(B) /\ Full(b).id = b.id /\ Full(b).floors = b.floors
  BY UpSets, UpOne
<1>2. FC!GrantedRequest(Up(B), Editor) = Up(FC!GrantedRequest(B, Editor))
  <2>1. ASSUME NEW b \in B PROVE Full(b) \in FC!GrantedRequest(Up(B), Editor) <=> b \in FC!GrantedRequest(B, Editor)
    BY <1>1 DEF FC!GrantedRequest
  <2>2. FC!GrantedRequest(Up(B), Editor) \subseteq Up(B) /\ FC!GrantedRequest(B, Editor) \subseteq B
    BY DEF FC!GrantedRequest
  <2>3. \A a : a \in Up(FC!GrantedRequest(B, Editor)) <=> \E b \in FC!GrantedRequest(B, Editor) : a = Full(b)
    BY DEF Up
  <2>4. ASSUME NEW a PROVE a \in FC!GrantedRequest(Up(B), Editor) <=> a \in Up(FC!GrantedRequest(B, Editor))
    <3>1. ASSUME a \in FC!GrantedRequest(Up(B), Editor) PROVE a \in Up(FC!GrantedRequest(B, Editor))
      <4>1. PICK b \in B : a = Full(b)
        BY <1>1, <2>2, <3>1
      <4> QED
        BY <2>1, <2>3, <3>1, <4>1
    <3>2. ASSUME a \in Up(FC!GrantedRequest(B, Editor)) PROVE a \in FC!GrantedRequest(Up(B), Editor)
      <4>1. PICK b \in FC!GrantedRequest(B, Editor) : a = Full(b)
        BY <2>3, <3>2
      <4> QED
        BY <2>1, <2>2, <4>1
    <3> QED
      BY <3>1, <3>2
  <2> QED
    BY <2>2, <2>4
<1>3. ASSUME NEW floors PROVE /\ FC!SharingAFloor(Up(B), floors) = Up(FC!SharingAFloor(B, floors))
                              /\ FC!SharingAFloor(B, floors) \subseteq B
  <2>1. ASSUME NEW b \in B PROVE Full(b) \in FC!SharingAFloor(Up(B), floors) <=> b \in FC!SharingAFloor(B, floors)
    BY <1>1 DEF FC!SharingAFloor
  <2>2. FC!SharingAFloor(Up(B), floors) \subseteq Up(B) /\ FC!SharingAFloor(B, floors) \subseteq B
    BY DEF FC!SharingAFloor
  <2>3. \A a : a \in Up(FC!SharingAFloor(B, floors)) <=> \E b \in FC!SharingAFloor(B, floors) : a = Full(b)
    BY DEF Up
  <2>4. ASSUME NEW a PROVE a \in FC!SharingAFloor(Up(B), floors) <=> a \in Up(FC!SharingAFloor(B, floors))
    <3>1. ASSUME a \in FC!SharingAFloor(Up(B), floors) PROVE a \in Up(FC!SharingAFloor(B, floors))
      <4>1. PICK b \in B : a = Full(b)
        BY <1>1, <2>2, <3>1
      <4> QED
        BY <2>1, <2>3, <3>1, <4>1
    <3>2. ASSUME a \in Up(FC!SharingAFloor(B, floors)) PROVE a \in FC!SharingAFloor(Up(B), floors)
      <4>1. PICK b \in FC!SharingAFloor(B, floors) : a = Full(b)
        BY <2>3, <3>2
      <4> QED
        BY <2>1, <2>2, <4>1
    <3> QED
      BY <3>1, <3>2
  <2> QED
    BY <2>2, <2>4
<1>4. FC!GrantedRequest(B, Editor) \subseteq B
  BY DEF FC!GrantedRequest
<1> QED
  BY <1>2, <1>3, <1>4

\* What is released is the same in both specifications.
LEMMA UpReleased ==
    ASSUME NEW C, Based(C), NEW B \in SUBSET C.requests
    PROVE  /\ FC!Released(Start(C), Up(B)) = Up(FC!Released(C.requests, B))
           /\ FC!Released(C.requests, B) \subseteq C.requests
<1> DEFINE E == FC!GrantedRequest(C.requests \ B, Editor)
<1>1. E \subseteq C.requests /\ FC!GrantedRequest(Start(C) \ Up(B), Editor) = Up(E)
  <2>1. C.requests \ B \in SUBSET C.requests
    OBVIOUS
  <2>2. Start(C) \ Up(B) = Up(C.requests \ B)
    BY UpSets
  <2> QED
    BY <2>1, <2>2, UpFinds
<1>2. Drops(Up(B)) <=> Drops(B)
  BY UpSets
<1>3. FC!Released(Start(C), Up(B)) = Up(B) \union (IF Drops(Up(B)) THEN Up(E) ELSE {})
  BY <1>1 DEF FC!Released, Drops, FC!Editor, Editor
<1>4. FC!Released(C.requests, B) = B \union (IF Drops(B) THEN E ELSE {})
  BY DEF FC!Released, Drops, FC!Editor, Editor
<1>5. Up(B \cup E) = Up(B) \cup Up(E)
  BY DEF Up
<1> HIDE DEF E
<1> QED
  BY <1>1, <1>2, <1>3, <1>4, <1>5

-----------------------------------------------------------------------------
(* Where a handler is, since the state C it started in.                    *)

Members(C) == lastUser = C.lastUser /\ users = C.users /\ chairs = C.chairs /\ ending = C.ending
Links(C) == queried = C.queried /\ transport = C.transport /\ conn = C.conn
Mixer(C) == presenterId = C.presenterId /\ editorId = C.editorId
Views(C) == answered = C.answered /\ told = C.told

\* Nothing has been done.
AtStart(C) ==
    /\ Members(C) /\ chairId = C.chairId /\ Links(C) /\ Mixer(C) /\ Views(C)
    /\ floorRequests = Start(C) /\ counter = C.counter

\* The handlers, as they are started
Begins(C, t, c) ==
    \/ c.op = "addUser"
    \/ c.op = "removeUser" /\ c.arg \in UserId
    \/ c.op = "setChair" /\ c.arg \in UserId /\ ~ C.ending
    \/ c.op = "end" /\ ~ C.ending
    \/ c.op = "userConnected" /\ t \in Conn /\ C.conn[t].state = "new" /\ c.arg \in UserId
    \/ /\ t \in Conn /\ C.conn[t].state = "open"
       /\ \/ c.op \in {"onClose", "disconnectUser"} /\ c.arg = C.conn[t].user
          \/ c.op \in {"floorRequest", "floorRelease", "floorQuery"} /\ c.arg.user = C.conn[t].user

Starting(C, t) ==
    AtStart(C) /\ \E c \in CallType : todo[t] = <<c>> /\ Begins(C, t, c)

\* MultiConf has stored the chair, and the server has not.
Chairing(C, t) ==
    \E u \in UserId :
       /\ todo[t] = <<Call("serverSetChair", u)>> /\ ~ C.ending
       /\ Members(C) /\ chairId = u /\ Links(C) /\ Mixer(C) /\ Views(C)
       /\ floorRequests = Start(C) /\ counter = C.counter

\* The connection is closed, and its user not yet reset.
Closing(C, t) ==
    \E u \in 0..MaxUser :
       /\ todo[t] = <<Call("userDisconnected", u)>>
       /\ t \in Conn /\ C.conn[t].state = "open" /\ C.conn[t].user = u /\ ~ C.conn[t].closedByServer
       /\ Members(C) /\ chairId = C.chairId /\ queried = C.queried /\ transport = C.transport
       /\ conn = [C.conn EXCEPT ![t].state = "closed"]
       /\ Mixer(C) /\ Views(C) /\ floorRequests = Start(C) /\ counter = C.counter

\* The requests of user u are to be revoked, then the calls of tail to be made: u is
\* removed, disconnected, connects again, or has closed its connection.
Leaves(C, t, u, tail) ==
    /\ u \in C.users /\ ~ C.ending /\ ending = C.ending
    /\ lastUser = C.lastUser /\ chairId = C.chairId /\ counter = C.counter
    /\ \/ /\ tail = <<Call("closeTransport", u)>>
          /\ users = C.users \ {u} /\ chairs = C.chairs \ {u} /\ Links(C) /\ answered = C.answered
       \/ /\ t \in Conn /\ users = C.users /\ chairs = C.chairs
          /\ queried = [C.queried EXCEPT ![u] = {}]
          /\ \/ /\ tail = <<Call("closeTransport", u)>>
                /\ C.conn[t].state = "open" /\ C.conn[t].user = u
                /\ transport = C.transport /\ conn = C.conn /\ answered = C.answered
             \/ /\ tail = <<Call("closeTransport", u), Call("setTransport", u), Call("accept", u)>>
                /\ C.conn[t].state = "new" /\ C.transport[u] # NoConn
                /\ transport = C.transport /\ conn = C.conn /\ answered = C.answered
             \/ /\ tail = <<>>
                /\ C.conn[t].state = "open" /\ C.conn[t].user = u /\ ~ C.conn[t].closedByServer
                /\ transport = [C.transport EXCEPT ![u] = NoConn]
                /\ conn = [C.conn EXCEPT ![t].state = "closed"]
                /\ answered = [C.answered EXCEPT ![u] = {}]

OfUser(C, u) == {r \in Start(C) : r.beneficiary = u}
LeftBy(C, u) == FC!Released(Start(C), OfUser(C, u))

Leaving(C, t) ==
    \E u \in UserId, tail \in Seq(CallType) :
       /\ Leaves(C, t, u, tail)
       /\ \/ /\ todo[t] = <<Call("revokeUser", u)>> \o tail
             /\ floorRequests = Start(C) /\ Mixer(C) /\ Knows(C, {}, {}, u)
          \/ Revoking(C, t, u, OfUser(C, u), LeftBy(C, u), {}, "revokeOrDeny", tail)

\* A user that connects is given its transport, then the connection is accepted.
Resets(C, u) ==
    \/ /\ C.transport[u] = NoConn
       /\ queried = C.queried /\ conn = C.conn /\ Mixer(C) /\ Views(C) /\ floorRequests = Start(C)
    \/ /\ C.transport[u] # NoConn
       /\ queried = [C.queried EXCEPT ![u] = {}] /\ answered = [C.answered EXCEPT ![u] = {}]
       /\ conn = [c \in Conn |-> IF c = C.transport[u]
                                 THEN [C.conn[c] EXCEPT !.closedByServer = TRUE] ELSE C.conn[c]]
       /\ told[u] = {} /\ Revoked(C, u, LeftBy(C, u), {})

Attaching(C, t) ==
    \E u \in UserId :
       /\ t \in Conn /\ u \in C.users /\ ~ C.ending /\ C.conn[t].state = "new"
       /\ Members(C) /\ chairId = C.chairId /\ counter = C.counter /\ Resets(C, u)
       /\ \/ /\ todo[t] = <<Call("setTransport", u), Call("accept", u)>>
             /\ transport = [C.transport EXCEPT ![u] = NoConn]
          \/ /\ todo[t] = <<Call("accept", u)>>
             /\ transport = [C.transport EXCEPT ![u] = t]

\* A message of user u
Sends(C, t, u) ==
    /\ ~ C.ending /\ t \in Conn /\ C.conn[t].state = "open" /\ C.conn[t].user = u /\ u \in C.users
    /\ Members(C) /\ chairId = C.chairId /\ Links(C) /\ answered = C.answered

Releasing(C, t) ==
    \E u \in UserId, r \in Start(C) :
       /\ Sends(C, t, u) /\ counter = C.counter /\ u \in {r.user, r.beneficiary} \cup C.chairs
       /\ Revoking(C, t, Nobody, {r}, FC!Released(Start(C), {r}), {}, "revokeOrDeny", <<>>)

\* A new request, on its way to be denied or granted
MayHave(C, u) == u \in C.chairs \/ u = C.chairId \/ u = C.presenterId
AsGranted(n) == [n EXCEPT !.status = "Granted"]

Undecided(C, t, n) ==
    /\ floorRequests = Start(C) \cup {n} /\ Mixer(C) /\ told = C.told
    /\ \/ todo[t] = <<Call("grant", n.id)>> /\ MayHave(C, n.user)
       \/ todo[t] = <<Call("onFloorRequest", n)>> /\ n.user \notin C.chairs
       \/ todo[t] = <<Call("deny", n.id)>> /\ ~ MayHave(C, n.user)
\* All that falls for a request that is granted
Cleared(C, n) ==
    IF FC!DropsEditor(n.floors)
    THEN Freed(C, n.floors) \cup FC!GrantedRequest(Start(C) \ Freed(C, n.floors), Editor)
    ELSE Freed(C, n.floors)

Granting(C, t, n) ==
    /\ MayHave(C, n.user)
    /\ \/ Revoking(C, t, Nobody, FC!SharingAFloor(Start(C), n.floors), Freed(C, n.floors), {n},
                   "revokeIfGranted", <<Call("setGranted", n)>>)
       \/ /\ todo[t] = <<Call("onFloorGranted", AsGranted(n))>>
          /\ floorRequests = (Start(C) \ Freed(C, n.floors)) \cup {AsGranted(n)}
          /\ Knows(C, Freed(C, n.floors), {AsGranted(n)}, Nobody)
          /\ Presents(C, Freed(C, n.floors), {}) /\ Edits(C, Freed(C, n.floors))
       \/ /\ todo[t] = <<Call("setEditor", n.beneficiary)>> /\ Editor \in n.floors
          /\ floorRequests = (Start(C) \ Freed(C, n.floors)) \cup {AsGranted(n)}
          /\ Knows(C, Freed(C, n.floors), {AsGranted(n)}, Nobody)
          /\ Presents(C, Freed(C, n.floors), {AsGranted(n)})
       \/ /\ FC!DropsEditor(n.floors)
          /\ Revoking(C, t, Nobody, Freed(C, n.floors), Cleared(C, n), {AsGranted(n)},
                      "revokeIfGranted", <<>>)

\* A new request of a user of the conference
NewRequest(C, n) ==
    /\ n \in Request /\ n.id = C.counter /\ n.status = "Pending" /\ n.beneficiary \in C.users
    /\ C.counter =< MaxRequest

Requesting(C, t) ==
    \E n \in Request :
       /\ NewRequest(C, n) /\ counter = C.counter + 1 /\ Sends(C, t, n.user)
       /\ Undecided(C, t, n) \/ Granting(C, t, n)

\* End empties the map of requests.
Emptied(C, t) ==
    /\ ~ C.ending /\ ending
    /\ lastUser = C.lastUser /\ users = C.users /\ chairs = C.chairs /\ chairId = C.chairId
    /\ counter = C.counter /\ Links(C) /\ Mixer(C)
    /\ todo[t] # <<>> /\ todo[t][Len(todo[t])].op = "endNext"
    /\ \A i \in 1..(Len(todo[t]) - 1) : todo[t][i].op \in {"revoke", "deny", "revokeOrDeny"}

Phase(C, t) ==
    \/ Starting(C, t) \/ Chairing(C, t) \/ Closing(C, t) \/ Leaving(C, t) \/ Attaching(C, t)
    \/ Releasing(C, t) \/ Requesting(C, t) \/ Emptied(C, t)

\* Each handler that runs has come somewhere, from the state when the last one ended.
Follows ==
    /\ Based(committed)
    /\ Idle => Snapshot = committed
    /\ \A t \in Thread : todo[t] # <<>> => \E C : C = committed /\ Phase(C, t)

-----------------------------------------------------------------------------
(* The ends of handlers.                                                   *)

\* D is the state of the server.
Here(D) ==
    /\ D.lastUser = lastUser /\ D.users = users /\ D.chairs = chairs /\ D.chairId = chairId
    /\ D.requests = Ongoing /\ D.counter = counter /\ D.ending = ending /\ D.queried = queried
    /\ D.transport = transport /\ D.conn = conn /\ D.presenterId = presenterId
    /\ D.editorId = editorId /\ D.answered = answered /\ D.told = told

\* Snapshot holds the state.
LEMMA SnapshotIsHere == \A D : D = Snapshot => Here(D)
  BY DEF Here, Snapshot

\* The requests in the map, as FloorControl has them
LEMMA OngoingIs ==
    ASSUME NEW C, Based(C)
    PROVE  /\ \A B \in SUBSET C.requests : floorRequests' = Up(B) => Ongoing' = B
           /\ floorRequests' = Start(C) => Ongoing' = C.requests
<1>1. ASSUME NEW B \in SUBSET C.requests, floorRequests' = Up(B) PROVE Ongoing' = B
  <2>1. Ongoing' = {Bare(r) : r \in Up(B)}
    BY <1>1 DEF Ongoing, Bare
  <2> QED
    BY <2>1, UpSets
<1>2. Start(C) = Up(C.requests) /\ C.requests \in SUBSET C.requests
  BY DEF Start, Up
<1> QED
  BY <1>1, <1>2

\* A handler that has done nothing
LEMMA NothingDone ==
    ASSUME Based(committed), NEW C, C = committed, AtStart(C)', Here(committed)'
    PROVE  UNCHANGED FC!vars
<1>1. Ongoing' = C.requests
  BY OngoingIs DEF AtStart
<1> QED
  BY <1>1 DEF Here, AtStart, Members, Links, Mixer, Views,
              FC!vars, FC!serverVars, FC!linkVars, FC!mixerVars, FC!viewVars

\* A step that changes only the lists of calls
LEMMA StillAtStart ==
    ASSUME NEW C, AtStart(C), UNCHANGED shared
    PROVE  AtStart(C)'
  BY DEF AtStart, Members, Links, Mixer, Views, shared

\* The only call of a list gives way to those it makes.
LEMMA OnlyCall ==
    ASSUME Types, NEW t \in Thread, NEW c \in CallType, todo[t] = <<c>>
    PROVE  /\ todo[t] # <<>> /\ Head(todo[t]) = c /\ Makes(t, c.op) /\ Arg(t) = c.arg
           /\ \A calls \in Seq(CallType) : MakesCalls(t, calls) => todo'[t] = calls
           /\ Returns(t) => todo'[t] = <<>>
<1>1. <<>> \in Seq(CallType) /\ <<c>> \in Seq(CallType)
  OBVIOUS
<1>2. todo[t] = <<c>> \o <<>>
  BY <1>1, ConcatEmptySeq
<1>3. todo[t] # <<>> /\ Head(todo[t]) = c
  BY <1>1, <1>2, First
<1>4. ASSUME NEW calls \in Seq(CallType), MakesCalls(t, calls) PROVE todo'[t] = calls
  <2>1. todo'[t] = calls \o <<>>
    BY <1>1, <1>2, <1>4, Replaced
  <2> QED
    BY <2>1, ConcatEmptySeq
<1> QED
  BY <1>1, <1>3, <1>4 DEF Makes, Arg, Returns

\* The step of each call
LEMMA OtherSteps ==
    ASSUME NEW t, Step(t)
    PROVE  /\ Makes(t, "grant") => GrantFloorRequest(t, Arg(t))
           /\ Makes(t, "setGranted") => SetGranted(t, Arg(t))
           /\ Makes(t, "deny") => DenyFloorRequest(t, Arg(t))
           /\ Makes(t, "revokeUser") => RevokeUserFloorRequests(t, Arg(t))
           /\ Makes(t, "onFloorRequest") => onFloorRequest(t, Arg(t))
           /\ Makes(t, "onFloorGranted") => onFloorGranted(t, Arg(t))
           /\ Makes(t, "addUser") => AddUser(t)
           /\ Makes(t, "removeUser") => RemoveUser(t, Arg(t))
           /\ Makes(t, "setChair") => SetChair(t, Arg(t))
           /\ Makes(t, "serverSetChair") => ServerSetChair(t, Arg(t))
           /\ Makes(t, "end") => End(t)
           /\ Makes(t, "endNext") => EndNext(t)
           /\ Makes(t, "closeTransport") => CloseTransport(t, Arg(t))
           /\ Makes(t, "userConnected") => UserConnected(t, Arg(t))
           /\ Makes(t, "setTransport") => SetTransport(t, Arg(t))
           /\ Makes(t, "accept") => Accept(t, Arg(t))
           /\ Makes(t, "onClose") => onClose(t, Arg(t))
           /\ Makes(t, "userDisconnected") => UserDisconnected(t, Arg(t))
           /\ Makes(t, "disconnectUser") => DisconnectUser(t, Arg(t))
           /\ Makes(t, "floorRequest") => ProcessFloorRequest(t, Arg(t))
           /\ Makes(t, "floorRelease") => ProcessFloorRelease(t, Arg(t))
           /\ Makes(t, "floorQuery") => ProcessFloorQuery(t, Arg(t))
  BY DEF Step, Makes

\* Where the step of a handler that started in C leads
Leads(C, t) ==
    /\ todo'[t] # <<>> => Phase(C, t)'
    /\ todo'[t] = <<>> /\ Here(committed)' => FC!Next \/ UNCHANGED FC!vars

\* A handler that is refused
LEMMA RefusedLeads ==
    ASSUME IInv, Based(committed), NEW C, C = committed, NEW t \in Thread, NEW c \in CallType,
           todo[t] = <<c>>, AtStart(C), Returns(t), UNCHANGED shared
    PROVE  Leads(C, t)
<1>1. todo'[t] = <<>>
  BY OnlyCall DEF IInv
<1>2. AtStart(C)'
  BY StillAtStart
<1>3. Here(committed)' => UNCHANGED FC!vars
  BY <1>2, NothingDone
<1> QED
  BY <1>1, <1>3 DEF Leads

\* AddUser
LEMMA AddUserLeads ==
    ASSUME IInv, Based(committed), NEW C, C = committed, NEW t \in Thread, NEW c \in CallType,
           todo[t] = <<c>>, AtStart(C), AddUser(t)
    PROVE  Leads(C, t)
<1>1. todo'[t] = <<>>
  BY OnlyCall DEF IInv, AddUser
<1>2. CASE ending \/ lastUser = MaxUser
  <2>1. AtStart(C)'
    BY <1>2 DEF AddUser, AtStart, Members, Links, Mixer, Views
  <2>2. Here(committed)' => UNCHANGED FC!vars
    BY <2>1, NothingDone
  <2> QED
    BY <1>1, <2>2 DEF Leads
<1>3. CASE ~ (ending \/ lastUser = MaxUser)
  <2> SUFFICES ASSUME Here(committed)' PROVE FC!AddUser
    BY <1>1 DEF Leads, FC!Next
  <2>1. lastUser < MaxUser
    BY <1>3, BoundsAssumption DEF IInv, Types, SharedTypes
  <2>2. Ongoing' = C.requests
    BY OngoingIs DEF AtStart, AddUser
  <2> QED
    BY <1>3, <2>1, <2>2 DEF AddUser, AtStart, Members, Links, Mixer, Views, Here,
       FC!AddUser, FC!linkVars, FC!mixerVars, FC!viewVars
<1> QED
  BY <1>2, <1>3

\* MultiConf::SetChair
LEMMA SetChairLeads ==
    ASSUME IInv, Based(committed), NEW C, C = committed, NEW t \in Thread, NEW c \in CallType,
           todo[t] = <<c>>, AtStart(C), ~ C.ending, NEW u \in UserId, SetChair(t, u)
    PROVE  Leads(C, t)
<1>1. todo'[t] = <<Call("serverSetChair", u)>>
  <2>1. <<Call("serverSetChair", u)>> \in Seq(CallType)
    <3>1. Call("serverSetChair", u) \in CallType
      BY CallTypes, BoundsAssumption DEF OnUser, UserId
    <3> QED
      BY <3>1
  <2> QED
    BY <2>1, OnlyCall DEF IInv, SetChair
<1>2. Chairing(C, t)'
  BY <1>1 DEF SetChair, Chairing, AtStart, Members, Links, Mixer, Views
<1>3. todo'[t] # <<>>
  BY <1>1
<1> QED
  BY <1>2, <1>3 DEF Leads, Phase

\* BFCPFloorControlServer::SetChair
LEMMA ChairingLeads ==
    ASSUME IInv, Based(committed), NEW C, C = committed, NEW t \in Thread, Chairing(C, t), Step(t)
    PROVE  Leads(C, t)
<1>1. PICK u \in UserId :
       /\ todo[t] = <<Call("serverSetChair", u)>> /\ ~ C.ending
       /\ Members(C) /\ chairId = u /\ Links(C) /\ Mixer(C) /\ Views(C)
       /\ floorRequests = Start(C) /\ counter = C.counter
  BY DEF Chairing
<1>2. Call("serverSetChair", u) \in CallType
  BY CallTypes, BoundsAssumption DEF OnUser, UserId
<1>3. Makes(t, "serverSetChair") /\ Arg(t) = u /\ (Returns(t) => todo'[t] = <<>>)
  <2>1. Call("serverSetChair", u).op = "serverSetChair" /\ Call("serverSetChair", u).arg = u
    BY CallTypes
  <2> QED
    BY <1>1, <1>2, <2>1, OnlyCall DEF IInv
<1>4. ServerSetChair(t, u)
  BY <1>3, OtherSteps
<1>5. todo'[t] = <<>>
  BY <1>3, <1>4 DEF ServerSetChair
<1> SUFFICES ASSUME Here(committed)' PROVE FC!SetChair(u)
  BY <1>5 DEF Leads, FC!Next, FC!UserId, UserId
<1>6. Ongoing' = C.requests
  BY <1>1, <1>4, OngoingIs DEF ServerSetChair
<1> QED
  BY <1>1, <1>4, <1>6 DEF ServerSetChair, Members, Links, Mixer, Views, Here,
     FC!SetChair, FC!linkVars, FC!mixerVars, FC!viewVars

\* ProcessFloorQuery
LEMMA FloorQueryLeads ==
    ASSUME IInv, Based(committed), NEW C, C = committed, NEW t \in Thread, NEW c \in CallType,
           todo[t] = <<c>>, AtStart(C), t \in Conn, C.conn[t].state = "open",
           NEW m \in [user : UserId, floors : Queried], m.user = C.conn[t].user,
           ProcessFloorQuery(t, m)
    PROVE  Leads(C, t)
<1>1. todo'[t] = <<>>
  BY OnlyCall DEF IInv, ProcessFloorQuery
<1>2. CASE Refused(m)
  <2>1. AtStart(C)'
    BY <1>2 DEF ProcessFloorQuery, AtStart, Members, Links, Mixer, Views
  <2>2. Here(committed)' => UNCHANGED FC!vars
    BY <2>1, NothingDone
  <2> QED
    BY <1>1, <2>2 DEF Leads
<1>3. CASE ~ Refused(m)
  <2> SUFFICES ASSUME Here(committed)' PROVE FC!ProcessFloorQuery(t, m.user, m.floors)
    BY <1>1 DEF Leads, FC!Next, FC!UserId, UserId
  <2>1. Ongoing' = C.requests
    BY OngoingIs DEF AtStart, ProcessFloorQuery
  <2>2. FC!Delivers(t, m.user)
    BY <1>3 DEF FC!Delivers, Refused, AtStart, Members
  <2>3. UNION {(r.floors \intersect m.floors) \X {r.id} : r \in {s \in floorRequests : IsGranted(s)}}
        = FC!Reports(C.requests, m.floors)
    <3>1. floorRequests = Up(C.requests) /\ \A r \in floorRequests : IsGranted(r)
      BY StartFacts DEF AtStart, Start, Up
    <3>2. {s \in floorRequests : IsGranted(s)} = Up(C.requests)
      BY <3>1
    <3>3. UNION {(r.floors \intersect m.floors) \X {r.id} : r \in Up(C.requests)} = FC!Reports(Up(C.requests), m.floors)
      BY DEF FC!Reports
    <3>4. FC!Reports(Up(C.requests), m.floors) = FC!Reports(C.requests, m.floors)
      BY UpSets
    <3> QED
      BY <3>2, <3>3, <3>4
  <2>4. m.user \in FC!Connected <=> transport[m.user] # NoConn
    BY <1>3 DEF FC!Connected, Refused, AtStart, Members, Links
  <2>5. CASE transport[m.user] = NoConn
    BY <1>3, <2>1, <2>2, <2>4, <2>5 DEF ProcessFloorQuery, AtStart, Members, Links, Mixer, Views, Here,
       FC!ProcessFloorQuery, FC!serverVars, FC!mixerVars, FC!viewVars
  <2>6. CASE transport[m.user] # NoConn
    BY <1>3, <2>1, <2>2, <2>3, <2>4, <2>6 DEF ProcessFloorQuery, AtStart, Members, Links, Mixer, Views, Here,
       FC!ProcessFloorQuery, FC!serverVars, FC!mixerVars
  <2> QED
    BY <2>5, <2>6
<1> QED
  BY <1>2, <1>3

-----------------------------------------------------------------------------
(* A user that leaves, or connects again.                                  *)

\* The requests made for u, in both specifications
LEMMA UpLeft ==
    ASSUME NEW C, Based(C), NEW u
    PROVE  \E B \in SUBSET C.requests :
              /\ B = {r \in C.requests : r.beneficiary = u}
              /\ OfUser(C, u) = Up(B) /\ LeftBy(C, u) = Up(FC!Released(C.requests, B))
<1> DEFINE B == {r \in C.requests : r.beneficiary = u}
<1>1. \A b \in C.requests : Full(b).beneficiary = b.beneficiary
  BY UpOne
<1>2. OfUser(C, u) = Up(B)
  BY <1>1 DEF OfUser, Up, Start
<1>3. FC!Released(Start(C), Up(B)) = Up(FC!Released(C.requests, B))
  BY UpReleased
<1> QED
  BY <1>2, <1>3 DEF LeftBy

\* Requests have ended with all that falls with them, and nothing is reported to u.
LEMMA RequestsEnded ==
    ASSUME Based(committed), NEW C, C = committed, NEW B \in SUBSET C.requests, NEW u,
           Revoked(C, u, Up(FC!Released(C.requests, B)), {})', u \in UserId => told'[u] = {},
           \A v \in UserId \ {u} :
              /\ v \in users' /\ transport'[v] # NoConn <=> v \in C.users /\ C.transport[v] # NoConn
              /\ queried'[v] = C.queried[v],
           Here(committed)'
    PROVE  FC!EndRequests(B, FC!Connected \ {u})
<1> DEFINE A == FC!Released(C.requests, B)
<1>2. A \in SUBSET C.requests
  BY UpReleased
<1>3. Revoked(C, u, Up(A), {})'
  OBVIOUS
<1> HIDE DEF A
<1>4. /\ Given({}) = {}
      /\ \A h, f : FC!AfterRelease(h, Up(A), f) = FC!AfterRelease(h, A, f)
      /\ \A q : FC!Reports(Up(A), q) = FC!Reports(A, q)
  <2>1. Based(C)
    OBVIOUS
  <2> QED
    BY <1>2, <2>1, UpSets DEF Given
<1>5. Ongoing' = C.requests \ A
  <2>1. floorRequests' = Up(C.requests \ A)
    BY <1>2, <1>3, UpSets DEF Revoked
  <2> QED
    BY <1>2, <2>1, OngoingIs
<1>6. presenterId' = FC!AfterRelease(C.presenterId, A, Presenter) /\ editorId' = FC!AfterRelease(C.editorId, A, Editor)
  <2>1. /\ presenterId' = FC!AfterRelease(C.presenterId, Up(A), Presenter)
        /\ editorId' = FC!AfterRelease(C.editorId, Up(A), Editor)
    BY <1>3, <1>4 DEF Revoked, Presents, Edits
  <2> QED
    BY <1>4, <2>1
<1>7. told' = FC!Notified(FC!Connected \ {u}, A, {})
  <2>1. told' = [v \in UserId |-> told'[v]]
    BY DEF Revoked, Knows
  <2>2. ASSUME NEW v \in UserId
        PROVE  told'[v] = IF v \in FC!Connected \ {u}
                          THEN (C.told[v] \ FC!Reports(A, C.queried[v])) \union FC!Reports({}, C.queried[v]) ELSE {}
    <3>1. CASE v = u
      BY <3>1
    <3>2. CASE v # u /\ v \notin FC!Connected
      <4>1. ~ (v \in users' /\ transport'[v] # NoConn)
        BY <3>2 DEF FC!Connected
      <4> QED
        BY <3>2, <4>1 DEF Revoked, Knows
    <3>3. CASE v # u /\ v \in FC!Connected
      <4>1. v \in users' /\ transport'[v] # NoConn /\ queried'[v] = C.queried[v]
        BY <3>3 DEF FC!Connected
      <4>2. told'[v] = (C.told[v] \ FC!Reports(Up(A), C.queried[v])) \cup FC!Reports({}, C.queried[v])
        BY <1>3, <1>4, <3>3, <4>1 DEF Revoked, Knows
      <4>3. FC!Reports(Up(A), C.queried[v]) = FC!Reports(A, C.queried[v])
        BY <1>4
      <4> QED
        BY <3>3, <4>2, <4>3
    <3> QED
      BY <3>1, <3>2, <3>3
  <2> QED
    BY <2>1, <2>2 DEF FC!Notified, FC!UserId, UserId
<1> QED
  BY <1>5, <1>6, <1>7 DEF FC!EndRequests, Here, A, FC!Presenter, FC!Editor, Presenter, Editor

\* The requests made for u have ended.
LEMMA UserRevoked ==
    ASSUME Based(committed), NEW C, C = committed, NEW u \in UserId,
           Revoked(C, u, LeftBy(C, u), {})', told'[u] = {},
           answered' = [C.answered EXCEPT ![u] = {}],
           \A v \in UserId \ {u} :
              /\ v \in users' /\ transport'[v] # NoConn <=> v \in C.users /\ C.transport[v] # NoConn
              /\ queried'[v] = C.queried[v],
           Here(committed)'
    PROVE  FC!RevokeUserFloorRequests(u)
<1>1. PICK B \in SUBSET C.requests :
              /\ B = {r \in C.requests : r.beneficiary = u}
              /\ LeftBy(C, u) = Up(FC!Released(C.requests, B))
  BY UpLeft
<1>2. FC!EndRequests(B, FC!Connected \ {u})
  BY <1>1, RequestsEnded
<1> QED
  BY <1>1, <1>2 DEF FC!RevokeUserFloorRequests, Here

\* Lists of a few calls
LEMMA Lists ==
    ASSUME NEW a \in CallType, NEW b \in CallType, NEW c \in CallType
    PROVE  /\ <<>> \in Seq(CallType) /\ <<a>> \in Seq(CallType) /\ <<a, b>> \in Seq(CallType)
           /\ <<a, b, c>> \in Seq(CallType)
           /\ <<a>> = <<a>> \o <<>> /\ <<a, b>> = <<a>> \o <<b>> /\ <<a, b>> \o <<>> = <<a>> \o <<b>>
           /\ <<a, b, c>> = <<a>> \o <<b, c>>
<1>1. /\ <<>> \in Seq(CallType) /\ <<a>> \in Seq(CallType) /\ <<a, b>> \in Seq(CallType)
      /\ <<a, b, c>> \in Seq(CallType)
  OBVIOUS
<1>2. <<a>> = <<a>> \o <<>> /\ <<a, b>> \o <<>> = <<a, b>>
  BY <1>1, ConcatEmptySeq
<1>3. <<a, b>> = <<a>> \o <<b>>
  <2> DEFINE q == <<a>> \o <<b>>
  <2>1. <<b>> \in Seq(CallType) /\ Len(<<a>>) = 1 /\ Len(<<b>>) = 1 /\ <<a>>[1] = a /\ <<b>>[1] = b
    OBVIOUS
  <2>2. q \in Seq(CallType) /\ Len(q) = 2 /\ q[1] = a /\ q[2] = b
    <3>1. /\ q \in Seq(CallType) /\ Len(q) = 1 + 1
          /\ \A i \in 1..(1 + 1) : q[i] = IF i <= 1 THEN <<a>>[i] ELSE <<b>>[i - 1]
      BY <1>1, <2>1, ConcatProperties
    <3> QED
      BY <2>1, <3>1
  <2> HIDE DEF q
  <2>3. q = <<a, b>>
    BY <2>2
  <2> QED
    BY <2>3 DEF q
<1>4. <<a, b, c>> = <<a>> \o <<b, c>>
  OBVIOUS
<1> QED
  BY <1>1, <1>2, <1>3, <1>4

\* Calls about a user
LEMMA UserCalls ==
    ASSUME NEW u \in UserId, NEW op \in OnUser
    PROVE  Call(op, u) \in CallType
  BY CallTypes, BoundsAssumption DEF UserId

\* A handler that goes on to revoke the requests of a user
LEMMA LeavingStarts ==
    ASSUME IInv, Based(committed), NEW C, C = committed, NEW t \in Thread, NEW c \in CallType,
           todo[t] = <<c>>, floorRequests = Start(C), Mixer(C), told = C.told,
           users = C.users, transport = C.transport, NEW u \in UserId, NEW tail \in Seq(CallType),
           MakesCalls(t, <<Call("revokeUser", u)>> \o tail), Leaves(C, t, u, tail)',
           UNCHANGED <<floorRequests, presenterId, editorId>>,
           told' = told \/ told' = [told EXCEPT ![u] = {}],
           \A v \in UserId \ {u} : transport'[v] = transport[v] /\ (v \in users' <=> v \in users),
           transport'[u] = NoConn => told'[u] = {}
    PROVE  Leads(C, t)
<1>1. Call("revokeUser", u) \in CallType
  BY UserCalls DEF OnUser
<1>2. <<Call("revokeUser", u)>> \o tail \in Seq(CallType) /\ <<Call("revokeUser", u)>> \o tail # <<>>
  BY <1>1, First
<1>3. todo'[t] = <<Call("revokeUser", u)>> \o tail
  BY <1>2, OnlyCall DEF IInv
<1>4. Knows(C, {}, {}, u)'
  <2>1. /\ C.told = [v \in UserId |-> C.told[v]]
        /\ \A v \in UserId : v \notin C.users \/ C.transport[v] = NoConn => C.told[v] = {}
    BY DEF Based
  <2>2. \A q : FC!Reports({}, q) = {}
    BY DEF FC!Reports
  <2>3. Given({}) = {}
    BY DEF Given
  <2>4. told' = [v \in UserId |-> told'[v]] /\ \A v \in UserId \ {u} : told'[v] = C.told[v]
    BY <2>1
  <2>5. ASSUME NEW v \in UserId, v \in users', transport'[v] # NoConn, v # u
        PROVE  told'[v] = (C.told[v] \ FC!Reports({}, queried'[v])) \cup FC!Reports({}, queried'[v])
    BY <2>2, <2>4, <2>5
  <2>6. ASSUME NEW v \in UserId, ~ (v \in users' /\ transport'[v] # NoConn), v # u \/ transport'[v] = NoConn
        PROVE  told'[v] = {}
    BY <2>1, <2>4, <2>6
  <2> QED
    BY <2>3, <2>4, <2>5, <2>6 DEF Knows
<1>5. Leaving(C, t)'
  BY <1>3, <1>4 DEF Leaving, Mixer
<1> QED
  BY <1>2, <1>3, <1>5 DEF Leads, Phase

\* RemoveUser
LEMMA RemoveUserLeads ==
    ASSUME IInv, Based(committed), NEW C, C = committed, NEW t \in Thread, NEW c \in CallType,
           todo[t] = <<c>>, AtStart(C), NEW u \in UserId, RemoveUser(t, u)
    PROVE  Leads(C, t)
<1>1. CASE ending \/ u \notin users
  <2>1. Returns(t) /\ UNCHANGED shared
    BY <1>1 DEF RemoveUser, shared
  <2> QED
    BY <2>1, RefusedLeads
<1>2. CASE ~ ending /\ u \in users
  <2> DEFINE tail == <<Call("closeTransport", u)>>
  <2>1. Call("revokeUser", u) \in CallType /\ Call("closeTransport", u) \in CallType
    BY UserCalls DEF OnUser
  <2>2. tail \in Seq(CallType) /\ MakesCalls(t, <<Call("revokeUser", u)>> \o tail)
    BY <1>2, <2>1, Lists DEF RemoveUser
  <2>3. Leaves(C, t, u, tail)'
    BY <1>2 DEF RemoveUser, Leaves, AtStart, Members, Links, Views
  <2>4. transport[u] = NoConn => told[u] = {}
    BY <1>2 DEF Based, AtStart, Members, Links, Views
  <2> HIDE DEF tail
  <2> QED
    BY <1>2, <2>2, <2>3, <2>4, LeavingStarts DEF RemoveUser, AtStart, Members, Links, Views
<1> QED
  BY <1>1, <1>2

\* DisconnectUser
LEMMA DisconnectUserLeads ==
    ASSUME IInv, Based(committed), NEW C, C = committed, NEW t \in Thread, NEW c \in CallType,
           todo[t] = <<c>>, AtStart(C), t \in Conn, C.conn[t].state = "open", NEW u, u = C.conn[t].user,
           DisconnectUser(t, u)
    PROVE  Leads(C, t)
<1>1. CASE Returns(t) /\ UNCHANGED shared
  BY <1>1, RefusedLeads
<1>2. CASE ~ ending /\ u \in users /\ ResetUser(t, u, <<>>)
  <2> DEFINE tail == <<Call("closeTransport", u)>>
  <2>1. u \in UserId
    BY <1>2 DEF IInv, Types, SharedTypes
  <2>2. Call("revokeUser", u) \in CallType /\ Call("closeTransport", u) \in CallType
    BY <2>1, UserCalls DEF OnUser
  <2>3. tail \in Seq(CallType) /\ MakesCalls(t, <<Call("revokeUser", u)>> \o tail)
    BY <1>2, <2>2, Lists DEF ResetUser
  <2>4. Leaves(C, t, u, tail)'
    BY <1>2 DEF ResetUser, Leaves, AtStart, Members, Links, Views
  <2>5. transport[u] = NoConn => told[u] = {}
    BY <1>2, <2>1 DEF Based, AtStart, Members, Links, Views
  <2> HIDE DEF tail
  <2> QED
    BY <1>2, <2>1, <2>3, <2>4, <2>5, LeavingStarts DEF ResetUser, AtStart, Members, Links, Views
<1> QED
  BY <1>1, <1>2 DEF DisconnectUser

\* UserConnected
LEMMA UserConnectedLeads ==
    ASSUME IInv, Based(committed), NEW C, C = committed, NEW t \in Thread, NEW c \in CallType,
           todo[t] = <<c>>, AtStart(C), t \in Conn, C.conn[t].state = "new", NEW u \in UserId,
           UserConnected(t, u)
    PROVE  Leads(C, t)
<1> DEFINE attach == <<Call("setTransport", u), Call("accept", u)>>
           tail == <<Call("closeTransport", u), Call("setTransport", u), Call("accept", u)>>
<1>1. CASE Returns(t) /\ UNCHANGED shared
  BY <1>1, RefusedLeads
<1>2. /\ Call("revokeUser", u) \in CallType /\ Call("closeTransport", u) \in CallType
      /\ Call("setTransport", u) \in CallType /\ Call("accept", u) \in CallType
  BY UserCalls DEF OnUser
<1>3. /\ tail \in Seq(CallType) /\ attach \in Seq(CallType)
      /\ <<Call("revokeUser", u), Call("closeTransport", u)>> \o attach = <<Call("revokeUser", u)>> \o tail
  <2>1. tail \in Seq(CallType) /\ attach \in Seq(CallType)
    BY <1>2
  <2>2. <<Call("revokeUser", u), Call("closeTransport", u)>> \o attach = <<Call("revokeUser", u)>> \o tail
    BY <1>2, SMTT(30)
  <2> QED
    BY <2>1, <2>2
<1>4. CASE ~ ending /\ u \in users /\ transport[u] # NoConn /\ ResetUser(t, u, attach)
  <2>1. MakesCalls(t, <<Call("revokeUser", u)>> \o tail)
    BY <1>3, <1>4 DEF ResetUser
  <2>2. Leaves(C, t, u, tail)'
    BY <1>4 DEF ResetUser, Leaves, AtStart, Members, Links, Views
  <2> HIDE DEF tail, attach
  <2> QED
    BY <1>3, <1>4, <2>1, <2>2, LeavingStarts DEF ResetUser, AtStart, Members, Links, Views
<1>5. CASE ~ ending /\ u \in users /\ transport[u] = NoConn /\ MakesCalls(t, attach) /\ UNCHANGED shared
  <2>1. todo'[t] = attach
    BY <1>3, <1>5, OnlyCall DEF IInv
  <2>2. transport' = [C.transport EXCEPT ![u] = NoConn]
    <3>1. C.transport = [v \in UserId |-> C.transport[v]]
      BY DEF Based
    <3>2. C.transport[u] = NoConn /\ transport' = C.transport
      BY <1>5 DEF AtStart, Links, shared
    <3>3. ASSUME NEW v \in UserId PROVE [C.transport EXCEPT ![u] = NoConn][v] = C.transport[v]
      BY <3>1, <3>2
    <3> QED
      BY <3>1, <3>2, <3>3
  <2>3. AtStart(C)'
    BY <1>5, StillAtStart
  <2>4. Resets(C, u)'
    BY <1>5, <2>3 DEF Resets, AtStart, Links
  <2>5. Attaching(C, t)'
    BY <1>5, <2>1, <2>2, <2>3, <2>4 DEF Attaching, AtStart, Members
  <2>6. todo'[t] # <<>>
    BY <2>1
  <2> QED
    BY <2>5, <2>6 DEF Leads, Phase
<1> QED
  BY <1>1, <1>4, <1>5 DEF UserConnected

\* A connection that ends and leaves no user behind
LEMMA ClosedOnly ==
    ASSUME Based(committed), NEW C, C = committed, NEW t \in Conn, C.conn[t].state = "open",
           C.conn[t].user \notin C.users \/ C.conn[t].closedByServer,
           Members(C)', chairId' = C.chairId, queried' = C.queried, transport' = C.transport,
           conn' = [C.conn EXCEPT ![t].state = "closed"], Mixer(C)', Views(C)',
           floorRequests' = Start(C), counter' = C.counter, Here(committed)'
    PROVE  FC!onClose(t)
<1>1. Ongoing' = C.requests
  BY OngoingIs
<1> QED
  BY <1>1 DEF FC!onClose, Here, Members, Mixer, Views, FC!mixerVars, FC!viewVars

\* onClose
LEMMA onCloseLeads ==
    ASSUME IInv, Based(committed), NEW C, C = committed, NEW t \in Thread, NEW c \in CallType,
           todo[t] = <<c>>, AtStart(C), t \in Conn, C.conn[t].state = "open",
           NEW u \in 0..MaxUser, u = C.conn[t].user, onClose(t, u)
    PROVE  Leads(C, t)
<1>1. /\ Members(C)' /\ chairId' = C.chairId /\ queried' = C.queried /\ transport' = C.transport
      /\ conn' = [C.conn EXCEPT ![t].state = "closed"] /\ Mixer(C)' /\ Views(C)'
      /\ floorRequests' = Start(C) /\ counter' = C.counter
  BY DEF onClose, AtStart, Members, Links, Mixer, Views
<1>2. CASE C.conn[t].closedByServer
  <2>1. todo'[t] = <<>>
    <3>1. MakesCalls(t, <<>>) /\ <<>> \in Seq(CallType)
      BY <1>2 DEF onClose, AtStart, Links
    <3> QED
      BY <3>1, OnlyCall DEF IInv
  <2>2. Here(committed)' => FC!onClose(t)
    BY <1>1, <1>2, ClosedOnly
  <2> QED
    BY <2>1, <2>2 DEF Leads, FC!Next
<1>3. CASE ~ C.conn[t].closedByServer
  <2>1. Call("userDisconnected", u) \in CallType
    BY CallTypes DEF OnUser
  <2>2. todo'[t] = <<Call("userDisconnected", u)>>
    <3>1. MakesCalls(t, <<Call("userDisconnected", u)>>) /\ <<Call("userDisconnected", u)>> \in Seq(CallType)
      BY <1>3, <2>1 DEF onClose, AtStart, Links
    <3> QED
      BY <3>1, OnlyCall DEF IInv
  <2>3. Closing(C, t)'
    BY <1>1, <1>3, <2>2 DEF Closing
  <2>4. todo'[t] # <<>>
    BY <2>2
  <2> QED
    BY <2>3, <2>4 DEF Leads, Phase
<1> QED
  BY <1>2, <1>3

\* UserDisconnected
LEMMA ClosingLeads ==
    ASSUME IInv, Based(committed), NEW C, C = committed, NEW t \in Thread, Closing(C, t), Step(t)
    PROVE  Leads(C, t)
<1>1. PICK u \in 0..MaxUser :
       /\ todo[t] = <<Call("userDisconnected", u)>>
       /\ t \in Conn /\ C.conn[t].state = "open" /\ C.conn[t].user = u /\ ~ C.conn[t].closedByServer
       /\ Members(C) /\ chairId = C.chairId /\ queried = C.queried /\ transport = C.transport
       /\ conn = [C.conn EXCEPT ![t].state = "closed"]
       /\ Mixer(C) /\ Views(C) /\ floorRequests = Start(C) /\ counter = C.counter
  BY DEF Closing
<1>2. Call("userDisconnected", u) \in CallType
  BY CallTypes DEF OnUser
<1>3. Makes(t, "userDisconnected") /\ Arg(t) = u /\ (Returns(t) => todo'[t] = <<>>)
  <2>1. Call("userDisconnected", u).op = "userDisconnected" /\ Call("userDisconnected", u).arg = u
    BY CallTypes
  <2> QED
    BY <1>1, <1>2, <2>1, OnlyCall DEF IInv
<1>4. UserDisconnected(t, u)
  BY <1>3, OtherSteps
<1>5. CASE u \notin users /\ Returns(t) /\ UNCHANGED shared
  <2>1. Here(committed)' => FC!onClose(t)
    BY <1>1, <1>5, ClosedOnly DEF shared, Members, Mixer, Views
  <2> QED
    BY <1>1, <1>3, <1>5, <2>1 DEF Leads, FC!Next
<1>6. CASE u \in users
  <2>1. u \in UserId /\ ~ ending
    BY <1>1, <1>6 DEF IInv, Types, SharedTypes, Based, Members
  <2>2. /\ MakesCalls(t, <<Call("revokeUser", u)>>)
        /\ transport' = [transport EXCEPT ![u] = NoConn] /\ queried' = [queried EXCEPT ![u] = {}]
        /\ told' = [told EXCEPT ![u] = {}] /\ answered' = [answered EXCEPT ![u] = {}]
        /\ UNCHANGED <<lastUser, users, chairs, chairId, counter, ending, conn, presenterId,
                      editorId, floorRequests>>
    BY <1>4, <1>6, <2>1 DEF UserDisconnected, ForgetReports
  <2>3. MakesCalls(t, <<Call("revokeUser", u)>> \o <<>>) /\ <<>> \in Seq(CallType)
    <3>1. Call("revokeUser", u) \in CallType
      BY <2>1, UserCalls DEF OnUser
    <3> QED
      BY <2>2, <3>1, Lists
  <2>4. Leaves(C, t, u, <<>>)'
    BY <1>1, <1>6, <2>1, <2>2 DEF Leaves, Members, Views
  <2>5. told'[u] = {}
    BY <1>1, <2>1, <2>2 DEF Based, Views
  <2>6. \A v \in UserId \ {u} : transport'[v] = transport[v] /\ (v \in users' <=> v \in users)
    BY <1>1, <2>2 DEF Based
  <2> QED
    BY <1>1, <1>2, <2>1, <2>2, <2>3, <2>4, <2>5, <2>6, LeavingStarts DEF Members, Views
<1> QED
  BY <1>4, <1>5, <1>6 DEF UserDisconnected

\* RevokingEnds, as a formula
LEMMA AllEnd ==
    \A C, these, all, extra, op, t, u : \A tail \in Seq(CallType) :
       Context(C, these, all, extra, op) /\ Revoking(C, t, u, these, all, extra, op, tail) /\ todo[t] = <<>>
       => tail = <<>> /\ Revoked(C, u, all, extra)
  BY RevokingEnds

\* The same of the state after the step
LEMMA AllEndNext ==
    (\A C, these, all, extra, op, t, u : \A tail \in Seq(CallType) :
       Context(C, these, all, extra, op) /\ Revoking(C, t, u, these, all, extra, op, tail) /\ todo[t] = <<>>
       => tail = <<>> /\ Revoked(C, u, all, extra))'
  BY AllEnd, PTL

\* RevokingEnds, of the state after the step
LEMMA RevokingEndsNext ==
    ASSUME NEW C, NEW these, NEW all, NEW extra, NEW op, Context(C, these, all, extra, op)',
           NEW t, NEW u, NEW tail \in Seq(CallType),
           Revoking(C, t, u, these, all, extra, op, tail)', todo'[t] = <<>>
    PROVE  tail = <<>> /\ Revoked(C, u, all, extra)'
  BY AllEndNext

\* What revoking the requests of a user relies on
LEMMA LeavingContext ==
    ASSUME NEW C, Based(C), NEW u
    PROVE  /\ ~ ending => Context(C, OfUser(C, u), LeftBy(C, u), {}, "revokeOrDeny")
           /\ ~ ending' => Context(C, OfUser(C, u), LeftBy(C, u), {}, "revokeOrDeny")'
<1>1. OfUser(C, u) \in SUBSET Start(C) /\ Given({}) = {}
  BY DEF OfUser, Given
<1>2. Tight(C, OfUser(C, u), LeftBy(C, u), {})
  BY <1>1, ReleasedTight DEF LeftBy
<1> QED
  BY <1>2 DEF Context

\* The requests of a user are being revoked, or its connection was closed and is done with.
LEMMA LeavesLeads ==
    ASSUME Based(committed), NEW C, C = committed, NEW t \in Thread, NEW u \in UserId,
           NEW tail \in Seq(CallType), Leaves(C, t, u, tail)',
           Revoking(C, t, u, OfUser(C, u), LeftBy(C, u), {}, "revokeOrDeny", tail)'
    PROVE  Leads(C, t)
<1>1. Leaving(C, t)'
  BY DEF Leaving
<1>2. ASSUME todo'[t] = <<>>, Here(committed)' PROVE FC!onClose(t) /\ t \in Conn
  <2>1. Context(C, OfUser(C, u), LeftBy(C, u), {}, "revokeOrDeny")'
    BY LeavingContext DEF Leaves
  <2>2. tail = <<>> /\ Revoked(C, u, LeftBy(C, u), {})'
    BY <1>2, <2>1, RevokingEndsNext
  <2>3. \A c, d, e : <<c>> # <<>> /\ <<c, d, e>> # <<>>
    OBVIOUS
  <2>4. /\ u \in C.users /\ ~ C.ending /\ ending' = C.ending
        /\ lastUser' = C.lastUser /\ chairId' = C.chairId /\ counter' = C.counter
        /\ t \in Conn /\ users' = C.users /\ chairs' = C.chairs
        /\ queried' = [C.queried EXCEPT ![u] = {}]
        /\ C.conn[t].state = "open" /\ C.conn[t].user = u /\ ~ C.conn[t].closedByServer
        /\ transport' = [C.transport EXCEPT ![u] = NoConn]
        /\ conn' = [C.conn EXCEPT ![t].state = "closed"]
        /\ answered' = [C.answered EXCEPT ![u] = {}]
    <3>1. Leaves(C, t, u, <<>>)'
      BY <2>2
    <3> QED
      BY <2>3, <3>1 DEF Leaves
  <2>5. transport'[u] = NoConn /\ \A v \in UserId \ {u} : transport'[v] = C.transport[v] /\ queried'[v] = C.queried[v]
    BY <2>4 DEF Based
  <2>6. told'[u] = {}
    BY <2>2, <2>5 DEF Revoked, Knows
  <2>7. FC!RevokeUserFloorRequests(u)
    BY <1>2, <2>2, <2>4, <2>5, <2>6, UserRevoked
  <2> QED
    BY <1>2, <2>4, <2>7 DEF FC!onClose, Here
<1>3. todo'[t] = <<>> /\ Here(committed)' => FC!Next
  BY <1>2 DEF FC!Next
<1> QED
  BY <1>1, <1>3 DEF Leads, Phase

\* RevokeUserFloorRequests
LEMMA RevokeUserLeads ==
    ASSUME IInv, Based(committed), NEW C, C = committed, NEW t \in Thread, NEW u \in UserId,
           NEW tail \in Seq(CallType), Leaves(C, t, u, tail), todo[t] = <<Call("revokeUser", u)>> \o tail,
           floorRequests = Start(C), Mixer(C), Knows(C, {}, {}, u), Step(t)
    PROVE  Leads(C, t)
<1> DEFINE ids == Ids(OfUser(C, u))
           rest == Loop("revokeOrDeny", ids) \o tail
<1>1. Call("revokeUser", u) \in CallType
  BY UserCalls DEF OnUser
<1>2. RevokeUserFloorRequests(t, u)
  BY <1>1, FirstMade, OtherSteps
<1>3. MakesCalls(t, Loop("revokeOrDeny", ids)) /\ UNCHANGED shared
  BY <1>2 DEF RevokeUserFloorRequests, OfUser
<1>4. todo'[t] = rest
  BY <1>1, <1>3, Replaced DEF IInv
<1>5. /\ ids \in SUBSET Nat /\ \A r \in OfUser(C, u) : r.id \in ids
      /\ \A r \in Start(C) : r.id \in ids => r \in OfUser(C, u)
  BY StartFacts DEF OfUser, Ids
<1>6. rest \in Seq(CallType) /\ rest = <<>> \o rest
  <2>1. Loop("revokeOrDeny", ids) \in Seq(CallType)
    BY <1>5, LoopCalls DEF OnIds
  <2>2. rest \in Seq(CallType)
    BY <2>1, ConcatProperties
  <2> HIDE DEF rest
  <2> QED
    BY <2>2, ConcatEmptySeq
<1>7. Inner(C, <<>>, {}, LeftBy(C, u), {})'
  <2>1. Given({}) = {} /\ ~ Drops({} \cup {})
    BY DEF Given, Drops
  <2>2. UNCHANGED <<presenterId, editorId>>
    BY <1>3 DEF shared
  <2> QED
    BY <2>1, <2>2 DEF Inner, Presents, Edits, Settled, Mixer, FC!AfterRelease
<1>8. Knows(C, {}, {}, u)' /\ Leaves(C, t, u, tail)' /\ floorRequests' = (Start(C) \ {}) \cup {}
  BY <1>3 DEF shared, Knows, Leaves, Links
<1>9. Given({}) = {}
  BY DEF Given
<1> HIDE DEF ids
<1>10. At(C, t, u, OfUser(C, u), LeftBy(C, u), {}, "revokeOrDeny", tail, {}, <<>>, ids)'
  BY <1>4, <1>5, <1>6, <1>7, <1>8, <1>9 DEF At
<1>11. Revoking(C, t, u, OfUser(C, u), LeftBy(C, u), {}, "revokeOrDeny", tail)'
  BY <1>10 DEF Revoking
<1> QED
  BY <1>8, <1>11, LeavesLeads

\* CloseTransport, for a user whose requests are revoked
LEMMA TransportClosed ==
    ASSUME NEW C, Based(C), NEW t, NEW u \in UserId, NEW all, Revoked(C, u, all, {}),
           CloseTransport(t, u), transport = C.transport, answered = C.answered
    PROVE  /\ Revoked(C, u, all, {})' /\ told'[u] = {} /\ answered' = [C.answered EXCEPT ![u] = {}]
           /\ transport' = [C.transport EXCEPT ![u] = NoConn] /\ transport'[u] = NoConn
           /\ \A v \in UserId \ {u} : transport'[v] = C.transport[v]
<1>1. /\ transport' = [transport EXCEPT ![u] = NoConn] /\ told' = [told EXCEPT ![u] = {}]
      /\ answered' = [answered EXCEPT ![u] = {}]
      /\ UNCHANGED <<users, queried, presenterId, editorId, floorRequests>>
  BY DEF CloseTransport, ForgetReports
<1>2. transport'[u] = NoConn /\ \A v \in UserId \ {u} : transport'[v] = C.transport[v]
  BY <1>1 DEF Based
<1>3. told' = [v \in UserId |-> told'[v]] /\ told'[u] = {} /\ \A v \in UserId \ {u} : told'[v] = told[v]
  BY <1>1 DEF Revoked, Knows
<1>4. Knows(C, all, {}, u)'
  BY <1>1, <1>2, <1>3 DEF Revoked, Knows
<1> QED
  BY <1>1, <1>2, <1>3, <1>4 DEF Revoked, Presents, Edits

\* The calls after the requests of a user are revoked
LEMMA LeftLeads ==
    ASSUME IInv, Based(committed), NEW C, C = committed, NEW t \in Thread, NEW u \in UserId,
           NEW tail \in Seq(CallType), Leaves(C, t, u, tail), todo[t] = tail,
           Revoked(C, u, LeftBy(C, u), {}), Step(t)
    PROVE  Leads(C, t)
<1> DEFINE a == Call("closeTransport", u)
           b == Call("setTransport", u)
           c == Call("accept", u)
<1>1. a \in CallType /\ b \in CallType /\ c \in CallType /\ a.op = "closeTransport" /\ a.arg = u
  <2>1. a.op = "closeTransport" /\ a.arg = u
    BY CallTypes
  <2> QED
    BY <2>1, UserCalls DEF OnUser
<1>2. tail # <<>>
  BY DEF Step, Makes
<1>3. tail = <<a>> \/ tail = <<a, b, c>>
  BY <1>2 DEF Leaves
<1> HIDE DEF b, c
<1>4. \E s \in Seq(CallType) : tail = <<a>> \o s
  <2>1. <<a>> = <<a>> \o <<>> /\ <<a, b, c>> = <<a>> \o <<b, c>> /\ <<>> \in Seq(CallType) /\ <<b, c>> \in Seq(CallType)
    BY <1>1, Lists DEF a
  <2> QED
    BY <1>3, <2>1 DEF a
<1>5. CloseTransport(t, u)
  BY <1>1, <1>4, FirstMade, OtherSteps
<1>6. ~ (tail = <<>>) /\ (tail = <<a>> \/ tail = <<a, b, c>>) /\ <<a>> # <<a, b, c>>
  BY <1>2, <1>3
<1>7. transport = C.transport /\ conn = C.conn /\ answered = C.answered
  BY <1>2 DEF Leaves, Links
<1>8. /\ Revoked(C, u, LeftBy(C, u), {})' /\ told'[u] = {} /\ answered' = [C.answered EXCEPT ![u] = {}]
      /\ transport' = [C.transport EXCEPT ![u] = NoConn] /\ transport'[u] = NoConn
      /\ \A v \in UserId \ {u} : transport'[v] = C.transport[v]
  BY <1>5, <1>7, TransportClosed
<1>9. /\ conn' = [d \in Conn |-> IF d = C.transport[u]
                               THEN [C.conn[d] EXCEPT !.closedByServer = TRUE] ELSE C.conn[d]]
      /\ UNCHANGED <<lastUser, users, chairs, chairId, counter, ending, queried>>
      /\ MakesCalls(t, <<>>)
  BY <1>5, <1>7 DEF CloseTransport, Returns
<1>10. CASE tail = <<a>>
  <2>1. todo'[t] = <<>>
    BY <1>1, <1>9, <1>10, OnlyCall DEF IInv, Returns
  <2> SUFFICES ASSUME Here(committed)' PROVE FC!RemoveUser(u) \/ (t \in Conn /\ FC!DisconnectUser(t, u))
    BY <2>1 DEF Leads, FC!Next, FC!UserId, UserId
  <2>2. \A v \in UserId \ {u} : queried'[v] = C.queried[v]
    BY <1>9 DEF Leaves, Links, Based
  <2>3. \A v \in UserId \ {u} : v \in users' <=> v \in C.users
    BY <1>9 DEF Leaves
  <2>4. FC!RevokeUserFloorRequests(u)
    BY <1>8, <2>2, <2>3, UserRevoked
  <2>5. FC!CloseTransport(u)
    BY <1>8, <1>9 DEF FC!CloseTransport, FC!ClosedByServer, Here
  <2>6. CASE users = C.users \ {u} /\ chairs = C.chairs \ {u} /\ Links(C)
    BY <1>9, <2>4, <2>5, <2>6 DEF FC!RemoveUser, Leaves, Here, Links
  <2>7. CASE /\ t \in Conn /\ users = C.users /\ chairs = C.chairs
             /\ queried = [C.queried EXCEPT ![u] = {}] /\ C.conn[t].state = "open" /\ C.conn[t].user = u
    BY <1>9, <2>4, <2>5, <2>7 DEF FC!DisconnectUser, FC!Delivers, Leaves, Here
  <2> QED
    BY <1>6, <1>10, <2>6, <2>7 DEF Leaves
<1>11. CASE tail = <<a, b, c>>
  <2>1. todo'[t] = <<b, c>> /\ <<b, c>> # <<>>
    <3>1. <<a, b, c>> = <<a>> \o <<b, c>> /\ <<b, c>> \in Seq(CallType)
      BY <1>1, Lists DEF a
    <3>2. todo'[t] = <<>> \o <<b, c>>
      BY <1>1, <1>9, <1>11, <3>1, Replaced DEF IInv
    <3> QED
      BY <3>1, <3>2, ConcatEmptySeq
  <2>2. /\ t \in Conn /\ users = C.users /\ chairs = C.chairs
        /\ queried = [C.queried EXCEPT ![u] = {}] /\ C.conn[t].state = "new" /\ C.transport[u] # NoConn
    BY <1>6, <1>11 DEF Leaves, b, c
  <2>3. Members(C)' /\ chairId' = C.chairId /\ counter' = C.counter /\ u \in C.users /\ ~ C.ending
    BY <1>9, <2>2 DEF Leaves, Members
  <2>4. Resets(C, u)'
    BY <1>8, <1>9, <2>2 DEF Resets
  <2>5. Attaching(C, t)'
    BY <1>8, <2>1, <2>2, <2>3, <2>4 DEF Attaching, b, c
  <2> QED
    BY <2>1, <2>5 DEF Leads, Phase
<1> QED
  BY <1>3, <1>10, <1>11

\* A handler that revokes the requests of a user
LEMMA LeavingLeads ==
    ASSUME IInv, Based(committed), NEW C, C = committed, NEW t \in Thread, Leaving(C, t), Step(t)
    PROVE  Leads(C, t)
<1>1. PICK u \in UserId, tail \in Seq(CallType) :
       /\ Leaves(C, t, u, tail)
       /\ \/ /\ todo[t] = <<Call("revokeUser", u)>> \o tail
             /\ floorRequests = Start(C) /\ Mixer(C) /\ Knows(C, {}, {}, u)
          \/ Revoking(C, t, u, OfUser(C, u), LeftBy(C, u), {}, "revokeOrDeny", tail)
  BY DEF Leaving
<1>2. CASE /\ todo[t] = <<Call("revokeUser", u)>> \o tail
           /\ floorRequests = Start(C) /\ Mixer(C) /\ Knows(C, {}, {}, u)
  BY <1>1, <1>2, RevokeUserLeads
<1>3. CASE Revoking(C, t, u, OfUser(C, u), LeftBy(C, u), {}, "revokeOrDeny", tail)
  <2>1. Context(C, OfUser(C, u), LeftBy(C, u), {}, "revokeOrDeny")
    BY <1>1, LeavingContext DEF Leaves
  <2>2. CASE Revoking(C, t, u, OfUser(C, u), LeftBy(C, u), {}, "revokeOrDeny", tail)' /\ Frozen
    <3>1. Leaves(C, t, u, tail)'
      BY <1>1, <2>2 DEF Leaves, Links, Frozen
    <3> QED
      BY <2>2, <3>1, LeavesLeads
  <2>3. CASE todo[t] = tail /\ Revoked(C, u, LeftBy(C, u), {})
    BY <1>1, <2>3, LeftLeads
  <2> QED
    BY <1>3, <2>1, <2>2, <2>3, RevokingSteps
<1> QED
  BY <1>1, <1>2, <1>3

\* SetTransport
LEMMA SetTransportLeads ==
    ASSUME IInv, Based(committed), NEW C, C = committed, NEW t \in Thread, NEW u \in UserId,
           t \in Conn, u \in C.users, ~ C.ending, C.conn[t].state = "new",
           Members(C), chairId = C.chairId, counter = C.counter, Resets(C, u),
           todo[t] = <<Call("setTransport", u), Call("accept", u)>>,
           transport = [C.transport EXCEPT ![u] = NoConn], Step(t)
    PROVE  Leads(C, t)
<1> DEFINE a == Call("setTransport", u)
           b == Call("accept", u)
<1>1. a \in CallType /\ b \in CallType
  BY UserCalls DEF OnUser
<1>2. todo[t] = <<a>> \o <<b>> /\ <<b>> \in Seq(CallType)
  BY <1>1, Lists
<1>3. SetTransport(t, u)
  BY <1>1, <1>2, FirstMade, OtherSteps
<1>4. /\ transport' = [transport EXCEPT ![u] = t] /\ MakesCalls(t, <<>>)
      /\ UNCHANGED <<lastUser, users, chairs, chairId, counter, ending, queried, conn,
                     presenterId, editorId, answered, told, floorRequests>>
  BY <1>3 DEF SetTransport, Returns
<1>5. todo'[t] = <<b>> /\ <<b>> # <<>>
  <2>1. todo'[t] = <<>> \o <<b>>
    BY <1>1, <1>2, <1>4, Replaced DEF IInv
  <2> QED
    BY <1>2, <2>1, ConcatEmptySeq
<1>6. /\ transport' = [C.transport EXCEPT ![u] = t]
      /\ \A v \in UserId \ {u} : transport'[v] = transport[v]
  <2>1. C.transport = [v \in UserId |-> C.transport[v]]
    BY DEF Based
  <2> QED
    BY <1>4, <2>1
<1>7. Members(C)'
  BY <1>4 DEF Members
<1>8. Resets(C, u)'
  <2>1. CASE C.transport[u] = NoConn
    BY <1>4, <2>1 DEF Resets, Mixer, Views
  <2>2. CASE C.transport[u] # NoConn
    <3>1. told[u] = {} /\ Revoked(C, u, LeftBy(C, u), {})
      BY <2>2 DEF Resets
    <3>2. Knows(C, LeftBy(C, u), {}, u)'
      BY <1>4, <1>6, <3>1 DEF Revoked, Knows
    <3> QED
      BY <1>4, <2>2, <3>1, <3>2 DEF Resets, Revoked, Presents, Edits
  <2> QED
    BY <2>1, <2>2
<1>9. Attaching(C, t)'
  BY <1>4, <1>5, <1>6, <1>7, <1>8 DEF Attaching
<1> QED
  BY <1>5, <1>9 DEF Leads, Phase

\* SetUserData and Accept: the end of UserConnected
LEMMA AcceptLeads ==
    ASSUME IInv, Based(committed), NEW C, C = committed, NEW t \in Thread, NEW u \in UserId,
           t \in Conn, u \in C.users, ~ C.ending, C.conn[t].state = "new",
           Members(C), chairId = C.chairId, counter = C.counter, Resets(C, u),
           todo[t] = <<Call("accept", u)>>, transport = [C.transport EXCEPT ![u] = t], Step(t)
    PROVE  Leads(C, t)
<1>1. Call("accept", u) \in CallType
  BY UserCalls DEF OnUser
<1>2. Makes(t, "accept") /\ Arg(t) = u /\ (Returns(t) => todo'[t] = <<>>)
  <2>1. Call("accept", u).op = "accept" /\ Call("accept", u).arg = u
    BY CallTypes
  <2> QED
    BY <1>1, <2>1, OnlyCall DEF IInv
<1>3. Accept(t, u)
  BY <1>2, OtherSteps
<1>4. /\ conn' = [conn EXCEPT ![t] = [user |-> u, state |-> "open", closedByServer |-> FALSE]]
      /\ UNCHANGED <<lastUser, users, chairs, chairId, counter, ending, queried, transport,
                     presenterId, editorId, answered, told, floorRequests>>
      /\ todo'[t] = <<>>
  BY <1>2, <1>3 DEF Accept
<1> SUFFICES ASSUME Here(committed)' PROVE FC!UserConnected(u, t)
  BY <1>4 DEF Leads, FC!Next, FC!UserId, UserId
<1>5. conn = FC!ClosedByServer({C.transport[u]})
  <2>1. FC!ClosedByServer({C.transport[u]}) =
          [c \in Conn |-> IF c = C.transport[u] THEN [C.conn[c] EXCEPT !.closedByServer = TRUE] ELSE C.conn[c]]
    BY DEF FC!ClosedByServer
  <2>2. CASE C.transport[u] # NoConn
    BY <2>1, <2>2 DEF Resets
  <2>3. CASE C.transport[u] = NoConn
    <3>1. conn = C.conn /\ conn = [c \in Conn |-> conn[c]]
      BY <2>3 DEF Resets, IInv, Types, SharedTypes
    <3>2. \A c \in Conn : c # C.transport[u]
      BY <2>3, ConnAssumption
    <3> QED
      BY <2>1, <3>1, <3>2
  <2> QED
    BY <2>2, <2>3
<1>6. CASE C.transport[u] = NoConn
  <2>1. Ongoing' = C.requests
    BY <1>4, <1>6, OngoingIs DEF Resets
  <2>2. u \notin FC!Connected
    BY <1>6 DEF FC!Connected
  <2> QED
    BY <1>4, <1>5, <1>6, <2>1, <2>2 DEF FC!UserConnected, Here, Members, Resets, Mixer, Views,
       FC!mixerVars, FC!viewVars
<1>7. CASE C.transport[u] # NoConn
  <2>1. told'[u] = {} /\ Revoked(C, u, LeftBy(C, u), {})'
    BY <1>4, <1>7 DEF Resets, Revoked, Knows, Presents, Edits
  <2>2. u \in FC!Connected
    BY <1>7 DEF FC!Connected
  <2>3. \A v \in UserId \ {u} : transport'[v] = C.transport[v] /\ queried'[v] = C.queried[v]
    BY <1>4, <1>7 DEF Resets, Based
  <2>4. FC!RevokeUserFloorRequests(u)
    BY <1>4, <1>7, <2>1, <2>3, UserRevoked DEF Resets, Members
  <2> QED
    BY <1>4, <1>5, <1>7, <2>2, <2>4 DEF FC!UserConnected, Here, Members, Resets
<1> QED
  BY <1>6, <1>7

\* A user that is given a transport
LEMMA AttachingLeads ==
    ASSUME IInv, Based(committed), NEW C, C = committed, NEW t \in Thread, Attaching(C, t), Step(t)
    PROVE  Leads(C, t)
  BY SetTransportLeads, AcceptLeads DEF Attaching

-----------------------------------------------------------------------------
(* A request that is released.                                             *)

\* What the users know when a handler starts
LEMMA StartKnows ==
    ASSUME NEW C, Based(C), told = C.told, users = C.users, transport = C.transport, NEW u
    PROVE  Knows(C, {}, {}, u)
<1>1. \A q : FC!Reports({}, q) = {}
  BY DEF FC!Reports
<1>2. Given({}) = {}
  BY DEF Given
<1>3. told = [v \in UserId |-> told[v]]
  BY DEF Based
<1>4. ASSUME NEW v \in UserId, NEW q PROVE told[v] = (C.told[v] \ FC!Reports({}, q)) \cup FC!Reports({}, q)
  BY <1>1
<1>5. \A v \in UserId : ~ (v \in users /\ transport[v] # NoConn) => told[v] = {}
  BY DEF Based
<1> QED
  BY <1>2, <1>3, <1>4, <1>5 DEF Knows

\* What revoking one request relies on
LEMMA ReleasingContext ==
    ASSUME NEW C, Based(C), NEW r \in Start(C)
    PROVE  /\ ~ ending => Context(C, {r}, FC!Released(Start(C), {r}), {}, "revokeOrDeny")
           /\ ~ ending' => Context(C, {r}, FC!Released(Start(C), {r}), {}, "revokeOrDeny")'
<1>1. {r} \in SUBSET Start(C) /\ Given({}) = {}
  BY DEF Given
<1>2. Tight(C, {r}, FC!Released(Start(C), {r}), {})
  BY <1>1, ReleasedTight
<1> QED
  BY <1>2 DEF Context

\* What falls with a request is being revoked, or the release is done with.
LEMMA ReleasesLeads ==
    ASSUME IInv', Based(committed), NEW C, C = committed, NEW t \in Thread, NEW u \in UserId,
           NEW r \in Start(C), Sends(C, t, u)', counter' = C.counter,
           u \in {r.user, r.beneficiary} \cup C.chairs,
           Revoking(C, t, Nobody, {r}, FC!Released(Start(C), {r}), {}, "revokeOrDeny", <<>>)'
    PROVE  Leads(C, t)
<1>1. Releasing(C, t)'
  BY DEF Releasing
<1>2. ASSUME todo'[t] = <<>>, Here(committed)'
      PROVE  t \in Conn /\ \E b \in C.requests : FC!ProcessFloorRelease(t, u, b)
  <2>1. Context(C, {r}, FC!Released(Start(C), {r}), {}, "revokeOrDeny")'
    BY ReleasingContext DEF Sends, Members
  <2>2. Revoked(C, Nobody, FC!Released(Start(C), {r}), {})'
    <3>1. <<>> \in Seq(CallType)
      OBVIOUS
    <3> QED
      BY <1>2, <2>1, <3>1, RevokingEndsNext
  <2>3. PICK b \in C.requests : r = Full(b)
    BY DEF Start
  <2>4. {b} \in SUBSET C.requests /\ Up({b}) = {r}
    BY <2>3 DEF Up
  <2>5. FC!Released(Start(C), {r}) = Up(FC!Released(C.requests, {b}))
    BY <2>4, UpReleased
  <2>6. FC!EndRequests({b}, FC!Connected \ {Nobody})
    <3>1. Nobody \notin UserId /\ users' = C.users /\ transport' = C.transport /\ queried' = C.queried
      BY DEF Sends, Members, Links, Nobody, UserId
    <3>2. Revoked(C, Nobody, Up(FC!Released(C.requests, {b})), {})'
      BY <2>2, <2>5
    <3> QED
      BY <1>2, <2>4, <3>1, <3>2, RequestsEnded
  <2>7. FC!Connected \ {Nobody} = FC!Connected
    <3>1. C.users \subseteq UserId
      BY DEF Sends, Members, IInv, Types, SharedTypes
    <3> QED
      BY <3>1 DEF FC!Connected, Nobody, UserId
  <2>8. r.user = b.user /\ r.beneficiary = b.beneficiary
    BY <2>3, UpOne
  <2> QED
    BY <1>2, <2>6, <2>7, <2>8 DEF FC!ProcessFloorRelease, FC!Delivers, Sends, Members, Links, Here, FC!linkVars
<1>3. todo'[t] = <<>> /\ Here(committed)' => FC!Next
  BY <1>2 DEF FC!Next, FC!UserId, UserId
<1> QED
  BY <1>1, <1>3 DEF Leads, Phase

\* ProcessFloorRelease
LEMMA FloorReleaseLeads ==
    ASSUME IInv, IInv', Based(committed), NEW C, C = committed, NEW t \in Thread, NEW c \in CallType,
           todo[t] = <<c>>, AtStart(C), t \in Conn, C.conn[t].state = "open",
           NEW m \in [user : UserId, id : Nat], m.user = C.conn[t].user, ProcessFloorRelease(t, m)
    PROVE  Leads(C, t)
<1>1. CASE Returns(t) /\ UNCHANGED shared
  BY <1>1, RefusedLeads
<1>2. ASSUME NEW r \in GetFloorRequest(m.id), ~ Refused(m), m.user \in {r.user, r.beneficiary} \union chairs,
             EndRequest(t, r, IsGranted(r))
      PROVE  Leads(C, t)
  <2>1. r \in Start(C) /\ r \in Request /\ IsGranted(r)
    BY StartFacts DEF GetFloorRequest, AtStart
  <2>2. /\ floorRequests' = floorRequests \ {r} /\ Notify([r EXCEPT !.status = "Revoked"])
        /\ MakesCalls(t, <<Call("onFloorReleased", r)>>)
        /\ UNCHANGED <<lastUser, users, chairs, chairId, counter, ending, queried,
                       transport, conn, presenterId, editorId, answered>>
    BY <1>2, <2>1 DEF EndRequest
  <2>3. Call("onFloorReleased", r) \in CallType
    BY <2>1, CallTypes DEF OnRequest
  <2> DEFINE inner == <<Call("onFloorReleased", r)>>
  <2>4. inner \in Seq(CallType) /\ todo'[t] = inner /\ inner = inner \o (<<>> \o <<>>)
    <3>1. inner \in Seq(CallType)
      BY <2>3
    <3>2. todo'[t] = inner
      BY <2>2, <3>1, OnlyCall DEF IInv
    <3>3. inner = inner \o (<<>> \o <<>>)
      <4>1. <<>> \o <<>> = <<>>
        OBVIOUS
      <4> HIDE DEF inner
      <4> QED
        BY <3>1, <4>1, ConcatEmptySeq
    <3> QED
      BY <3>1, <3>2, <3>3
  <2>5. Knows(C, {r}, {}, Nobody)'
    <3>1. Knows(C, {}, {}, Nobody)
      BY StartKnows DEF AtStart, Members, Links, Views
    <3>2. Knows(C, {} \cup {r}, {}, Nobody)'
      BY <2>1, <2>2, <3>1, EndReported DEF Given
    <3>3. {} \cup {r} = {r}
      OBVIOUS
    <3> QED
      BY <3>2, <3>3
  <2>6. Inner(C, inner, {r}, FC!Released(Start(C), {r}), {})'
    <3>1. Given({}) = {} /\ ~ Drops({} \cup {}) /\ {r} \ {r} = {}
      BY DEF Given, Drops
    <3>2. Presents(C, {}, {})' /\ Edits(C, {})' /\ Apart(r, {})' /\ Settled(C, {}, {})'
      BY <2>2, <3>1 DEF Presents, Edits, Settled, Apart, FC!AfterRelease, AtStart, Mixer
    <3> QED
      BY <3>1, <3>2 DEF Inner
  <2>7. Given({}) = {} /\ {r} \subseteq FC!Released(Start(C), {r}) /\ Loop("revokeOrDeny", {}) = <<>>
    BY DEF Given, FC!Released, Loop
  <2>8. floorRequests' = (Start(C) \ {r}) \cup {}
    BY <2>2 DEF AtStart
  <2> HIDE DEF inner
  <2>9. At(C, t, Nobody, {r}, FC!Released(Start(C), {r}), {}, "revokeOrDeny", <<>>, {r}, inner, {})'
    BY <2>4, <2>5, <2>6, <2>7, <2>8 DEF At
  <2>10. Revoking(C, t, Nobody, {r}, FC!Released(Start(C), {r}), {}, "revokeOrDeny", <<>>)'
    BY <2>9 DEF Revoking
  <2>11. Sends(C, t, m.user)' /\ counter' = C.counter /\ m.user \in {r.user, r.beneficiary} \cup C.chairs
    BY <1>2, <2>2 DEF Sends, AtStart, Members, Links, Views, Refused
  <2> QED
    BY <2>1, <2>10, <2>11, ReleasesLeads
<1> QED
  BY <1>1, <1>2 DEF ProcessFloorRelease

\* A handler that releases a request
LEMMA ReleasingLeads ==
    ASSUME IInv, IInv', Based(committed), NEW C, C = committed, NEW t \in Thread, Releasing(C, t), Step(t)
    PROVE  Leads(C, t)
<1>1. PICK u \in UserId, r \in Start(C) :
       /\ Sends(C, t, u) /\ counter = C.counter /\ u \in {r.user, r.beneficiary} \cup C.chairs
       /\ Revoking(C, t, Nobody, {r}, FC!Released(Start(C), {r}), {}, "revokeOrDeny", <<>>)
  BY DEF Releasing
<1>2. Context(C, {r}, FC!Released(Start(C), {r}), {}, "revokeOrDeny") /\ <<>> \in Seq(CallType)
  BY <1>1, ReleasingContext DEF Sends, Members
<1>3. todo[t] # <<>>
  BY DEF Step, Makes
<1>4. Revoking(C, t, Nobody, {r}, FC!Released(Start(C), {r}), {}, "revokeOrDeny", <<>>)' /\ Frozen
  BY <1>1, <1>2, <1>3, RevokingSteps
<1>5. Sends(C, t, u)' /\ counter' = C.counter
  BY <1>1, <1>4 DEF Sends, Members, Links, Frozen
<1> QED
  BY <1>1, <1>4, <1>5, ReleasesLeads

-----------------------------------------------------------------------------
(* A request that is denied or granted.                                    *)

\* A new request and those in the map
LEMMA NewFacts ==
    ASSUME NEW C, Based(C), NEW n, NewRequest(C, n)
    PROVE  /\ n \notin Start(C) /\ \A r \in Start(C) : r.id # n.id /\ ~ IsUndecided(r)
           /\ IsUndecided(n) /\ ~ IsGranted(n) /\ Given({n}) = {} /\ n.id \in Nat
           /\ AsGranted(n) \in Request /\ IsGranted(AsGranted(n)) /\ Given({AsGranted(n)}) = {AsGranted(n)}
           /\ AsGranted(n).id = n.id /\ AsGranted(n).floors = n.floors
           /\ AsGranted(n).user = n.user /\ AsGranted(n).beneficiary = n.beneficiary
<1>1. \A r \in Start(C) : IsGranted(r) /\ r.id < C.counter /\ r.id \in Nat
  BY StartFacts
<1>2. n \in Request /\ n.id = C.counter /\ n.status = "Pending" /\ C.counter \in Nat
  BY DEF NewRequest, Based
<1>3. /\ AsGranted(n) \in Request /\ AsGranted(n).status = "Granted" /\ AsGranted(n).id = n.id
      /\ AsGranted(n).floors = n.floors
      /\ AsGranted(n).user = n.user /\ AsGranted(n).beneficiary = n.beneficiary
  BY <1>2 DEF AsGranted, Request
<1>4. \A r \in Start(C) : r.id # n.id
  BY <1>1, <1>2
<1>5. n \notin Start(C)
  BY <1>4
<1>6. IsUndecided(n) /\ ~ IsGranted(n) /\ \A r \in Start(C) : ~ IsUndecided(r)
  BY <1>1, <1>2 DEF IsUndecided, IsGranted
<1> QED
  BY <1>2, <1>3, <1>4, <1>5, <1>6 DEF Given, IsGranted

\* ProcessFloorRequest
LEMMA FloorRequestLeads ==
    ASSUME IInv, Based(committed), NEW C, C = committed, NEW t \in Thread, NEW c \in CallType,
           todo[t] = <<c>>, AtStart(C), t \in Conn, C.conn[t].state = "open",
           NEW m \in [user : UserId, beneficiary : UserId, floors : Requested], m.user = C.conn[t].user,
           ProcessFloorRequest(t, m)
    PROVE  Leads(C, t)
<1>1. CASE Returns(t) /\ UNCHANGED shared
  BY <1>1, RefusedLeads
<1>2. CASE ~ Refused(m) /\ m.beneficiary \in users /\ counter =< MaxRequest /\ counter' = counter + 1
  <2>0. PICK n : n = [id |-> counter, user |-> m.user, beneficiary |-> m.beneficiary,
                      floors |-> m.floors, status |-> "Pending"]
    OBVIOUS
  <2> DEFINE d == IF m.user \in chairs THEN Call("grant", counter) ELSE Call("onFloorRequest", n)
  <2>1. /\ floorRequests' = floorRequests \union {n}
        /\ MakesCalls(t, IF m.user \in chairs THEN <<Call("grant", counter)>> ELSE <<Call("onFloorRequest", n)>>)
        /\ UNCHANGED <<lastUser, users, chairs, chairId, ending, queried, transport, conn,
                      presenterId, editorId, answered, told>>
    BY <1>2, <2>0, BoundsAssumption DEF ProcessFloorRequest, IInv, Types, SharedTypes
  <2>2. n \in Request /\ counter \in Nat /\ counter = C.counter
    BY <2>0 DEF Request, IInv, Types, SharedTypes, AtStart
  <2>3. n.id = counter /\ n.status = "Pending" /\ n.user = m.user /\ n.beneficiary = m.beneficiary
    BY <2>0
  <2>4. d \in CallType
    BY <2>2, CallTypes DEF OnId, OnRequest
  <2>5. todo'[t] = <<d>> /\ <<d>> # <<>>
    <3>1. <<d>> \in Seq(CallType) /\ MakesCalls(t, <<d>>)
      BY <2>1, <2>4
    <3> HIDE DEF d
    <3> QED
      BY <3>1, OnlyCall DEF IInv
  <2>6. Sends(C, t, n.user)' /\ counter' = C.counter + 1 /\ n.beneficiary \in C.users /\ C.counter =< MaxRequest
    BY <1>2, <2>1, <2>2, <2>3 DEF Sends, AtStart, Members, Links, Views, Refused
  <2>7. Undecided(C, t, n)'
    BY <1>2, <2>1, <2>2, <2>3, <2>5 DEF Undecided, MayHave, AtStart, Members, Mixer, Views
  <2>8. Requesting(C, t)'
    BY <2>2, <2>3, <2>6, <2>7 DEF Requesting, NewRequest
  <2> QED
    BY <2>5, <2>8 DEF Leads, Phase
<1> QED
  BY <1>1, <1>2 DEF ProcessFloorRequest

\* A request that is still to be decided
LEMMA UndecidedLeads ==
    ASSUME NEW C, NEW t, NEW n \in Request, NewRequest(C, n), counter' = C.counter + 1, Sends(C, t, n.user)',
           Undecided(C, t, n)' \/ Granting(C, t, n)', todo'[t] # <<>>
    PROVE  Leads(C, t)
  BY DEF Leads, Phase, Requesting

\* MultiConf::onFloorRequest
LEMMA onFloorRequestLeads ==
    ASSUME IInv, Based(committed), NEW C, C = committed, NEW t \in Thread, NEW n \in Request, NewRequest(C, n),
           counter = C.counter + 1, Sends(C, t, n.user), Undecided(C, t, n),
           todo[t] = <<Call("onFloorRequest", n)>>, n.user \notin C.chairs, Step(t)
    PROVE  Leads(C, t)
<1>1. Call("onFloorRequest", n) \in CallType
  BY CallTypes DEF OnRequest
<1>2. Makes(t, "onFloorRequest") /\ Arg(t) = n
  <2>1. Call("onFloorRequest", n).op = "onFloorRequest" /\ Call("onFloorRequest", n).arg = n
    BY CallTypes
  <2> QED
    BY <1>1, <2>1, OnlyCall DEF IInv
<1>3. onFloorRequest(t, n)
  BY <1>2, OtherSteps
<1> DEFINE d == IF n.user = chairId \/ n.user = presenterId THEN Call("grant", n.id) ELSE Call("deny", n.id)
<1>4. d \in CallType /\ MakesCalls(t, <<d>>) /\ UNCHANGED shared
  BY <1>3, CallTypes DEF onFloorRequest, OnId, Request
<1>5. todo'[t] = <<d>> /\ <<d>> # <<>>
  <2> HIDE DEF d
  <2>1. <<d>> \in Seq(CallType)
    BY <1>4
  <2> QED
    BY <1>1, <1>4, <2>1, OnlyCall DEF IInv
<1>6. Undecided(C, t, n)'
  BY <1>4, <1>5 DEF Undecided, MayHave, Sends, Mixer, shared
<1>7. Sends(C, t, n.user)' /\ counter' = C.counter + 1
  BY <1>4 DEF Sends, Members, Links, shared
<1> QED
  BY <1>5, <1>6, <1>7, UndecidedLeads

\* DenyFloorRequest: the request was never reported.
LEMMA DenyLeads ==
    ASSUME IInv, Based(committed), NEW C, C = committed, NEW t \in Thread, NEW n \in Request, NewRequest(C, n),
           counter = C.counter + 1, Sends(C, t, n.user), Undecided(C, t, n),
           todo[t] = <<Call("deny", n.id)>>, ~ MayHave(C, n.user), Step(t)
    PROVE  Leads(C, t)
<1>1. Call("deny", n.id) \in CallType
  BY CallTypes DEF OnId, Request
<1>2. Makes(t, "deny") /\ Arg(t) = n.id /\ (Returns(t) => todo'[t] = <<>>)
  <2>1. Call("deny", n.id).op = "deny" /\ Call("deny", n.id).arg = n.id
    BY CallTypes
  <2> QED
    BY <1>1, <2>1, OnlyCall DEF IInv
<1>3. DenyFloorRequest(t, n.id)
  BY <1>2, OtherSteps
<1>4. floorRequests = Start(C) \cup {n} /\ Mixer(C) /\ told = C.told
  BY DEF Undecided
<1>5. {r \in GetFloorRequest(n.id) : IsUndecided(r)} = {n}
  BY <1>4, NewFacts DEF GetFloorRequest
<1>6. /\ floorRequests' = floorRequests \ {n} /\ todo'[t] = <<>>
      /\ Notify([n EXCEPT !.status = "Denied"])
      /\ UNCHANGED <<lastUser, users, chairs, chairId, counter, ending, queried,
                     transport, conn, presenterId, editorId, answered>>
  BY <1>2, <1>3, <1>5 DEF DenyFloorRequest
<1>7. floorRequests' = Start(C)
  BY <1>4, <1>6, NewFacts
<1>8. told' = C.told
  <2> DEFINE s == [n EXCEPT !.status = "Denied"]
             reports(v) == (s.floors \cap queried[v]) \X {s.id}
  <2>1. s.id = C.counter /\ ~ IsGranted(s)
    BY DEF NewRequest, IsGranted, Request
  <2>2. told' = [v \in UserId |->
                  IF v \notin users \/ transport[v] = NoConn THEN told[v]
                  ELSE IF IsGranted(s) THEN told[v] \union reports(v) ELSE told[v] \ reports(v)]
    BY <1>6 DEF Notify
  <2>3. ASSUME NEW v \in UserId PROVE C.told[v] \ reports(v) = C.told[v]
    <3>1. ASSUME NEW x \in C.told[v] PROVE x \notin reports(v)
      <4>1. x[2] \in Nat /\ x[2] < C.counter /\ C.counter \in Nat
        BY DEF Based
      <4>2. ASSUME x \in reports(v) PROVE x[2] = s.id
        BY <4>2
      <4> QED
        BY <2>1, <4>1, <4>2
    <3> HIDE DEF reports
    <3> QED
      BY <3>1
  <2>4. C.told = [v \in UserId |-> C.told[v]]
    BY DEF Based
  <2> HIDE DEF s, reports
  <2> QED
    BY <1>4, <2>1, <2>2, <2>3, <2>4
<1> SUFFICES ASSUME Here(committed)' PROVE FC!ProcessFloorRequest(t, n.user, n.beneficiary, n.floors)
  BY <1>6 DEF Leads, FC!Next, FC!UserId, UserId, Sends, Request
<1>9. Ongoing' = C.requests
  BY <1>7, OngoingIs
<1>10. ~ FC!IsAuthorised(n.user) /\ FC!Delivers(t, n.user)
  BY DEF FC!IsAuthorised, MayHave, FC!Delivers, Sends
<1> QED
  BY <1>4, <1>6, <1>8, <1>9, <1>10 DEF FC!ProcessFloorRequest, Here, NewRequest, Sends, Members, Links,
     Mixer, FC!linkVars, FC!mixerVars

\* What the loop of GrantFloorRequest relies on
LEMMA GrantContext ==
    ASSUME NEW C, Based(C), NEW n, NewRequest(C, n)
    PROVE  /\ ~ ending => Context(C, FC!SharingAFloor(Start(C), n.floors), Freed(C, n.floors), {n}, "revokeIfGranted")
           /\ ~ ending' => Context(C, FC!SharingAFloor(Start(C), n.floors), Freed(C, n.floors), {n}, "revokeIfGranted")'
<1>1. FC!SharingAFloor(Start(C), n.floors) \in SUBSET Start(C) /\ Given({n}) = {}
  BY NewFacts DEF FC!SharingAFloor
<1>2. Tight(C, FC!SharingAFloor(Start(C), n.floors), Freed(C, n.floors), {n})
  BY <1>1, ReleasedTight DEF Freed
<1>3. \A x \in {n} : x \in Request /\ \A r \in Start(C) : x.id # r.id
  BY NewFacts DEF NewRequest
<1> QED
  BY <1>2, <1>3 DEF Context

\* GrantFloorRequest
LEMMA GrantLeads ==
    ASSUME IInv, Based(committed), NEW C, C = committed, NEW t \in Thread, NEW n \in Request, NewRequest(C, n),
           counter = C.counter + 1, Sends(C, t, n.user), Undecided(C, t, n),
           todo[t] = <<Call("grant", n.id)>>, MayHave(C, n.user), Step(t)
    PROVE  Leads(C, t)
<1>1. Call("grant", n.id) \in CallType
  BY CallTypes DEF OnId, Request
<1>2. Makes(t, "grant") /\ Arg(t) = n.id
  <2>1. Call("grant", n.id).op = "grant" /\ Call("grant", n.id).arg = n.id
    BY CallTypes
  <2> QED
    BY <1>1, <2>1, OnlyCall DEF IInv
<1>3. GrantFloorRequest(t, n.id)
  BY <1>2, OtherSteps
<1>4. floorRequests = Start(C) \cup {n} /\ Mixer(C) /\ told = C.told
  BY DEF Undecided
<1>5. GetFloorRequest(n.id) = {n} /\ IsUndecided(n) /\ ~ ending
  BY <1>4, NewFacts DEF GetFloorRequest, Sends, Members
<1> DEFINE these == FC!SharingAFloor(Start(C), n.floors)
           tail == <<Call("setGranted", n)>>
<1>6. PICK ids : ids = Ids({r \in floorRequests : r.floors \intersect n.floors # {}})
  OBVIOUS
<1>7. MakesCalls(t, Loop("revokeIfGranted", ids) \o tail) /\ UNCHANGED shared
  <2>1. (CHOOSE r \in GetFloorRequest(n.id) : TRUE) = n
    BY <1>5
  <2>2. \E r \in GetFloorRequest(n.id) : IsUndecided(r)
    BY <1>5
  <2> QED
    BY <1>3, <1>5, <1>6, <2>1, <2>2 DEF GrantFloorRequest
<1>8. /\ ids \in SUBSET Nat /\ \A r \in these : r.id \in ids
      /\ \A r \in Start(C) : r.id \in ids => r \in these
  <2>1. \A r \in floorRequests : r.id \in Nat
    BY DEF IInv, Types, SharedTypes, Request
  <2>2. \A r, s \in floorRequests : r.id = s.id => r = s
    BY DEF IInv, Known
  <2>3. \A i : i \in ids <=> \E r \in floorRequests : r.floors \intersect n.floors # {} /\ i = r.id
    BY <1>6 DEF Ids
  <2> QED
    BY <1>4, <2>1, <2>2, <2>3 DEF FC!SharingAFloor
<1>9. /\ tail \in Seq(CallType) /\ Loop("revokeIfGranted", ids) \in Seq(CallType)
      /\ Loop("revokeIfGranted", ids) \o tail \in Seq(CallType)
      /\ Loop("revokeIfGranted", ids) \o tail = <<>> \o (Loop("revokeIfGranted", ids) \o tail)
      /\ Loop("revokeIfGranted", ids) \o tail # <<>>
  <2>1. tail \in Seq(CallType) /\ tail # <<>> /\ Len(tail) = 1
    <3>1. Call("setGranted", n) \in CallType
      BY CallTypes DEF OnRequest
    <3> QED
      BY <3>1
  <2>2. Loop("revokeIfGranted", ids) \in Seq(CallType)
    BY <1>8, LoopCalls DEF OnIds
  <2> DEFINE q == Loop("revokeIfGranted", ids) \o tail
  <2> HIDE DEF tail
  <2>3. q \in Seq(CallType) /\ Len(q) = Len(Loop("revokeIfGranted", ids)) + 1 /\ Len(Loop("revokeIfGranted", ids)) \in Nat
    BY <2>1, <2>2, ConcatProperties, LenProperties
  <2> HIDE DEF q
  <2>4. q = <<>> \o q /\ q # <<>>
    BY <2>3, ConcatEmptySeq
  <2> QED
    BY <2>1, <2>2, <2>3, <2>4 DEF q
<1>10. todo'[t] = Loop("revokeIfGranted", ids) \o tail
  BY <1>1, <1>7, <1>9, OnlyCall DEF IInv
<1>11. Given({n}) = {}
  BY NewFacts
<1>12. Inner(C, <<>>, {}, Freed(C, n.floors), {n})'
  <2>1. ~ Drops({} \cup {})
    BY DEF Drops
  <2>2. presenterId' = C.presenterId /\ editorId' = C.editorId
    BY <1>4, <1>7 DEF Mixer, shared
  <2> QED
    BY <1>11, <2>1, <2>2 DEF Inner, Presents, Edits, Settled, FC!AfterRelease
<1>13. Knows(C, {}, {n}, Nobody)'
  <2>1. Knows(C, {}, {}, Nobody)
    BY <1>4, StartKnows DEF Sends, Members, Links
  <2>2. Given({}) = {}
    BY DEF Given
  <2> QED
    BY <1>7, <1>11, <2>1, <2>2 DEF Knows, shared
<1>14. floorRequests' = (Start(C) \ {}) \cup {n} /\ these \subseteq Start(C)
  BY <1>4, <1>7 DEF shared, FC!SharingAFloor
<1> HIDE DEF these, tail
<1>15. At(C, t, Nobody, these, Freed(C, n.floors), {n}, "revokeIfGranted", tail, {}, <<>>, ids)'
  BY <1>8, <1>9, <1>10, <1>11, <1>12, <1>13, <1>14 DEF At
<1>16. Granting(C, t, n)'
  BY <1>15 DEF Granting, Revoking, these, tail
<1>17. Sends(C, t, n.user)' /\ counter' = C.counter + 1
  BY <1>7 DEF Sends, Members, Links, shared
<1> QED
  BY <1>9, <1>10, <1>16, <1>17, UndecidedLeads

\* The request is Granted, and reported as such.
LEMMA SetGrantedLeads ==
    ASSUME IInv, Based(committed), NEW C, C = committed, NEW t \in Thread, NEW n \in Request, NewRequest(C, n),
           counter = C.counter + 1, Sends(C, t, n.user), MayHave(C, n.user),
           todo[t] = <<Call("setGranted", n)>>, Revoked(C, Nobody, Freed(C, n.floors), {n}), Step(t)
    PROVE  Leads(C, t)
<1> DEFINE g == AsGranted(n)
           d == Call("onFloorGranted", g)
<1>1. Call("setGranted", n) \in CallType
  BY CallTypes DEF OnRequest
<1>2. Makes(t, "setGranted") /\ Arg(t) = n
  <2>1. Call("setGranted", n).op = "setGranted" /\ Call("setGranted", n).arg = n
    BY CallTypes
  <2> QED
    BY <1>1, <2>1, OnlyCall DEF IInv
<1>3. SetGranted(t, n)
  BY <1>2, OtherSteps
<1>4. floorRequests = (Start(C) \ Freed(C, n.floors)) \cup {n} /\ n \notin Start(C)
  BY NewFacts DEF Revoked
<1>5. /\ floorRequests' = (floorRequests \ {n}) \cup {g} /\ Notify(g) /\ MakesCalls(t, <<d>>)
      /\ UNCHANGED <<lastUser, users, chairs, chairId, counter, ending, queried,
                     transport, conn, presenterId, editorId, answered>>
  BY <1>3, <1>4 DEF SetGranted, AsGranted
<1>6. d \in CallType
  BY NewFacts, CallTypes DEF OnRequest
<1>7. todo'[t] = <<d>> /\ <<d>> # <<>>
  <2> HIDE DEF d
  <2>1. <<d>> \in Seq(CallType)
    BY <1>6
  <2> QED
    BY <1>1, <1>5, <2>1, OnlyCall DEF IInv
<1>8. floorRequests' = (Start(C) \ Freed(C, n.floors)) \cup {g}
  BY <1>4, <1>5
<1>9. /\ IsGranted(g) /\ Given({g}) = {g} /\ Given({n}) = {}
  BY NewFacts
<1> HIDE DEF g
<1>10. Knows(C, Freed(C, n.floors), {g}, Nobody)'
  <2> DEFINE gone == Freed(C, n.floors)
             reports(v) == (g.floors \intersect queried[v]) \X {g.id}
  <2> HIDE DEF gone
  <2>1. told' = [v \in UserId |-> IF v \notin users \/ transport[v] = NoConn THEN told[v] ELSE told[v] \cup reports(v)]
    BY <1>5, <1>9 DEF Notify
  <2>2. Knows(C, gone, {n}, Nobody)
    BY DEF Revoked, gone
  <2>3. \A q : FC!Reports({g}, q) = (g.floors \intersect q) \X {g.id} /\ FC!Reports({}, q) = {}
    BY DEF FC!Reports
  <2>4. told' = [v \in UserId |-> told'[v]]
    BY <2>1
  <2>5. ASSUME NEW v \in UserId, v \in users', transport'[v] # NoConn, v # Nobody
        PROVE  told'[v] = (C.told[v] \ FC!Reports(gone, queried'[v])) \cup FC!Reports({g}, queried'[v])
    <3>1. told[v] = (C.told[v] \ FC!Reports(gone, queried[v])) \cup FC!Reports({}, queried[v])
      BY <1>5, <1>9, <2>2, <2>5 DEF Knows
    <3>2. told'[v] = told[v] \cup FC!Reports({g}, queried[v])
      BY <1>5, <2>1, <2>3, <2>5
    <3> QED
      BY <1>5, <2>3, <3>1, <3>2
  <2>6. ASSUME NEW v \in UserId, ~ (v \in users' /\ transport'[v] # NoConn), v # Nobody \/ transport'[v] = NoConn
        PROVE  told'[v] = {}
    BY <1>5, <2>1, <2>2, <2>6 DEF Knows
  <2>7. Knows(C, gone, {g}, Nobody)'
    BY <1>9, <2>4, <2>5, <2>6 DEF Knows
  <2> QED
    BY <2>7 DEF gone
<1>11. Presents(C, Freed(C, n.floors), {})' /\ Edits(C, Freed(C, n.floors))'
  <2>1. Given({}) = {}
    BY DEF Given
  <2> QED
    BY <1>5, <1>9, <2>1 DEF Revoked, Presents, Edits
<1>12. Granting(C, t, n)'
  BY <1>7, <1>8, <1>10, <1>11 DEF Granting, g
<1>13. Sends(C, t, n.user)' /\ counter' = C.counter + 1
  BY <1>5 DEF Sends, Members, Links
<1> QED
  BY <1>7, <1>12, <1>13, UndecidedLeads

\* The same, in both specifications
LEMMA UpCleared ==
    ASSUME Based(committed), NEW C, C = committed, NEW n, NewRequest(C, n)
    PROVE  \E A \in SUBSET C.requests : A = FC!RevokedForGrant(Bare(n)) /\ Cleared(C, n) = Up(A)
<1> DEFINE B == FC!SharingAFloor(C.requests, n.floors)
           A == FC!Released(C.requests, B)
           E == FC!GrantedRequest(C.requests \ A, Editor)
<1>1. Based(C) /\ Start(C) = Up(C.requests) /\ C.requests \in SUBSET C.requests
  BY DEF Start, Up
<1>2. B \in SUBSET C.requests /\ FC!SharingAFloor(Start(C), n.floors) = Up(B)
  BY <1>1, UpFinds
<1>3. A \in SUBSET C.requests /\ Freed(C, n.floors) = Up(A)
  BY <1>1, <1>2, UpReleased DEF Freed
<1> HIDE DEF A
<1>4. Start(C) \ Freed(C, n.floors) = Up(C.requests \ A) /\ C.requests \ A \in SUBSET C.requests
  BY <1>1, <1>3, UpSets
<1>5. E \in SUBSET C.requests /\ FC!GrantedRequest(Start(C) \ Freed(C, n.floors), Editor) = Up(E)
  <2>1. FC!GrantedRequest(Up(C.requests \ A), Editor) = Up(E) /\ E \subseteq C.requests \ A
    BY <1>1, <1>4, UpFinds
  <2> QED
    BY <1>4, <2>1
<1>6. FC!RevokedForGrant(Bare(n)) = IF FC!DropsEditor(n.floors) THEN A \cup E ELSE A
  <2>1. Bare(n).floors = n.floors
    BY DEF Bare
  <2> QED
    BY <2>1 DEF FC!RevokedForGrant, FC!Editor, Editor, A
<1>7. Up(A \cup E) = Up(A) \cup Up(E)
  BY DEF Up
<1> HIDE DEF E
<1> QED
  BY <1>3, <1>5, <1>6, <1>7 DEF Cleared

\* The end of a request that was granted
LEMMA GrantEnds ==
    ASSUME IInv', Based(committed), NEW C, C = committed, NEW t \in Thread, NEW n \in Request, NewRequest(C, n),
           counter' = C.counter + 1, Sends(C, t, n.user)', MayHave(C, n.user),
           floorRequests' = (Start(C) \ Cleared(C, n)) \cup {AsGranted(n)},
           Knows(C, Cleared(C, n), {AsGranted(n)}, Nobody)',
           presenterId' = IF Presenter \in n.floors THEN n.beneficiary
                          ELSE FC!AfterRelease(C.presenterId, Cleared(C, n), Presenter),
           editorId' = IF Editor \in n.floors THEN n.beneficiary
                       ELSE FC!AfterRelease(C.editorId, Cleared(C, n), Editor)
    PROVE  Here(committed)' => FC!Next
<1> SUFFICES ASSUME Here(committed)' PROVE FC!ProcessFloorRequest(t, n.user, n.beneficiary, n.floors)
  BY DEF FC!Next, FC!UserId, UserId, Sends, Request
<1>1. PICK A \in SUBSET C.requests : A = FC!RevokedForGrant(Bare(n)) /\ Cleared(C, n) = Up(A)
  BY UpCleared
<1>2. Based(C)
  OBVIOUS
<1> DEFINE g == AsGranted(n)
           b == Bare(n)
<1>3. /\ Given({g}) = {g} /\ Bare(g) = b /\ b.floors = n.floors /\ b.id = n.id
      /\ b.beneficiary = n.beneficiary /\ g.floors = n.floors /\ g.id = n.id
  BY <1>2, NewFacts DEF Bare
<1>4. b = [id |-> C.counter, user |-> n.user, beneficiary |-> n.beneficiary, floors |-> n.floors]
  BY DEF Bare, NewRequest
<1> HIDE DEF g, b
<1>5. Ongoing' = (C.requests \ A) \cup {b}
  <2>1. floorRequests' = Up(C.requests \ A) \cup {g}
    BY <1>1, <1>2, UpSets DEF g
  <2>2. {Bare(r) : r \in Up(C.requests \ A)} = C.requests \ A
    BY <1>2, UpSets
  <2>3. Ongoing' = {Bare(r) : r \in floorRequests'}
    BY DEF Ongoing, Bare
  <2>4. {Bare(r) : r \in Up(C.requests \ A) \cup {g}} = {Bare(r) : r \in Up(C.requests \ A)} \cup {Bare(g)}
    OBVIOUS
  <2> QED
    BY <1>3, <2>1, <2>2, <2>3, <2>4
<1>6. /\ \A h, f : FC!AfterRelease(h, Up(A), f) = FC!AfterRelease(h, A, f)
      /\ \A q : FC!Reports(Up(A), q) = FC!Reports(A, q)
  BY <1>2, UpSets
<1>7. told' = FC!Notified(FC!Connected, A, {b})
  <2>1. Knows(C, Up(A), {g}, Nobody)'
    BY <1>1 DEF g
  <2>2. told' = [v \in UserId |-> told'[v]]
    BY <2>1 DEF Knows
  <2>3. users' = C.users /\ transport' = C.transport /\ queried' = C.queried
    BY DEF Sends, Members, Links
  <2>4. \A q : FC!Reports({g}, q) = FC!Reports({b}, q)
    BY <1>3 DEF FC!Reports
  <2>5. ASSUME NEW v \in UserId
        PROVE  told'[v] = IF v \in FC!Connected
                          THEN (C.told[v] \ FC!Reports(A, C.queried[v])) \union FC!Reports({b}, C.queried[v]) ELSE {}
    <3>1. v # Nobody
      BY DEF UserId, Nobody
    <3>2. v \in FC!Connected <=> v \in users' /\ transport'[v] # NoConn
      BY <2>3 DEF FC!Connected
    <3>3. CASE v \in FC!Connected
      <4>1. told'[v] = (C.told[v] \ FC!Reports(Up(A), C.queried[v])) \cup FC!Reports({g}, C.queried[v])
        BY <1>3, <2>1, <2>3, <3>1, <3>2, <3>3 DEF Knows
      <4> QED
        BY <1>6, <2>4, <3>3, <4>1
    <3>4. CASE v \notin FC!Connected
      BY <2>1, <3>1, <3>2, <3>4 DEF Knows
    <3> QED
      BY <3>3, <3>4
  <2> QED
    BY <2>2, <2>5 DEF FC!Notified, FC!UserId, UserId
<1>8. FC!GrantFloorRequest(b)
  BY <1>1, <1>3, <1>5, <1>6, <1>7 DEF FC!GrantFloorRequest, Here, b, FC!Presenter, FC!Editor, Presenter, Editor
<1>9. FC!IsAuthorised(n.user) /\ FC!Delivers(t, n.user)
  BY DEF FC!IsAuthorised, MayHave, FC!Delivers, Sends
<1> QED
  BY <1>4, <1>8, <1>9 DEF FC!ProcessFloorRequest, Here, NewRequest, Sends, Members, Links, FC!linkVars

\* What the revocation of the Editor floor relies on
LEMMA EditorContext ==
    ASSUME NEW C, Based(C), NEW n, NewRequest(C, n), FC!DropsEditor(n.floors)
    PROVE  /\ ~ ending => Context(C, Freed(C, n.floors), Cleared(C, n), {AsGranted(n)}, "revokeIfGranted")
           /\ ~ ending' => Context(C, Freed(C, n.floors), Cleared(C, n), {AsGranted(n)}, "revokeIfGranted")'
<1> DEFINE g == AsGranted(n)
<1>1. g \in Request /\ IsGranted(g) /\ g.floors = n.floors /\ \A r \in Start(C) : g.id # r.id
  BY NewFacts
<1>2. Cleared(C, n) = Freed(C, n.floors) \cup FC!GrantedRequest(Start(C) \ Freed(C, n.floors), Editor)
  BY DEF Cleared
<1> HIDE DEF g
<1>3. Tight(C, Freed(C, n.floors), Cleared(C, n), {g})
  BY <1>1, <1>2, GrantTight
<1>4. \A x \in {g} : x \in Request /\ \A r \in Start(C) : x.id # r.id
  BY <1>1
<1> QED
  BY <1>3, <1>4 DEF Context, g

\* The Editor floor is being revoked for the new presenter, or the grant is done with.
LEMMA EditorLeads ==
    ASSUME IInv', Based(committed), NEW C, C = committed, NEW t \in Thread, NEW n \in Request, NewRequest(C, n),
           counter' = C.counter + 1, Sends(C, t, n.user)', MayHave(C, n.user), FC!DropsEditor(n.floors),
           Revoking(C, t, Nobody, Freed(C, n.floors), Cleared(C, n), {AsGranted(n)}, "revokeIfGranted", <<>>)'
    PROVE  Leads(C, t)
<1>1. Granting(C, t, n)'
  BY DEF Granting
<1>2. ASSUME todo'[t] = <<>> PROVE Here(committed)' => FC!Next
  <2>1. Context(C, Freed(C, n.floors), Cleared(C, n), {AsGranted(n)}, "revokeIfGranted")'
    BY EditorContext DEF Sends, Members
  <2>2. Revoked(C, Nobody, Cleared(C, n), {AsGranted(n)})'
    <3>1. <<>> \in Seq(CallType)
      OBVIOUS
    <3> QED
      BY <1>2, <2>1, <3>1, RevokingEndsNext
  <2>3. Presenter \in n.floors /\ Editor \notin n.floors
    BY DEF FC!DropsEditor, FC!Presenter, FC!Editor, Presenter, Editor
  <2>4. AsGranted(n) \in Given({AsGranted(n)}) /\ AsGranted(n).floors = n.floors
        /\ AsGranted(n).beneficiary = n.beneficiary
    BY NewFacts
  <2>5. presenterId' = n.beneficiary /\ editorId' = FC!AfterRelease(C.editorId, Cleared(C, n), Editor)
    BY <2>2, <2>3, <2>4 DEF Revoked, Presents, Edits
  <2> QED
    BY <2>2, <2>3, <2>5, GrantEnds DEF Revoked
<1>3. todo'[t] # <<>> => Leads(C, t)
  BY <1>1, UndecidedLeads
<1> QED
  BY <1>2, <1>3 DEF Leads

\* MultiConf::onFloorGranted
LEMMA onFloorGrantedLeads ==
    ASSUME IInv, IInv', Based(committed), NEW C, C = committed, NEW t \in Thread, NEW n \in Request, NewRequest(C, n),
           counter = C.counter + 1, Sends(C, t, n.user), MayHave(C, n.user),
           todo[t] = <<Call("onFloorGranted", AsGranted(n))>>,
           floorRequests = (Start(C) \ Freed(C, n.floors)) \cup {AsGranted(n)},
           Knows(C, Freed(C, n.floors), {AsGranted(n)}, Nobody),
           Presents(C, Freed(C, n.floors), {}), Edits(C, Freed(C, n.floors)), Step(t)
    PROVE  Leads(C, t)
<1>1. PICK g : g = AsGranted(n)
  OBVIOUS
<1>2. /\ g \in Request /\ g.floors = n.floors /\ g.beneficiary = n.beneficiary /\ Given({g}) = {g}
      /\ Given({}) = {}
  BY <1>1, NewFacts DEF Given
<1>3. Call("onFloorGranted", g) \in CallType
  BY <1>2, CallTypes DEF OnRequest
<1>4. Makes(t, "onFloorGranted") /\ Arg(t) = g
  <2>1. Call("onFloorGranted", g).op = "onFloorGranted" /\ Call("onFloorGranted", g).arg = g
    BY CallTypes
  <2> QED
    BY <1>1, <1>3, <2>1, OnlyCall DEF IInv
<1>5. onFloorGranted(t, g)
  BY <1>4, OtherSteps
<1> DEFINE calls == IF Editor \in n.floors THEN <<Call("setEditor", n.beneficiary)>>
                    ELSE IF Presenter \in n.floors THEN <<Call("revokeEditor", Nobody)>>
                    ELSE <<>>
<1>6. /\ presenterId' = IF Presenter \in n.floors THEN n.beneficiary ELSE presenterId
      /\ MakesCalls(t, calls)
      /\ UNCHANGED <<lastUser, users, chairs, chairId, counter, ending, queried, transport,
                     conn, editorId, answered, told, floorRequests>>
  BY <1>2, <1>5 DEF onFloorGranted, OnFloorChange
<1>7. calls \in Seq(CallType)
  <2>1. n.beneficiary \in 0..MaxUser /\ Nobody \in 0..MaxUser
    BY BoundsAssumption DEF Request, UserId, Nobody
  <2>2. Call("setEditor", n.beneficiary) \in CallType /\ Call("revokeEditor", Nobody) \in CallType
    BY <2>1, CallTypes DEF OnUser
  <2> QED
    BY <2>2
<1>8. todo'[t] = calls
  <2> HIDE DEF calls
  <2> QED
    BY <1>1, <1>3, <1>6, <1>7, OnlyCall DEF IInv
<1>9. PICK gone : gone = Freed(C, n.floors)
  OBVIOUS
<1>10. Knows(C, gone, {g}, Nobody)' /\ Edits(C, gone)' /\ floorRequests' = (Start(C) \ gone) \cup {g}
  BY <1>1, <1>6, <1>9 DEF Knows, Edits
<1>11. presenterId = FC!AfterRelease(C.presenterId, gone, Presenter)
  BY <1>2, <1>9 DEF Presents
<1>12. Presents(C, gone, {g})'
  BY <1>2, <1>6, <1>11 DEF Presents
<1>13. Sends(C, t, n.user)' /\ counter' = C.counter + 1
  BY <1>6 DEF Sends, Members, Links
<1>14. CASE Editor \in n.floors
  <2>1. todo'[t] = <<Call("setEditor", n.beneficiary)>>
    BY <1>8, <1>14
  <2>2. Granting(C, t, n)'
    BY <1>1, <1>9, <1>10, <1>12, <1>14, <2>1 DEF Granting
  <2>3. todo'[t] # <<>>
    BY <2>1
  <2> QED
    BY <1>13, <2>2, <2>3, UndecidedLeads
<1>15. CASE Editor \notin n.floors /\ Presenter \in n.floors
  <2>1. FC!DropsEditor(n.floors)
    BY <1>15 DEF FC!DropsEditor, FC!Presenter, FC!Editor, Presenter, Editor
  <2> DEFINE inner == <<Call("revokeEditor", Nobody)>>
  <2>2. todo'[t] = inner \o (<<>> \o <<>>)
    <3>1. todo'[t] = inner /\ inner \in Seq(CallType)
      BY <1>7, <1>8, <1>15
    <3>2. <<>> \o <<>> = <<>>
      OBVIOUS
    <3> HIDE DEF inner
    <3> QED
      BY <3>1, <3>2, ConcatEmptySeq
  <2>3. Drops(gone \cup Given({g}))
    BY <1>2, <2>1 DEF Drops
  <2>4. Inner(C, inner, gone, Cleared(C, n), {g})'
    BY <1>10, <1>12, <2>3 DEF Inner
  <2>5. gone \subseteq Cleared(C, n) /\ Loop("revokeIfGranted", {}) = <<>>
    BY <1>9 DEF Cleared, Loop
  <2> HIDE DEF inner
  <2>6. At(C, t, Nobody, gone, Cleared(C, n), {g}, "revokeIfGranted", <<>>, gone, inner, {})'
    BY <1>10, <2>2, <2>4, <2>5 DEF At
  <2>7. Revoking(C, t, Nobody, gone, Cleared(C, n), {g}, "revokeIfGranted", <<>>)'
    BY <2>6 DEF Revoking
  <2> QED
    BY <1>1, <1>9, <1>13, <2>1, <2>7, EditorLeads
<1>16. CASE Editor \notin n.floors /\ Presenter \notin n.floors
  <2>1. Cleared(C, n) = gone
    BY <1>9, <1>16 DEF Cleared, FC!DropsEditor, FC!Presenter, Presenter
  <2>2. todo'[t] = <<>>
    BY <1>8, <1>16
  <2>3. /\ presenterId' = FC!AfterRelease(C.presenterId, gone, Presenter)
        /\ editorId' = FC!AfterRelease(C.editorId, gone, Editor)
    BY <1>6, <1>10, <1>11, <1>16 DEF Edits
  <2>4. Here(committed)' => FC!Next
    BY <1>1, <1>10, <1>13, <1>16, <2>1, <2>3, GrantEnds
  <2> QED
    BY <2>2, <2>4 DEF Leads
<1> QED
  BY <1>14, <1>15, <1>16

\* AppMixer::SetEditor after a grant
LEMMA SetEditorLeads ==
    ASSUME IInv, IInv', Based(committed), NEW C, C = committed, NEW t \in Thread, NEW n \in Request, NewRequest(C, n),
           counter = C.counter + 1, Sends(C, t, n.user), MayHave(C, n.user),
           todo[t] = <<Call("setEditor", n.beneficiary)>>, Editor \in n.floors,
           floorRequests = (Start(C) \ Freed(C, n.floors)) \cup {AsGranted(n)},
           Knows(C, Freed(C, n.floors), {AsGranted(n)}, Nobody),
           Presents(C, Freed(C, n.floors), {AsGranted(n)}), Step(t)
    PROVE  Leads(C, t)
<1>1. Call("setEditor", n.beneficiary) \in CallType
  <2>1. n.beneficiary \in 0..MaxUser
    BY BoundsAssumption DEF Request, UserId
  <2> QED
    BY <2>1, CallTypes DEF OnUser
<1>2. Makes(t, "setEditor") /\ Arg(t) = n.beneficiary /\ (Returns(t) => todo'[t] = <<>>)
  <2>1. Call("setEditor", n.beneficiary).op = "setEditor" /\ Call("setEditor", n.beneficiary).arg = n.beneficiary
    BY CallTypes
  <2> QED
    BY <1>1, <2>1, OnlyCall DEF IInv
<1>3. SetEditor(t, n.beneficiary)
  BY <1>2, StepOf
<1>4. /\ editorId' = n.beneficiary /\ todo'[t] = <<>>
      /\ UNCHANGED <<lastUser, users, chairs, chairId, counter, ending, queried, transport,
                     conn, presenterId, answered, told, floorRequests>>
  BY <1>2, <1>3 DEF SetEditor
<1>5. Cleared(C, n) = Freed(C, n.floors)
  BY DEF Cleared, FC!DropsEditor, FC!Editor, Editor
<1>6. /\ AsGranted(n).floors = n.floors /\ AsGranted(n).beneficiary = n.beneficiary
      /\ Given({AsGranted(n)}) = {AsGranted(n)}
  BY NewFacts
<1>7. presenterId' = IF Presenter \in n.floors THEN n.beneficiary
                     ELSE FC!AfterRelease(C.presenterId, Freed(C, n.floors), Presenter)
  BY <1>4, <1>6 DEF Presents
<1>8. Knows(C, Freed(C, n.floors), {AsGranted(n)}, Nobody)'
  BY <1>4 DEF Knows
<1>9. Sends(C, t, n.user)' /\ counter' = C.counter + 1
  BY <1>4 DEF Sends, Members, Links
<1>10. Here(committed)' => FC!Next
  BY <1>4, <1>5, <1>7, <1>8, <1>9, GrantEnds
<1> QED
  BY <1>4, <1>10 DEF Leads

\* A handler that decides a new request
LEMMA RequestingLeads ==
    ASSUME IInv, IInv', Based(committed), NEW C, C = committed, NEW t \in Thread, Requesting(C, t), Step(t)
    PROVE  Leads(C, t)
<1>1. PICK n \in Request :
       /\ NewRequest(C, n) /\ counter = C.counter + 1 /\ Sends(C, t, n.user)
       /\ Undecided(C, t, n) \/ Granting(C, t, n)
  BY DEF Requesting
<1>2. CASE Undecided(C, t, n)
  <2>1. \/ todo[t] = <<Call("grant", n.id)>> /\ MayHave(C, n.user)
        \/ todo[t] = <<Call("onFloorRequest", n)>> /\ n.user \notin C.chairs
        \/ todo[t] = <<Call("deny", n.id)>> /\ ~ MayHave(C, n.user)
    BY <1>2 DEF Undecided
  <2> QED
    BY <1>1, <1>2, <2>1, GrantLeads, onFloorRequestLeads, DenyLeads
<1>3. ASSUME MayHave(C, n.user),
             Revoking(C, t, Nobody, FC!SharingAFloor(Start(C), n.floors), Freed(C, n.floors), {n},
                      "revokeIfGranted", <<Call("setGranted", n)>>)
      PROVE  Leads(C, t)
  <2> DEFINE tail == <<Call("setGranted", n)>>
  <2>1. tail \in Seq(CallType) /\ tail # <<>>
    <3>1. Call("setGranted", n) \in CallType
      BY CallTypes DEF OnRequest
    <3> QED
      BY <3>1
  <2>2. Context(C, FC!SharingAFloor(Start(C), n.floors), Freed(C, n.floors), {n}, "revokeIfGranted")
    BY <1>1, GrantContext DEF Sends, Members
  <2> HIDE DEF tail
  <2>3. CASE Revoking(C, t, Nobody, FC!SharingAFloor(Start(C), n.floors), Freed(C, n.floors), {n},
                      "revokeIfGranted", tail)' /\ Frozen
    <3>1. Sends(C, t, n.user)' /\ counter' = C.counter + 1
      BY <1>1, <2>3 DEF Sends, Members, Links, Frozen
    <3>2. Context(C, FC!SharingAFloor(Start(C), n.floors), Freed(C, n.floors), {n}, "revokeIfGranted")'
      BY <1>1, <3>1, GrantContext DEF Sends, Members
    <3>3. todo'[t] # <<>>
      BY <2>1, <2>3, <3>2, RevokingEndsNext
    <3>4. Granting(C, t, n)'
      BY <1>3, <2>3 DEF Granting, tail
    <3> QED
      BY <1>1, <3>1, <3>3, <3>4, UndecidedLeads
  <2>4. CASE todo[t] = tail /\ Revoked(C, Nobody, Freed(C, n.floors), {n})
    BY <1>1, <1>3, <2>4, SetGrantedLeads DEF tail
  <2>5. Revoking(C, t, Nobody, FC!SharingAFloor(Start(C), n.floors), Freed(C, n.floors), {n},
                 "revokeIfGranted", tail)
    BY <1>3 DEF tail
  <2> QED
    BY <2>1, <2>2, <2>3, <2>4, <2>5, RevokingSteps
<1>4. ASSUME MayHave(C, n.user), FC!DropsEditor(n.floors),
             Revoking(C, t, Nobody, Freed(C, n.floors), Cleared(C, n), {AsGranted(n)}, "revokeIfGranted", <<>>)
      PROVE  Leads(C, t)
  <2>1. Context(C, Freed(C, n.floors), Cleared(C, n), {AsGranted(n)}, "revokeIfGranted") /\ <<>> \in Seq(CallType)
    <3>1. ~ ending
      BY <1>1 DEF Sends, Members
    <3>2. Context(C, Freed(C, n.floors), Cleared(C, n), {AsGranted(n)}, "revokeIfGranted")
      BY <1>1, <1>4, <3>1, EditorContext
    <3> QED
      BY <3>2
  <2>2. todo[t] # <<>>
    BY DEF Step, Makes
  <2>3. /\ Revoking(C, t, Nobody, Freed(C, n.floors), Cleared(C, n), {AsGranted(n)}, "revokeIfGranted", <<>>)'
        /\ Frozen
    BY <1>4, <2>1, <2>2, RevokingSteps
  <2>4. Sends(C, t, n.user)' /\ counter' = C.counter + 1
    BY <1>1, <2>3 DEF Sends, Members, Links, Frozen
  <2> QED
    BY <1>1, <1>4, <2>3, <2>4, EditorLeads
<1>5. CASE Granting(C, t, n)
  <2>1. MayHave(C, n.user)
    BY <1>5 DEF Granting
  <2> QED
    BY <1>1, <1>3, <1>4, <1>5, <2>1, onFloorGrantedLeads, SetEditorLeads DEF Granting
<1> QED
  BY <1>1, <1>2, <1>5

-----------------------------------------------------------------------------
(* The end of the conference.                                              *)

\* BFCPFloorControlServer::End
LEMMA EndLeads ==
    ASSUME IInv, Based(committed), NEW C, C = committed, NEW t \in Thread, NEW c \in CallType,
           todo[t] = <<c>>, AtStart(C), ~ C.ending, End(t)
    PROVE  Leads(C, t)
<1> DEFINE d == Call("endNext", Nobody)
<1>1. d \in CallType /\ d.op = "endNext"
  BY CallTypes, BoundsAssumption DEF OnUser, Nobody
<1>2. /\ ending' = TRUE /\ MakesCalls(t, <<d>>)
      /\ UNCHANGED <<lastUser, users, chairs, chairId, counter, queried, transport, conn, presenterId, editorId>>
  BY DEF End, AtStart, Members
<1> HIDE DEF d
<1>3. todo'[t] = <<d>> /\ <<d>> \in Seq(CallType)
  <2>1. <<d>> \in Seq(CallType)
    BY <1>1
  <2> QED
    BY <1>2, <2>1, OnlyCall DEF IInv
<1>4. Emptied(C, t)'
  <2>1. todo'[t] # <<>> /\ Len(todo'[t]) = 1 /\ todo'[t][Len(todo'[t])].op = "endNext"
    BY <1>1, <1>3
  <2> QED
    BY <1>2, <2>1 DEF Emptied, AtStart, Members, Links, Mixer
<1>5. todo'[t] # <<>>
  BY <1>3
<1> QED
  BY <1>4, <1>5 DEF Leads, Phase

\* The calls that empty the map make calls of the same kind.
Empties(calls) == \A i \in 1..Len(calls) : calls[i].op \in {"revoke", "deny", "revokeOrDeny"}

\* A number of calls
LEMMA MoreThanOne ==
    ASSUME NEW n \in Nat, n # 0, n # 1
    PROVE  1 \in 1..(n - 1) /\ n - 1 \in 1..(n - 1) /\ (n - 1) + 1 = n
  OBVIOUS

\* A call before the last one
LEMMA EmptyingGoes ==
    ASSUME IInv, NEW C, NEW t \in Thread, Emptied(C, t), NEW calls \in Seq(CallType),
           MakesCalls(t, calls), Empties(calls), Len(todo[t]) # 1,
           UNCHANGED <<lastUser, users, chairs, chairId, counter, ending, queried, transport, conn,
                       presenterId, editorId>>
    PROVE  Leads(C, t)
<1> DEFINE s == Tail(todo[t])
           q == calls \o s
           k == Len(calls)
<1>1. todo[t] \in Seq(CallType) /\ todo[t] # <<>>
  BY DEF IInv, Types, Emptied
<1>2. /\ s \in Seq(CallType) /\ Len(s) = Len(todo[t]) - 1 /\ Len(s) \in Nat /\ k \in Nat
      /\ \A i \in 1..Len(s) : s[i] = todo[t][i + 1]
  BY <1>1, HeadTailProperties, LenProperties
<1>3. todo'[t] = q
  BY DEF MakesCalls, IInv, Types
<1>4. /\ q \in Seq(CallType) /\ Len(q) = k + Len(s)
      /\ \A i \in 1..k : q[i] = calls[i]
      /\ \A i \in 1..Len(s) : q[k + i] = s[i]
      /\ \A i \in 1..Len(q) : \/ i \in 1..k /\ q[i] = calls[i]
                              \/ i - k \in 1..Len(s) /\ q[i] = s[i - k]
  BY <1>2, Joined
<1> HIDE DEF q, s
<1>5. q # <<>> /\ q[Len(q)].op = "endNext"
  <2>1. Len(s) \in 1..Len(s) /\ Len(s) + 1 = Len(todo[t])
    <3>1. Len(todo[t]) \in Nat /\ Len(todo[t]) # 0
      BY <1>1, LenProperties, EmptySeq
    <3>2. Len(s) = Len(todo[t]) - 1
      BY <1>2
    <3>3. Len(todo[t]) - 1 \in 1..(Len(todo[t]) - 1) /\ (Len(todo[t]) - 1) + 1 = Len(todo[t])
      BY <3>1, MoreThanOne
    <3> QED
      BY <3>2, <3>3
  <2>2. q[Len(q)] = todo[t][Len(todo[t])]
    <3>1. q[k + Len(s)] = s[Len(s)] /\ s[Len(s)] = todo[t][Len(s) + 1]
      BY <1>2, <1>4, <2>1
    <3> QED
      BY <1>4, <2>1, <3>1
  <2> QED
    BY <1>2, <1>4, <2>1, <2>2 DEF Emptied
<1>6. ASSUME NEW i \in 1..(Len(q) - 1) PROVE q[i].op \in {"revoke", "deny", "revokeOrDeny"}
  <2>1. i \in 1..Len(q) /\ i # Len(q) /\ i \in Nat
    BY <1>2, <1>4
  <2>2. CASE i \in 1..k /\ q[i] = calls[i]
    BY <2>2 DEF Empties
  <2>3. CASE i - k \in 1..Len(s) /\ q[i] = s[i - k]
    <3>1. i - k + 1 \in 1..(Len(todo[t]) - 1) /\ q[i] = todo[t][i - k + 1]
      BY <1>2, <1>4, <2>1, <2>3
    <3> QED
      BY <3>1 DEF Emptied
  <2> QED
    BY <1>4, <2>1, <2>2, <2>3
<1>7. Emptied(C, t)'
  BY <1>3, <1>5, <1>6 DEF Emptied, Links, Mixer
<1> QED
  BY <1>3, <1>5, <1>7 DEF Leads, Phase

\* RevokeOrDeny makes calls that revoke or deny.
LEMMA DenyingCalls ==
    ASSUME NEW t, NEW ids \in SUBSET Nat, RevokeOrDeny(t, ids)
    PROVE  \E calls \in Seq(CallType) : Empties(calls) /\ MakesCalls(t, calls)
<1>1. PICK id \in ids : /\ MakesCalls(t, (IF GetFloorRequest(id) = {} THEN <<>>
                                   ELSE IF \E r \in GetFloorRequest(id) : IsGranted(r)
                                        THEN <<Call("revoke", id)>> ELSE <<Call("deny", id)>>)
                                  \o Loop("revokeOrDeny", ids \ {id}))
  BY DEF RevokeOrDeny
<1> DEFINE a == IF GetFloorRequest(id) = {} THEN <<>>
                ELSE IF \E r \in GetFloorRequest(id) : IsGranted(r)
                     THEN <<Call("revoke", id)>> ELSE <<Call("deny", id)>>
           b == Loop("revokeOrDeny", ids \ {id})
<1>2. a \in Seq(CallType) /\ Empties(a)
  <2>1. /\ Call("revoke", id) \in CallType /\ Call("revoke", id).op = "revoke"
        /\ Call("deny", id) \in CallType /\ Call("deny", id).op = "deny"
    BY CallTypes DEF OnId
  <2> QED
    BY <2>1 DEF Empties
<1>3. b \in Seq(CallType) /\ Empties(b)
  <2>1. Call("revokeOrDeny", ids \ {id}) \in CallType /\ Call("revokeOrDeny", ids \ {id}).op = "revokeOrDeny"
    BY CallTypes DEF OnIds
  <2> QED
    BY <2>1 DEF Empties, Loop
<1>4. MakesCalls(t, a \o b)
  BY <1>1
<1> HIDE DEF a, b
<1>5. a \o b \in Seq(CallType) /\ Empties(a \o b)
  BY <1>2, <1>3, Joined DEF Empties
<1> QED
  BY <1>4, <1>5

\* The last call: the map has a request, or the users are removed too.
LEMMA EndNextLeads ==
    ASSUME IInv, Based(committed), NEW C, C = committed, NEW t \in Thread, Emptied(C, t),
           Len(todo[t]) = 1, EndNext(t)
    PROVE  Leads(C, t)
<1>1. todo[t] \in Seq(CallType) /\ todo[t] # <<>>
  BY DEF IInv, Types, Emptied
<1>2. PICK c \in CallType : todo[t] = <<c>>
  <2>1. todo[t][1] \in CallType /\ todo[t] = <<todo[t][1]>>
    BY <1>1
  <2> QED
    BY <2>1
<1>3. ASSUME NEW r \in floorRequests, MakesCalls(t, <<Call("revokeOrDeny", {r.id}), Call("endNext", Nobody)>>),
             UNCHANGED shared
      PROVE  Leads(C, t)
  <2> DEFINE a == Call("revokeOrDeny", {r.id})
             b == Call("endNext", Nobody)
  <2>1. a \in CallType /\ b \in CallType /\ a.op = "revokeOrDeny" /\ b.op = "endNext"
    <3>1. {r.id} \in SUBSET Nat
      BY DEF IInv, Types, SharedTypes, Request
    <3>2. a \in CallType /\ a.op = "revokeOrDeny"
      BY <3>1, CallTypes DEF OnIds
    <3>3. b \in CallType /\ b.op = "endNext"
      BY CallTypes, BoundsAssumption DEF OnUser, Nobody
    <3> QED
      BY <3>2, <3>3
  <2> HIDE DEF a, b
  <2>2. todo'[t] = <<a, b>> /\ <<a, b>> \in Seq(CallType)
    <3>1. <<a, b>> \in Seq(CallType) /\ MakesCalls(t, <<a, b>>)
      BY <1>3, <2>1 DEF a, b
    <3> QED
      BY <1>2, <3>1, OnlyCall DEF IInv
  <2>3. Emptied(C, t)'
    <3>1. /\ todo'[t] # <<>> /\ Len(todo'[t]) = 2 /\ todo'[t][2].op = "endNext"
          /\ todo'[t][1].op = "revokeOrDeny"
      BY <2>1, <2>2
    <3> QED
      BY <1>3, <3>1 DEF Emptied, Links, Mixer, shared
  <2>4. todo'[t] # <<>>
    BY <2>2
  <2> QED
    BY <2>3, <2>4 DEF Leads, Phase
<1>4. ASSUME floorRequests = {}, Returns(t), users' = {} /\ chairs' = {},
             conn' = [d \in Conn |-> IF \E u \in users : transport[u] = d
                                  THEN [conn[d] EXCEPT !.closedByServer = TRUE] ELSE conn[d]],
             transport' = [u \in UserId |-> NoConn], answered' = [u \in UserId |-> {}],
             told' = [u \in UserId |-> {}],
             UNCHANGED <<lastUser, chairId, counter, ending, queried, presenterId, editorId, floorRequests>>
      PROVE  Leads(C, t)
  <2>1. todo'[t] = <<>>
    BY <1>2, <1>4, OnlyCall DEF IInv
  <2>2. Ongoing' = {}
    BY <1>4 DEF Ongoing
  <2>3. conn' = FC!ClosedByServer({C.transport[u] : u \in C.users})
    BY <1>4 DEF FC!ClosedByServer, Emptied, Links
  <2>4. ending = TRUE
    BY DEF Emptied, IInv, Types, SharedTypes
  <2>5. Here(committed)' => FC!End
    BY <1>4, <2>2, <2>3, <2>4 DEF FC!End, Here, Emptied, Links, Mixer, FC!mixerVars, FC!UserId, UserId
  <2> QED
    BY <2>1, <2>5 DEF Leads, FC!Next
<1> QED
  BY <1>3, <1>4 DEF EndNext

\* A handler that ends the conference
LEMMA EmptiedLeads ==
    ASSUME IInv, Based(committed), NEW C, C = committed, NEW t \in Thread, Emptied(C, t), Step(t)
    PROVE  Leads(C, t)
<1>1. todo[t] \in Seq(CallType) /\ todo[t] # <<>> /\ Head(todo[t]) = todo[t][1]
  BY DEF IInv, Types, Emptied
<1>2. Len(todo[t]) \in Nat /\ Len(todo[t]) # 0
  BY <1>1, LenProperties, EmptySeq
<1>3. CASE Len(todo[t]) = 1
  <2>1. Makes(t, "endNext")
    BY <1>1, <1>3 DEF Makes, Emptied
  <2>2. EndNext(t)
    BY <2>1, OtherSteps
  <2> QED
    BY <1>3, <2>2, EndNextLeads
<1>4. CASE Len(todo[t]) # 1
  <2>1. Head(todo[t]).op \in {"revoke", "deny", "revokeOrDeny"}
    <3>1. 1 \in 1..(Len(todo[t]) - 1)
      BY <1>2, <1>4, MoreThanOne
    <3> QED
      BY <1>1, <3>1 DEF Emptied
  <2>2. <<>> \in Seq(CallType) /\ Empties(<<>>)
    BY DEF Empties
  <2>3. CASE Makes(t, "revoke")
    <3>1. RevokeFloorRequest(t, Arg(t)) /\ ending
      BY <2>3, StepOf DEF Emptied
    <3>2. /\ MakesCalls(t, <<>>)
          /\ UNCHANGED <<lastUser, users, chairs, chairId, counter, ending, queried, transport, conn,
                       presenterId, editorId>>
      BY <3>1 DEF RevokeFloorRequest, EndRequest, Returns, shared
    <3> QED
      BY <1>4, <2>2, <3>2, EmptyingGoes
  <2>4. CASE Makes(t, "deny")
    <3>1. DenyFloorRequest(t, Arg(t))
      BY <2>4, OtherSteps
    <3>2. /\ MakesCalls(t, <<>>)
          /\ UNCHANGED <<lastUser, users, chairs, chairId, counter, ending, queried, transport, conn,
                       presenterId, editorId>>
      BY <3>1 DEF DenyFloorRequest, Returns
    <3> QED
      BY <1>4, <2>2, <3>2, EmptyingGoes
  <2>5. CASE Makes(t, "revokeOrDeny")
    <3>1. RevokeOrDeny(t, Arg(t)) /\ Arg(t) \in SUBSET Nat
      BY <2>5, StepOf, CallMade DEF IInv, OnIds
    <3>2. PICK calls \in Seq(CallType) : Empties(calls) /\ MakesCalls(t, calls)
      BY <3>1, DenyingCalls
    <3>3. UNCHANGED <<lastUser, users, chairs, chairId, counter, ending, queried, transport, conn,
                      presenterId, editorId>>
      BY <3>1 DEF RevokeOrDeny, shared
    <3> QED
      BY <1>4, <3>2, <3>3, EmptyingGoes
  <2> QED
    BY <1>1, <2>1, <2>3, <2>4, <2>5 DEF Makes
<1> QED
  BY <1>3, <1>4

-----------------------------------------------------------------------------
(* The state a handler ends in.                                            *)

\* What FloorControl keeps of it
Kept(D) ==
    /\ \A r, s \in D.requests : \A f \in Floor : f \in r.floors /\ f \in s.floors => r = s
    /\ D.told = [v \in UserId |-> D.told[v]]
    /\ D.queried = [v \in UserId |-> D.queried[v]]
    /\ D.answered = [v \in UserId |-> D.answered[v]]
    /\ D.transport = [v \in UserId |-> D.transport[v]]
    /\ \A v \in UserId : v \notin D.users \/ D.transport[v] = NoConn => D.told[v] = {}
    /\ \A v \in UserId : \A x \in D.told[v] : x[2] \in Nat /\ x[2] < D.counter
    /\ D.ending => D.users = {} /\ D.requests = {}

\* Requests that end leave no reports behind.
LEMMA EndKeepsReports ==
    ASSUME Based(committed), NEW C, C = committed, NEW gone, NEW kept, FC!EndRequests(gone, kept)
    PROVE  /\ committed'.requests \subseteq C.requests
           /\ committed'.told = [v \in UserId |-> committed'.told[v]]
           /\ \A v \in UserId : committed'.told[v] \subseteq C.told[v]
           /\ \A v \in UserId \ kept : committed'.told[v] = {}
<1>1. committed'.requests \subseteq C.requests
  BY DEF FC!EndRequests
<1>2. PICK all : committed'.told = FC!Notified(kept, all, {})
  BY DEF FC!EndRequests
<1>3. committed'.told = [v \in UserId |-> IF v \in kept
        THEN (C.told[v] \ FC!Reports(all, C.queried[v])) \union FC!Reports({}, C.queried[v]) ELSE {}]
  BY <1>2 DEF FC!Notified, FC!UserId, UserId
<1>4. \A q : FC!Reports({}, q) = {}
  BY DEF FC!Reports
<1> QED
  BY <1>1, <1>3, <1>4

\* RevokeUserFloorRequests keeps the reports of the other users.
LEMMA RevokeUserKeepsReports ==
    ASSUME Based(committed), NEW C, C = committed, NEW u, FC!RevokeUserFloorRequests(u)
    PROVE  /\ committed'.requests \subseteq C.requests
           /\ committed'.told = [v \in UserId |-> committed'.told[v]]
           /\ committed'.answered = [v \in UserId |-> committed'.answered[v]]
           /\ \A v \in UserId : committed'.told[v] \subseteq C.told[v]
           /\ \A v \in UserId : v = u \/ v \notin C.users \/ C.transport[v] = NoConn => committed'.told[v] = {}
<1>1. FC!EndRequests({r \in C.requests : r.beneficiary = u}, FC!Connected \ {u})
  BY DEF FC!RevokeUserFloorRequests
<1>2. committed'.answered = [v \in UserId |-> committed'.answered[v]]
  BY DEF FC!RevokeUserFloorRequests, Based
<1>3. \A v : v \in FC!Connected <=> v \in C.users /\ C.transport[v] # NoConn
  BY DEF FC!Connected
<1> QED
  BY <1>1, <1>2, <1>3, EndKeepsReports

\* The handlers that revoke the requests of a user
LEMMA LeavingKept ==
    ASSUME Based(committed), NEW C, C = committed, NEW u, FC!RevokeUserFloorRequests(u), ~ C.ending,
           committed'.ending = C.ending, committed'.counter = C.counter,
           committed'.users \subseteq C.users,
           committed'.queried = [v \in UserId |-> committed'.queried[v]],
           committed'.transport = [v \in UserId |-> committed'.transport[v]],
           \A v \in UserId \ {u} : /\ committed'.transport[v] = C.transport[v]
                                   /\ v \in C.users => v \in committed'.users
    PROVE  Kept(committed)'
<1>1. /\ committed'.requests \subseteq C.requests
      /\ committed'.told = [v \in UserId |-> committed'.told[v]]
      /\ committed'.answered = [v \in UserId |-> committed'.answered[v]]
      /\ \A v \in UserId : committed'.told[v] \subseteq C.told[v]
      /\ \A v \in UserId : v = u \/ v \notin C.users \/ C.transport[v] = NoConn => committed'.told[v] = {}
  BY RevokeUserKeepsReports
<1>2. \A r, s \in C.requests : \A f \in Floor : f \in r.floors /\ f \in s.floors => r = s
  BY DEF Based
<1>3. \A v \in UserId : v \notin committed'.users \/ committed'.transport[v] = NoConn => committed'.told[v] = {}
  BY <1>1
<1>4. \A v \in UserId : \A x \in committed'.told[v] : x[2] \in Nat /\ x[2] < committed'.counter
  BY <1>1 DEF Based
<1> QED
  BY <1>1, <1>2, <1>3, <1>4 DEF Kept

\* Users and the chair
LEMMA MembersKept ==
    ASSUME Based(committed), NEW C, C = committed,
           FC!AddUser \/ FC!End \/ (\E u \in UserId : FC!SetChair(u)) \/ UNCHANGED FC!vars
    PROVE  Kept(committed)'
<1>1. CASE UNCHANGED FC!vars
  BY <1>1 DEF FC!vars, FC!serverVars, FC!linkVars, FC!mixerVars, FC!viewVars, Based, Kept
<1>2. CASE FC!AddUser
  BY <1>2 DEF FC!AddUser, FC!linkVars, FC!mixerVars, FC!viewVars, Based, Kept
<1>3. CASE FC!End
  BY <1>3 DEF FC!End, FC!mixerVars, FC!UserId, UserId, Based, Kept
<1>4. ASSUME NEW u \in UserId, FC!SetChair(u) PROVE Kept(committed)'
  BY <1>4 DEF FC!SetChair, FC!linkVars, FC!mixerVars, FC!viewVars, Based, Kept
<1> QED
  BY <1>1, <1>2, <1>3, <1>4

\* Connections and users that leave
LEMMA LinksKept ==
    ASSUME Based(committed), NEW C, C = committed, NEW u, NEW c,
           FC!RemoveUser(u) \/ FC!DisconnectUser(c, u) \/ FC!UserConnected(u, c) \/ FC!onClose(c)
    PROVE  Kept(committed)'
<1>0. C.ending => C.users = {}
  BY DEF Based
<1>1. CASE FC!RemoveUser(u)
  <2>1. /\ FC!RevokeUserFloorRequests(u) /\ ~ C.ending /\ committed'.ending = C.ending
        /\ committed'.counter = C.counter /\ committed'.users = C.users \ {u}
        /\ committed'.queried = C.queried /\ committed'.transport = [C.transport EXCEPT ![u] = NoConn]
    BY <1>1 DEF FC!RemoveUser, FC!CloseTransport
  <2> QED
    BY <2>1, LeavingKept DEF Based
<1>2. CASE FC!DisconnectUser(c, u)
  <2>1. /\ FC!RevokeUserFloorRequests(u) /\ ~ C.ending /\ committed'.ending = C.ending
        /\ committed'.counter = C.counter /\ committed'.users = C.users
        /\ committed'.queried = [C.queried EXCEPT ![u] = {}]
        /\ committed'.transport = [C.transport EXCEPT ![u] = NoConn]
    BY <1>2 DEF FC!DisconnectUser, FC!CloseTransport, FC!Delivers
  <2> QED
    BY <2>1, LeavingKept DEF Based
<1>3. CASE FC!UserConnected(u, c)
  <2>1. CASE u \in FC!Connected
    <3>1. /\ FC!RevokeUserFloorRequests(u) /\ ~ C.ending /\ committed'.ending = C.ending
          /\ committed'.counter = C.counter /\ committed'.users = C.users
          /\ committed'.queried = [C.queried EXCEPT ![u] = {}]
          /\ committed'.transport = [C.transport EXCEPT ![u] = c]
      BY <1>3, <2>1 DEF FC!UserConnected
    <3> QED
      BY <3>1, LeavingKept DEF Based
  <2>2. CASE u \notin FC!Connected
    <3>1. /\ u \in C.users /\ C.transport[u] = NoConn
          /\ committed'.requests = C.requests /\ committed'.told = C.told
          /\ committed'.answered = C.answered /\ committed'.queried = C.queried
          /\ committed'.transport = [C.transport EXCEPT ![u] = c]
          /\ committed'.users = C.users /\ committed'.counter = C.counter /\ committed'.ending = C.ending
      BY <1>3, <2>2 DEF FC!UserConnected, FC!mixerVars, FC!viewVars, FC!Connected
    <3> QED
      BY <3>1 DEF Based, Kept
  <2> QED
    BY <2>1, <2>2
<1>4. CASE FC!onClose(c)
  <2>1. CASE C.conn[c].user \in C.users /\ ~ C.conn[c].closedByServer
    <3> DEFINE w == C.conn[c].user
    <3>1. /\ FC!RevokeUserFloorRequests(w) /\ ~ C.ending /\ committed'.ending = C.ending
          /\ committed'.counter = C.counter /\ committed'.users = C.users
          /\ committed'.queried = [C.queried EXCEPT ![w] = {}]
          /\ committed'.transport = [C.transport EXCEPT ![w] = NoConn]
      BY <1>0, <1>4, <2>1 DEF FC!onClose
    <3> QED
      BY <3>1, LeavingKept DEF Based
  <2>2. CASE ~ (C.conn[c].user \in C.users /\ ~ C.conn[c].closedByServer)
    <3>1. /\ committed'.requests = C.requests /\ committed'.told = C.told
          /\ committed'.answered = C.answered /\ committed'.queried = C.queried
          /\ committed'.transport = C.transport
          /\ committed'.users = C.users /\ committed'.counter = C.counter /\ committed'.ending = C.ending
      BY <1>4, <2>2 DEF FC!onClose, FC!mixerVars, FC!viewVars
    <3> QED
      BY <3>1 DEF Based, Kept
  <2> QED
    BY <2>1, <2>2
<1> QED
  BY <1>1, <1>2, <1>3, <1>4

\* Messages
LEMMA MessagesKept ==
    ASSUME Based(committed), NEW C, C = committed, NEW u \in UserId, NEW c \in Conn,
           \/ \E b \in UserId, fs \in Requested : FC!ProcessFloorRequest(c, u, b, fs)
           \/ \E r \in C.requests : FC!ProcessFloorRelease(c, u, r)
           \/ \E fs \in Queried : FC!ProcessFloorQuery(c, u, fs)
    PROVE  Kept(committed)'
<1>1. ASSUME NEW b \in UserId, NEW fs \in Requested, FC!ProcessFloorRequest(c, u, b, fs)
      PROVE  Kept(committed)'
  <2>1. /\ C.counter \in Nat /\ ~ C.ending /\ committed'.counter = C.counter + 1
        /\ committed'.users = C.users /\ committed'.ending = C.ending
        /\ committed'.queried = C.queried /\ committed'.transport = C.transport
        /\ committed'.answered = C.answered
    BY <1>1 DEF FC!ProcessFloorRequest, FC!Delivers, FC!linkVars, Based
  <2>2. CASE FC!IsAuthorised(u)
    <3>1. PICK new : /\ new = [id |-> C.counter, user |-> u, beneficiary |-> b, floors |-> fs]
                     /\ FC!GrantFloorRequest(new)
      BY <1>1, <2>2 DEF FC!ProcessFloorRequest
    <3>2. PICK all : /\ all = FC!RevokedForGrant(new)
                     /\ committed'.requests = (C.requests \ all) \union {new}
                     /\ committed'.told = FC!Notified(FC!Connected, all, {new})
      BY <3>1 DEF FC!GrantFloorRequest
    <3>3. \A r \in C.requests : r.floors \cap new.floors # {} => r \in all
      BY <3>2 DEF FC!RevokedForGrant, FC!Released, FC!SharingAFloor
    <3>4. \A r, s \in committed'.requests : \A f \in Floor : f \in r.floors /\ f \in s.floors => r = s
      BY <3>2, <3>3 DEF Based
    <3>5. committed'.told = [v \in UserId |-> IF v \in FC!Connected
            THEN (C.told[v] \ FC!Reports(all, C.queried[v])) \union FC!Reports({new}, C.queried[v]) ELSE {}]
      BY <3>2 DEF FC!Notified, FC!UserId, UserId
    <3>6. \A q : \A x \in FC!Reports({new}, q) : x[2] = C.counter
      BY <3>1 DEF FC!Reports
    <3>7. \A v \in UserId : v \notin C.users \/ C.transport[v] = NoConn => committed'.told[v] = {}
      BY <3>5 DEF FC!Connected
    <3>8. \A v \in UserId : \A x \in committed'.told[v] : x[2] \in Nat /\ x[2] < committed'.counter
      <4> SUFFICES ASSUME NEW v \in UserId, NEW x \in committed'.told[v]
                   PROVE  x[2] \in Nat /\ x[2] < C.counter + 1
        BY <2>1
      <4>1. x \in C.told[v] \/ x[2] = C.counter
        BY <3>5, <3>6
      <4>2. x \in C.told[v] => x[2] \in Nat /\ x[2] < C.counter
        BY DEF Based
      <4> QED
        BY <2>1, <4>1, <4>2
    <3> QED
      BY <2>1, <3>4, <3>5, <3>7, <3>8 DEF Based, Kept
  <2>3. CASE ~ FC!IsAuthorised(u)
    <3>1. committed'.requests = C.requests /\ committed'.told = C.told
      BY <1>1, <2>3 DEF FC!ProcessFloorRequest, FC!mixerVars
    <3>2. \A v \in UserId : \A x \in committed'.told[v] : x[2] \in Nat /\ x[2] < committed'.counter
      <4> SUFFICES ASSUME NEW v \in UserId, NEW x \in C.told[v]
                   PROVE  x[2] \in Nat /\ x[2] < C.counter + 1
        BY <2>1, <3>1
      <4>1. x[2] \in Nat /\ x[2] < C.counter
        BY DEF Based
      <4> QED
        BY <2>1, <4>1
    <3> QED
      BY <2>1, <3>1, <3>2 DEF Based, Kept
  <2> QED
    BY <2>2, <2>3
<1>2. ASSUME NEW r \in C.requests, FC!ProcessFloorRelease(c, u, r) PROVE Kept(committed)'
  <2>1. /\ FC!EndRequests({r}, FC!Connected) /\ ~ C.ending /\ committed'.counter = C.counter
        /\ committed'.users = C.users /\ committed'.ending = C.ending
        /\ committed'.queried = C.queried /\ committed'.transport = C.transport
        /\ committed'.answered = C.answered
    BY <1>2 DEF FC!ProcessFloorRelease, FC!Delivers, FC!linkVars
  <2>2. /\ committed'.requests \subseteq C.requests
        /\ committed'.told = [v \in UserId |-> committed'.told[v]]
        /\ \A v \in UserId : committed'.told[v] \subseteq C.told[v]
        /\ \A v \in UserId \ FC!Connected : committed'.told[v] = {}
    BY <2>1, EndKeepsReports
  <2>3. \A v \in UserId : v \notin C.users \/ C.transport[v] = NoConn => committed'.told[v] = {}
    BY <2>2 DEF FC!Connected
  <2> QED
    BY <2>1, <2>2, <2>3 DEF Based, Kept
<1>3. ASSUME NEW fs \in Queried, FC!ProcessFloorQuery(c, u, fs) PROVE Kept(committed)'
  <2>1. /\ ~ C.ending /\ committed'.requests = C.requests /\ committed'.counter = C.counter
        /\ committed'.users = C.users /\ committed'.ending = C.ending
        /\ committed'.transport = C.transport
        /\ committed'.queried = [C.queried EXCEPT ![u] = fs]
    BY <1>3 DEF FC!ProcessFloorQuery, FC!Delivers, FC!serverVars
  <2>2. CASE u \in FC!Connected
    <3>1. /\ u \in C.users /\ C.transport[u] # NoConn
          /\ committed'.answered = [C.answered EXCEPT ![u] = fs]
          /\ committed'.told = [C.told EXCEPT ![u] = FC!Reports(C.requests, fs)]
      BY <1>3, <2>2 DEF FC!ProcessFloorQuery, FC!Connected
    <3>2. \A x \in FC!Reports(C.requests, fs) : x[2] \in Nat /\ x[2] < C.counter
      BY DEF FC!Reports, Based, BareRequest
    <3>3. \A v \in UserId : \A x \in committed'.told[v] : x[2] \in Nat /\ x[2] < committed'.counter
      BY <2>1, <3>1, <3>2 DEF Based
    <3>4. /\ committed'.told = [v \in UserId |-> committed'.told[v]]
          /\ committed'.answered = [v \in UserId |-> committed'.answered[v]]
          /\ committed'.queried = [v \in UserId |-> committed'.queried[v]]
      BY <2>1, <3>1 DEF Based
    <3>5. \A v \in UserId : v \notin committed'.users \/ committed'.transport[v] = NoConn => committed'.told[v] = {}
      BY <2>1, <3>1 DEF Based
    <3> QED
      BY <2>1, <3>3, <3>4, <3>5 DEF Based, Kept
  <2>3. CASE u \notin FC!Connected
    <3>1. committed'.answered = C.answered /\ committed'.told = C.told
      BY <1>3, <2>3 DEF FC!ProcessFloorQuery, FC!viewVars
    <3> QED
      BY <2>1, <3>1 DEF Based, Kept
  <2> QED
    BY <2>2, <2>3
<1> QED
  BY <1>1, <1>2, <1>3

\* FloorControl keeps that much.
LEMMA StepKept ==
    ASSUME Based(committed), FC!Next \/ UNCHANGED FC!vars
    PROVE  Kept(committed)'
<1> PICK C : C = committed
  OBVIOUS
<1>1. CASE FC!AddUser \/ FC!End \/ (\E u \in UserId : FC!SetChair(u)) \/ UNCHANGED FC!vars
  BY <1>1, MembersKept
<1>2. ASSUME NEW u, NEW c,
             FC!RemoveUser(u) \/ FC!DisconnectUser(c, u) \/ FC!UserConnected(u, c) \/ FC!onClose(c)
      PROVE  Kept(committed)'
  BY <1>2, LinksKept
<1>3. ASSUME NEW u \in UserId, NEW c \in Conn,
             \/ \E b \in UserId, fs \in Requested : FC!ProcessFloorRequest(c, u, b, fs)
             \/ \E r \in C.requests : FC!ProcessFloorRelease(c, u, r)
             \/ \E fs \in Queried : FC!ProcessFloorQuery(c, u, fs)
      PROVE  Kept(committed)'
  BY <1>3, MessagesKept
<1> QED
  <2>1. CASE FC!Next
    BY <1>1, <1>2, <1>3, <2>1 DEF FC!Next, FC!UserId, UserId
  <2> QED
    BY <1>1, <2>1

\* The state a handler ends in is one the next can start in.
LEMMA BasedAgain ==
    ASSUME IInv, Here(committed), Kept(committed)
    PROVE  Based(committed)
<1> PICK C : C = committed
  OBVIOUS
<1>1. floorRequests \subseteq Request /\ counter \in Nat
  BY DEF IInv, Types, SharedTypes
<1>2. C.requests = {Bare(r) : r \in floorRequests}
  BY DEF Here, Ongoing, Bare
<1>3. C.requests \subseteq BareRequest
  BY <1>1, <1>2 DEF Bare, BareRequest, Request
<1>4. \A r \in C.requests : r.id < C.counter
  <2>1. \A r \in floorRequests : Bare(r).id = r.id /\ r.id < counter
    BY DEF Bare, IInv, Known
  <2> QED
    BY <1>2, <2>1 DEF Here
<1>5. \A r, s \in C.requests : r.id = s.id => r = s
  <2>1. \A r, s \in floorRequests : Bare(r).id = Bare(s).id => r = s
    BY DEF Bare, IInv, Known
  <2> QED
    BY <1>2, <2>1
<1>6. C.counter \in Nat
  BY <1>1 DEF Here
<1> QED
  BY <1>3, <1>4, <1>5, <1>6 DEF Based, Kept

\* When the server is idle, the map has the requests of the state when the last
\* handler ended.
LEMMA IdleAtStart ==
    ASSUME IInv, Follows, Idle, NEW C, C = committed
    PROVE  AtStart(C)
<1>1. Here(C)
  BY SnapshotIsHere DEF Follows
<1>2. \A r \in floorRequests : IsGranted(r)
  <2>1. \A t \in Thread : Len(todo[t]) = 0
    BY DEF Idle
  <2>2. CASE ending
    BY <2>1, <2>2 DEF IInv, Emptying
  <2>3. CASE ~ ending
    BY <2>1, <2>3 DEF IInv, Deciding
  <2> QED
    BY <2>2, <2>3
<1>3. \A r \in floorRequests : Full(Bare(r)) = r
  <2> TAKE r \in floorRequests
  <2>1. r \in Request /\ r.status = "Granted"
    BY <1>2 DEF IInv, Types, SharedTypes, IsGranted
  <2> QED
    BY <2>1 DEF Full, Bare, Request
<1>4. C.requests = {Bare(r) : r \in floorRequests}
  BY <1>1 DEF Here, Ongoing, Bare
<1>5. Start(C) = floorRequests
  BY <1>3, <1>4 DEF Start
<1> QED
  BY <1>1, <1>5 DEF Here, AtStart, Members, Links, Mixer, Views

\* A handler starts.
LEMMA StartFollows ==
    ASSUME Serial, IInv, IInv', Follows, NEW t \in Thread, NEW call, Starts(t, call),
           Begins(committed, t, call)
    PROVE  Follows'
<1> PICK C : C = committed
  OBVIOUS
<1>1. Idle
  BY DEF Starts, Idle
<1>2. AtStart(C) /\ UNCHANGED shared /\ committed' = committed
  BY <1>1, IdleAtStart DEF Starts
<1>3. AtStart(C)'
  BY <1>2, StillAtStart
<1>4. /\ todo \in [Thread -> Seq(CallType)] /\ todo'[t] = <<call>>
      /\ \A x \in Thread : x # t => todo'[x] = <<>>
  BY <1>1 DEF IInv, Types, Starts, Idle
<1>5. call \in CallType
  <2>1. todo'[t] \in Seq(CallType)
    BY DEF IInv, Types
  <2>2. Len(todo'[t]) = 1 /\ todo'[t][1] = call
    BY <1>4
  <2> QED
    BY <2>1, <2>2
<1>6. Starting(C, t)'
  BY <1>3, <1>4, <1>5 DEF Starting
<1>7. ~ Idle'
  <2>1. todo'[t] # <<>>
    BY <1>4
  <2> QED
    BY <2>1 DEF Idle
<1>8. Based(committed)'
  BY <1>2 DEF Follows, Based
<1>9. \A x \in Thread : todo'[x] # <<>> => \E D : D = committed' /\ Phase(D, x)'
  BY <1>2, <1>4, <1>6 DEF Phase
<1> QED
  BY <1>7, <1>8, <1>9 DEF Follows

\* Handlers are started as they may be.
LEMMA BeginFollows ==
    ASSUME Serial, IInv, IInv', Follows, Administer \/ \E c \in Conn : Connect(c) \/ Receive(c)
    PROVE  Follows' /\ committed' = committed
<1> PICK C : C = committed
  OBVIOUS
<1>1. users \subseteq UserId
  BY DEF IInv, Types, SharedTypes
<1>2. ASSUME NEW t \in Thread, NEW call, Starts(t, call) PROVE AtStart(C) /\ committed' = committed
  BY <1>2, IdleAtStart DEF Starts, Idle
<1>3. ASSUME NEW t \in Thread, NEW call, Starts(t, call), Begins(C, t, call)
      PROVE  Follows' /\ committed' = committed
  BY <1>2, <1>3, StartFollows
<1>4. \A op, arg : Call(op, arg).op = op /\ Call(op, arg).arg = arg
  BY DEF Call
<1>5. control \in Thread /\ Conn \subseteq Thread
  BY DEF Thread
<1>6. CASE Administer
  <2>1. CASE Starts(control, Call("addUser", Nobody))
    BY <1>3, <1>4, <1>5, <2>1 DEF Begins
  <2>2. ASSUME NEW u \in users, Starts(control, Call("removeUser", u)) PROVE Follows' /\ committed' = committed
    BY <1>1, <1>3, <1>4, <1>5, <2>2 DEF Begins
  <2>3. ASSUME NEW u \in UserId, ~ ending, Starts(control, Call("setChair", u))
        PROVE  Follows' /\ committed' = committed
    <3>1. ~ C.ending
      BY <1>2, <1>5, <2>3 DEF AtStart, Members
    <3> QED
      BY <1>3, <1>4, <1>5, <2>3, <3>1 DEF Begins
  <2>4. CASE ~ ending /\ Starts(control, Call("end", Nobody))
    <3>1. ~ C.ending
      BY <1>2, <1>5, <2>4 DEF AtStart, Members
    <3> QED
      BY <1>3, <1>4, <1>5, <2>4, <3>1 DEF Begins
  <2> QED
    BY <1>6, <2>1, <2>2, <2>3, <2>4 DEF Administer
<1>7. ASSUME NEW c \in Conn, Connect(c) PROVE Follows' /\ committed' = committed
  <2>1. PICK u \in users : Starts(c, Call("userConnected", u)) /\ conn[c].state = "new"
    BY <1>7 DEF Connect
  <2>2. C.conn[c].state = "new"
    BY <1>2, <1>5, <2>1 DEF AtStart, Links
  <2> QED
    BY <1>1, <1>3, <1>4, <1>5, <2>1, <2>2 DEF Begins
<1>8. ASSUME NEW c \in Conn, Receive(c) PROVE Follows' /\ committed' = committed
  <2>1. ASSUME NEW call, Starts(c, call), conn[c].state = "open",
               \/ call.op \in {"onClose", "disconnectUser"} /\ call.arg = conn[c].user
               \/ call.op \in {"floorRequest", "floorRelease", "floorQuery"} /\ call.arg.user = conn[c].user
        PROVE  Follows' /\ committed' = committed
    <3>1. C.conn = conn
      BY <1>2, <1>5, <2>1 DEF AtStart, Links
    <3> QED
      BY <1>3, <1>5, <2>1, <3>1 DEF Begins
  <2>2. conn[c].state = "open"
    BY <1>8 DEF Receive
  <2>3. CASE Starts(c, Call("onClose", conn[c].user)) \/ Starts(c, Call("disconnectUser", conn[c].user))
    BY <1>4, <2>1, <2>2, <2>3
  <2>4. ASSUME NEW b \in UserId, NEW fs \in Requested,
               Starts(c, Call("floorRequest", [user |-> conn[c].user, beneficiary |-> b, floors |-> fs]))
        PROVE  Follows' /\ committed' = committed
    BY <1>4, <2>1, <2>2, <2>4
  <2>5. ASSUME NEW r \in floorRequests, Starts(c, Call("floorRelease", [user |-> conn[c].user, id |-> r.id]))
        PROVE  Follows' /\ committed' = committed
    BY <1>4, <2>1, <2>2, <2>5
  <2>6. ASSUME NEW fs \in Queried, Starts(c, Call("floorQuery", [user |-> conn[c].user, floors |-> fs]))
        PROVE  Follows' /\ committed' = committed
    BY <1>4, <2>1, <2>2, <2>6
  <2> QED
    BY <1>8, <2>3, <2>4, <2>5, <2>6 DEF Receive
<1> QED
  BY <1>6, <1>7, <1>8

-----------------------------------------------------------------------------
(* Each step.                                                              *)

\* A handler that has just been started
LEMMA StartingLeads ==
    ASSUME IInv, IInv', Based(committed), NEW C, C = committed, NEW t \in Thread, Starting(C, t), Step(t)
    PROVE  Leads(C, t)
<1>1. PICK c \in CallType : todo[t] = <<c>> /\ Begins(C, t, c) /\ AtStart(C)
  BY DEF Starting
<1>2. Makes(t, c.op) /\ Arg(t) = c.arg
  BY <1>1, OnlyCall DEF IInv
<1>3. CASE c.op = "addUser"
  BY <1>1, <1>2, <1>3, OtherSteps, AddUserLeads
<1>4. CASE c.op = "removeUser" /\ c.arg \in UserId
  BY <1>1, <1>2, <1>4, OtherSteps, RemoveUserLeads
<1>5. CASE c.op = "setChair" /\ c.arg \in UserId /\ ~ C.ending
  BY <1>1, <1>2, <1>5, OtherSteps, SetChairLeads
<1>6. CASE c.op = "end" /\ ~ C.ending
  BY <1>1, <1>2, <1>6, OtherSteps, EndLeads
<1>7. CASE c.op = "userConnected" /\ t \in Conn /\ C.conn[t].state = "new" /\ c.arg \in UserId
  BY <1>1, <1>2, <1>7, OtherSteps, UserConnectedLeads
<1>8. CASE t \in Conn /\ C.conn[t].state = "open"
  <2>1. CASE c.op = "onClose" /\ c.arg = C.conn[t].user
    <3>1. onClose(t, c.arg) /\ c.arg \in 0..MaxUser
      BY <1>2, <2>1, OtherSteps, CallMade DEF IInv, OnUser
    <3> QED
      BY <1>1, <1>8, <2>1, <3>1, onCloseLeads
  <2>2. CASE c.op = "disconnectUser" /\ c.arg = C.conn[t].user
    BY <1>1, <1>2, <1>8, <2>2, OtherSteps, DisconnectUserLeads
  <2>3. CASE c.op = "floorRequest" /\ c.arg.user = C.conn[t].user
    <3>1. ProcessFloorRequest(t, c.arg) /\ c.arg \in [user : UserId, beneficiary : UserId, floors : Requested]
      BY <1>2, <2>3, OtherSteps, CallMade DEF IInv
    <3> QED
      BY <1>1, <1>8, <2>3, <3>1, FloorRequestLeads
  <2>4. CASE c.op = "floorRelease" /\ c.arg.user = C.conn[t].user
    <3>1. ProcessFloorRelease(t, c.arg) /\ c.arg \in [user : UserId, id : Nat]
      BY <1>2, <2>4, OtherSteps, CallMade DEF IInv
    <3> QED
      BY <1>1, <1>8, <2>4, <3>1, FloorReleaseLeads
  <2>5. CASE c.op = "floorQuery" /\ c.arg.user = C.conn[t].user
    <3>1. ProcessFloorQuery(t, c.arg) /\ c.arg \in [user : UserId, floors : Queried]
      BY <1>2, <2>5, OtherSteps, CallMade DEF IInv
    <3> QED
      BY <1>1, <1>8, <2>5, <3>1, FloorQueryLeads
  <2>6. \/ c.op \in {"onClose", "disconnectUser"} /\ c.arg = C.conn[t].user
        \/ c.op \in {"floorRequest", "floorRelease", "floorQuery"} /\ c.arg.user = C.conn[t].user
        \/ c.op \in {"addUser", "removeUser", "setChair", "end", "userConnected"}
    BY <1>1 DEF Begins
  <2>7. CASE c.op \in {"addUser", "removeUser", "setChair", "end", "userConnected"}
    BY <1>1, <1>3, <1>4, <1>5, <1>6, <1>7, <2>7 DEF Begins
  <2> QED
    BY <2>1, <2>2, <2>3, <2>4, <2>5, <2>6, <2>7
<1> QED
  BY <1>1, <1>3, <1>4, <1>5, <1>6, <1>7, <1>8 DEF Begins

\* Every handler that runs
LEMMA PhaseLeads ==
    ASSUME IInv, IInv', Based(committed), NEW C, C = committed, NEW t \in Thread, Phase(C, t), Step(t)
    PROVE  Leads(C, t)
<1>1. CASE Starting(C, t)
  BY <1>1, StartingLeads
<1>2. CASE Chairing(C, t)
  BY <1>2, ChairingLeads
<1>3. CASE Closing(C, t)
  BY <1>3, ClosingLeads
<1>4. CASE Leaving(C, t)
  BY <1>4, LeavingLeads
<1>5. CASE Attaching(C, t)
  BY <1>5, AttachingLeads
<1>6. CASE Releasing(C, t)
  BY <1>6, ReleasingLeads
<1>7. CASE Requesting(C, t)
  BY <1>7, RequestingLeads
<1>8. CASE Emptied(C, t)
  BY <1>8, EmptiedLeads
<1> QED
  BY <1>1, <1>2, <1>3, <1>4, <1>5, <1>6, <1>7, <1>8 DEF Phase

\* A thread makes the first of its own calls.
LEMMA OwnCalls ==
    ASSUME Types, NEW t \in Thread, Step(t)
    PROVE  todo[t] # <<>> /\ \A x \in Thread : x # t => todo'[x] = todo[x]
<1>1. todo[t] # <<>>
  BY DEF Step, Makes
<1>2. ASSUME NEW calls, MakesCalls(t, calls) PROVE \A x \in Thread : x # t => todo'[x] = todo[x]
  BY <1>2 DEF MakesCalls, Types
<1>3. ASSUME Returns(t) PROVE \A x \in Thread : x # t => todo'[x] = todo[x]
  BY <1>2, <1>3 DEF Returns
<1>4. ASSUME NEW r, NEW b, EndRequest(t, r, b) PROVE \A x \in Thread : x # t => todo'[x] = todo[x]
  BY <1>2, <1>4 DEF EndRequest
<1>5. ASSUME \/ GrantFloorRequest(t, Arg(t)) \/ RevokeIfGranted(t, Arg(t)) \/ SetGranted(t, Arg(t))
             \/ RevokeUserFloorRequests(t, Arg(t)) \/ RevokeOrDeny(t, Arg(t)) \/ onFloorRequest(t, Arg(t))
      PROVE  \A x \in Thread : x # t => todo'[x] = todo[x]
  BY <1>2, <1>5 DEF GrantFloorRequest, RevokeIfGranted, SetGranted, RevokeUserFloorRequests, RevokeOrDeny,
                    onFloorRequest
<1>6. ASSUME \/ onFloorGranted(t, Arg(t)) \/ onFloorReleased(t, Arg(t)) \/ RevokeEditor(t) \/ SetEditor(t, Arg(t))
             \/ AddUser(t) \/ RemoveUser(t, Arg(t)) \/ SetChair(t, Arg(t)) \/ ServerSetChair(t, Arg(t))
             \/ End(t) \/ EndNext(t) \/ DenyFloorRequest(t, Arg(t))
      PROVE  \A x \in Thread : x # t => todo'[x] = todo[x]
  BY <1>2, <1>3, <1>6 DEF onFloorGranted, onFloorReleased, OnFloorChange, RevokeEditor, SetEditor, AddUser,
       RemoveUser, SetChair, ServerSetChair, End, EndNext, DenyFloorRequest
<1>7. ASSUME \/ CloseTransport(t, Arg(t)) \/ UserConnected(t, Arg(t)) \/ SetTransport(t, Arg(t))
             \/ Accept(t, Arg(t)) \/ onClose(t, Arg(t)) \/ UserDisconnected(t, Arg(t)) \/ DisconnectUser(t, Arg(t))
      PROVE  \A x \in Thread : x # t => todo'[x] = todo[x]
  BY <1>2, <1>3, <1>7 DEF CloseTransport, UserConnected, SetTransport, Accept, onClose, UserDisconnected,
       DisconnectUser, ResetUser
<1>8. ASSUME \/ ProcessFloorRequest(t, Arg(t)) \/ ProcessFloorRelease(t, Arg(t)) \/ ProcessFloorQuery(t, Arg(t))
             \/ RevokeFloorRequest(t, Arg(t))
      PROVE  \A x \in Thread : x # t => todo'[x] = todo[x]
  BY <1>2, <1>3, <1>4, <1>8 DEF ProcessFloorRequest, ProcessFloorRelease, ProcessFloorQuery, RevokeFloorRequest
<1>9. \A x \in Thread : x # t => todo'[x] = todo[x]
  BY <1>5, <1>6, <1>7, <1>8 DEF Step
<1> QED
  BY <1>1, <1>9

\* The state at the end of a handler
LEMMA EndState ==
    /\ committed' = Snapshot' => Here(committed)'
    /\ IInv' /\ Here(committed)' /\ Kept(committed)' => Based(committed)'
<1>1. committed = Snapshot => Here(committed)
  BY SnapshotIsHere
<1>2. (committed = Snapshot => Here(committed))'
  BY <1>1, PTL
<1>3. IInv /\ Here(committed) /\ Kept(committed) => Based(committed)
  BY BasedAgain
<1>4. (IInv /\ Here(committed) /\ Kept(committed) => Based(committed))'
  BY <1>3, PTL
<1> QED
  BY <1>2, <1>4

\* A step of the only handler that runs
LEMMA StepFollows ==
    ASSUME Serial, IInv, IInv', Follows, NEW t \in Thread, Step(t), Commits
    PROVE  Follows' /\ (FC!Next \/ UNCHANGED FC!vars)
<1>1. todo[t] # <<>> /\ \A x \in Thread : x # t => todo'[x] = todo[x]
  BY OwnCalls DEF IInv
<1>2. \A x \in Thread : x # t => todo'[x] = <<>>
  BY <1>1 DEF IInv, Serially, Alone
<1>3. PICK C : C = committed /\ Phase(C, t)
  BY <1>1 DEF Follows
<1>4. Based(committed)
  BY DEF Follows
<1>5. Leads(C, t)
  BY <1>3, <1>4, PhaseLeads
<1>6. CASE todo'[t] # <<>>
  <2>1. committed' = committed
    BY <1>6 DEF Commits
  <2>2. Phase(C, t)' /\ C = committed'
    BY <1>3, <1>5, <1>6, <2>1 DEF Leads
  <2>3. \A x \in Thread : todo'[x] # <<>> => \E D : D = committed' /\ Phase(D, x)'
    BY <1>2, <2>2
  <2>4. ~ Idle'
    BY <1>6 DEF Idle
  <2>5. Based(committed)'
    BY <1>4, <2>1 DEF Based
  <2>6. Follows'
    BY <2>3, <2>4, <2>5 DEF Follows
  <2>7. UNCHANGED FC!vars
    BY <2>1 DEF FC!vars, FC!serverVars, FC!linkVars, FC!mixerVars, FC!viewVars
  <2> QED
    BY <2>6, <2>7
<1>7. CASE todo'[t] = <<>>
  <2>1. \A x \in Thread : todo'[x] = <<>>
    BY <1>2, <1>7
  <2>2. committed' = Snapshot'
    BY <2>1 DEF Commits
  <2>3. Here(committed)'
    BY <2>2, EndState
  <2>4. FC!Next \/ UNCHANGED FC!vars
    BY <1>5, <1>7, <2>3 DEF Leads
  <2>5. Kept(committed)'
    BY <1>4, <2>4, StepKept
  <2>6. Based(committed)'
    BY <2>3, <2>5, EndState
  <2>7. Follows'
    BY <2>1, <2>2, <2>6 DEF Follows
  <2> QED
    BY <2>4, <2>7
<1> QED
  BY <1>6, <1>7

\* A step that leaves all as it is
LEMMA StillRevoking ==
    ASSUME UNCHANGED vars, NEW C, NEW t, NEW u, NEW these, NEW all, NEW extra, NEW op, NEW tail,
           Revoking(C, t, u, these, all, extra, op, tail)
    PROVE  Revoking(C, t, u, these, all, extra, op, tail)'
<1>1. PICK gone, inner, ids : At(C, t, u, these, all, extra, op, tail, gone, inner, ids)
  BY DEF Revoking
<1>2. Knows(C, gone, extra, u) => Knows(C, gone, extra, u)'
  BY DEF Knows, vars, shared
<1>3. Inner(C, inner, gone, all, extra) => Inner(C, inner, gone, all, extra)'
  BY DEF Inner, Presents, Edits, vars, shared
<1>4. At(C, t, u, these, all, extra, op, tail, gone, inner, ids)'
  BY <1>1, <1>2, <1>3 DEF At, vars, shared
<1> QED
  BY <1>4 DEF Revoking

\* The same of a handler
LEMMA StillPhase ==
    ASSUME UNCHANGED vars, NEW C, NEW t, Phase(C, t)
    PROVE  Phase(C, t)'
<1>1. \A gone, extra, u : Knows(C, gone, extra, u) => Knows(C, gone, extra, u)'
  BY DEF Knows, vars, shared
<1>2. \A gone, extra : Presents(C, gone, extra) => Presents(C, gone, extra)'
  BY DEF Presents, vars, shared
<1>3. \A gone : Edits(C, gone) => Edits(C, gone)'
  BY DEF Edits, vars, shared
<1>4. /\ Members(C) => Members(C)'
      /\ Links(C) => Links(C)'
      /\ Mixer(C) => Mixer(C)'
      /\ Views(C) => Views(C)'
  BY DEF Members, Links, Mixer, Views, vars, shared
<1>5. AtStart(C) => AtStart(C)'
  BY StillAtStart DEF vars
<1>6. \A u, all, extra : Revoked(C, u, all, extra) => Revoked(C, u, all, extra)'
  BY <1>1, <1>2, <1>3 DEF Revoked, vars, shared
<1>7. \A u : Sends(C, t, u) => Sends(C, t, u)'
  BY <1>4 DEF Sends, vars, shared
<1>8. \A u, these, all, extra, op, tail : Revoking(C, t, u, these, all, extra, op, tail)
                                           => Revoking(C, t, u, these, all, extra, op, tail)'
  BY StillRevoking
<1>9. CASE Starting(C, t) \/ Chairing(C, t) \/ Closing(C, t)
  BY <1>4, <1>5, <1>9 DEF Starting, Chairing, Closing, Phase, vars, shared
<1>10. CASE Leaving(C, t)
  <2>1. \A u, tail : Leaves(C, t, u, tail) => Leaves(C, t, u, tail)'
    BY <1>4 DEF Leaves, vars, shared
  <2> QED
    BY <1>1, <1>4, <1>8, <1>10, <2>1 DEF Leaving, Phase, vars, shared
<1>11. CASE Attaching(C, t)
  <2>1. \A u : Resets(C, u) => Resets(C, u)'
    BY <1>4, <1>6 DEF Resets, vars, shared
  <2> QED
    BY <1>4, <1>11, <2>1 DEF Attaching, Phase, vars, shared
<1>12. CASE Releasing(C, t)
  BY <1>7, <1>8, <1>12 DEF Releasing, Phase, vars, shared
<1>13. CASE Requesting(C, t)
  <2>1. \A n : Undecided(C, t, n) => Undecided(C, t, n)'
    BY <1>4 DEF Undecided, vars, shared
  <2>2. \A n : Granting(C, t, n) => Granting(C, t, n)'
    BY <1>1, <1>2, <1>3, <1>8 DEF Granting, vars, shared
  <2> QED
    BY <1>7, <1>13, <2>1, <2>2 DEF Requesting, Phase, vars, shared
<1>14. CASE Emptied(C, t)
  BY <1>4, <1>14 DEF Emptied, Phase, vars, shared
<1> QED
  BY <1>9, <1>10, <1>11, <1>12, <1>13, <1>14 DEF Phase

\* The same of all handlers
LEMMA StillFollows ==
    ASSUME Follows, UNCHANGED vars
    PROVE  Follows'
<1>1. Based(committed)'
  BY DEF Follows, Based, vars
<1>2. Idle' => Snapshot' = committed'
  BY DEF Follows, Idle, Snapshot, Ongoing, vars, shared
<1>3. \A t \in Thread : todo'[t] # <<>> => \E C : C = committed' /\ Phase(C, t)'
  BY StillPhase DEF Follows, vars
<1> QED
  BY <1>1, <1>2, <1>3 DEF Follows

\* The state each handler has come to, at all times
LEMMA FollowsHolds == ASSUME Serial PROVE Spec => []Follows /\ FC!Init /\ [][FC!Next]_(FC!vars)
<1>1. Init => Follows /\ FC!Init
  <2> SUFFICES ASSUME Init PROVE Follows /\ FC!Init
    OBVIOUS
  <2>1. Ongoing = {} /\ committed = Snapshot
    BY DEF Init, Ongoing
  <2>2. FC!Init
    BY <2>1 DEF Init, Snapshot, FC!Init, FC!UserId, UserId, Nobody, FC!Nobody
  <2>3. Here(committed)
    BY <2>1, SnapshotIsHere
  <2>4. Based(committed)
    BY <2>1, <2>3 DEF Init, Here, Based
  <2>5. \A t \in Thread : todo[t] = <<>>
    BY DEF Init
  <2> QED
    BY <2>1, <2>2, <2>4, <2>5 DEF Follows
<1>2. IInv /\ IInv' /\ Follows /\ [Next]_vars => Follows' /\ [FC!Next]_(FC!vars)
  <2> SUFFICES ASSUME IInv, IInv', Follows, [Next]_vars PROVE Follows' /\ (FC!Next \/ UNCHANGED FC!vars)
    OBVIOUS
  <2>1. CASE Administer \/ \E c \in Conn : Connect(c) \/ Receive(c)
    <3>1. Follows' /\ committed' = committed
      BY <2>1, BeginFollows
    <3> QED
      BY <3>1 DEF FC!vars, FC!serverVars, FC!linkVars, FC!mixerVars, FC!viewVars
  <2>2. ASSUME NEW t \in Thread, Step(t), Commits PROVE Follows' /\ (FC!Next \/ UNCHANGED FC!vars)
    BY <2>2, StepFollows
  <2>3. CASE UNCHANGED vars
    <3>1. UNCHANGED FC!vars
      BY <2>3 DEF vars, FC!vars, FC!serverVars, FC!linkVars, FC!mixerVars, FC!viewVars
    <3>2. Follows'
      BY <2>3, StillFollows
    <3> QED
      BY <3>1, <3>2
  <2> QED
    BY <2>1, <2>2, <2>3 DEF Next
<1> QED
  BY <1>1, <1>2, InvariantHolds, PTL DEF Spec

\* FloorControlSteps implements FloorControl when handlers exclude each other: each
\* handler, with the revocations and the callbacks into MultiConf that it nests, has
\* the effect at its end that FloorControl gives in closed form.
THEOREM StepsRefine == ASSUME Serial PROVE Spec => ImplementsFloorControl
  BY FollowsHolds, PTL DEF ImplementsFloorControl, FC!Spec

-----------------------------------------------------------------------------
(* What FloorControl promises holds here when no handler runs.             *)

\* FloorControl and its theorems, about the state when the last handler ended
FP == INSTANCE FloorControlProofs WITH
        lastUser <- committed.lastUser, users <- committed.users,
        chairs <- committed.chairs, chairId <- committed.chairId,
        requests <- committed.requests, counter <- committed.counter,
        ending <- committed.ending, queried <- committed.queried,
        transport <- committed.transport, conn <- committed.conn,
        presenterId <- committed.presenterId, editorId <- committed.editorId,
        answered <- committed.answered, told <- committed.told

\* FloorControl, about the state as it is
Now == INSTANCE FloorControl WITH requests <- Ongoing

\* FP and FC name the same specification.
LEMMA SameSpec == FC!Spec => FP!Spec
<1>1. FP!UserId = UserId /\ FC!UserId = UserId
  BY DEF FP!UserId, FC!UserId, UserId
<1>2. FC!Init => FP!Init
  BY DEF FC!Init, FP!Init, FC!UserId, FP!UserId, FC!Nobody, FP!Nobody
<1>3. FC!Next => FP!Next
  BY <1>1
     DEF FC!Next, FP!Next,
         FC!AddUser, FC!End, FC!RemoveUser, FC!SetChair, FC!onClose, FC!UserConnected,
         FC!DisconnectUser, FC!ProcessFloorRequest, FC!ProcessFloorRelease, FC!ProcessFloorQuery,
         FC!GrantedRequest, FC!SharingAFloor, FC!DropsEditor, FC!Released, FC!AfterRelease,
         FC!Connected, FC!Reports, FC!Notified, FC!EndRequests, FC!RevokeUserFloorRequests,
         FC!ClosedByServer, FC!CloseTransport, FC!Delivers, FC!IsAuthorised, FC!RevokedForGrant,
         FC!GrantFloorRequest, FC!serverVars, FC!linkVars, FC!mixerVars, FC!viewVars, FC!Nobody,
         FC!Presenter, FC!Editor, FC!UserId,
         FP!AddUser, FP!End, FP!RemoveUser, FP!SetChair, FP!onClose, FP!UserConnected,
         FP!DisconnectUser, FP!ProcessFloorRequest, FP!ProcessFloorRelease, FP!ProcessFloorQuery,
         FP!GrantedRequest, FP!SharingAFloor, FP!DropsEditor, FP!Released, FP!AfterRelease,
         FP!Connected, FP!Reports, FP!Notified, FP!EndRequests, FP!RevokeUserFloorRequests,
         FP!ClosedByServer, FP!CloseTransport, FP!Delivers, FP!IsAuthorised, FP!RevokedForGrant,
         FP!GrantFloorRequest, FP!serverVars, FP!linkVars, FP!mixerVars, FP!viewVars, FP!Nobody,
         FP!Presenter, FP!Editor, FP!UserId
<1>4. UNCHANGED FC!vars => UNCHANGED FP!vars
  BY DEF FP!vars, FP!serverVars, FP!linkVars, FP!mixerVars, FP!viewVars,
         FC!vars, FC!serverVars, FC!linkVars, FC!mixerVars, FC!viewVars
<1> QED
  BY <1>2, <1>3, <1>4, PTL DEF FC!Spec, FP!Spec

\* What FloorControlProofs proves, of the state when the last handler ended
LEMMA PromisesKept ==
    ASSUME Serial
    PROVE  Spec => []( /\ FP!OneGrantPerFloor /\ FP!MixerFollowsFloors /\ FP!BeneficiariesAreUsers
                       /\ FP!TransportIsTheLiveConnection /\ FP!SubscribersInSync )
<1> USE BoundsAssumption, ConnAssumption, MessageAssumption
    DEF FP!Floor, Floor, FP!Presenter, FP!Editor, Presenter, Editor
<1>1. FP!Spec => []FP!OneGrantPerFloor
  BY FP!OneGrant, Zenon
<1>2. FP!Spec => []FP!MixerFollowsFloors
  BY FP!MixerFollows, Zenon
<1>3. FP!Spec => []FP!BeneficiariesAreUsers
  BY FP!HoldersArePresent, Zenon
<1>4. FP!Spec => []FP!TransportIsTheLiveConnection
  BY FP!OneTransport, Zenon
<1>5. FP!Spec => []FP!SubscribersInSync
  BY FP!SubscribersCorrect, Zenon
<1> QED
  BY <1>1, <1>2, <1>3, <1>4, <1>5, StepsRefine, SameSpec, PTL DEF ImplementsFloorControl

\* When handlers exclude each other and none of them runs, the requests in the map,
\* the AppMixer, the transports and what the users were told agree: a floor has one
\* Granted request, the AppMixer names its beneficiary, who is in the conference, the
\* transport of a user is its live connection, and those who queried a floor know who
\* has it. All nested revocations and callbacks together restore this.
THEOREM PromisesAtRest ==
    ASSUME Serial
    PROVE  Spec => [](Idle => /\ Now!OneGrantPerFloor /\ Now!MixerFollowsFloors
                              /\ Now!BeneficiariesAreUsers /\ Now!TransportIsTheLiveConnection
                              /\ Now!SubscribersInSync)
<1>1. ASSUME Follows, Idle, FP!OneGrantPerFloor, FP!MixerFollowsFloors, FP!BeneficiariesAreUsers,
             FP!TransportIsTheLiveConnection, FP!SubscribersInSync
      PROVE  /\ Now!OneGrantPerFloor /\ Now!MixerFollowsFloors
             /\ Now!BeneficiariesAreUsers /\ Now!TransportIsTheLiveConnection
             /\ Now!SubscribersInSync
  <2>1. Here(committed)
    BY <1>1, SnapshotIsHere DEF Follows
  <2>2. Now!OneGrantPerFloor
    BY <1>1, <2>1 DEF Here, FP!OneGrantPerFloor, Now!OneGrantPerFloor, FP!HoldersOf, Now!HoldersOf,
       FP!Floor, Now!Floor, FP!Presenter, FP!Editor, Now!Presenter, Now!Editor
  <2>3. Now!MixerFollowsFloors
    BY <1>1, <2>1 DEF Here, FP!MixerFollowsFloors, Now!MixerFollowsFloors, FP!HeldBy, Now!HeldBy,
       FP!HoldersOf, Now!HoldersOf, FP!Presenter, FP!Editor, Now!Presenter, Now!Editor,
       FP!Nobody, Now!Nobody
  <2>4. Now!BeneficiariesAreUsers
    BY <1>1, <2>1 DEF Here, FP!BeneficiariesAreUsers, Now!BeneficiariesAreUsers
  <2>5. Now!TransportIsTheLiveConnection
    BY <1>1, <2>1 DEF Here, FP!TransportIsTheLiveConnection, Now!TransportIsTheLiveConnection,
       FP!LiveConnections, Now!LiveConnections
  <2>6. Now!SubscribersInSync
    BY <1>1, <2>1 DEF Here, FP!SubscribersInSync, Now!SubscribersInSync, FP!Connected, Now!Connected,
       FP!Reports, Now!Reports
  <2> QED
    BY <2>2, <2>3, <2>4, <2>5, <2>6
<1> QED
  BY <1>1, FollowsHolds, PromisesKept, PTL

\* From the end of one handler to the end of the next, a change of presenter leaves no
\* Editor grant behind.
THEOREM PresenterChangesAtRest == ASSUME Serial PROVE Spec => FC!PresenterChangeDropsEditor
<1>1. FP!Spec => FP!PresenterChangeDropsEditor
  BY FP!PresenterChange, BoundsAssumption, ConnAssumption, MessageAssumption, Zenon
     DEF FP!Floor, Floor, FP!Presenter, FP!Editor, Presenter, Editor
<1>2. FP!PresenterChangeDropsEditor <=> FC!PresenterChangeDropsEditor
  BY PTL DEF FP!PresenterChangeDropsEditor, FC!PresenterChangeDropsEditor, FP!Editor, FC!Editor,
     FP!vars, FP!serverVars, FP!linkVars, FP!mixerVars, FP!viewVars,
     FC!vars, FC!serverVars, FC!linkVars, FC!mixerVars, FC!viewVars
<1> QED
  BY <1>1, <1>2, StepsRefine, SameSpec, PTL DEF ImplementsFloorControl

=============================================================================
