------------------------- MODULE FloorControlSteps -------------------------
(***************************************************************************)
(* The floor control of one conference, call by call.                      *)
(*                                                                         *)
(* Handlers run on the thread of each WebSocket connection and on the      *)
(* threads of the XML-RPC server, here `control'. Each thread has the list *)
(* of the calls it has still to make (todo); a step makes one of them: a   *)
(* lookup with its test, the change of status of a request with its        *)
(* notifications, a callback into MultiConf. Calls that a call makes are   *)
(* put in front of the rest, so the nested revocations of the code are     *)
(* executed here in its order.                                             *)
(*                                                                         *)
(* The map of FloorRequests has no lock in the code: with Serial = FALSE   *)
(* the handlers of different threads interleave, and two requests may be   *)
(* granted one floor; with Serial = TRUE a handler starts when no other is *)
(* running, and the module implements FloorControl, each handler taking    *)
(* effect when it ends (committed).                                        *)
(***************************************************************************)
EXTENDS Integers, Sequences

CONSTANTS MaxUser, MaxRequest, Conn, NoConn, Requested, Queried,
          control,   \* the thread of XML-RPC calls
          Serial     \* whether handlers exclude each other

ASSUME SerialAssumption == Serial \in BOOLEAN /\ control \notin Conn
ASSUME BoundsAssumption == MaxUser \in Nat /\ MaxRequest \in Nat
ASSUME ConnAssumption == NoConn \notin Conn

Presenter == 1
Editor    == 2
Floor     == {Presenter, Editor}
UserId    == 1 .. MaxUser
Nobody    == 0
Thread    == Conn \union {control}

ASSUME MessageAssumption == Requested \subseteq SUBSET Floor /\ Queried \subseteq SUBSET Floor

VARIABLES
    lastUser, users, chairs, chairId, counter, ending, queried, transport,
    conn, presenterId, editorId, answered, told,   \* as in FloorControl
    floorRequests,  \* the map: requests with their status
    heap,           \* requests allocated and not deleted
    todo,           \* calls each thread has still to make
    committed       \* the state when the last handler ended

shared == <<lastUser, users, chairs, chairId, counter, ending, queried, transport,
            conn, presenterId, editorId, answered, told, floorRequests, heap>>
vars == <<shared, todo, committed>>

Ongoing == {[id |-> r.id, user |-> r.user, beneficiary |-> r.beneficiary,
             floors |-> r.floors] : r \in floorRequests}

Snapshot ==
    [lastUser |-> lastUser, users |-> users, chairs |-> chairs, chairId |-> chairId,
     requests |-> Ongoing, counter |-> counter, ending |-> ending, queried |-> queried,
     transport |-> transport, conn |-> conn, presenterId |-> presenterId,
     editorId |-> editorId, answered |-> answered, told |-> told]

Init ==
    /\ lastUser = 0
    /\ users = {} /\ chairs = {} /\ chairId = Nobody
    /\ floorRequests = {} /\ heap = {} /\ counter = 1 /\ ending = FALSE
    /\ queried = [u \in UserId |-> {}]
    /\ transport = [u \in UserId |-> NoConn]
    /\ conn = [c \in Conn |-> [user |-> Nobody, state |-> "new", closedByServer |-> FALSE]]
    /\ presenterId = Nobody /\ editorId = Nobody
    /\ answered = [u \in UserId |-> {}]
    /\ told = [u \in UserId |-> {}]
    /\ todo = [t \in Thread |-> <<>>]
    /\ committed = Snapshot

-----------------------------------------------------------------------------

Call(op, arg) == [op |-> op, arg |-> arg]

\* The loop over ids that were collected, from the least one on.
Loop(op, ids) == IF ids = {} THEN <<>> ELSE <<Call(op, ids)>>
IsLeast(id, ids) == id \in ids /\ \A i \in ids : id =< i

\* The request with an id, as a set with at most one element (GetFloorRequest).
GetFloorRequest(id) == {r \in floorRequests : r.id = id}
Ids(rs) == {r.id : r \in rs}
IsGranted(r) == r.status = "Granted"
IsUndecided(r) == r.status = "Pending"

\* GetGrantedFloorRequestId: the first Granted request of a floor.
GrantedIds(f) ==
    LET ids == Ids({r \in floorRequests : IsGranted(r) /\ f \in r.floors})
    IN  {i \in ids : ~ ending /\ \A j \in ids : i =< j}

\* The thread has made its first call, and makes `calls' before the rest.
MakesCalls(t, calls) == todo' = [todo EXCEPT ![t] = calls \o Tail(todo[t])]
Returns(t) == MakesCalls(t, <<>>)

\* NotifyForFloorRequest, for the users with a transport that queried its floors.
Notify(r) ==
    told' = [v \in UserId |->
        LET reports == (r.floors \intersect queried[v]) \X {r.id}
        IN  IF v \notin users \/ transport[v] = NoConn THEN told[v]
            ELSE IF IsGranted(r) THEN told[v] \union reports ELSE told[v] \ reports]

\* The transport of u is gone, and with it what was reported on it.
ForgetReports(u) ==
    /\ told' = [told EXCEPT ![u] = {}]
    /\ answered' = [answered EXCEPT ![u] = {}]

-----------------------------------------------------------------------------
(* Requests.                                                               *)

GrantFloorRequest(t, id) ==
    /\ MakesCalls(t, IF ending \/ ~ \E r \in GetFloorRequest(id) : IsUndecided(r)
                     THEN <<>>
                     ELSE LET new == CHOOSE r \in GetFloorRequest(id) : TRUE
                          IN  Loop("revokeIfGranted",
                                   Ids({r \in floorRequests : r.floors \intersect new.floors # {}}))
                              \o <<Call("setGranted", new)>>)
    /\ UNCHANGED shared

\* The loop of GrantFloorRequest, over pointers it collected: a request revoked
\* meanwhile by the listener is not Granted any more.
RevokeIfGranted(t, ids) ==
    \E id \in ids :
       /\ IsLeast(id, ids)
       /\ MakesCalls(t, (IF \E r \in GetFloorRequest(id) : IsGranted(r)
                         THEN <<Call("revoke", id)>> ELSE <<>>)
                        \o Loop("revokeIfGranted", ids \ {id}))
       /\ UNCHANGED shared

SetGranted(t, old) ==
    LET new == [old EXCEPT !.status = "Granted"]
    IN  /\ floorRequests' = IF old \in floorRequests
                            THEN (floorRequests \ {old}) \union {new} ELSE floorRequests
        /\ Notify(new)
        /\ MakesCalls(t, <<Call("onFloorGranted", new)>>)
        /\ UNCHANGED <<lastUser, users, chairs, chairId, counter, ending, queried,
                       transport, conn, presenterId, editorId, answered, heap>>

\* DenyFloorRequest reports the end of an undecided request and deletes it.
DenyFloorRequest(t, id) ==
    /\ LET mine == {r \in GetFloorRequest(id) : IsUndecided(r)}
       IN  /\ floorRequests' = floorRequests \ mine
           /\ heap' = heap \ Ids(mine)
           /\ IF mine = {} THEN UNCHANGED told
              ELSE \E r \in mine : Notify([r EXCEPT !.status = "Denied"])
    /\ Returns(t)
    /\ UNCHANGED <<lastUser, users, chairs, chairId, counter, ending, queried,
                   transport, conn, presenterId, editorId, answered>>

\* Mutant: the object is deleted after it was erased.
EndAndDelete(t, r, tellListener) ==
    /\ floorRequests' = floorRequests \ {r}
    /\ heap' = heap \ {r.id}
    /\ Notify([r EXCEPT !.status = "Revoked"])
    /\ MakesCalls(t, IF tellListener THEN <<Call("onFloorReleased", r)>> ELSE <<>>)
    /\ UNCHANGED <<lastUser, users, chairs, chairId, counter, ending, queried,
                   transport, conn, presenterId, editorId, answered>>

\* A request ends: it is reported, leaves the map, and the listener is told. Its
\* object is deleted only if the map still has it, which it never has.
EndRequest(t, r, tellListener) ==
    /\ floorRequests' = floorRequests \ {r}
    /\ Notify([r EXCEPT !.status = "Revoked"])
    /\ MakesCalls(t, IF tellListener THEN <<Call("onFloorReleased", r)>> ELSE <<>>)
    /\ UNCHANGED <<lastUser, users, chairs, chairId, counter, ending, queried,
                   transport, conn, presenterId, editorId, answered, heap>>

RevokeFloorRequest(t, id) ==
    \/ \E r \in GetFloorRequest(id) : IsGranted(r) /\ EndRequest(t, r, ~ ending)
    \/ /\ ~ \E r \in GetFloorRequest(id) : IsGranted(r)
       /\ Returns(t) /\ UNCHANGED shared

\* RevokeUserFloorRequests collects the ids and looks each up again; so does End.
RevokeUserFloorRequests(t, u) ==
    /\ MakesCalls(t, Loop("revokeOrDeny", Ids({r \in floorRequests : r.beneficiary = u})))
    /\ UNCHANGED shared

RevokeOrDeny(t, ids) ==
    \E id \in ids :
       /\ IsLeast(id, ids)
       /\ MakesCalls(t, (IF GetFloorRequest(id) = {} THEN <<>>
                         ELSE IF \E r \in GetFloorRequest(id) : IsGranted(r)
                              THEN <<Call("revoke", id)>> ELSE <<Call("deny", id)>>)
                        \o Loop("revokeOrDeny", ids \ {id}))
       /\ UNCHANGED shared

-----------------------------------------------------------------------------
(* The listener, MultiConf, and the AppMixer.                              *)

\* Mutant: a request that is not granted is left alone.
GrantOrIgnore(t, r) ==
    /\ MakesCalls(t, IF r.user = chairId \/ r.user = presenterId
                     THEN <<Call("grant", r.id)>> ELSE <<>>)
    /\ UNCHANGED shared

onFloorRequest(t, r) ==
    /\ MakesCalls(t, IF r.user = chairId \/ r.user = presenterId
                     THEN <<Call("grant", r.id)>> ELSE <<Call("deny", r.id)>>)
    /\ UNCHANGED shared

\* Mutant: the Editor floor stays when the presenter changes.
OnFloorChangeOnly(t, floors, holder) ==
    /\ presenterId' = IF Presenter \in floors THEN holder ELSE presenterId
    /\ MakesCalls(t, IF Editor \in floors THEN <<Call("setEditor", holder)>> ELSE <<>>)
    /\ UNCHANGED <<lastUser, users, chairs, chairId, counter, ending, queried, transport,
                   conn, editorId, answered, told, floorRequests, heap>>

\* Both callbacks set the presenter first, then revoke the Editor request if the
\* floors do not include the Editor floor, then set the editor.
OnFloorChange(t, floors, holder) ==
    /\ presenterId' = IF Presenter \in floors THEN holder ELSE presenterId
    /\ MakesCalls(t, IF Editor \in floors THEN <<Call("setEditor", holder)>>
                     ELSE IF Presenter \in floors THEN <<Call("revokeEditor", Nobody)>>
                     ELSE <<>>)
    /\ UNCHANGED <<lastUser, users, chairs, chairId, counter, ending, queried, transport,
                   conn, editorId, answered, told, floorRequests, heap>>

onFloorGranted(t, r) == OnFloorChange(t, r.floors, r.beneficiary)
onFloorReleased(t, r) == OnFloorChange(t, r.floors, Nobody)

RevokeEditor(t) ==
    /\ \/ \E id \in GrantedIds(Editor) : MakesCalls(t, <<Call("revoke", id)>>)
       \/ GrantedIds(Editor) = {} /\ Returns(t)
    /\ UNCHANGED shared

SetEditor(t, holder) ==
    /\ editorId' = holder
    /\ Returns(t)
    /\ UNCHANGED <<lastUser, users, chairs, chairId, counter, ending, queried, transport,
                   conn, presenterId, answered, told, floorRequests, heap>>

-----------------------------------------------------------------------------
(* Participants and the chair (XML-RPC).                                   *)

AddUser(t) ==
    /\ IF ending \/ lastUser = MaxUser THEN UNCHANGED <<lastUser, users>>
       ELSE lastUser' = lastUser + 1 /\ users' = users \union {lastUser + 1}
    /\ Returns(t)
    /\ UNCHANGED <<chairs, chairId, counter, ending, queried, transport, conn, presenterId,
                   editorId, answered, told, floorRequests, heap>>

\* The user leaves the map before its requests are revoked.
RemoveUser(t, u) ==
    /\ IF ending \/ u \notin users THEN UNCHANGED <<users, chairs>> /\ Returns(t)
       ELSE /\ users' = users \ {u} /\ chairs' = chairs \ {u}
            /\ MakesCalls(t, <<Call("revokeUser", u), Call("closeTransport", u)>>)
    /\ UNCHANGED <<lastUser, chairId, counter, ending, queried, transport, conn, presenterId,
                   editorId, answered, told, floorRequests, heap>>

\* MultiConf::SetChair stores the id; the server's SetChair may then refuse it.
SetChair(t, u) ==
    /\ chairId' = u
    /\ MakesCalls(t, <<Call("serverSetChair", u)>>)
    /\ UNCHANGED <<lastUser, users, chairs, counter, ending, queried, transport, conn,
                   presenterId, editorId, answered, told, floorRequests, heap>>

ServerSetChair(t, u) ==
    /\ chairs' = IF ~ ending /\ u \in users THEN {u} ELSE chairs
    /\ Returns(t)
    /\ UNCHANGED <<lastUser, users, chairId, counter, ending, queried, transport, conn,
                   presenterId, editorId, answered, told, floorRequests, heap>>

\* End empties the map of requests one by one, then the map of users.
End(t) ==
    /\ ending' = TRUE
    /\ MakesCalls(t, IF ending THEN <<>> ELSE <<Call("endNext", Nobody)>>)
    /\ UNCHANGED <<lastUser, users, chairs, chairId, counter, queried, transport, conn,
                   presenterId, editorId, answered, told, floorRequests, heap>>

\* Mutant: the request stays in the map, and is found again.
EndNextFirst(t) ==
    /\ floorRequests # {}
    /\ MakesCalls(t, <<Call("endNext", Nobody)>>)
    /\ UNCHANGED shared

EndNext(t) ==
    \/ /\ floorRequests # {}
       /\ \E r \in floorRequests :
             /\ \A s \in floorRequests : r.id =< s.id
             /\ MakesCalls(t, <<Call("revokeOrDeny", {r.id}), Call("endNext", Nobody)>>)
       /\ UNCHANGED shared
    \/ /\ floorRequests = {}
       /\ Returns(t)
       /\ users' = {} /\ chairs' = {}
       /\ conn' = [c \in Conn |-> IF \E u \in users : transport[u] = c
                                  THEN [conn[c] EXCEPT !.closedByServer = TRUE] ELSE conn[c]]
       /\ transport' = [u \in UserId |-> NoConn]
       /\ answered' = [u \in UserId |-> {}]
       /\ told' = [u \in UserId |-> {}]
       /\ UNCHANGED <<lastUser, chairId, counter, ending, queried, presenterId, editorId,
                      floorRequests, heap>>

-----------------------------------------------------------------------------
(* Connections.                                                            *)

CloseTransport(t, u) ==
    /\ transport' = [transport EXCEPT ![u] = NoConn]
    /\ conn' = [c \in Conn |-> IF c = transport[u]
                               THEN [conn[c] EXCEPT !.closedByServer = TRUE] ELSE conn[c]]
    /\ ForgetReports(u)
    /\ Returns(t)
    /\ UNCHANGED <<lastUser, users, chairs, chairId, counter, ending, queried, presenterId,
                   editorId, floorRequests, heap>>

\* The reset that UserConnected and DisconnectUser begin with.
ResetUser(t, u, rest) ==
    /\ queried' = [queried EXCEPT ![u] = {}]
    /\ MakesCalls(t, <<Call("revokeUser", u), Call("closeTransport", u)>> \o rest)
    /\ UNCHANGED <<lastUser, users, chairs, chairId, counter, ending, transport, conn,
                   presenterId, editorId, answered, told, floorRequests, heap>>

\* Mutant: a user that connects again keeps its requests.
ConnectedAgain(t, u) ==
    LET attach == <<Call("setTransport", u), Call("accept", u)>>
    IN  /\ MakesCalls(t, IF ending \/ u \notin users THEN <<>>
                         ELSE IF transport[u] = NoConn THEN attach
                         ELSE <<Call("closeTransport", u)>> \o attach)
        /\ UNCHANGED shared

UserConnected(t, u) ==
    LET attach == <<Call("setTransport", u), Call("accept", u)>>
    IN  \/ /\ ending \/ u \notin users
           /\ Returns(t) /\ UNCHANGED shared
        \/ /\ ~ ending /\ u \in users /\ transport[u] # NoConn
           /\ ResetUser(t, u, attach)
        \/ /\ ~ ending /\ u \in users /\ transport[u] = NoConn
           /\ MakesCalls(t, attach) /\ UNCHANGED shared

SetTransport(t, u) ==
    /\ transport' = [transport EXCEPT ![u] = t]
    /\ Returns(t)
    /\ UNCHANGED <<lastUser, users, chairs, chairId, counter, ending, queried, conn,
                   presenterId, editorId, answered, told, floorRequests, heap>>

\* SetUserData and Accept, once the transport is in place.
Accept(t, u) ==
    /\ conn' = [conn EXCEPT ![t] = [user |-> u, state |-> "open", closedByServer |-> FALSE]]
    /\ Returns(t)
    /\ UNCHANGED <<lastUser, users, chairs, chairId, counter, ending, queried, transport,
                   presenterId, editorId, answered, told, floorRequests, heap>>

\* onClose reads closedByServer and deletes the connection's data, then calls
\* UserDisconnected with what it read.
onClose(t, u) ==
    /\ conn' = [conn EXCEPT ![t].state = "closed"]
    /\ MakesCalls(t, IF conn[t].closedByServer THEN <<>> ELSE <<Call("userDisconnected", u)>>)
    /\ UNCHANGED <<lastUser, users, chairs, chairId, counter, ending, queried, transport,
                   presenterId, editorId, answered, told, floorRequests, heap>>

UserDisconnected(t, u) ==
    \/ /\ u \notin users
       /\ Returns(t) /\ UNCHANGED shared
    \/ /\ u \in users
       /\ transport' = [transport EXCEPT ![u] = NoConn]
       /\ queried' = [queried EXCEPT ![u] = {}]
       /\ ForgetReports(u)
       /\ MakesCalls(t, IF ending THEN <<>> ELSE <<Call("revokeUser", u)>>)
       /\ UNCHANGED <<lastUser, users, chairs, chairId, counter, ending, conn, presenterId,
                      editorId, floorRequests, heap>>

DisconnectUser(t, u) ==
    \/ /\ ending \/ u \notin users
       /\ Returns(t) /\ UNCHANGED shared
    \/ /\ ~ ending /\ u \in users
       /\ ResetUser(t, u, <<>>)

-----------------------------------------------------------------------------
(* Messages, delivered on the thread of the connection. The argument m     *)
(* carries the sender and the fields of the message.                       *)

Refused(m) == ending \/ m.user \notin users

ProcessFloorRequest(t, m) ==
    \/ /\ Refused(m) \/ m.beneficiary \notin users \/ counter > MaxRequest
       /\ Returns(t) /\ UNCHANGED shared
    \/ /\ ~ Refused(m) /\ m.beneficiary \in users /\ counter =< MaxRequest
       /\ counter' = counter + 1
       /\ LET new == [id |-> counter, user |-> m.user, beneficiary |-> m.beneficiary,
                      floors |-> m.floors, status |-> "Pending"]
          IN  /\ floorRequests' = floorRequests \union {new}
              /\ heap' = heap \union {counter}
              /\ MakesCalls(t, IF m.user \in chairs THEN <<Call("grant", counter)>>
                               ELSE <<Call("onFloorRequest", new)>>)
       /\ UNCHANGED <<lastUser, users, chairs, chairId, ending, queried, transport, conn,
                      presenterId, editorId, answered, told>>

\* The sender, the beneficiary or a chair may release; the listener hears of it
\* if the request was Granted.
ProcessFloorRelease(t, m) ==
    LET may == {r \in GetFloorRequest(m.id) :
                   ~ Refused(m) /\ m.user \in {r.user, r.beneficiary} \union chairs}
    IN  \/ \E r \in may : EndRequest(t, r, IsGranted(r))
        \/ /\ may = {}
           /\ Returns(t) /\ UNCHANGED shared

ProcessFloorQuery(t, m) ==
    /\ IF Refused(m) THEN UNCHANGED <<queried, answered, told>>
       ELSE /\ queried' = [queried EXCEPT ![m.user] = m.floors]
            /\ IF transport[m.user] = NoConn THEN UNCHANGED <<answered, told>>
               ELSE /\ answered' = [answered EXCEPT ![m.user] = m.floors]
                    /\ told' = [told EXCEPT ![m.user] =
                          UNION {(r.floors \intersect m.floors) \X {r.id} :
                                    r \in {s \in floorRequests : IsGranted(s)}}]
    /\ Returns(t)
    /\ UNCHANGED <<lastUser, users, chairs, chairId, counter, ending, transport, conn,
                   presenterId, editorId, floorRequests, heap>>

-----------------------------------------------------------------------------

Commits == committed' = IF \A t \in Thread : todo'[t] = <<>> THEN Snapshot' ELSE committed

\* A thread that is idle starts a handler: its first call.
Starts(t, call) ==
    /\ todo[t] = <<>>
    /\ Serial => \A x \in Thread : todo[x] = <<>>
    /\ todo' = [todo EXCEPT ![t] = <<call>>]
    /\ UNCHANGED <<shared, committed>>

Administer ==
    \/ lastUser < MaxUser /\ ~ ending /\ Starts(control, Call("addUser", Nobody))
    \/ \E u \in users : Starts(control, Call("removeUser", u))
    \/ \E u \in UserId : ~ ending /\ Starts(control, Call("setChair", u))
    \/ ~ ending /\ Starts(control, Call("end", Nobody))

Connect(c) ==
    /\ conn[c].state = "new"
    /\ \E u \in users : Starts(c, Call("userConnected", u))

\* The connection delivers a message, an invalid one, or ends.
Receive(c) ==
    LET u == conn[c].user
    IN  /\ conn[c].state = "open"
        /\ \/ Starts(c, Call("onClose", u))
           \/ Starts(c, Call("disconnectUser", u))
           \/ /\ u \in users
              /\ \/ /\ counter =< MaxRequest
                    /\ \E b \in UserId, fs \in Requested :
                          Starts(c, Call("floorRequest", [user |-> u, beneficiary |-> b, floors |-> fs]))
                 \/ \E r \in floorRequests : Starts(c, Call("floorRelease", [user |-> u, id |-> r.id]))
                 \/ \E fs \in Queried : Starts(c, Call("floorQuery", [user |-> u, floors |-> fs]))

Makes(t, op) == todo[t] # <<>> /\ Head(todo[t]).op = op
Arg(t) == Head(todo[t]).arg

Step(t) ==
    \/ Makes(t, "grant") /\ GrantFloorRequest(t, Arg(t))
    \/ Makes(t, "revokeIfGranted") /\ RevokeIfGranted(t, Arg(t))
    \/ Makes(t, "setGranted") /\ SetGranted(t, Arg(t))
    \/ Makes(t, "deny") /\ DenyFloorRequest(t, Arg(t))
    \/ Makes(t, "revoke") /\ RevokeFloorRequest(t, Arg(t))
    \/ Makes(t, "revokeUser") /\ RevokeUserFloorRequests(t, Arg(t))
    \/ Makes(t, "revokeOrDeny") /\ RevokeOrDeny(t, Arg(t))
    \/ Makes(t, "onFloorRequest") /\ onFloorRequest(t, Arg(t))
    \/ Makes(t, "onFloorGranted") /\ onFloorGranted(t, Arg(t))
    \/ Makes(t, "onFloorReleased") /\ onFloorReleased(t, Arg(t))
    \/ Makes(t, "revokeEditor") /\ RevokeEditor(t)
    \/ Makes(t, "setEditor") /\ SetEditor(t, Arg(t))
    \/ Makes(t, "addUser") /\ AddUser(t)
    \/ Makes(t, "removeUser") /\ RemoveUser(t, Arg(t))
    \/ Makes(t, "setChair") /\ SetChair(t, Arg(t))
    \/ Makes(t, "serverSetChair") /\ ServerSetChair(t, Arg(t))
    \/ Makes(t, "end") /\ End(t)
    \/ Makes(t, "endNext") /\ EndNext(t)
    \/ Makes(t, "closeTransport") /\ CloseTransport(t, Arg(t))
    \/ Makes(t, "userConnected") /\ UserConnected(t, Arg(t))
    \/ Makes(t, "setTransport") /\ SetTransport(t, Arg(t))
    \/ Makes(t, "accept") /\ Accept(t, Arg(t))
    \/ Makes(t, "onClose") /\ onClose(t, Arg(t))
    \/ Makes(t, "userDisconnected") /\ UserDisconnected(t, Arg(t))
    \/ Makes(t, "disconnectUser") /\ DisconnectUser(t, Arg(t))
    \/ Makes(t, "floorRequest") /\ ProcessFloorRequest(t, Arg(t))
    \/ Makes(t, "floorRelease") /\ ProcessFloorRelease(t, Arg(t))
    \/ Makes(t, "floorQuery") /\ ProcessFloorQuery(t, Arg(t))

Next ==
    \/ Administer
    \/ \E c \in Conn : Connect(c) \/ Receive(c)
    \/ \E t \in Thread : Step(t) /\ Commits

\* Threads that are in a handler keep running.
Spec == Init /\ [][Next]_vars
FairSpec == Spec /\ \A t \in Thread : WF_vars(Step(t) /\ Commits)

-----------------------------------------------------------------------------
(* Properties.                                                             *)

Idle == \A t \in Thread : todo[t] = <<>>

FC == INSTANCE FloorControl WITH
        lastUser <- committed.lastUser, users <- committed.users,
        chairs <- committed.chairs, chairId <- committed.chairId,
        requests <- committed.requests, counter <- committed.counter,
        ending <- committed.ending, queried <- committed.queried,
        transport <- committed.transport, conn <- committed.conn,
        presenterId <- committed.presenterId, editorId <- committed.editorId,
        answered <- committed.answered, told <- committed.told

\* When handlers exclude each other, each of them with all its nested callbacks
\* has the effect that FloorControl gives in closed form.
ImplementsFloorControl == FC!Spec

\* The pointers that GrantFloorRequest keeps in floorRequestsToRevoke, and the one
\* to the request it grants, point to live objects although the listener revokes
\* requests meanwhile.
NoDanglingRequest ==
    \A t \in Thread :
        /\ Makes(t, "revokeIfGranted") => Arg(t) \subseteq heap
        /\ Makes(t, "setGranted") => Arg(t).id \in heap

\* When the server is idle every ongoing request has been decided, so only
\* Granted requests stay in the map.
EveryRequestDecided == Idle => \A r \in floorRequests : IsGranted(r)

\* The nested calls of a handler come to an end: a thread returns to its
\* connection, End's loop empties the map.
HandlersEnd == \A t \in Thread : (todo[t] # <<>>) ~> (todo[t] = <<>>)

=============================================================================
