---------------------------- MODULE FloorControl ----------------------------
(***************************************************************************)
(* The BFCP floor control of one conference, one handler at a time.        *)
(*                                                                         *)
(* Four pieces of the server share the state below:                        *)
(*   - BFCPFloorControlServer (mcu/src/bfcp/BFCPFloorControlServer.cpp):   *)
(*     users, their chair flag, subscriptions and transport, and the map   *)
(*     of ongoing FloorRequests;                                           *)
(*   - MultiConf (mcu/src/multiconf.cpp), the listener ("the chair" in the *)
(*     comments) that decides requests and calls back into the server      *)
(*     from onFloorGranted and onFloorReleased;                            *)
(*   - AppMixer (mcu/src/appmixer.cpp): who presents, who edits;           *)
(*   - BFCP and BFCPUser (mcu/src/bfcp.cpp, bfcp/BFCPUser.cpp): the        *)
(*     WebSocket connections and the closedByServer flag of each.          *)
(*                                                                         *)
(* Every action is a whole handler with the callbacks it triggers, so that *)
(* a FloorRequest is decided in the step that creates it and `requests'    *)
(* holds Granted ones. The nested revocations are given in closed form;    *)
(* FloorControlSteps executes them call by call and is shown to implement  *)
(* this module when handlers do not overlap.                               *)
(*                                                                         *)
(* A message that the server answers with a BFCP Error changes nothing and *)
(* is a stuttering step.                                                   *)
(***************************************************************************)
EXTENDS Integers, FiniteSets

CONSTANTS
    MaxUser,      \* participants ever created in the conference
    MaxRequest,   \* bound on floorRequestCounter
    Conn,         \* WebSocket connections
    NoConn,       \* the NULL transport
    Requested,    \* sets of floors that the FloorRequest messages ask for
    Queried       \* sets of floors that the FloorQuery messages ask for

ASSUME BoundsAssumption == MaxUser \in Nat /\ MaxRequest \in Nat
ASSUME ConnAssumption == NoConn \notin Conn

Presenter == 1    \* the two floors MultiConf::Init adds
Editor    == 2
Floor     == {Presenter, Editor}
UserId    == 1 .. MaxUser
Nobody    == 0
RequestId == 1 .. MaxRequest

ASSUME MessageAssumption == Requested \subseteq SUBSET Floor /\ Queried \subseteq SUBSET Floor

Request   == [id : RequestId, user : UserId, beneficiary : UserId, floors : SUBSET Floor]

VARIABLES
    lastUser,     \* the highest participant id created so far
    users,        \* BFCPFloorControlServer::users
    chairs,       \* users whose BFCPUser::isChair is set
    chairId,      \* MultiConf::chairId
    requests,     \* BFCPFloorControlServer::floorRequests
    counter,      \* floorRequestCounter
    ending,       \* BFCPFloorControlServer::ending
    queried,      \* BFCPUser::queriedFloorIds
    transport,    \* BFCPUser::transport
    conn,         \* per connection: its user, life cycle, closedByServer
    presenterId,  \* AppMixer::presenterId
    editorId,     \* AppMixer::editorId
    answered,     \* floors whose status was reported in full on the transport
    told          \* <<floor, request>> last reported as Granted on it

serverVars == <<users, chairs, requests, counter, ending>>
linkVars   == <<queried, transport, conn>>
mixerVars  == <<presenterId, editorId>>
viewVars   == <<answered, told>>
vars == <<lastUser, chairId, serverVars, linkVars, mixerVars, viewVars>>

ConnState == [user : UserId \union {Nobody}, state : {"new", "open", "closed"},
              closedByServer : BOOLEAN]

\* The shape of the state; the AppMixer names nobody or a participant, and a
\* chair flag is only looked up through the users map.
TypeOK ==
    /\ lastUser \in 0 .. MaxUser
    /\ users \subseteq UserId
    /\ chairs \subseteq users
    /\ chairId \in UserId \union {Nobody}
    /\ requests \subseteq Request
    /\ counter \in 1 .. MaxRequest + 1
    /\ ending \in BOOLEAN
    /\ queried \in [UserId -> SUBSET Floor]
    /\ transport \in [UserId -> Conn \union {NoConn}]
    /\ conn \in [Conn -> ConnState]
    /\ presenterId \in UserId \union {Nobody}
    /\ editorId \in UserId \union {Nobody}
    /\ answered \in [UserId -> SUBSET Floor]
    /\ told \in [UserId -> SUBSET (Floor \X RequestId)]

Init ==
    /\ lastUser = 0
    /\ users = {} /\ chairs = {} /\ chairId = Nobody
    /\ requests = {} /\ counter = 1 /\ ending = FALSE
    /\ queried = [u \in UserId |-> {}]
    /\ transport = [u \in UserId |-> NoConn]
    /\ conn = [c \in Conn |-> [user |-> Nobody, state |-> "new", closedByServer |-> FALSE]]
    /\ presenterId = Nobody /\ editorId = Nobody
    /\ answered = [u \in UserId |-> {}]
    /\ told = [u \in UserId |-> {}]

-----------------------------------------------------------------------------
(* Revocation and its consequences.                                        *)

\* GetGrantedFloorRequestId: the first of the requests rs that has floor f, as a
\* set with at most one element.
GrantedRequest(rs, f) ==
    {r \in rs : f \in r.floors /\ \A s \in rs : f \in s.floors => r.id =< s.id}

\* Mutant: only requests for exactly the same floors are found.
SharingSameFloors(rs, floors) == {r \in rs : r.floors = floors}

\* GetFloorRequestsForFloors.
SharingAFloor(rs, floors) == {r \in rs : r.floors \intersect floors # {}}

\* Mutant: the test for the Editor floor is inverted.
DropsEditorInverted(floors) == Presenter \in floors /\ Editor \in floors

\* onFloorGranted and onFloorReleased take the Editor floor away when the
\* Presenter floor changes hands in a request that does not hold both.
DropsEditor(floors) == Presenter \in floors /\ Editor \notin floors

\* All that leaves rs when the requests in gone are revoked or released and
\* onFloorReleased is called for each of them.
Released(rs, gone) ==
    gone \union IF \E r \in gone : DropsEditor(r.floors)
                THEN GrantedRequest(rs \ gone, Editor)
                ELSE {}

\* Mutant: the editor is not cleared.
AfterReleaseKeepsEditor(holder, gone, f) ==
    IF f # Editor /\ \E r \in gone : f \in r.floors THEN Nobody ELSE holder

\* onFloorReleased clears what the requests in gone held in the AppMixer.
AfterRelease(holder, gone, f) ==
    IF \E r \in gone : f \in r.floors THEN Nobody ELSE holder

Connected == {u \in users : transport[u] # NoConn}

\* FloorStatus reports about the requests rs for someone who queried floors q.
Reports(rs, q) == UNION {(r.floors \intersect q) \X {r.id} : r \in rs}

\* Mutant: the end of requests is not reported.
NotifiedOfGrants(kept, gone, added) ==
    [v \in UserId |->
        IF v \in kept THEN told[v] \union Reports(added, queried[v]) ELSE {}]

\* NotifyForFloorRequest: what the users in kept, who keep their transport, know
\* once gone was reported as ended and added as Granted.
Notified(kept, gone, added) ==
    [v \in UserId |->
        IF v \in kept
        THEN (told[v] \ Reports(gone, queried[v])) \union Reports(added, queried[v])
        ELSE {}]

\* The requests in gone, and those that fall with them, end; v loses its
\* transport unless it is in kept.
EndRequests(gone, kept) ==
    LET all == Released(requests, gone)
    IN  /\ requests' = requests \ all
        /\ presenterId' = AfterRelease(presenterId, all, Presenter)
        /\ editorId' = AfterRelease(editorId, all, Editor)
        /\ told' = Notified(kept, all, {})

\* Mutant: the requests are selected by who sent them.
RevokeSentFloorRequests(u) ==
    /\ EndRequests({r \in requests : r.user = u}, Connected \ {u})
    /\ answered' = [answered EXCEPT ![u] = {}]

\* RevokeUserFloorRequests, for a user about to lose its transport.
RevokeUserFloorRequests(u) ==
    /\ EndRequests({r \in requests : r.beneficiary = u}, Connected \ {u})
    /\ answered' = [answered EXCEPT ![u] = {}]

-----------------------------------------------------------------------------
(* Participants and the chair.                                             *)

\* MultiConf::CreateParticipant takes the next id and calls AddUser.
AddUser ==
    /\ ~ ending
    /\ lastUser < MaxUser
    /\ lastUser' = lastUser + 1
    /\ users' = users \union {lastUser + 1}
    /\ UNCHANGED <<chairs, chairId, requests, counter, ending, linkVars, mixerVars, viewVars>>

\* Mutant: the flag is not set.
ClosedUnflagged(cs) == [c \in Conn |-> conn[c]]

\* The connections in cs are closed with the closedByServer flag set.
ClosedByServer(cs) ==
    [c \in Conn |-> IF c \in cs THEN [conn[c] EXCEPT !.closedByServer = TRUE] ELSE conn[c]]

\* BFCPUser::CloseTransport.
CloseTransport(u) ==
    /\ transport' = [transport EXCEPT ![u] = NoConn]
    /\ conn' = ClosedByServer({transport[u]})

\* DestroyParticipant calls RemoveUser.
RemoveUser(u) ==
    /\ ~ ending
    /\ u \in users
    /\ users' = users \ {u}
    /\ chairs' = chairs \ {u}
    /\ RevokeUserFloorRequests(u)
    /\ CloseTransport(u)
    /\ UNCHANGED <<lastUser, chairId, counter, ending, queried>>

\* MultiConf::SetChair stores the id before it asks the floor server, which
\* refuses an id that is not a user.
SetChair(u) ==
    /\ ~ ending
    /\ chairId' = u
    /\ chairs' = IF u \in users THEN {u} ELSE chairs
    /\ UNCHANGED <<lastUser, users, requests, counter, ending, linkVars, mixerVars, viewVars>>

\* BFCP::RemoveConference ends the server: requests are revoked without telling
\* the listener, transports closed and users deleted.
End ==
    /\ ~ ending
    /\ ending' = TRUE
    /\ requests' = {} /\ users' = {} /\ chairs' = {}
    /\ transport' = [u \in UserId |-> NoConn]
    /\ conn' = ClosedByServer({transport[u] : u \in users})
    /\ answered' = [u \in UserId |-> {}]
    /\ told' = [u \in UserId |-> {}]
    /\ UNCHANGED <<lastUser, chairId, counter, queried, mixerVars>>

-----------------------------------------------------------------------------
(* Connections.                                                            *)

\* ConnectTransport and UserConnected: a user that is connected already is reset
\* and its previous connection closed before ws becomes its transport.
UserConnected(u, ws) ==
    /\ ~ ending
    /\ u \in users
    /\ conn[ws].state = "new"
    /\ transport' = [transport EXCEPT ![u] = ws]
    /\ conn' = [ClosedByServer({transport[u]}) EXCEPT
                  ![ws] = [user |-> u, state |-> "open", closedByServer |-> FALSE]]
    /\ \/ /\ u \in Connected
          /\ queried' = [queried EXCEPT ![u] = {}]
          /\ RevokeUserFloorRequests(u)
       \/ /\ u \notin Connected
          /\ UNCHANGED <<queried, requests, mixerVars, viewVars>>
    /\ UNCHANGED <<lastUser, chairId, users, chairs, counter, ending>>

\* onClose, at the end of the connection's thread. UserDisconnected does nothing
\* for a user that was removed, or that the server itself disconnected.
onClose(ws) ==
    LET u == conn[ws].user
    IN  /\ conn[ws].state = "open"
        /\ conn' = [conn EXCEPT ![ws].state = "closed"]
        /\ \/ /\ u \in users /\ ~ conn[ws].closedByServer
              /\ transport' = [transport EXCEPT ![u] = NoConn]
              /\ queried' = [queried EXCEPT ![u] = {}]
              /\ RevokeUserFloorRequests(u)
           \/ /\ u \notin users \/ conn[ws].closedByServer
              /\ UNCHANGED <<queried, transport, requests, mixerVars, viewVars>>
        /\ UNCHANGED <<lastUser, chairId, users, chairs, counter, ending>>

-----------------------------------------------------------------------------
(* Messages. A connection delivers messages until its thread ends, also    *)
(* after the server has queued the close frame: onMessageEnd does not look *)
(* at closedByServer.                                                      *)

Delivers(ws, u) ==
    /\ ~ ending
    /\ conn[ws].state = "open" /\ conn[ws].user = u
    /\ u \in users

\* onMessageEnd on an invalid message: DisconnectUser closes the transport that
\* the user has now, which need not be ws.
DisconnectUser(ws, u) ==
    /\ Delivers(ws, u)
    /\ queried' = [queried EXCEPT ![u] = {}]
    /\ RevokeUserFloorRequests(u)
    /\ CloseTransport(u)
    /\ UNCHANGED <<lastUser, chairId, users, chairs, counter, ending>>

\* ProcessFloorRequest grants the request of a chair; otherwise onFloorRequest
\* grants the requests of chairId and of the presenter.
IsAuthorised(u) == u \in chairs \/ u = chairId \/ u = presenterId

\* GrantFloorRequest: the requests that share a floor are revoked with their
\* cascade, and onFloorGranted revokes the Editor request when it has to.
RevokedForGrant(new) ==
    LET all == Released(requests, SharingAFloor(requests, new.floors))
    IN  IF DropsEditor(new.floors)
        THEN all \union GrantedRequest(requests \ all, Editor)
        ELSE all

GrantFloorRequest(new) ==
    LET all == RevokedForGrant(new)
    IN  /\ requests' = (requests \ all) \union {new}
        /\ presenterId' = IF Presenter \in new.floors THEN new.beneficiary
                          ELSE AfterRelease(presenterId, all, Presenter)
        /\ editorId' = IF Editor \in new.floors THEN new.beneficiary
                       ELSE AfterRelease(editorId, all, Editor)
        /\ told' = Notified(Connected, all, {new})

\* The floors and the beneficiary of the message exist. A denied request leaves
\* the map at once and was never reported.
ProcessFloorRequest(ws, u, beneficiary, floors) ==
    /\ Delivers(ws, u)
    /\ beneficiary \in users
    /\ counter =< MaxRequest
    /\ counter' = counter + 1
    /\ \/ /\ IsAuthorised(u)
          /\ GrantFloorRequest([id |-> counter, user |-> u,
                                beneficiary |-> beneficiary, floors |-> floors])
       \/ /\ ~ IsAuthorised(u)
          /\ UNCHANGED <<requests, mixerVars, told>>
    /\ UNCHANGED <<lastUser, chairId, users, chairs, ending, linkVars, answered>>

\* The sender of the request, its beneficiary or a chair releases it.
ProcessFloorRelease(ws, u, r) ==
    /\ Delivers(ws, u)
    /\ r \in requests
    /\ u \in {r.user, r.beneficiary} \union chairs
    /\ EndRequests({r}, Connected)
    /\ UNCHANGED <<lastUser, chairId, users, chairs, counter, ending, linkVars, answered>>

\* The subscription is replaced, and the status of each queried floor reported
\* to the transport the user has now, if any.
ProcessFloorQuery(ws, u, floors) ==
    /\ Delivers(ws, u)
    /\ queried' = [queried EXCEPT ![u] = floors]
    /\ \/ /\ u \in Connected
          /\ answered' = [answered EXCEPT ![u] = floors]
          /\ told' = [told EXCEPT ![u] = Reports(requests, floors)]
       \/ /\ u \notin Connected
          /\ UNCHANGED viewVars
    /\ UNCHANGED <<lastUser, chairId, serverVars, transport, conn, mixerVars>>

-----------------------------------------------------------------------------

Next ==
    \/ AddUser
    \/ End
    \/ \E u \in UserId : RemoveUser(u) \/ SetChair(u)
    \/ \E ws \in Conn : onClose(ws)
    \/ \E ws \in Conn, u \in UserId :
          \/ UserConnected(u, ws)
          \/ DisconnectUser(ws, u)
          \/ \E b \in UserId, fs \in Requested : ProcessFloorRequest(ws, u, b, fs)
          \/ \E r \in requests : ProcessFloorRelease(ws, u, r)
          \/ \E fs \in Queried : ProcessFloorQuery(ws, u, fs)

Spec == Init /\ [][Next]_vars

-----------------------------------------------------------------------------
(* Properties.                                                             *)

HoldersOf(rs, f) == {r \in rs : f \in r.floors}

\* A floor is held through one request at a time: GrantFloorRequest has revoked
\* every other one, whatever the listener revoked meanwhile. This is the "can
\* only be one" of GetGrantedFloorRequestId.
OneGrantPerFloor ==
    \A f \in Floor : \A r, s \in HoldersOf(requests, f) : r = s

\* The AppMixer's presenter and editor are the beneficiaries of the requests that
\* hold the two floors, and nobody when nobody holds them, through all the
\* revocations nested in a grant. (End does not tell the listener.)
HeldBy(rs, holder, f) ==
    IF HoldersOf(rs, f) = {} THEN holder = Nobody
    ELSE \A r \in HoldersOf(rs, f) : holder = r.beneficiary

MixerFollowsFloors ==
    ~ ending => /\ HeldBy(requests, presenterId, Presenter)
                /\ HeldBy(requests, editorId, Editor)

\* No floor stays with someone who left: each way of removing a user revokes the
\* requests made for it.
BeneficiariesAreUsers == \A r \in requests : r.beneficiary \in users

\* On the floors a user queried and got the status of, the FloorStatus
\* notifications sent to its transport add up to the requests that hold them.
SubscribersInSync ==
    \A u \in Connected :
        LET known == queried[u] \intersect answered[u]
        IN  {p \in told[u] : p[1] \in known} = Reports(requests, known)

\* A transport is an open connection of its user that the server did not close,
\* and a user has no second one: so a stale connection that closes never drops
\* the transport of a user that connected again (the closedByServer flag).
LiveConnections(u) ==
    {c \in Conn : conn[c].user = u /\ conn[c].state = "open" /\ ~ conn[c].closedByServer}

TransportIsTheLiveConnection ==
    \A u \in users :
        LiveConnections(u) = IF transport[u] = NoConn THEN {} ELSE {transport[u]}

\* When the presenter changes, no Editor grant from before survives: nobody edits
\* what another participant starts to present.
PresenterChangeDropsEditor ==
    [][presenterId' # presenterId =>
         \A r \in requests \intersect requests' : Editor \notin r.floors]_vars

=============================================================================
