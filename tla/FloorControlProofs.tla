------------------------- MODULE FloorControlProofs -------------------------
(***************************************************************************)
(* Proofs about FloorControl, for any number of users, connections and     *)
(* requests.                                                               *)
(*                                                                         *)
(* The inductive invariant joins the type invariant, the uniqueness of the *)
(* grant of each floor, the agreement of the AppMixer with the grants and  *)
(* the presence of the beneficiaries. They need each other: that the       *)
(* listener revokes *the* Editor request, by taking the first one, is right*)
(* because there is at most one; and that clearing the holder of a floor is*)
(* right when a request that had it ends is, again, because no other has.  *)
(* On top of it, LinkInv is inductive for the transports of the users, and *)
(* ViewInv for what their subscribers have been told.                      *)
(***************************************************************************)
EXTENDS FloorControl, TLAPS

\* End has removed the users, and AddUser refuses to add one afterwards.
EndedIsEmpty == ending => users = {}

IInv == TypeOK /\ OneGrantPerFloor /\ MixerFollowsFloors /\ BeneficiariesAreUsers

\* At most one request of rs has floor f.
Unique(rs, f) == \A r, s \in HoldersOf(rs, f) : r = s

-----------------------------------------------------------------------------
(* The operators revocations are built from.                               *)

\* Taking the first request with a floor takes them all.
LEMMA GrantedRequestIsHolders ==
    ASSUME NEW rs, NEW f, rs \subseteq Request, Unique(rs, f)
    PROVE  GrantedRequest(rs, f) = HoldersOf(rs, f)
  <1>1. \A r \in rs : r.id \in Int
    BY BoundsAssumption DEF Request, RequestId
  <1> QED BY <1>1 DEF GrantedRequest, HoldersOf, Unique

\* What is revoked was there, and includes what was to be revoked.
LEMMA ReleasedBounds ==
    ASSUME NEW rs, NEW gone \in SUBSET rs
    PROVE  gone \subseteq Released(rs, gone) /\ Released(rs, gone) \subseteq rs
  BY DEF Released, GrantedRequest

\* Clearing the holder of a floor when a request that has it ends is right.
LEMMA HolderAfterRelease ==
    ASSUME NEW rs, NEW all \in SUBSET rs, NEW f, NEW holder,
           Unique(rs, f), HeldBy(rs, holder, f)
    PROVE  HeldBy(rs \ all, AfterRelease(holder, all, f), f)
  <1>1. CASE \E r \in all : f \in r.floors
    <2>1. HoldersOf(rs \ all, f) = {}
      BY <1>1 DEF Unique, HoldersOf
    <2> QED BY <1>1, <2>1 DEF HeldBy, AfterRelease
  <1>2. CASE ~ \E r \in all : f \in r.floors
    <2>1. HoldersOf(rs \ all, f) = HoldersOf(rs, f)
      BY <1>2 DEF HoldersOf
    <2> QED BY <1>2, <2>1 DEF HeldBy, AfterRelease
  <1> QED BY <1>1, <1>2

LEMMA FloorsAreDistinct == Presenter \in Floor /\ Editor \in Floor /\ Presenter # Editor
  BY DEF Presenter, Editor, Floor

-----------------------------------------------------------------------------
(* The two ways requests change.                                           *)

\* Ending requests keeps the invariant on requests and the mixer, and whatever
\* was to end is gone.
LEMMA EndRequestsKeeps ==
    ASSUME IInv, ~ ending,
           NEW gone \in SUBSET requests, NEW kept, EndRequests(gone, kept)
    PROVE  /\ requests' \subseteq requests
           /\ gone \intersect requests' = {}
           /\ OneGrantPerFloor'
           /\ HeldBy(requests', presenterId', Presenter)
           /\ HeldBy(requests', editorId', Editor)
           /\ presenterId' \in UserId \union {Nobody}
           /\ editorId' \in UserId \union {Nobody}
  <1> DEFINE all == Released(requests, gone)
  <1>1. all \in SUBSET requests /\ gone \subseteq all
    BY ReleasedBounds
  <1>2. /\ requests' = requests \ all
        /\ presenterId' = AfterRelease(presenterId, all, Presenter)
        /\ editorId' = AfterRelease(editorId, all, Editor)
    BY DEF EndRequests
  <1>3. \A f \in Floor : Unique(requests, f)
    BY DEF IInv, OneGrantPerFloor, Unique
  <1> HIDE DEF all
  <1>4. OneGrantPerFloor'
    BY <1>2, <1>3 DEF OneGrantPerFloor, Unique, HoldersOf
  <1>5. HeldBy(requests, presenterId, Presenter) /\ HeldBy(requests, editorId, Editor)
    BY DEF IInv, MixerFollowsFloors
  <1>6. HeldBy(requests', presenterId', Presenter)
    BY <1>1, <1>2, <1>3, <1>5, HolderAfterRelease, FloorsAreDistinct
  <1>7. HeldBy(requests', editorId', Editor)
    BY <1>1, <1>2, <1>3, <1>5, HolderAfterRelease, FloorsAreDistinct
  <1>8. /\ presenterId' \in UserId \union {Nobody}
        /\ editorId' \in UserId \union {Nobody}
    BY <1>2 DEF AfterRelease, IInv, TypeOK
  <1> QED BY <1>1, <1>2, <1>4, <1>6, <1>7, <1>8

\* What a grant revokes was there, and includes all that share a floor with it.
LEMMA RevokedForGrantBounds ==
    ASSUME NEW new
    PROVE  /\ RevokedForGrant(new) \subseteq requests
           /\ \A r \in requests : r.floors \intersect new.floors # {} => r \in RevokedForGrant(new)
  <1> DEFINE sharing == SharingAFloor(requests, new.floors)
             all == Released(requests, sharing)
  <1>1. sharing \in SUBSET requests
    BY DEF SharingAFloor
  <1>2. sharing \subseteq all /\ all \subseteq requests
    BY <1>1, ReleasedBounds
  <1>3. all \subseteq RevokedForGrant(new) /\ RevokedForGrant(new) \subseteq requests
    BY <1>2 DEF RevokedForGrant, GrantedRequest
  <1>4. \A r \in requests : r.floors \intersect new.floors # {} => r \in sharing
    BY DEF SharingAFloor
  <1> QED BY <1>2, <1>3, <1>4

\* A grant keeps one request per floor, and the mixer follows it.
LEMMA GrantKeeps ==
    ASSUME IInv, ~ ending, NEW new \in Request, GrantFloorRequest(new)
    PROVE  /\ requests' \subseteq requests \union {new}
           /\ OneGrantPerFloor'
           /\ HeldBy(requests', presenterId', Presenter)
           /\ HeldBy(requests', editorId', Editor)
           /\ presenterId' \in UserId \union {Nobody}
           /\ editorId' \in UserId \union {Nobody}
  <1> DEFINE all == RevokedForGrant(new)
  <1>1. /\ all \in SUBSET requests
        /\ \A r \in requests : r.floors \intersect new.floors # {} => r \in all
    BY RevokedForGrantBounds
  <1>2. /\ requests' = (requests \ all) \union {new}
        /\ presenterId' = IF Presenter \in new.floors THEN new.beneficiary
                          ELSE AfterRelease(presenterId, all, Presenter)
        /\ editorId' = IF Editor \in new.floors THEN new.beneficiary
                       ELSE AfterRelease(editorId, all, Editor)
    BY DEF GrantFloorRequest
  <1>3. \A f \in Floor : Unique(requests, f)
    BY DEF IInv, OneGrantPerFloor, Unique
  <1> HIDE DEF all
  <1>4. ASSUME NEW f, f \in new.floors PROVE HoldersOf(requests', f) = {new}
    BY <1>1, <1>2, <1>4 DEF HoldersOf
  <1>5. ASSUME NEW f, f \notin new.floors
        PROVE  HoldersOf(requests', f) = HoldersOf(requests \ all, f)
    BY <1>2, <1>5 DEF HoldersOf
  <1>6. OneGrantPerFloor'
    <2> SUFFICES ASSUME NEW f \in Floor PROVE Unique(requests', f)
      BY DEF OneGrantPerFloor, Unique
    <2>1. CASE f \in new.floors
      BY <2>1, <1>4 DEF Unique
    <2>2. CASE f \notin new.floors
      <3>1. HoldersOf(requests', f) \subseteq HoldersOf(requests, f)
        BY <2>2, <1>5 DEF HoldersOf
      <3> QED BY <3>1, <1>3 DEF Unique
    <2> QED BY <2>1, <2>2
  <1>7. ASSUME NEW f \in Floor, NEW holder, HeldBy(requests, holder, f)
        PROVE  HeldBy(requests',
                      IF f \in new.floors THEN new.beneficiary ELSE AfterRelease(holder, all, f), f)
    <2>1. CASE f \in new.floors
      BY <2>1, <1>4 DEF HeldBy
    <2>2. CASE f \notin new.floors
      <3>1. HeldBy(requests \ all, AfterRelease(holder, all, f), f)
        BY <1>1, <1>3, <1>7, HolderAfterRelease
      <3> QED BY <2>2, <3>1, <1>5 DEF HeldBy
    <2> QED BY <2>1, <2>2
  <1>8. HeldBy(requests', presenterId', Presenter) /\ HeldBy(requests', editorId', Editor)
    BY <1>2, <1>7, FloorsAreDistinct DEF IInv, MixerFollowsFloors
  <1>9. presenterId' \in UserId \union {Nobody} /\ editorId' \in UserId \union {Nobody}
    BY <1>2 DEF AfterRelease, IInv, TypeOK, Request
  <1> QED BY <1>1, <1>2, <1>6, <1>8, <1>9

\* The reports computed for each user are of the right type.
LEMMA NotifiedType ==
    ASSUME TypeOK, NEW kept, NEW gone, NEW added \in SUBSET Request
    PROVE  Notified(kept, gone, added) \in [UserId -> SUBSET (Floor \X RequestId)]
  <1>1. \A q \in SUBSET Floor : Reports(added, q) \subseteq Floor \X RequestId
    BY DEF Reports, Request
  <1> QED BY <1>1 DEF Notified, TypeOK

\* Closing connections keeps their type.
LEMMA ClosedByServerType ==
    ASSUME TypeOK, NEW cs PROVE ClosedByServer(cs) \in [Conn -> ConnState]
  BY DEF TypeOK, ClosedByServer, ConnState

\* Losing a transport revokes the user's requests; the rest stays typed.
LEMMA RevokeUserKeeps ==
    ASSUME IInv, ~ ending, NEW u \in UserId, RevokeUserFloorRequests(u)
    PROVE  /\ requests' \subseteq requests
           /\ \A r \in requests' : r.beneficiary # u
           /\ OneGrantPerFloor'
           /\ HeldBy(requests', presenterId', Presenter)
           /\ HeldBy(requests', editorId', Editor)
           /\ presenterId' \in UserId \union {Nobody}
           /\ editorId' \in UserId \union {Nobody}
           /\ answered' \in [UserId -> SUBSET Floor]
           /\ told' \in [UserId -> SUBSET (Floor \X RequestId)]
  <1> DEFINE mine == {r \in requests : r.beneficiary = u}
             kept == Connected \ {u}
  <1>1. mine \in SUBSET requests
    OBVIOUS
  <1>2. EndRequests(mine, kept) /\ answered' = [answered EXCEPT ![u] = {}]
    BY DEF RevokeUserFloorRequests
  <1>3. told' = Notified(kept, Released(requests, mine), {})
    BY <1>2 DEF EndRequests
  <1>4. told' \in [UserId -> SUBSET (Floor \X RequestId)]
    <2>1. {} \in SUBSET Request
      OBVIOUS
    <2> QED BY <1>3, <2>1, NotifiedType DEF IInv
  <1>5. answered' \in [UserId -> SUBSET Floor]
    BY <1>2 DEF IInv, TypeOK
  <1> HIDE DEF kept
  <1>6. /\ requests' \subseteq requests
        /\ mine \intersect requests' = {}
        /\ OneGrantPerFloor'
        /\ HeldBy(requests', presenterId', Presenter)
        /\ HeldBy(requests', editorId', Editor)
        /\ presenterId' \in UserId \union {Nobody}
        /\ editorId' \in UserId \union {Nobody}
    BY <1>1, <1>2, EndRequestsKeeps
  <1> QED BY <1>4, <1>5, <1>6

-----------------------------------------------------------------------------
(* One lemma per handler.                                                  *)

LEMMA AddUserKeeps == IInv /\ AddUser => IInv'
  <1> SUFFICES ASSUME IInv, AddUser PROVE IInv'
    OBVIOUS
  <1> USE DEF IInv, AddUser, linkVars, mixerVars, viewVars
  <1>1. TypeOK'
    BY BoundsAssumption DEF TypeOK, UserId
  <1>2. OneGrantPerFloor' /\ MixerFollowsFloors' /\ BeneficiariesAreUsers'
    BY DEF OneGrantPerFloor, MixerFollowsFloors, HeldBy, HoldersOf, BeneficiariesAreUsers
  <1> QED BY <1>1, <1>2

LEMMA SetChairKeeps == ASSUME IInv, NEW u \in UserId, SetChair(u) PROVE IInv'
  <1> USE DEF IInv, SetChair, linkVars, mixerVars, viewVars
  <1>1. TypeOK'
    BY DEF TypeOK
  <1>2. OneGrantPerFloor' /\ MixerFollowsFloors' /\ BeneficiariesAreUsers'
    BY DEF OneGrantPerFloor, MixerFollowsFloors, HeldBy, HoldersOf, BeneficiariesAreUsers
  <1> QED BY <1>1, <1>2

LEMMA EndKeeps == IInv /\ End => IInv'
  <1> SUFFICES ASSUME IInv, End PROVE IInv'
    OBVIOUS
  <1>1. TypeOK'
    <2>1. conn' \in [Conn -> ConnState]
      BY ClosedByServerType DEF IInv, End
    <2> QED BY <2>1 DEF IInv, TypeOK, End, mixerVars
  <1>2. OneGrantPerFloor' /\ MixerFollowsFloors' /\ BeneficiariesAreUsers'
    BY DEF End, OneGrantPerFloor, MixerFollowsFloors, HoldersOf, BeneficiariesAreUsers
  <1> QED BY <1>1, <1>2 DEF IInv

LEMMA RemoveUserKeeps == ASSUME IInv, NEW u \in UserId, RemoveUser(u) PROVE IInv'
  <1>1. ~ ending /\ RevokeUserFloorRequests(u)
    BY DEF RemoveUser
  <1>2. /\ requests' \subseteq requests
        /\ \A r \in requests' : r.beneficiary # u
        /\ OneGrantPerFloor'
        /\ HeldBy(requests', presenterId', Presenter)
        /\ HeldBy(requests', editorId', Editor)
        /\ presenterId' \in UserId \union {Nobody}
        /\ editorId' \in UserId \union {Nobody}
        /\ answered' \in [UserId -> SUBSET Floor]
        /\ told' \in [UserId -> SUBSET (Floor \X RequestId)]
    BY <1>1, RevokeUserKeeps
  <1>3. TypeOK'
    <2>1. conn' \in [Conn -> ConnState]
      BY ClosedByServerType DEF IInv, RemoveUser, CloseTransport
    <2>2. transport' \in [UserId -> Conn \union {NoConn}]
      BY DEF IInv, TypeOK, RemoveUser, CloseTransport
    <2> QED BY <1>2, <2>1, <2>2 DEF IInv, TypeOK, RemoveUser
  <1>4. MixerFollowsFloors'
    BY <1>2 DEF MixerFollowsFloors, HeldBy, HoldersOf
  <1>5. BeneficiariesAreUsers'
    BY <1>2 DEF IInv, BeneficiariesAreUsers, RemoveUser
  <1> QED BY <1>2, <1>3, <1>4, <1>5 DEF IInv

LEMMA UserConnectedKeeps ==
    ASSUME IInv, NEW u \in UserId, NEW ws \in Conn, UserConnected(u, ws) PROVE IInv'
  <1>1. ~ ending /\ ending' = ending /\ users' = users
    BY DEF UserConnected
  <1>2. conn' \in [Conn -> ConnState] /\ transport' \in [UserId -> Conn \union {NoConn}]
    <2>1. ClosedByServer({transport[u]}) \in [Conn -> ConnState]
      BY ClosedByServerType DEF IInv
    <2>2. [user |-> u, state |-> "open", closedByServer |-> FALSE] \in ConnState
      BY DEF ConnState
    <2> QED BY <2>1, <2>2 DEF UserConnected, IInv, TypeOK
  <1>3. CASE u \in Connected
    <2>1. RevokeUserFloorRequests(u) /\ queried' = [queried EXCEPT ![u] = {}]
      BY <1>3 DEF UserConnected
    <2>2. /\ requests' \subseteq requests
          /\ OneGrantPerFloor'
          /\ HeldBy(requests', presenterId', Presenter)
          /\ HeldBy(requests', editorId', Editor)
          /\ presenterId' \in UserId \union {Nobody}
          /\ editorId' \in UserId \union {Nobody}
          /\ answered' \in [UserId -> SUBSET Floor]
          /\ told' \in [UserId -> SUBSET (Floor \X RequestId)]
      BY <1>1, <2>1, RevokeUserKeeps
    <2>3. queried' \in [UserId -> SUBSET Floor]
      BY <2>1 DEF IInv, TypeOK
    <2>4. TypeOK'
      BY <1>2, <2>2, <2>3 DEF IInv, TypeOK, UserConnected
    <2>5. MixerFollowsFloors'
      BY <2>2 DEF MixerFollowsFloors, HeldBy, HoldersOf
    <2>6. BeneficiariesAreUsers'
      BY <1>1, <2>2 DEF IInv, BeneficiariesAreUsers
    <2> QED BY <2>2, <2>4, <2>5, <2>6 DEF IInv
  <1>4. CASE u \notin Connected
    <2>1. UNCHANGED <<queried, requests, mixerVars, viewVars>>
      BY <1>4 DEF UserConnected
    <2>2. TypeOK'
      BY <1>2, <2>1 DEF IInv, TypeOK, UserConnected, mixerVars, viewVars
    <2>3. OneGrantPerFloor' /\ MixerFollowsFloors' /\ BeneficiariesAreUsers'
      BY <1>1, <2>1 DEF IInv, OneGrantPerFloor, MixerFollowsFloors, HeldBy, HoldersOf,
                        BeneficiariesAreUsers, mixerVars
    <2> QED BY <2>2, <2>3 DEF IInv
  <1> QED BY <1>3, <1>4

LEMMA onCloseKeeps == ASSUME IInv, EndedIsEmpty, NEW ws \in Conn, onClose(ws) PROVE IInv'
  <1> DEFINE u == conn[ws].user
  <1>1. ending' = ending /\ users' = users
    BY DEF onClose
  <1>2. conn' \in [Conn -> ConnState]
    BY DEF onClose, IInv, TypeOK, ConnState
  <1>3. CASE u \in users /\ ~ conn[ws].closedByServer
    <2>1. /\ RevokeUserFloorRequests(u)
          /\ transport' = [transport EXCEPT ![u] = NoConn]
          /\ queried' = [queried EXCEPT ![u] = {}]
      BY <1>3 DEF onClose
    <2>2. u \in UserId
      BY <1>3 DEF IInv, TypeOK
    <2>3. CASE ~ ending
      <3>1. /\ requests' \subseteq requests
            /\ OneGrantPerFloor'
            /\ HeldBy(requests', presenterId', Presenter)
            /\ HeldBy(requests', editorId', Editor)
            /\ presenterId' \in UserId \union {Nobody}
            /\ editorId' \in UserId \union {Nobody}
            /\ answered' \in [UserId -> SUBSET Floor]
            /\ told' \in [UserId -> SUBSET (Floor \X RequestId)]
        BY <2>1, <2>2, <2>3, RevokeUserKeeps
      <3>2. /\ queried' \in [UserId -> SUBSET Floor]
            /\ transport' \in [UserId -> Conn \union {NoConn}]
        BY <2>1 DEF IInv, TypeOK
      <3>3. TypeOK'
        BY <1>2, <3>1, <3>2 DEF IInv, TypeOK, onClose
      <3>4. MixerFollowsFloors'
        BY <3>1 DEF MixerFollowsFloors, HeldBy, HoldersOf
      <3>5. BeneficiariesAreUsers'
        BY <1>1, <3>1 DEF IInv, BeneficiariesAreUsers
      <3> QED BY <3>1, <3>3, <3>4, <3>5 DEF IInv
    <2>4. CASE ending
      BY <1>3, <2>4 DEF EndedIsEmpty
    <2> QED BY <2>3, <2>4
  <1>4. CASE u \notin users \/ conn[ws].closedByServer
    <2>1. UNCHANGED <<queried, transport, requests, mixerVars, viewVars>>
      BY <1>4 DEF onClose
    <2>2. TypeOK'
      BY <1>2, <2>1 DEF IInv, TypeOK, onClose, mixerVars, viewVars
    <2>3. OneGrantPerFloor' /\ MixerFollowsFloors' /\ BeneficiariesAreUsers'
      BY <1>1, <2>1 DEF IInv, OneGrantPerFloor, MixerFollowsFloors, HeldBy, HoldersOf,
                        BeneficiariesAreUsers, mixerVars
    <2> QED BY <2>2, <2>3 DEF IInv
  <1> QED BY <1>3, <1>4

LEMMA DisconnectUserKeeps ==
    ASSUME IInv, NEW u \in UserId, NEW ws \in Conn, DisconnectUser(ws, u) PROVE IInv'
  <1>1. ~ ending /\ ending' = ending /\ users' = users /\ RevokeUserFloorRequests(u)
    BY DEF DisconnectUser, Delivers
  <1>2. /\ requests' \subseteq requests
        /\ OneGrantPerFloor'
        /\ HeldBy(requests', presenterId', Presenter)
        /\ HeldBy(requests', editorId', Editor)
        /\ presenterId' \in UserId \union {Nobody}
        /\ editorId' \in UserId \union {Nobody}
        /\ answered' \in [UserId -> SUBSET Floor]
        /\ told' \in [UserId -> SUBSET (Floor \X RequestId)]
    BY <1>1, RevokeUserKeeps
  <1>3. TypeOK'
    <2>1. conn' \in [Conn -> ConnState]
      BY ClosedByServerType DEF IInv, DisconnectUser, CloseTransport
    <2>2. /\ transport' \in [UserId -> Conn \union {NoConn}]
          /\ queried' \in [UserId -> SUBSET Floor]
      BY DEF IInv, TypeOK, DisconnectUser, CloseTransport
    <2> QED BY <1>2, <2>1, <2>2 DEF IInv, TypeOK, DisconnectUser
  <1>4. MixerFollowsFloors'
    BY <1>2 DEF MixerFollowsFloors, HeldBy, HoldersOf
  <1>5. BeneficiariesAreUsers'
    BY <1>1, <1>2 DEF IInv, BeneficiariesAreUsers
  <1> QED BY <1>2, <1>3, <1>4, <1>5 DEF IInv

LEMMA ProcessFloorRequestKeeps ==
    ASSUME IInv, NEW ws \in Conn, NEW u \in UserId, NEW b \in UserId,
           NEW fs \in Requested, ProcessFloorRequest(ws, u, b, fs)
    PROVE  IInv'
  <1> DEFINE new == [id |-> counter, user |-> u, beneficiary |-> b, floors |-> fs]
  <1>1. ~ ending /\ ending' = ending /\ users' = users /\ b \in users
    BY DEF ProcessFloorRequest, Delivers
  <1>2. counter \in RequestId /\ counter' \in 1 .. MaxRequest + 1
    BY BoundsAssumption DEF ProcessFloorRequest, IInv, TypeOK, RequestId
  <1>3. new \in Request /\ new.beneficiary \in users
    BY <1>1, <1>2, MessageAssumption DEF Request
  <1>4. CASE IsAuthorised(u)
    <2>1. GrantFloorRequest(new)
      BY <1>4 DEF ProcessFloorRequest
    <2>2. told' = Notified(Connected, RevokedForGrant(new), {new})
      BY <2>1 DEF GrantFloorRequest
    <2> HIDE DEF new
    <2>3. /\ requests' \subseteq requests \union {new}
          /\ OneGrantPerFloor'
          /\ HeldBy(requests', presenterId', Presenter)
          /\ HeldBy(requests', editorId', Editor)
          /\ presenterId' \in UserId \union {Nobody}
          /\ editorId' \in UserId \union {Nobody}
      BY <1>1, <1>3, <2>1, GrantKeeps
    <2>4. told' \in [UserId -> SUBSET (Floor \X RequestId)]
      <3>1. {new} \in SUBSET Request
        BY <1>3
      <3> QED BY <2>2, <3>1, NotifiedType DEF IInv
    <2>5. TypeOK'
      BY <1>2, <1>3, <2>3, <2>4 DEF IInv, TypeOK, ProcessFloorRequest, linkVars
    <2>6. MixerFollowsFloors'
      BY <2>3 DEF MixerFollowsFloors, HeldBy, HoldersOf
    <2>7. BeneficiariesAreUsers'
      BY <1>1, <1>3, <2>3 DEF IInv, BeneficiariesAreUsers
    <2> QED BY <2>3, <2>5, <2>6, <2>7 DEF IInv
  <1>5. CASE ~ IsAuthorised(u)
    <2>1. UNCHANGED <<requests, mixerVars, told>>
      BY <1>5 DEF ProcessFloorRequest
    <2>2. TypeOK'
      BY <1>2, <2>1 DEF IInv, TypeOK, ProcessFloorRequest, mixerVars, linkVars
    <2>3. OneGrantPerFloor' /\ MixerFollowsFloors' /\ BeneficiariesAreUsers'
      BY <1>1, <2>1 DEF IInv, OneGrantPerFloor, MixerFollowsFloors, HeldBy, HoldersOf,
                        BeneficiariesAreUsers, mixerVars
    <2> QED BY <2>2, <2>3 DEF IInv
  <1> QED BY <1>4, <1>5

LEMMA ProcessFloorReleaseKeeps ==
    ASSUME IInv, NEW ws \in Conn, NEW u \in UserId, NEW r \in requests,
           ProcessFloorRelease(ws, u, r)
    PROVE  IInv'
  <1>1. ~ ending /\ ending' = ending /\ users' = users /\ EndRequests({r}, Connected)
    BY DEF ProcessFloorRelease, Delivers
  <1>2. {r} \in SUBSET requests
    OBVIOUS
  <1>3. /\ requests' \subseteq requests
        /\ OneGrantPerFloor'
        /\ HeldBy(requests', presenterId', Presenter)
        /\ HeldBy(requests', editorId', Editor)
        /\ presenterId' \in UserId \union {Nobody}
        /\ editorId' \in UserId \union {Nobody}
    BY <1>1, <1>2, EndRequestsKeeps
  <1>4. told' \in [UserId -> SUBSET (Floor \X RequestId)]
    <2>1. told' = Notified(Connected, Released(requests, {r}), {})
      BY <1>1 DEF EndRequests
    <2>2. {} \in SUBSET Request
      OBVIOUS
    <2> QED BY <2>1, <2>2, NotifiedType DEF IInv
  <1>5. TypeOK'
    BY <1>3, <1>4 DEF IInv, TypeOK, ProcessFloorRelease, linkVars
  <1>6. MixerFollowsFloors'
    BY <1>3 DEF MixerFollowsFloors, HeldBy, HoldersOf
  <1>7. BeneficiariesAreUsers'
    BY <1>1, <1>3 DEF IInv, BeneficiariesAreUsers
  <1> QED BY <1>3, <1>5, <1>6, <1>7 DEF IInv

LEMMA ProcessFloorQueryKeeps ==
    ASSUME IInv, NEW ws \in Conn, NEW u \in UserId, NEW fs \in Queried,
           ProcessFloorQuery(ws, u, fs)
    PROVE  IInv'
  <1>1. Reports(requests, fs) \subseteq Floor \X RequestId
    BY DEF IInv, TypeOK, Request, Reports
  <1>2. /\ answered' \in [UserId -> SUBSET Floor]
        /\ told' \in [UserId -> SUBSET (Floor \X RequestId)]
        /\ queried' \in [UserId -> SUBSET Floor]
    <2>1. fs \in SUBSET Floor
      BY MessageAssumption
    <2>2. CASE u \in Connected
      BY <1>1, <2>1, <2>2 DEF ProcessFloorQuery, IInv, TypeOK
    <2>3. CASE u \notin Connected
      BY <2>1, <2>3 DEF ProcessFloorQuery, viewVars, IInv, TypeOK
    <2> QED BY <2>2, <2>3
  <1>3. TypeOK'
    BY <1>2 DEF IInv, TypeOK, ProcessFloorQuery, serverVars, mixerVars
  <1>4. OneGrantPerFloor' /\ MixerFollowsFloors' /\ BeneficiariesAreUsers'
    BY DEF ProcessFloorQuery, serverVars, mixerVars, IInv, OneGrantPerFloor,
           MixerFollowsFloors, HeldBy, HoldersOf, BeneficiariesAreUsers
  <1> QED BY <1>3, <1>4 DEF IInv

-----------------------------------------------------------------------------
(* The theorems.                                                           *)

LEMMA InitEstablishes == Init => IInv
  <1> SUFFICES ASSUME Init PROVE IInv
    OBVIOUS
  <1>1. TypeOK
    <2>1. conn \in [Conn -> ConnState]
      BY DEF Init, ConnState
    <2>2. lastUser \in 0 .. MaxUser /\ counter \in 1 .. MaxRequest + 1
      BY BoundsAssumption DEF Init
    <2>3. /\ transport \in [UserId -> Conn \union {NoConn}]
          /\ queried \in [UserId -> SUBSET Floor] /\ answered \in [UserId -> SUBSET Floor]
          /\ told \in [UserId -> SUBSET (Floor \X RequestId)]
      BY DEF Init
    <2>4. users = {} /\ chairs = {} /\ requests = {} /\ ending = FALSE
          /\ chairId = Nobody /\ presenterId = Nobody /\ editorId = Nobody
      BY DEF Init
    <2> QED BY <2>1, <2>2, <2>3, <2>4 DEF TypeOK
  <1>2. OneGrantPerFloor /\ MixerFollowsFloors /\ BeneficiariesAreUsers
    BY DEF Init, OneGrantPerFloor, MixerFollowsFloors, HeldBy, HoldersOf, BeneficiariesAreUsers
  <1> QED BY <1>1, <1>2 DEF IInv

LEMMA EndedIsEmptyKeeps == EndedIsEmpty /\ [Next]_vars => EndedIsEmpty'
  BY ZenonT(30) DEF EndedIsEmpty, Next, vars, serverVars, AddUser, End, RemoveUser, SetChair, onClose,
         UserConnected, DisconnectUser, ProcessFloorRequest, ProcessFloorRelease,
         ProcessFloorQuery

LEMMA NextKeeps == IInv /\ EndedIsEmpty /\ [Next]_vars => IInv'
  <1> SUFFICES ASSUME IInv, EndedIsEmpty, [Next]_vars PROVE IInv'
    OBVIOUS
  <1>1. CASE AddUser \/ End
    BY <1>1, AddUserKeeps, EndKeeps
  <1>2. CASE \E u \in UserId : RemoveUser(u) \/ SetChair(u)
    BY <1>2, RemoveUserKeeps, SetChairKeeps
  <1>3. CASE \E ws \in Conn : onClose(ws)
    BY <1>3, onCloseKeeps
  <1>4. ASSUME NEW ws \in Conn, NEW u \in UserId, UserConnected(u, ws) \/ DisconnectUser(ws, u)
        PROVE  IInv'
    BY <1>4, UserConnectedKeeps, DisconnectUserKeeps
  <1>5. ASSUME NEW ws \in Conn, NEW u \in UserId, NEW b \in UserId, NEW fs \in Requested,
               ProcessFloorRequest(ws, u, b, fs)
        PROVE  IInv'
    BY <1>5, ProcessFloorRequestKeeps
  <1>6. ASSUME NEW ws \in Conn, NEW u \in UserId, NEW r \in requests,
               ProcessFloorRelease(ws, u, r)
        PROVE  IInv'
    BY <1>6, ProcessFloorReleaseKeeps
  <1>7. ASSUME NEW ws \in Conn, NEW u \in UserId, NEW fs \in Queried,
               ProcessFloorQuery(ws, u, fs)
        PROVE  IInv'
    BY <1>7, ProcessFloorQueryKeeps
  <1>8. CASE UNCHANGED vars
    BY <1>8 DEF vars, serverVars, linkVars, mixerVars, viewVars, IInv, TypeOK,
                OneGrantPerFloor, MixerFollowsFloors, HeldBy, HoldersOf, BeneficiariesAreUsers
  <1> QED BY <1>1, <1>2, <1>3, <1>4, <1>5, <1>6, <1>7, <1>8 DEF Next

\* IInv and EndedIsEmpty are inductive.
LEMMA Invariance == Spec => []IInv
  <1>1. Init => IInv /\ EndedIsEmpty
    BY InitEstablishes DEF Init, EndedIsEmpty
  <1>2. IInv /\ EndedIsEmpty /\ [Next]_vars => (IInv /\ EndedIsEmpty)'
    BY NextKeeps, EndedIsEmptyKeeps
  <1> QED BY <1>1, <1>2, PTL DEF Spec

\* Type correctness: every handler keeps each variable in its range, for any number
\* of users, connections and requests.
THEOREM TypeCorrect == Spec => []TypeOK
  BY Invariance, PTL DEF IInv

\* A floor is never held through two requests: the revocations of
\* GrantFloorRequest, with those that its callbacks make, suffice.
THEOREM OneGrant == Spec => []OneGrantPerFloor
  BY Invariance, PTL DEF IInv

\* The AppMixer's presenter and editor are always the beneficiaries of the
\* requests that hold the two floors.
THEOREM MixerFollows == Spec => []MixerFollowsFloors
  BY Invariance, PTL DEF IInv

\* No floor is held for someone who is not in the conference.
THEOREM HoldersArePresent == Spec => []BeneficiariesAreUsers
  BY Invariance, PTL DEF IInv

-----------------------------------------------------------------------------
(* Presenter changes take the Editor floor away.                           *)

\* When the requests in gone end, a Presenter request among all those that end
\* takes every Editor request with it.
LEMMA ReleaseDropsEditor ==
    ASSUME IInv, NEW gone \in SUBSET requests,
           NEW p \in Released(requests, gone), Presenter \in p.floors,
           NEW r \in requests, Editor \in r.floors
    PROVE  r \in Released(requests, gone)
  <1> DEFINE rest == requests \ gone
  <1>1. \A f \in Floor : Unique(requests, f)
    BY DEF IInv, OneGrantPerFloor, Unique
  <1>2. rest \subseteq Request /\ Unique(rest, Editor)
    BY <1>1, FloorsAreDistinct DEF IInv, TypeOK, Unique, HoldersOf
  <1>3. GrantedRequest(rest, Editor) = HoldersOf(rest, Editor)
    BY <1>2, GrantedRequestIsHolders
  <1>4. CASE \E q \in gone : DropsEditor(q.floors)
    BY <1>3, <1>4 DEF Released, HoldersOf
  <1>5. CASE ~ \E q \in gone : DropsEditor(q.floors)
    <2>1. p \in gone /\ Editor \in p.floors
      BY <1>5 DEF Released, DropsEditor
    <2>2. p = r
      BY <1>1, <2>1, FloorsAreDistinct DEF Unique, HoldersOf
    <2> QED BY <2>1, <2>2 DEF Released
  <1> QED BY <1>4, <1>5

LEMMA EndRequestsDropsEditor ==
    ASSUME IInv, NEW gone \in SUBSET requests, NEW kept, EndRequests(gone, kept),
           presenterId' # presenterId
    PROVE  \A r \in requests \intersect requests' : Editor \notin r.floors
  <1>1. requests' = requests \ Released(requests, gone)
    BY DEF EndRequests
  <1>2. PICK p \in Released(requests, gone) : Presenter \in p.floors
    BY DEF EndRequests, AfterRelease
  <1> QED BY <1>1, <1>2, ReleaseDropsEditor

LEMMA GrantDropsEditor ==
    ASSUME IInv, NEW new \in Request, new \notin requests, GrantFloorRequest(new),
           presenterId' # presenterId
    PROVE  \A r \in requests \intersect requests' : Editor \notin r.floors
  <1> DEFINE sharing == SharingAFloor(requests, new.floors)
             first == Released(requests, sharing)
             all == RevokedForGrant(new)
  <1> SUFFICES ASSUME NEW r \in requests, Editor \in r.floors PROVE r \in all
    BY DEF GrantFloorRequest
  <1>1. sharing \in SUBSET requests
    BY DEF SharingAFloor
  <1>2. first \subseteq all /\ first \subseteq requests
    BY <1>1, ReleasedBounds DEF RevokedForGrant
  <1>3. CASE Editor \in new.floors
    BY <1>3, RevokedForGrantBounds
  <1>4. CASE Presenter \in new.floors /\ Editor \notin new.floors
    <2> DEFINE rest == requests \ first
    <2>1. Unique(requests, Editor)
      BY FloorsAreDistinct DEF IInv, OneGrantPerFloor, Unique
    <2>2. rest \subseteq Request /\ Unique(rest, Editor)
      BY <2>1 DEF IInv, TypeOK, Unique, HoldersOf
    <2>3. GrantedRequest(rest, Editor) = HoldersOf(rest, Editor)
      BY <2>2, GrantedRequestIsHolders
    <2> QED BY <1>4, <2>3 DEF RevokedForGrant, DropsEditor, HoldersOf
  <1>5. CASE Presenter \notin new.floors /\ Editor \notin new.floors
    <2>1. all = first
      BY <1>5 DEF RevokedForGrant, DropsEditor
    <2>2. PICK p \in first : Presenter \in p.floors
      BY <1>5, <2>1 DEF GrantFloorRequest, AfterRelease
    <2> QED BY <1>1, <2>1, <2>2, ReleaseDropsEditor
  <1> QED BY <1>3, <1>4, <1>5

\* floorRequestCounter has not reached any ongoing request's id yet.
IdsBelowCounter == \A r \in requests : r.id < counter

LEMMA IdsBelowCounterKeeps == IInv /\ IdsBelowCounter /\ [Next]_vars => IdsBelowCounter'
  <1> SUFFICES ASSUME IInv, IdsBelowCounter, [Next]_vars PROVE IdsBelowCounter'
    OBVIOUS
  <1>1. counter \in Int /\ \A r \in requests : r.id \in Int
    BY BoundsAssumption DEF IInv, TypeOK, Request, RequestId
  <1>2. CASE counter' = counter /\ requests' \subseteq requests
    BY <1>2 DEF IdsBelowCounter
  <1>3. CASE \E ws \in Conn, u \in UserId, b \in UserId, fs \in Requested :
                ProcessFloorRequest(ws, u, b, fs)
    <2>1. PICK ws \in Conn, u \in UserId, b \in UserId, fs \in Requested :
                ProcessFloorRequest(ws, u, b, fs)
      BY <1>3
    <2>2. counter' = counter + 1 /\ \A r \in requests' : r \in requests \/ r.id = counter
      BY <2>1 DEF ProcessFloorRequest, GrantFloorRequest
    <2> QED BY <1>1, <2>2 DEF IdsBelowCounter
  <1>4. [Next]_vars => \/ counter' = counter /\ requests' \subseteq requests
                       \/ \E ws \in Conn, u \in UserId, b \in UserId, fs \in Requested :
                              ProcessFloorRequest(ws, u, b, fs)
    BY ZenonT(30) DEF Next, vars, serverVars, AddUser, End, RemoveUser, SetChair, onClose, UserConnected,
           DisconnectUser, ProcessFloorRelease, ProcessFloorQuery, RevokeUserFloorRequests,
           EndRequests
  <1> QED BY <1>2, <1>3, <1>4

\* Whenever the presenter changes, by a grant, a release, a revocation or the
\* departure of the presenter, every Editor grant from before ends in the same
\* handler.
THEOREM PresenterChange == Spec => PresenterChangeDropsEditor
  <1> DEFINE Dropped == presenterId' # presenterId =>
                  \A r \in requests \intersect requests' : Editor \notin r.floors
  <1>1. IInv /\ IdsBelowCounter /\ [Next]_vars => [Dropped]_vars
    <2> SUFFICES ASSUME IInv, IdsBelowCounter, Next, presenterId' # presenterId
                 PROVE  \A r \in requests \intersect requests' : Editor \notin r.floors
      OBVIOUS
    <2>1. ASSUME NEW u, RevokeUserFloorRequests(u) PROVE Dropped
      <3>1. {r \in requests : r.beneficiary = u} \in SUBSET requests
        OBVIOUS
      <3> QED BY <2>1, <3>1, EndRequestsDropsEditor DEF RevokeUserFloorRequests
    <2>2. CASE \E u \in UserId : RemoveUser(u)
      BY <2>1, <2>2 DEF RemoveUser
    <2>3. CASE \E ws \in Conn : onClose(ws)
      BY <2>1, <2>3 DEF onClose, mixerVars
    <2>4. CASE \E ws \in Conn, u \in UserId : UserConnected(u, ws) \/ DisconnectUser(ws, u)
      BY <2>1, <2>4 DEF UserConnected, DisconnectUser, mixerVars
    <2>5. ASSUME NEW ws \in Conn, NEW u \in UserId, NEW r \in requests,
                 ProcessFloorRelease(ws, u, r)
          PROVE  Dropped
      <3>1. {r} \in SUBSET requests
        OBVIOUS
      <3> QED BY <2>5, <3>1, EndRequestsDropsEditor DEF ProcessFloorRelease
    <2>6. ASSUME NEW ws \in Conn, NEW u \in UserId, NEW b \in UserId, NEW fs \in Requested,
                 ProcessFloorRequest(ws, u, b, fs)
          PROVE  Dropped
      <3> DEFINE new == [id |-> counter, user |-> u, beneficiary |-> b, floors |-> fs]
      <3>1. new \in Request
        BY <2>6, BoundsAssumption, MessageAssumption
           DEF ProcessFloorRequest, IInv, TypeOK, RequestId, Request
      <3>2. new \notin requests
        BY DEF IdsBelowCounter, IInv, TypeOK
      <3>3. CASE GrantFloorRequest(new)
        BY <3>1, <3>2, <3>3, GrantDropsEditor
      <3>4. CASE ~ IsAuthorised(u)
        BY <2>6, <3>4 DEF ProcessFloorRequest, mixerVars
      <3> QED BY <2>6, <3>3, <3>4 DEF ProcessFloorRequest
    <2>7. CASE \/ AddUser \/ End \/ \E u \in UserId : SetChair(u)
               \/ \E ws \in Conn, u \in UserId, fs \in Queried : ProcessFloorQuery(ws, u, fs)
      BY <2>7 DEF AddUser, End, SetChair, ProcessFloorQuery, mixerVars
    <2> QED BY <2>2, <2>3, <2>4, <2>5, <2>6, <2>7 DEF Next
  <1>2. Spec => []IdsBelowCounter
    <2>1. Init => IdsBelowCounter
      BY DEF Init, IdsBelowCounter
    <2>2. IInv /\ IdsBelowCounter /\ [Next]_vars => IdsBelowCounter'
      BY IdsBelowCounterKeeps
    <2> QED BY <2>1, <2>2, Invariance, PTL DEF Spec
  <1> QED BY <1>1, <1>2, Invariance, PTL DEF Spec, PresenterChangeDropsEditor

-----------------------------------------------------------------------------
(* Transports.                                                             *)

\* A connection belongs to a user that was added, and an id that was not given
\* out yet has no transport.
Newcomers == /\ users \subseteq 1 .. lastUser
             /\ \A c \in Conn : conn[c].user =< lastUser
             /\ \A u \in UserId : u > lastUser => transport[u] = NoConn

LinkInv == TransportIsTheLiveConnection /\ Newcomers

\* Closing connections only sets their flag.
LEMMA ClosedByServerShape ==
    ASSUME TypeOK, NEW cs, NEW c \in Conn
    PROVE  /\ ClosedByServer(cs)[c].user = conn[c].user
           /\ ClosedByServer(cs)[c].state = conn[c].state
           /\ c \notin cs => ClosedByServer(cs)[c].closedByServer = conn[c].closedByServer
           /\ c \in cs => ClosedByServer(cs)[c].closedByServer
  BY DEF TypeOK, ClosedByServer, ConnState

\* CloseTransport flags the transport of a user, which is its one live connection
\* and nobody else's.
LEMMA CloseTransportLinks ==
    ASSUME IInv, LinkInv, NEW u \in users, CloseTransport(u),
           users' \subseteq users, lastUser' = lastUser
    PROVE  LinkInv'
  <1>1. /\ users \subseteq UserId /\ transport \in [UserId -> Conn \union {NoConn}]
        /\ conn \in [Conn -> ConnState]
    BY DEF IInv, TypeOK
  <1>2. /\ transport' = [transport EXCEPT ![u] = NoConn]
        /\ conn' \in [Conn -> ConnState]
        /\ \A c \in Conn : /\ conn'[c].user = conn[c].user /\ conn'[c].state = conn[c].state
                           /\ c # transport[u] => conn'[c].closedByServer = conn[c].closedByServer
                           /\ c = transport[u] => conn'[c].closedByServer
    BY <1>1 DEF CloseTransport, ClosedByServer, ConnState
  <1>3. ASSUME NEW v \in users'
        PROVE  LiveConnections(v)' = IF transport'[v] = NoConn THEN {} ELSE {transport'[v]}
    <2>1. /\ LiveConnections(v) = IF transport[v] = NoConn THEN {} ELSE {transport[v]}
          /\ LiveConnections(u) = IF transport[u] = NoConn THEN {} ELSE {transport[u]}
      BY DEF LinkInv, TransportIsTheLiveConnection
    <2>2. CASE v = u
      <3>1. LiveConnections(u)' = LiveConnections(u) \ {transport[u]}
        BY <1>2 DEF LiveConnections
      <3> QED BY <1>1, <1>2, <2>1, <2>2, <3>1
    <2>3. CASE v # u
      <3>1. \A c \in Conn : c = transport[u] => conn[c].user = u
        BY <2>1, ConnAssumption DEF LiveConnections
      <3>2. LiveConnections(v)' = LiveConnections(v)
        BY <1>2, <2>3, <3>1 DEF LiveConnections
      <3> QED BY <1>1, <1>2, <2>1, <2>3, <3>2
    <2> QED BY <2>2, <2>3
  <1>4. Newcomers'
    BY <1>1, <1>2 DEF LinkInv, Newcomers
  <1> QED BY <1>3, <1>4 DEF LinkInv, TransportIsTheLiveConnection

\* UserConnected: the connection that becomes the transport is a new one, and the
\* previous transport is flagged before.
LEMMA UserConnectedLinks ==
    ASSUME IInv, LinkInv, NEW u \in UserId, NEW ws \in Conn, UserConnected(u, ws)
    PROVE  LinkInv'
  <1>1. /\ users \subseteq UserId /\ transport \in [UserId -> Conn \union {NoConn}]
        /\ conn \in [Conn -> ConnState] /\ lastUser \in 0 .. MaxUser
    BY DEF IInv, TypeOK
  <1>2. /\ u \in users /\ conn[ws].state = "new" /\ users' = users /\ lastUser' = lastUser
        /\ transport' = [transport EXCEPT ![u] = ws]
        /\ conn' = [ClosedByServer({transport[u]}) EXCEPT
                      ![ws] = [user |-> u, state |-> "open", closedByServer |-> FALSE]]
    BY DEF UserConnected
  <1>3. ClosedByServer({transport[u]}) \in [Conn -> ConnState]
    BY ClosedByServerType DEF IInv
  <1>4. /\ conn'[ws] = [user |-> u, state |-> "open", closedByServer |-> FALSE]
        /\ \A c \in Conn : c # ws => conn'[c] = ClosedByServer({transport[u]})[c]
    BY <1>2, <1>3
  <1>5. \A c \in Conn \ {ws} :
            /\ conn'[c].user = conn[c].user /\ conn'[c].state = conn[c].state
            /\ c # transport[u] => conn'[c].closedByServer = conn[c].closedByServer
            /\ c = transport[u] => conn'[c].closedByServer
    BY <1>4, ClosedByServerShape DEF IInv
  <1>6. ASSUME NEW v \in users'
        PROVE  LiveConnections(v)' = IF transport'[v] = NoConn THEN {} ELSE {transport'[v]}
    <2>1. /\ LiveConnections(v) = IF transport[v] = NoConn THEN {} ELSE {transport[v]}
          /\ LiveConnections(u) = IF transport[u] = NoConn THEN {} ELSE {transport[u]}
      BY <1>2 DEF LinkInv, TransportIsTheLiveConnection
    <2>2. ws \notin LiveConnections(v) /\ ws \notin LiveConnections(u)
      BY <1>2 DEF LiveConnections
    <2>3. CASE v = u
      <3>1. LiveConnections(u)' = (LiveConnections(u) \ {transport[u]}) \union {ws}
        BY <1>4, <1>5, <2>2 DEF LiveConnections
      <3>2. LiveConnections(u)' = {ws}
        BY <2>1, <3>1
      <3> QED BY <1>1, <1>2, <2>3, <3>2, ConnAssumption
    <2>4. CASE v # u
      <3>1. \A c \in Conn : c = transport[u] => conn[c].user = u
        BY <2>1, ConnAssumption DEF LiveConnections
      <3>2. LiveConnections(v)' = LiveConnections(v)
        BY <1>4, <1>5, <2>2, <2>4, <3>1 DEF LiveConnections
      <3> QED BY <1>1, <1>2, <2>1, <2>4, <3>2
    <2> QED BY <2>3, <2>4
  <1>7. Newcomers'
    <2>1. u \in 1 .. lastUser
      BY <1>2 DEF LinkInv, Newcomers
    <2>2. ASSUME NEW c \in Conn PROVE conn'[c].user =< lastUser'
      <3>1. CASE c = ws
        BY <1>1, <1>2, <1>4, <2>1, <3>1
      <3>2. CASE c # ws
        <4>1. conn'[c].user = conn[c].user
          BY <1>5, <3>2
        <4> QED BY <1>2, <4>1 DEF LinkInv, Newcomers
      <3> QED BY <3>1, <3>2
    <2>3. \A v \in UserId : v > lastUser' => transport'[v] = NoConn
      BY <1>1, <1>2, <2>1 DEF LinkInv, Newcomers
    <2> QED BY <1>2, <2>2, <2>3 DEF LinkInv, Newcomers
  <1> QED BY <1>6, <1>7 DEF LinkInv, TransportIsTheLiveConnection

\* onClose: a connection that the server did not close is its user's transport.
LEMMA onCloseLinks ==
    ASSUME IInv, LinkInv, NEW ws \in Conn, onClose(ws) PROVE LinkInv'
  <1> DEFINE u == conn[ws].user
  <1>1. /\ users \subseteq UserId /\ transport \in [UserId -> Conn \union {NoConn}]
        /\ conn \in [Conn -> ConnState]
    BY DEF IInv, TypeOK
  <1>2. /\ conn[ws].state = "open" /\ users' = users /\ lastUser' = lastUser
        /\ conn' = [conn EXCEPT ![ws].state = "closed"]
    BY DEF onClose
  <1>3. /\ \A c \in Conn : /\ conn'[c].user = conn[c].user
                           /\ conn'[c].closedByServer = conn[c].closedByServer
                           /\ c # ws => conn'[c].state = conn[c].state
        /\ conn'[ws].state = "closed"
    BY <1>1, <1>2 DEF ConnState
  <1>4. \A v : LiveConnections(v)' = LiveConnections(v) \ {ws}
    BY <1>3 DEF LiveConnections
  <1>5. CASE u \in users /\ ~ conn[ws].closedByServer
    <2>1. transport' = [transport EXCEPT ![u] = NoConn]
      BY <1>5 DEF onClose
    <2>2. ws \in LiveConnections(u)
      BY <1>2, <1>5 DEF LiveConnections
    <2>3. LiveConnections(u) = {ws}
      BY <1>5, <2>2 DEF LinkInv, TransportIsTheLiveConnection
    <2>4. ASSUME NEW v \in users'
          PROVE  LiveConnections(v)' = IF transport'[v] = NoConn THEN {} ELSE {transport'[v]}
      <3>1. CASE v = u
        BY <1>1, <1>4, <1>5, <2>1, <2>3, <3>1
      <3>2. CASE v # u
        <4>1. ws \notin LiveConnections(v)
          BY <3>2 DEF LiveConnections
        <4> QED BY <1>1, <1>2, <1>4, <2>1, <3>2, <4>1 DEF LinkInv, TransportIsTheLiveConnection
      <3> QED BY <3>1, <3>2
    <2>5. Newcomers'
      BY <1>1, <1>2, <1>3, <2>1 DEF LinkInv, Newcomers
    <2> QED BY <2>4, <2>5 DEF LinkInv, TransportIsTheLiveConnection
  <1>6. CASE u \notin users \/ conn[ws].closedByServer
    <2>1. transport' = transport
      BY <1>6 DEF onClose
    <2>2. \A v \in users : LiveConnections(v)' = LiveConnections(v)
      BY <1>4, <1>6 DEF LiveConnections
    <2>3. Newcomers'
      BY <1>2, <1>3, <2>1 DEF LinkInv, Newcomers
    <2> QED BY <1>2, <2>1, <2>2, <2>3 DEF LinkInv, TransportIsTheLiveConnection
  <1> QED BY <1>5, <1>6

\* AddUser and End: a new user has no connection, and no user is left at the end.
LEMMA AddOrEndLinks == ASSUME IInv, LinkInv, AddUser \/ End PROVE LinkInv'
  <1>1. CASE AddUser
    <2> DEFINE n == lastUser + 1
    <2>1. /\ lastUser \in 0 .. MaxUser /\ lastUser < MaxUser /\ lastUser' = n
          /\ users' = users \union {n} /\ transport' = transport /\ conn' = conn
      BY <1>1 DEF AddUser, linkVars, IInv, TypeOK
    <2>2. n \in UserId /\ n > lastUser
      BY <2>1, BoundsAssumption DEF UserId
    <2>3. \A c \in Conn : conn[c].user \in Int
      BY BoundsAssumption DEF IInv, TypeOK, ConnState, UserId, Nobody
    <2>4. transport[n] = NoConn /\ LiveConnections(n) = {}
      BY <2>1, <2>2, <2>3 DEF LinkInv, Newcomers, LiveConnections
    <2>5. \A v : LiveConnections(v)' = LiveConnections(v)
      BY <2>1 DEF LiveConnections
    <2>6. TransportIsTheLiveConnection'
      BY <2>1, <2>4, <2>5 DEF LinkInv, TransportIsTheLiveConnection
    <2>7. Newcomers'
      <3>1. users' \subseteq 1 .. lastUser'
        BY <2>1 DEF LinkInv, Newcomers
      <3>2. \A v \in UserId : v > lastUser' => v > lastUser
        BY <2>1, BoundsAssumption DEF UserId
      <3> QED BY <2>1, <2>3, <3>1, <3>2 DEF LinkInv, Newcomers
    <2> QED BY <2>6, <2>7 DEF LinkInv
  <1>2. CASE End
    <2>1. /\ users' = {} /\ lastUser' = lastUser
          /\ transport' = [u \in UserId |-> NoConn]
          /\ conn' = ClosedByServer({transport[u] : u \in users})
      BY <1>2 DEF End
    <2>2. \A c \in Conn : conn'[c].user = conn[c].user
      BY <2>1 DEF ClosedByServer, IInv, TypeOK, ConnState
    <2>3. Newcomers'
      BY <2>1, <2>2 DEF LinkInv, Newcomers
    <2> QED BY <2>1, <2>3 DEF LinkInv, TransportIsTheLiveConnection
  <1> QED BY <1>1, <1>2

\* BFCP ConnectTransport, UserConnected, CloseTransport, onClose: a user has at most
\* one live connection, and it is the transport; so a connection that the user has
\* replaced never takes the new one away when its thread ends.
THEOREM OneTransport == Spec => []TransportIsTheLiveConnection
  <1>1. Init => LinkInv
    <2> SUFFICES ASSUME Init PROVE LinkInv
      OBVIOUS
    <2>1. TransportIsTheLiveConnection
      BY DEF Init, TransportIsTheLiveConnection
    <2>2. Newcomers
      BY DEF Init, Newcomers, Nobody
    <2> QED BY <2>1, <2>2 DEF LinkInv
  <1>2. IInv /\ LinkInv /\ [Next]_vars => LinkInv'
    <2> SUFFICES ASSUME IInv, LinkInv, [Next]_vars PROVE LinkInv'
      OBVIOUS
    <2>1. CASE UNCHANGED <<lastUser, users, transport, conn>>
      <3>1. \A v : LiveConnections(v)' = LiveConnections(v)
        BY <2>1 DEF LiveConnections
      <3> QED BY <2>1, <3>1 DEF LinkInv, TransportIsTheLiveConnection, Newcomers
    <2>2. CASE AddUser \/ End
      BY <2>2, AddOrEndLinks
    <2>3. ASSUME NEW u \in UserId, RemoveUser(u) PROVE LinkInv'
      BY <2>3, CloseTransportLinks DEF RemoveUser
    <2>4. ASSUME NEW ws \in Conn, NEW u \in UserId, DisconnectUser(ws, u) PROVE LinkInv'
      BY <2>4, CloseTransportLinks DEF DisconnectUser, Delivers
    <2>5. ASSUME NEW ws \in Conn, NEW u \in UserId, UserConnected(u, ws) PROVE LinkInv'
      BY <2>5, UserConnectedLinks
    <2>6. ASSUME NEW ws \in Conn, onClose(ws) PROVE LinkInv'
      BY <2>6, onCloseLinks
    <2>7. CASE \/ \E u \in UserId : SetChair(u)
               \/ \E ws \in Conn, u \in UserId, b \in UserId, fs \in Requested :
                      ProcessFloorRequest(ws, u, b, fs)
               \/ \E ws \in Conn, u \in UserId, r \in requests : ProcessFloorRelease(ws, u, r)
               \/ \E ws \in Conn, u \in UserId, fs \in Queried : ProcessFloorQuery(ws, u, fs)
               \/ UNCHANGED vars
      BY <2>1, <2>7 DEF SetChair, ProcessFloorRequest, ProcessFloorRelease, ProcessFloorQuery,
                        vars, serverVars, linkVars
    <2> QED BY <2>2, <2>3, <2>4, <2>5, <2>6, <2>7 DEF Next
  <1>3. LinkInv => TransportIsTheLiveConnection
    BY DEF LinkInv
  <1> QED BY <1>1, <1>2, <1>3, Invariance, PTL DEF Spec

-----------------------------------------------------------------------------
(* Subscribers.                                                            *)

\* A user without a transport was told nothing on it.
Unanswered == \A u \in UserId : u \notin Connected => answered[u] = {}

ViewInv == SubscribersInSync /\ Unanswered

\* What a report is.
LEMMA ReportsElements ==
    ASSUME NEW rs, NEW q, NEW p
    PROVE  p \in Reports(rs, q) <=> \E r \in rs : \E f \in r.floors \intersect q : p = <<f, r.id>>
  <1>1. p \in Reports(rs, q) <=> \E r \in rs : p \in (r.floors \intersect q) \X {r.id}
    BY DEF Reports
  <1>2. ASSUME NEW r
        PROVE  p \in (r.floors \intersect q) \X {r.id}
                 <=> \E f \in r.floors \intersect q : p = <<f, r.id>>
    OBVIOUS
  <1> QED BY <1>1, <1>2

\* A report about the floors of a query, read for some of them.
LEMMA ReportsRestricted ==
    ASSUME NEW rs, NEW q, NEW known, known \subseteq q, NEW p
    PROVE  p \in Reports(rs, q) /\ p[1] \in known <=> p \in Reports(rs, known)
  <1>1. ASSUME p \in Reports(rs, q), p[1] \in known PROVE p \in Reports(rs, known)
    <2>1. PICK r \in rs : \E f \in r.floors \intersect q : p = <<f, r.id>>
      BY <1>1, ReportsElements
    <2>2. PICK f \in r.floors \intersect q : p = <<f, r.id>>
      BY <2>1
    <2>3. f \in r.floors \intersect known
      BY <1>1, <2>2
    <2> QED BY <2>2, <2>3, ReportsElements
  <1>2. ASSUME p \in Reports(rs, known) PROVE p \in Reports(rs, q) /\ p[1] \in known
    <2>1. PICK r \in rs : \E f \in r.floors \intersect known : p = <<f, r.id>>
      BY <1>2, ReportsElements
    <2>2. PICK f \in r.floors \intersect known : p = <<f, r.id>>
      BY <2>1
    <2>3. f \in r.floors \intersect q /\ p[1] = f
      BY <2>2
    <2> QED BY <2>2, <2>3, ReportsElements
  <1> QED BY <1>1, <1>2

\* As no floor is held twice, reporting the end of some requests says nothing
\* about the others.
LEMMA ReportsAfter ==
    ASSUME NEW rs, NEW gone \in SUBSET rs, NEW added, NEW known \in SUBSET Floor,
           \A f \in Floor : Unique(rs, f)
    PROVE  Reports((rs \ gone) \union added, known)
             = (Reports(rs, known) \ Reports(gone, known)) \union Reports(added, known)
  <1>1. ASSUME NEW p
        PROVE  p \in Reports((rs \ gone) \union added, known)
                 <=> p \in Reports(rs \ gone, known) \/ p \in Reports(added, known)
    BY ReportsElements
  <1>2. ASSUME NEW p, p \in Reports(rs \ gone, known)
        PROVE  p \in Reports(rs, known) /\ p \notin Reports(gone, known)
    <2>1. PICK r \in rs \ gone : \E f \in r.floors \intersect known : p = <<f, r.id>>
      BY <1>2, ReportsElements
    <2>2. PICK f \in r.floors \intersect known : p = <<f, r.id>>
      BY <2>1
    <2>3. ASSUME p \in Reports(gone, known) PROVE FALSE
      <3>1. PICK s \in gone : \E g \in s.floors \intersect known : p = <<g, s.id>>
        BY <2>3, ReportsElements
      <3>2. PICK g \in s.floors \intersect known : p = <<g, s.id>>
        BY <3>1
      <3>3. f = g /\ f \in Floor
        BY <2>2, <3>2
      <3>4. r \in HoldersOf(rs, f) /\ s \in HoldersOf(rs, f)
        BY <2>2, <3>2, <3>3 DEF HoldersOf
      <3> QED BY <2>1, <3>1, <3>3, <3>4 DEF Unique
    <2> QED BY <2>1, <2>3, ReportsElements
  <1>3. ASSUME NEW p, p \in Reports(rs, known), p \notin Reports(gone, known)
        PROVE  p \in Reports(rs \ gone, known)
    BY <1>3, ReportsElements
  <1> QED BY <1>1, <1>2, <1>3

\* NotifyForFloorRequest keeps in sync the users that keep their transport and
\* their subscription.
LEMMA NotifiedInSync ==
    ASSUME IInv, ViewInv, NEW kept, NEW gone \in SUBSET requests, NEW added,
           told' = Notified(kept, gone, added),
           requests' = (requests \ gone) \union added,
           NEW v \in kept, v \in Connected, queried'[v] = queried[v], answered'[v] = answered[v]
    PROVE  LET known == queried'[v] \intersect answered'[v]
           IN  {p \in told'[v] : p[1] \in known} = Reports(requests', known)
  <1> DEFINE known == queried[v] \intersect answered[v]
  <1>1. v \in UserId /\ queried[v] \in SUBSET Floor /\ known \in SUBSET Floor /\ known \subseteq queried[v]
    BY DEF IInv, TypeOK, Connected
  <1>2. {p \in told[v] : p[1] \in known} = Reports(requests, known)
    BY DEF ViewInv, SubscribersInSync
  <1>3. told'[v] = (told[v] \ Reports(gone, queried[v])) \union Reports(added, queried[v])
    BY <1>1 DEF Notified
  <1>4. \A f \in Floor : Unique(requests, f)
    BY DEF IInv, OneGrantPerFloor, Unique
  <1> HIDE DEF known
  <1>5. Reports(requests', known)
          = (Reports(requests, known) \ Reports(gone, known)) \union Reports(added, known)
    <2>1. Reports((requests \ gone) \union added, known)
            = (Reports(requests, known) \ Reports(gone, known)) \union Reports(added, known)
      BY <1>1, <1>4, ReportsAfter
    <2> QED BY <2>1
  <1>6. ASSUME NEW p
        PROVE  /\ p \in Reports(gone, queried[v]) /\ p[1] \in known <=> p \in Reports(gone, known)
               /\ p \in Reports(added, queried[v]) /\ p[1] \in known <=> p \in Reports(added, known)
    BY <1>1, ReportsRestricted
  <1>7. {p \in told'[v] : p[1] \in known}
          = ({p \in told[v] : p[1] \in known} \ Reports(gone, known)) \union Reports(added, known)
    <2> DEFINE new == {p \in told'[v] : p[1] \in known}
               old == {p \in told[v] : p[1] \in known}
    <2>1. ASSUME NEW p
          PROVE  p \in new <=> (p \in old /\ p \notin Reports(gone, known)) \/ p \in Reports(added, known)
      <3>1. p \in told'[v] <=> \/ p \in told[v] /\ p \notin Reports(gone, queried[v])
                              \/ p \in Reports(added, queried[v])
        BY <1>3
      <3> QED BY <1>6, <3>1
    <2> QED BY <2>1
  <1>8. known = queried'[v] \intersect answered'[v]
    BY DEF known
  <1> QED BY <1>2, <1>5, <1>7, <1>8

\* RevokeUserFloorRequests: the user's own view is reset, and the others are told.
LEMMA RevokeUserInSync ==
    ASSUME IInv, ViewInv, NEW u \in UserId, RevokeUserFloorRequests(u),
           \A v \in UserId : v # u => queried'[v] = queried[v] /\ transport'[v] = transport[v],
           users \ {u} \subseteq users', users' \subseteq users
    PROVE  ViewInv'
  <1> DEFINE mine == {r \in requests : r.beneficiary = u}
             all == Released(requests, mine)
  <1>1. all \in SUBSET requests
    <2>1. mine \in SUBSET requests
      OBVIOUS
    <2> QED BY <2>1, ReleasedBounds
  <1>2. /\ requests' = (requests \ all) \union {}
        /\ told' = Notified(Connected \ {u}, all, {})
        /\ answered' = [answered EXCEPT ![u] = {}]
    BY DEF RevokeUserFloorRequests, EndRequests
  <1>3. answered'[u] = {} /\ \A v \in UserId : v # u => answered'[v] = answered[v]
    BY <1>2 DEF IInv, TypeOK
  <1>4. told'[u] = {}
    BY <1>2 DEF Notified
  <1>5. \A v \in Connected' : v \in UserId /\ (v # u => v \in Connected)
    BY DEF Connected, IInv, TypeOK
  <1> HIDE DEF all
  <1>6. ASSUME NEW v \in Connected'
        PROVE  LET known == queried'[v] \intersect answered'[v]
               IN  {p \in told'[v] : p[1] \in known} = Reports(requests', known)
    <2>1. CASE v = u
      <3>1. Reports(requests', {}) = {}
        BY DEF Reports
      <3> QED BY <1>3, <1>4, <2>1, <3>1
    <2>2. CASE v # u
      <3>1. v \in Connected \ {u} /\ v \in Connected /\ v \in UserId
        BY <1>5, <2>2
      <3>2. queried'[v] = queried[v] /\ answered'[v] = answered[v]
        BY <1>3, <2>2, <3>1
      <3> QED BY <1>1, <1>2, <3>1, <3>2, NotifiedInSync
    <2> QED BY <2>1, <2>2
  <1>7. ASSUME NEW v \in UserId, v \notin Connected', v # u PROVE answered[v] = {}
    <2>1. CASE v \notin Connected
      BY <2>1 DEF ViewInv, Unanswered
    <2>2. CASE v \in Connected
      BY <1>7, <2>2 DEF Connected
    <2> QED BY <2>1, <2>2
  <1>8. Unanswered'
    BY <1>3, <1>7 DEF Unanswered
  <1> QED BY <1>6, <1>8 DEF ViewInv, SubscribersInSync

\* The handlers that leave every transport as it is: what they end or grant is
\* reported to all.
LEMMA NotifyAllInSync ==
    ASSUME IInv, ViewInv, NEW gone \in SUBSET requests, NEW added,
           told' = Notified(Connected, gone, added),
           requests' = (requests \ gone) \union added,
           UNCHANGED <<users, queried, transport, answered>>
    PROVE  ViewInv'
  <1>1. Connected' = Connected
    BY DEF Connected
  <1>2. Unanswered'
    BY <1>1 DEF ViewInv, Unanswered
  <1>3. ASSUME NEW v \in Connected'
        PROVE  LET known == queried'[v] \intersect answered'[v]
               IN  {p \in told'[v] : p[1] \in known} = Reports(requests', known)
    <2>1. v \in Connected /\ queried'[v] = queried[v] /\ answered'[v] = answered[v]
      BY <1>1
    <2> QED BY <2>1, NotifiedInSync
  <1> QED BY <1>2, <1>3 DEF ViewInv, SubscribersInSync

\* Nothing is known to a user without a transport, so it starts in sync.
LEMMA ConnectedInSync ==
    ASSUME IInv, ViewInv, UNCHANGED <<requests, queried, answered, told>>,
           \A v \in Connected' : v \in UserId,
           \A v \in UserId : v \in Connected => v \in Connected'
    PROVE  ViewInv'
  <1>1. ASSUME NEW v \in Connected'
        PROVE  LET known == queried'[v] \intersect answered'[v]
               IN  {p \in told'[v] : p[1] \in known} = Reports(requests', known)
    <2>1. CASE v \in Connected
      BY <2>1 DEF ViewInv, SubscribersInSync
    <2>2. CASE v \notin Connected
      <3>1. answered[v] = {}
        BY <1>1, <2>2 DEF ViewInv, Unanswered
      <3>2. Reports(requests', {}) = {}
        BY DEF Reports
      <3> QED BY <3>1, <3>2
    <2> QED BY <2>1, <2>2
  <1>2. Unanswered'
    BY DEF ViewInv, Unanswered
  <1> QED BY <1>1, <1>2 DEF ViewInv, SubscribersInSync

\* ProcessFloorQuery reports the status of every floor of the new subscription.
LEMMA ProcessFloorQueryInSync ==
    ASSUME IInv, ViewInv, NEW ws \in Conn, NEW u \in UserId, NEW fs \in Queried,
           ProcessFloorQuery(ws, u, fs)
    PROVE  ViewInv'
  <1>1. /\ UNCHANGED <<users, requests, transport>>
        /\ queried' = [queried EXCEPT ![u] = fs]
        /\ Connected' = Connected
    BY DEF ProcessFloorQuery, serverVars, Connected
  <1>2. \A v \in Connected : v \in UserId
    BY DEF Connected, IInv, TypeOK
  <1>3. CASE u \in Connected
    <2>1. /\ answered' = [answered EXCEPT ![u] = fs]
          /\ told' = [told EXCEPT ![u] = Reports(requests, fs)]
      BY <1>3 DEF ProcessFloorQuery
    <2>2. ASSUME NEW v \in Connected'
          PROVE  LET known == queried'[v] \intersect answered'[v]
                 IN  {p \in told'[v] : p[1] \in known} = Reports(requests', known)
      <3>1. CASE v = u
        <4>1. queried'[v] = fs /\ answered'[v] = fs /\ told'[v] = Reports(requests, fs)
          BY <1>1, <2>1, <3>1 DEF IInv, TypeOK
        <4>2. \A p : p \in Reports(requests, fs) => p[1] \in fs
          BY ReportsRestricted
        <4>3. {p \in told'[v] : p[1] \in fs} = Reports(requests, fs)
          BY <4>1, <4>2
        <4>4. queried'[v] \intersect answered'[v] = fs
          BY <4>1
        <4> QED BY <1>1, <4>3, <4>4
      <3>2. CASE v # u
        <4>1. queried'[v] = queried[v] /\ answered'[v] = answered[v] /\ told'[v] = told[v]
          BY <1>1, <1>2, <2>1, <3>2 DEF IInv, TypeOK
        <4> QED BY <1>1, <4>1 DEF ViewInv, SubscribersInSync
      <3> QED BY <3>1, <3>2
    <2>3. Unanswered'
      BY <1>1, <1>3, <2>1 DEF ViewInv, Unanswered, IInv, TypeOK
    <2> QED BY <2>2, <2>3 DEF ViewInv, SubscribersInSync
  <1>4. CASE u \notin Connected
    <2>1. UNCHANGED <<answered, told>>
      BY <1>4 DEF ProcessFloorQuery, viewVars
    <2>2. \A v \in Connected : queried'[v] = queried[v]
      BY <1>1, <1>2, <1>4 DEF IInv, TypeOK
    <2> QED BY <1>1, <2>1, <2>2 DEF ViewInv, SubscribersInSync, Unanswered
  <1> QED BY <1>3, <1>4

\* BFCP NotifyForFloorRequest, SendFloorStatus, ProcessFloorQuery: whatever is
\* granted, released or revoked by nested callbacks, and whoever connects again or
\* leaves meanwhile, what a subscriber was told of its floors adds up to the
\* requests that hold them.
THEOREM SubscribersCorrect == Spec => []SubscribersInSync
  <1>1. Init => ViewInv
    BY DEF Init, ViewInv, SubscribersInSync, Unanswered, Connected
  <1>2. IInv /\ ViewInv /\ [Next]_vars => ViewInv'
    <2> SUFFICES ASSUME IInv, ViewInv, [Next]_vars PROVE ViewInv'
      OBVIOUS
    <2>0. users \subseteq UserId /\ transport \in [UserId -> Conn \union {NoConn}]
          /\ queried \in [UserId -> SUBSET Floor]
      BY DEF IInv, TypeOK
    <2>1. CASE UNCHANGED <<users, requests, queried, transport, answered, told>>
      BY <2>1 DEF ViewInv, SubscribersInSync, Unanswered, Connected, Reports
    <2>2. CASE AddUser
      <3>1. /\ UNCHANGED <<requests, queried, transport, answered, told>>
            /\ lastUser + 1 \in UserId /\ users' = users \union {lastUser + 1}
        BY <2>2, BoundsAssumption DEF AddUser, linkVars, viewVars, IInv, TypeOK, UserId
      <3>2. /\ \A v \in Connected' : v \in UserId
            /\ \A v \in UserId : v \in Connected => v \in Connected'
        BY <2>0, <3>1 DEF Connected
      <3> QED BY <3>1, <3>2, ConnectedInSync
    <2>3. CASE End
      BY <2>3 DEF End, ViewInv, SubscribersInSync, Unanswered, Connected
    <2>4. ASSUME NEW u \in UserId, RemoveUser(u) PROVE ViewInv'
      <3>1. /\ RevokeUserFloorRequests(u) /\ users' = users \ {u} /\ queried' = queried
            /\ transport' = [transport EXCEPT ![u] = NoConn]
        BY <2>4 DEF RemoveUser, CloseTransport
      <3> QED BY <2>0, <3>1, RevokeUserInSync
    <2>5. ASSUME NEW ws \in Conn, NEW u \in UserId, UserConnected(u, ws) PROVE ViewInv'
      <3>1. users' = users /\ u \in users /\ transport' = [transport EXCEPT ![u] = ws]
        BY <2>5 DEF UserConnected
      <3>2. CASE u \in Connected
        <4>1. RevokeUserFloorRequests(u) /\ queried' = [queried EXCEPT ![u] = {}]
          BY <2>5, <3>2 DEF UserConnected
        <4> QED BY <2>0, <3>1, <4>1, RevokeUserInSync
      <3>3. CASE u \notin Connected
        <4>1. UNCHANGED <<requests, queried, answered, told>>
          BY <2>5, <3>3 DEF UserConnected, viewVars
        <4>2. /\ \A v \in Connected' : v \in UserId
              /\ \A v \in UserId : v \in Connected => v \in Connected'
          BY <2>0, <3>1, <3>3 DEF Connected
        <4> QED BY <4>1, <4>2, ConnectedInSync
      <3> QED BY <3>2, <3>3
    <2>6. ASSUME NEW ws \in Conn, onClose(ws) PROVE ViewInv'
      <3> DEFINE u == conn[ws].user
      <3>1. users' = users
        BY <2>6 DEF onClose
      <3>2. CASE u \in users /\ ~ conn[ws].closedByServer
        <4>1. /\ RevokeUserFloorRequests(u)
              /\ transport' = [transport EXCEPT ![u] = NoConn]
              /\ queried' = [queried EXCEPT ![u] = {}]
          BY <2>6, <3>2 DEF onClose
        <4>2. u \in UserId
          BY <2>0, <3>2
        <4> HIDE DEF u
        <4> QED BY <2>0, <3>1, <4>1, <4>2, RevokeUserInSync
      <3>3. CASE u \notin users \/ conn[ws].closedByServer
        BY <2>1, <2>6, <3>1, <3>3 DEF onClose, viewVars
      <3> QED BY <3>2, <3>3
    <2>7. ASSUME NEW ws \in Conn, NEW u \in UserId, DisconnectUser(ws, u) PROVE ViewInv'
      <3>1. /\ RevokeUserFloorRequests(u) /\ users' = users
            /\ queried' = [queried EXCEPT ![u] = {}]
            /\ transport' = [transport EXCEPT ![u] = NoConn]
        BY <2>7 DEF DisconnectUser, CloseTransport
      <3> QED BY <2>0, <3>1, RevokeUserInSync
    <2>8. ASSUME NEW ws \in Conn, NEW u \in UserId, NEW b \in UserId, NEW fs \in Requested,
                 ProcessFloorRequest(ws, u, b, fs)
          PROVE  ViewInv'
      <3> DEFINE new == [id |-> counter, user |-> u, beneficiary |-> b, floors |-> fs]
      <3>1. UNCHANGED <<users, queried, transport, answered>>
        BY <2>8 DEF ProcessFloorRequest, linkVars
      <3>2. CASE IsAuthorised(u)
        <4>1. GrantFloorRequest(new)
          BY <2>8, <3>2 DEF ProcessFloorRequest
        <4> HIDE DEF new
        <4>2. /\ told' = Notified(Connected, RevokedForGrant(new), {new})
              /\ requests' = (requests \ RevokedForGrant(new)) \union {new}
          BY <4>1 DEF GrantFloorRequest
        <4>3. RevokedForGrant(new) \in SUBSET requests
          BY RevokedForGrantBounds
        <4> QED BY <3>1, <4>2, <4>3, NotifyAllInSync
      <3>3. CASE ~ IsAuthorised(u)
        BY <2>1, <2>8, <3>1, <3>3 DEF ProcessFloorRequest
      <3> QED BY <3>2, <3>3
    <2>9. ASSUME NEW ws \in Conn, NEW u \in UserId, NEW r \in requests,
                 ProcessFloorRelease(ws, u, r)
          PROVE  ViewInv'
      <3>1. /\ UNCHANGED <<users, queried, transport, answered>>
            /\ requests' = (requests \ Released(requests, {r})) \union {}
            /\ told' = Notified(Connected, Released(requests, {r}), {})
        BY <2>9 DEF ProcessFloorRelease, EndRequests, linkVars
      <3>2. Released(requests, {r}) \in SUBSET requests
        <4>1. {r} \in SUBSET requests
          OBVIOUS
        <4> QED BY <4>1, ReleasedBounds
      <3> QED BY <3>1, <3>2, NotifyAllInSync
    <2>10. ASSUME NEW ws \in Conn, NEW u \in UserId, NEW fs \in Queried,
                  ProcessFloorQuery(ws, u, fs)
           PROVE  ViewInv'
      BY <2>10, ProcessFloorQueryInSync
    <2>11. CASE UNCHANGED vars \/ \E u \in UserId : SetChair(u)
      BY <2>1, <2>11 DEF vars, serverVars, linkVars, viewVars, SetChair
    <2> QED BY <2>2, <2>3, <2>4, <2>5, <2>6, <2>7, <2>8, <2>9, <2>10, <2>11 DEF Next
  <1>3. ViewInv => SubscribersInSync
    BY DEF ViewInv
  <1> QED BY <1>1, <1>2, <1>3, Invariance, PTL DEF Spec
=============================================================================
