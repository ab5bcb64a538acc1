------------------------------- MODULE RWLock -------------------------------
(***************************************************************************)
(* What the class Use (include/use.h) promises to its callers: any number  *)
(* of threads use the protected object at once, or one thread owns it; and *)
(* a thread that has asked for it in WaitUnusedAndLock keeps new users out *)
(* until it has had its turn.                                              *)
(*                                                                         *)
(* The operators on a lock value are also the lock of ConferenceRefs and   *)
(* EventQueues; UseLock shows that the mutexes of use.h implement it.      *)
(***************************************************************************)
CONSTANTS
    Thread,     \* the threads of the media server
    NoThread    \* nobody; not a thread

VARIABLE rw     \* the lock: its users, who claims it and who owns it

-----------------------------------------------------------------------------

Lock == [users : SUBSET Thread, claim : Thread \cup {NoThread}, owner : Thread \cup {NoThread}]

Unlocked == [users |-> {}, claim |-> NoThread, owner |-> NoThread]

\* IncUse and DecUse
CanIncUse(l) == l.claim = NoThread
IncUse(l, t) == [l EXCEPT !.users = @ \cup {t}]
DecUse(l, t) == [l EXCEPT !.users = @ \ {t}]

\* WaitUnusedAndLock: claim the lock, then own it when nobody uses it
CanClaim(l) == l.claim = NoThread
Claimed(l, t) == [l EXCEPT !.claim = t]
IsUnused(l) == l.users = {}
Owned(l, t) == [l EXCEPT !.owner = t]

\* Unlock
Unlock(l) == [users |-> l.users, claim |-> NoThread, owner |-> NoThread]

-----------------------------------------------------------------------------

Init == rw = Unlocked

Use(t) == /\ CanIncUse(rw) /\ t \notin rw.users
          /\ rw' = IncUse(rw, t)

Leave(t) == /\ t \in rw.users
            /\ rw' = DecUse(rw, t)

Claim(t) == /\ CanClaim(rw) /\ t \notin rw.users
            /\ rw' = Claimed(rw, t)

Own(t) == /\ rw.claim = t /\ rw.owner # t /\ IsUnused(rw)
          /\ rw' = Owned(rw, t)

Release(t) == /\ rw.owner = t
              /\ rw' = Unlock(rw)

Next == \E t \in Thread : Use(t) \/ Leave(t) \/ Claim(t) \/ Own(t) \/ Release(t)

Spec == Init /\ [][Next]_rw

=============================================================================
