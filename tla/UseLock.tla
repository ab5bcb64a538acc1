------------------------------ MODULE UseLock ------------------------------
(***************************************************************************)
(* The class Use of include/use.h, one step per call to the pthread        *)
(* library.  Two mutexes and a condition variable: "lock" is held for the  *)
(* whole of IncUse and from WaitUnusedAndLock to Unlock, "mutex" protects  *)
(* the counter cont, and cond wakes the thread that waits for cont to be 0.*)
(* A thread calls IncUse and later DecUse, or WaitUnusedAndLock and later  *)
(* Unlock, over and over.                                                  *)
(*                                                                         *)
(* A test or an assignment of cont is one step with the release of mutex   *)
(* that follows it.  pthread_cond_wait may return without a signal, at     *)
(* most MaxSpurious times.                                                 *)
(***************************************************************************)
EXTENDS Naturals, FiniteSets

CONSTANTS Thread, NoThread, MaxSpurious

ASSUME UseLockAssumption == /\ NoThread \notin Thread
                            /\ IsFiniteSet(Thread)
                            /\ MaxSpurious \in Nat

VARIABLES
    lock,       \* the thread that holds "lock", or NoThread
    mutex,      \* the thread that holds "mutex", or NoThread
    cont,       \* the number of users
    pc,         \* for each thread, the call it makes next
    spurious    \* how often pthread_cond_wait has returned without a signal

useVars == <<lock, mutex, cont, pc, spurious>>

\* IncUse is entered at "inc_lock", DecUse at "using", WaitUnusedAndLock at
\* "wait_lock" and Unlock at "owning".
PC == {"idle", "inc_lock", "inc_mutex", "inc_cont", "inc_unlock", "using",
       "dec_cont", "dec_signal", "wait_lock", "wait_mutex", "wait_test",
       "wait_cond", "wait_woken", "owning", "unlock_lock"}

HoldsLock == {"inc_mutex", "inc_cont", "inc_unlock", "wait_mutex", "wait_test",
              "wait_cond", "wait_woken", "owning", "unlock_lock"}

HoldsMutex == {"inc_cont", "dec_cont", "wait_test", "owning"}

At(labels) == {t \in Thread : pc[t] \in labels}

Goto(t, from, to) == pc[t] = from /\ pc' = [pc EXCEPT ![t] = to]

-----------------------------------------------------------------------------

UseInit == /\ lock = NoThread /\ mutex = NoThread
           /\ cont = 0
           /\ pc = [t \in Thread |-> "idle"]
           /\ spurious = 0

\* pthread_mutex_lock(&mutex)
LockMutex(t, from, to) ==
    /\ Goto(t, from, to)
    /\ mutex = NoThread /\ mutex' = t
    /\ UNCHANGED <<lock, cont, spurious>>

\* pthread_mutex_lock(&lock)
LockLock(t, from, to) ==
    /\ Goto(t, from, to)
    /\ lock = NoThread /\ lock' = t
    /\ UNCHANGED <<mutex, cont, spurious>>

\* pthread_mutex_unlock(&lock)
UnlockLock(t, from, to) ==
    /\ Goto(t, from, to)
    /\ lock' = NoThread
    /\ UNCHANGED <<mutex, cont, spurious>>

\* A thread calls IncUse or WaitUnusedAndLock
Enter(t) == /\ Goto(t, "idle", "inc_lock") \/ Goto(t, "idle", "wait_lock")
            /\ UNCHANGED <<lock, mutex, cont, spurious>>

\* Mutant: IncUse takes only the mutex of the counter
IncUseLockMutexOnly(t) == /\ Goto(t, "inc_lock", "inc_mutex")
                          /\ UNCHANGED <<lock, mutex, cont, spurious>>

IncUseLock(t) == LockLock(t, "inc_lock", "inc_mutex")

IncUseMutex(t) == LockMutex(t, "inc_mutex", "inc_cont")

IncUseCont(t) == /\ Goto(t, "inc_cont", "inc_unlock")
                 /\ cont' = cont + 1
                 /\ mutex' = NoThread
                 /\ UNCHANGED <<lock, spurious>>

IncUseUnlock(t) == UnlockLock(t, "inc_unlock", "using")

DecUseMutex(t) == LockMutex(t, "using", "dec_cont")

DecUseCont(t) == /\ Goto(t, "dec_cont", "dec_signal")
                 /\ cont' = cont - 1
                 /\ mutex' = NoThread
                 /\ UNCHANGED <<lock, spurious>>

\* Mutant: DecUse returns without the signal
DecUseSignalLost(t) == /\ Goto(t, "dec_signal", "idle")
                       /\ UNCHANGED <<lock, mutex, cont, spurious>>

\* pthread_cond_signal: the thread that waits, if there is one, is woken
DecUseSignal(t) == /\ pc[t] = "dec_signal"
                   /\ pc' = [u \in Thread |-> IF u = t THEN "idle"
                                              ELSE IF pc[u] = "wait_cond" THEN "wait_woken"
                                              ELSE pc[u]]
                   /\ UNCHANGED <<lock, mutex, cont, spurious>>

WaitLock(t) == LockLock(t, "wait_lock", "wait_mutex")

WaitMutex(t) == LockMutex(t, "wait_mutex", "wait_test")

\* while(cont): pthread_cond_wait releases mutex
WaitTest(t) == /\ IF cont = 0
                  THEN Goto(t, "wait_test", "owning") /\ UNCHANGED mutex
                  ELSE Goto(t, "wait_test", "wait_cond") /\ mutex' = NoThread
               /\ UNCHANGED <<lock, cont, spurious>>

SpuriousWakeup(t) == /\ Goto(t, "wait_cond", "wait_woken")
                     /\ spurious < MaxSpurious /\ spurious' = spurious + 1
                     /\ UNCHANGED <<lock, mutex, cont>>

\* Mutant: "if(cont)" for "while(cont)", no test after the wake-up
WaitWokenOwns(t) == LockMutex(t, "wait_woken", "owning")

\* pthread_cond_wait takes mutex again before it returns
WaitWoken(t) == LockMutex(t, "wait_woken", "wait_test")

UnlockMutex(t) == /\ Goto(t, "owning", "unlock_lock")
                  /\ mutex' = NoThread
                  /\ UNCHANGED <<lock, cont, spurious>>

UnlockUnlock(t) == UnlockLock(t, "unlock_lock", "idle")

\* The steps a thread takes once it has called a method, until it returns
IncUse(t) == IncUseLock(t) \/ IncUseMutex(t) \/ IncUseCont(t) \/ IncUseUnlock(t)
DecUse(t) == DecUseMutex(t) \/ DecUseCont(t) \/ DecUseSignal(t)
WaitUnusedAndLock(t) == WaitLock(t) \/ WaitMutex(t) \/ WaitTest(t) \/ WaitWoken(t)
Unlock(t) == UnlockMutex(t) \/ UnlockUnlock(t)

Step(t) == IncUse(t) \/ DecUse(t) \/ WaitUnusedAndLock(t) \/ Unlock(t)

UseNext == \E t \in Thread : Enter(t) \/ Step(t) \/ SpuriousWakeup(t)

UseSpec == UseInit /\ [][UseNext]_useVars

\* A running thread that can take its next step takes it; a user calls DecUse
\* and an owner Unlock.  Nothing is assumed about who gets a contended mutex.
FairUseSpec == UseSpec /\ \A t \in Thread : WF_useVars(Step(t))

-----------------------------------------------------------------------------

UseTypeOK == /\ lock \in Thread \cup {NoThread}
             /\ mutex \in Thread \cup {NoThread}
             /\ cont \in Nat
             /\ pc \in [Thread -> PC]
             /\ spurious \in 0..MaxSpurious

\* The threads that cont counts.
Users == At({"inc_unlock", "using", "dec_cont"})

\* The threads between WaitUnusedAndLock and Unlock's last call.
Owners == At({"owning", "unlock_lock"})

\* use.h: while a thread owns the object, from the return of WaitUnusedAndLock
\* to the end of Unlock, no thread uses it and no other thread owns it.
OwnerExcludesUsers ==
    \A t \in Owners : Users = {} /\ Owners = {t}

\* use.h DecUse signals after it has released mutex, so the test of cont and
\* the wait cannot miss it: a thread asleep in WaitUnusedAndLock with cont at 0
\* is about to be signalled.
NoLostWakeup ==
    At({"wait_cond"}) # {} /\ cont = 0 => At({"dec_signal"}) # {}

\* use.h: once WaitUnusedAndLock holds "lock" no new user comes in, and the
\* thread owns the object after the users it found have called DecUse.
ClaimIsServed ==
    \A t \in Thread : pc[t] = "wait_mutex" ~> pc[t] = "owning"

\* What the state stands for as a readers-writer lock: a thread claims it while
\* it holds "lock" in WaitUnusedAndLock.
Claims == {"wait_mutex", "wait_test", "wait_cond", "wait_woken", "owning", "unlock_lock"}

Claimant == IF lock \in At(Claims) THEN lock ELSE NoThread

Owner == IF lock \in Owners THEN lock ELSE NoThread

RWState == [users |-> Users, claim |-> Claimant, owner |-> Owner]

RW == INSTANCE RWLock WITH rw <- RWState

\* use.h implements the readers-writer lock that its callers rely on.
ImplementsRWLock == RW!Spec

=============================================================================
