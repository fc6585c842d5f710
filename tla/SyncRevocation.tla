---------------------------- MODULE SyncRevocation ----------------------------
(***************************************************************************)
(* Sign-out on Android against the background work of the same account and *)
(* workspace: SharedPreferencesSyncRevocationGuard, SyncWorker and         *)
(* ReceiptUploadWorker, AndroidRuntime.signOut, and the application that   *)
(* builds a new AndroidRuntime, with a guard of its own, after every       *)
(* sign-in, sign-out and enrollment.  WorkManager keeps the worker factory *)
(* of the runtime it was initialized with.  The revocation is persisted;   *)
(* the mutex lives in the guard.                                           *)
(***************************************************************************)
EXTENDS Naturals

CONSTANTS Workers,      \* the kinds of work that run under a permit: sync, receipts
          MaxRuntimes,  \* bound on the runtimes that are built
          MaxRestarts   \* bound on process restarts

VARIABLES user,      \* signed in, on the way out, or out
          revoked,   \* the persisted mark of the scope
          signer,    \* the runtime that set the mark last, 0 when none has (history)
          runtime,   \* the current AndroidRuntime
          factory,   \* the runtime whose workerFactory WorkManager has, 0 before its first use
          worker,    \* what a worker is doing
          restarts

vars == <<user, revoked, signer, runtime, factory, worker, restarts>>

Runtimes == 1 .. MaxRuntimes

TypeOK ==
    /\ user \in {"in", "leaving", "waiting", "clearing", "out"}
    /\ revoked \in BOOLEAN
    /\ signer \in Runtimes \cup {0}
    /\ runtime \in Runtimes
    /\ factory \in Runtimes \cup {0}
    /\ worker \in [Workers -> {"idle", "queued", "started", "permit", "transport"}]
    /\ restarts \in 0 .. MaxRestarts

Init ==
    /\ user = "in"
    /\ revoked = FALSE
    /\ signer = 0
    /\ runtime = 1
    /\ factory = 0
    /\ worker = [k \in Workers |-> "idle"]
    /\ restarts = 0

\* The workers hold the mutex of the guard in the factory of WorkManager.
Holds(k) == worker[k] \in {"permit", "transport"}

Free(guard) == guard = factory => \A k \in Workers : ~Holds(k)

-----------------------------------------------------------------------------
(* Work                                                                    *)

\* A user of the application schedules work; the first use initializes WorkManager.
enqueue(k) ==
    /\ user = "in"
    /\ worker[k] = "idle"
    /\ worker' = [worker EXCEPT ![k] = "queued"]
    /\ factory' = IF factory = 0 THEN runtime ELSE factory
    /\ UNCHANGED <<user, revoked, signer, runtime, restarts>>

Start(k) ==
    /\ worker[k] = "queued"
    /\ worker' = [worker EXCEPT ![k] = "started"]
    /\ factory' = IF factory = 0 THEN runtime ELSE factory
    /\ UNCHANGED <<user, revoked, signer, runtime, restarts>>

\* mutexFor(scope).withLock
Lock(k) ==
    /\ worker[k] = "started"
    /\ Free(factory)
    /\ worker' = [worker EXCEPT ![k] = "permit"]
    /\ UNCHANGED <<user, revoked, signer, runtime, factory, restarts>>

\* (Mutant of withPermit) The early return keeps the lock.
withPermitKept(k) ==
    /\ worker[k] = "permit"
    /\ worker' = [worker EXCEPT ![k] = IF revoked THEN "permit" ELSE "transport"]
    /\ UNCHANGED <<user, revoked, signer, runtime, factory, restarts>>

withPermit(k) ==
    /\ worker[k] = "permit"
    /\ worker' = [worker EXCEPT ![k] = IF revoked THEN "idle" ELSE "transport"]
    /\ UNCHANGED <<user, revoked, signer, runtime, factory, restarts>>

\* The transport answers: the work is done, has failed, or is tried again.
Finish(k) ==
    /\ worker[k] = "transport"
    /\ \E next \in {"idle", "queued"} : worker' = [worker EXCEPT ![k] = next]
    /\ UNCHANGED <<user, revoked, signer, runtime, factory, restarts>>

-----------------------------------------------------------------------------
(* The application                                                         *)

\* The session is cleared before the scope is revoked.
signOut ==
    /\ user = "in"
    /\ user' = "leaving"
    /\ UNCHANGED <<revoked, signer, runtime, factory, worker, restarts>>

\* (Mutant of revoke) The mark is set, and nobody is waited for.
revokeAtOnce ==
    /\ user = "leaving"
    /\ revoked' = TRUE
    /\ signer' = runtime
    /\ user' = "clearing"
    /\ UNCHANGED <<runtime, factory, worker, restarts>>

revoke ==
    /\ user = "leaving"
    /\ revoked' = TRUE
    /\ signer' = runtime
    /\ user' = "waiting"
    /\ UNCHANGED <<runtime, factory, worker, restarts>>

\* The lock of the guard of the current runtime, taken and given back.
AwaitInFlight ==
    /\ user = "waiting"
    /\ Free(runtime)
    /\ user' = "clearing"
    /\ UNCHANGED <<revoked, signer, runtime, factory, worker, restarts>>

\* The queued synchronization is cancelled, the local state is cleared, and the runtime rebuilt
\* (the last one stands for all that would follow it).
ClearScope ==
    /\ user = "clearing"
    /\ user' = "out"
    /\ worker' = [k \in Workers |-> IF k = "sync" /\ worker[k] = "queued" THEN "idle" ELSE worker[k]]
    /\ runtime' = IF runtime < MaxRuntimes THEN runtime + 1 ELSE runtime
    /\ UNCHANGED <<revoked, signer, factory, restarts>>

\* onAuthenticated is refreshRuntime: it builds a runtime and reactivates nothing.
signIn ==
    /\ user = "out"
    /\ runtime < MaxRuntimes
    /\ user' = "in"
    /\ runtime' = runtime + 1
    /\ UNCHANGED <<revoked, signer, factory, worker, restarts>>

\* Enrollment stores the device identity and builds a runtime.
persistDeviceEnrollment ==
    /\ user = "in"
    /\ runtime < MaxRuntimes
    /\ runtime' = runtime + 1
    /\ UNCHANGED <<user, revoked, signer, factory, worker, restarts>>

\* WorkManager starts again what was running; a sign-out that was under way is not resumed, and
\* the session is gone.
Restart ==
    /\ restarts < MaxRestarts
    /\ restarts' = restarts + 1
    /\ factory' = 0
    /\ worker' = [k \in Workers |-> IF worker[k] = "idle" THEN "idle" ELSE "queued"]
    /\ user' = IF user = "in" THEN "in" ELSE "out"
    /\ UNCHANGED <<revoked, signer, runtime>>

-----------------------------------------------------------------------------
Work(k) == Start(k) \/ Lock(k) \/ withPermit(k) \/ Finish(k)

SignOut == revoke \/ AwaitInFlight \/ ClearScope

Next ==
    \/ \E k \in Workers : enqueue(k) \/ Work(k)
    \/ signOut \/ SignOut \/ signIn \/ persistDeviceEnrollment \/ Restart

Spec == Init /\ [][Next]_vars

\* Coroutines that can go on do, a mutex is handed on in order, and requests time out.
FairSpec ==
    /\ Spec
    /\ WF_vars(SignOut) /\ SF_vars(AwaitInFlight)
    /\ \A k \in Workers : WF_vars(Work(k)) /\ SF_vars(Lock(k))

-----------------------------------------------------------------------------
\* Once the mark is set and the sign-out has waited, no transport of the scope is under way, unless
\* WorkManager runs it under the guard of another runtime than the one that signed out: the mark is
\* persisted before the mutex of the guard is waited for, so what stood between its lock and its
\* check is waited for or has no effect, also when runtimes are built, and the process starts again.
SignOutIsQuiet ==
    revoked /\ (\E k \in Workers : worker[k] = "transport") => user = "waiting" \/ factory /= signer

\* A sign-out always comes to its end, whatever the workers are doing.
SignOutEnds == user = "leaving" ~> user = "out"
=============================================================================
