---------------------------- MODULE DashboardRefresh ----------------------------
(***************************************************************************)
(* The refreshes of one dashboard: RefreshOrchestratorService over         *)
(* DurableRefreshCoordinatorAdapter, with PrismaRefreshRepositoryAdapter   *)
(* for the executions, PrismaRefreshEventStoreAdapter for the commit of a  *)
(* snapshot, and the snapshot each API process keeps in memory.            *)
(*                                                                         *)
(* reserveRefreshTrigger is cut where its transaction has read: what it    *)
(* writes is guarded by the revision of the row it read and by unique      *)
(* keys, so that the order of the commits is all that matters.  The other  *)
(* operations read a row and write it guarded by what they read; a step    *)
(* stands for one that succeeds.  A refresh is named by the trigger that   *)
(* opened it, an input selector by the trigger it came with.               *)
(***************************************************************************)
EXTENDS Naturals, Sequences, FiniteSets

CONSTANTS Last,         \* triggers are 1 .. Last, numbered by the time they occurred
          Window,       \* debounceWindowMs
          Procs,        \* API processes that accept triggers
          Readers,      \* API processes that are asked for the snapshot
          Workers,      \* runs of a worker, each with a lease of its own
          None,
          Late,         \* whether leases expire and crashes are recovered after the refresh was closed
          MaxRevision   \* bound on the revision of a refresh

Triggers == 1 .. Last

VARIABLES group,      \* triggers of one group are for the same versions and definitions
          refresh,    \* dashboard_refresh_executions
          key,        \* dashboard_refresh_idempotency: the refresh of a trigger
          latest,     \* the trigger accepted last
          pointer,    \* the last snapshot of dashboard_refresh_state
          clock,      \* the time of the snapshots
          call,       \* reserveRefreshTrigger, one per process at a time
          worker,     \* the runs
          cache,      \* the snapshot in the memory of a process
          read        \* getCurrentSnapshot, one per process at a time

vars == <<group, refresh, key, latest, pointer, clock, call, worker, cache, read>>

States == {"PENDING", "RUNNING", "VERIFYING", "COMMITTED", "FAILED", "SUPERSEDED"}

Refreshes == [state : States, revision : 1 .. MaxRevision, selector : Triggers,
              triggers : SUBSET Triggers, lease : Workers \cup {None}]

Snapshots == [selector : Triggers, refresh : Triggers, at : Nat]

TypeOK ==
    /\ group \in [Triggers -> {1, 2}]
    /\ refresh \in [Triggers -> Refreshes \cup {None}]
    /\ key \in [Triggers -> Triggers \cup {None}]
    /\ latest \in Triggers \cup {None}
    /\ pointer \in Snapshots \cup {None}
    /\ clock \in 0 .. Cardinality(Workers)
    /\ call \in [Procs -> [trigger : Triggers \cup {None}, open : Triggers \cup {None},
                           revision : 0 .. MaxRevision, attempt : 0 .. 2]]
    /\ worker \in [Workers -> [at : {"idle", "running", "computed", "verified", "committed", "done"},
                               snapshot : Snapshots \cup {None}, revision : 0 .. MaxRevision]]
    /\ cache \in [Readers -> Snapshots \cup {None}]
    /\ read \in [Readers -> [at : {"idle", "found", "done"}, since : Nat, value : Snapshots \cup {None}]]

NoCall == [trigger |-> None, open |-> None, revision |-> 0, attempt |-> 0]

\* The time of a snapshot, 0 when there is none.
TimeOf(snapshot) == IF snapshot = None THEN 0 ELSE snapshot.at

Init ==
    /\ group \in [Triggers -> {1, 2}]
    /\ refresh = [t \in Triggers |-> None]
    /\ key = [t \in Triggers |-> None]
    /\ latest = None
    /\ pointer = None
    /\ clock = 0
    /\ call = [p \in Procs |-> NoCall]
    /\ worker = [w \in Workers |-> [at |-> "idle", snapshot |-> None, revision |-> 0]]
    /\ cache = [p \in Readers |-> None]
    /\ read = [p \in Readers |-> [at |-> "idle", since |-> 0, value |-> None]]

isOpenState(state) == state \in {"PENDING", "RUNNING", "VERIFYING"}

Open(r) == refresh[r] # None /\ isOpenState(refresh[r].state)

\* The unique open key of the dashboard lets r be open.
MayOpen(r) == \A s \in Triggers \ {r} : ~Open(s)

-----------------------------------------------------------------------------
(* reserveRefreshTrigger                                                   *)

\* A trigger is delivered, perhaps again; the transaction finds its key, or reads the open refresh.
Read(p, t, attempt) ==
    IF key[t] # None THEN call' = [call EXCEPT ![p] = NoCall]
    ELSE \/ \E r \in Triggers :
              /\ Open(r)
              /\ call' = [call EXCEPT ![p] = [trigger |-> t, open |-> r, attempt |-> attempt,
                                             revision |-> refresh[r].revision]]
         \/ /\ \A r \in Triggers : ~Open(r)
            /\ call' = [call EXCEPT ![p] = [NoCall EXCEPT !.trigger = t, !.attempt = attempt]]

AcceptTrigger(p, t) ==
    /\ call[p] = NoCall
    /\ Read(p, t, 0)
    /\ UNCHANGED <<group, refresh, key, latest, pointer, clock, worker, cache, read>>

\* The row still has the revision that was read.
Current(p) ==
    call[p].open # None => /\ Open(call[p].open)
                           /\ refresh[call[p].open].revision = call[p].revision

canCoalesce(p) ==
    LET t == call[p].trigger
        r == call[p].open IN
    /\ r # None
    /\ group[r] = group[t]
    /\ t <= r + Window

\* What the update of a coalescing trigger writes: the arrays that were read, and one more.
Coalesced(p) ==
    [refresh EXCEPT ![call[p].open].selector = call[p].trigger,
                    ![call[p].open].triggers = @ \cup {call[p].trigger},
                    ![call[p].open].revision = call[p].revision + 1]

\* (Mutant of NewRefresh) The row begins at revision 0.
NewRefreshUnrevised(t) ==
    [state |-> "PENDING", revision |-> 0, selector |-> t, triggers |-> {t}, lease |-> None]

NewRefresh(t) ==
    [state |-> "PENDING", revision |-> 1, selector |-> t, triggers |-> {t}, lease |-> None]

\* A new refresh takes the place of one that is open for other inputs, or for too long.
Superseding(p) ==
    [r \in Triggers |->
        IF r = call[p].trigger THEN NewRefresh(r)
        ELSE IF r = call[p].open
        THEN [refresh[r] EXCEPT !.state = "SUPERSEDED", !.revision = call[p].revision + 1]
        ELSE refresh[r]]

\* The keys and the open key are unique.
Unique(p) ==
    /\ key[call[p].trigger] = None
    /\ call[p].open = None => MayOpen(call[p].trigger)

Reserve(p) ==
    LET t == call[p].trigger IN
    /\ t # None
    /\ Current(p) /\ Unique(p)
    /\ call[p].revision < MaxRevision
    /\ refresh' = IF canCoalesce(p) THEN Coalesced(p) ELSE Superseding(p)
    /\ key' = [key EXCEPT ![t] = IF canCoalesce(p) THEN call[p].open ELSE t]
    /\ latest' = t
    /\ call' = [call EXCEPT ![p] = NoCall]
    /\ UNCHANGED <<group, pointer, clock, worker, cache, read>>

\* The transaction fails and is repeated, three times at most.
RetryReserve(p) ==
    /\ call[p].trigger # None
    /\ ~(Current(p) /\ Unique(p))
    /\ IF call[p].attempt = 2 THEN call' = [call EXCEPT ![p] = NoCall]
                              ELSE Read(p, call[p].trigger, call[p].attempt + 1)
    /\ UNCHANGED <<group, refresh, key, latest, pointer, clock, worker, cache, read>>

-----------------------------------------------------------------------------
(* transitionRefresh                                                       *)

\* No transition looks at the state it starts from; what is asked for after the refresh was closed
\* is considered when Late.
Transition(r, state, lease) ==
    /\ refresh[r] # None
    /\ Late \/ Open(r)
    /\ isOpenState(state) => MayOpen(r)
    /\ refresh[r].revision < MaxRevision
    /\ refresh' = [refresh EXCEPT ![r].state = state, ![r].lease = lease, ![r].revision = @ + 1]
    /\ UNCHANGED <<group, key, latest, pointer, call, cache, read>>

markRunning(w, r) ==
    /\ worker[w].at = "idle"
    /\ Transition(r, "RUNNING", w)
    /\ worker' = [worker EXCEPT ![w].at = "running",
                                ![w].snapshot = [selector |-> refresh[r].selector, refresh |-> r, at |-> 0]]
    /\ clock' = clock

\* The worker makes the snapshot of the input it was given; it may stop before any of its steps.
Compute(w) ==
    /\ worker[w].at = "running"
    /\ clock' = clock + 1
    /\ worker' = [worker EXCEPT ![w].at = "computed", ![w].snapshot.at = clock + 1]
    /\ UNCHANGED <<group, refresh, key, latest, pointer, call, cache, read>>

\* recoverAfterCrash, AFTER_RESULT_VERIFICATION: with the lease of the one who calls it.
Verify(w) ==
    /\ worker[w].at = "computed"
    /\ Transition(worker[w].snapshot.refresh, "VERIFYING", w)
    /\ worker' = [worker EXCEPT ![w].at = "verified",
                                ![w].revision = refresh[worker[w].snapshot.refresh].revision + 1]
    /\ clock' = clock

\* recoverAfterCrash, DURING_SNAPSHOT_COMMIT.
RecoverFailed(r) == Transition(r, "FAILED", None) /\ UNCHANGED <<worker, clock>>

handleLeaseExpiry(r) ==
    /\ refresh[r] # None
    /\ refresh[r].lease # None
    /\ Transition(r, "PENDING", None)
    /\ UNCHANGED <<worker, clock>>

-----------------------------------------------------------------------------
(* commitSnapshotAndEvent                                                  *)

\* (Mutant of Committable) Neither the revision nor the input is compared.
CommittableByLease(w) ==
    /\ refresh[worker[w].snapshot.refresh].lease = w
    /\ refresh[worker[w].snapshot.refresh].state = "VERIFYING"

Committable(w) ==
    LET row == refresh[worker[w].snapshot.refresh] IN
    /\ row.selector = worker[w].snapshot.selector
    /\ row.lease = w
    /\ row.state = "VERIFYING"
    /\ row.revision = worker[w].revision
    /\ TimeOf(pointer) <= worker[w].snapshot.at

\* (Mutant of Committed) The pointer is left to saveState, after the commit.
CommittedWithoutPointer(w) == UNCHANGED pointer

Committed(w) == pointer' = worker[w].snapshot

CommitSnapshot(w) ==
    LET r == worker[w].snapshot.refresh IN
    /\ worker[w].at = "verified"
    /\ refresh[r].revision < MaxRevision
    /\ IF Committable(w)
       THEN /\ refresh' = [refresh EXCEPT ![r].state = "COMMITTED", ![r].revision = @ + 1]
            /\ Committed(w)
            /\ worker' = [worker EXCEPT ![w].at = "committed"]
       ELSE /\ worker' = [worker EXCEPT ![w].at = "done"]
            /\ UNCHANGED <<refresh, pointer>>
    /\ UNCHANGED <<group, key, latest, clock, call, cache, read>>

\* The process that committed keeps the snapshot in memory.
Remember(w, p) ==
    /\ worker[w].at = "committed"
    /\ cache' = [cache EXCEPT ![p] = worker[w].snapshot]
    /\ worker' = [worker EXCEPT ![w].at = "done"]
    /\ UNCHANGED <<group, refresh, key, latest, pointer, clock, call, read>>

-----------------------------------------------------------------------------
(* getCurrentSnapshot                                                      *)

\* The snapshot in memory, or else the one of the database.
BeginRead(p) ==
    /\ read[p].at # "found"
    /\ read' = [read EXCEPT ![p] =
                  [at |-> IF cache[p] # None THEN "done" ELSE "found", since |-> TimeOf(pointer),
                   value |-> IF cache[p] # None THEN cache[p] ELSE pointer]]
    /\ UNCHANGED <<group, refresh, key, latest, pointer, clock, call, worker, cache>>

\* What was found is kept in memory, whatever has been put there.
EndRead(p) ==
    /\ read[p].at = "found"
    /\ read' = [read EXCEPT ![p].at = "done"]
    /\ cache' = [cache EXCEPT ![p] = IF read[p].value = None THEN @ ELSE read[p].value]
    /\ UNCHANGED <<group, refresh, key, latest, pointer, clock, call, worker>>

-----------------------------------------------------------------------------

Next ==
    \/ \E p \in Procs, t \in Triggers : AcceptTrigger(p, t)
    \/ \E p \in Procs : Reserve(p) \/ RetryReserve(p)
    \/ \E p \in Readers : BeginRead(p) \/ EndRead(p)
    \/ \E w \in Workers, r \in Triggers : markRunning(w, r)
    \/ \E w \in Workers : Compute(w) \/ Verify(w) \/ CommitSnapshot(w)
    \/ \E w \in Workers, p \in Readers : Remember(w, p)
    \/ \E r \in Triggers : RecoverFailed(r) \/ handleLeaseExpiry(r)

Spec == Init /\ [][Next]_vars

-----------------------------------------------------------------------------
(* Properties                                                              *)

\* A trigger delivered several times, to several processes at once, is in exactly one refresh:
\* the idempotency keys and the rows of the executions tell the same story.
KeysMatch ==
    \A t, r \in Triggers : key[t] = r <=> refresh[r] # None /\ t \in refresh[r].triggers

\* When the refresh of the trigger accepted last has committed, the dashboard shows the input of
\* that trigger: coalescing loses no input, and no overtaken refresh publishes after it.
LatestWins ==
    latest # None /\ refresh[key[latest]].state = "COMMITTED" =>
        pointer # None /\ pointer.selector = latest

\* A dashboard never goes back to a snapshot that was computed earlier.
SnapshotsMoveForward == [][TimeOf(pointer) <= TimeOf(pointer')]_vars
=============================================================================
