------------------------ MODULE DashboardRefreshProofs ------------------------
(* Theorems about DashboardRefresh, for every number of triggers, of        *)
(* processes and of runs.                                                   *)
EXTENDS DashboardRefresh, FiniteSetTheorems, TLAPS

\* What the constants have to be.
RefreshConstants ==
    /\ MaxRevision \in Nat
    /\ None \notin Triggers /\ None \notin Refreshes /\ None \notin Snapshots

RefreshCalls == [trigger : Triggers \cup {None}, open : Triggers \cup {None},
                 revision : 0 .. MaxRevision, attempt : 0 .. 2]

RefreshRuns == [at : {"idle", "running", "computed", "verified", "committed", "done"},
                snapshot : Snapshots \cup {None}, revision : 0 .. MaxRevision]

\* What has to be known of the rows; a run that has begun has a snapshot, finished or not, of a
\* refresh that has a row.
RefreshRows ==
    /\ refresh \in [Triggers -> Refreshes \cup {None}]
    /\ key \in [Triggers -> Triggers \cup {None}]
    /\ latest \in Triggers \cup {None}
    /\ pointer \in Snapshots \cup {None}
    /\ clock \in Nat
    /\ call \in [Procs -> RefreshCalls]
    /\ worker \in [Workers -> RefreshRuns]
    /\ \A w \in Workers : worker[w].at # "idle" =>
          worker[w].snapshot \in Snapshots /\ refresh[worker[w].snapshot.refresh] \in Refreshes

LEMMA RefreshRowsBegin == ASSUME RefreshConstants, Init PROVE RefreshRows
  <1>1. NoCall \in RefreshCalls
    BY DEF RefreshConstants, NoCall, RefreshCalls
  <1>2. [at |-> "idle", snapshot |-> None, revision |-> 0] \in RefreshRuns
    BY DEF RefreshConstants, RefreshRuns
  <1> QED
    BY <1>1, <1>2 DEF Init, RefreshRows

\* The refresh of a run that has begun is one of a trigger.
LEMMA RefreshOfRun ==
    ASSUME RefreshConstants, RefreshRows, NEW w \in Workers, worker[w].at # "idle"
    PROVE  worker[w].snapshot \in Snapshots /\ worker[w].snapshot.refresh \in Triggers
           /\ worker[w].snapshot.selector \in Triggers /\ worker[w].snapshot.at \in Nat
           /\ worker[w].snapshot # None /\ refresh[worker[w].snapshot.refresh] \in Refreshes
  BY DEF RefreshConstants, RefreshRows, Snapshots

\* What a transaction has read.
LEMMA RefreshReads ==
    ASSUME RefreshConstants, RefreshRows, NEW p \in Procs, NEW t \in Triggers, NEW attempt \in 0 .. 2, Read(p, t, attempt),
           UNCHANGED <<refresh, key, latest, pointer, clock, worker>>
    PROVE  RefreshRows'
  <1>1. ASSUME NEW n \in RefreshCalls, call' = [call EXCEPT ![p] = n] PROVE RefreshRows'
    BY <1>1 DEF RefreshRows
  <1>2. NoCall \in RefreshCalls
    BY DEF RefreshConstants, NoCall, RefreshCalls
  <1>3. CASE key[t] # None
    BY <1>1, <1>2, <1>3 DEF Read
  <1>4. ASSUME key[t] = None, NEW r \in Triggers, Open(r),
               call' = [call EXCEPT ![p] = [trigger |-> t, open |-> r, attempt |-> attempt,
                                            revision |-> refresh[r].revision]]
        PROVE  RefreshRows'
    <2>1. refresh[r] \in Refreshes
      BY <1>4 DEF RefreshRows, Open
    <2>2. refresh[r].revision \in 0 .. MaxRevision
      BY <2>1 DEF RefreshConstants, Refreshes
    <2>3. [trigger |-> t, open |-> r, attempt |-> attempt, revision |-> refresh[r].revision] \in RefreshCalls
      BY <2>2 DEF RefreshCalls
    <2> QED
      BY <1>1, <1>4, <2>3
  <1>5. CASE call' = [call EXCEPT ![p] = [NoCall EXCEPT !.trigger = t, !.attempt = attempt]]
    <2>1. [NoCall EXCEPT !.trigger = t, !.attempt = attempt] \in RefreshCalls
      BY <1>2 DEF RefreshCalls
    <2> QED
      BY <1>1, <1>5, <2>1
  <1> QED
    BY <1>3, <1>4, <1>5 DEF Read

\* A refresh moves to another state: the row of one refresh is written.
LEMMA RefreshMoves ==
    ASSUME RefreshConstants, RefreshRows, NEW r \in Triggers, NEW state \in States, NEW lease \in Workers \cup {None},
           Transition(r, state, lease)
    PROVE  /\ refresh' \in [Triggers -> Refreshes \cup {None}]
           /\ \A s \in Triggers \ {r} : refresh'[s] = refresh[s]
           /\ refresh[r] \in Refreshes /\ refresh'[r] \in Refreshes
           /\ refresh'[r].state = state
           /\ refresh'[r].selector = refresh[r].selector /\ refresh'[r].triggers = refresh[r].triggers
  <1>1. refresh[r] \in Refreshes /\ refresh \in [Triggers -> Refreshes \cup {None}]
    BY DEF RefreshRows, Transition
  <1> DEFINE v == refresh[r].revision + 1
             n == [refresh[r] EXCEPT !.state = state, !.lease = lease, !.revision = v]
  <1>2. v \in 1 .. MaxRevision
    BY <1>1 DEF RefreshConstants, Transition, Refreshes
  <1>3. refresh' = [refresh EXCEPT ![r] = n]
    BY <1>1 DEF Transition
  <1> HIDE DEF v
  <1>4. /\ n \in Refreshes /\ n.state = state /\ n.selector = refresh[r].selector
        /\ n.triggers = refresh[r].triggers
    BY <1>1, <1>2 DEF Refreshes
  <1> HIDE DEF n
  <1> QED
    BY <1>1, <1>3, <1>4

\* What a reservation writes.
LEMMA RefreshReserves ==
    ASSUME RefreshConstants, RefreshRows, NEW p \in Procs, Reserve(p)
    PROVE  LET t == call[p].trigger
               o == call[p].open IN
           /\ RefreshRows' /\ t \in Triggers /\ latest' = t /\ key[t] = None
           /\ refresh' \in [Triggers -> Refreshes \cup {None}]
           /\ o # None => o \in Triggers /\ Open(o)
           /\ o = None => MayOpen(t)
           /\ canCoalesce(p) =>
                 /\ o # None /\ key' = [key EXCEPT ![t] = o]
                 /\ \A s \in Triggers \ {o} : refresh'[s] = refresh[s]
                 /\ refresh'[o] # None /\ refresh'[o].state = refresh[o].state /\ refresh'[o].selector = t
                 /\ refresh'[o].triggers = refresh[o].triggers \cup {t}
           /\ ~canCoalesce(p) =>
                 /\ key' = [key EXCEPT ![t] = t]
                 /\ refresh'[t] # None /\ refresh'[t].state = "PENDING" /\ refresh'[t].selector = t
                 /\ refresh'[t].triggers = {t}
                 /\ \A s \in Triggers \ {t, o} : refresh'[s] = refresh[s]
                 /\ o # None /\ o # t => /\ refresh'[o].state = "SUPERSEDED"
                                         /\ refresh'[o] # None
                                         /\ refresh'[o].selector = refresh[o].selector
                                         /\ refresh'[o].triggers = refresh[o].triggers
  <1> DEFINE t == call[p].trigger
             o == call[p].open
             v == call[p].revision
  <1>1. /\ call[p] \in RefreshCalls /\ refresh \in [Triggers -> Refreshes \cup {None}]
        /\ key \in [Triggers -> Triggers \cup {None}] /\ call \in [Procs -> RefreshCalls]
    BY DEF RefreshRows
  <1>2. t \in Triggers /\ o \in Triggers \cup {None} /\ v + 1 \in 1 .. MaxRevision /\ 1 \in 1 .. MaxRevision
    BY <1>1 DEF RefreshConstants, RefreshCalls, Reserve
  <1>3. o # None => o \in Triggers /\ Open(o) /\ refresh[o] \in Refreshes
    BY <1>1, <1>2 DEF Reserve, Current, Open
  <1>4. /\ key[t] = None /\ (o = None => MayOpen(t)) /\ latest' = t
        /\ UNCHANGED <<pointer, clock, worker>>
    BY DEF Reserve, Unique
  <1>5. call' \in [Procs -> RefreshCalls]
    <2>1. NoCall \in RefreshCalls
      BY DEF RefreshConstants, NoCall, RefreshCalls
    <2> QED
      BY <1>1, <2>1 DEF Reserve
  <1>6. CASE canCoalesce(p)
    <2> DEFINE n == [refresh[o] EXCEPT !.selector = t, !.triggers = refresh[o].triggers \cup {t}, !.revision = v + 1]
    <2>1. o # None /\ o \in Triggers /\ refresh[o] \in Refreshes
      BY <1>3, <1>6 DEF canCoalesce
    <2>2. refresh' = [refresh EXCEPT ![o] = n] /\ key' = [key EXCEPT ![t] = o]
      BY <1>1, <1>6, <2>1 DEF Reserve, Coalesced
    <2>3. /\ n \in Refreshes /\ n.state = refresh[o].state /\ n.selector = t
          /\ n.triggers = refresh[o].triggers \cup {t}
      <3>1. refresh[o].triggers \cup {t} \in SUBSET Triggers
        BY <1>2, <2>1 DEF Refreshes
      <3> QED
        BY <1>2, <2>1, <3>1 DEF Refreshes
    <2> HIDE DEF n
    <2>4. refresh' \in [Triggers -> Refreshes \cup {None}] /\ refresh'[o] = n
          /\ \A s \in Triggers \ {o} : refresh'[s] = refresh[s]
      BY <1>1, <2>1, <2>2, <2>3
    <2>5. n # None
      BY <2>3 DEF RefreshConstants
    <2>6. key' \in [Triggers -> Triggers \cup {None}]
      BY <1>1, <2>1, <2>2
    <2>8. \A s \in Triggers : refresh[s] \in Refreshes => refresh'[s] \in Refreshes
      BY <2>3, <2>4
    <2>7. RefreshRows'
      BY <1>2, <1>4, <1>5, <2>4, <2>6, <2>8, RefreshOfRun DEF RefreshRows
    <2> QED
      BY <1>2, <1>3, <1>4, <1>6, <2>1, <2>2, <2>3, <2>4, <2>5, <2>7
  <1>7. CASE ~canCoalesce(p)
    <2> DEFINE n == NewRefresh(t)
               m == [refresh[o] EXCEPT !.state = "SUPERSEDED", !.revision = v + 1]
    <2>1. refresh' = [r \in Triggers |-> IF r = t THEN n ELSE IF r = o THEN m ELSE refresh[r]]
          /\ key' = [key EXCEPT ![t] = t]
      BY <1>7 DEF Reserve, Superseding
    <2>2. n \in Refreshes /\ n.state = "PENDING" /\ n.selector = t /\ n.triggers = {t}
      BY <1>2 DEF NewRefresh, Refreshes, States
    <2>3. o # None => /\ m \in Refreshes /\ m.state = "SUPERSEDED" /\ m.selector = refresh[o].selector
                      /\ m.triggers = refresh[o].triggers
      BY <1>2, <1>3 DEF Refreshes, States
    <2> HIDE DEF n, m
    <2>4. /\ refresh' \in [Triggers -> Refreshes \cup {None}] /\ refresh'[t] = n
          /\ o # None /\ o # t => refresh'[o] = m
          /\ \A s \in Triggers \ {t, o} : refresh'[s] = refresh[s]
      <3>1. \A r \in Triggers : r = o => o # None
        BY DEF RefreshConstants
      <3> QED
        BY <1>1, <1>2, <1>3, <2>1, <2>2, <2>3, <3>1
    <2>5. n # None /\ (o # None => m # None)
      BY <2>2, <2>3 DEF RefreshConstants
    <2>6. key' \in [Triggers -> Triggers \cup {None}]
      BY <1>1, <1>2, <2>1
    <2>8. \A s \in Triggers : refresh[s] \in Refreshes => refresh'[s] \in Refreshes
      <3> SUFFICES ASSUME NEW s \in Triggers, refresh[s] \in Refreshes PROVE refresh'[s] \in Refreshes
        OBVIOUS
      <3>1. s = o => o # None
        BY DEF RefreshConstants
      <3> QED
        BY <1>2, <2>2, <2>3, <2>4, <3>1
    <2>7. RefreshRows'
      BY <1>2, <1>4, <1>5, <2>4, <2>6, <2>8, RefreshOfRun DEF RefreshRows
    <2> QED
      BY <1>2, <1>3, <1>4, <1>7, <2>1, <2>2, <2>3, <2>4, <2>5, <2>7
  <1> QED
    BY <1>6, <1>7

\* What a run writes about itself; only its beginning names a refresh.
LEMMA RefreshRunsOn ==
    ASSUME RefreshConstants, RefreshRows, NEW w \in Workers,
           \/ \E r \in Triggers : markRunning(w, r)
           \/ Compute(w) \/ Verify(w) \/ CommitSnapshot(w) \/ \E p \in Readers : Remember(w, p)
    PROVE  /\ worker' \in [Workers -> RefreshRuns] /\ clock' \in Nat
           /\ \A x \in Workers : worker'[x].at # "idle" =>
                 /\ worker'[x].snapshot \in Snapshots
                 /\ \/ worker[x].at # "idle" /\ worker'[x].snapshot.refresh = worker[x].snapshot.refresh
                    \/ refresh[worker'[x].snapshot.refresh] # None
  <1> DEFINE Follows(n) == /\ n.snapshot \in Snapshots
                           /\ \/ worker[w].at # "idle" /\ n.snapshot.refresh = worker[w].snapshot.refresh
                              \/ refresh[n.snapshot.refresh] # None
  <1>1. worker \in [Workers -> RefreshRuns] /\ worker[w] \in RefreshRuns /\ clock \in Nat
    BY DEF RefreshRows
  <1>2. worker[w].at # "idle" => worker[w].snapshot \in Snapshots
    BY DEF RefreshRows
  <1>3. SUFFICES \E n \in RefreshRuns : /\ Follows(n) /\ clock' \in Nat
                                        /\ worker' = [worker EXCEPT ![w] = n]
    BY <1>1 DEF RefreshRows
  <1>4. ASSUME NEW r \in Triggers, markRunning(w, r)
        PROVE  \E n \in RefreshRuns : Follows(n) /\ clock' \in Nat /\ worker' = [worker EXCEPT ![w] = n]
    <2> DEFINE f == [selector |-> refresh[r].selector, refresh |-> r, at |-> 0]
               n == [worker[w] EXCEPT !.at = "running", !.snapshot = f]
    <2>1. worker' = [worker EXCEPT ![w] = n] /\ clock' = clock
      BY <1>1, <1>4 DEF markRunning
    <2>2. refresh[r] \in Refreshes /\ refresh[r] # None
      BY <1>4 DEF markRunning, Transition, RefreshRows
    <2>3. f \in Snapshots /\ f.refresh = r
      BY <2>2 DEF Snapshots, Refreshes
    <2> HIDE DEF f
    <2>4. n \in RefreshRuns /\ n.snapshot = f
      BY <1>1, <2>3 DEF RefreshRuns
    <2> HIDE DEF n
    <2>5. Follows(n)
      BY <2>2, <2>3, <2>4
    <2> QED
      BY <1>1, <2>1, <2>4, <2>5
  <1>5. CASE Compute(w)
    <2> DEFINE time == clock + 1
               f == [worker[w].snapshot EXCEPT !.at = time]
               n == [worker[w] EXCEPT !.at = "computed", !.snapshot = f]
    <2>1. /\ worker' = [worker EXCEPT ![w] = n] /\ clock' = time
          /\ worker[w].at # "idle" /\ worker[w].snapshot \in Snapshots
      BY <1>1, <1>2, <1>5 DEF Compute
    <2>2. time \in Nat
      BY <1>1
    <2> HIDE DEF time
    <2>3. f \in Snapshots /\ f.refresh = worker[w].snapshot.refresh
      BY <2>1, <2>2 DEF Snapshots
    <2> HIDE DEF f
    <2>4. n \in RefreshRuns /\ n.snapshot = f
      BY <1>1, <2>3 DEF RefreshRuns
    <2> HIDE DEF n
    <2>5. Follows(n)
      BY <2>1, <2>3, <2>4
    <2> QED
      BY <2>1, <2>2, <2>4, <2>5
  <1>6. CASE Verify(w)
    <2> DEFINE r == worker[w].snapshot.refresh
               v == refresh[r].revision + 1
               n == [worker[w] EXCEPT !.at = "verified", !.revision = v]
    <2>1. /\ worker' = [worker EXCEPT ![w] = n] /\ clock' = clock
          /\ worker[w].at # "idle" /\ worker[w].snapshot \in Snapshots
      BY <1>1, <1>2, <1>6 DEF Verify
    <2>2. r \in Triggers
      BY <2>1 DEF Snapshots
    <2>3. refresh[r] \in Refreshes /\ refresh[r].revision < MaxRevision
      BY <1>6, <2>2 DEF Verify, Transition, RefreshRows
    <2>4. v \in 0 .. MaxRevision
      BY <2>3 DEF RefreshConstants, Refreshes
    <2> HIDE DEF v
    <2>5. n \in RefreshRuns /\ n.snapshot = worker[w].snapshot
      BY <1>1, <2>4 DEF RefreshRuns
    <2> HIDE DEF n
    <2>6. Follows(n)
      BY <2>1, <2>5
    <2> QED
      BY <1>1, <2>1, <2>5, <2>6
  <1>7. ASSUME NEW step \in {"committed", "done"}, worker[w].at # "idle", clock' = clock,
               worker' = [worker EXCEPT ![w].at = step]
        PROVE  \E n \in RefreshRuns : Follows(n) /\ clock' \in Nat /\ worker' = [worker EXCEPT ![w] = n]
    <2> DEFINE n == [worker[w] EXCEPT !.at = step]
    <2>1. n \in RefreshRuns /\ n.snapshot = worker[w].snapshot
      BY <1>1, <1>7 DEF RefreshRuns
    <2>2. worker' = [worker EXCEPT ![w] = n]
      BY <1>1, <1>7
    <2> HIDE DEF n
    <2>3. Follows(n)
      BY <1>2, <1>7, <2>1
    <2> QED
      BY <1>1, <1>7, <2>1, <2>2, <2>3
  <1> HIDE DEF Follows
  <1>8. CASE CommitSnapshot(w) \/ \E p \in Readers : Remember(w, p)
    BY <1>7, <1>8 DEF CommitSnapshot, Remember
  <1> QED
    BY <1>4, <1>5, <1>6, <1>8

\* A commit writes the row that was verified, and the pointer.
LEMMA RefreshCommits ==
    ASSUME RefreshConstants, RefreshRows, NEW w \in Workers, CommitSnapshot(w)
    PROVE  LET r == worker[w].snapshot.refresh IN
           \/ UNCHANGED <<refresh, pointer>>
           \/ /\ Committable(w) /\ pointer' = worker[w].snapshot
              /\ r \in Triggers /\ refresh[r] \in Refreshes /\ Open(r)
              /\ refresh' \in [Triggers -> Refreshes \cup {None}]
              /\ \A s \in Triggers \ {r} : refresh'[s] = refresh[s]
              /\ refresh'[r] \in Refreshes /\ refresh'[r].state = "COMMITTED"
              /\ refresh'[r].selector = refresh[r].selector /\ refresh'[r].triggers = refresh[r].triggers
  <1> DEFINE r == worker[w].snapshot.refresh
             v == refresh[r].revision + 1
             n == [refresh[r] EXCEPT !.state = "COMMITTED", !.revision = v]
  <1>1. /\ r \in Triggers /\ refresh \in [Triggers -> Refreshes \cup {None}] /\ refresh[r] \in Refreshes
    BY RefreshOfRun DEF CommitSnapshot, RefreshRows
  <1>2. CASE ~Committable(w)
    BY <1>2 DEF CommitSnapshot
  <1>3. CASE Committable(w)
    <2>1. refresh[r].state = "VERIFYING" /\ refresh[r].revision < MaxRevision
      BY <1>3 DEF Committable, CommitSnapshot
    <2>2. Open(r)
      BY <1>1, <2>1 DEF Open, isOpenState, RefreshConstants
    <2>3. v \in 1 .. MaxRevision
      BY <1>1, <2>1 DEF RefreshConstants, Refreshes
    <2>4. refresh' = [refresh EXCEPT ![r] = n] /\ pointer' = worker[w].snapshot
      BY <1>1, <1>3 DEF CommitSnapshot, Committed
    <2> HIDE DEF v
    <2>5. /\ n \in Refreshes /\ n.state = "COMMITTED" /\ n.selector = refresh[r].selector
          /\ n.triggers = refresh[r].triggers
      BY <1>1, <2>3 DEF Refreshes, States
    <2> HIDE DEF n
    <2> QED
      BY <1>1, <1>3, <2>2, <2>4, <2>5
  <1> QED
    BY <1>2, <1>3

\* Every step keeps the rows.
LEMMA RefreshRowsStay == ASSUME RefreshConstants, RefreshRows, [Next]_vars PROVE RefreshRows'
  <1>1. ASSUME refresh' \in [Triggers -> Refreshes \cup {None}],
               \A s \in Triggers : refresh[s] \in Refreshes => refresh'[s] \in Refreshes,
               worker' \in [Workers -> RefreshRuns], clock' \in Nat,
               \A x \in Workers : worker'[x].at # "idle" =>
                 /\ worker'[x].snapshot \in Snapshots
                 /\ \/ worker[x].at # "idle" /\ worker'[x].snapshot.refresh = worker[x].snapshot.refresh
                    \/ refresh[worker'[x].snapshot.refresh] # None,
               pointer' \in Snapshots \cup {None}, UNCHANGED <<key, latest, call>>
        PROVE  RefreshRows'
    <2>1. \A x \in Workers : worker'[x].at # "idle" => refresh[worker'[x].snapshot.refresh] \in Refreshes
      <3> SUFFICES ASSUME NEW x \in Workers, worker'[x].at # "idle"
                   PROVE  refresh[worker'[x].snapshot.refresh] \in Refreshes
        OBVIOUS
      <3>1. worker'[x].snapshot.refresh \in Triggers
        BY <1>1 DEF Snapshots
      <3> QED
        BY <1>1, <3>1 DEF RefreshRows
    <2>2. \A x \in Workers : worker'[x].at # "idle" => worker'[x].snapshot.refresh \in Triggers
      BY <1>1 DEF Snapshots
    <2>3. \A x \in Workers : worker'[x].at # "idle" => refresh'[worker'[x].snapshot.refresh] \in Refreshes
      BY <1>1, <2>1, <2>2
    <2> QED
      BY <1>1, <2>3 DEF RefreshRows
  <1>2. ASSUME refresh' = refresh, worker' = worker, UNCHANGED <<key, latest, pointer, clock, call>>
        PROVE  RefreshRows'
    BY <1>2 DEF RefreshRows
  <1>3. ASSUME NEW r \in Triggers, NEW state \in States, NEW lease \in Workers \cup {None},
               Transition(r, state, lease)
        PROVE  /\ refresh' \in [Triggers -> Refreshes \cup {None}]
               /\ \A s \in Triggers : refresh[s] \in Refreshes => refresh'[s] \in Refreshes
               /\ pointer' \in Snapshots \cup {None} /\ UNCHANGED <<key, latest, call>>
    <2>1. pointer' = pointer /\ UNCHANGED <<key, latest, call>>
      BY <1>3 DEF Transition
    <2> QED
      BY <1>3, <2>1, RefreshMoves DEF RefreshRows
  <1>4. \A x \in Workers : worker[x].at # "idle" =>
                 /\ worker[x].snapshot \in Snapshots /\ refresh[worker[x].snapshot.refresh] # None
    BY DEF RefreshRows, RefreshConstants
  <1>5. /\ refresh \in [Triggers -> Refreshes \cup {None}] /\ worker \in [Workers -> RefreshRuns]
        /\ clock \in Nat /\ pointer \in Snapshots \cup {None} /\ call \in [Procs -> RefreshCalls]
    BY DEF RefreshRows
  <1>6. {"RUNNING", "VERIFYING", "FAILED", "PENDING"} \subseteq States
    BY DEF States
  <1>7. ASSUME NEW w \in Workers, NEW r \in Triggers, markRunning(w, r) PROVE RefreshRows'
    <2>1. Transition(r, "RUNNING", w)
      BY <1>7 DEF markRunning
    <2> QED
      BY <1>1, <1>3, <1>6, <1>7, <2>1, RefreshRunsOn
  <1>8. ASSUME NEW w \in Workers, Compute(w) PROVE RefreshRows'
    <2>1. UNCHANGED <<refresh, key, latest, pointer, call>>
      BY <1>8 DEF Compute
    <2> QED
      BY <1>1, <1>5, <1>8, <2>1, RefreshRunsOn
  <1>9. ASSUME NEW w \in Workers, Verify(w) PROVE RefreshRows'
    <2>1. Transition(worker[w].snapshot.refresh, "VERIFYING", w) /\ worker[w].snapshot.refresh \in Triggers
      BY <1>9, RefreshOfRun DEF Verify
    <2> QED
      BY <1>1, <1>3, <1>6, <1>9, <2>1, RefreshRunsOn
  <1>10. ASSUME NEW w \in Workers, CommitSnapshot(w) PROVE RefreshRows'
    <2>1. UNCHANGED <<key, latest, call>> /\ worker[w].snapshot \in Snapshots
      BY <1>10, RefreshOfRun DEF CommitSnapshot
    <2>2. /\ refresh' \in [Triggers -> Refreshes \cup {None}] /\ pointer' \in Snapshots \cup {None}
          /\ \A s \in Triggers : refresh[s] \in Refreshes => refresh'[s] \in Refreshes
      BY <1>5, <1>10, <2>1, RefreshCommits
    <2> QED
      BY <1>1, <1>10, <2>1, <2>2, RefreshRunsOn
  <1>11. ASSUME NEW w \in Workers, NEW p \in Readers, Remember(w, p) PROVE RefreshRows'
    <2>1. UNCHANGED <<refresh, key, latest, pointer, call>>
      BY <1>11 DEF Remember
    <2> QED
      BY <1>1, <1>5, <1>11, <2>1, RefreshRunsOn
  <1>12. ASSUME NEW r \in Triggers, RecoverFailed(r) \/ handleLeaseExpiry(r) PROVE RefreshRows'
    <2>1. /\ Transition(r, "FAILED", None) \/ Transition(r, "PENDING", None)
          /\ worker' = worker /\ clock' = clock
      BY <1>12 DEF RecoverFailed, handleLeaseExpiry
    <2>2. /\ refresh' \in [Triggers -> Refreshes \cup {None}]
          /\ \A s \in Triggers : refresh[s] \in Refreshes => refresh'[s] \in Refreshes
          /\ pointer' \in Snapshots \cup {None} /\ UNCHANGED <<key, latest, call>>
      BY <1>3, <1>6, <2>1
    <2> QED
      BY <1>1, <1>4, <1>5, <2>1, <2>2
  <1>13. ASSUME NEW p \in Procs, NEW t \in Triggers, AcceptTrigger(p, t) PROVE RefreshRows'
    <2>1. 0 \in 0 .. 2 /\ Read(p, t, 0) /\ UNCHANGED <<refresh, key, latest, pointer, clock, worker>>
      BY <1>13 DEF AcceptTrigger
    <2> QED
      BY <2>1, RefreshReads
  <1>14. ASSUME NEW p \in Procs, RetryReserve(p) PROVE RefreshRows'
    <2>1. UNCHANGED <<refresh, key, latest, pointer, clock, worker>>
      BY <1>14 DEF RetryReserve
    <2>2. CASE call[p].attempt = 2
      <3>1. NoCall \in RefreshCalls
        BY DEF RefreshConstants, NoCall, RefreshCalls
      <3>2. call' = [call EXCEPT ![p] = NoCall]
        BY <1>14, <2>2 DEF RetryReserve
      <3> QED
        BY <2>1, <3>1, <3>2 DEF RefreshRows
    <2>3. CASE call[p].attempt # 2
      <3>1. call[p].trigger \in Triggers /\ call[p].attempt + 1 \in 0 .. 2
        BY <1>5, <1>14, <2>3 DEF RetryReserve, RefreshCalls
      <3>2. Read(p, call[p].trigger, call[p].attempt + 1)
        BY <1>14, <2>3 DEF RetryReserve
      <3> QED
        BY <2>1, <3>1, <3>2, RefreshReads
    <2> QED
      BY <2>2, <2>3
  <1>15. ASSUME NEW p \in Readers, BeginRead(p) \/ EndRead(p) PROVE RefreshRows'
    BY <1>2, <1>15 DEF BeginRead, EndRead
  <1>16. CASE UNCHANGED vars
    BY <1>2, <1>16 DEF vars
  <1>17. CASE Next
    BY <1>7, <1>8, <1>9, <1>10, <1>11, <1>12, <1>13, <1>14, <1>15, <1>17, RefreshReserves DEF Next
  <1> QED
    BY <1>16, <1>17

-----------------------------------------------------------------------------
(* Snapshots                                                               *)

\* Only a commit changes the pointer, and it compares the times.
LEMMA RefreshForward ==
    ASSUME RefreshConstants, RefreshRows, [Next]_vars PROVE TimeOf(pointer) <= TimeOf(pointer')
  <1>1. TimeOf(pointer) \in Nat
    BY DEF RefreshRows, TimeOf, Snapshots
  <1>2. ASSUME NEW w \in Workers, CommitSnapshot(w) PROVE TimeOf(pointer) <= TimeOf(pointer')
    <2>1. worker[w].snapshot.at \in Nat /\ worker[w].snapshot # None
      BY <1>2, RefreshOfRun DEF CommitSnapshot
    <2> QED
      BY <1>1, <1>2, <2>1 DEF CommitSnapshot, Committable, Committed, TimeOf
  <1>3. CASE pointer' = pointer
    BY <1>1, <1>3
  <1> QED
    BY <1>2, <1>3 DEF Next, vars, AcceptTrigger, Reserve, RetryReserve, BeginRead, EndRead, markRunning,
       Transition, Compute, Verify, Remember, RecoverFailed, handleLeaseExpiry

\* A dashboard never goes back to a snapshot that was computed earlier, though runs are late, leases
\* expire and what was closed is recovered.
THEOREM NeverBack == RefreshConstants => (Spec => SnapshotsMoveForward)
  <1> SUFFICES ASSUME RefreshConstants PROVE Spec => SnapshotsMoveForward
    OBVIOUS
  <1>1. Init => RefreshRows
    BY RefreshRowsBegin
  <1>2. RefreshRows /\ [Next]_vars => RefreshRows'
    BY RefreshRowsStay
  <1>3. RefreshRows /\ [Next]_vars => [TimeOf(pointer) <= TimeOf(pointer')]_vars
    BY RefreshForward
  <1> QED
    BY <1>1, <1>2, <1>3, PTL DEF Spec, SnapshotsMoveForward

-----------------------------------------------------------------------------
(* Inputs                                                                  *)

\* A refresh holds the trigger that opened it.
TriggersOwn == \A r \in Triggers : refresh[r] # None => r \in refresh[r].triggers

\* The trigger accepted last has a refresh, which is to show its input.
LatestIsCurrent ==
    latest # None => /\ key[latest] \in Triggers /\ refresh[key[latest]] \in Refreshes
                     /\ refresh[key[latest]].selector = latest

\* No other refresh is open: that is how those that were overtaken are kept from committing.
OpenIsLatest == \A s \in Triggers : Open(s) => latest # None /\ key[latest] = s

RefreshInv == RefreshRows /\ KeysMatch /\ TriggersOwn /\ LatestIsCurrent /\ OpenIsLatest /\ LatestWins

\* There is nothing to begin with.
LEMMA RefreshBegins == ASSUME RefreshConstants, Init PROVE RefreshInv
  BY RefreshRowsBegin DEF Init, RefreshInv, KeysMatch, TriggersOwn, LatestIsCurrent, OpenIsLatest,
     LatestWins, Open, RefreshConstants

\* The row of an open refresh is written, and the pointer only as the refresh commits.
LEMMA RefreshGoesOn ==
    ASSUME RefreshConstants, RefreshInv, RefreshRows', NEW r \in Triggers, Open(r),
           \A s \in Triggers \ {r} : refresh'[s] = refresh[s],
           refresh'[r] \in Refreshes, refresh'[r].selector = refresh[r].selector,
           refresh'[r].triggers = refresh[r].triggers, UNCHANGED <<key, latest>>,
           \/ refresh'[r].state # "COMMITTED" /\ pointer' = pointer
           \/ pointer' \in Snapshots /\ pointer'.selector = refresh[r].selector
    PROVE  RefreshInv'
  <1>1. refresh[r] # None /\ refresh'[r] # None /\ latest \in Triggers /\ latest # None
    BY DEF Open, RefreshConstants, RefreshInv, RefreshRows, OpenIsLatest
  <1>2. key[latest] = r /\ refresh[r].selector = latest
    BY <1>1 DEF RefreshInv, OpenIsLatest, LatestIsCurrent
  <1>4. KeysMatch' /\ TriggersOwn'
    <2>1. KeysMatch /\ TriggersOwn
      BY DEF RefreshInv
    <2>2. KeysMatch'
      <3> SUFFICES ASSUME NEW x \in Triggers, NEW y \in Triggers
                   PROVE  key[x] = y <=> refresh'[y] # None /\ x \in refresh'[y].triggers
        BY DEF KeysMatch
      <3>1. key[x] = y <=> refresh[y] # None /\ x \in refresh[y].triggers
        BY <2>1 DEF KeysMatch
      <3>2. /\ refresh'[y] # None => refresh[y] # None
            /\ refresh[y] # None => refresh'[y] # None /\ refresh'[y].triggers = refresh[y].triggers
        BY <1>1
      <3> QED
        BY <3>1, <3>2
    <2>3. TriggersOwn'
      <3> SUFFICES ASSUME NEW x \in Triggers, refresh'[x] # None PROVE x \in refresh'[x].triggers
        BY DEF TriggersOwn
      <3>1. refresh[x] # None /\ refresh'[x].triggers = refresh[x].triggers
        BY <1>1
      <3> QED
        BY <2>1, <3>1 DEF TriggersOwn
    <2> QED
      BY <2>2, <2>3
  <1>5. LatestIsCurrent'
    BY <1>1, <1>2 DEF LatestIsCurrent
  <1>6. OpenIsLatest'
    <2>1. \A s \in Triggers \ {r} : ~Open(s)'
      BY <1>1, <1>2 DEF Open, RefreshInv, OpenIsLatest
    <2> QED
      BY <1>1, <1>2, <2>1 DEF OpenIsLatest
  <1>7. LatestWins'
    <2>1. CASE refresh'[r].state # "COMMITTED"
      BY <1>1, <1>2, <2>1 DEF LatestWins
    <2>2. CASE pointer' \in Snapshots /\ pointer'.selector = refresh[r].selector
      BY <1>1, <1>2, <2>2 DEF LatestWins, RefreshConstants
    <2> QED
      BY <2>1, <2>2
  <1> QED
    BY <1>4, <1>5, <1>6, <1>7 DEF RefreshInv

\* A trigger that joins the open refresh, or opens one in its place, becomes the latest.
LEMMA RefreshAccepts == ASSUME RefreshConstants, RefreshInv, NEW p \in Procs, Reserve(p) PROVE RefreshInv'
  <1> DEFINE t == call[p].trigger
             o == call[p].open
  <1>0. RefreshRows
    BY DEF RefreshInv
  <1>1. /\ RefreshRows' /\ t \in Triggers /\ latest' = t /\ key[t] = None
        /\ key \in [Triggers -> Triggers \cup {None}]
        /\ refresh' \in [Triggers -> Refreshes \cup {None}]
        /\ o # None => o \in Triggers /\ Open(o)
        /\ o = None => MayOpen(t)
    BY <1>0, RefreshReserves DEF RefreshRows
  <1>2. t # None /\ refresh[t] = None
    BY <1>1 DEF RefreshConstants, RefreshInv, TriggersOwn, KeysMatch
  <1>3. o # None => refresh[o] # None /\ o # t
    BY <1>1, <1>2 DEF Open
  <1>4. \A s \in Triggers : Open(s) => s = o
    <2>1. ~Open(t)
      BY <1>2 DEF Open
    <2> QED
      BY <1>1, <2>1 DEF MayOpen, RefreshInv, OpenIsLatest
  <1>5. CASE canCoalesce(p)
    <2>1. /\ o # None /\ o \in Triggers /\ key' = [key EXCEPT ![t] = o]
          /\ \A s \in Triggers \ {o} : refresh'[s] = refresh[s]
          /\ refresh'[o] # None /\ refresh'[o].state = refresh[o].state /\ refresh'[o].selector = t
          /\ refresh'[o].triggers = refresh[o].triggers \cup {t}
      BY <1>0, <1>1, <1>5, RefreshReserves
    <2>2. KeysMatch'
      BY <1>1, <1>2, <1>3, <2>1 DEF RefreshInv, KeysMatch, RefreshConstants
    <2>3. TriggersOwn'
      BY <1>3, <2>1 DEF RefreshInv, TriggersOwn
    <2>4. LatestIsCurrent'
      BY <1>1, <2>1 DEF LatestIsCurrent
    <2>5. OpenIsLatest'
      BY <1>1, <1>2, <1>4, <2>1 DEF OpenIsLatest, Open
    <2>6. LatestWins'
      BY <1>1, <2>1 DEF LatestWins, Open, isOpenState
    <2> QED
      BY <1>1, <2>2, <2>3, <2>4, <2>5, <2>6 DEF RefreshInv
  <1>6. CASE ~canCoalesce(p)
    <2>1. /\ key' = [key EXCEPT ![t] = t]
          /\ refresh'[t] # None /\ refresh'[t].state = "PENDING" /\ refresh'[t].selector = t
          /\ refresh'[t].triggers = {t}
          /\ \A s \in Triggers \ {t, o} : refresh'[s] = refresh[s]
          /\ o # None /\ o # t => /\ refresh'[o].state = "SUPERSEDED"
                                  /\ refresh'[o] # None
                                  /\ refresh'[o].selector = refresh[o].selector
                                  /\ refresh'[o].triggers = refresh[o].triggers
      BY <1>0, <1>6, RefreshReserves
    <2>0. \A s \in Triggers \ {t} :
             /\ refresh'[s] # None => refresh[s] # None
             /\ refresh[s] # None => refresh'[s] # None /\ refresh'[s].triggers = refresh[s].triggers
      <3> SUFFICES ASSUME NEW s \in Triggers \ {t}
                   PROVE  /\ refresh'[s] # None => refresh[s] # None
                          /\ refresh[s] # None => /\ refresh'[s] # None
                                                 /\ refresh'[s].triggers = refresh[s].triggers
        OBVIOUS
      <3>1. CASE s = o
        BY <1>1, <1>3, <2>1, <3>1 DEF RefreshConstants
      <3> QED
        BY <2>1, <3>1
    <2>2. KeysMatch'
      <3> SUFFICES ASSUME NEW x \in Triggers, NEW y \in Triggers
                   PROVE  key'[x] = y <=> refresh'[y] # None /\ x \in refresh'[y].triggers
        BY DEF KeysMatch
      <3>1. key[x] = y <=> refresh[y] # None /\ x \in refresh[y].triggers
        BY DEF RefreshInv, KeysMatch
      <3>2. CASE y = t
        <4>1. key[x] # t
          BY <1>2, <3>1, <3>2
        <4> QED
          BY <1>1, <2>1, <3>2, <4>1
      <3>3. CASE y # t
        BY <1>1, <1>2, <2>0, <2>1, <3>1, <3>3 DEF RefreshConstants
      <3> QED
        BY <3>2, <3>3
    <2>3. TriggersOwn'
      <3>1. \A s \in Triggers \ {t} : refresh[s] # None => s \in refresh[s].triggers
        BY DEF RefreshInv, TriggersOwn
      <3> QED
        BY <2>0, <2>1, <3>1 DEF TriggersOwn
    <2>4. LatestIsCurrent'
      BY <1>1, <2>1 DEF LatestIsCurrent
    <2>5. OpenIsLatest'
      <3> SUFFICES ASSUME NEW s \in Triggers, s # t, Open(s)' PROVE FALSE
        BY <1>1, <1>2, <2>1 DEF OpenIsLatest
      <3>1. s # o
        <4> SUFFICES ASSUME s = o PROVE FALSE
          OBVIOUS
        <4>1. o # None
          BY DEF RefreshConstants
        <4> QED
          BY <2>1, <4>1 DEF Open, isOpenState
      <3> QED
        BY <1>4, <2>1, <3>1 DEF Open
    <2>6. LatestWins'
      BY <1>1, <2>1 DEF LatestWins
    <2> QED
      BY <1>1, <2>2, <2>3, <2>4, <2>5, <2>6 DEF RefreshInv
  <1> QED
    BY <1>5, <1>6

\* Every step keeps the invariant, when nothing is asked of a refresh that was closed.
LEMMA RefreshStep == ASSUME RefreshConstants, ~Late, RefreshInv, [Next]_vars PROVE RefreshInv'
  <1>0. RefreshRows /\ RefreshRows'
    BY RefreshRowsStay DEF RefreshInv
  <1>1. ASSUME UNCHANGED <<refresh, key, latest, pointer>> PROVE RefreshInv'
    BY <1>0, <1>1 DEF RefreshInv, KeysMatch, TriggersOwn, LatestIsCurrent, OpenIsLatest, LatestWins, Open
  <1>2. ASSUME NEW r \in Triggers, NEW state \in States \ {"COMMITTED"}, NEW lease \in Workers \cup {None},
               Transition(r, state, lease)
        PROVE  RefreshInv'
    <2>1. Open(r) /\ UNCHANGED <<key, latest, pointer>>
      BY <1>2 DEF Transition
    <2> QED
      BY <1>0, <1>2, <2>1, RefreshMoves, RefreshGoesOn
  <1>3. {"RUNNING", "VERIFYING", "FAILED", "PENDING"} \subseteq States \ {"COMMITTED"}
    BY DEF States
  <1>4. ASSUME NEW w \in Workers, NEW r \in Triggers, markRunning(w, r) PROVE RefreshInv'
    BY <1>2, <1>3, <1>4 DEF markRunning
  <1>5. ASSUME NEW w \in Workers, Verify(w) PROVE RefreshInv'
    <2>1. worker[w].snapshot.refresh \in Triggers
      BY <1>0, <1>5, RefreshOfRun DEF Verify
    <2> QED
      BY <1>2, <1>3, <1>5, <2>1 DEF Verify
  <1>6. ASSUME NEW r \in Triggers, RecoverFailed(r) \/ handleLeaseExpiry(r) PROVE RefreshInv'
    BY <1>2, <1>3, <1>6 DEF RecoverFailed, handleLeaseExpiry
  <1>7. ASSUME NEW w \in Workers, CommitSnapshot(w) PROVE RefreshInv'
    <2> DEFINE r == worker[w].snapshot.refresh
    <2>1. UNCHANGED <<key, latest>> /\ worker[w].snapshot \in Snapshots
      BY <1>0, <1>7, RefreshOfRun DEF CommitSnapshot
    <2>2. CASE UNCHANGED <<refresh, pointer>>
      BY <1>1, <2>1, <2>2
    <2>3. CASE /\ Committable(w) /\ pointer' = worker[w].snapshot
               /\ r \in Triggers /\ Open(r)
               /\ \A s \in Triggers \ {r} : refresh'[s] = refresh[s]
               /\ refresh'[r] \in Refreshes
               /\ refresh'[r].selector = refresh[r].selector /\ refresh'[r].triggers = refresh[r].triggers
      <3>1. pointer' \in Snapshots /\ pointer'.selector = refresh[r].selector
        BY <2>1, <2>3 DEF Committable
      <3> QED
        BY <1>0, <2>1, <2>3, <3>1, RefreshGoesOn
    <2> QED
      BY <1>0, <1>7, <2>2, <2>3, RefreshCommits
  <1>8. CASE \/ \E p \in Procs, t \in Triggers : AcceptTrigger(p, t)
             \/ \E p \in Procs : RetryReserve(p)
             \/ \E p \in Readers : BeginRead(p) \/ EndRead(p)
             \/ \E w \in Workers : Compute(w) \/ \E p \in Readers : Remember(w, p)
             \/ UNCHANGED vars
    BY <1>1, <1>8 DEF AcceptTrigger, RetryReserve, BeginRead, EndRead, Compute, Remember, vars
  <1> QED
    BY <1>4, <1>5, <1>6, <1>7, <1>8, RefreshAccepts DEF Next

\* Each trigger, however often and to however many processes it is delivered, is in the one refresh
\* that its key names, and the refresh of the latest trigger shows the input of that trigger once it
\* has committed.
THEOREM InputsAreShown == RefreshConstants /\ ~Late => (Spec => [](LatestWins /\ KeysMatch))
  <1> SUFFICES ASSUME RefreshConstants, ~Late PROVE Spec => [](LatestWins /\ KeysMatch)
    OBVIOUS
  <1>1. Init => RefreshInv
    BY RefreshBegins
  <1>2. RefreshInv /\ [Next]_vars => RefreshInv'
    BY RefreshStep
  <1>3. RefreshInv => LatestWins /\ KeysMatch
    BY DEF RefreshInv
  <1> QED
    BY <1>1, <1>2, <1>3, PTL DEF Spec

-----------------------------------------------------------------------------
(* Types: what the steps leave in the memory of a process, and the clock.   *)

\* The runs that have computed.
RefreshComputed == {w \in Workers : worker[w].at \notin {"idle", "running"}}

\* What a process is asked for is a snapshot or nothing, and each run moves the clock once.
RefreshShown ==
    /\ group \in [Triggers -> {1, 2}]
    /\ cache \in [Readers -> Snapshots \cup {None}]
    /\ read \in [Readers -> [at : {"idle", "found", "done"}, since : Nat, value : Snapshots \cup {None}]]
    /\ clock <= Cardinality(RefreshComputed)

\* The runs that have computed are some of the runs.
LEMMA RefreshCounts ==
    ASSUME IsFiniteSet(Workers)
    PROVE  /\ IsFiniteSet(RefreshComputed) /\ Cardinality(RefreshComputed) \in Nat
           /\ Cardinality(Workers) \in Nat /\ Cardinality(RefreshComputed) <= Cardinality(Workers)
  <1>1. RefreshComputed \subseteq Workers
    BY DEF RefreshComputed
  <1> QED
    BY <1>1, FS_Subset, FS_CardinalityType

\* There is no snapshot at first.
LEMMA RefreshShownBegins ==
    ASSUME RefreshConstants, IsFiniteSet(Workers), Init PROVE RefreshShown
  <1>1. 0 <= Cardinality(RefreshComputed)
    BY RefreshCounts
  <1> QED
    BY <1>1 DEF Init, RefreshShown

\* A step that moves no clock and makes no run begin anew keeps the count.
LEMMA RefreshClockStays ==
    ASSUME IsFiniteSet(Workers), RefreshRows, RefreshRows', clock <= Cardinality(RefreshComputed),
           clock' = clock, \A w \in RefreshComputed : worker'[w].at \notin {"idle", "running"}
    PROVE  clock' <= Cardinality(RefreshComputed')
  <1>1. RefreshComputed \subseteq RefreshComputed' /\ RefreshComputed' \subseteq Workers
    BY DEF RefreshComputed
  <1>2. IsFiniteSet(RefreshComputed')
    BY <1>1, FS_Subset
  <1>3. Cardinality(RefreshComputed) <= Cardinality(RefreshComputed')
        /\ Cardinality(RefreshComputed) \in Nat /\ Cardinality(RefreshComputed') \in Nat
    BY <1>1, <1>2, RefreshCounts, FS_Subset, FS_CardinalityType
  <1>4. clock \in Nat
    BY DEF RefreshRows
  <1> QED
    BY <1>3, <1>4

\* A run that computes moves the clock once.
LEMMA RefreshComputes ==
    ASSUME IsFiniteSet(Workers), RefreshRows, clock <= Cardinality(RefreshComputed),
           NEW w \in Workers, Compute(w)
    PROVE  clock' <= Cardinality(RefreshComputed')
  <1>1. worker \in [Workers -> RefreshRuns] /\ clock \in Nat
    BY DEF RefreshRows
  <1>2. worker'[w].at = "computed" /\ \A x \in Workers \ {w} : worker'[x] = worker[x]
    BY <1>1 DEF Compute, RefreshRuns
  <1>3. w \notin RefreshComputed /\ RefreshComputed' = RefreshComputed \cup {w}
    BY <1>2 DEF Compute, RefreshComputed
  <1>4. Cardinality(RefreshComputed') = Cardinality(RefreshComputed) + 1
        /\ Cardinality(RefreshComputed) \in Nat
    BY <1>3, RefreshCounts, FS_AddElement
  <1> QED
    BY <1>1, <1>4 DEF Compute

\* Every step keeps them.
LEMMA RefreshShownStays ==
    ASSUME RefreshConstants, IsFiniteSet(Workers), RefreshRows, RefreshRows', RefreshShown, [Next]_vars
    PROVE  RefreshShown'
  <1>1. worker \in [Workers -> RefreshRuns] /\ pointer \in Snapshots \cup {None} /\ clock \in Nat
    BY DEF RefreshRows
  <1>2. ASSUME UNCHANGED <<group, clock, worker>>, cache' \in [Readers -> Snapshots \cup {None}],
               read' \in [Readers -> [at : {"idle", "found", "done"}, since : Nat,
                                      value : Snapshots \cup {None}]]
        PROVE  RefreshShown'
    BY <1>2 DEF RefreshShown, RefreshComputed
  <1>3. ASSUME UNCHANGED <<group, clock, read>>, cache' \in [Readers -> Snapshots \cup {None}],
               \A w \in RefreshComputed : worker'[w].at \notin {"idle", "running"}
        PROVE  RefreshShown'
    BY <1>3, RefreshClockStays DEF RefreshShown
  <1>4. CASE UNCHANGED vars
    BY <1>2, <1>4 DEF vars, RefreshShown
  <1>5. ASSUME NEW p \in Procs, \/ \E t \in Triggers : AcceptTrigger(p, t)
                                \/ Reserve(p) \/ RetryReserve(p)
        PROVE  RefreshShown'
    BY <1>2, <1>5 DEF AcceptTrigger, Reserve, RetryReserve, RefreshShown
  <1>6. ASSUME NEW p \in Readers, BeginRead(p) PROVE RefreshShown'
    <2> DEFINE n == [at |-> IF cache[p] # None THEN "done" ELSE "found", since |-> TimeOf(pointer),
                     value |-> IF cache[p] # None THEN cache[p] ELSE pointer]
    <2>1. TimeOf(pointer) \in Nat
      BY <1>1 DEF TimeOf, Snapshots
    <2>2. cache[p] \in Snapshots \cup {None}
      BY DEF RefreshShown
    <2>3. n \in [at : {"idle", "found", "done"}, since : Nat, value : Snapshots \cup {None}]
      BY <1>1, <2>1, <2>2
    <2>4. read' = [read EXCEPT ![p] = n]
      BY <1>6 DEF BeginRead
    <2> HIDE DEF n
    <2> QED
      BY <1>2, <1>6, <2>3, <2>4 DEF BeginRead, RefreshShown
  <1>7. ASSUME NEW p \in Readers, EndRead(p) PROVE RefreshShown'
    <2>1. read[p].value \in Snapshots \cup {None}
      BY DEF RefreshShown
    <2>2. cache' \in [Readers -> Snapshots \cup {None}]
      BY <1>7, <2>1 DEF EndRead, RefreshShown
    <2>3. read' \in [Readers -> [at : {"idle", "found", "done"}, since : Nat,
                                 value : Snapshots \cup {None}]]
      BY <1>7 DEF EndRead, RefreshShown
    <2> QED
      BY <1>2, <1>7, <2>2, <2>3 DEF EndRead
  <1>8. ASSUME NEW w \in Workers, NEW r \in Triggers, markRunning(w, r) PROVE RefreshShown'
    BY <1>1, <1>3, <1>8 DEF markRunning, Transition, RefreshShown, RefreshComputed
  <1>9. ASSUME NEW w \in Workers, Compute(w) PROVE RefreshShown'
    BY <1>9, RefreshComputes DEF Compute, RefreshShown
  <1>10. ASSUME NEW w \in Workers, Verify(w) \/ CommitSnapshot(w) PROVE RefreshShown'
    <2>1. /\ worker'[w].at \in {"verified", "committed", "done"}
          /\ \A x \in Workers \ {w} : worker'[x] = worker[x]
      <3>1. CASE Verify(w)
        BY <1>1, <3>1 DEF Verify, RefreshRuns
      <3>2. CASE CommitSnapshot(w)
        BY <1>1, <3>2 DEF CommitSnapshot, RefreshRuns
      <3> QED
        BY <1>10, <3>1, <3>2
    <2>3. \A x \in RefreshComputed : worker'[x].at \notin {"idle", "running"}
      BY <2>1 DEF RefreshComputed
    <2>2. UNCHANGED <<group, clock, read, cache>>
      BY <1>10 DEF Verify, CommitSnapshot, Transition
    <2> QED
      BY <1>3, <2>2, <2>3 DEF RefreshShown
  <1>11. ASSUME NEW w \in Workers, NEW p \in Readers, Remember(w, p) PROVE RefreshShown'
    <2>1. \A x \in RefreshComputed : worker'[x].at \notin {"idle", "running"}
      BY <1>1, <1>11 DEF Remember, RefreshComputed
    <2>2. worker[w].snapshot \in Snapshots \cup {None}
      BY <1>1 DEF RefreshRuns
    <2>3. cache' \in [Readers -> Snapshots \cup {None}]
      BY <1>11, <2>2 DEF Remember, RefreshShown
    <2> QED
      BY <1>3, <1>11, <2>1, <2>3 DEF Remember
  <1>12. ASSUME NEW r \in Triggers, RecoverFailed(r) \/ handleLeaseExpiry(r) PROVE RefreshShown'
    BY <1>2, <1>12 DEF RecoverFailed, handleLeaseExpiry, Transition, RefreshShown
  <1> QED
    BY <1>4, <1>5, <1>6, <1>7, <1>8, <1>9, <1>10, <1>11, <1>12 DEF Next

\* Together with the rows they are the types.
LEMMA RefreshTyped ==
    ASSUME RefreshRows, RefreshShown, IsFiniteSet(Workers) PROVE TypeOK
  <1>1. clock \in 0 .. Cardinality(Workers)
    BY RefreshCounts DEF RefreshRows, RefreshShown
  <1> QED
    BY <1>1 DEF RefreshRows, RefreshShown, RefreshCalls, RefreshRuns, TypeOK

\* With finitely many runs every variable has its type: the clock has moved once for each of them.
THEOREM RefreshTypes == RefreshConstants /\ IsFiniteSet(Workers) => (Spec => []TypeOK)
  <1> SUFFICES ASSUME RefreshConstants, IsFiniteSet(Workers) PROVE Spec => []TypeOK
    OBVIOUS
  <1>1. Init => RefreshRows /\ RefreshShown
    BY RefreshRowsBegin, RefreshShownBegins
  <1>2. RefreshRows /\ RefreshShown /\ [Next]_vars => RefreshRows' /\ RefreshShown'
    BY RefreshRowsStay, RefreshShownStays
  <1>3. RefreshRows /\ RefreshShown => TypeOK
    BY RefreshTyped
  <1> QED
    BY <1>1, <1>2, <1>3, PTL DEF Spec
=============================================================================
