------------------------- MODULE DashboardPublication -------------------------
(***************************************************************************)
(* Publication of a dashboard: the callers of DashboardPublicationService, *)
(* the draft repository's commits, and the worker that withdraws the       *)
(* approvals of the version a publication replaces; composed with the      *)
(* approval requests of Approvals.  The callers' awaits and the worker's   *)
(* transactions interleave; a commit is one transaction.                   *)
(***************************************************************************)
EXTENDS Naturals, FiniteSets

CONSTANTS Requests, Versions, Actors, Eligible, MinApprovals, SelfApproval, MaxTime, Repeats,
          Callers, Keys, Workers,
          First,        \* the version the dashboard starts with
          NoVersion,
          MaxRevision,  \* bound of the dashboard's revision
          MaxFaults     \* bound of crashed workers and failed invalidations

VARIABLES requests, decisions,   \* of Approvals
          now,           \* the server's clock
          board,         \* the dashboard row: published version and revision
          versions,      \* saved versions
          publications,  \* snapshot, idempotency and audit rows of a commit, in one
          call,          \* what a caller's publish is doing
          outbox,        \* invalidation rows, by the revision of their publication, with (history) the
                         \* requests that were open or approved when the version was replaced
          task,          \* what a worker's dispatchNext is doing
          faults

dashboard == <<board, versions, publications, outbox>>
worker == <<task, faults>>
vars == <<requests, decisions, now, dashboard, call, worker>>

A == INSTANCE Approvals

Idle == [at |-> "idle"]
Revisions == 1 .. MaxRevision

Init ==
    /\ A!Init
    /\ now = 0
    /\ board = [published |-> NoVersion, revision |-> 1]
    /\ versions = {First}
    /\ publications = {}
    /\ call = [c \in Callers |-> Idle]
    /\ outbox = {}
    /\ task = [w \in Workers |-> Idle]
    /\ faults = 0

Tick == /\ now < MaxTime /\ now' = now + 1
        /\ UNCHANGED <<requests, decisions, dashboard, call, worker>>

-----------------------------------------------------------------------------
(* Approvals of saved versions. *)

\* Identifiers are random: any unused one stands for the next.
Fresh(r) == requests[r] = A!None /\ r = CHOOSE q \in Requests : requests[q] = A!None

Open(r, a, v) ==
    /\ Fresh(r)
    /\ v \in versions
    /\ A!openRequest(r, a, v, v, MaxTime)
    /\ UNCHANGED <<now, dashboard, call, worker>>

Decide(d) ==
    /\ A!decide(d, 0)
    /\ UNCHANGED <<now, dashboard, call, worker>>

\* A decision that comes too late.
Overdue(r) ==
    /\ A!Expire(r, MaxTime)
    /\ UNCHANGED <<now, dashboard, call, worker>>

-----------------------------------------------------------------------------
(* The dashboard. *)

\* commitAuthoringVersion: a new draft version under the revision it was made from.
commitAuthoringVersion(v) ==
    /\ v \notin versions
    /\ board.revision < MaxRevision
    /\ board' = [board EXCEPT !.revision = @ + 1]
    /\ versions' = versions \cup {v}
    /\ UNCHANGED <<requests, decisions, now, publications, outbox, call, worker>>

Goto(c, step) == call' = [call EXCEPT ![c] = step]

KeysInUse == {p.key : p \in publications} \cup {call[c].key : c \in {c \in Callers : call[c] # Idle}}

\* publish, up to findPublicationReplay: a key that was used is answered from its row.  The
\* client names the revision it has read; an older one than the current is refused by Admit.
Publish(c, v, k) ==
    /\ call[c] = Idle
    /\ \A p \in publications : p.key # k
    /\ k \notin KeysInUse => k = CHOOSE j \in Keys : j \notin KeysInUse
    /\ Goto(c, [at |-> "admit", version |-> v, key |-> k, expected |-> board.revision])
    /\ UNCHANGED <<requests, decisions, now, dashboard, worker>>

\* The version and the dashboard are read; a stale revision is refused here.
Admit(c) ==
    /\ call[c].at = "admit"
    /\ IF call[c].version \in versions /\ board.revision = call[c].expected
       THEN Goto(c, [at |-> "approve", version |-> call[c].version, key |-> call[c].key,
                     expected |-> call[c].expected,
                     prior |-> IF board.published = call[c].version THEN NoVersion ELSE board.published])
       ELSE Goto(c, Idle)
    /\ UNCHANGED <<requests, decisions, now, dashboard, worker>>

\* findCurrentPublicationApproval: the approved request that sorts first decides;
\* its times are the clients', so that it may be any.
Approve(c) ==
    /\ call[c].at = "approve"
    /\ LET v == call[c].version
           approved == {r \in Requests : /\ requests[r].status = "APPROVED"
                                         /\ requests[r].version = v /\ requests[r].hash = v}
       IN \/ approved = {} /\ Goto(c, Idle)
          \/ \E r \in approved :
                 IF r \in A!CurrentApproved(v, now)
                 THEN Goto(c, [call[c] EXCEPT !.at = "commit"])
                 ELSE Goto(c, Idle)
    /\ UNCHANGED <<requests, decisions, now, dashboard, worker>>

\* (Mutant of Committable: the revision is not compared.)
CommittableStale(c) == \A p \in publications : p.key # call[c].key

\* What commitPublication finds in the transaction: the key is new, the revision
\* and the replaced version are the ones read before.
Committable(c) ==
    /\ \A p \in publications : p.key # call[c].key
    /\ board.revision = call[c].expected
    /\ call[c].prior \in {NoVersion, board.published}

commitPublication(c) ==
    /\ call[c].at = "commit"
    /\ board.revision < MaxRevision
    /\ IF Committable(c)
       THEN LET p == call[c]
                n == board.revision + 1
            IN /\ board' = [published |-> p.version, revision |-> n]
               /\ publications' = publications \cup
                    {[version |-> p.version, prior |-> p.prior, key |-> p.key, revision |-> n]}
               /\ outbox' = outbox \cup
                    (IF p.prior = NoVersion THEN {}
                     ELSE {[revision |-> n, version |-> p.prior, state |-> "PENDING", leased |-> FALSE,
                            due |-> {r \in Requests : requests[r] # A!None /\ A!Live(r)
                                                        /\ requests[r].version = p.prior}]})
       ELSE UNCHANGED <<board, publications, outbox>>
    /\ Goto(c, Idle)
    /\ UNCHANGED <<requests, decisions, now, versions, worker>>

\* The request ends before its commit.
Drop(c) ==
    /\ call[c] # Idle
    /\ Goto(c, Idle)
    /\ UNCHANGED <<requests, decisions, now, dashboard, worker>>

-----------------------------------------------------------------------------
(* Withdrawal of approvals: dispatchNext of the worker.  All replicas use the *)
(* same worker name by default, so that the lease's owner tells nothing.      *)

Put(o) == outbox' = {x \in outbox : x.revision # o.revision} \cup {o}
Row(w) == CHOOSE o \in outbox : o.revision = task[w].revision

Due(o) == o.state \in {"PENDING", "FAILED"} \/ (o.state = "CLAIMED" /\ ~ o.leased)

\* claimNext takes the oldest row that is due; a failed one waits for its time.
claimNext(w) ==
    /\ task[w] = Idle
    /\ \E o \in {x \in outbox : Due(x)} :
         /\ \A x \in outbox : Due(x) /\ x.state # "FAILED" => x.revision >= o.revision
         /\ Put([o EXCEPT !.state = "CLAIMED", !.leased = TRUE])
         /\ task' = [task EXCEPT ![w] = [at |-> "invalidate", revision |-> o.revision]]
    /\ UNCHANGED <<requests, decisions, now, board, versions, publications, call, faults>>

\* The lease runs out, with its worker at work or gone.
Lapse(o) ==
    /\ o.state = "CLAIMED" /\ o.leased
    /\ Put([o EXCEPT !.leased = FALSE])
    /\ UNCHANGED <<requests, decisions, now, board, versions, publications, call, worker>>

Invalidate(w) ==
    /\ task[w].at = "invalidate"
    /\ A!invalidatePriorVersion(Row(w).version)
    /\ task' = [task EXCEPT ![w].at = "COMPLETED"]
    /\ UNCHANGED <<now, dashboard, call, faults>>

\* JRA is UNAVAILABLE: a serialization failure, or the database.
InvalidateFails(w) ==
    /\ task[w].at = "invalidate"
    /\ faults < MaxFaults /\ faults' = faults + 1
    /\ task' = [task EXCEPT ![w].at = "FAILED"]
    /\ UNCHANGED <<requests, decisions, now, dashboard, call>>

\* (Mutant of Mark: a failed row is never due again.)
MarkForGood(w) ==
    /\ task[w].at \in {"COMPLETED", "FAILED"}
    /\ IF Row(w).state = "CLAIMED" /\ task[w].at = "COMPLETED"
       THEN Put([Row(w) EXCEPT !.state = task[w].at, !.leased = FALSE])
       ELSE Put([Row(w) EXCEPT !.leased = TRUE, !.state = "ABANDONED"])
    /\ task' = [task EXCEPT ![w] = Idle]
    /\ UNCHANGED <<requests, decisions, now, board, versions, publications, call, faults>>

\* markCompleted or markFailed, if the row is still claimed.
Mark(w) ==
    /\ task[w].at \in {"COMPLETED", "FAILED"}
    /\ IF Row(w).state = "CLAIMED"
       THEN Put([Row(w) EXCEPT !.state = task[w].at, !.leased = FALSE])
       ELSE UNCHANGED outbox
    /\ task' = [task EXCEPT ![w] = Idle]
    /\ UNCHANGED <<requests, decisions, now, board, versions, publications, call, faults>>

Crash(w) ==
    /\ task[w] # Idle
    /\ faults < MaxFaults /\ faults' = faults + 1
    /\ task' = [task EXCEPT ![w] = Idle]
    /\ UNCHANGED <<requests, decisions, now, dashboard, call>>

Dispatch(w) == claimNext(w) \/ Invalidate(w) \/ Mark(w)

Next ==
    \/ Tick
    \/ \E r \in Requests : Overdue(r) \/ \E a \in Actors, v \in Versions : Open(r, a, v)
    \/ \E d \in A!Decisions : Decide(d)
    \/ \E v \in Versions : commitAuthoringVersion(v)
    \/ \E c \in Callers :
         \/ \E v \in Versions, k \in Keys : Publish(c, v, k)
         \/ Admit(c) \/ Approve(c) \/ commitPublication(c) \/ Drop(c)
    \/ \E w \in Workers : Dispatch(w) \/ InvalidateFails(w) \/ Crash(w)
    \/ \E o \in outbox : Lapse(o)

Spec == Init /\ [][Next]_vars

\* The worker polls on a timer for as long as the process lives, and a lease
\* ends with the time.
FairSpec ==
    /\ Spec
    /\ \A w \in Workers : WF_vars(Dispatch(w))
    /\ WF_vars(\E o \in outbox : Lapse(o))

-----------------------------------------------------------------------------
TypeOK ==
    /\ A!TypeOK
    /\ now \in 0 .. MaxTime
    /\ board \in [published : Versions \cup {NoVersion}, revision : Revisions]
    /\ versions \subseteq Versions
    /\ publications \subseteq [version : Versions, prior : Versions \cup {NoVersion}, key : Keys,
                               revision : Revisions]
    /\ outbox \subseteq [revision : Revisions, version : Versions, leased : BOOLEAN, due : SUBSET Requests,
                         state : {"PENDING", "CLAIMED", "FAILED", "COMPLETED"}]
    /\ faults \in 0 .. MaxFaults

Before(p) == {q \in publications : q.revision < p.revision}
Latest(S) == CHOOSE p \in S : \A q \in S : q.revision =< p.revision

\* The publications form one line: each replaces the version its predecessor
\* published, and its row in the outbox says so, whatever drafts and other
\* publications were made between the read and the commit.
HistoryIsLinear ==
    /\ \A p \in publications :
         LET last == IF Before(p) = {} THEN NoVersion ELSE Latest(Before(p)).version
         IN IF last \in {NoVersion, p.version} THEN p.prior = NoVersion
            ELSE \E o \in outbox : o.revision = p.revision /\ o.version = last
    /\ board.published = IF publications = {} THEN NoVersion ELSE Latest(publications).version

\* A key publishes once, however often and from however many callers it is sent.
OneSnapshotPerKey == \A p, q \in publications : p.key = q.key => p = q

\* A completed row has withdrawn every request for the replaced version that
\* was open or approved when it was replaced.
DoneMeansWithdrawn ==
    \A o \in outbox : o.state = "COMPLETED" => \A r \in o.due : ~ A!Live(r)

\* Every replaced version's approvals are withdrawn in the end.
EveryWithdrawalHappens ==
    \A n \in Revisions :
        (\E o \in outbox : o.revision = n)
            ~> (\E o \in outbox : o.revision = n /\ o.state = "COMPLETED")
=============================================================================
