------------------------------ MODULE JobDomain ------------------------------
(***************************************************************************)
(* The pure rules of packages/domain: the job record and its transition    *)
(* table (jobs/v1.ts) and the execution attempt and its lease              *)
(* (execution-attempt/v1.ts).  Every service that moves a job or an        *)
(* attempt goes through these functions; the modules that model those      *)
(* services take the operators from here.                                  *)
(*                                                                         *)
(* Timestamps are natural numbers.  startedAt and finishedAt are kept only *)
(* as "is set", which is all that transitionJobV1 reads.  Identifiers,     *)
(* scopes and hashes are validated by the code before these rules apply    *)
(* and are left out.                                                       *)
(***************************************************************************)
EXTENDS Naturals

JobStates == {"CREATED", "QUEUED", "WAITING_FOR_DEVICE", "DISPATCHED", "RUNNING",
              "NEEDS_REVIEW", "AWAITING_APPROVAL", "SUCCEEDED", "PARTIALLY_SUCCEEDED",
              "FAILED", "CANCEL_REQUESTED", "CANCELLED", "EXPIRED"}

Terminal == {"SUCCEEDED", "PARTIALLY_SUCCEEDED", "FAILED", "CANCELLED", "EXPIRED"}

\* The transition table, as the set of its <<from, to>> pairs.
Transitions ==
    ({"CREATED"} \X {"QUEUED", "CANCEL_REQUESTED", "EXPIRED"})
    \cup ({"QUEUED"} \X {"WAITING_FOR_DEVICE", "DISPATCHED", "CANCEL_REQUESTED", "EXPIRED"})
    \cup ({"WAITING_FOR_DEVICE"} \X {"DISPATCHED", "CANCEL_REQUESTED", "EXPIRED"})
    \cup ({"DISPATCHED"} \X {"RUNNING", "CANCEL_REQUESTED", "EXPIRED"})
    \cup ({"RUNNING"} \X {"NEEDS_REVIEW", "AWAITING_APPROVAL", "SUCCEEDED",
                          "PARTIALLY_SUCCEEDED", "FAILED", "CANCEL_REQUESTED"})
    \cup ({"NEEDS_REVIEW"} \X {"RUNNING", "AWAITING_APPROVAL", "CANCEL_REQUESTED", "EXPIRED"})
    \cup ({"AWAITING_APPROVAL"} \X {"RUNNING", "SUCCEEDED", "CANCEL_REQUESTED", "EXPIRED"})
    \cup ({"FAILED"} \X {"QUEUED", "CANCELLED"})
    \cup ({"CANCEL_REQUESTED"} \X {"CANCELLED", "FAILED"})

JobRow == [state : JobStates, revision : Nat, started : BOOLEAN, finished : BOOLEAN]

\* createJobV1
CreatedJob == [state |-> "CREATED", revision |-> 1, started |-> FALSE, finished |-> FALSE]

\* transitionJobV1 accepts the move: the pair is in the table, and a job that
\* already carries finishedAt is not finished a second time.
Accepts(job, next) ==
    /\ <<job.state, next>> \in Transitions
    /\ ~(next \in Terminal /\ job.finished)

\* The job transitionJobV1 returns when it accepts.
Moved(job, next) ==
    [state    |-> next,
     revision |-> job.revision + 1,
     started  |-> job.started \/ next = "RUNNING",
     finished |-> job.finished \/ next \in Terminal]

-----------------------------------------------------------------------------
AttemptStates == {"CLAIMED", "RUNNING", "SUCCEEDED", "FAILED", "CANCELLED", "EXPIRED"}

Outcomes == {"SUCCEEDED", "FAILED", "CANCELLED"}

ActiveStates == {"CLAIMED", "RUNNING"}

Active(attempt) == attempt.state \in ActiveStates

\* createExecutionAttemptV1
ClaimedAttempt(worker, lease) ==
    [state |-> "CLAIMED", worker |-> worker, lease |-> lease, revision |-> 1]

\* startExecutionAttemptV1: starting a running attempt again changes nothing,
\* and a lease that ends exactly now still counts.
CanStart(attempt, now) == Active(attempt) /\ attempt.lease >= now

Started(attempt) ==
    IF attempt.state = "RUNNING" THEN attempt
    ELSE [attempt EXCEPT !.state = "RUNNING", !.revision = @ + 1]

\* renewExecutionAttemptLeaseV1
CanRenew(attempt, now, lease) ==
    /\ Active(attempt)
    /\ attempt.lease >= now
    /\ lease > now
    /\ lease > attempt.lease

Renewed(attempt, lease) == [attempt EXCEPT !.lease = lease, !.revision = @ + 1]

\* completeExecutionAttemptV1
CanComplete(attempt, now, outcome) ==
    Active(attempt) /\ attempt.lease >= now /\ outcome \in Outcomes

Completed(attempt, outcome) == [attempt EXCEPT !.state = outcome, !.revision = @ + 1]

\* (Mutant of CanExpire) A lease that ends now counts as over.
CanExpireEarly(attempt, now) == Active(attempt) /\ attempt.lease <= now

\* expireExecutionAttemptV1
CanExpire(attempt, now) == Active(attempt) /\ attempt.lease < now

\* (Mutant of Lapsed) The new state is not written.
LapsedInRevision(attempt) == [attempt EXCEPT !.revision = @ + 1]

Lapsed(attempt) == [attempt EXCEPT !.state = "EXPIRED", !.revision = @ + 1]
==============================================================================
