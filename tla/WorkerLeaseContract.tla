------------------------- MODULE WorkerLeaseContract -------------------------
(***************************************************************************)
(* The worker protocol implements the contract of a job.                   *)
(***************************************************************************)
EXTENDS WorkerLease

\* What a job row says in the words of the contract.
PhaseOf(state) ==
    CASE state = "NONE"    -> "unknown"
      [] state = "CREATED" -> "accepted"
      [] state = "QUEUED"  -> "ready"
      [] state \in WorkerJobStates -> "held"
      [] OTHER -> state

HolderRow(j) == IF latest[j] = 0 THEN NoRow ELSE attempt[Newest(j)]

Phase   == [j \in Jobs |-> PhaseOf(job[j].state)]
Holder  == [j \in Jobs |-> HolderRow(j).worker]
Until   == [j \in Jobs |-> HolderRow(j).lease]
Charged == [j \in Jobs |-> binding[j] = "SETTLED"]

Contract == INSTANCE JobContract WITH
    now <- clock, phase <- Phase, term <- latest,
    holder <- Holder, until <- Until, charged <- Charged

\* Every step of the protocol is a step of the contract or changes nothing the
\* contract speaks of: no interleaving of assign, claim, heartbeat, prepare,
\* finalize and complete, no repeated or late request hands a job over early,
\* settles it twice or charges without a result.
ImplementsContract == Contract!Spec
==============================================================================
