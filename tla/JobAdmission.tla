----------------------------- MODULE JobAdmission -----------------------------
(***************************************************************************)
(* The way of a job from its admission to the queue of the workers:        *)
(* JraAdmissionService.admit and ReadyJobQueueService.promote over their   *)
(* Prisma adapters, and the moves of JobService.transition in between.     *)
(* Every transaction here is Serializable, hence one step; one that fails  *)
(* to serialize, or whose answer is lost, is seen by its caller as no      *)
(* answer.  Jobs are numbered by the createdAt of their dispatch records.  *)
(***************************************************************************)
EXTENDS JobDomain, FiniteSets

CONSTANTS Last,          \* bound: the jobs are 1 .. Last
          Limit,         \* the limit of promote
          MaxRevision    \* bound on the revisions of a job

ASSUME AdmissionAssumption ==
    /\ Last \in Nat \ {0}
    /\ Limit \in 1 .. 100
    /\ MaxRevision \in Nat \ {0, 1}

Jobs == 1 .. Last

NoJob == [state |-> "none", revision |-> 0, started |-> FALSE, finished |-> FALSE]

JobRows == [state : JobStates, revision : 1 .. MaxRevision, started : BOOLEAN, finished : BOOLEAN]

VARIABLES job,       \* JobRecord
          request,   \* ExecutionRequestDescriptorRecord: the jobs that have one
          dispatch,  \* the JOB_READY JobDispatchRecord of each job
          told       \* the answers the caller of admit has received

vars == <<job, request, dispatch, told>>

TypeOK ==
    /\ job \in [Jobs -> JobRows \cup {NoJob}]
    /\ request \subseteq Jobs
    /\ dispatch \in [Jobs -> {"none", "pending", "delivered"}]
    /\ told \in [Jobs -> SUBSET {"admitted", "conflict"}]

Init ==
    /\ job = [j \in Jobs |-> NoJob]
    /\ request = {}
    /\ dispatch = [j \in Jobs |-> "none"]
    /\ told = [j \in Jobs |-> {}]

Told(j, answer) == told' \in {told, [told EXCEPT ![j] = @ \cup {answer}]}

-----------------------------------------------------------------------------
(* admit                                                                   *)

Fresh(j) == job[j] = NoJob /\ j \notin request /\ dispatch[j] = "none"

\* What is stored equals, as JSON, what the caller sends again.
Same(j) == job[j] = CreatedJob /\ j \in request /\ dispatch[j] = "pending"

Admit(j) ==
    /\ Fresh(j)
    /\ job' = [job EXCEPT ![j] = CreatedJob]
    /\ request' = request \cup {j}
    /\ dispatch' = [dispatch EXCEPT ![j] = "pending"]
    /\ Told(j, "admitted")

\* The caller, which may not have seen the first answer, repeats the admission.
Replay(j) ==
    /\ ~Fresh(j)
    /\ Told(j, IF Same(j) THEN "admitted" ELSE "conflict")
    /\ UNCHANGED <<job, request, dispatch>>

-----------------------------------------------------------------------------
(* promote                                                                 *)

Before(j) == {i \in Jobs : i < j /\ dispatch[i] = "pending"}

\* The oldest Limit records that are not delivered.
listPending == {j \in Jobs : dispatch[j] = "pending" /\ Cardinality(Before(j)) < Limit}

\* Other jobs are skipped, and their records stay as they are.
Ready(j) == job[j].state \in {"CREATED", "QUEUED"}

\* (Mutant of promoteOne) The record is delivered, the job not moved.
promoteOneDelivered(j) == job[j]

\* (Mutant of promoteOne) A job that is queued already is moved once more.
promoteOneAgain(j) == [job[j] EXCEPT !.state = "QUEUED", !.revision = @ + 1]

promoteOne(j) == IF job[j].state = "CREATED" THEN Moved(job[j], "QUEUED") ELSE job[j]

promote ==
    LET batch == {j \in listPending : Ready(j)}
    IN  /\ batch /= {}
        /\ job' = [j \in Jobs |-> IF j \in batch THEN promoteOne(j) ELSE job[j]]
        /\ dispatch' = [j \in Jobs |-> IF j \in batch THEN "delivered" ELSE dispatch[j]]
        /\ UNCHANGED <<request, told>>

-----------------------------------------------------------------------------
(* transition                                                              *)

\* A move to QUEUED out of CREATED is left to promote; the bound leaves room for it.
transition(j, next) ==
    /\ job[j] /= NoJob
    /\ job[j].revision < MaxRevision
    /\ Accepts(job[j], next)
    /\ job[j].state = "CREATED" => next /= "QUEUED" /\ job[j].revision + 1 < MaxRevision
    /\ job' = [job EXCEPT ![j] = Moved(@, next)]
    /\ UNCHANGED <<request, dispatch, told>>

Next ==
    \/ \E j \in Jobs : Admit(j) \/ Replay(j)
    \/ promote
    \/ \E j \in Jobs, next \in JobStates : transition(j, next)

Spec == Init /\ [][Next]_vars

-----------------------------------------------------------------------------
\* A job, its execution request and its dispatch record exist together or not at all, and a record
\* is delivered only for a job that has left CREATED: no job that waits for the queue is forgotten.
NothingForgotten ==
    \A j \in Jobs : /\ job[j] /= NoJob <=> j \in request
                    /\ job[j] /= NoJob <=> dispatch[j] /= "none"
                    /\ dispatch[j] = "delivered" => job[j].state /= "CREATED"

\* A job is passed on to the workers once: its record is never pending again, and a job that was
\* cancelled or has expired is not brought back by the coordinator.
PassedOnOnce ==
    [][\A j \in Jobs :
          /\ dispatch[j] = "delivered" => dispatch'[j] = "delivered"
          /\ dispatch[j] = "pending" /\ dispatch'[j] = "delivered" =>
                job[j].state \in {"CREATED", "QUEUED"} /\ job'[j].state = "QUEUED"]_vars
=============================================================================
