-------------------------- MODULE WorkerLeaseProofs --------------------------
(***************************************************************************)
(* The types and the safety of WorkerLease for every number of jobs,       *)
(* workers, slots, attempts and retries, and every term and deadline: job  *)
(* and attempt rows agree, usage is settled once, with the result, finished*)
(* jobs do not change, leases end with the deadline, and the log is a path.*)
(* Then what a worker may rely on: it holds its job alone, what it was     *)
(* told is accepted is accepted, and what it prepared stays bound to its   *)
(* lease.  These rest on what relates a process to its requests.  At the   *)
(* end, the protocol implements the contract of a job.                     *)
(***************************************************************************)
EXTENDS WorkerLeaseContract, TLAPS

-----------------------------------------------------------------------------
(* Helpers keep their types. *)

\* A fresh process is a process.
LEMMA IdleType == ASSUME NEW e \in Nat PROVE Idle(e) \in Process
BY DEF Idle, Process, MainOps, ReplayOps

\* The requests a process sends are requests.
LEMMA CallOfType ==
    ASSUME NEW w \in Workers, NEW p \in Process, p.op \in MainOps
    PROVE  /\ CallOf(w, p) \in Request
           /\ CallOf(w, p).phase = "sent" /\ CallOf(w, p).open
           /\ CallOf(w, p).op = p.op /\ CallOf(w, p).at = p.at /\ CallOf(w, p).w = w
BY DEF CallOf, NoRequest, NoSnapshot, Process, Request, Ops

LEMMA BeatOfType ==
    ASSUME NEW w \in Workers, NEW p \in Process
    PROVE  /\ BeatOf(w, p) \in Request
           /\ BeatOf(w, p).phase = "sent" /\ BeatOf(w, p).open
           /\ BeatOf(w, p).op = "heartbeat" /\ BeatOf(w, p).at = p.at /\ BeatOf(w, p).w = w
BY DEF BeatOf, NoRequest, NoSnapshot, Process, Request, Ops

\* Giving up on requests closes them and leaves the rest of them alone.
LEMMA AbandonedType ==
    ASSUME req \in [Slots -> Request \cup {NoRequest}], NEW w \in Workers, NEW ops
    PROVE  Abandoned(w, ops) \in [Slots -> Request \cup {NoRequest}]
<1> SUFFICES ASSUME NEW i \in Slots
             PROVE  Abandoned(w, ops)[i] \in Request \cup {NoRequest}
  BY DEF Abandoned
<1>1. CASE req[i] \in Request
  BY <1>1 DEF Abandoned, Request
<1>2. CASE req[i] = NoRequest
  BY <1>2 DEF Abandoned, NoRequest
<1> QED
  BY <1>1, <1>2

\* An answer frees the slot and gives the worker a process.
LEMMA AnswerType ==
    ASSUME TypeOK, NEW i \in Slots, req[i] \in Request, NEW p \in Process, Answer(i, p)
    PROVE  /\ wk' \in [Workers -> Process]
           /\ req' \in [Slots -> Request \cup {NoRequest}]
BY DEF TypeOK, Answer, Request

LEMMA AnsweredType ==
    ASSUME TypeOK, NEW i \in Slots, req[i] \in Request
    PROVE  Answered(i) \in Process
<1>1. wk[req[i].w] \in Process
  BY DEF TypeOK, Request
<1> QED
  BY <1>1 DEF Answered, Process

LEMMA RefusedType ==
    ASSUME TypeOK, NEW i \in Slots, req[i] \in Request, Rejected(i)
    PROVE  /\ wk' \in [Workers -> Process]
           /\ req' \in [Slots -> Request \cup {NoRequest}]
<1>1. Answered(i) \in Process
  BY AnsweredType
<1>2. /\ [Answered(i) EXCEPT !.beat = "lost"] \in Process
      /\ [Answered(i) EXCEPT !.pc = "refused"] \in Process
  BY <1>1 DEF Process
<1> QED
  BY <1>2, AnswerType DEF Rejected

LEMMA FinishedType ==
    ASSUME TypeOK, NEW i \in Slots, req[i] \in Request, Finished(i)
    PROVE  /\ wk' \in [Workers -> Process]
           /\ req' \in [Slots -> Request \cup {NoRequest}]
<1>1. Answered(i) \in Process
  BY AnsweredType
<1>2. [Answered(i) EXCEPT !.pc = "done"] \in Process
  BY <1>1 DEF Process
<1> QED
  BY <1>2, AnswerType DEF Finished

\* Moves of a job row.
LEMMA MovedType ==
    ASSUME NEW row \in JobRow, NEW next \in JobStates
    PROVE  Moved(row, next) \in JobRow /\ LogEntry(row, next) \in LogRow
BY DEF Moved, LogEntry, JobRow, LogRow

\* Moves of an attempt row.
LEMMA AttemptMovesType ==
    ASSUME NEW row \in AttemptRow
    PROVE  /\ Lapsed(row) \in AttemptRow
           /\ Started(row) \in AttemptRow
           /\ \A lease \in Nat : Renewed(row, lease) \in AttemptRow
           /\ \A outcome \in Outcomes : Completed(row, outcome) \in AttemptRow
<1>0. row.revision + 1 \in Nat
  BY DEF AttemptRow
<1>1. Lapsed(row) \in AttemptRow
  BY <1>0, Zenon DEF Lapsed, AttemptRow, AttemptStates
<1>2. Started(row) \in AttemptRow
  BY <1>0, Zenon DEF Started, AttemptRow, AttemptStates
<1>3. \A lease \in Nat : Renewed(row, lease) \in AttemptRow
  BY <1>0, Zenon DEF Renewed, AttemptRow
<1>4. \A outcome \in Outcomes : Completed(row, outcome) \in AttemptRow
  BY <1>0, Zenon DEF Completed, AttemptRow, AttemptStates, Outcomes
<1> QED
  BY <1>1, <1>2, <1>3, <1>4

\* A worker that is given an attempt is a process.
LEMMA AssignedType ==
    ASSUME NEW p \in Process, NEW a \in Attempts, NEW lease \in Nat
    PROVE  [p EXCEPT !.pc = "assigned", !.at = a, !.rev = 1, !.lease = lease,
                     !.bound = lease] \in Process
BY DEF Process

-----------------------------------------------------------------------------
(* Type correctness *)

\* Only an assignment is authorized without an attempt.  Types need this: the
\* transactions look up the rows of the attempt the request names.
AuthorizedNamesAttempt ==
    \A i \in Slots : req[i].phase = "authorized" /\ req[i].op # "assign" => req[i].at \in Attempts

Typed == TypeOK /\ AuthorizedNamesAttempt

LEMMA TypedInit == Init => Typed
<1> SUFFICES ASSUME Init PROVE Typed
  OBVIOUS
<1>1. wk \in [Workers -> Process]
  BY IdleType DEF Init
<1>2. TypeOK
  BY <1>1, BoundsAssumption, LimitsAssumption
  DEF Init, TypeOK, NoPrep, NoFin, NoComp, PrepRow, FinRow, CompRow
<1>3. AuthorizedNamesAttempt
  BY DEF Init, AuthorizedNamesAttempt, NoRequest
<1> QED
  BY <1>2, <1>3 DEF Typed

LEMMA TypedTick == Typed /\ Tick => Typed'
BY BoundsAssumption DEF Typed, TypeOK, AuthorizedNamesAttempt, Tick, rows

LEMMA TypedRotate == \A w \in Workers : Typed /\ RotateSecret(w) => Typed'
BY BoundsAssumption DEF Typed, TypeOK, AuthorizedNamesAttempt, RotateSecret, rows

LEMMA TypedAdmit == \A j \in Jobs : Typed /\ Admit(j) => Typed'
<1> SUFFICES ASSUME NEW j \in Jobs, Typed, Admit(j) PROVE Typed'
  OBVIOUS
<1>1. CreatedJob \in JobRow
  BY DEF CreatedJob, JobRow, JobStates
<1> QED
  BY <1>1 DEF Typed, TypeOK, AuthorizedNamesAttempt, Admit, world

LEMMA TypedPromote == Typed /\ Promote => Typed'
<1> SUFFICES ASSUME Typed, Promote PROVE Typed'
  OBVIOUS
<1> DEFINE queued == {j \in PendingBatch : job[j].state = "CREATED" /\ Accepts(job[j], "QUEUED")}
<1>1. \A j \in queued : job[j] \in JobRow
  BY DEF Typed, TypeOK, NoJob, PendingBatch, Pending
<1>2. \A j \in queued : /\ Moved(job[j], "QUEUED") \in JobRow
                        /\ LogEntry(job[j], "QUEUED") \in LogRow
  BY <1>1, MovedType DEF JobStates
<1>3. job' \in [Jobs -> JobRow \cup {NoJob}] /\ log' \in [Jobs -> Seq(LogRow)]
  <2>1. job' = [j \in Jobs |-> IF j \in queued THEN Moved(job[j], "QUEUED") ELSE job[j]]
    BY DEF Promote
  <2>2. log' = [j \in Jobs |-> IF j \in queued THEN Append(log[j], LogEntry(job[j], "QUEUED"))
                               ELSE log[j]]
    BY DEF Promote
  <2>3. job \in [Jobs -> JobRow \cup {NoJob}] /\ log \in [Jobs -> Seq(LogRow)]
    BY DEF Typed, TypeOK
  <2> HIDE DEF queued
  <2> QED
    BY <1>2, <2>1, <2>2, <2>3
<1>4. ready' \in [Jobs -> {"NONE", "PENDING", "DELIVERED"}]
  BY DEF Typed, TypeOK, Promote
<1> QED
  BY <1>3, <1>4 DEF Typed, TypeOK, AuthorizedNamesAttempt, Promote, world

-----------------------------------------------------------------------------
(* ... of the worker's actions *)

LEMMA TypedCall ==
    ASSUME NEW w \in Workers, NEW op \in MainOps, NEW outcome \in Reports \cup {"NONE"},
           Typed, Call(w, op, outcome)
    PROVE  Typed'
<1> DEFINE p == [wk[w] EXCEPT !.pc = "waiting", !.op = op, !.outcome = outcome, !.tries = 0]
<1>0. wk[w] \in Process /\ outcome \in Outcomes \cup {"NONE"}
  BY JobDataAssumption DEF Typed, TypeOK
<1>1. p \in Process /\ p.op = op
  BY <1>0 DEF Process
<1>2. CallOf(w, p) \in Request /\ CallOf(w, p).phase = "sent"
  BY <1>1, CallOfType
<1> HIDE DEF p
<1>3. wk' \in [Workers -> Process] /\ req' \in [Slots -> Request \cup {NoRequest}]
  BY <1>1, <1>2 DEF Typed, TypeOK, Call, p
<1>4. AuthorizedNamesAttempt'
  BY <1>2 DEF Typed, TypeOK, AuthorizedNamesAttempt, Call, p, rows, NoRequest
<1> QED
  BY <1>3, <1>4 DEF Typed, TypeOK, Call, world, rows

LEMMA TypedBeat == ASSUME NEW w \in Workers, Typed, Beat(w) PROVE Typed'
<1> DEFINE p == [wk[w] EXCEPT !.beat = "out", !.next = NextExpiry(wk[w].lease, clock),
                              !.beatTries = 0]
<1>0. wk[w] \in Process
  BY DEF Typed, TypeOK
<1>1. wk[w].lease \in Nat /\ clock \in Nat
  BY <1>0 DEF Typed, TypeOK, Process
<1>2. NextExpiry(wk[w].lease, clock) \in Nat
  BY <1>1, LimitsAssumption DEF NextExpiry
<1>3. p \in Process
  BY <1>0, <1>2 DEF Process
<1>4. BeatOf(w, p) \in Request /\ BeatOf(w, p).phase = "sent"
  BY <1>3, BeatOfType
<1> HIDE DEF p
<1>5. wk' \in [Workers -> Process] /\ req' \in [Slots -> Request \cup {NoRequest}]
  BY <1>3, <1>4 DEF Typed, TypeOK, Beat, p
<1>6. AuthorizedNamesAttempt'
  BY <1>4 DEF Typed, TypeOK, AuthorizedNamesAttempt, Beat, p, rows, NoRequest
<1> QED
  BY <1>5, <1>6 DEF Typed, TypeOK, Beat, world, rows

\* Giving up on requests authorizes none.
LEMMA AbandonedAuthorized ==
    ASSUME Typed, NEW w \in Workers, NEW ops, NEW i \in Slots,
           Abandoned(w, ops)[i].phase = "authorized", Abandoned(w, ops)[i].op # "assign"
    PROVE  Abandoned(w, ops)[i].at \in Attempts
<1>1. /\ Abandoned(w, ops)[i].phase = req[i].phase
      /\ Abandoned(w, ops)[i].op = req[i].op
      /\ Abandoned(w, ops)[i].at = req[i].at
  BY DEF Typed, TypeOK, Abandoned, Request, NoRequest
<1> QED
  BY <1>1 DEF Typed, AuthorizedNamesAttempt

LEMMA TypedRetryCall == ASSUME NEW w \in Workers, Typed, RetryCall(w) PROVE Typed'
<1> DEFINE q == Abandoned(w, MainOps)
<1>0. wk[w] \in Process /\ wk[w].op \in MainOps \cup {"none"}
  BY DEF Typed, TypeOK, Process
<1>1. [wk[w] EXCEPT !.tries = @ + 1] \in Process
  BY <1>0 DEF Process
<1>2. q \in [Slots -> Request \cup {NoRequest}]
  BY AbandonedType DEF Typed, TypeOK
<1>3. \A i \in Slots : q[i].phase = "authorized" /\ q[i].op # "assign" => q[i].at \in Attempts
  BY AbandonedAuthorized
<1>4. CallOf(w, wk[w]).phase = "sent"
  BY DEF CallOf, NoRequest
<1>5. PICK i \in Slots : req' = [q EXCEPT ![i] = CallOf(w, wk[w])]
  BY DEF RetryCall
<1>6. wk[w].op \in MainOps
  BY <1>0 DEF RetryCall, Process
<1>7. CallOf(w, wk[w]) \in Request
  BY <1>0, <1>6, CallOfType
<1> HIDE DEF q
<1>8. req' \in [Slots -> Request \cup {NoRequest}]
  BY <1>2, <1>5, <1>7
<1>9. AuthorizedNamesAttempt'
  BY <1>2, <1>3, <1>4, <1>5 DEF AuthorizedNamesAttempt
<1>10. wk' \in [Workers -> Process]
  BY <1>1 DEF RetryCall, Typed, TypeOK
<1> QED
  BY <1>8, <1>9, <1>10 DEF Typed, TypeOK, RetryCall, world, rows

LEMMA TypedRetryBeat == ASSUME NEW w \in Workers, Typed, RetryBeat(w) PROVE Typed'
<1> DEFINE q == Abandoned(w, {"heartbeat"})
<1>0. wk[w] \in Process
  BY DEF Typed, TypeOK
<1>1. [wk[w] EXCEPT !.beatTries = @ + 1] \in Process
  BY <1>0 DEF Process
<1>2. q \in [Slots -> Request \cup {NoRequest}]
  BY AbandonedType DEF Typed, TypeOK
<1>3. \A i \in Slots : q[i].phase = "authorized" /\ q[i].op # "assign" => q[i].at \in Attempts
  BY AbandonedAuthorized
<1>4. BeatOf(w, wk[w]).phase = "sent" /\ BeatOf(w, wk[w]) \in Request
  BY <1>0, BeatOfType
<1>5. PICK i \in Slots : req' = [q EXCEPT ![i] = BeatOf(w, wk[w])]
  BY DEF RetryBeat
<1> HIDE DEF q
<1>6. req' \in [Slots -> Request \cup {NoRequest}]
  BY <1>2, <1>4, <1>5
<1>7. AuthorizedNamesAttempt'
  BY <1>2, <1>3, <1>4, <1>5 DEF AuthorizedNamesAttempt
<1>8. wk' \in [Workers -> Process]
  BY <1>1 DEF RetryBeat, Typed, TypeOK
<1> QED
  BY <1>6, <1>7, <1>8 DEF Typed, TypeOK, RetryBeat, world, rows

LEMMA TypedLoseBeat == ASSUME NEW w \in Workers, Typed, LoseBeat(w) PROVE Typed'
<1>0. wk[w] \in Process
  BY DEF Typed, TypeOK
<1>1. [wk[w] EXCEPT !.beat = "lost", !.next = 0, !.beatTries = 0] \in Process
  BY <1>0 DEF Process
<1>2. wk' \in [Workers -> Process]
  BY <1>1 DEF LoseBeat, Typed, TypeOK
<1>3. req' \in [Slots -> Request \cup {NoRequest}] /\ AuthorizedNamesAttempt'
  BY AbandonedType, AbandonedAuthorized DEF LoseBeat, Typed, TypeOK, AuthorizedNamesAttempt
<1> QED
  BY <1>2, <1>3 DEF Typed, TypeOK, LoseBeat, world, rows

LEMMA TypedNextRound == ASSUME NEW w \in Workers, Typed, NextRound(w) PROVE Typed'
<1>0. wk[w] \in Process /\ epoch[w] \in Nat
  BY BoundsAssumption DEF Typed, TypeOK
<1>1. \A e \in {wk[w].epoch, epoch[w]} : Idle(e) \in Process
  BY <1>0, IdleType DEF Process
<1>2. wk' \in [Workers -> Process]
  BY <1>1 DEF NextRound, Typed, TypeOK
<1>3. req' \in [Slots -> Request \cup {NoRequest}] /\ AuthorizedNamesAttempt'
  BY AbandonedType, AbandonedAuthorized DEF NextRound, Typed, TypeOK, AuthorizedNamesAttempt
<1> QED
  BY <1>2, <1>3 DEF Typed, TypeOK, NextRound, world, rows

-----------------------------------------------------------------------------
(* ... of the handlers *)

LEMMA AnswerAuthorized ==
    ASSUME Typed, NEW i \in Slots, NEW p, Answer(i, p)
    PROVE  AuthorizedNamesAttempt'
BY DEF Typed, TypeOK, AuthorizedNamesAttempt, Answer, NoRequest

\* What a transaction relies on: a request of its kind that names its attempt.
LEMMA TransactionType ==
    ASSUME Typed, NEW i \in Slots, NEW op, InTransaction(i, op)
    PROVE  req[i] \in Request /\ (op # "assign" => req[i].at \in Attempts)
BY DEF Typed, TypeOK, AuthorizedNamesAttempt, InTransaction, NoRequest

LEMMA TypedDrop == ASSUME NEW i \in Slots, Typed, Drop(i) PROVE Typed'
BY DEF Typed, TypeOK, AuthorizedNamesAttempt, Drop, world, rows, NoRequest

LEMMA TypedLookUp == ASSUME NEW i \in Slots, Typed, LookUp(i) PROVE Typed'
<1>0. req[i] \in Request /\ clock \in Nat
  BY BoundsAssumption DEF Typed, TypeOK, LookUp, NoRequest
<1>1. CASE Finished(i)
  <2>1. wk' \in [Workers -> Process] /\ req' \in [Slots -> Request \cup {NoRequest}]
    BY <1>0, <1>1, FinishedType DEF Typed
  <2>2. AuthorizedNamesAttempt'
    BY <1>1, AnswerAuthorized DEF Finished
  <2> QED
    BY <2>1, <2>2 DEF Typed, TypeOK, LookUp, world, rows
<1>2. CASE req' = [req EXCEPT ![i].phase = "looked", ![i].now = clock] /\ UNCHANGED wk
  <2>1. [req[i] EXCEPT !.phase = "looked", !.now = clock] \in Request
    BY <1>0 DEF Request
  <2>2. req' \in [Slots -> Request \cup {NoRequest}]
    BY <1>2, <2>1 DEF Typed, TypeOK
  <2>3. AuthorizedNamesAttempt'
    BY <1>0, <1>2 DEF Typed, TypeOK, AuthorizedNamesAttempt, Request
  <2> QED
    BY <1>2, <2>2, <2>3 DEF Typed, TypeOK, LookUp, world, rows
<1> QED
  BY <1>1, <1>2 DEF LookUp

LEMMA TypedAuthorize == ASSUME NEW i \in Slots, Typed, Authorize(i) PROVE Typed'
<1> DEFINE now == IF req[i].op = "complete" THEN req[i].now ELSE clock
           seen == IF req[i].op = "assign" THEN req[i].seen ELSE Snapshot(req[i].at)
           r == [req[i] EXCEPT !.phase = "authorized", !.now = now, !.seen = seen]
<1>0. req[i] \in Request /\ clock \in Nat
  BY BoundsAssumption DEF Typed, TypeOK, Authorize, Checking, NoRequest
<1>1. req[i].op # "assign" => /\ req[i].at \in Attempts
                              /\ Snapshot(req[i].at) \in [lease : Nat, jobRev : Nat]
  <2>1. req[i].op # "assign" => req[i].at \in Attempts
    BY DEF Authorize, Authorized, HoldsLease
  <2>2. \A a \in Attempts : attempt[a].lease \in Nat /\ job[a[1]].revision \in Nat
    BY DEF Typed, TypeOK, Attempts, AttemptRow, NoRow, JobRow, NoJob
  <2> QED
    BY <2>1, <2>2 DEF Snapshot
<1>2. now \in Nat /\ seen \in [lease : Nat, jobRev : Nat]
  BY <1>0, <1>1 DEF Request
<1> HIDE DEF now, seen
<1>3. r \in Request /\ r.op = req[i].op /\ r.at = req[i].at
  BY <1>0, <1>2 DEF Request
<1>4. req' = [req EXCEPT ![i] = r]
  BY DEF Authorize, now, seen
<1> HIDE DEF r
<1>5. req' \in [Slots -> Request \cup {NoRequest}]
  BY <1>3, <1>4 DEF Typed, TypeOK
<1>6. AuthorizedNamesAttempt'
  BY <1>1, <1>3, <1>4 DEF Typed, TypeOK, AuthorizedNamesAttempt
<1> QED
  BY <1>5, <1>6 DEF Typed, TypeOK, Authorize, world, rows

LEMMA TypedRefuse ==
    ASSUME NEW i \in Slots, Typed, RefuseEarly(i) \/ RefuseTx(i) PROVE Typed'
<1>0. req[i] \in Request /\ Rejected(i)
  BY DEF Typed, TypeOK, RefuseEarly, RefuseTx, Checking, NoRequest
<1>1. wk' \in [Workers -> Process] /\ req' \in [Slots -> Request \cup {NoRequest}]
  BY <1>0, RefusedType DEF Typed
<1>2. AuthorizedNamesAttempt'
  BY <1>0, AnswerAuthorized DEF Rejected
<1> QED
  BY <1>1, <1>2 DEF Typed, TypeOK, RefuseEarly, RefuseTx, world, rows

LEMMA TypedReplay == ASSUME NEW i \in Slots, Typed, ReplayTx(i) PROVE Typed'
<1>0. req[i] \in Request /\ Finished(i)
  BY DEF Typed, TypeOK, ReplayTx, NoRequest
<1>1. wk' \in [Workers -> Process] /\ req' \in [Slots -> Request \cup {NoRequest}]
  BY <1>0, FinishedType DEF Typed
<1>2. AuthorizedNamesAttempt'
  BY <1>0, AnswerAuthorized DEF Finished
<1> QED
  BY <1>1, <1>2 DEF Typed, TypeOK, ReplayTx, world, rows

LEMMA TypedAssignNothing == ASSUME NEW i \in Slots, Typed, AssignNothing(i) PROVE Typed'
<1>0. req[i] \in Request
  BY TransactionType DEF AssignNothing
<1>1. Idle(wk[req[i].w].epoch) \in Process
  BY <1>0, IdleType DEF Typed, TypeOK, Request, Process
<1>2. wk' \in [Workers -> Process] /\ req' \in [Slots -> Request \cup {NoRequest}]
  BY <1>0, <1>1, AnswerType DEF AssignNothing, Typed
<1>3. AuthorizedNamesAttempt'
  BY AnswerAuthorized DEF AssignNothing
<1> QED
  BY <1>2, <1>3 DEF Typed, TypeOK, AssignNothing, world, rows

\* What assign may find: overdue attempts are rows, and queued jobs are rows.
LEMMA CandidateType ==
    ASSUME TypeOK, NEW now, NEW j \in Candidates(now)
    PROVE  /\ j \in Jobs
           /\ \/ /\ Newest(j) \in Attempts
                 /\ CanExpire(attempt[Newest(j)], now)
                 /\ job[j].state \in WorkerJobStates
              \/ /\ Overdue(now) = {}
                 /\ job[j] \in JobRow
                 /\ job[j].state = "QUEUED"
<1>1. CASE Overdue(now) # {}
  <2>1. PICK a \in Overdue(now) : j = a[1]
    BY <1>1 DEF Candidates
  <2> QED
    BY <2>1 DEF Overdue, Attempts
<1>2. CASE Overdue(now) = {}
  BY <1>2 DEF Candidates, Queued, TypeOK, NoJob
<1> QED
  BY <1>1, <1>2

LEMMA TypedAssignTx == ASSUME NEW i \in Slots, Typed, AssignTx(i) PROVE Typed'
<1> DEFINE now == req[i].now
           w == req[i].w
<1>0. req[i] \in Request /\ now \in Nat /\ w \in Workers
  BY TransactionType DEF AssignTx, Request
<1>1. PICK j \in Candidates(now) :
        LET fresh == <<j, latest[j] + 1>>
            lease == now + LeaseTerm
            dispatched == job[j].state = "QUEUED"
        IN /\ Assignable(j, now)
           /\ attempt' = [a \in Attempts |->
                            IF a = fresh THEN ClaimedAttempt(w, lease)
                            ELSE IF a = Newest(j) /\ ~dispatched THEN Lapsed(attempt[a])
                            ELSE attempt[a]]
           /\ latest' = [latest EXCEPT ![j] = @ + 1]
           /\ IF dispatched
              THEN /\ job' = [job EXCEPT ![j] = Moved(@, "DISPATCHED")]
                   /\ log' = [log EXCEPT ![j] = Append(@, LogEntry(job[j], "DISPATCHED"))]
              ELSE UNCHANGED <<job, log>>
           /\ \/ Answer(i, [Answered(i) EXCEPT !.pc = "assigned", !.at = fresh, !.rev = 1,
                                              !.lease = lease, !.bound = lease])
              \/ Answer(i, Idle(wk[w].epoch))
  BY DEF AssignTx
<1> DEFINE fresh == <<j, latest[j] + 1>>
           lease == now + LeaseTerm
           told == [Answered(i) EXCEPT !.pc = "assigned", !.at = fresh, !.rev = 1,
                                       !.lease = lease, !.bound = lease]
<1>2. j \in Jobs /\ latest[j] \in Nat /\ latest[j] < MaxAttempts /\ lease \in Nat
  BY <1>0, <1>1, CandidateType, LimitsAssumption DEF Assignable, Typed, TypeOK
<1>3. fresh \in Attempts /\ latest[j] + 1 \in 0..MaxAttempts
  BY <1>2, LimitsAssumption DEF Attempts
<1>4. latest' \in [Jobs -> 0..MaxAttempts]
  BY <1>1, <1>3 DEF Typed, TypeOK
<1>5. \/ job[j].state = "QUEUED" /\ job[j] \in JobRow
      \/ /\ job[j].state # "QUEUED"
         /\ attempt[Newest(j)] \in AttemptRow
         /\ Lapsed(attempt[Newest(j)]) \in AttemptRow
  <2>1. CASE job[j] \in JobRow /\ job[j].state = "QUEUED"
    BY <2>1
  <2>2. CASE /\ Newest(j) \in Attempts
             /\ CanExpire(attempt[Newest(j)], now)
             /\ job[j].state \in WorkerJobStates
    <3>1. attempt[Newest(j)] \in AttemptRow
      BY <2>2 DEF CanExpire, Active, ActiveStates, Typed, TypeOK, NoRow
    <3>2. Lapsed(attempt[Newest(j)]) \in AttemptRow
      BY <3>1, AttemptMovesType
    <3> QED
      BY <2>2, <3>1, <3>2 DEF WorkerJobStates
  <2> QED
    BY <2>1, <2>2, CandidateType DEF Typed
<1>6. ClaimedAttempt(w, lease) \in AttemptRow
  BY <1>0, <1>2 DEF ClaimedAttempt, AttemptRow, AttemptStates
<1>7. attempt' \in [Attempts -> AttemptRow \cup {NoRow}]
  BY <1>1, <1>5, <1>6 DEF Typed, TypeOK
<1>8. job' \in [Jobs -> JobRow \cup {NoJob}] /\ log' \in [Jobs -> Seq(LogRow)]
  <2>1. CASE job[j].state = "QUEUED"
    <3>1. Moved(job[j], "DISPATCHED") \in JobRow /\ LogEntry(job[j], "DISPATCHED") \in LogRow
      BY <1>5, <2>1, MovedType DEF JobStates
    <3>2. job' = [job EXCEPT ![j] = Moved(@, "DISPATCHED")]
      BY <1>1, <2>1
    <3>3. log' = [log EXCEPT ![j] = Append(@, LogEntry(job[j], "DISPATCHED"))]
      BY <1>1, <2>1
    <3>4. job \in [Jobs -> JobRow \cup {NoJob}] /\ log \in [Jobs -> Seq(LogRow)]
      BY DEF Typed, TypeOK
    <3> QED
      BY <1>2, <3>1, <3>2, <3>3, <3>4
  <2>2. CASE job[j].state # "QUEUED"
    BY <1>1, <2>2 DEF Typed, TypeOK
  <2> QED
    BY <2>1, <2>2
<1>9. told \in Process
  <2>1. Answered(i) \in Process
    BY <1>0, AnsweredType DEF Typed
  <2> HIDE DEF fresh, lease
  <2> QED
    BY <2>1, <1>2, <1>3, AssignedType
<1>10. Idle(wk[w].epoch) \in Process
  BY <1>0, IdleType DEF Typed, TypeOK, Process
<1>11. Answer(i, told) \/ Answer(i, Idle(wk[w].epoch))
  BY <1>1
<1> HIDE DEF told
<1>12. wk' \in [Workers -> Process] /\ req' \in [Slots -> Request \cup {NoRequest}]
  BY <1>0, <1>9, <1>10, <1>11, AnswerType DEF Typed
<1>13. AuthorizedNamesAttempt'
  BY <1>11, AnswerAuthorized
<1> QED
  BY <1>4, <1>7, <1>8, <1>12, <1>13 DEF Typed, TypeOK, AssignTx, world

\* The holder of a lease has an attempt row and a job row.
LEMMA HolderType ==
    ASSUME TypeOK, NEW r, NEW now, HoldsLease(r, now)
    PROVE  /\ r.at \in Attempts /\ r.at[1] \in Jobs
           /\ attempt[r.at] \in AttemptRow
           /\ job[r.at[1]] \in JobRow
           /\ job[r.at[1]].state \in WorkerJobStates
BY DEF HoldsLease, Attempts, Active, ActiveStates, WorkerJobStates, TypeOK, NoRow, NoJob

LEMMA TypedClaimTx == ASSUME NEW i \in Slots, Typed, ClaimTx(i) PROVE Typed'
<1> DEFINE a == req[i].at
           p == [Answered(i) EXCEPT !.pc = "running", !.rev = attempt'[a].revision,
                                    !.lease = attempt'[a].lease]
<1>0. req[i] \in Request /\ a \in Attempts
  BY TransactionType DEF ClaimTx
<1>1. Started(attempt[a]) \in AttemptRow
  BY HolderType, AttemptMovesType DEF ClaimTx, ClaimPermitted, Typed
<1>2. attempt' = [attempt EXCEPT ![a] = Started(@)]
  BY DEF ClaimTx
<1>3. attempt' \in [Attempts -> AttemptRow \cup {NoRow}] /\ attempt'[a] \in AttemptRow
  BY <1>0, <1>1, <1>2 DEF Typed, TypeOK
<1>4. attempt'[a].revision \in Nat /\ attempt'[a].lease \in Nat
  BY <1>3 DEF AttemptRow
<1>5. p \in Process
  BY <1>0, <1>4, AnsweredType, Zenon DEF Typed, Process
<1>6. Answer(i, p)
  BY DEF ClaimTx
<1> HIDE DEF p
<1>7. wk' \in [Workers -> Process] /\ req' \in [Slots -> Request \cup {NoRequest}]
  BY <1>0, <1>5, <1>6, AnswerType DEF Typed
<1>8. AuthorizedNamesAttempt'
  BY <1>6, AnswerAuthorized
<1> QED
  BY <1>3, <1>7, <1>8 DEF Typed, TypeOK, ClaimTx, world

LEMMA TypedHeartbeatTx == ASSUME NEW i \in Slots, Typed, HeartbeatTx(i) PROVE Typed'
<1> DEFINE a == req[i].at
           p == [Answered(i) EXCEPT !.rev = attempt'[a].revision,
                                    !.lease = attempt'[a].lease]
<1>0. req[i] \in Request /\ a \in Attempts /\ req[i].lease \in Nat
  BY TransactionType DEF HeartbeatTx, Request
<1>1. Renewed(attempt[a], req[i].lease) \in AttemptRow
  BY <1>0, HolderType, AttemptMovesType DEF HeartbeatTx, HeartbeatPermitted, Typed
<1>2. attempt' = [attempt EXCEPT ![a] = Renewed(@, req[i].lease)]
  BY DEF HeartbeatTx
<1>3. attempt' \in [Attempts -> AttemptRow \cup {NoRow}] /\ attempt'[a] \in AttemptRow
  BY <1>0, <1>1, <1>2 DEF Typed, TypeOK
<1>4. attempt'[a].revision \in Nat /\ attempt'[a].lease \in Nat
  BY <1>3 DEF AttemptRow
<1>5. p \in Process
  BY <1>0, <1>4, AnsweredType, Zenon DEF Typed, Process
<1>6. Answer(i, p)
  BY DEF HeartbeatTx
<1> HIDE DEF p
<1>7. wk' \in [Workers -> Process] /\ req' \in [Slots -> Request \cup {NoRequest}]
  BY <1>0, <1>5, <1>6, AnswerType DEF Typed
<1>8. AuthorizedNamesAttempt'
  BY <1>6, AnswerAuthorized
<1> QED
  BY <1>3, <1>7, <1>8 DEF Typed, TypeOK, HeartbeatTx, world

LEMMA TypedPrepareTx == ASSUME NEW i \in Slots, Typed, PrepareTx(i) PROVE Typed'
<1> DEFINE a == req[i].at
           p == [Answered(i) EXCEPT !.pc = "prepared", !.bound = prep'[a].lease]
           made == [made |-> TRUE, epoch |-> req[i].epoch, rev |-> req[i].rev,
                    lease |-> req[i].seen.lease]
<1>0. req[i] \in Request /\ a \in Attempts
  BY TransactionType DEF PrepareTx
<1>1. made \in PrepRow
  BY <1>0 DEF Request, PrepRow
<1>2. prep' = IF prep[a].made THEN prep ELSE [prep EXCEPT ![a] = made]
  BY DEF PrepareTx
<1> HIDE DEF made
<1>3. prep' \in [Attempts -> PrepRow]
  BY <1>0, <1>1, <1>2 DEF Typed, TypeOK
<1>4. prep'[a].lease \in Nat
  BY <1>0, <1>3 DEF PrepRow
<1>5. p \in Process
  BY <1>0, <1>4, AnsweredType, Zenon DEF Typed, Process
<1>6. Answer(i, p)
  BY DEF PrepareTx
<1> HIDE DEF p
<1>7. wk' \in [Workers -> Process] /\ req' \in [Slots -> Request \cup {NoRequest}]
  BY <1>0, <1>5, <1>6, AnswerType DEF Typed
<1>8. AuthorizedNamesAttempt'
  BY <1>6, AnswerAuthorized
<1> QED
  BY <1>3, <1>7, <1>8 DEF Typed, TypeOK, PrepareTx, world

\* What closing an attempt and its job writes.
LEMMA ClosingType ==
    ASSUME NEW j \in Jobs, job[j] \in JobRow, NEW outcome \in Outcomes
    PROVE  /\ Closing(j, outcome).job \in JobRow
           /\ Closing(j, outcome).job.state = outcome
           /\ Closing(j, outcome).entries \in Seq(LogRow)
<1> DEFINE running == IF job[j].state = "DISPATCHED" THEN Moved(job[j], "RUNNING") ELSE job[j]
           first == IF job[j].state = "DISPATCHED" THEN <<LogEntry(job[j], "RUNNING")>> ELSE << >>
<1>1. running \in JobRow /\ first \in Seq(LogRow)
  BY MovedType DEF JobStates
<1>2. outcome \in JobStates
  BY DEF Outcomes, JobStates
<1> HIDE DEF running, first
<1>3. Moved(running, outcome) \in JobRow /\ LogEntry(running, outcome) \in LogRow
  BY <1>1, <1>2, MovedType
<1>4. Append(first, LogEntry(running, outcome)) \in Seq(LogRow)
  BY <1>1, <1>3
<1>5. /\ Closing(j, outcome).job = Moved(running, outcome)
      /\ Closing(j, outcome).entries = Append(first, LogEntry(running, outcome))
  BY DEF Closing, running, first
<1>6. Moved(running, outcome).state = outcome
  BY DEF Moved
<1> QED
  BY <1>3, <1>4, <1>5, <1>6

LEMMA CloseJobType ==
    ASSUME TypeOK, NEW a \in Attempts, NEW outcome \in Outcomes, CloseJob(a, outcome),
           attempt[a] \in AttemptRow, job[a[1]] \in JobRow
    PROVE  /\ attempt' \in [Attempts -> AttemptRow \cup {NoRow}]
           /\ job' \in [Jobs -> JobRow \cup {NoJob}]
           /\ log' \in [Jobs -> Seq(LogRow)]
<1>0. a[1] \in Jobs
  BY DEF Attempts
<1>1. attempt' \in [Attempts -> AttemptRow \cup {NoRow}]
  BY AttemptMovesType DEF CloseJob, TypeOK
<1>2. /\ Closing(a[1], outcome).job \in JobRow
      /\ Closing(a[1], outcome).entries \in Seq(LogRow)
  BY <1>0, ClosingType
<1>3. job' \in [Jobs -> JobRow \cup {NoJob}]
  BY <1>2 DEF CloseJob, TypeOK
<1>4. log[a[1]] \o Closing(a[1], outcome).entries \in Seq(LogRow)
  BY <1>0, <1>2 DEF TypeOK
<1>5. log' \in [Jobs -> Seq(LogRow)]
  BY <1>4 DEF CloseJob, TypeOK
<1> QED
  BY <1>1, <1>3, <1>5

LEMMA TypedFinalizeTx == ASSUME NEW i \in Slots, Typed, FinalizeTx(i) PROVE Typed'
<1> DEFINE a == req[i].at
           made == [made |-> TRUE, epoch |-> req[i].epoch, lease |-> req[i].lease]
<1>0. req[i] \in Request /\ a \in Attempts
  BY TransactionType DEF FinalizeTx
<1>1. attempt[a] \in AttemptRow /\ job[a[1]] \in JobRow
  BY HolderType DEF FinalizeTx, FinalizePermitted, Typed
<1>2. /\ attempt' \in [Attempts -> AttemptRow \cup {NoRow}]
      /\ job' \in [Jobs -> JobRow \cup {NoJob}]
      /\ log' \in [Jobs -> Seq(LogRow)]
  BY <1>0, <1>1, CloseJobType DEF FinalizeTx, Typed, Outcomes
<1>3. made \in FinRow
  BY <1>0 DEF Request, FinRow
<1>4. fin' = [fin EXCEPT ![a] = made] /\ binding' = [binding EXCEPT ![a[1]] = "SETTLED"]
  BY DEF FinalizeTx
<1> HIDE DEF made
<1>5. fin' \in [Attempts -> FinRow] /\ binding' \in [Jobs -> {"NONE", "PREPARED", "SETTLED"}]
  BY <1>3, <1>4 DEF Typed, TypeOK
<1>6. wk' \in [Workers -> Process] /\ req' \in [Slots -> Request \cup {NoRequest}]
  BY <1>0, FinishedType DEF FinalizeTx, Typed
<1>7. AuthorizedNamesAttempt'
  BY AnswerAuthorized DEF FinalizeTx, Finished
<1> QED
  BY <1>2, <1>5, <1>6, <1>7 DEF Typed, TypeOK, FinalizeTx, world

LEMMA TypedCompleteTx == ASSUME NEW i \in Slots, Typed, CompleteTx(i) PROVE Typed'
<1> DEFINE a == req[i].at
           made == [made |-> TRUE, epoch |-> req[i].epoch, rev |-> req[i].rev,
                    outcome |-> req[i].outcome]
<1>0. req[i] \in Request /\ a \in Attempts
  BY TransactionType DEF CompleteTx
<1>1. attempt[a] \in AttemptRow /\ job[a[1]] \in JobRow /\ req[i].outcome \in Outcomes
  BY HolderType DEF CompleteTx, CompletePermitted, CanComplete, Typed
<1>2. /\ attempt' \in [Attempts -> AttemptRow \cup {NoRow}]
      /\ job' \in [Jobs -> JobRow \cup {NoJob}]
      /\ log' \in [Jobs -> Seq(LogRow)]
  BY <1>0, <1>1, CloseJobType DEF CompleteTx, Typed
<1>3. made \in CompRow
  BY <1>0 DEF Request, CompRow
<1>4. comp' = [comp EXCEPT ![a] = made]
  BY DEF CompleteTx
<1> HIDE DEF made
<1>5. comp' \in [Attempts -> CompRow]
  BY <1>3, <1>4 DEF Typed, TypeOK
<1>6. wk' \in [Workers -> Process] /\ req' \in [Slots -> Request \cup {NoRequest}]
  BY <1>0, FinishedType DEF CompleteTx, Typed
<1>7. AuthorizedNamesAttempt'
  BY AnswerAuthorized DEF CompleteTx, Finished
<1> QED
  BY <1>2, <1>5, <1>6, <1>7 DEF Typed, TypeOK, CompleteTx, world

LEMMA TypedHandler == ASSUME NEW i \in Slots, Typed, Handler(i) PROVE Typed'
BY TypedLookUp, TypedAuthorize, TypedRefuse, TypedAssignTx, TypedAssignNothing,
   TypedClaimTx, TypedHeartbeatTx, TypedPrepareTx, TypedFinalizeTx, TypedCompleteTx,
   TypedReplay DEF Handler

LEMMA TypedWorker == ASSUME NEW w \in Workers, Typed, Worker(w) PROVE Typed'
BY TypedCall, TypedBeat, TypedRetryCall, TypedRetryBeat, TypedLoseBeat, TypedNextRound
   DEF Worker

LEMMA TypedNext == Typed /\ [Next]_vars => Typed'
<1> SUFFICES ASSUME Typed, [Next]_vars PROVE Typed'
  OBVIOUS
<1>1. CASE Environment
  BY <1>1, TypedTick, TypedPromote, TypedRotate, TypedAdmit DEF Environment
<1>2. CASE \E w \in Workers : Worker(w)
  BY <1>2, TypedWorker
<1>3. CASE \E i \in Slots : Handler(i) \/ Drop(i)
  BY <1>3, TypedHandler, TypedDrop
<1>4. CASE UNCHANGED vars
  BY <1>4 DEF Typed, TypeOK, AuthorizedNamesAttempt, vars
<1> QED
  BY <1>1, <1>2, <1>3, <1>4 DEF Next

LEMMA AlwaysTyped == Spec => []Typed
BY TypedInit, TypedNext, PTL DEF Spec

\* Every reachable state is of the declared types: rows, processes and requests
\* of the worker protocol, for any number of them.
THEOREM TypeCorrect == Spec => []TypeOK
<1>1. Typed => TypeOK
  BY DEF Typed
<1> QED
  BY <1>1, AlwaysTyped, PTL

-----------------------------------------------------------------------------
(* Job and attempt rows agree. *)

\* A step that leaves the rows of a job alone keeps its story.
LEMMA StoryKept ==
    ASSUME TypeOK, NEW j \in Jobs, OneStory(j),
           job'[j].state = job[j].state, latest'[j] = latest[j],
           \A n \in 1..MaxAttempts : attempt'[<<j, n>>] = attempt[<<j, n>>]
    PROVE  OneStory(j)'
<1>1. latest[j] > 0 => latest[j] \in 1..MaxAttempts
  BY DEF TypeOK
<1> QED
  BY <1>1 DEF OneStory, Newest, Active

LEMMA StoriesKept ==
    ASSUME TypeOK, JobMatchesAttempts, UNCHANGED <<job, latest, attempt>>
    PROVE  JobMatchesAttempts'
BY StoryKept DEF JobMatchesAttempts

\* A step that changes the newest attempt while it is active, alone or together
\* with its job: claim, heartbeat, finalize and complete.
LEMMA NewestMoves ==
    ASSUME TypeOK, JobMatchesAttempts,
           NEW a \in Attempts, a = Newest(a[1]), NEW row,
           attempt' = [attempt EXCEPT ![a] = row], latest' = latest,
           \A k \in Jobs \ {a[1]} : job'[k] = job[k],
           Active(attempt[a]),
           \/ Active(row) /\ job'[a[1]] = job[a[1]]
           \/ row.state = job'[a[1]].state /\ job'[a[1]].state \in Outcomes
    PROVE  JobMatchesAttempts'
<1> SUFFICES ASSUME NEW j \in Jobs PROVE OneStory(j)'
  BY DEF JobMatchesAttempts
<1>0. OneStory(j) /\ latest[j] \in 0..MaxAttempts
  BY DEF JobMatchesAttempts, TypeOK
<1>1. CASE j # a[1]
  <2>1. \A n \in 1..MaxAttempts : attempt'[<<j, n>>] = attempt[<<j, n>>]
    BY <1>1 DEF Attempts, TypeOK
  <2> QED
    BY <1>0, <1>1, <2>1, StoryKept
<1>2. CASE j = a[1]
  <2>1. a = <<j, latest[j]>> /\ latest[j] \in 1..MaxAttempts
    BY <1>2 DEF Attempts, Newest
  <2>2. attempt'[<<j, latest[j]>>] = row
    BY <2>1 DEF TypeOK
  <2>3. \A n \in 1..MaxAttempts : n # latest[j] => attempt'[<<j, n>>] = attempt[<<j, n>>]
    BY <2>1 DEF Attempts, TypeOK
  <2>4. job[j].state = "DISPATCHED"
    BY <1>0, <1>2, <2>1 DEF OneStory, Active, ActiveStates, Outcomes
  <2>5. job'[j].state \notin {"NONE", "CREATED", "QUEUED"}
    BY <1>2, <2>4 DEF Outcomes
  <2> QED
    BY <1>0, <1>2, <2>1, <2>2, <2>3, <2>4, <2>5 DEF OneStory, Newest, Active
<1> QED
  BY <1>1, <1>2

LEMMA StoryAdmit ==
    ASSUME TypeOK, JobMatchesAttempts, NEW j \in Jobs, Admit(j) PROVE JobMatchesAttempts'
<1> SUFFICES ASSUME NEW k \in Jobs PROVE OneStory(k)'
  BY DEF JobMatchesAttempts
<1>0. OneStory(k) /\ latest[k] \in 0..MaxAttempts
  BY DEF JobMatchesAttempts, TypeOK
<1>1. CASE k = j
  BY <1>0, <1>1 DEF Admit, OneStory, NoJob, CreatedJob, TypeOK
<1>2. CASE k # j
  BY <1>0, <1>2, StoryKept DEF Admit, TypeOK
<1> QED
  BY <1>1, <1>2

LEMMA StoryPromote ==
    ASSUME TypeOK, JobMatchesAttempts, Promote PROVE JobMatchesAttempts'
<1> SUFFICES ASSUME NEW k \in Jobs PROVE OneStory(k)'
  BY DEF JobMatchesAttempts
<1>0. OneStory(k) /\ latest[k] \in 0..MaxAttempts
  BY DEF JobMatchesAttempts, TypeOK
<1>1. latest' = latest /\ attempt' = attempt
  BY DEF Promote
<1>2. \/ job'[k] = job[k]
      \/ job[k].state = "CREATED" /\ job'[k].state = "QUEUED"
  BY DEF Promote, Moved
<1>3. CASE job'[k] = job[k]
  BY <1>0, <1>1, <1>3, StoryKept
<1>4. CASE job[k].state = "CREATED" /\ job'[k].state = "QUEUED"
  BY <1>0, <1>1, <1>4 DEF OneStory
<1> QED
  BY <1>2, <1>3, <1>4

\* What assign writes to the rows, without its answer.
Leased(i, j) ==
    LET dispatched == job[j].state = "QUEUED"
    IN /\ Assignable(j, req[i].now)
       /\ attempt' = [a \in Attempts |->
                        IF a = <<j, latest[j] + 1>>
                        THEN ClaimedAttempt(req[i].w, req[i].now + LeaseTerm)
                        ELSE IF a = Newest(j) /\ ~dispatched THEN Lapsed(attempt[a])
                        ELSE attempt[a]]
       /\ latest' = [latest EXCEPT ![j] = @ + 1]
       /\ dispatched => job' = [job EXCEPT ![j] = Moved(@, "DISPATCHED")]
       /\ ~dispatched => job' = job

LEMMA AssignLeases ==
    ASSUME NEW i \in Slots, AssignTx(i)
    PROVE  \E j \in Candidates(req[i].now) : Leased(i, j)
BY DEF AssignTx, Leased

LEMMA StoryAssign ==
    ASSUME TypeOK, JobMatchesAttempts, NEW i \in Slots, AssignTx(i) PROVE JobMatchesAttempts'
<1> SUFFICES ASSUME NEW k \in Jobs PROVE OneStory(k)'
  BY DEF JobMatchesAttempts
<1>0. OneStory(k) /\ latest[k] \in 0..MaxAttempts
  BY DEF JobMatchesAttempts, TypeOK
<1>1. PICK j \in Candidates(req[i].now) : Leased(i, j)
  BY AssignLeases
<1>2. j \in Jobs /\ latest[j] \in 0..MaxAttempts /\ latest[j] < MaxAttempts
  BY <1>1, CandidateType DEF TypeOK, Leased, Assignable
<1>3. CASE k # j
  <2>1. \A n \in 1..MaxAttempts : attempt'[<<k, n>>] = attempt[<<k, n>>]
    BY <1>1, <1>3 DEF Leased, Attempts, Newest
  <2>2. latest'[k] = latest[k] /\ job'[k] = job[k]
    BY <1>1, <1>2, <1>3 DEF Leased, TypeOK
  <2> QED
    BY <1>0, <2>1, <2>2, StoryKept
<1>4. CASE k = j
  <2> DEFINE n1 == latest[j] + 1
  <2>0. latest' = [latest EXCEPT ![j] = latest[j] + 1]
    BY <1>1 DEF Leased
  <2>1. n1 \in 1..MaxAttempts /\ latest'[j] = n1
    BY <1>2, <2>0, LimitsAssumption DEF TypeOK
  <2>2. Active(attempt'[<<j, n1>>]) /\ attempt'[<<j, n1>>].state = "CLAIMED"
    <3>1. <<j, latest[j] + 1>> \in Attempts
      BY <1>2, <2>1 DEF Attempts
    <3>2. attempt'[<<j, latest[j] + 1>>] = ClaimedAttempt(req[i].w, req[i].now + LeaseTerm)
      BY <1>1, <3>1 DEF Leased
    <3> QED
      BY <3>2 DEF ClaimedAttempt, Active, ActiveStates
  <2>3. \A n \in 1..MaxAttempts : n # n1 /\ n # latest[j] => attempt'[<<j, n>>] = attempt[<<j, n>>]
    BY <1>1, <1>2 DEF Leased, Attempts, Newest
  <2>4. CASE job[j].state = "QUEUED"
    <3>1. latest[j] = 0
      BY <1>0, <1>4, <2>4 DEF OneStory
    <3>2. job'[j].state = "DISPATCHED"
      BY <1>1, <1>2, <2>4 DEF Leased, Moved, TypeOK
    <3>3. \A n \in 1..MaxAttempts : n # n1 => attempt'[<<j, n>>] = attempt[<<j, n>>]
      BY <2>3, <3>1
    <3> HIDE DEF n1
    <3>4. \A n \in 1..MaxAttempts : n > n1 => attempt'[<<j, n>>] = NoRow
      BY <1>0, <1>4, <2>1, <3>1, <3>3 DEF OneStory, n1
    <3>5. n1 = 1
      BY <3>1 DEF n1
    <3> QED
      BY <1>4, <2>1, <2>2, <3>2, <3>4, <3>5 DEF OneStory, Newest
  <2>5. CASE job[j].state # "QUEUED"
    <3>1. /\ Newest(j) \in Attempts
          /\ CanExpire(attempt[Newest(j)], req[i].now)
          /\ job[j].state \in WorkerJobStates
      BY <1>1, <2>5, CandidateType
    <3>2. latest[j] \in 1..MaxAttempts /\ job[j].state = "DISPATCHED"
      BY <1>0, <1>4, <3>1
      DEF OneStory, CanExpire, Active, ActiveStates, Outcomes, Attempts, Newest, WorkerJobStates
    <3>3. job'[j] = job[j]
      BY <1>1, <2>5 DEF Leased
    <3>4. attempt'[<<j, latest[j]>>].state = "EXPIRED"
      <4>1. attempt'[<<j, latest[j]>>] = Lapsed(attempt[<<j, latest[j]>>])
        BY <1>1, <2>5, <3>1, <3>2 DEF Leased, Newest
      <4>2. attempt[<<j, latest[j]>>] \in AttemptRow
        BY <3>1 DEF CanExpire, Active, ActiveStates, Newest, TypeOK, NoRow
      <4> QED
        BY <4>1, <4>2 DEF Lapsed, AttemptRow
    <3>5. \A n \in 1..MaxAttempts : n < n1 => attempt'[<<j, n>>].state = "EXPIRED"
      <4> TAKE n \in 1..MaxAttempts
      <4>1. CASE n = latest[j]
        BY <3>4, <4>1
      <4>2. CASE n < latest[j]
        BY <1>0, <1>4, <2>3, <4>2 DEF OneStory
      <4> QED
        BY <1>2, <4>1, <4>2
    <3>6. \A n \in 1..MaxAttempts : n > n1 => attempt'[<<j, n>>] = NoRow
      BY <1>0, <1>2, <1>4, <2>3 DEF OneStory
    <3> HIDE DEF n1
    <3> QED
      BY <1>4, <2>1, <2>2, <3>2, <3>3, <3>5, <3>6 DEF OneStory, Newest
  <2> QED
    BY <2>4, <2>5
<1> QED
  BY <1>3, <1>4

LEMMA StoryRenewed ==
    ASSUME Typed, JobMatchesAttempts, NEW i \in Slots, ClaimTx(i) \/ HeartbeatTx(i)
    PROVE  JobMatchesAttempts'
<1> DEFINE a == req[i].at
<1>1. PICK now : HoldsLease(req[i], now)
  BY DEF ClaimTx, HeartbeatTx, ClaimPermitted, HeartbeatPermitted
<1>2. a \in Attempts /\ a = Newest(a[1]) /\ Active(attempt[a]) /\ attempt[a] \in AttemptRow
  BY <1>1, HolderType DEF HoldsLease, Typed
<1>3. /\ Active(Started(attempt[a]))
      /\ Active(Renewed(attempt[a], req[i].lease))
  BY <1>2 DEF Active, ActiveStates, Started, Renewed, AttemptRow
<1>4. UNCHANGED <<job, latest>>
  BY DEF ClaimTx, HeartbeatTx
<1>5. PICK row : Active(row) /\ attempt' = [attempt EXCEPT ![a] = row]
  BY <1>3 DEF ClaimTx, HeartbeatTx
<1> QED
  BY <1>2, <1>4, <1>5, NewestMoves DEF Typed

LEMMA StoryClosed ==
    ASSUME Typed, JobMatchesAttempts, NEW i \in Slots, FinalizeTx(i) \/ CompleteTx(i)
    PROVE  JobMatchesAttempts'
<1> DEFINE a == req[i].at
<1>1. PICK now : HoldsLease(req[i], now)
  BY DEF FinalizeTx, CompleteTx, FinalizePermitted, CompletePermitted
<1>2. PICK outcome \in Outcomes : CloseJob(a, outcome)
  BY DEF FinalizeTx, CompleteTx, CompletePermitted, CanComplete, Outcomes
<1>3. /\ a \in Attempts /\ a = Newest(a[1]) /\ a[1] \in Jobs
      /\ Active(attempt[a]) /\ attempt[a] \in AttemptRow /\ job[a[1]] \in JobRow
  BY <1>1, HolderType DEF HoldsLease, Typed
<1>4. Completed(attempt[a], outcome).state = outcome
  BY <1>3 DEF Completed, AttemptRow
<1>5. Closing(a[1], outcome).job.state = outcome
  BY <1>3, ClosingType
<1>6. /\ attempt' = [attempt EXCEPT ![a] = Completed(attempt[a], outcome)]
      /\ job' = [job EXCEPT ![a[1]] = Closing(a[1], outcome).job]
      /\ latest' = latest
  BY <1>2 DEF CloseJob, FinalizeTx, CompleteTx
<1>7. job'[a[1]].state = outcome /\ \A k \in Jobs \ {a[1]} : job'[k] = job[k]
  BY <1>3, <1>5, <1>6 DEF Typed, TypeOK
<1> QED
  BY <1>2, <1>3, <1>4, <1>6, <1>7, NewestMoves DEF Typed

\* The actions that leave the rows of jobs and attempts alone.
LEMMA QuietSteps ==
    /\ Tick => UNCHANGED rows
    /\ \A w \in Workers : (RotateSecret(w) \/ Worker(w)) => UNCHANGED rows
    /\ \A i \in Slots : (Drop(i) \/ LookUp(i) \/ Authorize(i) \/ RefuseEarly(i)) => UNCHANGED rows
    /\ \A i \in Slots : (AssignNothing(i) \/ ReplayTx(i) \/ RefuseTx(i)) => UNCHANGED rows
BY DEF Tick, RotateSecret, Worker, Call, Beat, RetryCall, RetryBeat, LoseBeat, NextRound,
       Drop, LookUp, Authorize, RefuseEarly, AssignNothing, ReplayTx, RefuseTx

\* The actions that do not.
LEMMA BusySteps ==
    ASSUME [Next]_vars
    PROVE  \/ UNCHANGED rows
           \/ Promote
           \/ \E j \in Jobs : Admit(j)
           \/ \E i \in Slots : \/ AssignTx(i) \/ ClaimTx(i) \/ HeartbeatTx(i)
                               \/ PrepareTx(i) \/ FinalizeTx(i) \/ CompleteTx(i)
<1>1. CASE Environment
  BY <1>1, QuietSteps DEF Environment
<1>2. CASE \E w \in Workers : Worker(w)
  BY <1>2, QuietSteps
<1>3. CASE \E i \in Slots : Handler(i) \/ Drop(i)
  BY <1>3, QuietSteps DEF Handler
<1>4. CASE UNCHANGED vars
  BY <1>4 DEF vars, rows
<1> QED
  BY <1>1, <1>2, <1>3, <1>4 DEF Next

LEMMA StoryNext == Typed /\ JobMatchesAttempts /\ [Next]_vars => JobMatchesAttempts'
<1> SUFFICES ASSUME Typed, JobMatchesAttempts, [Next]_vars PROVE JobMatchesAttempts'
  OBVIOUS
<1>1. CASE UNCHANGED rows
  BY <1>1, StoriesKept DEF rows, Typed
<1>2. CASE Promote
  BY <1>2, StoryPromote DEF Typed
<1>3. CASE \E j \in Jobs : Admit(j)
  BY <1>3, StoryAdmit DEF Typed
<1>4. ASSUME NEW i \in Slots, AssignTx(i) PROVE JobMatchesAttempts'
  BY <1>4, StoryAssign DEF Typed
<1>5. ASSUME NEW i \in Slots, ClaimTx(i) \/ HeartbeatTx(i) PROVE JobMatchesAttempts'
  BY <1>5, StoryRenewed
<1>6. ASSUME NEW i \in Slots, PrepareTx(i) PROVE JobMatchesAttempts'
  BY <1>6, StoriesKept DEF PrepareTx, Typed
<1>7. ASSUME NEW i \in Slots, FinalizeTx(i) \/ CompleteTx(i) PROVE JobMatchesAttempts'
  BY <1>7, StoryClosed
<1> QED
  BY <1>1, <1>2, <1>3, <1>4, <1>5, <1>6, <1>7, BusySteps

LEMMA StoryInit == Init => JobMatchesAttempts
BY LimitsAssumption DEF Init, JobMatchesAttempts, OneStory, NoJob, Attempts

\* However requests, retries, expiries and crashes interleave, the rows of a job
\* and of its attempts, written by five transactions of their own, tell one story.
THEOREM JobAndAttemptsAgree == Spec => []JobMatchesAttempts
BY StoryInit, StoryNext, AlwaysTyped, PTL DEF Spec

-----------------------------------------------------------------------------
(* Usage is settled once, with the result. *)

\* A job whose results stay, and that moves only among states before its end.
LEMMA SettledKept ==
    ASSUME NEW j \in Jobs, SettledOnce(j), UNCHANGED <<fin, comp>>,
           binding'[j] = binding[j] \/ (binding'[j] # "SETTLED" /\ job[j].state \notin Terminal),
           \/ job'[j].state = job[j].state
           \/ job[j].state \notin Terminal /\ job'[j].state \notin Terminal
    PROVE  SettledOnce(j)'
<1>1. Closed(j)' = Closed(j)
  BY DEF Closed
<1>2. CASE job[j].state \in Terminal
  BY <1>1, <1>2 DEF SettledOnce
<1>3. CASE job[j].state \notin Terminal
  <2>1. Closed(j) = {} /\ job'[j].state \notin Terminal
    BY <1>3 DEF SettledOnce
  <2> QED
    BY <1>1, <2>1 DEF SettledOnce
<1> QED
  BY <1>2, <1>3

\* Closing a job that was at work, by finalize or by complete.
LEMMA SettledByClosing ==
    ASSUME TypeOK, ResultSettledOnce, NEW a \in Attempts, NEW outcome \in Outcomes,
           job[a[1]].state \notin Terminal,
           job'[a[1]].state = outcome,
           \A k \in Jobs \ {a[1]} : job'[k] = job[k],
           NEW f, NEW c,
           \/ /\ fin' = [fin EXCEPT ![a] = f] /\ f.made /\ comp' = comp
              /\ binding' = [binding EXCEPT ![a[1]] = "SETTLED"] /\ outcome = "SUCCEEDED"
           \/ comp' = [comp EXCEPT ![a] = c] /\ c.made /\ fin' = fin /\ binding' = binding
    PROVE  ResultSettledOnce'
<1> SUFFICES ASSUME NEW j \in Jobs PROVE SettledOnce(j)'
  BY DEF ResultSettledOnce
<1>0. SettledOnce(j) /\ a[1] \in Jobs
  BY DEF ResultSettledOnce, Attempts
<1>1. \A b \in Attempts : b # a => fin'[b] = fin[b] /\ comp'[b] = comp[b]
  BY DEF TypeOK
<1>2. CASE j # a[1]
  <2>1. \A b \in Attempts : b[1] = j => fin'[b] = fin[b] /\ comp'[b] = comp[b]
    BY <1>1, <1>2
  <2>2. Closed(j)' = Closed(j)
    BY <2>1 DEF Closed
  <2>3. \A b \in Closed(j) : fin'[b] = fin[b] /\ comp'[b] = comp[b]
    BY <2>1 DEF Closed
  <2>4. binding'[j] = binding[j] /\ job'[j] = job[j]
    BY <1>2 DEF TypeOK
  <2> QED
    BY <1>0, <2>2, <2>3, <2>4 DEF SettledOnce
<1>3. CASE j = a[1]
  <2>1. Closed(j) = {}
    BY <1>0, <1>3 DEF SettledOnce
  <2>2. \A b \in Attempts : b[1] = j => ~fin[b].made /\ ~comp[b].made
    BY <2>1 DEF Closed
  <2>3. Closed(j)' = {a}
    <3>1. fin'[a].made \/ comp'[a].made
      BY DEF TypeOK
    <3> QED
      BY <1>1, <1>3, <2>2, <3>1 DEF Closed
  <2>4. job'[j].state \in Terminal
    BY <1>3 DEF Outcomes, Terminal
  <2>5. CASE fin'[a].made
    <3>1. ~comp'[a].made /\ binding'[j] = "SETTLED" /\ job'[j].state = "SUCCEEDED"
      BY <1>0, <1>3, <2>2, <2>5 DEF TypeOK
    <3> QED
      BY <2>3, <2>4, <2>5, <3>1 DEF SettledOnce
  <2>6. CASE ~fin'[a].made
    <3>1. binding'[j] # "SETTLED"
      BY <1>0, <1>3, <2>1, <2>6 DEF TypeOK, SettledOnce
    <3> QED
      BY <2>3, <2>4, <2>6, <3>1 DEF SettledOnce
  <2> QED
    BY <2>5, <2>6
<1> QED
  BY <1>2, <1>3

LEMMA SettledClosed ==
    ASSUME Typed, ResultSettledOnce, NEW i \in Slots, FinalizeTx(i) \/ CompleteTx(i)
    PROVE  ResultSettledOnce'
<1> DEFINE a == req[i].at
           f == [made |-> TRUE, epoch |-> req[i].epoch, lease |-> req[i].lease]
           c == [made |-> TRUE, epoch |-> req[i].epoch, rev |-> req[i].rev,
                 outcome |-> req[i].outcome]
<1>1. PICK now : HoldsLease(req[i], now)
  BY DEF FinalizeTx, CompleteTx, FinalizePermitted, CompletePermitted
<1>2. PICK outcome \in Outcomes : /\ CloseJob(a, outcome)
                                  /\ FinalizeTx(i) => outcome = "SUCCEEDED"
  BY DEF FinalizeTx, CompleteTx, CompletePermitted, CanComplete, Outcomes, InTransaction
<1>3. a \in Attempts /\ a[1] \in Jobs /\ job[a[1]] \in JobRow /\ job[a[1]].state \notin Terminal
  BY <1>1, HolderType DEF WorkerJobStates, Terminal, Typed
<1>4. Closing(a[1], outcome).job.state = outcome
  BY <1>3, ClosingType
<1>5. job' = [job EXCEPT ![a[1]] = Closing(a[1], outcome).job]
  BY <1>2 DEF CloseJob
<1>6. job'[a[1]].state = outcome /\ \A k \in Jobs \ {a[1]} : job'[k] = job[k]
  BY <1>3, <1>4, <1>5 DEF Typed, TypeOK
<1>7. f.made /\ c.made
  OBVIOUS
<1>8. \/ /\ fin' = [fin EXCEPT ![a] = f] /\ comp' = comp
         /\ binding' = [binding EXCEPT ![a[1]] = "SETTLED"] /\ outcome = "SUCCEEDED"
      \/ comp' = [comp EXCEPT ![a] = c] /\ fin' = fin /\ binding' = binding
  BY <1>2 DEF FinalizeTx, CompleteTx
<1> HIDE DEF f, c
<1> QED
  BY <1>3, <1>6, <1>7, <1>8, SettledByClosing DEF Typed

LEMMA SettledInit == Init => ResultSettledOnce
BY DEF Init, ResultSettledOnce, SettledOnce, Closed, NoFin, NoComp, NoJob, Terminal

LEMMA SettledNext == Typed /\ ResultSettledOnce /\ [Next]_vars => ResultSettledOnce'
<1> SUFFICES ASSUME Typed, ResultSettledOnce, [Next]_vars PROVE ResultSettledOnce'
  OBVIOUS
<1>0. ASSUME UNCHANGED <<job, fin, comp, binding>> PROVE ResultSettledOnce'
  BY <1>0, SettledKept DEF ResultSettledOnce
<1>1. CASE UNCHANGED rows
  BY <1>0, <1>1 DEF rows
<1>2. CASE Promote
  <2> SUFFICES ASSUME NEW j \in Jobs PROVE SettledOnce(j)'
    BY DEF ResultSettledOnce
  <2>1. UNCHANGED <<fin, comp, binding>>
    BY <1>2 DEF Promote
  <2>2. \/ job'[j] = job[j]
        \/ job[j].state = "CREATED" /\ job'[j].state = "QUEUED"
    BY <1>2 DEF Promote, Moved
  <2> QED
    BY <2>1, <2>2, SettledKept DEF ResultSettledOnce, Terminal
<1>3. ASSUME NEW k \in Jobs, Admit(k) PROVE ResultSettledOnce'
  <2> SUFFICES ASSUME NEW j \in Jobs PROVE SettledOnce(j)'
    BY DEF ResultSettledOnce
  <2>1. UNCHANGED <<fin, comp>>
    BY <1>3 DEF Admit
  <2>2. CASE j = k
    <3>1. job[j].state = "NONE" /\ job'[j].state = "CREATED" /\ binding'[j] = "PREPARED"
      BY <1>3, <2>2 DEF Admit, NoJob, CreatedJob, Typed, TypeOK
    <3> QED
      BY <2>1, <3>1, SettledKept DEF ResultSettledOnce, Terminal
  <2>3. CASE j # k
    <3>1. job'[j] = job[j] /\ binding'[j] = binding[j]
      BY <1>3, <2>3 DEF Admit, Typed, TypeOK
    <3> QED
      BY <2>1, <3>1, SettledKept DEF ResultSettledOnce
  <2> QED
    BY <2>2, <2>3
<1>4. ASSUME NEW i \in Slots, AssignTx(i) PROVE ResultSettledOnce'
  <2> SUFFICES ASSUME NEW j \in Jobs PROVE SettledOnce(j)'
    BY DEF ResultSettledOnce
  <2>1. UNCHANGED <<fin, comp, binding>>
    BY <1>4 DEF AssignTx
  <2>2. PICK k \in Candidates(req[i].now) : Leased(i, k)
    BY <1>4, AssignLeases
  <2>3. \/ job'[j] = job[j]
        \/ job[j].state = "QUEUED" /\ job'[j].state = "DISPATCHED"
    BY <2>2 DEF Leased, Moved, Typed, TypeOK
  <2> QED
    BY <2>1, <2>3, SettledKept DEF ResultSettledOnce, Terminal
<1>5. ASSUME NEW i \in Slots, ClaimTx(i) \/ HeartbeatTx(i) \/ PrepareTx(i)
      PROVE  ResultSettledOnce'
  BY <1>0, <1>5 DEF ClaimTx, HeartbeatTx, PrepareTx
<1>6. ASSUME NEW i \in Slots, FinalizeTx(i) \/ CompleteTx(i) PROVE ResultSettledOnce'
  BY <1>6, SettledClosed
<1> QED
  BY <1>1, <1>2, <1>3, <1>4, <1>5, <1>6, BusySteps

\* A job's usage is settled exactly by the transaction that accepts its one
\* result; no copy of a finalize or complete closes a job a second time, and no
\* job is finished without one.
THEOREM SettledWithResult == Spec => []ResultSettledOnce
BY SettledInit, SettledNext, AlwaysTyped, PTL DEF Spec

-----------------------------------------------------------------------------
(* What is finished stays as it is. *)

LEMMA FinishedNext == Typed /\ [Next]_vars => FinishedUnchanged
<1> SUFFICES ASSUME Typed, [Next]_vars, NEW j \in Jobs, job[j].state \in Terminal
             PROVE  /\ job'[j] = job[j] /\ log'[j] = log[j] /\ binding'[j] = binding[j]
                    /\ \A a \in Attempts : a[1] = j =>
                         /\ attempt'[a] = attempt[a] /\ prep'[a] = prep[a]
                         /\ fin'[a] = fin[a] /\ comp'[a] = comp[a]
  BY DEF FinishedUnchanged
<1> USE DEF Typed, TypeOK
<1>1. CASE UNCHANGED rows
  BY <1>1 DEF rows
<1>2. CASE Promote
  BY <1>2 DEF Promote, Terminal
<1>3. ASSUME NEW k \in Jobs, Admit(k) PROVE job'[j] = job[j] /\ binding'[j] = binding[j] /\ k # j
  BY <1>3 DEF Admit, NoJob, Terminal
<1>4. ASSUME NEW i \in Slots, AssignTx(i)
      PROVE  /\ job'[j] = job[j] /\ log'[j] = log[j]
             /\ \A a \in Attempts : a[1] = j => attempt'[a] = attempt[a]
  <2>1. PICK k \in Candidates(req[i].now) : 
              /\ Leased(i, k)
              /\ \/ log' = log
                 \/ log' = [log EXCEPT ![k] = Append(@, LogEntry(job[k], "DISPATCHED"))]
    BY <1>4 DEF AssignTx, Leased
  <2>2. k # j /\ k \in Jobs
    BY <2>1, CandidateType DEF WorkerJobStates, Terminal
  <2>3. job'[j] = job[j] /\ log'[j] = log[j]
    BY <2>1, <2>2 DEF Leased
  <2>4. ASSUME NEW a \in Attempts, a[1] = j PROVE attempt'[a] = attempt[a]
    BY <2>1, <2>2, <2>4 DEF Leased, Newest
  <2> QED
    BY <2>3, <2>4
<1>5. ASSUME NEW i \in Slots, NEW now, HoldsLease(req[i], now) PROVE req[i].at[1] # j
  BY <1>5 DEF HoldsLease, WorkerJobStates, Terminal
<1>6. ASSUME NEW i \in Slots, ClaimTx(i) \/ HeartbeatTx(i)
      PROVE  \A a \in Attempts : a[1] = j => attempt'[a] = attempt[a]
  BY <1>5, <1>6 DEF ClaimTx, HeartbeatTx, ClaimPermitted, HeartbeatPermitted
<1>7. ASSUME NEW i \in Slots, PrepareTx(i)
      PROVE  \A a \in Attempts : a[1] = j => prep'[a] = prep[a]
  BY <1>5, <1>7 DEF PrepareTx, PreparePermitted
<1>8. ASSUME NEW i \in Slots, FinalizeTx(i) \/ CompleteTx(i)
      PROVE  /\ job'[j] = job[j] /\ log'[j] = log[j] /\ binding'[j] = binding[j]
             /\ \A a \in Attempts : a[1] = j =>
                  /\ attempt'[a] = attempt[a] /\ fin'[a] = fin[a] /\ comp'[a] = comp[a]
  BY <1>5, <1>8 DEF FinalizeTx, CompleteTx, FinalizePermitted, CompletePermitted, CloseJob
<1> QED
  BY <1>1, <1>2, <1>3, <1>4, <1>6, <1>7, <1>8, BusySteps
  DEF Admit, AssignTx, ClaimTx, HeartbeatTx, PrepareTx, FinalizeTx, CompleteTx, world

\* Nothing of a finished job changes any more, whatever copies of old requests
\* are still handled.
THEOREM FinishedIsFinal == Spec => FinishedStaysFinished
<1>1. Typed /\ [Next]_vars => [FinishedUnchanged]_vars
  BY FinishedNext
<1> QED
  BY <1>1, AlwaysTyped, PTL DEF Spec, FinishedStaysFinished
-----------------------------------------------------------------------------
(* Leases end with the deadline. *)

\* An attempt row that is new or extended gets a lease that its job's deadline
\* bounds, and every other row keeps the lease it had.
LEMMA LeasesNext == Typed /\ LeaseEndsWithDeadline /\ [Next]_vars => LeaseEndsWithDeadline'
<1> SUFFICES ASSUME Typed, LeaseEndsWithDeadline, [Next]_vars,
                    NEW a \in Attempts, attempt'[a] # NoRow
             PROVE  attempt'[a].lease < Deadline[a[1]] + MaxLease
  BY DEF LeaseEndsWithDeadline
<1>0. /\ attempt[a] \in AttemptRow \cup {NoRow}
      /\ a[1] \in Jobs /\ Deadline[a[1]] \in Nat /\ MaxLease \in Nat
  BY LimitsAssumption, JobDataAssumption DEF Typed, TypeOK, Attempts
<1>1. ASSUME attempt[a] # NoRow, attempt'[a].lease = attempt[a].lease
      PROVE  attempt'[a].lease < Deadline[a[1]] + MaxLease
  BY <1>1 DEF LeaseEndsWithDeadline
<1>2. CASE attempt' = attempt
  BY <1>1, <1>2
<1>3. ASSUME NEW i \in Slots, AssignTx(i)
      PROVE  attempt'[a].lease < Deadline[a[1]] + MaxLease
  <2>1. PICK j \in Candidates(req[i].now) : Leased(i, j)
    BY <1>3, AssignLeases
  <2>2. j \in Jobs /\ latest[j] \in 0..MaxAttempts
    BY <2>1, CandidateType DEF Typed, TypeOK
  <2>3. CASE a = <<j, latest[j] + 1>>
    <3>1. attempt'[a].lease = req[i].now + LeaseTerm
      BY <2>1, <2>3 DEF Leased, ClaimedAttempt
    <3>2. Deadline[j] > req[i].now /\ Deadline[j] \in Nat /\ a[1] = j
      BY <2>1, <2>2, <2>3, JobDataAssumption DEF Leased, Assignable
    <3>3. req[i].now \in Nat
      BY <1>3 DEF AssignTx, InTransaction, Typed, TypeOK, Request, NoRequest
    <3> QED
      BY <3>1, <3>2, <3>3, LimitsAssumption
  <2>4. CASE a # <<j, latest[j] + 1>>
    <3>1. attempt'[a] \in {attempt[a], Lapsed(attempt[a])}
      BY <2>1, <2>4 DEF Leased
    <3>2. CASE attempt[a] = NoRow
      <4>1. attempt'[a] = Lapsed(attempt[a]) /\ a = Newest(j) /\ job[j].state # "QUEUED"
        BY <2>1, <2>4, <3>2 DEF Leased
      <4>2. CanExpire(attempt[Newest(j)], req[i].now)
        BY <2>1, <4>1, CandidateType DEF Typed
      <4> QED
        BY <3>2, <4>1, <4>2 DEF CanExpire, Active, ActiveStates, NoRow
    <3>3. CASE attempt[a] # NoRow
      <4>1. attempt'[a].lease = attempt[a].lease
        BY <1>0, <3>1, <3>3 DEF Lapsed, AttemptRow
      <4> QED
        BY <1>1, <3>3, <4>1
    <3> QED
      BY <3>2, <3>3
  <2> QED
    BY <2>3, <2>4
<1>4. ASSUME NEW i \in Slots, HeartbeatTx(i)
      PROVE  attempt'[a].lease < Deadline[a[1]] + MaxLease
  <2>1. PICK now \in Times(req[i]) : HeartbeatPermitted(req[i], now)
    BY <1>4 DEF HeartbeatTx
  <2>2. req[i].at \in Attempts /\ attempt[req[i].at] \in AttemptRow
    BY <2>1, HolderType DEF HeartbeatPermitted, Typed
  <2>3. attempt' = [attempt EXCEPT ![req[i].at] = Renewed(attempt[req[i].at], req[i].lease)]
    BY <1>4 DEF HeartbeatTx
  <2>4. CASE a = req[i].at
    <3>1. attempt'[a].lease = req[i].lease
      BY <2>2, <2>3, <2>4 DEF Renewed, AttemptRow, Typed, TypeOK
    <3>2. req[i].lease \in Nat /\ req[i].now \in Nat /\ now \in Nat
      BY <1>4, <2>1 DEF HeartbeatTx, InTransaction, Times, Typed, TypeOK, Request, NoRequest
    <3>3. req[i].lease <= now + MaxLease /\ Deadline[a[1]] > now
      BY <2>1, <2>4 DEF HeartbeatPermitted, HoldsLease
    <3> QED
      BY <1>0, <3>1, <3>2, <3>3
  <2>5. CASE a # req[i].at
    <3>1. attempt'[a] = attempt[a]
      BY <2>3, <2>5 DEF Typed, TypeOK
    <3> QED
      BY <1>1, <3>1
  <2> QED
    BY <2>4, <2>5
<1>5. ASSUME NEW i \in Slots, ClaimTx(i) \/ FinalizeTx(i) \/ CompleteTx(i)
      PROVE  attempt'[a].lease < Deadline[a[1]] + MaxLease
  <2>1. PICK now : HoldsLease(req[i], now)
    BY <1>5 DEF ClaimTx, FinalizeTx, CompleteTx, ClaimPermitted, FinalizePermitted, CompletePermitted
  <2>2. req[i].at \in Attempts /\ attempt[req[i].at] \in AttemptRow
    BY <2>1, HolderType DEF Typed
  <2>3. PICK row : /\ attempt' = [attempt EXCEPT ![req[i].at] = row]
                   /\ row.lease = attempt[req[i].at].lease
    <3>1. CASE ClaimTx(i)
      <4>1. attempt' = [attempt EXCEPT ![req[i].at] = Started(attempt[req[i].at])]
        BY <3>1 DEF ClaimTx
      <4>2. Started(attempt[req[i].at]).lease = attempt[req[i].at].lease
        BY <2>2 DEF Started, AttemptRow
      <4> QED
        BY <4>1, <4>2
    <3>2. ASSUME NEW outcome, CloseJob(req[i].at, outcome)
          PROVE  \E row : /\ attempt' = [attempt EXCEPT ![req[i].at] = row]
                          /\ row.lease = attempt[req[i].at].lease
      <4>1. attempt' = [attempt EXCEPT ![req[i].at] = Completed(attempt[req[i].at], outcome)]
        BY <3>2 DEF CloseJob
      <4>2. Completed(attempt[req[i].at], outcome).lease = attempt[req[i].at].lease
        BY <2>2 DEF Completed, AttemptRow
      <4> QED
        BY <4>1, <4>2
    <3> QED
      BY <1>5, <3>1, <3>2 DEF FinalizeTx, CompleteTx
  <2>4. CASE a = req[i].at
    <3>1. attempt[a] # NoRow
      BY <2>1, <2>4 DEF HoldsLease, Active, ActiveStates, NoRow
    <3>2. attempt'[a].lease = attempt[a].lease
      BY <2>2, <2>3, <2>4 DEF Typed, TypeOK
    <3> QED
      BY <1>1, <3>1, <3>2
  <2>5. CASE a # req[i].at
    <3>1. attempt'[a] = attempt[a]
      BY <2>3, <2>5 DEF Typed, TypeOK
    <3> QED
      BY <1>1, <3>1
  <2> QED
    BY <2>4, <2>5
<1> QED
  BY <1>2, <1>3, <1>4, <1>5, BusySteps DEF rows, Promote, Admit, PrepareTx

\* However often a lease is extended or taken over, by requests however late, it
\* ends less than MAX_LEASE_SECONDS after the job's deadline.
THEOREM LeasesEnd == Spec => []LeaseEndsWithDeadline
<1>1. Init => LeaseEndsWithDeadline
  BY DEF Init, LeaseEndsWithDeadline
<1> QED
  BY <1>1, LeasesNext, AlwaysTyped, PTL DEF Spec
-----------------------------------------------------------------------------
(* The log is a path. *)

\* What LogIsPath says of one job, and that an empty log is that of a new job.
PathTo(row, entries) ==
    LET n == Len(entries)
    IN /\ \A k \in 1..n :
            /\ <<entries[k].from, entries[k].to>> \in Transitions
            /\ entries[k].revision = k + 1
            /\ entries[k].from = (IF k = 1 THEN "CREATED" ELSE entries[k - 1].to)
       /\ n > 0 => row.state = entries[n].to
       /\ n = 0 /\ row # NoJob => row.state = "CREATED"
       /\ row # NoJob => row.revision = n + 1
Paths == \A j \in Jobs : PathTo(job[j], log[j])

LEMMA PathsAreLogs == Paths => LogIsPath
BY DEF Paths, PathTo, LogIsPath

\* One move of the transition table, with its entry.
LEMMA PathGrows ==
    ASSUME NEW row \in JobRow, NEW entries \in Seq(LogRow), NEW next \in JobStates,
           PathTo(row, entries), <<row.state, next>> \in Transitions
    PROVE  PathTo(Moved(row, next), Append(entries, LogEntry(row, next)))
<1> DEFINE n == Len(entries)
           longer == Append(entries, LogEntry(row, next))
<1>1. n \in Nat /\ Len(longer) = n + 1
  OBVIOUS
<1>2. longer[n + 1] = LogEntry(row, next) /\ \A k \in 1..n : longer[k] = entries[k]
  OBVIOUS
<1>3. row # NoJob
  BY DEF NoJob, JobRow, JobStates
<1>4. /\ row.revision = n + 1
      /\ row.state = (IF n = 0 THEN "CREATED" ELSE entries[n].to)
  BY <1>1, <1>3 DEF PathTo
<1>5. /\ LogEntry(row, next).from = row.state
      /\ LogEntry(row, next).to = next
      /\ LogEntry(row, next).revision = n + 2
      /\ Moved(row, next).state = next
      /\ Moved(row, next).revision = n + 2
  BY <1>1, <1>4 DEF LogEntry, Moved
<1>6. ASSUME NEW k \in 1..(n + 1)
      PROVE  /\ <<longer[k].from, longer[k].to>> \in Transitions
             /\ longer[k].revision = k + 1
             /\ longer[k].from = (IF k = 1 THEN "CREATED" ELSE longer[k - 1].to)
  <2>1. CASE k = n + 1
    <3>1. longer[k] = LogEntry(row, next) /\ k + 1 = n + 2
      BY <1>1, <1>2, <2>1
    <3>2. row.state = (IF k = 1 THEN "CREATED" ELSE longer[k - 1].to)
      <4>1. CASE n = 0
        BY <1>4, <2>1, <4>1
      <4>2. CASE n # 0
        <5>1. k # 1 /\ k - 1 = n /\ n \in 1..n
          BY <1>1, <2>1, <4>2
        <5> QED
          BY <1>2, <1>4, <4>2, <5>1
      <4> QED
        BY <4>1, <4>2
    <3> QED
      BY <1>5, <3>1, <3>2
  <2>2. CASE k \in 1..n
    <3>1. longer[k] = entries[k] /\ (k # 1 => longer[k - 1] = entries[k - 1])
      BY <1>1, <1>2, <2>2
    <3> QED
      BY <2>2, <3>1 DEF PathTo
  <2>3. k = n + 1 \/ k \in 1..n
    BY <1>1
  <2> QED
    BY <2>1, <2>2, <2>3
<1> HIDE DEF longer, n
<1> QED
  BY <1>1, <1>2, <1>5, <1>6 DEF PathTo, longer

\* The moves of finalize and complete: through RUNNING to the outcome.
LEMMA PathCloses ==
    ASSUME NEW j \in Jobs, NEW outcome \in Outcomes, job[j] \in JobRow,
           log[j] \in Seq(LogRow), PathTo(job[j], log[j]), Closing(j, outcome).accepted
    PROVE  PathTo(Closing(j, outcome).job, log[j] \o Closing(j, outcome).entries)
<1>0. outcome \in JobStates /\ "RUNNING" \in JobStates
  BY DEF Outcomes, JobStates
<1>1. CASE job[j].state = "DISPATCHED"
  <2> DEFINE running == Moved(job[j], "RUNNING")
             first == LogEntry(job[j], "RUNNING")
             last == LogEntry(running, outcome)
  <2>1. <<job[j].state, "RUNNING">> \in Transitions /\ <<running.state, outcome>> \in Transitions
    BY <1>1 DEF Closing, Accepts
  <2>2. running \in JobRow /\ first \in LogRow
    BY <1>0, MovedType
  <2>3. last \in LogRow
    BY <1>0, <2>2, MovedType
  <2>4. PathTo(running, Append(log[j], first))
    BY <1>0, <2>1, PathGrows
  <2>5. Append(log[j], first) \in Seq(LogRow)
    BY <2>2
  <2>6. PathTo(Moved(running, outcome), Append(Append(log[j], first), last))
    BY <1>0, <2>1, <2>2, <2>4, <2>5, PathGrows
  <2>7. /\ Closing(j, outcome).job = Moved(running, outcome)
        /\ Closing(j, outcome).entries = Append(<<first>>, last)
    BY <1>1 DEF Closing
  <2>8. log[j] \o Append(<<first>>, last) = Append(Append(log[j], first), last)
    <3> HIDE DEF first, last
    <3> QED
      BY <2>2, <2>3
  <2> QED
    BY <2>6, <2>7, <2>8
<1>2. CASE job[j].state # "DISPATCHED"
  <2> DEFINE last == LogEntry(job[j], outcome)
  <2>1. <<job[j].state, outcome>> \in Transitions
    BY <1>2 DEF Closing, Accepts
  <2>2. PathTo(Moved(job[j], outcome), Append(log[j], last))
    BY <1>0, <2>1, PathGrows
  <2>3. /\ Closing(j, outcome).job = Moved(job[j], outcome)
        /\ Closing(j, outcome).entries = Append(<< >>, last)
    BY <1>2 DEF Closing
  <2>4. last \in LogRow
    BY <1>0, MovedType
  <2>5. log[j] \o Append(<< >>, last) = Append(log[j], last)
    <3> HIDE DEF last
    <3> QED
      BY <2>4
  <2> QED
    BY <2>2, <2>3, <2>5
<1> QED
  BY <1>1, <1>2

LEMMA PathsNext == Typed /\ Paths /\ [Next]_vars => Paths'
<1> SUFFICES ASSUME Typed, Paths, [Next]_vars, NEW j \in Jobs
             PROVE  PathTo(job'[j], log'[j])
  BY DEF Paths, PathTo
<1>0. /\ PathTo(job[j], log[j])
      /\ log[j] \in Seq(LogRow)
      /\ job[j] \in JobRow \cup {NoJob}
  BY DEF Paths, Typed, TypeOK
<1>1. CASE job'[j] = job[j] /\ log'[j] = log[j]
  BY <1>0, <1>1
<1>2. CASE Promote
  <2> DEFINE queued == {k \in PendingBatch : job[k].state = "CREATED" /\ Accepts(job[k], "QUEUED")}
  <2>1. CASE j \in queued
    <3>1. /\ job'[j] = Moved(job[j], "QUEUED")
          /\ log'[j] = Append(log[j], LogEntry(job[j], "QUEUED"))
      BY <1>2, <2>1 DEF Promote
    <3>2. job[j] \in JobRow /\ <<job[j].state, "QUEUED">> \in Transitions
      BY <1>0, <2>1 DEF NoJob, Accepts
    <3> QED
      BY <1>0, <3>1, <3>2, PathGrows DEF JobStates
  <2>2. CASE j \notin queued
    BY <1>1, <1>2, <2>2 DEF Promote
  <2> QED
    BY <2>1, <2>2
<1>3. ASSUME NEW k \in Jobs, Admit(k) PROVE PathTo(job'[j], log'[j])
  <2>1. log' = log /\ job' = [job EXCEPT ![k] = CreatedJob] /\ job[k] = NoJob
    BY <1>3 DEF Admit
  <2>2. CASE j = k
    <3>1. job'[j] = CreatedJob /\ job[j].state = "NONE"
      BY <2>1, <2>2 DEF Typed, TypeOK, NoJob
    <3>2. Len(log[j]) = 0
      <4>1. ASSUME Len(log[j]) > 0 PROVE FALSE
        <5>1. log[j][Len(log[j])] \in LogRow
          BY <1>0, <4>1
        <5> QED
          BY <1>0, <3>1, <4>1, <5>1 DEF PathTo, LogRow, JobStates
      <4> QED
        BY <1>0, <4>1
    <3> QED
      BY <2>1, <3>1, <3>2 DEF PathTo, CreatedJob
  <2>3. CASE j # k
    BY <1>1, <2>1, <2>3 DEF Typed, TypeOK
  <2> QED
    BY <2>2, <2>3
<1>4. ASSUME NEW i \in Slots, AssignTx(i) PROVE PathTo(job'[j], log'[j])
  <2>1. PICK k \in Candidates(req[i].now) :
          IF job[k].state = "QUEUED"
          THEN /\ job' = [job EXCEPT ![k] = Moved(job[k], "DISPATCHED")]
               /\ log' = [log EXCEPT ![k] = Append(log[k], LogEntry(job[k], "DISPATCHED"))]
          ELSE UNCHANGED <<job, log>>
    BY <1>4 DEF AssignTx
  <2>2. CASE j = k /\ job[k].state = "QUEUED"
    <3>1. /\ job'[j] = Moved(job[j], "DISPATCHED")
          /\ log'[j] = Append(log[j], LogEntry(job[j], "DISPATCHED"))
      BY <2>1, <2>2 DEF Typed, TypeOK
    <3>2. job[j] \in JobRow /\ <<job[j].state, "DISPATCHED">> \in Transitions
      BY <1>0, <2>2 DEF NoJob, Transitions
    <3> QED
      BY <1>0, <3>1, <3>2, PathGrows DEF JobStates
  <2>3. CASE ~(j = k /\ job[k].state = "QUEUED")
    BY <1>1, <2>1, <2>3 DEF Typed, TypeOK
  <2> QED
    BY <2>2, <2>3
<1>5. ASSUME NEW i \in Slots, FinalizeTx(i) \/ CompleteTx(i) PROVE PathTo(job'[j], log'[j])
  <2> DEFINE a == req[i].at
  <2>1. PICK outcome \in Outcomes : /\ \E now : HoldsLease(req[i], now)
                                    /\ Closing(a[1], outcome).accepted
                                    /\ CloseJob(a, outcome)
    <3>1. CASE FinalizeTx(i)
      BY <3>1 DEF FinalizeTx, FinalizePermitted, Outcomes
    <3>2. CASE CompleteTx(i)
      BY <3>2 DEF CompleteTx, CompletePermitted, CanComplete
    <3> QED
      BY <1>5, <3>1, <3>2
  <2>2. a[1] \in Jobs /\ job[a[1]] \in JobRow
    BY <2>1, HolderType DEF Typed
  <2>3. /\ job' = [job EXCEPT ![a[1]] = Closing(a[1], outcome).job]
        /\ log' = [log EXCEPT ![a[1]] = log[a[1]] \o Closing(a[1], outcome).entries]
    BY <2>1 DEF CloseJob
  <2>4. CASE j = a[1]
    <3>1. /\ job'[j] = Closing(j, outcome).job
          /\ log'[j] = log[j] \o Closing(j, outcome).entries
      BY <2>3, <2>4 DEF Typed, TypeOK
    <3> QED
      BY <1>0, <2>1, <2>2, <2>4, <3>1, PathCloses
  <2>5. CASE j # a[1]
    BY <1>1, <2>3, <2>5 DEF Typed, TypeOK
  <2> QED
    BY <2>4, <2>5
<1> QED
  BY <1>1, <1>2, <1>3, <1>4, <1>5, BusySteps DEF rows, ClaimTx, HeartbeatTx, PrepareTx

\* The transition log that promotion, assignment, finalize and complete write
\* piece by piece is always one path of the transition table to the job's state,
\* with consecutive revisions.
THEOREM TransitionsAreLogged == Spec => []LogIsPath
<1>1. Init => Paths
  BY DEF Init, Paths, PathTo
<1> QED
  BY <1>1, PathsNext, PathsAreLogs, AlwaysTyped, PTL DEF Spec

-----------------------------------------------------------------------------
(* A process and its requests. *)

\* Request r asks for what process p waits for.
Matches(r, p) ==
    /\ r.at = p.at /\ r.rev = p.rev
    /\ IF r.op = "heartbeat" THEN p.beat = "out"
       ELSE p.pc = "waiting" /\ p.op = r.op /\ p.outcome = r.outcome

\* A worker waits for one request at a time, and only while it works does its
\* heartbeat thread run.
Links ==
    /\ \A i \in Slots : req[i].open => Matches(req[i], wk[req[i].w])
    /\ \A i, k \in Slots : req[i].open /\ req[k].open /\ req[i].w = req[k].w => i = k
    /\ \A w \in Workers : wk[w].beat # "off" => wk[w].pc = "running"

\* Worker w becomes p; the requests left open are those of others, and perhaps
\* the one in slot n, which matches p.
Moves(w, p, n) ==
    /\ wk' = [wk EXCEPT ![w] = p]
    /\ p.beat # "off" => p.pc = "running"
    /\ \A k \in Slots : k # n /\ req'[k].open => req'[k] = req[k] /\ req[k].w # w
    /\ n \in Slots => req'[n].w = w /\ Matches(req'[n], p)

LEMMA LinksMoved ==
    ASSUME Typed, Links, NEW w \in Workers, NEW p, NEW n, Moves(w, p, n)
    PROVE  Links'
<1>1. ASSUME NEW i \in Slots, req'[i].open PROVE Matches(req'[i], wk'[req'[i].w])
  <2>1. CASE req'[i] = req[i] /\ req[i].w # w
    <3>1. req[i] \in Request
      BY <1>1, <2>1 DEF Typed, TypeOK, NoRequest
    <3>2. req[i].w \in Workers
      BY <3>1 DEF Request
    <3>3. Matches(req[i], wk[req[i].w]) /\ wk'[req[i].w] = wk[req[i].w]
      BY <1>1, <2>1, <3>2 DEF Links, Typed, TypeOK, Moves
    <3> QED
      BY <2>1, <3>3
  <2>2. CASE req'[i].w = w /\ Matches(req'[i], p)
    BY <2>2 DEF Typed, TypeOK, Moves
  <2> QED
    BY <1>1, <2>1, <2>2 DEF Moves
<1>2. ASSUME NEW i \in Slots, NEW k \in Slots, req'[i].open, req'[k].open, req'[i].w = req'[k].w
      PROVE  i = k
  BY <1>2 DEF Links, Moves
<1>3. ASSUME NEW v \in Workers, wk'[v].beat # "off" PROVE wk'[v].pc = "running"
  BY <1>3 DEF Links, Typed, TypeOK, Moves
<1> QED
  BY <1>1, <1>2, <1>3 DEF Links

LEMMA LinksClosed ==
    ASSUME Typed, Links, NEW w \in Workers, NEW p, wk' = [wk EXCEPT ![w] = p],
           p.beat # "off" => p.pc = "running",
           \A k \in Slots : req'[k].open => req'[k] = req[k] /\ req[k].w # w
    PROVE  Links'
<1>1. PICK n : n \notin Slots
  BY NoSetContainsEverything
<1>2. Moves(w, p, n)
  BY <1>1 DEF Moves
<1> QED
  BY <1>2, LinksMoved

\* An answer takes away the one request its worker waits for.
LEMMA LinksAnswer ==
    ASSUME Typed, Links, NEW i \in Slots, req[i] \in Request, NEW p, Answer(i, p),
           p.beat # "off" => p.pc = "running"
    PROVE  Links'
<1>1. req[i].w \in Workers
  BY DEF Request
<1>2. \A k \in Slots : req'[k].open => k # i /\ req'[k] = req[k]
  BY DEF Answer, Typed, TypeOK, NoRequest
<1>3. CASE req[i].open
  <2>1. \A k \in Slots : req'[k].open => req'[k] = req[k] /\ req[k].w # req[i].w
    BY <1>2, <1>3 DEF Links
  <2>2. wk' = [wk EXCEPT ![req[i].w] = p]
    BY <1>3 DEF Answer
  <2> QED
    BY <1>1, <2>1, <2>2, LinksClosed
<1>4. CASE ~req[i].open
  BY <1>2, <1>4 DEF Answer, Links
<1> QED
  BY <1>3, <1>4

\* What is open after w has given up on its requests of kind ops.
LEMMA AbandonedOpen ==
    ASSUME Typed, NEW w \in Workers, NEW ops, NEW k \in Slots, Abandoned(w, ops)[k].open
    PROVE  /\ Abandoned(w, ops)[k] = req[k] /\ req[k].open /\ req[k] \in Request
           /\ ~(req[k].w = w /\ req[k].op \in ops)
<1>1. req[k] \in Request \cup {NoRequest}
  BY DEF Typed, TypeOK
<1> QED
  BY <1>1 DEF Abandoned, Request, NoRequest

LEMMA LinksWorker == ASSUME Typed, Links, NEW w \in Workers, Worker(w) PROVE Links'
<1>0. wk[w] \in Process
  BY DEF Typed, TypeOK
<1>1. ASSUME NEW k \in Slots, req[k].open, req[k].w = w
      PROVE  \/ req[k].op = "heartbeat" /\ wk[w].beat = "out" /\ wk[w].pc = "running"
             \/ req[k].op \in MainOps /\ wk[w].pc = "waiting"
  <2>1. req[k] \in Request
    BY <1>1 DEF Typed, TypeOK, NoRequest
  <2> QED
    BY <1>1, <2>1 DEF Links, Matches, Request, Ops
<1>2. ASSUME NEW op \in MainOps, NEW outcome \in Reports \cup {"NONE"}, Call(w, op, outcome)
      PROVE  Links'
  <2> DEFINE p == [wk[w] EXCEPT !.pc = "waiting", !.op = op, !.outcome = outcome, !.tries = 0]
  <2>1. /\ p.pc = "waiting" /\ p.op = op /\ p.outcome = outcome /\ p.beat = "off"
        /\ p.at = wk[w].at /\ p.rev = wk[w].rev
    BY <1>0, <1>2 DEF Call, Process
  <2>2. CallOf(w, p).w = w /\ Matches(CallOf(w, p), p)
    BY <2>1 DEF CallOf, Matches, NoRequest, MainOps, ReplayOps
  <2> HIDE DEF p
  <2>3. wk' = [wk EXCEPT ![w] = p] /\ \E i \in Slots : req' = [req EXCEPT ![i] = CallOf(w, p)]
    BY <1>2 DEF Call, p
  <2>4. PICK i \in Slots : req' = [req EXCEPT ![i] = CallOf(w, p)]
    BY <2>3
  <2>5. wk[w].pc # "waiting" /\ wk[w].beat = "off"
    BY <1>2 DEF Call, Calls
  <2>6. ASSUME NEW k \in Slots, k # i, req'[k].open
        PROVE  req'[k] = req[k] /\ req[k].w # w
    BY <1>1, <2>2, <2>4, <2>5, <2>6 DEF Typed, TypeOK
  <2>7. req'[i].w = w /\ Matches(req'[i], p)
    BY <2>2, <2>4 DEF Abandoned, Typed, TypeOK
  <2>9. Moves(w, p, i)
    BY <2>1, <2>3, <2>6, <2>7 DEF Moves
  <2> QED
    BY <2>9, LinksMoved
<1>3. CASE Beat(w)
  <2> DEFINE p == [wk[w] EXCEPT !.beat = "out", !.next = NextExpiry(wk[w].lease, clock),
                                !.beatTries = 0]
  <2>1. p.beat = "out" /\ p.pc = "running" /\ p.at = wk[w].at /\ p.rev = wk[w].rev
    BY <1>0, <1>3 DEF Beat, Process
  <2>2. BeatOf(w, p).w = w /\ Matches(BeatOf(w, p), p)
    BY <2>1 DEF BeatOf, Matches, NoRequest
  <2> HIDE DEF p
  <2>3. wk' = [wk EXCEPT ![w] = p] /\ \E i \in Slots : req' = [req EXCEPT ![i] = BeatOf(w, p)]
    BY <1>3 DEF Beat, p
  <2>4. PICK i \in Slots : req' = [req EXCEPT ![i] = BeatOf(w, p)]
    BY <2>3
  <2>5. wk[w].pc = "running" /\ wk[w].beat = "off"
    BY <1>3 DEF Beat
  <2>6. ASSUME NEW k \in Slots, k # i, req'[k].open
        PROVE  req'[k] = req[k] /\ req[k].w # w
    BY <1>1, <2>2, <2>4, <2>5, <2>6 DEF Typed, TypeOK
  <2>7. req'[i].w = w /\ Matches(req'[i], p)
    BY <2>2, <2>4 DEF Abandoned, Typed, TypeOK
  <2>9. Moves(w, p, i)
    BY <2>1, <2>3, <2>6, <2>7 DEF Moves
  <2> QED
    BY <2>9, LinksMoved
<1>4. CASE RetryCall(w)
  <2> DEFINE p == [wk[w] EXCEPT !.tries = @ + 1]
  <2>1. /\ p.pc = "waiting" /\ p.op = wk[w].op /\ p.outcome = wk[w].outcome /\ p.beat = wk[w].beat
        /\ p.at = wk[w].at /\ p.rev = wk[w].rev /\ wk[w].op \in MainOps
    BY <1>0, <1>4 DEF RetryCall, Process
  <2>2. CallOf(w, wk[w]).w = w /\ Matches(CallOf(w, wk[w]), p)
    BY <2>1 DEF CallOf, Matches, NoRequest, MainOps, ReplayOps
  <2> HIDE DEF p
  <2>3. /\ wk' = [wk EXCEPT ![w] = p]
        /\ \E i \in Slots : req' = [Abandoned(w, MainOps) EXCEPT ![i] = CallOf(w, wk[w])]
    BY <1>4 DEF RetryCall, p
  <2>4. PICK i \in Slots : req' = [Abandoned(w, MainOps) EXCEPT ![i] = CallOf(w, wk[w])]
    BY <2>3
  <2>5. wk[w].pc = "waiting"
    BY <1>4 DEF RetryCall
  <2>6. ASSUME NEW k \in Slots, k # i, req'[k].open
        PROVE  req'[k] = req[k] /\ req[k].w # w
    BY <1>1, <2>4, <2>5, <2>6, AbandonedOpen DEF Abandoned
  <2>7. p.beat # "off" => p.pc = "running"
    BY <2>1, <2>5 DEF Links
  <2>8. req'[i].w = w /\ Matches(req'[i], p)
    BY <2>2, <2>4 DEF Abandoned, Typed, TypeOK
  <2>9. Moves(w, p, i)
    BY <2>3, <2>6, <2>7, <2>8 DEF Moves
  <2> QED
    BY <2>9, LinksMoved
<1>5. CASE RetryBeat(w)
  <2> DEFINE p == [wk[w] EXCEPT !.beatTries = @ + 1]
  <2>1. p.beat = "out" /\ p.pc = wk[w].pc /\ p.at = wk[w].at /\ p.rev = wk[w].rev
    BY <1>0, <1>5 DEF RetryBeat, Process
  <2>2. BeatOf(w, wk[w]).w = w /\ Matches(BeatOf(w, wk[w]), p)
    BY <2>1 DEF BeatOf, Matches, NoRequest
  <2> HIDE DEF p
  <2>3. /\ wk' = [wk EXCEPT ![w] = p]
        /\ \E i \in Slots : req' = [Abandoned(w, {"heartbeat"}) EXCEPT ![i] = BeatOf(w, wk[w])]
    BY <1>5 DEF RetryBeat, p
  <2>4. PICK i \in Slots : req' = [Abandoned(w, {"heartbeat"}) EXCEPT ![i] = BeatOf(w, wk[w])]
    BY <2>3
  <2>5. wk[w].pc = "running"
    BY <1>5 DEF RetryBeat, Links
  <2>6. ASSUME NEW k \in Slots, k # i, req'[k].open
        PROVE  req'[k] = req[k] /\ req[k].w # w
    BY <1>1, <2>4, <2>5, <2>6, AbandonedOpen DEF Abandoned
  <2>7. req'[i].w = w /\ Matches(req'[i], p)
    BY <2>2, <2>4 DEF Abandoned, Typed, TypeOK
  <2>9. Moves(w, p, i)
    BY <2>1, <2>3, <2>5, <2>6, <2>7 DEF Moves
  <2> QED
    BY <2>9, LinksMoved
<1>6. CASE LoseBeat(w)
  <2> DEFINE p == [wk[w] EXCEPT !.beat = "lost", !.next = 0, !.beatTries = 0]
  <2>1. p.pc = wk[w].pc
    BY <1>0 DEF Process
  <2> HIDE DEF p
  <2>2. wk' = [wk EXCEPT ![w] = p] /\ req' = Abandoned(w, {"heartbeat"})
    BY <1>6 DEF LoseBeat, p
  <2>3. wk[w].pc = "running"
    BY <1>6 DEF LoseBeat, Links
  <2>4. ASSUME NEW k \in Slots, req'[k].open PROVE req'[k] = req[k] /\ req[k].w # w
    BY <1>1, <2>2, <2>3, <2>4, AbandonedOpen
  <2> QED
    BY <2>1, <2>2, <2>3, <2>4, LinksClosed
<1>7. CASE NextRound(w)
  <2>1. PICK e \in {wk[w].epoch, epoch[w]} : wk' = [wk EXCEPT ![w] = Idle(e)]
    BY <1>7 DEF NextRound
  <2>2. req' = Abandoned(w, Ops)
    BY <1>7 DEF NextRound
  <2>3. ASSUME NEW k \in Slots, req'[k].open PROVE req'[k] = req[k] /\ req[k].w # w
    BY <2>2, <2>3, AbandonedOpen DEF Request
  <2>4. Idle(e).beat = "off"
    BY DEF Idle
  <2> QED
    BY <2>1, <2>3, <2>4, LinksClosed
<1> QED
  BY <1>2, <1>3, <1>4, <1>5, <1>6, <1>7 DEF Worker

\* A slot whose request is handled or dropped holds one.
LEMMA HandledRequest ==
    ASSUME Typed, NEW i \in Slots, Handler(i) \/ Drop(i) PROVE req[i] \in Request
<1>1. ~Drop(i) => req[i].phase # "free"
  <2>1. CASE LookUp(i) \/ Authorize(i) \/ RefuseEarly(i)
    BY <2>1 DEF LookUp, Authorize, RefuseEarly, Checking
  <2>2. CASE AssignTx(i) \/ AssignNothing(i) \/ ClaimTx(i) \/ HeartbeatTx(i) \/ PrepareTx(i)
    BY <2>2 DEF AssignTx, AssignNothing, ClaimTx, HeartbeatTx, PrepareTx, InTransaction
  <2>3. CASE FinalizeTx(i) \/ CompleteTx(i) \/ ReplayTx(i) \/ RefuseTx(i)
    BY <2>3 DEF FinalizeTx, CompleteTx, ReplayTx, RefuseTx, InTransaction
  <2> QED
    BY <2>1, <2>2, <2>3 DEF Handler
<1>2. req[i] # NoRequest
  BY <1>1 DEF Drop, NoRequest
<1> QED
  BY <1>2 DEF Typed, TypeOK

LEMMA LinksHandler ==
    ASSUME Typed, Links, NEW i \in Slots, Handler(i) \/ Drop(i)
    PROVE  Links'
<1>0. req[i] \in Request
  BY HandledRequest
<1>1. req[i].w \in Workers /\ req[i].op \in Ops /\ wk[req[i].w] \in Process
  BY <1>0 DEF Request, Typed, TypeOK
<1>2. Answered(i) \in Process
  BY <1>0, AnsweredType DEF Typed
<1>3. /\ req[i].op = "heartbeat" => Answered(i).beat = "off"
      /\ req[i].op # "heartbeat" /\ req[i].open => Answered(i).beat = "off"
  <2>1. req[i].op # "heartbeat" /\ req[i].open => wk[req[i].w].pc = "waiting"
    BY DEF Links, Matches
  <2>2. req[i].op # "heartbeat" /\ req[i].open => wk[req[i].w].beat = "off"
    BY <1>1, <2>1 DEF Links, Process
  <2> QED
    BY <1>1, <2>2 DEF Answered, Process
<1>4. ASSUME NEW p, Answer(i, p), p.beat = "off" PROVE Links'
  BY <1>0, <1>4, LinksAnswer
<1>5. ASSUME NEW p, Answer(i, p), ~req[i].open PROVE Links'
  <2>1. /\ wk' = wk
        /\ \A k \in Slots : req'[k].open => req'[k] = req[k]
    BY <1>5 DEF Answer, Typed, TypeOK, NoRequest
  <2> QED
    BY <2>1 DEF Links
<1>6. ASSUME Rejected(i) PROVE Links'
  <2>1. CASE req[i].op = "heartbeat"
    <3>1. CASE req[i].open
      <4>1. wk[req[i].w].pc = "running"
        BY <1>1, <2>1, <3>1 DEF Links, Matches
      <4>2. [Answered(i) EXCEPT !.beat = "lost"].pc = "running"
        BY <1>1, <2>1, <4>1 DEF Answered, Process
      <4> QED
        BY <1>0, <1>6, <2>1, <4>2, LinksAnswer DEF Rejected
    <3> QED
      BY <1>5, <1>6, <2>1, <3>1 DEF Rejected
  <2>2. CASE req[i].op # "heartbeat"
    <3>1. req[i].open => [Answered(i) EXCEPT !.pc = "refused"].beat = "off"
      BY <1>2, <1>3, <2>2 DEF Process
    <3> QED
      BY <1>4, <1>5, <1>6, <2>2, <3>1 DEF Rejected
  <2> QED
    BY <2>1, <2>2
<1>7. ASSUME Finished(i) PROVE Links'
  <2>1. req[i].open => [Answered(i) EXCEPT !.pc = "done"].beat = "off"
    BY <1>1, <1>2, <1>3 DEF Process
  <2> QED
    BY <1>4, <1>5, <1>7, <2>1 DEF Finished
<1>8. ASSUME NEW e, Answer(i, Idle(e)) PROVE Links'
  <2>1. Idle(e).beat = "off"
    BY DEF Idle
  <2> QED
    BY <1>4, <1>8, <2>1
<1>9. ASSUME NEW r, req' = [req EXCEPT ![i] = r], wk' = wk,
             r.open = req[i].open, r.w = req[i].w, r.op = req[i].op, r.at = req[i].at,
             r.rev = req[i].rev, r.outcome = req[i].outcome
      PROVE  Links'
  BY <1>9 DEF Links, Matches, Typed, TypeOK
<1>10. CASE LookUp(i)
  <2> DEFINE r == [req[i] EXCEPT !.phase = "looked", !.now = clock]
  <2>1. /\ r.open = req[i].open /\ r.w = req[i].w /\ r.op = req[i].op /\ r.at = req[i].at
        /\ r.rev = req[i].rev /\ r.outcome = req[i].outcome
    BY <1>0 DEF Request
  <2>2. Finished(i) \/ (req' = [req EXCEPT ![i] = r] /\ wk' = wk)
    BY <1>10 DEF LookUp
  <2> HIDE DEF r
  <2> QED
    BY <1>7, <1>9, <2>1, <2>2
<1>11. CASE Authorize(i)
  <2> DEFINE now == IF req[i].op = "complete" THEN req[i].now ELSE clock
             seen == IF req[i].op = "assign" THEN req[i].seen ELSE Snapshot(req[i].at)
             r == [req[i] EXCEPT !.phase = "authorized", !.now = now, !.seen = seen]
  <2>1. /\ r.open = req[i].open /\ r.w = req[i].w /\ r.op = req[i].op /\ r.at = req[i].at
        /\ r.rev = req[i].rev /\ r.outcome = req[i].outcome
    BY <1>0 DEF Request
  <2>2. req' = [req EXCEPT ![i] = r] /\ wk' = wk
    BY <1>11 DEF Authorize
  <2> HIDE DEF r
  <2> QED
    BY <1>9, <2>1, <2>2
<1>12. CASE RefuseEarly(i) \/ RefuseTx(i)
  BY <1>6, <1>12 DEF RefuseEarly, RefuseTx
<1>13. CASE AssignTx(i) \/ AssignNothing(i)
  <2>1. CASE AssignNothing(i)
    BY <1>8, <2>1 DEF AssignNothing
  <2>2. ASSUME NEW a, NEW lease,
               Answer(i, [Answered(i) EXCEPT !.pc = "assigned", !.at = a, !.rev = 1,
                                             !.lease = lease, !.bound = lease]),
               req[i].op = "assign"
        PROVE  Links'
    <3> DEFINE p == [Answered(i) EXCEPT !.pc = "assigned", !.at = a, !.rev = 1,
                                        !.lease = lease, !.bound = lease]
    <3>1. req[i].open => p.beat = "off"
      BY <1>2, <1>3, <2>2 DEF Process
    <3> HIDE DEF p
    <3>2. Answer(i, p)
      BY <2>2 DEF p
    <3> QED
      BY <1>4, <1>5, <3>1, <3>2
  <2>3. CASE AssignTx(i)
    BY <1>8, <2>2, <2>3 DEF AssignTx, InTransaction
  <2> QED
    BY <1>13, <2>1, <2>3
<1>14. CASE ClaimTx(i)
  <2> DEFINE p == [Answered(i) EXCEPT !.pc = "running", !.rev = attempt'[req[i].at].revision,
                                      !.lease = attempt'[req[i].at].lease]
  <2>1. p.pc = "running"
    BY <1>2 DEF Process
  <2> HIDE DEF p
  <2>2. Answer(i, p)
    BY <1>14 DEF ClaimTx, p
  <2> QED
    BY <1>0, <2>1, <2>2, LinksAnswer
<1>15. CASE HeartbeatTx(i)
  <2> DEFINE p == [Answered(i) EXCEPT !.rev = attempt'[req[i].at].revision,
                                      !.lease = attempt'[req[i].at].lease]
  <2>1. p.beat = "off"
    BY <1>2, <1>3, <1>15 DEF Process, HeartbeatTx, InTransaction
  <2> HIDE DEF p
  <2>2. Answer(i, p)
    BY <1>15 DEF HeartbeatTx, p
  <2> QED
    BY <1>4, <2>1, <2>2
<1>16. CASE PrepareTx(i)
  <2> DEFINE p == [Answered(i) EXCEPT !.pc = "prepared", !.bound = prep'[req[i].at].lease]
  <2>1. req[i].open => p.beat = "off"
    BY <1>2, <1>3, <1>16 DEF Process, PrepareTx, InTransaction
  <2> HIDE DEF p
  <2>2. Answer(i, p)
    BY <1>16 DEF PrepareTx, p
  <2> QED
    BY <1>4, <1>5, <2>1, <2>2
<1>17. CASE FinalizeTx(i) \/ CompleteTx(i) \/ ReplayTx(i)
  BY <1>7, <1>17 DEF FinalizeTx, CompleteTx, ReplayTx
<1>18. CASE Drop(i)
  <2>1. wk' = wk /\ \A k \in Slots : req'[k].open => req'[k] = req[k]
    BY <1>18 DEF Drop, Typed, TypeOK, NoRequest
  <2> QED
    BY <2>1 DEF Links
<1> QED
  BY <1>10, <1>11, <1>12, <1>13, <1>14, <1>15, <1>16, <1>17, <1>18 DEF Handler

LEMMA LinksNext == Typed /\ Links /\ [Next]_vars => Links'
<1> SUFFICES ASSUME Typed, Links, [Next]_vars PROVE Links'
  OBVIOUS
<1>1. CASE UNCHANGED <<wk, req>>
  BY <1>1 DEF Links
<1>2. CASE Environment
  BY <1>1, <1>2 DEF Environment, Tick, Promote, RotateSecret, Admit
<1>3. CASE UNCHANGED vars
  BY <1>1, <1>3 DEF vars
<1> QED
  BY <1>2, <1>3, LinksWorker, LinksHandler DEF Next

LEMMA LinksInit == Init => Links
BY DEF Init, Links, NoRequest, Idle

-----------------------------------------------------------------------------
(* What a step may do to a process and to a request. *)

\* The process works on an attempt that it has started.
AtWork(p) ==
    \/ p.pc \in {"running", "prepared"}
    \/ p.pc = "waiting" /\ p.op \in {"prepare", "complete", "finalize"}

SameAttempt(p, q) == q.at = p.at /\ q.rev = p.rev /\ q.lease = p.lease /\ q.bound = p.bound

\* Worker w learns nothing that the properties are about.
Steady(p, q) ==
    /\ SameAttempt(p, q)
    /\ AtWork(q) => AtWork(p)
    /\ q.beat = "off" => p.beat = "off"
    /\ q.pc = "prepared" => p.pc = "prepared"
    /\ q.pc = "done" => p.pc = "done" /\ q.op = p.op /\ q.outcome = p.outcome

\* Worker w is answered by the handler of slot i and becomes q.
Leases(i, q) ==
    /\ AssignTx(i)
    /\ \E j \in Candidates(req[i].now) :
          /\ Leased(i, j)
          /\ q.at = <<j, latest[j] + 1>> /\ q.lease = req[i].now + LeaseTerm
    /\ q.pc = "assigned"

Starts(i, p, q) ==
    /\ ClaimTx(i)
    /\ q.at = p.at /\ q.pc = "running" /\ p.beat = "off"
    /\ q.rev = attempt'[p.at].revision /\ q.lease = attempt'[p.at].lease

Extends(i, p, q) ==
    /\ HeartbeatTx(i)
    /\ q.at = p.at /\ q.pc = p.pc /\ p.pc = "running" /\ q.beat = "off"
    /\ q.rev = attempt'[p.at].revision /\ q.lease = attempt'[p.at].lease

Prepares(i, p, q) ==
    /\ PrepareTx(i)
    /\ q.at = p.at /\ q.rev = p.rev /\ q.lease = p.lease /\ AtWork(p)
    /\ q.pc = "prepared" /\ q.beat = p.beat /\ q.bound = prep'[p.at].lease

Ends(i, p, q) ==
    /\ (LookUp(i) /\ Replayable(req[i])) \/ FinalizeTx(i) \/ CompleteTx(i) \/ ReplayTx(i)
    /\ SameAttempt(p, q) /\ q.beat = p.beat
    /\ q.pc = "done" /\ q.op = req[i].op /\ q.outcome = req[i].outcome

AnswersTo(i, p, q) ==
    /\ req[i].open /\ req[i] \in Request
    /\ Leases(i, q) \/ Starts(i, p, q) \/ Extends(i, p, q) \/ Prepares(i, p, q) \/ Ends(i, p, q)

ProcessStep(w) ==
    \/ Steady(wk[w], wk'[w])
    \/ \E e \in Nat : wk'[w] = Idle(e)
    \/ \E i \in Slots : req[i].w = w /\ AnswersTo(i, wk[w], wk'[w])

LEMMA WorkerSteps ==
    ASSUME Typed, Links, NEW v \in Workers, Worker(v), NEW w \in Workers
    PROVE  ProcessStep(w)
<1>0. wk[w] \in Process /\ wk[v] \in Process /\ epoch[v] \in Nat
  BY BoundsAssumption DEF Typed, TypeOK
<1>1. ASSUME wk'[w] = wk[w] PROVE ProcessStep(w)
  BY <1>1 DEF ProcessStep, Steady, SameAttempt
<1>2. CASE NextRound(v)
  <2>1. PICK e \in {wk[v].epoch, epoch[v]} : wk' = [wk EXCEPT ![v] = Idle(e)]
    BY <1>2 DEF NextRound
  <2>2. e \in Nat
    BY <1>0, <2>1 DEF Process
  <2> QED
    BY <1>0, <1>1, <2>1, <2>2 DEF ProcessStep, Typed, TypeOK
<1>3. ASSUME NEW op \in MainOps, NEW outcome, Call(v, op, outcome) PROVE ProcessStep(w)
  <2> DEFINE p == [wk[v] EXCEPT !.pc = "waiting", !.op = op, !.outcome = outcome, !.tries = 0]
  <2>1. /\ SameAttempt(wk[v], p) /\ p.beat = wk[v].beat /\ p.pc = "waiting" /\ p.op = op
    BY <1>0 DEF Process, SameAttempt
  <2>2. op \in {"prepare", "complete", "finalize"} => wk[v].pc \in {"running", "prepared"}
    BY <1>3 DEF Call, Calls
  <2>3. Steady(wk[v], p)
    BY <2>1, <2>2 DEF Steady, AtWork
  <2>4. wk' = [wk EXCEPT ![v] = p]
    BY <1>3 DEF Call
  <2> HIDE DEF p
  <2> QED
    BY <1>1, <2>3, <2>4 DEF ProcessStep, Typed, TypeOK
<1>4. ASSUME NEW p, wk' = [wk EXCEPT ![v] = p], SameAttempt(wk[v], p),
             p.pc = wk[v].pc, p.op = wk[v].op, p.outcome = wk[v].outcome,
             p.beat = "off" => wk[v].beat = "off"
      PROVE  ProcessStep(w)
  <2>1. Steady(wk[v], p)
    BY <1>4 DEF Steady, AtWork
  <2> QED
    BY <1>1, <1>4, <2>1 DEF ProcessStep, Typed, TypeOK
<1>5. CASE Beat(v)
  <2> DEFINE p == [wk[v] EXCEPT !.beat = "out", !.next = NextExpiry(wk[v].lease, clock),
                                !.beatTries = 0]
  <2>1. /\ SameAttempt(wk[v], p) /\ p.pc = wk[v].pc /\ p.op = wk[v].op
        /\ p.outcome = wk[v].outcome /\ p.beat = "out"
    BY <1>0 DEF Process, SameAttempt
  <2>2. wk' = [wk EXCEPT ![v] = p]
    BY <1>5 DEF Beat
  <2> HIDE DEF p
  <2> QED
    BY <1>4, <2>1, <2>2
<1>6. CASE RetryCall(v)
  <2> DEFINE p == [wk[v] EXCEPT !.tries = @ + 1]
  <2>1. /\ SameAttempt(wk[v], p) /\ p.pc = wk[v].pc /\ p.op = wk[v].op
        /\ p.outcome = wk[v].outcome /\ p.beat = wk[v].beat
    BY <1>0 DEF Process, SameAttempt
  <2>2. wk' = [wk EXCEPT ![v] = p]
    BY <1>6 DEF RetryCall
  <2> HIDE DEF p
  <2> QED
    BY <1>4, <2>1, <2>2
<1>7. CASE RetryBeat(v)
  <2> DEFINE p == [wk[v] EXCEPT !.beatTries = @ + 1]
  <2>1. /\ SameAttempt(wk[v], p) /\ p.pc = wk[v].pc /\ p.op = wk[v].op
        /\ p.outcome = wk[v].outcome /\ p.beat = wk[v].beat
    BY <1>0 DEF Process, SameAttempt
  <2>2. wk' = [wk EXCEPT ![v] = p]
    BY <1>7 DEF RetryBeat
  <2> HIDE DEF p
  <2> QED
    BY <1>4, <2>1, <2>2
<1>8. CASE LoseBeat(v)
  <2> DEFINE p == [wk[v] EXCEPT !.beat = "lost", !.next = 0, !.beatTries = 0]
  <2>1. /\ SameAttempt(wk[v], p) /\ p.pc = wk[v].pc /\ p.op = wk[v].op
        /\ p.outcome = wk[v].outcome /\ p.beat = "lost"
    BY <1>0 DEF Process, SameAttempt
  <2>2. wk' = [wk EXCEPT ![v] = p]
    BY <1>8 DEF LoseBeat
  <2> HIDE DEF p
  <2> QED
    BY <1>4, <2>1, <2>2
<1> QED
  BY <1>2, <1>3, <1>5, <1>6, <1>7, <1>8 DEF Worker

LEMMA HandlerSteps ==
    ASSUME Typed, Links, NEW i \in Slots, Handler(i) \/ Drop(i), NEW w \in Workers
    PROVE  ProcessStep(w)
<1> DEFINE r == req[i]
           v == req[i].w
<1>0. /\ r \in Request /\ v \in Workers /\ wk[v] \in Process /\ wk[v].epoch \in Nat
      /\ r.op \in Ops
  <2>1. r \in Request
    BY HandledRequest
  <2>2. v \in Workers /\ r.op \in Ops
    BY <2>1 DEF Request
  <2>3. wk[v] \in Process
    BY <2>2 DEF Typed, TypeOK
  <2> QED
    BY <2>1, <2>2, <2>3 DEF Process
<1>1. ASSUME wk'[w] = wk[w] PROVE ProcessStep(w)
  BY <1>1 DEF ProcessStep, Steady, SameAttempt
<1>2. ASSUME NEW p, Answer(i, p) PROVE wk'[w] = wk[w] \/ (r.open /\ w = v /\ wk'[w] = p)
  BY <1>0, <1>2 DEF Answer, Typed, TypeOK
<1>3. /\ r.open /\ r.op # "heartbeat" =>
            wk[v].pc = "waiting" /\ wk[v].op = r.op /\ wk[v].outcome = r.outcome /\ wk[v].beat = "off"
      /\ r.open /\ r.op = "heartbeat" => wk[v].beat = "out" /\ wk[v].pc = "running"
      /\ r.open => r.at = wk[v].at /\ r.rev = wk[v].rev
  <2>1. r.open => Matches(r, wk[v])
    BY DEF Links
  <2>2. wk[v].beat # "off" => wk[v].pc = "running"
    BY <1>0 DEF Links
  <2> QED
    BY <2>1, <2>2 DEF Matches
<1>4. /\ SameAttempt(wk[v], Answered(i))
      /\ Answered(i).pc = wk[v].pc /\ Answered(i).op = wk[v].op /\ Answered(i).outcome = wk[v].outcome
      /\ r.op # "heartbeat" => Answered(i).beat = wk[v].beat
      /\ r.op = "heartbeat" => Answered(i).beat = "off"
  BY <1>0 DEF Answered, Process, SameAttempt
<1>5. Answered(i) \in Process
  BY <1>0, AnsweredType DEF Typed
<1> HIDE DEF r, v
<1>6. ASSUME Rejected(i) PROVE ProcessStep(w)
  <2>1. CASE r.op = "heartbeat"
    <3> DEFINE p == [Answered(i) EXCEPT !.beat = "lost"]
    <3>1. /\ SameAttempt(Answered(i), p) /\ p.pc = Answered(i).pc /\ p.op = Answered(i).op
          /\ p.outcome = Answered(i).outcome /\ p.beat = "lost"
      BY <1>5 DEF Process, SameAttempt
    <3>2. Answer(i, p)
      BY <1>6, <2>1 DEF Rejected, r
    <3> HIDE DEF p
    <3>3. Steady(wk[v], p)
      BY <1>4, <3>1 DEF Steady, SameAttempt, AtWork
    <3> QED
      BY <1>1, <1>2, <3>2, <3>3 DEF ProcessStep
  <2>2. CASE r.op # "heartbeat"
    <3> DEFINE p == [Answered(i) EXCEPT !.pc = "refused"]
    <3>1. SameAttempt(Answered(i), p) /\ p.pc = "refused" /\ p.beat = Answered(i).beat
      BY <1>5 DEF Process, SameAttempt
    <3>2. Answer(i, p)
      BY <1>6, <2>2 DEF Rejected, r
    <3> HIDE DEF p
    <3>3. Steady(wk[v], p)
      BY <1>4, <2>2, <3>1 DEF Steady, SameAttempt, AtWork
    <3> QED
      BY <1>1, <1>2, <3>2, <3>3 DEF ProcessStep
  <2> QED
    BY <2>1, <2>2
<1>7. ASSUME Finished(i), r.op \in ReplayOps,
             (LookUp(i) /\ Replayable(r)) \/ FinalizeTx(i) \/ CompleteTx(i) \/ ReplayTx(i)
      PROVE  ProcessStep(w)
  <2> DEFINE p == [Answered(i) EXCEPT !.pc = "done"]
  <2>1. /\ SameAttempt(Answered(i), p) /\ p.pc = "done" /\ p.op = Answered(i).op
        /\ p.outcome = Answered(i).outcome /\ p.beat = Answered(i).beat
    BY <1>5 DEF Process, SameAttempt
  <2>2. Answer(i, p)
    BY <1>7 DEF Finished
  <2> HIDE DEF p
  <2>3. r.op # "heartbeat"
    BY <1>7 DEF ReplayOps
  <2>4. r.open => Ends(i, wk[v], p)
    BY <1>3, <1>4, <1>7, <2>1, <2>3 DEF Ends, SameAttempt, r
  <2> QED
    BY <1>0, <1>1, <1>2, <2>2, <2>4 DEF ProcessStep, AnswersTo, r, v
<1>8. CASE LookUp(i)
  BY <1>1, <1>7, <1>8 DEF LookUp, r
<1>9. CASE Authorize(i) \/ Drop(i)
  BY <1>1, <1>9 DEF Authorize, Drop
<1>10. CASE RefuseEarly(i) \/ RefuseTx(i)
  BY <1>6, <1>10 DEF RefuseEarly, RefuseTx
<1>11. CASE AssignNothing(i)
  BY <1>0, <1>1, <1>2, <1>11 DEF AssignNothing, ProcessStep, v
<1>12. CASE AssignTx(i)
  <2>1. PICK j \in Candidates(req[i].now) :
          /\ Leased(i, j)
          /\ \/ Answer(i, [Answered(i) EXCEPT !.pc = "assigned", !.at = <<j, latest[j] + 1>>,
                                             !.rev = 1, !.lease = req[i].now + LeaseTerm,
                                             !.bound = req[i].now + LeaseTerm])
             \/ Answer(i, Idle(wk[v].epoch))
    BY <1>12 DEF AssignTx, Leased, v
  <2>2. CASE Answer(i, Idle(wk[v].epoch))
    BY <1>0, <1>1, <1>2, <2>2 DEF ProcessStep
  <2> DEFINE p == [Answered(i) EXCEPT !.pc = "assigned", !.at = <<j, latest[j] + 1>>,
                                      !.rev = 1, !.lease = req[i].now + LeaseTerm,
                                      !.bound = req[i].now + LeaseTerm]
  <2>3. p.pc = "assigned" /\ p.at = <<j, latest[j] + 1>> /\ p.lease = req[i].now + LeaseTerm
    BY <1>5 DEF Process
  <2> HIDE DEF p
  <2>4. Leases(i, p)
    BY <1>12, <2>1, <2>3 DEF Leases
  <2>5. CASE Answer(i, p)
    BY <1>0, <1>1, <1>2, <2>4, <2>5 DEF ProcessStep, AnswersTo, r, v
  <2> QED
    BY <2>1, <2>2, <2>5 DEF p
<1>13. CASE ClaimTx(i)
  <2> DEFINE p == [Answered(i) EXCEPT !.pc = "running", !.rev = attempt'[r.at].revision,
                                      !.lease = attempt'[r.at].lease]
  <2>1. /\ p.pc = "running" /\ p.at = Answered(i).at
        /\ p.rev = attempt'[r.at].revision /\ p.lease = attempt'[r.at].lease
    BY <1>5 DEF Process
  <2>2. Answer(i, p) /\ r.op = "claim"
    BY <1>13 DEF ClaimTx, InTransaction, r
  <2> HIDE DEF p
  <2>3. r.open => Starts(i, wk[v], p)
    BY <1>3, <1>4, <1>13, <2>1, <2>2 DEF Starts, SameAttempt
  <2> QED
    BY <1>0, <1>1, <1>2, <2>2, <2>3 DEF ProcessStep, AnswersTo, r, v
<1>14. CASE HeartbeatTx(i)
  <2> DEFINE p == [Answered(i) EXCEPT !.rev = attempt'[r.at].revision,
                                      !.lease = attempt'[r.at].lease]
  <2>1. /\ p.pc = Answered(i).pc /\ p.at = Answered(i).at /\ p.beat = Answered(i).beat
        /\ p.rev = attempt'[r.at].revision /\ p.lease = attempt'[r.at].lease
    BY <1>5 DEF Process
  <2>2. Answer(i, p) /\ r.op = "heartbeat"
    BY <1>14 DEF HeartbeatTx, InTransaction, r
  <2> HIDE DEF p
  <2>3. r.open => Extends(i, wk[v], p)
    BY <1>3, <1>4, <1>14, <2>1, <2>2 DEF Extends, SameAttempt
  <2> QED
    BY <1>0, <1>1, <1>2, <2>2, <2>3 DEF ProcessStep, AnswersTo, r, v
<1>15. CASE PrepareTx(i)
  <2> DEFINE p == [Answered(i) EXCEPT !.pc = "prepared", !.bound = prep'[r.at].lease]
  <2>1. /\ p.pc = "prepared" /\ p.at = Answered(i).at /\ p.beat = Answered(i).beat
        /\ p.rev = Answered(i).rev /\ p.lease = Answered(i).lease /\ p.bound = prep'[r.at].lease
    BY <1>5 DEF Process
  <2>2. Answer(i, p) /\ r.op = "prepare"
    BY <1>15 DEF PrepareTx, InTransaction, r
  <2> HIDE DEF p
  <2>3. r.open => Prepares(i, wk[v], p)
    BY <1>3, <1>4, <1>15, <2>1, <2>2 DEF Prepares, SameAttempt, AtWork
  <2> QED
    BY <1>0, <1>1, <1>2, <2>2, <2>3 DEF ProcessStep, AnswersTo, r, v
<1>16. CASE FinalizeTx(i) \/ CompleteTx(i) \/ ReplayTx(i)
  BY <1>7, <1>16 DEF FinalizeTx, CompleteTx, ReplayTx, InTransaction, Replayable, ReplayOps, r
<1> QED
  BY <1>8, <1>9, <1>10, <1>11, <1>12, <1>13, <1>14, <1>15, <1>16 DEF Handler

LEMMA ProcessSteps ==
    ASSUME Typed, Links, [Next]_vars, NEW w \in Workers PROVE ProcessStep(w)
<1>1. ASSUME wk' = wk PROVE ProcessStep(w)
  BY <1>1 DEF ProcessStep, Steady, SameAttempt
<1>2. CASE Environment
  BY <1>1, <1>2 DEF Environment, Tick, Promote, RotateSecret, Admit
<1>3. CASE UNCHANGED vars
  BY <1>1, <1>3 DEF vars
<1> QED
  BY <1>2, <1>3, WorkerSteps, HandlerSteps DEF Next

\* A slot is freed, takes a new request, or keeps the one it has.
RequestStep(k) ==
    \/ req'[k] = NoRequest
    \/ req'[k] \in Request /\ req'[k].open /\ req'[k].phase = "sent"
    \/ /\ req[k] \in Request
       /\ req'[k].w = req[k].w /\ req'[k].op = req[k].op
       /\ req'[k].at = req[k].at /\ req'[k].rev = req[k].rev
       /\ req'[k].open => req[k].open
       /\ \/ req'[k].phase = req[k].phase /\ req'[k].seen = req[k].seen
          \/ req'[k].phase # "authorized"
          \/ Authorize(k)

LEMMA RequestSteps == ASSUME Typed, [Next]_vars, NEW k \in Slots PROVE RequestStep(k)
<1>0. req'[k] \in Request \cup {NoRequest} /\ req[k] \in Request \cup {NoRequest}
  BY TypedNext DEF Typed, TypeOK
<1>1. ASSUME req'[k] = req[k] PROVE RequestStep(k)
  BY <1>0, <1>1 DEF RequestStep
<1>2. ASSUME NEW w, NEW ops, req'[k] = Abandoned(w, ops)[k] PROVE RequestStep(k)
  <2>1. CASE Abandoned(w, ops)[k] = req[k]
    BY <1>1, <1>2, <2>1
  <2>2. CASE Abandoned(w, ops)[k] = [req[k] EXCEPT !.open = FALSE] /\ req[k].open
    <3>1. req[k] \in Request
      BY <1>0, <2>2 DEF NoRequest
    <3> QED
      BY <1>2, <2>2, <3>1 DEF RequestStep, Request
  <2> QED
    BY <2>1, <2>2 DEF Abandoned
<1>3. ASSUME req'[k].open, req'[k].phase = "sent" PROVE RequestStep(k)
  BY <1>0, <1>3 DEF RequestStep, NoRequest
<1>4. ASSUME NEW w, NEW p, req'[k] = CallOf(w, p) \/ req'[k] = BeatOf(w, p) PROVE RequestStep(k)
  <2>1. CallOf(w, p).open /\ CallOf(w, p).phase = "sent"
    BY DEF CallOf, NoRequest
  <2>2. BeatOf(w, p).open /\ BeatOf(w, p).phase = "sent"
    BY DEF BeatOf, NoRequest
  <2> QED
    BY <1>3, <1>4, <2>1, <2>2
<1>5. ASSUME NEW w \in Workers, Worker(w) PROVE RequestStep(k)
  <2>1. ASSUME NEW op, NEW outcome, Call(w, op, outcome) PROVE RequestStep(k)
    <3> DEFINE p == [wk[w] EXCEPT !.pc = "waiting", !.op = op, !.outcome = outcome, !.tries = 0]
    <3>1. \E i \in Slots : req' = [req EXCEPT ![i] = CallOf(w, p)]
      BY <2>1 DEF Call
    <3> HIDE DEF p
    <3> QED
      BY <1>1, <1>4, <3>1 DEF Typed, TypeOK
  <2>2. CASE Beat(w)
    <3> DEFINE p == [wk[w] EXCEPT !.beat = "out", !.next = NextExpiry(wk[w].lease, clock),
                                  !.beatTries = 0]
    <3>1. \E i \in Slots : req' = [req EXCEPT ![i] = BeatOf(w, p)]
      BY <2>2 DEF Beat
    <3> HIDE DEF p
    <3> QED
      BY <1>1, <1>4, <3>1 DEF Typed, TypeOK
  <2>3. CASE RetryCall(w)
    <3>1. PICK i \in Slots : req' = [Abandoned(w, MainOps) EXCEPT ![i] = CallOf(w, wk[w])]
      BY <2>3 DEF RetryCall
    <3>2. req'[k] = CallOf(w, wk[w]) \/ req'[k] = Abandoned(w, MainOps)[k]
      BY <3>1 DEF Abandoned
    <3> QED
      BY <1>2, <1>4, <3>2
  <2>4. CASE RetryBeat(w)
    <3>1. PICK i \in Slots : req' = [Abandoned(w, {"heartbeat"}) EXCEPT ![i] = BeatOf(w, wk[w])]
      BY <2>4 DEF RetryBeat
    <3>2. req'[k] = BeatOf(w, wk[w]) \/ req'[k] = Abandoned(w, {"heartbeat"})[k]
      BY <3>1 DEF Abandoned
    <3> QED
      BY <1>2, <1>4, <3>2
  <2>5. CASE LoseBeat(w) \/ NextRound(w)
    BY <1>2, <2>5 DEF LoseBeat, NextRound
  <2> QED
    BY <1>5, <2>1, <2>2, <2>3, <2>4, <2>5 DEF Worker
<1>6. ASSUME NEW i \in Slots, NEW p, Answer(i, p) PROVE RequestStep(k)
  <2>1. req'[k] = NoRequest \/ req'[k] = req[k]
    BY <1>6 DEF Answer, Typed, TypeOK
  <2> QED
    BY <1>1, <2>1 DEF RequestStep
<1>7. ASSUME NEW i \in Slots, Handler(i) \/ Drop(i) PROVE RequestStep(k)
  <2>0. req[i] \in Request
    BY <1>7, HandledRequest
  <2>1. CASE Drop(i)
    BY <1>1, <2>1 DEF Drop, RequestStep, Typed, TypeOK
  <2>2. CASE LookUp(i)
    <3>1. CASE req' = [req EXCEPT ![i].phase = "looked", ![i].now = clock]
      <4>1. CASE k = i
        BY <2>0, <3>1, <4>1 DEF RequestStep, Request, Typed, TypeOK
      <4>2. CASE k # i
        BY <1>1, <3>1, <4>2 DEF Typed, TypeOK
      <4> QED
        BY <4>1, <4>2
    <3> QED
      BY <1>6, <2>2, <3>1 DEF LookUp, Finished
  <2>3. CASE Authorize(i)
    <3> DEFINE now == IF req[i].op = "complete" THEN req[i].now ELSE clock
               seen == IF req[i].op = "assign" THEN req[i].seen ELSE Snapshot(req[i].at)
    <3>1. req' = [req EXCEPT ![i].phase = "authorized", ![i].now = now, ![i].seen = seen]
      BY <2>3 DEF Authorize
    <3> HIDE DEF now, seen
    <3>2. CASE k = i
      BY <2>0, <2>3, <3>1, <3>2 DEF RequestStep, Request, Typed, TypeOK
    <3>3. CASE k # i
      BY <1>1, <3>1, <3>3 DEF Typed, TypeOK
    <3> QED
      BY <3>2, <3>3
  <2>4. CASE RefuseEarly(i) \/ RefuseTx(i) \/ ReplayTx(i) \/ FinalizeTx(i) \/ CompleteTx(i)
    BY <1>6, <2>4 DEF RefuseEarly, RefuseTx, ReplayTx, FinalizeTx, CompleteTx, Rejected, Finished
  <2>5. CASE AssignTx(i) \/ AssignNothing(i) \/ ClaimTx(i) \/ HeartbeatTx(i) \/ PrepareTx(i)
    BY <1>6, <2>5 DEF AssignTx, AssignNothing, ClaimTx, HeartbeatTx, PrepareTx
  <2> QED
    BY <1>7, <2>1, <2>2, <2>3, <2>4, <2>5 DEF Handler
<1>8. CASE Environment
  BY <1>1, <1>8 DEF Environment, Tick, Promote, RotateSecret, Admit
<1>9. CASE UNCHANGED vars
  BY <1>1, <1>9 DEF vars
<1> QED
  BY <1>5, <1>7, <1>8, <1>9 DEF Next

-----------------------------------------------------------------------------
(* Times that requests carry are not ahead of the clock. *)

NotAhead == \A i \in Slots : req[i].now <= clock

LEMMA ClockNext == ASSUME [Next]_vars PROVE clock' = clock \/ clock' = clock + 1
<1>1. CASE Environment
  BY <1>1 DEF Environment, Tick, Promote, RotateSecret, Admit, world
<1>2. ASSUME NEW w \in Workers, Worker(w) PROVE clock' = clock
  BY <1>2 DEF Worker, Call, Beat, RetryCall, RetryBeat, LoseBeat, NextRound, world
<1>3. ASSUME NEW i \in Slots, Handler(i) PROVE clock' = clock
  <2>1. CASE LookUp(i) \/ Authorize(i) \/ RefuseEarly(i) \/ ReplayTx(i) \/ RefuseTx(i)
    BY <2>1 DEF LookUp, Authorize, RefuseEarly, ReplayTx, RefuseTx, world
  <2>2. CASE AssignTx(i) \/ AssignNothing(i) \/ ClaimTx(i) \/ HeartbeatTx(i)
    BY <2>2 DEF AssignTx, AssignNothing, ClaimTx, HeartbeatTx, world
  <2>3. CASE PrepareTx(i) \/ FinalizeTx(i) \/ CompleteTx(i)
    BY <2>3 DEF PrepareTx, FinalizeTx, CompleteTx, world
  <2> QED
    BY <1>3, <2>1, <2>2, <2>3 DEF Handler
<1>4. ASSUME NEW i \in Slots, Drop(i) PROVE clock' = clock
  BY <1>4 DEF Drop, world
<1>5. CASE UNCHANGED vars
  BY <1>5 DEF vars
<1> QED
  BY <1>1, <1>2, <1>3, <1>4, <1>5 DEF Next

\* The time in a slot stays, is cleared, or is read from the clock.
LEMMA NotAheadNext == Typed /\ NotAhead /\ [Next]_vars => NotAhead'
<1> SUFFICES ASSUME Typed, NotAhead, [Next]_vars, NEW i \in Slots
             PROVE  req'[i].now <= clock'
  BY DEF NotAhead
<1>0. /\ req[i].now \in Nat /\ req[i].now <= clock
      /\ clock \in Nat /\ clock' \in Nat /\ clock <= clock'
  <2>1. req[i].now \in Nat
    BY DEF Typed, TypeOK, Request, NoRequest
  <2>2. clock \in Nat /\ (clock' = clock \/ clock' = clock + 1)
    BY ClockNext, BoundsAssumption DEF Typed, TypeOK
  <2> QED
    BY <2>1, <2>2 DEF NotAhead
<1>1. ASSUME req'[i].now \in {0, req[i].now, clock} PROVE req'[i].now <= clock'
  BY <1>0, <1>1
<1> USE DEF Typed, TypeOK
<1>2. NoRequest.now = 0
  BY DEF NoRequest
<1>3. ASSUME NEW k \in Slots, NEW p, Answer(k, p) PROVE req'[i].now \in {0, req[i].now, clock}
  BY <1>2, <1>3 DEF Answer
<1>4. ASSUME NEW w \in Workers, NEW ops PROVE Abandoned(w, ops)[i].now = req[i].now
  BY DEF Abandoned, Request, NoRequest
<1>5. ASSUME NEW w \in Workers, NEW p PROVE CallOf(w, p).now = 0 /\ BeatOf(w, p).now = 0
  BY DEF CallOf, BeatOf, NoRequest
<1>6. ASSUME NEW w \in Workers, Worker(w) PROVE req'[i].now \in {0, req[i].now, clock}
  <2>1. ASSUME NEW op \in MainOps, NEW outcome, Call(w, op, outcome)
        PROVE  req'[i].now \in {0, req[i].now, clock}
    BY <1>5, <2>1 DEF Call
  <2>2. CASE Beat(w)
    BY <1>5, <2>2 DEF Beat
  <2>3. CASE RetryCall(w)
    BY <1>4, <1>5, <2>3, AbandonedType DEF RetryCall
  <2>4. CASE RetryBeat(w)
    BY <1>4, <1>5, <2>4, AbandonedType DEF RetryBeat
  <2>5. CASE LoseBeat(w) \/ NextRound(w)
    BY <1>4, <2>5 DEF LoseBeat, NextRound
  <2> QED
    BY <1>6, <2>1, <2>2, <2>3, <2>4, <2>5 DEF Worker
<1>7. ASSUME NEW k \in Slots, Handler(k) \/ Drop(k) PROVE req'[i].now \in {0, req[i].now, clock}
  <2>1. CASE Drop(k)
    BY <1>2, <2>1 DEF Drop
  <2>2. CASE LookUp(k)
    <3>1. CASE Finished(k)
      BY <1>3, <3>1 DEF Finished
    <3>2. CASE req' = [req EXCEPT ![k].phase = "looked", ![k].now = clock]
      BY <3>2 DEF Request, NoRequest
    <3> QED
      BY <2>2, <3>1, <3>2 DEF LookUp
  <2>3. CASE Authorize(k)
    BY <2>3 DEF Authorize, Request, NoRequest
  <2>4. CASE RefuseEarly(k) \/ RefuseTx(k) \/ ReplayTx(k) \/ FinalizeTx(k) \/ CompleteTx(k)
    BY <1>3, <2>4 DEF RefuseEarly, RefuseTx, ReplayTx, FinalizeTx, CompleteTx, Rejected, Finished
  <2>5. CASE AssignTx(k) \/ AssignNothing(k) \/ ClaimTx(k) \/ HeartbeatTx(k) \/ PrepareTx(k)
    BY <1>3, <2>5 DEF AssignTx, AssignNothing, ClaimTx, HeartbeatTx, PrepareTx
  <2> QED
    BY <1>7, <2>1, <2>2, <2>3, <2>4, <2>5 DEF Handler
<1>8. CASE Environment
  BY <1>1, <1>8 DEF Environment, Tick, Promote, RotateSecret, Admit
<1>9. CASE UNCHANGED vars
  BY <1>1, <1>9 DEF vars
<1> QED
  BY <1>1, <1>6, <1>7, <1>8, <1>9 DEF Next

LEMMA NotAheadInit == Init => NotAhead
BY DEF Init, NotAhead, NoRequest


-----------------------------------------------------------------------------
(* A job is held by one worker at a time. *)

\* Row a stays, runs out, or is written by the transaction of its holder.
RowStep(a) ==
    \/ attempt'[a] = attempt[a]
    \/ \E i \in Slots : /\ AssignTx(i) /\ a = Newest(a[1])
                        /\ CanExpire(attempt[a], req[i].now)
                        /\ attempt'[a] = Lapsed(attempt[a])
    \/ \E i \in Slots, now \in Nat :
          /\ req[i].at = a /\ HoldsLease(req[i], now)
          /\ \/ ClaimTx(i) /\ attempt'[a] = Started(attempt[a])
             \/ HeartbeatTx(i) /\ req[i].lease > attempt[a].lease
                              /\ attempt'[a] = Renewed(attempt[a], req[i].lease)
             \/ \E outcome \in Outcomes : attempt'[a] = Completed(attempt[a], outcome)

\* A number that the rows do not use yet has no row.
LEMMA FreshRow ==
    ASSUME Typed, JobMatchesAttempts, NEW j \in Jobs, <<j, latest[j] + 1>> \in Attempts
    PROVE  attempt[<<j, latest[j] + 1>>] = NoRow
<1>1. latest[j] \in Nat /\ latest[j] + 1 \in 1..MaxAttempts
  BY DEF Typed, TypeOK, Attempts
<1>2. OneStory(j)
  BY DEF JobMatchesAttempts
<1>3. latest[j] + 1 > latest[j]
  BY <1>1
<1> QED
  BY <1>1, <1>2, <1>3 DEF OneStory

LEMMA RowSteps ==
    ASSUME Typed, JobMatchesAttempts, [Next]_vars, NEW a \in Attempts, attempt[a] # NoRow
    PROVE  RowStep(a)
<1>0. attempt \in [Attempts -> AttemptRow \cup {NoRow}]
  BY DEF Typed, TypeOK
<1>1. ASSUME NEW i \in Slots, AssignTx(i) PROVE RowStep(a)
  <2>1. PICK j \in Candidates(req[i].now) : Leased(i, j)
    BY <1>1, AssignLeases
  <2>2. j \in Jobs
    BY <2>1, CandidateType DEF Typed
  <2>3. a # <<j, latest[j] + 1>>
    BY <2>2, FreshRow
  <2>4. CASE a = Newest(j) /\ job[j].state # "QUEUED"
    <3>1. attempt'[a] = Lapsed(attempt[a]) /\ a[1] = j
      BY <2>1, <2>3, <2>4 DEF Leased, Newest
    <3>2. CanExpire(attempt[a], req[i].now)
      BY <2>1, <2>4, CandidateType DEF Typed
    <3> QED
      BY <1>1, <2>4, <3>1, <3>2 DEF RowStep
  <2>5. CASE ~(a = Newest(j) /\ job[j].state # "QUEUED")
    <3>1. attempt'[a] = attempt[a]
      BY <2>1, <2>3, <2>5 DEF Leased
    <3> QED
      BY <3>1 DEF RowStep
  <2> QED
    BY <2>4, <2>5
<1>2. ASSUME NEW i \in Slots, ClaimTx(i) \/ HeartbeatTx(i) \/ FinalizeTx(i) \/ CompleteTx(i)
      PROVE  RowStep(a)
  <2>0. req[i] \in Request /\ clock \in Nat
    BY <1>2 DEF ClaimTx, HeartbeatTx, FinalizeTx, CompleteTx, InTransaction, Typed, TypeOK, NoRequest
  <2>1. \A now \in Times(req[i]) : now \in Nat
    BY <2>0 DEF Times, Request
  <2>2. PICK now \in Nat :
          /\ HoldsLease(req[i], now)
          /\ HeartbeatTx(i) => CanRenew(attempt[req[i].at], now, req[i].lease)
          /\ CompleteTx(i) => req[i].outcome \in Outcomes
    <3>1. CASE ClaimTx(i)
      BY <2>1, <3>1 DEF ClaimTx, HeartbeatTx, CompleteTx, ClaimPermitted, InTransaction
    <3>2. CASE HeartbeatTx(i)
      BY <2>1, <3>2 DEF HeartbeatTx, CompleteTx, HeartbeatPermitted, InTransaction
    <3>3. CASE FinalizeTx(i)
      BY <2>1, <3>3 DEF FinalizeTx, HeartbeatTx, CompleteTx, FinalizePermitted, InTransaction
    <3>4. CASE CompleteTx(i)
      BY <2>1, <3>4 DEF CompleteTx, HeartbeatTx, CompletePermitted, CanComplete, InTransaction
    <3> QED
      BY <1>2, <3>1, <3>2, <3>3, <3>4
  <2>3. CASE a # req[i].at
    <3>1. attempt'[a] = attempt[a]
      BY <1>0, <1>2, <2>3 DEF ClaimTx, HeartbeatTx, FinalizeTx, CompleteTx, CloseJob
    <3> QED
      BY <3>1 DEF RowStep
  <2>4. CASE a = req[i].at
    <3>1. CASE ClaimTx(i)
      <4>1. attempt'[a] = Started(attempt[a])
        BY <1>0, <2>4, <3>1 DEF ClaimTx
      <4> QED
        BY <2>2, <2>4, <3>1, <4>1 DEF RowStep
    <3>2. CASE HeartbeatTx(i)
      <4>1. attempt'[a] = Renewed(attempt[a], req[i].lease) /\ req[i].lease > attempt[a].lease
        BY <1>0, <2>2, <2>4, <3>2 DEF HeartbeatTx, CanRenew
      <4> QED
        BY <2>2, <2>4, <3>2, <4>1 DEF RowStep
    <3>3. CASE FinalizeTx(i)
      <4>1. attempt'[a] = Completed(attempt[a], "SUCCEEDED")
        BY <1>0, <2>4, <3>3 DEF FinalizeTx, CloseJob
      <4> QED
        BY <2>2, <2>4, <4>1 DEF RowStep, Outcomes
    <3>4. CASE CompleteTx(i)
      <4>1. attempt'[a] = Completed(attempt[a], req[i].outcome)
        BY <1>0, <2>4, <3>4 DEF CompleteTx, CloseJob
      <4> QED
        BY <2>2, <2>4, <3>4, <4>1 DEF RowStep
    <3> QED
      BY <1>2, <3>1, <3>2, <3>3, <3>4
  <2> QED
    BY <2>3, <2>4
<1>3. ASSUME attempt' = attempt PROVE RowStep(a)
  BY <1>3 DEF RowStep
<1> QED
  BY <1>1, <1>2, <1>3, BusySteps DEF rows, Promote, Admit, PrepareTx

\* What row x keeps when it becomes y.
Grows(x, y) ==
    /\ y.worker = x.worker
    /\ x.lease <= y.lease
    /\ y.state = "CLAIMED" => x.state = "CLAIMED"
    /\ Active(y) => Active(x)

LEMMA MovesGrow ==
    ASSUME NEW x \in AttemptRow
    PROVE  /\ Grows(x, x)
           /\ Grows(x, Lapsed(x))
           /\ Active(x) => Grows(x, Started(x))
           /\ \A lease \in Nat : lease > x.lease /\ Active(x) => Grows(x, Renewed(x, lease))
           /\ \A outcome \in Outcomes : Grows(x, Completed(x, outcome))
<1>0. x.lease \in Nat
  BY DEF AttemptRow
<1>1. Grows(x, x)
  BY <1>0 DEF Grows
<1>2. /\ Lapsed(x).worker = x.worker /\ Lapsed(x).lease = x.lease
      /\ Lapsed(x).state = "EXPIRED"
  BY DEF Lapsed, AttemptRow
<1>3. Grows(x, Lapsed(x))
  BY <1>0, <1>2 DEF Grows, Active, ActiveStates
<1>4. ASSUME Active(x) PROVE Grows(x, Started(x))
  <2>1. /\ Started(x).worker = x.worker /\ Started(x).lease = x.lease
        /\ Started(x).state = "RUNNING"
    BY DEF Started, AttemptRow
  <2> QED
    BY <1>0, <1>4, <2>1 DEF Grows
<1>5. ASSUME NEW lease \in Nat, lease > x.lease, Active(x) PROVE Grows(x, Renewed(x, lease))
  <2>1. /\ Renewed(x, lease).worker = x.worker /\ Renewed(x, lease).lease = lease
        /\ Renewed(x, lease).state = x.state
    BY DEF Renewed, AttemptRow
  <2> QED
    BY <1>0, <1>5, <2>1 DEF Grows
<1>6. ASSUME NEW outcome \in Outcomes PROVE Grows(x, Completed(x, outcome))
  <2>1. /\ Completed(x, outcome).worker = x.worker /\ Completed(x, outcome).lease = x.lease
        /\ Completed(x, outcome).state = outcome
    BY DEF Completed, AttemptRow
  <2> QED
    BY <1>0, <1>6, <2>1 DEF Grows, Active, ActiveStates, Outcomes
<1> QED
  BY <1>1, <1>3, <1>4, <1>5, <1>6

LEMMA RowsGrow ==
    ASSUME Typed, JobMatchesAttempts, [Next]_vars, NEW a \in Attempts, attempt[a] # NoRow
    PROVE  attempt'[a] # NoRow /\ Grows(attempt[a], attempt'[a])
<1>1. attempt[a] \in AttemptRow
  BY DEF Typed, TypeOK
<1>2. RowStep(a)
  BY RowSteps
<1>3. \A i \in Slots : req[i].lease \in Nat
  BY DEF Typed, TypeOK, Request, NoRequest
<1>4. Grows(attempt[a], attempt'[a])
  BY <1>1, <1>2, <1>3, MovesGrow DEF RowStep, HoldsLease
<1>5. attempt'[a] \in AttemptRow
  BY <1>1, <1>2, <1>3, AttemptMovesType DEF RowStep, HoldsLease
<1>6. attempt'[a] # NoRow
  BY <1>5 DEF AttemptRow, NoRow, AttemptStates
<1> QED
  BY <1>4, <1>6


\* A request names an attempt that has a row; a process works on a row of its
\* own, whose lease is at least what it was told; and a row that is not the
\* newest of its job has a lease that is over.
Named == \A k \in Slots : req[k].at \in Attempts => attempt[req[k].at] # NoRow
Told(w) == wk[w].at \in Attempts =>
    /\ attempt[wk[w].at] # NoRow
    /\ attempt[wk[w].at].worker = w
    /\ wk[w].lease <= attempt[wk[w].at].lease
Overtaken == \A a \in Attempts : a[2] < latest[a[1]] => attempt[a].lease < clock

LEMMA FreshLease ==
    ASSUME Typed, JobMatchesAttempts, NEW i \in Slots, NEW q, Leases(i, q)
    PROVE  /\ q.at \in Attempts
           /\ attempt[q.at] = NoRow
           /\ attempt'[q.at] = ClaimedAttempt(req[i].w, q.lease)
<1>1. PICK j \in Candidates(req[i].now) :
        /\ Leased(i, j)
        /\ q.at = <<j, latest[j] + 1>> /\ q.lease = req[i].now + LeaseTerm
  BY DEF Leases
<1>2. j \in Jobs
  BY <1>1, CandidateType DEF Typed
<1>3. latest[j] + 1 \in 1..MaxAttempts
  BY <1>1, <1>2, LimitsAssumption DEF Leased, Assignable, Typed, TypeOK
<1>4. <<j, latest[j] + 1>> \in Attempts
  BY <1>2, <1>3 DEF Attempts
<1>5. attempt[<<j, latest[j] + 1>>] = NoRow
  BY <1>2, <1>4, FreshRow
<1> QED
  BY <1>1, <1>4, <1>5 DEF Leased

LEMMA ToldNext ==
    ASSUME Typed, Links, JobMatchesAttempts, [Next]_vars, NEW w \in Workers, Told(w)
    PROVE  Told(w)'
<1> DEFINE p == wk[w]
           q == wk'[w]
<1> SUFFICES ASSUME q.at \in Attempts
             PROVE  /\ attempt'[q.at] # NoRow
                    /\ attempt'[q.at].worker = w
                    /\ q.lease <= attempt'[q.at].lease
  BY DEF Told
<1>0. p \in Process /\ attempt \in [Attempts -> AttemptRow \cup {NoRow}]
  BY DEF Typed, TypeOK
<1>1. ASSUME q.at = p.at
      PROVE  /\ attempt'[q.at] # NoRow /\ attempt'[q.at].worker = w
             /\ p.lease <= attempt'[q.at].lease
  <2>1. attempt[p.at] # NoRow /\ attempt[p.at].worker = w /\ p.lease <= attempt[p.at].lease
    BY <1>1 DEF Told
  <2>2. attempt'[p.at] # NoRow /\ Grows(attempt[p.at], attempt'[p.at])
    BY <1>1, <2>1, RowsGrow
  <2>3. attempt'[p.at] \in AttemptRow
    BY <1>1, <2>2, TypedNext DEF Typed, TypeOK
  <2>4. p.lease \in Nat /\ attempt[p.at].lease \in Nat /\ attempt'[p.at].lease \in Nat
    BY <1>0, <1>1, <2>1, <2>3 DEF Process, AttemptRow
  <2> QED
    BY <1>1, <2>1, <2>2, <2>4 DEF Grows
<1>2. CASE Steady(p, q)
  BY <1>1, <1>2 DEF Steady, SameAttempt
<1>3. ASSUME NEW e \in Nat, q = Idle(e) PROVE FALSE
  BY <1>3 DEF Idle, NoAttempt, Attempts
<1>4. ASSUME NEW i \in Slots, req[i].w = w, AnswersTo(i, p, q)
      PROVE  /\ attempt'[q.at] # NoRow
             /\ attempt'[q.at].worker = w
             /\ q.lease <= attempt'[q.at].lease
  <2>1. CASE Leases(i, q)
    <3>1. attempt'[q.at] = ClaimedAttempt(w, q.lease)
      BY <1>4, <2>1, FreshLease
    <3>2. q.lease \in Nat
      BY TypedNext DEF Typed, TypeOK, Process
    <3>3. /\ ClaimedAttempt(w, q.lease).worker = w /\ ClaimedAttempt(w, q.lease).lease = q.lease
          /\ ClaimedAttempt(w, q.lease) # NoRow
      BY DEF ClaimedAttempt, NoRow
    <3> QED
      BY <3>1, <3>2, <3>3
  <2>2. CASE Starts(i, p, q) \/ Extends(i, p, q)
    <3>1. q.lease = attempt'[q.at].lease /\ q.at = p.at
      BY <2>2 DEF Starts, Extends
    <3>2. q.lease \in Nat
      BY TypedNext DEF Typed, TypeOK, Process
    <3> QED
      BY <1>1, <3>1, <3>2
  <2>3. CASE Prepares(i, p, q) \/ Ends(i, p, q)
    BY <1>1, <2>3 DEF Prepares, Ends, SameAttempt
  <2> QED
    BY <1>4, <2>1, <2>2, <2>3 DEF AnswersTo
<1> QED
  BY <1>2, <1>3, <1>4, ProcessSteps DEF ProcessStep

LEMMA NamedNext ==
    ASSUME Typed, Links, JobMatchesAttempts, [Next]_vars, Named, \A w \in Workers : Told(w)
    PROVE  Named'
<1> SUFFICES ASSUME NEW k \in Slots, req'[k].at \in Attempts
             PROVE  attempt'[req'[k].at] # NoRow
  BY DEF Named
<1>1. CASE req'[k] = NoRequest
  BY <1>1 DEF NoRequest, NoAttempt, Attempts
<1>2. CASE req'[k] \in Request /\ req'[k].open
  <2>1. req'[k].w \in Workers
    BY <1>2 DEF Request
  <2>2. req'[k].at = wk'[req'[k].w].at
    BY <1>2, LinksNext DEF Links, Matches
  <2> QED
    BY <2>1, <2>2, ToldNext DEF Told
<1>3. CASE req'[k].at = req[k].at
  BY <1>3, RowsGrow DEF Named
<1> QED
  BY <1>1, <1>2, <1>3, RequestSteps DEF RequestStep

LEMMA LatestSteps ==
    ASSUME [Next]_vars
    PROVE  \/ latest' = latest
           \/ \E i \in Slots : AssignTx(i) /\ \E j \in Candidates(req[i].now) : Leased(i, j)
BY BusySteps, AssignLeases
DEF rows, Promote, Admit, ClaimTx, HeartbeatTx, PrepareTx, FinalizeTx, CompleteTx

LEMMA OvertakenNext ==
    ASSUME Typed, JobMatchesAttempts, NotAhead, [Next]_vars, Overtaken
    PROVE  Overtaken'
<1> SUFFICES ASSUME NEW a \in Attempts, a[2] < latest'[a[1]]
             PROVE  attempt'[a].lease < clock'
  BY DEF Overtaken
<1>0. /\ a[1] \in Jobs /\ a[2] \in 1..MaxAttempts /\ a = <<a[1], a[2]>>
      /\ latest[a[1]] \in Nat /\ clock \in Nat
  BY BoundsAssumption DEF Attempts, Typed, TypeOK
<1>1. clock' \in Nat /\ clock <= clock'
  BY <1>0, ClockNext
<1>2. CASE a[2] < latest[a[1]]
  <2>1. attempt[a].state = "EXPIRED"
    BY <1>0, <1>2 DEF JobMatchesAttempts, OneStory
  <2>2. attempt[a] # NoRow /\ a # Newest(a[1])
    BY <1>0, <1>2, <2>1 DEF NoRow, Newest
  <2>3. attempt'[a] = attempt[a]
    BY <2>2, RowSteps DEF RowStep, HoldsLease
  <2>4. attempt[a].lease \in Nat /\ attempt[a].lease < clock
    BY <1>2, <2>2 DEF Overtaken, Typed, TypeOK, AttemptRow
  <2> QED
    BY <1>0, <1>1, <2>3, <2>4
<1>3. CASE ~(a[2] < latest[a[1]])
  <2>1. PICK i \in Slots : AssignTx(i) /\ \E j \in Candidates(req[i].now) : Leased(i, j)
    BY <1>3, LatestSteps
  <2>2. PICK j \in Candidates(req[i].now) : Leased(i, j)
    BY <2>1
  <2>3. j \in Jobs /\ latest' = [latest EXCEPT ![j] = latest[j] + 1]
    BY <2>2, CandidateType DEF Leased, Typed
  <2>4. a[1] = j /\ a[2] = latest[j]
    BY <1>0, <1>3, <2>3 DEF Typed, TypeOK
  <2>5. a = Newest(j)
    BY <1>0, <2>4 DEF Newest
  <2>6. CanExpire(attempt[a], req[i].now) /\ job[j].state # "QUEUED"
    <3>1. job[j].state # "QUEUED"
      BY <1>0, <2>3, <2>4 DEF JobMatchesAttempts, OneStory
    <3> QED
      BY <2>2, <2>5, <3>1, CandidateType DEF Typed
  <2>7. a # <<j, latest[j] + 1>>
    BY <1>0, <2>4
  <2>8. attempt'[a] = Lapsed(attempt[a])
    BY <2>2, <2>5, <2>6, <2>7 DEF Leased
  <2>9. attempt[a] \in AttemptRow
    BY <2>6 DEF CanExpire, Active, ActiveStates, Typed, TypeOK, NoRow
  <2>10. attempt'[a].lease = attempt[a].lease /\ attempt[a].lease \in Nat
    BY <2>8, <2>9 DEF Lapsed, AttemptRow
  <2>11. req[i].now \in Nat /\ req[i].now <= clock
    BY DEF NotAhead, Typed, TypeOK, Request, NoRequest
  <2> QED
    BY <1>0, <1>1, <2>6, <2>10, <2>11 DEF CanExpire
<1> QED
  BY <1>2, <1>3

HolderInvariant ==
    /\ Typed /\ JobMatchesAttempts /\ NotAhead
    /\ Links /\ Named /\ (\A w \in Workers : Told(w)) /\ Overtaken

LEMMA AlwaysHolder == Spec => []HolderInvariant
<1>1. Init => HolderInvariant
  <2> SUFFICES ASSUME Init PROVE Named /\ (\A w \in Workers : Told(w)) /\ Overtaken
    BY TypedInit, StoryInit, NotAheadInit, LinksInit DEF HolderInvariant
  <2>1. Named /\ \A w \in Workers : Told(w)
    BY DEF Init, Named, Told, NoRequest, Idle, NoAttempt, Attempts
  <2>2. Overtaken
    BY DEF Init, Overtaken, Attempts
  <2> QED
    BY <2>1, <2>2
<1>2. HolderInvariant /\ [Next]_vars => HolderInvariant'
  BY TypedNext, StoryNext, NotAheadNext, LinksNext, NamedNext, ToldNext, OvertakenNext
  DEF HolderInvariant
<1> QED
  BY <1>1, <1>2, PTL DEF Spec

LEMMA HolderExcludes == HolderInvariant => LeaseExclusion
<1> SUFFICES ASSUME HolderInvariant, NEW j \in Jobs, NEW v \in Workers, NEW w \in Workers,
                    Holds(v, j), Holds(w, j)
             PROVE  v = w
  BY DEF LeaseExclusion
<1>0. j \in Nat \ {0} /\ latest[j] \in Nat /\ clock \in Nat
  BY JobsAssumption, BoundsAssumption DEF HolderInvariant, Typed, TypeOK
<1>1. ASSUME NEW u \in Workers, Holds(u, j)
      PROVE  wk[u].at = Newest(j) /\ attempt[Newest(j)].worker = u
  <2>1. wk[u].at \in Attempts \cup {NoAttempt} /\ wk[u].lease \in Nat /\ wk[u].at[1] = j
    BY <1>1 DEF HolderInvariant, Typed, TypeOK, Process, Holds
  <2>2. wk[u].at \in Attempts
    BY <1>0, <2>1 DEF NoAttempt
  <2>3. wk[u].at = <<j, wk[u].at[2]>> /\ wk[u].at[2] \in 1..MaxAttempts
    BY <2>1, <2>2 DEF Attempts
  <2>4. /\ attempt[wk[u].at] # NoRow /\ attempt[wk[u].at].worker = u
        /\ wk[u].lease <= attempt[wk[u].at].lease
    BY <2>2 DEF HolderInvariant, Told
  <2>5. attempt[wk[u].at].lease \in Nat
    BY <2>2, <2>4 DEF HolderInvariant, Typed, TypeOK, AttemptRow
  <2>6. ~(wk[u].at[2] < latest[j])
    BY <1>0, <1>1, <2>1, <2>2, <2>4, <2>5 DEF HolderInvariant, Overtaken, Holds
  <2>7. ~(wk[u].at[2] > latest[j])
    <3>1. OneStory(j)
      BY DEF HolderInvariant, JobMatchesAttempts
    <3>2. wk[u].at[2] > latest[j] => attempt[<<j, wk[u].at[2]>>] = NoRow
      BY <2>3, <3>1 DEF OneStory
    <3> QED
      BY <2>3, <2>4, <3>2
  <2>8. wk[u].at[2] = latest[j]
    BY <1>0, <2>3, <2>6, <2>7
  <2> QED
    BY <2>3, <2>4, <2>8 DEF Newest
<1> QED
  BY <1>1

\* A worker that still counts on its lease is the only one that holds the job:
\* an attempt is taken over only after the lease that its row carries, and no
\* worker was ever told a later one.
THEOREM HeldByOne == Spec => []LeaseExclusion
BY AlwaysHolder, HolderExcludes, PTL

-----------------------------------------------------------------------------
(* What a worker was told is accepted is accepted. *)

\* The result under attempt a is stored, and the job has its outcome.
Stored(a, op, outcome) ==
    /\ a \in Attempts
    /\ \/ op = "finalize" /\ fin[a].made /\ job[a[1]].state = "SUCCEEDED"
       \/ /\ op = "complete" /\ outcome \in Outcomes
          /\ comp[a].made /\ comp[a].outcome = outcome /\ job[a[1]].state = outcome
Durable(w) == wk[w].pc = "done" => Stored(wk[w].at, wk[w].op, wk[w].outcome)

LEMMA StoredStays ==
    ASSUME Typed, [Next]_vars, NEW a, NEW op, NEW outcome, Stored(a, op, outcome)
    PROVE  Stored(a, op, outcome)'
<1>1. a \in Attempts /\ a[1] \in Jobs /\ job[a[1]].state \in Terminal
  BY DEF Stored, Attempts, Outcomes, Terminal
<1>2. job'[a[1]] = job[a[1]] /\ fin'[a] = fin[a] /\ comp'[a] = comp[a]
  BY <1>1, FinishedNext DEF FinishedUnchanged
<1> QED
  BY <1>2 DEF Stored

LEMMA EndsStored ==
    ASSUME Typed, ResultSettledOnce, [Next]_vars, NEW i \in Slots, req[i] \in Request,
           \/ (LookUp(i) \/ ReplayTx(i)) /\ Replayable(req[i])
           \/ FinalizeTx(i) \/ CompleteTx(i),
           NEW a, NEW op, NEW outcome,
           a = req[i].at, op = req[i].op, outcome = req[i].outcome
    PROVE  Stored(a, op, outcome)'
<1>0. req[i].outcome \in Outcomes \cup {"NONE"}
  BY DEF Request
<1>1. CASE (LookUp(i) \/ ReplayTx(i)) /\ Replayable(req[i])
  <2>1. fin' = fin /\ comp' = comp /\ job' = job
    BY <1>1 DEF LookUp, ReplayTx, rows
  <2>2. CASE req[i].op = "finalize" /\ FinReplay(req[i])
    <3>1. a \in Attempts /\ fin[a].made
      BY <2>2 DEF FinReplay
    <3>2. a[1] \in Jobs /\ a \in Closed(a[1])
      BY <3>1 DEF Closed, Attempts
    <3>3. job[a[1]].state = "SUCCEEDED"
      BY <3>1, <3>2 DEF ResultSettledOnce, SettledOnce
    <3> QED
      BY <2>1, <2>2, <3>1, <3>3 DEF Stored
  <2>3. CASE req[i].op = "complete" /\ CompReplay(req[i])
    <3>1. /\ a \in Attempts /\ comp[a].made /\ comp[a].outcome = req[i].outcome
          /\ job[a[1]].state = req[i].outcome
      BY <2>3 DEF CompReplay
    <3>2. a[1] \in Jobs /\ a \in Closed(a[1])
      BY <3>1 DEF Closed, Attempts
    <3>3. req[i].outcome \in Terminal
      BY <3>1, <3>2 DEF ResultSettledOnce, SettledOnce
    <3>4. req[i].outcome \in Outcomes
      BY <1>0, <3>3 DEF Terminal
    <3> QED
      BY <2>1, <2>3, <3>1, <3>4 DEF Stored
  <2> QED
    BY <1>1, <2>2, <2>3 DEF Replayable
<1>2. CASE FinalizeTx(i)
  <2>1. req[i].op = "finalize" /\ \E now : HoldsLease(req[i], now)
    BY <1>2 DEF FinalizeTx, InTransaction, FinalizePermitted
  <2>2. a \in Attempts /\ a[1] \in Jobs
    BY <2>1, HolderType DEF Typed
  <2>3. fin'[a].made
    BY <1>2, <2>2 DEF FinalizeTx, Typed, TypeOK
  <2>4. a \in Closed(a[1])'
    BY <2>2, <2>3 DEF Closed
  <2>5. job'[a[1]].state = "SUCCEEDED"
    BY <2>2, <2>3, <2>4, SettledNext DEF ResultSettledOnce, SettledOnce
  <2> QED
    BY <2>1, <2>2, <2>3, <2>5 DEF Stored
<1>3. CASE CompleteTx(i)
  <2>1. /\ req[i].op = "complete" /\ req[i].outcome \in Outcomes
        /\ \E now : HoldsLease(req[i], now)
    BY <1>3 DEF CompleteTx, InTransaction, CompletePermitted, CanComplete
  <2>2. a \in Attempts /\ a[1] \in Jobs
    BY <2>1, HolderType DEF Typed
  <2>3. comp'[a].made /\ comp'[a].outcome = req[i].outcome
    BY <1>3, <2>2 DEF CompleteTx, Typed, TypeOK
  <2>4. job' = [job EXCEPT ![a[1]] = Closing(a[1], req[i].outcome).job]
    BY <1>3 DEF CompleteTx, CloseJob
  <2>5. Closing(a[1], req[i].outcome).job.state = req[i].outcome
    BY DEF Closing, Moved
  <2>6. job'[a[1]].state = req[i].outcome
    BY <2>2, <2>4, <2>5 DEF Typed, TypeOK
  <2> QED
    BY <2>1, <2>2, <2>3, <2>6 DEF Stored
<1> QED
  BY <1>1, <1>2, <1>3

LEMMA DurableNext ==
    ASSUME Typed, Links, ResultSettledOnce, [Next]_vars, NEW w \in Workers, Durable(w)
    PROVE  Durable(w)'
<1> DEFINE p == wk[w]
           q == wk'[w]
<1> SUFFICES ASSUME q.pc = "done", NEW a, NEW op, NEW outcome,
                    a = q.at, op = q.op, outcome = q.outcome
             PROVE  Stored(a, op, outcome)'
  BY DEF Durable, Stored
<1>1. CASE Steady(p, q)
  <2>1. p.pc = "done" /\ a = p.at /\ op = p.op /\ outcome = p.outcome
    BY <1>1 DEF Steady, SameAttempt
  <2>2. Stored(a, op, outcome)
    BY <2>1 DEF Durable
  <2> QED
    BY <2>2, StoredStays
<1>2. ASSUME NEW e \in Nat, q = Idle(e) PROVE FALSE
  BY <1>2 DEF Idle
<1>3. ASSUME NEW i \in Slots, req[i].w = w, AnswersTo(i, p, q) PROVE Stored(a, op, outcome)'
  <2>1. Matches(req[i], p) /\ req[i] \in Request
    BY <1>3 DEF AnswersTo, Links
  <2>2. Ends(i, p, q)
    BY <1>3, <2>1 DEF AnswersTo, Leases, Starts, Extends, Prepares, Matches
  <2>3. a = req[i].at /\ op = req[i].op /\ outcome = req[i].outcome
    BY <2>1, <2>2 DEF Ends, SameAttempt, Matches
  <2>4. \/ (LookUp(i) \/ ReplayTx(i)) /\ Replayable(req[i])
        \/ FinalizeTx(i) \/ CompleteTx(i)
    BY <2>2 DEF Ends, ReplayTx
  <2> QED
    BY <2>1, <2>3, <2>4, EndsStored
<1> QED
  BY <1>1, <1>2, <1>3, ProcessSteps DEF ProcessStep

\* A worker that was told its result is accepted relies on rows that stay: the
\* first answer, a replay by finalizeResult or complete, and a second copy's
\* answer all come from what is stored.
THEOREM AcceptedIsDurable == Spec => []AcknowledgedIsDurable
<1> DEFINE Inv == /\ Typed /\ ResultSettledOnce /\ Links
                  /\ \A w \in Workers : Durable(w)
<1>1. Init => Inv
  BY TypedInit, SettledInit, LinksInit DEF Init, Durable, Idle
<1>2. Inv /\ [Next]_vars => Inv'
  BY TypedNext, SettledNext, LinksNext, DurableNext
<1>3. Inv => AcknowledgedIsDurable
  BY DEF AcknowledgedIsDurable, Durable, Stored
<1> QED
  BY <1>1, <1>2, <1>3, PTL DEF Spec

-----------------------------------------------------------------------------
(* A prepared result stays bound to the lease it was prepared under. *)

\* Worker w at work has the revision and the lease of its attempt, unless a
\* heartbeat is on its way or the attempt is over.
InStep(w) == AtWork(wk[w]) =>
    LET row == attempt[wk[w].at]
    IN /\ wk[w].at \in Attempts
       /\ row.state # "CLAIMED"
       /\ wk[w].beat = "off" /\ Active(row) => row.revision = wk[w].rev /\ row.lease = wk[w].lease

\* A heartbeat that w has given up on carries a revision that is gone.
BeatIsOld(w, r) ==
    r.op = "heartbeat" /\ r.w = w /\ r.at = wk[w].at /\ r.at \in Attempts =>
        r.rev <= wk[w].rev /\ (wk[w].beat = "off" => r.rev < wk[w].rev)
BeatsAreOld == \A w \in Workers, k \in Slots : BeatIsOld(w, req[k])

\* Authorization showed a prepare that w waits for the lease w knows of.
SeenAsTold ==
    \A k \in Slots : req[k].open /\ req[k].op = "prepare" /\ req[k].phase = "authorized" =>
        req[k].seen.lease = wk[req[k].w].lease

PreparedRow(w) == wk[w].pc = "prepared" =>
    /\ prep[wk[w].at].made
    /\ prep[wk[w].at].lease = wk[w].bound
    /\ wk[w].bound = wk[w].lease

\* A transaction that holds the lease for a request of w that it waits for.
LEMMA HeldRevision ==
    ASSUME Typed, Links, NEW i \in Slots, req[i].open, ClaimTx(i) \/ HeartbeatTx(i)
    PROVE  /\ req[i].at \in Attempts /\ attempt[req[i].at] \in AttemptRow
           /\ attempt[req[i].at].revision = wk[req[i].w].rev
           /\ req[i].at = wk[req[i].w].at
<1>1. PICK now : HoldsLease(req[i], now)
  BY DEF ClaimTx, ClaimPermitted, HeartbeatTx, HeartbeatPermitted
<1>2. req[i].at \in Attempts /\ attempt[req[i].at] \in AttemptRow
  BY <1>1, HolderType DEF Typed
<1> QED
  BY <1>1, <1>2 DEF HoldsLease, Links, Matches

LEMMA BeatsAreOldNext ==
    ASSUME Typed, Links, JobMatchesAttempts, Named, BeatsAreOld, [Next]_vars
    PROVE  BeatsAreOld'
<1> SUFFICES ASSUME NEW w \in Workers, NEW k \in Slots,
                    req'[k].op = "heartbeat", req'[k].w = w, req'[k].at = wk'[w].at,
                    req'[k].at \in Attempts
             PROVE  /\ req'[k].rev <= wk'[w].rev
                    /\ wk'[w].beat = "off" => req'[k].rev < wk'[w].rev
  BY DEF BeatsAreOld, BeatIsOld
<1> DEFINE p == wk[w]
           q == wk'[w]
           r == req[k]
<1>0. p \in Process /\ q \in Process /\ p.rev \in Nat /\ q.rev \in Nat
  <2>1. p \in Process /\ q \in Process
    BY TypedNext DEF Typed, TypeOK
  <2> QED
    BY <2>1 DEF Process
<1>1. CASE req'[k].open
  BY <1>0, <1>1, LinksNext DEF Links, Matches
<1>2. CASE ~req'[k].open
  <2>1. /\ r \in Request /\ req'[k].rev = r.rev /\ req'[k].at = r.at
        /\ r.w = w /\ r.op = "heartbeat" /\ r.rev \in Nat
    BY <1>2, RequestSteps DEF RequestStep, NoRequest, Request
  <2>2. r.at = p.at => r.rev <= p.rev /\ (p.beat = "off" => r.rev < p.rev)
    BY <2>1 DEF BeatsAreOld, BeatIsOld
  <2>3. CASE Steady(p, q)
    BY <2>1, <2>2, <2>3 DEF Steady, SameAttempt
  <2>4. ASSUME NEW e \in Nat, q = Idle(e) PROVE FALSE
    BY <2>4 DEF Idle, NoAttempt, Attempts
  <2>5. ASSUME NEW i \in Slots, req[i].w = w, AnswersTo(i, p, q)
        PROVE  r.rev <= q.rev /\ (q.beat = "off" => r.rev < q.rev)
    <3>0. req[i].open
      BY <2>5 DEF AnswersTo
    <3>1. ~Leases(i, q)
      BY <2>1, FreshLease DEF Named
    <3>2. CASE Starts(i, p, q)
      <4>1. /\ p.at \in Attempts /\ attempt[p.at] \in AttemptRow
            /\ attempt[p.at].revision = p.rev /\ req[i].at = p.at
        BY <2>5, <3>0, <3>2, HeldRevision DEF Starts
      <4>2. attempt'[p.at] = Started(attempt[p.at])
        BY <3>2, <4>1 DEF Starts, ClaimTx, Typed, TypeOK
      <4>3. q.rev = p.rev \/ q.rev = p.rev + 1
        BY <3>2, <4>1, <4>2 DEF Starts, Started, AttemptRow
      <4>4. r.at = p.at /\ p.beat = "off"
        BY <2>1, <3>2 DEF Starts
      <4> QED
        BY <1>0, <2>1, <2>2, <4>3, <4>4
    <3>3. CASE Extends(i, p, q)
      <4>1. /\ p.at \in Attempts /\ attempt[p.at] \in AttemptRow
            /\ attempt[p.at].revision = p.rev /\ req[i].at = p.at
        BY <2>5, <3>0, <3>3, HeldRevision DEF Extends
      <4>2. attempt'[p.at] = Renewed(attempt[p.at], req[i].lease)
        BY <3>3, <4>1 DEF Extends, HeartbeatTx, Typed, TypeOK
      <4>3. q.rev = p.rev + 1
        BY <3>3, <4>1, <4>2 DEF Extends, Renewed, AttemptRow
      <4>4. r.at = p.at
        BY <2>1, <3>3 DEF Extends
      <4> QED
        BY <1>0, <2>1, <2>2, <4>3, <4>4
    <3>4. CASE Prepares(i, p, q) \/ Ends(i, p, q)
      BY <2>1, <2>2, <3>4 DEF Prepares, Ends, SameAttempt
    <3> QED
      BY <2>5, <3>1, <3>2, <3>3, <3>4 DEF AnswersTo
  <2> QED
    BY <2>1, <2>3, <2>4, <2>5, ProcessSteps DEF ProcessStep
<1> QED
  BY <1>1, <1>2

\* The attempt of a worker at work changes under it only by ending.
LEMMA UndisturbedAtWork ==
    ASSUME Typed, JobMatchesAttempts, BeatsAreOld, [Next]_vars, NEW w \in Workers,
           Told(w), InStep(w), AtWork(wk[w])
    PROVE  LET row == attempt'[wk[w].at]
           IN /\ wk[w].at \in Attempts
              /\ row.state # "CLAIMED"
              /\ wk[w].beat = "off" /\ Active(row) =>
                     row.revision = wk[w].rev /\ row.lease = wk[w].lease
<1> DEFINE p == wk[w]
           a == wk[w].at
<1>1. /\ a \in Attempts /\ attempt[a].state # "CLAIMED"
      /\ p.beat = "off" /\ Active(attempt[a]) => attempt[a].revision = p.rev /\ attempt[a].lease = p.lease
  BY DEF InStep
<1>2. attempt[a] # NoRow /\ attempt[a].worker = w /\ attempt[a] \in AttemptRow
  BY <1>1 DEF Told, Typed, TypeOK
<1>3. Grows(attempt[a], attempt'[a]) /\ RowStep(a)
  BY <1>1, <1>2, RowsGrow, RowSteps
<1>4. ASSUME p.beat = "off", Active(attempt'[a]) PROVE attempt'[a] = attempt[a]
  <2>1. Active(attempt[a]) /\ attempt[a].revision = p.rev /\ attempt[a].state = "RUNNING"
    BY <1>1, <1>3, <1>4 DEF Grows, Active, ActiveStates
  <2>2. attempt'[a] # Lapsed(attempt[a])
    BY <1>2, <1>4 DEF Lapsed, AttemptRow, Active, ActiveStates
  <2>3. \A outcome \in Outcomes : attempt'[a] # Completed(attempt[a], outcome)
    BY <1>2, <1>4 DEF Completed, AttemptRow, Active, ActiveStates, Outcomes
  <2>4. Started(attempt[a]) = attempt[a]
    BY <2>1 DEF Started
  <2>5. ASSUME NEW i \in Slots, NEW now \in Nat, req[i].at = a, HoldsLease(req[i], now),
               HeartbeatTx(i)
        PROVE  FALSE
    <3>1. req[i].op = "heartbeat" /\ req[i].w = w /\ req[i].rev = p.rev
      BY <1>2, <2>1, <2>5 DEF HoldsLease, HeartbeatTx, InTransaction
    <3>2. p.rev \in Nat
      BY DEF Typed, TypeOK, Process
    <3> QED
      BY <1>1, <1>4, <2>5, <3>1, <3>2 DEF BeatsAreOld, BeatIsOld
  <2> QED
    BY <1>3, <2>2, <2>3, <2>4, <2>5 DEF RowStep
<1>5. attempt'[a].state # "CLAIMED"
  BY <1>1, <1>3 DEF Grows
<1> QED
  BY <1>1, <1>4, <1>5

LEMMA InStepNext ==
    ASSUME Typed, Links, JobMatchesAttempts, BeatsAreOld, [Next]_vars, NEW w \in Workers,
           Told(w), InStep(w)
    PROVE  InStep(w)'
<1> DEFINE p == wk[w]
           q == wk'[w]
<1> SUFFICES ASSUME AtWork(q)
             PROVE  /\ q.at \in Attempts
                    /\ attempt'[q.at].state # "CLAIMED"
                    /\ q.beat = "off" /\ Active(attempt'[q.at]) =>
                           /\ attempt'[q.at].revision = q.rev
                           /\ attempt'[q.at].lease = q.lease
  BY DEF InStep, AtWork
<1>1. CASE Steady(p, q)
  BY <1>1, UndisturbedAtWork DEF Steady, SameAttempt
<1>2. ASSUME NEW e \in Nat, q = Idle(e) PROVE FALSE
  BY <1>2 DEF Idle, AtWork
<1>3. ASSUME NEW i \in Slots, req[i].w = w, AnswersTo(i, p, q)
      PROVE  /\ q.at \in Attempts
             /\ attempt'[q.at].state # "CLAIMED"
             /\ q.beat = "off" /\ Active(attempt'[q.at]) =>
                    /\ attempt'[q.at].revision = q.rev
                    /\ attempt'[q.at].lease = q.lease
  <2>0. req[i].open
    BY <1>3 DEF AnswersTo
  <2>1. ~Leases(i, q) /\ ~Ends(i, p, q)
    BY DEF Leases, Ends, AtWork
  <2>2. CASE Starts(i, p, q)
    <3>1. p.at \in Attempts /\ attempt[p.at] \in AttemptRow /\ req[i].at = p.at
      BY <1>3, <2>0, <2>2, HeldRevision DEF Starts
    <3>2. attempt'[p.at] = Started(attempt[p.at])
      BY <2>2, <3>1 DEF Starts, ClaimTx, Typed, TypeOK
    <3>3. attempt'[p.at].state = "RUNNING"
      BY <3>1, <3>2 DEF Started, AttemptRow
    <3> QED
      BY <2>2, <3>1, <3>3 DEF Starts
  <2>3. CASE Extends(i, p, q)
    <3>1. AtWork(p)
      BY <2>3 DEF Extends, AtWork
    <3> QED
      BY <2>3, <3>1, UndisturbedAtWork DEF Extends
  <2>4. CASE Prepares(i, p, q)
    BY <2>4, UndisturbedAtWork DEF Prepares
  <2> QED
    BY <1>3, <2>1, <2>2, <2>3, <2>4 DEF AnswersTo
<1> QED
  BY <1>1, <1>2, <1>3, ProcessSteps DEF ProcessStep

LEMMA SeenAsToldNext ==
    ASSUME Typed, Links, (\A w \in Workers : InStep(w)), SeenAsTold, [Next]_vars
    PROVE  SeenAsTold'
<1> SUFFICES ASSUME NEW k \in Slots,
                    req'[k].open, req'[k].op = "prepare", req'[k].phase = "authorized"
             PROVE  req'[k].seen.lease = wk'[req'[k].w].lease
  BY DEF SeenAsTold
<1>1. /\ req[k] \in Request /\ req'[k].w = req[k].w /\ req[k].op = "prepare"
      /\ req[k].open
      /\ \/ req[k].phase = "authorized" /\ req'[k].seen = req[k].seen
         \/ Authorize(k)
  BY RequestSteps DEF RequestStep, NoRequest
<1> DEFINE w == req[k].w
           p == wk[w]
           q == wk'[w]
<1>2. w \in Workers
  BY <1>1 DEF Request
<1>3. p.pc = "waiting" /\ p.op = "prepare" /\ p.beat = "off" /\ p.at = req[k].at
  BY <1>1, <1>2 DEF Links, Matches
<1>4. q.pc = "waiting"
  BY <1>1, LinksNext DEF Links, Matches
<1>5. CASE Authorize(k)
  <2>1. /\ req'[k] = [req[k] EXCEPT !.phase = "authorized", !.now = clock,
                                    !.seen = Snapshot(req[k].at)]
        /\ wk' = wk
    BY <1>1, <1>5 DEF Authorize, Typed, TypeOK
  <2>2. req'[k].seen.lease = attempt[req[k].at].lease
    BY <1>1, <2>1 DEF Snapshot, Request
  <2>3. HoldsLease(req[k], clock)
    BY <1>1, <1>5 DEF Authorize, Authorized
  <2>4. Active(attempt[p.at])
    BY <1>3, <2>3 DEF HoldsLease
  <2>5. attempt[p.at].lease = p.lease
    BY <1>2, <1>3, <2>4 DEF InStep, AtWork
  <2> QED
    BY <1>1, <1>3, <2>1, <2>2, <2>5
<1>6. CASE req[k].phase = "authorized" /\ req'[k].seen = req[k].seen
  <2>1. req'[k].seen.lease = p.lease
    BY <1>1, <1>6 DEF SeenAsTold
  <2>2. CASE Steady(p, q)
    BY <1>1, <2>1, <2>2 DEF Steady, SameAttempt
  <2>3. ASSUME NEW e \in Nat, q = Idle(e) PROVE FALSE
    BY <1>4, <2>3 DEF Idle
  <2>4. ASSUME NEW i \in Slots, AnswersTo(i, p, q) PROVE FALSE
    BY <1>3, <1>4, <2>4 DEF AnswersTo, Leases, Starts, Extends, Prepares, Ends
  <2> QED
    BY <1>2, <2>2, <2>3, <2>4, ProcessSteps DEF ProcessStep
<1> QED
  BY <1>1, <1>5, <1>6

\* A preparation is made once.
LEMMA PreparedOnce ==
    ASSUME Typed, [Next]_vars, NEW a \in Attempts, prep[a].made PROVE prep'[a] = prep[a]
<1>1. ASSUME NEW i \in Slots, PrepareTx(i) PROVE prep'[a] = prep[a]
  BY <1>1 DEF PrepareTx, Typed, TypeOK
<1> QED
  BY <1>1, BusySteps
  DEF rows, Promote, Admit, AssignTx, ClaimTx, HeartbeatTx, FinalizeTx, CompleteTx

LEMMA PreparedRowNext ==
    ASSUME Typed, Links, SeenAsTold, [Next]_vars, NEW w \in Workers,
           InStep(w), PreparedRow(w)
    PROVE  PreparedRow(w)'
<1> DEFINE p == wk[w]
           q == wk'[w]
<1> SUFFICES ASSUME q.pc = "prepared"
             PROVE  prep'[q.at].made /\ prep'[q.at].lease = q.bound /\ q.bound = q.lease
  BY DEF PreparedRow
<1>1. CASE Steady(p, q)
  <2>1. p.pc = "prepared" /\ SameAttempt(p, q)
    BY <1>1 DEF Steady
  <2>2. p.at \in Attempts /\ prep[p.at].made /\ prep[p.at].lease = p.bound /\ p.bound = p.lease
    BY <2>1 DEF PreparedRow, InStep, AtWork
  <2>3. prep'[p.at] = prep[p.at]
    BY <2>2, PreparedOnce
  <2> QED
    BY <2>1, <2>2, <2>3 DEF SameAttempt
<1>2. ASSUME NEW e \in Nat, q = Idle(e) PROVE FALSE
  BY <1>2 DEF Idle
<1>3. ASSUME NEW i \in Slots, req[i].w = w, AnswersTo(i, p, q)
      PROVE  prep'[q.at].made /\ prep'[q.at].lease = q.bound /\ q.bound = q.lease
  <2>1. req[i].open /\ Matches(req[i], p)
    BY <1>3 DEF AnswersTo, Links
  <2>2. ~Extends(i, p, q)
    BY DEF Extends
  <2>3. Prepares(i, p, q)
    BY <1>3, <2>2 DEF AnswersTo, Leases, Starts, Ends
  <2>4. p.at \in Attempts /\ req[i].at = p.at
    BY <2>1, <2>3 DEF Prepares, InStep, Matches
  <2>5. req[i].seen.lease = p.lease
    BY <1>3, <2>1, <2>3 DEF Prepares, PrepareTx, InTransaction, SeenAsTold
  <2>6. prep'[p.at].lease = req[i].seen.lease
    BY <2>3, <2>4 DEF Prepares, PrepareTx
  <2>7. prep'[p.at].made
    BY <2>3, <2>4 DEF Prepares, PrepareTx, Typed, TypeOK
  <2> QED
    BY <2>3, <2>5, <2>6, <2>7 DEF Prepares
<1> QED
  BY <1>1, <1>2, <1>3, ProcessSteps DEF ProcessStep

\* No heartbeat that is still in progress when the result is prepared changes
\* the attempt: it carries a revision that is gone.  run_result_v2 stops its
\* heartbeats before it prepares.
THEOREM PreparedKeepsItsLease == Spec => []PreparedStaysBound
<1> DEFINE Bound == /\ BeatsAreOld /\ SeenAsTold
                    /\ \A w \in Workers : InStep(w) /\ PreparedRow(w)
<1>1. Init => Bound
  BY DEF Init, BeatsAreOld, BeatIsOld, SeenAsTold, InStep, PreparedRow, AtWork, Idle, NoRequest
<1>2. HolderInvariant /\ Bound /\ [Next]_vars => Bound'
  BY BeatsAreOldNext, SeenAsToldNext, InStepNext, PreparedRowNext DEF HolderInvariant
<1>3. HolderInvariant /\ Bound => PreparedStaysBound
  <2> SUFFICES ASSUME HolderInvariant, Bound, NEW w \in Workers,
                      wk[w].pc = "prepared", Active(attempt[wk[w].at])
               PROVE  /\ attempt[wk[w].at].revision = wk[w].rev
                      /\ attempt[wk[w].at].lease = wk[w].bound
                      /\ prep[wk[w].at].made
                      /\ prep[wk[w].at].lease = wk[w].bound
    BY DEF PreparedStaysBound
  <2>1. wk[w].beat = "off"
    BY DEF HolderInvariant, Links, Typed, TypeOK, Process
  <2> QED
    BY <2>1 DEF InStep, AtWork, PreparedRow
<1> QED
  BY <1>1, <1>2, <1>3, AlwaysHolder, PTL DEF Spec

-----------------------------------------------------------------------------
(* The invariant that the refinement needs: rows of the right types that tell *)
(* one story, one settlement, and no request from the future.                 *)

ProtocolInvariant == Typed /\ JobMatchesAttempts /\ ResultSettledOnce /\ NotAhead

LEMMA InvariantHolds == Spec => []ProtocolInvariant
<1>1. Init => Typed /\ JobMatchesAttempts /\ ResultSettledOnce /\ NotAhead
  BY TypedInit, StoryInit, SettledInit, NotAheadInit
<1>2. Typed /\ JobMatchesAttempts /\ ResultSettledOnce /\ NotAhead /\ [Next]_vars
      => (Typed /\ JobMatchesAttempts /\ ResultSettledOnce /\ NotAhead)'
  BY TypedNext, StoryNext, SettledNext, NotAheadNext
<1> QED
  BY <1>1, <1>2, PTL DEF Spec, ProtocolInvariant

-----------------------------------------------------------------------------
(* Each step is a step of the contract. *)

cvars == <<clock, Phase, latest, Holder, Until, Charged>>

\* The phases of the states that the protocol uses.
LEMMA Phases ==
    /\ PhaseOf("NONE") = "unknown" /\ PhaseOf("CREATED") = "accepted"
    /\ PhaseOf("QUEUED") = "ready" /\ PhaseOf("DISPATCHED") = "held"
    /\ PhaseOf("RUNNING") = "held"
    /\ \A outcome \in Outcomes : PhaseOf(outcome) = outcome
BY DEF PhaseOf, WorkerJobStates, Outcomes

LEMMA ContractInit == Init => Contract!Init
<1> SUFFICES ASSUME Init PROVE Contract!Init
  OBVIOUS
<1>1. \A j \in Jobs : job[j].state = "NONE" /\ HolderRow(j) = NoRow /\ binding[j] = "NONE"
  BY DEF Init, NoJob, HolderRow
<1>2. Phase = [j \in Jobs |-> "unknown"]
  BY <1>1, Phases DEF Phase
<1>3. Holder = [j \in Jobs |-> Contract!Nobody] /\ Until = [j \in Jobs |-> 0]
  BY <1>1 DEF Holder, Until, NoRow, NoWorker, Contract!Nobody
<1>4. Charged = [j \in Jobs |-> FALSE]
  BY <1>1 DEF Charged
<1> QED
  BY <1>2, <1>3, <1>4 DEF Contract!Init, Init

\* A job that is not finished is not charged.
LEMMA NotCharged ==
    ASSUME ResultSettledOnce, NEW j \in Jobs, job[j].state \notin Terminal
    PROVE  binding[j] # "SETTLED"
BY DEF ResultSettledOnce, SettledOnce

\* What the rows of one job show to the contract does not change when they do not.
LEMMA ShownKept ==
    ASSUME TypeOK, UNCHANGED <<latest, attempt>>
    PROVE  UNCHANGED <<Holder, Until>>
BY DEF Holder, Until, HolderRow, Newest

LEMMA ContractQuiet == ASSUME UNCHANGED rows, UNCHANGED clock PROVE UNCHANGED cvars
BY DEF rows, cvars, Phase, Holder, Until, Charged, HolderRow, Newest

LEMMA ContractTick == ASSUME Typed, Tick PROVE Contract!Pass
<1>1. UNCHANGED <<Phase, latest, Holder, Until, Charged>>
  BY DEF Tick, rows, Phase, Holder, Until, Charged, HolderRow, Newest
<1>2. clock' = clock + 1
  BY DEF Tick
<1> QED
  BY <1>1, <1>2 DEF Contract!Pass

LEMMA ContractAdmit ==
    ASSUME Typed, ResultSettledOnce, NEW j \in Jobs, Admit(j) PROVE Contract!Accept(j)
<1>1. UNCHANGED <<clock, latest, Holder, Until>>
  BY DEF Admit, world, Holder, Until, HolderRow, Newest
<1>2. job[j].state = "NONE" /\ CreatedJob.state = "CREATED"
  BY DEF Admit, NoJob, CreatedJob
<1>3. /\ job' = [job EXCEPT ![j] = CreatedJob]
      /\ binding' = [binding EXCEPT ![j] = "PREPARED"]
  BY DEF Admit
<1>4. Phase[j] = "unknown"
  BY <1>2, Phases DEF Phase
<1>5. Phase' = [Phase EXCEPT ![j] = "accepted"]
  BY <1>2, <1>3, Phases DEF Phase, Typed, TypeOK
<1>6. binding[j] # "SETTLED"
  BY <1>2, NotCharged DEF Terminal
<1>7. Charged' = Charged
  BY <1>3, <1>6 DEF Charged, Typed, TypeOK
<1> QED
  BY <1>1, <1>4, <1>5, <1>7 DEF Contract!Accept

LEMMA ContractPromote ==
    ASSUME Typed, Promote PROVE \E S \in SUBSET Jobs : Contract!MakeReady(S)
<1> DEFINE queued == {j \in PendingBatch : job[j].state = "CREATED" /\ Accepts(job[j], "QUEUED")}
<1>1. queued \in SUBSET Jobs /\ \A j \in queued : job[j].state = "CREATED"
  BY DEF PendingBatch, Pending
<1>2. job' = [j \in Jobs |-> IF j \in queued THEN Moved(job[j], "QUEUED") ELSE job[j]]
  BY DEF Promote
<1>3. UNCHANGED <<clock, latest, Holder, Until, Charged>>
  BY DEF Promote, world, Holder, Until, Charged, HolderRow, Newest
<1> HIDE DEF queued
<1>4. \A j \in queued : Phase[j] = "accepted"
  BY <1>1, Phases DEF Phase
<1>5. Phase' = [j \in Jobs |-> IF j \in queued THEN "ready" ELSE Phase[j]]
  <2>1. \A j \in queued : job'[j].state = "QUEUED"
    BY <1>1, <1>2 DEF Moved
  <2>2. \A j \in Jobs \ queued : job'[j] = job[j]
    BY <1>2
  <2> QED
    BY <1>1, <2>1, <2>2, Phases DEF Phase
<1>6. Contract!MakeReady(queued)
  BY <1>3, <1>4, <1>5 DEF Contract!MakeReady
<1> QED
  BY <1>1, <1>6

\* Writing row to attempt a, the newest of its job, is seen as its holder and lease.
LEMMA ShownNewest ==
    ASSUME Typed, NEW a \in Attempts, a = Newest(a[1]), NEW row,
           attempt' = [attempt EXCEPT ![a] = row], latest' = latest,
           row.worker = attempt[a].worker
    PROVE  /\ Holder' = Holder
           /\ Until[a[1]] = attempt[a].lease
           /\ Until' = [Until EXCEPT ![a[1]] = row.lease]
<1>0. a[1] \in Jobs /\ latest[a[1]] # 0
  BY DEF Attempts, Newest
<1>1. HolderRow(a[1]) = attempt[a] /\ HolderRow(a[1])' = row
  BY <1>0 DEF HolderRow, Newest, Typed, TypeOK
<1>2. ASSUME NEW j \in Jobs, j # a[1] PROVE HolderRow(j)' = HolderRow(j)
  <2>1. latest[j] # 0 => Newest(j) \in Attempts /\ Newest(j) # a
    BY <1>2 DEF Newest, Attempts, Typed, TypeOK
  <2>2. Newest(j)' = Newest(j)
    BY DEF Newest
  <2> QED
    BY <2>1, <2>2 DEF HolderRow, Typed, TypeOK
<1>3. Holder' = Holder
  BY <1>1, <1>2 DEF Holder
<1>4. Until[a[1]] = attempt[a].lease
  BY <1>0, <1>1 DEF Until
<1>5. Until' = [Until EXCEPT ![a[1]] = row.lease]
  BY <1>0, <1>1, <1>2 DEF Until
<1> QED
  BY <1>3, <1>4, <1>5

\* A started or renewed attempt stays with its worker.
LEMMA HolderStays ==
    ASSUME NEW row \in AttemptRow
    PROVE  /\ Started(row).worker = row.worker /\ Started(row).lease = row.lease
           /\ \A lease : Renewed(row, lease).worker = row.worker /\ Renewed(row, lease).lease = lease
           /\ \A outcome : /\ Completed(row, outcome).worker = row.worker
                           /\ Completed(row, outcome).lease = row.lease
<1>1. row = [state |-> row.state, worker |-> row.worker, lease |-> row.lease,
             revision |-> row.revision]
  BY DEF AttemptRow
<1>2. Started(row).worker = row.worker /\ Started(row).lease = row.lease
  BY <1>1, Zenon DEF Started
<1>3. \A lease : Renewed(row, lease).worker = row.worker /\ Renewed(row, lease).lease = lease
  BY <1>1, Zenon DEF Renewed
<1>4. \A outcome : /\ Completed(row, outcome).worker = row.worker
                   /\ Completed(row, outcome).lease = row.lease
  BY <1>1, Zenon DEF Completed
<1> QED
  BY <1>2, <1>3, <1>4

LEMMA ContractClaim == ASSUME Typed, NEW i \in Slots, ClaimTx(i) PROVE UNCHANGED cvars
<1> DEFINE a == req[i].at
<1>1. PICK now : HoldsLease(req[i], now)
  BY DEF ClaimTx, ClaimPermitted
<1>2. a \in Attempts /\ a = Newest(a[1]) /\ attempt[a] \in AttemptRow /\ a[1] \in Jobs
  BY <1>1, HolderType DEF HoldsLease, Typed
<1>3. /\ Started(attempt[a]).worker = attempt[a].worker
      /\ Started(attempt[a]).lease = attempt[a].lease
  BY <1>2, HolderStays
<1>4. PICK row : /\ attempt' = [attempt EXCEPT ![a] = row] /\ latest' = latest
                 /\ row.worker = attempt[a].worker /\ row.lease = attempt[a].lease
  BY <1>3 DEF ClaimTx
<1>5. /\ Holder' = Holder
      /\ Until[a[1]] = attempt[a].lease
      /\ Until' = [Until EXCEPT ![a[1]] = row.lease]
  BY <1>2, <1>4, ShownNewest
<1>6. Until' = Until
  BY <1>2, <1>4, <1>5 DEF Until
<1>7. UNCHANGED <<clock, Phase, Charged>>
  BY DEF ClaimTx, world, Phase, Charged
<1> QED
  BY <1>4, <1>5, <1>6, <1>7 DEF cvars

LEMMA ContractHeartbeat ==
    ASSUME Typed, JobMatchesAttempts, NEW i \in Slots, HeartbeatTx(i)
    PROVE  \E j \in Jobs : Contract!Extend(j)
<1> DEFINE a == req[i].at
           next == req[i].lease
<1>1. PICK now : HoldsLease(req[i], now) /\ CanRenew(attempt[a], now, next)
  BY DEF HeartbeatTx, HeartbeatPermitted
<1>2. /\ a \in Attempts /\ a = Newest(a[1]) /\ attempt[a] \in AttemptRow /\ a[1] \in Jobs
      /\ job[a[1]].state \in WorkerJobStates /\ next > attempt[a].lease /\ next \in Nat
  BY <1>1, HolderType, TransactionType DEF HoldsLease, CanRenew, Typed, HeartbeatTx, Request
<1>3. Renewed(attempt[a], next).worker = attempt[a].worker /\ Renewed(attempt[a], next).lease = next
  BY <1>2, HolderStays
<1>4. PICK row : /\ attempt' = [attempt EXCEPT ![a] = row] /\ latest' = latest
                 /\ row.worker = attempt[a].worker /\ row.lease = next
  BY <1>3 DEF HeartbeatTx
<1>5. /\ Holder' = Holder
      /\ Until[a[1]] = attempt[a].lease
      /\ Until' = [Until EXCEPT ![a[1]] = row.lease]
  BY <1>2, <1>4, ShownNewest
<1>6. Until'[a[1]] = next /\ Until' = [Until EXCEPT ![a[1]] = Until'[a[1]]]
  BY <1>2, <1>4, <1>5 DEF Until
<1>7. UNCHANGED <<clock, Phase, Charged>>
  BY DEF HeartbeatTx, world, Phase, Charged
<1>8. Phase[a[1]] = "held"
  BY <1>2, Phases DEF Phase, WorkerJobStates
<1> HIDE DEF next
<1>9. Contract!Extend(a[1])
  BY <1>2, <1>4, <1>5, <1>6, <1>7, <1>8 DEF Contract!Extend
<1> QED
  BY <1>2, <1>9

LEMMA ContractAssign ==
    ASSUME Typed, JobMatchesAttempts, NotAhead, NEW i \in Slots, AssignTx(i)
    PROVE  \E j \in Jobs, w \in Workers : Contract!Lease(j, w)
<1> DEFINE now == req[i].now
           w == req[i].w
<1>0. now \in Nat /\ w \in Workers /\ now <= clock /\ clock \in Nat
  BY TransactionType, BoundsAssumption DEF AssignTx, Request, NotAhead, Typed, TypeOK
<1>1. PICK j \in Candidates(now) : Leased(i, j)
  BY AssignLeases
<1> DEFINE fresh == <<j, latest[j] + 1>>
           lease == now + LeaseTerm
<1>2. j \in Jobs /\ latest[j] \in 0..MaxAttempts /\ latest[j] < MaxAttempts /\ OneStory(j)
  BY <1>1, CandidateType DEF Leased, Assignable, Typed, TypeOK, JobMatchesAttempts
<1>3. fresh \in Attempts /\ latest' = [latest EXCEPT ![j] = @ + 1] /\ lease \in Nat
  BY <1>0, <1>1, <1>2, LimitsAssumption DEF Leased, Attempts
<1>4. attempt'[fresh] = ClaimedAttempt(w, lease) /\ latest'[j] = latest[j] + 1
  BY <1>1, <1>2, <1>3 DEF Leased, Typed, TypeOK
<1>5. HolderRow(j)' = ClaimedAttempt(w, lease)
  BY <1>2, <1>4 DEF HolderRow, Newest
<1>6. HolderRow(j)'.worker = w /\ HolderRow(j)'.lease = lease
  BY <1>5 DEF ClaimedAttempt
<1>7. ASSUME NEW k \in Jobs, k # j PROVE HolderRow(k)' = HolderRow(k)
  <2>1. latest'[k] = latest[k] /\ latest[k] \in 0..MaxAttempts
    BY <1>3, <1>7 DEF Typed, TypeOK
  <2>2. latest[k] # 0 => attempt'[<<k, latest[k]>>] = attempt[<<k, latest[k]>>]
    BY <1>1, <1>7, <2>1 DEF Leased, Attempts, Newest
  <2> QED
    BY <2>1, <2>2 DEF HolderRow, Newest
<1>8. Holder' = [Holder EXCEPT ![j] = w]
  BY <1>2, <1>6, <1>7 DEF Holder
<1>9. Until'[j] \in Nat /\ Until' = [Until EXCEPT ![j] = Until'[j]]
  BY <1>2, <1>3, <1>6, <1>7 DEF Until
<1>10. UNCHANGED <<clock, Charged>>
  BY DEF AssignTx, world, Charged
<1>11. CASE job[j].state = "QUEUED"
  <2>1. job'[j].state = "DISPATCHED" /\ \A k \in Jobs : k # j => job'[k] = job[k]
    BY <1>1, <1>2, <1>11 DEF Leased, Moved, Typed, TypeOK
  <2>2. Phase[j] = "ready" /\ Phase' = [Phase EXCEPT ![j] = "held"]
    BY <1>2, <1>11, <2>1, Phases DEF Phase
  <2>3. Contract!Lease(j, w)
    BY <1>2, <1>3, <1>8, <1>9, <1>10, <2>2 DEF Contract!Lease
  <2> QED
    BY <1>0, <1>2, <2>3
<1>12. CASE job[j].state # "QUEUED"
  <2>1. /\ Newest(j) \in Attempts /\ attempt[Newest(j)].lease < now
        /\ job[j].state \in WorkerJobStates /\ job' = job
    BY <1>1, <1>12, CandidateType DEF CanExpire, Leased, Typed
  <2>2. latest[j] # 0 /\ attempt[Newest(j)].lease \in Nat
    BY <1>2, <2>1 DEF Attempts, Newest, Typed, TypeOK, AttemptRow, NoRow
  <2>3. Until[j] < clock
    BY <1>0, <1>2, <2>1, <2>2 DEF Until, HolderRow
  <2>4. Phase[j] = "held" /\ Phase' = [Phase EXCEPT ![j] = "held"]
    BY <1>2, <2>1, Phases DEF Phase, WorkerJobStates
  <2>5. Contract!Lease(j, w)
    BY <1>2, <1>3, <1>8, <1>9, <1>10, <2>3, <2>4 DEF Contract!Lease
  <2> QED
    BY <1>0, <1>2, <2>5
<1> QED
  BY <1>11, <1>12

\* The transition table lets a running job succeed or fail, and nothing else that
\* a worker may report.
LEMMA ClosingOutcome ==
    ASSUME NEW j \in Jobs, job[j] \in JobRow, job[j].state \in WorkerJobStates,
           NEW outcome \in Outcomes, Closing(j, outcome).accepted
    PROVE  outcome \in {"SUCCEEDED", "FAILED"}
<1> DEFINE running == IF job[j].state = "DISPATCHED" THEN Moved(job[j], "RUNNING") ELSE job[j]
<1>1. running.state = "RUNNING"
  BY DEF Moved, WorkerJobStates
<1>2. <<running.state, outcome>> \in Transitions
  BY DEF Closing, Accepts
<1> HIDE DEF running
<1> QED
  BY <1>1, <1>2 DEF Transitions, Outcomes

LEMMA ContractClose ==
    ASSUME Typed, JobMatchesAttempts, ResultSettledOnce,
           NEW i \in Slots, FinalizeTx(i) \/ CompleteTx(i)
    PROVE  \E j \in Jobs, outcome \in {"SUCCEEDED", "FAILED"}, charge \in BOOLEAN :
              Contract!Settle(j, outcome, charge)
<1> DEFINE a == req[i].at
           j == a[1]
<1>1. PICK now : HoldsLease(req[i], now)
  BY DEF FinalizeTx, CompleteTx, FinalizePermitted, CompletePermitted
<1>2. PICK outcome \in Outcomes : /\ CloseJob(a, outcome)
                                  /\ Closing(j, outcome).accepted
                                  /\ FinalizeTx(i) => outcome = "SUCCEEDED"
  BY DEF FinalizeTx, CompleteTx, FinalizePermitted, CompletePermitted, CanComplete,
         Outcomes, InTransaction
<1>3. /\ a \in Attempts /\ a = Newest(j) /\ j \in Jobs /\ job[j] \in JobRow
      /\ attempt[a] \in AttemptRow /\ job[j].state \in WorkerJobStates
  BY <1>1, HolderType DEF HoldsLease, Typed
<1>4. outcome \in {"SUCCEEDED", "FAILED"}
  BY <1>2, <1>3, ClosingOutcome
<1>5. PICK row : /\ attempt' = [attempt EXCEPT ![a] = row] /\ latest' = latest
                 /\ row.worker = attempt[a].worker /\ row.lease = attempt[a].lease
  <2>1. attempt' = [attempt EXCEPT ![a] = Completed(attempt[a], outcome)] /\ latest' = latest
    BY <1>2 DEF CloseJob, FinalizeTx, CompleteTx
  <2>2. /\ Completed(attempt[a], outcome).worker = attempt[a].worker
        /\ Completed(attempt[a], outcome).lease = attempt[a].lease
    BY <1>3, HolderStays
  <2> QED
    BY <2>1, <2>2
<1>6. /\ Holder' = Holder
      /\ Until[a[1]] = attempt[a].lease
      /\ Until' = [Until EXCEPT ![a[1]] = row.lease]
  BY <1>3, <1>5, ShownNewest
<1>7. Until' = Until
  BY <1>3, <1>5, <1>6 DEF Until
<1>8. clock' = clock
  BY DEF FinalizeTx, CompleteTx, world
<1>9. job' = [job EXCEPT ![j] = Closing(j, outcome).job] /\ Closing(j, outcome).job.state = outcome
  BY <1>2, <1>3, ClosingType DEF CloseJob
<1>10. Phase[j] = "held" /\ Phase' = [Phase EXCEPT ![j] = outcome]
  <2>1. job'[j].state = outcome /\ \A k \in Jobs : k # j => job'[k] = job[k]
    BY <1>3, <1>9 DEF Typed, TypeOK
  <2> QED
    BY <1>3, <2>1, Phases DEF Phase, WorkerJobStates
<1>11. binding[j] # "SETTLED"
  BY <1>3, NotCharged DEF WorkerJobStates, Terminal
<1>12. \/ Charged' = [Charged EXCEPT ![j] = TRUE] /\ outcome = "SUCCEEDED"
       \/ Charged' = [Charged EXCEPT ![j] = FALSE]
  <2>1. CASE FinalizeTx(i)
    <3>1. binding' = [binding EXCEPT ![j] = "SETTLED"]
      BY <2>1 DEF FinalizeTx
    <3> QED
      BY <1>2, <1>3, <2>1, <3>1 DEF Charged, Typed, TypeOK
  <2>2. CASE CompleteTx(i)
    <3>1. binding' = binding
      BY <2>2 DEF CompleteTx
    <3> QED
      BY <1>3, <1>11, <3>1 DEF Charged
  <2> QED
    BY <2>1, <2>2
<1>13. \E charge \in BOOLEAN : Contract!Settle(j, outcome, charge)
  BY <1>3, <1>5, <1>6, <1>7, <1>8, <1>10, <1>12 DEF Contract!Settle
<1> QED
  BY <1>3, <1>4, <1>13

LEMMA ContractNext ==
    ASSUME Typed, JobMatchesAttempts, ResultSettledOnce, NotAhead, [Next]_vars
    PROVE  [Contract!Next]_cvars
<1>1. CASE UNCHANGED rows
  <2>1. CASE UNCHANGED clock
    BY <1>1, <2>1, ContractQuiet
  <2>2. CASE clock' = clock + 1
    <3>1. UNCHANGED <<Phase, latest, Holder, Until, Charged>>
      BY <1>1 DEF rows, Phase, Holder, Until, Charged, HolderRow, Newest
    <3>2. Contract!Pass
      BY <2>2, <3>1 DEF Contract!Pass
    <3> QED
      BY <3>2 DEF Contract!Next
  <2> QED
    BY <2>1, <2>2, ClockNext
<1>2. CASE Promote
  BY <1>2, ContractPromote DEF Contract!Next
<1>3. CASE \E j \in Jobs : Admit(j)
  BY <1>3, ContractAdmit DEF Contract!Next
<1>4. ASSUME NEW i \in Slots, AssignTx(i) PROVE Contract!Next
  BY <1>4, ContractAssign DEF Contract!Next
<1>5. ASSUME NEW i \in Slots, ClaimTx(i) PROVE UNCHANGED cvars
  BY <1>5, ContractClaim
<1>6. ASSUME NEW i \in Slots, HeartbeatTx(i) PROVE Contract!Next
  BY <1>6, ContractHeartbeat DEF Contract!Next
<1>7. ASSUME NEW i \in Slots, PrepareTx(i) PROVE UNCHANGED cvars
  BY <1>7 DEF PrepareTx, world, cvars, Phase, Holder, Until, Charged, HolderRow, Newest
<1>8. ASSUME NEW i \in Slots, FinalizeTx(i) \/ CompleteTx(i) PROVE Contract!Next
  BY <1>8, ContractClose DEF Contract!Next
<1> QED
  BY <1>1, <1>2, <1>3, <1>4, <1>5, <1>6, <1>7, <1>8, BusySteps

\* The worker protocol implements the contract: one holder at a time under a
\* lease that passes on only after it ran out, one settlement, charged only with
\* an accepted result, whatever requests, retries, clocks and crashes do.
THEOREM ProtocolImplementsContract == Spec => ImplementsContract
<1>1. Init => Contract!Init
  BY ContractInit
<1>2. ProtocolInvariant /\ [Next]_vars => [Contract!Next]_(Contract!cvars)
  BY ContractNext DEF ProtocolInvariant, cvars, Contract!cvars
<1> QED
  BY <1>1, <1>2, InvariantHolds, PTL DEF Spec, ImplementsContract, Contract!Spec
=============================================================================
