----------------------------- MODULE WorkerLease -----------------------------
(***************************************************************************)
(* The core of JRA: how an admitted job reaches a cloud worker, how the    *)
(* worker holds it under a lease, and how its one result is accepted.      *)
(*                                                                         *)
(*   - the rows of PostgreSQL: jobs and their transition log, the JOB_READY*)
(*     dispatch record, execution attempts, result preparations, result    *)
(*     finalizations, worker completions, and the BUA settlement binding;  *)
(*   - the service accounts' current secret version (the security epoch);  *)
(*   - the worker processes (services/engine, worker_client.py);           *)
(*   - the HTTP requests between them.                                     *)
(*                                                                         *)
(* A request is handled in several steps, with an await between them: the  *)
(* boundary looks for a replay, reads an authorization snapshot, and only  *)
(* then opens the Serializable transaction that re-reads and writes.  Each *)
(* such piece is an action here, so every other request, the clock and the *)
(* worker may move in between.  The client may time out at any point and   *)
(* send the same request again while the first copy is still in progress.  *)
(***************************************************************************)
EXTENDS Naturals, Sequences, FiniteSets, JobDomain

CONSTANTS
    Jobs,           \* job numbers; the order of the numbers is that of createdAt
    Workers,        \* service accounts; each runs one worker process
    MaxAttempts,    \* action.maxAttempts
    LeaseTerm,      \* the 60 s of a first lease and of one heartbeat extension
    MaxLease,       \* MAX_LEASE_SECONDS, the longest lease a heartbeat may ask for
    Deadline,       \* descriptor.deadline of each job
    BindingExpiry,  \* expiresAt of each job's BUA settlement binding
    BillingJobs,    \* jobs whose action has sideEffectClass BILLING_PROVIDER_EFFECT
    PromoteLimit,   \* the limit passed to ReadyJobQueueService.promote
    MaxRetries,     \* MAX_RETRIES of the worker client
    Reports,        \* outcomes that processes report with complete (run); a process
                    \* of run_result_v2 reports none and only finalizes results
    MaxClock,       \* bound: the clock stops there
    MaxEpoch,       \* bound on secret rotations
    Slots           \* bound: one slot for each request the API handles at a time

ASSUME JobsAssumption == Jobs \subseteq Nat \ {0}
ASSUME LimitsAssumption ==
    /\ MaxAttempts \in 1..20
    /\ LeaseTerm \in Nat \ {0}
    /\ MaxLease \in Nat
    /\ LeaseTerm <= MaxLease
    /\ PromoteLimit \in 1..100
    /\ MaxRetries \in Nat
ASSUME BoundsAssumption == MaxClock \in Nat /\ MaxEpoch \in Nat \ {0}
ASSUME JobDataAssumption ==
    /\ Deadline \in [Jobs -> Nat]
    /\ BindingExpiry \in [Jobs -> Nat]
    /\ BillingJobs \subseteq Jobs
    /\ Reports \subseteq Outcomes

VARIABLES
    clock,      \* the control plane's wall clock
    epoch,      \* current secretVersion of each service account
    job,        \* job rows
    log,        \* job_transitions rows of each job, in insertion order
    ready,      \* the JOB_READY dispatch record of each job
    latest,     \* number of attempt rows of each job: the highest attemptNumber
    attempt,    \* execution attempt rows
    prep,       \* worker_result_preparations rows, one per attempt at most
    fin,        \* worker_result_finalizations (and manifest) rows
    comp,       \* worker_completions rows
    binding,    \* the BUA settlement binding with its usage reservation
    wk,         \* worker processes
    req         \* the request in each slot

vars == <<clock, epoch, job, log, ready, latest, attempt, prep, fin, comp, binding, wk, req>>

-----------------------------------------------------------------------------
(* Rows *)

Attempts == Jobs \X (1..MaxAttempts)
NoAttempt == <<0, 0>>
Newest(j) == <<j, latest[j]>>

NoWorker == "none"
NoRow == [state |-> "NONE", worker |-> NoWorker, lease |-> 0, revision |-> 0]
NoJob == [state |-> "NONE", revision |-> 0, started |-> FALSE, finished |-> FALSE]
NoPrep == [made |-> FALSE, epoch |-> 0, rev |-> 0, lease |-> 0]
NoFin  == [made |-> FALSE, epoch |-> 0, lease |-> 0]
NoComp == [made |-> FALSE, epoch |-> 0, rev |-> 0, outcome |-> "NONE"]

AttemptRow == [state : AttemptStates, worker : Workers, lease : Nat, revision : Nat]
PrepRow == [made : BOOLEAN, epoch : Nat, rev : Nat, lease : Nat]
FinRow  == [made : BOOLEAN, epoch : Nat, lease : Nat]
CompRow == [made : BOOLEAN, epoch : Nat, rev : Nat, outcome : Outcomes \cup {"NONE"}]
LogRow  == [from : JobStates, to : JobStates, revision : Nat]

\* WORKER_JOB_STATES
WorkerJobStates == {"DISPATCHED", "RUNNING"}

-----------------------------------------------------------------------------
(* Worker processes and requests *)

\* Requests that look for a stored answer before they authorize.
ReplayOps == {"finalize", "complete"}
MainOps == {"assign", "claim", "prepare"} \cup ReplayOps
Ops == MainOps \cup {"heartbeat"}

\* What the worker may call, and from where.
Calls == {<<"idle", "assign">>, <<"assigned", "claim">>, <<"running", "prepare">>,
          <<"running", "complete">>, <<"prepared", "finalize">>}

\* A process: the attempt it works on, with the revision, the expiry and the
\* lease that the binding hash covers, all as last answered; the call it waits
\* for; and the heartbeat thread with the expiry it last asked for.
Process ==
    {p \in [pc : {"idle", "waiting", "assigned", "running", "prepared", "done", "refused"},
            op : MainOps \cup {"none"}, outcome : Outcomes \cup {"NONE"},
            at : Attempts \cup {NoAttempt}, rev : Nat, lease : Nat, bound : Nat,
            epoch : Nat, tries : Nat,
            beat : {"off", "out", "lost"}, next : Nat, beatTries : Nat]
        : p.pc = "waiting" => p.op \in MainOps}

Idle(e) == [pc |-> "idle", op |-> "none", outcome |-> "NONE",
            at |-> NoAttempt, rev |-> 0, lease |-> 0, bound |-> 0,
            epoch |-> e, tries |-> 0, beat |-> "off", next |-> 0, beatTries |-> 0]

\* A request with the values of its body.  lease is the next expiry of a
\* heartbeat, else the lease that the binding hash in the body covers.  now is
\* the time read by the handler, seen what the authorization snapshot showed
\* beyond the revision, open that the client still waits for this copy.
NoSnapshot == [lease |-> 0, jobRev |-> 0]
Snapshot(a) == [lease |-> attempt[a].lease, jobRev |-> job[a[1]].revision]

NoRequest == [op |-> "none", w |-> NoWorker, epoch |-> 0, at |-> NoAttempt, rev |-> 0,
              lease |-> 0, outcome |-> "NONE", now |-> 0, phase |-> "free",
              open |-> FALSE, seen |-> NoSnapshot]

Request == [op : Ops, w : Workers, epoch : Nat, at : Attempts \cup {NoAttempt},
            rev : Nat, lease : Nat, outcome : Outcomes \cup {"NONE"}, now : Nat,
            phase : {"sent", "looked", "authorized"}, open : BOOLEAN,
            seen : [lease : Nat, jobRev : Nat]]

\* The call process p of worker w waits for, and its heartbeat.
CallOf(w, p) ==
    [NoRequest EXCEPT !.op = p.op, !.w = w, !.epoch = p.epoch, !.at = p.at, !.rev = p.rev,
                      !.lease = p.bound, !.outcome = p.outcome,
                      !.phase = "sent", !.open = TRUE]

BeatOf(w, p) ==
    [NoRequest EXCEPT !.op = "heartbeat", !.w = w, !.epoch = p.epoch, !.at = p.at,
                      !.rev = p.rev, !.lease = p.next, !.phase = "sent", !.open = TRUE]

\* The slots once worker w no longer waits for its requests of kind ops.
Abandoned(w, ops) ==
    [i \in Slots |-> IF req[i].open /\ req[i].w = w /\ req[i].op \in ops
                     THEN [req[i] EXCEPT !.open = FALSE] ELSE req[i]]

Init ==
    /\ clock = 0
    /\ epoch = [w \in Workers |-> 1]
    /\ job = [j \in Jobs |-> NoJob]
    /\ log = [j \in Jobs |-> << >>]
    /\ ready = [j \in Jobs |-> "NONE"]
    /\ latest = [j \in Jobs |-> 0]
    /\ attempt = [a \in Attempts |-> NoRow]
    /\ prep = [a \in Attempts |-> NoPrep]
    /\ fin = [a \in Attempts |-> NoFin]
    /\ comp = [a \in Attempts |-> NoComp]
    /\ binding = [j \in Jobs |-> "NONE"]
    /\ wk = [w \in Workers |-> Idle(1)]
    /\ req = [i \in Slots |-> NoRequest]

rows == <<job, log, ready, latest, attempt, prep, fin, comp, binding>>
world == <<clock, epoch>>

-----------------------------------------------------------------------------
(* The surroundings *)

Tick == /\ clock < MaxClock
        /\ clock' = clock + 1
        /\ UNCHANGED <<epoch, rows, wk, req>>

\* IAM rotates the secret of a service account: tokens of the old version are
\* no longer current.
RotateSecret(w) ==
    /\ epoch[w] < MaxEpoch
    /\ epoch' = [epoch EXCEPT ![w] = @ + 1]
    /\ UNCHANGED <<clock, rows, wk, req>>

\* (Mutant of Admit) The look for an existing job passes over finished ones.
AdmitAfterFinish(j) ==
    /\ job[j] = NoJob \/ job[j].state \in Terminal
    /\ job' = [job EXCEPT ![j] = CreatedJob]
    /\ ready' = [ready EXCEPT ![j] = "PENDING"]
    /\ binding' = [binding EXCEPT ![j] = "PREPARED"]
    /\ UNCHANGED <<world, log, latest, attempt, prep, fin, comp, wk, req>>

\* AdmissionService.admit: the job, its JOB_READY record and the prepared
\* settlement binding are written in one transaction.
Admit(j) ==
    /\ job[j] = NoJob
    /\ job' = [job EXCEPT ![j] = CreatedJob]
    /\ ready' = [ready EXCEPT ![j] = "PENDING"]
    /\ binding' = [binding EXCEPT ![j] = "PREPARED"]
    /\ UNCHANGED <<world, log, latest, attempt, prep, fin, comp, wk, req>>

LogEntry(before, next) ==
    [from |-> before.state, to |-> next, revision |-> before.revision + 1]

\* listPending: the oldest undelivered records, at most PromoteLimit of them.
Pending == {j \in Jobs : ready[j] = "PENDING"}
PendingBatch == {j \in Pending : Cardinality({k \in Pending : k < j}) < PromoteLimit}

\* ReadyJobQueueService.promote: one transaction for the batch.  A job still
\* CREATED is queued; the record is delivered for a job that is or was queued,
\* and stays pending for any other.
Promote ==
    LET queued == {j \in PendingBatch : job[j].state = "CREATED" /\ Accepts(job[j], "QUEUED")}
        delivered == queued \cup {j \in PendingBatch : job[j].state = "QUEUED"}
    IN /\ delivered # {}
       /\ job' = [j \in Jobs |-> IF j \in queued THEN Moved(job[j], "QUEUED") ELSE job[j]]
       /\ log' = [j \in Jobs |-> IF j \in queued THEN Append(log[j], LogEntry(job[j], "QUEUED"))
                                 ELSE log[j]]
       /\ ready' = [j \in Jobs |-> IF j \in delivered THEN "DELIVERED" ELSE ready[j]]
       /\ UNCHANGED <<world, latest, attempt, prep, fin, comp, binding, wk, req>>

-----------------------------------------------------------------------------
(* The worker process *)

\* (Mutant of Call) The result is prepared while a heartbeat is on its way.
CallWhileBeating(w, op, outcome) ==
    LET p == [wk[w] EXCEPT !.pc = "waiting", !.op = op, !.outcome = outcome, !.tries = 0]
    IN /\ <<wk[w].pc, op>> \in Calls
       /\ wk[w].beat # "lost"
       /\ (outcome = "NONE") <=> (op # "complete")
       /\ wk' = [wk EXCEPT ![w] = p]
       /\ \E i \in Slots : /\ req[i] = NoRequest
                           /\ req' = [req EXCEPT ![i] = CallOf(w, p)]
       /\ UNCHANGED <<world, rows>>

\* The process sends its next call.  The heartbeat thread is stopped and joined
\* before a result is prepared or completed, and a lost lease ends the work.
Call(w, op, outcome) ==
    LET p == [wk[w] EXCEPT !.pc = "waiting", !.op = op, !.outcome = outcome, !.tries = 0]
    IN /\ <<wk[w].pc, op>> \in Calls
       /\ wk[w].beat = "off"
       /\ (outcome = "NONE") <=> (op # "complete")
       /\ wk' = [wk EXCEPT ![w] = p]
       /\ \E i \in Slots : /\ req[i] = NoRequest
                           /\ req' = [req EXCEPT ![i] = CallOf(w, p)]
       /\ UNCHANGED <<world, rows>>

\* The expiry a heartbeat asks for.
NextExpiry(lease, now) ==
    LET next == (IF lease > now THEN lease ELSE now) + LeaseTerm
    IN IF next < now + MaxLease THEN next ELSE now + MaxLease

\* heartbeat_loop, one turn: skipped when it would not extend the lease.
Beat(w) ==
    LET p == [wk[w] EXCEPT !.beat = "out", !.next = NextExpiry(wk[w].lease, clock),
                           !.beatTries = 0]
    IN /\ wk[w].pc = "running"
       /\ wk[w].beat = "off"
       /\ p.next > wk[w].lease
       /\ wk' = [wk EXCEPT ![w] = p]
       /\ \E i \in Slots : /\ req[i] = NoRequest
                           /\ req' = [req EXCEPT ![i] = BeatOf(w, p)]
       /\ UNCHANGED <<world, rows>>

\* _request gives up on a copy (timeout, lost connection, 5xx answer) and sends
\* the same body again; the copy it gave up on may still be in progress.
RetryCall(w) ==
    /\ wk[w].pc = "waiting"
    /\ wk[w].tries < MaxRetries
    /\ wk' = [wk EXCEPT ![w].tries = @ + 1]
    /\ \E i \in Slots : /\ req[i] = NoRequest
                        /\ req' = [Abandoned(w, MainOps) EXCEPT ![i] = CallOf(w, wk[w])]
    /\ UNCHANGED <<world, rows>>

RetryBeat(w) ==
    /\ wk[w].beat = "out"
    /\ wk[w].beatTries < MaxRetries
    /\ wk' = [wk EXCEPT ![w].beatTries = @ + 1]
    /\ \E i \in Slots : /\ req[i] = NoRequest
                        /\ req' = [Abandoned(w, {"heartbeat"}) EXCEPT ![i] = BeatOf(w, wk[w])]
    /\ UNCHANGED <<world, rows>>

\* The heartbeat thread sets "lost" when its last try failed.
LoseBeat(w) ==
    /\ wk[w].beat = "out"
    /\ wk[w].beatTries = MaxRetries
    /\ wk' = [wk EXCEPT ![w].beat = "lost", ![w].next = 0, ![w].beatTries = 0]
    /\ req' = Abandoned(w, {"heartbeat"})
    /\ UNCHANGED <<world, rows>>

\* The loop starts its next round after a finished assignment, after retries
\* ran out or processing failed; or the process dies and a new one starts with
\* the account's current secret.  What it knew of its attempt is gone; requests
\* it had sent may still be in progress.
NextRound(w) ==
    /\ wk[w].pc # "idle"
    /\ \E e \in {wk[w].epoch, epoch[w]} : wk' = [wk EXCEPT ![w] = Idle(e)]
    /\ req' = Abandoned(w, Ops)
    /\ UNCHANGED <<world, rows>>

-----------------------------------------------------------------------------
(* The API: answers and what every handler checks *)

\* The request leaves its slot; a client that still waits becomes process p.
Answer(i, p) ==
    /\ req' = [req EXCEPT ![i] = NoRequest]
    /\ wk' = IF req[i].open THEN [wk EXCEPT ![req[i].w] = p] ELSE wk

\* The worker of request i with that request answered.
Answered(i) ==
    IF req[i].op = "heartbeat"
    THEN [wk[req[i].w] EXCEPT !.beat = "off", !.next = 0, !.beatTries = 0]
    ELSE [wk[req[i].w] EXCEPT !.tries = 0]

\* A 401 or 409 answer: the worker gives the attempt up.
Rejected(i) ==
    Answer(i, IF req[i].op = "heartbeat" THEN [Answered(i) EXCEPT !.beat = "lost"]
              ELSE [Answered(i) EXCEPT !.pc = "refused"])

Finished(i) == Answer(i, [Answered(i) EXCEPT !.pc = "done"])

\* isCurrent: the request carries the account's current secret version.
Current(r) == r.epoch = epoch[r.w]

\* (Mutant of HoldsLease) The deadline is not compared.
HoldsLeasePastDeadline(r, now) ==
    /\ r.at \in Attempts
    /\ attempt[r.at].worker = r.w
    /\ attempt[r.at].revision = r.rev
    /\ r.at = Newest(r.at[1])
    /\ attempt[r.at].lease > now
    /\ Active(attempt[r.at])
    /\ job[r.at[1]].state \in WorkerJobStates

\* loadCurrent, and the two conditions every caller of it adds.
HoldsLease(r, now) ==
    /\ r.at \in Attempts
    /\ attempt[r.at].worker = r.w
    /\ attempt[r.at].revision = r.rev
    /\ r.at = Newest(r.at[1])
    /\ attempt[r.at].lease > now
    /\ Deadline[r.at[1]] > now
    /\ Active(attempt[r.at])
    /\ job[r.at[1]].state \in WorkerJobStates

\* The binding hash in the body covers the lease of the attempt.
BindingMatches(r) == r.op \in {"claim", "finalize"} => attempt[r.at].lease = r.lease

\* authorizationMatches
AsAuthorized(r) == r.seen = Snapshot(r.at)

\* The handler's connection or transaction fails: nothing is written, nothing
\* is answered.
Drop(i) ==
    /\ req[i] # NoRequest
    /\ req' = [req EXCEPT ![i] = NoRequest]
    /\ UNCHANGED <<world, rows, wk>>

\* (Mutant of FinReplay) The lookup reads the preparation instead.
FinReplayOfPreparation(r) == r.at \in Attempts /\ prep[r.at].made

\* findResultReplay: a stored finalization of exactly this request.
FinReplay(r) ==
    /\ r.at \in Attempts
    /\ fin[r.at] = [made |-> TRUE, epoch |-> r.epoch, lease |-> r.lease]

\* findReplay: a stored completion of exactly this request, and its attempt and
\* job as the completion left them.
CompReplay(r) ==
    /\ r.at \in Attempts
    /\ comp[r.at] = [made |-> TRUE, epoch |-> r.epoch, rev |-> r.rev, outcome |-> r.outcome]
    /\ attempt[r.at].worker = r.w
    /\ attempt[r.at].revision = r.rev + 1
    /\ attempt[r.at].state = r.outcome
    /\ job[r.at[1]].state = r.outcome
    /\ r.at = Newest(r.at[1])

Replayable(r) == \/ r.op = "finalize" /\ FinReplay(r)
                 \/ r.op = "complete" /\ CompReplay(r)

\* finalizeResult and complete first look for a stored answer.  complete reads
\* the clock before it looks, and uses that time to the end.
LookUp(i) ==
    /\ req[i].op \in ReplayOps
    /\ req[i].phase = "sent"
    /\ Current(req[i])
    /\ IF Replayable(req[i]) THEN Finished(i)
       ELSE /\ req' = [req EXCEPT ![i].phase = "looked", ![i].now = clock]
            /\ UNCHANGED wk
    /\ UNCHANGED <<world, rows>>

\* The request waits for authentication or for authorization.
Checking(r) == r.phase = (IF r.op \in ReplayOps THEN "looked" ELSE "sent")
Authorized(r) == r.op # "assign" => HoldsLease(r, clock) /\ BindingMatches(r)

\* authorize takes its snapshot on the plain connection, outside any
\* transaction.
Authorize(i) ==
    /\ Checking(req[i])
    /\ Current(req[i])
    /\ Authorized(req[i])
    /\ req' = [req EXCEPT ![i].phase = "authorized",
                          ![i].now = IF req[i].op = "complete" THEN @ ELSE clock,
                          ![i].seen = IF req[i].op = "assign" THEN @
                                      ELSE Snapshot(req[i].at)]
    /\ UNCHANGED <<world, rows, wk>>

RefuseEarly(i) ==
    /\ \/ req[i].phase = "sent" /\ ~Current(req[i])
       \/ Checking(req[i]) /\ ~(Current(req[i]) /\ Authorized(req[i]))
    /\ Rejected(i)
    /\ UNCHANGED <<world, rows>>

-----------------------------------------------------------------------------
(* The API: transactions *)

\* The time the handler passes to its transaction: assign and complete read it
\* early; the others read it between the authorization and the transaction.
Times(r) == IF r.op \in {"assign", "complete"} THEN {r.now} ELSE r.now..clock

InTransaction(i, op) == req[i].op = op /\ req[i].phase = "authorized"

\* (Mutant of Overdue) Only attempts that were never started count.
OverdueUnstarted(now) == {a \in Attempts : /\ attempt[a].state = "CLAIMED"
                                           /\ attempt[a].lease < now
                                           /\ a = Newest(a[1])
                                           /\ job[a[1]].state \in WorkerJobStates}

\* What assign looks for: the current attempt whose lease ran out first, of a
\* job at work; else the oldest queued job.
Overdue(now) == {a \in Attempts : /\ CanExpire(attempt[a], now)
                                  /\ a = Newest(a[1])
                                  /\ job[a[1]].state \in WorkerJobStates}
Queued == {j \in Jobs : job[j].state = "QUEUED"}
Candidates(now) ==
    IF Overdue(now) # {}
    THEN {a[1] : a \in {b \in Overdue(now) :
                          \A c \in Overdue(now) : attempt[b].lease <= attempt[c].lease}}
    ELSE {j \in Queued : \A k \in Queued : j <= k}

\* (Mutant of Assignable) Off by one.
AssignableOnceMore(j, now) ==
    /\ Deadline[j] > now
    /\ j \notin BillingJobs
    /\ latest[j] <= MaxAttempts
    /\ latest[j] > 0 => ~(Active(attempt[Newest(j)]) /\ attempt[Newest(j)].lease > now)

\* The candidate may be leased; assign looks at no other candidate.
Assignable(j, now) ==
    /\ Deadline[j] > now
    /\ j \notin BillingJobs
    /\ latest[j] < MaxAttempts
    /\ latest[j] > 0 => ~(Active(attempt[Newest(j)]) /\ attempt[Newest(j)].lease > now)

\* assign: the overdue attempt expires, the next one is claimed under a fresh
\* lease, and a queued job is dispatched.  When the workload envelope cannot be
\* created the transaction returns without an answer for the worker, and what
\* it has written is committed.
AssignTx(i) ==
    /\ InTransaction(i, "assign")
    /\ \E j \in Candidates(req[i].now) :
        LET now == req[i].now
            w == req[i].w
            fresh == <<j, latest[j] + 1>>
            lease == now + LeaseTerm
            dispatched == job[j].state = "QUEUED"
        IN /\ Assignable(j, now)
           /\ attempt' = [a \in Attempts |->
                            IF a = fresh THEN ClaimedAttempt(w, lease)
                            ELSE IF a = Newest(j) /\ ~dispatched THEN Lapsed(attempt[a])
                            ELSE attempt[a]]
           /\ latest' = [latest EXCEPT ![j] = @ + 1]
           /\ IF dispatched
              THEN /\ job' = [job EXCEPT ![j] = Moved(@, "DISPATCHED")]
                   /\ log' = [log EXCEPT ![j] = Append(@, LogEntry(job[j], "DISPATCHED"))]
              ELSE UNCHANGED <<job, log>>
           /\ \/ Answer(i, [Answered(i) EXCEPT !.pc = "assigned", !.at = fresh, !.rev = 1,
                                              !.lease = lease, !.bound = lease])
              \/ Answer(i, Idle(wk[w].epoch))
    /\ UNCHANGED <<world, ready, prep, fin, comp, binding>>

\* assign finds nothing to lease, or finds the secret rotated meanwhile.
AssignNothing(i) ==
    /\ InTransaction(i, "assign")
    /\ \/ ~\E j \in Candidates(req[i].now) : Assignable(j, req[i].now)
       \/ ~Current(req[i])
    /\ Answer(i, Idle(wk[req[i].w].epoch))
    /\ UNCHANGED <<world, rows>>

\* claim: boundedInitialLease, then start.
ClaimPermitted(r, now) ==
    /\ r.seen.lease > now
    /\ r.seen.lease <= now + MaxLease
    /\ HoldsLease(r, now)
    /\ CanStart(attempt[r.at], now)

ClaimTx(i) ==
    LET a == req[i].at
    IN /\ InTransaction(i, "claim")
       /\ \E now \in Times(req[i]) : ClaimPermitted(req[i], now)
       /\ attempt' = [attempt EXCEPT ![a] = Started(@)]
       /\ Answer(i, [Answered(i) EXCEPT !.pc = "running", !.rev = attempt'[a].revision,
                                        !.lease = attempt'[a].lease])
       /\ UNCHANGED <<world, job, log, ready, latest, prep, fin, comp, binding>>

\* heartbeat: boundedExtendedLease, then the renewal.
HeartbeatPermitted(r, now) ==
    /\ r.lease > r.seen.lease
    /\ r.lease <= now + MaxLease
    /\ HoldsLease(r, now)
    /\ CanRenew(attempt[r.at], now, r.lease)

HeartbeatTx(i) ==
    LET a == req[i].at
    IN /\ InTransaction(i, "heartbeat")
       /\ \E now \in Times(req[i]) : HeartbeatPermitted(req[i], now)
       /\ attempt' = [attempt EXCEPT ![a] = Renewed(@, req[i].lease)]
       /\ Answer(i, [Answered(i) EXCEPT !.rev = attempt'[a].revision,
                                        !.lease = attempt'[a].lease])
       /\ UNCHANGED <<world, job, log, ready, latest, prep, fin, comp, binding>>

\* prepare: an existing row answers an identical request; else the row is made.
PrepareReplays(r) == prep[r.at].epoch = r.epoch /\ prep[r.at].rev = r.rev
PreparePermitted(r, now) ==
    IF prep[r.at].made THEN PrepareReplays(r)
    ELSE HoldsLease(r, now) /\ AsAuthorized(r)

PrepareTx(i) ==
    LET a == req[i].at
    IN /\ InTransaction(i, "prepare")
       /\ \E now \in Times(req[i]) : PreparePermitted(req[i], now)
       /\ prep' = IF prep[a].made THEN prep
                  ELSE [prep EXCEPT ![a] = [made |-> TRUE, epoch |-> req[i].epoch,
                                            rev |-> req[i].rev, lease |-> req[i].seen.lease]]
       /\ prep'[a].lease = req[i].seen.lease    \* else prepareResult answers 503
       /\ Answer(i, [Answered(i) EXCEPT !.pc = "prepared", !.bound = prep'[a].lease])
       /\ UNCHANGED <<world, job, log, ready, latest, attempt, fin, comp, binding>>

\* (Mutant of Closing) The move to RUNNING is made but not logged.
ClosingUnlogged(j, outcome) ==
    LET running == IF job[j].state = "DISPATCHED" THEN Moved(job[j], "RUNNING") ELSE job[j]
    IN [accepted |-> Accepts(running, outcome),
        job |-> Moved(running, outcome),
        entries |-> <<LogEntry(running, outcome)>>]

\* The job goes through RUNNING to its outcome, one revision and one log row
\* for each move.
Closing(j, outcome) ==
    LET running == IF job[j].state = "DISPATCHED" THEN Moved(job[j], "RUNNING") ELSE job[j]
        entries == IF job[j].state = "DISPATCHED" THEN <<LogEntry(job[j], "RUNNING")>> ELSE << >>
    IN [accepted |-> /\ job[j].state = "DISPATCHED" => Accepts(job[j], "RUNNING")
                     /\ Accepts(running, outcome),
        job |-> Moved(running, outcome),
        entries |-> Append(entries, LogEntry(running, outcome))]

\* What finalize and complete write when they close attempt a and its job.
CloseJob(a, outcome) ==
    /\ attempt' = [attempt EXCEPT ![a] = Completed(@, outcome)]
    /\ job' = [job EXCEPT ![a[1]] = Closing(a[1], outcome).job]
    /\ log' = [log EXCEPT ![a[1]] = @ \o Closing(a[1], outcome).entries]

\* finalize: a stored row answers an identical request; else the prepared
\* submission, its attestations and its settlement decide.
FinalizePermitted(r, now) ==
    /\ HoldsLease(r, now)
    /\ AsAuthorized(r)
    /\ prep[r.at].made
    /\ prep[r.at].lease = r.lease
    /\ CanComplete(attempt[r.at], now, "SUCCEEDED")
    /\ Closing(r.at[1], "SUCCEEDED").accepted

\* The effects throw, and so roll the transaction back, when the settlement
\* binding is not open any more: Drop is then the only way out.
Settleable(j, now) == binding[j] = "PREPARED" /\ BindingExpiry[j] >= now

FinalizeTx(i) ==
    LET a == req[i].at
    IN /\ InTransaction(i, "finalize")
       /\ ~fin[a].made
       /\ \E now \in Times(req[i]) : FinalizePermitted(req[i], now) /\ Settleable(a[1], now)
       /\ CloseJob(a, "SUCCEEDED")
       /\ fin' = [fin EXCEPT ![a] = [made |-> TRUE, epoch |-> req[i].epoch,
                                     lease |-> req[i].lease]]
       /\ binding' = [binding EXCEPT ![a[1]] = "SETTLED"]
       /\ Finished(i)
       /\ UNCHANGED <<world, ready, latest, prep, comp>>

\* complete
CompletePermitted(r, now) ==
    /\ HoldsLease(r, now)
    /\ AsAuthorized(r)
    /\ CanComplete(attempt[r.at], now, r.outcome)
    /\ Closing(r.at[1], r.outcome).accepted

CompleteTx(i) ==
    LET a == req[i].at
    IN /\ InTransaction(i, "complete")
       /\ ~comp[a].made
       /\ \E now \in Times(req[i]) : CompletePermitted(req[i], now)
       /\ CloseJob(a, req[i].outcome)
       /\ comp' = [comp EXCEPT ![a] = [made |-> TRUE, epoch |-> req[i].epoch,
                                       rev |-> req[i].rev, outcome |-> req[i].outcome]]
       /\ Finished(i)
       /\ UNCHANGED <<world, ready, latest, prep, fin, binding>>

\* A second copy finds in its transaction what the first one stored.
ReplayTx(i) ==
    /\ req[i].phase = "authorized"
    /\ Replayable(req[i])
    /\ Finished(i)
    /\ UNCHANGED <<world, rows>>

Permitted(r, now) ==
    CASE r.op = "claim"     -> ClaimPermitted(r, now)
      [] r.op = "heartbeat" -> HeartbeatPermitted(r, now)
      [] r.op = "prepare"   -> PreparePermitted(r, now)
      [] r.op = "finalize"  -> IF fin[r.at].made THEN FinReplay(r) ELSE FinalizePermitted(r, now)
      [] r.op = "complete"  -> IF comp[r.at].made THEN CompReplay(r) ELSE CompletePermitted(r, now)

\* The transaction refuses: what it re-reads no longer permits the write, or the
\* secret was rotated meanwhile.  That check runs on a connection of its own,
\* so a transaction that passed it commits although a rotation came before.
RefuseTx(i) ==
    /\ req[i].phase = "authorized"
    /\ req[i].op # "assign"
    /\ \/ ~Current(req[i])
       \/ \E now \in Times(req[i]) : ~Permitted(req[i], now)
    /\ Rejected(i)
    /\ UNCHANGED <<world, rows>>

-----------------------------------------------------------------------------
Environment == \/ Tick
               \/ Promote
               \/ \E w \in Workers : RotateSecret(w)
               \/ \E j \in Jobs : Admit(j)

Worker(w) == \/ \E op \in MainOps, outcome \in Reports \cup {"NONE"} : Call(w, op, outcome)
             \/ Beat(w)
             \/ RetryCall(w)
             \/ RetryBeat(w)
             \/ LoseBeat(w)
             \/ NextRound(w)

Handler(i) == \/ LookUp(i)      \/ Authorize(i)  \/ RefuseEarly(i)
              \/ AssignTx(i)    \/ AssignNothing(i)
              \/ ClaimTx(i)     \/ HeartbeatTx(i)
              \/ PrepareTx(i)   \/ FinalizeTx(i)
              \/ CompleteTx(i)  \/ ReplayTx(i)   \/ RefuseTx(i)

Next == \/ Environment
        \/ \E w \in Workers : Worker(w)
        \/ \E i \in Slots : Handler(i) \/ Drop(i)

Spec == Init /\ [][Next]_vars

\* Fairness.  serve polls for ever, and no round of it lasts for ever: retries,
\* time limits and leases are bounded.  The API handles a request unless it
\* fails, and an assignment that is tried again and again does not fail every
\* time.  Nothing is assumed of claims, results, promotion, rotation or time.
Fairness ==
    /\ \A w \in Workers : /\ SF_vars(Call(w, "assign", "NONE"))
                         /\ WF_vars(NextRound(w))
    /\ \A i \in Slots : /\ WF_vars(Handler(i))
                       /\ SF_vars(req[i].op = "assign" /\ Authorize(i))
                       /\ SF_vars(AssignTx(i) \/ AssignNothing(i))

FairSpec == Spec /\ Fairness
-----------------------------------------------------------------------------
(* Properties *)

\* Every variable keeps its type: rows, processes and requests stay inside the
\* records the schema (jra.prisma) and the two ends of the wire declare.
TypeOK ==
    /\ clock \in 0..MaxClock
    /\ epoch \in [Workers -> 1..MaxEpoch]
    /\ job \in [Jobs -> JobRow \cup {NoJob}]
    /\ log \in [Jobs -> Seq(LogRow)]
    /\ ready \in [Jobs -> {"NONE", "PENDING", "DELIVERED"}]
    /\ latest \in [Jobs -> 0..MaxAttempts]
    /\ attempt \in [Attempts -> AttemptRow \cup {NoRow}]
    /\ prep \in [Attempts -> PrepRow]
    /\ fin \in [Attempts -> FinRow]
    /\ comp \in [Attempts -> CompRow]
    /\ binding \in [Jobs -> {"NONE", "PREPARED", "SETTLED"}]
    /\ wk \in [Workers -> Process]
    /\ req \in [Slots -> Request \cup {NoRequest}]

\* The job row and the attempt rows tell one story: a job has no attempt before
\* it is dispatched; every attempt but the newest has expired; the newest is
\* active exactly while the job is dispatched, and ends with the job's outcome.
\* They are written by assign, claim, heartbeat, finalize and complete, each in
\* a transaction of its own, from snapshots that may be old.
OneStory(j) ==
    /\ latest[j] = 0 <=> job[j].state \in {"NONE", "CREATED", "QUEUED"}
    /\ \A n \in 1..MaxAttempts :
         /\ n < latest[j] => attempt[<<j, n>>].state = "EXPIRED"
         /\ n > latest[j] => attempt[<<j, n>>] = NoRow
    /\ latest[j] > 0 =>
         \/ Active(attempt[Newest(j)]) /\ job[j].state = "DISPATCHED"
         \/ attempt[Newest(j)].state = job[j].state /\ job[j].state \in Outcomes
JobMatchesAttempts == \A j \in Jobs : OneStory(j)

\* A job's usage is settled by the transaction that accepts its result and by
\* no other: the binding is settled exactly when an attempt was finalized, at
\* most one attempt of a job ever closes it, by finalize or by complete, and a
\* job is finished only through one of them (finalizeInTransaction,
\* completeInTransaction).
Closed(j) == {a \in Attempts : a[1] = j /\ (fin[a].made \/ comp[a].made)}
SettledOnce(j) ==
    /\ binding[j] = "SETTLED" <=> \E a \in Closed(j) : fin[a].made
    /\ Closed(j) # {} <=> job[j].state \in Terminal
    /\ \A a, b \in Closed(j) : a = b /\ ~(fin[a].made /\ comp[b].made)
    /\ \A a \in Closed(j) : fin[a].made => job[j].state = "SUCCEEDED"
ResultSettledOnce == \A j \in Jobs : SettledOnce(j)

\* Two workers never both hold a lease on one job that is still running by the
\* expiry each was last told (assign takes over only what expired before now).
Holds(w, j) == /\ wk[w].at[1] = j
               /\ wk[w].pc \notin {"done", "refused"}
               /\ wk[w].lease >= clock
LeaseExclusion ==
    \A j \in Jobs, v, w \in Workers : Holds(v, j) /\ Holds(w, j) => v = w

\* What the worker was told is finished is finished: the row that answers a
\* repetition exists, and the job has its outcome, also when the answer came
\* from a replay or when a later attempt was possible.
AcknowledgedIsDurable ==
    \A w \in Workers : wk[w].pc = "done" =>
        LET a == wk[w].at
        IN \/ wk[w].op = "finalize" /\ fin[a].made /\ job[a[1]].state = "SUCCEEDED"
           \/ /\ wk[w].op = "complete"
              /\ comp[a].made
              /\ comp[a].outcome = wk[w].outcome
              /\ job[a[1]].state = wk[w].outcome

\* No heartbeat that was sent before the result was prepared, and is still in
\* progress, spoils the prepared submission: while the attempt lasts it keeps
\* the revision and the lease that the submission is bound to.  run_result_v2
\* stops its heartbeats first ("Run, stop lease heartbeats, then prepare").
PreparedStaysBound ==
    \A w \in Workers :
        LET p == wk[w]
        IN p.pc = "prepared" /\ Active(attempt[p.at]) =>
             /\ attempt[p.at].revision = p.rev
             /\ attempt[p.at].lease = p.bound
             /\ prep[p.at].made
             /\ prep[p.at].lease = p.bound

\* job_transitions is a path of the transition table from CREATED to the state
\* of the job row, with the revisions 2, 3, ... in order and the last one that
\* of the row: promotion, assignment, finalize and complete each add their part.
LogIsPath ==
    \A j \in Jobs :
        LET n == Len(log[j])
        IN /\ \A k \in 1..n :
                /\ <<log[j][k].from, log[j][k].to>> \in Transitions
                /\ log[j][k].revision = k + 1
                /\ log[j][k].from = (IF k = 1 THEN "CREATED" ELSE log[j][k - 1].to)
           /\ n > 0 => job[j].state = log[j][n].to
           /\ job[j] # NoJob => job[j].revision = n + 1

\* A finished job stays as it is, with its attempts, its submissions, its result
\* and its settlement, whatever copies of old requests arrive later.
FinishedUnchanged ==
    \A j \in Jobs : job[j].state \in Terminal =>
        /\ job'[j] = job[j] /\ log'[j] = log[j] /\ binding'[j] = binding[j]
        /\ \A a \in Attempts : a[1] = j =>
             /\ attempt'[a] = attempt[a] /\ prep'[a] = prep[a]
             /\ fin'[a] = fin[a] /\ comp'[a] = comp[a]
FinishedStaysFinished == [][FinishedUnchanged]_vars

\* A lease never reaches far beyond the job's deadline, however often it is
\* extended or taken over: assign, heartbeat and loadCurrent all look at the
\* deadline, with times that may be old.
LeaseEndsWithDeadline ==
    \A a \in Attempts : attempt[a] # NoRow => attempt[a].lease < Deadline[a[1]] + MaxLease

\* An attempt that ran out is taken over, as long as assign may do so.
ExpiredIsTakenOver ==
    \A j \in Jobs :
        LET open == /\ latest[j] \in 1..(MaxAttempts - 1)
                    /\ Active(attempt[Newest(j)])
                    /\ attempt[Newest(j)].lease < clock
                    /\ clock < Deadline[j]
                    /\ j \notin BillingJobs
        IN open ~> ~open

-----------------------------------------------------------------------------
(* What documents and comments say and the code does not do.  Each of these is *)
(* violated; see the findings in README.md.                                    *)

\* "Poison jobs enter a controlled failed state; they do not loop indefinitely."
\* (processing-and-job-system.md): a job whose last permitted attempt ran out
\* is closed some day.
PoisonJobFails ==
    \A j \in Jobs :
        Newest(j) \in Overdue(clock) /\ latest[j] = MaxAttempts ~> job[j].state \in Terminal

\* "not a reason to starve newer work", "until we find the first current
\* retryable lease" (comment in assign): a queued job that may be leased is, as
\* long as nothing older can be.
NewerWorkIsAssigned ==
    \A j \in Jobs :
        LET waiting == /\ job[j].state = "QUEUED"
                       /\ Assignable(j, clock)
                       /\ \A k \in Jobs \ {j} : latest[k] = MaxAttempts
        IN waiting ~> ~waiting

\* "A transaction stores the result, releases or commits usage, changes state,
\* and emits events." (processing-and-job-system.md): no finished job keeps its
\* usage reserved.
UsageFollowsOutcome ==
    \A j \in Jobs : job[j].state \in Terminal => binding[j] # "PREPARED"

\* JRA-031: "Identical retries shall return the stored completion": a worker
\* whose result is stored under exactly its request is not refused.
IdenticalRetryIsAnswered ==
    \A w \in Workers :
        LET p == wk[w]
            stored == fin[p.at] = [made |-> TRUE, epoch |-> p.epoch, lease |-> p.bound]
        IN ~(p.pc = "refused" /\ p.op = "finalize" /\ p.epoch = epoch[w] /\ stored)
==============================================================================
