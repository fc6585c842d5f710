------------------------------ MODULE DeviceSync ------------------------------
(***************************************************************************)
(* Offline operations of an Android device and the synchronization service *)
(* that admits them: SyncWorker.doWork over AuthenticatedDeviceSync-       *)
(* Transport on the device; DeviceSyncService.enqueue, transition and      *)
(* recordConflict over PrismaDeviceSyncRepositoryAdapter in the server.    *)
(* The server runs in READ COMMITTED transactions, so the reads of enqueue *)
(* and its insert are steps of their own.  The operations are numbered in  *)
(* the order in which the device records them.                             *)
(***************************************************************************)
EXTENDS Naturals, FiniteSets

CONSTANTS Last,         \* bound: the operations are 1 .. Last
          Batch,        \* operations.take(100)
          Slots,        \* requests for one operation the server may be handling at once
          Deciders,     \* callers of transition and recordConflict
          SameEpoch,    \* whether the workspace epoch equals the security epoch of the principal
          Faults,       \* subset of {"lost", "late", "database", "crash"}: what may go wrong
          MaxFaults     \* bound on how often

Ops == 1 .. Last

Open == {"QUEUED", "ACCEPTED"}
Final == {"APPLIED", "CONFLICT", "QUARANTINED", "REJECTED"}

VARIABLES local,      \* device_sync_operations on the device
          overlooked, \* operations that left the queue behind a full batch (history)
          work,       \* the run of SyncWorker
          handler,    \* the requests in the server
          row,        \* DeviceSyncOperationRecord
          decision,   \* the transactions of transition and recordConflict
          conflicts,  \* DeviceSyncConflictRecord
          faults

vars == <<local, overlooked, work, handler, row, decision, conflicts, faults>>

server == <<handler, row, decision, conflicts>>

NoRow == [status |-> "none", revision |-> 0]
NoWork == [phase |-> "idle", snapshot |-> {}, sent |-> {}, slot |-> 0, code |-> "none"]
NoDecision == [phase |-> "idle", op |-> 1, status |-> "none", revision |-> 0, conflict |-> FALSE]

TypeOK ==
    /\ local \in [Ops -> {"none", "queued", "conflict", "quarantined", "deleted"}]
    /\ overlooked \subseteq Ops
    /\ work \in [phase : {"idle", "pull", "send", "wait", "settle"}, snapshot : SUBSET Ops,
                 sent : SUBSET Ops, slot : Slots \cup {0},
                 code : {"none", "accepted", "CURSOR_STALE", "REVISION_CONFLICT", "IMMUTABLE_RECORD"}]
    /\ handler \in [Ops -> [Slots -> {"free", "find", "save", "create", "inserted"}]]
    /\ row \in [Ops -> [status : Open \cup Final \cup {"none"}, revision : 0 .. 3]]
    /\ decision \in [Deciders -> [phase : {"idle", "save"}, op : Ops,
                                  status : Open \cup Final \cup {"none"}, revision : 0 .. 3,
                                  conflict : BOOLEAN]]
    /\ conflicts \subseteq Ops
    /\ faults \in 0 .. MaxFaults

Init ==
    /\ local = [o \in Ops |-> "none"]
    /\ overlooked = {}
    /\ work = NoWork
    /\ handler = [o \in Ops |-> [s \in Slots |-> "free"]]
    /\ row = [o \in Ops |-> NoRow]
    /\ decision = [d \in Deciders |-> NoDecision]
    /\ conflicts = {}
    /\ faults = 0

Oldest(S) == CHOOSE o \in S : \A p \in S : o <= p

-----------------------------------------------------------------------------
(* The device                                                              *)

\* A confirmed capture leaves an operation in the offline queue.
enqueueDeviceOperation(o) ==
    /\ local[o] = "none"
    /\ \A p \in 1 .. o - 1 : local[p] /= "none"
    /\ local' = [local EXCEPT ![o] = "queued"]
    /\ UNCHANGED <<work, overlooked, faults>> /\ UNCHANGED server

\* state NOT IN ('completed', 'rejected', 'quarantined')
snapshot == {o \in Ops : local[o] \in {"queued", "conflict"}}

\* The user, or the backoff of a retry, starts a run; the queue is read first.
doWork ==
    /\ work.phase = "idle"
    /\ snapshot /= {}
    /\ work' = [NoWork EXCEPT !.phase = "pull", !.snapshot = snapshot]
    /\ UNCHANGED <<local, overlooked, faults>> /\ UNCHANGED server

\* The first cursor carries the epoch of the workspace, the pull wants that of the principal.
bootstrapAndPull ==
    /\ work.phase = "pull"
    /\ work' = IF SameEpoch THEN [work EXCEPT !.phase = "send"]
                            ELSE [work EXCEPT !.phase = "settle", !.code = "CURSOR_STALE"]
    /\ UNCHANGED <<local, overlooked, faults>> /\ UNCHANGED server

\* Whether an operation is one of the first Batch of a snapshot.
InBatch(queue, o) == Cardinality({p \in queue : p < o}) < Batch

\* What is still to be sent of the snapshot.
Unsent == {o \in work.snapshot \ work.sent : InBatch(work.snapshot, o)}

admit(s) ==
    /\ work.phase = "send"
    /\ Unsent /= {}
    /\ LET o == Oldest(Unsent)
       IN  /\ handler[o][s] = "free"
           /\ handler' = [handler EXCEPT ![o][s] = "find"]
           /\ work' = [work EXCEPT !.phase = "wait", !.slot = s]
    /\ UNCHANGED <<local, overlooked, row, decision, conflicts, faults>>

AllAdmitted ==
    /\ work.phase = "send"
    /\ Unsent = {}
    /\ work' = [work EXCEPT !.phase = "settle", !.code = "accepted"]
    /\ UNCHANGED <<local, overlooked, faults>> /\ UNCHANGED server

\* What becomes of every operation of the snapshot, sent or not: those behind the batch too.
Settled(code) ==
    CASE code = "accepted" -> "deleted"
      [] code = "REVISION_CONFLICT" -> "conflict"
      [] OTHER -> "quarantined"

Settle ==
    /\ work.phase = "settle"
    /\ local' = [o \in Ops |-> IF o \in work.snapshot THEN Settled(work.code) ELSE local[o]]
    /\ overlooked' = IF work.code = "accepted"
                     THEN overlooked \cup {o \in work.snapshot : ~InBatch(work.snapshot, o)}
                     ELSE overlooked
    /\ work' = NoWork
    /\ UNCHANGED faults /\ UNCHANGED server

\* (Mutant of Retryable) A failure of the network refuses the whole snapshot.
RetryableRefused == [work EXCEPT !.phase = "settle", !.slot = 0, !.code = "IMMUTABLE_RECORD"]

\* Result.retry(): the run ends and nothing changes in the queue.
Retryable == NoWork

\* What the device does with an answer, if it still waits for it.
Answer(o, s, code) ==
    IF work.phase = "wait" /\ work.slot = s /\ Oldest(Unsent) = o
      THEN work' = IF code = "accepted"
                     THEN [work EXCEPT !.phase = "send", !.slot = 0, !.sent = @ \cup {o}]
                     ELSE [work EXCEPT !.phase = "settle", !.slot = 0, !.code = code]
      ELSE UNCHANGED work

-----------------------------------------------------------------------------
(* enqueue                                                                 *)

Goes(o, s, phase) == handler' = [handler EXCEPT ![o][s] = phase]

\* The key is made of the identifier: a row under it is this operation, as it stands now.
findOperationByIdempotency(o, s) ==
    /\ handler[o][s] = "find"
    /\ IF row[o].status = "none"
         THEN Goes(o, s, "save") /\ UNCHANGED work
         ELSE Goes(o, s, "free") /\ Answer(o, s, "accepted")
    /\ UNCHANGED <<local, overlooked, row, decision, conflicts, faults>>

\* A row that appeared since must be identical, which it is until it is decided on.
saveOperation(o, s) ==
    /\ handler[o][s] = "save"
    /\ IF row[o].status = "none"
         THEN Goes(o, s, "create") /\ UNCHANGED work
         ELSE /\ Goes(o, s, "free")
              /\ Answer(o, s, IF row[o].revision = 1 THEN "accepted" ELSE "REVISION_CONFLICT")
    /\ UNCHANGED <<local, overlooked, row, decision, conflicts, faults>>

\* The unique index makes the insert wait for another one of the same operation, and then fail.
create(o, s) ==
    /\ handler[o][s] = "create"
    /\ \A t \in Slots : handler[o][t] /= "inserted"
    /\ IF row[o].status = "none"
         THEN Goes(o, s, "inserted") /\ UNCHANGED work
         ELSE Goes(o, s, "free") /\ Answer(o, s, "IMMUTABLE_RECORD")
    /\ UNCHANGED <<local, overlooked, row, decision, conflicts, faults>>

\* (Mutant of Commit) The answer leaves before the row is there.
CommitNothing(o, s) ==
    /\ handler[o][s] = "inserted"
    /\ Goes(o, s, "free")
    /\ Answer(o, s, "accepted")
    /\ UNCHANGED <<local, overlooked, row, decision, conflicts, faults>>

Commit(o, s) ==
    /\ handler[o][s] = "inserted"
    /\ row' = [row EXCEPT ![o] = [status |-> "QUEUED", revision |-> 1]]
    /\ Goes(o, s, "free")
    /\ Answer(o, s, "accepted")
    /\ UNCHANGED <<local, overlooked, decision, conflicts, faults>>

-----------------------------------------------------------------------------
(* transition and recordConflict                                           *)

\* (Mutant of Successors) A conflict can be settled by applying the operation after all.
SuccessorsAgain(status) ==
    CASE status = "QUEUED" -> {"ACCEPTED"}
      [] status = "ACCEPTED" -> Final
      [] status = "CONFLICT" -> {"APPLIED"}
      [] OTHER -> {}

\* transitionDeviceSyncOperationV1
Successors(status) ==
    CASE status = "QUEUED" -> {"ACCEPTED"}
      [] status = "ACCEPTED" -> Final
      [] OTHER -> {}

findOperation(d, o, conflict) ==
    /\ decision[d].phase = "idle"
    /\ row[o].status /= "none"
    /\ \E next \in Successors(row[o].status) :
         /\ conflict => next = "CONFLICT"
         /\ decision' = [decision EXCEPT ![d] =
                [phase |-> "save", op |-> o, status |-> next, revision |-> row[o].revision,
                 conflict |-> conflict]]
    /\ UNCHANGED <<local, overlooked, work, handler, row, conflicts, faults>>

Current(d) == row[decision[d].op].revision = decision[d].revision

\* The update is bound to the revision that was read; a conflict is saved with it or not at all.
saveDecision(d) ==
    LET o == decision[d].op
    IN  /\ decision[d].phase = "save"
        /\ row' = IF Current(d)
                    THEN [row EXCEPT ![o] = [status |-> decision[d].status,
                                             revision |-> decision[d].revision + 1]]
                    ELSE row
        /\ conflicts' = IF Current(d) /\ decision[d].conflict THEN conflicts \cup {o} ELSE conflicts
        /\ decision' = [decision EXCEPT ![d] = NoDecision]
        /\ UNCHANGED <<local, overlooked, work, handler, faults>>

-----------------------------------------------------------------------------
(* What goes wrong                                                         *)

Fault(kind) ==
    /\ kind \in Faults
    /\ faults < MaxFaults
    /\ faults' = faults + 1

\* The request does not arrive, or its answer does not: the run is tried again later.
LoseRequest ==
    /\ Fault("lost")
    /\ \/ work.phase = "pull" /\ UNCHANGED handler
       \/ /\ work.phase = "wait"
          /\ handler[Oldest(Unsent)][work.slot] = "find"
          /\ handler' = [handler EXCEPT ![Oldest(Unsent)][work.slot] = "free"]
    /\ work' = Retryable
    /\ UNCHANGED <<local, overlooked, row, decision, conflicts>>

LoseAnswer(o, s) ==
    /\ Fault("lost")
    /\ handler[o][s] = "inserted"
    /\ row' = [row EXCEPT ![o] = [status |-> "QUEUED", revision |-> 1]]
    /\ Goes(o, s, "free")
    /\ work' = IF work.phase = "wait" /\ work.slot = s /\ Oldest(Unsent) = o THEN Retryable ELSE work
    /\ UNCHANGED <<local, overlooked, decision, conflicts>>

\* The read timeout of the device ends before the server does.
Timeout ==
    /\ Fault("late")
    /\ work.phase = "wait"
    /\ work' = Retryable
    /\ UNCHANGED <<local, overlooked>> /\ UNCHANGED server

\* Every error the service does not know is IMMUTABLE_RECORD, answered with 200.
DatabaseFails(o, s) ==
    /\ Fault("database")
    /\ handler[o][s] \in {"find", "save", "create", "inserted"}
    /\ Goes(o, s, "free")
    /\ Answer(o, s, "IMMUTABLE_RECORD")
    /\ UNCHANGED <<local, overlooked, row, decision, conflicts>>

\* The process of the device dies between requests; WorkManager starts the run again.
Crash ==
    /\ Fault("crash")
    /\ work.phase \in {"pull", "send", "settle"}
    /\ work' = NoWork
    /\ UNCHANGED <<local, overlooked>> /\ UNCHANGED server

-----------------------------------------------------------------------------
Run == doWork \/ bootstrapAndPull \/ (\E s \in Slots : admit(s)) \/ AllAdmitted \/ Settle

Enqueue(o, s) ==
    findOperationByIdempotency(o, s) \/ saveOperation(o, s) \/ create(o, s) \/ Commit(o, s)

Next ==
    \/ \E o \in Ops : enqueueDeviceOperation(o)
    \/ Run
    \/ \E o \in Ops, s \in Slots : Enqueue(o, s) \/ LoseAnswer(o, s) \/ DatabaseFails(o, s)
    \/ \E d \in Deciders, o \in Ops, conflict \in BOOLEAN : findOperation(d, o, conflict)
    \/ \E d \in Deciders : saveDecision(d)
    \/ LoseRequest \/ Timeout \/ Crash

Spec == Init /\ [][Next]_vars

\* WorkManager repeats a run until it ends; the server works on what it has accepted.
FairSpec ==
    /\ Spec
    /\ WF_vars(Run)
    /\ \A o \in Ops, s \in Slots : WF_vars(Enqueue(o, s))

-----------------------------------------------------------------------------
\* An operation that leaves the queue of the device as accepted is in the server, whatever requests,
\* answers and processes were lost before, or was not among the first of its run, those that the
\* transport sends: doWork deletes all it has read when what was sent of it is accepted.
DeletedIsAdmitted ==
    \A o \in Ops : local[o] = "deleted" => row[o].status /= "none" \/ o \in overlooked

\* A conflict record always belongs to an operation that ended in CONFLICT, however the callers of
\* transition and recordConflict interleave.
ConflictStops == \A o \in conflicts : row[o].status = "CONFLICT"

\* What was decided about an operation is never decided again, nor admitted again by a retry.
DecidedOnce ==
    [][\A o \in Ops : row[o].status \in Final => row'[o] = row[o]]_vars

\* Whether an operation may be refused that the server has not got: the first cursor has the wrong
\* epoch, or an error of the database, or of an insert after a late one, is taken for a refusal.
MayRefuse == ~SameEpoch \/ "database" \in Faults \/ "late" \in Faults

\* What becomes of an operation of the offline queue: it comes to the server, unless it was behind
\* a full batch, or is given up by a refusal there is a reason for.
Comes(o) ==
    \/ row[o].status /= "none"
    \/ o \in overlooked
    \/ MayRefuse /\ local[o] = "quarantined"

\* Every operation of the offline queue comes to this in the end, after any number of lost
\* requests, lost answers and restarts.
EveryOperationArrives == \A o \in Ops : local[o] = "queued" ~> Comes(o)
=============================================================================
