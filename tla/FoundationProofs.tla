-------------------------- MODULE FoundationProofs --------------------------
(* Theorems about Foundation, for every value of the constants: one section *)
(* for each component, with its inductive invariant, and what follows for   *)
(* the behaviours in which it stands beside the others.  Here: admission,   *)
(* device queues, usage, payments; the others are in FoundationStorageProofs*)
EXTENDS Foundation, Sequences, FiniteSetTheorems, TLAPS

-----------------------------------------------------------------------------
(* JobAdmission: jobs, requests and dispatch records.                       *)

\* A job is CREATED only as admission has written it: no move leads back there.
CreatedIsNew == \A j \in Jobs : job[j].state = "CREATED" => job[j] = CreatedJob

\* The types of the rows, and the two facts about them that every step keeps.
AdmissionInv == TypeOK /\ NothingForgotten /\ CreatedIsNew

\* A move that the domain accepts makes a job row, and leads neither to CREATED nor to no job.
LEMMA MoveMakesRow ==
    ASSUME NEW r \in JobRows, NEW next \in JobStates, Accepts(r, next),
           r.revision < MaxRevision
    PROVE  /\ Moved(r, next) \in JobRows
           /\ Moved(r, next).state = next
           /\ next # "CREATED" /\ next # "none"
  <1>1. r.state \in JobStates /\ r.revision \in 1 .. MaxRevision
        /\ r.started \in BOOLEAN /\ r.finished \in BOOLEAN
    BY DEF JobRows
  <1>2. next # "CREATED" /\ next # "none"
    BY DEF Accepts, Transitions, JobStates
  <1>3. r.revision + 1 \in 1 .. MaxRevision
    BY <1>1, AdmissionAssumption
  <1>4. (r.started \/ next = "RUNNING") \in BOOLEAN /\ (r.finished \/ next \in Terminal) \in BOOLEAN
    OBVIOUS
  <1>5. Moved(r, next) \in JobRows
    BY <1>3, <1>4 DEF Moved, JobRows
  <1>6. Moved(r, next).state = next
    BY DEF Moved
  <1> QED
    BY <1>2, <1>5, <1>6

\* The job that admission creates is a r.
LEMMA CreatedIsRow == CreatedJob \in JobRows /\ CreatedJob # NoJob /\ CreatedJob.state = "CREATED"
  BY AdmissionAssumption DEF CreatedJob, JobRows, JobStates, NoJob

\* What promote makes of a job that is ready is QUEUED.
LEMMA PromotedIsQueued ==
    ASSUME AdmissionInv, NEW j \in Jobs, Ready(j)
    PROVE  promoteOne(j) \in JobRows /\ promoteOne(j).state = "QUEUED"
  <1>1. job[j] \in JobRows
    BY DEF AdmissionInv, TypeOK, Ready, NoJob
  <1>2. CASE job[j].state = "CREATED"
    <2>1. job[j] = CreatedJob
      BY <1>2 DEF AdmissionInv, CreatedIsNew
    <2>2. Accepts(job[j], "QUEUED")
      BY <2>1 DEF CreatedJob, Accepts, Transitions, Terminal
    <2>3. job[j].revision < MaxRevision
      BY <2>1, AdmissionAssumption DEF CreatedJob
    <2>4. "QUEUED" \in JobStates
      BY DEF JobStates
    <2> QED
      BY <1>1, <1>2, <2>2, <2>3, <2>4, MoveMakesRow DEF promoteOne
  <1>3. CASE job[j].state # "CREATED"
    BY <1>1, <1>3 DEF promoteOne, Ready
  <1> QED
    BY <1>2, <1>3

\* There is neither a job nor a request at first.
LEMMA AdmissionInit == Init => AdmissionInv
  <1> SUFFICES ASSUME Init PROVE AdmissionInv
    OBVIOUS
  <1>1. TypeOK
    BY DEF Init, TypeOK
  <1>2. NothingForgotten
    BY DEF Init, NothingForgotten
  <1>3. CreatedIsNew
    BY DEF Init, CreatedIsNew, NoJob
  <1> QED
    BY <1>1, <1>2, <1>3 DEF AdmissionInv

\* Admission writes the job, its request and its dispatch record in one transaction.
LEMMA AdmitIsSafe == ASSUME AdmissionInv, NEW j \in Jobs, Admit(j) PROVE AdmissionInv'
  <1> USE DEF AdmissionInv
  <1>1. job' = [job EXCEPT ![j] = CreatedJob] /\ dispatch' = [dispatch EXCEPT ![j] = "pending"]
        /\ request' = request \cup {j}
    BY DEF Admit
  <1>2. told' \in [Jobs -> SUBSET {"admitted", "conflict"}]
    <2>1. CASE told' = told
      BY <2>1 DEF TypeOK
    <2>2. CASE told' = [told EXCEPT ![j] = @ \cup {"admitted"}]
      BY <2>2 DEF TypeOK
    <2> QED
      BY <2>1, <2>2 DEF Admit, Told
  <1>3. TypeOK'
    BY <1>1, <1>2, CreatedIsRow DEF TypeOK
  <1>4. NothingForgotten'
    BY <1>1, CreatedIsRow DEF NothingForgotten, TypeOK
  <1>5. CreatedIsNew'
    BY <1>1 DEF CreatedIsNew, TypeOK
  <1> QED
    BY <1>3, <1>4, <1>5

\* A repeated request is answered from what the first has left.
LEMMA ReplayIsSafe == ASSUME AdmissionInv, NEW j \in Jobs, Replay(j) PROVE AdmissionInv'
  <1> USE DEF AdmissionInv
  <1>1. UNCHANGED <<job, request, dispatch>>
    BY DEF Replay
  <1>2. PICK reply \in {"admitted", "conflict"} : Told(j, reply)
    BY DEF Replay
  <1>3. told' \in [Jobs -> SUBSET {"admitted", "conflict"}]
    <2>1. CASE told' = told
      BY <2>1 DEF TypeOK
    <2>2. CASE told' = [told EXCEPT ![j] = @ \cup {reply}]
      BY <2>2 DEF TypeOK
    <2> QED
      BY <1>2, <2>1, <2>2 DEF Told
  <1> QED
    BY <1>1, <1>3 DEF TypeOK, NothingForgotten, CreatedIsNew

\* The coordinator queues the jobs whose records it delivers.
LEMMA PromoteIsSafe == ASSUME AdmissionInv, promote PROVE AdmissionInv'
  <1> DEFINE batch == {j \in listPending : Ready(j)}
  <1>1. /\ job' = [j \in Jobs |-> IF j \in batch THEN promoteOne(j) ELSE job[j]]
        /\ dispatch' = [j \in Jobs |-> IF j \in batch THEN "delivered" ELSE dispatch[j]]
        /\ UNCHANGED <<request, told>>
    BY DEF promote
  <1>2. \A j \in batch : /\ j \in Jobs /\ dispatch[j] = "pending"
                         /\ promoteOne(j) \in JobRows /\ promoteOne(j).state = "QUEUED"
    BY PromotedIsQueued DEF listPending
  <1>3. \A j \in batch : promoteOne(j) # NoJob /\ promoteOne(j).state # "CREATED"
    BY <1>2 DEF NoJob
  <1> HIDE DEF batch
  <1>4. TypeOK'
    <2>1. job' \in [Jobs -> JobRows \cup {NoJob}]
      BY <1>1, <1>2 DEF AdmissionInv, TypeOK
    <2>2. dispatch' \in [Jobs -> {"none", "pending", "delivered"}]
      BY <1>1 DEF AdmissionInv, TypeOK
    <2> QED
      BY <1>1, <2>1, <2>2 DEF AdmissionInv, TypeOK
  <1>5. NothingForgotten'
    BY <1>1, <1>2, <1>3 DEF AdmissionInv, NothingForgotten
  <1>6. CreatedIsNew'
    BY <1>1, <1>3 DEF AdmissionInv, CreatedIsNew
  <1> QED
    BY <1>4, <1>5, <1>6 DEF AdmissionInv

\* A move writes one row, and leads neither to CREATED nor to no job.
LEMMA TransitionIsSafe ==
    ASSUME AdmissionInv, NEW j \in Jobs, NEW next \in JobStates, transition(j, next) PROVE AdmissionInv'
  <1>1. job[j] \in JobRows
    BY DEF AdmissionInv, TypeOK, transition
  <1>2. /\ job' = [job EXCEPT ![j] = Moved(job[j], next)]
        /\ UNCHANGED <<request, dispatch, told>>
    BY DEF transition
  <1>3. /\ Moved(job[j], next) \in JobRows /\ Moved(job[j], next).state = next
        /\ next # "CREATED" /\ next # "none"
    BY <1>1, MoveMakesRow DEF transition
  <1>4. Moved(job[j], next) # NoJob
    BY <1>3 DEF NoJob
  <1>5. TypeOK'
    BY <1>2, <1>3 DEF AdmissionInv, TypeOK
  <1>6. NothingForgotten'
    BY <1>2, <1>3, <1>4 DEF AdmissionInv, NothingForgotten, TypeOK, transition
  <1>7. CreatedIsNew'
    BY <1>2, <1>3 DEF AdmissionInv, CreatedIsNew, TypeOK
  <1> QED
    BY <1>5, <1>6, <1>7 DEF AdmissionInv

\* Every step keeps the invariant.
LEMMA AdmissionStep == AdmissionInv /\ [Next]_vars => AdmissionInv'
  <1> SUFFICES ASSUME AdmissionInv, [Next]_vars PROVE AdmissionInv'
    OBVIOUS
  <1>1. CASE UNCHANGED vars
    BY <1>1 DEF vars, AdmissionInv, TypeOK, NothingForgotten, CreatedIsNew
  <1>2. CASE Next
    BY <1>2, AdmitIsSafe, ReplayIsSafe, PromoteIsSafe, TransitionIsSafe DEF Next
  <1> QED
    BY <1>1, <1>2

\* The inductive invariant of admission, moves and promotion.
THEOREM AdmissionInvariant == Spec => []AdmissionInv
  BY AdmissionInit, AdmissionStep, PTL DEF Spec

\* Rows of jobs, dispatch records and answers keep their types.
THEOREM AdmissionTypes == Spec => []TypeOK
  <1>1. AdmissionInv => TypeOK
    BY DEF AdmissionInv
  <1> QED
    BY <1>1, AdmissionInvariant, PTL

\* A job, its request and its dispatch record stay together, and none is delivered in CREATED.
THEOREM NothingIsForgotten == Spec => []NothingForgotten
  <1>1. AdmissionInv => NothingForgotten
    BY DEF AdmissionInv
  <1> QED
    BY <1>1, AdmissionInvariant, PTL

\* What a step does to the dispatch records.
LEMMA AdmissionPassesOnOnce ==
    ASSUME AdmissionInv, [Next]_vars, NEW j \in Jobs
    PROVE  /\ dispatch[j] = "delivered" => dispatch'[j] = "delivered"
           /\ dispatch[j] = "pending" /\ dispatch'[j] = "delivered" =>
                 job[j].state \in {"CREATED", "QUEUED"} /\ job'[j].state = "QUEUED"
  <1>1. CASE UNCHANGED vars
    BY <1>1 DEF vars
  <1>2. ASSUME NEW i \in Jobs, Admit(i)
        PROVE dispatch[i] = "none" /\ dispatch' = [dispatch EXCEPT ![i] = "pending"]
    BY <1>2 DEF Admit, Fresh
  <1>3. ASSUME NEW i \in Jobs, Admit(i) \/ Replay(i) PROVE
           /\ dispatch[j] = "delivered" => dispatch'[j] = "delivered"
           /\ dispatch[j] = "pending" => dispatch'[j] = "pending"
    BY <1>2, <1>3 DEF Replay, AdmissionInv, TypeOK
  <1>4. CASE promote
    <2>1. dispatch'[j] = IF j \in listPending /\ Ready(j) THEN "delivered" ELSE dispatch[j]
      BY <1>4 DEF promote
    <2>2. job'[j] = IF j \in listPending /\ Ready(j) THEN promoteOne(j) ELSE job[j]
      BY <1>4 DEF promote
    <2> QED
      BY <2>1, <2>2, PromotedIsQueued DEF Ready
  <1>5. ASSUME NEW i \in Jobs, NEW next \in JobStates, transition(i, next) PROVE dispatch' = dispatch
    BY <1>5 DEF transition
  <1> QED
    BY <1>1, <1>3, <1>4, <1>5 DEF Next

\* The coordinator passes a job on once, and only one that waits for it.
THEOREM JobsArePassedOnOnce == Spec => PassedOnOnce
  <1>1. AdmissionInv /\ [Next]_vars => [\A j \in Jobs :
          /\ dispatch[j] = "delivered" => dispatch'[j] = "delivered"
          /\ dispatch[j] = "pending" /\ dispatch'[j] = "delivered" =>
                job[j].state \in {"CREATED", "QUEUED"} /\ job'[j].state = "QUEUED"]_vars
    BY AdmissionPassesOnOnce
  <1> QED
    BY <1>1, AdmissionInvariant, PTL DEF Spec, PassedOnOnce

-----------------------------------------------------------------------------
(* DeviceSync: the queue of a device and the requests under way.            *)

\* What the background work of the device keeps from one step to the next.
DeviceWorks == [phase : {"idle", "pull", "send", "wait", "settle"}, snapshot : SUBSET Device!Ops,
                sent : SUBSET Device!Ops, slot : DeviceSlots \cup {0},
                code : {"none", "accepted", "CURSOR_STALE", "REVISION_CONFLICT", "IMMUTABLE_RECORD"}]

\* A row has the revision of its status: it is inserted, accepted and settled, once each.
DeviceRow(r) ==
    \/ r = Device!NoRow
    \/ r = [status |-> "QUEUED", revision |-> 1]
    \/ r = [status |-> "ACCEPTED", revision |-> 2]
    \/ r.status \in Device!Final /\ r.revision = 3

\* What the device counts as sent is in the server, and so is the batch of a snapshot it is about to
\* delete.
DeviceSent ==
    /\ \A o \in work.sent : row[o].status # "none"
    /\ work.phase = "settle" /\ work.code = "accepted" =>
           \A o \in work.snapshot : Device!InBatch(work.snapshot, o) => row[o].status # "none"

\* The unique index: one uncommitted insert, and no row before it commits.
DeviceInserts ==
    \A o \in Device!Ops, s \in DeviceSlots : request_handler[o][s] = "inserted" =>
        /\ row[o].status = "none"
        /\ \A t \in DeviceSlots : request_handler[o][t] = "inserted" => t = s

\* What a transaction is about to save follows the revision it has read.
DeviceDecision(d) ==
    d.phase = "save" =>
        /\ \/ d.status = "ACCEPTED" /\ d.revision = 1
           \/ d.status \in Device!Final /\ d.revision = 2
        /\ d.conflict => d.status = "CONFLICT"

\* The inductive invariant: a deletion rests on what was sent, on the rows and on the requests under
\* way.
DeviceInv ==
    /\ Device!TypeOK
    /\ \A o \in Device!Ops : DeviceRow(row[o])
    /\ DeviceSent
    /\ DeviceInserts
    /\ \A d \in DeviceDeciders : DeviceDecision(decision[d])
    /\ Device!DeletedIsAdmitted
    /\ Device!ConflictStops

\* There is an empty queue and no row at first.
LEMMA DeviceInit == Device!Init => DeviceInv
  <1> SUFFICES ASSUME Device!Init PROVE DeviceInv
    OBVIOUS
  <1>1. Device!TypeOK
    BY DeviceAssumption DEF Device!Init, Device!TypeOK, Device!Ops, Device!NoRow, Device!NoWork,
       Device!NoDecision, Device!Open, Device!Final
  <1> QED
    BY <1>1 DEF Device!Init, DeviceInv, Device!TypeOK, DeviceRow, DeviceSent, DeviceInserts,
       DeviceDecision, Device!DeletedIsAdmitted,
     Device!ConflictStops, Device!NoRow, Device!NoWork, Device!NoDecision, Device!Final, Device!Open,
         Device!Ops

\* The steps of the device alone change no row.
LEMMA DeviceServerStays ==
    ASSUME DeviceInv, UNCHANGED <<request_handler, row, decision, conflicts>>,
           local' \in [Device!Ops -> {"none", "queued", "conflict", "quarantined", "deleted"}],
           overlooked \subseteq overlooked',
           \A o \in Device!Ops : local'[o] = "deleted" /\ local[o] # "deleted" =>
               row[o].status # "none" \/ o \in overlooked',
           Device!TypeOK', DeviceSent'
    PROVE  DeviceInv'
  BY DEF DeviceInv, DeviceInserts, Device!DeletedIsAdmitted, Device!ConflictStops

\* A run pulls, sends the batch, deletes what was settled and starts over.
LEMMA DeviceRuns ==
    ASSUME DeviceInv, Device!Run PROVE DeviceInv'
  <1> USE DEF DeviceInv
  <1>1. CASE Device!doWork
    <2>1. Device!TypeOK' /\ DeviceSent'
      BY <1>1 DEF Device!doWork, Device!TypeOK, DeviceSent, Device!NoWork, Device!snapshot,
         Device!server
    <2> QED
      BY <1>1, <2>1, DeviceServerStays DEF Device!doWork, Device!TypeOK, Device!server
  <1>2. CASE Device!bootstrapAndPull
    <2>1. Device!TypeOK' /\ DeviceSent'
      BY <1>2 DEF Device!bootstrapAndPull, Device!TypeOK, DeviceSent, Device!server
    <2> QED
      BY <1>2, <2>1, DeviceServerStays DEF Device!bootstrapAndPull, Device!TypeOK, Device!server
  <1>3. CASE Device!AllAdmitted
    <2>1. \A o \in work.snapshot : Device!InBatch(work.snapshot, o) => o \in work.sent
      BY <1>3 DEF Device!AllAdmitted, Device!Unsent
    <2>2. Device!TypeOK' /\ DeviceSent'
      BY <1>3, <2>1 DEF Device!AllAdmitted, Device!TypeOK, DeviceSent, Device!server
    <2> QED
      BY <1>3, <2>2, DeviceServerStays DEF Device!AllAdmitted, Device!TypeOK, Device!server
  <1>4. CASE Device!Settle
    <2>1. Device!TypeOK' /\ DeviceSent'
      BY <1>4 DEF Device!Settle, Device!Settled, Device!TypeOK, DeviceSent, Device!NoWork, Device!server
    <2>2. \A o \in Device!Ops : local'[o] = "deleted" /\ local[o] # "deleted" =>
              row[o].status # "none" \/ o \in overlooked'
      BY <1>4 DEF Device!Settle, Device!Settled, Device!TypeOK, DeviceSent
    <2> QED
      BY <1>4, <2>1, <2>2, DeviceServerStays DEF Device!Settle, Device!TypeOK, Device!server
  <1>5. ASSUME NEW s \in DeviceSlots, Device!admit(s) PROVE DeviceInv'
    <2> DEFINE o == Device!Oldest(Device!Unsent)
    <2>1. /\ request_handler' = [request_handler EXCEPT ![o][s] = "find"]
          /\ work' = [work EXCEPT !.phase = "wait", !.slot = s]
          /\ UNCHANGED <<local, overlooked, row, decision, conflicts, faults>>
      BY <1>5 DEF Device!admit
    <2> HIDE DEF o
    <2>2. request_handler' \in [Device!Ops -> [DeviceSlots -> {"free", "find", "save", "create",
              "inserted"}]]
      BY <2>1 DEF Device!TypeOK
    <2>3. Device!TypeOK'
      BY <2>1, <2>2 DEF Device!TypeOK
    <2>4. DeviceSent'
      BY <2>1 DEF DeviceSent, Device!TypeOK
    <2>5. DeviceInserts'
      BY <2>1 DEF DeviceInserts, Device!TypeOK
    <2> QED
      BY <2>1, <2>3, <2>4, <2>5 DEF Device!DeletedIsAdmitted, Device!ConflictStops
  <1> QED
    BY <1>1, <1>2, <1>3, <1>4, <1>5 DEF Device!Run

\* The device takes an answer for the request it waits for: it counts as sent what was accepted.
LEMMA DeviceAnswers ==
    ASSUME DeviceInv, NEW o \in Device!Ops, NEW s \in DeviceSlots,
           NEW code \in {"accepted", "IMMUTABLE_RECORD", "REVISION_CONFLICT"}, Device!Answer(o, s,
               code),
           code = "accepted" => row'[o].status # "none",
           \A p \in Device!Ops : row[p].status # "none" => row'[p].status # "none"
    PROVE  /\ work' \in DeviceWorks
           /\ DeviceSent'
  <1>1. CASE work' = work
    BY <1>1 DEF DeviceInv, DeviceSent, Device!TypeOK, DeviceWorks
  <1>2. CASE work' = [work EXCEPT !.phase = "send", !.slot = 0, !.sent = @ \cup {o}]
            /\ code = "accepted"
    BY <1>2 DEF DeviceInv, DeviceSent, Device!TypeOK, DeviceWorks
  <1>3. CASE work' = [work EXCEPT !.phase = "settle", !.slot = 0, !.code = code] /\ code # "accepted"
    BY <1>3 DEF DeviceInv, DeviceSent, Device!TypeOK, DeviceWorks
  <1> QED
    BY <1>1, <1>2, <1>3 DEF Device!Answer

\* A request goes on while the rows stay.
LEMMA DeviceGoes ==
    ASSUME DeviceInv, NEW o \in Device!Ops, NEW s \in DeviceSlots,
           NEW phase \in {"free", "find", "save", "create", "inserted"}, Device!Goes(o, s, phase),
           phase = "inserted" =>
               row[o].status = "none" /\ \A t \in DeviceSlots : request_handler[o][t] # "inserted",
           UNCHANGED <<local, overlooked, row, decision, conflicts>>, faults' \in 0 .. DeviceMaxFaults,
           work' \in DeviceWorks,
           DeviceSent'
    PROVE  DeviceInv'
  <1> USE DEF DeviceInv
  <1>1. request_handler' \in [Device!Ops -> [DeviceSlots -> {"free", "find", "save", "create",
            "inserted"}]]
    BY DEF Device!Goes, Device!TypeOK
  <1>2. Device!TypeOK'
    BY <1>1 DEF Device!TypeOK, DeviceWorks
  <1>3. DeviceInserts'
    BY DEF Device!Goes, DeviceInserts, Device!TypeOK
  <1> QED
    BY <1>2, <1>3 DEF Device!DeletedIsAdmitted, Device!ConflictStops

\* A request that inserted commits.
LEMMA DeviceCommits ==
    ASSUME DeviceInv, NEW o \in Device!Ops, NEW s \in DeviceSlots, request_handler[o][s] = "inserted",
           Device!Goes(o, s, "free"), row' = [row EXCEPT ![o] = [status |-> "QUEUED", revision |-> 1]],
           UNCHANGED <<local, overlooked, decision, conflicts>>, faults' \in 0 .. DeviceMaxFaults,
           work' \in DeviceWorks,
           DeviceSent'
    PROVE  DeviceInv'
  <1> USE DEF DeviceInv
  <1>1. /\ request_handler' \in [Device!Ops -> [DeviceSlots -> {"free", "find", "save", "create",
            "inserted"}]]
        /\ row' \in [Device!Ops -> [status : Device!Open \cup Device!Final \cup {"none"},
            revision : 0 .. 3]]
    BY DEF Device!Goes, Device!TypeOK, Device!Open
  <1>2. Device!TypeOK'
    BY <1>1 DEF Device!TypeOK, DeviceWorks
  <1>3. \A p \in Device!Ops : DeviceRow(row[p])'
    BY DEF DeviceRow, Device!TypeOK
  <1>4. row[o].status = "none" /\ \A t \in DeviceSlots \ {s} : request_handler[o][t] # "inserted"
    BY DEF DeviceInserts
  <1>5. DeviceInserts'
    BY <1>4 DEF Device!Goes, DeviceInserts, Device!TypeOK
  <1>6. Device!DeletedIsAdmitted' /\ Device!ConflictStops'
    BY <1>4 DEF Device!DeletedIsAdmitted, Device!ConflictStops, Device!TypeOK
  <1> QED
    BY <1>2, <1>3, <1>5, <1>6

\* The request of an operation inserts its row, finds it, or is refused.
LEMMA DeviceEnqueues ==
    ASSUME DeviceInv, NEW o \in Device!Ops, NEW s \in DeviceSlots, Device!Enqueue(o, s) PROVE DeviceInv'
  <1>0. faults \in 0 .. DeviceMaxFaults /\ work \in DeviceWorks /\ DeviceSent
    BY DEF DeviceInv, Device!TypeOK, DeviceWorks
  <1>1. CASE Device!findOperationByIdempotency(o, s)
    <2>1. CASE row[o].status = "none"
      <3>1. DeviceSent'
        BY <1>0, <1>1, <2>1 DEF Device!findOperationByIdempotency, DeviceSent
      <3> QED
        BY <1>0, <1>1, <2>1, <3>1, DeviceGoes DEF Device!findOperationByIdempotency
    <2>2. CASE row[o].status # "none"
      BY <1>0, <1>1, <2>2, DeviceGoes, DeviceAnswers DEF Device!findOperationByIdempotency
    <2> QED
      BY <2>1, <2>2
  <1>2. CASE Device!saveOperation(o, s)
    <2>1. CASE row[o].status = "none"
      <3>1. DeviceSent'
        BY <1>0, <1>2, <2>1 DEF Device!saveOperation, DeviceSent
      <3> QED
        BY <1>0, <1>2, <2>1, <3>1, DeviceGoes DEF Device!saveOperation
    <2>2. CASE row[o].status # "none"
      BY <1>0, <1>2, <2>2, DeviceGoes, DeviceAnswers DEF Device!saveOperation
    <2> QED
      BY <2>1, <2>2
  <1>3. CASE Device!create(o, s)
    <2>1. CASE row[o].status = "none"
      <3>1. DeviceSent'
        BY <1>0, <1>3, <2>1 DEF Device!create, DeviceSent
      <3> QED
        BY <1>0, <1>3, <2>1, <3>1, DeviceGoes DEF Device!create
    <2>2. CASE row[o].status # "none"
      BY <1>0, <1>3, <2>2, DeviceGoes, DeviceAnswers DEF Device!create
    <2> QED
      BY <2>1, <2>2
  <1>4. CASE Device!Commit(o, s)
    <2>1. row'[o].status # "none" /\ \A p \in Device!Ops : row[p].status # "none" =>
              row'[p].status # "none"
      BY <1>4 DEF Device!Commit, DeviceInv, Device!TypeOK
    <2> QED
      BY <1>0, <1>4, <2>1, DeviceCommits, DeviceAnswers DEF Device!Commit
  <1> QED
    BY <1>1, <1>2, <1>3, <1>4 DEF Device!Enqueue

\* A decision reads the row that it is about to change.
LEMMA DeviceFinds ==
    ASSUME DeviceInv, NEW d \in DeviceDeciders, NEW o \in Device!Ops, NEW conflict \in BOOLEAN,
           Device!findOperation(d, o, conflict)
    PROVE  DeviceInv'
  <1> USE DEF DeviceInv
  <1>1. PICK next \in Device!Successors(row[o].status) :
            /\ conflict => next = "CONFLICT"
            /\ decision' = [decision EXCEPT ![d] =
                  [phase |-> "save", op |-> o, status |-> next, revision |-> row[o].revision,
                   conflict |-> conflict]]
    BY DEF Device!findOperation
  <1>2. /\ row[o].revision \in 0 .. 3
        /\ \/ next = "ACCEPTED" /\ row[o].revision = 1
           \/ next \in Device!Final /\ row[o].revision = 2
    <2>1. row[o].revision \in 0 .. 3 /\ DeviceRow(row[o])
      BY DEF Device!TypeOK
    <2> QED
      BY <1>1, <2>1 DEF Device!Successors, DeviceRow, Device!NoRow, Device!Final
  <1>3. Device!TypeOK'
    BY <1>1, <1>2 DEF Device!findOperation, Device!TypeOK, Device!Open
  <1>4. \A e \in DeviceDeciders : DeviceDecision(decision[e])'
    BY <1>1, <1>2 DEF DeviceDecision, Device!TypeOK
  <1>5. DeviceSent' /\ DeviceInserts' /\ Device!DeletedIsAdmitted' /\ Device!ConflictStops'
    BY DEF Device!findOperation, DeviceSent, DeviceInserts, Device!DeletedIsAdmitted,
       Device!ConflictStops
  <1> QED
    BY <1>3, <1>4, <1>5 DEF Device!findOperation

\* A decision is saved only when the row has the revision that was read.
LEMMA DeviceSaves ==
    ASSUME DeviceInv, NEW d \in DeviceDeciders, Device!saveDecision(d) PROVE DeviceInv'
  <1> USE DEF DeviceInv
  <1> DEFINE o == decision[d].op
  <1>1. o \in Device!Ops
    BY DEF Device!TypeOK
  <1>2. decision' = [decision EXCEPT ![d] = Device!NoDecision] /\ UNCHANGED <<local, overlooked, work,
            request_handler, faults>>
    BY DEF Device!saveDecision
  <1>3. \A e \in DeviceDeciders : DeviceDecision(decision[e])'
    BY <1>2 DEF DeviceDecision, Device!NoDecision, Device!TypeOK
  <1>4. CASE Device!Current(d)
    <2>1. /\ row' = [row EXCEPT ![o] = [status |-> decision[d].status,
                                        revision |-> decision[d].revision + 1]]
          /\ conflicts' = IF decision[d].conflict THEN conflicts \cup {o} ELSE conflicts
      BY <1>4 DEF Device!saveDecision
    <2>2. /\ \/ decision[d].status = "ACCEPTED" /\ decision[d].revision = 1
             \/ decision[d].status \in Device!Final /\ decision[d].revision = 2
          /\ decision[d].conflict => decision[d].status = "CONFLICT"
          /\ decision[d].conflict \in BOOLEAN
      BY DEF Device!saveDecision, DeviceDecision, Device!TypeOK
    <2>3. row[o].status \in Device!Open
      BY <1>1, <1>4, <2>2 DEF Device!Current, DeviceRow, Device!Final, Device!Open, Device!NoRow
    <2> HIDE DEF o
    <2>4. Device!TypeOK'
      BY <1>1, DeviceAssumption, <1>2, <2>1, <2>2 DEF Device!TypeOK, Device!Ops, Device!NoDecision,
         Device!Open
    <2>5. \A p \in Device!Ops : DeviceRow(row[p])'
      BY <1>1, <2>1, <2>2 DEF DeviceRow, Device!TypeOK
    <2>6. DeviceSent' /\ Device!DeletedIsAdmitted'
      BY <1>1, <1>2, <2>1, <2>2 DEF DeviceSent, Device!DeletedIsAdmitted, Device!TypeOK, Device!Final
    <2>7. DeviceInserts'
      BY <1>1, <1>2, <2>1, <2>2, <2>3 DEF DeviceInserts, Device!TypeOK, Device!Open
    <2>8. Device!ConflictStops'
      BY <1>1, <2>1, <2>2, <2>3 DEF Device!ConflictStops, Device!TypeOK, Device!Open
    <2> QED
      BY <1>3, <2>4, <2>5, <2>6, <2>7, <2>8
  <1>5. CASE ~Device!Current(d)
    <2>1. UNCHANGED <<row, conflicts>>
      BY <1>5 DEF Device!saveDecision
    <2>2. Device!TypeOK'
      BY <1>1, DeviceAssumption, <1>2, <2>1 DEF Device!TypeOK, Device!Ops, Device!NoDecision
    <2> QED
      BY <1>2, <1>3, <2>1, <2>2 DEF DeviceSent, DeviceInserts, Device!DeletedIsAdmitted,
         Device!ConflictStops
  <1> QED
    BY <1>4, <1>5

\* What goes wrong: a run starts over, a request or an answer is lost.
LEMMA DeviceFailures ==
    ASSUME DeviceInv,
           \/ Device!LoseRequest
           \/ Device!Timeout
           \/ Device!Crash
           \/ \E o \in Device!Ops, s \in DeviceSlots : Device!LoseAnswer(o, s)
               \/ Device!DatabaseFails(o, s)
    PROVE  DeviceInv'
  <1> USE DEF DeviceInv
  <1>0. /\ Device!NoWork \in DeviceWorks
        /\ \A kind : Device!Fault(kind) => faults' \in 0 .. DeviceMaxFaults
    BY DeviceAssumption DEF Device!NoWork, Device!Fault, Device!TypeOK, DeviceWorks
  <1>1. CASE Device!Timeout \/ Device!Crash
    <2>1. Device!TypeOK' /\ DeviceSent'
      BY <1>0, <1>1 DEF Device!Timeout, Device!Crash, Device!Retryable, Device!TypeOK, DeviceSent,
         Device!NoWork, Device!server
    <2> QED
      BY <1>1, <2>1, DeviceServerStays DEF Device!Timeout, Device!Crash, Device!TypeOK, Device!server
  <1>2. CASE Device!LoseRequest
    <2> DEFINE o == Device!Oldest(Device!Unsent)
    <2>1. /\ request_handler' = request_handler
              \/ request_handler' = [request_handler EXCEPT ![o][work.slot] = "free"]
          /\ work' = Device!NoWork
          /\ UNCHANGED <<local, overlooked, row, decision, conflicts>>
          /\ faults' \in 0 .. DeviceMaxFaults
      BY <1>0, <1>2 DEF Device!LoseRequest, Device!Retryable
    <2> HIDE DEF o
    <2>2. request_handler' \in [Device!Ops -> [DeviceSlots -> {"free", "find", "save", "create",
              "inserted"}]]
      <3>0. \A p \in Device!Ops : /\ request_handler[p] \in [DeviceSlots -> {"free", "find", "save",
                                      "create", "inserted"}]
                           /\ \/ request_handler'[p] = request_handler[p]
                              \/ request_handler'[p] = [request_handler[p] EXCEPT ![work.slot] = "free"]
        BY <2>1 DEF Device!TypeOK
      <3>1. \A p \in Device!Ops : request_handler'[p] \in [DeviceSlots -> {"free", "find", "save",
                "create", "inserted"}]
        BY <3>0
      <3>2. request_handler' = [p \in Device!Ops |-> request_handler'[p]]
        BY <2>1 DEF Device!TypeOK
      <3> QED
        BY <3>1, <3>2
    <2>3. Device!TypeOK'
      BY <1>0, <2>1, <2>2 DEF Device!TypeOK, DeviceWorks
    <2>4. DeviceSent'
      BY <2>1 DEF DeviceSent, Device!NoWork
    <2>5. DeviceInserts'
      <3>0. \A p \in Device!Ops : /\ request_handler[p] \in [DeviceSlots -> {"free", "find", "save",
                                      "create", "inserted"}]
                           /\ \/ request_handler'[p] = request_handler[p]
                              \/ request_handler'[p] = [request_handler[p] EXCEPT ![work.slot] = "free"]
        BY <2>1 DEF Device!TypeOK
      <3>1. \A p \in Device!Ops, s \in DeviceSlots : request_handler'[p][s] = "inserted" =>
                request_handler[p][s] = "inserted"
        BY <3>0
      <3> QED
        BY <2>1, <3>1 DEF DeviceInserts
    <2> QED
      BY <2>1, <2>3, <2>4, <2>5 DEF Device!DeletedIsAdmitted, Device!ConflictStops
  <1>3. ASSUME NEW o \in Device!Ops, NEW s \in DeviceSlots, Device!LoseAnswer(o, s) PROVE DeviceInv'
    <2>1. /\ work' = Device!NoWork \/ work' = work
          /\ faults' \in 0 .. DeviceMaxFaults
      BY <1>0, <1>3 DEF Device!LoseAnswer, Device!Retryable
    <2>2. DeviceSent'
      BY <1>3, <2>1 DEF Device!LoseAnswer, DeviceSent, Device!NoWork, Device!TypeOK
    <2> QED
      BY <1>0, <1>3, <2>1, <2>2, DeviceCommits DEF Device!LoseAnswer, Device!TypeOK, DeviceWorks
  <1>4. ASSUME NEW o \in Device!Ops, NEW s \in DeviceSlots, Device!DatabaseFails(o, s) PROVE DeviceInv'
    <2>1. faults' \in 0 .. DeviceMaxFaults
      BY <1>0, <1>4 DEF Device!DatabaseFails
    <2>2. UNCHANGED <<local, overlooked, row, decision, conflicts>>
      BY <1>4 DEF Device!DatabaseFails
    <2> QED
      BY <1>4, <2>1, <2>2, DeviceGoes, DeviceAnswers DEF Device!DatabaseFails
  <1> QED
    BY <1>1, <1>2, <1>3, <1>4

\* Every step keeps the invariant.
LEMMA DeviceStep == ASSUME DeviceInv, [Device!Next]_Device!vars PROVE DeviceInv'
  <1>1. ASSUME NEW o \in Device!Ops, Device!enqueueDeviceOperation(o) PROVE DeviceInv'
    <2>1. Device!TypeOK' /\ DeviceSent'
      BY <1>1 DEF Device!enqueueDeviceOperation, DeviceInv, Device!TypeOK, DeviceSent, Device!server
    <2> QED
      BY <1>1, <2>1, DeviceServerStays DEF Device!enqueueDeviceOperation, DeviceInv, Device!TypeOK,
         Device!server
  <1>2. CASE UNCHANGED Device!vars
    BY <1>2 DEF Device!vars, DeviceInv, Device!TypeOK, DeviceSent, DeviceInserts,
       Device!DeletedIsAdmitted, Device!ConflictStops
  <1> QED
    BY <1>1, <1>2, DeviceRuns, DeviceEnqueues, DeviceFinds, DeviceSaves, DeviceFailures DEF Device!Next

\* A row that has ended stays: an insert needs that there is none, a decision the revision before.
LEMMA DeviceEnds ==
    ASSUME DeviceInv, [Device!Next]_Device!vars, NEW o \in Device!Ops, row[o].status \in Device!Final
        PROVE row'[o] = row[o]
  <1>1. ASSUME NEW p \in Device!Ops, NEW s \in DeviceSlots, request_handler[p][s] = "inserted",
               row' = [row EXCEPT ![p] = [status |-> "QUEUED", revision |-> 1]]
        PROVE  row'[o] = row[o]
    BY <1>1 DEF DeviceInv, DeviceInserts, Device!TypeOK, Device!Final
  <1>2. ASSUME NEW p \in Device!Ops, NEW s \in DeviceSlots, Device!Enqueue(p, s) PROVE row'[o] = row[o]
    BY <1>1, <1>2 DEF Device!Enqueue, Device!findOperationByIdempotency, Device!saveOperation,
       Device!create, Device!Commit
  <1>3. ASSUME NEW p \in Device!Ops, NEW s \in DeviceSlots, Device!LoseAnswer(p, s)
            \/ Device!DatabaseFails(p, s)
        PROVE  row'[o] = row[o]
    BY <1>1, <1>3 DEF Device!LoseAnswer, Device!DatabaseFails
  <1>4. ASSUME NEW d \in DeviceDeciders, Device!saveDecision(d) PROVE row'[o] = row[o]
    <2>1. decision[d].phase = "save" /\ decision[d].op \in Device!Ops /\ decision[d].revision \in {1, 2}
      BY <1>4 DEF Device!saveDecision, DeviceInv, DeviceDecision, Device!TypeOK
    <2>2. row[o].revision = 3
      BY DEF DeviceInv, DeviceRow, Device!NoRow, Device!Final
    <2> QED
      BY <1>4, <2>1, <2>2 DEF Device!saveDecision, Device!Current, DeviceInv, Device!TypeOK
  <1>5. CASE Device!Run
    BY <1>5 DEF Device!Run, Device!doWork, Device!bootstrapAndPull, Device!admit, Device!AllAdmitted,
       Device!Settle, Device!server
  <1>6. CASE Device!LoseRequest \/ Device!Timeout \/ Device!Crash \/ UNCHANGED Device!vars
    BY <1>6 DEF Device!LoseRequest, Device!Timeout, Device!Crash, Device!vars, Device!server
  <1>7. ASSUME NEW p \in Device!Ops, Device!enqueueDeviceOperation(p) PROVE row'[o] = row[o]
    BY <1>7 DEF Device!enqueueDeviceOperation, Device!server
  <1>8. ASSUME NEW d \in DeviceDeciders, NEW p \in Device!Ops, NEW conflict \in BOOLEAN,
            Device!findOperation(d, p, conflict)
        PROVE  row'[o] = row[o]
    BY <1>8 DEF Device!findOperation
  <1> QED
    BY <1>2, <1>3, <1>4, <1>5, <1>6, <1>7, <1>8 DEF Device!Next

\* The invariant holds, whatever part of the queue a run takes.
THEOREM DeviceInvariant == Device!Spec => []DeviceInv
  <1>1. DeviceInv /\ [Device!Next]_Device!vars => DeviceInv'
    BY DeviceStep
  <1> QED
    BY <1>1, DeviceInit, PTL DEF Device!Spec

\* What left the queue is in the server, or was behind a full batch.
THEOREM DeletedIsInTheServer == Device!Spec => []Device!DeletedIsAdmitted
  <1>1. DeviceInv => Device!DeletedIsAdmitted
    BY DEF DeviceInv
  <1> QED
    BY <1>1, DeviceInvariant, PTL

\* An operation is accepted, rejected or in conflict for good, whatever is sent again.
THEOREM Decided == Device!Spec => Device!DecidedOnce
  <1>1. DeviceInv /\ [Device!Next]_Device!vars =>
            [\A o \in Device!Ops : row[o].status \in Device!Final => row'[o] = row[o]]_Device!vars
    BY DeviceEnds
  <1> QED
    BY <1>1, DeviceInvariant, PTL DEF Device!Spec, Device!DecidedOnce

\* The behaviours are those of the component, or leave it as it is.
LEMMA DeviceBehaves == Behaviours => Device!Spec
  <1>1. Start => Device!Init
    BY DEF Start
  <1>2. [Step]_everything => [Device!Next]_Device!vars
    BY DEF Step, everything, device_vars, Device!vars
  <1> QED
    BY <1>1, <1>2, PTL DEF Behaviours, Device!Spec

\* A conflict ends its operation; and operations that leave the queue of a device are in the server,
\* or were not among the first of the queue, those that a run sends.
THEOREM QueuesAreSafe == Behaviours => []QueueIsSafe
  <1>1. DeviceInv => QueueIsSafe
    BY DEF DeviceInv, QueueIsSafe
  <1> QED
    BY <1>1, DeviceBehaves, DeviceInvariant, PTL

-----------------------------------------------------------------------------
(* UsageLedger, whose proofs have a module of their own.                    *)

\* The behaviours are those of the component, or leave it as it is.
LEMMA UsageBehaves == Behaviours => Usage!Spec
  <1>1. Start => Usage!Init
    BY DEF Start
  <1>2. [Step]_everything => [Usage!Next]_Usage!vars
    BY DEF Step, everything, usage_vars, Usage!vars
  <1> QED
    BY <1>1, <1>2, PTL DEF Behaviours, Usage!Spec

\* Requests that overlap never reserve and use more of a scope than its limit, and reservations and
\* entries tell the same.
THEOREM QuotasHold == Behaviours => []QuotaHolds
  <1>1. Usage!Spec => [](Usage!NotOversubscribed /\ Usage!LedgerAgrees)
    BY UsageAssumption, Usage!QuotaIsKept
  <1>2. Usage!NotOversubscribed /\ Usage!LedgerAgrees => QuotaHolds
    BY DEF QuotaHolds
  <1> QED
    BY <1>1, <1>2, UsageBehaves, PTL

\* What a reservation was settled with stays, and so does what was decided about an operation.
THEOREM SettledIsForGood == Behaviours => SettledForGood
  <1>1. Usage!Spec => Usage!ReservationSettledOnce
    BY UsageAssumption, Usage!ReservationsAreSettledOnce
  <1> QED
    BY <1>1, UsageBehaves, DeviceBehaves, Decided, PTL DEF SettledForGood

-----------------------------------------------------------------------------
(* Payments: orders, webhooks, the subscription.                            *)

\* What a webhook handler keeps from one step to the next.
PayRows == [at : Pay!HandlerSteps, event : PaymentEvents \cup {None}, read : Pay!OrderRows \cup {None},
    revision : Nat]

\* The steps of a handler whose event is received and not yet recorded.
Receiving == {"order", "update", "snapshot", "insert", "subscription", "invoice", "commit"}

\* A request that is served: its event was sent, only one that pays an order settles it, and what it
\* has inserted into the inbox is not there for others.
PayRow(n) ==
    /\ n.at # "idle" => n.event \in sent
    /\ n.at \in Receiving => inbox[n.event.id] = None
    /\ n.at \in Receiving \ {"order"} =>
          n.event.kind # "SHORT" /\ n.read \in Pay!OrderRows /\ order[n.event.order] \in Pay!OrderRows
    /\ n.at = "snapshot" \/ n.revision > 0 => n.event.kind = "PAID"
    /\ n.at \in {"idle", "inbox", "receive", "order", "update", "snapshot"} => n.revision = 0

\* Each event made one snapshot, which the inbox has, and settled an order that is not open since.
PaySnapshots ==
    /\ Pay!SettledOnce
    /\ invoices \subseteq link
    /\ snapshots # <<>> => subscription = snapshots[Len(snapshots)].order

\* The inductive invariant: no two handlers are in the transaction of one event, and the snapshots
\* are in the order of their revisions.
PayInv ==
    /\ Pay!TypeOK
    /\ \A h \in PaymentHandlers : PayRow(handler[h])
    /\ \A g, h \in PaymentHandlers : handler[g].at \in Receiving /\ handler[h].at \in Receiving
                              /\ handler[g].event.id = handler[h].event.id => g = h
    /\ \A o \in PaymentOrders : checkout[o] # "new" => order[o] \in Pay!OrderRows
    /\ \A o \in link : checkout[o] # "new"
    /\ \A e \in sent : e.order \in link
    /\ PaySnapshots

\* What an event is made of.
LEMMA PayEvents ==
    \A e \in PaymentEvents : e.order \in PaymentOrders /\ e.kind \in Pay!Kinds /\ e.id \in Pay!Ids
  BY PaymentAssumption

\* A row of the inbox is not the absence of one, so that no snapshot is of an event without a row.
LEMMA PayStored ==
    ASSUME PayInv, NEW e \in PaymentEvents, inbox[e.id] = None
    PROVE  \A i \in DOMAIN snapshots : snapshots[i].id # e.id
  <1> SUFFICES ASSUME NEW i \in DOMAIN snapshots, snapshots[i].id = e.id PROVE FALSE
    OBVIOUS
  <1>1. snapshots[i] \in PaymentEvents
    BY DEF PayInv, Pay!TypeOK
  <1>2. inbox[e.id] = [event |-> snapshots[i], state |-> "PROCESSED"]
    BY DEF PayInv, PaySnapshots, Pay!SettledOnce, Pay!SettlementsAreRecorded
  <1> QED
    BY <1>1, <1>2, PaymentAssumption DEF Pay!InboxRows

\* The steps that follow the receipt of an event, and the insertion of a snapshot.
LEMMA PayAfter ==
    /\ Pay!After("receive") = Receiving
    /\ Pay!After("insert") \subseteq Receiving
    /\ "commit" \in Pay!After("receive")
  BY DEF Pay!After, Receiving

\* No order is paid and no handler at work at first.
LEMMA PayInit == Pay!Init => PayInv
  <1> SUFFICES ASSUME Pay!Init PROVE PayInv
    OBVIOUS
  <1>1. <<>> \in Seq(PaymentEvents) /\ DOMAIN <<>> = {}
    OBVIOUS
  <1>2. Pay!Idle \in PayRows
    BY DEF Pay!Idle, PayRows, Pay!HandlerSteps
  <1>3. Pay!TypeOK
    BY <1>1, <1>2, PaymentAssumption DEF Pay!Init, Pay!TypeOK, PayRows
  <1>4. PaySnapshots
    BY <1>1 DEF Pay!Init, PaySnapshots, Pay!SettledOnce, Pay!EventsSettleOnce,
       Pay!SettlementsAreRecorded, Pay!SettledIsClosed
  <1> QED
    BY <1>3, <1>4 DEF Pay!Init, PayInv, PayRow, Pay!Idle, Receiving

\* A request goes on, and what is committed stays.
LEMMA PayMoves ==
    ASSUME PayInv, NEW h \in PaymentHandlers, NEW n \in PayRows, PayRow(n),
           handler' = [handler EXCEPT ![h] = n],
           n.at \in Receiving => \A g \in PaymentHandlers \ {h} :
               handler[g].at \in Receiving => handler[g].event.id # n.event.id,
           UNCHANGED <<Pay!database, checkout, link, sent>>,
           answered' \subseteq sent, answered' \subseteq PaymentEvents,
               failures' \in 0 .. PaymentMaxFailures
    PROVE  PayInv'
  <1> USE DEF Pay!database
  <1>1. handler \in [PaymentHandlers -> PayRows]
    BY DEF PayInv, Pay!TypeOK, PayRows
  <1>2. \A g \in PaymentHandlers : handler'[g] = IF g = h THEN n ELSE handler[g]
    BY <1>1
  <1>3. Pay!TypeOK'
    <2>1. handler' \in [PaymentHandlers -> PayRows]
      BY <1>1
    <2> QED
      BY <2>1 DEF PayInv, Pay!TypeOK, PayRows
  <1>4. \A g \in PaymentHandlers : PayRow(handler[g])'
    BY <1>2 DEF PayInv, PayRow
  <1>5. \A g, k \in PaymentHandlers : handler'[g].at \in Receiving /\ handler'[k].at \in Receiving
                              /\ handler'[g].event.id = handler'[k].event.id => g = k
    BY <1>2 DEF PayInv
  <1> QED
    BY <1>3, <1>4, <1>5 DEF PayInv, PaySnapshots, Pay!SettledOnce, Pay!EventsSettleOnce,
       Pay!SettlementsAreRecorded, Pay!SettledIsClosed

\* A transaction ends without a trace.
LEMMA PayReturns ==
    ASSUME PayInv, NEW h \in PaymentHandlers, NEW ok \in BOOLEAN, handler[h].at # "idle",
        Pay!Return(h, ok),
           UNCHANGED <<Pay!database, checkout>>, failures' \in 0 .. PaymentMaxFailures
    PROVE  PayInv'
  <1>1. Pay!Idle \in PayRows /\ PayRow(Pay!Idle) /\ Pay!Idle.at \notin Receiving
    BY DEF Pay!Idle, PayRows, Pay!HandlerSteps, PayRow, Receiving
  <1>2. handler' = [handler EXCEPT ![h] = Pay!Idle] /\ UNCHANGED <<link, sent>>
    BY DEF Pay!Return
  <1>3. answered' \subseteq sent /\ answered' \subseteq PaymentEvents
    BY DEF Pay!Return, PayInv, Pay!TypeOK, PayRow
  <1> QED
    BY <1>1, <1>2, <1>3, PayMoves

\* The steps of create.
LEMMA PayCreates == ASSUME PayInv, NEW o \in PaymentOrders, Pay!Create(o) PROVE PayInv'
  <1> USE DEF PayInv
  <1>1. order \in [PaymentOrders -> Pay!OrderRows \cup {None}]
        /\ checkout \in [PaymentOrders -> {"new", "provider", "link", "fail", "done"}]
    BY DEF Pay!TypeOK
  <1>2. ASSUME NEW w \in Pay!OrderRows, order' = [order EXCEPT ![o] = w] \/ order' = order,
               NEW s \in {"provider", "link", "fail", "done"}, checkout' = [checkout EXCEPT ![o] = s],
               order'[o] \in Pay!OrderRows, o \in invoices => order'[o].status # "PENDING",
               link' \in {link, link \cup {o}},
               UNCHANGED <<inbox, snapshots, subscription, invoices, handler, sent, answered, failures>>
        PROVE  PayInv'
    <2>1. \A p \in PaymentOrders : order[p] \in Pay!OrderRows => order'[p] \in Pay!OrderRows
      BY <1>1, <1>2
    <2>2. order' \in [PaymentOrders -> Pay!OrderRows \cup {None}]
      BY <1>1, <1>2
    <2>3. checkout' \in [PaymentOrders -> {"new", "provider", "link", "fail", "done"}]
      BY <1>1, <1>2
    <2>4. Pay!TypeOK'
      BY <1>2, <2>2, <2>3 DEF Pay!TypeOK
    <2>5. \A p \in PaymentOrders : checkout'[p] # "new" => order'[p] \in Pay!OrderRows
      BY <1>1, <1>2, <2>1
    <2>6. \A h \in PaymentHandlers : PayRow(handler[h])'
      <3> SUFFICES ASSUME NEW h \in PaymentHandlers PROVE PayRow(handler[h])'
        OBVIOUS
      <3>1. PayRow(handler[h]) /\ handler[h].at \in Receiving \ {"order"} =>
                handler[h].event.order \in PaymentOrders
        <4>1. PayRow(handler[h]) /\ sent \subseteq PaymentEvents
          BY DEF Pay!TypeOK
        <4> QED
          BY <4>1, PayEvents DEF PayRow, Receiving
      <3> QED
        BY <1>2, <2>1, <3>1 DEF PayRow
    <2>7. \A p \in link' : checkout'[p] # "new"
      BY <1>1, <1>2
    <2>8. PaySnapshots'
      <3>1. \A p \in invoices : order'[p].status # "PENDING"
        BY <1>1, <1>2 DEF PaySnapshots, Pay!SettledOnce, Pay!SettledIsClosed, Pay!TypeOK
      <3> QED
        BY <1>2, <3>1 DEF PaySnapshots, Pay!SettledOnce, Pay!EventsSettleOnce,
           Pay!SettlementsAreRecorded, Pay!SettledIsClosed
    <2> QED
      BY <1>2, <2>4, <2>5, <2>6, <2>7, <2>8
  <1>3. CASE Pay!Insert(o)
    <2>1. Pay!NewOrder \in Pay!OrderRows
      BY DEF Pay!NewOrder, Pay!OrderRows, Pay!Statuses
    <2> QED
      BY <1>1, <1>2, <1>3, <2>1 DEF Pay!Insert, Pay!provider, PaySnapshots
  <1>4. CASE Pay!CallProvider(o)
    <2>1. order[o] \in Pay!OrderRows /\ (o \in invoices => order[o].status # "PENDING")
      BY <1>4 DEF Pay!CallProvider, PaySnapshots, Pay!SettledOnce, Pay!SettledIsClosed
    <2> QED
      BY <1>1, <1>2, <1>4, <2>1 DEF Pay!CallProvider, Pay!database
  <1>5. CASE Pay!SaveLink(o)
    <2>1. order[o] \in Pay!OrderRows /\ (o \in invoices => order[o].status # "PENDING")
      BY <1>5 DEF Pay!SaveLink, PaySnapshots, Pay!SettledOnce, Pay!SettledIsClosed
    <2>2. Pay!SaveUrl(o) \in Pay!OrderRows /\ Pay!SaveUrl(o).status = order[o].status
      <3>1. 2 \in Nat \ {0}
        OBVIOUS
      <3> QED
        BY <2>1, <3>1 DEF Pay!SaveUrl, Pay!OrderRows
    <2> QED
      BY <1>1, <1>2, <1>5, <2>1, <2>2 DEF Pay!SaveLink, Pay!provider
  <1>6. CASE Pay!SaveFailed(o)
    <2> DEFINE w == [order[o] EXCEPT !.status = "FAILED", !.revision = 2]
    <2>1. order[o] \in Pay!OrderRows /\ (o \in invoices => order[o].status # "PENDING")
      BY <1>6 DEF Pay!SaveFailed, PaySnapshots, Pay!SettledOnce, Pay!SettledIsClosed
    <2>2. w \in Pay!OrderRows /\ w.status = "FAILED"
      <3>1. 2 \in Nat \ {0}
        OBVIOUS
      <3> QED
        BY <2>1, <3>1 DEF Pay!OrderRows, Pay!Statuses
    <2>3. order' = [order EXCEPT ![o] = w] \/ order' = order
      BY <1>1, <1>6 DEF Pay!SaveFailed
    <2> HIDE DEF w
    <2> QED
      BY <1>1, <1>2, <1>6, <2>1, <2>2, <2>3 DEF Pay!SaveFailed, Pay!provider
  <1>7. CASE Pay!Crash(o)
    <2>1. order[o] \in Pay!OrderRows /\ (o \in invoices => order[o].status # "PENDING")
      BY <1>7 DEF Pay!Crash, PaySnapshots, Pay!SettledOnce, Pay!SettledIsClosed
    <2> QED
      BY <1>1, <1>2, <1>7, <2>1 DEF Pay!Crash, Pay!database, Pay!provider
  <1> QED
    BY <1>3, <1>4, <1>5, <1>6, <1>7 DEF Pay!Create

\* The provider announces events and repeats them.
LEMMA PayDelivers ==
    ASSUME PayInv, NEW e \in PaymentEvents, Pay!Emit(e) \/ \E h \in PaymentHandlers : Pay!Deliver(h, e)
        PROVE PayInv'
  <1>1. CASE Pay!Emit(e)
    <2>1. UNCHANGED <<order, inbox, snapshots, subscription, invoices, checkout, handler, link,
              answered, failures>>
          /\ sent' = sent \cup {e}
      BY <1>1 DEF Pay!Emit, Pay!database
    <2>2. Pay!TypeOK'
      BY <2>1 DEF PayInv, Pay!TypeOK
    <2> QED
      BY <1>1, <2>1, <2>2 DEF PayInv, PayRow, PaySnapshots, Pay!SettledOnce, Pay!EventsSettleOnce,
         Pay!SettlementsAreRecorded, Pay!SettledIsClosed, Pay!Emit
  <1>2. ASSUME NEW h \in PaymentHandlers, Pay!Deliver(h, e) PROVE PayInv'
    <2> DEFINE n == [handler[h] EXCEPT !.at = "inbox", !.event = e]
    <2>1. handler[h] \in PayRows /\ handler \in [PaymentHandlers -> PayRows] /\ PayRow(handler[h])
      BY DEF PayInv, Pay!TypeOK, PayRows
    <2>2. n \in PayRows
      BY <2>1 DEF PayRows, Pay!HandlerSteps
    <2>3. n.at = "inbox" /\ n.event = e /\ n.revision = handler[h].revision
      BY <2>1 DEF PayRows
    <2>4. PayRow(n)
      BY <1>2, <2>1, <2>3 DEF PayRow, Pay!Deliver, Receiving
    <2>5. handler' = [handler EXCEPT ![h] = n]
      BY <1>2, <2>1 DEF Pay!Deliver
    <2> HIDE DEF n
    <2> QED
      BY <1>2, <2>2, <2>3, <2>4, <2>5, PayMoves DEF Pay!Deliver, Pay!database, Pay!provider, Receiving,
         PayInv, Pay!TypeOK
  <1> QED
    BY <1>1, <1>2

\* The statements of a transaction.
LEMMA PayHandles ==
    ASSUME PayInv, NEW h \in PaymentHandlers,
           \/ Pay!FindInbox(h) \/ Pay!Receive(h) \/ Pay!FindOrder(h) \/ Pay!LockOrder(h)
               \/ Pay!FindSnapshot(h)
           \/ Pay!InsertSnapshot(h) \/ Pay!UpsertSubscription(h) \/ Pay!InsertInvoice(h)
    PROVE  PayInv' 
  <1> DEFINE r == handler[h]
  <1>1. /\ handler \in [PaymentHandlers -> PayRows] /\ r \in PayRows /\ PayRow(r)
        /\ answered \subseteq sent /\ sent \subseteq PaymentEvents /\ failures \in 0 .. PaymentMaxFailures
        /\ inbox \in [Pay!Ids -> Pay!InboxRows \cup {None}]
    BY DEF PayInv, Pay!TypeOK, PayRows
  <1>2. ASSUME NEW n \in PayRows, PayRow(n), handler' = [handler EXCEPT ![h] = n], n.event = r.event,
               r.at \in Receiving, UNCHANGED <<Pay!database, checkout, Pay!provider, failures>>
        PROVE  PayInv'
    <2>1. \A g \in PaymentHandlers \ {h} : handler[g].at \in Receiving => handler[g].event.id # n.event.id
      BY <1>2 DEF PayInv
    <2> QED
      BY <1>1, <1>2, <2>1, PayMoves DEF Pay!provider
  <1>3. ASSUME NEW step \in Pay!HandlerSteps, PayRow([r EXCEPT !.at = step]), Pay!Goto(h, step),
            r.at \in Receiving,
               UNCHANGED <<Pay!database, checkout, Pay!provider, failures>>
        PROVE  PayInv'
    <2> DEFINE n == [r EXCEPT !.at = step]
    <2>1. n \in PayRows /\ n.event = r.event
      BY <1>1 DEF PayRows
    <2>2. handler' = [handler EXCEPT ![h] = n]
      BY <1>1, <1>3 DEF Pay!Goto
    <2> HIDE DEF n
    <2> QED
      BY <1>2, <1>3, <2>1, <2>2 DEF n
  <1>4. \A step \in Pay!HandlerSteps : LET n == [r EXCEPT !.at = step]
            IN  n.at = step /\ n.event = r.event /\ n.read = r.read /\ n.revision = r.revision
    BY <1>1 DEF PayRows
  <1>5. CASE Pay!FindInbox(h)
    <2>1. CASE inbox[r.event.id] # None
      <3> DEFINE ok == inbox[r.event.id].event.kind = r.event.kind /\ order[r.event.order] # None
      <3>1. Pay!Return(h, ok) /\ UNCHANGED <<Pay!database, checkout, failures>>
                /\ r.at # "idle"
        BY <1>5, <2>1 DEF Pay!FindInbox
      <3> QED
        BY <1>1, <3>1, PayReturns
    <2>2. CASE inbox[r.event.id] = None
      <3> DEFINE n == [r EXCEPT !.at = "receive"]
      <3>1. n \in PayRows /\ n.at = "receive" /\ n.event = r.event /\ n.revision = r.revision
        BY <1>1 DEF PayRows, Pay!HandlerSteps
      <3>2. r.at = "inbox" /\ handler' = [handler EXCEPT ![h] = n]
            /\ UNCHANGED <<Pay!database, checkout, Pay!provider, failures>>
        BY <1>1, <1>5, <2>2 DEF Pay!FindInbox, Pay!Goto
      <3>3. PayRow(n)
        BY <1>1, <3>1, <3>2 DEF PayRow, Receiving
      <3> HIDE DEF n
      <3> QED
        BY <1>1, <3>1, <3>2, <3>3, PayMoves DEF Pay!provider, Receiving
    <2> QED
      BY <2>1, <2>2
  <1>6. CASE Pay!Receive(h)
    <2>1. CASE inbox[r.event.id] = None
      <3> DEFINE n == [r EXCEPT !.at = "order"]
      <3>1. n \in PayRows /\ n.at = "order" /\ n.event = r.event /\ n.revision = r.revision
        BY <1>1 DEF PayRows, Pay!HandlerSteps
      <3>2. r.at = "receive" /\ handler' = [handler EXCEPT ![h] = n]
            /\ UNCHANGED <<Pay!database, checkout, Pay!provider, failures>>
        BY <1>1, <1>6, <2>1 DEF Pay!Receive, Pay!Goto
      <3>3. \A g \in PaymentHandlers \ {h} : handler[g].at \in Receiving => handler[g].event.id # n.event.id
        BY <1>6, <3>1, PayAfter DEF Pay!Receive, Pay!EventFree
      <3>4. PayRow(n)
        BY <1>1, <2>1, <3>1, <3>2 DEF PayRow, Receiving
      <3> HIDE DEF n
      <3> QED
        BY <1>1, <3>1, <3>2, <3>3, <3>4, PayMoves DEF Pay!provider
    <2>2. CASE inbox[r.event.id] # None
      <3>1. Pay!Return(h, FALSE) /\ UNCHANGED <<Pay!database, checkout, failures>> /\ r.at # "idle"
        BY <1>6, <2>2 DEF Pay!Receive, Pay!RolledBack
      <3> QED
        BY <1>1, <3>1, PayReturns
    <2> QED
      BY <2>1, <2>2
  <1>7. CASE Pay!FindOrder(h)
    <2>1. r.at = "order" /\ r.event \in PaymentEvents /\ inbox[r.event.id] = None
              /\ r.event.order \in PaymentOrders
      BY <1>1, <1>7, PayEvents DEF Pay!FindOrder, PayRow, Receiving
    <2>2. CASE Pay!Rejects(r.event)
      <3> DEFINE w == [event |-> r.event, state |-> "REJECTED"]
      <3>0. w \in Pay!InboxRows
        BY <2>1 DEF Pay!InboxRows
      <3>1. /\ inbox' = [inbox EXCEPT ![r.event.id] = w]
            /\ handler' = [handler EXCEPT ![h] = Pay!Idle]
            /\ UNCHANGED <<order, snapshots, subscription, invoices, checkout, failures, link, sent,
                answered>>
        BY <1>7, <2>2 DEF Pay!FindOrder, Pay!Return, Pay!Stored
      <3> HIDE DEF w
      <3>2. Pay!Idle \in PayRows /\ Pay!Idle.at = "idle" /\ Pay!Idle.revision = 0
        BY DEF Pay!Idle, PayRows, Pay!HandlerSteps
      <3>3. \A g \in PaymentHandlers : handler'[g] = IF g = h THEN Pay!Idle ELSE handler[g]
        BY <1>1, <3>1
      <3>4. Pay!TypeOK'
        <4>1. handler' \in [PaymentHandlers -> PayRows]
          BY <1>1, <3>1, <3>2
        <4>2. inbox' \in [Pay!Ids -> Pay!InboxRows \cup {None}]
          BY <1>1, <3>0, <3>1
        <4> QED
          BY <3>1, <4>1, <4>2 DEF PayInv, Pay!TypeOK, PayRows
      <3>5. \A i \in Pay!Ids : i # r.event.id => inbox'[i] = inbox[i]
        BY <1>1, <3>1
      <3>6. \A g \in PaymentHandlers : PayRow(handler[g])'
        <4> SUFFICES ASSUME NEW g \in PaymentHandlers PROVE PayRow(handler[g])'
          OBVIOUS
        <4>1. CASE g = h
          BY <3>2, <3>3, <4>1 DEF PayRow, Receiving
        <4>2. CASE g # h
          <5>1. PayRow(handler[g]) /\ handler'[g] = handler[g]
            BY <3>3, <4>2 DEF PayInv
          <5>2. handler[g].at \in Receiving => handler[g].event.id # r.event.id
                    /\ handler[g].event.id \in Pay!Ids
            BY <1>1, <2>1, <4>2, <5>1, PayEvents DEF PayInv, PayRow, Receiving
          <5> QED
            BY <3>1, <3>5, <5>1, <5>2 DEF PayRow
        <4> QED
          BY <4>1, <4>2
      <3>7. PaySnapshots'
        <4>1. \A i \in DOMAIN snapshots : snapshots[i] \in PaymentEvents /\ snapshots[i].id # r.event.id
          BY <2>1, PayStored DEF PayInv, Pay!TypeOK
        <4>2. \A i \in DOMAIN snapshots : inbox'[snapshots[i].id] = inbox[snapshots[i].id]
          BY <3>5, <4>1, PayEvents
        <4> QED
          BY <3>1, <4>2 DEF PayInv, PaySnapshots, Pay!SettledOnce, Pay!EventsSettleOnce,
             Pay!SettlementsAreRecorded, Pay!SettledIsClosed
      <3>8. \A g, k \in PaymentHandlers : handler'[g].at \in Receiving /\ handler'[k].at \in Receiving
                              /\ handler'[g].event.id = handler'[k].event.id => g = k
        BY <3>2, <3>3 DEF PayInv, Receiving
      <3> QED
        BY <3>1, <3>4, <3>6, <3>7, <3>8 DEF PayInv
    <2>3. CASE ~Pay!Rejects(r.event)
      <3> DEFINE n == [r EXCEPT !.at = "update", !.read = order[r.event.order]]
      <3>1. order[r.event.order] \in Pay!OrderRows /\ r.event.kind # "SHORT"
        BY <2>1, <2>3 DEF PayInv, Pay!TypeOK, Pay!Rejects
      <3>2. n \in PayRows /\ n.at = "update" /\ n.event = r.event /\ n.revision = r.revision
            /\ n.read = order[r.event.order]
        BY <1>1, <3>1 DEF PayRows, Pay!HandlerSteps
      <3>3. handler' = [handler EXCEPT ![h] = n] /\ UNCHANGED <<Pay!database, checkout, Pay!provider,
                failures>>
        BY <1>1, <1>7, <2>3 DEF Pay!FindOrder, Pay!database
      <3>4. PayRow(n)
        BY <1>1, <2>1, <3>1, <3>2 DEF PayRow, Receiving
      <3> HIDE DEF n
      <3> QED
        BY <1>2, <2>1, <3>2, <3>3, <3>4 DEF Receiving
    <2> QED
      BY <2>2, <2>3
  <1>8. CASE Pay!LockOrder(h)
    <2> DEFINE pays == /\ Pay!nextStatus(r.read.status, Pay!StatusOf(r.event)) = "PAID"
                       /\ r.read.status # "PAID"
               step == IF pays THEN "snapshot" ELSE "commit"
    <2>1. r.at = "update" /\ Pay!Goto(h, step) /\ UNCHANGED <<Pay!database, checkout, Pay!provider,
              failures>>
      BY <1>8 DEF Pay!LockOrder
    <2>2. pays => r.event.kind = "PAID"
      BY <1>1, <2>1 DEF Pay!nextStatus, Pay!StatusOf, PayRow, Receiving
    <2> HIDE DEF pays
    <2>3. step \in Pay!HandlerSteps
      BY DEF Pay!HandlerSteps
    <2>4. PayRow([r EXCEPT !.at = step])
      BY <1>1, <1>4, <2>1, <2>2, <2>3 DEF PayRow, Receiving
    <2> HIDE DEF step
    <2> QED
      BY <1>3, <2>1, <2>3, <2>4 DEF Receiving
  <1>9. CASE Pay!FindSnapshot(h)
    <2> DEFINE n == [r EXCEPT !.at = "insert", !.revision = Len(snapshots) + 1]
    <2>1. Len(snapshots) + 1 \in Nat /\ Len(snapshots) + 1 > 0
      BY DEF PayInv, Pay!TypeOK
    <2>2. n \in PayRows /\ n.at = "insert" /\ n.event = r.event /\ n.read = r.read
      BY <1>1, <2>1 DEF PayRows, Pay!HandlerSteps
    <2>3. r.at = "snapshot" /\ handler' = [handler EXCEPT ![h] = n]
          /\ UNCHANGED <<Pay!database, checkout, Pay!provider, failures>>
      BY <1>1, <1>9 DEF Pay!FindSnapshot
    <2> HIDE DEF n
    <2>4. PayRow(n)
      BY <1>1, <2>2, <2>3 DEF PayRow, Receiving
    <2> QED
      BY <1>2, <2>2, <2>3, <2>4 DEF Receiving
  <1>10. CASE Pay!InsertSnapshot(h)
    <2>1. CASE r.revision > Len(snapshots)
      <3>1. r.at = "insert" /\ Pay!Goto(h, "subscription") /\ UNCHANGED <<Pay!database, checkout,
                Pay!provider, failures>>
        BY <1>10, <2>1 DEF Pay!InsertSnapshot
      <3>2. "subscription" \in Pay!HandlerSteps
        BY DEF Pay!HandlerSteps
      <3>3. PayRow([r EXCEPT !.at = "subscription"])
        BY <1>1, <1>4, <3>1, <3>2 DEF PayRow, Receiving
      <3> QED
        BY <1>3, <3>1, <3>2, <3>3 DEF Receiving
    <2>2. CASE ~(r.revision > Len(snapshots))
      <3>1. Pay!Return(h, FALSE) /\ UNCHANGED <<Pay!database, checkout, failures>> /\ r.at # "idle"
        BY <1>10, <2>2 DEF Pay!InsertSnapshot, Pay!RolledBack
      <3> QED
        BY <1>1, <3>1, PayReturns
    <2> QED
      BY <2>1, <2>2
  <1>11. CASE Pay!UpsertSubscription(h)
    <2>1. r.at = "subscription" /\ Pay!Goto(h, "invoice") /\ UNCHANGED <<Pay!database, checkout,
              Pay!provider, failures>>
      BY <1>11 DEF Pay!UpsertSubscription
    <2>2. "invoice" \in Pay!HandlerSteps
      BY DEF Pay!HandlerSteps
    <2>3. PayRow([r EXCEPT !.at = "invoice"])
      BY <1>1, <1>4, <2>1, <2>2 DEF PayRow, Receiving
    <2> QED
      BY <1>3, <2>1, <2>2, <2>3 DEF Receiving
  <1>12. CASE Pay!InsertInvoice(h)
    <2>1. r.at = "invoice" /\ Pay!Goto(h, "commit") /\ UNCHANGED <<Pay!database, checkout,
              Pay!provider, failures>>
      BY <1>12 DEF Pay!InsertInvoice
    <2>2. "commit" \in Pay!HandlerSteps
      BY DEF Pay!HandlerSteps
    <2>3. PayRow([r EXCEPT !.at = "commit"])
      BY <1>1, <1>4, <2>1, <2>2 DEF PayRow, Receiving
    <2> QED
      BY <1>3, <2>1, <2>2, <2>3 DEF Receiving
  <1> QED
    BY <1>5, <1>6, <1>7, <1>8, <1>9, <1>10, <1>11, <1>12

\* A transaction commits: when it settles, its order has not been settled before.
LEMMA PayCommits == ASSUME PayInv, NEW h \in PaymentHandlers, Pay!Commit(h) PROVE PayInv'
  <1> DEFINE r == handler[h]
             o == r.event.order
             w == [event |-> r.event, state |-> "PROCESSED"]
  <1>1. /\ handler \in [PaymentHandlers -> PayRows] /\ r \in PayRows /\ PayRow(r) /\ r.at = "commit"
        /\ inbox \in [Pay!Ids -> Pay!InboxRows \cup {None}]
        /\ order \in [PaymentOrders -> Pay!OrderRows \cup {None}]
        /\ snapshots \in Seq(PaymentEvents) /\ invoices \subseteq PaymentOrders
    BY DEF PayInv, Pay!TypeOK, PayRows, Pay!Commit
  <1>2. /\ r.event \in PaymentEvents /\ r.event \in sent /\ inbox[r.event.id] = None /\ o \in PaymentOrders
        /\ r.read \in Pay!OrderRows /\ order[o] \in Pay!OrderRows /\ r.event.kind \in Pay!Kinds
        /\ r.event.id \in Pay!Ids /\ o \in link /\ w \in Pay!InboxRows
    BY <1>1, PayEvents DEF PayRow, Receiving, PayInv, Pay!TypeOK, Pay!InboxRows
  <1>3. /\ inbox' = [inbox EXCEPT ![r.event.id] = w]
        /\ order' = [order EXCEPT ![o] = Pay!Written(h)]
        /\ handler' = [handler EXCEPT ![h] = Pay!Idle]
        /\ answered' = answered \cup {r.event}
        /\ UNCHANGED <<checkout, failures, link, sent>>
    BY DEF Pay!Commit, Pay!Return, Pay!Stored
  <1>4. Pay!Written(h) \in Pay!OrderRows /\ Pay!Written(h).status # "PENDING"
    <2> DEFINE s == Pay!nextStatus(r.read.status, Pay!StatusOf(r.event))
               v == r.read.revision + 1
    <2>1. s \in Pay!Statuses /\ s # "PENDING"
      BY <1>2 DEF Pay!nextStatus, Pay!StatusOf, Pay!Statuses, Pay!OrderRows, Pay!Kinds
    <2>2. v \in Nat \ {0}
      BY <1>2 DEF Pay!OrderRows
    <2>3. Pay!Written(h) = [order[o] EXCEPT !.status = s, !.revision = v]
      BY DEF Pay!Written
    <2> HIDE DEF s, v
    <2> QED
      BY <1>2, <2>1, <2>2, <2>3 DEF Pay!OrderRows
  <1>5. order' \in [PaymentOrders -> Pay!OrderRows \cup {None}] /\ \A p \in PaymentOrders :
            /\ order[p] \in Pay!OrderRows => order'[p] \in Pay!OrderRows
            /\ order'[p] = order[p] \/ order'[p].status # "PENDING"
            /\ p = o => order'[p].status # "PENDING"
    BY <1>1, <1>2, <1>3, <1>4
  <1>6. Pay!Idle \in PayRows /\ Pay!Idle.at = "idle" /\ Pay!Idle.revision = 0
    BY DEF Pay!Idle, PayRows, Pay!HandlerSteps
  <1>7. \A g \in PaymentHandlers : handler'[g] = IF g = h THEN Pay!Idle ELSE handler[g]
    BY <1>1, <1>3
  <1>8. \A i \in Pay!Ids : inbox'[i] = IF i = r.event.id THEN w ELSE inbox[i]
    BY <1>1, <1>3
  <1>9. PaySnapshots' /\ snapshots' \in Seq(PaymentEvents)
            /\ subscription' \in PaymentOrders \cup {None} /\ invoices' \subseteq PaymentOrders
    <2>0. \A i \in DOMAIN snapshots : /\ snapshots[i] \in PaymentEvents /\ snapshots[i].id # r.event.id
                                     /\ inbox'[snapshots[i].id] = inbox[snapshots[i].id]
      <3>1. \A i \in DOMAIN snapshots : snapshots[i] \in PaymentEvents /\ snapshots[i].id # r.event.id
        BY <1>1, <1>2, PayStored
      <3> QED
        BY <1>8, <3>1, PayEvents
    <2>1. CASE Pay!Settles(h)
      <3>1. r.event.kind = "PAID"
        BY <1>1, <2>1 DEF Pay!Settles, PayRow
      <3>2. snapshots' = Append(snapshots, r.event) /\ subscription' = o /\ invoices' = invoices \cup {o}
        BY <2>1 DEF Pay!Commit, Pay!Settled
      <3> DEFINE next == Len(snapshots) + 1
      <3>3. /\ snapshots' \in Seq(PaymentEvents) /\ Len(snapshots') = next
            /\ Len(snapshots) \in Nat
            /\ DOMAIN snapshots = 1 .. Len(snapshots) /\ DOMAIN snapshots' = 1 .. next
            /\ \A i \in 1 .. Len(snapshots) : snapshots'[i] = snapshots[i]
            /\ snapshots'[next] = r.event
        BY <1>1, <1>2, <3>2
      <3>4. \A i \in DOMAIN snapshots' : i \in DOMAIN snapshots \/ i = next
        BY <3>3
      <3>5. next \in DOMAIN snapshots' /\ \A i \in DOMAIN snapshots : i \in DOMAIN snapshots'
        BY <3>3
      <3> HIDE DEF next
      <3>6. Pay!EventsSettleOnce'
        BY <2>0, <3>3, <3>4 DEF PayInv, PaySnapshots, Pay!SettledOnce, Pay!EventsSettleOnce
      <3>7. Pay!SettlementsAreRecorded'
        <4>1. \A i \in DOMAIN snapshots' :
                  /\ snapshots'[i].kind = "PAID"
                  /\ inbox'[snapshots'[i].id] = [event |-> snapshots'[i], state |-> "PROCESSED"]
          BY <1>2, <1>8, <2>0, <3>1, <3>3, <3>4
             DEF PayInv, PaySnapshots, Pay!SettledOnce, Pay!SettlementsAreRecorded
        <4>2. invoices' = {snapshots'[i].order : i \in DOMAIN snapshots'}
          BY <3>2, <3>3, <3>4, <3>5
             DEF PayInv, PaySnapshots, Pay!SettledOnce, Pay!SettlementsAreRecorded
        <4> QED
          BY <4>1, <4>2 DEF Pay!SettlementsAreRecorded
      <3>8. Pay!SettledIsClosed'
        <4>1. \A p \in invoices : order[p].status # "PENDING"
          BY DEF PayInv, PaySnapshots, Pay!SettledOnce, Pay!SettledIsClosed
        <4>2. ASSUME NEW p \in invoices' PROVE order'[p].status # "PENDING"
          <5>1. CASE p = o
            BY <1>2, <1>5, <5>1
          <5>2. CASE p \in invoices
            BY <1>1, <1>5, <4>1, <5>2
          <5> QED
            BY <3>2, <4>2, <5>1, <5>2
        <4> QED
          BY <4>2 DEF Pay!SettledIsClosed
      <3>9. subscription' = snapshots'[Len(snapshots')].order
        BY <3>2, <3>3
      <3> QED
        BY <1>1, <1>2, <1>3, <3>2, <3>3, <3>6, <3>7, <3>8, <3>9
           DEF PayInv, PaySnapshots, Pay!SettledOnce
    <2>2. CASE ~Pay!Settles(h)
      <3>1. UNCHANGED <<snapshots, subscription, invoices>>
        BY <2>2 DEF Pay!Commit
      <3>2. Pay!EventsSettleOnce' /\ Pay!SettlementsAreRecorded'
        BY <2>0, <3>1 DEF PayInv, PaySnapshots, Pay!SettledOnce, Pay!EventsSettleOnce,
           Pay!SettlementsAreRecorded
      <3>3. Pay!SettledIsClosed'
        BY <1>1, <1>5, <3>1 DEF PayInv, PaySnapshots, Pay!SettledOnce, Pay!SettledIsClosed
      <3> QED
        BY <1>1, <1>3, <3>1, <3>2, <3>3 DEF PayInv, PaySnapshots, Pay!SettledOnce, Pay!TypeOK
    <2> QED
      BY <2>1, <2>2
  <1>10. Pay!TypeOK'
    <2>1. handler' \in [PaymentHandlers -> PayRows] /\ inbox' \in [Pay!Ids -> Pay!InboxRows \cup {None}]
      BY <1>1, <1>2, <1>3, <1>6
    <2> QED
      BY <1>2, <1>3, <1>5, <1>9, <2>1 DEF PayInv, Pay!TypeOK, PayRows
  <1>11. \A g \in PaymentHandlers : PayRow(handler[g])'
    <2> SUFFICES ASSUME NEW g \in PaymentHandlers PROVE PayRow(handler[g])'
      OBVIOUS
    <2>1. CASE g = h
      BY <1>6, <1>7, <2>1 DEF PayRow, Receiving
    <2>2. CASE g # h
      <3>1. PayRow(handler[g]) /\ handler'[g] = handler[g]
        BY <1>7, <2>2 DEF PayInv
      <3>2. handler[g].at \in Receiving => /\ handler[g].event.id # r.event.id
                                           /\ handler[g].event.id \in Pay!Ids
                                           /\ handler[g].event.order \in PaymentOrders
        BY <1>1, <2>2, <3>1, PayEvents DEF PayInv, Pay!TypeOK, PayRow, Receiving
      <3> QED
        BY <1>3, <1>5, <1>8, <3>1, <3>2 DEF PayRow
    <2> QED
      BY <2>1, <2>2
  <1>12. \A g, k \in PaymentHandlers : handler'[g].at \in Receiving /\ handler'[k].at \in Receiving
                              /\ handler'[g].event.id = handler'[k].event.id => g = k
    BY <1>6, <1>7 DEF PayInv, Receiving
  <1>13. \A p \in PaymentOrders : checkout'[p] # "new" => order'[p] \in Pay!OrderRows
    BY <1>3, <1>5 DEF PayInv
  <1>14. (\A p \in link' : checkout'[p] # "new") /\ (\A e \in sent' : e.order \in link')
    BY <1>3 DEF PayInv
  <1> QED
    BY <1>9, <1>10, <1>11, <1>12, <1>13, <1>14 DEF PayInv

\* Every step keeps the invariant.
LEMMA PayStep == ASSUME PayInv, [Pay!Next]_Pay!vars PROVE PayInv'
  <1>1. CASE UNCHANGED Pay!vars
    BY <1>1 DEF Pay!vars, PayInv, Pay!TypeOK, PayRow, PaySnapshots, Pay!SettledOnce,
       Pay!EventsSettleOnce, Pay!SettlementsAreRecorded, Pay!SettledIsClosed
  <1>2. ASSUME NEW h \in PaymentHandlers, Pay!Fail(h) PROVE PayInv'
    <2>1. /\ Pay!Return(h, FALSE) /\ UNCHANGED <<Pay!database, checkout>> /\ handler[h].at # "idle"
          /\ failures' = failures + 1 /\ failures < PaymentMaxFailures
              /\ failures \in 0 .. PaymentMaxFailures
      BY <1>2 DEF Pay!Fail, Pay!RolledBack, PayInv, Pay!TypeOK
    <2>2. failures' \in 0 .. PaymentMaxFailures
      BY <2>1, PaymentAssumption
    <2> QED
      BY <2>1, <2>2, PayReturns
  <1> QED
    BY <1>1, <1>2, PayCreates, PayDelivers, PayHandles, PayCommits DEF Pay!Next, Pay!Handle

\* The subscription is the one of the last snapshot.
LEMMA PaySettles == PayInv => Pay!SettledOnce /\ Pay!SubscriptionFollows
  BY DEF PayInv, PaySnapshots, Pay!SubscriptionFollows, Pay!Last

\* The behaviours are those of the component, or leave it as it is.
LEMMA PayBehaves == Behaviours => Pay!Spec
  <1>1. Start => Pay!Init
    BY DEF Start
  <1>2. [Step]_everything => [Pay!Next]_Pay!vars
    BY DEF Step, everything, payment_vars, Pay!vars
  <1> QED
    BY <1>1, <1>2, PTL DEF Behaviours, Pay!Spec

\* Webhooks in any number and order, of handlers that fail and are repeated, settle once for an event,
\* whatever else is paid for its order; what is settled has its inbox row and its invoice and is never
\* open again; and the subscription follows the newest snapshot.
THEOREM EventsAreSettledOnce == Behaviours => []SettlementIsSafe
  <1>1. PayInv => SettlementIsSafe
    BY PaySettles DEF SettlementIsSafe
  <1>2. PayInv /\ [Pay!Next]_Pay!vars => PayInv'
    BY PayStep
  <1> QED
    BY <1>1, <1>2, PayInit, PayBehaves, PTL DEF Pay!Spec
==============================================================================
