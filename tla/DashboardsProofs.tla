-------------------------- MODULE DashboardsProofs --------------------------
(* Theorems about Dashboards, for every value of the constants: one section *)
(* for each component, with its inductive invariant, and what follows for   *)
(* the behaviours in which it stands beside the others.                     *)
EXTENDS Dashboards, FiniteSetTheorems, SequenceTheorems, WellFoundedInduction, TLAPS

-----------------------------------------------------------------------------
(* Approvals: requests and decisions.                                       *)

\* The approvals of a request that are stored.
Approving(r) == {e \in decisions : e.request = r /\ e.decision = "APPROVE"}

\* A member has one decision on a request.
OneEach == \A d, e \in decisions : d.request = e.request /\ d.actor = e.actor => d = e

\* Who decided was eligible and, unless the policy allows it, not the requester.
Entitled ==
    \A d \in decisions : /\ requests[d.request] # None
                         /\ d.actor \in Eligible
                         /\ SelfApproval \/ d.actor # requests[d.request].requestedBy

\* The inductive invariant of the approvals.
ApprovalsInv == TypeOK /\ IsFiniteSet(decisions) /\ OneEach /\ Entitled /\ RejectionIsFinal

\* An approved request has its approvals among the stored decisions.
Counted ==
    \A r \in Requests : requests[r].status = "APPROVED" => Cardinality(Approving(r)) >= MinApprovals

\* There is neither a request nor a decision at first.
LEMMA ApprovalsInit == Init => ApprovalsInv /\ Counted
  <1> SUFFICES ASSUME Init PROVE ApprovalsInv /\ Counted
    OBVIOUS
  <1>1. TypeOK /\ OneEach /\ Entitled /\ RejectionIsFinal
    BY DEF Init, TypeOK, OneEach, Entitled, RejectionIsFinal
  <1>2. IsFiniteSet(decisions)
    BY FS_EmptySet DEF Init
  <1>3. Counted
    BY DEF Init, Counted, None
  <1> QED
    BY <1>1, <1>2, <1>3 DEF ApprovalsInv

\* A row whose status changes to another one stays a row, with its requester.
LEMMA StatusChanges ==
    ASSUME TypeOK, NEW r \in Requests, requests[r] # None, NEW s \in Statuses
    PROVE  /\ [requests[r] EXCEPT !.status = s] \in Rows
           /\ [requests[r] EXCEPT !.status = s].status = s
           /\ [requests[r] EXCEPT !.status = s].requestedBy = requests[r].requestedBy
           /\ [requests[r] EXCEPT !.status = s] # None
  <1>1. requests[r] \in Rows
    BY DEF TypeOK
  <1>2. [requests[r] EXCEPT !.status = s] \in Rows
    BY <1>1 DEF Rows
  <1>3. [requests[r] EXCEPT !.status = s].status = s
    BY <1>1 DEF Rows
  <1>4. [requests[r] EXCEPT !.status = s].requestedBy = requests[r].requestedBy
    BY <1>1 DEF Rows
  <1>5. s # "NONE"
    BY DEF Statuses
  <1> QED
    BY <1>2, <1>3, <1>4, <1>5 DEF None

\* A request is opened with no decision on it.
LEMMA OpenIsSafe ==
    ASSUME ApprovalsInv, NEW r \in Requests, NEW a \in Actors, NEW v \in Versions, NEW h \in Versions,
           NEW due \in 1 .. MaxTime, openRequest(r, a, v, h, due)
    PROVE  ApprovalsInv' /\ (Counted => Counted')
  <1> DEFINE row == [version |-> v, hash |-> h, requestedBy |-> a, due |-> due, status |-> "OPEN"]
  <1>1. requests[r] = None /\ requests' = [requests EXCEPT ![r] = row] /\ decisions' = decisions
    BY DEF openRequest
  <1>2. row \in Rows /\ row # None
    BY DEF Rows, Statuses, None
  <1>3. row.status = "OPEN"
    OBVIOUS
  <1> HIDE DEF row
  <1>4. TypeOK'
    BY <1>1, <1>2 DEF ApprovalsInv, TypeOK
  <1>5. \A d \in decisions : d.request # r /\ d.request \in Requests
    BY <1>1 DEF ApprovalsInv, Entitled, TypeOK, Decisions
  <1>6. OneEach' /\ IsFiniteSet(decisions)'
    BY <1>1 DEF ApprovalsInv, OneEach
  <1>7. Entitled'
    BY <1>1, <1>5 DEF ApprovalsInv, Entitled, TypeOK
  <1>8. RejectionIsFinal'
    BY <1>1, <1>5 DEF ApprovalsInv, RejectionIsFinal, Live, TypeOK
  <1>9. Counted => Counted'
    BY <1>1, <1>3 DEF ApprovalsInv, Counted, Approving, TypeOK
  <1> QED
    BY <1>4, <1>6, <1>7, <1>8, <1>9 DEF ApprovalsInv

\* What only changes statuses of rows that are there, and makes none open or approved, is safe.
LEMMA SettlingIsSafe ==
    ASSUME ApprovalsInv, NEW S \in SUBSET Requests, NEW s \in {"EXPIRED", "CANCELLED"},
           \A r \in S : requests[r] # None,
           requests' = [r \in Requests |-> IF r \in S THEN [requests[r] EXCEPT !.status = s]
                                                       ELSE requests[r]],
           decisions' = decisions
    PROVE  ApprovalsInv' /\ (Counted => Counted')
  <1>1. s \in Statuses
    BY DEF Statuses
  <1>2. \A r \in Requests : requests'[r] = IF r \in S THEN [requests[r] EXCEPT !.status = s]
                                                      ELSE requests[r]
    OBVIOUS
  <1>3. \A r \in S : /\ requests'[r] \in Rows /\ requests'[r].status = s
                     /\ requests'[r].requestedBy = requests[r].requestedBy /\ requests'[r] # None
    BY <1>1, <1>2, StatusChanges DEF ApprovalsInv
  <1>4. TypeOK'
    BY <1>2, <1>3 DEF ApprovalsInv, TypeOK
  <1>5. \A d \in decisions : d.request \in Requests
    BY DEF ApprovalsInv, TypeOK, Decisions
  <1>6. OneEach' /\ IsFiniteSet(decisions)'
    BY DEF ApprovalsInv, OneEach
  <1>7. Entitled'
    BY <1>2, <1>3, <1>5 DEF ApprovalsInv, Entitled
  <1>8. \A r \in Requests : Live(r)' => requests'[r] = requests[r] /\ Live(r)
    BY <1>2, <1>3 DEF Live
  <1>9. RejectionIsFinal'
    BY <1>5, <1>8 DEF ApprovalsInv, RejectionIsFinal
  <1>10. \A r \in Requests : requests'[r].status = "APPROVED" => requests[r].status = "APPROVED"
    BY <1>2, <1>3
  <1>11. Counted => Counted'
    BY <1>10 DEF Counted, Approving
  <1> QED
    BY <1>4, <1>6, <1>7, <1>9, <1>11 DEF ApprovalsInv

\* What is due is closed, perhaps by the call that finds it due.
LEMMA ExpireIsSafe ==
    ASSUME ApprovalsInv, NEW r \in Requests, NEW at, Expire(r, at)
        PROVE ApprovalsInv' /\ (Counted => Counted')
  <1>1. requests' = [q \in Requests |-> IF q \in {r} THEN [requests[q] EXCEPT !.status = "EXPIRED"]
                                                     ELSE requests[q]]
    BY DEF Expire, ApprovalsInv, TypeOK
  <1>2. {r} \in SUBSET Requests /\ (\A q \in {r} : requests[q] # None) /\ decisions' = decisions
    BY DEF Expire
  <1> DEFINE S == {r}
             s == "EXPIRED"
  <1>3. requests' = [q \in Requests |-> IF q \in S THEN [requests[q] EXCEPT !.status = s]
                                                  ELSE requests[q]]
    BY <1>1
  <1>4. S \in SUBSET Requests /\ (\A q \in S : requests[q] # None) /\ s \in {"EXPIRED", "CANCELLED"}
    BY <1>2
  <1> HIDE DEF S, s
  <1> QED
    BY <1>2, <1>3, <1>4, SettlingIsSafe

\* Requests that are open are cancelled.
LEMMA CancelIsSafe ==
    ASSUME ApprovalsInv, NEW S \in SUBSET Requests, \A r \in S : Live(r), requests' = Cancelled(S),
           decisions' = decisions
    PROVE  ApprovalsInv' /\ (Counted => Counted')
  <1>1. \A r \in S : requests[r] # None
    BY DEF Live, None
  <1> QED
    BY <1>1, SettlingIsSafe DEF Cancelled

\* Both invalidations cancel requests that are live, and nothing else.
LEMMA InvalidatingCancels ==
    ASSUME Invalidating
    PROVE  \E S \in SUBSET Requests :
               (\A r \in S : Live(r)) /\ requests' = Cancelled(S) /\ decisions' = decisions
  <1>1. ASSUME NEW v \in Versions, invalidatePriorVersion(v)
        PROVE  \E S \in SUBSET Requests :
                   (\A r \in S : Live(r)) /\ requests' = Cancelled(S) /\ decisions' = decisions
    <2> WITNESS {r \in Requests : Live(r) /\ requests[r].version = v} \in SUBSET Requests
    <2> QED
      BY <1>1 DEF invalidatePriorVersion
  <1>2. ASSUME NEW v \in Versions, NEW h \in Versions, invalidateMaterialChange(v, h)
        PROVE  \E S \in SUBSET Requests :
                   (\A r \in S : Live(r)) /\ requests' = Cancelled(S) /\ decisions' = decisions
    <2> WITNESS {r \in Requests : Live(r) /\ <<requests[r].version, requests[r].hash>> # <<v, h>>}
                  \in SUBSET Requests
    <2> QED
      BY <1>2 DEF invalidateMaterialChange
  <1> QED
    BY <1>1, <1>2 DEF Invalidating

\* An invalidation keeps the invariant.
LEMMA InvalidatingIsSafe ==
    ASSUME ApprovalsInv, Invalidating PROVE ApprovalsInv' /\ (Counted => Counted')
  <1>1. PICK S \in SUBSET Requests :
            (\A r \in S : Live(r)) /\ requests' = Cancelled(S) /\ decisions' = decisions
    BY InvalidatingCancels
  <1> QED
    BY <1>1, CancelIsSafe

\* The parts of a decision that the invariant needs.
LEMMA DecideIsSafe ==
    ASSUME ApprovalsInv, NEW d \in Decisions, NEW at, decide(d, at) PROVE ApprovalsInv'
  <1> DEFINE row == [requests[d.request] EXCEPT !.status = Outcome(d)]
  <1>0. d.request \in Requests /\ d.actor \in Actors /\ d.decision \in {"APPROVE", "REJECT"}
    BY DEF Decisions
  <1>1. /\ requests[d.request] # None /\ requests[d.request].status = "OPEN"
        /\ d.actor \in Eligible
        /\ SelfApproval \/ d.actor # requests[d.request].requestedBy
    BY DEF decide, MayDecide
  <1>2. Outcome(d) \in Statuses /\ (d.decision = "REJECT" => Outcome(d) = "REJECTED")
    BY DEF Outcome, Statuses
  <1>3. /\ row \in Rows /\ row.status = Outcome(d) /\ row # None
        /\ row.requestedBy = requests[d.request].requestedBy
    BY <1>0, <1>1, <1>2, StatusChanges DEF ApprovalsInv
  <1>4. requests' = [requests EXCEPT ![d.request] = row] /\ decisions' = decisions \cup {d}
    BY DEF decide
  <1> HIDE DEF row
  <1>5. TypeOK'
    BY <1>3, <1>4 DEF ApprovalsInv, TypeOK
  <1>6. IsFiniteSet(decisions)'
    BY <1>4, FS_AddElement DEF ApprovalsInv
  <1>7. OneEach'
    BY <1>4 DEF ApprovalsInv, OneEach, decide, Savable
  <1>8. Entitled'
    BY <1>0, <1>1, <1>3, <1>4 DEF ApprovalsInv, Entitled, TypeOK, Decisions
  <1>9. RejectionIsFinal'
    <2> SUFFICES ASSUME NEW e \in decisions', e.decision = "REJECT" PROVE ~ Live(e.request)'
      BY DEF RejectionIsFinal
    <2>1. CASE e.request = d.request
      <3>1. e = d
        BY <2>1, <1>0, <1>1, <1>4 DEF ApprovalsInv, RejectionIsFinal, Live
      <3> QED
        BY <3>1, <1>0, <1>2, <1>3, <1>4 DEF Live, ApprovalsInv, TypeOK
    <2>2. CASE e.request # d.request
      BY <2>2, <1>4 DEF ApprovalsInv, RejectionIsFinal, Live, TypeOK, Decisions
    <2> QED
      BY <2>1, <2>2
  <1> QED
    BY <1>5, <1>6, <1>7, <1>8, <1>9 DEF ApprovalsInv

\* Without repeated decisions every stored approval is one more.
LEMMA DecideCounts ==
    ASSUME ApprovalsInv, Repeats = FALSE, Counted, NEW d \in Decisions, NEW at, decide(d, at)
    PROVE  Counted'
  <1>0. d.request \in Requests /\ d.decision \in {"APPROVE", "REJECT"}
    BY DEF Decisions
  <1>1. decisions' = decisions \cup {d} /\ d \notin decisions
    BY DEF decide, Savable
  <1>2. requests[d.request] \in Rows
    BY <1>0 DEF decide, MayDecide, ApprovalsInv, TypeOK
  <1>3. requests'[d.request].status = Outcome(d)
    BY <1>0, <1>2 DEF decide, Rows, ApprovalsInv, TypeOK
  <1>4. \A r \in Requests : r # d.request => requests'[r] = requests[r] /\ Approving(r)' = Approving(r)
    BY <1>0, <1>1 DEF decide, Approving, ApprovalsInv, TypeOK
  <1>5. ASSUME Outcome(d) = "APPROVED" PROVE Cardinality(Approving(d.request)') >= MinApprovals
    <2> DEFINE old == Approving(d.request)
    <2>1. d.decision = "APPROVE" /\ Cardinality(old) + 1 >= MinApprovals
      BY <1>5, <1>0 DEF Outcome, ApprovedCount, Approving
    <2>2. IsFiniteSet(old)
      BY FS_Subset DEF ApprovalsInv, Approving
    <2>3. Approving(d.request)' = old \cup {d} /\ d \notin old
      BY <1>1, <2>1 DEF Approving
    <2> HIDE DEF old
    <2>4. Cardinality(old \cup {d}) = Cardinality(old) + 1
      BY <2>2, <2>3, FS_AddElement
    <2> QED
      BY <2>1, <2>3, <2>4
  <1> QED
    BY <1>3, <1>4, <1>5 DEF Counted

\* Every step keeps the invariant.
LEMMA ApprovalsStep == ApprovalsInv /\ [Next]_approvals => ApprovalsInv'
  <1> SUFFICES ASSUME ApprovalsInv, [Next]_approvals PROVE ApprovalsInv'
    OBVIOUS
  <1>1. CASE UNCHANGED approvals
    BY <1>1 DEF approvals, ApprovalsInv, TypeOK, OneEach, Entitled, RejectionIsFinal, Live
  <1>2. CASE Deciding
    BY <1>2, OpenIsSafe, ExpireIsSafe, DecideIsSafe DEF Deciding
  <1>3. CASE Invalidating
    BY <1>3, InvalidatingIsSafe
  <1> QED
    BY <1>1, <1>2, <1>3 DEF Next

\* Every step keeps the count of the approvals, unless a member may repeat his decision.
LEMMA StepCounts == Repeats = FALSE /\ ApprovalsInv /\ Counted /\ [Next]_approvals => Counted'
  <1> SUFFICES ASSUME Repeats = FALSE, ApprovalsInv, Counted, [Next]_approvals PROVE Counted'
    OBVIOUS
  <1>1. CASE UNCHANGED approvals
    BY <1>1 DEF approvals, Counted, Approving
  <1>2. CASE Deciding
    BY <1>2, OpenIsSafe, ExpireIsSafe, DecideCounts DEF Deciding
  <1>3. CASE Invalidating
    BY <1>3, InvalidatingIsSafe
  <1> QED
    BY <1>1, <1>2, <1>3 DEF Next

\* Each approving member has one approving decision.
LEMMA AsManyMembers ==
    ASSUME ApprovalsInv, NEW r \in Requests
    PROVE  Cardinality(Approvers(r)) = Cardinality(Approving(r))
  <1> DEFINE f == [d \in Approving(r) |-> d.actor]
  <1>1. f \in [Approving(r) -> Approvers(r)] /\ \A a \in Approvers(r) : \E d \in Approving(r) : f[d] = a
    BY DEF Approvers, Approving
  <1>2. \A d, e \in Approving(r) : f[d] = f[e] => d = e
    BY DEF ApprovalsInv, OneEach, Approving
  <1>4. IsFiniteSet(Approving(r))
    BY FS_Subset DEF ApprovalsInv, Approving
  <1> HIDE DEF f
  <1>3. f \in Surjection(Approving(r), Approvers(r)) /\ f \in Injection(Approving(r), Approvers(r))
    BY <1>1, <1>2, Zenon DEF Injection, Surjection, IsInjective
  <1> QED
    BY <1>3, <1>4, FS_Surjection

\* With one decision for each member, as many decisions are as many members.
LEMMA CountedIsQuorum == ApprovalsInv /\ Counted => Quorum
  <1> SUFFICES ASSUME ApprovalsInv, Counted, NEW r \in Requests, requests[r].status = "APPROVED"
               PROVE  /\ Cardinality(Approvers(r)) >= MinApprovals
                      /\ Approvers(r) \subseteq Eligible
                      /\ SelfApproval \/ requests[r].requestedBy \notin Approvers(r)
    BY DEF Quorum
  <1>1. Cardinality(Approvers(r)) >= MinApprovals
    BY AsManyMembers DEF Counted
  <1>2. Approvers(r) \subseteq Eligible /\ (SelfApproval \/ requests[r].requestedBy \notin Approvers(r))
    BY DEF ApprovalsInv, Entitled, Approvers
  <1> QED
    BY <1>1, <1>2

\* No step opens what was closed.
LEMMA StepKeepsClosed ==
    ApprovalsInv /\ [Next]_approvals
      => [\A r \in Requests : requests[r] # None /\ ~ Live(r) => ~ Live(r)']_approvals
  <1> SUFFICES ASSUME ApprovalsInv, Next, NEW r \in Requests, requests[r] # None, ~ Live(r)
               PROVE  ~ Live(r)'
    OBVIOUS
  <1>0. requests[r] \in Rows /\ DOMAIN requests = Requests
    BY DEF ApprovalsInv, TypeOK
  <1>1. ASSUME NEW q \in Requests, NEW a \in Actors, NEW v \in Versions, NEW h \in Versions,
               NEW due \in 1 .. MaxTime, openRequest(q, a, v, h, due)
        PROVE  ~ Live(r)'
    <2>1. q # r
      BY <1>1 DEF openRequest
    <2>2. requests'[r] = requests[r]
      BY <1>1, <2>1, <1>0 DEF openRequest, ApprovalsInv, TypeOK
    <2> QED
      BY <2>2 DEF Live
  <1>2. ASSUME NEW q \in Requests, NEW at, Expire(q, at) PROVE ~ Live(r)'
    <2>1. CASE q = r
      <3>1. requests'[r].status = "EXPIRED"
        BY <1>2, <2>1, <1>0 DEF Expire, Rows, ApprovalsInv, TypeOK
      <3> QED
        BY <3>1 DEF Live
    <2>2. CASE q # r
      <3>1. requests'[r] = requests[r]
        BY <1>2, <2>2, <1>0 DEF Expire, ApprovalsInv, TypeOK
      <3> QED
        BY <3>1 DEF Live
    <2> QED
      BY <2>1, <2>2
  <1>3. ASSUME NEW d \in Decisions, NEW at, decide(d, at) PROVE ~ Live(r)'
    <2>1. d.request # r
      BY <1>3 DEF decide, MayDecide, Live
    <2>2. requests'[r] = requests[r]
      BY <1>3, <2>1, <1>0 DEF decide, ApprovalsInv, TypeOK
    <2> QED
      BY <2>2 DEF Live
  <1>4. ASSUME NEW S \in SUBSET Requests, \A q \in S : Live(q), requests' = Cancelled(S)
        PROVE  ~ Live(r)'
    <2>1. r \notin S
      BY <1>4
    <2>2. requests'[r] = requests[r]
      BY <1>4, <2>1 DEF Cancelled
    <2> QED
      BY <2>2 DEF Live
  <1>5. CASE Deciding
    BY <1>5, <1>1, <1>2, <1>3 DEF Deciding
  <1>6. CASE Invalidating
    <2>1. PICK S \in SUBSET Requests : (\A q \in S : Live(q)) /\ requests' = Cancelled(S)
      BY <1>6, InvalidatingCancels
    <2> QED
      BY <2>1, <1>4
  <1> QED
    BY <1>5, <1>6 DEF Next

\* The inductive invariant, repeated decisions or not.
THEOREM ApprovalsInvariant == Spec => []ApprovalsInv
  <1>1. Init => ApprovalsInv
    BY ApprovalsInit
  <1> QED
    BY <1>1, ApprovalsStep, PTL DEF Spec

\* Requests and decisions are what the repository's parsers accept.
THEOREM ApprovalsTypes == Spec => []TypeOK
  <1>1. ApprovalsInv => TypeOK
    BY DEF ApprovalsInv
  <1> QED
    BY <1>1, ApprovalsInvariant, PTL

\* One rejection settles a request for good.
THEOREM RejectionsAreFinal == Spec => []RejectionIsFinal
  <1>1. ApprovalsInv => RejectionIsFinal
    BY DEF ApprovalsInv
  <1> QED
    BY <1>1, ApprovalsInvariant, PTL

\* A request that was rejected, cancelled or expired never waits again.
THEOREM ClosedForGood == Spec => NeverReopened
  BY ApprovalsInvariant, StepKeepsClosed, PTL DEF Spec, NeverReopened

\* When no client sends a decision again, an approved request has the approvals
\* of as many different eligible members as the policy wants.
THEOREM QuorumIsReached == Repeats = FALSE => (Spec => []Quorum)
  <1> SUFFICES ASSUME Repeats = FALSE PROVE Spec => []Quorum
    OBVIOUS
  <1>1. Init => ApprovalsInv /\ Counted
    BY ApprovalsInit
  <1>2. ApprovalsInv /\ Counted /\ [Next]_approvals => ApprovalsInv' /\ Counted'
    BY ApprovalsStep, StepCounts
  <1>3. ApprovalsInv /\ Counted => Quorum
    BY CountedIsQuorum
  <1> QED
    BY <1>1, <1>2, <1>3, PTL DEF Spec

-----------------------------------------------------------------------------
(* DashboardPublication: requests, decisions, the line of versions.         *)

\* The row of the dashboard.
PublicationBoards == [published : PublicationVersions \cup {NoVersion},
    revision : Publication!Revisions]

\* A row of the outbox of withdrawals.
PublicationRows == [revision : Publication!Revisions, version : PublicationVersions, leased : BOOLEAN,
    due : SUBSET PublicationRequests,
            state : {"PENDING", "CLAIMED", "FAILED", "COMPLETED"}]

\* A caller that has read the revision of the dashboard.
PublicationAdmissions == [at : {"admit"}, version : PublicationVersions, key : PublicationKeys,
    expected : Publication!Revisions]

\* A caller that knows the version it is to replace.
PublicationPrepared == [at : {"approve", "commit"}, version : PublicationVersions,
    key : PublicationKeys, expected : Publication!Revisions,
                prior : PublicationVersions \cup {NoVersion}]

\* A worker with a withdrawal.
PublicationTasks == [at : {"invalidate", "COMPLETED", "FAILED"}, revision : Publication!Revisions]

\* The types that the steps need.
PublicationTyped ==
    /\ board \in PublicationBoards
    /\ publications \subseteq [version : PublicationVersions,
        prior : PublicationVersions \cup {NoVersion}, key : PublicationKeys,
                               revision : Publication!Revisions]
    /\ publishing \in [PublicationCallers -> {Publication!Idle} \cup PublicationAdmissions \cup PublicationPrepared]
    /\ outbox \subseteq PublicationRows
    /\ task \in [PublicationWorkers -> {Publication!Idle} \cup PublicationTasks]
    /\ asked \in [PublicationRequests -> Publication!A!Rows \cup {Publication!A!None}]

\* The version a publication replaces is the one the dashboard had at the revision it expects.
PublicationCall(k) ==
    k # Publication!Idle =>
        /\ k.expected <= board.revision
        /\ k.at # "admit" /\ k.expected = board.revision =>
               k.prior = IF board.published = k.version THEN NoVersion ELSE board.published

\* Each publication has a revision of its own, none of them later than the dashboard's.
PublicationLine ==
    /\ \A p \in publications : p.revision <= board.revision
    /\ \A p, q \in publications : p.revision = q.revision => p = q
    /\ Publication!HistoryIsLinear
    /\ Publication!OneSnapshotPerKey

\* Each withdrawal has a revision of its own, and is for requests of the version it names.
PublicationOutbox ==
    /\ \A o \in outbox : o.revision <= board.revision
    /\ \A o, x \in outbox : o.revision = x.revision => o = x
    /\ \A o \in outbox, r \in PublicationRequests :
           r \in o.due => asked[r] # Publication!A!None /\ asked[r].version = o.version
    /\ Publication!DoneMeansWithdrawn

\* A worker has a row, which is withdrawn before it is marked.
PublicationTask(t) ==
    t # Publication!Idle => \E o \in outbox :
        o.revision = t.revision /\ (t.at = "COMPLETED" => \A r \in o.due : ~ Publication!A!Live(r))

\* The inductive invariant: the line of versions, the withdrawals that are recorded, and what callers
\* and workers have read.
PublicationInv ==
    /\ PublicationTyped
    /\ \A c \in PublicationCallers : PublicationCall(publishing[c])
    /\ PublicationLine
    /\ PublicationOutbox
    /\ \A w \in PublicationWorkers : PublicationTask(task[w])

\* There are a first version and no publication at first.
LEMMA PublicationInit == Publication!Init => PublicationInv
  <1> SUFFICES ASSUME Publication!Init PROVE PublicationInv
    OBVIOUS
  <1>1. PublicationTyped
    BY PublicationAssumption DEF Publication!Init, Publication!A!Init, PublicationTyped,
       PublicationBoards, Publication!Revisions
  <1> QED
    BY <1>1 DEF Publication!Init, PublicationInv, PublicationCall, PublicationLine, PublicationOutbox,
       PublicationTask, Publication!HistoryIsLinear, Publication!OneSnapshotPerKey,
       Publication!DoneMeansWithdrawn

\* Idle is no call and no task under way.
LEMMA PublicationIdle == Publication!Idle \notin PublicationAdmissions \cup PublicationPrepared \cup PublicationTasks
  BY DEF Publication!Idle, PublicationAdmissions, PublicationPrepared, PublicationTasks

\* The latest of a set is the one that no other follows.
LEMMA PublicationLatest ==
    ASSUME NEW S, \A p \in S : p.revision \in Nat, \A p, q \in S : p.revision = q.revision => p = q,
           NEW p \in S, \A q \in S : q.revision <= p.revision
    PROVE  Publication!Latest(S) = p
  BY DEF Publication!Latest

\* What a step of Approvals does to the requests: they keep their version, and what is closed stays.
PublicationCloses ==
    /\ asked' \in [PublicationRequests -> Publication!A!Rows \cup {Publication!A!None}]
    /\ \A r \in PublicationRequests : asked[r] # Publication!A!None =>
           /\ asked'[r] # Publication!A!None
           /\ asked'[r].version = asked[r].version
           /\ ~ Publication!A!Live(r) => ~ Publication!A!Live(r)'

\* A request whose status changes stays a request for its version.
LEMMA PublicationStatus ==
    ASSUME PublicationTyped, NEW r \in PublicationRequests, asked[r] # Publication!A!None,
        NEW s \in Publication!A!Statuses
    PROVE  /\ [asked[r] EXCEPT !.status = s] \in Publication!A!Rows
           /\ [asked[r] EXCEPT !.status = s].status = s
           /\ [asked[r] EXCEPT !.status = s].version = asked[r].version
           /\ [asked[r] EXCEPT !.status = s] # Publication!A!None
  <1>1. asked[r] \in Publication!A!Rows
    BY DEF PublicationTyped
  <1>2. [asked[r] EXCEPT !.status = s] \in Publication!A!Rows
    BY <1>1 DEF Publication!A!Rows
  <1>3. [asked[r] EXCEPT !.status = s].status = s
    BY <1>1 DEF Publication!A!Rows
  <1>4. [asked[r] EXCEPT !.status = s].version = asked[r].version
    BY <1>1 DEF Publication!A!Rows
  <1>5. s # "NONE"
    BY DEF Publication!A!Statuses
  <1> QED
    BY <1>2, <1>3, <1>4, <1>5 DEF Publication!A!None

\* A request is opened for a version.
LEMMA PublicationOpens ==
    ASSUME PublicationInv, NEW r \in PublicationRequests, NEW a \in PublicationActors,
        NEW v \in PublicationVersions, Publication!Open(r, a, v),
           MaxTime \in Nat \ {0}
    PROVE  PublicationCloses
  BY DEF PublicationInv, PublicationTyped, PublicationCloses, Publication!Open,
     Publication!A!openRequest, Publication!A!Rows, Publication!A!None, Publication!A!Statuses,
     Publication!A!Live

\* A decision is stored, and may approve or reject.
LEMMA PublicationDecides == ASSUME PublicationInv, NEW d \in Publication!A!Decisions,
    Publication!Decide(d) PROVE PublicationCloses
  <1> DEFINE r == d.request
  <1>1. r \in PublicationRequests /\ asked[r] # Publication!A!None /\ Publication!A!Live(r)
            /\ Publication!A!Outcome(d) \in Publication!A!Statuses
    BY DEF Publication!Decide, Publication!A!decide, Publication!A!MayDecide, Publication!A!Decisions,
       Publication!A!Live, Publication!A!Outcome, Publication!A!Statuses
  <1>2. asked' = [asked EXCEPT ![r] = [asked[r] EXCEPT !.status = Publication!A!Outcome(d)]]
    BY DEF Publication!Decide, Publication!A!decide
  <1> HIDE DEF r
  <1> QED
    BY <1>1, <1>2, PublicationStatus DEF PublicationInv, PublicationTyped, PublicationCloses,
       Publication!A!Live

\* What is due is closed.
LEMMA PublicationExpires == ASSUME PublicationInv, NEW r \in PublicationRequests,
    Publication!Overdue(r) PROVE PublicationCloses
  <1>1. /\ asked[r] # Publication!A!None
        /\ "EXPIRED" \in Publication!A!Statuses
        /\ asked' = [asked EXCEPT ![r] = [asked[r] EXCEPT !.status = "EXPIRED"]]
    BY DEF Publication!Overdue, Publication!A!Expire, Publication!A!Statuses
  <1> QED
    BY <1>1, PublicationStatus DEF PublicationInv, PublicationTyped, PublicationCloses,
       Publication!A!Live

\* The invalidation of a version leaves no live request for it.
LEMMA PublicationWithdraws ==
    ASSUME PublicationInv, NEW v, Publication!A!invalidatePriorVersion(v)
    PROVE  /\ PublicationCloses
           /\ \A r \in PublicationRequests : asked[r] # Publication!A!None /\ asked[r].version = v =>
               ~ Publication!A!Live(r)'
  <1>1. "CANCELLED" \in Publication!A!Statuses
    BY DEF Publication!A!Statuses
  <1>2. \A r \in PublicationRequests :
            asked'[r] = IF Publication!A!Live(r) /\ asked[r].version = v
                           THEN [asked[r] EXCEPT !.status = "CANCELLED"] ELSE asked[r]
    BY DEF Publication!A!invalidatePriorVersion, Publication!A!Cancelled
  <1>3. \A r \in PublicationRequests : Publication!A!Live(r) => asked[r] # Publication!A!None
    BY DEF Publication!A!Live, Publication!A!None
  <1>4. asked' = [r \in PublicationRequests |-> asked'[r]]
    BY DEF Publication!A!invalidatePriorVersion, Publication!A!Cancelled
  <1>5. \A r \in PublicationRequests : Publication!A!Live(r)' <=>
            Publication!A!Live(r) /\ asked[r].version # v
    BY <1>1, <1>2, <1>3, PublicationStatus DEF PublicationInv, Publication!A!Live
  <1>6. PublicationCloses
    <2>1. \A r \in PublicationRequests : asked[r] # Publication!A!None =>
              /\ asked'[r] \in Publication!A!Rows /\ asked'[r] # Publication!A!None
              /\ asked'[r].version = asked[r].version
      <3>1. PublicationTyped
                /\ asked \in [PublicationRequests -> Publication!A!Rows \cup {Publication!A!None}]
        BY DEF PublicationInv, PublicationTyped
      <3> SUFFICES ASSUME NEW r \in PublicationRequests, asked[r] # Publication!A!None
                   PROVE  /\ asked'[r] \in Publication!A!Rows /\ asked'[r] # Publication!A!None
                          /\ asked'[r].version = asked[r].version
        OBVIOUS
      <3>2. CASE asked'[r] = [asked[r] EXCEPT !.status = "CANCELLED"]
        BY <1>1, <3>1, <3>2, PublicationStatus
      <3>3. CASE asked'[r] = asked[r]
        BY <3>1, <3>3
      <3> QED
        BY <1>2, <3>2, <3>3
    <2>2. \A r \in PublicationRequests : asked[r] = Publication!A!None => asked'[r] = Publication!A!None
      BY <1>2, <1>3
    <2> QED
      BY <1>4, <1>5, <2>1, <2>2 DEF PublicationCloses
  <1> QED
    BY <1>5, <1>6

\* Steps that change the requests and nothing of the dashboard.
LEMMA PublicationRequestSteps ==
    ASSUME PublicationInv, PublicationCloses, UNCHANGED <<Publication!dashboard, publishing, task>>
        PROVE PublicationInv'
  <1> USE DEF PublicationInv, Publication!dashboard
  <1>1. PublicationTyped' /\ PublicationLine' /\ \A c \in PublicationCallers :
            PublicationCall(publishing[c])'
    BY DEF PublicationTyped, PublicationCloses, PublicationLine, PublicationCall,
       Publication!HistoryIsLinear, Publication!OneSnapshotPerKey, Publication!Before
  <1>2. \A o \in outbox : \A r \in o.due : r \in PublicationRequests /\ asked[r] # Publication!A!None
    BY DEF PublicationTyped, PublicationRows, PublicationOutbox
  <1>3. PublicationOutbox' /\ \A w \in PublicationWorkers : PublicationTask(task[w])'
    BY <1>2 DEF PublicationCloses, PublicationOutbox, PublicationTask, Publication!DoneMeansWithdrawn
  <1> QED
    BY <1>1, <1>3

\* A caller goes on, or gives up.
LEMMA PublicationGoes ==
    ASSUME PublicationInv, NEW c \in PublicationCallers,
        NEW k \in {Publication!Idle} \cup PublicationAdmissions \cup PublicationPrepared,
           Publication!Goto(c, k), PublicationCall(k), UNCHANGED <<asked, Publication!dashboard, task>>
    PROVE  PublicationInv'
  <1> USE DEF PublicationInv, Publication!dashboard
  <1>1. \A d \in PublicationCallers : publishing'[d] = IF d = c THEN k ELSE publishing[d]
    BY DEF Publication!Goto, PublicationTyped
  <1>2. PublicationTyped'
    BY DEF PublicationTyped, Publication!Goto
  <1>3. \A d \in PublicationCallers : PublicationCall(publishing[d])'
    BY <1>1 DEF PublicationCall
  <1>4. PublicationLine' /\ PublicationOutbox' /\ \A w \in PublicationWorkers :
            PublicationTask(task[w])'
    BY DEF PublicationLine, PublicationOutbox, PublicationTask, Publication!HistoryIsLinear,
       Publication!OneSnapshotPerKey, Publication!DoneMeansWithdrawn, Publication!Before,
       Publication!A!Live
  <1> QED
    BY <1>2, <1>3, <1>4

\* What a caller does before its transaction changes its own record.
LEMMA PublicationCallerSteps ==
    ASSUME PublicationInv, NEW c \in PublicationCallers,
           \/ \E v \in PublicationVersions, k \in PublicationKeys : Publication!Publish(c, v, k)
           \/ Publication!Admit(c) \/ Publication!Approve(c) \/ Publication!Drop(c)
    PROVE  PublicationInv'
  <1> USE DEF PublicationInv
  <1>0. PublicationCall(Publication!Idle) /\ Publication!Idle \in {Publication!Idle}
            /\ board.revision \in Publication!Revisions
                /\ publishing[c] \in {Publication!Idle} \cup PublicationAdmissions \cup PublicationPrepared
        /\ board.revision <= board.revision
    BY PublicationAssumption DEF PublicationCall, PublicationTyped, PublicationBoards,
       Publication!Revisions
  <1>1. ASSUME NEW v \in PublicationVersions, NEW k \in PublicationKeys, Publication!Publish(c, v, k)
        PROVE PublicationInv'
    <2> DEFINE n == [at |-> "admit", version |-> v, key |-> k, expected |-> board.revision]
    <2>1. n \in PublicationAdmissions /\ PublicationCall(n)
      BY <1>0 DEF PublicationAdmissions, PublicationCall
    <2>2. Publication!Goto(c, n) /\ UNCHANGED <<asked, Publication!dashboard, task>>
      BY <1>1 DEF Publication!Publish, Publication!worker
    <2> HIDE DEF n
    <2> QED
      BY <2>1, <2>2, PublicationGoes
  <1>2. CASE Publication!Admit(c)
    <2>1. publishing[c] \in PublicationAdmissions
      BY <1>0, <1>2 DEF Publication!Admit, Publication!Idle, PublicationPrepared
    <2>2. CASE publishing[c].version \in versions /\ board.revision = publishing[c].expected
      <3> DEFINE n == [at |-> "approve", version |-> publishing[c].version, key |-> publishing[c].key,
                       expected |-> publishing[c].expected,
                       prior |-> IF board.published = publishing[c].version THEN NoVersion ELSE board.published]
      <3>1. n \in PublicationPrepared
        BY <2>1 DEF PublicationAdmissions, PublicationPrepared, PublicationTyped, PublicationBoards
      <3>2. PublicationCall(n)
        BY <1>0, <2>2 DEF PublicationCall
      <3>3. Publication!Goto(c, n) /\ UNCHANGED <<asked, Publication!dashboard, task>>
        BY <1>2, <2>2 DEF Publication!Admit, Publication!worker
      <3> HIDE DEF n
      <3> QED
        BY <3>1, <3>2, <3>3, PublicationGoes
    <2>3. CASE ~(publishing[c].version \in versions /\ board.revision = publishing[c].expected)
      BY <1>0, <1>2, <2>3, PublicationGoes DEF Publication!Admit, Publication!worker
    <2> QED
      BY <2>2, <2>3
  <1>3. CASE Publication!Approve(c)
    <2> DEFINE n == [publishing[c] EXCEPT !.at = "commit"]
    <2>1. Publication!Goto(c, n) \/ Publication!Goto(c, Publication!Idle)
      BY <1>3 DEF Publication!Approve
    <2>2. publishing[c] \in PublicationPrepared /\ publishing[c].at = "approve"
      BY <1>0, <1>3 DEF Publication!Approve, Publication!Idle, PublicationAdmissions
    <2>3. n \in PublicationPrepared /\ n.expected = publishing[c].expected
              /\ n.prior = publishing[c].prior /\ n.version = publishing[c].version
      BY <2>2 DEF PublicationPrepared
    <2>4. PublicationCall(n)
      BY <2>2, <2>3, PublicationIdle DEF PublicationCall
    <2>5. UNCHANGED <<asked, Publication!dashboard, task>>
      BY <1>3 DEF Publication!Approve, Publication!worker
    <2> HIDE DEF n
    <2> QED
      BY <1>0, <2>1, <2>3, <2>4, <2>5, PublicationGoes
  <1>4. CASE Publication!Drop(c)
    BY <1>0, <1>4, PublicationGoes DEF Publication!Drop, Publication!worker
  <1> QED
    BY <1>1, <1>2, <1>3, <1>4

\* Authoring commits a version, which raises the revision of the dashboard.
LEMMA PublicationDrafts ==
    ASSUME PublicationInv, NEW v \in PublicationVersions, Publication!commitAuthoringVersion(v)
        PROVE PublicationInv'
  <1> USE DEF PublicationInv
  <1>1. /\ board' = [board EXCEPT !.revision = @ + 1]
        /\ UNCHANGED <<asked, publications, outbox, publishing, task>>
        /\ board.revision < PublicationMaxRevision
        /\ board \in PublicationBoards
    BY DEF Publication!commitAuthoringVersion, Publication!worker, PublicationTyped
  <1>2. /\ board' \in PublicationBoards
        /\ board'.revision = board.revision + 1
        /\ board'.published = board.published
        /\ board.revision \in Nat
    BY <1>1, PublicationAssumption DEF PublicationBoards, Publication!Revisions
  <1>3. PublicationTyped'
    BY <1>1, <1>2 DEF PublicationTyped
  <1>4. \A c \in PublicationCallers : PublicationCall(publishing[c])'
    <2> SUFFICES ASSUME NEW c \in PublicationCallers, publishing[c] # Publication!Idle
        PROVE PublicationCall(publishing[c])'
      BY <1>1 DEF PublicationCall
    <2>1. publishing[c].expected \in Nat
      BY PublicationAssumption DEF PublicationTyped, PublicationAdmissions, PublicationPrepared,
         Publication!Revisions
    <2> QED
      BY <1>1, <1>2, <2>1 DEF PublicationCall
  <1>5. PublicationLine'
    <2>1. \A p \in publications : p.revision \in Nat
      BY PublicationAssumption DEF PublicationTyped, Publication!Revisions
    <2> QED
      BY <1>1, <1>2, <2>1 DEF PublicationLine, Publication!HistoryIsLinear,
         Publication!OneSnapshotPerKey, Publication!Before
  <1>6. PublicationOutbox'
    <2>1. \A o \in outbox : o.revision \in Nat
      BY PublicationAssumption DEF PublicationTyped, PublicationRows, Publication!Revisions
    <2> QED
      BY <1>1, <1>2, <2>1 DEF PublicationOutbox, Publication!DoneMeansWithdrawn, Publication!A!Live
  <1>7. \A w \in PublicationWorkers : PublicationTask(task[w])'
    BY <1>1 DEF PublicationTask, Publication!A!Live
  <1> QED
    BY <1>3, <1>4, <1>5, <1>6, <1>7

\* A publication replaces the version that the latest one before it published.
LEMMA PublicationPublishes ==
    ASSUME PublicationInv, NEW c \in PublicationCallers, publishing[c].at = "commit",
        board.revision < PublicationMaxRevision, Publication!Committable(c),
           Publication!commitPublication(c)
    PROVE  PublicationInv'
  <1> USE DEF PublicationInv
  <1> DEFINE k == publishing[c]
             n == board.revision + 1
             new == [version |-> k.version, prior |-> k.prior, key |-> k.key, revision |-> n]
             row == [revision |-> n, version |-> k.prior, state |-> "PENDING", leased |-> FALSE,
                     due |-> {r \in PublicationRequests : asked[r] # Publication!A!None
                         /\ Publication!A!Live(r)
                                                 /\ asked[r].version = k.prior}]
  <1>1. /\ k \in PublicationPrepared /\ k # Publication!Idle /\ k.at # "admit"
        /\ board.revision \in Nat /\ n \in Publication!Revisions /\ board \in PublicationBoards
    <2>1. k \in {Publication!Idle} \cup PublicationAdmissions \cup PublicationPrepared
      BY DEF PublicationTyped
    <2>2. k \in PublicationPrepared
      BY <2>1 DEF Publication!Idle, PublicationAdmissions
    <2> QED
      BY <2>2, PublicationAssumption, PublicationIdle DEF PublicationTyped, PublicationBoards,
         Publication!Revisions
  <1>2. k.prior = IF board.published = k.version THEN NoVersion ELSE board.published
    BY <1>1 DEF PublicationCall, Publication!Committable
  <1>3. /\ board' = [published |-> k.version, revision |-> n]
        /\ publications' = publications \cup {new}
        /\ outbox' = outbox \cup (IF k.prior = NoVersion THEN {} ELSE {row})
        /\ Publication!Goto(c, Publication!Idle)
        /\ UNCHANGED <<asked, task>>
    BY DEF Publication!commitPublication, Publication!worker
  <1>4. new \in [version : PublicationVersions, prior : PublicationVersions \cup {NoVersion},
            key : PublicationKeys, revision : Publication!Revisions]
    BY <1>1 DEF PublicationPrepared
  <1>5. k.prior # NoVersion => row \in PublicationRows
    BY <1>1 DEF PublicationPrepared, PublicationRows
  <1>6. /\ new.revision = n /\ new.key = k.key /\ new.version = k.version /\ new.prior = k.prior
        /\ row.revision = n /\ row.version = k.prior /\ row.state = "PENDING"
        /\ \A r \in row.due : r \in PublicationRequests /\ asked[r] # Publication!A!None
            /\ asked[r].version = k.prior
    OBVIOUS
  <1>6a. board'.revision = n /\ board'.published = k.version
    BY <1>3
  <1> HIDE DEF new, row
  <1>7. PublicationTyped'
    <2>1. board' \in PublicationBoards
      BY <1>1, <1>3 DEF PublicationBoards, PublicationPrepared
    <2>2. publishing' \in [PublicationCallers -> {Publication!Idle} \cup PublicationAdmissions \cup PublicationPrepared]
      BY <1>3 DEF Publication!Goto, PublicationTyped
    <2> QED
      BY <1>3, <1>4, <1>5, <2>1, <2>2 DEF PublicationTyped
  <1>8. \A d \in PublicationCallers : PublicationCall(publishing[d])'
    <2> SUFFICES ASSUME NEW d \in PublicationCallers, publishing'[d] # Publication!Idle
        PROVE PublicationCall(publishing[d])'
      BY DEF PublicationCall
    <2>1. publishing'[d] = publishing[d] /\ publishing[d].expected \in Nat
      BY <1>3, PublicationAssumption DEF Publication!Goto, PublicationTyped, PublicationAdmissions,
         PublicationPrepared, Publication!Revisions
    <2> QED
      BY <1>1, <1>6a, <2>1 DEF PublicationCall
  <1>9. \A p \in publications : p.revision \in Nat /\ p.revision < n
    BY <1>1, PublicationAssumption DEF PublicationTyped, PublicationLine, Publication!Revisions
  <1>10. PublicationLine'
    <2>1. \A p, q \in publications' : p.revision = q.revision => p = q
      BY <1>3, <1>6, <1>9 DEF PublicationLine
    <2>2. \A p \in publications' : p.revision <= board'.revision
      BY <1>1, <1>3, <1>6, <1>6a, <1>9
    <2>3. Publication!OneSnapshotPerKey'
      BY <1>3, <1>6 DEF PublicationLine, Publication!OneSnapshotPerKey, Publication!Committable
    <2>4. Publication!Latest(publications') = new
      BY <1>1, <1>3, <1>6, <1>9, <2>1, PublicationLatest
    <2> DEFINE Earlier(p) == {q \in publications' : q.revision < p.revision}
    <2>5. \A p \in publications : Earlier(p) = Publication!Before(p)
      BY <1>1, <1>3, <1>6, <1>9 DEF Publication!Before
    <2>6. Earlier(new) = publications
      BY <1>1, <1>3, <1>6, <1>9
    <2>7. ASSUME NEW p \in publications'
          PROVE  LET previous == IF Earlier(p) = {} THEN NoVersion ELSE Publication!Latest(Earlier(p)).version
                 IN IF previous \in {NoVersion, p.version} THEN p.prior = NoVersion
                    ELSE \E o \in outbox' : o.revision = p.revision /\ o.version = previous
      <3>1. CASE p \in publications
        <4>1. outbox \subseteq outbox' /\ Earlier(p) = Publication!Before(p)
          BY <1>3, <2>5, <3>1
        <4> HIDE DEF Earlier
        <4> QED
          BY <3>1, <4>1 DEF PublicationLine, Publication!HistoryIsLinear
      <3>2. CASE p = new
        <4>1. board.published = IF Earlier(p) = {} THEN NoVersion ELSE Publication!Latest(Earlier(p)).version
          BY <2>6, <3>2 DEF PublicationLine, Publication!HistoryIsLinear
        <4>2. CASE board.published \in {NoVersion, k.version}
          BY <1>2, <1>6, <3>2, <4>1, <4>2
        <4>3. CASE board.published \notin {NoVersion, k.version}
          <5>1. row \in outbox' /\ row.version = board.published
            BY <1>2, <1>3, <1>6, <4>3
          <5> QED
            BY <1>6, <3>2, <4>1, <4>3, <5>1
        <4> QED
          BY <4>2, <4>3
      <3> QED
        BY <1>3, <3>1, <3>2
    <2>8. Publication!HistoryIsLinear'
      BY <1>3, <1>6, <1>6a, <2>4, <2>7 DEF Publication!HistoryIsLinear, Publication!Before
    <2> QED
      BY <2>1, <2>2, <2>3, <2>8 DEF PublicationLine
  <1>11. \A o \in outbox : o.revision \in Nat /\ o.revision < n
    BY <1>1, PublicationAssumption DEF PublicationTyped, PublicationOutbox, PublicationRows,
       Publication!Revisions
  <1>12. PublicationOutbox'
    <2>1. \A o \in outbox' : o \in outbox \/ o = row
      BY <1>3
    <2>2. \A o \in outbox' : o.revision <= board'.revision
      BY <1>1, <1>6, <1>6a, <1>11, <2>1
    <2>3. \A o, x \in outbox' : o.revision = x.revision => o = x
      BY <1>6, <1>11, <2>1 DEF PublicationOutbox
    <2>4. \A o \in outbox', r \in PublicationRequests :
              r \in o.due => asked'[r] # Publication!A!None /\ asked'[r].version = o.version
      BY <1>3, <1>6, <2>1 DEF PublicationOutbox
    <2>5. Publication!DoneMeansWithdrawn'
      BY <1>3, <1>6, <2>1 DEF PublicationOutbox, Publication!DoneMeansWithdrawn, Publication!A!Live
    <2> QED
      BY <2>2, <2>3, <2>4, <2>5 DEF PublicationOutbox
  <1>13. \A w \in PublicationWorkers : PublicationTask(task[w])'
    BY <1>3 DEF PublicationTask, Publication!A!Live
  <1> QED
    BY <1>7, <1>8, <1>10, <1>12, <1>13

\* The transaction of a publication: it replaces the version it has compared, and records the
\* withdrawal of that version.
LEMMA PublicationCommits == ASSUME PublicationInv, NEW c \in PublicationCallers,
    Publication!commitPublication(c) PROVE PublicationInv'
  <1>1. CASE Publication!Committable(c)
    BY <1>1, PublicationPublishes DEF Publication!commitPublication
  <1>2. CASE ~ Publication!Committable(c)
    BY <1>2, PublicationGoes DEF Publication!commitPublication, Publication!dashboard,
       Publication!worker, PublicationCall
  <1> QED
    BY <1>1, <1>2

\* A row of the outbox is written back, for the same revision, version and requests.
LEMMA PublicationPuts ==
    ASSUME PublicationInv, NEW o \in outbox, NEW x \in PublicationRows, Publication!Put(x),
           x.revision = o.revision, x.version = o.version, x.due = o.due,
           x.state = "COMPLETED" => \A r \in o.due : ~ Publication!A!Live(r),
           UNCHANGED <<asked, board, publications, publishing>>,
           task' \in [PublicationWorkers -> {Publication!Idle} \cup PublicationTasks],
           \A w \in PublicationWorkers : PublicationTask(task'[w])
    PROVE  PublicationInv'
  <1> USE DEF PublicationInv
  <1>1. /\ \A y \in outbox' : y = x \/ (y \in outbox /\ y.revision # o.revision)
        /\ x \in outbox'
        /\ \A y \in outbox : y # o => y \in outbox'
    BY DEF Publication!Put, PublicationOutbox
  <1>2. PublicationTyped'
    BY <1>1 DEF PublicationTyped
  <1>3. \A d \in PublicationCallers : PublicationCall(publishing[d])'
    BY DEF PublicationCall
  <1>4. PublicationLine'
    <2>1. \A y \in outbox : \E z \in outbox' : z.revision = y.revision /\ z.version = y.version
      BY <1>1
    <2> QED
      <3>1. \A p \in publications :
               LET previous == IF Publication!Before(p) = {} THEN NoVersion ELSE Publication!Latest(Publication!Before(p)).version
               IN IF previous \in {NoVersion, p.version} THEN p.prior = NoVersion
                  ELSE \E z \in outbox' : z.revision = p.revision /\ z.version = previous
        BY <2>1 DEF PublicationLine, Publication!HistoryIsLinear
      <3>2. Publication!HistoryIsLinear'
        BY <3>1 DEF PublicationLine, Publication!HistoryIsLinear, Publication!Before
      <3> QED
        BY <3>2 DEF PublicationLine, Publication!OneSnapshotPerKey
  <1>5. PublicationOutbox'
    BY <1>1 DEF PublicationOutbox, Publication!DoneMeansWithdrawn, Publication!A!Live
  <1>6. \A w \in PublicationWorkers : PublicationTask(task[w])'
    BY <1>1 DEF PublicationTask, Publication!A!Live
  <1> QED
    BY <1>2, <1>3, <1>4, <1>5, <1>6

\* The row of a worker.
LEMMA PublicationRow ==
    ASSUME PublicationInv, NEW w \in PublicationWorkers, task[w] # Publication!Idle
    PROVE  /\ Publication!Row(w) \in outbox /\ Publication!Row(w).revision = task[w].revision
           /\ task[w].at = "COMPLETED" => \A r \in Publication!Row(w).due : ~ Publication!A!Live(r)
  <1>1. PICK o \in outbox : /\ o.revision = task[w].revision
                            /\ task[w].at = "COMPLETED" => \A r \in o.due : ~ Publication!A!Live(r)
    BY DEF PublicationInv, PublicationTask
  <1>2. Publication!Row(w) = o
    BY <1>1 DEF PublicationInv, PublicationOutbox, Publication!Row
  <1> QED
    BY <1>1, <1>2

\* A worker claims the withdrawal that is next.
LEMMA PublicationClaims ==
    ASSUME PublicationInv, NEW w \in PublicationWorkers, Publication!claimNext(w) PROVE PublicationInv'
  <1> USE DEF PublicationInv
  <1>1. PICK o \in outbox : /\ Publication!Put([o EXCEPT !.state = "CLAIMED", !.leased = TRUE])
                            /\ task' = [task EXCEPT ![w] = [at |-> "invalidate",
                                revision |-> o.revision]]
    BY DEF Publication!claimNext
  <1>2. o \in PublicationRows
    BY DEF PublicationTyped
  <1> DEFINE x == [o EXCEPT !.state = "CLAIMED", !.leased = TRUE]
             t == [at |-> "invalidate", revision |-> o.revision]
  <1>3. x \in PublicationRows /\ x.revision = o.revision /\ x.version = o.version /\ x.due = o.due
            /\ x.state = "CLAIMED"
    BY <1>2 DEF PublicationRows
  <1>4. t \in PublicationTasks /\ PublicationTask(t)
    BY <1>2 DEF PublicationTasks, PublicationTask, PublicationRows
  <1> HIDE DEF x, t
  <1>5. task' \in [PublicationWorkers -> {Publication!Idle} \cup PublicationTasks]
            /\ \A v \in PublicationWorkers : PublicationTask(task'[v])
    BY <1>1, <1>4 DEF PublicationTyped, t
  <1> QED
    BY <1>1, <1>3, <1>5, PublicationPuts DEF Publication!claimNext, x

\* A claim lapses, while its worker may go on.
LEMMA PublicationLapses == ASSUME PublicationInv, NEW o \in outbox, Publication!Lapse(o)
    PROVE PublicationInv'
  <1> DEFINE x == [o EXCEPT !.leased = FALSE]
  <1>1. /\ o \in PublicationRows
        /\ task \in [PublicationWorkers -> {Publication!Idle} \cup PublicationTasks]
        /\ \A v \in PublicationWorkers : PublicationTask(task[v])
    BY DEF PublicationInv, PublicationTyped
  <1>2. x \in PublicationRows /\ x.revision = o.revision /\ x.version = o.version /\ x.due = o.due
            /\ x.state = o.state
    BY <1>1 DEF PublicationRows
  <1>3. x.state # "COMPLETED" /\ Publication!Put(x) /\ UNCHANGED <<asked, board, publications,
            publishing, task>>
    BY <1>2 DEF Publication!Lapse, Publication!worker
  <1> HIDE DEF x
  <1> QED
    BY <1>1, <1>2, <1>3, PublicationPuts

\* A worker withdraws the approvals of the version that was replaced, and may fail.
LEMMA PublicationInvalidates == ASSUME PublicationInv, NEW w \in PublicationWorkers,
    Publication!Invalidate(w) PROVE PublicationInv'
  <1> USE DEF PublicationInv
  <1>1. task[w] # Publication!Idle /\ task[w] \in PublicationTasks
    <2>1. task[w].at = "invalidate" /\ task[w] \in {Publication!Idle} \cup PublicationTasks
      BY DEF Publication!Invalidate, PublicationTyped
    <2> QED
      BY <2>1 DEF Publication!Idle
  <1>2. /\ PublicationCloses
        /\ \A r \in PublicationRequests : asked[r] # Publication!A!None
            /\ asked[r].version = Publication!Row(w).version => ~ Publication!A!Live(r)'
    BY PublicationWithdraws DEF Publication!Invalidate
  <1>3. Publication!Row(w) \in outbox /\ Publication!Row(w).revision = task[w].revision
    BY <1>1, PublicationRow
  <1>4. \A r \in Publication!Row(w).due : ~ Publication!A!Live(r)'
    BY <1>2, <1>3 DEF PublicationOutbox, PublicationTyped, PublicationRows
  <1>5. /\ task' = [task EXCEPT ![w] = [task[w] EXCEPT !.at = "COMPLETED"]]
        /\ UNCHANGED <<Publication!dashboard, publishing>>
    BY DEF Publication!Invalidate
  <1>6. [task[w] EXCEPT !.at = "COMPLETED"] \in PublicationTasks
            /\ [task[w] EXCEPT !.at = "COMPLETED"].revision = task[w].revision
    BY <1>1 DEF PublicationTasks
  <1>7. PublicationTyped' /\ PublicationLine' /\ \A c \in PublicationCallers :
            PublicationCall(publishing[c])'
    BY <1>2, <1>5, <1>6 DEF PublicationTyped, PublicationCloses, PublicationLine, PublicationCall,
       Publication!HistoryIsLinear, Publication!OneSnapshotPerKey, Publication!Before,
       Publication!dashboard
  <1>8. \A o \in outbox : \A r \in o.due : r \in PublicationRequests /\ asked[r] # Publication!A!None
    BY DEF PublicationTyped, PublicationRows, PublicationOutbox
  <1>9. PublicationOutbox'
    BY <1>2, <1>5, <1>8 DEF PublicationCloses, PublicationOutbox, Publication!DoneMeansWithdrawn,
       Publication!dashboard
  <1>10. \A v \in PublicationWorkers : PublicationTask(task[v])'
    <2> SUFFICES ASSUME NEW v \in PublicationWorkers PROVE PublicationTask(task[v])'
      OBVIOUS
    <2>1. CASE v = w
      <3>1. task'[v].revision = task[w].revision /\ outbox' = outbox
        BY <1>5, <1>6, <2>1 DEF PublicationTyped, Publication!dashboard
      <3> QED
        BY <1>3, <1>4, <3>1 DEF PublicationTask
    <2>2. CASE v # w
      <3>1. task'[v] = task[v] /\ outbox' = outbox
        BY <1>5, <2>2 DEF PublicationTyped, Publication!dashboard
      <3> QED
        BY <1>2, <1>8, <3>1 DEF PublicationTask, PublicationCloses
    <2> QED
      BY <2>1, <2>2
  <1> QED
    BY <1>7, <1>9, <1>10

\* A worker stops, or fails.
LEMMA PublicationStops ==
    ASSUME PublicationInv, NEW w \in PublicationWorkers,
        NEW t \in {Publication!Idle} \cup PublicationTasks, task' = [task EXCEPT ![w] = t],
           t = Publication!Idle \/ (t.at # "COMPLETED" /\ t.revision = task[w].revision
               /\ task[w] # Publication!Idle),
           UNCHANGED <<asked, Publication!dashboard, publishing>>
    PROVE  PublicationInv'
  <1> USE DEF PublicationInv, Publication!dashboard
  <1>1. PublicationTyped' /\ PublicationLine' /\ \A c \in PublicationCallers :
            PublicationCall(publishing[c])'
    BY DEF PublicationTyped, PublicationLine, PublicationCall, Publication!HistoryIsLinear,
       Publication!OneSnapshotPerKey, Publication!Before
  <1>2. PublicationOutbox'
    BY DEF PublicationOutbox, Publication!DoneMeansWithdrawn, Publication!A!Live
  <1>3. PublicationTask(t)
    BY DEF PublicationTask
  <1>4. \A v \in PublicationWorkers : PublicationTask(task[v])'
    BY <1>3 DEF PublicationTask, PublicationTyped, Publication!A!Live
  <1> QED
    BY <1>1, <1>2, <1>4

\* A worker marks the withdrawal that it has claimed as done or failed.
LEMMA PublicationMarks == ASSUME PublicationInv, NEW w \in PublicationWorkers, Publication!Mark(w)
    PROVE PublicationInv'
  <1> USE DEF PublicationInv
  <1>1. task[w] # Publication!Idle /\ task[w].at \in {"COMPLETED", "FAILED"}
    BY DEF Publication!Mark, Publication!Idle
  <1>2. task' = [task EXCEPT ![w] = Publication!Idle] /\ UNCHANGED <<asked, board, publications,
            publishing>>
    BY DEF Publication!Mark
  <1>3. /\ Publication!Row(w) \in outbox /\ Publication!Row(w).revision = task[w].revision
        /\ task[w].at = "COMPLETED" => \A r \in Publication!Row(w).due : ~ Publication!A!Live(r)
    BY <1>1, PublicationRow
  <1>4. CASE Publication!Row(w).state = "CLAIMED"
    <2> DEFINE x == [Publication!Row(w) EXCEPT !.state = task[w].at, !.leased = FALSE]
    <2>1. Publication!Put(x)
      BY <1>4 DEF Publication!Mark
    <2>2. Publication!Row(w) \in PublicationRows
      BY <1>3 DEF PublicationTyped
    <2>3. x \in PublicationRows /\ x.revision = Publication!Row(w).revision
              /\ x.version = Publication!Row(w).version /\ x.due = Publication!Row(w).due
                  /\ x.state = task[w].at
      BY <1>1, <2>2 DEF PublicationRows
    <2>4. task' \in [PublicationWorkers -> {Publication!Idle} \cup PublicationTasks]
              /\ \A v \in PublicationWorkers : PublicationTask(task'[v])
      BY <1>2 DEF PublicationTyped, PublicationTask
    <2> HIDE DEF x
    <2> QED
      BY <1>2, <1>3, <2>1, <2>3, <2>4, PublicationPuts
  <1>5. CASE Publication!Row(w).state # "CLAIMED"
    BY <1>2, <1>5, PublicationStops DEF Publication!Mark, Publication!dashboard
  <1> QED
    BY <1>4, <1>5

\* Every step keeps the invariant.
LEMMA PublicationStep == ASSUME MaxTime \in Nat \ {0}, PublicationInv,
    [Publication!Next]_Publication!vars PROVE PublicationInv'
  <1>0. CASE UNCHANGED <<asked, Publication!dashboard, publishing, task>>
    <2>1. PublicationCloses
      BY <1>0 DEF PublicationCloses, PublicationInv, PublicationTyped, Publication!A!Live
    <2> QED
      BY <1>0, <2>1, PublicationRequestSteps
  <1>1. ASSUME NEW r \in PublicationRequests, Publication!Overdue(r) PROVE PublicationInv'
    BY <1>1, PublicationExpires, PublicationRequestSteps DEF Publication!Overdue, Publication!worker
  <1>2. ASSUME NEW r \in PublicationRequests, NEW a \in PublicationActors,
            NEW v \in PublicationVersions, Publication!Open(r, a, v) PROVE PublicationInv'
    BY <1>2, PublicationOpens, PublicationRequestSteps DEF Publication!Open, Publication!worker
  <1>3. ASSUME NEW d \in Publication!A!Decisions, Publication!Decide(d) PROVE PublicationInv'
    BY <1>3, PublicationDecides, PublicationRequestSteps DEF Publication!Decide, Publication!worker
  <1>4. ASSUME NEW w \in PublicationWorkers, Publication!InvalidateFails(w) PROVE PublicationInv'
    <2>1. task[w] # Publication!Idle /\ task[w] \in PublicationTasks
      <3>1. task[w].at = "invalidate" /\ task[w] \in {Publication!Idle} \cup PublicationTasks
        BY <1>4 DEF Publication!InvalidateFails, PublicationInv, PublicationTyped
      <3> QED
        BY <3>1 DEF Publication!Idle
    <2> DEFINE t == [task[w] EXCEPT !.at = "FAILED"]
    <2>2. t \in PublicationTasks /\ t.at = "FAILED" /\ t.revision = task[w].revision
      BY <2>1 DEF PublicationTasks
    <2>3. task' = [task EXCEPT ![w] = t] /\ UNCHANGED <<asked, Publication!dashboard, publishing>>
      BY <1>4 DEF Publication!InvalidateFails
    <2> HIDE DEF t
    <2> QED
      BY <2>1, <2>2, <2>3, PublicationStops
  <1>5. ASSUME NEW w \in PublicationWorkers, Publication!Crash(w) PROVE PublicationInv'
    BY <1>5, PublicationStops DEF Publication!Crash
  <1>6. ASSUME NEW w \in PublicationWorkers, Publication!Dispatch(w) PROVE PublicationInv'
    BY <1>6, PublicationClaims, PublicationInvalidates, PublicationMarks DEF Publication!Dispatch
  <1>7. ASSUME NEW c \in PublicationCallers,
               \/ \E v \in PublicationVersions, k \in PublicationKeys : Publication!Publish(c, v, k)
               \/ Publication!Admit(c) \/ Publication!Approve(c) \/ Publication!commitPublication(c)
                   \/ Publication!Drop(c)
        PROVE  PublicationInv'
    BY <1>7, PublicationCallerSteps, PublicationCommits
  <1>8. CASE Publication!Tick \/ UNCHANGED Publication!vars
    BY <1>0, <1>8 DEF Publication!Tick, Publication!vars, Publication!worker
  <1> QED
    BY <1>1, <1>2, <1>3, <1>4, <1>5, <1>6, <1>7, <1>8, PublicationDrafts, PublicationLapses
       DEF Publication!Next

\* The behaviours are those of the component, or leave it as it is.
LEMMA PublicationBehaves == Behaviours => Publication!Spec
  <1>1. Start => Publication!Init
    BY DEF Start
  <1>2. [Step]_everything => [Publication!Next]_Publication!vars
    BY DEF Step, everything, publication_vars, Publication!vars, Publication!dashboard,
       Publication!worker
  <1> QED
    BY <1>1, <1>2, PTL DEF Behaviours, Publication!Spec

\* Publications that overlap form one line of versions, one for each key, and a withdrawal that is
\* marked done has left no approval of the version that was replaced.
THEOREM PublicationsAreSafe == Behaviours => []PublicationIsSafe
  <1>1. PublicationInv => PublicationIsSafe
    BY DEF PublicationInv, PublicationLine, PublicationOutbox, PublicationIsSafe
  <1>2. MaxTime \in Nat \ {0}
    BY ApprovalAssumption
  <1>3. PublicationInv /\ [Publication!Next]_Publication!vars => PublicationInv'
    BY <1>2, PublicationStep
  <1> QED
    BY <1>1, <1>3, PublicationInit, PublicationBehaves, PTL DEF Publication!Spec

-----------------------------------------------------------------------------
(* EtlAcceptance: keys, payloads, versions of a dataset.                    *)

\* What a request was answered.
EtlAnswers == [code : Etl!Codes, version : EtlRequests \cup {NoVersion}]

\* The answers that name a version.
EtlAccepted == {"ACCEPTED", "REPLAY"}

\* The row of a request is there from its insert on, and the version and the audit record before it
\* may complete.
EtlCall(r, q) ==
    /\ q.at \in {"idle", "recheck", "reserve", "create"} => commands[r] = NoVersion
    /\ q.at \in {"execute", "register", "emit", "complete", "release"} => commands[r] # NoVersion
    /\ q.at \in {"emit", "complete"} => r \in datasets
    /\ q.at = "complete" => r \in audits
    /\ q.code \notin EtlAccepted

\* The unique index on the revision, and what a completed row stands for.
EtlRows ==
    /\ datasets \subseteq Etl!Rows
    /\ \A r, s \in Etl!Rows : commands[r].revision = commands[s].revision => r = s
    /\ \A r \in Etl!Rows : commands[r].state = "COMPLETED" =>
          /\ ~Etl!Ready
          /\ r \in datasets \cap audits
          /\ \A s \in Etl!Rows : commands[s].state = "COMPLETED" => s = r

\* Who was told a version was told one that is committed.
EtlTold(a) ==
    a.code \in EtlAccepted => a.version \in Etl!Rows /\ commands[a.version].state = "COMPLETED"

\* The inductive invariant: what each request holds, the rows, and what was answered.
EtlInv ==
    /\ Etl!TypeOK
    /\ \A r \in EtlRequests : EtlCall(r, req[r])
    /\ EtlRows
    /\ \A r \in EtlRequests : EtlTold(answer[r])
    /\ Etl!AcceptedIsRecorded

\* There is an open proposal and no command at first.
LEMMA EtlInit == Etl!Init => EtlInv
  <1> SUFFICES ASSUME Etl!Init PROVE EtlInv
    OBVIOUS
  <1>1. Etl!TypeOK
    BY EtlAssumption DEF Etl!Init, Etl!TypeOK, Etl!Proposals, Etl!Calls, Etl!Steps, Etl!Codes
  <1>2. Etl!Rows = {}
    BY DEF Etl!Init, Etl!Rows
  <1> QED
    BY <1>1, <1>2 DEF Etl!Init, EtlInv, EtlCall, EtlRows, EtlTold, EtlAccepted, Etl!AcceptedIsRecorded

\* What the properties make of the invariant.
LEMMA EtlAgrees == EtlInv => Etl!OneExecution /\ Etl!AnswersAgree
  BY DEF EtlInv, EtlRows, EtlTold, EtlAccepted, Etl!OneExecution, Etl!AnswersAgree

\* A request goes on while proposal, rows, versions and audit records stay.
LEMMA EtlMoves ==
    ASSUME EtlInv, NEW r \in EtlRequests, UNCHANGED <<proposal, commands, datasets, audits>>,
           clock' \in Nat, req' \in [EtlRequests -> Etl!Calls], answer' \in [EtlRequests -> EtlAnswers],
           \A s \in EtlRequests \ {r} : req'[s] = req[s] /\ answer'[s] = answer[s],
           EtlCall(r, req'[r]), EtlTold(answer'[r])
    PROVE  EtlInv'
  <1> USE DEF EtlInv
  <1>1. Etl!TypeOK'
    BY DEF Etl!TypeOK, EtlAnswers
  <1>2. \A s \in EtlRequests : EtlCall(s, req[s])' /\ EtlTold(answer[s])'
    BY DEF EtlCall, EtlTold, Etl!Rows
  <1>3. EtlRows' /\ Etl!AcceptedIsRecorded'
    BY DEF EtlRows, Etl!Rows, Etl!Ready, Etl!AcceptedIsRecorded
  <1> QED
    BY <1>1, <1>2, <1>3

\* What a refusal, an answer and a step forward make of a request.
LEMMA EtlRefuses ==
    ASSUME EtlInv, NEW r \in EtlRequests, NEW code \in Etl!Codes \ EtlAccepted, Etl!Refuse(r, code)
    PROVE  /\ req' \in [EtlRequests -> Etl!Calls] /\ answer' \in [EtlRequests -> EtlAnswers]
           /\ \A s \in EtlRequests \ {r} : req'[s] = req[s] /\ answer'[s] = answer[s]
           /\ req'[r].at \in {"mark", "done"} /\ req'[r].code \notin EtlAccepted
           /\ answer'[r] = answer[r] \/ answer'[r].code \notin EtlAccepted
  <1>1. CASE /\ req' = [req EXCEPT ![r].at = "mark", ![r].code = code]
             /\ UNCHANGED answer
    <2> DEFINE q == [req[r] EXCEPT !.at = "mark", !.code = code]
    <2>1. req \in [EtlRequests -> Etl!Calls] /\ answer \in [EtlRequests -> EtlAnswers]
      BY DEF EtlInv, Etl!TypeOK, EtlAnswers
    <2>2. req' = [req EXCEPT ![r] = q]
      BY <1>1, <2>1
    <2>3. q \in Etl!Calls /\ q.at = "mark" /\ q.code = code
      BY <2>1 DEF Etl!Calls, Etl!Steps
    <2> HIDE DEF q
    <2> QED
      BY <1>1, <2>1, <2>2, <2>3
  <1>2. CASE /\ req' = [req EXCEPT ![r].at = "done"]
             /\ answer' = [answer EXCEPT ![r].code = code]
    BY <1>2 DEF EtlInv, Etl!TypeOK, EtlCall, Etl!Calls, Etl!Steps, EtlAnswers
  <1> QED
    BY <1>1, <1>2 DEF Etl!Refuse

\* A request that ends changes its own record and its answer.
LEMMA EtlSucceeds ==
    ASSUME EtlInv, NEW r \in EtlRequests, NEW code \in Etl!Codes,
        NEW version \in EtlRequests \cup {NoVersion},
           Etl!Succeed(r, code, version)
    PROVE  /\ req' \in [EtlRequests -> Etl!Calls] /\ answer' \in [EtlRequests -> EtlAnswers]
           /\ \A s \in EtlRequests \ {r} : req'[s] = req[s] /\ answer'[s] = answer[s]
           /\ req'[r].at = "done" /\ req'[r].code \notin EtlAccepted
           /\ answer'[r] = [code |-> code, version |-> version]
  BY DEF Etl!Succeed, EtlInv, Etl!TypeOK, EtlCall, Etl!Calls, Etl!Steps, EtlAnswers

\* A request that goes on changes its own record.
LEMMA EtlProceeds ==
    ASSUME EtlInv, NEW r \in EtlRequests, NEW step \in Etl!Steps, Etl!Proceed(r, step)
    PROVE  /\ req' \in [EtlRequests -> Etl!Calls] /\ answer' \in [EtlRequests -> EtlAnswers]
           /\ \A s \in EtlRequests \ {r} : req'[s] = req[s] /\ answer'[s] = answer[s]
           /\ req'[r].at = step /\ req'[r].code \notin EtlAccepted
           /\ answer'[r] = answer[r]
  BY DEF Etl!Proceed, EtlInv, Etl!TypeOK, EtlCall, Etl!Calls, EtlAnswers

\* Each of the three is all a step does, when the rows stay.
LEMMA EtlEnds ==
    ASSUME EtlInv, NEW r \in EtlRequests, UNCHANGED <<proposal, commands, datasets, audits, clock>>,
           \/ \E code \in Etl!Codes \ EtlAccepted : Etl!Refuse(r, code)
           \/ \E code \in Etl!Codes \ EtlAccepted : Etl!Succeed(r, code, NoVersion)
           \/ \E row \in Etl!Rows : commands[row].state = "COMPLETED" /\ Etl!Succeed(r, "REPLAY", row)
    PROVE  EtlInv'
  <1> USE DEF EtlInv
  <1>0. clock \in Nat /\ EtlTold(answer[r])
    BY DEF Etl!TypeOK
  <1>1. ASSUME NEW code \in Etl!Codes \ EtlAccepted, Etl!Refuse(r, code) PROVE EtlInv'
    <2>1. EtlCall(r, req'[r]) /\ EtlTold(answer'[r])
      BY <1>0, <1>1, EtlRefuses DEF EtlCall, EtlTold
    <2> QED
      BY <1>0, <1>1, <2>1, EtlRefuses, EtlMoves
  <1>2. ASSUME NEW code \in Etl!Codes \ EtlAccepted, Etl!Succeed(r, code, NoVersion) PROVE EtlInv'
    <2>1. /\ req' \in [EtlRequests -> Etl!Calls] /\ answer' \in [EtlRequests -> EtlAnswers]
          /\ \A s \in EtlRequests \ {r} : req'[s] = req[s] /\ answer'[s] = answer[s]
          /\ req'[r].at = "done" /\ req'[r].code \notin EtlAccepted
          /\ answer'[r] = [code |-> code, version |-> NoVersion]
      <3>1. NoVersion \in EtlRequests \cup {NoVersion}
        OBVIOUS
      <3> QED
        BY <1>2, <3>1, EtlSucceeds
    <2>2. EtlCall(r, req'[r]) /\ EtlTold(answer'[r])
      BY <2>1 DEF EtlCall, EtlTold
    <2> QED
      BY <1>0, <1>2, <2>1, <2>2, EtlMoves
  <1>3. ASSUME NEW row \in Etl!Rows, commands[row].state = "COMPLETED", Etl!Succeed(r, "REPLAY", row)
        PROVE  EtlInv'
    <2>1. "REPLAY" \in Etl!Codes /\ row \in EtlRequests
      BY DEF Etl!Codes, Etl!Rows
    <2>2. /\ req' \in [EtlRequests -> Etl!Calls] /\ answer' \in [EtlRequests -> EtlAnswers]
          /\ \A s \in EtlRequests \ {r} : req'[s] = req[s] /\ answer'[s] = answer[s]
          /\ req'[r].at = "done" /\ req'[r].code \notin EtlAccepted
          /\ answer'[r] = [code |-> "REPLAY", version |-> row]
      <3>1. row \in EtlRequests \cup {NoVersion}
        BY <2>1
      <3> QED
        BY <1>3, <2>1, <3>1, EtlSucceeds
    <2>3. EtlCall(r, req'[r]) /\ EtlTold(answer'[r])
      BY <1>3, <2>2 DEF EtlCall, EtlTold
    <2> QED
      BY <1>0, <1>3, <2>2, <2>3, EtlMoves
  <1> QED
    BY <1>1, <1>2, <1>3

\* An answer by a row with the same key.
LEMMA EtlResolves ==
    ASSUME EtlInv, NEW r \in EtlRequests, NEW row \in Etl!Rows, Etl!Resolve(r, row),
           UNCHANGED <<proposal, commands, datasets, audits, clock>>
    PROVE  EtlInv'
  <1>1. {"COMMAND_CONFLICT", "COMMAND_UNAVAILABLE"} \subseteq Etl!Codes \ EtlAccepted
    BY DEF Etl!Codes, EtlAccepted
  <1>2. commands[row].state \in {"RESERVED", "COMPLETED", "FAILED"}
    BY DEF Etl!Rows, EtlInv, Etl!TypeOK, Etl!Commands
  <1> QED
    BY <1>1, <1>2, EtlEnds DEF Etl!Resolve

\* A request begins with the revision its client has seen; automatic preparation keeps the copy it reads.
LEMMA EtlBegins == ASSUME EtlInv, NEW r \in EtlRequests, Etl!Begin(r) PROVE EtlInv'
  <1> USE DEF EtlInv
  <1>1. PICK k \in EtlKeys, payload \in EtlPayloads, expected \in 1..proposal.revision,
             step \in {"reserve", "done", "mark", "recheck"}, code \in {"NONE", "BLOCKED"},
             said \in {answer[r].code, "REVIEW", "REVISION_CONFLICT"} :
          /\ req' = [req EXCEPT ![r] = [at |-> step, key |-> k, payload |-> payload,
                         expected |-> expected, copy |-> proposal.revision, code |-> code]]
          /\ answer' = [answer EXCEPT ![r].code = said]
    <2>1. answer = [answer EXCEPT ![r].code = answer[r].code]
      BY DEF Etl!TypeOK
    <2> QED
      BY <2>1 DEF Etl!Begin
  <1>2. expected \in Nat \ {0} /\ proposal.revision \in Nat
    BY DEF Etl!TypeOK, Etl!Proposals
  <1>3. /\ req' \in [EtlRequests -> Etl!Calls]
        /\ answer' \in [EtlRequests -> EtlAnswers]
        /\ \A s \in EtlRequests \ {r} : req'[s] = req[s] /\ answer'[s] = answer[s]
    BY <1>1, <1>2 DEF Etl!TypeOK, Etl!Calls, Etl!Steps, Etl!Codes, EtlAnswers
  <1>4. commands[r] = NoVersion
    BY DEF Etl!Begin, EtlCall
  <1>5. EtlCall(r, req'[r]) /\ EtlTold(answer'[r])
    <2>1. EtlCall(r, req'[r])
      BY <1>1, <1>4 DEF EtlCall, EtlAccepted, Etl!TypeOK
    <2>2. EtlTold(answer'[r])
      BY <1>1 DEF EtlTold, EtlAccepted, Etl!TypeOK
    <2> QED
      BY <2>1, <2>2
  <1> QED
    BY <1>3, <1>5, EtlMoves DEF Etl!Begin, Etl!TypeOK

\* The proposal may change as long as it does not become ready or accepted.
LEMMA EtlMarks == ASSUME EtlInv, NEW r \in EtlRequests, Etl!MarkBlocked(r) PROVE EtlInv'
  <1> USE DEF EtlInv
  <1>1. /\ req[r].code \in Etl!Codes \ EtlAccepted
        /\ req[r].copy + 1 \in Nat \ {0}
    BY DEF Etl!TypeOK, Etl!Calls, EtlCall
  <1>2. /\ req' \in [EtlRequests -> Etl!Calls] /\ answer' \in [EtlRequests -> EtlAnswers]
        /\ \A s \in EtlRequests \ {r} : req'[s] = req[s] /\ answer'[s] = answer[s]
        /\ req'[r].at = "done" /\ req'[r].code \notin EtlAccepted
        /\ answer'[r].code \notin EtlAccepted
    <2>1. /\ req' \in [EtlRequests -> Etl!Calls] /\ answer' \in [EtlRequests -> EtlAnswers]
          /\ \A s \in EtlRequests \ {r} : req'[s] = req[s] /\ answer'[s] = answer[s]
          /\ req'[r].at = "done" /\ req'[r].code \notin EtlAccepted
          /\ answer'[r] = [code |-> req[r].code, version |-> NoVersion]
      <3>1. NoVersion \in EtlRequests \cup {NoVersion}
        OBVIOUS
      <3> QED
        BY <1>1, <3>1, EtlSucceeds DEF Etl!MarkBlocked
    <2> QED
      BY <1>1, <2>1
  <1>3. Etl!TypeOK'
    BY <1>1, <1>2 DEF Etl!MarkBlocked, Etl!TypeOK, Etl!Proposals, EtlAnswers
  <1>4. \A s \in EtlRequests : EtlCall(s, req[s])' /\ EtlTold(answer[s])'
    BY <1>2 DEF Etl!MarkBlocked, EtlCall, EtlTold, Etl!Rows
  <1>5. EtlRows' /\ Etl!AcceptedIsRecorded'
    BY DEF Etl!MarkBlocked, EtlRows, Etl!Rows, Etl!Ready, Etl!AcceptedIsRecorded
  <1> QED
    BY <1>3, <1>4, <1>5

\* The insert finds no row of its revision.
LEMMA EtlInserts ==
    ASSUME EtlInv, NEW r \in EtlRequests, Etl!ReserveCreate(r) PROVE EtlInv'
  <1> USE DEF EtlInv
  <1>1. ASSUME NEW row \in Etl!ByKey(req[r].key), Etl!Resolve(r, row), UNCHANGED commands PROVE EtlInv'
    BY <1>1, EtlResolves DEF Etl!ReserveCreate, Etl!ByKey
  <1>2. ASSUME Etl!Refuse(r, "REVISION_CONFLICT"), UNCHANGED commands PROVE EtlInv'
    BY <1>2, EtlEnds DEF Etl!ReserveCreate, Etl!Codes, EtlAccepted
  <1>3. ASSUME Etl!ByRevision(req[r].expected) = {}, Etl!Proceed(r, "execute"),
               commands' = [commands EXCEPT ![r] = Etl!Reserved(r)]
        PROVE  EtlInv'
    <2>1. /\ UNCHANGED <<proposal, datasets, audits, clock>>
          /\ r \notin Etl!Rows
      BY DEF Etl!ReserveCreate, EtlCall, Etl!Rows
    <2>2. /\ req' \in [EtlRequests -> Etl!Calls] /\ answer' \in [EtlRequests -> EtlAnswers]
          /\ \A s \in EtlRequests \ {r} : req'[s] = req[s] /\ answer'[s] = answer[s]
          /\ req'[r].at = "execute" /\ req'[r].code \notin EtlAccepted
          /\ answer'[r] = answer[r]
      BY <1>3, EtlProceeds DEF Etl!Steps
    <2>3. /\ Etl!Reserved(r) \in Etl!Commands
          /\ Etl!Reserved(r).state = "RESERVED"
          /\ Etl!Reserved(r).revision = req[r].expected
      BY EtlAssumption DEF Etl!Reserved, Etl!Commands, Etl!TypeOK, Etl!Calls
    <2>4. /\ commands'[r] = Etl!Reserved(r) /\ \A s \in EtlRequests \ {r} : commands'[s] = commands[s]
          /\ Etl!Rows' = Etl!Rows \cup {r}
          /\ \A s \in Etl!Rows : commands'[s] = commands[s]
      BY <1>3, <2>1, <2>3, EtlAssumption DEF Etl!Rows, Etl!TypeOK
    <2>5. Etl!TypeOK'
      BY <1>3, <2>1, <2>2, <2>3 DEF Etl!TypeOK, EtlAnswers
    <2>6. \A s \in EtlRequests : EtlCall(s, req[s])'
      BY <2>1, <2>2, <2>3, <2>4, EtlAssumption DEF EtlCall
    <2>7. \A s \in EtlRequests : EtlTold(answer[s])'
      BY <2>1, <2>2, <2>4 DEF EtlTold
    <2>8. EtlRows'
      BY <1>3, <2>1, <2>3, <2>4 DEF EtlRows, Etl!ByRevision, Etl!Ready
    <2>9. Etl!AcceptedIsRecorded'
      BY <2>1, <2>3, <2>4 DEF Etl!AcceptedIsRecorded
    <2> QED
      BY <2>5, <2>6, <2>7, <2>8, <2>9
  <1> QED
    BY <1>1, <1>2, <1>3 DEF Etl!ReserveCreate

\* A version and an audit record are added by the owner of a row.
LEMMA EtlEffects == ASSUME EtlInv, NEW r \in EtlRequests, Etl!Register(r) \/ Etl!Emit(r) PROVE EtlInv'
  <1> USE DEF EtlInv
  <1>1. /\ req' \in [EtlRequests -> Etl!Calls] /\ answer' \in [EtlRequests -> EtlAnswers]
        /\ \A s \in EtlRequests : s # r => req'[s] = req[s]
        /\ req'[r].code \notin EtlAccepted
        /\ answer' = answer
        /\ UNCHANGED <<proposal, commands, clock>>
        /\ r \in Etl!Rows
        /\ \/ req'[r].at = "emit" /\ datasets' = datasets \cup {r} /\ audits' = audits
           \/ req'[r].at = "complete" /\ datasets' = datasets /\ audits' = audits \cup {r}
               /\ r \in datasets
    <2>1. Etl!Register(r) => Etl!Proceed(r, "emit") /\ req[r].at = "register"
      BY DEF Etl!Register
    <2>2. Etl!Emit(r) => Etl!Proceed(r, "complete") /\ req[r].at = "emit"
      BY DEF Etl!Emit
    <2> QED
      BY <2>1, <2>2, EtlProceeds DEF Etl!Register, Etl!Emit, Etl!Proceed, EtlCall, Etl!Rows, Etl!Steps
  <1>2. Etl!TypeOK'
    BY <1>1 DEF Etl!TypeOK
  <1>3. \A s \in EtlRequests : EtlCall(s, req[s])' /\ EtlTold(answer[s])'
    BY <1>1 DEF EtlCall, EtlTold, Etl!Rows
  <1>4. EtlRows' /\ Etl!AcceptedIsRecorded'
    BY <1>1 DEF EtlRows, Etl!Rows, Etl!Ready, Etl!AcceptedIsRecorded
  <1> QED
    BY <1>2, <1>3, <1>4

\* A row that was not completed changes its state to FAILED.
LEMMA EtlFails ==
    ASSUME EtlInv, NEW r \in Etl!Rows, commands[r].state = "RESERVED",
           commands' = [commands EXCEPT ![r].state = "FAILED"],
           UNCHANGED <<proposal, datasets, audits, clock>>,
           req' \in [EtlRequests -> Etl!Calls], answer' \in [EtlRequests -> EtlAnswers],
           \A s \in EtlRequests : EtlCall(s, req'[s]) /\ EtlTold(answer'[s])
    PROVE  EtlInv'
  <1> USE DEF EtlInv
  <1>0. r \in EtlRequests /\ commands[r] \in Etl!Commands
    BY DEF Etl!Rows, Etl!TypeOK
  <1>1. /\ commands' \in [EtlRequests -> Etl!Commands \cup {NoVersion}]
        /\ commands'[r].revision = commands[r].revision
        /\ commands'[r].state = "FAILED"
        /\ commands'[r] # NoVersion
        /\ \A s \in EtlRequests \ {r} : commands'[s] = commands[s]
    BY <1>0, EtlAssumption DEF Etl!TypeOK, Etl!Commands
  <1>2. Etl!Rows' = Etl!Rows
    BY <1>0, <1>1 DEF Etl!Rows
  <1>3. Etl!TypeOK'
    BY <1>1 DEF Etl!TypeOK, EtlAnswers
  <1>4. \A s \in EtlRequests : EtlCall(s, req[s])' /\ EtlTold(answer[s])'
    BY <1>0, <1>1, <1>2 DEF EtlCall, EtlTold, Etl!Rows
  <1>5. EtlRows' /\ Etl!AcceptedIsRecorded'
    BY <1>0, <1>1, <1>2 DEF EtlRows, Etl!Rows, Etl!Ready, Etl!AcceptedIsRecorded
  <1> QED
    BY <1>3, <1>4, <1>5

\* A completion needs a proposal that is ready, which none is after another completion.
LEMMA EtlCompletes == ASSUME EtlInv, NEW r \in EtlRequests, Etl!Complete(r) PROVE EtlInv'
  <1> USE DEF EtlInv
  <1>1. CASE Etl!MayComplete(r)
    <2>1. /\ proposal' = [state |-> "ACCEPTED", revision |-> commands[r].revision + 1]
          /\ commands' = [commands EXCEPT ![r].state = "COMPLETED"]
          /\ Etl!Succeed(r, "ACCEPTED", r)
          /\ UNCHANGED <<datasets, audits, clock>>
      BY <1>1 DEF Etl!Complete
    <2>2. r \in Etl!Rows /\ commands[r] \in Etl!Commands /\ r \in datasets \cap audits
      BY DEF Etl!Complete, EtlCall, Etl!Rows, Etl!TypeOK
    <2>3. Etl!Ready /\ \A s \in Etl!Rows : commands[s].state # "COMPLETED"
      BY <1>1 DEF Etl!MayComplete, EtlRows
    <2>4. /\ req' \in [EtlRequests -> Etl!Calls] /\ answer' \in [EtlRequests -> EtlAnswers]
          /\ \A s \in EtlRequests \ {r} : req'[s] = req[s] /\ answer'[s] = answer[s]
          /\ req'[r].at = "done" /\ req'[r].code \notin EtlAccepted
          /\ answer'[r] = [code |-> "ACCEPTED", version |-> r]
      BY <2>1, EtlSucceeds DEF Etl!Codes
    <2>5. /\ commands' \in [EtlRequests -> Etl!Commands \cup {NoVersion}]
          /\ commands'[r].revision = commands[r].revision
          /\ commands'[r].state = "COMPLETED"
          /\ commands'[r] # NoVersion
          /\ \A s \in EtlRequests \ {r} : commands'[s] = commands[s]
      BY <2>1, <2>2, EtlAssumption DEF Etl!TypeOK, Etl!Commands
    <2>6. Etl!Rows' = Etl!Rows
      BY <2>2, <2>5 DEF Etl!Rows
    <2>7. Etl!TypeOK'
      BY <2>1, <2>2, <2>4, <2>5 DEF Etl!TypeOK, EtlAnswers, Etl!Proposals, Etl!Commands
    <2>8. \A s \in EtlRequests : EtlCall(s, req[s])'
      BY <2>1, <2>4, <2>5 DEF EtlCall
    <2>9. \A s \in EtlRequests : EtlTold(answer[s])'
      BY <2>1, <2>2, <2>3, <2>4, <2>5, <2>6 DEF EtlTold
    <2>10. EtlRows'
      BY <2>1, <2>2, <2>3, <2>5, <2>6 DEF EtlRows, Etl!Ready, Etl!Rows
    <2>11. Etl!AcceptedIsRecorded'
      BY <2>1, <2>2, <2>3, <2>5, <2>6 DEF Etl!AcceptedIsRecorded, Etl!Rows
    <2> QED
      BY <2>7, <2>8, <2>9, <2>10, <2>11
  <1>2. CASE ~Etl!MayComplete(r)
    BY <1>2, EtlEnds DEF Etl!Complete, Etl!Codes, EtlAccepted
  <1> QED
    BY <1>1, <1>2

\* A request that fails closes its reservation, if it is still open.
LEMMA EtlReleases == ASSUME EtlInv, NEW r \in EtlRequests, Etl!Release(r) PROVE EtlInv'
  <1>1. "FAILED" \in Etl!Codes \ EtlAccepted
    BY DEF Etl!Codes, EtlAccepted
  <1>2. CASE commands[r].state = "RESERVED"
    <2>1. r \in Etl!Rows
      BY DEF Etl!Release, EtlInv, EtlCall, Etl!Rows
    <2>2. \A s \in EtlRequests : EtlCall(s, req'[s]) /\ EtlTold(answer'[s])
      BY <1>1, EtlRefuses DEF Etl!Release, EtlInv, EtlCall, EtlTold
    <2> QED
      BY <1>1, <1>2, <2>1, <2>2, EtlRefuses, EtlFails DEF Etl!Release
  <1>3. CASE commands[r].state # "RESERVED"
    BY <1>1, <1>3, EtlEnds DEF Etl!Release
  <1> QED
    BY <1>2, <1>3

\* A step forward that leaves the rows.
LEMMA EtlForward ==
    ASSUME EtlInv, NEW r \in EtlRequests, NEW step \in Etl!Steps, Etl!Proceed(r, step),
           UNCHANGED <<proposal, commands, datasets, audits, clock>>,
           \/ step \in {"reserve", "create"} /\ commands[r] = NoVersion
           \/ step \in {"register", "release"} /\ commands[r] # NoVersion
    PROVE  EtlInv'
  <1>1. clock \in Nat /\ EtlTold(answer[r])
    BY DEF EtlInv, Etl!TypeOK
  <1>2. EtlCall(r, req'[r])
    BY EtlProceeds DEF EtlCall
  <1> QED
    BY <1>1, <1>2, EtlProceeds, EtlMoves

\* Every step keeps the invariant.
LEMMA EtlStep == ASSUME EtlInv, [Etl!Next]_Etl!vars PROVE EtlInv'
  <1>0. /\ {"REVISION_CONFLICT", "FAILED", "STALE_PROPOSAL", "LOST"} \subseteq Etl!Codes \ EtlAccepted
        /\ {"reserve", "create", "register", "release"} \subseteq Etl!Steps
    BY DEF Etl!Codes, EtlAccepted, Etl!Steps
  <1>1. ASSUME NEW r \in EtlRequests, Etl!Recheck(r) PROVE EtlInv'
    <2>1. commands[r] = NoVersion
      BY <1>1 DEF Etl!Recheck, EtlInv, EtlCall
    <2> QED
      BY <1>0, <1>1, <2>1, EtlForward, EtlEnds DEF Etl!Recheck
  <1>2. ASSUME NEW r \in EtlRequests, Etl!NotAuthorized(r) \/ Etl!ReleaseFails(r) \/ Etl!Lose(r)
        PROVE EtlInv'
    BY <1>0, <1>2, EtlEnds DEF Etl!NotAuthorized, Etl!ReleaseFails, Etl!Lose
  <1>3. ASSUME NEW r \in EtlRequests, Etl!ReserveRead(r) PROVE EtlInv'
    <2>1. commands[r] = NoVersion /\ UNCHANGED <<proposal, commands, datasets, audits, clock>>
      BY <1>3 DEF Etl!ReserveRead, EtlInv, EtlCall
    <2>2. ASSUME NEW row \in Etl!ByKey(req[r].key), Etl!Resolve(r, row) PROVE EtlInv'
      BY <2>1, <2>2, EtlResolves DEF Etl!ByKey
    <2>3. CASE Etl!Refuse(r, "REVISION_CONFLICT") \/ Etl!Refuse(r, "STALE_PROPOSAL")
      BY <1>0, <2>1, <2>3, EtlEnds
    <2>4. CASE Etl!Proceed(r, "create")
      BY <1>0, <2>1, <2>4, EtlForward
    <2> QED
      BY <1>3, <2>2, <2>3, <2>4 DEF Etl!ReserveRead
  <1>4. ASSUME NEW r \in EtlRequests, Etl!FailAfterReservation(r) \/ Etl!Execute(r) PROVE EtlInv'
    <2>1. commands[r] # NoVersion
      BY <1>4 DEF Etl!FailAfterReservation, Etl!Execute, EtlInv, EtlCall
    <2> QED
      BY <1>0, <1>4, <2>1, EtlForward DEF Etl!FailAfterReservation, Etl!Execute
  <1>5. ASSUME NEW r \in EtlRequests, Etl!Reconcile(r) PROVE EtlInv'
    BY <1>5, EtlFails DEF Etl!Reconcile, EtlInv, Etl!TypeOK, EtlAnswers
  <1>6. CASE Etl!Tick
    BY <1>6 DEF Etl!Tick, EtlInv, Etl!TypeOK, EtlCall, EtlRows, EtlTold, Etl!AcceptedIsRecorded,
       Etl!Rows, Etl!Ready
  <1>7. CASE UNCHANGED Etl!vars
    BY <1>7 DEF Etl!vars, EtlInv, Etl!TypeOK, EtlCall, EtlRows, EtlTold, Etl!AcceptedIsRecorded,
       Etl!Rows, Etl!Ready
  <1> QED
    BY <1>1, <1>2, <1>3, <1>4, <1>5, <1>6, <1>7, EtlBegins, EtlMarks, EtlInserts, EtlEffects,
       EtlCompletes,
       EtlReleases DEF Etl!Next, Etl!Work

\* The behaviours are those of the component, or leave it as it is.
LEMMA EtlBehaves == Behaviours => Etl!Spec
  <1>1. Start => Etl!Init
    BY DEF Start
  <1>2. [Step]_everything => [Etl!Next]_Etl!vars
    BY DEF Step, everything, etl_vars, Etl!vars
  <1> QED
    BY <1>1, <1>2, PTL DEF Behaviours, Etl!Spec

\* Requests for one proposal that overlap execute it once, are told one version under one key, and
\* leave its command, its version and its audit record together.
THEOREM AcceptancesAreSafe == Behaviours => []AcceptanceIsSafe
  <1>1. EtlInv => AcceptanceIsSafe
    BY EtlAgrees DEF EtlInv, AcceptanceIsSafe
  <1>2. EtlInv /\ [Etl!Next]_Etl!vars => EtlInv'
    BY EtlStep
  <1> QED
    BY <1>1, <1>2, EtlInit, EtlBehaves, PTL DEF Etl!Spec

-----------------------------------------------------------------------------
(* RefreshStream: clients of the stream of events.                          *)

\* What the server keeps of a stream.
StreamRows ==
    [phase : {"free", "rows", "attach", "live", "gap"}, open : BOOLEAN, timer : BOOLEAN,
     from : 0 .. StreamMaxEvents, upto : 0 .. StreamMaxEvents, more : BOOLEAN,
         cursor : 0 .. StreamMaxEvents,
     sent : 0 .. StreamMaxEvents, queue : Seq(1 .. StreamMaxEvents), granted : BOOLEAN,
     poll : {"none", "answered"}]

\* A stream has a timer, and an event that may go out, as long as its client is there.
StreamRow(t) ==
    /\ t.timer => t.open /\ t.phase \in {"live", "gap"}
    /\ t.granted => t.open /\ t.queue # <<>>
    /\ t.phase # "live" => t.queue = <<>> /\ t.poll = "none"

\* The inductive invariant: what each stream holds, that one of them is open, and that of the streams
\* that may still send one event none has been granted again.
StreamInv ==
    /\ Stream!TypeOK
    /\ \A s \in StreamStreams : StreamRow(stream[s])
    /\ \A s, t \in StreamStreams : stream[s].open /\ stream[t].open => s = t
    /\ allowed => late = 0
    /\ late > 0 => \A s \in StreamStreams : ~stream[s].granted
    /\ late <= 1

\* A stream that is not in use promises nothing.
LEMMA StreamFree == Stream!Free \in StreamRows /\ StreamRow(Stream!Free) /\ ~Stream!Free.open
    /\ ~Stream!Free.granted
  <1>1. <<>> \in Seq(1 .. StreamMaxEvents)
    OBVIOUS
  <1>2. Stream!Free \in StreamRows
    BY <1>1, StreamAssumption DEF Stream!Free, StreamRows
  <1> QED
    BY <1>2 DEF Stream!Free, StreamRow

\* There is no stream at first.
LEMMA StreamInit == Stream!Init => StreamInv
  <1> SUFFICES ASSUME Stream!Init PROVE StreamInv
    OBVIOUS
  <1>1. Stream!TypeOK
    BY StreamAssumption, StreamFree DEF Stream!Init, Stream!TypeOK, StreamRows
  <1> QED
    BY <1>1, StreamFree DEF Stream!Init, StreamInv

\* The numbers of events.
LEMMA StreamNumbers ==
    ASSUME NEW from \in 0 .. StreamMaxEvents, NEW upto \in 0 .. StreamMaxEvents
    PROVE  Stream!Numbers(from, upto) \in Seq(1 .. StreamMaxEvents)
  <1>1. CASE from <= upto
    <2>1. upto - from \in Nat /\ \A i \in 1 .. upto - from : from + i \in 1 .. StreamMaxEvents
      BY <1>1, StreamAssumption
    <2> QED
      BY <2>1 DEF Stream!Numbers
  <1>2. CASE ~(from <= upto)
    <2>1. 1 .. upto - from = {}
      BY <1>2, StreamAssumption
    <2>2. Stream!Numbers(from, upto) = <<>>
      BY <2>1 DEF Stream!Numbers
    <2> QED
      BY <2>2
  <1> QED
    BY <1>1, <1>2

\* A stream changes that does not gain a client, nor the right to send.
LEMMA StreamChanges ==
    ASSUME StreamInv, NEW s \in StreamStreams, NEW t \in StreamRows, StreamRow(t),
           stream' = [stream EXCEPT ![s] = t],
           t.open => stream[s].open \/ \A r \in StreamStreams : ~stream[r].open,
           t.granted => stream[s].granted \/ allowed,
           UNCHANGED <<highest, allowed, last, known, late>>, breaks' \in 0 .. StreamMaxBreaks
    PROVE  StreamInv'
  <1> USE DEF StreamInv
  <1>1. stream \in [StreamStreams -> StreamRows] /\ allowed \in BOOLEAN
    BY DEF Stream!TypeOK, StreamRows
  <1>2. \A r \in StreamStreams : stream'[r] = IF r = s THEN t ELSE stream[r]
    BY <1>1
  <1>3. Stream!TypeOK'
    <2>1. stream' \in [StreamStreams -> StreamRows]
      BY <1>1
    <2> QED
      BY <2>1 DEF Stream!TypeOK, StreamRows
  <1>4. \A r \in StreamStreams : StreamRow(stream[r])'
    BY <1>2 DEF StreamRow
  <1>5. \A q, r \in StreamStreams : stream'[q].open /\ stream'[r].open => q = r
    BY <1>2
  <1>6. late' > 0 => \A r \in StreamStreams : ~stream'[r].granted
    BY <1>1, <1>2 DEF Stream!TypeOK
  <1> QED
    BY <1>3, <1>4, <1>5, <1>6

\* Steps of one stream, but for the event that goes out.
LEMMA StreamSteps ==
    ASSUME StreamInv, NEW s \in StreamStreams,
           \/ Stream!subscribe(s) \/ Stream!Disconnect(s) \/ Stream!FailRead(s)
           \/ Stream!ListRows(s) \/ Stream!attach(s) \/ Stream!Poll(s) \/ Stream!CheckEvent(s)
    PROVE  StreamInv'
  <1> DEFINE t == stream[s]
  <1>1. /\ t \in StreamRows /\ StreamRow(t) /\ stream \in [StreamStreams -> StreamRows]
        /\ highest \in 0 .. StreamMaxEvents /\ last \in 0 .. StreamMaxEvents
        /\ breaks \in 0 .. StreamMaxBreaks
        /\ allowed \in BOOLEAN
    BY DEF StreamInv, Stream!TypeOK, StreamRows
  <1>2. \A c \in 0 .. StreamMaxEvents : Stream!PageEnd(c) \in 0 .. StreamMaxEvents
    BY <1>1, StreamAssumption DEF Stream!PageEnd
  <1>3. ASSUME NEW n \in StreamRows, StreamRow(n), stream' = [stream EXCEPT ![s] = n],
               n.open => stream[s].open, n.granted => stream[s].granted \/ allowed,
               UNCHANGED <<highest, allowed, last, known, late>>, breaks' \in 0 .. StreamMaxBreaks
        PROVE  StreamInv'
    BY <1>3, StreamChanges
  <1>13. ASSUME stream' = [stream EXCEPT ![s] = Stream!Gap(s)], t.open,
                UNCHANGED <<highest, allowed, last, known, late, breaks>>
         PROVE  StreamInv'
    <2>1. Stream!Gap(s) \in StreamRows /\ Stream!Gap(s).open = TRUE /\ Stream!Gap(s).granted = FALSE
      <3>1. Stream!Gap(s) \in StreamRows
        BY StreamFree DEF StreamRows, Stream!Gap
      <3> QED
        BY <3>1 DEF Stream!Gap, Stream!Free
    <2>2. StreamRow(Stream!Gap(s))
      BY DEF StreamRow, Stream!Gap, Stream!Free
    <2> QED
      BY <1>1, <1>3, <1>13, <2>1, <2>2
  <1>4. CASE Stream!subscribe(s)
    <2> DEFINE n == [Stream!Free EXCEPT !.phase = "rows", !.open = TRUE, !.from = last,
            !.cursor = last, !.sent = last]
    <2>1. n \in StreamRows /\ StreamRow(n) /\ n.granted = FALSE
      <3>1. n \in StreamRows
        BY <1>1, StreamFree DEF StreamRows
      <3> QED
        BY <3>1 DEF StreamRow, Stream!Free
    <2>2. stream' = [stream EXCEPT ![s] = n] /\ UNCHANGED <<highest, allowed, last, known, late, breaks>>
          /\ \A r \in StreamStreams : ~stream[r].open
      BY <1>4 DEF Stream!subscribe
    <2> HIDE DEF n
    <2> QED
      BY <1>1, <2>1, <2>2, StreamChanges
  <1>5. ASSUME Stream!Close(s), UNCHANGED <<highest, allowed, last, known, late>>,
            breaks' \in 0 .. StreamMaxBreaks
        PROVE  StreamInv'
    <2> DEFINE n == [t EXCEPT !.open = FALSE, !.timer = FALSE, !.queue = <<>>, !.granted = FALSE]
    <2>1. n \in StreamRows /\ StreamRow(n) /\ ~n.open /\ ~n.granted
      <3>1. n \in StreamRows
        <4>1. <<>> \in Seq(1 .. StreamMaxEvents)
          OBVIOUS
        <4> QED
          BY <1>1, <4>1 DEF StreamRows
      <3>2. n.open = FALSE /\ n.timer = FALSE /\ n.queue = <<>> /\ n.granted = FALSE
            /\ n.phase = t.phase /\ n.poll = t.poll
        BY <1>1 DEF StreamRows
      <3> QED
        BY <1>1, <3>1, <3>2 DEF StreamRow
    <2>2. stream' = [stream EXCEPT ![s] = n]
      BY <1>1, <1>5 DEF Stream!Close
    <2> HIDE DEF n
    <2> QED
      BY <1>3, <1>5, <2>1, <2>2
  <1>6. CASE Stream!Disconnect(s)
    BY <1>1, <1>5, <1>6, StreamAssumption DEF Stream!Disconnect
  <1>7. CASE Stream!FailRead(s)
    <2> DEFINE n == [Stream!Free EXCEPT !.phase = "live"]
    <2>1. n \in StreamRows /\ StreamRow(n) /\ ~n.open /\ ~n.granted
      <3>1. n \in StreamRows
        BY StreamFree DEF StreamRows
      <3> QED
        BY <3>1 DEF StreamRow, Stream!Free
    <2>2. stream' = [stream EXCEPT ![s] = n] /\ UNCHANGED <<highest, allowed, last, known, late>>
          /\ breaks' \in 0 .. StreamMaxBreaks
      BY <1>1, <1>7, StreamAssumption DEF Stream!FailRead
    <2> HIDE DEF n
    <2> QED
      BY <1>3, <2>1, <2>2
  <1>8. CASE Stream!ListRows(s)
    <2> DEFINE e == Stream!PageEnd(t.from)
               m == highest > t.from + StreamPageSize
               n == [t EXCEPT !.phase = "attach", !.upto = e, !.more = m]
    <2>0. stream' = [stream EXCEPT ![s] = n] /\ UNCHANGED <<highest, allowed, last, known, late, breaks>>
      BY <1>1, <1>8 DEF Stream!ListRows
    <2>1. n \in StreamRows
      <3>1. e \in 0 .. StreamMaxEvents /\ m \in BOOLEAN
        BY <1>1, <1>2 DEF StreamRows
      <3> HIDE DEF e, m
      <3> QED
        BY <1>1, <3>1 DEF StreamRows
    <2>2. n.open = t.open /\ n.granted = t.granted /\ n.timer = t.timer /\ n.queue = t.queue
          /\ n.poll = t.poll
      BY <1>1 DEF StreamRows
    <2>3. t.queue = <<>> /\ ~t.timer /\ t.poll = "none"
      BY <1>1, <1>8 DEF Stream!ListRows, StreamRow
    <2>4. StreamRow(n)
      BY <1>1, <2>2, <2>3 DEF StreamRow
    <2> HIDE DEF n
    <2> QED
      BY <1>1, <1>3, <2>0, <2>1, <2>2, <2>4
  <1>9. CASE Stream!attach(s)
    <2>1. CASE stream[s].open /\ ~Stream!replayHasGap(s)
      <3> DEFINE n == [t EXCEPT !.phase = "live", !.timer = TRUE, !.cursor = Stream!StartCursor(s),
                                !.queue = Stream!Numbers(t.from, t.upto)]
      <3>1. n \in StreamRows
        BY <1>1, StreamNumbers DEF StreamRows, Stream!StartCursor
      <3>2. n.open = t.open /\ n.granted = t.granted /\ n.phase = "live"
        BY <1>1 DEF StreamRows
      <3>3. ~t.granted
        BY <1>1, <1>9 DEF Stream!attach, StreamRow
      <3>4. StreamRow(n)
        BY <2>1, <3>2, <3>3 DEF StreamRow
      <3>5. stream' = [stream EXCEPT ![s] = n] /\ UNCHANGED <<highest, allowed, last, known, late, breaks>>
        BY <1>1, <1>9, <2>1 DEF Stream!attach, Stream!Attached
      <3> HIDE DEF n
      <3> QED
        BY <1>1, <1>3, <3>1, <3>2, <3>4, <3>5
    <2>2. CASE stream[s].open /\ Stream!replayHasGap(s)
      <3>1. stream' = [stream EXCEPT ![s] = Stream!Gap(s)]
            /\ UNCHANGED <<highest, allowed, last, known, late, breaks>>
        BY <1>9, <2>2 DEF Stream!attach, Stream!Attached
      <3> QED
        BY <1>13, <2>2, <3>1
    <2>3. CASE ~stream[s].open
      <3> DEFINE n == [Stream!Free EXCEPT !.phase = "live"]
      <3>1. n \in StreamRows /\ StreamRow(n) /\ ~n.open /\ ~n.granted
        <4>1. n \in StreamRows
          BY StreamFree DEF StreamRows
        <4> QED
          BY <4>1 DEF StreamRow, Stream!Free
      <3>2. stream' = [stream EXCEPT ![s] = n] /\ UNCHANGED <<highest, allowed, last, known, late, breaks>>
        BY <1>9, <2>3 DEF Stream!attach, Stream!Attached
      <3> HIDE DEF n
      <3> QED
        BY <1>1, <1>3, <3>1, <3>2
    <2> QED
      BY <2>1, <2>2, <2>3
  <1>10. CASE Stream!PollRead(s)
    <2> DEFINE n == [t EXCEPT !.poll = "answered", !.upto = Stream!PageEnd(t.cursor)]
    <2>1. n \in StreamRows
      BY <1>1, <1>2 DEF StreamRows
    <2>2. n.open = t.open /\ n.granted = t.granted /\ n.timer = t.timer /\ n.queue = t.queue
              /\ n.phase = t.phase
      BY <1>1 DEF StreamRows
    <2>3. t.phase = "live"
      BY <1>10 DEF Stream!PollRead
    <2>4. StreamRow(n)
      BY <1>1, <2>2, <2>3 DEF StreamRow
    <2>5. stream' = [stream EXCEPT ![s] = n] /\ UNCHANGED <<highest, allowed, last, known, late, breaks>>
      BY <1>1, <1>10 DEF Stream!PollRead
    <2> HIDE DEF n
    <2> QED
      BY <1>1, <1>3, <2>1, <2>2, <2>4, <2>5
  <1>11. CASE Stream!PollDone(s)
    <2>1. CASE stream[s].timer
      <3> DEFINE q == t.queue \o Stream!Numbers(t.cursor, t.upto)
                 c == IF t.cursor < t.upto THEN t.upto ELSE t.cursor
                 n == [t EXCEPT !.poll = "none", !.queue = q, !.cursor = c]
      <3>1. q \in Seq(1 .. StreamMaxEvents) /\ (t.queue # <<>> => q # <<>>)
        <4>1. t.queue \in Seq(1 .. StreamMaxEvents) /\ Stream!Numbers(t.cursor,
                  t.upto) \in Seq(1 .. StreamMaxEvents)
          BY <1>1, StreamNumbers DEF StreamRows
        <4>2. Len(q) = Len(t.queue) + Len(Stream!Numbers(t.cursor, t.upto))
          BY <4>1
        <4>3. t.queue # <<>> => Len(t.queue) > 0
          BY <4>1, EmptySeq
        <4>4. Len(Stream!Numbers(t.cursor, t.upto)) \in Nat /\ Len(t.queue) \in Nat
          BY <4>1
        <4>6. q \in Seq(1 .. StreamMaxEvents)
          BY <4>1
        <4> DEFINE a == Len(t.queue)
                   b == Len(Stream!Numbers(t.cursor, t.upto))
                   d == Len(q)
        <4>8. (a > 0 => d > 0)
          <5>1. d = a + b /\ a \in Nat /\ b \in Nat
            BY <4>2, <4>4
          <5> HIDE DEF a, b, d
          <5> QED
            BY <5>1
        <4> HIDE DEF q
        <4>5. t.queue # <<>> => Len(q) > 0
          BY <4>3, <4>8
        <4>7. q = <<>> => Len(q) = 0
          BY EmptySeq
        <4> QED
          BY <4>5, <4>6, <4>7
      <3>2. c \in 0 .. StreamMaxEvents
        BY <1>1 DEF StreamRows
      <3>3. stream' = [stream EXCEPT ![s] = n] /\ UNCHANGED <<highest, allowed, last, known, late, breaks>>
        BY <1>1, <1>11, <2>1 DEF Stream!PollDone
      <3> HIDE DEF q, c
      <3>4. n \in StreamRows
        BY <1>1, <3>1, <3>2 DEF StreamRows
      <3>5. n.open = t.open /\ n.granted = t.granted /\ n.timer = t.timer /\ n.phase = t.phase
                /\ n.queue = q
        BY <1>1 DEF StreamRows
      <3>6. t.phase = "live"
        BY <1>1, <1>11 DEF StreamRow, Stream!PollDone
      <3>7. StreamRow(n)
        BY <1>1, <3>1, <3>5, <3>6 DEF StreamRow
      <3> HIDE DEF n
      <3> QED
        BY <1>1, <1>3, <3>3, <3>4, <3>5, <3>7
    <2>2. CASE ~stream[s].timer
      <3> DEFINE n == [t EXCEPT !.poll = "none"]
      <3>1. n \in StreamRows
        BY <1>1 DEF StreamRows
      <3>2. n.open = t.open /\ n.granted = t.granted /\ n.timer = t.timer /\ n.queue = t.queue
                /\ n.phase = t.phase /\ n.poll = "none"
        BY <1>1 DEF StreamRows
      <3>3. StreamRow(n)
        BY <1>1, <3>2 DEF StreamRow
      <3>4. stream' = [stream EXCEPT ![s] = n] /\ UNCHANGED <<highest, allowed, last, known, late, breaks>>
        BY <1>1, <1>11, <2>2 DEF Stream!PollDone
      <3> HIDE DEF n
      <3> QED
        BY <1>1, <1>3, <3>1, <3>2, <3>3, <3>4
    <2> QED
      BY <2>1, <2>2
  <1>12. CASE Stream!CheckEvent(s)
    <2>1. CASE Head(stream[s].queue) = stream[s].sent + 1 /\ Stream!canEmit
      <3> DEFINE n == [t EXCEPT !.granted = TRUE]
      <3>1. n \in StreamRows
        BY <1>1 DEF StreamRows
      <3>2. n.open = t.open /\ n.granted = TRUE /\ n.timer = t.timer /\ n.queue = t.queue
                /\ n.phase = t.phase /\ n.poll = t.poll
        BY <1>1 DEF StreamRows
      <3>3. t.open /\ t.queue # <<>> /\ allowed
        BY <1>12, <2>1 DEF Stream!CheckEvent, Stream!canEmit
      <3>4. StreamRow(n)
        BY <1>1, <3>2, <3>3 DEF StreamRow
      <3>5. stream' = [stream EXCEPT ![s] = n] /\ UNCHANGED <<highest, allowed, last, known, late, breaks>>
        BY <1>12, <2>1 DEF Stream!CheckEvent
      <3> HIDE DEF n
      <3> QED
        BY <1>1, <1>3, <3>1, <3>2, <3>3, <3>4, <3>5
    <2>2. CASE Head(stream[s].queue) # stream[s].sent + 1
      BY <1>12, <1>13, <2>2 DEF Stream!CheckEvent
    <2>3. CASE Head(stream[s].queue) = stream[s].sent + 1 /\ ~Stream!canEmit
      BY <1>1, <1>5, <1>12, <2>3 DEF Stream!CheckEvent
    <2> QED
      BY <2>1, <2>2, <2>3
  <1> QED
    BY <1>4, <1>6, <1>7, <1>8, <1>9, <1>10, <1>11, <1>12 DEF Stream!Poll

\* The word of a gap goes out, and the stream ends.
LEMMA StreamGaps ==
    ASSUME StreamInv, NEW s \in StreamStreams, Stream!EmitCursorGap(s) PROVE StreamInv'
  <1> USE DEF StreamInv
  <1> DEFINE n == [Stream!Free EXCEPT !.phase = "live"]
  <1>1. n \in StreamRows /\ StreamRow(n) /\ ~n.open /\ ~n.granted
    <2>1. n \in StreamRows
      BY StreamFree DEF StreamRows
    <2> QED
      BY <2>1 DEF StreamRow, Stream!Free
  <1>2. stream \in [StreamStreams -> StreamRows] /\ known' \in 0 .. StreamMaxEvents
        /\ stream' = [stream EXCEPT ![s] = n] /\ UNCHANGED <<highest, allowed, last, late, breaks>>
    BY DEF Stream!TypeOK, StreamRows, Stream!EmitCursorGap
  <1> HIDE DEF n
  <1>3. \A r \in StreamStreams : stream'[r] = IF r = s THEN n ELSE stream[r]
    BY <1>2
  <1>4. Stream!TypeOK'
    <2>1. stream' \in [StreamStreams -> StreamRows]
      BY <1>1, <1>2
    <2> QED
      BY <1>2, <2>1 DEF Stream!TypeOK, StreamRows
  <1>5. \A r \in StreamStreams : StreamRow(stream[r])'
    BY <1>1, <1>3 DEF StreamRow
  <1> QED
    BY <1>1, <1>2, <1>3, <1>4, <1>5

\* The event that was granted goes out, and with it the grant.
LEMMA StreamEmits ==
    ASSUME StreamInv, NEW s \in StreamStreams, Stream!Emit(s) PROVE StreamInv'
  <1> USE DEF StreamInv
  <1> DEFINE t == stream[s]
             h == Head(t.queue)
             u == Tail(t.queue)
             n == [t EXCEPT !.granted = FALSE, !.queue = u, !.sent = h]
  <1>1. /\ t \in StreamRows /\ StreamRow(t) /\ stream \in [StreamStreams -> StreamRows]
        /\ allowed \in BOOLEAN /\ late \in Nat /\ t.granted /\ t.open
    BY StreamAssumption DEF Stream!TypeOK, StreamRows, Stream!Emit
  <1>2. t.queue \in Seq(1 .. StreamMaxEvents) /\ t.queue # <<>>
    BY <1>1 DEF StreamRow, StreamRows
  <1>3. Head(t.queue) \in 1 .. StreamMaxEvents /\ Tail(t.queue) \in Seq(1 .. StreamMaxEvents)
    BY <1>2, HeadTailProperties
  <1>4. n \in StreamRows
    <2>1. h \in 0 .. StreamMaxEvents /\ u \in Seq(1 .. StreamMaxEvents)
      BY <1>3, StreamAssumption
    <2> HIDE DEF h, u
    <2> QED
      BY <1>1, <2>1 DEF StreamRows
  <1>5. n.open = t.open /\ n.granted = FALSE /\ n.timer = t.timer /\ n.phase = t.phase
        /\ n.poll = t.poll
    BY <1>1 DEF StreamRows
  <1>6. StreamRow(n)
    BY <1>1, <1>2, <1>5 DEF StreamRow
  <1>7. /\ stream' = [stream EXCEPT ![s] = n]
        /\ last' = Head(t.queue)
        /\ known' = IF known < last' THEN last' ELSE known
        /\ late' = IF allowed THEN late ELSE late + 1
        /\ UNCHANGED <<highest, allowed, breaks>>
    BY <1>1 DEF Stream!Emit
  <1> HIDE DEF n
  <1>8. \A r \in StreamStreams : stream'[r] = IF r = s THEN n ELSE stream[r]
    BY <1>1, <1>7
  <1>9. late = 0
    BY <1>1
  <1>10. late' \in {0, 1} /\ (allowed => late' = 0) /\ 1 <= StreamMaxEvents
    BY <1>3, <1>7, <1>9, StreamAssumption
  <1>11. \A r \in StreamStreams : ~stream'[r].granted
    BY <1>1, <1>5, <1>8 DEF StreamRow
  <1>12. stream' \in [StreamStreams -> StreamRows]
    BY <1>1, <1>4, <1>7
  <1>13. Stream!TypeOK'
    BY <1>3, <1>7, <1>10, <1>12, StreamAssumption DEF Stream!TypeOK, StreamRows
  <1>14. \A r \in StreamStreams : StreamRow(stream[r])'
    BY <1>6, <1>8 DEF StreamRow
  <1>15. \A q, r \in StreamStreams : stream'[q].open /\ stream'[r].open => q = r
    BY <1>5, <1>8
  <1> QED
    BY <1>7, <1>10, <1>11, <1>13, <1>14, <1>15

\* Every step keeps the invariant.
LEMMA StreamStep == ASSUME StreamInv, [Stream!Next]_Stream!vars PROVE StreamInv'
  <1>1. CASE UNCHANGED Stream!vars
    BY <1>1 DEF Stream!vars, StreamInv, Stream!TypeOK, StreamRow
  <1>2. CASE Stream!Commit
    BY <1>2, StreamAssumption DEF Stream!Commit, StreamInv, Stream!TypeOK, StreamRow
  <1>3. CASE Stream!ChangePermission
    <2>1. Stream!TypeOK'
      BY <1>3, StreamAssumption DEF Stream!ChangePermission, StreamInv, Stream!TypeOK
    <2> QED
      BY <1>3, <2>1 DEF Stream!ChangePermission, StreamInv, StreamRow
  <1> QED
    BY <1>1, <1>2, <1>3, StreamSteps, StreamEmits, StreamGaps DEF Stream!Next, Stream!Serve

\* The behaviours are those of the component, or leave it as it is.
LEMMA StreamBehaves == Behaviours => Stream!Spec
  <1>1. Start => Stream!Init
    BY DEF Start
  <1>2. [Step]_everything => [Stream!Next]_Stream!vars
    BY DEF Step, everything, stream_vars, Stream!vars
  <1> QED
    BY <1>1, <1>2, PTL DEF Behaviours, Stream!Spec

\* A client without permission gets at most the event that was being sent, and a stream without
\* its client has no timer.
THEOREM StreamsAreSafe == Behaviours => []StreamIsSafe
  <1>1. StreamInv => StreamIsSafe
    BY DEF StreamInv, StreamRow, StreamIsSafe, Stream!RevocationStops, Stream!NoOrphanTimer
  <1>2. StreamInv /\ [Stream!Next]_Stream!vars => StreamInv'
    BY StreamStep
  <1> QED
    BY <1>1, <1>2, StreamInit, StreamBehaves, PTL DEF Stream!Spec

-----------------------------------------------------------------------------
(* NotificationOutbox: the workers, their pages and the checkpoints.        *)

\* The instance has a Cardinality of its own, which is the one the lemmas of sets are about.
LEMMA NotificationCardinality == \A S : Notifications!Cardinality(S) = Cardinality(S)
  BY Zenon DEF Notifications!Cardinality, Cardinality

\* A set of numbers has a least one.
LEMMA LeastOfSome == ASSUME NEW T, T \subseteq Nat, T # {}
                 PROVE  \E x \in T : \A y \in T : x <= y
  <1>1. PICK x \in T : \A y \in T : ~(<<y, x>> \in OpToRel(<, Nat))
    BY WFMin, NatLessThanWellFounded, Zenon
  <1>2. \A y \in T : ~(y < x)
    BY <1>1 DEF OpToRel
  <1> QED
    BY <1>2

\* An event has reached all its recipients.
NotificationProjected(e) == e \in actionable => NotificationRecipients \X {e} \subseteq receipt

\* What a page has left out was projected, if it comes before an event of the page and was committed
\* before it, too.
NotificationPage(page) ==
    /\ page \subseteq committed
    /\ \A e, f \in page : scope[e] = scope[f]
    /\ \A e \in page, f \in (committed \ overtaken) \ page : f < e /\ scope[f] = scope[e] =>
        NotificationProjected(f)

\* The count that was read is not above that of the receipts, and, when the events of the workspace
\* were committed in order, it is the stored one as long as the next recipient has no receipt.
NotificationSeen(c) ==
    /\ run[c].seen.count <= Cardinality(Notifications!Receipts(scope[Notifications!Event(c)],
                                                               Notifications!Recipient(c)))
    /\ Notifications!InOrder(scope[Notifications!Event(c)]) /\ Notifications!FreshReceipt(c) =>
          run[c].seen.count = intent[scope[Notifications!Event(c)]][Notifications!Recipient(c)].count

\* The run has a page whose first event is the one it is at, and whoever of its recipients is done
\* with has the receipt.
NotificationRun(c) ==
    /\ NotificationPage(run[c].page)
    /\ run[c].at \in {"read", "write", "advance"} => run[c].page # {}
    /\ run[c].at \in {"read", "write"} =>
          /\ Notifications!Event(c) \in actionable
          /\ \A r \in NotificationRecipients \ run[c].todo : <<r, Notifications!Event(c)>> \in receipt
    /\ run[c].at = "advance" => NotificationProjected(Notifications!Event(c))
    /\ run[c].at = "write" => run[c].todo # {} /\ NotificationSeen(c)

\* A checkpoint is that of an event, and passes only what was projected or committed too late.
NotificationBehind ==
    /\ \A s \in NotificationScopes :
          checkpoint[s] # 0 => checkpoint[s] \in committed /\ scope[checkpoint[s]] = s
    /\ \A e \in committed \ overtaken : e <= checkpoint[scope[e]] => NotificationProjected(e)

\* The inductive invariant.
NotificationInv ==
    /\ Notifications!TypeOK /\ NotificationBehind /\ Notifications!CountsMatch
    /\ \A c \in NotificationConsumers : NotificationRun(c)

\* The event of a run is the first of its page.
LEMMA NotificationEventIsFirst == ASSUME Notifications!TypeOK, NEW c \in NotificationConsumers,
    run[c].page # {}
                         PROVE  /\ Notifications!Event(c) \in run[c].page
                                /\ \A f \in run[c].page : Notifications!Event(c) <= f
                                /\ Notifications!Event(c) \in Notifications!Events
  <1>1. run[c].page \subseteq Notifications!Events
    BY DEF Notifications!TypeOK
  <1>2. run[c].page \subseteq Nat
    BY <1>1, NotificationAssumption DEF Notifications!Events
  <1>3. \E x \in run[c].page : \A y \in run[c].page : x <= y
    BY <1>2, LeastOfSome
  <1>4. /\ Notifications!Least(run[c].page) \in run[c].page
        /\ \A f \in run[c].page : Notifications!Least(run[c].page) <= f
    BY <1>3 DEF Notifications!Least
  <1> QED
    BY <1>1, <1>4 DEF Notifications!Event

\* The recipient of a run is one of those to do.
LEMMA NotificationRecipient == ASSUME Notifications!TypeOK, NEW c \in NotificationConsumers,
    run[c].todo # {}
                      PROVE  Notifications!Recipient(c) \in run[c].todo
                          /\ Notifications!Recipient(c) \in NotificationRecipients
  <1>1. run[c].todo \subseteq NotificationRecipients
    BY DEF Notifications!TypeOK
  <1> QED
    BY <1>1 DEF Notifications!Recipient

\* The runs a worker can be in.
NotificationRuns == [at : {"idle", "scope", "event", "read", "write", "advance"},
            scopes : SUBSET NotificationScopes, page : SUBSET Notifications!Events,
                todo : SUBSET NotificationRecipients, seen : Notifications!Intents]

\* No run and no notification have their types.
LEMMA NotificationIdleTyped == Notifications!Idle \in NotificationRuns
    /\ Notifications!NoIntent \in Notifications!Intents
  <1>1. Notifications!NoIntent \in Notifications!Intents
    BY NotificationAssumption DEF Notifications!NoIntent, Notifications!Intents,
       Notifications!UserStates
  <1> QED
    BY <1>1 DEF Notifications!Idle, NotificationRuns

\* No event is committed and nothing is projected at first.
LEMMA NotificationInit == Notifications!Init => NotificationInv
  <1> SUFFICES ASSUME Notifications!Init PROVE NotificationInv
    OBVIOUS
  <1>1. Notifications!TypeOK
    <2>1. run \in [NotificationConsumers -> NotificationRuns]
      BY NotificationIdleTyped DEF Notifications!Init
    <2>2. intent \in [NotificationScopes -> [NotificationRecipients -> Notifications!Intents]]
      BY NotificationIdleTyped DEF Notifications!Init
    <2> QED
      BY <2>1, <2>2, NotificationAssumption DEF Notifications!Init, Notifications!TypeOK,
         NotificationRuns
  <1>2. NotificationBehind
    BY DEF Notifications!Init, NotificationBehind
  <1>3. Notifications!CountsMatch
    <2> SUFFICES ASSUME NEW s \in NotificationScopes, NEW r \in NotificationRecipients
                 PROVE  intent[s][r].count = 0 /\ Cardinality(Notifications!Receipts(s, r)) = 0
      BY NotificationCardinality DEF Notifications!CountsMatch
    <2>1. Notifications!Receipts(s, r) = {}
      BY DEF Notifications!Init, Notifications!Receipts
    <2>2. intent[s][r].count = 0
      BY DEF Notifications!Init, Notifications!NoIntent
    <2> QED
      BY <2>1, <2>2, FS_EmptySet
  <1>4. ASSUME NEW c \in NotificationConsumers PROVE NotificationRun(c)
    BY <1>4 DEF Notifications!Init, Notifications!Idle, NotificationRun, NotificationPage
  <1> QED
    BY <1>1, <1>2, <1>3, <1>4 DEF NotificationInv

\* A step of a run that writes nothing else.
LEMMA NotificationRunStep == ASSUME NotificationInv, NEW c \in NotificationConsumers,
    NEW q \in NotificationRuns,
                           run' = [run EXCEPT ![c] = q],
                           UNCHANGED <<scope, actionable, committed, overtaken, checkpoint, receipt, intent>>,
                           failures' \in 0 .. NotificationMaxFailures,
                           NotificationRun(c)'
                    PROVE  NotificationInv'
  <1>1. Notifications!TypeOK'
    BY DEF NotificationInv, Notifications!TypeOK, NotificationRuns
  <1>2. NotificationBehind' /\ Notifications!CountsMatch'
    BY DEF NotificationInv, NotificationBehind, NotificationProjected, Notifications!CountsMatch,
       Notifications!Receipts, Notifications!InOrder
  <1>3. ASSUME NEW d \in NotificationConsumers PROVE NotificationRun(d)'
    <2>1. CASE d = c
      BY <2>1
    <2>2. CASE d # c
      <3>1. run'[d] = run[d]
        BY <2>2, <1>1 DEF NotificationInv, Notifications!TypeOK
      <3>2. NotificationRun(d)
        BY DEF NotificationInv
      <3>3. Notifications!Event(d)' = Notifications!Event(d)
                /\ Notifications!Recipient(d)' = Notifications!Recipient(d)
        BY <3>1 DEF Notifications!Event, Notifications!Recipient
      <3>4. NotificationPage(run[d].page)'
        BY <3>1, <3>2 DEF NotificationRun, NotificationPage, NotificationProjected
      <3>5. Notifications!FreshReceipt(d)' = Notifications!FreshReceipt(d)
        BY <3>3 DEF Notifications!FreshReceipt
      <3>6. NotificationProjected(Notifications!Event(d))' = NotificationProjected(Notifications!Event(d))
        BY <3>3 DEF NotificationProjected
      <3>7. NotificationSeen(d)' = NotificationSeen(d)
        BY <3>1, <3>3, <3>5 DEF NotificationSeen, Notifications!Receipts, Notifications!InOrder
      <3> QED
        BY <3>1, <3>2, <3>3, <3>4, <3>6, <3>7 DEF NotificationRun
    <2> QED
      BY <2>1, <2>2
  <1> QED
    BY <1>1, <1>2, <1>3 DEF NotificationInv

\* A run has its type.
LEMMA NotificationRowTyped == ASSUME Notifications!TypeOK, NEW c \in NotificationConsumers
                     PROVE  run[c] \in NotificationRuns /\ c \in DOMAIN run
  BY DEF Notifications!TypeOK, NotificationRuns

\* A run that ends leaves what it wrote.
LEMMA NotificationFails == ASSUME NotificationInv, NEW c \in NotificationConsumers,
    Notifications!Fail(c),
                         UNCHANGED <<scope, actionable, committed, overtaken, checkpoint, receipt, intent>>,
                         failures' \in 0 .. NotificationMaxFailures
                  PROVE  NotificationInv'
  <1>1. run' = [run EXCEPT ![c] = Notifications!Idle] /\ c \in DOMAIN run
    BY NotificationRowTyped DEF Notifications!Fail, NotificationInv
  <1>2. NotificationRun(c)'
    BY <1>1 DEF NotificationRun, NotificationPage, Notifications!Idle
  <1> QED
    BY <1>1, <1>2, NotificationRunStep, NotificationIdleTyped

\* A page stays one when an event leaves it that was projected, or was committed too late.
LEMMA NotificationPageShrinks == ASSUME NEW page, NotificationPage(page), NEW e \in page,
    e \notin overtaken => NotificationProjected(e)
                        PROVE  NotificationPage(page \ {e})
  BY DEF NotificationPage

\* A run begins with the workspaces of the oldest events.
LEMMA NotificationStarts == ASSUME NotificationInv, NEW c \in NotificationConsumers,
    Notifications!runOnce(c) PROVE NotificationInv'
  <1> DEFINE q == [Notifications!Idle EXCEPT !.at = "scope", !.scopes = Notifications!pendingScopes]
  <1>1. Notifications!pendingScopes \subseteq NotificationScopes
    BY DEF NotificationInv, Notifications!TypeOK, Notifications!pendingScopes, Notifications!FirstOf
  <1>2. q \in NotificationRuns /\ q.at = "scope" /\ q.page = {}
    BY <1>1, NotificationIdleTyped DEF Notifications!Idle, NotificationRuns
  <1>3. run' = [run EXCEPT ![c] = q] /\ c \in DOMAIN run
    BY NotificationRowTyped DEF Notifications!runOnce, NotificationInv
  <1>4. run'[c] = q
    BY <1>3
  <1> HIDE DEF q
  <1>5. NotificationRun(c)'
    BY <1>2, <1>4 DEF NotificationRun, NotificationPage
  <1>6. failures' \in 0 .. NotificationMaxFailures
    BY DEF Notifications!runOnce, NotificationInv, Notifications!TypeOK
  <1> QED
    BY <1>2, <1>3, <1>5, <1>6, NotificationRunStep DEF Notifications!runOnce

\* The first of a set of numbers with an earlier one there are the earlier one too.
LEMMA NotificationFirstOf == ASSUME NEW S, S \subseteq Notifications!Events, NEW n \in Nat,
    NEW e \in Notifications!FirstOf(S, n),
                           NEW f \in S, f < e
                    PROVE  f \in Notifications!FirstOf(S, n)
  <1> DEFINE A == {g \in S : g < e}
             B == {g \in S : g < f}
  <1>1. IsFiniteSet(S)
    <2>1. IsFiniteSet(1 .. NotificationLast)
      BY NotificationAssumption, FS_Interval
    <2> QED
      BY <2>1, FS_Subset DEF Notifications!Events
  <1>2. IsFiniteSet(A)
    BY <1>1, FS_Subset
  <1>0. e \in S
    BY DEF Notifications!FirstOf
  <1>3. B \subseteq A
    <2>1. S \subseteq Nat
      BY NotificationAssumption DEF Notifications!Events
    <2>2. e \in Nat /\ f \in Nat /\ f < e
      BY <1>0, <2>1
    <2>3. ASSUME NEW g \in S, g < f PROVE g < e
      <3>1. g \in Nat
        BY <2>1
      <3> QED
        BY <3>1, <2>2, <2>3
    <2> QED
      BY <2>3
  <1>4. Cardinality(B) <= Cardinality(A) /\ IsFiniteSet(B)
    BY <1>2, <1>3, FS_Subset
  <1>5. Cardinality(A) < n
    BY NotificationCardinality DEF Notifications!FirstOf
  <1>6. Cardinality(A) \in Nat /\ Cardinality(B) \in Nat
    BY <1>2, <1>4, FS_CardinalityType
  <1>7. Cardinality(B) < n
    BY <1>4, <1>5, <1>6
  <1> QED
    BY <1>7, NotificationCardinality DEF Notifications!FirstOf

\* What the page of a workspace leaves out is behind its checkpoint.
LEMMA NotificationPageRead == ASSUME NotificationInv, NEW s \in NotificationScopes
                     PROVE  NotificationPage(Notifications!FirstOf(Notifications!Pending(s),
                         NotificationLimit))
  <1> DEFINE P == Notifications!Pending(s)
  <1>1. P \subseteq committed /\ P \subseteq Notifications!Events
    BY DEF NotificationInv, Notifications!TypeOK, Notifications!Pending
  <1>2. Notifications!FirstOf(P, NotificationLimit) \subseteq P
    BY DEF Notifications!FirstOf
  <1>3. \A e \in P : scope[e] = s /\ e > checkpoint[s]
    BY DEF Notifications!Pending
  <1>4. ASSUME NEW e \in Notifications!FirstOf(P, NotificationLimit),
            NEW f \in (committed \ overtaken) \ Notifications!FirstOf(P, NotificationLimit),
            f < e, scope[f] = scope[e]
        PROVE  NotificationProjected(f)
    <2>1. e \in P /\ scope[f] = s /\ f \in committed
      BY <1>1, <1>2, <1>3, <1>4
    <2>3. f \notin P
      <3> SUFFICES ASSUME f \in P PROVE FALSE
        OBVIOUS
      <3> HIDE DEF P
      <3> QED
        BY <1>1, <1>4, NotificationFirstOf, NotificationAssumption
    <2>4. ~(f > checkpoint[s])
      BY <2>1, <2>3 DEF Notifications!Pending
    <2>5. checkpoint[s] \in Nat /\ f \in Nat
      BY <2>1, NotificationAssumption DEF NotificationInv, Notifications!TypeOK, Notifications!Events
    <2>6. f <= checkpoint[scope[f]]
      BY <2>1, <2>4, <2>5
    <2> QED
      BY <2>1, <2>6, <1>4 DEF NotificationInv, NotificationBehind
  <1> HIDE DEF P
  <1>5. NotificationPage(Notifications!FirstOf(P, NotificationLimit))
    BY <1>1, <1>2, <1>3, <1>4 DEF NotificationPage
  <1> QED
    BY <1>5 DEF P

\* A run reads the page of its next workspace, or ends.
LEMMA NotificationPages == ASSUME NotificationInv, NEW c \in NotificationConsumers,
    Notifications!Page(c) PROVE NotificationInv'
  <1>1. failures' \in 0 .. NotificationMaxFailures
    BY DEF Notifications!Page, NotificationInv, Notifications!TypeOK
  <1>2. CASE run[c].scopes = {}
    <2>1. Notifications!Fail(c)
      BY <1>2 DEF Notifications!Page, Notifications!Fail
    <2> QED
      BY <1>1, <2>1, NotificationFails DEF Notifications!Page
  <1>3. CASE run[c].scopes # {}
    <2> DEFINE x == Notifications!NextScope(c)
               p == Notifications!FirstOf(Notifications!Pending(x), NotificationLimit)
               q == [Notifications!Idle EXCEPT !.at = "event", !.page = p,
                   !.scopes = run[c].scopes \ {x}]
    <2>1. run' = [run EXCEPT ![c] = q] /\ c \in DOMAIN run
      BY <1>3, NotificationRowTyped DEF Notifications!Page, NotificationInv
    <2>2. p \subseteq Notifications!Events
      BY DEF NotificationInv, Notifications!TypeOK, Notifications!Pending, Notifications!FirstOf
    <2>3. NotificationPage(p)
      <3>1. CASE x \in NotificationScopes
        BY <3>1, NotificationPageRead
      <3>2. CASE x \notin NotificationScopes
        <4>1. p = {}
          BY <3>2 DEF NotificationInv, Notifications!TypeOK, Notifications!Pending,
             Notifications!FirstOf
        <4> QED
          BY <4>1 DEF NotificationPage
      <3> QED
        BY <3>1, <3>2
    <2>4. run[c].scopes \subseteq NotificationScopes
      BY DEF NotificationInv, Notifications!TypeOK
    <2> HIDE DEF p, x
    <2>5. q \in NotificationRuns /\ q.at = "event" /\ q.page = p
      BY <2>2, <2>4, NotificationIdleTyped DEF Notifications!Idle, NotificationRuns
    <2>6. run'[c] = q
      BY <2>1
    <2> HIDE DEF q
    <2>7. NotificationPage(run'[c].page)
      BY <2>3, <2>5, <2>6
    <2>8. NotificationPage(run[c].page)'
      BY <2>7 DEF NotificationPage, NotificationProjected, Notifications!Page
    <2>9. NotificationRun(c)'
      BY <2>5, <2>6, <2>8 DEF NotificationRun
    <2> QED
      BY <1>1, <2>1, <2>5, <2>9, NotificationRunStep DEF Notifications!Page
  <1> QED
    BY <1>2, <1>3

\* The next event is left out as a replay, taken for its recipients, or passed.
LEMMA NotificationConsumes == ASSUME NotificationInv, NEW c \in NotificationConsumers,
    Notifications!Consume(c) PROVE NotificationInv'
  <1>0. UNCHANGED <<scope, actionable, committed, overtaken, checkpoint, receipt, intent>> /\ run[c].at = "event"
    BY DEF Notifications!Consume
  <1>1. failures' \in 0 .. NotificationMaxFailures
    BY DEF Notifications!Consume, NotificationInv, Notifications!TypeOK
  <1>2. run[c] \in NotificationRuns /\ c \in DOMAIN run /\ NotificationRun(c) /\ Notifications!TypeOK
    BY NotificationRowTyped DEF NotificationInv
  <1>3. NotificationPage(run[c].page)' = NotificationPage(run[c].page)'
    OBVIOUS
  <1>4. ASSUME NEW page, NotificationPage(page) PROVE NotificationPage(page)'
    BY <1>0, <1>4 DEF NotificationPage, NotificationProjected
  <1>5. CASE run[c].page = {}
    <2> DEFINE q == [run[c] EXCEPT !.at = "scope"]
    <2>1. run' = [run EXCEPT ![c] = q]
      BY <1>2, <1>5 DEF Notifications!Consume
    <2>2. q \in NotificationRuns /\ q.at = "scope" /\ q.page = run[c].page
      BY <1>2 DEF NotificationRuns
    <2>3. run'[c] = q
      BY <1>2, <2>1
    <2> HIDE DEF q
    <2>4. NotificationRun(c)'
      BY <1>2, <1>4, <2>2, <2>3 DEF NotificationRun
    <2> QED
      BY <1>0, <1>1, <2>1, <2>2, <2>4, NotificationRunStep
  <1>6. CASE run[c].page # {} /\ Notifications!Event(c) \notin actionable
    <2> DEFINE q == [run[c] EXCEPT !.at = "advance"]
    <2>1. run' = [run EXCEPT ![c] = q]
      BY <1>2, <1>6 DEF Notifications!Consume
    <2>2. q \in NotificationRuns /\ q.at = "advance" /\ q.page = run[c].page
      BY <1>2 DEF NotificationRuns
    <2>3. run'[c] = q
      BY <1>2, <2>1
    <2> HIDE DEF q
    <2>4. Notifications!Event(c)' = Notifications!Event(c)
      BY <2>2, <2>3 DEF Notifications!Event
    <2>5. NotificationProjected(Notifications!Event(c))'
      BY <1>0, <1>6, <2>4 DEF NotificationProjected
    <2>6. NotificationRun(c)'
      BY <1>2, <1>4, <1>6, <2>2, <2>3, <2>5 DEF NotificationRun
    <2> QED
      BY <1>0, <1>1, <2>1, <2>2, <2>6, NotificationRunStep
  <1>7. CASE run[c].page # {} /\ Notifications!Event(c) \in actionable
            /\ Notifications!Replayed(Notifications!Event(c))
    <2> DEFINE q == [run[c] EXCEPT !.page = @ \ {Notifications!Event(c)}]
    <2>1. run' = [run EXCEPT ![c] = q]
      BY <1>2, <1>7 DEF Notifications!Consume
    <2>2. q \in NotificationRuns /\ q.at = "event" /\ q.page = run[c].page \ {Notifications!Event(c)}
      BY <1>0, <1>2 DEF NotificationRuns
    <2>3. run'[c] = q
      BY <1>2, <2>1
    <2> HIDE DEF q
    <2>4. Notifications!Event(c) \in Notifications!Events /\ Notifications!Event(c) \in run[c].page
      BY <1>2, <1>7, NotificationEventIsFirst
    <2>5. Notifications!Event(c) \notin overtaken => NotificationProjected(Notifications!Event(c))
      BY <1>2, <1>7, <2>4 DEF Notifications!Replayed, NotificationInv, NotificationBehind,
         NotificationRun, NotificationPage
    <2>6. NotificationPage(run[c].page \ {Notifications!Event(c)})
      BY <1>2, <2>4, <2>5, NotificationPageShrinks DEF NotificationRun
    <2>7. NotificationRun(c)'
      BY <1>2, <1>4, <2>2, <2>3, <2>6 DEF NotificationRun
    <2> QED
      BY <1>0, <1>1, <2>1, <2>2, <2>7, NotificationRunStep
  <1>8. CASE run[c].page # {} /\ Notifications!Event(c) \in actionable
            /\ ~Notifications!Replayed(Notifications!Event(c))
                /\ scope[Notifications!Event(c)] \in NotificationBroken
    <2>1. Notifications!Fail(c)
      BY <1>8 DEF Notifications!Consume
    <2> QED
      BY <1>0, <1>1, <2>1, NotificationFails
  <1>9. CASE run[c].page # {} /\ Notifications!Event(c) \in actionable
            /\ ~Notifications!Replayed(Notifications!Event(c))
                /\ scope[Notifications!Event(c)] \notin NotificationBroken
    <2> DEFINE q == [run[c] EXCEPT !.at = "read", !.todo = NotificationRecipients]
    <2>1. run' = [run EXCEPT ![c] = q]
      BY <1>2, <1>9 DEF Notifications!Consume
    <2>2. q \in NotificationRuns /\ q.at = "read" /\ q.page = run[c].page
              /\ q.todo = NotificationRecipients
      BY <1>2 DEF NotificationRuns
    <2>3. run'[c] = q
      BY <1>2, <2>1
    <2> HIDE DEF q
    <2>4. Notifications!Event(c)' = Notifications!Event(c)
      BY <2>2, <2>3 DEF Notifications!Event
    <2>6. NotificationRun(c)'
      BY <1>0, <1>2, <1>4, <1>9, <2>2, <2>3, <2>4 DEF NotificationRun
    <2> QED
      BY <1>0, <1>1, <2>1, <2>2, <2>6, NotificationRunStep
  <1> QED
    BY <1>5, <1>6, <1>7, <1>8, <1>9

\* A recipient is done with: its receipt is there.
LEMMA NotificationTodoShrinks == ASSUME NotificationInv, NEW c \in NotificationConsumers,
    run[c].at \in {"read", "write"}, run[c].todo # {},
                               NEW seen \in Notifications!Intents, 
                               run' = [run EXCEPT ![c] = [run[c] EXCEPT !.at = "read",
                                   !.todo = @ \ {Notifications!Recipient(c)},
                                                                        !.seen = seen]],
                               receipt \subseteq receipt',
                                   <<Notifications!Recipient(c), Notifications!Event(c)>> \in receipt',
                               UNCHANGED <<scope, actionable, committed, overtaken>>
                        PROVE  /\ NotificationRun(c)'
                               /\ [run[c] EXCEPT !.at = "read",
                                   !.todo = @ \ {Notifications!Recipient(c)},
                                   !.seen = seen] \in NotificationRuns
  <1> DEFINE q == [run[c] EXCEPT !.at = "read", !.todo = @ \ {Notifications!Recipient(c)},
          !.seen = seen]
  <1>1. run[c] \in NotificationRuns /\ c \in DOMAIN run /\ NotificationRun(c)
    BY NotificationRowTyped DEF NotificationInv
  <1>2. q \in NotificationRuns /\ q.at = "read" /\ q.page = run[c].page
            /\ q.todo = run[c].todo \ {Notifications!Recipient(c)}
    BY <1>1 DEF NotificationRuns
  <1>3. run'[c] = q
    BY <1>1
  <1> HIDE DEF q
  <1>4. Notifications!Event(c)' = Notifications!Event(c)
    BY <1>2, <1>3 DEF Notifications!Event
  <1>5. NotificationPage(run[c].page)'
    BY <1>1, <1>2, <1>3 DEF NotificationRun, NotificationPage, NotificationProjected
  <1>6. NotificationRun(c)'
    BY <1>1, <1>2, <1>3, <1>4, <1>5 DEF NotificationRun
  <1> QED
    BY <1>2, <1>6 DEF q

\* The next recipient has a receipt, or its notification is read.
LEMMA NotificationReads == ASSUME NotificationInv, NEW c \in NotificationConsumers,
    Notifications!ReadIntent(c) PROVE NotificationInv'
  <1>0. UNCHANGED <<scope, actionable, committed, overtaken, checkpoint, receipt, intent>> /\ run[c].at = "read"
    BY DEF Notifications!ReadIntent
  <1>1. failures' \in 0 .. NotificationMaxFailures
    BY DEF Notifications!ReadIntent, NotificationInv, Notifications!TypeOK
  <1>2. run[c] \in NotificationRuns /\ c \in DOMAIN run /\ NotificationRun(c) /\ Notifications!TypeOK
    BY NotificationRowTyped DEF NotificationInv
  <1>4. ASSUME NEW page, NotificationPage(page) PROVE NotificationPage(page)'
    BY <1>0, <1>4 DEF NotificationPage, NotificationProjected
  <1>5. CASE run[c].todo = {}
    <2> DEFINE q == [run[c] EXCEPT !.at = "advance"]
    <2>1. run' = [run EXCEPT ![c] = q]
      BY <1>2, <1>5 DEF Notifications!ReadIntent
    <2>2. q \in NotificationRuns /\ q.at = "advance" /\ q.page = run[c].page
      BY <1>2 DEF NotificationRuns
    <2>3. run'[c] = q
      BY <1>2, <2>1
    <2> HIDE DEF q
    <2>4. Notifications!Event(c)' = Notifications!Event(c)
      BY <2>2, <2>3 DEF Notifications!Event
    <2>5. \A r \in NotificationRecipients : <<r, Notifications!Event(c)>> \in receipt
      BY <1>0, <1>2, <1>5 DEF NotificationRun
    <2>6. NotificationProjected(Notifications!Event(c))'
      BY <1>0, <2>4, <2>5 DEF NotificationProjected
    <2>7. NotificationRun(c)'
      BY <1>0, <1>2, <1>4, <2>2, <2>3, <2>6 DEF NotificationRun
    <2> QED
      BY <1>0, <1>1, <2>1, <2>2, <2>7, NotificationRunStep
  <1>6. CASE run[c].todo # {} /\ <<Notifications!Recipient(c), Notifications!Event(c)>> \in receipt
    <2> DEFINE q == [run[c] EXCEPT !.at = "read", !.todo = @ \ {Notifications!Recipient(c)},
            !.seen = run[c].seen]
    <2>1. [run EXCEPT ![c].todo = @ \ {Notifications!Recipient(c)}] = [run EXCEPT ![c] = q]
      BY <1>0, <1>2 DEF NotificationRuns
    <2>2. run' = [run EXCEPT ![c] = q]
      BY <1>6, <2>1 DEF Notifications!ReadIntent
    <2>3. run[c].seen \in Notifications!Intents
      BY <1>2 DEF NotificationRuns
    <2>4. NotificationRun(c)' /\ q \in NotificationRuns
      BY <1>0, <1>6, <2>2, <2>3, NotificationTodoShrinks
    <2> HIDE DEF q
    <2> QED
      BY <1>0, <1>1, <2>2, <2>4, NotificationRunStep
  <1>7. CASE run[c].todo # {} /\ <<Notifications!Recipient(c), Notifications!Event(c)>> \notin receipt
    <2> DEFINE i == intent[scope[Notifications!Event(c)]][Notifications!Recipient(c)]
               q == [run[c] EXCEPT !.at = "write", !.seen = i]
    <2>0. Notifications!Event(c) \in Notifications!Events
              /\ Notifications!Recipient(c) \in NotificationRecipients
      BY <1>0, <1>2, <1>7, NotificationEventIsFirst, NotificationRecipient DEF NotificationRun
    <2>1. i \in Notifications!Intents
      BY <1>2, <2>0 DEF Notifications!TypeOK
    <2>2. run' = [run EXCEPT ![c] = q]
      BY <1>2, <1>7 DEF Notifications!ReadIntent
    <2> HIDE DEF i
    <2>3. q \in NotificationRuns /\ q.at = "write" /\ q.page = run[c].page /\ q.todo = run[c].todo
              /\ q.seen = i
      BY <1>2, <2>1 DEF NotificationRuns
    <2>4. run'[c] = q
      BY <1>2, <2>2
    <2> HIDE DEF q
    <2>5. Notifications!Event(c)' = Notifications!Event(c)
              /\ Notifications!Recipient(c)' = Notifications!Recipient(c)
      BY <2>3, <2>4 DEF Notifications!Event, Notifications!Recipient
    <2>6. intent[scope[Notifications!Event(c)]][Notifications!Recipient(c)]' = i
      BY <1>0, <2>5 DEF i
    <2>7. NotificationSeen(c)'
      <3>1. i.count <= Cardinality(Notifications!Receipts(scope[Notifications!Event(c)],
                                                          Notifications!Recipient(c)))
        BY <1>2, <2>0, NotificationCardinality
           DEF i, NotificationInv, Notifications!TypeOK, Notifications!CountsMatch
      <3>2. run'[c].seen.count = i.count
        BY <2>3, <2>4
      <3>3. Notifications!Receipts(scope[Notifications!Event(c)], Notifications!Recipient(c))' =
            Notifications!Receipts(scope[Notifications!Event(c)], Notifications!Recipient(c))
        BY <1>0, <2>5 DEF Notifications!Receipts
      <3> QED
        BY <2>6, <3>1, <3>2, <3>3 DEF NotificationSeen
    <2>8. NotificationRun(c)'
      BY <1>0, <1>2, <1>4, <1>7, <2>3, <2>4, <2>5, <2>7 DEF NotificationRun
    <2> QED
      BY <1>0, <1>1, <2>2, <2>3, <2>8, NotificationRunStep
  <1> QED
    BY <1>5, <1>6, <1>7

\* A write that comes too late is left out when the receipt is there, and else ends the run.
LEMMA NotificationRejects == ASSUME NotificationInv, NEW c \in NotificationConsumers,
    Notifications!RejectIntent(c) PROVE NotificationInv'
  <1>0. UNCHANGED <<scope, actionable, committed, overtaken, checkpoint, receipt, intent>> /\ run[c].at = "write"
    BY DEF Notifications!RejectIntent
  <1>1. failures' \in 0 .. NotificationMaxFailures
    BY DEF Notifications!RejectIntent, NotificationInv, Notifications!TypeOK
  <1>2. CASE Notifications!FreshReceipt(c)
    BY <1>0, <1>1, <1>2, NotificationFails DEF Notifications!RejectIntent
  <1>3. CASE ~Notifications!FreshReceipt(c)
    <2> DEFINE q == [run[c] EXCEPT !.at = "read", !.todo = @ \ {Notifications!Recipient(c)},
            !.seen = Notifications!NoIntent]
    <2>1. run' = [run EXCEPT ![c] = q]
      BY <1>3, NotificationRowTyped DEF Notifications!RejectIntent, NotificationInv
    <2>2. run[c].todo # {}
      BY <1>0 DEF NotificationInv, NotificationRun
    <2>3. NotificationRun(c)' /\ q \in NotificationRuns
      BY <1>0, <1>3, <2>1, <2>2, NotificationIdleTyped, NotificationTodoShrinks
         DEF Notifications!FreshReceipt
    <2> HIDE DEF q
    <2> QED
      BY <1>0, <1>1, <2>1, <2>3, NotificationRunStep
  <1> QED
    BY <1>2, <1>3

\* The checkpoint moves to an event, all of whose predecessors were projected.
LEMMA NotificationAdvances == ASSUME NotificationInv, NEW c \in NotificationConsumers,
    Notifications!advanceCheckpoint(c) PROVE NotificationInv'
  <1> DEFINE e == Notifications!Event(c)
             q == [run[c] EXCEPT !.at = "event", !.page = @ \ {e}]
  <1>0. /\ UNCHANGED <<scope, actionable, committed, overtaken, receipt, intent, failures>>
            /\ run[c].at = "advance"
        /\ checkpoint' = Notifications!Advanced(c)
    BY DEF Notifications!advanceCheckpoint
  <1>1. run[c] \in NotificationRuns /\ c \in DOMAIN run /\ NotificationRun(c) /\ Notifications!TypeOK
    BY NotificationRowTyped DEF NotificationInv
  <1>2. run' = [run EXCEPT ![c] = q]
    BY <1>1 DEF Notifications!advanceCheckpoint
  <1>3. /\ e \in run[c].page /\ e \in Notifications!Events
        /\ \A f \in run[c].page : e <= f
    BY <1>0, <1>1, NotificationEventIsFirst DEF NotificationRun
  <1>4. checkpoint' = [checkpoint EXCEPT ![scope[e]] = IF e > @ THEN e ELSE @]
    BY <1>0 DEF Notifications!Advanced
  <1>5. NotificationProjected(e)
    BY <1>0, <1>1 DEF NotificationRun
  <1> HIDE DEF e
  <1>6. q \in NotificationRuns /\ q.at = "event" /\ q.page = run[c].page \ {e}
    BY <1>1 DEF NotificationRuns
  <1>7. run'[c] = q
    BY <1>1, <1>2
  <1> HIDE DEF q
  <1>8. scope[e] \in NotificationScopes /\ checkpoint \in [NotificationScopes -> 0 .. NotificationLast]
            /\ e \in 1 .. NotificationLast
    BY <1>1, <1>3 DEF Notifications!TypeOK, Notifications!Events
  <1>9. checkpoint' \in [NotificationScopes -> 0 .. NotificationLast]
    BY <1>4, <1>8
  <1>10. Notifications!TypeOK'
    BY <1>0, <1>1, <1>2, <1>6, <1>9 DEF Notifications!TypeOK, NotificationRuns
  <1>11. Notifications!CountsMatch'
    BY <1>0 DEF NotificationInv, Notifications!CountsMatch, Notifications!Receipts,
       Notifications!InOrder
  <1>15. e \in committed
    BY <1>1, <1>3 DEF NotificationRun, NotificationPage
  <1>16. \A s \in NotificationScopes :
             checkpoint'[s] = checkpoint[s] \/ (s = scope[e] /\ checkpoint'[s] = e)
    BY <1>4, <1>8
  <1>12. NotificationBehind'
    <2>1. \A s \in NotificationScopes :
              checkpoint'[s] # 0 => checkpoint'[s] \in committed /\ scope[checkpoint'[s]] = s
      BY <1>15, <1>16 DEF NotificationInv, NotificationBehind
    <2>2. ASSUME NEW f \in committed \ overtaken, f <= checkpoint'[scope[f]]
          PROVE  NotificationProjected(f)
      <3>1. scope[f] \in NotificationScopes
        BY <1>1 DEF Notifications!TypeOK
      <3>2. CASE checkpoint'[scope[f]] = checkpoint[scope[f]]
        BY <2>2, <3>2 DEF NotificationInv, NotificationBehind
      <3>3. CASE scope[f] = scope[e] /\ checkpoint'[scope[f]] = e
        <4>1. f \in Nat /\ e \in Nat
          BY <1>1, <1>8, NotificationAssumption DEF Notifications!TypeOK, Notifications!Events
        <4>2. CASE f = e
          BY <1>5, <4>2
        <4>3. CASE f < e
          <5>1. f \notin run[c].page
            BY <1>3, <4>1, <4>3
          <5> QED
            BY <1>1, <1>3, <3>3, <4>3, <5>1 DEF NotificationRun, NotificationPage
        <4> QED
          BY <2>2, <3>3, <4>1, <4>2, <4>3
      <3> QED
        BY <1>16, <3>1, <3>2, <3>3
    <2> QED
      BY <1>0, <2>1, <2>2 DEF NotificationBehind, NotificationProjected
  <1>13. ASSUME NEW page, NotificationPage(page) PROVE NotificationPage(page)'
    BY <1>0, <1>13 DEF NotificationPage, NotificationProjected
  <1>14. ASSUME NEW d \in NotificationConsumers PROVE NotificationRun(d)'
    <2>1. CASE d = c
      <3>1. NotificationPage(run[c].page \ {e})
        BY <1>1, <1>3, <1>5, NotificationPageShrinks DEF NotificationRun
      <3> QED
        BY <1>13, <1>6, <1>7, <2>1, <3>1 DEF NotificationRun
    <2>2. CASE d # c
      <3>1. run'[d] = run[d]
        BY <1>2, <2>2, <1>1 DEF Notifications!TypeOK
      <3>2. NotificationRun(d)
        BY DEF NotificationInv
      <3>3. Notifications!Event(d)' = Notifications!Event(d)
                /\ Notifications!Recipient(d)' = Notifications!Recipient(d)
        BY <3>1 DEF Notifications!Event, Notifications!Recipient
      <3>4. NotificationPage(run[d].page)'
        BY <1>13, <3>1, <3>2 DEF NotificationRun
      <3>5. Notifications!FreshReceipt(d)' = Notifications!FreshReceipt(d)
        BY <1>0, <3>3 DEF Notifications!FreshReceipt
      <3>6. NotificationProjected(Notifications!Event(d))' = NotificationProjected(Notifications!Event(d))
        BY <1>0, <3>3 DEF NotificationProjected
      <3>7. NotificationSeen(d)' = NotificationSeen(d)
        BY <1>0, <3>1, <3>3, <3>5 DEF NotificationSeen, Notifications!Receipts, Notifications!InOrder
      <3> QED
        BY <1>0, <3>1, <3>2, <3>3, <3>4, <3>6, <3>7 DEF NotificationRun
    <2> QED
      BY <2>1, <2>2
  <1> QED
    BY <1>10, <1>11, <1>12, <1>14 DEF NotificationInv

\* The count and the state of a notification are changed, nothing else.
LEMMA NotificationRowChanges == ASSUME NotificationInv, UNCHANGED <<scope, actionable, committed,
    overtaken, checkpoint, receipt, run, failures>>,
                              intent' \in [NotificationScopes -> [NotificationRecipients -> Notifications!Intents]],
                              \A s \in NotificationScopes, r \in NotificationRecipients :
                                  intent'[s][r].count = intent[s][r].count
                       PROVE  NotificationInv'
  <1>1. Notifications!TypeOK'
    BY DEF NotificationInv, Notifications!TypeOK
  <1>2. NotificationBehind'
    BY DEF NotificationInv, NotificationBehind, NotificationProjected
  <1>3. Notifications!CountsMatch'
    BY DEF NotificationInv, Notifications!CountsMatch, Notifications!Receipts, Notifications!InOrder
  <1>4. ASSUME NEW d \in NotificationConsumers PROVE NotificationRun(d)'
    <2>1. NotificationRun(d) /\ Notifications!TypeOK
      BY DEF NotificationInv
    <2>2. Notifications!Event(d)' = Notifications!Event(d)
              /\ Notifications!Recipient(d)' = Notifications!Recipient(d)
      BY DEF Notifications!Event, Notifications!Recipient
    <2>3. NotificationPage(run[d].page)'
              /\ Notifications!FreshReceipt(d)' = Notifications!FreshReceipt(d)
                  /\ NotificationProjected(Notifications!Event(d))' = NotificationProjected(Notifications!Event(d))
      BY <2>1, <2>2 DEF NotificationRun, NotificationPage, NotificationProjected,
         Notifications!FreshReceipt
    <2>4. CASE run[d].at = "write"
      <3>1. scope[Notifications!Event(d)] \in NotificationScopes
                /\ Notifications!Recipient(d) \in NotificationRecipients
        BY <2>1, <2>4, NotificationEventIsFirst, NotificationRecipient
           DEF NotificationRun, Notifications!TypeOK
      <3>2. NotificationSeen(d)'
        BY <2>1, <2>2, <2>3, <2>4, <3>1
           DEF NotificationRun, NotificationSeen, Notifications!Receipts, Notifications!InOrder
      <3> QED
        BY <2>1, <2>2, <2>3, <2>4, <3>2 DEF NotificationRun
    <2>5. CASE run[d].at # "write"
      BY <2>1, <2>2, <2>3, <2>5 DEF NotificationRun
    <2> QED
      BY <2>4, <2>5
  <1> QED
    BY <1>1, <1>2, <1>3, <1>4 DEF NotificationInv

\* A recipient marks a notification, whose count stays.
LEMMA NotificationMarks == ASSUME NotificationInv, NEW s \in NotificationScopes,
    NEW r \in NotificationRecipients, NEW next \in {"READ", "DISMISSED"},
                         Notifications!setStateCommand(s, r, next)
                  PROVE  NotificationInv'
  <1>1. intent \in [NotificationScopes -> [NotificationRecipients -> Notifications!Intents]]
            /\ intent[s][r] \in Notifications!Intents
                /\ intent[s] \in [NotificationRecipients -> Notifications!Intents]
    BY DEF NotificationInv, Notifications!TypeOK
  <1> DEFINE i == [intent[s][r] EXCEPT !.state = next, !.revision = @ + 1]
  <1>2. i \in Notifications!Intents /\ i.count = intent[s][r].count
    BY <1>1, NotificationAssumption DEF Notifications!setStateCommand, Notifications!Intents,
       Notifications!UserStates
  <1>3. intent' = [intent EXCEPT ![s] = [intent[s] EXCEPT ![r] = i]]
    BY <1>1 DEF Notifications!setStateCommand, Notifications!Intents
  <1> HIDE DEF i
  <1>4. intent' \in [NotificationScopes -> [NotificationRecipients -> Notifications!Intents]]
    BY <1>1, <1>2, <1>3
  <1>5. \A x \in NotificationScopes, y \in NotificationRecipients :
            intent'[x][y].count = intent[x][y].count
    BY <1>1, <1>2, <1>3
  <1> QED
    BY <1>4, <1>5, NotificationRowChanges DEF Notifications!setStateCommand

\* An event is committed: a page or a checkpoint has passed it only if it was overtaken.
LEMMA NotificationCommits == ASSUME NotificationInv, NEW e \in Notifications!Events,
    Notifications!Commit(e) PROVE NotificationInv'
  <1>0. /\ UNCHANGED <<scope, actionable, checkpoint, receipt, intent, run, failures>>
        /\ committed' = committed \cup {e} /\ e \notin committed
        /\ overtaken' = IF \E f \in committed : f > e /\ scope[f] = scope[e] THEN overtaken \cup {e}
                                                                            ELSE overtaken
    BY DEF Notifications!Commit
  <1>1. /\ Notifications!TypeOK /\ overtaken \subseteq overtaken' /\ e \in Nat /\ e # 0
        /\ committed \subseteq Nat
    BY <1>0, NotificationAssumption DEF NotificationInv, Notifications!TypeOK, Notifications!Events
  <1>2. Notifications!TypeOK'
    BY <1>0, <1>1 DEF Notifications!TypeOK
  <1>3. ASSUME NEW s, Notifications!InOrder(s)' PROVE Notifications!InOrder(s)
    BY <1>0, <1>1, <1>3 DEF Notifications!InOrder
  <1>4. Notifications!CountsMatch'
    BY <1>0, <1>3 DEF NotificationInv, Notifications!CountsMatch, Notifications!Receipts
  <1>5. ASSUME NEW f \in committed, f >= e, scope[f] = scope[e] PROVE e \in overtaken'
    <2>1. f \in Nat /\ f # e
      BY <1>0, <1>1
    <2> QED
      BY <1>0, <1>1, <1>5, <2>1
  <1>6. NotificationBehind'
    <2>1. \A s \in NotificationScopes :
              checkpoint'[s] # 0 => checkpoint'[s] \in committed' /\ scope'[checkpoint'[s]] = s
      BY <1>0 DEF NotificationInv, NotificationBehind
    <2>2. ASSUME NEW f \in committed' \ overtaken', f <= checkpoint[scope[f]]
          PROVE  NotificationProjected(f)
      <3>1. CASE f = e
        <4>1. scope[e] \in NotificationScopes /\ checkpoint[scope[e]] \in Nat
          BY <1>1, NotificationAssumption DEF Notifications!TypeOK
        <4>2. checkpoint[scope[e]] # 0
          BY <1>1, <2>2, <3>1, <4>1
        <4>3. /\ checkpoint[scope[e]] \in committed /\ checkpoint[scope[e]] >= e
              /\ scope[checkpoint[scope[e]]] = scope[e]
          BY <1>1, <2>2, <3>1, <4>1, <4>2 DEF NotificationInv, NotificationBehind
        <4> QED
          BY <1>5, <2>2, <3>1, <4>3
      <3>2. CASE f # e
        BY <1>0, <1>1, <2>2, <3>2 DEF NotificationInv, NotificationBehind
      <3> QED
        BY <3>1, <3>2
    <2> QED
      BY <1>0, <2>1, <2>2 DEF NotificationBehind, NotificationProjected
  <1>7. ASSUME NEW page, NotificationPage(page) PROVE NotificationPage(page)'
    <2>1. ASSUME NEW g \in page, NEW f \in (committed' \ overtaken') \ page, f < g, scope[f] = scope[g]
          PROVE  NotificationProjected(f)
      <3>1. g \in committed /\ g \in Nat
        BY <1>1, <1>7 DEF NotificationPage
      <3>2. CASE f = e
        BY <1>1, <1>5, <2>1, <3>1, <3>2
      <3>3. CASE f # e
        BY <1>0, <1>1, <1>7, <2>1, <3>3 DEF NotificationPage
      <3> QED
        BY <3>2, <3>3
    <2> QED
      BY <1>0, <1>7, <2>1 DEF NotificationPage, NotificationProjected
  <1>8. ASSUME NEW d \in NotificationConsumers PROVE NotificationRun(d)'
    <2>1. NotificationRun(d) /\ run' = run
      BY <1>0 DEF NotificationInv
    <2>2. Notifications!Event(d)' = Notifications!Event(d)
              /\ Notifications!Recipient(d)' = Notifications!Recipient(d)
      BY <1>0 DEF Notifications!Event, Notifications!Recipient
    <2>3. NotificationPage(run[d].page)'
      BY <1>7, <2>1 DEF NotificationRun
    <2>4. Notifications!FreshReceipt(d)' = Notifications!FreshReceipt(d)
          /\ NotificationProjected(Notifications!Event(d))' = NotificationProjected(Notifications!Event(d))
      BY <1>0, <2>2 DEF NotificationProjected, Notifications!FreshReceipt
    <2>5. NotificationSeen(d) => NotificationSeen(d)'
      <3>1. Notifications!InOrder(scope[Notifications!Event(d)])' =>
                Notifications!InOrder(scope[Notifications!Event(d)])
        BY <1>0, <1>1, <2>2 DEF Notifications!InOrder
      <3> QED
        BY <1>0, <2>2, <2>4, <3>1 DEF NotificationSeen, Notifications!Receipts
    <2> QED
      BY <1>0, <2>1, <2>2, <2>3, <2>4, <2>5 DEF NotificationRun
  <1> QED
    BY <1>2, <1>4, <1>6, <1>8 DEF NotificationInv

\* A notification counts one more event when its receipt is written.  When events were committed in
\* order, no other run is between its read and its write for the same recipient at another event of
\* the workspace.
LEMMA NotificationWrites == ASSUME NotificationInv, NEW c \in NotificationConsumers,
    Notifications!WriteIntent(c) PROVE NotificationInv'
  <1> DEFINE e == Notifications!Event(c)
             r == Notifications!Recipient(c)
             s == scope[e]
             n == run[c].seen.count
             i == [intent[s][r] EXCEPT !.count = n + 1]
  <1>0. /\ UNCHANGED <<scope, actionable, committed, overtaken, checkpoint, failures>> /\ run[c].at = "write"
        /\ Notifications!FreshReceipt(c) /\ n < NotificationLast
        /\ receipt' = receipt \cup {<<r, e>>}
        /\ run' = [run EXCEPT ![c].at = "read", ![c].todo = @ \ {r}, ![c].seen = Notifications!NoIntent]
        /\ intent' = [intent EXCEPT ![s][r].count = n + 1]
    BY DEF Notifications!WriteIntent
  <1>1. run[c] \in NotificationRuns /\ c \in DOMAIN run /\ NotificationRun(c) /\ Notifications!TypeOK
    BY NotificationRowTyped DEF NotificationInv
  <1>2. /\ e \in run[c].page /\ e \in Notifications!Events /\ r \in NotificationRecipients
            /\ run[c].todo # {}
        /\ \A f \in run[c].page : e <= f
    BY <1>0, <1>1, NotificationEventIsFirst, NotificationRecipient DEF NotificationRun
  <1>3. s \in NotificationScopes /\ n \in 0 .. NotificationLast
    BY <1>1, <1>2 DEF Notifications!TypeOK, NotificationRuns, Notifications!Intents
  <1>4. intent \in [NotificationScopes -> [NotificationRecipients -> Notifications!Intents]]
            /\ intent[s][r] \in Notifications!Intents
                /\ intent[s] \in [NotificationRecipients -> Notifications!Intents]
    BY <1>1, <1>2, <1>3 DEF Notifications!TypeOK
  <1>15. n + 1 \in 0 .. NotificationLast
    BY <1>0, <1>3, NotificationAssumption
  <1> HIDE DEF n
  <1>5. i \in Notifications!Intents /\ i.count = n + 1
    BY <1>4, <1>15 DEF Notifications!Intents
  <1>6. intent' = [intent EXCEPT ![s] = [intent[s] EXCEPT ![r] = i]]
    BY <1>0, <1>4 DEF Notifications!Intents
  <1>7. /\ n <= Cardinality(Notifications!Receipts(s, r))
        /\ Notifications!InOrder(s) => n = intent[s][r].count
    BY <1>0, <1>1 DEF NotificationRun, NotificationSeen, n
  <1>8. e \in actionable /\ <<r, e>> \notin receipt
    BY <1>0, <1>1 DEF NotificationRun, Notifications!FreshReceipt
  <1>9. run' = [run EXCEPT ![c] = [run[c] EXCEPT !.at = "read", !.todo = @ \ {r},
            !.seen = Notifications!NoIntent]]
    BY <1>0, <1>1 DEF NotificationRuns
  <1>10. NotificationRun(c)' /\ [run[c] EXCEPT !.at = "read", !.todo = @ \ {r},
             !.seen = Notifications!NoIntent] \in NotificationRuns
    BY <1>0, <1>2, <1>9, NotificationIdleTyped, NotificationTodoShrinks
  <1> HIDE DEF i, n, s, e, r
  <1>11. Notifications!TypeOK'
    <2>1. intent' \in [NotificationScopes -> [NotificationRecipients -> Notifications!Intents]]
      BY <1>4, <1>5, <1>6
    <2>2. receipt' \subseteq NotificationRecipients \X Notifications!Events
      BY <1>0, <1>1, <1>2 DEF Notifications!TypeOK
    <2>3. run' \in [NotificationConsumers -> NotificationRuns]
      BY <1>1, <1>9, <1>10 DEF Notifications!TypeOK, NotificationRuns
    <2> QED
      BY <1>0, <1>1, <2>1, <2>2, <2>3 DEF Notifications!TypeOK, NotificationRuns
  <1>12. NotificationBehind'
    BY <1>0 DEF NotificationInv, NotificationBehind, NotificationProjected
  <1>16. IsFiniteSet(Notifications!Events)
    BY NotificationAssumption, FS_Interval DEF Notifications!Events
  <1>17. ASSUME NEW x, NEW y
         PROVE  /\ Notifications!Receipts(x, y) \subseteq Notifications!Receipts(x, y)'
                /\ IsFiniteSet(Notifications!Receipts(x, y)) /\ IsFiniteSet(Notifications!Receipts(x, y)')
                /\ Cardinality(Notifications!Receipts(x, y)) \in Nat
                /\ Cardinality(Notifications!Receipts(x, y)') \in Nat
                /\ Cardinality(Notifications!Receipts(x, y)) <= Cardinality(Notifications!Receipts(x, y)')
    <2>1. /\ Notifications!Receipts(x, y) \subseteq Notifications!Receipts(x, y)'
          /\ Notifications!Receipts(x, y)' \subseteq Notifications!Events
      BY <1>0 DEF Notifications!Receipts
    <2>2. IsFiniteSet(Notifications!Receipts(x, y)')
      BY <1>16, <2>1, FS_Subset
    <2> QED
      BY <2>1, <2>2, FS_Subset, FS_CardinalityType
  <1>13. Notifications!CountsMatch'
    <2> SUFFICES ASSUME NEW x \in NotificationScopes, NEW y \in NotificationRecipients
                 PROVE  /\ intent'[x][y].count <= Cardinality(Notifications!Receipts(x, y)')
                        /\ Notifications!InOrder(x)' =>
                              intent'[x][y].count = Cardinality(Notifications!Receipts(x, y)')
      BY NotificationCardinality DEF Notifications!CountsMatch
    <2>0. Notifications!InOrder(x)' = Notifications!InOrder(x)
      BY <1>0 DEF Notifications!InOrder
    <2>1. /\ intent[x][y].count <= Cardinality(Notifications!Receipts(x, y))
          /\ Notifications!InOrder(x) => intent[x][y].count = Cardinality(Notifications!Receipts(x, y))
      BY NotificationCardinality DEF NotificationInv, Notifications!CountsMatch
    <2>2. CASE x = s /\ y = r
      <3>1. Notifications!Receipts(x, y)' = Notifications!Receipts(x, y) \cup {e}
        BY <1>0, <1>2, <2>2 DEF s, Notifications!Receipts
      <3>2. e \notin Notifications!Receipts(x, y)
        BY <1>8, <2>2 DEF Notifications!Receipts
      <3>3. Cardinality(Notifications!Receipts(x, y)') = Cardinality(Notifications!Receipts(x, y)) + 1
        BY <1>17, <3>1, <3>2, FS_AddElement
      <3>4. intent'[x][y].count = n + 1
        BY <1>2, <1>3, <1>4, <1>5, <1>6, <2>2
      <3> QED
        BY <1>3, <1>7, <1>17, <2>0, <2>1, <2>2, <3>3, <3>4
    <2>3. CASE ~(x = s /\ y = r)
      <3>1. Notifications!Receipts(x, y)' = Notifications!Receipts(x, y)
        BY <1>0, <2>3 DEF s, Notifications!Receipts
      <3>2. intent'[x][y] = intent[x][y]
        BY <1>4, <1>6, <2>3
      <3> QED
        BY <2>0, <2>1, <3>1, <3>2
    <2> QED
      BY <2>2, <2>3
  <1>14. ASSUME NEW d \in NotificationConsumers, d # c PROVE NotificationRun(d)'
    <2>1. run'[d] = run[d]
      BY <1>9, <1>14, <1>1 DEF Notifications!TypeOK
    <2>2. NotificationRun(d)
      BY DEF NotificationInv
    <2>3. Notifications!Event(d)' = Notifications!Event(d)
              /\ Notifications!Recipient(d)' = Notifications!Recipient(d)
      BY <2>1 DEF Notifications!Event, Notifications!Recipient
    <2>4. NotificationPage(run[d].page)'
      BY <1>0, <2>1, <2>2 DEF NotificationRun, NotificationPage, NotificationProjected
    <2>5. NotificationProjected(Notifications!Event(d)) =>
              NotificationProjected(Notifications!Event(d))'
      BY <1>0, <2>3 DEF NotificationProjected
    <2>7. Notifications!InOrder(scope[Notifications!Event(d)])' =>
              Notifications!InOrder(scope[Notifications!Event(d)])
      BY <1>0, <2>3 DEF Notifications!InOrder
    <2>6. ASSUME run[d].at = "write", Notifications!FreshReceipt(d)',
                 Notifications!InOrder(scope[Notifications!Event(d)])
          PROVE  run[d].seen.count = intent'[scope[Notifications!Event(d)]][Notifications!Recipient(d)].count
      <3>1. <<Notifications!Recipient(d), Notifications!Event(d)>> \notin receipt
                /\ <<Notifications!Recipient(d), Notifications!Event(d)>> # <<r, e>>
        BY <1>0, <2>3, <2>6 DEF Notifications!FreshReceipt
      <3>2. run[d].page # {} /\ run[d].todo # {} /\ Notifications!Event(d) \in actionable
            /\ run[d].seen.count = intent[scope[Notifications!Event(d)]][Notifications!Recipient(d)].count
        BY <2>2, <2>6, <3>1 DEF NotificationRun, NotificationSeen, Notifications!FreshReceipt
      <3>3. /\ Notifications!Event(d) \in run[d].page
                /\ Notifications!Event(d) \in Notifications!Events
                    /\ Notifications!Recipient(d) \in NotificationRecipients
            /\ \A f \in run[d].page : Notifications!Event(d) <= f
        BY <1>1, <3>2, NotificationEventIsFirst, NotificationRecipient
      <3>6. /\ e \in committed /\ Notifications!Event(d) \in committed
            /\ Notifications!Event(d) \notin overtaken
            /\ scope[Notifications!Event(d)] = s => e \notin overtaken
        BY <1>1, <1>2, <2>2, <2>6, <3>3 DEF NotificationRun, NotificationPage, Notifications!InOrder, s
      <3>4. CASE scope[Notifications!Event(d)] = s /\ Notifications!Recipient(d) = r
        <4>1. Notifications!Event(d) # e /\ Notifications!Event(d) \in Nat /\ e \in Nat
          BY <1>2, <3>1, <3>3, <3>4, NotificationAssumption DEF Notifications!Events
        <4>2. CASE Notifications!Event(d) < e
          <5>1. Notifications!Event(d) \notin run[c].page
            BY <1>2, <4>1, <4>2
          <5>2. NotificationProjected(Notifications!Event(d))
            BY <1>1, <1>2, <3>3, <3>4, <3>6, <4>2, <5>1 DEF NotificationRun, NotificationPage, s
          <5> QED
            BY <3>1, <3>2, <3>3, <5>2 DEF NotificationProjected
        <4>3. CASE e < Notifications!Event(d)
          <5>1. e \notin run[d].page
            BY <3>3, <4>1, <4>3
          <5>2. NotificationProjected(e)
            BY <1>2, <2>2, <3>3, <3>4, <3>6, <4>3, <5>1 DEF NotificationRun, NotificationPage, s
          <5> QED
            BY <1>2, <1>8, <5>2 DEF NotificationProjected
        <4> QED
          BY <4>1, <4>2, <4>3
      <3>5. CASE ~(scope[Notifications!Event(d)] = s /\ Notifications!Recipient(d) = r)
        <4>1. scope[Notifications!Event(d)] \in NotificationScopes
          BY <1>1, <3>3 DEF Notifications!TypeOK
        <4>2. intent'[scope[Notifications!Event(d)]][Notifications!Recipient(d)] = intent[scope[Notifications!Event(d)]][Notifications!Recipient(d)]
          BY <1>4, <1>6, <3>3, <3>5, <4>1
        <4> QED
          BY <3>2, <4>2
      <3> QED
        BY <3>4, <3>5
    <2>8. ASSUME run[d].at = "write" PROVE NotificationSeen(d)'
      <3>1. run[d].seen.count \in Nat
        BY <1>1, NotificationAssumption, NotificationRowTyped DEF NotificationRuns, Notifications!Intents
      <3>2. run[d].seen.count <= Cardinality(Notifications!Receipts(scope[Notifications!Event(d)],
                                                                    Notifications!Recipient(d)))
        BY <2>2, <2>8 DEF NotificationRun, NotificationSeen
      <3>3. PICK x, y : x = scope[Notifications!Event(d)] /\ y = Notifications!Recipient(d)
        OBVIOUS
      <3>4. Notifications!Receipts(scope[Notifications!Event(d)], Notifications!Recipient(d))' =
            Notifications!Receipts(x, y)'
        BY <1>0, <2>3, <3>3 DEF Notifications!Receipts
      <3>5. run[d].seen.count <= Cardinality(Notifications!Receipts(x, y)')
        BY <1>17, <3>1, <3>2, <3>3
      <3>6. run'[d].seen.count <= Cardinality(Notifications!Receipts(scope[Notifications!Event(d)],
                                                                     Notifications!Recipient(d))')
        BY <2>1, <3>4, <3>5
      <3> QED
        BY <1>0, <2>1, <2>3, <2>6, <2>7, <2>8, <3>6 DEF NotificationSeen
    <2> QED
      BY <1>0, <2>1, <2>2, <2>3, <2>4, <2>5, <2>8 DEF NotificationRun
  <1> QED
    BY <1>10, <1>11, <1>12, <1>13, <1>14 DEF NotificationInv

\* Every step keeps the invariant.
LEMMA NotificationStep == ASSUME NotificationInv, [Notifications!Next]_Notifications!vars
    PROVE NotificationInv'
  <1>1. CASE UNCHANGED Notifications!vars
    <2>1. UNCHANGED <<scope, actionable, committed, overtaken, checkpoint, receipt, run, failures, intent>>
      BY <1>1 DEF Notifications!vars
    <2> QED
      BY <2>1, NotificationRowChanges DEF NotificationInv, Notifications!TypeOK
  <1>2. ASSUME NEW e \in Notifications!Events, Notifications!Commit(e) PROVE NotificationInv'
    BY <1>2, NotificationCommits
  <1>3. ASSUME NEW c \in NotificationConsumers, Notifications!Step(c) PROVE NotificationInv'
    BY <1>3, NotificationStarts, NotificationPages, NotificationConsumes, NotificationReads,
       NotificationWrites, NotificationRejects, NotificationAdvances DEF Notifications!Step
  <1>4. ASSUME NEW c \in NotificationConsumers, Notifications!FailRun(c) PROVE NotificationInv'
    <2>1. failures' \in 0 .. NotificationMaxFailures
      BY <1>4, NotificationAssumption DEF Notifications!FailRun, NotificationInv, Notifications!TypeOK
    <2> QED
      BY <1>4, <2>1, NotificationFails DEF Notifications!FailRun
  <1>5. ASSUME NEW s \in NotificationScopes, NEW r \in NotificationRecipients, NEW next \in {"READ",
            "DISMISSED"}, Notifications!setStateCommand(s, r, next)
        PROVE  NotificationInv'
    BY <1>5, NotificationMarks
  <1> QED
    BY <1>1, <1>2, <1>3, <1>4, <1>5 DEF Notifications!Next

\* The invariant has what is promised.
LEMMA NotificationSafe == NotificationInv => Notifications!NothingSkipped /\ Notifications!CountsMatch
  BY DEF NotificationInv, NotificationBehind, NotificationProjected, Notifications!NothingSkipped

\* The behaviours are those of the component, or leave it as it is.
LEMMA NotificationBehaves == Behaviours => Notifications!Spec
  <1>1. Start => Notifications!Init
    BY DEF Start
  <1>2. [Step]_everything => [Notifications!Next]_Notifications!vars
    BY DEF Step, everything, notification_vars, Notifications!vars
  <1> QED
    BY <1>1, <1>2, PTL DEF Behaviours, Notifications!Spec

\* Whatever the order in which events are committed: workers that overlap, fail and start over
\* project every event before its checkpoint passes it, unless it was committed after a later one of
\* its workspace; a notification counts no event twice, and each when they were committed in order.
THEOREM ProjectionsAreSafe == Behaviours => []ProjectionIsSafe
  <1>1. NotificationInv => ProjectionIsSafe
    BY NotificationSafe DEF ProjectionIsSafe
  <1>2. NotificationInv /\ [Notifications!Next]_Notifications!vars => NotificationInv'
    BY NotificationStep
  <1> QED
    BY <1>1, <1>2, NotificationInit, NotificationBehaves, PTL DEF Notifications!Spec

-----------------------------------------------------------------------------
(* DashboardAuthoring: drafts, commands and proposals.                     *)

\* The places of a call that was sent and has no answer.
AuthoringOpen == {"replay", "read", "prepare", "mark", "write", "commit", "audit", "restore", "propose"}

\* The calls that were sent.
AuthoringCalls == [at : AuthoringOpen, command : AuthoringCommands, expected : Nat,
    parent : Authoring!Calls \cup {Authoring!First},
              widgets : [Authoring!Widgets -> Authoring!Forms] \cup {NoVersion}, marked : BOOLEAN]

\* The proposals that were asked for.
AuthoringAsked == [state : {"ASKED", "PROPOSED", "ACCEPTED"},
    parent : Authoring!Calls \cup {Authoring!First}, revision : Nat,
              accepted : Authoring!Calls \cup {NoVersion}]

\* A proposal is asked for before it is anything else.
AuthoringProposal(p) == proposals[p].state = "NONE" \/ proposals[p] \in AuthoringAsked

\* The draft is the newest version, and every version follows one that is there.
AuthoringLine ==
    /\ Authoring!First \in DOMAIN saved
    /\ \A v \in DOMAIN saved : v # draft => saved[v].revision < saved[draft].revision
    /\ saved[draft].revision <= revision
    /\ \A v \in DOMAIN saved : saved[v].parent \in DOMAIN saved \/ v = Authoring!First
    /\ saved[Authoring!First].parent = NoVersion
    /\ \A v \in DOMAIN saved : saved[v].parent = NoVersion => v = Authoring!First
    /\ Authoring!OneLine

\* A command and the version it made name each other.
AuthoringApplied ==
    /\ \A i \in Authoring!Ids : applied[i] # NoVersion => applied[i] \in DOMAIN saved
        /\ saved[applied[i]].command = i
    /\ \A v \in DOMAIN saved \ {Authoring!First} : saved[v].command \in Authoring!Ids
        /\ applied[saved[v].command] = v
    /\ saved[Authoring!First].command = NoVersion

\* A version that accepts a proposal follows the version the proposal was made for, so that by OneLine
\* no two accept the same.
AuthoringAccepted ==
    \A v \in DOMAIN saved : saved[v].proposal # NoVersion =>
        /\ saved[v].proposal \in AuthoringProposals
        /\ proposals[saved[v].proposal].state # "NONE"
        /\ saved[v].parent = proposals[saved[v].proposal].parent

\* What a call is about to save hides the widget it removes and no other.
AuthoringMade(c) ==
    /\ applying[c].widgets \in [Authoring!Widgets -> Authoring!Forms]
    /\ \A w \in Authoring!Widgets : saved[applying[c].parent].widgets[w] # 0
        /\ applying[c].widgets[w] = 0 =>
          applying[c].command.kind = "REMOVE_WIDGET" /\ applying[c].command.target = w
    /\ applying[c].command.kind = "REMOVE_WIDGET" =>
          applying[c].command.target \in Authoring!Shown(saved[applying[c].parent])

\* A call accepts a proposal made for the version it follows.
AuthoringTarget(c) ==
    /\ proposals[applying[c].command.target].state # "NONE"
    /\ proposals[applying[c].command.target].parent = applying[c].parent

\* What a call knows at each of its places; the draft is the one it read as long as the revision is.
AuthoringCall(c) ==
    /\ applying[c].at \in AuthoringOpen =>
          /\ applying[c] \in AuthoringCalls
          /\ applying[c].parent \in DOMAIN saved
          /\ applying[c].expected <= revision
          /\ applying[c].expected = revision => applying[c].parent = draft
    /\ applying[c].at \in AuthoringOpen \cup {"idle", "done"}
    /\ applying[c].at \in {"idle", "replay", "read", "prepare", "mark", "write", "commit"} =>
        c \notin DOMAIN saved
    /\ applying[c].at \in {"mark", "write", "commit"} => AuthoringMade(c)
    /\ applying[c].at \in {"mark", "write", "restore", "propose"} =>
        applying[c].command.kind = "ACCEPT_PROPOSAL"
    /\ applying[c].at \in {"replay", "read", "prepare"} => applying[c].marked = FALSE
    /\ applying[c].at = "commit" /\ applying[c].marked => applying[c].command.kind = "ACCEPT_PROPOSAL"
    /\ applying[c].at \in {"mark", "write", "commit", "restore", "propose"}
        /\ applying[c].command.kind = "ACCEPT_PROPOSAL" =>
          AuthoringTarget(c)
    /\ applying[c].at = "audit" => c \in DOMAIN saved /\ saved[c].command = applying[c].command.id
    /\ applying[c].at = "done" /\ applying[c].version # NoVersion =>
          applying[c].version \in DOMAIN saved /\ saved[applying[c].version].command = applying[c].id

\* The inductive invariant.
AuthoringInv ==
    /\ Authoring!TypeOK
    /\ DOMAIN applying = Authoring!Calls /\ DOMAIN proposals = AuthoringProposals
    /\ \A p \in AuthoringProposals : AuthoringProposal(p)
    /\ AuthoringLine /\ AuthoringApplied /\ AuthoringAccepted /\ Authoring!RestorableAsRemoved
    /\ \A c \in Authoring!Calls : AuthoringCall(c)

\* The first version is the draft, and no call was sent.
LEMMA AuthoringInit == Authoring!Init => AuthoringInv
  <1> SUFFICES ASSUME Authoring!Init PROVE AuthoringInv
    OBVIOUS
  <1>1. DOMAIN saved = {Authoring!First} /\ draft = Authoring!First /\ Authoring!First = 0
            /\ revision = 1
    BY DEF Authoring!Init, Authoring!First
  <1>2. saved[Authoring!First] = [parent |-> NoVersion, revision |-> 1,
                           command |-> NoVersion, proposal |-> NoVersion,
                           widgets |-> [w \in Authoring!Widgets |-> IF w \in AuthoringBase THEN 1 ELSE 0]]
    BY DEF Authoring!Init
  <1>3. saved[Authoring!First] \in Authoring!VersionRows
    BY <1>2, AuthoringAssumption DEF Authoring!VersionRows, Authoring!Forms
  <1>4. Authoring!TypeOK
    <2>1. removed \in [Authoring!Widgets -> Authoring!Forms]
              /\ applied \in [Authoring!Ids -> Authoring!Calls \cup {NoVersion}]
      BY DEF Authoring!Init, Authoring!Forms
    <2>2. draft \in Authoring!Calls \cup {Authoring!First} /\ revision \in 1 .. AuthoringMaxRevision
              /\ losses \in 0 .. AuthoringMaxFaults
      BY <1>1, AuthoringAssumption DEF Authoring!Init
    <2>3. \A p \in AuthoringProposals : proposals[p].state = "NONE"
      BY DEF Authoring!Init
    <2> QED
      BY <1>1, <1>3, <2>1, <2>2, <2>3 DEF Authoring!TypeOK
  <1>5. AuthoringLine
    BY <1>1, <1>2, AuthoringAssumption DEF AuthoringLine, Authoring!OneLine
  <1>6. AuthoringApplied /\ AuthoringAccepted
    BY <1>1, <1>2 DEF Authoring!Init, AuthoringApplied, AuthoringAccepted
  <1>7. Authoring!RestorableAsRemoved
    BY <1>1 DEF Authoring!RestorableAsRemoved
  <1>8. \A c \in Authoring!Calls : AuthoringCall(c)
    BY <1>1, AuthoringAssumption DEF Authoring!Init, AuthoringCall, AuthoringOpen, Authoring!Calls
  <1>9. \A p \in AuthoringProposals : AuthoringProposal(p)
    BY DEF Authoring!Init, AuthoringProposal
  <1> QED
    BY <1>4, <1>5, <1>6, <1>7, <1>8, <1>9 DEF AuthoringInv, Authoring!Init

\* The proposals keep what was asked of them.
AuthoringKeep ==
    /\ DOMAIN proposals' = AuthoringProposals
    /\ \A p \in AuthoringProposals : AuthoringProposal(p)'
    /\ \A p \in AuthoringProposals : proposals[p].state # "NONE" =>
          proposals'[p].state # "NONE" /\ proposals'[p].parent = proposals[p].parent

\* Steps of a call that leave the dashboard.
LEMMA AuthoringQuiet == ASSUME AuthoringInv, UNCHANGED Authoring!dashboard, AuthoringKeep,
    losses' \in 0 .. AuthoringMaxFaults, DOMAIN applying' = Authoring!Calls,
                          \A c \in Authoring!Calls : applying'[c] = applying[c] \/ AuthoringCall(c)'
                   PROVE  AuthoringInv'
  <1> USE DEF Authoring!dashboard
  <1>1. Authoring!TypeOK'
    BY DEF AuthoringInv, Authoring!TypeOK, AuthoringKeep, AuthoringProposal, AuthoringAsked,
       Authoring!VersionRows, Authoring!Widgets, Authoring!Forms
  <1>2. AuthoringLine' /\ AuthoringApplied' /\ Authoring!RestorableAsRemoved'
    BY DEF AuthoringInv, AuthoringLine, AuthoringApplied, Authoring!RestorableAsRemoved,
       Authoring!OneLine
  <1>3. AuthoringAccepted'
    BY DEF AuthoringInv, AuthoringAccepted, AuthoringKeep
  <1>4. ASSUME NEW c \in Authoring!Calls, applying'[c] = applying[c] PROVE AuthoringCall(c)'
    <2>1. AuthoringCall(c)
      BY DEF AuthoringInv
    <2>2. AuthoringMade(c)' = AuthoringMade(c)
      BY <1>4 DEF AuthoringMade
    <2>3. applying[c].at \in AuthoringOpen /\ applying[c].command.kind = "ACCEPT_PROPOSAL"
              /\ AuthoringTarget(c) => AuthoringTarget(c)'
      <3>1. applying[c].at \in AuthoringOpen /\ applying[c].command.kind = "ACCEPT_PROPOSAL" =>
                applying[c].command.target \in AuthoringProposals
        BY <2>1, AuthoringAssumption DEF AuthoringCall, AuthoringCalls
      <3> QED
        BY <3>1, <1>4 DEF AuthoringTarget, AuthoringKeep
    <2> QED
      BY <2>1, <2>2, <2>3, <1>4 DEF AuthoringCall, AuthoringOpen
  <1>5. \A c \in Authoring!Calls : AuthoringCall(c)'
    BY <1>4
  <1> QED
    BY <1>1, <1>2, <1>3, <1>5 DEF AuthoringInv, AuthoringKeep

\* A step of one call that writes nothing.
LEMMA AuthoringGoes == ASSUME AuthoringInv, UNCHANGED <<Authoring!dashboard, proposals>>,
    losses' \in 0 .. AuthoringMaxFaults, NEW c \in Authoring!Calls,
                         NEW q, applying' = [applying EXCEPT ![c] = q],
                         AuthoringCall(c)'
                  PROVE  AuthoringInv'
  <1>1. AuthoringKeep
    BY DEF AuthoringKeep, AuthoringInv, AuthoringProposal
  <1>2. DOMAIN applying' = Authoring!Calls /\ \A d \in Authoring!Calls : applying'[d] = applying[d]
            \/ d = c
    BY DEF AuthoringInv
  <1> QED
    BY <1>1, <1>2, AuthoringQuiet

\* A call that answers with no version, or with the one its command made.
LEMMA AuthoringAnswers == ASSUME AuthoringInv, NEW c \in Authoring!Calls, NEW v, Authoring!Answer(c,
    v), UNCHANGED <<Authoring!dashboard, proposals>>,
                            losses' \in 0 .. AuthoringMaxFaults, applying[c].at \in AuthoringOpen,
                            v = NoVersion \/ (v \in DOMAIN saved
                                /\ saved[v].command = applying[c].command.id)
                     PROVE  AuthoringInv'
  <1> DEFINE q == [at |-> "done", version |-> v,
          id |-> IF v = NoVersion THEN NoVersion ELSE applying[c].command.id]
  <1>1. applying' = [applying EXCEPT ![c] = q] /\ applying'[c] = q
    BY DEF Authoring!Answer, AuthoringInv
  <1>2. AuthoringCall(c)'
    BY <1>1 DEF AuthoringCall, AuthoringOpen, Authoring!dashboard
  <1> HIDE DEF q
  <1> QED
    BY <1>1, <1>2, AuthoringGoes

\* A call that goes on with what it knows.
LEMMA AuthoringMoves == ASSUME AuthoringInv, NEW c \in Authoring!Calls, NEW step, Authoring!Goto(c,
    step), UNCHANGED <<Authoring!dashboard, proposals>>,
                          losses' \in 0 .. AuthoringMaxFaults, applying[c].at \in AuthoringOpen,
                          \/ applying[c].at = "replay" /\ step = "read"
                          \/ applying[c].at = "read" /\ step = "prepare"
                          \/ applying[c].at = "mark" /\ step = "write"
                          \/ applying[c].at \in {"write", "commit"} /\ step = "restore"
                              /\ applying[c].command.kind = "ACCEPT_PROPOSAL"
                          \/ applying[c].at = "restore" /\ step = "propose"
                   PROVE  AuthoringInv'
  <1> DEFINE q == [applying[c] EXCEPT !.at = step]
  <1>0. AuthoringCall(c)
    BY DEF AuthoringInv
  <1>1. applying' = [applying EXCEPT ![c] = q] /\ applying'[c] = q
    BY DEF Authoring!Goto, AuthoringInv
  <1>2. q.at = step /\ q \in AuthoringCalls /\ q.command = applying[c].command
            /\ q.parent = applying[c].parent
        /\ q.expected = applying[c].expected /\ q.widgets = applying[c].widgets
            /\ q.marked = applying[c].marked
    BY <1>0 DEF AuthoringCall, AuthoringCalls, AuthoringOpen
  <1> HIDE DEF q
  <1>3. AuthoringMade(c) => AuthoringMade(c)'
    BY <1>1, <1>2 DEF AuthoringMade, Authoring!dashboard
  <1>4. AuthoringTarget(c) => AuthoringTarget(c)'
    BY <1>1, <1>2 DEF AuthoringTarget
  <1>5. AuthoringCall(c)'
    BY <1>0, <1>1, <1>2, <1>3, <1>4 DEF AuthoringCall, AuthoringOpen, Authoring!dashboard
  <1> QED
    BY <1>1, <1>5, AuthoringGoes

\* The client sends a command.
LEMMA AuthoringSends == ASSUME AuthoringInv, NEW c \in Authoring!Calls, NEW k \in AuthoringCommands,
    Authoring!Send(c, k) PROVE AuthoringInv'
  <1> DEFINE q == [at |-> "replay", command |-> k, expected |-> revision, parent |-> draft,
          widgets |-> NoVersion,
                   marked |-> FALSE]
  <1>0. AuthoringCall(c) /\ Authoring!TypeOK /\ applying[c].at = "idle"
            /\ UNCHANGED <<Authoring!dashboard, proposals, losses>>
    BY DEF AuthoringInv, Authoring!Send
  <1>1. applying' = [applying EXCEPT ![c] = q] /\ applying'[c] = q
    BY DEF Authoring!Send, AuthoringInv
  <1>2. draft \in Authoring!Calls \cup {Authoring!First} /\ draft \in DOMAIN saved /\ revision \in Nat
    BY <1>0, AuthoringAssumption DEF Authoring!TypeOK
  <1>3. q \in AuthoringCalls /\ q.at = "replay" /\ q.parent = draft /\ q.expected = revision
        /\ q.marked = FALSE
    BY <1>2 DEF AuthoringCalls, AuthoringOpen
  <1> HIDE DEF q
  <1>4. AuthoringCall(c)'
    BY <1>0, <1>1, <1>2, <1>3 DEF AuthoringCall, AuthoringOpen, Authoring!dashboard
  <1>5. losses' \in 0 .. AuthoringMaxFaults
    BY <1>0 DEF Authoring!TypeOK
  <1> QED
    BY <1>0, <1>1, <1>4, <1>5, AuthoringGoes

\* A command that made a version is answered with it.
LEMMA AuthoringReplays == ASSUME AuthoringInv, NEW c \in Authoring!Calls, Authoring!Replay(c)
    PROVE AuthoringInv'
  <1>0. AuthoringCall(c) /\ Authoring!TypeOK /\ applying[c].at = "replay"
            /\ UNCHANGED <<Authoring!dashboard, proposals, losses>>
    BY DEF AuthoringInv, Authoring!Replay
  <1>1. losses' \in 0 .. AuthoringMaxFaults /\ applying[c].at \in AuthoringOpen
            /\ applying[c].command.id \in Authoring!Ids
    BY <1>0 DEF Authoring!TypeOK, AuthoringOpen, AuthoringCall, AuthoringCalls, Authoring!Ids
  <1>2. CASE applied[applying[c].command.id] # NoVersion
    <2>1. Authoring!Answer(c, applied[applying[c].command.id])
      BY <1>2 DEF Authoring!Replay
    <2> QED
      BY <1>0, <1>1, <1>2, <2>1, AuthoringAnswers DEF AuthoringInv, AuthoringApplied
  <1>3. CASE applied[applying[c].command.id] = NoVersion
    <2>1. Authoring!Goto(c, "read")
      BY <1>3 DEF Authoring!Replay
    <2> QED
      BY <1>0, <1>1, <2>1, AuthoringMoves
  <1> QED
    BY <1>2, <1>3

\* A call reads the draft it was sent for, or is refused.
LEMMA AuthoringReads == ASSUME AuthoringInv, NEW c \in Authoring!Calls, Authoring!Read(c)
    PROVE AuthoringInv'
  <1>0. AuthoringCall(c) /\ Authoring!TypeOK /\ applying[c].at = "read"
            /\ UNCHANGED <<Authoring!dashboard, proposals, losses>>
    BY DEF AuthoringInv, Authoring!Read
  <1>1. losses' \in 0 .. AuthoringMaxFaults /\ applying[c].at \in AuthoringOpen
    BY <1>0 DEF Authoring!TypeOK, AuthoringOpen
  <1>2. Authoring!Goto(c, "prepare") \/ Authoring!Answer(c, NoVersion)
    BY DEF Authoring!Read
  <1> QED
    BY <1>0, <1>1, <1>2, AuthoringAnswers, AuthoringMoves

\* The next version hides a widget only where one is removed.
LEMMA AuthoringPrepared == ASSUME AuthoringInv, NEW c \in Authoring!Calls, applying[c].at = "prepare",
    NEW new \in Authoring!Prepared(c)
                      PROVE  /\ new \in [Authoring!Widgets -> Authoring!Forms]
                             /\ \A w \in Authoring!Widgets : saved[applying[c].parent].widgets[w] # 0
                                 /\ new[w] = 0 =>
                                   applying[c].command.kind = "REMOVE_WIDGET"
                                       /\ applying[c].command.target = w
                             /\ applying[c].command.kind = "REMOVE_WIDGET" =>
                                   applying[c].command.target \in Authoring!Shown(saved[applying[c].parent])
                             /\ applying[c].command.kind = "ACCEPT_PROPOSAL" => AuthoringTarget(c)
  <1> DEFINE k == applying[c].command
             old == saved[applying[c].parent].widgets
  <1>1. AuthoringCall(c) /\ k \in AuthoringCommands /\ applying[c].parent \in DOMAIN saved
    BY DEF AuthoringInv, AuthoringCall, AuthoringOpen, AuthoringCalls
  <1>2. old \in [Authoring!Widgets -> Authoring!Forms]
            /\ removed \in [Authoring!Widgets -> Authoring!Forms] /\ c \in Authoring!Widgets
    BY <1>1 DEF AuthoringInv, Authoring!TypeOK, Authoring!VersionRows, Authoring!Widgets
  <1>3. CASE k.kind = "ACCEPT_PROPOSAL"
    <2>1. new = [old EXCEPT ![c] = 1] /\ Authoring!Acceptable(c, k.target)
      BY <1>3 DEF Authoring!Prepared
    <2>2. AuthoringTarget(c)
      BY <2>1 DEF Authoring!Acceptable, AuthoringTarget
    <2> HIDE DEF old, k
    <2> QED
      BY <1>2, <1>3, <2>1, <2>2 DEF Authoring!Forms, k, old
  <1>4. CASE k.kind = "SET_LAYOUT"
    <2>1. new = old
      BY <1>4 DEF Authoring!Prepared
    <2> QED
      BY <1>2, <1>4, <2>1
  <1>5. CASE k.kind = "REMOVE_WIDGET"
    <2>1. new = [old EXCEPT ![k.target] = 0] /\ k.target \in Authoring!Widgets /\ old[k.target] # 0
      BY <1>5 DEF Authoring!Prepared
    <2> QED
      BY <1>2, <1>5, <2>1 DEF Authoring!Forms, Authoring!Shown
  <1>6. CASE k.kind = "RESTORE_WIDGET"
    <2>1. new = [old EXCEPT ![k.target] = removed[k.target]]
      BY <1>6 DEF Authoring!Prepared
    <2>2. k.target \in Authoring!Widgets => old[k.target] = 0
      BY <1>6 DEF Authoring!Prepared
    <2> QED
      BY <1>2, <1>6, <2>1, <2>2
  <1>7. CASE k.kind = "CONFIGURE_PRESENTATION"
    <2>1. new = [old EXCEPT ![k.target] = k.form] /\ k.target \in Authoring!Widgets
      BY <1>7 DEF Authoring!Prepared
    <2>2. k.form \in {1, 2}
      BY <1>1, <1>7, AuthoringAssumption
    <2> QED
      BY <1>2, <1>7, <2>1, <2>2 DEF Authoring!Forms
  <1> QED
    BY <1>1, <1>3, <1>4, <1>5, <1>6, <1>7, AuthoringAssumption DEF AuthoringKinds

\* A call prepares the next version.
LEMMA AuthoringPrepares == ASSUME AuthoringInv, NEW c \in Authoring!Calls, Authoring!Prepare(c)
    PROVE AuthoringInv'
  <1>0. AuthoringCall(c) /\ Authoring!TypeOK /\ applying[c].at = "prepare"
            /\ UNCHANGED <<Authoring!dashboard, proposals, losses>>
    BY DEF AuthoringInv, Authoring!Prepare
  <1>1. losses' \in 0 .. AuthoringMaxFaults /\ applying[c].at \in AuthoringOpen
    BY <1>0 DEF Authoring!TypeOK, AuthoringOpen
  <1>2. CASE Authoring!Answer(c, NoVersion)
    BY <1>0, <1>1, <1>2, AuthoringAnswers
  <1>3. ASSUME NEW new \in Authoring!Prepared(c),
               applying' = [applying EXCEPT ![c].widgets = new,
                   ![c].at = IF applying[c].command.kind = "ACCEPT_PROPOSAL"
                                                                   THEN "mark" ELSE "commit"]
        PROVE  AuthoringInv'
    <2> DEFINE step == IF applying[c].command.kind = "ACCEPT_PROPOSAL" THEN "mark" ELSE "commit"
               q == [applying[c] EXCEPT !.widgets = new, !.at = step]
    <2>1. applying' = [applying EXCEPT ![c] = q] /\ applying'[c] = q
      BY <1>3 DEF AuthoringInv
    <2>2. new \in [Authoring!Widgets -> Authoring!Forms]
      BY <1>0, AuthoringPrepared
    <2>3. q.at = step /\ q \in AuthoringCalls /\ q.command = applying[c].command
              /\ q.parent = applying[c].parent
          /\ q.expected = applying[c].expected /\ q.widgets = new /\ q.marked = applying[c].marked
      BY <1>0, <2>2 DEF AuthoringCall, AuthoringCalls, AuthoringOpen
    <2> HIDE DEF q
    <2>4. AuthoringMade(c)'
      BY <1>0, <2>1, <2>3, AuthoringPrepared DEF AuthoringMade, Authoring!dashboard
    <2>5. applying[c].command.kind = "ACCEPT_PROPOSAL" => AuthoringTarget(c)'
      BY <1>0, <2>1, <2>3, AuthoringPrepared DEF AuthoringTarget
    <2>6. q.marked = FALSE
      BY <1>0, <2>3 DEF AuthoringCall
    <2>7. AuthoringCall(c)'
      BY <1>0, <2>1, <2>3, <2>4, <2>5, <2>6 DEF AuthoringCall, AuthoringOpen, Authoring!dashboard
    <2> QED
      BY <1>0, <1>1, <2>1, <2>7, AuthoringGoes
  <1> QED
    BY <1>2, <1>3 DEF Authoring!Prepare

\* The target of a call that accepts is a proposal that was asked.
LEMMA AuthoringTargets == ASSUME AuthoringInv, NEW c \in Authoring!Calls, applying[c].at \in {"mark",
    "write", "commit", "restore", "propose"},
                            applying[c].command.kind = "ACCEPT_PROPOSAL"
                     PROVE  /\ applying[c].command.target \in AuthoringProposals /\ AuthoringTarget(c)
                            /\ proposals[applying[c].command.target] \in AuthoringAsked
  <1>1. AuthoringCall(c)
    BY DEF AuthoringInv
  <1>2. applying[c].command.target \in AuthoringProposals /\ AuthoringTarget(c)
    BY <1>1, AuthoringAssumption DEF AuthoringCall, AuthoringCalls, AuthoringOpen
  <1> QED
    BY <1>2 DEF AuthoringInv, AuthoringProposal, AuthoringTarget

\* A proposal that was asked changes its state.
LEMMA AuthoringChanges == ASSUME AuthoringInv, NEW t \in AuthoringProposals,
    proposals[t] \in AuthoringAsked,
                            NEW state \in {"PROPOSED", "ACCEPTED"},
                                NEW a \in Authoring!Calls \cup {NoVersion},
                            \/ proposals' = proposals
                            \/ proposals' = [proposals EXCEPT ![t].state = state, ![t].accepted = a]
                     PROVE  AuthoringKeep
  <1>1. CASE proposals' = proposals
    BY <1>1 DEF AuthoringKeep, AuthoringInv, AuthoringProposal
  <1>2. CASE proposals' = [proposals EXCEPT ![t].state = state, ![t].accepted = a]
    <2> DEFINE x == [proposals[t] EXCEPT !.state = state, !.accepted = a]
    <2>1. proposals' = [proposals EXCEPT ![t] = x]
      BY <1>2 DEF AuthoringInv, AuthoringAsked
    <2>2. x \in AuthoringAsked /\ x.state # "NONE" /\ x.parent = proposals[t].parent
      BY DEF AuthoringAsked
    <2> HIDE DEF x
    <2>3. proposals'[t] = x /\ \A p \in AuthoringProposals : p # t => proposals'[p] = proposals[p]
      BY <2>1 DEF AuthoringInv
    <2> QED
      BY <2>1, <2>2, <2>3 DEF AuthoringKeep, AuthoringInv, AuthoringProposal
  <1> QED
    BY <1>1, <1>2

\* A proposal is marked as accepted before its version is saved.
LEMMA AuthoringMarks == ASSUME AuthoringInv, NEW c \in Authoring!Calls, Authoring!MarkWrite(c)
    PROVE AuthoringInv'
  <1> DEFINE q == [applying[c] EXCEPT !.at = "commit", !.marked = TRUE]
  <1>0. AuthoringCall(c) /\ Authoring!TypeOK /\ applying[c].at = "write"
            /\ UNCHANGED <<Authoring!dashboard, losses>> /\ proposals' = Authoring!Marked(c)
    BY DEF AuthoringInv, Authoring!MarkWrite
  <1>1. /\ applying[c].command.kind = "ACCEPT_PROPOSAL"
            /\ applying[c].command.target \in AuthoringProposals
        /\ proposals[applying[c].command.target] \in AuthoringAsked /\ AuthoringTarget(c)
    BY <1>0, AuthoringTargets DEF AuthoringCall
  <1>2. AuthoringKeep
    BY <1>0, <1>1, AuthoringChanges DEF Authoring!Marked
  <1>3. applying' = [applying EXCEPT ![c] = q] /\ applying'[c] = q
    BY DEF AuthoringInv, Authoring!MarkWrite
  <1>4. q.at = "commit" /\ q \in AuthoringCalls /\ q.command = applying[c].command
            /\ q.parent = applying[c].parent
        /\ q.expected = applying[c].expected /\ q.widgets = applying[c].widgets
    BY <1>0 DEF AuthoringCall, AuthoringCalls, AuthoringOpen
  <1> HIDE DEF q
  <1>5. AuthoringMade(c)'
    BY <1>0, <1>3, <1>4 DEF AuthoringMade, Authoring!dashboard, AuthoringCall
  <1>6. AuthoringTarget(c)'
    BY <1>1, <1>2, <1>3, <1>4 DEF AuthoringTarget, AuthoringKeep
  <1>7. AuthoringCall(c)'
    BY <1>0, <1>1, <1>3, <1>4, <1>5, <1>6 DEF AuthoringCall, AuthoringOpen, Authoring!dashboard
  <1>8. DOMAIN applying' = Authoring!Calls /\ \A d \in Authoring!Calls : applying'[d] = applying[d]
            \/ d = c
    BY <1>3 DEF AuthoringInv
  <1>9. losses' \in 0 .. AuthoringMaxFaults
    BY <1>0 DEF Authoring!TypeOK
  <1> QED
    BY <1>0, <1>2, <1>7, <1>8, <1>9, AuthoringQuiet

\* A call that takes its mark back, with its proposal changed or not.
LEMMA AuthoringTakesBack == ASSUME AuthoringInv, NEW c \in Authoring!Calls, applying[c].at = "write",
    Authoring!Goto(c, "restore"), UNCHANGED Authoring!dashboard,
                              AuthoringKeep, losses' \in 0 .. AuthoringMaxFaults
                       PROVE  AuthoringInv'
  <1> DEFINE q == [applying[c] EXCEPT !.at = "restore"]
  <1>0. AuthoringCall(c)
    BY DEF AuthoringInv
  <1>1. applying[c].command.kind = "ACCEPT_PROPOSAL"
            /\ applying[c].command.target \in AuthoringProposals /\ AuthoringTarget(c)
    BY <1>0, AuthoringTargets DEF AuthoringCall
  <1>3. applying' = [applying EXCEPT ![c] = q] /\ applying'[c] = q
    BY DEF AuthoringInv, Authoring!Goto
  <1>4. q.at = "restore" /\ q \in AuthoringCalls /\ q.command = applying[c].command
            /\ q.parent = applying[c].parent
        /\ q.expected = applying[c].expected
    BY <1>0 DEF AuthoringCall, AuthoringCalls, AuthoringOpen
  <1> HIDE DEF q
  <1>6. AuthoringTarget(c)'
    BY <1>1, <1>3, <1>4 DEF AuthoringTarget, AuthoringKeep
  <1>7. AuthoringCall(c)'
    BY <1>0, <1>1, <1>3, <1>4, <1>6 DEF AuthoringCall, AuthoringOpen, Authoring!dashboard
  <1>8. DOMAIN applying' = Authoring!Calls /\ \A d \in Authoring!Calls : applying'[d] = applying[d]
            \/ d = c
    BY <1>3 DEF AuthoringInv
  <1> QED
    BY <1>7, <1>8, AuthoringQuiet

\* The mark fails, written or not.
LEMMA AuthoringMarkFails == ASSUME AuthoringInv, NEW c \in Authoring!Calls, Authoring!MarkFails(c)
    PROVE AuthoringInv'
  <1>0. AuthoringCall(c) /\ Authoring!TypeOK /\ applying[c].at = "write"
            /\ UNCHANGED Authoring!dashboard /\ proposals' \in {proposals, Authoring!Marked(c)}
        /\ Authoring!Goto(c, "restore") /\ losses' = losses + 1 /\ losses < AuthoringMaxFaults
    BY DEF AuthoringInv, Authoring!MarkFails
  <1>1. /\ applying[c].command.target \in AuthoringProposals
            /\ proposals[applying[c].command.target] \in AuthoringAsked
    BY <1>0, AuthoringTargets DEF AuthoringCall
  <1>2. AuthoringKeep
    BY <1>0, <1>1, AuthoringChanges DEF Authoring!Marked
  <1>3. losses' \in 0 .. AuthoringMaxFaults
    BY <1>0, AuthoringAssumption DEF Authoring!TypeOK
  <1> QED
    BY <1>0, <1>2, <1>3, AuthoringTakesBack

\* The proposal is still one that can be accepted, or the call is refused.
LEMMA AuthoringMarkFinds == ASSUME AuthoringInv, NEW c \in Authoring!Calls, Authoring!MarkFind(c)
    PROVE AuthoringInv'
  <1>0. AuthoringCall(c) /\ Authoring!TypeOK /\ applying[c].at = "mark"
            /\ UNCHANGED <<Authoring!dashboard, proposals, losses>>
    BY DEF AuthoringInv, Authoring!MarkFind
  <1>1. losses' \in 0 .. AuthoringMaxFaults /\ applying[c].at \in AuthoringOpen
    BY <1>0 DEF Authoring!TypeOK, AuthoringOpen
  <1>2. Authoring!Goto(c, "write") \/ Authoring!Answer(c, NoVersion)
    BY DEF Authoring!MarkFind
  <1> QED
    BY <1>0, <1>1, <1>2, AuthoringAnswers, AuthoringMoves

\* The proposal that was marked is found again.
LEMMA AuthoringRestores == ASSUME AuthoringInv, NEW c \in Authoring!Calls, Authoring!RestoreFind(c)
    PROVE AuthoringInv'
  <1>0. AuthoringCall(c) /\ Authoring!TypeOK /\ applying[c].at = "restore"
            /\ UNCHANGED <<Authoring!dashboard, proposals, losses>>
    BY DEF AuthoringInv, Authoring!RestoreFind
  <1>1. losses' \in 0 .. AuthoringMaxFaults /\ applying[c].at \in AuthoringOpen
    BY <1>0 DEF Authoring!TypeOK, AuthoringOpen
  <1>2. Authoring!Goto(c, "propose") \/ Authoring!Answer(c, NoVersion)
    BY DEF Authoring!RestoreFind
  <1> QED
    BY <1>0, <1>1, <1>2, AuthoringAnswers, AuthoringMoves

\* The mark is taken back.
LEMMA AuthoringProposesAgain == ASSUME AuthoringInv, NEW c \in Authoring!Calls,
    Authoring!RestoreWrite(c) PROVE AuthoringInv'
  <1>0. AuthoringCall(c) /\ Authoring!TypeOK /\ applying[c].at = "propose"
            /\ UNCHANGED <<Authoring!dashboard, losses>> /\ Authoring!Answer(c, NoVersion)
        /\ proposals' = [proposals EXCEPT ![applying[c].command.target].state = "PROPOSED",
                                           ![applying[c].command.target].accepted = NoVersion]
    BY DEF AuthoringInv, Authoring!RestoreWrite
  <1>1. /\ applying[c].command.target \in AuthoringProposals
            /\ proposals[applying[c].command.target] \in AuthoringAsked
    BY <1>0, AuthoringTargets DEF AuthoringCall
  <1>2. AuthoringKeep
    BY <1>0, <1>1, AuthoringChanges
  <1>3. losses' \in 0 .. AuthoringMaxFaults
    BY <1>0 DEF Authoring!TypeOK
  <1>4. applying' = [applying EXCEPT ![c] = [at |-> "done", version |-> NoVersion, id |-> NoVersion]]
    BY <1>0 DEF Authoring!Answer
  <1>5. AuthoringCall(c)'
    BY <1>0, <1>4 DEF AuthoringCall, AuthoringOpen, AuthoringInv
  <1>6. DOMAIN applying' = Authoring!Calls /\ \A d \in Authoring!Calls : applying'[d] = applying[d]
            \/ d = c
    BY <1>4 DEF AuthoringInv
  <1> QED
    BY <1>0, <1>2, <1>3, <1>5, <1>6, AuthoringQuiet

\* A call that saved its version is audited and answers.
LEMMA AuthoringAudits == ASSUME AuthoringInv, NEW c \in Authoring!Calls, Authoring!Audit(c)
    PROVE AuthoringInv'
  <1>0. AuthoringCall(c) /\ Authoring!TypeOK /\ applying[c].at = "audit"
            /\ UNCHANGED <<Authoring!dashboard, proposals, losses>> /\ Authoring!Answer(c, c)
    BY DEF AuthoringInv, Authoring!Audit
  <1>1. losses' \in 0 .. AuthoringMaxFaults /\ applying[c].at \in AuthoringOpen
    BY <1>0 DEF Authoring!TypeOK, AuthoringOpen
  <1> QED
    BY <1>0, <1>1, AuthoringAnswers DEF AuthoringCall

\* A call dies.
LEMMA AuthoringDies == ASSUME AuthoringInv, NEW c \in Authoring!Calls, Authoring!Die(c)
    PROVE AuthoringInv'
  <1>0. AuthoringCall(c) /\ Authoring!TypeOK /\ applying[c].at \in {"commit", "audit", "restore"}
            /\ UNCHANGED <<Authoring!dashboard, proposals>>
        /\ Authoring!Answer(c, NoVersion) /\ losses < AuthoringMaxFaults /\ losses' = losses + 1
    BY DEF AuthoringInv, Authoring!Die
  <1>1. losses' \in 0 .. AuthoringMaxFaults /\ applying[c].at \in AuthoringOpen
    BY <1>0, AuthoringAssumption DEF Authoring!TypeOK, AuthoringOpen
  <1> QED
    BY <1>0, <1>1, AuthoringAnswers

\* A proposal is asked for and is saved.
LEMMA AuthoringAsks == ASSUME AuthoringInv, NEW t \in AuthoringProposals, Authoring!Ask(t)
    \/ Authoring!Save(t) PROVE AuthoringInv'
  <1>0. UNCHANGED <<Authoring!dashboard, applying, losses>> /\ Authoring!TypeOK
    BY DEF Authoring!Ask, Authoring!Save, AuthoringInv
  <1>1. draft \in Authoring!Calls \cup {Authoring!First} /\ revision \in Nat
    BY <1>0, AuthoringAssumption DEF Authoring!TypeOK
  <1>2. AuthoringKeep
    <2>1. CASE Authoring!Ask(t)
      <3> DEFINE x == [state |-> "ASKED", parent |-> draft, revision |-> revision,
              accepted |-> NoVersion]
      <3>1. proposals' = [proposals EXCEPT ![t] = x] /\ proposals[t].state = "NONE"
        BY <2>1 DEF Authoring!Ask
      <3>2. x \in AuthoringAsked /\ x.state # "NONE"
        BY <1>1 DEF AuthoringAsked
      <3> HIDE DEF x
      <3>3. proposals'[t] = x /\ \A p \in AuthoringProposals : p # t => proposals'[p] = proposals[p]
        BY <3>1 DEF AuthoringInv
      <3> QED
        BY <3>1, <3>2, <3>3 DEF AuthoringKeep, AuthoringInv, AuthoringProposal
    <2>2. CASE Authoring!Save(t)
      <3> DEFINE x == [proposals[t] EXCEPT !.state = "PROPOSED"]
      <3>1. proposals' = [proposals EXCEPT ![t] = x] /\ proposals[t].state = "ASKED"
        BY <2>2 DEF Authoring!Save, AuthoringInv
      <3>2. proposals[t] \in AuthoringAsked
        BY <3>1 DEF AuthoringInv, AuthoringProposal
      <3>3. x \in AuthoringAsked /\ x.state # "NONE" /\ x.parent = proposals[t].parent
        BY <3>2 DEF AuthoringAsked
      <3> HIDE DEF x
      <3>4. proposals'[t] = x /\ \A p \in AuthoringProposals : p # t => proposals'[p] = proposals[p]
        BY <3>1 DEF AuthoringInv
      <3> QED
        BY <3>1, <3>3, <3>4 DEF AuthoringKeep, AuthoringInv, AuthoringProposal
    <2> QED
      BY <2>1, <2>2
  <1>3. losses' \in 0 .. AuthoringMaxFaults /\ DOMAIN applying' = Authoring!Calls
            /\ \A c \in Authoring!Calls : applying'[c] = applying[c]
    BY <1>0 DEF Authoring!TypeOK, AuthoringInv
  <1> QED
    BY <1>0, <1>2, <1>3, AuthoringQuiet

\* A publication moves the revision: whoever read it before saves no version.
LEMMA AuthoringPublishes == ASSUME AuthoringInv, Authoring!commitPublicationAtomically
    PROVE AuthoringInv'
  <1>0. /\ UNCHANGED <<draft, saved, removed, applied, proposals, applying, losses>>
            /\ revision' = revision + 1
        /\ revision \in Nat /\ revision < AuthoringMaxRevision /\ Authoring!TypeOK
    BY AuthoringAssumption DEF Authoring!commitPublicationAtomically, AuthoringInv, Authoring!TypeOK
  <1>1. Authoring!TypeOK'
    BY <1>0, AuthoringAssumption DEF Authoring!TypeOK, Authoring!VersionRows
  <1>2. AuthoringApplied' /\ Authoring!RestorableAsRemoved' /\ AuthoringAccepted'
    BY <1>0 DEF AuthoringInv, AuthoringApplied, Authoring!RestorableAsRemoved, AuthoringAccepted
  <1>3. AuthoringLine'
    <2>1. saved[draft].revision \in Nat
      BY <1>0, AuthoringAssumption DEF Authoring!TypeOK, Authoring!VersionRows
    <2> QED
      BY <1>0, <2>1 DEF AuthoringInv, AuthoringLine, Authoring!OneLine
  <1>4. ASSUME NEW c \in Authoring!Calls PROVE AuthoringCall(c)'
    <2>1. AuthoringCall(c)
      BY DEF AuthoringInv
    <2>2. AuthoringMade(c)' = AuthoringMade(c) /\ AuthoringTarget(c)' = AuthoringTarget(c)
      BY <1>0 DEF AuthoringMade, AuthoringTarget
    <2>3. CASE applying[c].at \in AuthoringOpen
      <3>1. applying[c].expected \in Nat /\ applying[c].expected <= revision
        BY <2>1, <2>3 DEF AuthoringCall, AuthoringCalls
      <3>2. applying[c].expected <= revision + 1 /\ applying[c].expected # revision + 1
        BY <1>0, <3>1
      <3> QED
        BY <1>0, <2>1, <2>2, <3>2 DEF AuthoringCall
    <2>4. CASE applying[c].at \notin AuthoringOpen
      BY <1>0, <2>1, <2>2, <2>4 DEF AuthoringCall
    <2> QED
      BY <2>3, <2>4
  <1>5. \A t \in AuthoringProposals : AuthoringProposal(t)'
    BY <1>0 DEF AuthoringInv, AuthoringProposal
  <1> QED
    BY <1>0, <1>1, <1>2, <1>3, <1>4, <1>5 DEF AuthoringInv

\* The next version follows the draft, which no other version does, under a command that made none.
LEMMA AuthoringCommits == ASSUME AuthoringInv, NEW c \in Authoring!Calls, applying[c].at = "commit",
    Authoring!Committable(c), Authoring!Committed(c),
                            UNCHANGED proposals, losses' \in 0 .. AuthoringMaxFaults,
                            \/ Authoring!Goto(c, "audit")
                            \/ Authoring!Goto(c, "restore") /\ applying[c].marked
                            \/ Authoring!Answer(c, NoVersion)
                     PROVE  AuthoringInv'
  <1> DEFINE k == applying[c].command
             x == [parent |-> applying[c].parent, revision |-> applying[c].expected + 1,
                 command |-> k.id,
                   proposal |-> IF applying[c].marked THEN k.target ELSE NoVersion,
                       widgets |-> applying[c].widgets]
  <1>0. /\ AuthoringCall(c) /\ Authoring!TypeOK /\ AuthoringLine /\ AuthoringApplied
            /\ AuthoringAccepted /\ Authoring!RestorableAsRemoved
        /\ DOMAIN applying = Authoring!Calls /\ DOMAIN proposals = AuthoringProposals
    BY DEF AuthoringInv
  <1>1. /\ c \notin DOMAIN saved /\ c # Authoring!First /\ applying[c] \in AuthoringCalls
            /\ k \in AuthoringCommands /\ k.id \in Authoring!Ids
        /\ AuthoringMade(c) /\ applied[k.id] = NoVersion /\ revision = applying[c].expected
        /\ applying[c].parent = draft /\ draft \in DOMAIN saved /\ revision \in Nat /\ c # NoVersion
            /\ c \in Authoring!Widgets
    BY <1>0, AuthoringAssumption DEF AuthoringCall, AuthoringCalls, Authoring!Committable,
       Authoring!Calls, Authoring!First, AuthoringOpen, Authoring!Ids, Authoring!TypeOK,
       Authoring!Widgets
  <1>2. applying[c].marked => k.kind = "ACCEPT_PROPOSAL" /\ k.target \in AuthoringProposals
            /\ AuthoringTarget(c)
    BY <1>0, <1>1, AuthoringAssumption DEF AuthoringCall
  <1>3. /\ draft' = c /\ revision' = revision + 1 /\ revision < AuthoringMaxRevision
        /\ DOMAIN saved' = DOMAIN saved \cup {c} /\ saved'[c] = x
        /\ \A v \in DOMAIN saved : saved'[v] = saved[v]
        /\ removed' = Authoring!Removed(c)
        /\ applied' = [applied EXCEPT ![k.id] = c]
    BY <1>1 DEF Authoring!Committed
  <1>4. /\ x.parent = draft /\ x.revision = revision + 1 /\ x.command = k.id
            /\ x.widgets = applying[c].widgets
        /\ x.proposal = IF applying[c].marked THEN k.target ELSE NoVersion
    BY <1>1
  <1>5. x \in Authoring!VersionRows
    <2>1. draft \in Authoring!Calls \cup {Authoring!First, NoVersion}
              /\ revision + 1 \in 1 .. AuthoringMaxRevision
      BY <1>0, <1>1, <1>3, AuthoringAssumption DEF Authoring!TypeOK
    <2>2. applying[c].widgets \in [Authoring!Widgets -> Authoring!Forms]
      BY <1>1 DEF AuthoringMade
    <2>3. x.proposal \in AuthoringProposals \cup {NoVersion}
      BY <1>2, <1>4
    <2> QED
      BY <1>1, <2>1, <2>2, <2>3 DEF Authoring!VersionRows
  <1> HIDE DEF x
  <1>6. /\ saved[draft] \in Authoring!VersionRows
            /\ Authoring!Shown(saved[draft]) \subseteq Authoring!Widgets
        /\ \A v \in DOMAIN saved : saved[v] \in Authoring!VersionRows /\ saved[v].revision \in Nat
    BY <1>0, <1>1, AuthoringAssumption DEF Authoring!TypeOK, Authoring!VersionRows, Authoring!Shown
  <1>7. removed' \in [Authoring!Widgets -> Authoring!Forms]
        /\ \A w \in Authoring!Widgets : removed'[w] = IF k.kind = "REMOVE_WIDGET" /\ w = k.target
                                            THEN saved[draft].widgets[w] ELSE removed[w]
    BY <1>0, <1>1, <1>3, <1>6 DEF Authoring!Removed, Authoring!TypeOK, Authoring!VersionRows
  <1>8. Authoring!TypeOK'
    BY <1>0, <1>1, <1>3, <1>5, <1>7, AuthoringAssumption DEF Authoring!TypeOK, Authoring!VersionRows
  <1>9. AuthoringLine'
    <2>1. \A v \in DOMAIN saved : saved[v].revision <= revision
      BY <1>0, <1>1, <1>6 DEF AuthoringLine
    <2>2. \A v \in DOMAIN saved' : v # c => saved'[v].revision < saved'[c].revision
      BY <1>1, <1>3, <1>4, <1>6, <2>1
    <2>3. Authoring!OneLine'
      <3>1. \A v \in DOMAIN saved : saved'[v].parent # draft /\ saved'[v].parent # c
        <4>1. \A v \in DOMAIN saved : saved[v].parent # draft
          BY <1>0 DEF AuthoringLine, Authoring!OneLine
        <4>2. \A v \in DOMAIN saved : saved[v].parent \in DOMAIN saved \cup {NoVersion}
          BY <1>0 DEF AuthoringLine
        <4> QED
          BY <1>1, <1>3, <4>1, <4>2
      <3>2. saved'[c].parent = draft /\ draft # c
        BY <1>1, <1>3, <1>4
      <3>3. \A u, v \in DOMAIN saved : saved'[u].parent = saved'[v].parent => u = v
        BY <1>0, <1>3 DEF AuthoringLine, Authoring!OneLine
      <3> QED
        BY <1>3, <3>1, <3>2, <3>3 DEF Authoring!OneLine
    <2>4. draft # NoVersion
      BY <1>0, <1>1, AuthoringAssumption DEF Authoring!TypeOK, Authoring!Calls, Authoring!First
    <2> QED
      BY <1>0, <1>1, <1>3, <1>4, <2>2, <2>3, <2>4 DEF AuthoringLine
  <1>10. AuthoringApplied'
    <2>1. applied \in [Authoring!Ids -> Authoring!Calls \cup {NoVersion}]
      BY <1>0 DEF Authoring!TypeOK
    <2>2. applied'[k.id] = c /\ \A i \in Authoring!Ids : i # k.id => applied'[i] = applied[i]
      BY <1>1, <1>3, <2>1
    <2>3. ASSUME NEW i \in Authoring!Ids, applied'[i] # NoVersion
          PROVE  applied'[i] \in DOMAIN saved' /\ saved'[applied'[i]].command = i
      <3>1. CASE i = k.id
        BY <1>3, <1>4, <2>2, <3>1
      <3>2. CASE i # k.id
        BY <1>0, <1>3, <2>2, <2>3, <3>2 DEF AuthoringApplied
      <3> QED
        BY <3>1, <3>2
    <2>4. ASSUME NEW v \in DOMAIN saved' \ {Authoring!First}
          PROVE  saved'[v].command \in Authoring!Ids /\ applied'[saved'[v].command] = v
      <3>1. CASE v = c
        BY <1>1, <1>3, <1>4, <2>2, <3>1
      <3>2. CASE v # c
        <4>1. v \in DOMAIN saved \ {Authoring!First} /\ saved'[v] = saved[v]
          BY <1>3, <2>4, <3>2
        <4>2. saved[v].command \in Authoring!Ids /\ applied[saved[v].command] = v
          BY <1>0, <4>1 DEF AuthoringApplied
        <4>3. v # NoVersion
          BY <1>0, <4>1, AuthoringAssumption DEF Authoring!TypeOK, Authoring!Calls, Authoring!First
        <4> QED
          BY <1>1, <2>2, <4>1, <4>2, <4>3
      <3> QED
        BY <3>1, <3>2
    <2>5. saved'[Authoring!First].command = NoVersion
      BY <1>0, <1>3 DEF AuthoringApplied, AuthoringLine
    <2> QED
      BY <2>3, <2>4, <2>5 DEF AuthoringApplied
  <1>11. AuthoringAccepted'
    <2> SUFFICES ASSUME NEW v \in DOMAIN saved', saved'[v].proposal # NoVersion
                 PROVE  /\ saved'[v].proposal \in AuthoringProposals
                        /\ proposals[saved'[v].proposal].state # "NONE"
                        /\ saved'[v].parent = proposals[saved'[v].proposal].parent
      BY DEF AuthoringAccepted
    <2>1. CASE v = c
      BY <1>1, <1>2, <1>3, <1>4, <2>1 DEF AuthoringTarget
    <2>2. CASE v # c
      BY <1>0, <1>3, <2>2 DEF AuthoringAccepted
    <2> QED
      BY <2>1, <2>2
  <1>12. Authoring!RestorableAsRemoved'
    <2> SUFFICES ASSUME NEW v \in DOMAIN saved', NEW w \in Authoring!Widgets, saved'[v].widgets[w] # 0,
                        saved'[c].widgets[w] = 0,
                        \A u \in DOMAIN saved' : saved'[u].revision > saved'[v].revision =>
                            saved'[u].widgets[w] = 0
                 PROVE  removed'[w] = saved'[v].widgets[w]
      BY <1>3 DEF Authoring!RestorableAsRemoved, Authoring!Shown
    <2>1. v \in DOMAIN saved /\ saved'[v] = saved[v]
      BY <1>3
    <2>2. \A u \in DOMAIN saved : saved[u].revision > saved[v].revision => saved[u].widgets[w] = 0
      BY <1>3, <2>1
    <2>3. saved[draft].widgets[w] # 0 => k.kind = "REMOVE_WIDGET" /\ k.target = w
      BY <1>1, <1>3, <1>4 DEF AuthoringMade
    <2>4. k.kind = "REMOVE_WIDGET" => saved[draft].widgets[k.target] # 0
      BY <1>1 DEF AuthoringMade, Authoring!Shown
    <2>5. CASE v = draft
      BY <1>7, <2>1, <2>3, <2>5
    <2>6. CASE v # draft
      <3>1. saved[draft].revision > saved[v].revision
        BY <1>0, <1>1, <1>6, <2>1, <2>6 DEF AuthoringLine
      <3>2. saved[draft].widgets[w] = 0
        BY <1>1, <2>2, <3>1
      <3>3. removed[w] = saved[v].widgets[w]
        BY <1>0, <2>1, <2>2, <3>2 DEF Authoring!RestorableAsRemoved, Authoring!Shown
      <3>4. removed'[w] = removed[w]
        BY <1>7, <2>4, <3>2
      <3> QED
        BY <2>1, <3>3, <3>4
    <2> QED
      BY <2>5, <2>6
  <1>13. \A d \in Authoring!Calls : d # c => applying'[d] = applying[d]
    BY <1>0 DEF Authoring!Goto, Authoring!Answer
  <1>14. DOMAIN applying' = Authoring!Calls
    BY <1>0 DEF Authoring!Goto, Authoring!Answer
  <1>15. ASSUME NEW d \in Authoring!Calls, d # c PROVE AuthoringCall(d)'
    <2>1. AuthoringCall(d) /\ applying'[d] = applying[d]
      BY <1>13, <1>15 DEF AuthoringInv
    <2>2. CASE applying[d].at \in AuthoringOpen
      <3>1. applying[d].parent \in DOMAIN saved
                /\ saved'[applying[d].parent] = saved[applying[d].parent]
        BY <1>3, <2>1, <2>2 DEF AuthoringCall
      <3>2. AuthoringMade(d) => AuthoringMade(d)'
        BY <2>1, <3>1 DEF AuthoringMade
      <3>3. AuthoringTarget(d) => AuthoringTarget(d)'
        BY <2>1 DEF AuthoringTarget
      <3>4. applying[d].expected <= revision' /\ applying[d].expected # revision'
        BY <1>1, <1>3, <2>1, <2>2 DEF AuthoringCall, AuthoringCalls
      <3>5. applying[d].at # "done" /\ applying[d].at # "idle"
        BY <2>2 DEF AuthoringOpen
      <3>6. applying[d].at = "audit" =>
                d \in DOMAIN saved' /\ saved'[d].command = applying[d].command.id
        BY <1>3, <2>1 DEF AuthoringCall
      <3>7. applying[d].at \in {"replay", "read", "prepare", "mark", "write", "commit"} =>
                d \notin DOMAIN saved'
        BY <1>3, <1>15, <2>1 DEF AuthoringCall
      <3> QED
        BY <1>3, <2>1, <2>2, <3>1, <3>2, <3>3, <3>4, <3>5, <3>6, <3>7 DEF AuthoringCall
    <2>3. CASE applying[d].at \notin AuthoringOpen
      <3>1. applying[d].at \in {"idle", "done"}
        BY <2>1, <2>3 DEF AuthoringCall
      <3> QED
        BY <1>3, <1>15, <2>1, <2>3, <3>1 DEF AuthoringCall
    <2> QED
      BY <2>2, <2>3
  <1>16. AuthoringCall(c)'
    <2>1. c \in DOMAIN saved' /\ saved'[c].command = k.id /\ draft \in DOMAIN saved'
          /\ applying[c].expected <= revision' /\ applying[c].expected # revision'
      BY <1>1, <1>3, <1>4
    <2>2. ASSUME NEW step \in {"audit", "restore"}, Authoring!Goto(c, step), step = "restore" =>
              applying[c].marked
          PROVE  AuthoringCall(c)'
      <3> DEFINE q == [applying[c] EXCEPT !.at = step]
      <3>1. applying'[c] = q
        BY <1>0, <2>2 DEF Authoring!Goto
      <3>2. q.at = step /\ q \in AuthoringCalls /\ q.command = k /\ q.parent = applying[c].parent
                /\ q.expected = applying[c].expected
        BY <1>1 DEF AuthoringCalls, AuthoringOpen
      <3> HIDE DEF q
      <3>3. step = "restore" => AuthoringTarget(c)'
        BY <1>2, <2>2, <3>1, <3>2 DEF AuthoringTarget
      <3> QED
        BY <1>1, <1>2, <2>1, <2>2, <3>1, <3>2, <3>3 DEF AuthoringCall, AuthoringOpen
    <2>3. CASE Authoring!Answer(c, NoVersion)
      <3>1. applying'[c] = [at |-> "done", version |-> NoVersion, id |-> NoVersion]
        BY <1>0, <2>3 DEF Authoring!Answer
      <3> QED
        BY <3>1 DEF AuthoringCall, AuthoringOpen
    <2> QED
      BY <2>2, <2>3
  <1>17. \A t \in AuthoringProposals : AuthoringProposal(t)'
    BY DEF AuthoringInv, AuthoringProposal
  <1> QED
    BY <1>0, <1>8, <1>9, <1>10, <1>11, <1>12, <1>14, <1>15, <1>16, <1>17 DEF AuthoringInv

\* A version that is not saved.
LEMMA AuthoringRefuses == ASSUME AuthoringInv, NEW c \in Authoring!Calls, applying[c].at = "commit",
    Authoring!Refused(c), UNCHANGED <<Authoring!dashboard, proposals>>,
                            losses' \in 0 .. AuthoringMaxFaults
                     PROVE  AuthoringInv'
  <1>1. applying[c].at \in AuthoringOpen /\ AuthoringCall(c)
    BY DEF AuthoringOpen, AuthoringInv
  <1>2. CASE applying[c].marked
    BY <1>1, <1>2, AuthoringMoves DEF Authoring!Refused, AuthoringCall
  <1>3. CASE ~applying[c].marked
    BY <1>1, <1>3, AuthoringAnswers DEF Authoring!Refused
  <1> QED
    BY <1>2, <1>3

\* The transaction that saves a version, with its answer or without.
LEMMA AuthoringCommitSteps == ASSUME AuthoringInv, NEW c \in Authoring!Calls, Authoring!Commit(c)
    \/ Authoring!CommitFails(c) PROVE AuthoringInv'
  <1>1. losses' \in 0 .. AuthoringMaxFaults /\ applying[c].at = "commit" /\ UNCHANGED proposals
    BY AuthoringAssumption DEF Authoring!Commit, Authoring!CommitFails, AuthoringInv, Authoring!TypeOK
  <1>2. CASE Authoring!Commit(c)
    <2>1. CASE Authoring!Committable(c)
      BY <1>1, <1>2, <2>1, AuthoringCommits DEF Authoring!Commit
    <2>2. CASE ~Authoring!Committable(c)
      BY <1>1, <1>2, <2>2, AuthoringRefuses DEF Authoring!Commit
    <2> QED
      BY <2>1, <2>2
  <1>3. CASE Authoring!CommitFails(c)
    <2>1. CASE Authoring!Committable(c) /\ Authoring!Committed(c)
      <3>1. (Authoring!Goto(c, "restore") /\ applying[c].marked) \/ Authoring!Answer(c, NoVersion)
        BY <1>3 DEF Authoring!CommitFails, Authoring!Refused
      <3> QED
        BY <1>1, <2>1, <3>1, AuthoringCommits
    <2>2. CASE UNCHANGED Authoring!dashboard
      BY <1>1, <1>3, <2>2, AuthoringRefuses DEF Authoring!CommitFails
    <2> QED
      BY <1>3, <2>1, <2>2 DEF Authoring!CommitFails
  <1> QED
    BY <1>2, <1>3

\* Every step keeps the invariant.
LEMMA AuthoringStep == ASSUME AuthoringInv, [Authoring!Next]_Authoring!vars PROVE AuthoringInv'
  <1>1. CASE UNCHANGED Authoring!vars
    <2>1. UNCHANGED <<Authoring!dashboard, proposals, applying, losses>>
      BY <1>1 DEF Authoring!vars
    <2>2. AuthoringKeep /\ losses' \in 0 .. AuthoringMaxFaults /\ DOMAIN applying' = Authoring!Calls
              /\ \A c \in Authoring!Calls : applying'[c] = applying[c]
      BY <2>1 DEF AuthoringKeep, AuthoringInv, AuthoringProposal, Authoring!TypeOK
    <2> QED
      BY <2>1, <2>2, AuthoringQuiet
  <1>2. ASSUME NEW t \in AuthoringProposals, Authoring!Ask(t) \/ Authoring!Save(t) PROVE AuthoringInv'
    BY <1>2, AuthoringAsks
  <1>3. CASE Authoring!commitPublicationAtomically
    BY <1>3, AuthoringPublishes
  <1>4. ASSUME NEW c \in Authoring!Calls, Authoring!Apply(c) PROVE AuthoringInv'
    <2>1. CASE \E k \in AuthoringCommands : Authoring!Send(c, k)
      BY <2>1, AuthoringSends
    <2>2. CASE Authoring!Replay(c) \/ Authoring!Read(c) \/ Authoring!Prepare(c) \/ Authoring!MarkFind(c)
      BY <2>2, AuthoringReplays, AuthoringReads, AuthoringPrepares, AuthoringMarkFinds
    <2>3. CASE Authoring!MarkWrite(c) \/ Authoring!MarkFails(c) \/ Authoring!RestoreFind(c)
              \/ Authoring!RestoreWrite(c)
      BY <2>3, AuthoringMarks, AuthoringMarkFails, AuthoringRestores, AuthoringProposesAgain
    <2>4. CASE Authoring!Commit(c) \/ Authoring!CommitFails(c)
      BY <2>4, AuthoringCommitSteps
    <2>5. CASE Authoring!Audit(c) \/ Authoring!Die(c)
      BY <2>5, AuthoringAudits, AuthoringDies
    <2> QED
      BY <1>4, <2>1, <2>2, <2>3, <2>4, <2>5 DEF Authoring!Apply
  <1> QED
    BY <1>1, <1>2, <1>3, <1>4 DEF Authoring!Next

\* The invariant has what is promised.
LEMMA AuthoringSafe == AuthoringInv => Authoring!OnceAccepted /\ Authoring!OneLine
    /\ Authoring!RestorableAsRemoved
  <1> SUFFICES ASSUME AuthoringInv
      PROVE Authoring!OnceAccepted /\ Authoring!OneLine /\ Authoring!RestorableAsRemoved
    OBVIOUS
  <1>1. Authoring!OneLine /\ Authoring!RestorableAsRemoved
    BY DEF AuthoringInv, AuthoringLine
  <1>2. ASSUME NEW u \in DOMAIN saved \ {Authoring!First}, NEW v \in DOMAIN saved \ {Authoring!First},
            u # v
        PROVE  /\ saved[u].command # saved[v].command
               /\ saved[u].proposal = NoVersion \/ saved[u].proposal # saved[v].proposal
    <2>1. saved[u].command # saved[v].command
      BY <1>2 DEF AuthoringInv, AuthoringApplied
    <2>2. saved[u].parent # saved[v].parent
      BY <1>1, <1>2 DEF Authoring!OneLine
    <2> QED
      BY <2>1, <2>2 DEF AuthoringInv, AuthoringAccepted
  <1>3. \A c \in Authoring!Calls : applying[c].at = "done" /\ applying[c].version # NoVersion =>
            saved[applying[c].version].command = applying[c].id
    BY DEF AuthoringInv, AuthoringCall
  <1> QED
    BY <1>1, <1>2, <1>3 DEF Authoring!OnceAccepted

\* The behaviours are those of the component, or leave it as it is.
LEMMA AuthoringBehaves == Behaviours => Authoring!Spec
  <1>1. Start => Authoring!Init
    BY DEF Start
  <1>2. [Step]_everything => [Authoring!Next]_Authoring!vars
    BY DEF Step, everything, authoring_vars, Authoring!vars, Authoring!dashboard
  <1> QED
    BY <1>1, <1>2, PTL DEF Behaviours, Authoring!Spec

\* Commands that are sent again, that overlap and that lose their answers make one version each, the versions
\* follow each other in one line, no two accept the same proposal, and a widget that was removed is restored as
\* it was.
THEOREM AuthoringsAreSafe == Behaviours => []AuthoringIsSafe
  <1>1. AuthoringInv => AuthoringIsSafe
    BY AuthoringSafe DEF AuthoringIsSafe
  <1>2. AuthoringInv /\ [Authoring!Next]_Authoring!vars => AuthoringInv'
    BY AuthoringStep
  <1> QED
    BY <1>1, <1>2, AuthoringInit, AuthoringBehaves, PTL DEF Authoring!Spec

-----------------------------------------------------------------------------
(* AgentCommand: the calls, the row, the audit and the tool.               *)

\* The row of a command.
AgentRows == [state : {"RESERVED", "COMMITTED", "FAILED", "RECONCILIATION_REQUIRED"},
         owner : AgentCalls, input : AgentInputs, lapsed : BOOLEAN, attempted : BOOLEAN,
         succeeded : AgentCalls \union {NoVersion}, value : AgentValues \union {NoVersion}]

\* What a call does.
AgentDoings == [at : {"idle", "done"} \union Agent!OwnSteps \union Agent!OtherSteps,
           input : AgentInputs \union {NoVersion},
           outcome : AgentValues \union {"FAILED", NoVersion}]

\* The types that the steps need.
AgentTyped ==
    /\ command = Agent!NoCommand \/ command \in AgentRows
    /\ requested \in [AgentCalls -> AgentDoings]
    /\ performed \subseteq AgentCalls \X AgentInputs \X AgentValues

\* The tool gave the result o for the input of the command.
AgentHappened(o) == \E d \in AgentCalls : <<d, command.input, o>> \in performed

\* The steps of a call that closes a command that lapsed.
AgentClosing == {"reread", "close", "close_audit", "close_mark", "close_succeeded",
            "close_mark_succeeded", "close_commit"}

\* A call c that does r does it for the row: one that executes is its owner, one that tells or
\* closes has the input of the row.
AgentRowed(c, r) ==
    /\ r.at = "idle" => r.outcome = NoVersion
    /\ r.at # "idle" => command.state # "NONE"
    /\ r.at \in Agent!OwnSteps => command.owner = c
    /\ r.at \in Agent!OwnSteps \union AgentClosing \union {"tell", "close_recheck"} =>
        r.input = command.input
    /\ r.at = "lapsed" /\ r.outcome # NoVersion => r.input = command.input

\* Until its owner performs the tool nothing has happened, and the attempt is in the audit before.
AgentUnperformed(r) ==
    /\ r.at \in {"audit", "mark", "perform"} => performed = {}
    /\ r.at \in {"mark", "perform"} => "ATTEMPTED" \in audited

\* What a call is about to commit has happened, and is in the audit.
AgentTruthful(r) ==
    /\ r.at \in {"succeeded", "mark_succeeded", "commit",
                 "close_succeeded", "close_mark_succeeded", "close_commit"} => AgentHappened(r.outcome)
    /\ r.at \in {"reread", "close", "close_audit", "close_mark"} =>
           r.outcome = "FAILED" \/ AgentHappened(r.outcome)
    /\ r.at = "lapsed" => r.outcome \in {"FAILED", NoVersion} \/ AgentHappened(r.outcome)
    /\ r.at \in {"mark_succeeded", "commit", "close_mark_succeeded", "close_commit"} =>
           "SUCCEEDED" \in audited

\* What holds of a call.
AgentSound(c, r) == AgentRowed(c, r) /\ AgentUnperformed(r) /\ AgentTruthful(r)

\* One effect at most, under a row and after the audit of the attempt.
AgentOnce ==
    /\ \A p, q \in performed : p = q
    /\ performed # {} => command.state # "NONE" /\ "ATTEMPTED" \in audited

\* The inductive invariant.
AgentInv == AgentTyped /\ (\A c \in AgentCalls : AgentSound(c, requested[c])) /\ AgentOnce
    /\ Agent!CommittedIsTrue

\* At first there is no command and no call.
LEMMA AgentInit == Agent!Init => AgentInv
  <1> SUFFICES ASSUME Agent!Init PROVE AgentInv
    OBVIOUS
  <1>1. AgentTyped
    BY DEF Agent!Init, AgentTyped, Agent!Waiting, AgentDoings
  <1>2. \A c \in AgentCalls : AgentSound(c, requested[c])
    BY DEF Agent!Init, AgentSound, AgentRowed, AgentUnperformed, AgentTruthful, Agent!Waiting,
       Agent!OwnSteps, AgentClosing
  <1>3. AgentOnce /\ Agent!CommittedIsTrue
    BY DEF Agent!Init, AgentOnce, Agent!CommittedIsTrue, Agent!NoCommand
  <1> QED
    BY <1>1, <1>2, <1>3 DEF AgentInv

\* A call that goes on works on a row that is there.
LEMMA AgentRowThere == ASSUME AgentInv, NEW c \in AgentCalls, requested[c].at # "idle"
    PROVE command \in AgentRows
  BY DEF AgentInv, AgentTyped, AgentSound, AgentRowed, Agent!NoCommand

\* A call that goes on is where it goes, and the others where they were.
LEMMA AgentGotoMoves ==
    ASSUME requested \in [AgentCalls -> AgentDoings], NEW c \in AgentCalls,
           NEW s \in {"idle", "done"} \union Agent!OwnSteps \union Agent!OtherSteps, Agent!Goto(c, s)
    PROVE  /\ requested' \in [AgentCalls -> AgentDoings]
           /\ requested'[c] = [requested[c] EXCEPT !.at = s]
           /\ \A d \in AgentCalls \ {c} : requested'[d] = requested[d]
  BY DEF Agent!Goto, AgentDoings

\* What a call does stays sound as long as the row keeps its owner and input, and what has happened
\* or is in the audit stays.  Its owner alone may perform the tool.
LEMMA AgentStaysSound ==
    ASSUME NEW d \in AgentCalls, AgentSound(d, requested'[d]),
           command.state # "NONE" => /\ command'.state # "NONE"
                                     /\ command'.owner = command.owner
                                     /\ command'.input = command.input,
           audited \subseteq audited', performed \subseteq performed',
           performed' = performed \/ (requested'[d].at \in Agent!OwnSteps => command.owner # d)
    PROVE  AgentSound(d, requested[d])'
  <1>1. AgentRowed(d, requested[d])'
    BY DEF AgentSound, AgentRowed, Agent!OwnSteps, AgentClosing
  <1>2. AgentUnperformed(requested[d])'
    BY DEF AgentSound, AgentUnperformed, AgentRowed, Agent!OwnSteps
  <1>3. AgentTruthful(requested[d])'
    BY DEF AgentSound, AgentTruthful, AgentRowed, AgentHappened, Agent!OwnSteps, AgentClosing
  <1> QED
    BY <1>1, <1>2, <1>3 DEF AgentSound

\* The steps that touch neither effects nor what was told, and leave a row that is committed alone.
LEMMA AgentQuietSteps ==
    ASSUME AgentInv, NEW c \in AgentCalls, requested' \in [AgentCalls -> AgentDoings],
        AgentSound(c, requested[c])',
           \A d \in AgentCalls \ {c} : requested'[d] = requested[d],
           command \in AgentRows, command' \in AgentRows,
           command'.owner = command.owner, command'.input = command.input,
           command.state = "COMMITTED" => command' = command,
           command'.state = "COMMITTED" /\ command.state # "COMMITTED" =>
               AgentHappened(command'.value) /\ "SUCCEEDED" \in audited,
           audited \subseteq audited', UNCHANGED <<performed, told>>
    PROVE  AgentInv'
  <1>1. \A d \in AgentCalls : AgentSound(d, requested[d])'
    BY AgentStaysSound DEF AgentInv, AgentRows
  <1>2. AgentOnce' /\ AgentTyped'
    BY DEF AgentInv, AgentOnce, AgentTyped, AgentRows
  <1>3. Agent!CommittedIsTrue'
    BY DEF AgentInv, Agent!CommittedIsTrue, AgentHappened
  <1> QED
    BY <1>1, <1>2, <1>3 DEF AgentInv

\* An update that leaves a committed row alone, when what comes next is sound either way.
LEMMA AgentUpdates ==
    ASSUME AgentInv, NEW c \in AgentCalls, NEW holds \in BOOLEAN, NEW changed \in AgentRows,
           NEW yes \in {"done"} \union Agent!OwnSteps \union Agent!OtherSteps,
           NEW no \in {"done"} \union Agent!OwnSteps \union Agent!OtherSteps,
           AgentSound(c, [requested[c] EXCEPT !.at = yes]),
               AgentSound(c, [requested[c] EXCEPT !.at = no]),
           command \in AgentRows, holds => command.state # "COMMITTED",
           changed.owner = command.owner, changed.input = command.input,
           holds /\ changed.state = "COMMITTED" => AgentHappened(changed.value)
               /\ "SUCCEEDED" \in audited,
           Agent!Update(c, holds, changed, yes, no), UNCHANGED <<audited, performed, told>>
    PROVE  AgentInv'
  <1>1. /\ command' = command \/ (holds /\ command' = changed)
        /\ Agent!Goto(c, yes) \/ Agent!Goto(c, no)
    BY DEF Agent!Update
  <1>2. /\ requested' \in [AgentCalls -> AgentDoings]
        /\ AgentSound(c, requested'[c])
        /\ \A d \in AgentCalls \ {c} : requested'[d] = requested[d]
    BY <1>1, AgentGotoMoves DEF AgentInv, AgentTyped
  <1>3. /\ command' \in AgentRows
        /\ command'.owner = command.owner
        /\ command'.input = command.input
        /\ command.state = "COMMITTED" => command' = command
        /\ command'.state = "COMMITTED" /\ command.state # "COMMITTED" =>
               AgentHappened(command'.value) /\ "SUCCEEDED" \in audited
    BY <1>1
  <1>4. AgentSound(c, requested[c])'
    BY <1>2, <1>3, AgentStaysSound DEF AgentRows
  <1> QED
    BY <1>2, <1>3, <1>4, AgentQuietSteps

\* A step that changes nothing but what the call does next.
LEMMA AgentMoves ==
    ASSUME AgentInv, NEW c \in AgentCalls, command \in AgentRows,
        requested' \in [AgentCalls -> AgentDoings],
           AgentSound(c, requested'[c]), \A d \in AgentCalls \ {c} : requested'[d] = requested[d],
           UNCHANGED <<command, audited, performed, told>>
    PROVE  AgentInv'
  <1>1. AgentSound(c, requested[c])'
    BY AgentStaysSound
  <1> QED
    BY <1>1, AgentQuietSteps
\* The updates of the one who executes: what he commits has happened.
LEMMA AgentOwnerSteps ==
    ASSUME AgentInv, NEW c \in AgentCalls,
           Agent!Fail(c) \/ Agent!markAuditAttempted(c) \/ Agent!markAuditSucceeded(c)
               \/ Agent!commit(c) \/ Agent!reconcileReservation(c)
    PROVE  AgentInv'
  <1> DEFINE r == requested[c]
             At(s) == [r EXCEPT !.at = s]
  <1>1. command \in AgentRows
    BY AgentRowThere DEF Agent!Fail, Agent!markAuditAttempted, Agent!markAuditSucceeded,
       Agent!reconcileReservation, Agent!commit
  <1>2. r \in AgentDoings /\ AgentSound(c, r) /\ Agent!Held(c) \in BOOLEAN
    BY DEF AgentInv, AgentTyped, Agent!Held
  <1>3. r.at \in Agent!OwnSteps => AgentSound(c, At("done")) /\ AgentSound(c, At("reconcile"))
            /\ AgentSound(c, At("recheck"))
    BY <1>1, <1>2 DEF AgentSound, AgentRowed, AgentUnperformed, AgentTruthful, Agent!OwnSteps,
       AgentClosing, AgentDoings, AgentRows
  <1>4. CASE Agent!Fail(c)
    <2>1. Agent!Update(c, Agent!Held(c), [command EXCEPT !.state = "FAILED"], "done", "reconcile")
      BY <1>4 DEF Agent!Fail
    <2> QED
      BY <1>1, <1>2, <1>3, <1>4, <2>1, AgentUpdates DEF Agent!Fail, Agent!Held, AgentRows,
         Agent!OwnSteps
  <1>5. CASE Agent!markAuditAttempted(c)
    <2>1. Agent!Update(c, Agent!Held(c), [command EXCEPT !.attempted = TRUE], "perform", "reconcile")
      BY <1>5 DEF Agent!markAuditAttempted
    <2>2. AgentSound(c, At("perform"))
      BY <1>1, <1>2, <1>5 DEF Agent!markAuditAttempted, AgentSound, AgentRowed, AgentUnperformed,
         AgentTruthful, Agent!OwnSteps, AgentClosing, AgentDoings
    <2> QED
      BY <1>1, <1>2, <1>3, <1>5, <2>1, <2>2, AgentUpdates DEF Agent!markAuditAttempted, Agent!Held,
         AgentRows, Agent!OwnSteps
  <1>6. CASE Agent!markAuditSucceeded(c)
    <2>1. Agent!Update(c, Agent!Held(c), [command EXCEPT !.succeeded = c], "commit", "reconcile")
      BY <1>6 DEF Agent!markAuditSucceeded
    <2>2. AgentSound(c, At("commit"))
      BY <1>1, <1>2, <1>6 DEF Agent!markAuditSucceeded, AgentSound, AgentRowed, AgentUnperformed,
         AgentTruthful, Agent!OwnSteps, AgentClosing, AgentDoings
    <2> QED
      BY <1>1, <1>2, <1>3, <1>6, <2>1, <2>2, AgentUpdates DEF Agent!markAuditSucceeded, Agent!Held,
         AgentRows, Agent!OwnSteps
  <1>7. CASE Agent!commit(c)
    <2> DEFINE holds == Agent!Held(c) /\ command.succeeded = c
               changed == [command EXCEPT !.state = "COMMITTED", !.value = r.outcome]
    <2>1. Agent!Update(c, holds, changed, "tell", "recheck")
      BY <1>7 DEF Agent!commit
    <2>2. AgentSound(c, At("tell"))
      BY <1>1, <1>2, <1>7 DEF Agent!commit, AgentSound, AgentRowed, AgentUnperformed, AgentTruthful,
         Agent!OwnSteps, AgentClosing, AgentDoings
    <2>3. AgentHappened(r.outcome) /\ "SUCCEEDED" \in audited
      BY <1>2, <1>7 DEF Agent!commit, AgentSound, AgentTruthful
    <2>4. r.outcome \in AgentValues
      BY <2>3 DEF AgentHappened, AgentInv, AgentTyped
    <2>5. changed \in AgentRows /\ changed.value = r.outcome /\ changed.owner = command.owner
              /\ changed.input = command.input
      BY <1>1, <2>4 DEF AgentRows
    <2>6. holds \in BOOLEAN /\ (holds => command.state # "COMMITTED")
      BY DEF Agent!Held
    <2>7. AgentSound(c, At("recheck")) /\ UNCHANGED <<audited, performed, told>>
      BY <1>3, <1>7 DEF Agent!commit, Agent!OwnSteps
    <2> HIDE DEF holds, changed
    <2> QED
      BY <1>1, <2>1, <2>2, <2>3, <2>5, <2>6, <2>7, AgentUpdates DEF Agent!OwnSteps, Agent!OtherSteps
  <1>8. CASE Agent!reconcileReservation(c)
    <2>1. Agent!Update(c, Agent!Held(c), Agent!Uncertain, "done", "done")
      BY <1>8 DEF Agent!reconcileReservation
    <2> QED
      BY <1>1, <1>2, <1>3, <1>8, <2>1, AgentUpdates DEF Agent!reconcileReservation, Agent!Uncertain,
         Agent!Held, AgentRows, Agent!OwnSteps
  <1> QED
    BY <1>4, <1>5, <1>6, <1>7, <1>8

\* An expired reservation is put aside.
LEMMA AgentLapsedStep == ASSUME AgentInv, NEW c \in AgentCalls, Agent!Lapsed(c) PROVE AgentInv'
  <1> DEFINE r == requested[c]
             next == IF r.outcome = NoVersion THEN "done" ELSE "reread"
  <1>1. command \in AgentRows
    BY AgentRowThere DEF Agent!Lapsed
  <1>2. Agent!Update(c, Agent!Expired, Agent!Uncertain, next, next)
    BY DEF Agent!Lapsed
  <1>3. AgentSound(c, [r EXCEPT !.at = next])
    BY <1>1 DEF Agent!Lapsed, AgentInv, AgentTyped, AgentSound, AgentRowed, AgentUnperformed,
       AgentTruthful, Agent!OwnSteps, AgentClosing, AgentDoings
  <1>4. Agent!Expired \in BOOLEAN /\ (Agent!Expired => command.state # "COMMITTED")
    BY <1>1 DEF Agent!Expired, AgentRows
  <1>5. Agent!Uncertain \in AgentRows /\ Agent!Uncertain.owner = command.owner
            /\ Agent!Uncertain.input = command.input
        /\ Agent!Uncertain.state # "COMMITTED"
    BY <1>1 DEF Agent!Uncertain, AgentRows
  <1>6. next \in {"done"} \union Agent!OwnSteps \union Agent!OtherSteps
            /\ UNCHANGED <<audited, performed, told>>
    BY DEF Agent!Lapsed, Agent!OtherSteps
  <1> HIDE DEF next
  <1> QED
    BY <1>1, <1>2, <1>3, <1>4, <1>5, <1>6, AgentUpdates

\* The updates of the one who closes: he commits what has happened.
LEMMA AgentCloseStep == ASSUME AgentInv, NEW c \in AgentCalls, Agent!Close(c) PROVE AgentInv'
  <1> DEFINE r == requested[c]
             At(s) == [r EXCEPT !.at = s]
  <1>1. command \in AgentRows
    BY AgentRowThere DEF Agent!Close
  <1>2. r \in AgentDoings /\ AgentSound(c, r) /\ Agent!Open \in BOOLEAN /\ (Agent!Open =>
            command.state # "COMMITTED")
    BY DEF AgentInv, AgentTyped, Agent!Open
  <1>3. AgentSound(c, At("done")) /\ UNCHANGED <<audited, performed, told>>
    BY <1>1, <1>2 DEF Agent!Close, AgentSound, AgentRowed, AgentUnperformed, AgentTruthful,
       Agent!OwnSteps, AgentClosing, AgentDoings, AgentRows
  <1>4. CASE r.at = "close_mark"
    <2>1. Agent!Update(c, Agent!Open, [command EXCEPT !.attempted = TRUE], "close", "done")
      BY <1>4 DEF Agent!Close
    <2>2. AgentSound(c, At("close"))
      BY <1>2, <1>4 DEF AgentSound, AgentRowed, AgentUnperformed, AgentTruthful, Agent!OwnSteps,
         AgentClosing, AgentDoings
    <2> QED
      BY <1>1, <1>2, <1>3, <2>1, <2>2, AgentUpdates DEF Agent!Open, AgentRows, Agent!OtherSteps
  <1>5. CASE r.at = "close" /\ r.outcome = "FAILED"
    <2>1. Agent!Update(c, Agent!Open, [command EXCEPT !.state = "FAILED"], "done", "done")
      BY <1>5 DEF Agent!Close
    <2> QED
      BY <1>1, <1>2, <1>3, <2>1, AgentUpdates DEF Agent!Open, AgentRows
  <1>6. CASE r.at = "close" /\ r.outcome # "FAILED"
    <2>1. Agent!Goto(c, "close_succeeded") /\ command' = command
      BY <1>6 DEF Agent!Close
    <2>2. AgentSound(c, At("close_succeeded"))
      BY <1>2, <1>6 DEF AgentSound, AgentRowed, AgentUnperformed, AgentTruthful, Agent!OwnSteps,
         AgentClosing, AgentDoings
    <2>3. /\ requested' \in [AgentCalls -> AgentDoings] /\ requested'[c] = At("close_succeeded")
          /\ \A d \in AgentCalls \ {c} : requested'[d] = requested[d]
      BY <2>1, AgentGotoMoves DEF AgentInv, AgentTyped, Agent!OtherSteps
    <2> QED
      BY <1>1, <1>3, <2>1, <2>2, <2>3, AgentMoves
  <1>7. CASE r.at = "close_mark_succeeded"
    <2>1. Agent!Update(c, Agent!Open, [command EXCEPT !.succeeded = c], "close_commit", "done")
      BY <1>7 DEF Agent!Close
    <2>2. AgentSound(c, At("close_commit"))
      BY <1>2, <1>7 DEF AgentSound, AgentRowed, AgentUnperformed, AgentTruthful, Agent!OwnSteps,
         AgentClosing, AgentDoings
    <2> QED
      BY <1>1, <1>2, <1>3, <2>1, <2>2, AgentUpdates DEF Agent!Open, AgentRows, Agent!OtherSteps
  <1>8. CASE r.at = "close_commit"
    <2> DEFINE holds == Agent!Open /\ command.succeeded = c
               changed == [command EXCEPT !.state = "COMMITTED", !.value = r.outcome]
    <2>1. Agent!Update(c, holds, changed, "tell", "close_recheck")
      BY <1>8 DEF Agent!Close
    <2>2. AgentSound(c, At("tell")) /\ AgentSound(c, At("close_recheck"))
      BY <1>2, <1>8 DEF AgentSound, AgentRowed, AgentUnperformed, AgentTruthful, Agent!OwnSteps,
         AgentClosing, AgentDoings
    <2>3. AgentHappened(r.outcome) /\ "SUCCEEDED" \in audited
      BY <1>2, <1>8 DEF AgentSound, AgentTruthful
    <2>4. r.outcome \in AgentValues
      BY <2>3 DEF AgentHappened, AgentInv, AgentTyped
    <2>5. changed \in AgentRows /\ changed.value = r.outcome /\ changed.owner = command.owner
              /\ changed.input = command.input
      BY <1>1, <2>4 DEF AgentRows
    <2>6. holds \in BOOLEAN /\ (holds => command.state # "COMMITTED")
      BY <1>2
    <2> HIDE DEF holds, changed
    <2> QED
      BY <1>1, <1>3, <2>1, <2>2, <2>3, <2>5, <2>6, AgentUpdates DEF Agent!OtherSteps
  <1> QED
    BY <1>4, <1>5, <1>6, <1>7, <1>8 DEF Agent!Close
\* A call that tells the result of a committed row tells what the row says.
LEMMA AgentTells ==
    ASSUME AgentInv, NEW c \in AgentCalls, requested' \in [AgentCalls -> AgentDoings],
        AgentSound(c, requested'[c]),
           \A d \in AgentCalls \ {c} : requested'[d] = requested[d],
           command.state = "COMMITTED", told' = told \union {<<command.input, command.value>>},
           UNCHANGED <<command, audited, performed>>
    PROVE  AgentInv'
  <1>1. \A d \in AgentCalls : AgentSound(d, requested[d])'
    BY AgentStaysSound DEF AgentInv
  <1>2. AgentTyped' /\ AgentOnce'
    BY DEF AgentInv, AgentTyped, AgentOnce
  <1>3. Agent!CommittedIsTrue'
    BY DEF AgentInv, Agent!CommittedIsTrue
  <1> QED
    BY <1>1, <1>2, <1>3 DEF AgentInv

\* A call that ends is sound, when the row is there.
LEMMA AgentEnds ==
    ASSUME AgentInv, NEW c \in AgentCalls, command \in AgentRows, Agent!Refuse(c)
    PROVE  /\ requested' \in [AgentCalls -> AgentDoings]
           /\ AgentSound(c, requested'[c])
           /\ \A d \in AgentCalls \ {c} : requested'[d] = requested[d]
  <1>1. requested \in [AgentCalls -> AgentDoings] /\ Agent!Goto(c, "done")
    BY DEF Agent!Refuse, AgentInv, AgentTyped
  <1>2. /\ requested' \in [AgentCalls -> AgentDoings]
        /\ requested'[c] = [requested[c] EXCEPT !.at = "done"]
        /\ \A d \in AgentCalls \ {c} : requested'[d] = requested[d]
    BY <1>1, AgentGotoMoves
  <1>3. requested'[c].at = "done"
    BY <1>1, <1>2 DEF AgentDoings
  <1> QED
    BY <1>2, <1>3 DEF AgentSound, AgentRowed, AgentUnperformed, AgentTruthful, Agent!OwnSteps,
       AgentClosing, AgentRows

\* The command is there already.
LEMMA AgentExistingStep == ASSUME AgentInv, NEW c \in AgentCalls, NEW i \in AgentInputs,
    Agent!existing(c, i) PROVE AgentInv'
  <1>1. command \in AgentRows
    BY DEF Agent!existing, Agent!Reservable, AgentInv, AgentTyped, Agent!NoCommand
  <1>2. UNCHANGED <<command, audited, performed>> /\ requested \in [AgentCalls -> AgentDoings]
            /\ AgentSound(c, requested[c])
    BY DEF Agent!existing, AgentInv, AgentTyped
  <1>3. CASE Agent!Goto(c, "lapsed") /\ UNCHANGED told
    <2>1. AgentSound(c, [requested[c] EXCEPT !.at = "lapsed"])
      BY <1>1, <1>2 DEF Agent!existing, AgentSound, AgentRowed, AgentUnperformed, AgentTruthful,
         Agent!OwnSteps, AgentClosing, AgentDoings, AgentRows
    <2>2. /\ requested' \in [AgentCalls -> AgentDoings]
              /\ requested'[c] = [requested[c] EXCEPT !.at = "lapsed"]
          /\ \A d \in AgentCalls \ {c} : requested'[d] = requested[d]
      BY <1>2, <1>3, AgentGotoMoves DEF Agent!OtherSteps
    <2> QED
      BY <1>1, <1>2, <1>3, <2>1, <2>2, AgentMoves
  <1>4. CASE Agent!Refuse(c)
    <2>1. CASE UNCHANGED told
      BY <1>1, <1>2, <1>4, <2>1, AgentEnds, AgentMoves
    <2>2. CASE command.state = "COMMITTED" /\ command.input = i
              /\ told' = told \union {<<i, command.value>>}
      BY <1>1, <1>2, <1>4, <2>2, AgentEnds, AgentTells
    <2> QED
      BY <1>4, <2>1, <2>2 DEF Agent!existing
  <1> QED
    BY <1>3, <1>4 DEF Agent!existing

\* The replay of the stored result, and the answers that are none.
LEMMA AgentAnswerSteps == ASSUME AgentInv, NEW c \in AgentCalls, Agent!Answer(c) \/ Agent!Reread(c)
    PROVE AgentInv'
  <1> DEFINE r == requested[c]
  <1>1. command \in AgentRows
    BY AgentRowThere DEF Agent!Answer, Agent!Reread
  <1>2. UNCHANGED <<command, audited, performed>> /\ requested \in [AgentCalls -> AgentDoings]
            /\ AgentSound(c, r) /\ r \in AgentDoings
    BY DEF Agent!Answer, Agent!Reread, AgentInv, AgentTyped
  <1>3. r.input = command.input
    BY <1>2 DEF Agent!Answer, Agent!Reread, AgentSound, AgentRowed, Agent!OwnSteps, AgentClosing
  <1>4. CASE command.state = "COMMITTED" /\ Agent!Replay(c)
    <2>1. Agent!Refuse(c) /\ told' = told \union {<<command.input, command.value>>}
      BY <1>3, <1>4 DEF Agent!Replay, Agent!Refuse
    <2> QED
      BY <1>1, <1>2, <1>4, <2>1, AgentEnds, AgentTells
  <1>5. CASE UNCHANGED told /\ Agent!Refuse(c)
    BY <1>1, <1>2, <1>5, AgentEnds, AgentMoves
  <1>6. CASE UNCHANGED told /\ ~ Agent!Refuse(c) /\ ~ (command.state = "COMMITTED" /\ Agent!Replay(c))
    <2>1. PICK s \in {"reconcile", "close", "close_audit"} :
             Agent!Goto(c, s) /\ (s = "reconcile" => r.at = "recheck") /\ (s # "reconcile" =>
                 r.at = "reread")
      BY <1>6 DEF Agent!Answer, Agent!Reread, Agent!Refuse
    <2>2. AgentSound(c, [r EXCEPT !.at = s])
      BY <1>1, <1>2, <2>1 DEF AgentSound, AgentRowed, AgentUnperformed, AgentTruthful, Agent!OwnSteps,
         AgentClosing, AgentDoings
    <2>3. /\ requested' \in [AgentCalls -> AgentDoings] /\ requested'[c] = [r EXCEPT !.at = s]
          /\ \A d \in AgentCalls \ {c} : requested'[d] = requested[d]
      BY <1>2, <2>1, AgentGotoMoves DEF Agent!OwnSteps, Agent!OtherSteps
    <2> QED
      BY <1>1, <1>2, <1>6, <2>2, <2>3, AgentMoves
  <1> QED
    BY <1>4, <1>5, <1>6 DEF Agent!Answer, Agent!Reread, Agent!Replay, Agent!Refuse

\* A call dies.
LEMMA AgentDieStep == ASSUME AgentInv, NEW c \in AgentCalls, Agent!Die(c) PROVE AgentInv'
  <1>1. command \in AgentRows
    BY AgentRowThere DEF Agent!Die
  <1> QED
    BY <1>1, AgentEnds, AgentMoves DEF Agent!Die

\* Time changes no more than that the lease is over.
LEMMA AgentLapseStep == ASSUME AgentInv, Agent!Lapse PROVE AgentInv'
  <1> command \in AgentRows
    BY DEF Agent!Lapse, AgentInv, AgentTyped, Agent!NoCommand
  <1>1. command \in AgentRows /\ command' \in AgentRows
    BY DEF Agent!Lapse, AgentRows
  <1>2. command'.state = "RESERVED" /\ command'.owner = command.owner /\ command'.input = command.input
    BY <1>1 DEF Agent!Lapse, AgentRows
  <1>3. \A d \in AgentCalls : AgentSound(d, requested[d])'
    BY <1>1, <1>2, AgentStaysSound DEF Agent!Lapse, AgentInv, AgentRows
  <1>4. AgentTyped' /\ AgentOnce'
    BY <1>1, <1>2 DEF Agent!Lapse, AgentInv, AgentTyped, AgentOnce
  <1>5. Agent!CommittedIsTrue'
    BY <1>2 DEF Agent!Lapse, AgentInv, Agent!CommittedIsTrue
  <1> QED
    BY <1>3, <1>4, <1>5 DEF AgentInv

\* The one who closes says of the tool what has happened.
LEMMA AgentReconcileStep == ASSUME AgentInv, NEW c \in AgentCalls, NEW i \in AgentInputs,
    Agent!reconcile(c, i) PROVE AgentInv'
  <1>1. command \in AgentRows
    BY DEF Agent!reconcile, AgentInv, AgentTyped, Agent!NoCommand
  <1>2. PICK o \in IF Agent!Seen(i) = {} THEN {"FAILED"} ELSE Agent!Seen(i) :
           requested' = [requested EXCEPT ![c] =
                          [at |-> IF Agent!Expired THEN "lapsed" ELSE "reread", input |-> i,
                              outcome |-> o]]
    BY DEF Agent!reconcile
  <1>3. o = "FAILED" \/ AgentHappened(o)
    <2>1. CASE o \in Agent!Seen(i)
      <3>1. PICK p \in performed : p[2] = i /\ p[3] = o
        BY <2>1 DEF Agent!Seen
      <3>2. p[1] \in AgentCalls /\ p = <<p[1], i, o>>
        BY <3>1 DEF AgentInv, AgentTyped
      <3> QED
        BY <3>2 DEF Agent!reconcile, AgentHappened
    <2> QED
      BY <2>1
  <1>4. o \in AgentValues \union {"FAILED"}
    BY <1>3 DEF AgentHappened, AgentInv, AgentTyped
  <1>5. /\ requested' \in [AgentCalls -> AgentDoings]
        /\ requested'[c].at \in {"lapsed", "reread"} /\ requested'[c].input = i
            /\ requested'[c].outcome = o
        /\ \A d \in AgentCalls \ {c} : requested'[d] = requested[d]
    BY <1>2, <1>4 DEF AgentInv, AgentTyped, AgentDoings, Agent!OtherSteps
  <1>6. AgentSound(c, requested'[c])
    BY <1>1, <1>3, <1>5 DEF Agent!reconcile, AgentSound, AgentRowed, AgentUnperformed, AgentTruthful,
       Agent!OwnSteps, AgentClosing, AgentRows
  <1>7. UNCHANGED <<command, audited, performed, told>>
    BY DEF Agent!reconcile
  <1> QED
    BY <1>1, <1>5, <1>6, <1>7, AgentMoves
\* The row is reserved when there is none, and so before anything happened.
LEMMA AgentReserveStep == ASSUME AgentInv, NEW c \in AgentCalls, NEW i \in AgentInputs,
    Agent!Reserve(c, i) PROVE AgentInv'
  <1>1. command.state = "NONE" /\ UNCHANGED <<audited, performed, told>>
    BY DEF Agent!Reserve, Agent!Reservable
  <1>2. /\ \A d \in AgentCalls : requested[d].at = "idle" /\ requested[d].outcome = NoVersion
        /\ performed = {} /\ told = {}
    BY <1>1 DEF AgentInv, AgentSound, AgentRowed, AgentOnce, Agent!CommittedIsTrue
  <1>3. /\ command' \in AgentRows /\ command'.state = "RESERVED" /\ command'.owner = c
            /\ command'.input = i
    BY DEF Agent!Reserve, AgentRows
  <1>4. /\ requested' \in [AgentCalls -> AgentDoings]
        /\ \/ requested'[c].at = "audit" /\ requested'[c].input = i
           \/ requested'[c].at = "done"
        /\ \A d \in AgentCalls \ {c} : requested'[d] = requested[d]
    BY DEF Agent!Reserve, AgentInv, AgentTyped, Agent!Waiting, AgentDoings, Agent!OwnSteps
  <1>5. AgentTyped' /\ AgentOnce' /\ Agent!CommittedIsTrue'
    BY <1>1, <1>2, <1>3, <1>4 DEF AgentInv, AgentTyped, AgentOnce, Agent!CommittedIsTrue
  <1>6. \A d \in AgentCalls : AgentSound(d, requested[d])'
    BY <1>1, <1>2, <1>3, <1>4 DEF AgentSound, AgentRowed, AgentUnperformed, AgentTruthful,
       Agent!OwnSteps, AgentClosing
  <1> QED
    BY <1>5, <1>6 DEF AgentInv

\* The audit only grows, and a call goes on to what its entry allows.
LEMMA AgentAuditStep == ASSUME AgentInv, NEW c \in AgentCalls, Agent!Audit(c) PROVE AgentInv'
  <1> DEFINE r == requested[c]
  <1>1. command \in AgentRows
    BY AgentRowThere DEF Agent!Audit
  <1>2. UNCHANGED <<command, performed, told>> /\ requested \in [AgentCalls -> AgentDoings]
            /\ AgentSound(c, r) /\ r \in AgentDoings
    BY DEF Agent!Audit, AgentInv, AgentTyped
  <1>3. PICK s \in {"mark", "mark_succeeded", "close_mark", "close_mark_succeeded", "fail",
            "reconcile", "done"} :
           /\ Agent!Goto(c, s)
           /\ audited \subseteq audited'
           /\ s = "mark" => r.at = "audit" /\ "ATTEMPTED" \in audited'
           /\ s = "mark_succeeded" => r.at = "succeeded" /\ "SUCCEEDED" \in audited'
           /\ s = "close_mark" => r.at = "close_audit"
           /\ s = "close_mark_succeeded" => r.at = "close_succeeded" /\ "SUCCEEDED" \in audited'
           /\ s = "fail" => r.at = "audit"
           /\ s = "reconcile" => r.at = "succeeded"
    BY DEF Agent!Audit
  <1>4. /\ requested' \in [AgentCalls -> AgentDoings] /\ requested'[c] = [r EXCEPT !.at = s]
        /\ \A d \in AgentCalls \ {c} : requested'[d] = requested[d]
    BY <1>2, <1>3, AgentGotoMoves DEF Agent!OwnSteps, Agent!OtherSteps
  <1>5. /\ requested'[c].at = s /\ requested'[c].input = r.input /\ requested'[c].outcome = r.outcome
        /\ requested'[c].at # "idle"
    BY <1>2, <1>4 DEF AgentDoings
  <1>6. AgentRowed(c, requested[c])'
    BY <1>1, <1>2, <1>3, <1>5 DEF AgentSound, AgentRowed, Agent!OwnSteps, AgentClosing, AgentRows
  <1>7. AgentUnperformed(requested[c])'
    BY <1>2, <1>3, <1>5 DEF AgentSound, AgentUnperformed
  <1>8. AgentTruthful(requested[c])'
    BY <1>2, <1>3, <1>5 DEF AgentSound, AgentTruthful, AgentHappened
  <1> QED
    BY <1>1, <1>2, <1>3, <1>4, <1>6, <1>7, <1>8, AgentQuietSteps DEF AgentSound

\* The owner alone performs the tool, and nothing has happened before.
LEMMA AgentPerformStep == ASSUME AgentInv, NEW c \in AgentCalls, Agent!Perform(c) PROVE AgentInv'
  <1> DEFINE r == requested[c]
  <1>1. command \in AgentRows
    BY AgentRowThere DEF Agent!Perform
  <1>2. /\ UNCHANGED <<command, audited, told>> /\ requested \in [AgentCalls -> AgentDoings]
            /\ AgentSound(c, r) /\ r \in AgentDoings
        /\ r.at = "perform"
    BY DEF Agent!Perform, AgentInv, AgentTyped
  <1>3. performed = {} /\ "ATTEMPTED" \in audited /\ command.owner = c /\ r.input = command.input
    BY <1>2 DEF AgentSound, AgentUnperformed, AgentRowed, Agent!OwnSteps
  <1>4. CASE UNCHANGED performed /\ Agent!Goto(c, "reconcile")
    <2>1. AgentSound(c, [r EXCEPT !.at = "reconcile"])
      BY <1>1, <1>2 DEF AgentSound, AgentRowed, AgentUnperformed, AgentTruthful, Agent!OwnSteps,
         AgentClosing, AgentDoings
    <2>2. /\ requested' \in [AgentCalls -> AgentDoings] /\ requested'[c] = [r EXCEPT !.at = "reconcile"]
          /\ \A d \in AgentCalls \ {c} : requested'[d] = requested[d]
      BY <1>2, <1>4, AgentGotoMoves DEF Agent!OwnSteps
    <2> QED
      BY <1>1, <1>2, <1>4, <2>1, <2>2, AgentMoves
  <1>5. ASSUME NEW v \in AgentValues, performed' = performed \union {<<c, r.input, v>>},
               \/ requested' = [requested EXCEPT ![c].at = "succeeded", ![c].outcome = v]
               \/ Agent!Goto(c, "reconcile")
        PROVE  AgentInv'
    <2>1. performed' = {<<c, command.input, v>>}
      BY <1>3, <1>5
    <2>2. /\ requested' \in [AgentCalls -> AgentDoings]
          /\ \/ requested'[c].at = "succeeded" /\ requested'[c].outcome = v
             \/ requested'[c].at = "reconcile"
          /\ requested'[c].input = command.input
          /\ \A d \in AgentCalls \ {c} : requested'[d] = requested[d]
      BY <1>2, <1>3, <1>5 DEF Agent!Goto, AgentDoings, Agent!OwnSteps
    <2>3. AgentSound(c, requested[c])'
      BY <1>1, <1>2, <1>3, <2>1, <2>2 DEF AgentSound, AgentRowed, AgentUnperformed, AgentTruthful,
         AgentHappened, Agent!OwnSteps, AgentClosing, AgentRows
    <2>4. \A d \in AgentCalls \ {c} : AgentSound(d, requested[d])'
      BY <1>2, <1>3, <2>1, <2>2, AgentStaysSound DEF AgentInv
    <2>5. AgentTyped'
      BY <1>1, <1>2, <2>1, <2>2 DEF AgentTyped, AgentRows
    <2>6. AgentOnce'
      BY <1>1, <1>2, <1>3, <2>1 DEF AgentOnce, AgentRows
    <2>7. Agent!CommittedIsTrue'
      BY <1>2, <1>3 DEF AgentInv, Agent!CommittedIsTrue
    <2> QED
      BY <2>3, <2>4, <2>5, <2>6, <2>7 DEF AgentInv
  <1> QED
    BY <1>4, <1>5 DEF Agent!Perform
\* Every step keeps the invariant.
LEMMA AgentStep == AgentInv /\ [Agent!Next]_Agent!vars => AgentInv'
  <1> SUFFICES ASSUME AgentInv, [Agent!Next]_Agent!vars PROVE AgentInv'
    OBVIOUS
  <1>1. CASE UNCHANGED Agent!vars
    BY <1>1 DEF Agent!vars, AgentInv, AgentTyped, AgentSound, AgentRowed, AgentUnperformed,
       AgentTruthful, AgentHappened, AgentOnce, Agent!CommittedIsTrue
  <1>2. CASE Agent!Lapse
    BY <1>2, AgentLapseStep
  <1>3. ASSUME NEW c \in AgentCalls, Agent!Step(c) PROVE AgentInv'
    BY <1>3, AgentReserveStep, AgentExistingStep, AgentReconcileStep, AgentLapsedStep, AgentAuditStep,
       AgentOwnerSteps, AgentPerformStep,
       AgentAnswerSteps, AgentCloseStep, AgentDieStep DEF Agent!Step
  <1> QED
    BY <1>1, <1>2, <1>3 DEF Agent!Next

\* The behaviours are those of the component, or leave it as it is.
LEMMA AgentBehaves == Behaviours => Agent!Spec
  <1>1. Start => Agent!Init
    BY DEF Start
  <1>2. [Step]_everything => [Agent!Next]_Agent!vars
    BY DEF Step, everything, agent_vars, Agent!vars
  <1> QED
    BY <1>1, <1>2, PTL DEF Behaviours, Agent!Spec

\* The instance has a Cardinality of its own, which is the one the lemmas of sets are about.
LEMMA AgentCardinality == \A S : Agent!Cardinality(S) = Cardinality(S)
  BY Zenon DEF Agent!Cardinality, Cardinality

\* However often a consequential command of the agent is repeated, taken for lost and closed, its
\* tool takes effect once at most, after the audit of the attempt, and what callers are told is the
\* result it was committed with, which the tool gave for the same input.
THEOREM CommandsAreSafe == Behaviours => []CommandIsSafe
  <1>1. ASSUME AgentInv PROVE CommandIsSafe
    <2>1. performed = {} \/ \E p : performed = {p}
      BY <1>1 DEF AgentInv, AgentOnce
    <2>2. Cardinality(performed) \in {0, 1}
      <3>1. Cardinality({}) = 0 /\ \A p : Cardinality({p}) = 1
        BY FS_EmptySet, FS_Singleton, Zenon
      <3> QED
        BY <2>1, <3>1
    <2>3. Agent!Cardinality(performed) \in {0, 1}
      BY <2>2, AgentCardinality
    <2> QED
      BY <1>1, <2>3 DEF AgentInv, AgentOnce, CommandIsSafe, Agent!CommandIsSafe, Agent!PerformedOnce
  <1>2. AgentInv /\ [Agent!Next]_Agent!vars => AgentInv'
    BY AgentStep
  <1> QED
    BY <1>1, <1>2, AgentInit, AgentBehaves, PTL DEF Agent!Spec

-----------------------------------------------------------------------------
(* DashboardRefresh, whose proofs have a module of their own.              *)

\* The instances differ in what may be late: with delays only the rows are kept.
RefreshesInv == IF scenario = "late" THEN Delayed!RefreshRows ELSE Prompt!RefreshInv

\* The behaviours begin with no refresh.
LEMMA RefreshesBegin == Start => RefreshesInv
  BY RefreshAssumption, Prompt!RefreshBegins, Delayed!RefreshRowsBegin DEF Start, RefreshesInv

\* A step of the behaviours is one of the refreshes, or leaves them as they are.
LEMMA RefreshesStep ==
    [Step]_everything =>
        /\ scenario' = scenario
        /\ IF scenario = "late" THEN [Delayed!Next]_Delayed!vars ELSE [Prompt!Next]_Prompt!vars
  BY DEF Step, everything, refresh_vars, Prompt!vars, Delayed!vars

\* Every step keeps what the scenario has to keep.
LEMMA RefreshesStay == RefreshesInv /\ [Step]_everything => RefreshesInv'
  <1> SUFFICES ASSUME RefreshesInv, [Step]_everything PROVE RefreshesInv'
    OBVIOUS
  <1>1. CASE scenario = "late"
    <2>1. Delayed!RefreshRows /\ [Delayed!Next]_Delayed!vars
      BY <1>1, RefreshesStep DEF RefreshesInv
    <2>2. Delayed!RefreshRows'
      BY <2>1, RefreshAssumption, Delayed!RefreshRowsStay
    <2> QED
      BY <1>1, <2>2, RefreshesStep DEF RefreshesInv
  <1>2. CASE scenario # "late"
    <2>1. Prompt!RefreshInv /\ [Prompt!Next]_Prompt!vars
      BY <1>2, RefreshesStep DEF RefreshesInv
    <2>2. Prompt!RefreshInv'
      BY <2>1, RefreshAssumption, Prompt!RefreshStep
    <2> QED
      BY <1>2, <2>2, RefreshesStep DEF RefreshesInv
  <1> QED
    BY <1>1, <1>2

\* And it leads to no snapshot that was computed earlier.
LEMMA RefreshesMoveForward ==
    RefreshesInv /\ [Step]_everything =>
        [Delayed!TimeOf(pointer) <= Delayed!TimeOf(pointer')]_Delayed!vars
  <1> SUFFICES ASSUME RefreshesInv, [Step]_everything
               PROVE  Delayed!TimeOf(pointer) <= Delayed!TimeOf(pointer')
    OBVIOUS
  <1>1. CASE scenario = "late"
    BY <1>1, RefreshesStep, RefreshAssumption, Delayed!RefreshForward DEF RefreshesInv
  <1>2. CASE scenario # "late"
    <2>1. Prompt!RefreshRows /\ [Prompt!Next]_Prompt!vars
      BY <1>2, RefreshesStep DEF RefreshesInv, Prompt!RefreshInv
    <2>2. Prompt!TimeOf(pointer) <= Prompt!TimeOf(pointer')
      BY <2>1, RefreshAssumption, Prompt!RefreshForward
    <2> QED
      BY <2>2 DEF Prompt!TimeOf, Delayed!TimeOf
  <1> QED
    BY <1>1, <1>2

\* Behaviours keep the rows of the refreshes.
LEMMA RefreshesKept == Behaviours => []RefreshesInv
  BY RefreshesBegin, RefreshesStay, PTL DEF Behaviours

\* The refresh of the input that changed last is the one that is shown when it has committed, and
\* each trigger is in the refresh that its key names.
THEOREM RefreshesAreSafe == Behaviours => []RefreshIsSafe
  <1>1. RefreshesInv => RefreshIsSafe
    BY DEF RefreshesInv, RefreshIsSafe, Prompt!RefreshInv
  <1> QED
    BY <1>1, RefreshesKept, PTL

\* The dashboard never goes back to a snapshot that was computed earlier, though leases expire,
\* runs are late and what was closed is recovered.
THEOREM SnapshotsNeverGoBack == Behaviours => SnapshotsMoveForward
  <1>1. RefreshesInv /\ [Step]_everything =>
          [Delayed!TimeOf(pointer) <= Delayed!TimeOf(pointer')]_Delayed!vars
    BY RefreshesMoveForward
  <1> QED
    BY <1>1, RefreshesKept, PTL DEF Behaviours, SnapshotsMoveForward, Delayed!SnapshotsMoveForward

-----------------------------------------------------------------------------
(* Conversation, whose proofs have a module of their own.                   *)

\* The instances differ in the calls there are.
ConversationsInv ==
    IF scenario = "context" THEN Context!ConversationInv ELSE Dialogue!ConversationInv

\* The bound of the versions is one of both.
LEMMA ConversationsBounded == Dialogue!ConversationConstants /\ Context!ConversationConstants
  BY ConversationAssumption DEF Dialogue!ConversationConstants, Context!ConversationConstants

\* The behaviours begin with no message.
LEMMA ConversationsBegin == Start => ConversationsInv
  BY ConversationsBounded, Dialogue!ConversationBegins, Context!ConversationBegins
     DEF Start, ConversationsInv

\* A step of the behaviours is one of the conversation, or leaves it as it is.
LEMMA ConversationsStep ==
    [Step]_everything =>
        /\ scenario' = scenario
        /\ IF scenario = "context" THEN [Context!Next]_Context!vars ELSE [Dialogue!Next]_Dialogue!vars
  BY DEF Step, everything, conversation_vars, Dialogue!vars, Context!vars

\* Every step keeps what the scenario has to keep.
LEMMA ConversationsStay == ConversationsInv /\ [Step]_everything => ConversationsInv'
  <1> SUFFICES ASSUME ConversationsInv, [Step]_everything PROVE ConversationsInv'
    OBVIOUS
  <1>1. CASE scenario = "context"
    <2>1. Context!ConversationInv /\ [Context!Next]_Context!vars
      BY <1>1, ConversationsStep DEF ConversationsInv
    <2>2. Context!ConversationInv'
      BY <2>1, ConversationsBounded, Context!ConversationKeeps
    <2> QED
      BY <1>1, <2>2, ConversationsStep DEF ConversationsInv
  <1>2. CASE scenario # "context"
    <2>1. Dialogue!ConversationInv /\ [Dialogue!Next]_Dialogue!vars
      BY <1>2, ConversationsStep DEF ConversationsInv
    <2>2. Dialogue!ConversationInv'
      BY <2>1, ConversationsBounded, Dialogue!ConversationKeeps
    <2> QED
      BY <1>2, <2>2, ConversationsStep DEF ConversationsInv
  <1> QED
    BY <1>1, <1>2

\* However turns, their repetitions and changes of the context overlap, messages and context events
\* have one numbering without a gap, an answer comes after its question and is stored before a client
\* is given one, and the changes that are recorded are those that happened.
THEOREM ConversationsAreSafe == Behaviours => []ConversationIsSafe
  <1>1. ConversationsInv => ConversationIsSafe
    BY DEF ConversationsInv, ConversationIsSafe, Dialogue!ConversationInv, Context!ConversationInv
  <1> QED
    BY <1>1, ConversationsBegin, ConversationsStay, PTL DEF Behaviours

-----------------------------------------------------------------------------
(* Types, whatever the scenario.                                            *)

\* The types of DashboardPublication that no step relies on.
PublicationShown ==
    /\ now \in 0 .. MaxTime
    /\ versions \subseteq PublicationVersions
    /\ decided \subseteq Publication!A!Decisions
    /\ faults \in 0 .. PublicationMaxFaults

\* There are a first version and no decision at first.
LEMMA PublicationShownBegins == Publication!Init => PublicationShown
  BY PublicationAssumption, ApprovalAssumption
     DEF Publication!Init, Publication!A!Init, PublicationShown

\* Every step keeps them.
LEMMA PublicationShownStays ==
    ASSUME PublicationShown, [Publication!Next]_Publication!vars PROVE PublicationShown'
  <1> USE PublicationAssumption, ApprovalAssumption DEF PublicationShown
  <1>1. CASE UNCHANGED <<now, versions, decided, faults>>
    BY <1>1
  <1>2. CASE UNCHANGED Publication!vars
    BY <1>1, <1>2 DEF Publication!vars, Publication!dashboard, Publication!worker
  <1>3. CASE Publication!Tick
    BY <1>3 DEF Publication!Tick, Publication!dashboard, Publication!worker
  <1>4. ASSUME NEW r \in PublicationRequests,
               Publication!Overdue(r) \/ \E a \in PublicationActors, v \in PublicationVersions :
                                             Publication!Open(r, a, v)
        PROVE  PublicationShown'
    BY <1>1, <1>4 DEF Publication!Overdue, Publication!Open, Publication!A!Expire,
       Publication!A!openRequest, Publication!dashboard, Publication!worker
  <1>5. ASSUME NEW d \in Publication!A!Decisions, Publication!Decide(d) PROVE PublicationShown'
    BY <1>5 DEF Publication!Decide, Publication!A!decide, Publication!dashboard, Publication!worker
  <1>6. ASSUME NEW v \in PublicationVersions, Publication!commitAuthoringVersion(v)
        PROVE  PublicationShown'
    BY <1>6 DEF Publication!commitAuthoringVersion, Publication!worker
  <1>7. ASSUME NEW c \in PublicationCallers,
               \/ \E v \in PublicationVersions, k \in PublicationKeys : Publication!Publish(c, v, k)
               \/ Publication!Admit(c) \/ Publication!Approve(c) \/ Publication!commitPublication(c)
               \/ Publication!Drop(c)
        PROVE  PublicationShown'
    BY <1>1, <1>7 DEF Publication!Publish, Publication!Admit, Publication!Approve,
       Publication!commitPublication, Publication!Drop, Publication!dashboard, Publication!worker
  <1>8. ASSUME NEW w \in PublicationWorkers, Publication!Dispatch(w) PROVE PublicationShown'
    BY <1>1, <1>8 DEF Publication!Dispatch, Publication!claimNext, Publication!Invalidate,
       Publication!Mark, Publication!A!invalidatePriorVersion, Publication!dashboard
  <1>9. ASSUME NEW w \in PublicationWorkers, Publication!InvalidateFails(w) \/ Publication!Crash(w)
        PROVE  PublicationShown'
    BY <1>9 DEF Publication!InvalidateFails, Publication!Crash, Publication!dashboard
  <1>10. ASSUME NEW o \in outbox, Publication!Lapse(o) PROVE PublicationShown'
    BY <1>1, <1>10 DEF Publication!Lapse, Publication!worker
  <1> QED
    BY <1>2, <1>3, <1>4, <1>5, <1>6, <1>7, <1>8, <1>9, <1>10 DEF Publication!Next

\* Together with the invariant they are the types of publication.
LEMMA PublicationTypes == Behaviours => []Publication!TypeOK
  <1>1. PublicationInv /\ PublicationShown => Publication!TypeOK
    BY DEF PublicationInv, PublicationTyped, PublicationShown, PublicationBoards, PublicationRows,
       Publication!TypeOK, Publication!A!TypeOK
  <1>2. MaxTime \in Nat \ {0}
    BY ApprovalAssumption
  <1>3. PublicationInv /\ [Publication!Next]_Publication!vars => PublicationInv'
    BY <1>2, PublicationStep
  <1>4. PublicationShown /\ [Publication!Next]_Publication!vars => PublicationShown'
    BY PublicationShownStays
  <1> QED
    BY <1>1, <1>3, <1>4, PublicationInit, PublicationShownBegins, PublicationBehaves, PTL
       DEF Publication!Spec

\* The types of AgentCommand that no step relies on.
AgentShown ==
    /\ audited \subseteq {"ATTEMPTED", "SUCCEEDED"}
    /\ told \subseteq AgentInputs \X AgentValues
    /\ deaths \in 0 .. AgentMaxFaults

\* Nothing was told or audited at first.
LEMMA AgentShownBegins == Agent!Init => AgentShown
  BY AgentAssumption DEF Agent!Init, AgentShown

\* What is replayed is the value of a command that is committed, with the input it came under.
LEMMA AgentReplays ==
    ASSUME AgentInv, AgentShown, NEW c \in AgentCalls, Agent!Replay(c), command.state = "COMMITTED",
           requested[c].input = command.input, UNCHANGED <<audited, deaths>>
    PROVE  AgentShown'
  <1>1. command \in AgentRows
    BY DEF AgentInv, AgentTyped, Agent!NoCommand
  <1>2. command.value \in AgentValues /\ command.input \in AgentInputs
    BY <1>1 DEF AgentInv, AgentTyped, Agent!CommittedIsTrue, AgentRows
  <1> QED
    BY <1>2 DEF Agent!Replay, AgentShown

\* Every step keeps them.
LEMMA AgentShownStays ==
    ASSUME AgentInv, AgentShown, [Agent!Next]_Agent!vars PROVE AgentShown'
  <1>1. deaths \in 0 .. AgentMaxFaults /\ AgentMaxFaults \in Nat
    BY AgentAssumption DEF AgentShown
  <1>2. CASE /\ UNCHANGED <<audited, told>>
             /\ deaths' = deaths \/ (deaths < AgentMaxFaults /\ deaths' = deaths + 1)
    BY <1>1, <1>2 DEF AgentShown
  <1>3. CASE UNCHANGED Agent!vars
    BY <1>2, <1>3 DEF Agent!vars
  <1>4. CASE Agent!Lapse
    BY <1>2, <1>4 DEF Agent!Lapse
  <1>5. ASSUME NEW c \in AgentCalls, Agent!Step(c) PROVE AgentShown'
    <2>1. ASSUME NEW i \in AgentInputs, Agent!Reserve(c, i) \/ Agent!reconcile(c, i)
          PROVE  AgentShown'
      BY <1>2, <2>1 DEF Agent!Reserve, Agent!reconcile
    <2>2. ASSUME NEW i \in AgentInputs, Agent!existing(c, i) PROVE AgentShown'
      <3>1. command.state = "COMMITTED" => command.value \in AgentValues
        BY DEF AgentInv, AgentTyped, Agent!CommittedIsTrue
      <3> QED
        BY <3>1, <2>2 DEF Agent!existing, AgentShown
    <2>3. CASE Agent!Audit(c)
      <3>1. \E outcome \in {"ATTEMPTED", "SUCCEEDED"} :
               audited' \in {audited, audited \union {outcome}}
        BY <2>3 DEF Agent!Audit
      <3> QED
        BY <2>3, <3>1 DEF Agent!Audit, AgentShown
    <2>4. CASE \/ Agent!Lapsed(c) \/ Agent!Fail(c) \/ Agent!markAuditAttempted(c)
               \/ Agent!markAuditSucceeded(c) \/ Agent!commit(c) \/ Agent!reconcileReservation(c)
      BY <1>2, <2>4 DEF Agent!Lapsed, Agent!Fail, Agent!markAuditAttempted,
         Agent!markAuditSucceeded, Agent!commit, Agent!reconcileReservation, Agent!Update
    <2>5. CASE Agent!Close(c)
      BY <1>2, <2>5 DEF Agent!Close, Agent!Update
    <2>6. CASE Agent!Perform(c) \/ Agent!Die(c)
      BY <1>2, <2>6 DEF Agent!Perform, Agent!Die
    <2>7. CASE Agent!Answer(c) \/ Agent!Reread(c)
      <3>1. CASE UNCHANGED told
        BY <1>2, <2>7, <3>1 DEF Agent!Answer, Agent!Reread
      <3>2. CASE Agent!Replay(c) /\ command.state = "COMMITTED"
        <4>1. requested[c].at \in Agent!OwnSteps \union AgentClosing \union {"tell", "close_recheck"}
          BY <2>7 DEF Agent!Answer, Agent!Reread, Agent!OwnSteps, AgentClosing
        <4>2. requested[c].input = command.input
          BY <4>1 DEF AgentInv, AgentSound, AgentRowed
        <4>3. UNCHANGED <<audited, deaths>>
          BY <2>7 DEF Agent!Answer, Agent!Reread
        <4> QED
          BY <3>2, <4>2, <4>3, AgentReplays
      <3> QED
        BY <2>7, <3>1, <3>2 DEF Agent!Answer, Agent!Reread
    <2> QED
      BY <1>5, <2>1, <2>2, <2>3, <2>4, <2>5, <2>6, <2>7 DEF Agent!Step
  <1> QED
    BY <1>3, <1>4, <1>5 DEF Agent!Next

\* Together with the invariant they are the types of the command.
LEMMA AgentTypes == Behaviours => []Agent!TypeOK
  <1>1. AgentInv /\ AgentShown => Agent!TypeOK
    BY DEF AgentInv, AgentTyped, AgentRows, AgentDoings, AgentShown, Agent!TypeOK
  <1>2. AgentInv /\ [Agent!Next]_Agent!vars => AgentInv'
    BY AgentStep
  <1>3. AgentInv /\ AgentShown /\ [Agent!Next]_Agent!vars => AgentShown'
    BY AgentShownStays
  <1> QED
    BY <1>1, <1>2, <1>3, AgentInit, AgentShownBegins, AgentBehaves, PTL DEF Agent!Spec

\* What the processes of refreshes remember, with and without delays.
RefreshesShown == IF scenario = "late" THEN Delayed!RefreshShown ELSE Prompt!RefreshShown

\* The instances have a finiteness of their own, which is the one of the assumption.
LEMMA RefreshRunsFinite ==
    Prompt!IsFiniteSet(RefreshWorkers) /\ Delayed!IsFiniteSet(RefreshWorkers)
  <1>1. /\ Prompt!IsFiniteSet(RefreshWorkers) = IsFiniteSet(RefreshWorkers)
        /\ Delayed!IsFiniteSet(RefreshWorkers) = IsFiniteSet(RefreshWorkers)
    BY Zenon DEF Prompt!IsFiniteSet, Delayed!IsFiniteSet, IsFiniteSet
  <1> QED
    BY <1>1, RefreshAssumption

\* The behaviours begin with nothing remembered.
LEMMA RefreshesShownBegin == Start => RefreshesShown
  BY RefreshAssumption, RefreshRunsFinite, Prompt!RefreshShownBegins, Delayed!RefreshShownBegins
     DEF Start, RefreshesShown

\* Every step keeps the types of what they remember.
LEMMA RefreshesShownStay ==
    RefreshesInv /\ RefreshesInv' /\ RefreshesShown /\ [Step]_everything => RefreshesShown'
  <1> SUFFICES ASSUME RefreshesInv, RefreshesInv', RefreshesShown, [Step]_everything
               PROVE  RefreshesShown'
    OBVIOUS
  <1>1. CASE scenario = "late"
    <2>1. /\ Delayed!RefreshRows /\ Delayed!RefreshRows' /\ Delayed!RefreshShown
          /\ [Delayed!Next]_Delayed!vars
      BY <1>1, RefreshesStep DEF RefreshesInv, RefreshesShown
    <2>2. Delayed!RefreshShown'
      BY <2>1, RefreshAssumption, RefreshRunsFinite, Delayed!RefreshShownStays
    <2> QED
      BY <1>1, <2>2, RefreshesStep DEF RefreshesShown
  <1>2. CASE scenario # "late"
    <2>1. /\ Prompt!RefreshRows /\ Prompt!RefreshRows' /\ Prompt!RefreshShown
          /\ [Prompt!Next]_Prompt!vars
      BY <1>2, RefreshesStep DEF RefreshesInv, RefreshesShown, Prompt!RefreshInv
    <2>2. Prompt!RefreshShown'
      BY <2>1, RefreshAssumption, RefreshRunsFinite, Prompt!RefreshShownStays
    <2> QED
      BY <1>2, <2>2, RefreshesStep DEF RefreshesShown
  <1> QED
    BY <1>1, <1>2

\* Triggers, runs and snapshots keep their types, prompt or late.
LEMMA RefreshTypes ==
    Behaviours => [](/\ scenario = "prompt" => Prompt!TypeOK
                     /\ scenario = "late" => Delayed!TypeOK)
  <1>1. RefreshesInv /\ RefreshesShown => /\ scenario = "prompt" => Prompt!TypeOK
                                          /\ scenario = "late" => Delayed!TypeOK
    BY RefreshRunsFinite, Prompt!RefreshTyped, Delayed!RefreshTyped
       DEF RefreshesInv, RefreshesShown, Prompt!RefreshInv
  <1> QED
    BY <1>1, RefreshesBegin, RefreshesStay, RefreshesShownBegin, RefreshesShownStay, PTL DEF Behaviours

\* What the calls of a conversation have been given, with turns and without.
ConversationsShown ==
    IF scenario = "context" THEN Context!ConversationShown ELSE Dialogue!ConversationShown

\* The calls of both are finitely many.
LEMMA ConversationCallsFinite == Dialogue!CallsAreFinite /\ Context!CallsAreFinite
  <1>1. /\ Dialogue!IsFiniteSet(DialogueTurns) = IsFiniteSet(DialogueTurns)
        /\ Dialogue!IsFiniteSet(DialogueAdvances) = IsFiniteSet(DialogueAdvances)
        /\ Context!IsFiniteSet(ContextAdvances) = IsFiniteSet(ContextAdvances)
        /\ Context!IsFiniteSet({}) = IsFiniteSet({})
    BY Zenon DEF Dialogue!IsFiniteSet, Context!IsFiniteSet, IsFiniteSet
  <1>2. IsFiniteSet({})
    BY FS_EmptySet
  <1> QED
    BY <1>1, <1>2, ConversationAssumption DEF Dialogue!CallsAreFinite, Context!CallsAreFinite

\* The behaviours begin with nothing given.
LEMMA ConversationsShownBegin == Start => ConversationsShown
  BY ConversationCallsFinite, Dialogue!ShownBegins, Context!ShownBegins DEF Start, ConversationsShown

\* Every step keeps what is counted.
LEMMA ConversationsShownStay ==
    ConversationsInv /\ ConversationsShown /\ [Step]_everything => ConversationsShown'
  <1> SUFFICES ASSUME ConversationsInv, ConversationsShown, [Step]_everything
               PROVE  ConversationsShown'
    OBVIOUS
  <1>1. CASE scenario = "context"
    <2>1. Context!ConversationInv /\ Context!ConversationShown /\ [Context!Next]_Context!vars
      BY <1>1, ConversationsStep DEF ConversationsInv, ConversationsShown
    <2>2. Context!ConversationShown'
      BY <2>1, ConversationCallsFinite, Context!ShownStays
    <2> QED
      BY <1>1, <2>2, ConversationsStep DEF ConversationsShown
  <1>2. CASE scenario # "context"
    <2>1. Dialogue!ConversationInv /\ Dialogue!ConversationShown /\ [Dialogue!Next]_Dialogue!vars
      BY <1>2, ConversationsStep DEF ConversationsInv, ConversationsShown
    <2>2. Dialogue!ConversationShown'
      BY <2>1, ConversationCallsFinite, Dialogue!ShownStays
    <2> QED
      BY <1>2, <2>2, ConversationsStep DEF ConversationsShown
  <1> QED
    BY <1>1, <1>2

\* Messages, events and what callers are told keep their types, with turns and without.
LEMMA ConversationTypes ==
    Behaviours => [](/\ scenario = "turns" => Dialogue!TypeOK
                     /\ scenario = "context" => Context!TypeOK)
  <1>1. ConversationsInv /\ ConversationsShown => /\ scenario = "turns" => Dialogue!TypeOK
                                                  /\ scenario = "context" => Context!TypeOK
    BY ConversationCallsFinite, Dialogue!ConversationTyped, Context!ConversationTyped
       DEF ConversationsInv, ConversationsShown
  <1> QED
    BY <1>1, ConversationsBegin, ConversationsStay, ConversationsShownBegin, ConversationsShownStay, PTL
       DEF Behaviours

\* The scenario is one of those there are, and never changes.
LEMMA ScenarioTypes ==
    Behaviours => [](scenario \in {"approvals", "publication", "etl", "prompt", "late", "notifications",
                                   "stream", "authoring", "agent", "turns", "context"})
  <1> DEFINE Known == scenario \in {"approvals", "publication", "etl", "prompt", "late", "notifications",
                                    "stream", "authoring", "agent", "turns", "context"}
  <1>1. Start => Known
    BY DEF Start
  <1>2. Known /\ [Step]_everything => Known'
    BY DEF Step, everything
  <1> QED
    BY <1>1, <1>2, PTL DEF Behaviours

\* Requests for approval and their decisions keep their types.
LEMMA ApprovalTypes == Behaviours => []TypeOK
  <1>1. Start => Init
    BY DEF Start
  <1>2. [Step]_everything => [Next]_approvals
    BY DEF Step, everything, approval_vars, approvals
  <1>3. ApprovalsInv => TypeOK
    BY DEF ApprovalsInv
  <1> QED
    BY <1>1, <1>2, <1>3, ApprovalsInvariant, PTL DEF Behaviours, Spec

\* Commands, dataset versions and the answers keep their types.
LEMMA EtlTypes == Behaviours => []Etl!TypeOK
  <1>1. EtlInv => Etl!TypeOK
    BY DEF EtlInv
  <1>2. EtlInv /\ [Etl!Next]_Etl!vars => EtlInv'
    BY EtlStep
  <1> QED
    BY <1>1, <1>2, EtlInit, EtlBehaves, PTL DEF Etl!Spec

\* Events, checkpoints and notifications keep their types.
LEMMA NotificationTypes == Behaviours => []Notifications!TypeOK
  <1>1. NotificationInv => Notifications!TypeOK
    BY DEF NotificationInv
  <1>2. NotificationInv /\ [Notifications!Next]_Notifications!vars => NotificationInv'
    BY NotificationStep
  <1> QED
    BY <1>1, <1>2, NotificationInit, NotificationBehaves, PTL DEF Notifications!Spec

\* Streams and what they send keep their types.
LEMMA StreamTypes == Behaviours => []Stream!TypeOK
  <1>1. StreamInv => Stream!TypeOK
    BY DEF StreamInv
  <1>2. StreamInv /\ [Stream!Next]_Stream!vars => StreamInv'
    BY StreamStep
  <1> QED
    BY <1>1, <1>2, StreamInit, StreamBehaves, PTL DEF Stream!Spec

\* Drafts, commands and proposals keep their types.
LEMMA AuthoringTypes == Behaviours => []Authoring!TypeOK
  <1>1. AuthoringInv => Authoring!TypeOK
    BY DEF AuthoringInv
  <1>2. AuthoringInv /\ [Authoring!Next]_Authoring!vars => AuthoringInv'
    BY AuthoringStep
  <1> QED
    BY <1>1, <1>2, AuthoringInit, AuthoringBehaves, PTL DEF Authoring!Spec

\* Whatever the scenario, every variable has its type: no step of any component, in any number and
\* order, leaves a row, a revision or a counter outside the bounds the code and the schema give it.
THEOREM TypesHold == Behaviours => []TypesOK
  <1> DEFINE Known == scenario \in {"approvals", "publication", "etl", "prompt", "late", "notifications",
                                    "stream", "authoring", "agent", "turns", "context"}
             Refreshes == /\ scenario = "prompt" => Prompt!TypeOK
                          /\ scenario = "late" => Delayed!TypeOK
             Conversations == /\ scenario = "turns" => Dialogue!TypeOK
                              /\ scenario = "context" => Context!TypeOK
  <1>1. /\ Known /\ TypeOK /\ Publication!TypeOK /\ Etl!TypeOK /\ Refreshes /\ Notifications!TypeOK
        /\ Stream!TypeOK /\ Authoring!TypeOK /\ Agent!TypeOK /\ Conversations
        => TypesOK
    BY DEF TypesOK
  <1> QED
    BY <1>1, ScenarioTypes, ApprovalTypes, PublicationTypes, EtlTypes, RefreshTypes, NotificationTypes,
       StreamTypes, AuthoringTypes, AgentTypes, ConversationTypes, PTL
=============================================================================
