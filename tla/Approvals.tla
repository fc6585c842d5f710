------------------------------ MODULE Approvals ------------------------------
(***************************************************************************)
(* Approval requests and their decisions (ApprovalService over the Prisma  *)
(* approval repository).  Every handler runs in one Serializable           *)
(* transaction, so it is one step here; the revision an update compares is *)
(* the one read in the same transaction and is left out.  Policies are     *)
(* immutable: each version of a subject has one, with the number of        *)
(* approvals it wants.  Decision times are the client's: any time at all.  *)
(***************************************************************************)
EXTENDS Naturals, FiniteSets

CONSTANTS Requests,        \* request identifiers
          Versions,        \* versions of the one subject; a version is its hash
          Actors,          \* members who open and decide
          Eligible,        \* members whose role the policy accepts
          MinApprovals,    \* minimumApprovals of the policy
          SelfApproval,    \* selfApprovalAllowed of the policy
          MaxTime,         \* bound of the clocks
          Repeats          \* TRUE: a client may send a decision again

ASSUME ApprovalAssumption ==
    /\ Eligible \subseteq Actors
    /\ IsFiniteSet(Actors)
    /\ MinApprovals \in Nat \ {0}
    /\ MaxTime \in Nat \ {0}
    /\ {SelfApproval, Repeats} \subseteq BOOLEAN

VARIABLES requests,   \* request id -> row, or None
          decisions   \* decision rows; one per request and actor is the database's key

approvals == <<requests, decisions>>

None == [status |-> "NONE"]
Statuses == {"OPEN", "APPROVED", "REJECTED", "EXPIRED", "CANCELLED"}

Rows == [version : Versions, hash : Versions, requestedBy : Actors,
         due : 1 .. MaxTime, status : Statuses]
Decisions == [request : Requests, actor : Actors, decision : {"APPROVE", "REJECT"}]

Live(r) == requests[r].status \in {"OPEN", "APPROVED"}

Init ==
    /\ requests = [r \in Requests |-> None]
    /\ decisions = {}

\* openRequest: the caller is the requester (the controller compares), the due
\* time is the earlier of the caller's and the policy's.
openRequest(r, a, v, h, due) ==
    /\ requests[r] = None
    /\ requests' = [requests EXCEPT ![r] =
                      [version |-> v, hash |-> h, requestedBy |-> a, due |-> due, status |-> "OPEN"]]
    /\ UNCHANGED decisions

\* decide, when the given time is past the due time: the status is not looked at.
Expire(r, at) ==
    /\ requests[r] # None
    /\ requests[r].due =< at
    /\ requests' = [requests EXCEPT ![r].status = "EXPIRED"]
    /\ UNCHANGED decisions

\* (Mutant of ApprovedCount: one approval too many is counted.)
ApprovedCountPlus(d) ==
    Cardinality({e \in decisions : e.request = d.request /\ e.decision = "APPROVE"}) + 1
      + (IF d.decision = "APPROVE" THEN 1 ELSE 0)

\* The approvals stored for the request, and this one.
ApprovedCount(d) ==
    Cardinality({e \in decisions : e.request = d.request /\ e.decision = "APPROVE"})
      + (IF d.decision = "APPROVE" THEN 1 ELSE 0)

\* createApprovalDecisionV1: who may decide on which request.
MayDecide(d, at) ==
    LET row == requests[d.request] IN
    /\ row # None
    /\ at < row.due
    /\ d.actor \in Eligible
    /\ row.status = "OPEN"
    /\ SelfApproval \/ d.actor # row.requestedBy

\* saveDecision: the same record again is accepted, another one of the same
\* actor is JRA_DUPLICATE_DECISION.
Savable(d) ==
    \/ Repeats /\ d \in decisions
    \/ \A e \in decisions : <<e.request, e.actor>> # <<d.request, d.actor>>

\* applyApprovalDecisionV1
Outcome(d) ==
    IF d.decision = "REJECT" THEN "REJECTED"
    ELSE IF ApprovedCount(d) >= MinApprovals THEN "APPROVED" ELSE "OPEN"

decide(d, at) ==
    /\ MayDecide(d, at)
    /\ Savable(d)
    /\ requests' = [requests EXCEPT ![d.request].status = Outcome(d)]
    /\ decisions' = decisions \cup {d}

\* What the invalidations write.
Cancelled(S) == [r \in Requests |-> IF r \in S THEN [requests[r] EXCEPT !.status = "CANCELLED"]
                                               ELSE requests[r]]

\* invalidatePriorVersion cancels what waits for or has an approval of the version.
invalidatePriorVersion(v) ==
    /\ requests' = Cancelled({r \in Requests : Live(r) /\ requests[r].version = v})
    /\ UNCHANGED decisions

\* (Mutant of invalidateMaterialChange: what was cancelled is opened again.)
reopenMaterialChange(v, h) ==
    /\ requests' = [r \in Requests |->
           IF requests[r].status = "CANCELLED" /\ <<requests[r].version, requests[r].hash>> = <<v, h>>
           THEN [requests[r] EXCEPT !.status = "APPROVED"] ELSE requests[r]]
    /\ UNCHANGED decisions

\* invalidateMaterialChange cancels what is not of this version and hash.
invalidateMaterialChange(v, h) ==
    /\ requests' = Cancelled({r \in Requests : Live(r) /\ <<requests[r].version, requests[r].hash>> # <<v, h>>})
    /\ UNCHANGED decisions

\* findCurrentApproved: an approved request of the version with its hash, not overdue.
CurrentApproved(v, now) ==
    {r \in Requests : /\ requests[r].status = "APPROVED"
                      /\ requests[r].version = v /\ requests[r].hash = v
                      /\ requests[r].due > now}

Deciding ==
    \/ \E r \in Requests, a \in Actors, v, h \in Versions, due \in 1 .. MaxTime :
           openRequest(r, a, v, h, due)
    \/ \E r \in Requests, at \in 0 .. MaxTime : Expire(r, at)
    \/ \E d \in Decisions, at \in 0 .. MaxTime : decide(d, at)

Invalidating ==
    \/ \E v \in Versions : invalidatePriorVersion(v)
    \/ \E v, h \in Versions : invalidateMaterialChange(v, h)

Next == Deciding \/ Invalidating

Spec == Init /\ [][Next]_approvals

-----------------------------------------------------------------------------
\* Rows and decisions are the ones the repository's parsers accept.
TypeOK ==
    /\ requests \in [Requests -> Rows \cup {None}]
    /\ decisions \subseteq Decisions

Approvers(r) == {d.actor : d \in {e \in decisions : e.request = r /\ e.decision = "APPROVE"}}

\* A request is approved by as many different eligible members as the policy
\* wants, none of them its requester (unless the policy allows that): whatever
\* decisions, repetitions and invalidations came between.
Quorum ==
    \A r \in Requests : requests[r].status = "APPROVED" =>
        /\ Cardinality(Approvers(r)) >= MinApprovals
        /\ Approvers(r) \subseteq Eligible
        /\ SelfApproval \/ requests[r].requestedBy \notin Approvers(r)

\* One rejection settles a request: no later approval, repetition or expiry
\* makes it open or approved.
RejectionIsFinal ==
    \A d \in decisions : d.decision = "REJECT" => ~ Live(d.request)

\* A request that was rejected, cancelled or expired never waits for or carries
\* an approval again: a consumer that was told so need not ask again.
NeverReopened ==
    [][\A r \in Requests : requests[r] # None /\ ~ Live(r) => ~ Live(r)']_approvals
=============================================================================
