--------------------------- MODULE EtlAcceptance -----------------------------
(***************************************************************************)
(* Acceptance of one ETL proposal: EtlAcceptanceServiceV1.accept with the  *)
(* durable command rows of PrismaEtlAcceptanceCommandRepositoryAdapter,    *)
(* and AutomaticPreparationEnqueueService, which accepts on behalf of the  *)
(* user and parks the proposal when it may not (markBlocked).              *)
(*                                                                         *)
(* Requests run concurrently and are cut where the code awaits.  A request *)
(* of Auto comes through evaluateAndMaybeEnqueue, the others through the   *)
(* acceptance controller.  The row a request reserves carries a random id, *)
(* so rows are indexed by the request that created them.  The registration *)
(* of the dataset version and the audit record of a request are kept as    *)
(* the set of requests that made them.                                     *)
(***************************************************************************)
EXTENDS Naturals, FiniteSets

CONSTANTS Requests,   \* requests
          Auto,       \* those that come through automatic preparation
          Keys,       \* idempotency keys
          Payloads,   \* fingerprints of the expectations of a request
          None,       \* no row, no version
          LeaseTerm,  \* length of a reservation's lease
          MaxClock    \* bound of the clock

VARIABLES proposal,   \* the proposal row
          commands,   \* the acceptance command row each request created, or None
          req,        \* the requests
          answer,     \* what a request was told
          versions,   \* requests whose dataset version DSM registered
          audits,     \* requests whose audit record says SUCCEEDED
          clock

vars == <<proposal, commands, req, answer, versions, audits, clock>>

Steps == {"idle", "recheck", "reserve", "create", "execute", "register", "emit",
          "complete", "release", "mark", "done"}

Codes == {"NONE", "REVIEW", "BLOCKED", "ACCEPTED", "REPLAY", "REVISION_CONFLICT",
          "STALE_PROPOSAL", "COMMAND_CONFLICT", "COMMAND_UNAVAILABLE", "FAILED", "LOST"}

Proposals == [state : {"NEEDS_REVIEW", "READY_FOR_ACCEPTANCE", "ACCEPTED"}, revision : Nat \ {0}]

Commands == [key : Keys, payload : Payloads, revision : Nat \ {0},
             state : {"RESERVED", "COMPLETED", "FAILED"}, lease : Nat]

Calls == [at : Steps, key : Keys, payload : Payloads, expected : Nat \ {0},
          copy : Nat, code : Codes]

TypeOK ==
    /\ proposal \in Proposals
    /\ commands \in [Requests -> Commands \cup {None}]
    /\ req \in [Requests -> Calls]
    /\ answer \in [Requests -> [code : Codes, version : Requests \cup {None}]]
    /\ versions \subseteq Requests
    /\ audits \subseteq Requests
    /\ clock \in Nat

Rows == {r \in Requests : commands[r] # None}

\* The rows the unique constraints of etl_acceptance_commands find.
ByKey(key) == {r \in Rows : commands[r].key = key}
ByRevision(revision) == {r \in Rows : commands[r].revision = revision}

Ready == proposal.state = "READY_FOR_ACCEPTANCE"

-----------------------------------------------------------------------------
(* How a call ends.  accept returns to the controller, or to automatic     *)
(* preparation, which then marks the proposal unless it was accepted.      *)

\* accept refuses with the code.
Refuse(r, code) ==
    IF r \in Auto
    THEN /\ req' = [req EXCEPT ![r].at = "mark", ![r].code = code]
         /\ UNCHANGED answer
    ELSE /\ req' = [req EXCEPT ![r].at = "done"]
         /\ answer' = [answer EXCEPT ![r].code = code]

Succeed(r, code, version) ==
    /\ req' = [req EXCEPT ![r].at = "done"]
    /\ answer' = [answer EXCEPT ![r] = [code |-> code, version |-> version]]

Proceed(r, step) ==
    /\ req' = [req EXCEPT ![r].at = step]
    /\ UNCHANGED answer

-----------------------------------------------------------------------------
(* Automatic preparation                                                   *)

\* A request arrives with a revision its client has seen.  Automatic
\* preparation keeps the copy of the proposal it reads here until it ends.
Begin(r) ==
    /\ req[r].at = "idle"
    /\ \E key \in Keys, payload \in Payloads, expected \in 1..proposal.revision :
          LET call(step, code) == [at |-> step, key |-> key, payload |-> payload,
                  expected |-> expected, copy |-> proposal.revision, code |-> code]
          IN \/ /\ r \notin Auto
                /\ req' = [req EXCEPT ![r] = call("reserve", "NONE")]
                /\ UNCHANGED answer
             \/ /\ r \in Auto
                /\ proposal.revision = expected
                /\ \/ /\ req' = [req EXCEPT ![r] = call("done", "NONE")]
                      /\ answer' = [answer EXCEPT ![r].code = "REVIEW"]
                   \/ /\ \/ req' = [req EXCEPT ![r] = call("mark", "BLOCKED")]
                         \/ req' = [req EXCEPT ![r] = call("recheck", "NONE")]
                      /\ UNCHANGED answer
             \/ /\ r \in Auto
                /\ proposal.revision # expected
                /\ req' = [req EXCEPT ![r] = call("done", "NONE")]
                /\ answer' = [answer EXCEPT ![r].code = "REVISION_CONFLICT"]
    /\ UNCHANGED <<proposal, commands, versions, audits, clock>>

\* The proposal and the policy are read again before accept is called; a
\* refusal here returns without marking.
Recheck(r) ==
    /\ req[r].at = "recheck"
    /\ \/ /\ proposal.revision = req[r].expected
          /\ Proceed(r, "reserve")
       \/ \E code \in {"REVISION_CONFLICT", "FAILED"} :
             /\ code = "REVISION_CONFLICT" <=> proposal.revision # req[r].expected
             /\ Succeed(r, code, None)
    /\ UNCHANGED <<proposal, commands, versions, audits, clock>>

\* markBlocked writes the copy read at the beginning back with the next
\* revision and a blocking reason; save is an upsert by id.
MarkBlocked(r) ==
    /\ req[r].at = "mark"
    /\ proposal' = [state |-> "NEEDS_REVIEW", revision |-> req[r].copy + 1]
    /\ Succeed(r, req[r].code, None)
    /\ UNCHANGED <<commands, versions, audits, clock>>

-----------------------------------------------------------------------------
(* Reservation                                                             *)

\* resolveExisting: the answer a row with the same key gives.
Resolve(r, row) ==
    IF \/ commands[row].revision # req[r].expected
       \/ commands[row].payload # req[r].payload
    THEN Refuse(r, "COMMAND_CONFLICT")
    ELSE CASE commands[row].state = "COMPLETED" -> Succeed(r, "REPLAY", row)
           [] commands[row].state = "FAILED"    -> Refuse(r, "COMMAND_UNAVAILABLE")
           [] commands[row].state = "RESERVED"  -> Refuse(r, "COMMAND_CONFLICT")

\* Authorization or the policy version refuses before anything is reserved.
NotAuthorized(r) ==
    /\ req[r].at = "reserve"
    /\ Refuse(r, "FAILED")
    /\ UNCHANGED <<proposal, commands, versions, audits, clock>>

\* reserveAcceptance up to the insert, in a READ COMMITTED transaction.
ReserveRead(r) ==
    /\ req[r].at = "reserve"
    /\ \/ \E row \in ByKey(req[r].key) : Resolve(r, row)
       \/ /\ ByKey(req[r].key) = {}
          /\ \/ /\ proposal.revision # req[r].expected
                /\ Refuse(r, "REVISION_CONFLICT")
             \/ /\ proposal.revision = req[r].expected
                /\ ~Ready
                /\ Refuse(r, "STALE_PROPOSAL")
             \/ /\ proposal.revision = req[r].expected
                /\ Ready
                /\ IF ByRevision(req[r].expected) # {}
                   THEN Refuse(r, "REVISION_CONFLICT")
                   ELSE Proceed(r, "create")
    /\ UNCHANGED <<proposal, commands, versions, audits, clock>>

Reserved(r) == [key |-> req[r].key, payload |-> req[r].payload, revision |-> req[r].expected,
                state |-> "RESERVED", lease |-> clock + LeaseTerm]

\* (Mutant of ReserveCreate) Only the key is unique.
ReserveCreateByKey(r) ==
    /\ req[r].at = "create"
    /\ \/ \E row \in ByKey(req[r].key) : Resolve(r, row) /\ UNCHANGED commands
       \/ /\ ByKey(req[r].key) = {}
          /\ commands' = [commands EXCEPT ![r] = Reserved(r)]
          /\ Proceed(r, "execute")
    /\ UNCHANGED <<proposal, versions, audits, clock>>

\* The insert.  A unique violation (P2002) reads the rows again.
ReserveCreate(r) ==
    /\ req[r].at = "create"
    /\ \/ \E row \in ByKey(req[r].key) : Resolve(r, row) /\ UNCHANGED commands
       \/ /\ ByKey(req[r].key) = {}
          /\ ByRevision(req[r].expected) # {}
          /\ Refuse(r, "REVISION_CONFLICT")
          /\ UNCHANGED commands
       \/ /\ ByKey(req[r].key) = {}
          /\ ByRevision(req[r].expected) = {}
          /\ commands' = [commands EXCEPT ![r] = Reserved(r)]
          /\ Proceed(r, "execute")
    /\ UNCHANGED <<proposal, versions, audits, clock>>

-----------------------------------------------------------------------------
(* The effects of an acceptance, each of which may be refused              *)

FailAfterReservation(r) ==
    /\ req[r].at \in {"execute", "register", "emit"}
    /\ Proceed(r, "release")
    /\ UNCHANGED <<proposal, commands, versions, audits, clock>>

\* Usage is admitted, the job's manifest matches what was expected, and IAE
\* has the derivative.
Execute(r) ==
    /\ req[r].at = "execute"
    /\ Proceed(r, "register")
    /\ UNCHANGED <<proposal, commands, versions, audits, clock>>

Register(r) ==
    /\ req[r].at = "register"
    /\ versions' = versions \cup {r}
    /\ Proceed(r, "emit")
    /\ UNCHANGED <<proposal, commands, audits, clock>>

Emit(r) ==
    /\ req[r].at = "emit"
    /\ audits' = audits \cup {r}
    /\ Proceed(r, "complete")
    /\ UNCHANGED <<proposal, commands, versions, clock>>

\* completeAcceptance commits: the owner's reservation is still live and the
\* proposal is still the one that was reserved.
MayComplete(r) ==
    /\ commands[r].state = "RESERVED"
    /\ commands[r].lease > clock
    /\ proposal.revision = commands[r].revision
    /\ Ready

Complete(r) ==
    /\ req[r].at = "complete"
    /\ \/ /\ MayComplete(r)
          /\ proposal' = [state |-> "ACCEPTED", revision |-> commands[r].revision + 1]
          /\ commands' = [commands EXCEPT ![r].state = "COMPLETED"]
          /\ Succeed(r, "ACCEPTED", r)
       \/ /\ ~MayComplete(r)
          /\ Refuse(r, "COMMAND_UNAVAILABLE")
          /\ UNCHANGED <<proposal, commands>>
    /\ UNCHANGED <<versions, audits, clock>>

\* releaseAcceptance, guarded by the state; a database error is swallowed.
Release(r) ==
    /\ req[r].at = "release"
    /\ commands' = IF commands[r].state = "RESERVED"
                   THEN [commands EXCEPT ![r].state = "FAILED"] ELSE commands
    /\ Refuse(r, "FAILED")
    /\ UNCHANGED <<proposal, versions, audits, clock>>

ReleaseFails(r) ==
    /\ req[r].at = "release"
    /\ Refuse(r, "FAILED")
    /\ UNCHANGED <<proposal, commands, versions, audits, clock>>

-----------------------------------------------------------------------------
(* Environment                                                             *)

\* The process stops or a port throws: nothing of the call runs any more.
Lose(r) ==
    /\ req[r].at \notin {"idle", "done"}
    /\ Succeed(r, "LOST", None)
    /\ UNCHANGED <<proposal, commands, versions, audits, clock>>

\* reconcileAbandonedAcceptance closes a reservation whose lease is over.
Reconcile(r) ==
    /\ r \in Rows
    /\ commands[r].state = "RESERVED"
    /\ commands[r].lease <= clock
    /\ commands' = [commands EXCEPT ![r].state = "FAILED"]
    /\ UNCHANGED <<proposal, req, answer, versions, audits, clock>>

Tick ==
    /\ clock < MaxClock
    /\ clock' = clock + 1
    /\ UNCHANGED <<proposal, commands, req, answer, versions, audits>>

Init ==
    /\ proposal = [state |-> "READY_FOR_ACCEPTANCE", revision |-> 1]
    /\ commands = [r \in Requests |-> None]
    /\ req = [r \in Requests |-> [at |-> "idle", key |-> CHOOSE key \in Keys : TRUE,
                                  payload |-> CHOOSE payload \in Payloads : TRUE,
                                  expected |-> 1, copy |-> 0, code |-> "NONE"]]
    /\ answer = [r \in Requests |-> [code |-> "NONE", version |-> None]]
    /\ versions = {}
    /\ audits = {}
    /\ clock = 0

Work(r) ==
    \/ Recheck(r) \/ MarkBlocked(r) \/ NotAuthorized(r)
    \/ ReserveRead(r) \/ ReserveCreate(r)
    \/ FailAfterReservation(r) \/ Execute(r) \/ Register(r) \/ Emit(r)
    \/ Complete(r) \/ Release(r) \/ ReleaseFails(r)

Next ==
    \/ \E r \in Requests : Begin(r) \/ Work(r) \/ Lose(r) \/ Reconcile(r)
    \/ Tick

Spec == Init /\ [][Next]_vars

-----------------------------------------------------------------------------
(* Properties                                                              *)

\* However many requests race with whatever keys, at most one of them ever
\* reaches the effects of a revision: two dataset versions are never
\* registered for the same revision of the proposal.
OneExecution ==
    \A r, s \in versions : commands[r].revision = commands[s].revision => r = s

\* Everyone who is told that the proposal was accepted, first answer or
\* replay, is told of the same dataset version, and that version was
\* registered and audited.
AnswersAgree ==
    \A r, s \in Requests :
        /\ answer[r].code \in {"ACCEPTED", "REPLAY"}
        /\ answer[s].code \in {"ACCEPTED", "REPLAY"}
        => /\ answer[r].version = answer[s].version
           /\ answer[r].version \in versions \cap audits

\* A proposal that reads ACCEPTED has exactly one completed command, the one
\* of the revision before, even while stale copies are being written back.
AcceptedIsRecorded ==
    proposal.state = "ACCEPTED" =>
        \E r \in Rows :
            /\ commands[r].state = "COMPLETED"
            /\ commands[r].revision + 1 = proposal.revision
            /\ \A s \in Rows : commands[s].state = "COMPLETED" => s = r
==============================================================================
