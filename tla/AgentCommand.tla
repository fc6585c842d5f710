----------------------------- MODULE AgentCommand -----------------------------
(***************************************************************************)
(* The durable boundary around the tools of the agent that change things:  *)
(* PrismaAgentConsequentialCommandAdapter for one tenant, actor, tool and  *)
(* idempotency key.  Every update is a transaction of its own; the audit   *)
(* and the tool are calls to other services, and between two of them the   *)
(* process may be slower than the lease or die.                            *)
(*                                                                         *)
(* A call has its own owner token and its own `now', which its name stands *)
(* for.  Fingerprints are the inputs.  A result that is not content safe   *)
(* is a failure of the tool after its effect.  Nothing under src calls     *)
(* reconcile but a test: the one who does, an operator, is taken to say of *)
(* the tool what he sees when he calls.                                    *)
(***************************************************************************)
EXTENDS Naturals, FiniteSets

CONSTANTS Calls,      \* calls of execute or reconcile, each made once
          Inputs,     \* what may come under the key
          Values,     \* results of the tool
          NoOne,
          MaxFaults   \* bound of the updates whose answer is lost, and of deaths

VARIABLES command,    \* the row of dda_agent_consequential_commands
          requests,   \* what the calls are doing
          audited,    \* outcomes in the audit
          performed,  \* effects of the tool: the input and the result
          told,       \* accepted results that callers were given, with their input
          faults

vars == <<command, requests, audited, performed, told, faults>>

NoCommand == [state |-> "NONE"]
Waiting == [at |-> "idle", input |-> NoOne, outcome |-> NoOne]

Init ==
    /\ command = NoCommand
    /\ requests = [c \in Calls |-> Waiting]
    /\ audited = {}
    /\ performed = {}
    /\ told = {}
    /\ faults = 0

Goto(c, step) == requests' = [requests EXCEPT ![c].at = step]

\* Rejected, whatever the reason.
Refuse(c) == Goto(c, "done")

\* The stored result is replayed.
Replay(c) ==
    /\ told' = told \union {<<requests[c].input, command.value>>}
    /\ Goto(c, "done")

Expired == command.state = "RESERVED" /\ command.lapsed

\* What the updates of the owner compare.
Held(c) == command.state = "RESERVED" /\ command.owner = c

\* An update, which sets what `changed' says when its condition holds.  It may be lost, before or
\* after it commits, and then counts as one that changed nothing.
Update(c, holds, changed, yes, no) ==
    \/ /\ holds
       /\ command' = changed
       /\ Goto(c, yes)
       /\ UNCHANGED faults
    \/ /\ ~holds
       /\ Goto(c, no)
       /\ UNCHANGED <<command, faults>>
    \/ /\ faults < MaxFaults
       /\ faults' = faults + 1
       /\ command' \in {command} \union IF holds THEN {changed} ELSE {}
       /\ Goto(c, no)

Uncertain == [command EXCEPT !.state = "RECONCILIATION_REQUIRED"]
-----------------------------------------------------------------------------
(* execute. *)

\* (Mutant of Reservable: an expired reservation is taken over.)
ReservableAgain == command.state = "NONE" \/ Expired

\* The unique key of the table.
Reservable == command.state = "NONE"

\* reserve, when the key is free.
Reserve(c, i) ==
    /\ requests[c].at = "idle" /\ Reservable
    /\ command' = [state |-> "RESERVED", owner |-> c, input |-> i, lapsed |-> FALSE,
                   attempted |-> FALSE, succeeded |-> NoOne, value |-> NoOne]
    /\ \/ /\ requests' = [requests EXCEPT ![c] = [Waiting EXCEPT !.at = "audit", !.input = i]]
          /\ UNCHANGED faults
       \/ /\ faults < MaxFaults /\ faults' = faults + 1
          /\ requests' = [requests EXCEPT ![c].at = "done"]
    /\ UNCHANGED <<audited, performed, told>>

\* existing, when it is not: its `now' may be older than the end of the lease.
existing(c, i) ==
    /\ requests[c].at = "idle" /\ ~Reservable
    /\ \/ /\ command.state = "COMMITTED" /\ command.input = i
          /\ told' = told \union {<<i, command.value>>}
          /\ Refuse(c)
       \/ /\ command.state # "COMMITTED" \/ command.input # i
          /\ Refuse(c)
          /\ UNCHANGED told
       \/ /\ Expired /\ command.input = i
          /\ Goto(c, "lapsed")
          /\ UNCHANGED told
    /\ UNCHANGED <<command, audited, performed, faults>>

\* The expired reservation is put aside, unless it has moved; the caller of execute is refused, the
\* caller of reconcile reads again.
Lapsed(c) ==
    /\ requests[c].at = "lapsed"
    /\ LET next == IF requests[c].outcome = NoOne THEN "done" ELSE "reread"
       IN  Update(c, Expired, Uncertain, next, next)
    /\ UNCHANGED <<audited, performed, told>>

\* The audit of what the call is about to do, or has done; it may be recorded and yet fail.
Audit(c) ==
    /\ requests[c].at \in {"audit", "succeeded", "close_audit", "close_succeeded"}
    /\ LET at == requests[c].at
           outcome == IF at \in {"audit", "close_audit"} THEN "ATTEMPTED" ELSE "SUCCEEDED"
       IN  \/ /\ audited' = audited \union {outcome}
              /\ Goto(c, CASE at = "audit" -> "mark"
                           [] at = "succeeded" -> "mark_succeeded"
                           [] at = "close_audit" -> "close_mark"
                           [] at = "close_succeeded" -> "close_mark_succeeded")
           \/ /\ audited' \in {audited, audited \union {outcome}}
              /\ Goto(c, CASE at = "audit" -> "fail" [] at = "succeeded" -> "reconcile" [] OTHER -> "done")
    /\ UNCHANGED <<command, performed, told, faults>>

\* failReservation; when that fails too, reconcileReservation.
Fail(c) ==
    /\ requests[c].at = "fail"
    /\ Update(c, Held(c), [command EXCEPT !.state = "FAILED"], "done", "reconcile")
    /\ UNCHANGED <<audited, performed, told>>

markAuditAttempted(c) ==
    /\ requests[c].at = "mark"
    /\ Update(c, Held(c), [command EXCEPT !.attempted = TRUE], "perform", "reconcile")
    /\ UNCHANGED <<audited, performed, told>>

\* The tool takes effect, or not, and says so, or not.
Perform(c) ==
    /\ requests[c].at = "perform"
    /\ \/ \E v \in Values :
             /\ performed' = performed \union {<<c, requests[c].input, v>>}
             /\ \/ requests' = [requests EXCEPT ![c].at = "succeeded", ![c].outcome = v]
                \/ Goto(c, "reconcile")
       \/ UNCHANGED performed /\ Goto(c, "reconcile")
    /\ UNCHANGED <<command, audited, told, faults>>

markAuditSucceeded(c) ==
    /\ requests[c].at = "mark_succeeded"
    /\ Update(c, Held(c), [command EXCEPT !.succeeded = c], "commit", "reconcile")
    /\ UNCHANGED <<audited, performed, told>>

\* commit compares that the audit was marked by the same call.
commit(c) ==
    /\ requests[c].at = "commit"
    /\ Update(c, Held(c) /\ command.succeeded = c,
              [command EXCEPT !.state = "COMMITTED", !.value = requests[c].outcome], "tell", "recheck")
    /\ UNCHANGED <<audited, performed, told>>

\* The answer to a commit that counted, or that others or a lost answer have made.
Answer(c) ==
    /\ requests[c].at \in {"tell", "recheck", "close_recheck"}
    /\ IF command.state = "COMMITTED"
       THEN Replay(c)
       ELSE Goto(c, IF requests[c].at = "recheck" THEN "reconcile" ELSE "done") /\ UNCHANGED told
    /\ UNCHANGED <<command, audited, performed, faults>>

reconcileReservation(c) ==
    /\ requests[c].at = "reconcile"
    /\ Update(c, Held(c), Uncertain, "done", "done")
    /\ UNCHANGED <<audited, performed, told>>
-----------------------------------------------------------------------------
(* reconcile: someone says that the tool failed, or what its result was. *)

Seen(i) == {p[3] : p \in {q \in performed : q[2] = i}}

reconcile(c, i) ==
    /\ requests[c].at = "idle" /\ command.state # "NONE" /\ command.input = i
    /\ \E o \in IF Seen(i) = {} THEN {"FAILED"} ELSE Seen(i) :
          requests' = [requests EXCEPT ![c] =
                          [at |-> IF Expired THEN "lapsed" ELSE "reread", input |-> i, outcome |-> o]]
    /\ UNCHANGED <<command, audited, performed, told, faults>>

Reread(c) ==
    /\ requests[c].at = "reread"
    /\ \/ command.state = "COMMITTED" /\ Replay(c)
       \/ /\ command.state = "RECONCILIATION_REQUIRED"
          /\ Goto(c, IF command.attempted THEN "close" ELSE "close_audit")
          /\ UNCHANGED told
       \/ command.state \in {"RESERVED", "FAILED"} /\ Refuse(c) /\ UNCHANGED told
    /\ UNCHANGED <<command, audited, performed, faults>>

Open == command.state = "RECONCILIATION_REQUIRED"

\* The updates of ensureReconciliationAuditAttempted and of reconcile itself.
Close(c) ==
    /\ \/ /\ requests[c].at = "close_mark"
          /\ Update(c, Open, [command EXCEPT !.attempted = TRUE], "close", "done")
       \/ /\ requests[c].at = "close" /\ requests[c].outcome = "FAILED"
          /\ Update(c, Open, [command EXCEPT !.state = "FAILED"], "done", "done")
       \/ /\ requests[c].at = "close" /\ requests[c].outcome # "FAILED"
          /\ Goto(c, "close_succeeded")
          /\ UNCHANGED <<command, faults>>
       \/ /\ requests[c].at = "close_mark_succeeded"
          /\ Update(c, Open, [command EXCEPT !.succeeded = c], "close_commit", "done")
       \/ /\ requests[c].at = "close_commit"
          /\ Update(c, Open /\ command.succeeded = c,
                    [command EXCEPT !.state = "COMMITTED", !.value = requests[c].outcome],
                    "tell", "close_recheck")
    /\ UNCHANGED <<audited, performed, told>>
-----------------------------------------------------------------------------
\* The lease ends, whatever its owner does.
Lapse ==
    /\ command.state = "RESERVED" /\ ~command.lapsed
    /\ command' = [command EXCEPT !.lapsed = TRUE]
    /\ UNCHANGED <<requests, audited, performed, told, faults>>

\* The process of a call dies.
Die(c) ==
    /\ requests[c].at \notin {"idle", "done"} /\ faults < MaxFaults
    /\ faults' = faults + 1
    /\ Refuse(c)
    /\ UNCHANGED <<command, audited, performed, told>>

Step(c) ==
    \/ \E i \in Inputs : Reserve(c, i) \/ existing(c, i) \/ reconcile(c, i)
    \/ Lapsed(c) \/ Audit(c) \/ Fail(c) \/ markAuditAttempted(c) \/ Perform(c) \/ markAuditSucceeded(c)
    \/ commit(c) \/ Answer(c) \/ reconcileReservation(c) \/ Reread(c) \/ Close(c) \/ Die(c)

Next == Lapse \/ \E c \in Calls : Step(c)

Spec == Init /\ [][Next]_vars
-----------------------------------------------------------------------------
\* What the owner of the reservation is doing, and what anybody is.
OwnSteps == {"audit", "fail", "mark", "perform", "succeeded", "mark_succeeded", "commit", "recheck",
             "reconcile"}
OtherSteps == {"lapsed", "tell", "reread", "close", "close_audit", "close_mark", "close_succeeded",
               "close_mark_succeeded", "close_commit", "close_recheck"}

TypeOK ==
    /\ command = NoCommand \/
       command \in [state : {"RESERVED", "COMMITTED", "FAILED", "RECONCILIATION_REQUIRED"},
                    owner : Calls, input : Inputs, lapsed : BOOLEAN, attempted : BOOLEAN,
                    succeeded : Calls \union {NoOne}, value : Values \union {NoOne}]
    /\ requests \in [Calls -> [at : {"idle", "done"} \union OwnSteps \union OtherSteps,
                               input : Inputs \union {NoOne},
                               outcome : Values \union {"FAILED", NoOne}]]
    /\ audited \subseteq {"ATTEMPTED", "SUCCEEDED"}
    /\ performed \subseteq Calls \X Inputs \X Values
    /\ told \subseteq Inputs \X Values
    /\ faults \in 0 .. MaxFaults

\* The tool takes effect once at most, and not before the attempt is in the audit, however often
\* the command is repeated, taken for lost and closed by somebody else.
PerformedOnce ==
    /\ Cardinality(performed) <= 1
    /\ performed # {} => "ATTEMPTED" \in audited

\* A command is committed with a result that the tool gave for the same input and that is in the
\* audit, and callers are told that result and no other, then and ever after.
CommittedIsTrue ==
    /\ command.state = "COMMITTED" =>
          /\ \E c \in Calls : <<c, command.input, command.value>> \in performed
          /\ "SUCCEEDED" \in audited
    /\ \A t \in told : command.state = "COMMITTED" /\ t = <<command.input, command.value>>

\* Both: a command that changes something runs once and is told as it was.
CommandIsSafe == PerformedOnce /\ CommittedIsTrue
=============================================================================
