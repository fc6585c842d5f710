----------------------------- MODULE JobContract -----------------------------
(***************************************************************************)
(* What the worker protocol promises about a job, without requests,        *)
(* retries, secrets or processes: a job is accepted, becomes ready, is held*)
(* by one worker at a time under a lease that only the holder extends and  *)
(* that passes on only once it has run out, and is settled once, by the    *)
(* worker that holds it.  Usage is charged only with an accepted result.   *)
(* WorkerLease implements this.                                            *)
(***************************************************************************)
EXTENDS Naturals

CONSTANTS Jobs, Workers, MaxAttempts

VARIABLES now, phase, term, holder, until, charged

cvars == <<now, phase, term, holder, until, charged>>

Nobody == "none"

Init ==
    /\ now = 0
    /\ phase = [j \in Jobs |-> "unknown"]
    /\ term = [j \in Jobs |-> 0]
    /\ holder = [j \in Jobs |-> Nobody]
    /\ until = [j \in Jobs |-> 0]
    /\ charged = [j \in Jobs |-> FALSE]

Pass == now' = now + 1 /\ UNCHANGED <<phase, term, holder, until, charged>>

Accept(j) ==
    /\ phase[j] = "unknown"
    /\ phase' = [phase EXCEPT ![j] = "accepted"]
    /\ UNCHANGED <<now, term, holder, until, charged>>

\* Jobs become ready in batches.
MakeReady(S) ==
    /\ \A j \in S : phase[j] = "accepted"
    /\ phase' = [j \in Jobs |-> IF j \in S THEN "ready" ELSE phase[j]]
    /\ UNCHANGED <<now, term, holder, until, charged>>

\* A worker gets the job: the first one, or the next one once the lease of the
\* one before has run out.
Lease(j, w) ==
    /\ \/ phase[j] = "ready"
       \/ phase[j] = "held" /\ until[j] < now
    /\ term[j] < MaxAttempts
    /\ phase' = [phase EXCEPT ![j] = "held"]
    /\ term' = [term EXCEPT ![j] = @ + 1]
    /\ holder' = [holder EXCEPT ![j] = w]
    /\ until'[j] \in Nat
    /\ until' = [until EXCEPT ![j] = until'[j]]
    /\ UNCHANGED <<now, charged>>

\* The lease of a held job only grows.
Extend(j) ==
    /\ phase[j] = "held"
    /\ until'[j] \in Nat
    /\ until'[j] > until[j]
    /\ until' = [until EXCEPT ![j] = until'[j]]
    /\ UNCHANGED <<now, phase, term, holder, charged>>

\* A result or a report closes the held job, whoever holds it keeping it.
Settle(j, outcome, charge) ==
    /\ phase[j] = "held"
    /\ charge => outcome = "SUCCEEDED"
    /\ phase' = [phase EXCEPT ![j] = outcome]
    /\ charged' = [charged EXCEPT ![j] = charge]
    /\ UNCHANGED <<now, term, holder, until>>

Next ==
    \/ Pass
    \/ \E S \in SUBSET Jobs : MakeReady(S)
    \/ \E j \in Jobs :
         \/ Accept(j)
         \/ \E w \in Workers : Lease(j, w)
         \/ Extend(j)
         \/ \E outcome \in {"SUCCEEDED", "FAILED"}, charge \in BOOLEAN :
              Settle(j, outcome, charge)

Spec == Init /\ [][Next]_cvars
==============================================================================
