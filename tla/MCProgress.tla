----------------------------- MODULE MCProgress -----------------------------
(* What must happen in the end, component by component: a behaviour follows *)
(* the one that `scenario' names, with the constants given here and under   *)
(* the fairness of its own FairSpec, and the others stay as they began.     *)
EXTENDS NotificationOutbox, TLC

CONSTANTS NoValue

VARIABLES scenario,
          order, inbox, snapshots, subscription, invoices, checkout, handler,
          link, sent, answered, payment_failures,
          highest, allowed, stream, last, known, late, breaks,
          local, overlooked, work, request_handler, row, decision, conflicts, device_faults,
          user, revoked, signer, runtime, factory, worker, restarts,
          requests, decisions, now, board, versions, publications, call, outbox, task,
          faults

\* Two orders of one scope; one of them may be cancelled before its payment is applied.
Webhooks == {[order |-> "o1", kind |-> "PAID", id |-> "r1"],
             [order |-> "o1", kind |-> "CANCELLED", id |-> "l1"],
             [order |-> "o2", kind |-> "PAID", id |-> "r2"]}

Pay == INSTANCE Payments
       WITH Orders <- {"o1", "o2"}, Handlers <- 1 .. 2, None <- NoValue, Events <- Webhooks,
            Faults <- FALSE, MaxFailures <- 1, failures <- payment_failures

\* Two streams of one client, which may be more than a page behind, and a break.
Stream == INSTANCE RefreshStream
          WITH Streams <- 1 .. 2, PageSize <- 1, MaxEvents <- 3, MaxBreaks <- 1

\* Two offline operations, one more than a batch has.
Device == INSTANCE DeviceSync
          WITH Last <- 2, Batch <- 1, Slots <- {1}, Deciders <- {"d"}, SameEpoch <- TRUE,
               Faults <- {"lost", "crash"}, MaxFaults <- 1,
               handler <- request_handler, faults <- device_faults

\* Requests that come late, and a database that fails.
Refusing == INSTANCE DeviceSync
            WITH Last <- 2, Batch <- 1, Slots <- {1}, Deciders <- {"d"}, SameEpoch <- TRUE,
                 Faults <- {"late", "database"}, MaxFaults <- 1,
                 handler <- request_handler, faults <- device_faults

\* A principal whose security epoch is not the epoch of the workspace.
Stale == INSTANCE DeviceSync
         WITH Last <- 2, Batch <- 1, Slots <- {1}, Deciders <- {"d"}, SameEpoch <- FALSE,
              Faults <- {"lost", "crash"}, MaxFaults <- 1,
              handler <- request_handler, faults <- device_faults

\* Runtimes that are built anew while work is under way.
Runtimes == INSTANCE SyncRevocation
            WITH Workers <- {"sync", "receipts"}, MaxRuntimes <- 3, MaxRestarts <- 1

\* One caller publishes; two workers withdraw the approvals of what was replaced.
Publication == INSTANCE DashboardPublication
               WITH Requests <- {"r1", "r2"}, Versions <- {"v1", "v2"}, First <- "v1",
                    NoVersion <- NoValue, Actors <- {"ann"}, Eligible <- {"ann"}, MinApprovals <- 1,
                    SelfApproval <- TRUE, MaxTime <- 1, Repeats <- FALSE, Callers <- {"c"},
                    Keys <- {"k1", "k2"}, Workers <- 1 .. 2, MaxRevision <- 4, MaxFaults <- 1

payment_vars == <<order, inbox, snapshots, subscription, invoices, checkout, handler, link, sent,
                  answered, payment_failures>>
stream_vars == <<highest, allowed, stream, last, known, late, breaks>>
device_vars == <<local, overlooked, work, request_handler, row, decision, conflicts, device_faults>>
runtime_vars == <<user, revoked, signer, runtime, factory, worker, restarts>>
publication_vars == <<requests, decisions, now, board, versions, publications, call,
                      outbox, task, faults>>
all_vars == <<scenario, vars, payment_vars, stream_vars, device_vars, runtime_vars,
              publication_vars>>

\* One order was placed before, the other one is placed while payments come.
Placed ==
    /\ order = [o \in {"o1", "o2"} |->
                   IF o = "o1" THEN NoValue ELSE [status |-> "PENDING", url |-> TRUE, revision |-> 2]]
    /\ inbox = [i \in Pay!Ids |-> NoValue] /\ snapshots = <<>> /\ subscription = NoValue
    /\ invoices = {}
    /\ checkout = [o \in {"o1", "o2"} |-> IF o = "o1" THEN "new" ELSE "done"]
    /\ handler = [h \in 1 .. 2 |-> Pay!Idle]
    /\ link = {"o2"} /\ sent = {} /\ answered = {} /\ payment_failures = 0

Start ==
    /\ scenario \in {"notifications", "payments", "stream", "device", "refusing", "stale",
                     "runtimes", "publication"}
    /\ Init /\ Placed /\ Stream!Init /\ Device!Init /\ Runtimes!Init
    /\ Publication!Init
    /\ actionable \in {{}, Events \ {2}, Events}
    /\ IF scenario = "notifications" THEN actionable /= {}
       ELSE actionable = {} /\ scope = [e \in Events |-> CHOOSE s \in Scopes : TRUE]

Progress ==
    \/ /\ scenario = "notifications" /\ Next
       /\ UNCHANGED <<payment_vars, stream_vars, device_vars, runtime_vars, publication_vars>>
    \/ /\ scenario = "payments" /\ Pay!Next
       /\ UNCHANGED <<vars, stream_vars, device_vars, runtime_vars, publication_vars>>
    \/ /\ scenario = "stream" /\ Stream!Next
       /\ UNCHANGED <<vars, payment_vars, device_vars, runtime_vars, publication_vars>>
    \/ /\ \/ scenario = "device" /\ Device!Next
          \/ scenario = "refusing" /\ Refusing!Next
          \/ scenario = "stale" /\ Stale!Next
       /\ UNCHANGED <<vars, payment_vars, stream_vars, runtime_vars, publication_vars>>
    \/ /\ scenario = "runtimes" /\ Runtimes!Next
       /\ UNCHANGED <<vars, payment_vars, stream_vars, device_vars, publication_vars>>
    \/ /\ scenario = "publication" /\ Publication!Next
       /\ UNCHANGED <<vars, payment_vars, stream_vars, device_vars, runtime_vars>>

\* The provider sends a webhook again until it is answered.
Redeliver(e) == e \notin answered /\ \E h \in 1 .. 2 : Pay!Deliver(h, e)

\* The variables of the component that is followed.
current ==
    CASE scenario = "notifications" -> vars
      [] scenario = "payments" -> payment_vars
      [] scenario = "stream" -> stream_vars
      [] scenario \in {"device", "refusing", "stale"} -> device_vars
      [] scenario = "runtimes" -> runtime_vars
      [] scenario = "publication" -> publication_vars

\* The i-th weak fairness condition of the FairSpec that is followed.
Goes(i) ==
    /\ UNCHANGED scenario
    /\ \/ scenario = "notifications" /\ i = 1 /\ \E c \in Consumers : Step(c)
       \/ scenario = "payments" /\ i \in 1 .. 2 /\ Pay!Handle(i)
       \/ scenario = "stream" /\ i \in 1 .. 2 /\ Stream!Serve(i)
       \/ scenario = "stream" /\ i \in 3 .. 4 /\ Stream!Poll(i - 2)
       \/ scenario = "stream" /\ i = 5 /\ \E j \in 1 .. 2 : Stream!subscribe(j)
       \/ scenario = "device" /\ i \in 1 .. 2 /\ Device!Enqueue(i, 1)
       \/ scenario = "device" /\ i = 3 /\ Device!Run
       \/ scenario = "refusing" /\ i \in 1 .. 2 /\ Refusing!Enqueue(i, 1)
       \/ scenario = "refusing" /\ i = 3 /\ Refusing!Run
       \/ scenario = "stale" /\ i \in 1 .. 2 /\ Stale!Enqueue(i, 1)
       \/ scenario = "stale" /\ i = 3 /\ Stale!Run
       \/ scenario = "runtimes" /\ i = 1 /\ Runtimes!Work("sync")
       \/ scenario = "runtimes" /\ i = 2 /\ Runtimes!Work("receipts")
       \/ scenario = "runtimes" /\ i = 3 /\ Runtimes!SignOut
       \/ scenario = "publication" /\ i \in 1 .. 2 /\ Publication!Dispatch(i)
       \/ scenario = "publication" /\ i = 3 /\ \E o \in outbox : Publication!Lapse(o)

\* The strong ones.
Recurs(i) ==
    /\ UNCHANGED scenario
    /\ \/ scenario = "payments" /\ \E e \in Webhooks : e.id = <<"r1", "r2", "l1">>[i] /\ Redeliver(e)
       \/ scenario = "runtimes" /\ i = 1 /\ Runtimes!Lock("sync")
       \/ scenario = "runtimes" /\ i = 2 /\ Runtimes!Lock("receipts")
       \/ scenario = "runtimes" /\ i = 3 /\ Runtimes!AwaitInFlight

\* A behaviour follows one component, so that the conditions of all of them are taken together.
Fairness ==
    /\ \A i \in 1 .. 5 : WF_current(Goes(i))
    /\ \A i \in 1 .. 3 : SF_current(Recurs(i))

Behaviours == Start /\ [][UNCHANGED scenario /\ Progress]_all_vars /\ Fairness

\* A payment in full that the provider reports settles its order in the end, unless the order was
\* cancelled or has failed, or the id of the payment is taken.
EveryPaymentSettles == Pay!EveryPaymentSettles

\* A client that may read learns of every event in the end: it receives it, or is told to reconcile.
ClientCatchesUp == Stream!ClientCatchesUp

\* An operation of the offline queue comes to the server in the end, unless it was behind a full
\* batch; late requests, errors of the database and another epoch may have it refused for good.
EveryOperationArrives ==
    \A o \in 1 .. 2 : local[o] = "queued" ~> (\/ scenario = "device" /\ Device!Comes(o)
                                              \/ scenario = "refusing" /\ Refusing!Comes(o)
                                              \/ scenario = "stale" /\ Stale!Comes(o))

\* A sign-out comes to its end.
SignOutEnds == Runtimes!SignOutEnds

\* The approvals of a replaced version are withdrawn in the end.
EveryWithdrawalHappens == Publication!EveryWithdrawalHappens
=============================================================================
