------------------------------ MODULE Foundation ------------------------------
(* The components under src that share no state with each other, side by    *)
(* side: a behaviour follows the one that `scenario' names, and the others  *)
(* stay as they began.  Its constants are those of the components, each     *)
(* with the name of its component before it.                                *)
EXTENDS JobAdmission

CONSTANTS None, First, SessionCalls,                     \* of SessionRefresh
          UsageWorkspaces, UsageProjects, UsageReservations, UsageCallers, UsageLevels,
          UsageViewed, UsageLimit, UsageMaxUnits, UsageMaxCalls,            \* of UsageLedger
          PaymentOrders, PaymentHandlers, PaymentEvents, PaymentFaults,
          PaymentMaxFailures,                                               \* of Payments
          DeviceLast, DeviceBatch, DeviceSlots, DeviceDeciders, DeviceSameEpoch,
          DeviceFaults, DeviceMaxFaults,                                    \* of DeviceSync
          RuntimeWorkers, RuntimeMaxRuntimes, RuntimeMaxRestarts,           \* of SyncRevocation
          UploadHandlers, UploadLast, UploadContents, UploadExpected,
          UploadMaxUploads, UploadMaxFaults,                                \* of ArtifactUpload
          LedgerWriters, LedgerIds, LedgerKeys, LedgerContents              \* of AuditLedger

VARIABLES scenario,
          session, pair, securityEpoch, stored, call,
          home, ledger, reservation, caller, answer, view, calls,
          order, inbox, snapshots, subscription, invoices, checkout, handler,
          link, sent, answered, failures,
          local, overlooked, work, request_handler, row, decision, conflicts, faults,
          user, revoked, signer, runtime, factory, worker, restarts,
          artifact, control, uploads, grants, quarantine, published, request_step, told_upload, deaths,
          events, seals, attestations, writer, assured

\* Sessions of the web client: refreshes, sign-outs and switches that overlap.
Web == INSTANCE SessionRefreshProofs
       WITH Calls <- SessionCalls, Platform <- "web",
            Ops <- {"refresh", "signout", "switch"}, Lossy <- FALSE

\* Rotation on the desktop, while answers get lost and transactions fail.
Desktop == INSTANCE SessionRefreshProofs
           WITH Calls <- SessionCalls, Platform <- "desktop",
                Ops <- {"refresh", "signin"}, Lossy <- TRUE

\* Rotation on Android, which stores the pair before it uses it.
Android == INSTANCE SessionRefreshProofs
           WITH Calls <- SessionCalls, Platform <- "android",
                Ops <- {"refresh", "signin", "signout", "recover"}, Lossy <- FALSE

\* Reservations of workspaces and projects under a quota.
Usage == INSTANCE UsageLedgerProofs
         WITH Workspaces <- UsageWorkspaces, Projects <- UsageProjects,
              Reservations <- UsageReservations, Callers <- UsageCallers, Levels <- UsageLevels,
              Viewed <- UsageViewed, Limit <- UsageLimit, MaxUnits <- UsageMaxUnits,
              MaxCalls <- UsageMaxCalls, call <- caller

\* Orders of one scope, whose webhooks come in any order; an order may be paid more than once.
Pay == INSTANCE Payments
       WITH Orders <- PaymentOrders, Handlers <- PaymentHandlers, Events <- PaymentEvents,
            Faults <- PaymentFaults, MaxFailures <- PaymentMaxFailures

\* Offline operations, perhaps more than one run sends, and the requests for them under way in the server.
Device == INSTANCE DeviceSync
          WITH Last <- DeviceLast, Batch <- DeviceBatch, Slots <- DeviceSlots,
               Deciders <- DeviceDeciders, SameEpoch <- DeviceSameEpoch, Faults <- DeviceFaults,
               MaxFaults <- DeviceMaxFaults, handler <- request_handler

\* Sign-ins, enrollments and sign-outs build runtimes while WorkManager keeps its own.
Runtime == INSTANCE SyncRevocation
           WITH Workers <- RuntimeWorkers, MaxRuntimes <- RuntimeMaxRuntimes,
                MaxRestarts <- RuntimeMaxRestarts

\* Requests for an upload, whose parts a client may get wrong.
Upload == INSTANCE ArtifactUpload
          WITH Handlers <- UploadHandlers, Last <- UploadLast, Contents <- UploadContents,
               Expected <- UploadExpected, MaxUploads <- UploadMaxUploads,
               MaxFaults <- UploadMaxFaults,
               row <- artifact, call <- request_step, told <- told_upload, faults <- deaths

\* Calls append, seal or attest.
Ledger == INSTANCE AuditLedger
          WITH Writers <- LedgerWriters, Ids <- LedgerIds, Keys <- LedgerKeys,
               Contents <- LedgerContents

\* The three instances have the same names and rows.
ASSUME SessionAssumption == Web!SessionConstants

ASSUME PaymentAssumption ==
    /\ \A e \in PaymentEvents : e \in [order : PaymentOrders, kind : Pay!Kinds, id : Pay!Ids]
    /\ None \notin Pay!InboxRows
    /\ PaymentMaxFailures \in Nat

\* The quota of a snapshot is not negative, and units are positive.
ASSUME UsageAssumption == Usage!UsageConstants

ASSUME RuntimeAssumption == RuntimeMaxRuntimes \in Nat \ {0} /\ RuntimeMaxRestarts \in Nat

ASSUME DeviceAssumption ==
    /\ DeviceLast \in Nat \ {0}
    /\ DeviceBatch \in Nat
    /\ DeviceMaxFaults \in Nat
    /\ 0 \notin DeviceSlots

ASSUME UploadAssumption ==
    /\ UploadLast \in Nat \ {0} /\ UploadMaxUploads \in Nat /\ UploadMaxFaults \in Nat
    /\ None \notin Upload!Uploads
    /\ None \notin Upload!Anything /\ None # Upload!Exact

ASSUME LedgerAssumption == IsFiniteSet(LedgerWriters)

Start ==
    /\ scenario \in {"web", "desktop", "android", "usage", "payments", "device", "runtime", "admission", "upload", "audit"}
    /\ Init /\ Web!Init /\ Usage!Init /\ Pay!Init /\ Device!Init /\ Runtime!Init /\ Upload!Init /\ Ledger!Init

session_vars == <<session, pair, securityEpoch, stored, call>>
usage_vars == <<home, ledger, reservation, caller, answer, view, calls>>
payment_vars == <<order, inbox, snapshots, subscription, invoices, checkout, handler, link, sent,
                  answered, failures>>
device_vars == <<local, overlooked, work, request_handler, row, decision, conflicts, faults>>
runtime_vars == <<user, revoked, signer, runtime, factory, worker, restarts>>
upload_vars == <<artifact, control, uploads, grants, quarantine, published, request_step, told_upload, deaths>>
audit_vars == <<events, seals, attestations, writer, assured>>

Step ==
    /\ UNCHANGED scenario
    /\ \/ /\ scenario = "admission" /\ Next
          /\ UNCHANGED <<session_vars, usage_vars, payment_vars, device_vars, runtime_vars, upload_vars,
                         audit_vars>>
       \/ /\ \/ scenario = "web" /\ Web!Next
             \/ scenario = "desktop" /\ Desktop!Next
             \/ scenario = "android" /\ Android!Next
          /\ UNCHANGED <<vars, usage_vars, payment_vars, device_vars, runtime_vars, upload_vars,
                         audit_vars>>
       \/ /\ scenario = "usage" /\ Usage!Next
          /\ UNCHANGED <<vars, session_vars, payment_vars, device_vars, runtime_vars, upload_vars,
                         audit_vars>>
       \/ /\ scenario = "payments" /\ Pay!Next
          /\ UNCHANGED <<vars, session_vars, usage_vars, device_vars, runtime_vars, upload_vars,
                         audit_vars>>
       \/ /\ scenario = "device" /\ Device!Next
          /\ UNCHANGED <<vars, session_vars, usage_vars, payment_vars, runtime_vars, upload_vars,
                         audit_vars>>
       \/ /\ scenario = "runtime" /\ Runtime!Next
          /\ UNCHANGED <<vars, session_vars, usage_vars, payment_vars, device_vars, upload_vars,
                         audit_vars>>
       \/ /\ scenario = "upload" /\ Upload!Next
          /\ UNCHANGED <<vars, session_vars, usage_vars, payment_vars, device_vars, runtime_vars,
                         audit_vars>>
       \/ /\ scenario = "audit" /\ Ledger!Next
          /\ UNCHANGED <<vars, session_vars, usage_vars, payment_vars, device_vars, runtime_vars,
                         upload_vars>>

everything == <<scenario, vars, session_vars, usage_vars, payment_vars, device_vars,
                runtime_vars, upload_vars, audit_vars>>

Behaviours == Start /\ [][Step]_everything

\* Every variable has its type, whatever the scenario.
TypesOK ==
    CASE scenario = "admission" -> TypeOK
      [] scenario = "web" -> Web!TypeOK
      [] scenario = "desktop" -> Desktop!TypeOK
      [] scenario = "android" -> Android!TypeOK
      [] scenario = "usage" -> Usage!TypeOK
      [] scenario = "payments" -> Pay!TypeOK
      [] scenario = "device" -> Device!TypeOK
      [] scenario = "runtime" -> Runtime!TypeOK
      [] scenario = "upload" -> Upload!TypeOK
      [] scenario = "audit" -> Ledger!TypeOK

\* Web: an access token that was handed out ends with its session.  Desktop: a refresh token is used
\* once, however many calls overlap, and no two calls wait for each other's row locks.  Android: no
\* family is revoked for a reuse that was the device's own.
SessionsAreSafe ==
    /\ scenario = "web" => Web!AccessEndsWithSession
    /\ scenario = "desktop" => Desktop!SingleUse /\ Desktop!NoLockCycle
    /\ scenario = "android" => Android!RotationIsInvisible

\* Requests that overlap neither pass the quota nor lose or repeat an entry of the ledger.
QuotaHolds == scenario = "usage" => Usage!NotOversubscribed /\ Usage!LedgerAgrees

\* Webhooks in any number and order settle once for an event, an order that was settled before is not
\* settled by what is read afterwards, and the subscription follows.
SettlementIsSafe == scenario = "payments" => Pay!SettledOnce /\ Pay!SubscriptionFollows

\* What leaves the queue of a device is in the server, unless it was behind a full batch, and a
\* conflict record ends its operation.
QueueIsSafe == scenario = "device" => Device!DeletedIsAdmitted /\ Device!ConflictStops

\* What a reservation was settled with, and what was decided about an offline operation, stays,
\* whatever is repeated.
SettledForGood == Usage!ReservationSettledOnce /\ Device!DecidedOnce

\* An upload publishes one object, the expected one, and what clients were told of it stays.
UploadIsSafe == scenario = "upload" => Upload!PublishedIsExact /\ Upload!ToldIsTrue

\* After a sign-out nothing is sent for its scope, unless WorkManager works under the guard of
\* another runtime than the one that signed out.
SignOutIsQuiet == scenario = "runtime" => Runtime!SignOutIsQuiet

\* Requests that overlap leave one chain of events, seals that cover what they name, and what a
\* caller was told is recorded.
LedgerIsSafe == scenario = "audit" => Ledger!LedgerIsSafe
=============================================================================
