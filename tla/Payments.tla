-------------------------------- MODULE Payments --------------------------------
(***************************************************************************)
(* PayosPaymentService: the checkout of a plan (create) and the webhooks   *)
(* of the provider (applyWebhook with settlePaid), for the orders of one   *)
(* billing scope.                                                          *)
(*                                                                         *)
(* create runs outside a transaction: it inserts the order, calls the      *)
(* provider, and then writes the order by its id, whatever it has become.  *)
(* applyWebhook is one transaction at READ COMMITTED and is cut at its     *)
(* statements.  A row it has written is locked until it ends, and what it  *)
(* wrote is seen by others when it commits.  The provider repeats a        *)
(* webhook until it is answered, and may repeat it after that.  A webhook  *)
(* is known by the id of its event, the reference of its transaction, so   *)
(* one order may be reported as paid by webhooks with different ids.       *)
(***************************************************************************)
EXTENDS Naturals, Sequences, FiniteSets, SequencesExt

CONSTANTS Orders,      \* payment orders, each with an idempotency key of its own
          Handlers,    \* requests of the provider served at the same time
          None,
          Events,      \* the webhooks considered: the order, the kind and the id of the event
          Faults,      \* whether calls to the provider fail and processes die
          MaxFailures  \* bound on the transactions that fail

VARIABLES order,         \* payment_orders
          inbox,         \* payment_webhook_inbox, by the id of the event
          snapshots,     \* entitlement_snapshots of the scope, by revision: whose settlement made it
          subscription,  \* current_order_id of the subscription of the scope
          invoices,      \* orders with an invoice and a settlement audit row
          checkout,      \* the requests that create the orders
          handler,       \* the requests that apply webhooks
          link,          \* orders with a payment link at the provider
          sent,          \* events the provider sends
          answered,      \* events that were answered without an error
          failures       \* transactions that failed

vars == <<order, inbox, snapshots, subscription, invoices, checkout, handler, link, sent, answered,
          failures>>

database == <<order, inbox, snapshots, subscription, invoices>>
provider == <<link, sent, answered>>

Statuses == {"PENDING", "PAID", "CANCELLED", "FAILED"}

\* The status and the amount of a payload: SHORT is PAID with another amount than the order's.
Kinds == {"PAID", "SHORT", "CANCELLED", "FAILED"}

\* providerEventId: the reference of the transaction, else the link of the order.
Ids == {e.id : e \in Events}

\* verifyWebhook: the status it finds in a payload.
StatusOf(e) == IF e.kind = "SHORT" THEN "PAID" ELSE e.kind

OrderRows == [status : Statuses, url : BOOLEAN, revision : Nat \ {0}]

InboxRows == [event : Events, state : {"PROCESSED", "REJECTED"}]

HandlerSteps == {"idle", "inbox", "receive", "order", "update", "snapshot", "insert", "subscription",
                 "invoice", "commit"}

TypeOK ==
    /\ order \in [Orders -> OrderRows \cup {None}]
    /\ inbox \in [Ids -> InboxRows \cup {None}]
    /\ snapshots \in Seq(Events)
    /\ subscription \in Orders \cup {None}
    /\ invoices \subseteq Orders
    /\ checkout \in [Orders -> {"new", "provider", "link", "fail", "done"}]
    /\ handler \in [Handlers -> [at : HandlerSteps, event : Events \cup {None},
                                 read : OrderRows \cup {None}, revision : Nat]]
    /\ link \subseteq Orders
    /\ sent \subseteq Events
    /\ answered \subseteq sent
    /\ failures \in 0 .. MaxFailures

Idle == [at |-> "idle", event |-> None, read |-> None, revision |-> 0]

Init ==
    /\ order = [o \in Orders |-> None]
    /\ inbox = [i \in Ids |-> None]
    /\ snapshots = <<>>
    /\ subscription = None
    /\ invoices = {}
    /\ checkout = [o \in Orders |-> "new"]
    /\ handler = [h \in Handlers |-> Idle]
    /\ link = {}
    /\ sent = {}
    /\ answered = {}
    /\ failures = 0

-----------------------------------------------------------------------------
(* Locks                                                                   *)

\* The steps at which a transaction has written a row and not ended.
After(step) ==
    LET settling == {"invoice", "commit"} IN
    CASE step = "receive"      -> {"order", "update", "snapshot", "insert", "subscription"} \cup settling
      [] step = "update"       -> {"snapshot", "insert", "subscription"} \cup settling
      [] step = "insert"       -> {"subscription"} \cup settling
      [] step = "subscription" -> settling

Locked(o, h) ==
    \E g \in Handlers \ {h} : handler[g].at \in After("update") /\ handler[g].event.order = o

\* Whether a handler settles: the update made the order PAID, which was not read so.
Settles(h) == handler[h].revision > 0

-----------------------------------------------------------------------------
(* create                                                                  *)

NewOrder == [status |-> "PENDING", url |-> FALSE, revision |-> 1]

Insert(o) ==
    /\ checkout[o] = "new"
    /\ order' = [order EXCEPT ![o] = NewOrder]
    /\ checkout' = [checkout EXCEPT ![o] = "provider"]
    /\ UNCHANGED <<inbox, snapshots, subscription, invoices, handler, provider, failures>>

\* provider.create: it may fail before the provider has made the link, or after.
CallProvider(o) ==
    /\ checkout[o] = "provider"
    /\ \/ link' = link \cup {o} /\ checkout' = [checkout EXCEPT ![o] = "link"]
       \/ Faults /\ link' \in {link, link \cup {o}} /\ checkout' = [checkout EXCEPT ![o] = "fail"]
    /\ UNCHANGED <<database, handler, sent, answered, failures>>

SaveUrl(o) == [order[o] EXCEPT !.url = TRUE, !.revision = 2]

\* The update of checkoutUrl, by id; when it fails the catch clause runs.
SaveLink(o) ==
    /\ checkout[o] = "link"
    /\ \/ /\ ~Locked(o, None)
          /\ order' = [order EXCEPT ![o] = SaveUrl(o)]
          /\ checkout' = [checkout EXCEPT ![o] = "done"]
       \/ /\ Faults
          /\ checkout' = [checkout EXCEPT ![o] = "fail"]
          /\ order' = order
    /\ UNCHANGED <<inbox, snapshots, subscription, invoices, handler, provider, failures>>

\* The catch clause: FAILED by id; that this update may fail is swallowed.
SaveFailed(o) ==
    /\ checkout[o] = "fail"
    /\ \/ /\ ~Locked(o, None)
          /\ order' = [order EXCEPT ![o].status = "FAILED", ![o].revision = 2]
       \/ order' = order
    /\ checkout' = [checkout EXCEPT ![o] = "done"]
    /\ UNCHANGED <<inbox, snapshots, subscription, invoices, handler, provider, failures>>

\* The process dies: the order keeps what it has, and a call with the same key returns it.
Crash(o) ==
    /\ Faults
    /\ checkout[o] \in {"provider", "link", "fail"}
    /\ checkout' = [checkout EXCEPT ![o] = "done"]
    /\ UNCHANGED <<database, handler, provider, failures>>

-----------------------------------------------------------------------------
(* The provider                                                            *)

Emit(e) ==
    /\ e.order \in link
    /\ e \notin sent
    /\ sent' = sent \cup {e}
    /\ UNCHANGED <<database, checkout, handler, link, answered, failures>>

Deliver(h, e) ==
    /\ handler[h].at = "idle"
    /\ e \in sent
    /\ handler' = [handler EXCEPT ![h].at = "inbox", ![h].event = e]
    /\ UNCHANGED <<database, checkout, provider, failures>>

-----------------------------------------------------------------------------
(* applyWebhook                                                            *)

Goto(h, step) == handler' = [handler EXCEPT ![h].at = step]

\* The transaction ends and its locks are released; ok when the answer is no error.
Return(h, ok) ==
    /\ handler' = [handler EXCEPT ![h] = Idle]
    /\ answered' = IF ok THEN answered \cup {handler[h].event} ELSE answered
    /\ UNCHANGED <<link, sent>>

\* The row of the inbox is written with what the payload says.
Stored(h, state) ==
    [inbox EXCEPT ![handler[h].event.id] = [event |-> handler[h].event, state |-> state]]

\* (Mutant of RolledBack) The inbox row is kept when the transaction fails.
RolledBackButInbox(h) ==
    /\ inbox' = Stored(h, "PROCESSED")
    /\ Return(h, FALSE)
    /\ UNCHANGED <<order, snapshots, subscription, invoices>>

\* The transaction fails and the provider gets an error.
RolledBack(h) == Return(h, FALSE) /\ UNCHANGED database

nextStatus(current, incoming) ==
    IF current \in {"PAID", "CANCELLED", "FAILED"} THEN current ELSE incoming

\* An id that was stored is not applied again; under it only the same amount and status are
\* answered, with the order as it stands.
FindInbox(h) ==
    LET e == handler[h].event IN
    /\ handler[h].at = "inbox"
    /\ IF inbox[e.id] = None
       THEN Goto(h, "receive") /\ UNCHANGED provider
       ELSE Return(h, inbox[e.id].event.kind = e.kind /\ order[e.order] # None)
    /\ UNCHANGED <<database, checkout, failures>>

\* (Mutant of EventFree) The id is only looked up, there is no unique index.
EventFreeAlways(h) == TRUE

\* The unique event id: an insert waits for another one of the same id.
EventFree(h) ==
    \A g \in Handlers \ {h} :
        ~(handler[g].at \in After("receive") /\ handler[g].event.id = handler[h].event.id)

\* It fails when the other one commits.
Receive(h) ==
    /\ handler[h].at = "receive"
    /\ EventFree(h)
    /\ IF inbox[handler[h].event.id] = None
       THEN Goto(h, "order") /\ UNCHANGED <<database, provider>>
       ELSE RolledBack(h)
    /\ UNCHANGED <<checkout, failures>>

\* The payment of an unknown order, or of another amount, is rejected.
Rejects(e) == order[e.order] = None \/ e.kind = "SHORT"

FindOrder(h) ==
    LET e == handler[h].event IN
    /\ handler[h].at = "order"
    /\ IF Rejects(e)
       THEN /\ inbox' = Stored(h, "REJECTED")
            /\ Return(h, FALSE)
       ELSE /\ handler' = [handler EXCEPT ![h].at = "update", ![h].read = order[e.order]]
            /\ UNCHANGED <<inbox, provider>>
    /\ UNCHANGED <<order, snapshots, subscription, invoices, checkout, failures>>

\* The update by id waits for the lock of the row, not for what was read to hold.
LockOrder(h) ==
    /\ handler[h].at = "update"
    /\ ~Locked(handler[h].event.order, h)
    /\ Goto(h, IF nextStatus(handler[h].read.status, StatusOf(handler[h].event)) = "PAID"
                  /\ handler[h].read.status # "PAID"
               THEN "snapshot" ELSE "commit")
    /\ UNCHANGED <<database, checkout, provider, failures>>

\* settlePaid: the revision of the snapshot is the next one.
FindSnapshot(h) ==
    /\ handler[h].at = "snapshot"
    /\ handler' = [handler EXCEPT ![h].at = "insert", ![h].revision = Len(snapshots) + 1]
    /\ UNCHANGED <<database, checkout, provider, failures>>

\* settlePaid: the unique revision makes an insert wait for another one, and fail if it commits.
InsertSnapshot(h) ==
    /\ handler[h].at = "insert"
    /\ \A g \in Handlers \ {h} :
          ~(handler[g].at \in After("insert") /\ handler[g].revision = handler[h].revision)
    /\ IF handler[h].revision > Len(snapshots)
       THEN Goto(h, "subscription") /\ UNCHANGED <<database, provider>>
       ELSE RolledBack(h)
    /\ UNCHANGED <<checkout, failures>>

\* settlePaid: the subscription of the scope.
UpsertSubscription(h) ==
    /\ handler[h].at = "subscription"
    /\ \A g \in Handlers \ {h} : handler[g].at \notin After("subscription") \/ ~Settles(g)
    /\ Goto(h, "invoice")
    /\ UNCHANGED <<database, checkout, provider, failures>>

\* settlePaid: the invoice and the audit row, each made when there is none.
InsertInvoice(h) ==
    /\ handler[h].at = "invoice"
    /\ Goto(h, "commit")
    /\ UNCHANGED <<database, checkout, provider, failures>>

\* What the update wrote: only its own columns.
Written(h) ==
    [order[handler[h].event.order] EXCEPT
        !.status = nextStatus(handler[h].read.status, StatusOf(handler[h].event)),
        !.revision = handler[h].read.revision + 1]

Settled(h) ==
    /\ snapshots' = Append(snapshots, handler[h].event)
    /\ subscription' = handler[h].event.order
    /\ invoices' = invoices \cup {handler[h].event.order}

Commit(h) ==
    /\ handler[h].at = "commit"
    /\ inbox' = Stored(h, "PROCESSED")
    /\ order' = [order EXCEPT ![handler[h].event.order] = Written(h)]
    /\ IF Settles(h) THEN Settled(h) ELSE UNCHANGED <<snapshots, subscription, invoices>>
    /\ Return(h, TRUE)
    /\ UNCHANGED <<checkout, failures>>

\* A statement or the commit fails.
Fail(h) ==
    /\ handler[h].at # "idle"
    /\ failures < MaxFailures
    /\ failures' = failures + 1
    /\ RolledBack(h)
    /\ UNCHANGED checkout

-----------------------------------------------------------------------------

Create(o) == Insert(o) \/ CallProvider(o) \/ SaveLink(o) \/ SaveFailed(o) \/ Crash(o)

Handle(h) ==
    \/ FindInbox(h) \/ Receive(h) \/ FindOrder(h) \/ LockOrder(h) \/ FindSnapshot(h)
    \/ InsertSnapshot(h) \/ UpsertSubscription(h) \/ InsertInvoice(h) \/ Commit(h)

Next ==
    \/ \E o \in Orders : Create(o)
    \/ \E e \in Events : Emit(e)
    \/ \E h \in Handlers, e \in Events : Deliver(h, e)
    \/ \E h \in Handlers : Handle(h) \/ Fail(h)

Spec == Init /\ [][Next]_vars

\* Requests are served to their end, and the provider repeats what was not answered.
FairSpec ==
    /\ Spec
    /\ \A h \in Handlers : WF_vars(Handle(h))
    /\ \A e \in Events : SF_vars(e \notin answered /\ \E h \in Handlers : Deliver(h, e))

-----------------------------------------------------------------------------
(* Properties                                                              *)

\* An event settles at most once, however often and however concurrently the provider repeats its
\* webhook, with crashes and rollbacks in between.
EventsSettleOnce ==
    \A i, j \in DOMAIN snapshots : snapshots[i].id = snapshots[j].id => i = j

\* What settles an order is a payment in full that the inbox has as processed, and the order has an
\* invoice if and only if there was one.
SettlementsAreRecorded ==
    /\ \A i \in DOMAIN snapshots :
          /\ snapshots[i].kind = "PAID"
          /\ inbox[snapshots[i].id] = [event |-> snapshots[i], state |-> "PROCESSED"]
    /\ invoices = {snapshots[i].order : i \in DOMAIN snapshots}

\* A settled order is never open again, whatever a late webhook or the catch clause of create writes
\* over it: a payment whose webhook reads it after the settlement does not settle it.  (Two payments
\* with ids of their own that both read it before do settle it twice.)
SettledIsClosed == \A o \in invoices : order[o].status # "PENDING"

\* All of this of every settlement.
SettledOnce == EventsSettleOnce /\ SettlementsAreRecorded /\ SettledIsClosed

\* Settlements of two orders of one scope at a time: the subscription is the one of the entitlement
\* snapshot in force, not of a settlement that was overtaken.
SubscriptionFollows == snapshots # <<>> => subscription = Last(snapshots).order

\* The order has got another end: it was cancelled or has failed, or the id of the event is in the
\* inbox already, with other content or for another order.
Refuses(e) ==
    \/ order[e.order] # None /\ order[e.order].status \in {"CANCELLED", "FAILED"}
    \/ inbox[e.id] # None /\ inbox[e.id].event # e

\* Every payment in full that the provider announces is settled in the end, unless its order was
\* cancelled or failed before, or its id is taken: across failing transactions, repeated webhooks
\* and settlements of orders of the scope that exclude each other.
EveryPaymentSettles ==
    \A e \in Events : e.kind = "PAID" /\ e \in sent ~> e.order \in invoices \/ Refuses(e)
=============================================================================
