---------------------------- MODULE NotificationOutbox ----------------------------
(***************************************************************************)
(* The projection of committed refresh events to notifications:            *)
(* NotificationOutboxProjectionWorkerV1 asks PrismaNotificationCommitted-  *)
(* OutboxAdapter for workspaces and pages of events, and NotificationProj- *)
(* ectionConsumerV1 gives every recipient its receipt and notification     *)
(* before the checkpoint of the workspace moves on.                        *)
(*                                                                         *)
(* Events are numbered in the order of the outbox, by occurredAt and event *)
(* id; the actionable ones of a workspace fall into one bundle, the case in*)
(* which they meet.  A transaction is cut between its reads and its writes.*)
(***************************************************************************)
EXTENDS Naturals, FiniteSets

CONSTANTS Last,          \* events are 1 .. Last
          Scopes,        \* workspaces
          Recipients,    \* members who may see the subject
          Consumers,     \* API processes, each with its worker
          ScopeLimit,    \* workspaces of one run
          ScopeRows,     \* events that listPendingScopes reads: scopeLimit * 4
          Limit,         \* batchLimit
          Late,          \* whether an event may commit after one that occurred later
          Broken,        \* workspaces whose recipients cannot be resolved
          MaxFailures,   \* bound on the runs that fail
          MaxRevision    \* bound on the revision of a notification

ASSUME NotificationAssumption ==
    /\ Last \in Nat \ {0}
    /\ ScopeLimit \in Nat \ {0}
    /\ ScopeRows \in Nat \ {0}
    /\ Limit \in Nat \ {0}
    /\ Late \in BOOLEAN
    /\ Broken \subseteq Scopes
    /\ MaxFailures \in Nat
    /\ MaxRevision \in Nat \ {0}

Events == 1 .. Last

VARIABLES scope,       \* the workspace of an event
          actionable,  \* events that have a notification kind
          committed,   \* dashboard_refresh_events
          overtaken,   \* events that were committed after a later one of their workspace (history)
          checkpoint,  \* notification_projection_checkpoints, 0 when there is none
          receipt,     \* notification_projection_receipts
          intent,      \* notification_intents, of count 0 when there is none
          run,         \* the run of a worker
          failures

vars == <<scope, actionable, committed, overtaken, checkpoint, receipt, intent, run, failures>>

UserStates == {"UNREAD", "READ", "ARCHIVED", "DISMISSED"}

Intents == [count : 0 .. Last, state : UserStates, revision : 1 .. MaxRevision]

TypeOK ==
    /\ scope \in [Events -> Scopes]
    /\ actionable \subseteq Events
    /\ committed \subseteq Events
    /\ overtaken \subseteq committed
    /\ checkpoint \in [Scopes -> 0 .. Last]
    /\ receipt \subseteq Recipients \X Events
    /\ intent \in [Scopes -> [Recipients -> Intents]]
    /\ run \in [Consumers -> [at : {"idle", "scope", "event", "read", "write", "advance"},
                              scopes : SUBSET Scopes, page : SUBSET Events,
                              todo : SUBSET Recipients, seen : Intents]]
    /\ failures \in 0 .. MaxFailures

NoIntent == [count |-> 0, state |-> "UNREAD", revision |-> 1]

Idle == [at |-> "idle", scopes |-> {}, page |-> {}, todo |-> {}, seen |-> NoIntent]

Init ==
    /\ scope \in [Events -> Scopes]
    /\ actionable \in SUBSET Events
    /\ committed = {}
    /\ overtaken = {}
    /\ checkpoint = [s \in Scopes |-> 0]
    /\ receipt = {}
    /\ intent = [s \in Scopes |-> [r \in Recipients |-> NoIntent]]
    /\ run = [c \in Consumers |-> Idle]
    /\ failures = 0

\* The first n of a set of events.
FirstOf(events, n) == {e \in events : Cardinality({f \in events : f < e}) < n}

Least(events) == CHOOSE e \in events : \A f \in events : e <= f

Event(c) == Least(run[c].page)

Recipient(c) == CHOOSE r \in run[c].todo : TRUE

Fail(c) == run' = [run EXCEPT ![c] = Idle]

-----------------------------------------------------------------------------
(* The outbox                                                              *)

\* occurredAt is given by the application before the transaction of the event commits.
Commit(e) ==
    /\ e \notin committed
    /\ Late \/ \A f \in Events : f < e => f \in committed
    /\ committed' = committed \cup {e}
    /\ overtaken' = IF \E f \in committed : f > e /\ scope[f] = scope[e] THEN overtaken \cup {e}
                                                                        ELSE overtaken
    /\ UNCHANGED <<scope, actionable, checkpoint, receipt, intent, run, failures>>

\* Workspaces that have an event before e.
ScopesBefore(e) == {scope[f] : f \in {f \in committed : f < e}}

\* The first workspaces of the oldest events, whether they have been projected or not.
pendingScopes ==
    {scope[e] : e \in {e \in FirstOf(committed, ScopeRows) :
                           Cardinality(ScopesBefore(e) \ {scope[e]}) < ScopeLimit}}

runOnce(c) ==
    /\ run[c].at = "idle"
    /\ pendingScopes # {}
    /\ run' = [run EXCEPT ![c] = [Idle EXCEPT !.at = "scope", !.scopes = pendingScopes]]
    /\ UNCHANGED <<scope, actionable, committed, overtaken, checkpoint, receipt, intent, failures>>

\* The next workspace is the one of the oldest event.
NextScope(c) == scope[Least({e \in committed : scope[e] \in run[c].scopes})]

\* (Mutant of Pending) The cursor is included.
PendingInclusive(s) == {e \in committed : scope[e] = s /\ e >= checkpoint[s]}

\* The events after the checkpoint.
Pending(s) == {e \in committed : scope[e] = s /\ e > checkpoint[s]}

\* A page after the checkpoint; the run goes on with the next workspace when it is through.
Page(c) ==
    /\ run[c].at = "scope"
    /\ run' = IF run[c].scopes = {} THEN [run EXCEPT ![c] = Idle]
              ELSE [run EXCEPT ![c] = [Idle EXCEPT !.at = "event", !.page = FirstOf(Pending(NextScope(c)), Limit),
                                       !.scopes = run[c].scopes \ {NextScope(c)}]]
    /\ UNCHANGED <<scope, actionable, committed, overtaken, checkpoint, receipt, intent, failures>>

-----------------------------------------------------------------------------
(* consume                                                                 *)

\* An event that the checkpoint has passed is taken for a replay.
Replayed(e) == e <= checkpoint[scope[e]]

\* The next event of the page: what follows depends on its kind and on the checkpoint.
Consume(c) ==
    /\ run[c].at = "event"
    /\ IF run[c].page = {} THEN run' = [run EXCEPT ![c].at = "scope"]
       ELSE IF Event(c) \notin actionable THEN run' = [run EXCEPT ![c].at = "advance"]
       ELSE IF Replayed(Event(c)) THEN run' = [run EXCEPT ![c].page = @ \ {Event(c)}]
       ELSE IF scope[Event(c)] \in Broken THEN Fail(c)
       ELSE run' = [run EXCEPT ![c].at = "read", ![c].todo = Recipients]
    /\ UNCHANGED <<scope, actionable, committed, overtaken, checkpoint, receipt, intent, failures>>

\* createIntent: the receipt of the recipient, and else the notification of the bundle.
ReadIntent(c) ==
    /\ run[c].at = "read"
    /\ run' = IF run[c].todo = {} THEN [run EXCEPT ![c].at = "advance"]
              ELSE IF <<Recipient(c), Event(c)>> \in receipt
              THEN [run EXCEPT ![c].todo = @ \ {Recipient(c)}]
              ELSE [run EXCEPT ![c].at = "write",
                               ![c].seen = intent[scope[Event(c)]][Recipient(c)]]
    /\ UNCHANGED <<scope, actionable, committed, overtaken, checkpoint, receipt, intent, failures>>

\* The receipt is unique.
FreshReceipt(c) == <<Recipient(c), Event(c)>> \notin receipt

\* The bundle is unique, and its row is updated by the revision that was read.
Unchanged(c) ==
    LET row == intent[scope[Event(c)]][Recipient(c)] IN
    /\ run[c].seen.count = 0 => row.count = 0
    /\ row.revision = run[c].seen.revision

\* What the update writes is computed from the row that was read; the revision stays.
WriteIntent(c) ==
    LET s == scope[Event(c)]
        r == Recipient(c) IN
    /\ run[c].at = "write"
    /\ FreshReceipt(c) /\ Unchanged(c)
    /\ run[c].seen.count < Last
    /\ intent' = [intent EXCEPT ![s][r].count = run[c].seen.count + 1]
    /\ receipt' = receipt \cup {<<r, Event(c)>>}
    /\ run' = [run EXCEPT ![c].at = "read", ![c].todo = @ \ {r}, ![c].seen = NoIntent]
    /\ UNCHANGED <<scope, actionable, committed, overtaken, checkpoint, failures>>

\* The transaction fails: the receipt of another run is a replay, anything else ends the run.
RejectIntent(c) ==
    /\ run[c].at = "write"
    /\ ~(FreshReceipt(c) /\ Unchanged(c))
    /\ IF FreshReceipt(c) THEN Fail(c)
       ELSE run' = [run EXCEPT ![c].at = "read", ![c].todo = @ \ {Recipient(c)}, ![c].seen = NoIntent]
    /\ UNCHANGED <<scope, actionable, committed, overtaken, checkpoint, receipt, intent, failures>>

\* (Mutant of Advanced) The checkpoint is the one of the page, not of the event.
AdvancedByPage(c) ==
    [checkpoint EXCEPT ![scope[Event(c)]] = CHOOSE e \in run[c].page : \A f \in run[c].page : f <= e]

\* A checkpoint that is further on stays.
Advanced(c) ==
    [checkpoint EXCEPT ![scope[Event(c)]] = IF Event(c) > @ THEN Event(c) ELSE @]

advanceCheckpoint(c) ==
    /\ run[c].at = "advance"
    /\ checkpoint' = Advanced(c)
    /\ run' = [run EXCEPT ![c].at = "event", ![c].page = @ \ {Event(c)}]
    /\ UNCHANGED <<scope, actionable, committed, overtaken, receipt, intent, failures>>

\* A read or a transaction fails, or the process stops: the run ends, the timer starts the next one.
FailRun(c) ==
    /\ run[c].at # "idle"
    /\ failures < MaxFailures
    /\ failures' = failures + 1
    /\ Fail(c)
    /\ UNCHANGED <<scope, actionable, committed, overtaken, checkpoint, receipt, intent>>

-----------------------------------------------------------------------------
(* setStateCommand                                                         *)

rank == [UNREAD |-> 0, READ |-> 1, ARCHIVED |-> 2, DISMISSED |-> 3]

canAdvance(current, next) == rank[current] < rank[next]

setStateCommand(s, r, next) ==
    /\ intent[s][r].count > 0
    /\ canAdvance(intent[s][r].state, next)
    /\ intent[s][r].revision < MaxRevision
    /\ intent' = [intent EXCEPT ![s][r].state = next, ![s][r].revision = @ + 1]
    /\ UNCHANGED <<scope, actionable, committed, overtaken, checkpoint, receipt, run, failures>>

-----------------------------------------------------------------------------

Step(c) ==
    \/ runOnce(c) \/ Page(c) \/ Consume(c)
    \/ ReadIntent(c) \/ WriteIntent(c) \/ RejectIntent(c)
    \/ advanceCheckpoint(c)

Next ==
    \/ \E e \in Events : Commit(e)
    \/ \E c \in Consumers : Step(c) \/ FailRun(c)
    \/ \E s \in Scopes, r \in Recipients, next \in {"READ", "DISMISSED"} : setStateCommand(s, r, next)

Spec == Init /\ [][Next]_vars

\* The timer of every worker keeps firing.
FairSpec == Spec /\ \A c \in Consumers : WF_vars(Step(c))

-----------------------------------------------------------------------------
(* Properties                                                              *)

\* Events of the workspace were committed in the order in which they occurred.
InOrder(s) == \A e \in overtaken : scope[e] # s

Receipts(s, r) == {e \in Events : scope[e] = s /\ <<r, e>> \in receipt}

\* A bundle counts no event twice and none its recipient has no receipt for, and it counts every
\* one of them when the events of the workspace were committed in order: no run that overlaps with
\* another, fails or is repeated adds to it or takes from it.
CountsMatch ==
    \A s \in Scopes, r \in Recipients :
        /\ intent[s][r].count <= Cardinality(Receipts(s, r))
        /\ InOrder(s) => intent[s][r].count = Cardinality(Receipts(s, r))

\* The checkpoint passes no event, except one that was committed after a later event of its
\* workspace, before it has reached all its recipients.
NothingSkipped ==
    \A e \in (committed \cap actionable) \ overtaken :
        e <= checkpoint[scope[e]] => Recipients \X {e} \subseteq receipt

\* A run comes to the workspace of the event: it is seen in the window of oldest events, and no
\* workspace whose recipients cannot be resolved is there before it.
InView(e) ==
    /\ scope[e] \in pendingScopes
    /\ \A f \in committed :
          scope[f] \in Broken => \E g \in committed : scope[g] = scope[e] /\ g < f

\* A committed event whose workspace stays in view is projected in the end, if it was not
\* overtaken, and passed in any case.
EveryEventProjected ==
    \A e \in Events :
        (e \in committed /\ []InView(e)) ~>
            /\ e <= checkpoint[scope[e]]
            /\ e \in actionable \ overtaken => Recipients \X {e} \subseteq receipt
=============================================================================
