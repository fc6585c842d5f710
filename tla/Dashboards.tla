------------------------------ MODULE Dashboards ------------------------------
(* The components of data to dashboard, and the approvals publication rests *)
(* on, side by side: a behaviour follows the component that `scenario'      *)
(* names, and the others stay as they began.  Its constants are those of    *)
(* the components, each with the name of its component before it; the       *)
(* clock and the repetitions of Approvals are those of DashboardPublication *)
(* too.                                                                     *)
EXTENDS Approvals

CONSTANTS NoVersion,
          PublicationRequests, PublicationVersions, PublicationFirst, PublicationActors,
          PublicationEligible, PublicationMinApprovals, PublicationSelfApproval,
          PublicationCallers, PublicationKeys, PublicationWorkers, PublicationMaxRevision,
          PublicationMaxFaults,                                       \* of DashboardPublication
          EtlRequests, EtlAuto, EtlKeys, EtlPayloads, EtlLeaseTerm, EtlMaxClock, \* of EtlAcceptance
          RefreshLast, RefreshWindow, RefreshWorkers, RefreshMaxRevision,
          PromptProcs, PromptReaders, DelayedProcs, DelayedReaders,   \* of DashboardRefresh
          NotificationLast, NotificationScopes, NotificationRecipients, NotificationConsumers,
          NotificationScopeLimit, NotificationScopeRows, NotificationLimit, NotificationLate,
          NotificationBroken, NotificationMaxFailures, NotificationMaxRevision, \* of NotificationOutbox
          StreamStreams, StreamPageSize, StreamMaxEvents, StreamMaxBreaks,       \* of RefreshStream
          AuthoringLast, AuthoringInFlight, AuthoringCommands, AuthoringProposals, AuthoringBase,
          AuthoringMaxRevision, AuthoringMaxFaults,                   \* of DashboardAuthoring
          AgentCalls, AgentInputs, AgentValues, AgentMaxFaults,       \* of AgentCommand
          DialogueTurns, DialogueAdvances, DialogueKeys, ContextAdvances, ContextKeys,
          ConversationAnswers, ConversationDatasets, ConversationMaxVersion      \* of Conversation

VARIABLES scenario,
          asked, decided, now, board, versions, publications, publishing, outbox, task, faults,
          proposal, commands, req, answer, datasets, audits, clock,
          group, refresh, key, latest, pointer, refresh_clock, call, worker, cache, read,
          scope, actionable, committed, overtaken, checkpoint, receipt, intent, run, failures,
          highest, allowed, stream, last, known, late, breaks,
          draft, revision, saved, removed, applied, proposals, applying, losses,
          command, requested, audited, performed, told, deaths,
          conversation, messages, events, newest, turn, answered

\* Callers publish versions that have an approved request.
Publication == INSTANCE DashboardPublication
               WITH Requests <- PublicationRequests, Versions <- PublicationVersions,
                    First <- PublicationFirst, Actors <- PublicationActors,
                    Eligible <- PublicationEligible, MinApprovals <- PublicationMinApprovals,
                    SelfApproval <- PublicationSelfApproval, Callers <- PublicationCallers,
                    Keys <- PublicationKeys, Workers <- PublicationWorkers,
                    MaxRevision <- PublicationMaxRevision, MaxFaults <- PublicationMaxFaults,
                    call <- publishing, requests <- asked, decisions <- decided

\* Requests for one proposal, some of them automatic preparation.
Etl == INSTANCE EtlAcceptance
       WITH Requests <- EtlRequests, Auto <- EtlAuto, Keys <- EtlKeys, Payloads <- EtlPayloads,
            None <- NoVersion, LeaseTerm <- EtlLeaseTerm, MaxClock <- EtlMaxClock,
            versions <- datasets

\* Processes accept triggers, workers refresh in time.
Prompt == INSTANCE DashboardRefreshProofs
          WITH Last <- RefreshLast, Window <- RefreshWindow, Procs <- PromptProcs,
               Readers <- PromptReaders, Workers <- RefreshWorkers, None <- NoVersion, Late <- FALSE,
               MaxRevision <- RefreshMaxRevision, clock <- refresh_clock

\* Workers may be late.
Delayed == INSTANCE DashboardRefreshProofs
           WITH Last <- RefreshLast, Window <- RefreshWindow, Procs <- DelayedProcs,
                Readers <- DelayedReaders, Workers <- RefreshWorkers, None <- NoVersion, Late <- TRUE,
                MaxRevision <- RefreshMaxRevision, clock <- refresh_clock

\* Workers project events for their recipients; an event may be committed after a later one.
Notifications == INSTANCE NotificationOutbox
                 WITH Last <- NotificationLast, Scopes <- NotificationScopes,
                      Recipients <- NotificationRecipients, Consumers <- NotificationConsumers,
                      ScopeLimit <- NotificationScopeLimit, ScopeRows <- NotificationScopeRows,
                      Limit <- NotificationLimit,
                      Late <- NotificationLate, Broken <- NotificationBroken,
                      MaxFailures <- NotificationMaxFailures, MaxRevision <- NotificationMaxRevision

\* Streams of one client, events and breaks.
Stream == INSTANCE RefreshStream
          WITH Streams <- StreamStreams, PageSize <- StreamPageSize, MaxEvents <- StreamMaxEvents,
               MaxBreaks <- StreamMaxBreaks

\* Requests with commands on one dashboard.
Authoring == INSTANCE DashboardAuthoring
             WITH Last <- AuthoringLast, InFlight <- AuthoringInFlight, Commands <- AuthoringCommands,
                  Proposals <- AuthoringProposals, Base <- AuthoringBase, None <- NoVersion,
                  MaxRevision <- AuthoringMaxRevision, MaxFaults <- AuthoringMaxFaults,
                  versions <- saved, commands <- applied, call <- applying, faults <- losses

\* Calls of execute or reconcile, which may come with another input.
Agent == INSTANCE AgentCommand
         WITH Calls <- AgentCalls, Inputs <- AgentInputs, Values <- AgentValues,
              NoOne <- NoVersion, MaxFaults <- AgentMaxFaults, requests <- requested, faults <- deaths

\* Turns and their repetition, while the context changes.
Dialogue == INSTANCE ConversationProofs
         WITH Turns <- DialogueTurns, Advances <- DialogueAdvances, Keys <- DialogueKeys,
              Answers <- ConversationAnswers, Datasets <- ConversationDatasets, None <- NoVersion,
              MaxVersion <- ConversationMaxVersion, latest <- newest

\* Changes of the context alone.
Context == INSTANCE ConversationProofs
           WITH Turns <- {}, Advances <- ContextAdvances, Keys <- ContextKeys,
                Answers <- ConversationAnswers, Datasets <- ConversationDatasets, None <- NoVersion,
                MaxVersion <- ConversationMaxVersion, latest <- newest

ASSUME PublicationAssumption ==
    /\ PublicationMaxRevision \in Nat \ {0} /\ PublicationMaxFaults \in Nat
    /\ NoVersion \notin PublicationVersions /\ PublicationFirst \in PublicationVersions

ASSUME EtlAssumption ==
    /\ EtlKeys # {} /\ EtlPayloads # {}
    /\ EtlLeaseTerm \in Nat
    /\ NoVersion \notin Etl!Commands

\* Runs and calls are finitely many: the clock and the numbers of messages are bounded by theirs.
ASSUME RefreshAssumption ==
    Prompt!RefreshConstants /\ Delayed!RefreshConstants /\ IsFiniteSet(RefreshWorkers)

ASSUME NotificationAssumption ==
    /\ NotificationLast \in Nat \ {0} /\ NotificationLimit \in Nat /\ NotificationLate \in BOOLEAN
    /\ NotificationMaxFailures \in Nat /\ NotificationMaxRevision \in Nat \ {0}

ASSUME StreamAssumption ==
    StreamPageSize \in Nat /\ StreamMaxEvents \in Nat /\ StreamMaxBreaks \in Nat

\* The commands of the editor, and what each names.
AuthoringKinds ==
    {"ACCEPT_PROPOSAL", "SET_LAYOUT", "REMOVE_WIDGET", "RESTORE_WIDGET", "CONFIGURE_PRESENTATION"}

ASSUME AuthoringAssumption ==
    /\ AuthoringLast \in Nat /\ AuthoringMaxRevision \in Nat \ {0} /\ AuthoringMaxFaults \in Nat
    /\ NoVersion \notin 0 .. AuthoringLast
    /\ \A k \in AuthoringCommands :
          /\ k.kind \in AuthoringKinds
          /\ k.kind = "ACCEPT_PROPOSAL" => k.target \in AuthoringProposals
          /\ k.kind = "CONFIGURE_PRESENTATION" => k.form \in {1, 2}

ASSUME AgentAssumption == AgentMaxFaults \in Nat

ASSUME ConversationAssumption ==
    /\ Dialogue!ConversationConstants
    /\ IsFiniteSet(DialogueTurns) /\ IsFiniteSet(DialogueAdvances) /\ IsFiniteSet(ContextAdvances)

approval_vars == <<requests, decisions>>
publication_vars == <<asked, decided, now, board, versions, publications, publishing,
                      outbox, task, faults>>
etl_vars == <<proposal, commands, req, answer, datasets, audits, clock>>
refresh_vars == <<group, refresh, key, latest, pointer, refresh_clock, call, worker, cache, read>>
notification_vars == <<scope, actionable, committed, overtaken, checkpoint, receipt, intent, run, failures>>
stream_vars == <<highest, allowed, stream, last, known, late, breaks>>
authoring_vars == <<draft, revision, saved, removed, applied, proposals, applying, losses>>
agent_vars == <<command, requested, audited, performed, told, deaths>>
conversation_vars == <<conversation, messages, events, newest, turn, answered>>

Start ==
    /\ scenario \in {"approvals", "publication", "etl", "prompt", "late", "notifications",
                     "stream", "authoring", "agent", "turns", "context"}
    /\ Init /\ Publication!Init
    /\ Etl!Init
    /\ IF scenario = "late" THEN Delayed!Init ELSE Prompt!Init
    /\ Notifications!Init /\ Stream!Init /\ Authoring!Init
    /\ Agent!Init
    /\ IF scenario = "context" THEN Context!Init ELSE Dialogue!Init

Step ==
    /\ UNCHANGED scenario
    /\ \/ /\ scenario = "approvals" /\ Next
          /\ UNCHANGED <<publication_vars, etl_vars, refresh_vars, notification_vars, stream_vars,
                         authoring_vars, agent_vars, conversation_vars>>
       \/ /\ scenario = "publication" /\ Publication!Next
          /\ UNCHANGED <<approval_vars, etl_vars, refresh_vars, notification_vars, stream_vars,
                         authoring_vars, agent_vars, conversation_vars>>
       \/ /\ scenario = "etl" /\ Etl!Next
          /\ UNCHANGED <<approval_vars, publication_vars, refresh_vars, notification_vars, stream_vars,
                         authoring_vars, agent_vars, conversation_vars>>
       \/ /\ \/ scenario = "prompt" /\ Prompt!Next
             \/ scenario = "late" /\ Delayed!Next
          /\ UNCHANGED <<approval_vars, publication_vars, etl_vars, notification_vars, stream_vars,
                         authoring_vars, agent_vars, conversation_vars>>
       \/ /\ scenario = "notifications" /\ Notifications!Next
          /\ UNCHANGED <<approval_vars, publication_vars, etl_vars, refresh_vars, stream_vars,
                         authoring_vars, agent_vars, conversation_vars>>
       \/ /\ scenario = "stream" /\ Stream!Next
          /\ UNCHANGED <<approval_vars, publication_vars, etl_vars, refresh_vars, notification_vars,
                         authoring_vars, agent_vars, conversation_vars>>
       \/ /\ scenario = "authoring" /\ Authoring!Next
          /\ UNCHANGED <<approval_vars, publication_vars, etl_vars, refresh_vars, notification_vars,
                         stream_vars, agent_vars, conversation_vars>>
       \/ /\ scenario = "agent" /\ Agent!Next
          /\ UNCHANGED <<approval_vars, publication_vars, etl_vars, refresh_vars, notification_vars,
                         stream_vars, authoring_vars, conversation_vars>>
       \/ /\ \/ scenario = "turns" /\ Dialogue!Next
             \/ scenario = "context" /\ Context!Next
          /\ UNCHANGED <<approval_vars, publication_vars, etl_vars, refresh_vars, notification_vars,
                         stream_vars, authoring_vars, agent_vars>>

everything == <<scenario, approval_vars, publication_vars, etl_vars, refresh_vars,
                notification_vars, stream_vars, authoring_vars, agent_vars, conversation_vars>>

Behaviours == Start /\ [][Step]_everything

\* Every variable has its type, whatever the scenario.
TypesOK ==
    CASE scenario = "approvals" -> TypeOK
      [] scenario = "publication" -> Publication!TypeOK
      [] scenario = "etl" -> Etl!TypeOK
      [] scenario = "prompt" -> Prompt!TypeOK
      [] scenario = "late" -> Delayed!TypeOK
      [] scenario = "notifications" -> Notifications!TypeOK
      [] scenario = "stream" -> Stream!TypeOK
      [] scenario = "authoring" -> Authoring!TypeOK
      [] scenario = "agent" -> Agent!TypeOK
      [] scenario = "turns" -> Dialogue!TypeOK
      [] scenario = "context" -> Context!TypeOK

\* Publications of a dashboard form one line, one per key, and a withdrawal that is marked done
\* has left no approval of the version that was replaced.
PublicationIsSafe ==
    scenario = "publication" =>
        Publication!HistoryIsLinear /\ Publication!OneSnapshotPerKey /\ Publication!DoneMeansWithdrawn

\* A proposal is executed once, all who ask with one key are told one version, and an accepted
\* proposal has its command, its dataset version and its audit record.
AcceptanceIsSafe ==
    scenario = "etl" => Etl!OneExecution /\ Etl!AnswersAgree /\ Etl!AcceptedIsRecorded

\* The refresh that is shown is for the input that changed last, and each trigger finds its own.
RefreshIsSafe == scenario = "prompt" => Prompt!LatestWins /\ Prompt!KeysMatch

\* The snapshot that is shown never goes back, though leases end and workers are late.
SnapshotsMoveForward == Delayed!SnapshotsMoveForward

\* A checkpoint passes no event that was not projected, except one that a later event of its
\* workspace had overtaken, and a notification counts each event once, or not at all after that.
ProjectionIsSafe ==
    scenario = "notifications" => Notifications!NothingSkipped /\ Notifications!CountsMatch

\* A client without permission gets at most the event that was being sent, and a lost connection
\* leaves no timer behind.
StreamIsSafe == scenario = "stream" => Stream!RevocationStops /\ Stream!NoOrphanTimer

\* Commands and proposals are applied once, to one line of drafts, and a widget that was removed
\* can be restored as it was.
AuthoringIsSafe ==
    scenario = "authoring" =>
        Authoring!OnceAccepted /\ Authoring!OneLine /\ Authoring!RestorableAsRemoved

\* A tool that changes something runs once for a key, after its attempt is in the audit, and what
\* callers are told is what was committed.
CommandIsSafe == scenario = "agent" => Agent!CommandIsSafe

\* Turns, repetitions and changes of the context make one transcript without a gap, and the changes
\* that it records are those that happened.
ConversationIsSafe ==
    /\ scenario = "turns" => Dialogue!TranscriptIsWhole /\ Dialogue!ContextIsRecorded
    /\ scenario = "context" => Context!TranscriptIsWhole /\ Context!ContextIsRecorded
=============================================================================
