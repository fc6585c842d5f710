-------------------------- MODULE DashboardAuthoring --------------------------
(***************************************************************************)
(* Drafts of a dashboard: DashboardDraftServiceV1.applyAuthoringCommand    *)
(* over the draft and the proposal repositories, cut at its awaits, and    *)
(* the proposals that DashboardProposalService makes from a draft.  The    *)
(* client sends a command again with its id when it has no answer.  A      *)
(* version carries its widgets, each with its form (title, binding,        *)
(* display); pages and cells are left out.  The transaction of             *)
(* commitAuthoringVersion compares and sets the dashboard's revision and   *)
(* is one step.                                                            *)
(***************************************************************************)
EXTENDS Naturals, FiniteSets

CONSTANTS Last,         \* the requests 1 .. Last come in this order; each names the version it makes
          InFlight,     \* bound of the requests served at one time
          Commands,     \* [id, kind, target, form]: what the client sends, in one or more calls
          Proposals,
          Base,         \* widgets of the first version
          None,
          MaxRevision,  \* bound of the dashboard's revision
          MaxFaults     \* bound of lost answers and calls that die

VARIABLES draft,      \* dashboards.draft_version_id
          revision,   \* dashboards.revision
          versions,   \* dashboard_versions, each with the revision its command row tells
          removed,    \* dashboard_removed_widgets: the form that was removed, or 0
          commands,   \* dashboard_authoring_commands: the version of a command's id, or None
          proposals,  \* dashboard_proposals
          call, faults

dashboard == <<draft, revision, versions, removed, commands>>
vars == <<dashboard, proposals, call, faults>>

Calls == 1 .. Last
First == 0     \* the first version

\* An accepted proposal adds a widget with a random id, which its call stands for.
Widgets == Base \cup Calls
Ids == {k.id : k \in Commands}
Forms == 0 .. 2     \* 0: the version has no such widget
Shown(v) == {w \in Widgets : v.widgets[w] # 0}

VersionRows == [parent : Calls \cup {First, None}, revision : 1 .. MaxRevision, command : Ids \cup {None},
             proposal : Proposals \cup {None}, widgets : [Widgets -> Forms]]

Init ==
    /\ draft = First /\ revision = 1
    /\ versions = [v \in {First} |->
                     [parent |-> None, revision |-> 1, command |-> None, proposal |-> None,
                      widgets |-> [w \in Widgets |-> IF w \in Base THEN 1 ELSE 0]]]
    /\ removed = [w \in Widgets |-> 0]
    /\ commands = [i \in Ids |-> None]
    /\ proposals = [p \in Proposals |-> [state |-> "NONE"]]
    /\ call = [c \in Calls |-> [at |-> "idle"]]
    /\ faults = 0

-----------------------------------------------------------------------------
(* Proposals, and publications, which move the dashboard's revision too. *)

\* #resolveContext reads the draft; the provider answers and the row is saved later.
Ask(p) ==
    /\ proposals[p].state = "NONE"
    /\ proposals' = [proposals EXCEPT ![p] = [state |-> "ASKED", parent |-> draft,
                                              revision |-> revision, accepted |-> None]]
    /\ UNCHANGED <<dashboard, call, faults>>

Save(p) ==
    /\ proposals[p].state = "ASKED"
    /\ proposals' = [proposals EXCEPT ![p].state = "PROPOSED"]
    /\ UNCHANGED <<dashboard, call, faults>>

commitPublicationAtomically ==
    /\ revision < MaxRevision
    /\ revision' = revision + 1
    /\ UNCHANGED <<draft, versions, removed, commands, proposals, call, faults>>

-----------------------------------------------------------------------------
(* applyAuthoringCommand. *)

Goto(c, step) == call' = [call EXCEPT ![c].at = step]
\* The client is told the version of its command, or none: the command was refused, for
\* whatever reason, or the answer is lost.
Answer(c, v) == call' = [call EXCEPT ![c] = [at |-> "done", version |-> v,
                                             id |-> IF v = None THEN None ELSE call[c].command.id]]

\* The client names the draft and the revision it has read.
Send(c, k) ==
    /\ call[c].at = "idle"
    /\ \A b \in 1 .. c - 1 : call[b].at # "idle"
    /\ Cardinality({b \in 1 .. c - 1 : call[b].at # "done"}) < InFlight
    /\ call' = [call EXCEPT ![c] = [at |-> "replay", command |-> k, expected |-> revision,
                                    parent |-> draft, widgets |-> None,
                                    marked |-> FALSE]]
    /\ UNCHANGED <<dashboard, proposals, faults>>

\* findCommandResult
Replay(c) ==
    /\ call[c].at = "replay"
    /\ LET done == commands[call[c].command.id] IN
       IF done # None THEN Answer(c, done) ELSE Goto(c, "read")
    /\ UNCHANGED <<dashboard, proposals, faults>>

\* findIdentity and findVersion
Read(c) ==
    /\ call[c].at = "read"
    /\ IF <<revision, draft>> = <<call[c].expected, call[c].parent>>
       THEN Goto(c, "prepare") ELSE Answer(c, None)
    /\ UNCHANGED <<dashboard, proposals, faults>>

Acceptable(c, p) ==
    /\ proposals[p].state = "PROPOSED"
    /\ proposals[p].parent = call[c].parent
    /\ proposals[p].revision = call[c].expected

\* What a command makes of the widgets of the draft; none when it is refused.
Prepared(c) ==
    LET k == call[c].command
        old == versions[call[c].parent].widgets
        shown == {w \in Widgets : old[w] # 0}
    IN CASE k.kind = "ACCEPT_PROPOSAL" ->
              {[old EXCEPT ![c] = 1] : p \in {p \in {k.target} : Acceptable(c, p)}}
         [] k.kind = "SET_LAYOUT" -> {old}
         [] k.kind = "REMOVE_WIDGET" ->
              {[old EXCEPT ![w] = 0] : w \in {w \in {k.target} \cap shown : Cardinality(shown) > 1}}
         [] k.kind = "RESTORE_WIDGET" ->
              {[old EXCEPT ![w] = removed[w]] : w \in {w \in {k.target} \ shown : removed[w] # 0}}
         [] k.kind = "CONFIGURE_PRESENTATION" ->
              {[old EXCEPT ![w] = k.form] : w \in {k.target} \cap shown}

\* The proposal or the removed widget is read and the next version is made.
Prepare(c) ==
    /\ call[c].at = "prepare"
    /\ \/ Prepared(c) = {} /\ Answer(c, None)
       \/ \E new \in Prepared(c) :
             call' = [call EXCEPT ![c].widgets = new,
                                  ![c].at = IF call[c].command.kind = "ACCEPT_PROPOSAL"
                                            THEN "mark" ELSE "commit"]
    /\ UNCHANGED <<dashboard, proposals, faults>>

\* markAccepted: it looks at the state first, and its update does not.
MarkFind(c) ==
    /\ call[c].at = "mark"
    /\ IF proposals[call[c].command.target].state = "PROPOSED"
       THEN Goto(c, "write") ELSE Answer(c, None)
    /\ UNCHANGED <<dashboard, proposals, faults>>

Marked(c) == [proposals EXCEPT ![call[c].command.target].state = "ACCEPTED",
                               ![call[c].command.target].accepted = c]

MarkWrite(c) ==
    /\ call[c].at = "write"
    /\ proposals' = Marked(c)
    /\ call' = [call EXCEPT ![c].at = "commit", ![c].marked = TRUE]
    /\ UNCHANGED <<dashboard, faults>>

\* The update throws, after it was made or before: the outcome is unknown and is taken back.
MarkFails(c) ==
    /\ call[c].at = "write" /\ faults < MaxFaults
    /\ faults' = faults + 1
    /\ proposals' \in {proposals, Marked(c)}
    /\ Goto(c, "restore")
    /\ UNCHANGED dashboard

\* (Mutant of Committable: the revision is not compared.)
CommittableBlindly(c) == commands[call[c].command.id] = None

\* commitAuthoringVersion: the command is new and the revision is the expected one.
Committable(c) ==
    /\ commands[call[c].command.id] = None
    /\ revision = call[c].expected

\* The row of a widget that leaves is its form in the version before.
Removed(c) ==
    [w \in Widgets |-> IF call[c].command.kind = "REMOVE_WIDGET" /\ w = call[c].command.target
                       THEN versions[call[c].parent].widgets[w] ELSE removed[w]]

Committed(c) ==
    /\ revision < MaxRevision
    /\ draft' = c /\ revision' = call[c].expected + 1
    /\ versions' = [v \in DOMAIN versions \cup {c} |->
                      IF v = c THEN [parent |-> call[c].parent, revision |-> call[c].expected + 1,
                                     command |-> call[c].command.id,
                                     proposal |-> IF call[c].marked THEN call[c].command.target ELSE None,
                                     widgets |-> call[c].widgets]
                               ELSE versions[v]]
    /\ removed' = Removed(c)
    /\ commands' = [commands EXCEPT ![call[c].command.id] = c]

\* Only a call that has marked its proposal takes that back.
Refused(c) == IF call[c].marked THEN Goto(c, "restore") ELSE Answer(c, None)

Commit(c) ==
    /\ call[c].at = "commit"
    /\ IF Committable(c)
       THEN Committed(c) /\ Goto(c, "audit")
       ELSE Refused(c) /\ UNCHANGED dashboard
    /\ UNCHANGED <<proposals, faults>>

\* A transaction throws, after it has committed or before.
CommitFails(c) ==
    /\ call[c].at = "commit" /\ faults < MaxFaults
    /\ faults' = faults + 1
    /\ Refused(c)
    /\ \/ Committable(c) /\ Committed(c)
       \/ UNCHANGED dashboard
    /\ UNCHANGED proposals

\* rollbackProposal with markProposed: it looks at the state first, and its update does not.
RestoreFind(c) ==
    /\ call[c].at = "restore"
    /\ IF proposals[call[c].command.target].state = "ACCEPTED"
       THEN Goto(c, "propose") ELSE Answer(c, None)
    /\ UNCHANGED <<dashboard, proposals, faults>>

RestoreWrite(c) ==
    /\ call[c].at = "propose"
    /\ proposals' = [proposals EXCEPT ![call[c].command.target].state = "PROPOSED",
                                      ![call[c].command.target].accepted = None]
    /\ Answer(c, None)
    /\ UNCHANGED <<dashboard, faults>>

\* The audit record, and the answer.
Audit(c) ==
    /\ call[c].at = "audit"
    /\ Answer(c, c)
    /\ UNCHANGED <<dashboard, proposals, faults>>

\* The process dies when it has begun to write, or the client gets no answer.
Die(c) ==
    /\ call[c].at \in {"commit", "audit", "restore"} /\ faults < MaxFaults
    /\ faults' = faults + 1
    /\ Answer(c, None)
    /\ UNCHANGED <<dashboard, proposals>>

Apply(c) ==
    \/ \E k \in Commands : Send(c, k)
    \/ Replay(c) \/ Read(c) \/ Prepare(c) \/ MarkFind(c) \/ MarkWrite(c) \/ Commit(c)
    \/ MarkFails(c) \/ CommitFails(c) \/ RestoreFind(c) \/ RestoreWrite(c) \/ Audit(c) \/ Die(c)

Next ==
    \/ \E p \in Proposals : Ask(p) \/ Save(p)
    \/ commitPublicationAtomically
    \/ \E c \in Calls : Apply(c)

Spec == Init /\ [][Next]_vars

-----------------------------------------------------------------------------
\* Rows of versions and proposals are of the types of the schema.
TypeOK ==
    /\ draft \in DOMAIN versions /\ revision \in 1 .. MaxRevision
    /\ DOMAIN versions \subseteq Calls \cup {First}
    /\ \A v \in DOMAIN versions : versions[v] \in VersionRows
    /\ removed \in [Widgets -> Forms]
    /\ commands \in [Ids -> Calls \cup {None}]
    /\ \A p \in Proposals : proposals[p].state \in {"NONE", "ASKED", "PROPOSED", "ACCEPTED"}
    /\ faults \in 0 .. MaxFaults

\* DDA-022: a command makes one version however often it is sent, and whoever is told of it is
\* told that one; a proposal becomes one version though its mark is set and taken back without a
\* comparison.
OnceAccepted ==
    /\ \A u, v \in DOMAIN versions \ {First} : u # v =>
          /\ versions[u].command # versions[v].command
          /\ versions[u].proposal = None \/ versions[u].proposal # versions[v].proposal
    /\ \A c \in Calls : call[c].at = "done" /\ call[c].version # None =>
          versions[call[c].version].command = call[c].id

\* The drafts form one line that ends in the current one: no acceptance builds on a version
\* that another one has replaced.
OneLine ==
    /\ \A u, v \in DOMAIN versions : versions[u].parent = versions[v].parent => u = v
    /\ \A v \in DOMAIN versions : versions[v].parent # draft

\* DDA-024: a widget that the draft no longer shows comes back in the form it was removed in.
RestorableAsRemoved ==
    \A v \in DOMAIN versions : \A w \in Shown(versions[v]) \ Shown(versions[draft]) :
        (\A u \in DOMAIN versions : versions[u].revision > versions[v].revision =>
                                        w \notin Shown(versions[u]))
        => removed[w] = versions[v].widgets[w]
=============================================================================
