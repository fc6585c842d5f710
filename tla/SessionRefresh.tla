---------------------------- MODULE SessionRefresh -----------------------------
(***************************************************************************)
(* The sessions of one user: PrismaSessionLifecycleAdapter, the recovery   *)
(* that ends them (PrismaRecoveryRepositoryAdapter.completeRecovery), and  *)
(* the device that keeps the tokens: the desktop's session store, the      *)
(* Android session manager, or the cookies of a browser.                   *)
(*                                                                         *)
(* The transactions run at READ COMMITTED and are cut at their statements. *)
(* An UPDATE takes the rows that match when it starts (snap), waits for    *)
(* the locks of other transactions, and then updates those that match      *)
(* still; what a transaction wrote is seen by others when it commits, so   *)
(* its writes are the locks it holds until then.  Every call makes at most *)
(* one pair of tokens and one session: both are named by that call.        *)
(***************************************************************************)
EXTENDS Sequences, FiniteSets, SequencesExt

CONSTANTS Calls,     \* calls, each made once
          First,     \* the session and the tokens there are at the beginning
          None,
          Platform,  \* "desktop", "android" or "web"
          Ops,       \* the kinds of calls considered
          Lossy      \* whether answers get lost and transactions fail

VARIABLES session,        \* sessions rows
          pair,           \* refresh and access token rows, made in pairs
          securityEpoch,  \* of the user
          stored,         \* the pair of tokens the device has stored
          call            \* the calls

vars == <<session, pair, securityEpoch, stored, call>>

Names == Calls \cup {First}

Steps == {"idle", "credential", "issue", "find", "active", "consume", "rotate",
          "list", "sweep", "principal", "answered", "saving", "done"}

Reasons == {"NONE", "signout", "switch", "recover", "reuse", "expire", "principal"}

Sessions == [status : {"ACTIVE", "REVOKED", "EXPIRED"}, lapsed : BOOLEAN, epoch : {0, 1},
             why : Reasons]

TokenStates == {"ACTIVE", "USED", "REVOKED", "EXPIRED"}

Pairs == [session : Names, refresh : TokenStates, access : TokenStates, from : Names \cup {None}]

RowNames == {"refresh", "session", "access"} \X Names

CallRecords == [at : Steps, op : Ops \cup {"NONE"}, why : Reasons, token : Names \cup {None},
          session : Names \cup {None}, epoch : {0, 1}, todo : Seq(RowNames),
          snap : (SUBSET RowNames) \cup {None}, held : SUBSET RowNames,
          code : {"NONE", "OK", "TOKENS", "REFUSED", "REUSE", "INVALID_REFRESH_TOKEN"}]

TypeOK ==
    /\ session \in [Names -> Sessions \cup {None}]
    /\ pair \in [Names -> Pairs \cup {None}]
    /\ securityEpoch \in {0, 1}
    /\ stored \in Names \cup {None}
    /\ call \in [Calls -> CallRecords]

Idle == [at |-> "idle", op |-> "NONE", why |-> "NONE", token |-> None, session |-> None, epoch |-> 0,
         todo |-> <<>>, snap |-> None, held |-> {}, code |-> "NONE"]

-----------------------------------------------------------------------------
(* Rows                                                                    *)

Active(s) == session[s].status = "ACTIVE"

\* The pairs of a session whose token in the column is ACTIVE.
Family(s) == {p \in Names : pair[p] # None /\ pair[p].session = s}
ActiveRefresh(s) == {p \in Family(s) : pair[p].refresh = "ACTIVE"}
ActiveAccess(s) == {p \in Family(s) : pair[p].access = "ACTIVE"}

\* The rows an UPDATE of a sweep finds.
Matching(table, s) ==
    CASE table = "refresh" -> {table} \X ActiveRefresh(s)
      [] table = "access"  -> {table} \X ActiveAccess(s)
      [] table = "session" -> {<<table, s>>}

StillMatches(row) ==
    CASE row[1] = "refresh" -> pair[row[2]].refresh = "ACTIVE"
      [] row[1] = "access"  -> pair[row[2]].access = "ACTIVE"
      [] row[1] = "session" -> TRUE

\* The rows a call waits for, if another one holds them.
Wanted(c) ==
    CASE call[c].at = "consume" -> {<<"refresh", call[c].token>>}
      [] call[c].at = "rotate"  -> {<<"session", call[c].session>>}
      [] call[c].at = "sweep" /\ call[c].snap # None -> call[c].snap
      [] OTHER -> {}

Waits(c, d) == c # d /\ Wanted(c) \cap call[d].held # {}
Granted(c) == \A d \in Calls : ~Waits(c, d)

\* What a commit makes of the rows a sweep holds.
SweptPairs(c, status) ==
    [p \in Names |->
        IF pair[p] = None THEN None
        ELSE [pair[p] EXCEPT !.refresh = IF <<"refresh", p>> \in call[c].held THEN status ELSE @,
                             !.access = IF <<"access", p>> \in call[c].held THEN status ELSE @]]

SweptSessions(c, status) ==
    [s \in Names |->
        IF <<"session", s>> \notin call[c].held THEN session[s]
        ELSE [session[s] EXCEPT !.status = status,
                                !.why = IF session[s].status = "ACTIVE" THEN call[c].why ELSE @]]

NewSession(epoch) == [status |-> "ACTIVE", lapsed |-> FALSE, epoch |-> epoch, why |-> "NONE"]

NewPair(s, from) == [session |-> s, refresh |-> "ACTIVE", access |-> "ACTIVE", from |-> from]

-----------------------------------------------------------------------------
(* Calls                                                                   *)

Goto(c, step) == call' = [call EXCEPT ![c].at = step]

\* The transaction ends, its locks are released.
Answer(c, code) ==
    call' = [call EXCEPT ![c].at = "answered", ![c].code = code, ![c].held = {}, ![c].todo = <<>>,
                         ![c].snap = None]

\* revokeSession and expireSession.
Statements(s) == <<<<"refresh", s>>, <<"session", s>>, <<"access", s>>>>

RecoveryStatements(s) == <<<<"refresh", s>>, <<"access", s>>, <<"session", s>>>>

SweepFor(c, why) ==
    call' = [call EXCEPT ![c].at = "sweep", ![c].why = why, ![c].todo = Statements(call[c].session)]

\* What the device does with what it has stored.  Android holds a mutex from
\* here until the answer is stored; the desktop and the tabs of a browser do not.
MayBegin(c, op) ==
    /\ stored # None <=> op # "signin"
    /\ Platform = "android" =>
          \A d \in Calls : call[d].op = "recover" \/ call[d].at \in {"idle", "done"}

\* Sign-out and switch are authenticated with the access token.
Authenticated ==
    LET p == pair[stored]
    IN p.access = "ACTIVE" /\ Active(p.session) /\ ~session[p.session].lapsed

Begin(c) ==
    /\ call[c].at = "idle"
    /\ \E op \in Ops \ {"recover"} :
          /\ MayBegin(c, op)
          /\ op = "switch" => Platform = "web"
          /\ call' = [call EXCEPT ![c] = [Idle EXCEPT
                !.at = CASE op = "signin" -> "credential"
                         [] op \in {"signout", "switch"} /\ ~Authenticated -> "answered"
                         [] OTHER -> "find",
                !.code = IF op \in {"signout", "switch"} /\ ~Authenticated THEN "REFUSED" ELSE "NONE",
                !.op = op,
                !.token = stored,
                !.session = IF stored = None THEN None ELSE pair[stored].session,
                !.epoch = securityEpoch]]
    /\ UNCHANGED <<session, pair, securityEpoch, stored>>

\* signIn reads the credential, then verifies the password against it.
Credential(c) ==
    /\ call[c].at = "credential"
    /\ call' = [call EXCEPT ![c].at = "issue", ![c].epoch = securityEpoch]
    /\ UNCHANGED <<session, pair, securityEpoch, stored>>

Issue(c) ==
    /\ call[c].at = "issue"
    /\ session' = [session EXCEPT ![c] = NewSession(call[c].epoch)]
    /\ pair' = [pair EXCEPT ![c] = NewPair(c, None)]
    /\ Answer(c, "TOKENS")
    /\ UNCHANGED <<securityEpoch, stored>>

-----------------------------------------------------------------------------
(* refresh                                                                 *)

FindRefresh(c) ==
    /\ call[c].at = "find"
    /\ call[c].op = "refresh"
    /\ LET s == session[call[c].session]
       IN \/ s.status # "ACTIVE" /\ Answer(c, "REFUSED")
          \/ s.status = "ACTIVE" /\ s.lapsed /\ SweepFor(c, "expire")
          \/ s.status = "ACTIVE" /\ ~s.lapsed /\ Goto(c, "active")
    /\ UNCHANGED <<session, pair, securityEpoch, stored>>

\* The one active token of the family must be the one presented
\* (rotateRefreshFamilyV1); otherwise the family is revoked.
FindActive(c) ==
    /\ call[c].at = "active"
    /\ IF ActiveRefresh(call[c].session) = {call[c].token}
       THEN Goto(c, "consume")
       ELSE SweepFor(c, "reuse")
    /\ UNCHANGED <<session, pair, securityEpoch, stored>>

\* (Mutant of Consumable) The token is updated by its id.
ConsumableById(c) == TRUE

Consumable(c) == pair[call[c].token].refresh = "ACTIVE"

Consume(c) ==
    /\ call[c].at = "consume"
    /\ Granted(c)
    /\ IF Consumable(c)
       THEN call' = [call EXCEPT ![c].at = "rotate", ![c].held = {<<"refresh", call[c].token>>}]
       ELSE Answer(c, "INVALID_REFRESH_TOKEN")
    /\ UNCHANGED <<session, pair, securityEpoch, stored>>

Refreshed(s) == [session[s] EXCEPT !.lapsed = FALSE]

\* The expiry of the session moves, the next pair is inserted, commit.
Rotate(c) ==
    /\ call[c].at = "rotate"
    /\ Granted(c)
    /\ session' = [session EXCEPT ![call[c].session] = Refreshed(call[c].session)]
    /\ pair' = [pair EXCEPT ![call[c].token].refresh = "USED",
                            ![c] = NewPair(call[c].session, call[c].token)]
    /\ call' = [call EXCEPT ![c].at = "principal", ![c].held = {}]
    /\ UNCHANGED <<securityEpoch, stored>>

\* The controller reads the principal before it answers, and revokes the
\* session when there is none.
Principal(c) ==
    /\ call[c].at = "principal"
    /\ IF Active(call[c].session) /\ ~session[call[c].session].lapsed
       THEN Answer(c, "TOKENS")
       ELSE SweepFor(c, "principal")
    /\ UNCHANGED <<session, pair, securityEpoch, stored>>

-----------------------------------------------------------------------------
(* Ending sessions                                                         *)

\* revoke
FindSignOut(c) ==
    /\ call[c].at = "find"
    /\ call[c].op = "signout"
    /\ SweepFor(c, "signout")
    /\ UNCHANGED <<session, pair, securityEpoch, stored>>

\* switchScope
FindSwitch(c) ==
    /\ call[c].at = "find"
    /\ call[c].op = "switch"
    /\ IF Active(call[c].session) THEN SweepFor(c, "switch") ELSE Answer(c, "REFUSED")
    /\ UNCHANGED <<session, pair, securityEpoch, stored>>

\* completeRecovery has changed the password and lists the active sessions.
\* The user row is updated under its epoch: a second recovery fails.
BeginRecovery(c) ==
    /\ call[c].at = "idle"
    /\ "recover" \in Ops
    /\ \A d \in Calls : call[d].op # "recover"
    /\ call' = [call EXCEPT ![c].at = "list", ![c].op = "recover", ![c].why = "recover"]
    /\ UNCHANGED <<session, pair, securityEpoch, stored>>

ListSessions(c) ==
    /\ call[c].at = "list"
    /\ \E order \in SetToSeqs({s \in Names : session[s] # None /\ Active(s)}) :
          call' = [call EXCEPT ![c].at = "sweep",
                               ![c].todo = FlattenSeq([i \in DOMAIN order |-> RecoveryStatements(order[i])])]
    /\ UNCHANGED <<session, pair, securityEpoch, stored>>

\* An UPDATE of a sweep starts.
Snapshot(c) ==
    /\ call[c].at = "sweep"
    /\ call[c].snap = None
    /\ call[c].todo # <<>>
    /\ call' = [call EXCEPT ![c].snap = Matching(Head(call[c].todo)[1], Head(call[c].todo)[2])]
    /\ UNCHANGED <<session, pair, securityEpoch, stored>>

\* It has got its locks.
Update(c) ==
    /\ call[c].at = "sweep"
    /\ call[c].snap # None
    /\ Granted(c)
    /\ call' = [call EXCEPT ![c].snap = None, ![c].todo = Tail(@),
                            ![c].held = @ \cup {row \in call[c].snap : StillMatches(row)}]
    /\ UNCHANGED <<session, pair, securityEpoch, stored>>

Swept(c) == call[c].at = "sweep" /\ call[c].todo = <<>> /\ call[c].snap = None

\* The commit of revoke, of a family's revocation or expiry, of the clean-up
\* after a refresh, of recovery.
CommitSweep(c) ==
    /\ Swept(c)
    /\ call[c].why # "switch"
    /\ LET status == IF call[c].why = "expire" THEN "EXPIRED" ELSE "REVOKED"
       IN /\ session' = SweptSessions(c, status)
          /\ pair' = SweptPairs(c, status)
    /\ securityEpoch' = IF call[c].op = "recover" THEN 1 ELSE securityEpoch
    /\ Answer(c, CASE call[c].why \in {"signout", "recover"} -> "OK"
                   [] call[c].why = "reuse" -> "REUSE"
                   [] OTHER -> "REFUSED")
    /\ UNCHANGED stored

\* switchScope inserts the new session and its tokens and commits.
CommitSwitch(c) ==
    /\ Swept(c)
    /\ call[c].why = "switch"
    /\ session' = [SweptSessions(c, "REVOKED") EXCEPT ![c] = NewSession(call[c].epoch)]
    /\ pair' = [SweptPairs(c, "REVOKED") EXCEPT ![c] = NewPair(c, None)]
    /\ Answer(c, "TOKENS")
    /\ UNCHANGED <<securityEpoch, stored>>

-----------------------------------------------------------------------------
(* The device                                                              *)

Busy(c) == call[c].at \notin {"idle", "answered", "saving", "done"}

\* What the device keeps after an answer other than tokens.  A browser keeps
\* the cookie of a refused refresh.
Kept(c, code) ==
    CASE call[c].op = "recover" -> stored
      [] call[c].op = "signout" /\ (code = "OK" \/ Platform = "android") -> None
      [] call[c].op = "refresh" /\ Platform # "web" /\ code \notin {"OK", "TOKENS", "NONE"} -> None
      [] OTHER -> stored

\* The desktop removes its file before it renames the new one into place.
Receive(c) ==
    /\ call[c].at = "answered"
    /\ IF call[c].code = "TOKENS"
       THEN IF Platform = "desktop"
            THEN stored' = None /\ Goto(c, "saving")
            ELSE stored' = c /\ Goto(c, "done")
       ELSE stored' = Kept(c, call[c].code) /\ Goto(c, "done")
    /\ UNCHANGED <<session, pair, securityEpoch>>

Save(c) ==
    /\ call[c].at = "saving"
    /\ stored' = c
    /\ Goto(c, "done")
    /\ UNCHANGED <<session, pair, securityEpoch>>

\* The answer is lost, or the application stops before it stored it.
LoseAnswer(c) ==
    /\ Lossy
    /\ call[c].at \in {"answered", "saving"}
    /\ stored' = Kept(c, "NONE")
    /\ Goto(c, "done")
    /\ UNCHANGED <<session, pair, securityEpoch>>

\* The transaction rolls back.
Fail(c) ==
    /\ Lossy
    /\ Busy(c)
    /\ stored' = Kept(c, "NONE")
    /\ call' = [call EXCEPT ![c].at = "done", ![c].held = {}, ![c].todo = <<>>, ![c].snap = None]
    /\ UNCHANGED <<session, pair, securityEpoch>>

\* The session has not been used for too long.
Lapse(s) ==
    /\ Lossy
    /\ session[s] # None
    /\ Active(s)
    /\ ~session[s].lapsed
    /\ session' = [session EXCEPT ![s].lapsed = TRUE]
    /\ UNCHANGED <<pair, securityEpoch, stored, call>>

-----------------------------------------------------------------------------
Init ==
    /\ session = [s \in Names |-> IF s = First THEN NewSession(0) ELSE None]
    /\ pair = [p \in Names |-> IF p = First THEN NewPair(First, None) ELSE None]
    /\ securityEpoch = 0
    /\ stored = First
    /\ call = [c \in Calls |-> Idle]

Refreshing(c) == FindRefresh(c) \/ FindActive(c) \/ Consume(c) \/ Rotate(c) \/ Principal(c)

Sweeping(c) == Snapshot(c) \/ Update(c) \/ CommitSweep(c) \/ CommitSwitch(c)

Next ==
    \/ \E c \in Calls :
          \/ Begin(c) \/ Credential(c) \/ Issue(c)
          \/ Refreshing(c)
          \/ FindSignOut(c) \/ FindSwitch(c) \/ BeginRecovery(c) \/ ListSessions(c)
          \/ Sweeping(c)
          \/ Receive(c) \/ Save(c) \/ LoseAnswer(c) \/ Fail(c)
    \/ \E s \in Names : Lapse(s)

Spec == Init /\ [][Next]_vars

-----------------------------------------------------------------------------
(* Properties                                                              *)

\* A refresh token is used once: however often it is presented, by calls
\* that overlap, at most one pair of tokens comes from it.
SingleUse ==
    \A p, q \in Names :
        /\ pair[p] # None
        /\ pair[q] # None
        /\ pair[p].from # None
        /\ pair[p].from = pair[q].from
        => p = q

\* An access token that was handed out ends with its session, the one that a
\* refresh made while the session was being ended included.  (A token whose
\* refresh has not answered yet may outlive the session; the controller then
\* revokes the session once more.)
AccessEndsWithSession ==
    \A c \in Calls :
        /\ pair[c] # None
        /\ call[c].code = "TOKENS"
        /\ ~Active(pair[c].session)
        => pair[c].access # "ACTIVE"

\* Refresh, revoke, expiry and switch take their row locks in compatible
\* orders: no two of them wait for each other.  (Recovery updates the access
\* tokens before the session, and may meet one of them in a deadlock, which
\* PostgreSQL ends by failing one of the two.)
NoLockCycle ==
    \A c, d \in {e \in Calls : call[e].op # "recover"} : ~(Waits(c, d) /\ Waits(d, c))

\* A family is never revoked for reuse when its device presents what it has
\* stored: rotation is invisible to the user.
RotationIsInvisible ==
    \A s \in Names : session[s] # None => session[s].why # "reuse"
=============================================================================
