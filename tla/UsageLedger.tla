------------------------------- MODULE UsageLedger -------------------------------
(***************************************************************************)
(* Usage of an organization under one entitlement snapshot: reserveUsageV1 *)
(* and settleReservationV1 over an append-only ledger, run by Entitlement- *)
(* AdmissionService in READ COMMITTED transactions that read the entries,  *)
(* then the reservations, and write at the end.  The unique sequence of an *)
(* entry is all that keeps two writers of one scope apart.                 *)
(*                                                                         *)
(* A scope is the sequence of what it names: <<>> the organization, <<w>> a*)
(* workspace, <<w, p>> a project.  There is one metric.  The idempotency   *)
(* key of a call is made of its kind and its reservation, so a repeated    *)
(* call is a retry.                                                        *)
(***************************************************************************)
EXTENDS Integers, FiniteSets, Sequences, SequencesExt, FiniteSetsExt

CONSTANTS Workspaces, Projects, Reservations,
          Callers,       \* requests in flight
          Levels,        \* lengths of the scopes that reserve
          Viewed,        \* lengths of the scopes whose summary is read
          Limit,         \* quota of the snapshot
          MaxUnits,      \* bound on the units of a request
          MaxCalls       \* bound on the calls

Scopes == {<<>>} \cup {<<w>> : w \in Workspaces} \cup (Workspaces \X Projects)

Callable == {s \in Scopes : Len(s) \in Levels}

\* A call leaves entries of its own kind; a finalized reservation has a "commit" entry as well.
Kinds == {"reserve", "release", "finalize"}

EntryKinds == Kinds \cup {"commit"}

Entries == [scope : Scopes, res : Reservations, kind : EntryKinds,
            units : Int, seq : Nat \ {0}]

Row == [scope : Scopes, units : Nat \ {0},
        status : {"ACTIVE", "FINALIZED", "RELEASED"}, revision : {1, 2}]

NoRow == [scope |-> <<>>, units |-> 0, status |-> "NONE", revision |-> 0]

VARIABLES home,         \* the scope for which a reservation is made
          ledger,       \* usage_ledger_entries
          reservation,  \* usage_reservations
          call,         \* the requests and what their transactions have read
          answer,       \* the last answer to each caller
          view,         \* a request for the summary
          calls

vars == <<home, ledger, reservation, call, answer, view, calls>>

Idle == [at |-> "idle", kind |-> "reserve", res |-> "none",
         scope |-> <<>>, units |-> 1, entries |-> {}, rows |-> [r \in Reservations |-> NoRow]]

NoView == [scope |-> <<>>, used |-> -1, held |-> -1, since |-> {}]

TypeOK ==
    /\ home \in [Reservations -> Callable]
    /\ \A e \in ledger : e \in Entries
    /\ reservation \in [Reservations -> Row \cup {NoRow}]
    /\ \A c \in Callers :
          /\ call[c].at \in {"idle", "entries", "rows", "write"}
          /\ call[c].kind \in Kinds /\ call[c].res \in Reservations \cup {"none"}
          /\ call[c].scope \in Scopes /\ call[c].units \in 1 .. MaxUnits
          /\ call[c].entries \subseteq ledger
          /\ call[c].rows \in [Reservations -> Row \cup {NoRow}]
    /\ answer \in [Callers -> {"none", "accepted", "conflict", "exceeded", "invalid", "failed"}]
    /\ view.scope \in Scopes /\ view.used \in Nat \cup {-1} /\ view.held \in Nat \cup {-1}
    /\ calls \in 0 .. MaxCalls

Init ==
    /\ home \in [Reservations -> Callable]
    /\ ledger = {}
    /\ reservation = [r \in Reservations |-> NoRow]
    /\ call = [c \in Callers |-> Idle]
    /\ answer = [c \in Callers |-> "none"]
    /\ view = NoView
    /\ calls = 0

-----------------------------------------------------------------------------
(* What a context sees                                                     *)

\* The organization sees everything, the others themselves and what is above them.
Visible(s) == {t \in Scopes : s = <<>> \/ IsPrefix(t, s)}

Covers(s, t) == IsPrefix(s, t)

SumUnits(entries) == MapThenSumSet(LAMBDA e : e.units, entries)

Committed(entries) == {e \in entries : e.kind = "commit"}

usageTotal(entries, s) == SumUnits({e \in entries : e.scope = s})

HeldUnits(rows, scopes) ==
    MapThenSumSet(LAMBDA r : rows[r].units,
                  {r \in Reservations : rows[r].status = "ACTIVE" /\ rows[r].scope \in scopes})

UsedUnits(entries, scopes) == SumUnits({e \in Committed(entries) : e.scope \in scopes})

Balance(entries, rows, s) == UsedUnits(entries, Visible(s)) + HeldUnits(rows, Visible(s))

-----------------------------------------------------------------------------
(* The rules                                                               *)

nextSequence(c) == Cardinality({e \in call[c].entries : e.scope = call[c].scope}) + 1

Entry(c, kind, units, seq) ==
    [scope |-> call[c].scope, res |-> call[c].res, kind |-> kind, units |-> units, seq |-> seq]

hasKey(c) ==
    \E e \in call[c].entries : e.kind = call[c].kind /\ e.res = call[c].res

\* What a rule decides: the answer, the entries to add and the row to write.
Rejected(code) == [code |-> code, entries |-> {}, row |-> NoRow]

\* A known reservation is a replay whatever has become of it; RESERVED and COMMITTED units of
\* the same scope count against the limit.
reserveUsage(c) ==
    LET row == call[c].rows[call[c].res]
    IN IF row # NoRow
       THEN IF row.units = call[c].units /\ row.scope = call[c].scope
            THEN [code |-> "accepted", entries |-> {}, row |-> row] ELSE Rejected("conflict")
       ELSE IF hasKey(c) THEN Rejected("conflict")
       ELSE IF usageTotal(call[c].entries, call[c].scope) + call[c].units > Limit
       THEN Rejected("exceeded")
       ELSE [code |-> "accepted",
             entries |-> {Entry(c, "reserve", call[c].units, nextSequence(c))},
             row |-> [scope |-> call[c].scope, units |-> call[c].units,
                      status |-> "ACTIVE", revision |-> 1]]

\* What was reserved is released, and a finalized reservation commits what was used of it.
settleReservation(c) ==
    LET row == call[c].rows[call[c].res]
    IN IF row = NoRow THEN Rejected("invalid")
       ELSE IF row.status # "ACTIVE"
       THEN IF hasKey(c) THEN [code |-> "accepted", entries |-> {}, row |-> row]
            ELSE Rejected("invalid")
       ELSE IF call[c].kind = "finalize" /\ call[c].units > row.units THEN Rejected("invalid")
       ELSE IF hasKey(c) THEN Rejected("conflict")
       ELSE [code |-> "accepted",
             entries |-> {Entry(c, call[c].kind, -row.units, nextSequence(c))}
                         \cup IF call[c].kind = "finalize"
                              THEN {Entry(c, "commit", call[c].units, nextSequence(c) + 1)} ELSE {},
             row |-> [row EXCEPT !.revision = 2,
                                 !.status = IF call[c].kind = "finalize" THEN "FINALIZED" ELSE "RELEASED"]]

Decision(c) == IF call[c].kind = "reserve" THEN reserveUsage(c) ELSE settleReservation(c)

-----------------------------------------------------------------------------
(* The transaction                                                         *)

\* A reservation is made and settled in the context of its own scope.
Begin(c, kind, r, units) ==
    /\ call[c].at = "idle"
    /\ kind = "release" => units = 1
    /\ calls < MaxCalls
    /\ calls' = calls + 1
    /\ call' = [call EXCEPT ![c] = [Idle EXCEPT !.at = "entries", !.kind = kind, !.res = r,
                                                !.scope = home[r], !.units = units]]
    /\ answer' = [answer EXCEPT ![c] = "none"]
    /\ UNCHANGED <<home, ledger, reservation, view>>

\* listUsageState: the two lists are two statements.
ListEntries(c) ==
    /\ call[c].at = "entries"
    /\ call' = [call EXCEPT ![c].at = "rows",
                            ![c].entries = {e \in ledger : e.scope \in Visible(call[c].scope)}]
    /\ UNCHANGED <<home, ledger, reservation, answer, view, calls>>

ListReservations(c) ==
    /\ call[c].at = "rows"
    /\ call' = [call EXCEPT ![c].at = "write",
                            ![c].rows = [r \in Reservations |->
                                IF reservation[r].scope \in Visible(call[c].scope)
                                THEN reservation[r] ELSE NoRow]]
    /\ UNCHANGED <<home, ledger, reservation, answer, view, calls>>

\* The answer to a decision that writes nothing.
Reject(c) ==
    /\ call[c].at = "write"
    /\ Decision(c).code # "accepted"
    /\ answer' = [answer EXCEPT ![c] = Decision(c).code]
    /\ call' = [call EXCEPT ![c] = Idle]
    /\ UNCHANGED <<home, ledger, reservation, view, calls>>

\* (Mutant of SequenceFree) The sequence is not unique.
SequenceFreeAlways(entries) == TRUE

\* usage_ledger_scope_metric_sequence_key
SequenceFree(entries) ==
    \A e \in entries, f \in ledger : e.scope = f.scope => e.seq # f.seq

\* usage_ledger_scope_idempotency_key
KeyFree(entries) ==
    \A e \in entries, f \in ledger : ~(e.scope = f.scope /\ e.kind = f.kind /\ e.res = f.res)

\* Every entry and reservation that was listed is written again: they must be inside the
\* context, and the reservations the ones that were read.
InsideContext(c) ==
    /\ \A e \in call[c].entries : Covers(call[c].scope, e.scope)
    /\ \A r \in Reservations : call[c].rows[r] # NoRow => Covers(call[c].scope, call[c].rows[r].scope)

RowsUnchanged(c) ==
    /\ \A r \in Reservations : call[c].rows[r] # NoRow => reservation[r] = call[c].rows[r]
    /\ Decision(c).row # NoRow /\ call[c].rows[call[c].res] = NoRow
       => reservation[call[c].res] = NoRow

Persistable(c) ==
    /\ InsideContext(c)
    /\ RowsUnchanged(c)
    /\ SequenceFree(Decision(c).entries)
    /\ KeyFree(Decision(c).entries)

\* persistUsageState, and the commit.
Persist(c) ==
    /\ call[c].at = "write"
    /\ Decision(c).code = "accepted"
    /\ Persistable(c)
    /\ ledger' = ledger \cup Decision(c).entries
    /\ reservation' = [reservation EXCEPT ![call[c].res] = Decision(c).row]
    /\ answer' = [answer EXCEPT ![c] = "accepted"]
    /\ call' = [call EXCEPT ![c] = Idle]
    /\ view' = [view EXCEPT !.since = IF @ = {} THEN {} ELSE @ \cup {Balance(ledger', reservation', view.scope)}]
    /\ UNCHANGED <<home, calls>>

\* A constraint or a check throws, and the transaction rolls back.
Throw(c) ==
    /\ call[c].at = "write"
    /\ Decision(c).code = "accepted"
    /\ ~Persistable(c)
    /\ answer' = [answer EXCEPT ![c] = "failed"]
    /\ call' = [call EXCEPT ![c] = Idle]
    /\ UNCHANGED <<home, ledger, reservation, view, calls>>

-----------------------------------------------------------------------------
(* The summary                                                             *)

summary(s) ==
    /\ view = NoView
    /\ view' = [NoView EXCEPT !.scope = s, !.since = {Balance(ledger, reservation, s)}]
    /\ UNCHANGED <<home, ledger, reservation, call, answer, calls>>

\* The two lists are read on the pool, in any order.
ReadUsed ==
    /\ view.since # {}
    /\ view.used = -1
    /\ view' = [view EXCEPT !.used = UsedUnits(ledger, Visible(view.scope))]
    /\ UNCHANGED <<home, ledger, reservation, call, answer, calls>>

ReadHeld ==
    /\ view.since # {}
    /\ view.held = -1
    /\ view' = [view EXCEPT !.held = HeldUnits(reservation, Visible(view.scope))]
    /\ UNCHANGED <<home, ledger, reservation, call, answer, calls>>

-----------------------------------------------------------------------------

Next ==
    \/ \E c \in Callers :
        \/ \E kind \in Kinds, r \in Reservations, units \in 1 .. MaxUnits :
              Begin(c, kind, r, units)
        \/ ListEntries(c) \/ ListReservations(c)
        \/ Reject(c) \/ Persist(c) \/ Throw(c)
    \/ \E s \in Scopes : Len(s) \in Viewed /\ summary(s)
    \/ ReadUsed \/ ReadHeld

Spec == Init /\ [][Next]_vars

-----------------------------------------------------------------------------
(* Properties                                                              *)

\* Requests that run at the same time never reserve and use more of a scope than its limit.
NotOversubscribed == \A s \in Scopes : usageTotal(ledger, s) <= Limit

\* The ledger and the reservations tell the same: what a reservation holds, or that nothing is
\* held of it and at most its units were used, whatever calls raced, were repeated or failed.
LedgerAgrees ==
    \A r \in Reservations :
        LET entries == {e \in ledger : e.res = r}
            row == reservation[r]
        IN /\ SumUnits(entries \ Committed(entries)) = IF row.status = "ACTIVE" THEN row.units ELSE 0
           /\ Cardinality(Committed(entries)) = IF row.status = "FINALIZED" THEN 1 ELSE 0
           /\ SumUnits(Committed(entries)) <= row.units

\* A reservation that is settled stays as it is, and nothing is added to the ledger for it.
ReservationSettledOnce ==
    [][\A r \in Reservations : reservation[r].status \in {"FINALIZED", "RELEASED"} =>
          /\ reservation'[r] = reservation[r]
          /\ {e \in ledger' : e.res = r} = {e \in ledger : e.res = r}]_vars
=============================================================================
