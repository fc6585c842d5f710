----------------------------- MODULE AuditLedger -----------------------------
(***************************************************************************)
(* The audit ledger of one scope: AuditLedgerService, the domain functions *)
(* that chain and seal its events, AuditAttestationService and the Prisma  *)
(* repositories, whose transactions are READ COMMITTED: a transaction is   *)
(* cut at its reads, and what it inserts is held to the unique keys of the *)
(* tables.  An error ends the call and its transaction.                    *)
(*                                                                         *)
(* A digest is the sequence of what it covers, so that different chains    *)
(* have different digests.  What an event says, the time included, is its  *)
(* content.                                                                *)
(***************************************************************************)
EXTENDS Naturals, Sequences, FiniteSets

CONSTANTS Writers,    \* calls of append, seal and create
          Ids,        \* event ids that the callers give
          Keys,       \* idempotency keys
          Contents,   \* what the events say
          None

VARIABLES events,        \* audit_events
          seals,         \* audit_seals
          attestations,  \* audit_seal_attestations
          writer,        \* what the calls are doing
          assured        \* what callers were told is recorded

vars == <<events, seals, attestations, writer, assured>>

Idle == [at |-> "idle", row |-> None]

Init ==
    /\ events = {}
    /\ seals = {}
    /\ attestations = {}
    /\ writer = [w \in Writers |-> Idle]
    /\ assured = {}

Goto(w, step, row) == writer' = [writer EXCEPT ![w] = [at |-> step, row |-> row]]
End(w) == Goto(w, "done", None)

Item(e) == <<e.id, e.key, e.content>>
Newest == CHOOSE e \in events : \A f \in events : f.sequence <= e.sequence
LastDigest == IF events = {} THEN <<>> ELSE Newest.digest

\* verifyAuditChainV1: the sequence has no gap, each event follows the digest of the one before it,
\* and has the digest of what it says.
Chained ==
    /\ {e.sequence : e \in events} = 1 .. Cardinality(events)
    /\ \A e \in events :
          /\ e.previous = IF e.sequence = 1 THEN <<>>
                          ELSE (CHOOSE f \in events : f.sequence = e.sequence - 1).digest
          /\ e.digest = Append(e.previous, Item(e))
-----------------------------------------------------------------------------
(* append. *)

\* The events are listed, and a chain that is broken is refused; one that has the key must have the
\* id too, whatever it says.
append(w, i, k, c) ==
    /\ writer[w].at = "idle" /\ Chained
    /\ LET found == {e \in events : e.key = k}
           next == [id |-> i, key |-> k, content |-> c, sequence |-> Cardinality(events) + 1,
                    previous |-> LastDigest, digest |-> Append(LastDigest, <<i, k, c>>)]
       IN  \/ \E e \in found : IF e.id = i THEN Goto(w, "find", e) ELSE End(w)
           \/ found = {} /\ Goto(w, "find", next)
    /\ UNCHANGED <<events, seals, attestations, assured>>

\* appendEvent: what has the id is the answer when it is the same in everything.
FindId(w) ==
    /\ writer[w].at = "find"
    /\ LET found == {e \in events : e.id = writer[w].row.id}
       IN  IF found = {}
           THEN Goto(w, "compare", writer[w].row) /\ UNCHANGED assured
           ELSE /\ assured' = assured \union (found \intersect {writer[w].row})
                /\ End(w)
    /\ UNCHANGED <<events, seals, attestations>>

\* The key is free, and the event still follows the newest one.
Compare(w) ==
    /\ writer[w].at = "compare"
    /\ LET e == writer[w].row
       IN  IF /\ \A f \in events : f.key # e.key
              /\ events # {} => e.sequence = Newest.sequence + 1 /\ e.previous = Newest.digest
           THEN Goto(w, "insert", e)
           ELSE End(w)
    /\ UNCHANGED <<events, seals, attestations, assured>>

\* (Mutant of Free: the sequence number is no part of a unique key.)
FreeButSequence(e) == \A f \in events : f.id # e.id /\ f.key # e.key

\* The unique keys of the events.
Free(e) == \A f \in events : f.id # e.id /\ f.key # e.key /\ f.sequence # e.sequence

\* The caller may be gone before the answer.
Insert(w) ==
    /\ writer[w].at = "insert"
    /\ IF Free(writer[w].row)
       THEN /\ events' = events \union {writer[w].row}
            /\ assured' \in {assured, assured \union {writer[w].row}}
       ELSE UNCHANGED <<events, assured>>
    /\ End(w)
    /\ UNCHANGED <<seals, attestations>>
-----------------------------------------------------------------------------
(* seal: all events there are, under the digest of their digests, which the last one stands for. *)
seal(w) ==
    /\ writer[w].at = "idle"
    /\ IF Chained /\ events # {}
       THEN Goto(w, "seal", [last |-> Cardinality(events), root |-> LastDigest, sealedAt |-> w])
       ELSE End(w)
    /\ UNCHANGED <<events, seals, attestations, assured>>

\* A seal of the same range is the answer when it was made at the same time.
FindSeal(w) ==
    /\ writer[w].at = "seal"
    /\ LET found == {s \in seals : s.last = writer[w].row.last}
       IN  IF found = {}
           THEN Goto(w, "insert_seal", writer[w].row) /\ UNCHANGED assured
           ELSE assured' = assured \union (found \intersect {writer[w].row}) /\ End(w)
    /\ UNCHANGED <<events, seals, attestations>>

InsertSeal(w) ==
    /\ writer[w].at = "insert_seal"
    /\ IF \A s \in seals : s.last # writer[w].row.last
       THEN /\ seals' = seals \union {writer[w].row}
            /\ assured' \in {assured, assured \union {writer[w].row}}
       ELSE UNCHANGED <<seals, assured>>
    /\ End(w)
    /\ UNCHANGED <<events, attestations>>

\* create attests a seal that is stored, under an id that may be in use.  (After the unique key has
\* refused an insert its transaction reads no more.)
create(w, i, s) ==
    /\ writer[w].at = "idle"
    /\ Goto(w, "attest", [id |-> i, seal |-> s])
    /\ UNCHANGED <<events, seals, attestations, assured>>

Attest(w) ==
    /\ writer[w].at = "attest"
    /\ IF \A a \in attestations : a.id # writer[w].row.id
       THEN /\ attestations' = attestations \union {writer[w].row}
            /\ assured' \in {assured, assured \union {writer[w].row}}
       ELSE /\ assured' = assured \union (attestations \intersect {writer[w].row})
            /\ UNCHANGED attestations
    /\ End(w)
    /\ UNCHANGED <<events, seals>>

Next ==
    \E w \in Writers :
        \/ \E i \in Ids : (\E k \in Keys, c \in Contents : append(w, i, k, c)) \/ \E s \in seals : create(w, i, s)
        \/ FindId(w) \/ Compare(w) \/ Insert(w) \/ seal(w) \/ FindSeal(w) \/ InsertSeal(w) \/ Attest(w)

Spec == Init /\ [][Next]_vars
-----------------------------------------------------------------------------
TypeOK ==
    /\ \A e \in events : /\ e.id \in Ids /\ e.key \in Keys /\ e.content \in Contents
                         /\ e.sequence \in 1 .. Cardinality(Writers)
    /\ \A s \in seals : s.sealedAt \in Writers
    /\ \A a \in attestations : a.seal \in seals

\* Whatever requests overlap, the events are one chain, an id and a key have one event, a seal has
\* the digest of exactly the events that it names, and what a caller was told is recorded is there.
LedgerIsSafe ==
    /\ Chained
    /\ \A e, f \in events : e.id = f.id \/ e.key = f.key => e = f
    /\ \A s \in seals : \E e \in events : e.sequence = s.last /\ e.digest = s.root
    /\ \A a, b \in attestations : a.id = b.id => a = b
    /\ assured \subseteq events \union seals \union attestations
=============================================================================
