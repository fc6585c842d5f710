-------------------------- MODULE ConversationProofs --------------------------
(* Theorems about Conversation, for every number of turns, of changes of    *)
(* the context and of versions.                                             *)
EXTENDS Conversation, FiniteSetTheorems, TLAPS

\* What the constants have to be.
ConversationConstants == MaxVersion \in Nat \ {0}

ContextChanges == [dataset : Sets, before : DatasetVersions, after : DatasetVersions]

MessageRows == [id : Keys \cup Calls, key : (Keys \cup Calls) \X {"user", "tool", "assistant", "failed"},
                role : {"USER", "SYSTEM", "AGENT"}, text : Answers \cup {None},
                version : DatasetVersions \cup {None}]

TurnSteps == {"idle", "append", "write", "provider", "answer", "tell", "resolve", "event", "compare",
              "advance", "done"}

TurnRows == [at : TurnSteps, key : Keys \cup {None}, message : MessageRows \cup {None},
             change : {None} \cup [Sets -> DatasetVersions] \cup ContextChanges, revision : Nat, next : Nat,
             answer : Answers \cup {None} \cup [Sets -> DatasetVersions], tries : 0 .. Tries]

\* The rows have their types, and there are finitely many.
ConversationRows ==
    /\ conversation \in [revision : Nat \ {0}, next : Nat \ {0}, versions : [Sets -> DatasetVersions]]
    /\ latest \in [Sets -> DatasetVersions]
    /\ turn \in [Calls -> TurnRows]
    /\ \A m \in messages : m \in [sequence : Nat, message : MessageRows]
    /\ \A e \in events : e \in [sequence : Nat, key : Keys \cup {None}, change : ContextChanges]
    /\ IsFiniteSet(messages) /\ IsFiniteSet(events)

\* The question, or the answer, of a key is stored.
Stored(k, kind) == \E m \in messages : m.message.key = <<k, kind>>

\* What a turn is about to append: its question, or what follows a question that is stored.
AppendsInTurn(c) ==
    LET m == turn[c].message
    IN  \/ m.role = "USER" /\ m.key = <<turn[c].key, "user">>
        \/ /\ Stored(turn[c].key, "user")
           /\ \/ m.role = "SYSTEM" /\ m.key \in {<<turn[c].key, "tool">>, <<c, "failed">>}
              \/ m.role = "AGENT" /\ m.key = <<turn[c].key, "assistant">>

\* What a call knows at each of its steps; what it read is so as long as the number it read is.
TurnKnows(c) ==
    /\ turn[c].next <= conversation.next /\ turn[c].revision <= conversation.revision
    /\ turn[c].at \in {"append", "write"} => turn[c].message \in MessageRows /\ AppendsInTurn(c)
    /\ turn[c].at = "write" /\ Reserves(c) => \A m \in messages : m.message.key # turn[c].message.key
    /\ turn[c].at \in {"provider", "answer", "tell"} => Stored(turn[c].key, "user")
    /\ turn[c].at = "tell" => Stored(turn[c].key, "assistant")
    /\ turn[c].at \in {"provider", "answer"} => turn[c].key \in Keys
    /\ turn[c].at \in {"append", "write"} => turn[c].key \in Keys
    /\ turn[c].at \in {"answer", "append", "write"} => turn[c].answer \in Answers \cup {None}
    /\ turn[c].at = "resolve" => turn[c].change \in [Sets -> DatasetVersions]
    /\ turn[c].at \in {"event", "compare", "advance"} => turn[c].change \in ContextChanges
    /\ turn[c].at = "advance" =>
          /\ turn[c].answer \in [Sets -> DatasetVersions]
          /\ turn[c].answer[turn[c].change.dataset] = turn[c].change.before
          /\ Current(c) => turn[c].answer = conversation.versions

ConversationInv ==
    /\ ConversationRows
    /\ TranscriptIsWhole
    /\ ContextIsRecorded
    /\ \A c \in Calls : TurnKnows(c)

-----------------------------------------------------------------------------
(* The beginning, and steps of a call that store nothing.                  *)

\* At first there is no message and no call.
LEMMA ConversationBegins == ASSUME ConversationConstants, Init PROVE ConversationInv
  <1>1. messages = {} /\ events = {} /\ answered = {} /\ IsFiniteSet({}) /\ Cardinality({}) = 0
    BY FS_EmptySet DEF Init
  <1>2. conversation.next = 1 /\ conversation.revision = 1 /\ conversation.versions = [d \in Sets |-> 1]
    BY DEF Init
  <1>3. 1 \in DatasetVersions
    BY DEF ConversationConstants, DatasetVersions
  <1>4. Idle \in TurnRows /\ Idle.at = "idle" /\ Idle.next = 0 /\ Idle.revision = 0
    BY DEF Idle, TurnRows, TurnSteps, Tries
  <1>5. \A c \in Calls : turn[c] = Idle
    BY DEF Init
  <1>6. ConversationRows
    BY <1>1, <1>3, <1>4 DEF Init, ConversationRows
  <1>7. TranscriptIsWhole
    <2>1. Places = {}
      BY <1>1 DEF Places
    <2> QED
      BY <1>1, <1>2, <2>1 DEF TranscriptIsWhole
  <1>8. ContextIsRecorded
    BY <1>1, <1>2 DEF ContextIsRecorded
  <1>9. \A c \in Calls : TurnKnows(c)
    BY <1>2, <1>4, <1>5 DEF TurnKnows
  <1> QED
    BY <1>6, <1>7, <1>8, <1>9 DEF ConversationInv

\* The versions of the datasets are published while the calls go on.
LEMMA ConversationGoes ==
    ASSUME ConversationInv, UNCHANGED <<conversation, messages, events>>, latest' \in [Sets -> DatasetVersions],
           NEW c \in Calls, turn' \in [Calls -> TurnRows], \A d \in Calls : d # c => turn'[d] = turn[d],
           TurnKnows(c)',
           \A a \in answered' : a \in answered \/ Stored(a[1], "assistant")
    PROVE  ConversationInv'
  <1>1. ConversationRows'
    BY DEF ConversationInv, ConversationRows
  <1>2. TranscriptIsWhole'
    BY DEF ConversationInv, TranscriptIsWhole, Places, Stored
  <1>3. ContextIsRecorded'
    BY DEF ConversationInv, ContextIsRecorded
  <1>4. ASSUME NEW d \in Calls, d # c PROVE TurnKnows(d)'
    <2>1. TurnKnows(d) /\ turn'[d] = turn[d]
      BY <1>4 DEF ConversationInv
    <2>2. \A k, kind : Stored(k, kind)' <=> Stored(k, kind)
      BY DEF Stored
    <2>3. AppendsInTurn(d) => AppendsInTurn(d)'
      BY <2>1, <2>2 DEF AppendsInTurn
    <2>4. (Reserves(d)' <=> Reserves(d)) /\ (Current(d)' <=> Current(d))
      BY <2>1 DEF Reserves, Current
    <2> QED
      BY <2>1, <2>2, <2>3, <2>4 DEF TurnKnows
  <1> QED
    BY <1>1, <1>2, <1>3, <1>4 DEF ConversationInv

\* A step of one call that writes no row.
LEMMA ConversationGoesOn ==
    ASSUME ConversationInv, UNCHANGED <<conversation, messages, events, latest, answered>>,
           NEW c \in Calls, NEW q \in TurnRows, turn' = [turn EXCEPT ![c] = q], TurnKnows(c)'
    PROVE  ConversationInv'
  <1>1. turn' \in [Calls -> TurnRows] /\ \A d \in Calls : d # c => turn'[d] = turn[d]
    BY DEF ConversationInv, ConversationRows
  <1>2. latest' \in [Sets -> DatasetVersions]
    BY DEF ConversationInv, ConversationRows
  <1> QED
    BY <1>1, <1>2, ConversationGoes

\* A call that ends, and one that goes to its next step.
LEMMA ConversationStep ==
    ASSUME ConversationInv, NEW c \in Calls, NEW step \in TurnSteps, Goto(c, step)
    PROVE  /\ turn' \in [Calls -> TurnRows] /\ \A d \in Calls : d # c => turn'[d] = turn[d]
           /\ turn'[c].at = step /\ turn'[c].next = 0
           /\ step = "done" => turn'[c].revision = 0
           /\ step # "done" => turn'[c].revision = turn[c].revision /\ turn'[c].key = turn[c].key
                 /\ turn'[c].change = turn[c].change /\ turn'[c].answer = turn[c].answer
                 /\ turn'[c].message = turn[c].message
  <1>1. turn \in [Calls -> TurnRows]
    BY DEF ConversationInv, ConversationRows
  <1>2. Idle \in TurnRows /\ Idle.revision = 0 /\ Idle.next = 0
    BY DEF Idle, TurnRows, TurnSteps, Tries
  <1>3. CASE step = "done"
    <2> DEFINE q == [Idle EXCEPT !.at = step]
    <2>1. turn' = [turn EXCEPT ![c] = q]
      BY <1>3 DEF Goto
    <2>2. q \in TurnRows /\ q.at = step /\ q.next = 0 /\ q.revision = 0
      BY <1>2 DEF TurnRows
    <2> HIDE DEF q
    <2> QED
      BY <1>1, <1>3, <2>1, <2>2
  <1>4. CASE step # "done"
    <2> DEFINE q == [turn[c] EXCEPT !.at = step, !.next = 0]
    <2>1. turn' = [turn EXCEPT ![c] = q]
      BY <1>4 DEF Goto
    <2>2. /\ q \in TurnRows /\ q.at = step /\ q.next = 0 /\ q.revision = turn[c].revision /\ q.key = turn[c].key
          /\ q.change = turn[c].change /\ q.answer = turn[c].answer /\ q.message = turn[c].message
      BY <1>1 DEF TurnRows
    <2> HIDE DEF q
    <2> QED
      BY <1>1, <1>4, <2>1, <2>2
  <1> QED
    BY <1>3, <1>4

\* A call ends, and may answer with what is stored.
LEMMA ConversationEnds ==
    ASSUME ConversationInv, NEW c \in Calls, Goto(c, "done"),
           UNCHANGED <<conversation, messages, events, latest>>,
           \A a \in answered' : a \in answered \/ Stored(a[1], "assistant")
    PROVE  ConversationInv'
  <1>1. /\ turn' \in [Calls -> TurnRows] /\ \A d \in Calls : d # c => turn'[d] = turn[d]
        /\ turn'[c].at = "done" /\ turn'[c].next = 0 /\ turn'[c].revision = 0
    BY ConversationStep DEF TurnSteps
  <1>2. conversation.next \in Nat /\ conversation.revision \in Nat /\ latest' \in [Sets -> DatasetVersions]
    BY DEF ConversationInv, ConversationRows
  <1>3. TurnKnows(c)'
    BY <1>1, <1>2 DEF TurnKnows
  <1> QED
    BY <1>1, <1>2, <1>3, ConversationGoes

\* A transaction that lost a race runs again from its first read, or the call ends.
LEMMA ConversationRetries ==
    ASSUME ConversationInv, NEW c \in Calls,
           UNCHANGED <<conversation, messages, events, latest, answered>>,
           \/ turn[c].at = "write" /\ Retry(c, "append")
           \/ turn[c].at = "advance" /\ Retry(c, "event")
    PROVE  ConversationInv'
  <1> DEFINE step == IF turn[c].at = "write" THEN "append" ELSE "event"
             q == [turn[c] EXCEPT !.at = step, !.tries = @ + 1, !.next = 0]
  <1>1. turn[c] \in TurnRows /\ turn[c].tries \in Nat /\ turn \in [Calls -> TurnRows]
    BY DEF ConversationInv, ConversationRows, TurnRows
  <1>2. CASE turn[c].tries + 1 < Tries
    <2>0. turn[c].tries + 1 \in 0 .. Tries
      BY <1>1, <1>2 DEF Tries
    <2>1. turn' = [turn EXCEPT ![c] = q] /\ turn'[c] = q
      BY <1>1, <1>2 DEF Retry
    <2>2. /\ q \in TurnRows /\ q.at = step /\ q.next = 0 /\ q.revision = turn[c].revision /\ q.key = turn[c].key
          /\ q.change = turn[c].change /\ q.answer = turn[c].answer /\ q.message = turn[c].message
      BY <1>1, <2>0 DEF TurnRows, TurnSteps
    <2> HIDE DEF q
    <2>3. conversation.next \in Nat
      BY DEF ConversationInv, ConversationRows
    <2>4. TurnKnows(c)
      BY DEF ConversationInv
    <2>5. AppendsInTurn(c) => AppendsInTurn(c)'
      BY <2>1, <2>2 DEF AppendsInTurn, Stored
    <2>6. TurnKnows(c)'
      BY <2>1, <2>2, <2>3, <2>4, <2>5 DEF TurnKnows
    <2> QED
      BY <2>1, <2>2, <2>6, ConversationGoesOn
  <1>3. CASE ~(turn[c].tries + 1 < Tries)
    BY <1>3, ConversationEnds DEF Retry
  <1> QED
    BY <1>2, <1>3

-----------------------------------------------------------------------------
(* Turns.                                                                  *)

\* A turn begins, or its repetition.
LEMMA ConversationAsks == ASSUME ConversationInv, NEW c \in Calls, NEW k \in Keys, runTurn(c, k) PROVE ConversationInv'
  <1> DEFINE question == [id |-> k, key |-> <<k, "user">>, role |-> "USER", text |-> None,
                          version |-> conversation.versions[Datasets[1]]]
             q == [Idle EXCEPT !.at = "append", !.key = k, !.message = question]
  <1>1. turn' = [turn EXCEPT ![c] = q] /\ turn'[c] = q
    BY DEF runTurn, ConversationInv, ConversationRows
  <1>2. question \in MessageRows /\ question.role = "USER" /\ question.key = <<k, "user">>
    <2>1. conversation.versions[Datasets[1]] \in DatasetVersions
      BY DEF ConversationInv, ConversationRows, Sets
    <2> QED
      BY <2>1 DEF MessageRows
  <1> HIDE DEF question
  <1>0. Idle \in TurnRows /\ Idle.next = 0 /\ Idle.revision = 0 /\ Idle.answer = None
    BY DEF Idle, TurnRows, TurnSteps, Tries
  <1>3. q \in TurnRows /\ q.at = "append" /\ q.key = k /\ q.message = question /\ q.next = 0 /\ q.revision = 0
        /\ q.answer = None
    BY <1>0, <1>2 DEF TurnRows, TurnSteps
  <1> HIDE DEF q
  <1>4. conversation.next \in Nat /\ conversation.revision \in Nat
    BY DEF ConversationInv, ConversationRows
  <1>5. AppendsInTurn(c)'
    BY <1>1, <1>2, <1>3 DEF AppendsInTurn
  <1>6. TurnKnows(c)'
    <2>1. /\ turn'[c].at = "append" /\ turn'[c].key = k /\ turn'[c].message = question /\ turn'[c].next = 0
          /\ turn'[c].revision = 0 /\ turn'[c].answer = None /\ UNCHANGED <<conversation, messages>>
      BY <1>1, <1>3 DEF runTurn
    <2> QED
      BY <1>2, <1>4, <1>5, <2>1 DEF TurnKnows
  <1> QED
    BY <1>1, <1>3, <1>6, ConversationGoesOn DEF runTurn

\* What follows a message that is stored, or found to be.
LEMMA ConversationFollows ==
    ASSUME NEW c \in Calls, turn[c].message \in MessageRows, AppendsInTurn(c), NEW stored \in BOOLEAN
    PROVE  /\ After(c, stored) \in {"provider", "answer", "tell", "done"}
           /\ After(c, stored) = "provider" => stored /\ turn[c].message.key = <<turn[c].key, "user">>
           /\ After(c, stored) = "answer" => Stored(turn[c].key, "user")
           /\ After(c, stored) = "tell" =>
                 Stored(turn[c].key, "user") /\ turn[c].message.key = <<turn[c].key, "assistant">>
  <1>1. CASE turn[c].message.role = "USER"
    BY <1>1 DEF After, AppendsInTurn
  <1>2. CASE turn[c].message.role = "SYSTEM"
    BY <1>2 DEF After, AppendsInTurn
  <1>3. CASE turn[c].message.role = "AGENT"
    BY <1>3 DEF After, AppendsInTurn
  <1> QED
    BY <1>1, <1>2, <1>3 DEF MessageRows

\* A call reads the conversation before it appends.
LEMMA ConversationFinds == ASSUME ConversationInv, NEW c \in Calls, AppendRead(c) PROVE ConversationInv'
  <1> DEFINE found == {m \in messages : m.message.key = turn[c].message.key}
  <1>1. /\ TurnKnows(c) /\ turn[c].at = "append" /\ turn[c] \in TurnRows /\ conversation.next \in Nat
        /\ turn \in [Calls -> TurnRows] /\ conversation.revision \in Nat
    BY DEF ConversationInv, ConversationRows, AppendRead
  <1>2. turn[c].message \in MessageRows /\ AppendsInTurn(c) /\ turn[c].key \in Keys
    BY <1>1 DEF TurnKnows
  <1>3. CASE found = {}
    <2> DEFINE q == [turn[c] EXCEPT !.at = "write", !.next = conversation.next]
    <2>1. turn' = [turn EXCEPT ![c] = q] /\ turn'[c] = q
      BY <1>1, <1>3 DEF AppendRead
    <2>2. /\ q \in TurnRows /\ q.at = "write" /\ q.next = conversation.next /\ q.revision = turn[c].revision
          /\ q.key = turn[c].key /\ q.change = turn[c].change /\ q.answer = turn[c].answer
          /\ q.message = turn[c].message
      BY <1>1 DEF TurnRows, TurnSteps
    <2> HIDE DEF q
    <2>3. AppendsInTurn(c)'
      BY <1>2, <2>1, <2>2 DEF AppendsInTurn, Stored, AppendRead
    <2>4. TurnKnows(c)'
      BY <1>1, <1>2, <1>3, <2>1, <2>2, <2>3 DEF TurnKnows, AppendRead
    <2> QED
      BY <2>1, <2>2, <2>4, ConversationGoesOn DEF AppendRead
  <1>4. CASE found # {}
    <2> DEFINE stored == \E m \in found : m.message = turn[c].message
               step == After(c, stored)
    <2>1. Goto(c, step) /\ UNCHANGED <<conversation, messages, events, latest, answered>>
      BY <1>4 DEF AppendRead
    <2>2. /\ step \in {"provider", "answer", "tell", "done"}
          /\ step = "provider" => stored /\ turn[c].message.key = <<turn[c].key, "user">>
          /\ step = "answer" => Stored(turn[c].key, "user")
          /\ step = "tell" => Stored(turn[c].key, "user") /\ turn[c].message.key = <<turn[c].key, "assistant">>
      BY <1>2, ConversationFollows
    <2>3. step = "provider" => Stored(turn[c].key, "user")
      BY <2>2 DEF Stored
    <2>4. step = "tell" => Stored(turn[c].key, "assistant")
      BY <1>4, <2>2 DEF Stored
    <2> HIDE DEF step
    <2>5. step \in TurnSteps
      BY <2>2 DEF TurnSteps
    <2>6. CASE step = "done"
      BY <2>1, <2>6, ConversationEnds
    <2>7. CASE step # "done"
      <3>1. /\ turn' \in [Calls -> TurnRows] /\ \A d \in Calls : d # c => turn'[d] = turn[d]
            /\ turn'[c].at = step /\ turn'[c].next = 0 /\ turn'[c].revision = turn[c].revision
            /\ turn'[c].key = turn[c].key /\ turn'[c].answer = turn[c].answer
        BY <2>1, <2>5, <2>7, ConversationStep
      <3>2. \A k, kind : Stored(k, kind)' <=> Stored(k, kind)
        BY <2>1 DEF Stored
      <3>3. TurnKnows(c)'
        BY <1>1, <1>2, <2>1, <2>2, <2>3, <2>4, <2>7, <3>1, <3>2 DEF TurnKnows
      <3>4. latest' \in [Sets -> DatasetVersions]
        BY <2>1 DEF ConversationInv, ConversationRows
      <3> QED
        BY <2>1, <3>1, <3>3, <3>4, ConversationGoes
    <2> QED
      BY <2>6, <2>7
  <1> QED
    BY <1>3, <1>4

\* What the others know when the numbering has gone on: it is not the one they read.
LEMMA ConversationOvertakes ==
    ASSUME ConversationInv, NEW d \in Calls, turn'[d] = turn[d], messages \subseteq messages',
           conversation' \in [revision : Nat \ {0}, next : Nat \ {0}, versions : [Sets -> DatasetVersions]],
           conversation.next < conversation'.next,
           \/ conversation.revision < conversation'.revision
           \/ conversation'.revision = conversation.revision /\ conversation'.versions = conversation.versions
    PROVE  TurnKnows(d)'
  <1>1. TurnKnows(d) /\ turn[d].next \in Nat /\ turn[d].revision \in Nat
        /\ conversation.next \in Nat /\ conversation.revision \in Nat
    BY DEF ConversationInv, ConversationRows, TurnRows
  <1>2. conversation'.next \in Nat /\ conversation'.revision \in Nat
    OBVIOUS
  <1>3. \A k, kind : Stored(k, kind) => Stored(k, kind)'
    BY DEF Stored
  <1>4. AppendsInTurn(d) => AppendsInTurn(d)'
    BY <1>3 DEF AppendsInTurn
  <1>5. turn[d].next < conversation'.next /\ turn[d].revision <= conversation'.revision
    BY <1>1, <1>2 DEF TurnKnows
  <1>6. ~Reserves(d)'
    BY <1>1, <1>2, <1>5 DEF Reserves
  <1>7. Current(d)' => Current(d) /\ conversation'.versions = conversation.versions
    BY <1>1, <1>2 DEF Current, TurnKnows
  <1> QED
    BY <1>1, <1>3, <1>4, <1>5, <1>6, <1>7 DEF TurnKnows

\* A message gets the next number, under a key that no other has.
LEMMA ConversationAppends == ASSUME ConversationInv, NEW c \in Calls, AppendWrite(c), Reserves(c) PROVE ConversationInv'
  <1> DEFINE n == conversation.next
             new == [sequence |-> n, message |-> turn[c].message]
             step == After(c, TRUE)
  <1>1. /\ TurnKnows(c) /\ turn[c].at = "write" /\ turn[c] \in TurnRows /\ n \in Nat \ {0}
        /\ conversation.revision \in Nat /\ turn[c].next = n
        /\ conversation \in [revision : Nat \ {0}, next : Nat \ {0}, versions : [Sets -> DatasetVersions]]
    BY DEF ConversationInv, ConversationRows, AppendWrite, Reserves
  <1>2. /\ turn[c].message \in MessageRows /\ AppendsInTurn(c) /\ turn[c].key \in Keys
        /\ \A m \in messages : m.message.key # turn[c].message.key
    BY <1>1 DEF TurnKnows, AppendWrite
  <1>3. /\ messages' = messages \cup {new} /\ conversation' = [conversation EXCEPT !.next = n + 1]
        /\ Goto(c, step) /\ UNCHANGED <<events, latest, answered>>
    BY <1>1 DEF AppendWrite
  <1>4. /\ new \in [sequence : Nat, message : MessageRows] /\ new.sequence = n /\ new.message = turn[c].message
    BY <1>1, <1>2
  <1> HIDE DEF new
  <1>5. /\ conversation' \in [revision : Nat \ {0}, next : Nat \ {0}, versions : [Sets -> DatasetVersions]]
        /\ conversation'.next = n + 1 /\ conversation'.revision = conversation.revision
        /\ conversation'.versions = conversation.versions
    BY <1>1, <1>3
  <1>6. /\ step \in {"provider", "answer", "tell", "done"}
        /\ step = "provider" => turn[c].message.key = <<turn[c].key, "user">>
        /\ step = "answer" => Stored(turn[c].key, "user")
        /\ step = "tell" => Stored(turn[c].key, "user") /\ turn[c].message.key = <<turn[c].key, "assistant">>
    BY <1>2, ConversationFollows
  <1> HIDE DEF step
  <1>7. step \in TurnSteps
    BY <1>6 DEF TurnSteps
  <1>8. /\ turn' \in [Calls -> TurnRows] /\ \A d \in Calls : d # c => turn'[d] = turn[d]
        /\ turn'[c].at = step /\ turn'[c].next = 0 /\ turn'[c].revision \in {0, turn[c].revision}
        /\ step # "done" => turn'[c].key = turn[c].key /\ turn'[c].answer = turn[c].answer
    BY <1>3, <1>7, ConversationStep
  <1>9. \A m \in messages : m \in [sequence : Nat, message : MessageRows] /\ m.sequence \in 1 .. n - 1
    BY DEF ConversationInv, ConversationRows, TranscriptIsWhole, Places
  <1>10. new \notin messages
    BY <1>1, <1>4, <1>9
  <1>11. IsFiniteSet(messages') /\ Cardinality(messages') = Cardinality(messages) + 1
    BY <1>3, <1>10, FS_AddElement DEF ConversationInv, ConversationRows
  <1>12. ConversationRows'
    BY <1>3, <1>4, <1>5, <1>8, <1>9, <1>11 DEF ConversationInv, ConversationRows
  <1>13. TranscriptIsWhole'
    <2>1. Places' = Places \cup {n}
      BY <1>3, <1>4 DEF Places
    <2>2. Places' = 1 .. conversation'.next - 1
      BY <1>1, <1>5, <2>1 DEF ConversationInv, TranscriptIsWhole
    <2>3. Cardinality(messages') + Cardinality(events') = conversation'.next - 1
      <3>1. Cardinality(messages) \in Nat /\ Cardinality(events) \in Nat
        BY FS_CardinalityType DEF ConversationInv, ConversationRows
      <3> QED
        BY <1>1, <1>3, <1>5, <1>11, <3>1 DEF ConversationInv, TranscriptIsWhole
    <2>4. \A p, q \in messages' : p.message.key = q.message.key => p = q
      BY <1>2, <1>3, <1>4 DEF ConversationInv, TranscriptIsWhole
    <2>5. ASSUME NEW m \in messages', m.message.key[2] \in {"tool", "assistant"}
          PROVE  \E p \in messages' : p.message.key = <<m.message.key[1], "user">> /\ p.sequence < m.sequence
      <3>1. CASE m \in messages
        BY <1>3, <2>5, <3>1 DEF ConversationInv, TranscriptIsWhole
      <3>2. CASE m = new
        <4>1. Stored(turn[c].key, "user") /\ turn[c].message.key[1] = turn[c].key
          BY <1>2, <1>4, <2>5, <3>2 DEF AppendsInTurn
        <4> QED
          BY <1>1, <1>3, <1>4, <1>9, <3>2, <4>1 DEF Stored
      <3> QED
        BY <1>3, <3>1, <3>2
    <2>6. \A a \in answered' : \E m \in messages' : m.message.key = <<a[1], "assistant">>
      BY <1>3 DEF ConversationInv, TranscriptIsWhole
    <2> QED
      BY <2>2, <2>3, <2>4, <2>5, <2>6 DEF TranscriptIsWhole
  <1>14. ContextIsRecorded'
    <2>1. ContextIsRecorded /\ events' = events
      BY <1>3 DEF ConversationInv
    <2> QED
      BY <1>5, <2>1 DEF ContextIsRecorded
  <1>15. \A d \in Calls : d # c => TurnKnows(d)'
    <2>1. conversation.next < conversation'.next /\ messages \subseteq messages'
      BY <1>1, <1>3, <1>5
    <2> QED
      BY <1>5, <1>8, <2>1, ConversationOvertakes
  <1>16. TurnKnows(c)'
    <2>0. PICK k \in Keys : turn[c].key = k
      BY <1>2
    <2>1. step = "provider" => Stored(k, "user")'
      BY <1>3, <1>4, <1>6, <2>0 DEF Stored
    <2>2. step = "tell" => Stored(k, "assistant")'
      BY <1>3, <1>4, <1>6, <2>0 DEF Stored
    <2>3. step \in {"answer", "tell"} => Stored(k, "user")'
      BY <1>3, <1>6, <2>0 DEF Stored
    <2>4. turn'[c].next <= conversation'.next /\ turn'[c].revision <= conversation'.revision
      BY <1>1, <1>5, <1>8 DEF TurnKnows
    <2>5. CASE step = "done"
      BY <1>8, <2>4, <2>5 DEF TurnKnows
    <2>6. CASE step # "done"
      <3>1. turn'[c].key = k /\ turn'[c].answer \in Answers \cup {None}
        BY <1>1, <1>8, <2>0, <2>6 DEF TurnKnows
      <3>2. step \in {"provider", "answer", "tell"}
        BY <1>6, <2>6
      <3> QED
        BY <1>8, <2>1, <2>2, <2>3, <2>4, <3>1, <3>2 DEF TurnKnows
    <2> QED
      BY <2>5, <2>6
  <1> QED
    BY <1>12, <1>13, <1>14, <1>15, <1>16 DEF ConversationInv

\* A message of the server that is about to be stored, after the question.
LEMMA ConversationSpeaks ==
    ASSUME ConversationInv, NEW c \in Turns, turn[c].at \in {"provider", "answer"},
           NEW m \in MessageRows, NEW a \in Answers \cup {None},
           \/ m.role = "SYSTEM" /\ m.key \in {<<turn[c].key, "tool">>, <<c, "failed">>}
           \/ m.role = "AGENT" /\ m.key = <<turn[c].key, "assistant">>,
           turn' = Append(c, "append", m, a), UNCHANGED <<conversation, messages, events, latest, answered>>
    PROVE  ConversationInv'
  <1> DEFINE q == [turn[c] EXCEPT !.at = "append", !.message = m, !.answer = a, !.tries = 0]
  <1>1. /\ c \in Calls /\ turn[c] \in TurnRows /\ turn \in [Calls -> TurnRows] /\ TurnKnows(c)
        /\ conversation.next \in Nat /\ conversation.revision \in Nat
    BY DEF ConversationInv, ConversationRows, Calls
  <1>2. turn' = [turn EXCEPT ![c] = q] /\ turn'[c] = q
    BY <1>1 DEF Append
  <1>3. /\ q \in TurnRows /\ q.at = "append" /\ q.message = m /\ q.answer = a /\ q.key = turn[c].key
        /\ q.next = turn[c].next /\ q.revision = turn[c].revision
    <2>1. 0 \in 0 .. Tries
      BY DEF Tries
    <2> QED
      BY <1>1, <2>1 DEF TurnRows, TurnSteps
  <1> HIDE DEF q
  <1>4. AppendsInTurn(c)'
    BY <1>1, <1>2, <1>3 DEF AppendsInTurn, Stored, TurnKnows
  <1>5. TurnKnows(c)'
    BY <1>1, <1>2, <1>3, <1>4 DEF TurnKnows
  <1> QED
    BY <1>1, <1>2, <1>3, <1>5, ConversationGoesOn

\* The provider answers.
LEMMA ConversationProvides == ASSUME ConversationInv, NEW c \in Turns, Provider(c) PROVE ConversationInv'
  <1>1. c \in Calls /\ turn[c].key \in Keys /\ turn[c].at = "provider"
        /\ UNCHANGED <<conversation, messages, events, latest, answered>>
    BY DEF ConversationInv, Calls, TurnKnows, Provider
  <1>2. PICK a \in Answers :
          \/ turn' = Append(c, "append", FromServer(c, "SYSTEM", <<turn[c].key, "tool">>, None), a)
          \/ turn' = Append(c, "append", FromServer(c, "AGENT", <<turn[c].key, "assistant">>, a), a)
          \/ turn' = Append(c, "append", FromServer(c, "SYSTEM", <<c, "failed">>, None), None)
    BY DEF Provider
  <1>3. CASE turn' = Append(c, "append", FromServer(c, "SYSTEM", <<turn[c].key, "tool">>, None), a)
    <2> DEFINE m == FromServer(c, "SYSTEM", <<turn[c].key, "tool">>, None)
    <2>1. m \in MessageRows /\ m.role = "SYSTEM" /\ m.key = <<turn[c].key, "tool">>
      BY <1>1 DEF FromServer, MessageRows, Calls
    <2> HIDE DEF m
    <2> QED
      BY <1>1, <1>3, <2>1, ConversationSpeaks DEF m
  <1>4. CASE turn' = Append(c, "append", FromServer(c, "AGENT", <<turn[c].key, "assistant">>, a), a)
    <2> DEFINE m == FromServer(c, "AGENT", <<turn[c].key, "assistant">>, a)
    <2>1. m \in MessageRows /\ m.role = "AGENT" /\ m.key = <<turn[c].key, "assistant">>
      BY <1>1 DEF FromServer, MessageRows, Calls
    <2> HIDE DEF m
    <2> QED
      BY <1>1, <1>4, <2>1, ConversationSpeaks DEF m
  <1>5. CASE turn' = Append(c, "append", FromServer(c, "SYSTEM", <<c, "failed">>, None), None)
    <2> DEFINE m == FromServer(c, "SYSTEM", <<c, "failed">>, None)
    <2>1. m \in MessageRows /\ m.role = "SYSTEM" /\ m.key = <<c, "failed">>
      BY <1>1 DEF FromServer, MessageRows, Calls
    <2> HIDE DEF m
    <2> QED
      BY <1>1, <1>5, <2>1, ConversationSpeaks DEF m
  <1> QED
    BY <1>2, <1>3, <1>4, <1>5

\* A turn is answered.
LEMMA ConversationReplies == ASSUME ConversationInv, NEW c \in Turns, Answer(c) PROVE ConversationInv'
  <1>1. c \in Calls /\ turn[c].key \in Keys /\ turn[c].at = "answer" /\ turn[c].answer \in Answers \cup {None}
        /\ UNCHANGED <<conversation, messages, events, latest, answered>>
    BY DEF ConversationInv, Calls, TurnKnows, Answer
  <1> DEFINE m == FromServer(c, "AGENT", <<turn[c].key, "assistant">>, turn[c].answer)
  <1>2. m \in MessageRows /\ m.role = "AGENT" /\ m.key = <<turn[c].key, "assistant">>
    BY <1>1 DEF FromServer, MessageRows, Calls
  <1>3. turn' = Append(c, "append", m, turn[c].answer)
    BY DEF Answer
  <1> HIDE DEF m
  <1> QED
    BY <1>1, <1>2, <1>3, ConversationSpeaks

\* An answer that is given is stored.
LEMMA ConversationTells == ASSUME ConversationInv, NEW c \in Calls, Tell(c) PROVE ConversationInv'
  <1>1. turn[c].at = "tell" /\ TurnKnows(c) /\ Goto(c, "done") /\ UNCHANGED <<conversation, messages, events, latest>>
    BY DEF Tell, ConversationInv
  <1>2. \A a \in answered' : a \in answered \/ Stored(a[1], "assistant")
    BY <1>1 DEF Tell, TurnKnows
  <1> QED
    BY <1>1, <1>2, ConversationEnds

-----------------------------------------------------------------------------
(* Changes of the context.                                                 *)

\* A change of the context begins.
LEMMA ContextBegins ==
    ASSUME ConversationInv, NEW c \in Calls, NEW k \in Keys, resolveTurnContext(c, k) PROVE ConversationInv'
  <1> DEFINE q == [Idle EXCEPT !.at = "resolve", !.key = k, !.change = conversation.versions]
  <1>0. Idle \in TurnRows /\ Idle.next = 0 /\ Idle.revision = 0
    BY DEF Idle, TurnRows, TurnSteps, Tries
  <1>1. /\ conversation.versions \in [Sets -> DatasetVersions] /\ conversation.next \in Nat
        /\ conversation.revision \in Nat
    BY DEF ConversationInv, ConversationRows
  <1>2. turn' = [turn EXCEPT ![c] = q] /\ turn'[c] = q
    BY DEF resolveTurnContext, ConversationInv, ConversationRows
  <1>3. /\ q \in TurnRows /\ q.at = "resolve" /\ q.change = conversation.versions /\ q.next = 0 /\ q.revision = 0
    BY <1>0, <1>1 DEF TurnRows, TurnSteps
  <1> HIDE DEF q
  <1>4. TurnKnows(c)'
    <2>1. UNCHANGED conversation /\ turn'[c].at = "resolve" /\ turn'[c].next = 0 /\ turn'[c].revision = 0
          /\ turn'[c].change \in [Sets -> DatasetVersions]
      BY <1>1, <1>2, <1>3 DEF resolveTurnContext
    <2> QED
      BY <1>1, <2>1 DEF TurnKnows
  <1> QED
    BY <1>2, <1>3, <1>4, ConversationGoesOn DEF resolveTurnContext

\* The versions of a change are resolved.
LEMMA ContextResolves == ASSUME ConversationInv, NEW c \in Calls, Resolve(c) PROVE ConversationInv'
  <1> DEFINE stale(d) == turn[c].change[d] # latest[d]
             change(d) == [dataset |-> d, before |-> turn[c].change[d], after |-> latest[d]]
             moved == IF stale(Datasets[1]) THEN Datasets[1] ELSE Datasets[2]
             q == [turn[c] EXCEPT !.at = "event", !.change = change(moved)]
  <1>1. /\ TurnKnows(c) /\ turn[c].at = "resolve" /\ turn[c] \in TurnRows /\ turn \in [Calls -> TurnRows]
        /\ turn[c].change \in [Sets -> DatasetVersions] /\ latest \in [Sets -> DatasetVersions]
        /\ UNCHANGED <<conversation, messages, events, latest, answered>>
    BY DEF ConversationInv, ConversationRows, Resolve, TurnKnows
  <1>2. CASE \E d \in Sets : stale(d)
    <2>1. turn' = [turn EXCEPT ![c] = q] /\ turn'[c] = q
      BY <1>1, <1>2 DEF Resolve
    <2>2. moved \in Sets
      BY DEF Sets
    <2>3. change(moved) \in ContextChanges
      BY <1>1, <2>2 DEF ContextChanges
    <2> HIDE DEF change
    <2>4. /\ q \in TurnRows /\ q.at = "event" /\ q.change = change(moved) /\ q.next = turn[c].next
          /\ q.revision = turn[c].revision
      BY <1>1, <2>3 DEF TurnRows, TurnSteps
    <2> HIDE DEF q
    <2>5. TurnKnows(c)'
      BY <1>1, <2>1, <2>3, <2>4 DEF TurnKnows
    <2> QED
      BY <1>1, <2>1, <2>4, <2>5, ConversationGoesOn
  <1>3. CASE ~\E d \in Sets : stale(d)
    BY <1>1, <1>3, ConversationEnds DEF Resolve
  <1> QED
    BY <1>2, <1>3

\* A change looks for the event of its key.
LEMMA ContextFinds == ASSUME ConversationInv, NEW c \in Calls, EventRead(c) PROVE ConversationInv'
  <1>1. /\ TurnKnows(c) /\ turn[c].at = "event" /\ UNCHANGED <<conversation, messages, events, latest, answered>>
        /\ conversation.next \in Nat /\ latest' \in [Sets -> DatasetVersions]
    BY DEF ConversationInv, ConversationRows, EventRead
  <1>2. CASE Goto(c, "compare")
    <2>1. /\ turn' \in [Calls -> TurnRows] /\ \A d \in Calls : d # c => turn'[d] = turn[d]
          /\ turn'[c].at = "compare" /\ turn'[c].next = 0 /\ turn'[c].revision = turn[c].revision
          /\ turn'[c].change = turn[c].change
      BY <1>2, ConversationStep DEF TurnSteps
    <2>2. TurnKnows(c)'
      BY <1>1, <2>1 DEF TurnKnows
    <2> QED
      BY <1>1, <2>1, <2>2, ConversationGoes
  <1>3. CASE Goto(c, "done")
    BY <1>1, <1>3, ConversationEnds
  <1> QED
    BY <1>2, <1>3 DEF EventRead

\* What is written is what is read here, as long as the revision is.
LEMMA ContextCompares == ASSUME ConversationInv, NEW c \in Calls, Compare(c) PROVE ConversationInv'
  <1> DEFINE q == [turn[c] EXCEPT !.at = "advance", !.next = conversation.next, !.revision = conversation.revision,
                                  !.answer = conversation.versions]
  <1>1. /\ TurnKnows(c) /\ turn[c].at = "compare" /\ UNCHANGED <<conversation, messages, events, latest, answered>>
        /\ conversation.next \in Nat /\ conversation.revision \in Nat /\ turn[c] \in TurnRows
        /\ turn \in [Calls -> TurnRows] /\ conversation.versions \in [Sets -> DatasetVersions]
    BY DEF ConversationInv, ConversationRows, Compare
  <1>2. CASE Advanceable(c)
    <2>1. turn' = [turn EXCEPT ![c] = q] /\ turn'[c] = q
      BY <1>1, <1>2 DEF Compare
    <2>2. /\ q \in TurnRows /\ q.at = "advance" /\ q.change = turn[c].change /\ q.next = conversation.next
          /\ q.revision = conversation.revision /\ q.answer = conversation.versions
      BY <1>1 DEF TurnRows, TurnSteps
    <2> HIDE DEF q
    <2>3. TurnKnows(c)'
      BY <1>1, <1>2, <2>1, <2>2 DEF TurnKnows, Advanceable
    <2> QED
      BY <1>1, <2>1, <2>2, <2>3, ConversationGoesOn
  <1>3. CASE ~Advanceable(c)
    BY <1>1, <1>3, ConversationEnds DEF Compare
  <1> QED
    BY <1>2, <1>3

\* The version that the last of some events left.
LastOf(S) == CHOOSE e \in S : \A f \in S : f.sequence <= e.sequence
Left(S) == IF S = {} THEN 1 ELSE LastOf(S).change.after
EventsOf(E, d) == {e \in E : e.change.dataset = d}
EventsBefore(E, e) == {f \in EventsOf(E, e.change.dataset) : f.sequence < e.sequence}

\* What is recorded of the context, by the events of each data set.
LEMMA RecordedAs ==
    ContextIsRecorded <=>
        /\ conversation.revision = 1 + Cardinality(events)
        /\ \A d \in Sets : conversation.versions[d] = Left(EventsOf(events, d))
        /\ \A e \in events : e.change.before = Left(EventsBefore(events, e))
        /\ \A e, f \in events : e.key = f.key => e = f
  BY DEF ContextIsRecorded, LastOf, Left, EventsOf, EventsBefore

\* What the newest event leaves is its version.
LEMMA NewestLeaves ==
    ASSUME NEW S, NEW e, e.sequence \in Nat, \A f \in S : f.sequence \in Nat /\ f.sequence < e.sequence
    PROVE  Left(S \cup {e}) = e.change.after
  <1>1. \A x \in S \cup {e} : (\A f \in S \cup {e} : f.sequence <= x.sequence) => x = e
    OBVIOUS
  <1>2. \A f \in S \cup {e} : f.sequence <= e.sequence
    OBVIOUS
  <1>3. LastOf(S \cup {e}) = e
    BY <1>1, <1>2 DEF LastOf
  <1> QED
    BY <1>3 DEF Left

\* A change of the version that is there is recorded after all the others.
LEMMA ContextMovesOn ==
    ASSUME ConversationInv, NEW c \in Calls, Advance(c), Current(c), Reserves(c), KeyFree(c) PROVE ConversationInv'
  <1> DEFINE n == conversation.next
             change == turn[c].change
             new == [sequence |-> n, key |-> turn[c].key, change |-> change]
             after == [conversation.versions EXCEPT ![change.dataset] = change.after]
  <1>1. /\ TurnKnows(c) /\ turn[c].at = "advance" /\ turn[c] \in TurnRows /\ n \in Nat \ {0}
        /\ conversation.revision \in Nat \ {0} /\ turn[c].next = n /\ turn[c].revision = conversation.revision
        /\ conversation.versions \in [Sets -> DatasetVersions] /\ turn[c].key \in Keys \cup {None}
        /\ latest' \in [Sets -> DatasetVersions]
    BY DEF ConversationInv, ConversationRows, Advance, Reserves, Current, TurnRows
  <1>2. /\ change \in ContextChanges /\ turn[c].answer = conversation.versions
        /\ conversation.versions[change.dataset] = change.before /\ change.dataset \in Sets
        /\ change.after \in DatasetVersions
    BY <1>1 DEF TurnKnows, ContextChanges
  <1>3. /\ conversation' = [revision |-> conversation.revision + 1, next |-> n + 1, versions |-> after]
        /\ events' = events \cup {new} /\ Goto(c, "done") /\ UNCHANGED <<messages, latest, answered>>
    BY <1>1, <1>2 DEF Advance
  <1>4. /\ new \in [sequence : Nat, key : Keys \cup {None}, change : ContextChanges] /\ new.sequence = n
        /\ new.key = turn[c].key /\ new.change = change
    BY <1>1, <1>2
  <1>5. after \in [Sets -> DatasetVersions] /\ after[change.dataset] = change.after
        /\ \A d \in Sets : d # change.dataset => after[d] = conversation.versions[d]
    BY <1>1, <1>2
  <1> HIDE DEF new, after
  <1>6. /\ conversation' \in [revision : Nat \ {0}, next : Nat \ {0}, versions : [Sets -> DatasetVersions]]
        /\ conversation'.next = n + 1 /\ conversation'.revision = conversation.revision + 1
        /\ conversation'.versions = after
    BY <1>1, <1>3, <1>5
  <1>7. /\ turn' \in [Calls -> TurnRows] /\ \A d \in Calls : d # c => turn'[d] = turn[d]
        /\ turn'[c].at = "done" /\ turn'[c].next = 0 /\ turn'[c].revision = 0
    BY <1>3, ConversationStep DEF TurnSteps
  <1>8. \A e \in events : /\ e \in [sequence : Nat, key : Keys \cup {None}, change : ContextChanges]
                          /\ e.sequence \in 1 .. n - 1
    BY DEF ConversationInv, ConversationRows, TranscriptIsWhole, Places
  <1>9. new \notin events /\ \A e \in events : e.sequence \in Nat /\ e.sequence < n
    BY <1>1, <1>4, <1>8
  <1>10. IsFiniteSet(events') /\ Cardinality(events') = Cardinality(events) + 1
    BY <1>3, <1>9, FS_AddElement DEF ConversationInv, ConversationRows
  <1>11. Cardinality(messages) \in Nat /\ Cardinality(events) \in Nat
    BY FS_CardinalityType DEF ConversationInv, ConversationRows
  <1>12. ConversationRows'
    BY <1>1, <1>3, <1>4, <1>6, <1>7, <1>8, <1>10 DEF ConversationInv, ConversationRows
  <1>13. TranscriptIsWhole'
    <2>1. Places' = Places \cup {n}
      BY <1>3, <1>4 DEF Places
    <2>2. Places' = 1 .. conversation'.next - 1
      BY <1>1, <1>6, <2>1 DEF ConversationInv, TranscriptIsWhole
    <2>3. Cardinality(messages') + Cardinality(events') = conversation'.next - 1
      BY <1>1, <1>3, <1>6, <1>10, <1>11 DEF ConversationInv, TranscriptIsWhole
    <2> QED
      BY <1>3, <2>2, <2>3 DEF ConversationInv, TranscriptIsWhole
  <1>14. ContextIsRecorded'
    <2>0. /\ conversation.revision = 1 + Cardinality(events)
          /\ \A d \in Sets : conversation.versions[d] = Left(EventsOf(events, d))
          /\ \A e \in events : e.change.before = Left(EventsBefore(events, e))
          /\ \A e, f \in events : e.key = f.key => e = f
      BY RecordedAs DEF ConversationInv
    <2>1. conversation'.revision = 1 + Cardinality(events')
      BY <1>1, <1>6, <1>10, <1>11, <2>0
    <2>2. ASSUME NEW d \in Sets PROVE conversation'.versions[d] = Left(EventsOf(events', d))
      <3>1. CASE d = change.dataset
        <4>1. EventsOf(events', d) = EventsOf(events, d) \cup {new}
          BY <1>3, <1>4, <3>1 DEF EventsOf
        <4>2. Left(EventsOf(events, d) \cup {new}) = new.change.after
          BY <1>1, <1>4, <1>9, NewestLeaves DEF EventsOf
        <4> QED
          BY <1>4, <1>5, <1>6, <3>1, <4>1, <4>2
      <3>2. CASE d # change.dataset
        <4>1. EventsOf(events', d) = EventsOf(events, d)
          BY <1>3, <1>4, <3>2 DEF EventsOf
        <4> QED
          BY <1>5, <1>6, <2>0, <3>2, <4>1
      <3> QED
        BY <3>1, <3>2
    <2>3. ASSUME NEW e \in events' PROVE e.change.before = Left(EventsBefore(events', e))
      <3>1. CASE e = new
        <4>1. EventsBefore(events', new) = EventsOf(events, change.dataset)
          BY <1>1, <1>3, <1>4, <1>9 DEF EventsBefore, EventsOf
        <4> QED
          BY <1>2, <1>4, <2>0, <3>1, <4>1
      <3>2. CASE e \in events
        <4>1. ~(new.sequence < e.sequence)
          BY <1>1, <1>4, <1>9, <3>2
        <4>2. EventsBefore(events', e) = EventsBefore(events, e)
          BY <1>3, <4>1 DEF EventsBefore, EventsOf
        <4> QED
          BY <2>0, <3>2, <4>2
      <3> QED
        BY <1>3, <3>1, <3>2
    <2>4. \A e, f \in events' : e.key = f.key => e = f
      BY <1>3, <1>4, <2>0 DEF KeyFree
    <2>5. /\ conversation'.revision = 1 + Cardinality(events')
          /\ \A d \in Sets : conversation'.versions[d] = Left(EventsOf(events', d))
          /\ \A e \in events' : e.change.before = Left(EventsBefore(events', e))
          /\ \A e, f \in events' : e.key = f.key => e = f
      BY <2>1, <2>2, <2>3, <2>4
    <2> QED
      BY <2>5 DEF ContextIsRecorded, LastOf, Left, EventsOf, EventsBefore
  <1>15. \A d \in Calls : d # c => TurnKnows(d)'
    <2>1. conversation.next < conversation'.next /\ conversation.revision < conversation'.revision
          /\ messages \subseteq messages'
      BY <1>1, <1>3, <1>6
    <2> QED
      BY <1>6, <1>7, <2>1, ConversationOvertakes
  <1>16. TurnKnows(c)'
    BY <1>1, <1>6, <1>7 DEF TurnKnows
  <1> QED
    BY <1>12, <1>13, <1>14, <1>15, <1>16 DEF ConversationInv

\* A change of the context is written.
LEMMA ContextWrites == ASSUME ConversationInv, NEW c \in Calls, Advance(c) PROVE ConversationInv'
  <1>1. CASE Current(c) /\ Reserves(c) /\ KeyFree(c)
    BY <1>1, ContextMovesOn
  <1>2. CASE ~(Current(c) /\ Reserves(c) /\ KeyFree(c))
    <2>1. /\ UNCHANGED <<conversation, messages, events, latest, answered>> /\ turn[c].at = "advance"
          /\ Retry(c, "event") \/ Goto(c, "done")
      BY <1>2 DEF Advance
    <2> QED
      BY <2>1, ConversationRetries, ConversationEnds
  <1> QED
    BY <1>1, <1>2

-----------------------------------------------------------------------------
(* What all the calls together keep.                                       *)

\* The transcript and the record are of the rows alone.
LEMMA RecordStays ==
    ASSUME TranscriptIsWhole, ContextIsRecorded, UNCHANGED <<conversation, messages, events, answered>>
    PROVE  TranscriptIsWhole' /\ ContextIsRecorded'
  <1>1. TranscriptIsWhole'
    BY DEF TranscriptIsWhole, Places
  <1>2. ContextIsRecorded'
    BY DEF ContextIsRecorded
  <1> QED
    BY <1>1, <1>2

\* Another version of a data set is published.
LEMMA ConversationPublishes ==
    ASSUME ConversationConstants, ConversationInv, NEW d \in Sets, Publish(d) PROVE ConversationInv'
  <1>1. UNCHANGED <<conversation, messages, events, turn, answered>>
    BY DEF Publish
  <1>2. latest' \in [Sets -> DatasetVersions]
    BY DEF Publish, ConversationConstants, ConversationInv, ConversationRows, DatasetVersions
  <1>3. ConversationRows'
    BY <1>1, <1>2 DEF ConversationInv, ConversationRows
  <1>4. TranscriptIsWhole' /\ ContextIsRecorded'
    BY <1>1, RecordStays DEF ConversationInv
  <1>5. \A c \in Calls : TurnKnows(c)'
    BY <1>1 DEF ConversationInv, TurnKnows, AppendsInTurn, Stored, Reserves, Current
  <1> QED
    BY <1>3, <1>4, <1>5 DEF ConversationInv

\* Every step keeps the invariant.
LEMMA ConversationKeeps == ASSUME ConversationConstants, ConversationInv, [Next]_vars PROVE ConversationInv'
  <1>1. ASSUME NEW c \in Turns, (\E k \in Keys : runTurn(c, k)) \/ AppendRead(c) \/ Provider(c) \/ Answer(c) \/ Tell(c)
        PROVE  ConversationInv'
    <2>1. c \in Calls
      BY DEF Calls
    <2> QED
      BY <1>1, <2>1, ConversationAsks, ConversationFinds, ConversationProvides, ConversationReplies, ConversationTells
  <1>2. ASSUME NEW c \in Turns, AppendWrite(c) PROVE ConversationInv'
    <2>1. c \in Calls
      BY DEF Calls
    <2>2. CASE Reserves(c)
      BY <1>2, <2>1, <2>2, ConversationAppends
    <2>3. CASE ~Reserves(c)
      BY <1>2, <2>1, <2>3, ConversationRetries DEF AppendWrite
    <2> QED
      BY <2>2, <2>3
  <1>3. ASSUME NEW c \in Advances,
               (\E k \in Keys : resolveTurnContext(c, k)) \/ Resolve(c) \/ EventRead(c) \/ Compare(c) \/ Advance(c)
        PROVE  ConversationInv'
    <2>1. c \in Calls
      BY DEF Calls
    <2> QED
      BY <1>3, <2>1, ContextBegins, ContextResolves, ContextFinds, ContextCompares, ContextWrites
  <1>4. ASSUME NEW d \in Sets, Publish(d) PROVE ConversationInv'
    BY <1>4, ConversationPublishes
  <1>5. CASE UNCHANGED vars
    <2>1. UNCHANGED <<conversation, messages, events, latest, turn, answered>>
      BY <1>5 DEF vars
    <2>2. ConversationRows' /\ TranscriptIsWhole' /\ ContextIsRecorded'
      BY <2>1, RecordStays DEF ConversationInv, ConversationRows
    <2>3. \A c \in Calls : TurnKnows(c)'
      BY <2>1 DEF ConversationInv, TurnKnows, AppendsInTurn, Stored, Reserves, Current
    <2> QED
      BY <2>2, <2>3 DEF ConversationInv
  <1> QED
    BY <1>1, <1>2, <1>3, <1>4, <1>5 DEF Next

\* However turns, their repetitions and changes of the context overlap, the transcript is whole and
\* the changes that are recorded are those that happened.
THEOREM ConversationsAreWhole == ConversationConstants => (Spec => [](TranscriptIsWhole /\ ContextIsRecorded))
  <1> SUFFICES ASSUME ConversationConstants PROVE Spec => [](TranscriptIsWhole /\ ContextIsRecorded)
    OBVIOUS
  <1>1. Init => ConversationInv
    BY ConversationBegins
  <1>2. ConversationInv /\ [Next]_vars => ConversationInv'
    BY ConversationKeeps
  <1>3. ConversationInv => TranscriptIsWhole /\ ContextIsRecorded
    BY DEF ConversationInv
  <1> QED
    BY <1>1, <1>2, <1>3, PTL DEF Spec

-----------------------------------------------------------------------------
(* Types: how many numbers the calls may take, and what the clients get.    *)

\* There are finitely many calls.
CallsAreFinite == IsFiniteSet(Turns) /\ IsFiniteSet(Advances)

\* The messages that a call has stored at most: its question, what its tool did or that it failed,
\* and its answer.
StoredBy(r) ==
    CASE r.at = "idle" -> 0
      [] r.at \in {"append", "write"} ->
            IF r.message.key[2] = "user" THEN 0 ELSE IF r.message.key[2] = "tool" THEN 1 ELSE 2
      [] r.at = "provider" -> 1
      [] r.at = "answer" -> 2
      [] OTHER -> 3

\* A message that a turn has stored has a place here, and a change of the context has its call.
TurnPlaces == {x \in Turns \X (1 .. 3) : x[2] <= StoredBy(turn[x[1]])}
Advanced == {c \in Advances : turn[c].at = "done"}

\* A call that is to tell something or to change the context has the key of a client, and an answer
\* when it tells one.
TurnShown(r) ==
    /\ r.at \in {"resolve", "event", "compare", "advance", "tell"} => r.key \in Keys
    /\ r.at \in {"answer", "tell"} => r.answer \in Answers
    /\ r.at \in {"append", "write"} /\ r.message.key[2] \in {"tool", "assistant"} => r.answer \in Answers

ConversationShown ==
    /\ \A e \in events : e.key \in Keys
    /\ answered \subseteq Keys \X Answers
    /\ \A c \in Calls : TurnShown(turn[c])
    /\ Cardinality(messages) <= Cardinality(TurnPlaces)
    /\ Cardinality(events) <= Cardinality(Advanced)

\* There are three places for a turn.
LEMMA PlacesAreBounded ==
    ASSUME CallsAreFinite, NEW P, P \subseteq Turns \X (1 .. 3), NEW A, A \subseteq Advances
    PROVE  /\ IsFiniteSet(P) /\ Cardinality(P) \in Nat
           /\ Cardinality(Turns) \in Nat /\ Cardinality(P) <= 3 * Cardinality(Turns)
           /\ IsFiniteSet(A) /\ Cardinality(A) \in Nat
           /\ Cardinality(Advances) \in Nat /\ Cardinality(A) <= Cardinality(Advances)
  <1>1. IsFiniteSet(1 .. 3) /\ Cardinality(1 .. 3) = 3
    <2>1. 1 \in Int /\ 3 \in Int
      OBVIOUS
    <2>2. IsFiniteSet(1 .. 3) /\ Cardinality(1 .. 3) = IF 1 > 3 THEN 0 ELSE 3 - 1 + 1
      BY <2>1, FS_Interval, Zenon
    <2> QED
      BY <2>2
  <1>2. IsFiniteSet(Turns) /\ IsFiniteSet(Advances)
    BY DEF CallsAreFinite
  <1>3. IsFiniteSet(Turns \X (1 .. 3)) /\ Cardinality(Turns \X (1 .. 3)) = Cardinality(Turns) * 3
    BY <1>1, <1>2, FS_Product
  <1>4. IsFiniteSet(P) /\ Cardinality(P) <= Cardinality(Turns \X (1 .. 3))
    BY <1>3, FS_Subset
  <1>5. IsFiniteSet(A) /\ Cardinality(A) <= Cardinality(Advances)
    BY <1>2, FS_Subset
  <1>6. /\ Cardinality(P) \in Nat /\ Cardinality(Turns) \in Nat
        /\ Cardinality(A) \in Nat /\ Cardinality(Advances) \in Nat
    BY <1>2, <1>4, <1>5, FS_CardinalityType
  <1> QED
    BY <1>3, <1>4, <1>5, <1>6

\* A set with one element more has one more at most.
LEMMA OneMore ==
    ASSUME NEW S, IsFiniteSet(S), NEW x
    PROVE  /\ Cardinality(S) \in Nat /\ Cardinality(S \cup {x}) \in Nat
           /\ Cardinality(S \cup {x}) <= Cardinality(S) + 1
           /\ x \notin S => Cardinality(S \cup {x}) = Cardinality(S) + 1
  <1>1. /\ IsFiniteSet(S \cup {x})
        /\ Cardinality(S \cup {x}) = IF x \in S THEN Cardinality(S) ELSE Cardinality(S) + 1
    BY FS_AddElement, Zenon
  <1>2. Cardinality(S) \in Nat
    BY FS_CardinalityType
  <1> QED
    BY <1>1, <1>2

\* The number of the places is kept or grows.
LEMMA PlacesGrow ==
    ASSUME CallsAreFinite, NEW c \in Calls, \A d \in Calls : d # c => turn'[d] = turn[d],
           StoredBy(turn[c]) \in 0 .. 3, StoredBy(turn'[c]) \in 0 .. 3,
           StoredBy(turn[c]) <= StoredBy(turn'[c])
    PROVE  /\ Cardinality(TurnPlaces) <= Cardinality(TurnPlaces')
           /\ c \in Turns /\ StoredBy(turn[c]) < StoredBy(turn'[c]) =>
                 Cardinality(TurnPlaces) + 1 <= Cardinality(TurnPlaces')
  <1>1. TurnPlaces \subseteq TurnPlaces'
    BY DEF TurnPlaces, Calls
  <1>2. IsFiniteSet(TurnPlaces) /\ IsFiniteSet(TurnPlaces')
    <2>1. TurnPlaces \subseteq Turns \X (1 .. 3) /\ TurnPlaces' \subseteq Turns \X (1 .. 3)
      BY DEF TurnPlaces
    <2> QED
      BY <2>1, PlacesAreBounded
  <1>3. Cardinality(TurnPlaces) <= Cardinality(TurnPlaces')
    BY <1>1, <1>2, FS_Subset
  <1>4. ASSUME c \in Turns, StoredBy(turn[c]) < StoredBy(turn'[c])
        PROVE  Cardinality(TurnPlaces) + 1 <= Cardinality(TurnPlaces')
    <2> DEFINE n == StoredBy(turn[c]) + 1
    <2>1. n \in 1 .. 3 /\ n <= StoredBy(turn'[c]) /\ ~(n <= StoredBy(turn[c]))
      BY <1>4
    <2> HIDE DEF n
    <2>2. <<c, n>> \in TurnPlaces' /\ <<c, n>> \notin TurnPlaces
      BY <1>4, <2>1 DEF TurnPlaces
    <2>3. TurnPlaces \cup {<<c, n>>} \subseteq TurnPlaces'
      BY <1>1, <2>2
    <2>4. Cardinality(TurnPlaces \cup {<<c, n>>}) <= Cardinality(TurnPlaces')
      BY <1>2, <2>3, FS_Subset
    <2> QED
      BY <1>2, <2>2, <2>4, OneMore
  <1> QED
    BY <1>3, <1>4

\* A call that has ended stays so.
LEMMA AdvancedStay ==
    ASSUME CallsAreFinite, NEW c \in Calls, \A d \in Calls : d # c => turn'[d] = turn[d],
           turn[c].at = "done" => turn'[c].at = "done"
    PROVE  /\ Cardinality(Advanced) <= Cardinality(Advanced')
           /\ c \in Advances /\ turn[c].at # "done" /\ turn'[c].at = "done" =>
                 Cardinality(Advanced) + 1 <= Cardinality(Advanced')
  <1>1. Advanced \subseteq Advanced'
    BY DEF Advanced, Calls
  <1>2. IsFiniteSet(Advanced) /\ IsFiniteSet(Advanced')
    <2>1. Advanced \subseteq Advances /\ Advanced' \subseteq Advances
      BY DEF Advanced
    <2> QED
      BY <2>1, FS_Subset DEF CallsAreFinite
  <1>3. Cardinality(Advanced) <= Cardinality(Advanced')
    BY <1>1, <1>2, FS_Subset
  <1>4. ASSUME c \in Advances, turn[c].at # "done", turn'[c].at = "done"
        PROVE  Cardinality(Advanced) + 1 <= Cardinality(Advanced')
    <2>1. Advanced \cup {c} \subseteq Advanced' /\ c \notin Advanced
      BY <1>1, <1>4 DEF Advanced
    <2>2. Cardinality(Advanced \cup {c}) <= Cardinality(Advanced')
      BY <1>2, <2>1, FS_Subset
    <2> QED
      BY <1>2, <2>1, <2>2, OneMore
  <1> QED
    BY <1>3, <1>4

\* A row counts one of four numbers of messages.
LEMMA StoredByCounts == \A r : StoredBy(r) \in 0 .. 3
  BY DEF StoredBy

\* What a step of one call has to keep.
LEMMA ShownGoes ==
    ASSUME ConversationInv, ConversationShown, CallsAreFinite, NEW c \in Calls,
           \A d \in Calls : d # c => turn'[d] = turn[d], TurnShown(turn'[c]),
           StoredBy(turn[c]) <= StoredBy(turn'[c]), turn[c].at = "done" => turn'[c].at = "done",
           answered' \subseteq Keys \X Answers,
           \/ messages' = messages
           \/ /\ \E m : messages' = messages \cup {m}
              /\ c \in Turns /\ StoredBy(turn[c]) < StoredBy(turn'[c]),
           \/ events' = events
           \/ /\ \E e : e.key \in Keys /\ events' = events \cup {e}
              /\ c \in Advances /\ turn[c].at # "done" /\ turn'[c].at = "done"
    PROVE  ConversationShown'
  <1>1. \A e \in events' : e.key \in Keys
    BY DEF ConversationShown
  <1>2. \A d \in Calls : TurnShown(turn'[d])
    BY DEF ConversationShown
  <1>3. /\ IsFiniteSet(messages) /\ IsFiniteSet(events)
        /\ Cardinality(messages) \in Nat /\ Cardinality(events) \in Nat
    BY FS_CardinalityType DEF ConversationInv, ConversationRows
  <1>4. /\ Cardinality(TurnPlaces) \in Nat /\ Cardinality(TurnPlaces') \in Nat
        /\ Cardinality(Advanced) \in Nat /\ Cardinality(Advanced') \in Nat
    <2>1. /\ TurnPlaces \subseteq Turns \X (1 .. 3) /\ TurnPlaces' \subseteq Turns \X (1 .. 3)
          /\ Advanced \subseteq Advances /\ Advanced' \subseteq Advances
      BY DEF TurnPlaces, Advanced
    <2> QED
      BY <2>1, PlacesAreBounded
  <1>5. /\ Cardinality(TurnPlaces) <= Cardinality(TurnPlaces')
        /\ c \in Turns /\ StoredBy(turn[c]) < StoredBy(turn'[c]) =>
              Cardinality(TurnPlaces) + 1 <= Cardinality(TurnPlaces')
    BY StoredByCounts, PlacesGrow
  <1>6. /\ Cardinality(Advanced) <= Cardinality(Advanced')
        /\ c \in Advances /\ turn[c].at # "done" /\ turn'[c].at = "done" =>
              Cardinality(Advanced) + 1 <= Cardinality(Advanced')
    BY AdvancedStay
  <1>7. Cardinality(messages') <= Cardinality(TurnPlaces')
    <2>1. CASE messages' = messages
      BY <1>3, <1>4, <1>5, <2>1 DEF ConversationShown
    <2>2. ASSUME NEW m, messages' = messages \cup {m}, c \in Turns, StoredBy(turn[c]) < StoredBy(turn'[c])
          PROVE  Cardinality(messages') <= Cardinality(TurnPlaces')
      <3>1. Cardinality(messages') \in Nat /\ Cardinality(messages') <= Cardinality(messages) + 1
        BY <1>3, <2>2, OneMore
      <3> QED
        BY <1>3, <1>4, <1>5, <2>2, <3>1 DEF ConversationShown
    <2> QED
      BY <2>1, <2>2
  <1>8. Cardinality(events') <= Cardinality(Advanced')
    <2>1. CASE events' = events
      BY <1>3, <1>4, <1>6, <2>1 DEF ConversationShown
    <2>2. ASSUME NEW e, events' = events \cup {e}, c \in Advances, turn[c].at # "done", turn'[c].at = "done"
          PROVE  Cardinality(events') <= Cardinality(Advanced')
      <3>1. Cardinality(events') \in Nat /\ Cardinality(events') <= Cardinality(events) + 1
        BY <1>3, <2>2, OneMore
      <3> QED
        BY <1>3, <1>4, <1>6, <2>2, <3>1 DEF ConversationShown
    <2> QED
      BY <2>1, <2>2
  <1> QED
    BY <1>1, <1>2, <1>7, <1>8 DEF ConversationShown

\* A step that writes one row of the calls and no other.
LEMMA ShownGoesOn ==
    ASSUME ConversationInv, ConversationShown, CallsAreFinite, NEW c \in Calls, NEW q,
           turn' = [turn EXCEPT ![c] = q], TurnShown(q), StoredBy(turn[c]) <= StoredBy(q),
           turn[c].at # "done", UNCHANGED <<messages, events>>, answered' \subseteq Keys \X Answers
    PROVE  ConversationShown'
  <1>1. turn'[c] = q /\ \A d \in Calls : d # c => turn'[d] = turn[d]
    BY DEF ConversationInv, ConversationRows
  <1> QED
    BY <1>1, ShownGoes

\* A call that ends has stored what it can.
LEMMA ShownEnds ==
    ASSUME ConversationInv, ConversationShown, CallsAreFinite, NEW c \in Calls, Goto(c, "done"),
           turn[c].at # "done", UNCHANGED <<messages, events>>, answered' \subseteq Keys \X Answers
    PROVE  ConversationShown'
  <1> DEFINE q == [Idle EXCEPT !.at = "done"]
  <1>1. turn' = [turn EXCEPT ![c] = q] /\ q.at = "done"
    BY DEF Goto, Idle
  <1> HIDE DEF q
  <1>2. TurnShown(q) /\ StoredBy(q) = 3
    BY <1>1 DEF TurnShown, StoredBy
  <1>3. StoredBy(turn[c]) <= StoredBy(q)
    BY <1>2, StoredByCounts
  <1> QED
    BY <1>1, <1>2, <1>3, ShownGoesOn

\* A row that keeps its message, key, change and answer, and changes its step.
LEMMA ShownMoves ==
    ASSUME ConversationInv, ConversationShown, CallsAreFinite, NEW c \in Calls, NEW q,
           turn' = [turn EXCEPT ![c] = q], q.message = turn[c].message, q.key = turn[c].key,
           q.answer = turn[c].answer,
           \/ turn[c].at \in {"append", "write"} /\ q.at \in {"append", "write"}
           \/ /\ turn[c].at \in {"event", "compare", "advance"}
              /\ q.at \in {"event", "compare", "advance"},
           UNCHANGED <<messages, events, answered>>
    PROVE  ConversationShown'
  <1>1. TurnShown(turn[c]) /\ answered \subseteq Keys \X Answers
    BY DEF ConversationShown
  <1>2. TurnShown(q)
    BY <1>1 DEF TurnShown
  <1>3. StoredBy(turn[c]) = StoredBy(q)
    BY DEF StoredBy
  <1>4. StoredBy(turn[c]) <= StoredBy(q) /\ turn[c].at # "done"
    BY <1>3, StoredByCounts
  <1> QED
    BY <1>1, <1>2, <1>4, ShownGoesOn

\* A transaction that lost a race has stored nothing.
LEMMA ShownRetries ==
    ASSUME ConversationInv, ConversationShown, CallsAreFinite, NEW c \in Calls,
           UNCHANGED <<messages, events, answered>>,
           \/ turn[c].at = "write" /\ Retry(c, "append")
           \/ turn[c].at = "advance" /\ Retry(c, "event")
    PROVE  ConversationShown'
  <1> DEFINE step == IF turn[c].at = "write" THEN "append" ELSE "event"
             q == [turn[c] EXCEPT !.at = step, !.tries = @ + 1, !.next = 0]
  <1>1. turn[c] \in TurnRows /\ turn \in [Calls -> TurnRows]
    BY DEF ConversationInv, ConversationRows
  <1>2. CASE turn[c].tries + 1 < Tries
    <2>1. turn' = [turn EXCEPT ![c] = q]
      BY <1>1, <1>2 DEF Retry
    <2>2. q.at = step /\ q.message = turn[c].message /\ q.key = turn[c].key /\ q.answer = turn[c].answer
      BY <1>1 DEF TurnRows
    <2> HIDE DEF q
    <2> QED
      BY <2>1, <2>2, ShownMoves
  <1>3. CASE ~(turn[c].tries + 1 < Tries)
    BY <1>3, ShownEnds DEF Retry, ConversationShown
  <1> QED
    BY <1>2, <1>3

\* What follows a message depends on its kind.
LEMMA KindsFollow ==
    ASSUME NEW c \in Calls, turn[c].message \in MessageRows, AppendsInTurn(c), NEW stored \in BOOLEAN
    PROVE  \/ turn[c].message.key[2] = "user" /\ After(c, stored) \in {"provider", "done"}
           \/ turn[c].message.key[2] = "tool" /\ After(c, stored) = "answer"
           \/ turn[c].message.key[2] = "failed" /\ After(c, stored) = "done"
           \/ turn[c].message.key[2] = "assistant" /\ After(c, stored) = "tell"
  <1>1. CASE turn[c].message.role = "USER"
    BY <1>1 DEF After, AppendsInTurn
  <1>2. CASE turn[c].message.role = "SYSTEM"
    <2>1. turn[c].message.key[2] \in {"tool", "failed"}
      BY <1>2 DEF AppendsInTurn
    <2> QED
      BY <1>2, <2>1 DEF After
  <1>3. CASE turn[c].message.role = "AGENT"
    <2>1. turn[c].message.key[2] = "assistant"
      BY <1>3 DEF AppendsInTurn
    <2> QED
      BY <1>3, <2>1 DEF After
  <1> QED
    BY <1>1, <1>2, <1>3 DEF MessageRows

\* A call goes on, or ends, after a message: it counts one more than before.
LEMMA ShownAfter ==
    ASSUME ConversationInv, ConversationShown, NEW c \in Calls, turn[c].at \in {"append", "write"},
           NEW stored \in BOOLEAN, Goto(c, After(c, stored))
    PROVE  /\ \A d \in Calls : d # c => turn'[d] = turn[d]
           /\ TurnShown(turn'[c]) /\ StoredBy(turn[c]) < StoredBy(turn'[c])
           /\ StoredBy(turn[c]) <= StoredBy(turn'[c]) /\ turn[c].at # "done"
  <1> DEFINE step == After(c, stored)
             kind == turn[c].message.key[2]
  <1>1. TurnKnows(c) /\ TurnShown(turn[c])
    BY DEF ConversationInv, ConversationShown
  <1>2. turn[c].message \in MessageRows /\ AppendsInTurn(c) /\ turn[c].key \in Keys
    BY <1>1 DEF TurnKnows
  <1>3. \/ kind = "user" /\ step \in {"provider", "done"}
        \/ kind = "tool" /\ step = "answer"
        \/ kind = "failed" /\ step = "done"
        \/ kind = "assistant" /\ step = "tell"
    BY <1>2, KindsFollow
  <1> HIDE DEF step
  <1>4. step \in TurnSteps
    BY <1>3 DEF TurnSteps
  <1>5. /\ \A d \in Calls : d # c => turn'[d] = turn[d]
        /\ turn'[c].at = step
        /\ step # "done" => turn'[c].key = turn[c].key /\ turn'[c].answer = turn[c].answer
    BY <1>4, ConversationStep DEF step
  <1>6. TurnShown(turn'[c])
    BY <1>1, <1>2, <1>3, <1>5 DEF TurnShown
  <1>7. \/ StoredBy(turn[c]) = 0 /\ StoredBy(turn'[c]) \in {1, 3}
        \/ StoredBy(turn[c]) = 1 /\ StoredBy(turn'[c]) = 2
        \/ StoredBy(turn[c]) = 2 /\ StoredBy(turn'[c]) = 3
    BY <1>3, <1>5 DEF StoredBy
  <1> QED
    BY <1>5, <1>6, <1>7

\* A turn begins.
LEMMA ShownAsks ==
    ASSUME ConversationInv, ConversationShown, CallsAreFinite, NEW c \in Calls, NEW k \in Keys, runTurn(c, k)
    PROVE  ConversationShown'
  <1> DEFINE question == [id |-> k, key |-> <<k, "user">>, role |-> "USER", text |-> None,
                          version |-> conversation.versions[Datasets[1]]]
             q == [Idle EXCEPT !.at = "append", !.key = k, !.message = question]
  <1>1. turn' = [turn EXCEPT ![c] = q]
    BY DEF runTurn
  <1>2. q.at = "append" /\ q.message.key[2] = "user"
    BY DEF Idle
  <1> HIDE DEF q
  <1>3. TurnShown(q) /\ StoredBy(q) = 0 /\ StoredBy(turn[c]) = 0
    BY <1>2 DEF TurnShown, StoredBy, runTurn
  <1>4. StoredBy(turn[c]) <= StoredBy(q) /\ turn[c].at # "done" /\ UNCHANGED <<messages, events, answered>>
    BY <1>3 DEF runTurn
  <1> QED
    BY <1>1, <1>3, <1>4, ShownGoesOn DEF ConversationShown

\* A turn finds its message, or is about to write it.
LEMMA ShownFinds ==
    ASSUME ConversationInv, ConversationShown, CallsAreFinite, NEW c \in Calls, AppendRead(c)
    PROVE  ConversationShown'
  <1> DEFINE found == {m \in messages : m.message.key = turn[c].message.key}
  <1>1. turn[c] \in TurnRows
    BY DEF ConversationInv, ConversationRows
  <1>2. CASE found = {}
    <2> DEFINE q == [turn[c] EXCEPT !.at = "write", !.next = conversation.next]
    <2>1. turn' = [turn EXCEPT ![c] = q]
      BY <1>2 DEF AppendRead, ConversationInv, ConversationRows
    <2>2. q.at = "write" /\ q.message = turn[c].message /\ q.key = turn[c].key /\ q.answer = turn[c].answer
      BY <1>1 DEF TurnRows
    <2> HIDE DEF q
    <2> QED
      BY <2>1, <2>2, ShownMoves DEF AppendRead
  <1>3. CASE found # {}
    <2> DEFINE stored == \E m \in found : m.message = turn[c].message
    <2>1. Goto(c, After(c, stored)) /\ stored \in BOOLEAN
      BY <1>3 DEF AppendRead
    <2> HIDE DEF stored
    <2>2. /\ \A d \in Calls : d # c => turn'[d] = turn[d]
          /\ TurnShown(turn'[c]) /\ StoredBy(turn[c]) <= StoredBy(turn'[c]) /\ turn[c].at # "done"
      BY <2>1, ShownAfter DEF AppendRead
    <2> QED
      BY <2>2, ShownGoes DEF AppendRead, ConversationShown
  <1> QED
    BY <1>2, <1>3

\* A turn stores its message, or has lost a race.
LEMMA ShownWrites ==
    ASSUME ConversationInv, ConversationShown, CallsAreFinite, NEW c \in Turns, AppendWrite(c)
    PROVE  ConversationShown'
  <1>1. c \in Calls
    BY DEF Calls
  <1>2. CASE Reserves(c)
    <2>1. Goto(c, After(c, TRUE)) /\ \E m : messages' = messages \cup {m}
      BY <1>2 DEF AppendWrite
    <2>2. /\ \A d \in Calls : d # c => turn'[d] = turn[d]
          /\ TurnShown(turn'[c]) /\ StoredBy(turn[c]) < StoredBy(turn'[c])
          /\ StoredBy(turn[c]) <= StoredBy(turn'[c]) /\ turn[c].at # "done"
      BY <1>1, <2>1, ShownAfter DEF AppendWrite
    <2> QED
      BY <1>1, <2>1, <2>2, ShownGoes DEF AppendWrite, ConversationShown
  <1>3. CASE ~Reserves(c)
    BY <1>1, <1>3, ShownRetries DEF AppendWrite
  <1> QED
    BY <1>2, <1>3

\* What the server is about to append.
LEMMA ShownSpeaks ==
    ASSUME ConversationInv, ConversationShown, CallsAreFinite, NEW c \in Calls, NEW m, NEW answer,
           turn' = Append(c, "append", m, answer), turn[c].at \in {"provider", "answer"},
           m.key[2] \in {"tool", "assistant", "failed"}, turn[c].at = "answer" => m.key[2] # "tool",
           m.key[2] # "failed" => answer \in Answers, UNCHANGED <<messages, events, answered>>
    PROVE  ConversationShown'
  <1> DEFINE q == [turn[c] EXCEPT !.at = "append", !.message = m, !.answer = answer, !.tries = 0]
  <1>1. turn[c] \in TurnRows /\ turn \in [Calls -> TurnRows]
    BY DEF ConversationInv, ConversationRows
  <1>2. turn' = [turn EXCEPT ![c] = q]
    BY <1>1 DEF Append
  <1>3. q.at = "append" /\ q.message = m /\ q.answer = answer
    BY <1>1 DEF TurnRows
  <1> HIDE DEF q
  <1>4. TurnShown(q)
    BY <1>3 DEF TurnShown
  <1>5. \/ StoredBy(turn[c]) = 1 /\ StoredBy(q) \in {1, 2}
        \/ StoredBy(turn[c]) = 2 /\ StoredBy(q) = 2
    BY <1>3 DEF StoredBy
  <1> QED
    BY <1>2, <1>4, <1>5, ShownGoesOn DEF ConversationShown

\* The provider answers, with a tool or without, or fails; and the answer follows what the tool did.
LEMMA ShownProvides ==
    ASSUME ConversationInv, ConversationShown, CallsAreFinite, NEW c \in Calls, Provider(c) \/ Answer(c)
    PROVE  ConversationShown'
  <1> DEFINE k == turn[c].key
  <1>1. ASSUME NEW m, NEW answer, turn' = Append(c, "append", m, answer), turn[c].at = "provider",
               \/ m.key = <<k, "tool">> /\ answer \in Answers
               \/ m.key = <<k, "assistant">> /\ answer \in Answers
               \/ m.key = <<c, "failed">>,
               UNCHANGED <<messages, events, answered>>
        PROVE  ConversationShown'
    BY <1>1, ShownSpeaks
  <1>2. CASE Provider(c)
    <2>1. PICK a \in Answers :
            turn' \in {Append(c, "append", FromServer(c, "SYSTEM", <<k, "tool">>, None), a),
                      Append(c, "append", FromServer(c, "AGENT", <<k, "assistant">>, a), a),
                      Append(c, "append", FromServer(c, "SYSTEM", <<c, "failed">>, None), None)}
      BY <1>2 DEF Provider
    <2>2. \A role, key, text : FromServer(c, role, key, text).key = key
      BY DEF FromServer
    <2>3. turn[c].at = "provider" /\ UNCHANGED <<messages, events, answered>>
      BY <1>2 DEF Provider
    <2>4. CASE turn' = Append(c, "append", FromServer(c, "SYSTEM", <<k, "tool">>, None), a)
      BY <1>1, <2>2, <2>3, <2>4
    <2>5. CASE turn' = Append(c, "append", FromServer(c, "AGENT", <<k, "assistant">>, a), a)
      BY <1>1, <2>2, <2>3, <2>5
    <2>6. CASE turn' = Append(c, "append", FromServer(c, "SYSTEM", <<c, "failed">>, None), None)
      BY <1>1, <2>2, <2>3, <2>6
    <2> QED
      BY <2>1, <2>4, <2>5, <2>6
  <1>3. CASE Answer(c)
    <2> DEFINE m == FromServer(c, "AGENT", <<k, "assistant">>, turn[c].answer)
    <2>1. m.key[2] = "assistant"
      BY DEF FromServer
    <2>2. turn' = Append(c, "append", m, turn[c].answer) /\ turn[c].at = "answer"
          /\ UNCHANGED <<messages, events, answered>>
      BY <1>3 DEF Answer
    <2>3. turn[c].answer \in Answers
      BY <2>2 DEF ConversationShown, TurnShown
    <2> HIDE DEF m
    <2> QED
      BY <2>1, <2>2, <2>3, ShownSpeaks
  <1> QED
    BY <1>2, <1>3

\* The client is told, and the call ends.
LEMMA ShownTells ==
    ASSUME ConversationInv, ConversationShown, CallsAreFinite, NEW c \in Calls, Tell(c)
    PROVE  ConversationShown'
  <1>1. answered' \subseteq Keys \X Answers
    BY DEF Tell, ConversationShown, TurnShown
  <1> QED
    BY <1>1, ShownEnds DEF Tell

\* A change of the context begins, is compared and is written.
LEMMA ShownAdvances ==
    ASSUME ConversationInv, ConversationShown, CallsAreFinite, NEW c \in Advances,
           \/ \E k \in Keys : resolveTurnContext(c, k)
           \/ Resolve(c) \/ EventRead(c) \/ Compare(c) \/ Advance(c)
    PROVE  ConversationShown'
  <1>1. /\ c \in Calls /\ turn[c] \in TurnRows /\ turn \in [Calls -> TurnRows] /\ TurnShown(turn[c])
        /\ answered \subseteq Keys \X Answers
    BY DEF Calls, ConversationInv, ConversationRows, ConversationShown
  <1>2. ASSUME NEW q, turn' = [turn EXCEPT ![c] = q], q.at \in {"resolve", "event", "compare", "advance"},
               q.key \in Keys, turn[c].at # "done", UNCHANGED <<messages, events, answered>>
        PROVE  ConversationShown'
    <2>1. TurnShown(q) /\ StoredBy(q) = 3
      BY <1>2 DEF TurnShown, StoredBy
    <2>2. StoredBy(turn[c]) <= StoredBy(q)
      BY <2>1, StoredByCounts
    <2> QED
      BY <1>1, <1>2, <2>1, <2>2, ShownGoesOn
  <1>3. ASSUME NEW k \in Keys, resolveTurnContext(c, k) PROVE ConversationShown'
    <2> DEFINE q == [Idle EXCEPT !.at = "resolve", !.key = k, !.change = conversation.versions]
    <2>1. turn' = [turn EXCEPT ![c] = q] /\ turn[c].at # "done" /\ UNCHANGED <<messages, events, answered>>
      BY <1>3 DEF resolveTurnContext
    <2>2. q.at = "resolve" /\ q.key = k
      BY DEF Idle
    <2> HIDE DEF q
    <2> QED
      BY <1>2, <2>1, <2>2
  <1>4. CASE Resolve(c)
    <2>1. CASE Goto(c, "done")
      BY <1>1, <1>4, <2>1, ShownEnds DEF Resolve
    <2>2. ASSUME NEW change, turn' = [turn EXCEPT ![c].at = "event", ![c].change = change]
          PROVE  ConversationShown'
      <3> DEFINE q == [turn[c] EXCEPT !.at = "event", !.change = change]
      <3>1. turn' = [turn EXCEPT ![c] = q]
        BY <1>1, <2>2
      <3>2. q.at = "event" /\ q.key = turn[c].key
        BY <1>1 DEF TurnRows
      <3>3. turn[c].at = "resolve" /\ turn[c].key \in Keys /\ UNCHANGED <<messages, events, answered>>
        BY <1>1, <1>4 DEF Resolve, TurnShown
      <3> HIDE DEF q
      <3> QED
        BY <1>2, <3>1, <3>2, <3>3
    <2> QED
      BY <1>4, <2>1, <2>2 DEF Resolve
  <1>5. CASE EventRead(c)
    <2>1. CASE Goto(c, "done")
      BY <1>1, <1>5, <2>1, ShownEnds DEF EventRead
    <2>2. CASE Goto(c, "compare")
      <3> DEFINE q == [turn[c] EXCEPT !.at = "compare", !.next = 0]
      <3>1. turn' = [turn EXCEPT ![c] = q]
        BY <2>2 DEF Goto
      <3>2. q.at = "compare" /\ q.key = turn[c].key
        BY <1>1 DEF TurnRows
      <3>3. turn[c].at = "event" /\ turn[c].key \in Keys /\ UNCHANGED <<messages, events, answered>>
        BY <1>1, <1>5 DEF EventRead, TurnShown
      <3> HIDE DEF q
      <3> QED
        BY <1>2, <3>1, <3>2, <3>3
    <2> QED
      BY <1>5, <2>1, <2>2 DEF EventRead
  <1>6. CASE Compare(c)
    <2>1. CASE Goto(c, "done")
      BY <1>1, <1>6, <2>1, ShownEnds DEF Compare
    <2>2. CASE Advanceable(c)
      <3> DEFINE q == [turn[c] EXCEPT !.at = "advance", !.next = conversation.next,
                                      !.revision = conversation.revision, !.answer = conversation.versions]
      <3>1. turn' = [turn EXCEPT ![c] = q]
        BY <1>1, <1>6, <2>2 DEF Compare
      <3>2. q.at = "advance" /\ q.key = turn[c].key
        BY <1>1 DEF TurnRows
      <3>3. turn[c].at = "compare" /\ turn[c].key \in Keys /\ UNCHANGED <<messages, events, answered>>
        BY <1>1, <1>6 DEF Compare, TurnShown
      <3> HIDE DEF q
      <3> QED
        BY <1>2, <3>1, <3>2, <3>3
    <2> QED
      BY <1>6, <2>1, <2>2 DEF Compare
  <1>7. CASE Advance(c)
    <2>1. turn[c].at = "advance" /\ turn[c].key \in Keys /\ UNCHANGED <<messages, answered>>
      BY <1>1, <1>7 DEF Advance, TurnShown
    <2>2. CASE Current(c) /\ Reserves(c) /\ KeyFree(c)
      <3> DEFINE new == [sequence |-> turn[c].next, key |-> turn[c].key, change |-> turn[c].change]
      <3>1. events' = events \union {new} /\ Goto(c, "done") /\ new.key = turn[c].key
        BY <1>7, <2>2 DEF Advance
      <3> HIDE DEF new
      <3>2. /\ \A d \in Calls : d # c => turn'[d] = turn[d]
            /\ turn'[c].at = "done"
        BY <1>1, <3>1, ConversationStep DEF TurnSteps
      <3>3. TurnShown(turn'[c]) /\ StoredBy(turn'[c]) = 3
        BY <3>2 DEF TurnShown, StoredBy
      <3>4. StoredBy(turn[c]) <= StoredBy(turn'[c])
        BY <3>3, StoredByCounts
      <3>5. \E e : e.key \in Keys /\ events' = events \cup {e}
        BY <2>1, <3>1
      <3> QED
        BY <1>1, <2>1, <3>2, <3>3, <3>4, <3>5, ShownGoes
    <2>3. CASE ~(Current(c) /\ Reserves(c) /\ KeyFree(c))
      <3>1. (Retry(c, "event") \/ Goto(c, "done")) /\ UNCHANGED events
        BY <1>7, <2>3 DEF Advance
      <3> QED
        BY <1>1, <2>1, <3>1, ShownRetries, ShownEnds
    <2> QED
      BY <2>2, <2>3
  <1> QED
    BY <1>3, <1>4, <1>5, <1>6, <1>7

\* There is no message at first.
LEMMA ShownBegins == ASSUME CallsAreFinite, Init PROVE ConversationShown
  <1>1. messages = {} /\ events = {} /\ answered = {} /\ Cardinality({}) = 0
    BY FS_EmptySet DEF Init
  <1>2. TurnPlaces \subseteq Turns \X (1 .. 3) /\ Advanced \subseteq Advances
    BY DEF TurnPlaces, Advanced
  <1>3. Cardinality(TurnPlaces) \in Nat /\ Cardinality(Advanced) \in Nat
    BY <1>2, PlacesAreBounded
  <1>4. Idle.at = "idle"
    BY DEF Idle
  <1>5. \A c \in Calls : TurnShown(turn[c])
    BY <1>4 DEF Init, TurnShown
  <1> QED
    BY <1>1, <1>3, <1>5 DEF ConversationShown

\* Every step keeps what is counted.
LEMMA ShownStays ==
    ASSUME CallsAreFinite, ConversationInv, ConversationShown, [Next]_vars PROVE ConversationShown'
  <1>1. ASSUME NEW c \in Turns,
               (\E k \in Keys : runTurn(c, k)) \/ AppendRead(c) \/ AppendWrite(c) \/ Provider(c) \/ Answer(c)
               \/ Tell(c)
        PROVE  ConversationShown'
    <2>1. c \in Calls
      BY DEF Calls
    <2> QED
      BY <1>1, <2>1, ShownAsks, ShownFinds, ShownWrites, ShownProvides, ShownTells
  <1>2. ASSUME UNCHANGED <<messages, events, turn, answered>> PROVE ConversationShown'
    BY <1>2 DEF ConversationShown, TurnPlaces, Advanced
  <1>3. ASSUME NEW d \in Sets, Publish(d) PROVE ConversationShown'
    BY <1>2, <1>3 DEF Publish
  <1>4. CASE UNCHANGED vars
    BY <1>2, <1>4 DEF vars
  <1> QED
    BY <1>1, <1>3, <1>4, ShownAdvances DEF Next

\* What is counted bounds the numbers that are given.
LEMMA ConversationTyped == ASSUME CallsAreFinite, ConversationInv, ConversationShown PROVE TypeOK
  <1>1. /\ Cardinality(TurnPlaces) \in Nat /\ Cardinality(Advanced) \in Nat
        /\ Cardinality(Turns) \in Nat /\ Cardinality(TurnPlaces) <= 3 * Cardinality(Turns)
        /\ Cardinality(Advances) \in Nat /\ Cardinality(Advanced) <= Cardinality(Advances)
    <2>1. TurnPlaces \subseteq Turns \X (1 .. 3) /\ Advanced \subseteq Advances
      BY DEF TurnPlaces, Advanced
    <2> QED
      BY <2>1, PlacesAreBounded
  <1>2. /\ Cardinality(messages) \in Nat /\ Cardinality(events) \in Nat
        /\ conversation.revision \in Nat /\ conversation.next \in Nat
    BY FS_CardinalityType DEF ConversationInv, ConversationRows
  <1>3. /\ Cardinality(messages) <= Cardinality(TurnPlaces) /\ Cardinality(events) <= Cardinality(Advanced)
        /\ conversation.revision = 1 + Cardinality(events)
        /\ Cardinality(messages) + Cardinality(events) = conversation.next - 1
    BY DEF ConversationInv, ConversationShown, TranscriptIsWhole, ContextIsRecorded
  <1>4. conversation.revision \in 1 .. 1 + Cardinality(Advances)
    BY <1>1, <1>2, <1>3
  <1>5. conversation.next \in 1 .. 1 + 3 * Cardinality(Turns) + Cardinality(Advances)
    BY <1>1, <1>2, <1>3
  <1>6. \A m \in messages : m.message.role \in {"USER", "SYSTEM", "AGENT"}
    BY DEF ConversationInv, ConversationRows, MessageRows
  <1>7. \A c \in Calls : turn[c].tries \in 0 .. Tries
    BY DEF ConversationInv, ConversationRows, TurnRows
  <1> QED
    BY <1>4, <1>5, <1>6, <1>7 DEF ConversationInv, ConversationRows, ConversationShown, TypeOK

\* With finitely many calls every variable has its type: the conversation gives no more numbers than
\* three for each call of a turn and one for each change of the context.
THEOREM ConversationTypes == ConversationConstants /\ CallsAreFinite => (Spec => []TypeOK)
  <1> SUFFICES ASSUME ConversationConstants, CallsAreFinite PROVE Spec => []TypeOK
    OBVIOUS
  <1>1. Init => ConversationInv /\ ConversationShown
    BY ConversationBegins, ShownBegins
  <1>2. ConversationInv /\ ConversationShown /\ [Next]_vars => ConversationInv' /\ ConversationShown'
    BY ConversationKeeps, ShownStays
  <1>3. ConversationInv /\ ConversationShown => TypeOK
    BY ConversationTyped
  <1> QED
    BY <1>1, <1>2, <1>3, PTL DEF Spec
=============================================================================
