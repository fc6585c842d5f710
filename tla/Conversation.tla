----------------------------- MODULE Conversation -----------------------------
(***************************************************************************)
(* One conversation with the agent: AgentTurnService.runTurn and           *)
(* ConversationContextService.resolveTurnContext over the Prisma           *)
(* repository, whose transactions are READ COMMITTED: each is a read and a *)
(* later write that compares what was read.                                *)
(*                                                                         *)
(* A turn stores the question, asks the provider, stores what its tool did *)
(* and stores the answer.  A repeated turn does it all again under the     *)
(* same keys, with fresh ids for what the server writes.  Texts are the    *)
(* answers a provider may give.  A key belongs to one client message, and  *)
(* the id with it.  What the tools do is in AgentCommand.                  *)
(***************************************************************************)
EXTENDS Naturals, FiniteSets

CONSTANTS Turns,       \* calls of runTurn
          Advances,    \* calls of resolveTurnContext
          Keys,        \* idempotency keys of the clients
          Answers,     \* what the provider may say
          Datasets,    \* the active datasets, a sequence of two
          None,
          MaxVersion   \* bound of the versions of a dataset

VARIABLES conversation,   \* the row: revision, the next sequence number and the active versions
          messages,       \* ddaConversationMessage
          events,         \* ddaConversationContextEvent
          latest,         \* the newest compatible version of each dataset
          turn,           \* what the calls are doing
          answered        \* answers that clients were given, with their key

vars == <<conversation, messages, events, latest, turn, answered>>

Calls == Turns \union Advances
DatasetVersions == 1 .. MaxVersion
Sets == {Datasets[1], Datasets[2]}
Tries == 3   \* MAX_TRANSACTION_RETRIES

Idle == [at |-> "idle", key |-> None, message |-> None, change |-> None, revision |-> 0, next |-> 0,
         answer |-> None, tries |-> 0]

Init ==
    /\ conversation = [revision |-> 1, next |-> 1, versions |-> [d \in Sets |-> 1]]
    /\ messages = {}
    /\ events = {}
    /\ latest = [d \in Sets |-> 1]
    /\ turn = [c \in Calls |-> Idle]
    /\ answered = {}

\* A call that has ended keeps nothing.
Goto(c, step) ==
    turn' = [turn EXCEPT ![c] = IF step = "done" THEN [Idle EXCEPT !.at = step]
                                ELSE [turn[c] EXCEPT !.at = step, !.next = 0]]

\* The rollback of a transaction that lost a race: it runs again, three times at most.
Retry(c, step) ==
    IF turn[c].tries + 1 < Tries
    THEN turn' = [turn EXCEPT ![c].at = step, ![c].tries = @ + 1, ![c].next = 0]
    ELSE Goto(c, "done")

\* (Mutant of Reserves: the next sequence number is not compared.)
ReservesAlways(c) == TRUE

\* reserveNextSequence compares the number that was read.
Reserves(c) == conversation.next = turn[c].next

Append(c, step, m, answer) ==
    [turn EXCEPT ![c].at = step, ![c].message = m, ![c].answer = answer, ![c].tries = 0]
-----------------------------------------------------------------------------
(* runTurn. *)

\* appendUserMessage binds the question to the version of the first dataset that it reads.
runTurn(c, k) ==
    /\ turn[c].at = "idle"
    /\ LET question == [id |-> k, key |-> <<k, "user">>, role |-> "USER", text |-> None,
                        version |-> conversation.versions[Datasets[1]]]
       IN  turn' = [turn EXCEPT ![c] =
                       [Idle EXCEPT !.at = "append", !.key = k, !.message = question]]
    /\ UNCHANGED <<conversation, messages, events, latest, answered>>

\* What follows a message that is stored, and one that is refused: nobody looks at the refusal of
\* what the server wrote itself.
After(c, stored) ==
    LET m == turn[c].message
    IN  CASE m.role = "USER" -> IF stored THEN "provider" ELSE "done"
          [] m.key[2] = "tool" -> "answer"
          [] m.role = "AGENT" -> "tell"
          [] OTHER -> "done"

\* appendMessage: the message that has the key is replayed or in conflict; otherwise the sequence
\* number is read, to be compared.
AppendRead(c) ==
    /\ turn[c].at = "append"
    /\ LET found == {m \in messages : m.message.key = turn[c].message.key}
       IN  IF found = {}
           THEN turn' = [turn EXCEPT ![c].at = "write", ![c].next = conversation.next]
           ELSE Goto(c, After(c, \E m \in found : m.message = turn[c].message))
    /\ UNCHANGED <<conversation, messages, events, latest, answered>>

AppendWrite(c) ==
    /\ turn[c].at = "write"
    /\ IF Reserves(c)
       THEN /\ messages' = messages \union {[sequence |-> turn[c].next, message |-> turn[c].message]}
            /\ conversation' = [conversation EXCEPT !.next = turn[c].next + 1]
            /\ Goto(c, After(c, TRUE))
       ELSE /\ Retry(c, "append")
            /\ UNCHANGED <<conversation, messages>>
    /\ UNCHANGED <<events, latest, answered>>

\* A message of the server: its id is new every time.
FromServer(c, role, key, text) == [id |-> c, key |-> key, role |-> role, text |-> text, version |-> None]

\* completeTurn: an answer, with or without the use of a tool, or a failure that is noted.
Provider(c) ==
    /\ turn[c].at = "provider"
    /\ \E a \in Answers :
          turn' \in {Append(c, "append", FromServer(c, "SYSTEM", <<turn[c].key, "tool">>, None), a),
                     Append(c, "append", FromServer(c, "AGENT", <<turn[c].key, "assistant">>, a), a),
                     Append(c, "append", FromServer(c, "SYSTEM", <<c, "failed">>, None), None)}
    /\ UNCHANGED <<conversation, messages, events, latest, answered>>

Answer(c) ==
    /\ turn[c].at = "answer"
    /\ turn' = Append(c, "append", FromServer(c, "AGENT", <<turn[c].key, "assistant">>, turn[c].answer),
                      turn[c].answer)
    /\ UNCHANGED <<conversation, messages, events, latest, answered>>

Tell(c) ==
    /\ turn[c].at = "tell"
    /\ answered' = answered \union {<<turn[c].key, turn[c].answer>>}
    /\ Goto(c, "done")
    /\ UNCHANGED <<conversation, messages, events, latest>>
-----------------------------------------------------------------------------
(* resolveTurnContext and advanceContext. *)

\* The newest version is asked for after the conversation was read.
resolveTurnContext(c, k) ==
    /\ turn[c].at = "idle"
    /\ turn' = [turn EXCEPT ![c] = [Idle EXCEPT !.at = "resolve", !.key = k, !.change = conversation.versions]]
    /\ UNCHANGED <<conversation, messages, events, latest, answered>>

\* Only the first dataset that has a newer version is moved.
Resolve(c) ==
    /\ turn[c].at = "resolve"
    /\ LET before == turn[c].change
           stale(d) == before[d] # latest[d]
           change(d) == [dataset |-> d, before |-> before[d], after |-> latest[d]]
       IN  IF \E d \in Sets : stale(d)
           THEN turn' = [turn EXCEPT
                   ![c].at = "event",
                   ![c].change = change(IF stale(Datasets[1]) THEN Datasets[1] ELSE Datasets[2])]
           ELSE Goto(c, "done")
    /\ UNCHANGED <<conversation, messages, events, latest, answered>>

\* An event of the same key is replayed, or the key is in conflict.
EventRead(c) ==
    /\ turn[c].at = "event"
    /\ Goto(c, IF \E e \in events : e.key = turn[c].key THEN "done" ELSE "compare")
    /\ UNCHANGED <<conversation, messages, events, latest, answered>>

Advanceable(c) == conversation.versions[turn[c].change.dataset] = turn[c].change.before

\* The versions that the update writes are those read here.
Compare(c) ==
    /\ turn[c].at = "compare"
    /\ IF Advanceable(c)
       THEN turn' = [turn EXCEPT ![c].at = "advance", ![c].next = conversation.next,
                                 ![c].revision = conversation.revision,
                                 ![c].answer = conversation.versions]
       ELSE Goto(c, "done")
    /\ UNCHANGED <<conversation, messages, events, latest, answered>>

Current(c) == conversation.revision = turn[c].revision

\* The unique key of the events.
KeyFree(c) == \A e \in events : e.key # turn[c].key

\* The update, the event and its sequence number commit together or not at all.
Advance(c) ==
    /\ turn[c].at = "advance"
    /\ LET change == turn[c].change
       IN  IF Current(c) /\ Reserves(c) /\ KeyFree(c)
           THEN /\ conversation' =
                      [revision |-> turn[c].revision + 1, next |-> turn[c].next + 1,
                       versions |-> [turn[c].answer EXCEPT ![change.dataset] = change.after]]
                /\ events' = events \union {[sequence |-> turn[c].next, key |-> turn[c].key, change |-> change]}
                /\ Goto(c, "done")
           ELSE /\ IF Current(c) THEN Retry(c, "event") ELSE Goto(c, "done")
                /\ UNCHANGED <<conversation, events>>
    /\ UNCHANGED <<messages, latest, answered>>

\* A version of a dataset is accepted somewhere else.
Publish(d) ==
    /\ latest[d] < MaxVersion
    /\ latest' = [latest EXCEPT ![d] = @ + 1]
    /\ UNCHANGED <<conversation, messages, events, turn, answered>>

Next ==
    \/ \E c \in Turns : \/ \E k \in Keys : runTurn(c, k)
                        \/ AppendRead(c) \/ AppendWrite(c) \/ Provider(c) \/ Answer(c) \/ Tell(c)
    \/ \E c \in Advances : \/ \E k \in Keys : resolveTurnContext(c, k)
                           \/ Resolve(c) \/ EventRead(c) \/ Compare(c) \/ Advance(c)
    \/ \E d \in Sets : Publish(d)

Spec == Init /\ [][Next]_vars
-----------------------------------------------------------------------------
TypeOK ==
    /\ conversation.revision \in 1 .. 1 + Cardinality(Advances)
    /\ conversation.next \in 1 .. 1 + 3 * Cardinality(Turns) + Cardinality(Advances)
    /\ conversation.versions \in [Sets -> DatasetVersions]
    /\ latest \in [Sets -> DatasetVersions]
    /\ \A m \in messages : m.message.role \in {"USER", "SYSTEM", "AGENT"}
    /\ \A e \in events : e.key \in Keys
    /\ \A c \in Calls : turn[c].tries \in 0 .. Tries
    /\ answered \subseteq Keys \X Answers

Places == {m.sequence : m \in messages} \union {e.sequence : e \in events}

\* However turns, their repetitions and changes of the context overlap, messages and context events
\* have one numbering without a gap, a key has one message, an answer comes after its question, and
\* a client is given an answer only when one is stored.
TranscriptIsWhole ==
    /\ Places = 1 .. conversation.next - 1
    /\ Cardinality(messages) + Cardinality(events) = conversation.next - 1
    /\ \A m, n \in messages : m.message.key = n.message.key => m = n
    /\ \A m \in messages : m.message.key[2] \in {"tool", "assistant"} =>
          \E n \in messages : n.message.key = <<m.message.key[1], "user">> /\ n.sequence < m.sequence
    /\ \A a \in answered : \E m \in messages : m.message.key = <<a[1], "assistant">>

\* The changes of the context that are recorded are those that happened: each one begins with the
\* version that the one before it left, and the active versions are what they add up to.
ContextIsRecorded ==
    LET of(d) == {e \in events : e.change.dataset = d}
        before(e) == {f \in of(e.change.dataset) : f.sequence < e.sequence}
        lastOf(S) == CHOOSE e \in S : \A f \in S : f.sequence <= e.sequence
        left(S) == IF S = {} THEN 1 ELSE lastOf(S).change.after
    IN  /\ conversation.revision = 1 + Cardinality(events)
        /\ \A d \in Sets : conversation.versions[d] = left(of(d))
        /\ \A e \in events : e.change.before = left(before(e))
        /\ \A e, f \in events : e.key = f.key => e = f
=============================================================================
