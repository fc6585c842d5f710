---------------------------- MODULE RefreshStream ----------------------------
(***************************************************************************)
(* A client that follows the refresh events of a dashboard over SSE:       *)
(* DashboardRefreshEventsController.createStream over                      *)
(* DurableRefreshEventBus.listenFor and .listFor, and                      *)
(* PrismaRefreshEventStoreAdapter.list.  The sequence of an event is taken *)
(* under the row lock of its dashboard, so that events appear in order.    *)
(* Steps are cut where the code awaits.  The client is an EventSource: it  *)
(* connects again with the id of the last event it received.  One that is  *)
(* more than a page behind is told of a gap: it then reads the state of    *)
(* the dashboard through REST, and its last id stays what it was.          *)
(***************************************************************************)
EXTENDS Naturals, Sequences

CONSTANTS Streams,      \* requests that may be open, or still starting, at once
          PageSize,     \* pageSize
          MaxEvents,    \* bound on the events
          MaxBreaks     \* bound on lost connections, failed reads and changes of permission

VARIABLES highest,   \* the events 1 .. highest are committed
          allowed,   \* whether the client may subscribe
          stream,    \* the requests in the server
          last,      \* the id of the last event the client received
          known,     \* the newest event whose effect it has seen, as an event or through REST
          late,      \* events it received since it lost the permission
          breaks

vars == <<highest, allowed, stream, last, known, late, breaks>>

TypeOK ==
    /\ highest \in 0 .. MaxEvents
    /\ allowed \in BOOLEAN
    /\ stream \in [Streams ->
          [phase : {"free", "rows", "attach", "live", "gap"}, open : BOOLEAN, timer : BOOLEAN,
           from : 0 .. MaxEvents, upto : 0 .. MaxEvents, more : BOOLEAN, cursor : 0 .. MaxEvents,
           sent : 0 .. MaxEvents, queue : Seq(1 .. MaxEvents), granted : BOOLEAN,
           poll : {"none", "answered"}]]
    /\ last \in 0 .. MaxEvents
    /\ known \in 0 .. MaxEvents
    /\ late \in 0 .. MaxEvents
    /\ breaks \in 0 .. MaxBreaks

Free == [phase |-> "free", open |-> FALSE, timer |-> FALSE, from |-> 0, upto |-> 0, more |-> FALSE,
         cursor |-> 0, sent |-> 0, queue |-> <<>>, granted |-> FALSE, poll |-> "none"]

Init ==
    /\ highest = 0
    /\ allowed = TRUE
    /\ stream = [s \in Streams |-> Free]
    /\ last = 0
    /\ known = 0
    /\ late = 0
    /\ breaks = 0

\* The last row of the page after a cursor.
PageEnd(cursor) == IF highest > cursor + PageSize THEN cursor + PageSize ELSE highest

Numbers(from, upto) == [i \in 1 .. upto - from |-> from + i]

\* Whatever is still to come finds the stream closed and its timer cleared.
Close(s) == stream' = [stream EXCEPT ![s].open = FALSE, ![s].timer = FALSE, ![s].queue = <<>>,
                                     ![s].granted = FALSE]

-----------------------------------------------------------------------------
(* The dashboard and the client                                            *)

Commit ==
    /\ highest < MaxEvents
    /\ highest' = highest + 1
    /\ UNCHANGED <<allowed, stream, last, known, late, breaks>>

ChangePermission ==
    /\ breaks < MaxBreaks
    /\ breaks' = breaks + 1
    /\ allowed' = ~allowed
    /\ late' = 0
    /\ UNCHANGED <<highest, stream, last, known>>

\* The client is authorized and asks for what follows the last event it has.
subscribe(s) ==
    /\ allowed
    /\ \A t \in Streams : ~stream[t].open
    /\ stream[s].phase \in {"free", "live"} /\ stream[s].poll = "none"
    /\ stream' = [stream EXCEPT ![s] = [Free EXCEPT !.phase = "rows", !.open = TRUE, !.from = last,
                                                    !.cursor = last, !.sent = last]]
    /\ UNCHANGED <<highest, allowed, last, known, late, breaks>>

\* The connection is lost, perhaps while the stream is starting.
Disconnect(s) ==
    /\ stream[s].open
    /\ breaks < MaxBreaks
    /\ breaks' = breaks + 1
    /\ Close(s)
    /\ UNCHANGED <<highest, allowed, last, known, late>>

-----------------------------------------------------------------------------
(* listenFor                                                               *)

\* The page is read first, the newest event afterwards.
ListRows(s) ==
    /\ stream[s].phase = "rows"
    /\ stream' = [stream EXCEPT ![s].phase = "attach", ![s].upto = PageEnd(stream[s].from),
                                ![s].more = highest > stream[s].from + PageSize]
    /\ UNCHANGED <<highest, allowed, last, known, late, breaks>>

\* (Mutant of StartCursor) Polling begins after the newest event.
StartCursorNewest(s) == highest

\* Polling begins after the last event of the replay.
StartCursor(s) == stream[s].upto

\* A page that is not all there is, or a newer event than the page shows when it is empty.
replayHasGap(s) ==
    \/ stream[s].more
    \/ stream[s].from > highest
    \/ stream[s].upto = stream[s].from /\ highest > stream[s].from

\* The stream has a gap: what its timer still brings is kept from the client.
Gap(s) == [Free EXCEPT !.phase = "gap", !.open = TRUE, !.timer = TRUE]

\* The timer of a stream that was closed meanwhile is cleared at once.
Attached(s) ==
    IF ~stream[s].open THEN stream' = [stream EXCEPT ![s] = [Free EXCEPT !.phase = "live"]]
    ELSE IF replayHasGap(s) THEN stream' = [stream EXCEPT ![s] = Gap(s)]
    ELSE stream' = [stream EXCEPT ![s].phase = "live", ![s].timer = TRUE, ![s].cursor = StartCursor(s),
                                  ![s].queue = Numbers(stream[s].from, stream[s].upto)]

attach(s) ==
    /\ stream[s].phase = "attach"
    /\ Attached(s)
    /\ UNCHANGED <<highest, allowed, last, known, late, breaks>>

\* One poll at a time; it asks for what follows the cursor.
PollRead(s) ==
    /\ stream[s].phase = "live" /\ stream[s].timer /\ stream[s].poll = "none"
    /\ stream' = [stream EXCEPT ![s].poll = "answered", ![s].upto = PageEnd(stream[s].cursor)]
    /\ UNCHANGED <<highest, allowed, last, known, late, breaks>>

PollDone(s) ==
    LET news == Numbers(stream[s].cursor, stream[s].upto) IN
    /\ stream[s].poll = "answered"
    /\ stream' = IF stream[s].timer
                 THEN [stream EXCEPT ![s].poll = "none", ![s].queue = @ \o news,
                                     ![s].cursor = IF @ < stream[s].upto THEN stream[s].upto ELSE @]
                 ELSE [stream EXCEPT ![s].poll = "none"]
    /\ UNCHANGED <<highest, allowed, last, known, late, breaks>>

\* A read fails, and with it the stream.
FailRead(s) ==
    /\ stream[s].open
    /\ stream[s].phase # "live" \/ stream[s].poll = "answered"
    /\ breaks < MaxBreaks
    /\ breaks' = breaks + 1
    /\ stream' = [stream EXCEPT ![s] = [Free EXCEPT !.phase = "live"]]
    /\ UNCHANGED <<highest, allowed, last, known, late>>

-----------------------------------------------------------------------------
(* processEvent                                                            *)

\* (Mutant of canEmit) The permission is the one of the subscription.
canEmitAlways == TRUE

canEmit == allowed

\* The event is the next one and the client may see it, or the stream ends.
CheckEvent(s) ==
    /\ stream[s].open /\ stream[s].queue # <<>> /\ ~stream[s].granted
    /\ IF Head(stream[s].queue) # stream[s].sent + 1 THEN stream' = [stream EXCEPT ![s] = Gap(s)]
       ELSE IF canEmit THEN stream' = [stream EXCEPT ![s].granted = TRUE]
       ELSE Close(s)
    /\ UNCHANGED <<highest, allowed, last, known, late, breaks>>

Emit(s) ==
    /\ stream[s].open /\ stream[s].granted
    /\ stream' = [stream EXCEPT ![s].granted = FALSE, ![s].queue = Tail(@),
                                ![s].sent = Head(stream[s].queue)]
    /\ last' = Head(stream[s].queue)
    /\ known' = IF known < last' THEN last' ELSE known
    /\ late' = IF allowed THEN late ELSE late + 1
    /\ UNCHANGED <<highest, allowed, breaks>>

\* The word that there is a gap, after which the stream ends.  It has no id.  The client that gets
\* it reads what the dashboard shows now, or later.
EmitCursorGap(s) ==
    /\ stream[s].phase = "gap"
    /\ known' = IF stream[s].open /\ canEmit THEN highest ELSE known
    /\ stream' = [stream EXCEPT ![s] = [Free EXCEPT !.phase = "live"]]
    /\ UNCHANGED <<highest, allowed, last, late, breaks>>

-----------------------------------------------------------------------------

\* What the timer of a stream does.
Poll(s) == PollRead(s) \/ PollDone(s)

\* What the server does for the client, one step after the other.
Serve(s) == ListRows(s) \/ attach(s) \/ CheckEvent(s) \/ Emit(s) \/ EmitCursorGap(s)

Next ==
    \/ Commit \/ ChangePermission
    \/ \E s \in Streams : subscribe(s) \/ Disconnect(s) \/ FailRead(s) \/ Poll(s) \/ Serve(s)

Spec == Init /\ [][Next]_vars

\* Reads are answered, timers fire, and the EventSource of a client connects again.
FairSpec ==
    /\ Spec
    /\ \A s \in Streams : WF_vars(Serve(s)) /\ WF_vars(Poll(s))
    /\ WF_vars(\E s \in Streams : subscribe(s))

-----------------------------------------------------------------------------
(* Properties                                                              *)

\* Timers poll only for a stream that has a client: one that is lost while listenFor is under way
\* leaves nothing behind.
NoOrphanTimer == \A s \in Streams : stream[s].timer => stream[s].open

\* A client that loses its permission receives at most the one event that was being sent.
RevocationStops == late <= 1

\* A client that keeps its permission learns of every event in the end: it receives it, or is told
\* to reconcile after it.  Lost connections, failed reads and events that are committed while a
\* stream starts change nothing of it, nor does a client that is more than a page behind.
ClientCatchesUp == <>[](allowed => known = highest)
=============================================================================
