----------------------------- MODULE EventStream ------------------------------
(***************************************************************************)
(* The event feed of one token, from publishEvent and its ring buffer      *)
(* (lib/runtimeStore.ts) through the SSE connection with its back-pressure *)
(* queue (routes/sse.ts, GET /:tokenId/stream) to the dashboard, which     *)
(* reconnects with Last-Event-ID (web agentStream.ts).                     *)
(*                                                                         *)
(* An event is its sequence number.  The socket holds what was written and *)
(* not yet read, counted in events; closing it loses that.  A restart of   *)
(* the backend starts the numbers again; `era` counts the restarts.        *)
(***************************************************************************)
EXTENDS Integers, FiniteSets, SequencesExt

CONSTANTS
    RING_CAP, BACKPRESSURE_QUEUE_CAP,
    WATERMARK,          \* events the socket holds when writableLength passes its limit
    MaxEvents,          \* bound: events of one era
    MaxEras,            \* bound: starts of the backend
    MaxDrops            \* bound: lost connections

ASSUME StreamAssumption ==
    RING_CAP \in Nat \ {0} /\ BACKPRESSURE_QUEUE_CAP \in Nat /\ WATERMARK \in Nat

VARIABLES
    era, eventSeq,      \* RuntimeState.seq; the ring holds the last RING_CAP events
    connected,          \* the connection is open and subscribed
    socket,             \* events written and not yet read
    backQueue,          \* events deferred by back-pressure
    lastSeq,            \* client: the id of the last event read, -1 before
    received,           \* history: events read in this era, in order
    drops,
    spoiled             \* history: why `received` may have gaps

streamVars == <<era, eventSeq, connected, socket, backQueue, lastSeq, received, drops, spoiled>>

StreamInit ==
    /\ era = 1 /\ eventSeq = 0
    /\ connected = FALSE /\ socket = <<>> /\ backQueue = <<>>
    /\ lastSeq = -1 /\ received = <<>>
    /\ drops = 0 /\ spoiled = {}

Room(s) == Len(s) <= WATERMARK

\* write: over the watermark the event is queued and the oldest may be dropped;
\* otherwise the queue is drained while there is room, and the event follows,
\* whether or not the queue is empty by then.
Written(s, q, e) ==
    IF ~Room(s)
    THEN LET longer == Append(q, e)
             over == Len(longer) > BACKPRESSURE_QUEUE_CAP
         IN  [socket |-> s, queue |-> IF over THEN Tail(longer) ELSE longer, dropped |-> over]
    ELSE LET k == Max({j \in 0..Len(q) : \A i \in 1..j : Len(s) + i - 1 <= WATERMARK})
         IN  [socket |-> Append(s \o SubSeq(q, 1, k), e),
              queue |-> SubSeq(q, k + 1, Len(q)), dropped |-> FALSE]

publishEvent ==
    /\ eventSeq < MaxEvents
    /\ eventSeq' = eventSeq + 1
    /\ IF connected
       THEN LET w == Written(socket, backQueue, eventSeq + 1)
            IN  /\ socket' = w.socket /\ backQueue' = w.queue
                /\ spoiled' = IF Room(socket) THEN spoiled ELSE spoiled \cup {"stalled"}
       ELSE UNCHANGED <<socket, backQueue, spoiled>>
    /\ UNCHANGED <<era, connected, lastSeq, received, drops>>

\* The ring after `eventSeq` events
InRing == {e \in 1..eventSeq : e > eventSeq - RING_CAP}

\* Mutant: the event that the client names is replayed too.
ReplayedInclusive(fromSeq) == {e \in InRing : e >= fromSeq}

\* subscribe: the events of the ring with a later number.
Replayed(fromSeq) == {e \in InRing : e > fromSeq}

\* In the order of the ring, where an event's number is its distance from the end.
ReplayOrder(fromSeq) ==
    LET n == Cardinality(Replayed(fromSeq)) IN [i \in 1..n |-> eventSeq - n + i]

Empty == [socket |-> <<>>, queue |-> <<>>, dropped |-> FALSE]
WriteTo(w, e) == Written(w.socket, w.queue, e)

\* The replay goes through write in one turn.  fromSeq is the header as the client
\* sent it: the last id it read.
subscribe ==
    LET events == ReplayOrder(lastSeq)
        w == FoldLeft(WriteTo, Empty, events)
    IN  /\ ~connected
        /\ connected' = TRUE
        /\ socket' = w.socket /\ backQueue' = w.queue
        /\ spoiled' = spoiled
              \cup (IF Len(events) > WATERMARK + 1 THEN {"stalled"} ELSE {})
              \cup (IF \E e \in 1..eventSeq : e > lastSeq /\ e \notin InRing THEN {"ring"} ELSE {})
              \cup (IF lastSeq > eventSeq \/ (received = <<>> /\ lastSeq > 0) THEN {"restarted"} ELSE {})
        /\ UNCHANGED <<era, eventSeq, lastSeq, received, drops>>

\* The client reads and dispatches one event.
ClientReads ==
    /\ socket # <<>>
    /\ lastSeq' = Head(socket)
    /\ received' = Append(received, Head(socket))
    /\ socket' = Tail(socket)
    /\ UNCHANGED <<era, eventSeq, connected, backQueue, drops, spoiled>>

\* The network fails: the server's cleanup unsubscribes, the client reconnects.
ConnectionLost ==
    /\ connected /\ drops < MaxDrops
    /\ drops' = drops + 1
    /\ connected' = FALSE
    /\ socket' = <<>> /\ backQueue' = <<>>
    /\ UNCHANGED <<era, eventSeq, lastSeq, received, spoiled>>

BackendRestarts ==
    /\ era < MaxEras
    /\ era' = era + 1 /\ eventSeq' = 0
    /\ connected' = FALSE
    /\ socket' = <<>> /\ backQueue' = <<>>
    /\ received' = <<>> /\ spoiled' = {}
    /\ UNCHANGED <<lastSeq, drops>>

StreamNext ==
    publishEvent \/ subscribe \/ ClientReads \/ ConnectionLost \/ BackendRestarts

StreamSpec == StreamInit /\ [][StreamNext]_streamVars

------------------------------------------------------------------------------

\* What the dashboard has read of an era is the events from some number on, each
\* once, in order, without a gap, however often the connection was lost; unless a
\* slow reader stalled the socket, the ring had already dropped what it missed, or
\* it came with an id of an earlier process (subscribe's replay, lastSeqRef).
ResumeIsExact ==
    spoiled = {} => \A i \in 1..Len(received) : received[i] = received[1] + i - 1
==============================================================================
