------------------------------ MODULE SseFanout ------------------------------
(***************************************************************************)
(* SseManager and SseConnection (src/core/ingestion/sse_manager.ts): each  *)
(* dashboard has a bounded queue in front of its response stream. An event *)
(* is named by the order in which it was broadcast or sent. Every handler  *)
(* runs to its end; what interleaves is the stream: whether a write fits,  *)
(* its 'drain', its 'error', its 'close'.                                  *)
(***************************************************************************)
EXTENDS Naturals, FiniteSets, Sequences, SequencesExt

CONSTANTS
    Dashboards,     \* clients, each with one stream
    MaxQueue,       \* MAX_QUEUE_DEPTH
    MaxPublished       \* bound: events are 1..MaxPublished

ASSUME SseAssumption == MaxQueue \in Nat \ {0} /\ MaxPublished \in Nat

VARIABLES
    listed,     \* the manager's connections
    stream,     \* stream[d]: "none" before addClient; "closed" once 'close' was emitted
    closed,     \* closed[d]: SseConnection.closed
    queue,      \* queue[d]: SseConnection.queue
    draining,   \* draining[d]: a write returned false and no 'drain' came since
    dropped,    \* dropped[d]: droppedCount
    sent,       \* number of the last event
    offered,    \* history: offered[d], events enqueue was called with while d was open
    written,    \* history: written[d], events written to the stream
    repeated    \* history: repeated[d], one of them was written again

sseVars == <<listed, stream, closed, queue, draining, dropped, sent, offered, written, repeated>>

Events == 1..MaxPublished

SseTypeOK ==
    /\ listed \in SUBSET Dashboards
    /\ stream \in [Dashboards -> {"none", "open", "closed"}]
    /\ closed \in [Dashboards -> BOOLEAN]
    /\ queue \in [Dashboards -> Seq(Events)] /\ \A d \in Dashboards : Len(queue[d]) <= MaxQueue
    /\ draining \in [Dashboards -> BOOLEAN]
    /\ dropped \in [Dashboards -> 0..MaxPublished]
    /\ sent \in 0..MaxPublished
    /\ offered \in [Dashboards -> SUBSET Events]
    /\ written \in [Dashboards -> SUBSET Events]
    /\ repeated \in [Dashboards -> BOOLEAN]

SseInit ==
    /\ listed = {}
    /\ stream = [d \in Dashboards |-> "none"]
    /\ closed = [d \in Dashboards |-> FALSE]
    /\ queue = [d \in Dashboards |-> <<>>]
    /\ draining = [d \in Dashboards |-> FALSE]
    /\ dropped = [d \in Dashboards |-> 0]
    /\ sent = 0
    /\ offered = [d \in Dashboards |-> {}]
    /\ written = [d \in Dashboards |-> {}]
    /\ repeated = [d \in Dashboards |-> FALSE]

-----------------------------------------------------------------------------
\* Mutant: it is pushed to the end.
RequeuedLast(q, n) == Append(SubSeq(q, n + 1, Len(q)), q[n])

\* The event whose write returned false goes back to the front.
Requeued(q, n) == SubSeq(q, n, Len(q))

\* flushQueue of q: either every write fits, or the first that does not, the
\* n-th, sets draining. The stream has buffered the n-th event all the same.
Flushed(q) ==
    {[queue |-> <<>>, draining |-> FALSE, written |-> q]} \cup
    {[queue |-> Requeued(q, n), draining |-> TRUE, written |-> SubSeq(q, 1, n)] : n \in 1..Len(q)}

\* enqueue to a full queue drops the oldest.
Kept(q, e) == IF Len(q) >= MaxQueue THEN Append(Tail(q), e) ELSE Append(q, e)

\* What enqueue(e) leaves of an open connection.
Enqueued(d, e) ==
    IF draining[d]
    THEN {[queue |-> Kept(queue[d], e), draining |-> TRUE, written |-> <<>>]}
    ELSE Flushed(Kept(queue[d], e))

Writes(events) ==
    /\ written' = [d \in Dashboards |-> written[d] \cup events[d]]
    /\ repeated' = [d \in Dashboards |-> repeated[d] \/ written[d] \cap events[d] # {}]

\* sendToClient and broadcast: the event is offered to every connection of ds.
Deliver(ds) ==
    /\ sent < MaxPublished
    /\ sent' = sent + 1
    /\ \E result \in [Dashboards -> UNION {Enqueued(d, sent + 1) : d \in Dashboards}] :
          /\ \A d \in Dashboards :
                result[d] \in IF d \in ds /\ ~closed[d] THEN Enqueued(d, sent + 1)
                              ELSE {[queue |-> queue[d], draining |-> draining[d], written |-> <<>>]}
          /\ queue' = [d \in Dashboards |-> result[d].queue]
          /\ draining' = [d \in Dashboards |-> result[d].draining]
          /\ Writes([d \in Dashboards |-> ToSet(result[d].written)])
    /\ offered' = [d \in Dashboards |-> IF d \in ds /\ ~closed[d] THEN offered[d] \cup {sent + 1}
                                                                 ELSE offered[d]]
    /\ dropped' = [d \in Dashboards |->
                     IF d \in ds /\ (closed[d] \/ Len(queue[d]) >= MaxQueue) THEN dropped[d] + 1
                                                                           ELSE dropped[d]]
    /\ UNCHANGED <<listed, stream, closed>>

Broadcast == Deliver(listed)

SendToClient(d) == d \in listed /\ Deliver({d})

AddClient(d) ==
    /\ stream[d] = "none"
    /\ stream' = [stream EXCEPT ![d] = "open"]
    /\ listed' = listed \cup {d}
    /\ UNCHANGED <<closed, queue, draining, dropped, sent, offered, written, repeated>>

\* 'drain'
Drain(d) ==
    /\ stream[d] = "open" /\ draining[d]
    /\ IF closed[d]
       THEN draining' = [draining EXCEPT ![d] = FALSE] /\ UNCHANGED <<queue, written, repeated>>
       ELSE \E result \in Flushed(queue[d]) :
               /\ queue' = [queue EXCEPT ![d] = result.queue]
               /\ draining' = [draining EXCEPT ![d] = result.draining]
               /\ Writes([x \in Dashboards |-> IF x = d THEN ToSet(result.written) ELSE {}])
    /\ UNCHANGED <<listed, stream, closed, dropped, sent, offered>>

\* The heartbeat writes past the queue.
SendKeepalive(d) ==
    /\ stream[d] = "open" /\ ~closed[d]
    /\ draining' \in {draining, [draining EXCEPT ![d] = TRUE]}
    /\ UNCHANGED <<listed, stream, closed, queue, dropped, sent, offered, written, repeated>>

\* close() of the connections of ds; a stream that was not ended is.
Close(ds) ==
    /\ closed' = [d \in Dashboards |-> closed[d] \/ d \in ds]
    /\ queue' = [d \in Dashboards |-> IF d \in ds THEN <<>> ELSE queue[d]]
    /\ UNCHANGED <<draining, dropped, sent, offered, written, repeated>>

\* 'close': the connection's listener, then the manager's removeClient.
StreamCloses(d) ==
    /\ stream[d] = "open"
    /\ stream' = [stream EXCEPT ![d] = "closed"]
    /\ Close({d})
    /\ listed' = listed \ {d}

\* 'error': the connection closes and stays listed until 'close'.
StreamFails(d) == stream[d] = "open" /\ Close({d}) /\ UNCHANGED <<listed, stream>>

Shutdown == listed # {} /\ Close(listed) /\ listed' = {} /\ UNCHANGED stream

SseNext ==
    \/ Broadcast \/ Shutdown
    \/ \E d \in Dashboards :
          \/ AddClient(d) \/ SendToClient(d) \/ Drain(d) \/ SendKeepalive(d)
          \/ StreamCloses(d) \/ StreamFails(d)

SseSpec == SseInit /\ [][SseNext]_sseVars

-----------------------------------------------------------------------------
(* Properties. *)

\* sse_manager.ts: an open connection whose queue waits has a 'drain' to come,
\* so no event is stuck behind a wake-up that was missed.
NothingWaitsForNothing ==
    \A d \in Dashboards : queue[d] # <<>> => draining[d] /\ ~closed[d]

\* sse_manager.ts: events reach the stream in the order they were sent: what
\* waits was sent after what was written, but for the one put back in front.
OrderIsKept ==
    \A d \in Dashboards : \A i \in 1..Len(queue[d]) :
       /\ \A j \in 1..(i - 1) : queue[d][j] < queue[d][i]
       /\ \A e \in written[d] : e < queue[d][i] \/ (i = 1 /\ e = queue[d][1])

\* sse_manager.ts: every event an open connection was given was written, waits,
\* or is counted as dropped; none is lost in silence, however writes, drains
\* and heartbeats interleave.
DropsAreCounted ==
    \A d \in Dashboards : ~closed[d] =>
       LET missing == offered[d] \ (written[d] \cup ToSet(queue[d]))
       IN  Cardinality(missing) <= dropped[d]

\* A dashboard's stream tells the truth about what it left out.
StreamIsAccountedFor == NothingWaitsForNothing /\ OrderIsKept /\ DropsAreCounted

\* sse_manager.ts:170: what the queue gets back was not sent, so a stream has
\* each event at most once.
EachEventOnce == \A d \in Dashboards : ~repeated[d]
=============================================================================
