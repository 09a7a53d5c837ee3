------------------------------ MODULE Runtime ------------------------------
(***************************************************************************)
(* The threads of core/runtime.cpp and how they hand market data over: the *)
(* network thread (run() of md/coinbase_ws_client.cpp and its callbacks    *)
(* into the Runtime), the strategy thread (strategyLoop()), and the main   *)
(* thread that starts and stops both.                                      *)
(*                                                                         *)
(* An event is its kind and the connection it came from; connections are   *)
(* numbered from 1.  queue_ is the bounded FIFO that module SPSCQueue is   *)
(* shown to implement.  A try_pop that misses an event just pushed is the  *)
(* same pop a moment earlier; the final drain cannot miss one, because the *)
(* network thread has been joined before running_ is cleared.              *)
(*                                                                         *)
(* Prices and quantities are left out: module BoundedBook has them.  The   *)
(* variables bookConn, emitted, processed and late are not in the code.    *)
(***************************************************************************)
EXTENDS Naturals, Sequences

CONSTANTS QueueCapacity,    \* slots of queue_ (4096)
          SnapshotRetries,  \* further pushes of a snapshot (200)
          MaxStarts,        \* bound: calls of start()
          MaxConns,         \* bound: connections made
          MaxMsgs,          \* bound: messages read on one connection
          MaxChunks         \* bound: events one l2update is split into

ASSUME RuntimeAssumption ==
  /\ QueueCapacity \in Nat \ {0} /\ SnapshotRetries \in Nat
  /\ MaxStarts \in Nat /\ MaxConns \in Nat
  /\ MaxMsgs \in Nat /\ MaxChunks \in Nat

VARIABLES
  mPc, starts,              \* main thread: step, calls of start() made
  started, running,         \* started_, running_
  wsRunning,                \* running_ of the WebSocket client
  nPc, conn,                \* network thread: step, connections made so far
  snapSent, msgs,           \* the feed has sent its snapshot; messages read
  inHand, retries,          \* the event being pushed: kind, chunks left
  queue, bookInvalidate,    \* shared by the network and strategy threads
  sPc, bookReady,           \* strategy thread: step, bookReady_
  bookConn,                 \* connection of the snapshot in book_ (0: none)
  queueFullDrops, preSnapshotDrops,
  emitted, processed,       \* events handed to try_push, to processEvent
  late                      \* events processed since bookInvalidate_ was set

mainVars == <<mPc, starts, started, running, wsRunning>>
netVars == <<nPc, conn, snapSent, msgs, inHand, retries, queueFullDrops, emitted>>
stratVars == <<sPc, bookReady, bookConn, preSnapshotDrops, processed, late>>
vars == <<mainVars, netVars, queue, bookInvalidate, stratVars>>

Kinds == {"snapshot", "l2", "heartbeat"}
Events == [kind : Kinds, conn : 1..MaxConns]
Nothing == [kind |-> "heartbeat", chunks |-> 0]

MainTypeOK ==
  /\ mPc \in {"idle", "startWs", "up", "joinWs", "stopLoop", "joinStrategy"}
  /\ starts \in 0..MaxStarts
  /\ started \in BOOLEAN /\ running \in BOOLEAN /\ wsRunning \in BOOLEAN

NetTypeOK ==
  /\ nPc \in {"off", "top", "dial", "read", "push", "retry", "exited"}
  /\ conn \in 0..MaxConns /\ msgs \in 0..MaxMsgs /\ snapSent \in BOOLEAN
  /\ inHand \in [kind : Kinds, chunks : 0..MaxChunks]
  /\ retries \in 0..SnapshotRetries
  /\ queueFullDrops \in Nat /\ emitted \in Nat

StrategyTypeOK ==
  /\ sPc \in {"off", "top", "invalidate", "pop", "drain", "exited"}
  /\ bookReady \in BOOLEAN /\ bookConn \in 0..MaxConns
  /\ preSnapshotDrops \in Nat /\ processed \in Nat /\ late \in Nat

TypeOK ==
  /\ MainTypeOK /\ NetTypeOK /\ StrategyTypeOK
  /\ queue \in Seq(Events) /\ Len(queue) <= QueueCapacity
  /\ bookInvalidate \in BOOLEAN

Init ==
  /\ mPc = "idle" /\ starts = 0
  /\ started = FALSE /\ running = FALSE /\ wsRunning = FALSE
  /\ nPc = "off" /\ conn = 0 /\ snapSent = FALSE /\ msgs = 0
  /\ inHand = Nothing /\ retries = 0
  /\ queue = << >> /\ bookInvalidate = FALSE
  /\ sPc = "off" /\ bookReady = FALSE /\ bookConn = 0
  /\ queueFullDrops = 0 /\ preSnapshotDrops = 0
  /\ emitted = 0 /\ processed = 0 /\ late = 0

-----------------------------------------------------------------------------
(* Main thread: Runtime::start() and Runtime::stop() *)

\* start(), up to the creation of the strategy thread.
Start ==
  /\ mPc = "idle" /\ ~started /\ starts < MaxStarts
  /\ mPc' = "startWs" /\ starts' = starts + 1
  /\ started' = TRUE /\ running' = TRUE
  /\ sPc' = "top"
  /\ UNCHANGED <<wsRunning, netVars, queue, bookInvalidate, bookReady, bookConn,
                 preSnapshotDrops, processed, late>>

\* ws_->start()
StartWs ==
  /\ mPc = "startWs" /\ ~wsRunning
  /\ mPc' = "up"
  /\ wsRunning' = TRUE /\ nPc' = "top"
  /\ UNCHANGED <<starts, started, running, conn, snapSent, msgs, inHand, retries,
                 queueFullDrops, emitted, queue, bookInvalidate, stratVars>>

\* Mutant: running_ is cleared before the producer is stopped.
StopLoopFirst ==
  /\ mPc = "up" /\ started
  /\ mPc' = "joinWs"
  /\ started' = FALSE /\ wsRunning' = FALSE /\ running' = FALSE
  /\ UNCHANGED <<starts, netVars, queue, bookInvalidate, stratVars>>

\* stop(): started_.exchange(false), then ws_->stop() up to the join.
StopWs ==
  /\ mPc = "up" /\ started
  /\ mPc' = "joinWs"
  /\ started' = FALSE /\ wsRunning' = FALSE
  /\ UNCHANGED <<starts, running, netVars, queue, bookInvalidate, stratVars>>

\* The network thread is joined.
JoinWs ==
  /\ mPc = "joinWs" /\ nPc = "exited"
  /\ mPc' = "stopLoop" /\ nPc' = "off"
  /\ UNCHANGED <<starts, started, running, wsRunning, conn, snapSent, msgs, inHand,
                 retries, queueFullDrops, emitted, queue, bookInvalidate, stratVars>>

\* Mutant: the loop is joined without being told to end.
StopLoopForgotten ==
  /\ mPc = "stopLoop"
  /\ mPc' = "joinStrategy"
  /\ UNCHANGED <<starts, started, running, wsRunning, netVars, queue, bookInvalidate,
                 stratVars>>

\* running_.store(false)
StopLoop ==
  /\ mPc = "stopLoop"
  /\ mPc' = "joinStrategy" /\ running' = FALSE
  /\ UNCHANGED <<starts, started, wsRunning, netVars, queue, bookInvalidate, stratVars>>

\* The strategy thread is joined: stop() returns.
JoinStrategy ==
  /\ mPc = "joinStrategy" /\ sPc = "exited"
  /\ mPc' = "idle" /\ sPc' = "off"
  /\ UNCHANGED <<starts, started, running, wsRunning, netVars, queue, bookInvalidate,
                 bookReady, bookConn, preSnapshotDrops, processed, late>>

\* The process ends.
Done ==
  /\ mPc = "idle" /\ starts = MaxStarts
  /\ UNCHANGED vars

MainStop == StopWs \/ JoinWs \/ StopLoop \/ JoinStrategy

-----------------------------------------------------------------------------
(* Network thread: run() and the callbacks it makes *)

\* The outer loop's test of running_.
NetTop ==
  /\ nPc = "top"
  /\ nPc' = IF wsRunning THEN "dial" ELSE "exited"
  /\ UNCHANGED <<mainVars, conn, snapSent, msgs, inHand, retries, queueFullDrops,
                 emitted, queue, bookInvalidate, stratVars>>

\* resolve, connect, handshakes and subscription succeed; a connection that is
\* not the first one makes the reconnect callback set bookInvalidate_.
NetConnected ==
  /\ nPc = "dial" /\ conn < MaxConns
  /\ nPc' = "read" /\ conn' = conn + 1
  /\ snapSent' = FALSE /\ msgs' = 0
  /\ bookInvalidate' = (bookInvalidate \/ conn > 0)
  /\ UNCHANGED <<mainVars, inHand, retries, queueFullDrops, emitted, queue, stratVars>>

\* An exception, while dialling or reading, ends the connection; so does the
\* heartbeat timeout, which only the read loop has.  The back-off sleep looks
\* at running_, as the outer loop does next.
NetDisconnect ==
  /\ nPc \in {"dial", "read"}
  /\ nPc' = "top"
  /\ UNCHANGED <<mainVars, conn, snapSent, msgs, inHand, retries, queueFullDrops,
                 emitted, queue, bookInvalidate, stratVars>>

\* The read loop sees running_ cleared, at the latest after a read timeout.
NetReadStop ==
  /\ nPc = "read" /\ ~wsRunning
  /\ nPc' = "top"
  /\ UNCHANGED <<mainVars, conn, snapSent, msgs, inHand, retries, queueFullDrops,
                 emitted, queue, bookInvalidate, stratVars>>

\* A message that does not reach the queue: it does not parse (it may have been
\* the snapshot), or its type is one onCoinbaseMessage() only counts.
NetIgnored(isSnapshot) ==
  /\ nPc = "read" /\ msgs < MaxMsgs
  /\ isSnapshot => ~snapSent
  /\ msgs' = msgs + 1
  /\ snapSent' = (snapSent \/ isSnapshot)
  /\ UNCHANGED <<mainVars, nPc, conn, inHand, retries, queueFullDrops, emitted,
                 queue, bookInvalidate, stratVars>>

\* A message for the queue: the feed sends one snapshot per connection, and
\* l2updates, which onCoinbaseMessage() splits into chunks, at any time.
NetReceive(kind, chunks) ==
  /\ nPc = "read" /\ msgs < MaxMsgs
  /\ kind = "snapshot" => ~snapSent
  /\ kind # "l2" => chunks = 1
  /\ msgs' = msgs + 1
  /\ snapSent' = (snapSent \/ kind = "snapshot")
  /\ inHand' = [kind |-> kind, chunks |-> chunks]
  /\ nPc' = "push"
  /\ UNCHANGED <<mainVars, conn, retries, queueFullDrops, emitted, queue,
                 bookInvalidate, stratVars>>

Event == [kind |-> inHand.kind, conn |-> conn]

\* Mutant: a snapshot overtakes the events already queued.
EnqueuedUrgent(q, e) ==
  IF e.kind = "snapshot" THEN <<e>> \o q ELSE Append(q, e)

\* try_push on a queue with a free slot.
Enqueued(q, e) == Append(q, e)

\* What follows the last push of one event: the next chunk or the next read.
NextChunk ==
  /\ inHand' = IF inHand.chunks = 1 THEN Nothing
               ELSE [inHand EXCEPT !.chunks = @ - 1]
  /\ nPc' = IF inHand.chunks = 1 THEN "read" ELSE "push"
  /\ retries' = 0

\* try_push succeeds, at once or in the retry loop of a snapshot.
NetPush ==
  /\ nPc \in {"push", "retry"} /\ Len(queue) < QueueCapacity
  /\ queue' = Enqueued(queue, Event)
  /\ emitted' = emitted + 1
  /\ NextChunk
  /\ UNCHANGED <<mainVars, conn, snapSent, msgs, queueFullDrops, bookInvalidate, stratVars>>

\* try_push of a snapshot fails: sleep and try again.
NetRetry ==
  /\ nPc \in {"push", "retry"} /\ Len(queue) = QueueCapacity
  /\ inHand.kind = "snapshot" /\ retries < SnapshotRetries
  /\ nPc' = "retry" /\ retries' = retries + 1
  /\ UNCHANGED <<mainVars, conn, snapSent, msgs, inHand, queueFullDrops, emitted,
                 queue, bookInvalidate, stratVars>>

\* Mutant: the drop is not counted for a snapshot.
NetDropUncounted ==
  /\ nPc \in {"push", "retry"} /\ Len(queue) = QueueCapacity
  /\ inHand.kind = "snapshot" => retries = SnapshotRetries
  /\ queueFullDrops' = queueFullDrops + (IF inHand.kind = "snapshot" THEN 0 ELSE 1)
  /\ emitted' = emitted + 1
  /\ NextChunk
  /\ UNCHANGED <<mainVars, conn, snapSent, msgs, queue, bookInvalidate, stratVars>>

\* try_push fails, and for a snapshot so has every retry: the event is lost.
NetDrop ==
  /\ nPc \in {"push", "retry"} /\ Len(queue) = QueueCapacity
  /\ inHand.kind = "snapshot" => retries = SnapshotRetries
  /\ queueFullDrops' = queueFullDrops + 1
  /\ emitted' = emitted + 1
  /\ NextChunk
  /\ UNCHANGED <<mainVars, conn, snapSent, msgs, queue, bookInvalidate, stratVars>>

\* The steps that depend on nobody outside the program.
NetOwn == NetTop \/ NetReadStop \/ NetPush \/ NetRetry \/ NetDrop

Feed ==
  \/ NetConnected \/ NetDisconnect
  \/ \E isSnapshot \in BOOLEAN : NetIgnored(isSnapshot)
  \/ \E kind \in Kinds, chunks \in 1..MaxChunks : NetReceive(kind, chunks)

-----------------------------------------------------------------------------
(* Strategy thread: strategyLoop() and processEvent() *)

\* The loop's test of running_.
LoopTest ==
  /\ sPc = "top"
  /\ sPc' = IF running THEN "invalidate" ELSE "drain"
  /\ UNCHANGED <<mainVars, netVars, queue, bookInvalidate, bookReady, bookConn,
                 preSnapshotDrops, processed, late>>

\* bookInvalidate_.exchange(false)
LoopInvalidate ==
  /\ sPc = "invalidate"
  /\ sPc' = "pop"
  /\ bookInvalidate' = FALSE
  /\ bookReady' = (bookReady /\ ~bookInvalidate)
  /\ late' = 0
  /\ UNCHANGED <<mainVars, netVars, queue, bookConn, preSnapshotDrops, processed>>

\* try_pop finds nothing: sleep, and back to the top of the loop.
LoopIdle ==
  /\ sPc = "pop" /\ queue = << >>
  /\ sPc' = "top"
  /\ UNCHANGED <<mainVars, netVars, queue, bookInvalidate, bookReady, bookConn,
                 preSnapshotDrops, processed, late>>

\* Mutant: an l2update is applied whether the book has a snapshot or not.
ProcessEventUnsynced(e) ==
  /\ bookConn' = IF e.kind = "snapshot" THEN e.conn ELSE bookConn
  /\ bookReady' = (bookReady \/ e.kind = "snapshot")
  /\ UNCHANGED preSnapshotDrops
  /\ processed' = processed + 1

\* processEvent(): a snapshot rebuilds the book, an l2update goes into a book
\* that is ready and is dropped otherwise, a heartbeat only counts.
ProcessEvent(e) ==
  /\ bookConn' = IF e.kind = "snapshot" THEN e.conn ELSE bookConn
  /\ bookReady' = (bookReady \/ e.kind = "snapshot")
  /\ preSnapshotDrops' = preSnapshotDrops +
       (IF e.kind = "l2" /\ ~bookReady THEN 1 ELSE 0)
  /\ processed' = processed + 1

\* Mutant: the queue is emptied before the flag is looked at again.
LoopPopGreedy ==
  /\ sPc = "pop" /\ queue # << >>
  /\ sPc' = "pop"
  /\ queue' = Tail(queue)
  /\ ProcessEvent(Head(queue))
  /\ late' = late + (IF bookInvalidate THEN 1 ELSE 0)
  /\ UNCHANGED <<mainVars, netVars, bookInvalidate>>

\* try_pop finds an event: process it.
LoopPop ==
  /\ sPc = "pop" /\ queue # << >>
  /\ sPc' = "top"
  /\ queue' = Tail(queue)
  /\ ProcessEvent(Head(queue))
  /\ late' = late + (IF bookInvalidate THEN 1 ELSE 0)
  /\ UNCHANGED <<mainVars, netVars, bookInvalidate>>

\* The loop after running_ is cleared, which leaves bookInvalidate_ alone.
DrainPop ==
  /\ sPc = "drain" /\ queue # << >>
  /\ queue' = Tail(queue)
  /\ ProcessEvent(Head(queue))
  /\ UNCHANGED <<mainVars, netVars, bookInvalidate, sPc, late>>

\* Mutant: the thread ends without draining.
DrainEndAtOnce ==
  /\ sPc = "drain"
  /\ sPc' = "exited"
  /\ UNCHANGED <<mainVars, netVars, queue, bookInvalidate, bookReady, bookConn,
                 preSnapshotDrops, processed, late>>

DrainEnd ==
  /\ sPc = "drain" /\ queue = << >>
  /\ sPc' = "exited"
  /\ UNCHANGED <<mainVars, netVars, queue, bookInvalidate, bookReady, bookConn,
                 preSnapshotDrops, processed, late>>

Strategy ==
  LoopTest \/ LoopInvalidate \/ LoopIdle \/ LoopPop \/ DrainPop \/ DrainEnd

-----------------------------------------------------------------------------
Next == Start \/ StartWs \/ MainStop \/ Done \/ NetOwn \/ Feed \/ Strategy

Spec == Init /\ [][Next]_vars

\* The operating system runs every thread.  Nothing is assumed of the feed:
\* it may stay silent, and a dial may block for ever (no time limit is set
\* before the read loop); a blocked read returns after its one-second limit.
Fairness ==
  /\ WF_vars(JoinWs \/ StopLoop \/ JoinStrategy)
  /\ WF_vars(NetOwn)
  /\ WF_vars(Strategy)

FairSpec == Spec /\ Fairness

-----------------------------------------------------------------------------
(* Correctness *)

\* No event disappears uncounted: each one handed to try_push has been
\* processed, is still queued, or is in queueFullDrops.
Accounting == emitted = processed + Len(queue) + queueFullDrops

\* "stop the producer first, then let the loop drain and exit": once stop() has
\* returned, no thread runs, nothing is left in the queue, and nothing will be.
StopDrains ==
  mPc = "idle" => nPc = "off" /\ sPc = "off" /\ queue = << >> /\ ~running

\* The event processEvent() is given by a step, if the step pops one.
PopStep == Len(queue') < Len(queue)
Applied == PopStep /\ Head(queue).kind = "l2" /\ preSnapshotDrops' = preSnapshotDrops
Dropped == PopStep /\ preSnapshotDrops' # preSnapshotDrops

\* The book never goes back in time: a snapshot or an l2update of an earlier
\* connection is not applied to the book of a later one, whatever was queued
\* when the connection was lost, and across stop() and start().
NoOlderOverNewer ==
  [][ /\ bookConn' >= bookConn
      /\ Applied => Head(queue).conn >= bookConn ]_vars

\* While the program is on its first connection, an l2update is applied exactly
\* when the connection's snapshot has been processed before it.
FirstConnectionSynced ==
  [][ conn = 1 => /\ Applied => bookConn = 1
                  /\ Dropped => bookConn = 0 ]_vars

\* After a reconnect the strategy thread processes at most one more event
\* before it invalidates the book (outside the final drain).
InvalidateIsPrompt == late <= 1

\* stop() returns, whatever the feed does and however full the queue is, unless
\* the network thread is blocked in a dial.
StopReturns == (mPc = "joinWs") ~> (mPc = "idle" \/ nPc = "dial")

\* A snapshot that made it into the queue reaches the book, also when stop() is
\* called while it is queued.
SnapshotReachesBook ==
  \A c \in 1..MaxConns :
    (\E i \in 1..Len(queue) : queue[i] = [kind |-> "snapshot", conn |-> c])
      ~> (bookConn >= c)

\* The README: "l2updates received before the first snapshot (or before a
\* post-reconnect snapshot) are dropped", and no others: an l2update is dropped
\* for lack of a snapshot only if its connection's snapshot is not in the book.
DropsOnlyBeforeSnapshot ==
  [][ Dropped => Head(queue).conn # bookConn ]_vars

\* The README: an l2update received before a post-reconnect snapshot is dropped
\* "rather than applied to an unsynced book": it is applied only to a book
\* built from a snapshot of its own connection.
AppliedToOwnSnapshot ==
  [][ Applied => Head(queue).conn = bookConn ]_vars

=============================================================================
