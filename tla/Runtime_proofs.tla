--------------------------- MODULE Runtime_proofs ---------------------------
(***************************************************************************)
(* For every capacity, retry count and bound: the hand-over of events from *)
(* the network thread to the strategy thread loses none uncounted, stop()  *)
(* leaves none behind, and the book never goes back to an earlier          *)
(* connection.                                                             *)
(***************************************************************************)
EXTENDS Runtime, TLAPS

\* What the network thread holds in its hand while it pushes.
NetShape ==
  /\ nPc \in {"read", "push", "retry"} => conn >= 1
  /\ nPc \in {"push", "retry"} => inHand.chunks >= 1

TypeInv == TypeOK /\ NetShape

\* No event, and every event, is of its type.
LEMMA NothingType == Nothing \in [kind : Kinds, chunks : 0..MaxChunks]
BY RuntimeAssumption DEF Nothing, Kinds

\* The step after a push keeps the types.
LEMMA NextChunkType ==
  ASSUME TypeInv, nPc \in {"push", "retry"}, NextChunk
  PROVE  /\ inHand' \in [kind : Kinds, chunks : 0..MaxChunks]
         /\ nPc' \in {"read", "push"}
         /\ nPc' = "push" => inHand'.chunks >= 1
         /\ retries' \in 0..SnapshotRetries
PROOF
<1>1. inHand.chunks \in 0..MaxChunks /\ inHand.chunks >= 1 /\ inHand.kind \in Kinds
  BY DEF TypeInv, TypeOK, NetTypeOK, NetShape
<1>2. CASE inHand.chunks = 1
  BY <1>2, NothingType, RuntimeAssumption DEF NextChunk
<1>3. CASE inHand.chunks # 1
  <2>1. inHand' = [inHand EXCEPT !.chunks = inHand.chunks - 1] /\ nPc' = "push"
    BY <1>3 DEF NextChunk
  <2>2. inHand.chunks - 1 \in 0..MaxChunks /\ inHand.chunks - 1 >= 1
    BY <1>1, <1>3, RuntimeAssumption
  <2>3. retries' \in 0..SnapshotRetries
    BY RuntimeAssumption DEF NextChunk
  <2> QED
    BY <2>1, <2>2, <2>3 DEF TypeInv, TypeOK, NetTypeOK
<1> QED
  BY <1>2, <1>3

LEMMA EventType ==
  ASSUME TypeInv, nPc \in {"push", "retry"}
  PROVE  Event \in Events /\ Event.conn = conn
BY RuntimeAssumption DEF TypeInv, TypeOK, NetTypeOK, NetShape, Event, Events

\* processEvent() keeps the types.
LEMMA ProcessEventType ==
  ASSUME TypeInv, NEW e \in Events, ProcessEvent(e)
  PROVE  /\ bookConn' \in 0..MaxConns /\ bookReady' \in BOOLEAN
         /\ preSnapshotDrops' \in Nat /\ processed' \in Nat
BY RuntimeAssumption DEF TypeInv, TypeOK, StrategyTypeOK, ProcessEvent, Events

\* Popping an event.
LEMMA PopType ==
  ASSUME TypeInv, queue # << >>
  PROVE  /\ Head(queue) \in Events /\ Head(queue) = queue[1]
         /\ Tail(queue) \in Seq(Events) /\ Len(Tail(queue)) = Len(queue) - 1
         /\ Len(queue) \in Nat /\ Len(queue) >= 1
         /\ \A i \in 1..Len(Tail(queue)) : Tail(queue)[i] = queue[i + 1]
BY DEF TypeInv, TypeOK

\* Types and the shape of the network thread.
LEMMA TypeInvariant == Spec => []TypeInv
PROOF
<1>1. Init => TypeInv
  <2> SUFFICES ASSUME Init PROVE TypeInv
    OBVIOUS
  <2>0. /\ started \in BOOLEAN /\ running \in BOOLEAN /\ wsRunning \in BOOLEAN
        /\ snapSent \in BOOLEAN /\ bookInvalidate \in BOOLEAN /\ bookReady \in BOOLEAN
    BY Zenon DEF Init
  <2>1. MainTypeOK /\ StrategyTypeOK
    BY <2>0, RuntimeAssumption DEF Init, MainTypeOK, StrategyTypeOK
  <2>2. NetTypeOK /\ NetShape
    BY <2>0, NothingType, RuntimeAssumption DEF Init, NetTypeOK, NetShape
  <2>3. queue \in Seq(Events) /\ Len(queue) <= QueueCapacity /\ bookInvalidate \in BOOLEAN
    BY <2>0, RuntimeAssumption DEF Init
  <2> QED
    BY <2>1, <2>2, <2>3 DEF TypeInv, TypeOK
<1>2. TypeInv /\ [Next]_vars => TypeInv'
  <2> SUFFICES ASSUME TypeInv, [Next]_vars PROVE TypeInv'
    OBVIOUS
  <2> DEFINE SharedOK == /\ queue \in Seq(Events) /\ Len(queue) <= QueueCapacity
                         /\ bookInvalidate \in BOOLEAN
             NetOK == NetTypeOK /\ NetShape
  <2>0. MainTypeOK /\ NetOK /\ StrategyTypeOK /\ SharedOK
    BY DEF TypeInv, TypeOK
  <2>a. mainVars' = mainVars => MainTypeOK'
    BY <2>0 DEF mainVars, MainTypeOK
  <2>b. netVars' = netVars => NetOK'
    BY <2>0 DEF netVars, NetTypeOK, NetShape
  <2>c. stratVars' = stratVars => StrategyTypeOK'
    BY <2>0 DEF stratVars, StrategyTypeOK
  <2>d. UNCHANGED <<queue, bookInvalidate>> => SharedOK'
    BY <2>0
  <2>e. SUFFICES MainTypeOK' /\ NetOK' /\ StrategyTypeOK' /\ SharedOK'
    BY DEF TypeInv, TypeOK
  <2> HIDE DEF NetOK, SharedOK
  <2>1. CASE Start \/ StartWs \/ MainStop
    <3> USE DEF Start, StartWs, MainStop, StopWs, JoinWs, StopLoop, JoinStrategy
    <3>0. (started \in BOOLEAN /\ running \in BOOLEAN /\ wsRunning \in BOOLEAN)'
      BY <2>1, <2>0, Zenon DEF MainTypeOK
    <3>1. MainTypeOK'
      BY <2>1, <2>0, <3>0, RuntimeAssumption DEF MainTypeOK
    <3>2. NetOK'
      BY <2>1, <2>0, <2>b DEF NetOK, NetTypeOK, NetShape
    <3>3. StrategyTypeOK'
      BY <2>1, <2>0, <2>c DEF StrategyTypeOK
    <3> QED
      BY <2>1, <2>d, <3>1, <3>2, <3>3
  <2>2. CASE NetTop \/ NetReadStop \/ NetDisconnect \/ NetRetry
    <3> USE DEF NetTop, NetReadStop, NetDisconnect, NetRetry
    <3>1. NetOK'
      BY <2>2, <2>0, RuntimeAssumption DEF NetOK, NetTypeOK, NetShape
    <3> QED
      BY <2>2, <2>a, <2>c, <2>d, <3>1
  <2>3. CASE NetConnected
    <3>0. snapSent' \in BOOLEAN
      BY <2>3, Zenon DEF NetConnected
    <3>1. NetOK'
      BY <2>3, <2>0, <3>0, RuntimeAssumption DEF NetConnected, NetOK, NetTypeOK, NetShape
    <3>2. SharedOK'
      <4>1. bookInvalidate' \in BOOLEAN
        BY <2>3 DEF NetConnected
      <4> QED
        BY <2>3, <2>0, <4>1 DEF NetConnected, SharedOK
    <3> QED
      BY <2>3, <2>a, <2>c, <3>1, <3>2 DEF NetConnected
  <2>4. ASSUME NEW isSnapshot \in BOOLEAN, NetIgnored(isSnapshot)
        PROVE  MainTypeOK' /\ NetOK' /\ StrategyTypeOK' /\ SharedOK'
    <3>1. NetOK'
      BY <2>4, <2>0, RuntimeAssumption DEF NetIgnored, NetOK, NetTypeOK, NetShape
    <3> QED
      BY <2>4, <2>a, <2>c, <2>d, <3>1 DEF NetIgnored
  <2>5. ASSUME NEW kind \in Kinds, NEW chunks \in 1..MaxChunks,
               NetReceive(kind, chunks)
        PROVE  MainTypeOK' /\ NetOK' /\ StrategyTypeOK' /\ SharedOK'
    <3>1. NetOK'
      BY <2>5, <2>0, RuntimeAssumption DEF NetReceive, NetOK, NetTypeOK, NetShape
    <3> QED
      BY <2>5, <2>a, <2>c, <2>d, <3>1 DEF NetReceive
  <2>6. CASE NetPush
    <3>1. Event \in Events /\ NextChunk /\ nPc \in {"push", "retry"}
      BY <2>6, EventType DEF NetPush
    <3>2. SharedOK'
      BY <2>6, <2>0, <3>1, RuntimeAssumption DEF NetPush, Enqueued, SharedOK
    <3>3. NetOK'
      BY <2>6, <2>0, <3>1, NextChunkType DEF NetPush, NetOK, NetTypeOK, NetShape
    <3> QED
      BY <2>6, <2>a, <2>c, <3>2, <3>3 DEF NetPush
  <2>7. CASE NetDrop
    <3>1. NetOK'
      BY <2>7, <2>0, NextChunkType DEF NetDrop, NetOK, NetTypeOK, NetShape
    <3> QED
      BY <2>7, <2>a, <2>c, <2>d, <3>1 DEF NetDrop
  <2>8. CASE LoopTest \/ LoopIdle \/ DrainEnd
    <3> USE DEF LoopTest, LoopIdle, DrainEnd
    <3>1. StrategyTypeOK'
      BY <2>8, <2>0 DEF StrategyTypeOK
    <3> QED
      BY <2>8, <2>a, <2>b, <2>d, <3>1
  <2>9. CASE LoopInvalidate
    <3>1. bookReady' \in BOOLEAN
      BY <2>9 DEF LoopInvalidate
    <3>2. StrategyTypeOK'
      BY <2>9, <2>0, <3>1 DEF LoopInvalidate, StrategyTypeOK
    <3>3. SharedOK'
      BY <2>9, <2>0 DEF LoopInvalidate, SharedOK
    <3> QED
      BY <2>9, <2>a, <2>b, <3>2, <3>3 DEF LoopInvalidate
  <2>10. CASE LoopPop \/ DrainPop
    <3> USE DEF LoopPop, DrainPop
    <3>1. /\ Head(queue) \in Events /\ ProcessEvent(Head(queue))
          /\ queue # << >> /\ queue' = Tail(queue)
      BY <2>10, PopType
    <3>2. SharedOK'
      BY <2>10, <2>0, <3>1, PopType, RuntimeAssumption DEF SharedOK
    <3>3. StrategyTypeOK'
      BY <2>10, <2>0, <3>1, ProcessEventType DEF StrategyTypeOK
    <3> QED
      BY <2>10, <2>a, <2>b, <3>2, <3>3
  <2>11. CASE UNCHANGED vars
    BY <2>11, <2>a, <2>b, <2>c, <2>d DEF vars
  <2> QED
    BY <2>1, <2>2, <2>3, <2>4, <2>5, <2>6, <2>7, <2>8, <2>9, <2>10, <2>11
       DEF Next, Done, NetOwn, Feed, Strategy
<1> QED
  BY <1>1, <1>2, PTL DEF Spec

\* Type correctness: the queue holds well-formed events and never more of them
\* than it has slots, in every interleaving of the three threads.
THEOREM TypeCorrect == Spec => []TypeOK
PROOF
<1>1. TypeInv => TypeOK
  BY DEF TypeInv
<1> QED
  BY <1>1, TypeInvariant, PTL

\* No event is lost uncounted.
THEOREM NothingUncounted == Spec => []Accounting
PROOF
<1>1. Init => Accounting
  BY DEF Init, Accounting
<1>2. TypeInv /\ Accounting /\ [Next]_vars => Accounting'
  <2> SUFFICES ASSUME TypeInv, Accounting, [Next]_vars PROVE Accounting'
    OBVIOUS
  <2>0. /\ emitted \in Nat /\ processed \in Nat /\ queueFullDrops \in Nat
        /\ Len(queue) \in Nat /\ queue \in Seq(Events)
    BY DEF TypeInv, TypeOK, NetTypeOK, StrategyTypeOK
  <2>1. CASE UNCHANGED <<emitted, processed, queueFullDrops, queue>>
    BY <2>1 DEF Accounting
  <2>2. CASE NetPush
    <3>1. Len(queue') = Len(queue) + 1
      BY <2>2, <2>0, EventType DEF NetPush, Enqueued
    <3> QED
      BY <2>2, <2>0, <3>1 DEF NetPush, Accounting, stratVars
  <2>3. CASE NetDrop
    BY <2>3, <2>0 DEF NetDrop, Accounting, stratVars
  <2>4. CASE LoopPop \/ DrainPop
    <3>1. Len(queue') = Len(queue) - 1
      BY <2>4, PopType DEF LoopPop, DrainPop
    <3> QED
      BY <2>4, <2>0, <3>1 DEF LoopPop, DrainPop, ProcessEvent, Accounting, netVars
  <2> QED
    BY <2>1, <2>2, <2>3, <2>4
       DEF Next, MainStop, Done, NetOwn, Feed, Strategy, Start, StartWs, StopWs, JoinWs,
           StopLoop, JoinStrategy, NetTop, NetConnected, NetDisconnect, NetReadStop,
           NetIgnored, NetReceive, NetRetry, LoopTest, LoopInvalidate, LoopIdle,
           DrainEnd, vars, netVars, stratVars
<1> QED
  BY <1>1, <1>2, TypeInvariant, PTL DEF Spec

-----------------------------------------------------------------------------
(* Shutdown *)

\* Where the other threads can be while the main thread is in start() or
\* stop().  The strategy thread leaves its loop only after the network thread
\* has been joined, so nothing can be pushed behind its final drain.
Lifecycle ==
  /\ running <=> mPc \in {"startWs", "up", "joinWs", "stopLoop"}
  /\ mPc \in {"idle", "startWs", "stopLoop", "joinStrategy"} => nPc = "off"
  /\ mPc = "idle" => sPc = "off" /\ queue = << >>
  /\ sPc \in {"drain", "exited"} => mPc = "joinStrategy"
  /\ sPc = "exited" => queue = << >>

\* The program counters fit the two running flags.
LEMMA LifecycleInvariant == Spec => []Lifecycle
PROOF
<1>1. Init => Lifecycle
  BY DEF Init, Lifecycle
<1>2. TypeInv /\ Lifecycle /\ [Next]_vars => Lifecycle'
  <2> SUFFICES ASSUME TypeInv, Lifecycle, [Next]_vars PROVE Lifecycle'
    OBVIOUS
  <2> USE DEF Lifecycle, mainVars, netVars, stratVars
  <2>1. CASE Start
    BY <2>1 DEF Start
  <2>2. CASE StartWs
    BY <2>2 DEF StartWs
  <2>3. CASE StopWs
    BY <2>3 DEF StopWs
  <2>4. CASE JoinWs
    BY <2>4 DEF JoinWs
  <2>5. CASE StopLoop
    BY <2>5 DEF StopLoop
  <2>6. CASE JoinStrategy
    BY <2>6 DEF JoinStrategy
  <2>7. CASE nPc # "off" /\ nPc' # "off" /\ UNCHANGED <<mainVars, stratVars>>
    BY <2>7
  <2>8. CASE NetOwn \/ Feed
    <3>1. UNCHANGED <<mainVars, stratVars>>
      BY <2>8 DEF NetOwn, Feed, NetTop, NetReadStop, NetPush, NetRetry, NetDrop,
                  NetConnected, NetDisconnect, NetIgnored, NetReceive
    <3>2. nPc # "off" /\ nPc' # "off"
      BY <2>8 DEF NetOwn, Feed, NetTop, NetReadStop, NetPush, NetRetry, NetDrop,
                  NextChunk, NetConnected, NetDisconnect, NetIgnored, NetReceive
    <3> QED
      BY <2>7, <3>1, <3>2
  <2>9. CASE LoopTest
    BY <2>9 DEF LoopTest, TypeInv, TypeOK, MainTypeOK
  <2>10. CASE LoopInvalidate \/ LoopIdle \/ LoopPop \/ DrainPop
    BY <2>10 DEF LoopInvalidate, LoopIdle, LoopPop, DrainPop
  <2>11. CASE DrainEnd
    BY <2>11 DEF DrainEnd
  <2>12. CASE UNCHANGED vars
    BY <2>12 DEF vars
  <2> QED
    BY <2>1, <2>2, <2>3, <2>4, <2>5, <2>6, <2>8, <2>9, <2>10, <2>11, <2>12
       DEF Next, MainStop, Done, Strategy
<1> QED
  BY <1>1, <1>2, TypeInvariant, PTL DEF Spec

\* Once stop() has returned nothing runs and nothing is left in the queue.
THEOREM StopLeavesNothing == Spec => []StopDrains
PROOF
<1>1. Lifecycle => StopDrains
  BY DEF Lifecycle, StopDrains
<1> QED
  BY <1>1, LifecycleInvariant, PTL

-----------------------------------------------------------------------------
(* Reconnection *)

\* Between the exchange of bookInvalidate_ and the pop that follows it nothing
\* has been processed late.
LateBound == late <= 1 /\ (sPc = "pop" => late = 0)

\* After a reconnect at most one more event is processed before the book is
\* invalidated.
THEOREM InvalidationPrompt == Spec => []InvalidateIsPrompt
PROOF
<1>1. Init => LateBound
  BY DEF Init, LateBound
<1>2. LateBound /\ [Next]_vars => LateBound'
  <2> SUFFICES ASSUME LateBound, [Next]_vars PROVE LateBound'
    OBVIOUS
  <2>1. CASE UNCHANGED <<sPc, late>>
    BY <2>1 DEF LateBound
  <2>2. CASE LoopInvalidate
    BY <2>2 DEF LoopInvalidate, LateBound
  <2>3. CASE LoopPop
    BY <2>3 DEF LoopPop, LateBound
  <2>4. CASE sPc' # "pop" /\ UNCHANGED late
    BY <2>4 DEF LateBound
  <2> QED
    BY <2>1, <2>2, <2>3, <2>4
       DEF Next, MainStop, Done, NetOwn, Feed, Strategy, Start, StartWs, StopWs, JoinWs,
           StopLoop, JoinStrategy, NetTop, NetConnected, NetDisconnect, NetReadStop,
           NetIgnored, NetReceive, NetPush, NetDrop, NetRetry, LoopTest, LoopIdle,
           DrainPop, DrainEnd, vars, stratVars
<1>3. LateBound => InvalidateIsPrompt
  BY DEF LateBound, InvalidateIsPrompt
<1> QED
  BY <1>1, <1>2, <1>3, PTL DEF Spec

\* The connections of the book, of the queued events from the oldest to the
\* newest, and of the socket never decrease in that order.
ConnOrder ==
  /\ bookConn <= conn
  /\ \A i \in 1..Len(queue) : bookConn <= queue[i].conn /\ queue[i].conn <= conn
  /\ \A i, j \in 1..Len(queue) : i <= j => queue[i].conn <= queue[j].conn

\* Book, queue and network thread are in the order of connections.
LEMMA ConnOrderInvariant == Spec => []ConnOrder
PROOF
<1>1. Init => ConnOrder
  BY DEF Init, ConnOrder
<1>2. TypeInv /\ ConnOrder /\ [Next]_vars => ConnOrder'
  <2> SUFFICES ASSUME TypeInv, ConnOrder, [Next]_vars PROVE ConnOrder'
    OBVIOUS
  <2>0. /\ conn \in Nat /\ bookConn \in Nat /\ queue \in Seq(Events)
        /\ Len(queue) \in Nat
        /\ \A i \in 1..Len(queue) : queue[i].conn \in Nat
    <3>1. conn \in Nat /\ bookConn \in Nat /\ queue \in Seq(Events) /\ Len(queue) \in Nat
      BY RuntimeAssumption DEF TypeInv, TypeOK, NetTypeOK, StrategyTypeOK
    <3>2. \A i \in 1..Len(queue) : queue[i] \in Events
      BY <3>1
    <3>3. \A e \in Events : e.conn \in Nat
      BY RuntimeAssumption DEF Events
    <3> QED
      BY <3>1, <3>2, <3>3
  <2>1. CASE UNCHANGED <<bookConn, conn, queue>>
    BY <2>1 DEF ConnOrder
  <2>2. CASE NetConnected
    <3>1. conn' = conn + 1 /\ UNCHANGED <<bookConn, queue>>
      BY <2>2 DEF NetConnected, stratVars
    <3> QED
      BY <3>1, <2>0 DEF ConnOrder
  <2>3. CASE NetPush
    <3>1. queue' = Append(queue, Event) /\ Event \in Events /\ Event.conn = conn
      BY <2>3, EventType DEF NetPush, Enqueued
    <3>2. UNCHANGED <<bookConn, conn>>
      BY <2>3 DEF NetPush, stratVars
    <3>3. /\ Len(queue') = Len(queue) + 1
          /\ \A i \in 1..Len(queue) : queue'[i] = queue[i]
          /\ queue'[Len(queue) + 1] = Event
      BY <3>1, <2>0
    <3> HIDE DEF Event
    <3>4. \A i \in 1..Len(queue') : \/ i \in 1..Len(queue) /\ queue'[i] = queue[i]
                                    \/ i = Len(queue) + 1 /\ queue'[i] = Event
      BY <3>3, <2>0
    <3>5. \A i \in 1..Len(queue') : queue'[i].conn \in Nat /\ bookConn <= queue'[i].conn
                                    /\ queue'[i].conn <= conn
      BY <3>1, <3>4, <2>0 DEF ConnOrder
    <3>6. \A i, j \in 1..Len(queue') : i <= j => queue'[i].conn <= queue'[j].conn
      BY <3>1, <3>4, <3>5, <2>0 DEF ConnOrder
    <3> QED
      BY <3>2, <3>5, <3>6 DEF ConnOrder
  <2>4. CASE LoopPop \/ DrainPop
    <3>1. /\ queue # << >> /\ queue' = Tail(queue) /\ conn' = conn
          /\ bookConn' \in {bookConn, Head(queue).conn}
      BY <2>4 DEF LoopPop, DrainPop, ProcessEvent, netVars
    <3>2. /\ Head(queue) = queue[1] /\ Len(queue') = Len(queue) - 1 /\ Len(queue) >= 1
          /\ \A i \in 1..Len(queue') : queue'[i] = queue[i + 1]
      BY <3>1, PopType
    <3>3. \A i \in 1..Len(queue') : i + 1 \in 1..Len(queue) /\ 1 <= i + 1
      BY <3>2, <2>0
    <3>4. bookConn' <= conn /\ 1 \in 1..Len(queue)
      BY <3>1, <3>2, <2>0 DEF ConnOrder
    <3>5. \A i \in 1..Len(queue') :
            /\ bookConn <= queue[i + 1].conn /\ queue[1].conn <= queue[i + 1].conn
            /\ queue[i + 1].conn <= conn
      BY <3>3, <3>4 DEF ConnOrder
    <3>6. \A i, j \in 1..Len(queue') : i <= j => queue[i + 1].conn <= queue[j + 1].conn
      BY <3>3, <3>2, <2>0 DEF ConnOrder
    <3> QED
      BY <3>1, <3>2, <3>4, <3>5, <3>6 DEF ConnOrder
  <2> QED
    BY <2>1, <2>2, <2>3, <2>4
       DEF Next, MainStop, Done, NetOwn, Feed, Strategy, Start, StartWs, StopWs, JoinWs,
           StopLoop, JoinStrategy, NetTop, NetDisconnect, NetReadStop, NetIgnored,
           NetReceive, NetDrop, NetRetry, LoopTest, LoopInvalidate, LoopIdle,
           DrainEnd, vars, netVars, stratVars
<1> QED
  BY <1>1, <1>2, TypeInvariant, PTL DEF Spec

\* The book never goes back to an earlier connection.
THEOREM BookNeverGoesBack == Spec => NoOlderOverNewer
PROOF
<1> DEFINE Forward == /\ bookConn' >= bookConn
                      /\ Applied => Head(queue).conn >= bookConn
<1>1. TypeInv /\ ConnOrder /\ [Next]_vars => [Forward]_vars
  <2> SUFFICES ASSUME TypeInv, ConnOrder, [Next]_vars PROVE Forward \/ UNCHANGED vars
    OBVIOUS
  <2>0. bookConn \in Nat /\ Len(queue) \in Nat /\ queue \in Seq(Events)
    BY RuntimeAssumption DEF TypeInv, TypeOK, StrategyTypeOK
  <2>1. CASE UNCHANGED <<bookConn, queue>>
    BY <2>1, <2>0 DEF Applied, PopStep
  <2>2. CASE NetPush
    <3>1. Len(queue') = Len(queue) + 1
      BY <2>2, <2>0, EventType DEF NetPush, Enqueued
    <3> QED
      BY <2>2, <2>0, <3>1 DEF NetPush, stratVars, Applied, PopStep
  <2>3. CASE LoopPop \/ DrainPop
    <3>1. queue # << >> /\ bookConn' \in {bookConn, Head(queue).conn}
      BY <2>3 DEF LoopPop, DrainPop, ProcessEvent
    <3>2. Head(queue).conn >= bookConn /\ Head(queue).conn \in Nat
      BY <3>1, PopType, RuntimeAssumption DEF ConnOrder, Events
    <3> QED
      BY <2>0, <3>1, <3>2
  <2> QED
    BY <2>1, <2>2, <2>3
       DEF Next, MainStop, Done, NetOwn, Feed, Strategy, Start, StartWs, StopWs, JoinWs,
           StopLoop, JoinStrategy, NetTop, NetConnected, NetDisconnect, NetReadStop,
           NetIgnored, NetReceive, NetDrop, NetRetry, LoopTest, LoopInvalidate, LoopIdle,
           DrainEnd, vars, netVars, stratVars
<1> QED
  BY <1>1, TypeInvariant, ConnOrderInvariant, PTL DEF Spec, NoOlderOverNewer

\* On the first connection the book is ready exactly when it has a snapshot:
\* only a reconnect asks for the book to be invalidated.
FirstReady ==
  conn <= 1 => ~bookInvalidate /\ (bookReady <=> bookConn # 0)

\* What is true on the first connection stays true until the second.
LEMMA FirstReadyInvariant == Spec => []FirstReady
PROOF
<1>1. Init => FirstReady
  BY DEF Init, FirstReady
<1>2. TypeInv /\ FirstReady /\ [Next]_vars => FirstReady'
  <2> SUFFICES ASSUME TypeInv, FirstReady, [Next]_vars PROVE FirstReady'
    OBVIOUS
  <2>0. conn \in Nat
    BY RuntimeAssumption DEF TypeInv, TypeOK, NetTypeOK
  <2>1. CASE UNCHANGED <<conn, bookInvalidate, bookReady, bookConn>>
    BY <2>1 DEF FirstReady
  <2>2. CASE NetConnected
    <3>1. /\ conn' = conn + 1 /\ bookInvalidate' = (bookInvalidate \/ conn > 0)
          /\ UNCHANGED <<bookReady, bookConn>>
      BY <2>2 DEF NetConnected, stratVars
    <3>2. conn' <= 1 => conn <= 1 /\ ~(conn > 0)
      BY <3>1, <2>0
    <3> QED
      BY <3>1, <3>2, Zenon DEF FirstReady
  <2>3. CASE LoopInvalidate
    <3>1. /\ bookInvalidate' = FALSE /\ bookReady' = (bookReady /\ ~bookInvalidate)
          /\ UNCHANGED <<conn, bookConn>>
      BY <2>3 DEF LoopInvalidate, netVars
    <3> QED
      BY <3>1, Zenon DEF FirstReady
  <2>4. CASE LoopPop \/ DrainPop
    <3>1. queue # << >> /\ ProcessEvent(Head(queue)) /\ UNCHANGED <<conn, bookInvalidate>>
      BY <2>4 DEF LoopPop, DrainPop, netVars
    <3>2. Head(queue).conn # 0
      BY <3>1, PopType, RuntimeAssumption DEF Events
    <3> QED
      BY <3>1, <3>2, Zenon DEF ProcessEvent, FirstReady
  <2> QED
    BY <2>1, <2>2, <2>3, <2>4
       DEF Next, MainStop, Done, NetOwn, Feed, Strategy, Start, StartWs, StopWs, JoinWs,
           StopLoop, JoinStrategy, NetTop, NetDisconnect, NetReadStop, NetIgnored,
           NetReceive, NetPush, NetDrop, NetRetry, LoopTest, LoopIdle,
           DrainEnd, vars, netVars, stratVars
<1> QED
  BY <1>1, <1>2, TypeInvariant, PTL DEF Spec

\* On the first connection an l2update is applied exactly when the snapshot has
\* been processed before it.
THEOREM FirstInSync == Spec => FirstConnectionSynced
PROOF
<1> DEFINE InSync == conn = 1 => /\ Applied => bookConn = 1
                                 /\ Dropped => bookConn = 0
<1>1. TypeInv /\ ConnOrder /\ FirstReady /\ [Next]_vars => [InSync]_vars
  <2> SUFFICES ASSUME TypeInv, ConnOrder, FirstReady, [Next]_vars, conn = 1, PopStep
               PROVE  /\ Applied => bookConn = 1
                      /\ Dropped => bookConn = 0
    BY DEF Applied, Dropped
  <2>0. /\ bookConn \in Nat /\ Len(queue) \in Nat /\ queue \in Seq(Events)
        /\ preSnapshotDrops \in Nat
    BY RuntimeAssumption DEF TypeInv, TypeOK, StrategyTypeOK
  <2>1. bookConn \in {0, 1} /\ (bookReady <=> bookConn = 1)
    <3>1. bookConn \in {0, 1}
      BY <2>0 DEF ConnOrder
    <3> QED
      BY <3>1 DEF FirstReady
  <2>2. CASE UNCHANGED queue
    BY <2>2, <2>0 DEF PopStep
  <2>3. CASE NetPush
    <3>1. Len(queue') = Len(queue) + 1
      BY <2>3, <2>0, EventType DEF NetPush, Enqueued
    <3> QED
      BY <2>0, <3>1 DEF PopStep
  <2>4. CASE LoopPop \/ DrainPop
    <3>1. preSnapshotDrops' = preSnapshotDrops +
            (IF Head(queue).kind = "l2" /\ ~bookReady THEN 1 ELSE 0)
      BY <2>4 DEF LoopPop, DrainPop, ProcessEvent
    <3> QED
      BY <2>0, <2>1, <3>1 DEF Applied, Dropped
  <2> QED
    BY <2>2, <2>3, <2>4
       DEF Next, MainStop, Done, NetOwn, Feed, Strategy, Start, StartWs, StopWs, JoinWs,
           StopLoop, JoinStrategy, NetTop, NetConnected, NetDisconnect, NetReadStop,
           NetIgnored, NetReceive, NetDrop, NetRetry, LoopTest, LoopInvalidate, LoopIdle,
           DrainEnd, vars, netVars, stratVars
<1> QED
  BY <1>1, TypeInvariant, ConnOrderInvariant, FirstReadyInvariant, PTL
     DEF Spec, FirstConnectionSynced

=============================================================================
