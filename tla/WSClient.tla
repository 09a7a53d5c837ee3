------------------------------ MODULE WSClient ------------------------------
(***************************************************************************)
(* The clock of md/coinbase_ws_client.cpp: how long run() sleeps between   *)
(* two dials, how long it listens to a silent connection, and how long     *)
(* stop() waits for it.  What the callbacks do is in module Runtime.       *)
(*                                                                         *)
(* Time is discrete.  Tick lets a unit of it pass, and only while the      *)
(* network thread is blocked: in a dial, which has no limit, in a recv, in *)
(* the callback's retries, or in a slice of the back-off sleep, which have *)
(* one.  What the thread computes in between takes no time.                *)
(*                                                                         *)
(* SO_RCVTIMEO limits one recv, not ws.read(): a message arrives in pieces *)
(* and every piece starts a new limit.  That the limit ends the blocking   *)
(* read of Boost.Asio at all is an assumption, taken from the code's       *)
(* comment.  The variables quiet, stopAge, sinceDial and fails are not in  *)
(* the code.                                                               *)
(***************************************************************************)
EXTENDS Naturals

CONSTANTS HeartbeatTimeout,  \* cfg_.heartbeatTimeout (30 s)
          BackoffInitial,    \* cfg_.backoffInitial (1 s)
          BackoffMax,        \* cfg_.backoffMax (30 s)
          Slice,             \* a slice of the back-off sleep (100 ms)
          ReadLimit,         \* SO_RCVTIMEO (1 s)
          PushLimit,         \* longest onMessage_: 200 retries (20 ms)
          MaxPieces,         \* bound: pieces of one message
          MaxFails           \* bound: exceptions in a row that are counted

ASSUME WSAssumption ==
  /\ {HeartbeatTimeout, BackoffInitial, Slice, ReadLimit, MaxPieces, MaxFails}
       \subseteq Nat \ {0}
  /\ BackoffMax \in Nat /\ PushLimit \in Nat
  /\ BackoffInitial <= BackoffMax
  /\ PushLimit <= HeartbeatTimeout

VARIABLES
  running,    \* running_
  pc,         \* step of the network thread
  backoff,    \* backoff and remaining of run()
  remaining,
  limit,      \* what is left of the limit of the blocking call
  pieces,     \* pieces of the current message in the buffer
  silent,     \* now - lastSeen
  quiet,      \* time since the last message that parsed, or the subscription
  stopAge,    \* time since stop() was called, dials not counted
  sinceDial,  \* time since the last dial began
  fails       \* exceptions since the last subscription

vars == <<running, pc, backoff, remaining, limit, pieces, silent, quiet, stopAge,
          sinceDial, fails>>

Least(a, b) == IF a <= b THEN a ELSE b
Greatest(a, b) == IF a >= b THEN a ELSE b

\* The clocks of the properties stop at a bound of their own.
MaxAge == HeartbeatTimeout + MaxPieces * ReadLimit + BackoffMax + 1
Later(t) == Least(t + 1, MaxAge)

TypeOK ==
  /\ running \in BOOLEAN
  /\ pc \in {"off", "top", "dial", "test", "read", "callback", "sleep", "exited"}
  /\ backoff \in BackoffInitial..BackoffMax
  /\ remaining \in 0..BackoffMax
  /\ limit \in 0..Greatest(ReadLimit, Greatest(Slice, PushLimit))
  /\ pieces \in 0..(MaxPieces - 1)
  /\ {silent, quiet, stopAge, sinceDial} \subseteq 0..MaxAge
  /\ fails \in 0..MaxFails

Init ==
  /\ running = FALSE /\ pc = "off"
  /\ backoff = BackoffInitial /\ remaining = 0 /\ limit = 0 /\ pieces = 0
  /\ silent = 0 /\ quiet = 0 /\ stopAge = 0 /\ sinceDial = MaxAge /\ fails = 0

-----------------------------------------------------------------------------
(* The owner of the client *)

\* start(): running_.exchange(true) and the thread, which begins run().
Start ==
  /\ pc = "off" /\ ~running
  /\ running' = TRUE /\ pc' = "top"
  /\ backoff' = BackoffInitial
  /\ sinceDial' = MaxAge /\ fails' = 0
  /\ UNCHANGED <<remaining, limit, pieces, silent, quiet, stopAge>>

\* stop(), up to the join.
Stop ==
  /\ running
  /\ running' = FALSE /\ stopAge' = 0
  /\ UNCHANGED <<pc, backoff, remaining, limit, pieces, silent, quiet, sinceDial, fails>>

\* stop() joins the thread and returns.
Join ==
  /\ pc = "exited" /\ ~running
  /\ pc' = "off" /\ stopAge' = 0
  /\ UNCHANGED <<running, backoff, remaining, limit, pieces, silent, quiet, sinceDial,
                 fails>>

-----------------------------------------------------------------------------
(* run(): the outer loop *)

Top ==
  /\ pc = "top"
  /\ IF running
       THEN pc' = "dial" /\ sinceDial' = 0
       ELSE pc' = "exited" /\ UNCHANGED sinceDial
  /\ UNCHANGED <<running, backoff, remaining, limit, pieces, silent, quiet, stopAge, fails>>

\* Resolving, connecting, the handshakes and the subscription succeed.
Connected ==
  /\ pc = "dial"
  /\ pc' = "test"
  /\ backoff' = BackoffInitial
  /\ silent' = 0 /\ quiet' = 0 /\ pieces' = 0 /\ fails' = 0
  /\ UNCHANGED <<running, remaining, limit, stopAge, sinceDial>>

\* Mutant: the whole back-off is one sleep.
NextSliceWhole(left) == left

\* The slice slept next.
NextSlice(left) == Least(left, Slice)

\* The handler of an exception, up to the first slice of its sleep.
Caught ==
  /\ pieces' = 0 /\ silent' = 0 /\ quiet' = 0
  /\ fails' = Least(fails + 1, MaxFails)
  /\ IF running
       THEN pc' = "sleep" /\ remaining' = backoff /\ limit' = NextSlice(backoff)
       ELSE pc' = "exited" /\ UNCHANGED <<remaining, limit>>
  /\ UNCHANGED <<running, backoff, stopAge, sinceDial>>

DialFails == pc = "dial" /\ Caught

\* Mutant: the doubled back-off is not capped.
DoubledUncapped(b) == b * 2

\* Mutant: every pause is the first one's length.
DoubledNever(b) == b

\* The back-off after this one.
Doubled(b) == Least(b * 2, BackoffMax)

\* Mutant: remaining is not counted down.
SliceEndEndless ==
  /\ pc = "sleep" /\ limit = 0
  /\ IF remaining > 0 /\ running
       THEN /\ limit' = NextSlice(remaining)
            /\ UNCHANGED <<pc, remaining, backoff>>
       ELSE /\ pc' = "top" /\ remaining' = 0 /\ backoff' = Doubled(backoff)
            /\ UNCHANGED limit
  /\ UNCHANGED <<running, pieces, silent, quiet, stopAge, sinceDial, fails>>

\* A slice is over: the next one, or the end of the sleep, early if running_
\* has been cleared.
SliceEnd ==
  /\ pc = "sleep" /\ limit = 0
  /\ LET left == remaining - NextSlice(remaining)
     IN IF left > 0 /\ running
          THEN /\ remaining' = left /\ limit' = NextSlice(left)
               /\ UNCHANGED <<pc, backoff>>
          ELSE /\ pc' = "top" /\ remaining' = 0 /\ backoff' = Doubled(backoff)
               /\ UNCHANGED limit
  /\ UNCHANGED <<running, pieces, silent, quiet, stopAge, sinceDial, fails>>

-----------------------------------------------------------------------------
(* run(): the read loop *)

\* The loop's test of running_ and of the dead-man timer.  Either end of the
\* loop leaves the connection's scope and goes straight to the outer loop.
ReadTest ==
  /\ pc = "test"
  /\ IF running /\ silent <= HeartbeatTimeout
       THEN /\ pc' = "read" /\ limit' = ReadLimit
            /\ UNCHANGED <<pieces, silent, quiet>>
       ELSE /\ pc' = "top" /\ pieces' = 0 /\ silent' = 0 /\ quiet' = 0
            /\ UNCHANGED limit
  /\ UNCHANGED <<running, backoff, remaining, stopAge, sinceDial, fails>>

\* The recv limit passes: the buffer is kept, mid-frame too.
ReadTimeout ==
  /\ pc = "read" /\ limit = 0
  /\ pc' = "test"
  /\ UNCHANGED <<running, backoff, remaining, limit, pieces, silent, quiet, stopAge,
                 sinceDial, fails>>

\* A piece arrives that does not complete the message: ws.read() goes on.
ReadPiece ==
  /\ pc = "read" /\ pieces < MaxPieces - 1
  /\ pieces' = pieces + 1 /\ limit' = ReadLimit
  /\ UNCHANGED <<running, pc, backoff, remaining, silent, quiet, stopAge, sinceDial, fails>>

\* The message is complete and parses: lastSeen is now, and the callback, which
\* may retry a full queue, is called.
ReadMessage(busy) ==
  /\ pc = "read"
  /\ pc' = "callback" /\ limit' = busy
  /\ pieces' = 0 /\ silent' = 0 /\ quiet' = 0
  /\ UNCHANGED <<running, backoff, remaining, stopAge, sinceDial, fails>>

CallbackEnd ==
  /\ pc = "callback" /\ limit = 0
  /\ pc' = "test"
  /\ UNCHANGED <<running, backoff, remaining, limit, pieces, silent, quiet, stopAge,
                 sinceDial, fails>>

\* Mutant: a message that does not parse counts as a sign of life.
ReadParseErrorSeen ==
  /\ pc = "read"
  /\ pc' = "test" /\ pieces' = 0 /\ silent' = 0
  /\ UNCHANGED <<running, backoff, remaining, limit, quiet, stopAge, sinceDial, fails>>

\* The message is complete and does not parse: lastSeen stays.
ReadParseError ==
  /\ pc = "read"
  /\ pc' = "test" /\ pieces' = 0
  /\ UNCHANGED <<running, backoff, remaining, limit, silent, quiet, stopAge, sinceDial,
                 fails>>

\* Any other error of the read is thrown.
ReadFails == pc = "read" /\ Caught

-----------------------------------------------------------------------------
\* The blocking calls that have a limit, and the time still left to them.
Limited == pc \in {"read", "callback", "sleep"} /\ limit > 0

Tick ==
  /\ pc = "dial" \/ Limited
  /\ limit' = IF Limited THEN limit - 1 ELSE limit
  /\ IF pc \in {"read", "callback"}
       THEN silent' = Later(silent) /\ quiet' = Later(quiet)
       ELSE UNCHANGED <<silent, quiet>>
  /\ stopAge' = IF ~running /\ pc # "dial" THEN Later(stopAge) ELSE stopAge
  /\ sinceDial' = Later(sinceDial)
  /\ UNCHANGED <<running, pc, backoff, remaining, pieces, fails>>

\* What the thread does by itself, and what depends on the other end.
Thread == Top \/ SliceEnd \/ ReadTest \/ ReadTimeout \/ CallbackEnd

Peer ==
  \/ Connected \/ DialFails
  \/ ReadPiece \/ ReadParseError \/ ReadFails
  \/ \E busy \in 0..PushLimit : ReadMessage(busy)

Next == Start \/ Stop \/ Join \/ Thread \/ Peer \/ Tick

Spec == Init /\ [][Next]_vars

\* The operating system runs the thread and time passes.  Nothing is assumed of
\* the other end: a dial may block for ever.
FairSpec == Spec /\ WF_vars(Thread) /\ WF_vars(Tick)

-----------------------------------------------------------------------------
(* Correctness *)

\* The initial back-off doubled k times.
Doublings[k \in 0..MaxFails] == IF k = 0 THEN BackoffInitial ELSE 2 * Doublings[k - 1]

\* The pause before the next dial: after k exceptions in a row the initial
\* back-off doubled k - 1 times, up to its maximum; after a connection that went
\* silent there is no pause, but it has lasted the heartbeat timeout.
Pause ==
  IF fails = 0 THEN HeartbeatTimeout
  ELSE Least(Doublings[fails - 1], BackoffMax)

\* The exchange is not hammered: dials that keep failing, connections that
\* drop at once, and silent ones in any mixture are at least the documented
\* pause apart; a subscription and nothing else resets it.
DialsPaced == [][Top /\ running => sinceDial >= Pause]_vars

\* The dead-man timer: however the messages are cut into pieces, and also while
\* everything that arrives fails to parse, no connection without a valid
\* message is listened to for longer than the heartbeat timeout and one read.
SilenceEnds ==
  quiet <= HeartbeatTimeout + MaxPieces * ReadLimit

\* "so stop() isn't held up by a long backoff": after stop() the thread is gone
\* within a slice if it was asleep, and within one read and one callback if it
\* was reading; only a dial takes longer.
StopPrompt ==
  stopAge <= IF pc = "sleep" THEN Slice
             ELSE Greatest(Slice, MaxPieces * ReadLimit + PushLimit)

\* The client comes back: a back-off ends in a dial, and a connection silent for
\* longer than the heartbeat timeout is heard from or given up, unless stopped.
Redials ==
  /\ (pc = "sleep") ~> (pc = "dial" \/ ~running)
  /\ (quiet > HeartbeatTimeout) ~> (quiet = 0 \/ ~running)

=============================================================================
