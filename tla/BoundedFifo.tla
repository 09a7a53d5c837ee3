---------------------------- MODULE BoundedFifo ----------------------------
(***************************************************************************)
(* What SPSCQueue promises to its two threads: a first-in first-out queue  *)
(* of at most Capacity values.  The lock-free ring of module SPSCQueue is  *)
(* shown to implement this specification, and module Runtime uses the      *)
(* queue in this form.                                                     *)
(***************************************************************************)
EXTENDS Naturals, Sequences

CONSTANTS Capacity,  \* the number of slots of the ring
          Values,    \* what may be queued
          NoValue    \* what the consumer holds before its first value

VARIABLES items,     \* the queued values, oldest first
          got        \* the value handed to the consumer last

fifoVars == <<items, got>>

Init ==
  /\ items = << >>
  /\ got = NoValue

Put(v) ==
  /\ Len(items) < Capacity
  /\ items' = Append(items, v)
  /\ UNCHANGED got

Get ==
  /\ items # << >>
  /\ got' = Head(items)
  /\ items' = Tail(items)

Next == Get \/ \E v \in Values : Put(v)

Spec == Init /\ [][Next]_fifoVars

=============================================================================
