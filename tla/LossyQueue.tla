----------------------------- MODULE LossyQueue -----------------------------
(***************************************************************************)
(* What a stage of the capture chain promises about the chunks that enter  *)
(* it, numbered in the order they arrive: it holds at most Capacity of     *)
(* them, hands them on in order and at most once, and may refuse a chunk   *)
(* when it arrives but never gives one up afterwards.                      *)
(***************************************************************************)
EXTENDS Integers, Sequences

CONSTANT Capacity

VARIABLES
  offered,  \* number of the latest chunk to arrive
  inside,   \* the chunks the stage holds, oldest first
  last      \* number of the latest chunk handed on

vars == <<offered, inside, last>>

Init == offered = 0 /\ inside = <<>> /\ last = 0

Accept ==
  /\ Len(inside) < Capacity
  /\ offered' = offered + 1
  /\ inside' = Append(inside, offered')
  /\ UNCHANGED last

Refuse ==
  /\ offered' = offered + 1
  /\ UNCHANGED <<inside, last>>

HandOn ==
  /\ inside # <<>>
  /\ last' = Head(inside)
  /\ inside' = Tail(inside)
  /\ UNCHANGED offered

Next == Accept \/ Refuse \/ HandOn

Spec == Init /\ [][Next]_vars

-----------------------------------------------------------------------------
(* What is handed on next is newer than what was, and nothing held is      *)
(* newer than the latest arrival: order is kept and nothing is repeated.   *)
InOrder ==
  /\ \A i \in 1 .. Len(inside) : last < inside[i] /\ inside[i] <= offered
  /\ \A i, j \in 1 .. Len(inside) : i < j => inside[i] < inside[j]

=============================================================================
