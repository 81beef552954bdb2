-------------------------------- MODULE Fifo --------------------------------
(***************************************************************************)
(* What block_queue (log/block_queue.h) promises: a bounded queue.  Items  *)
(* come out in the order they went in, none twice, none is dropped once it *)
(* is in, and there are never more than Size.                              *)
(***************************************************************************)
EXTENDS Naturals, Sequences

CONSTANTS Items, Size

VARIABLE items

Init == items = <<>>

Put(x) == Len(items) < Size /\ items' = Append(items, x)
Get == items # <<>> /\ items' = Tail(items)

Next == Get \/ \E x \in Items : Put(x)

Spec == Init /\ [][Next]_items
=============================================================================
