-------------------------------- MODULE Fifo --------------------------------
(* What a queue of pointers promises: items come out in the order they went  *)
(* in, each once.  A Dequeue that finds nothing to hand over is no step.     *)
EXTENDS Sequences

CONSTANTS Items, NoItem

VARIABLES contents, out

Init == contents = <<>> /\ out = NoItem

Enqueue(x) == contents' = Append(contents, x) /\ UNCHANGED out

Dequeue ==
  /\ contents # <<>>
  /\ out' = Head(contents)
  /\ contents' = Tail(contents)

Next == (\E x \in Items : Enqueue(x)) \/ Dequeue

Spec == Init /\ [][Next]_<<contents, out>>
=============================================================================
