----------------------------- MODULE MPSCQueue ------------------------------
(***************************************************************************)
(* The lock-free queue with many producers and one consumer that carries   *)
(* packets to a WorldSocket, metrics and script messages: MPSCQueue.h.     *)
(*                                                                         *)
(* Every atomic operation is one step, in a sequentially consistent        *)
(* interleaving (the acquire and release orders of the code give the       *)
(* consumer the fields of every node it reaches).  Deleted nodes may be    *)
(* allocated again at once, so an address can come back.                   *)
(***************************************************************************)
EXTENDS Integers, Sequences, FiniteSets

CONSTANTS
  Producers,
  Nodes,      \* addresses of Node objects
  Items,      \* the T* handed to Enqueue
  NoItem,
  Null        \* nullptr

ASSUME ConstantsAssumption ==
  /\ IsFiniteSet(Nodes)
  /\ NoItem \notin Items
  /\ Null \notin Nodes
  /\ Nodes # {}

VARIABLES
  _head,
  _tail,
  Data,       \* Node::Data
  Next,       \* Node::Next
  allocated,  \* the nodes that are not deleted
  producer,   \* where each producer is in Enqueue
  node,       \* its local node
  prevHead,   \* its local prevHead
  closing,    \* the owner has entered the destructor
  consumer,   \* where the consumer is in Dequeue
  tail, next, \* its locals
  result,     \* what the last successful Dequeue returned
  chain       \* history: the nodes from _tail on, in the order of the exchanges

producerVars == <<producer, node, prevHead>>
consumerVars == <<closing, consumer, tail, next, result>>
vars == <<_head, _tail, Data, Next, allocated, producerVars, consumerVars, chain>>

\* The constructor.
Init ==
  \E n \in Nodes :
    /\ _head = n
    /\ _tail = n
    /\ allocated = {n}
    /\ chain = <<n>>
    /\ Data = [m \in Nodes |-> NoItem]
    /\ Next = [m \in Nodes |-> Null]
    /\ producer = [p \in Producers |-> "idle"]
    /\ node = [p \in Producers |-> Null]
    /\ prevHead = [p \in Producers |-> Null]
    /\ closing = FALSE
    /\ consumer = "idle"
    /\ tail = Null
    /\ next = Null
    /\ result = NoItem

\* The items that were given to Enqueue and have not come out.  A caller does
\* not enqueue a pointer that is still in the queue.
Contents == [i \in 1 .. (Len(chain) - 1) |-> Data[chain[i + 1]]]
Held == {Contents[i] : i \in DOMAIN Contents}

-----------------------------------------------------------------------------
(* Enqueue.                                                                 *)

\* new Node(input), then the exchange of _head.  Nobody sees the node before.
Exchange(p, n, x) ==
  /\ producer[p] = "idle"
  /\ ~closing
  /\ n \notin allocated
  /\ allocated' = allocated \cup {n}
  /\ Data' = [Data EXCEPT ![n] = x]
  /\ Next' = [Next EXCEPT ![n] = Null]
  /\ node' = [node EXCEPT ![p] = n]
  /\ prevHead' = [prevHead EXCEPT ![p] = _head]
  /\ _head' = n
  /\ producer' = [producer EXCEPT ![p] = "link"]
  /\ chain' = Append(chain, n)
  /\ UNCHANGED <<_tail, consumerVars>>

\* prevHead->Next.store(node).
LinkToHead(p) == [Next EXCEPT ![_head] = node[p]]
Linked(p) == [Next EXCEPT ![prevHead[p]] = node[p]]

Link(p) ==
  /\ producer[p] = "link"
  /\ Next' = Linked(p)
  /\ producer' = [producer EXCEPT ![p] = "idle"]
  /\ node' = [node EXCEPT ![p] = Null]
  /\ prevHead' = [prevHead EXCEPT ![p] = Null]
  /\ UNCHANGED <<_head, _tail, Data, allocated, consumerVars, chain>>

-----------------------------------------------------------------------------
(* Dequeue.                                                                 *)

\* The loads of _tail and of its Next: the call ends here if that is null,
\* and with it the loop of the destructor.
Load ==
  /\ consumer = "idle"
  /\ ~closing \/ Next[_tail] # Null
  /\ tail' = _tail
  /\ next' = Next[_tail]
  /\ consumer' = IF next' = Null THEN "idle" ELSE "take"
  /\ UNCHANGED <<_head, _tail, Data, Next, allocated, producerVars, closing,
                 result, chain>>

\* result = next->Data, and the store of _tail.
TakenFromTail == Data[tail]
Taken == Data[next]

NewTail == next

Take ==
  /\ consumer = "take"
  /\ result' = Taken
  /\ _tail' = NewTail
  /\ consumer' = "delete"
  /\ chain' = Tail(chain)
  /\ UNCHANGED <<_head, Data, Next, allocated, producerVars, closing, tail, next>>

\* delete tail.
DoomedNext == next
Doomed == tail

Delete ==
  /\ consumer = "delete"
  /\ allocated' = allocated \ {Doomed}
  /\ consumer' = "idle"
  /\ UNCHANGED <<_head, _tail, Data, Next, producerVars, closing, tail, next,
                 result, chain>>

-----------------------------------------------------------------------------
\* The owner enters the destructor when no other thread is in the queue; it
\* dequeues until nothing comes and deletes the node of _head.
BeginDestroy ==
  /\ ~closing
  /\ consumer = "idle"
  /\ \A p \in Producers : producer[p] = "idle"
  /\ closing' = TRUE
  /\ UNCHANGED <<_head, _tail, Data, Next, allocated, producerVars, consumer,
                 tail, next, result, chain>>

EndDestroy ==
  /\ closing
  /\ consumer = "idle"
  /\ Next[_tail] = Null
  /\ allocated' = allocated \ {_head}
  /\ consumer' = "destroyed"
  /\ UNCHANGED <<_head, _tail, Data, Next, producerVars, closing, tail, next,
                 result, chain>>

Destroyed == consumer = "destroyed" /\ UNCHANGED vars

-----------------------------------------------------------------------------
Dequeue == Load \/ Take \/ Delete

Step ==
  \/ \E p \in Producers, n \in Nodes, x \in Items \ Held : Exchange(p, n, x)
  \/ \E p \in Producers : Link(p)
  \/ Dequeue
  \/ BeginDestroy
  \/ EndDestroy
  \/ Destroyed

Spec == Init /\ [][Step]_vars

\* A thread inside Enqueue gets to its end, and the consumer keeps polling.
FairSpec == /\ Spec
            /\ WF_vars(Dequeue)
            /\ \A p \in Producers : WF_vars(Link(p))

-----------------------------------------------------------------------------
(* Properties.                                                              *)

\* Every variable keeps its type.
TypeOK ==
  /\ _head \in Nodes
  /\ _tail \in Nodes
  /\ Data \in [Nodes -> Items \cup {NoItem}]
  /\ Next \in [Nodes -> Nodes \cup {Null}]
  /\ allocated \subseteq Nodes
  /\ producer \in [Producers -> {"idle", "link"}]
  /\ node \in [Producers -> Nodes \cup {Null}]
  /\ prevHead \in [Producers -> Nodes \cup {Null}]
  /\ closing \in BOOLEAN
  /\ consumer \in {"idle", "take", "delete", "destroyed"}
  /\ tail \in Nodes \cup {Null}
  /\ next \in Nodes \cup {Null}
  /\ result \in Items \cup {NoItem}
  /\ chain \in Seq(Nodes)

\* No thread writes or reads through a pointer to a deleted node, though the
\* consumer deletes nodes without knowing who else still holds them: neither
\* the store into prevHead->Next of a producer that was held up after its
\* exchange, nor the loads of the consumer.
NoUseAfterFree ==
  /\ consumer # "destroyed" => _head \in allocated /\ _tail \in allocated
  /\ \A p \in Producers : producer[p] = "link" => prevHead[p] \in allocated
  /\ consumer = "take" => next \in allocated
  /\ consumer = "delete" => tail \in allocated

\* The destructor deletes every node: a link that a producer completed late
\* leaves no part of the queue behind that Dequeue does not reach.
NoLeak == consumer = "destroyed" => allocated = {}

\* The queue is a FIFO queue: an Enqueue takes effect at its exchange, and
\* every Dequeue that succeeds returns the oldest item, even while producers
\* are held up between exchange and link.
Queue == INSTANCE Fifo WITH contents <- Contents, out <- result
ImplementsFifo == Queue!Spec

\* An item in the queue comes out, even behind a producer that was held up.
Delivered ==
  \A x \in Items : (x \in Held) ~> (result = x)
=============================================================================
