--------------------------- MODULE MPSCQueueProofs --------------------------
(* Proofs about MPSCQueue, for any set of producers and items and any pool  *)
(* of addresses.                                                            *)
EXTENDS MPSCQueue, TLAPS

ChainNodes == {chain[i] : i \in 1 .. Len(chain)}

\* The nodes from _tail to _head, each once.
ChainInv ==
  /\ Len(chain) > 0
  /\ chain[1] = _tail
  /\ chain[Len(chain)] = _head
  /\ \A i, j \in 1 .. Len(chain) : chain[i] = chain[j] => i = j

\* The nodes that are not deleted are those of the chain, and the old _tail
\* until Dequeue has deleted it.
MemoryInv ==
  /\ consumer \in {"idle", "take"} => allocated = ChainNodes
  /\ consumer = "delete" => tail \notin ChainNodes /\ allocated = ChainNodes \cup {tail}
  /\ consumer = "destroyed" => allocated = {}

\* Producer p stands between its exchange and its store at place i of the chain.
Gap(p, i) ==
  /\ producer[p] = "link"
  /\ prevHead[p] = chain[i]
  /\ node[p] = chain[i + 1]
  /\ Next[chain[i]] = Null

\* A link of the chain is there or is owed by a producer; the last is null.
LinkInv ==
  /\ Next[_head] = Null
  /\ \A i \in 1 .. Len(chain) - 1 :
       Next[chain[i]] = chain[i + 1] \/ \E p \in Producers : Gap(p, i)

\* Every producer held up in Enqueue owes a link of its own.
OwedInv ==
  /\ \A p \in Producers :
       producer[p] = "link" => \E i \in 1 .. Len(chain) - 1 : Gap(p, i)
  /\ \A p, q \in Producers :
       producer[p] = "link" /\ producer[q] = "link" /\ prevHead[p] = prevHead[q] => p = q

\* What the consumer has loaded is still so when it uses it, and in the
\* destructor nobody owes a link.
ConsumerInv ==
  /\ consumer = "take" =>
       Len(chain) > 1 /\ tail = _tail /\ next = chain[2] /\ Next[_tail] = next
  /\ consumer = "delete" => tail \in Nodes
  /\ closing => \A p \in Producers : producer[p] = "idle"
  /\ consumer = "destroyed" => closing

\* The inductive invariant of the queue.
QueueInv == TypeOK /\ ChainInv /\ MemoryInv /\ LinkInv /\ OwedInv /\ ConsumerInv

-----------------------------------------------------------------------------
\* The chain grows at its end (Exchange).
LEMMA ChainGrows ==
  ASSUME NEW S, NEW q \in Seq(S), NEW n \in S
  PROVE  /\ Append(q, n) \in Seq(S)
         /\ Len(q) \in Nat
         /\ Len(Append(q, n)) = Len(q) + 1
         /\ Append(q, n)[Len(q) + 1] = n
         /\ \A i \in 1 .. Len(q) : Append(q, n)[i] = q[i]
  OBVIOUS

\* The chain loses its front (Take).
LEMMA ChainShrinks ==
  ASSUME NEW S, NEW q \in Seq(S), Len(q) > 0
  PROVE  /\ Tail(q) \in Seq(S)
         /\ Len(q) \in Nat
         /\ Len(Tail(q)) = Len(q) - 1
         /\ \A i \in 1 .. Len(q) - 1 : Tail(q)[i] = q[i + 1]
  OBVIOUS

\* Places of the chain hold nodes.
LEMMA ChainPlaces ==
  ASSUME TypeOK, ChainInv
  PROVE  /\ Len(chain) \in Nat /\ Len(chain) >= 1
         /\ \A i \in 1 .. Len(chain) : chain[i] \in Nodes /\ chain[i] \in ChainNodes
         /\ Null \notin Nodes
         /\ _head \in ChainNodes /\ _tail \in ChainNodes
  <1>1. Len(chain) \in Nat /\ Len(chain) >= 1
    BY DEF TypeOK, ChainInv
  <1>2. \A i \in 1 .. Len(chain) : chain[i] \in Nodes /\ chain[i] \in ChainNodes
    BY DEF TypeOK, ChainNodes
  <1>3. 1 \in 1 .. Len(chain) /\ Len(chain) \in 1 .. Len(chain)
    BY <1>1
  <1> QED
    BY <1>1, <1>2, <1>3, ConstantsAssumption DEF ChainInv

\* The constructor.
LEMMA InitInv ==
  ASSUME Init
  PROVE  QueueInv
  <1>1. PICK n \in Nodes : _head = n /\ _tail = n /\ allocated = {n} /\ chain = <<n>>
    BY DEF Init
  <1>2. /\ Data = [m \in Nodes |-> NoItem]
        /\ Next = [m \in Nodes |-> Null]
        /\ producer = [p \in Producers |-> "idle"]
        /\ node = [p \in Producers |-> Null]
        /\ prevHead = [p \in Producers |-> Null]
        /\ closing = FALSE
        /\ consumer = "idle"
        /\ tail = Null
        /\ next = Null
        /\ result = NoItem
    BY DEF Init
  <1>3. chain \in Seq(Nodes) /\ Len(chain) = 1 /\ chain[1] = n
    BY <1>1
  <1>4. TypeOK
    BY <1>1, <1>2, <1>3 DEF TypeOK
  <1>5. ChainInv
    BY <1>1, <1>3 DEF ChainInv
  <1>6. MemoryInv
    BY <1>1, <1>2, <1>3 DEF MemoryInv, ChainNodes
  <1>7. LinkInv /\ OwedInv /\ ConsumerInv
    BY <1>1, <1>2, <1>3 DEF LinkInv, OwedInv, ConsumerInv
  <1> QED
    BY <1>4, <1>5, <1>6, <1>7 DEF QueueInv

-----------------------------------------------------------------------------
\* The exchange appends a node that no one holds, and owes the link to it.
LEMMA ExchangeInv ==
  ASSUME QueueInv, NEW p \in Producers, NEW n \in Nodes, NEW x \in Items,
         Exchange(p, n, x)
  PROVE  QueueInv'
  <1> PICK L \in Nat : L = Len(chain)
    BY DEF QueueInv, TypeOK
  <1>1. /\ producer[p] = "idle"
        /\ ~closing
        /\ n \notin allocated
        /\ allocated' = allocated \cup {n}
        /\ Data' = [Data EXCEPT ![n] = x]
        /\ Next' = [Next EXCEPT ![n] = Null]
        /\ node' = [node EXCEPT ![p] = n]
        /\ prevHead' = [prevHead EXCEPT ![p] = _head]
        /\ _head' = n
        /\ producer' = [producer EXCEPT ![p] = "link"]
        /\ chain' = Append(chain, n)
        /\ UNCHANGED <<_tail, closing, consumer, tail, next, result>>
    BY DEF Exchange, consumerVars
  <1>2. TypeOK /\ ChainInv /\ MemoryInv /\ LinkInv /\ OwedInv /\ ConsumerInv
    BY DEF QueueInv
  <1>3. /\ L \in Nat /\ L >= 1
        /\ \A i \in 1 .. L : chain[i] \in Nodes /\ chain[i] \in ChainNodes
        /\ Null \notin Nodes
    BY <1>2, ChainPlaces
  <1>4. /\ chain' \in Seq(Nodes)
        /\ Len(chain') = L + 1
        /\ chain'[L + 1] = n
        /\ \A i \in 1 .. L : chain'[i] = chain[i]
    BY <1>1, <1>2, ChainGrows DEF TypeOK
  <1>5. n \notin ChainNodes /\ consumer # "destroyed"
    BY <1>1, <1>2 DEF MemoryInv, ConsumerInv, TypeOK
  <1>6. TypeOK'
    BY <1>1, <1>2, <1>4 DEF TypeOK
  <1>7. /\ \A i \in 1 .. L : chain[i] # n
        /\ \A i \in 1 .. L : Next'[chain[i]] = Next[chain[i]]
    BY <1>1, <1>2, <1>3, <1>5 DEF TypeOK
  <1>8. ChainInv'
    <2>1. Len(chain') > 0 /\ chain'[1] = _tail' /\ chain'[Len(chain')] = _head'
      BY <1>1, <1>2, <1>3, <1>4 DEF ChainInv
    <2>2. ASSUME NEW i \in 1 .. L + 1, NEW j \in 1 .. L + 1, chain'[i] = chain'[j]
          PROVE  i = j
      <3>1. i \in 1 .. L \/ i = L + 1
        BY <1>3
      <3>2. j \in 1 .. L \/ j = L + 1
        BY <1>3
      <3> QED
        BY <1>2, <1>4, <1>7, <2>2, <3>1, <3>2 DEF ChainInv
    <2> QED
      BY <1>4, <2>1, <2>2 DEF ChainInv
  <1>9. MemoryInv'
    <2>1. ChainNodes' = ChainNodes \cup {n}
      <3>1. 1 .. L + 1 = (1 .. L) \cup {L + 1}
        BY <1>3
      <3> QED
        BY <1>4, <3>1 DEF ChainNodes
    <2> QED
      BY <1>1, <1>2, <1>5, <2>1 DEF MemoryInv
  <1>10. ASSUME NEW q \in Producers, NEW i \in 1 .. L - 1, Gap(q, i)
         PROVE  q # p /\ Gap(q, i)'
    <2>1. i \in 1 .. L /\ i + 1 \in 1 .. L
      BY <1>3
    <2>2. q # p
      BY <1>1, <1>10 DEF Gap
    <2> QED
      BY <1>1, <1>2, <1>4, <1>7, <1>10, <2>1, <2>2 DEF Gap, TypeOK
  <1>11. Gap(p, L)'
    <2>1. chain[L] = _head /\ Next[_head] = Null /\ L \in 1 .. L
      BY <1>2, <1>3 DEF ChainInv, LinkInv
    <2> QED
      BY <1>1, <1>2, <1>4, <1>7, <2>1 DEF Gap, TypeOK
  <1>12. LinkInv'
    <2>1. Next'[_head'] = Null
      BY <1>1, <1>2 DEF TypeOK
    <2>2. ASSUME NEW i \in 1 .. L
          PROVE  Next'[chain'[i]] = chain'[i + 1] \/ \E q \in Producers : Gap(q, i)'
      <3>1. CASE i = L
        BY <1>11, <3>1
      <3>2. CASE i # L
        <4>1. i \in 1 .. L - 1 /\ i + 1 \in 1 .. L
          BY <1>3, <3>2
        <4>2. CASE Next[chain[i]] = chain[i + 1]
          BY <1>4, <1>7, <4>1, <4>2
        <4>3. CASE \E q \in Producers : Gap(q, i)
          BY <1>10, <4>1, <4>3
        <4> QED
          BY <1>2, <4>1, <4>2, <4>3 DEF LinkInv
      <3> QED
        BY <3>1, <3>2
    <2> QED
      BY <1>3, <1>4, <2>1, <2>2 DEF LinkInv
  <1>13. OwedInv'
    <2>1. ASSUME NEW q \in Producers, producer'[q] = "link"
          PROVE  \E i \in 1 .. L : Gap(q, i)'
      <3>1. CASE q = p
        <4>1. L \in 1 .. L
          BY <1>3
        <4> QED
          BY <1>11, <3>1, <4>1
      <3>2. CASE q # p
        <4>1. producer[q] = "link"
          BY <1>1, <1>2, <2>1, <3>2 DEF TypeOK
        <4>2. PICK i \in 1 .. L - 1 : Gap(q, i)
          BY <1>2, <4>1 DEF OwedInv
        <4>3. i \in 1 .. L
          BY <1>3
        <4> QED
          BY <1>10, <4>2, <4>3
      <3> QED
        BY <3>1, <3>2
    <2>2. ASSUME NEW q \in Producers, producer[q] = "link"
          PROVE  prevHead[q] # _head
      <3>1. PICK i \in 1 .. L - 1 : Gap(q, i)
        BY <1>2, <2>2 DEF OwedInv
      <3>2. i \in 1 .. L /\ L \in 1 .. L /\ i # L
        BY <1>3
      <3> QED
        BY <1>2, <3>1, <3>2 DEF Gap, ChainInv
    <2>3. \A q, r \in Producers :
            producer'[q] = "link" /\ producer'[r] = "link" /\ prevHead'[q] = prevHead'[r]
              => q = r
      BY <1>1, <1>2, <2>2 DEF OwedInv, TypeOK
    <2> QED
      BY <1>3, <1>4, <2>1, <2>3 DEF OwedInv
  <1>14. ConsumerInv'
    <2>1. consumer = "take" => 1 \in 1 .. L /\ 2 \in 1 .. L /\ chain[1] = _tail
      BY <1>2, <1>3 DEF ConsumerInv, ChainInv
    <2> QED
      BY <1>1, <1>2, <1>3, <1>4, <1>5, <1>7, <2>1 DEF ConsumerInv
  <1> QED
    BY <1>6, <1>8, <1>9, <1>12, <1>13, <1>14 DEF QueueInv

\* The store pays the one link the producer owes, and no other.
LEMMA LinkStepInv ==
  ASSUME QueueInv, NEW p \in Producers, Link(p)
  PROVE  QueueInv'
  <1> PICK L \in Nat : L = Len(chain)
    BY DEF QueueInv, TypeOK
  <1>1. /\ producer[p] = "link"
        /\ Next' = [Next EXCEPT ![prevHead[p]] = node[p]]
        /\ producer' = [producer EXCEPT ![p] = "idle"]
        /\ node' = [node EXCEPT ![p] = Null]
        /\ prevHead' = [prevHead EXCEPT ![p] = Null]
        /\ UNCHANGED <<_head, _tail, Data, allocated, closing, consumer, tail, next,
                       result, chain>>
    BY DEF Link, Linked, consumerVars
  <1>2. TypeOK /\ ChainInv /\ MemoryInv /\ LinkInv /\ OwedInv /\ ConsumerInv
    BY DEF QueueInv
  <1>3. /\ L >= 1
        /\ \A i \in 1 .. L : chain[i] \in Nodes /\ chain[i] \in ChainNodes
        /\ Null \notin Nodes
    BY <1>2, ChainPlaces
  <1>4. PICK i \in 1 .. L - 1 : Gap(p, i)
    BY <1>1, <1>2 DEF OwedInv
  <1>5. i \in 1 .. L /\ i + 1 \in 1 .. L /\ L \in 1 .. L /\ i # L
    BY <1>3
  <1>6. /\ Next' = [Next EXCEPT ![chain[i]] = chain[i + 1]]
        /\ Next[chain[i]] = Null
    BY <1>1, <1>4 DEF Gap
  <1>7. \A j \in 1 .. L : j # i => Next'[chain[j]] = Next[chain[j]]
    BY <1>2, <1>3, <1>5, <1>6 DEF ChainInv, TypeOK
  <1>8. TypeOK'
    BY <1>1, <1>2, <1>3, <1>5, <1>6 DEF TypeOK
  <1>9. ChainInv' /\ MemoryInv'
    BY <1>1, <1>2 DEF ChainInv, MemoryInv, ChainNodes
  <1>10. ASSUME NEW q \in Producers, q # p, NEW j \in 1 .. L - 1, Gap(q, j)
         PROVE  Gap(q, j)'
    <2>1. chain[j] # chain[i]
      BY <1>1, <1>2, <1>4, <1>10 DEF Gap, OwedInv
    <2>2. j \in 1 .. L
      BY <1>3
    <2> QED
      BY <1>1, <1>2, <1>7, <1>10, <2>1, <2>2 DEF Gap, TypeOK
  <1>11. LinkInv'
    <2>1. Next'[_head'] = Null
      BY <1>1, <1>2, <1>5, <1>7 DEF LinkInv, ChainInv
    <2>2. ASSUME NEW j \in 1 .. L - 1
          PROVE  Next'[chain[j]] = chain[j + 1] \/ \E q \in Producers : Gap(q, j)'
      <3>1. CASE j = i
        BY <1>2, <1>3, <1>5, <1>6, <3>1 DEF TypeOK
      <3>2. CASE j # i /\ Next[chain[j]] = chain[j + 1]
        <4>1. j \in 1 .. L
          BY <1>3
        <4> QED
          BY <1>7, <3>2, <4>1
      <3>3. CASE j # i /\ \E q \in Producers : Gap(q, j)
        <4>1. PICK q \in Producers : Gap(q, j)
          BY <3>3
        <4>2. j \in 1 .. L
          BY <1>3
        <4>3. q # p
          BY <1>2, <1>4, <1>5, <3>3, <4>1, <4>2 DEF Gap, ChainInv
        <4> QED
          BY <1>10, <4>1, <4>3
      <3> QED
        BY <1>2, <3>1, <3>2, <3>3 DEF LinkInv
    <2> QED
      BY <1>1, <2>1, <2>2 DEF LinkInv
  <1>12. OwedInv'
    <2>1. ASSUME NEW q \in Producers, producer'[q] = "link"
          PROVE  q # p /\ producer[q] = "link" /\ prevHead'[q] = prevHead[q]
      BY <1>1, <1>2, <2>1 DEF TypeOK
    <2>2. ASSUME NEW q \in Producers, producer'[q] = "link"
          PROVE  \E j \in 1 .. L - 1 : Gap(q, j)'
      <3>1. PICK j \in 1 .. L - 1 : Gap(q, j)
        BY <1>2, <2>1, <2>2 DEF OwedInv
      <3> QED
        BY <1>10, <2>1, <2>2, <3>1
    <2> QED
      BY <1>1, <1>2, <2>1, <2>2 DEF OwedInv
  <1>13. ConsumerInv'
    <2>1. ASSUME consumer = "take"
          PROVE  Next'[_tail] = Next[_tail]
      <3>1. 1 \in 1 .. L /\ 2 \in 1 .. L /\ chain[1] = _tail /\ Next[_tail] = chain[2]
        BY <1>2, <1>3, <2>1 DEF ConsumerInv, ChainInv
      <3>2. i # 1
        BY <1>3, <1>6, <3>1
      <3> QED
        BY <1>7, <3>1, <3>2
    <2> QED
      BY <1>1, <1>2, <2>1 DEF ConsumerInv, TypeOK
  <1> QED
    BY <1>8, <1>9, <1>11, <1>12, <1>13 DEF QueueInv

\* Dequeue loads a link that is there, or ends.
LEMMA LoadInv ==
  ASSUME QueueInv, Load
  PROVE  QueueInv'
  <1> PICK L \in Nat : L = Len(chain)
    BY DEF QueueInv, TypeOK
  <1>1. /\ consumer = "idle"
        /\ tail' = _tail
        /\ next' = Next[_tail]
        /\ consumer' = IF next' = Null THEN "idle" ELSE "take"
        /\ UNCHANGED <<_head, _tail, Data, Next, allocated, producer, node, prevHead,
                       closing, result, chain>>
    BY DEF Load, producerVars
  <1>2. TypeOK /\ ChainInv /\ MemoryInv /\ LinkInv /\ OwedInv /\ ConsumerInv
    BY DEF QueueInv
  <1>3. TypeOK'
    BY <1>1, <1>2 DEF TypeOK
  <1>4. ChainInv' /\ MemoryInv' /\ LinkInv' /\ OwedInv'
    BY <1>1, <1>2 DEF ChainInv, MemoryInv, ChainNodes, LinkInv, OwedInv, Gap
  <1>5. ConsumerInv'
    <2>1. ASSUME Next[_tail] # Null
          PROVE  L > 1 /\ Next[_tail] = chain[2]
      <3>1. chain[1] = _tail /\ L >= 1
        BY <1>2, ChainPlaces DEF ChainInv
      <3>2. L > 1
        BY <1>2, <2>1, <3>1 DEF ChainInv, LinkInv
      <3>3. 1 \in 1 .. L - 1
        BY <3>2
      <3> QED
        BY <1>2, <2>1, <3>1, <3>2, <3>3 DEF LinkInv, Gap
    <2> QED
      BY <1>1, <1>2, <2>1 DEF ConsumerInv
  <1> QED
    BY <1>3, <1>4, <1>5 DEF QueueInv

\* Dequeue takes the second node; nobody owes the link it came over.
LEMMA TakeInv ==
  ASSUME QueueInv, Take
  PROVE  QueueInv'
  <1> PICK L \in Nat : L = Len(chain)
    BY DEF QueueInv, TypeOK
  <1>1. /\ consumer = "take"
        /\ result' = Data[next]
        /\ _tail' = next
        /\ consumer' = "delete"
        /\ chain' = Tail(chain)
        /\ UNCHANGED <<_head, Data, Next, allocated, producer, node, prevHead, closing,
                       tail, next>>
    BY DEF Take, Taken, NewTail, producerVars
  <1>2. TypeOK /\ ChainInv /\ MemoryInv /\ LinkInv /\ OwedInv /\ ConsumerInv
    BY DEF QueueInv
  <1>3. /\ L > 1
        /\ \A i \in 1 .. L : chain[i] \in Nodes /\ chain[i] \in ChainNodes
        /\ Null \notin Nodes
        /\ chain[1] = _tail /\ tail = _tail /\ next = chain[2]
        /\ Next[chain[1]] = chain[2] /\ chain[L] = _head
    BY <1>1, <1>2, ChainPlaces DEF ConsumerInv, ChainInv
  <1>4. /\ chain' \in Seq(Nodes)
        /\ Len(chain') = L - 1
        /\ \A i \in 1 .. L - 1 : chain'[i] = chain[i + 1]
    BY <1>1, <1>2, <1>3, ChainShrinks DEF TypeOK
  <1>5. 1 \in 1 .. L /\ 2 \in 1 .. L
    BY <1>3
  <1>6. TypeOK'
    BY <1>1, <1>2, <1>3, <1>4, <1>5 DEF TypeOK
  <1>7. ChainInv'
    <2>1. Len(chain') > 0 /\ chain'[1] = _tail' /\ chain'[Len(chain')] = _head'
      BY <1>1, <1>3, <1>4
    <2>2. ASSUME NEW i \in 1 .. L - 1, NEW j \in 1 .. L - 1, chain'[i] = chain'[j]
          PROVE  i = j
      <3>1. i + 1 \in 1 .. L /\ j + 1 \in 1 .. L
        BY <1>3
      <3>2. chain[i + 1] = chain[j + 1]
        BY <1>4, <2>2
      <3>3. i + 1 = j + 1
        BY <1>2, <3>1, <3>2 DEF ChainInv
      <3> QED
        BY <3>3
    <2> QED
      BY <1>4, <2>1, <2>2 DEF ChainInv
  <1>8. MemoryInv'
    <2>1. \A i \in 1 .. L : i = 1 \/ (i - 1 \in 1 .. L - 1 /\ i = (i - 1) + 1)
      BY <1>3
    <2>2. \A i \in 1 .. L - 1 : i + 1 \in 1 .. L /\ i + 1 # 1
      BY <1>3
    <2>3. ChainNodes = ChainNodes' \cup {tail}
      <3>1. ASSUME NEW n \in ChainNodes
            PROVE  n \in ChainNodes' \cup {tail}
        <4>1. PICK i \in 1 .. L : n = chain[i]
          BY DEF ChainNodes
        <4>2. CASE i = 1
          BY <1>3, <4>1, <4>2
        <4>3. CASE i # 1
          <5>1. i - 1 \in 1 .. Len(chain') /\ n = chain'[i - 1]
            BY <1>4, <2>1, <4>1, <4>3
          <5> QED
            BY <5>1 DEF ChainNodes
        <4> QED
          BY <4>2, <4>3
      <3>2. ASSUME NEW n \in ChainNodes'
            PROVE  n \in ChainNodes
        <4>1. PICK i \in 1 .. Len(chain') : n = chain'[i]
          BY DEF ChainNodes
        <4>2. i + 1 \in 1 .. L /\ n = chain[i + 1]
          BY <1>4, <2>2, <4>1
        <4> QED
          BY <4>2 DEF ChainNodes
      <3>3. tail \in ChainNodes
        BY <1>3, <1>5
      <3> QED
        BY <3>1, <3>2, <3>3
    <2>4. tail \notin ChainNodes'
      BY <1>2, <1>3, <1>4, <1>5, <2>2 DEF ChainNodes, ChainInv
    <2> QED
      BY <1>1, <1>2, <2>3, <2>4 DEF MemoryInv
  <1>9. ASSUME NEW p \in Producers, NEW i \in 1 .. L - 1, Gap(p, i)
        PROVE  i - 1 \in 1 .. L - 2 /\ Gap(p, i - 1)'
    <2>1. i # 1
      BY <1>3, <1>5, <1>9 DEF Gap
    <2>2. i - 1 \in 1 .. L - 2 /\ i - 1 \in 1 .. L - 1 /\ (i - 1) + 1 = i
      BY <1>3, <2>1
    <2> QED
      BY <1>1, <1>4, <1>9, <2>2 DEF Gap
  <1>10. LinkInv'
    <2>1. ASSUME NEW i \in 1 .. L - 2
          PROVE  Next'[chain'[i]] = chain'[i + 1] \/ \E p \in Producers : Gap(p, i)'
      <3>1. /\ i + 1 \in 1 .. L - 1 /\ i \in 1 .. L - 1 /\ (i + 1) - 1 = i
        BY <1>3
      <3>2. CASE Next[chain[i + 1]] = chain[(i + 1) + 1]
        BY <1>1, <1>4, <3>1, <3>2
      <3>3. CASE \E p \in Producers : Gap(p, i + 1)
        BY <1>9, <3>1, <3>3
      <3> QED
        BY <1>2, <3>1, <3>2, <3>3 DEF LinkInv
    <2>2. Len(chain') - 1 = L - 2
      BY <1>4
    <2> QED
      BY <1>1, <1>2, <2>1, <2>2 DEF LinkInv
  <1>11. OwedInv'
    <2>1. ASSUME NEW p \in Producers, producer'[p] = "link"
          PROVE  \E i \in 1 .. Len(chain') - 1 : Gap(p, i)'
      <3>1. PICK i \in 1 .. L - 1 : Gap(p, i)
        BY <1>1, <1>2, <2>1 DEF OwedInv
      <3>2. Len(chain') - 1 = L - 2
        BY <1>4
      <3> QED
        BY <1>9, <3>1, <3>2
    <2> QED
      BY <1>1, <1>2, <2>1 DEF OwedInv
  <1>12. ConsumerInv'
    BY <1>1, <1>2, <1>3, <1>5 DEF ConsumerInv
  <1> QED
    BY <1>6, <1>7, <1>8, <1>10, <1>11, <1>12 DEF QueueInv

\* The node that is deleted is the one that has left the chain.
LEMMA DeleteInv ==
  ASSUME QueueInv, Delete
  PROVE  QueueInv'
  <1>1. /\ consumer = "delete"
        /\ allocated' = allocated \ {tail}
        /\ consumer' = "idle"
        /\ UNCHANGED <<_head, _tail, Data, Next, producer, node, prevHead, closing,
                       tail, next, result, chain>>
    BY DEF Delete, Doomed, producerVars
  <1>2. TypeOK /\ ChainInv /\ MemoryInv /\ LinkInv /\ OwedInv /\ ConsumerInv
    BY DEF QueueInv
  <1>3. TypeOK'
    BY <1>1, <1>2 DEF TypeOK
  <1>4. MemoryInv'
    <2>1. ChainNodes' = ChainNodes
      BY <1>1 DEF ChainNodes
    <2> QED
      BY <1>1, <1>2, <2>1 DEF MemoryInv
  <1>5. ChainInv' /\ LinkInv' /\ OwedInv' /\ ConsumerInv'
    BY <1>1, <1>2 DEF ChainInv, LinkInv, OwedInv, ConsumerInv, Gap
  <1> QED
    BY <1>3, <1>4, <1>5 DEF QueueInv

\* The destructor starts when nobody is in Enqueue.
LEMMA BeginDestroyInv ==
  ASSUME QueueInv, BeginDestroy
  PROVE  QueueInv'
  <1>1. /\ \A p \in Producers : producer[p] = "idle"
        /\ closing' = TRUE
        /\ consumer = "idle"
        /\ UNCHANGED <<_head, _tail, Data, Next, allocated, producer, node, prevHead,
                       consumer, tail, next, result, chain>>
    BY DEF BeginDestroy, producerVars
  <1>2. TypeOK /\ ChainInv /\ MemoryInv /\ LinkInv /\ OwedInv /\ ConsumerInv
    BY DEF QueueInv
  <1>3. TypeOK'
    BY <1>1, <1>2 DEF TypeOK
  <1>4. ChainInv' /\ MemoryInv' /\ LinkInv' /\ OwedInv' /\ ConsumerInv'
    BY <1>1, <1>2 DEF ChainInv, MemoryInv, ChainNodes, LinkInv, OwedInv, ConsumerInv, Gap
  <1> QED
    BY <1>3, <1>4 DEF QueueInv

\* When the loop of the destructor ends, one node is left and _head is it.
LEMMA EndDestroyInv ==
  ASSUME QueueInv, EndDestroy
  PROVE  QueueInv'
  <1> PICK L \in Nat : L = Len(chain)
    BY DEF QueueInv, TypeOK
  <1>1. /\ closing
        /\ consumer = "idle"
        /\ Next[_tail] = Null
        /\ allocated' = allocated \ {_head}
        /\ consumer' = "destroyed"
        /\ UNCHANGED <<_head, _tail, Data, Next, producer, node, prevHead, closing,
                       tail, next, result, chain>>
    BY DEF EndDestroy, producerVars
  <1>2. TypeOK /\ ChainInv /\ MemoryInv /\ LinkInv /\ OwedInv /\ ConsumerInv
    BY DEF QueueInv
  <1>3. L = 1
    <2>1. SUFFICES ASSUME L # 1
                   PROVE  FALSE
      OBVIOUS
    <2>2. /\ 1 \in 1 .. L - 1 /\ 2 \in 1 .. L
          /\ chain[2] \in Nodes /\ Null \notin Nodes
          /\ chain[1] = _tail
      BY <1>2, <2>1, ChainPlaces DEF ChainInv
    <2>3. \A p \in Producers : producer[p] = "idle"
      BY <1>1, <1>2 DEF ConsumerInv
    <2> QED
      BY <1>1, <1>2, <2>2, <2>3 DEF LinkInv, Gap
  <1>4. allocated = {_head}
    <2>1. ChainNodes = {chain[1]}
      BY <1>3 DEF ChainNodes
    <2> QED
      BY <1>1, <1>2, <1>3, <2>1 DEF MemoryInv, ChainInv
  <1>5. TypeOK' /\ MemoryInv'
    BY <1>1, <1>2, <1>4 DEF TypeOK, MemoryInv
  <1>6. ChainInv' /\ LinkInv' /\ OwedInv' /\ ConsumerInv'
    BY <1>1, <1>2 DEF ChainInv, LinkInv, OwedInv, ConsumerInv, Gap
  <1> QED
    BY <1>5, <1>6 DEF QueueInv

\* Every step of every thread keeps the invariant.
LEMMA StepInv ==
  ASSUME QueueInv, [Step]_vars
  PROVE  QueueInv'
  <1>1. CASE UNCHANGED vars
    <2>1. TypeOK'
      BY <1>1 DEF vars, producerVars, consumerVars, QueueInv, TypeOK
    <2> QED
      BY <1>1, <2>1 DEF vars, producerVars, consumerVars, QueueInv, ChainInv, MemoryInv,
         ChainNodes, LinkInv, OwedInv, ConsumerInv, Gap
  <1>2. ASSUME NEW p \in Producers, NEW n \in Nodes, NEW x \in Items \ Held,
               Exchange(p, n, x)
        PROVE  QueueInv'
    BY <1>2, ExchangeInv
  <1>3. ASSUME NEW p \in Producers, Link(p)
        PROVE  QueueInv'
    BY <1>3, LinkStepInv
  <1>4. CASE Dequeue
    BY <1>4, LoadInv, TakeInv, DeleteInv DEF Dequeue
  <1>5. CASE BeginDestroy \/ EndDestroy
    BY <1>5, BeginDestroyInv, EndDestroyInv
  <1> QED
    BY <1>1, <1>2, <1>3, <1>4, <1>5 DEF Step, Destroyed

\* The invariant holds in every behaviour of the queue.
THEOREM QueueInvariant == Spec => []QueueInv
  <1>1. Init => QueueInv
    BY InitInv
  <1>2. QueueInv /\ [Step]_vars => QueueInv'
    BY StepInv
  <1> QED
    BY <1>1, <1>2, PTL DEF Spec

\* Every variable keeps its type.
THEOREM TypeCorrect == Spec => []TypeOK
  BY QueueInvariant, PTL DEF QueueInv

\* The consumer deletes a node only when no producer and no later Dequeue will
\* use it again, however long a producer is held up between exchange and link.
THEOREM NoUseAfterFreeHolds == Spec => []NoUseAfterFree
  <1>1. ASSUME QueueInv
        PROVE  NoUseAfterFree
    <2>1. TypeOK /\ ChainInv /\ MemoryInv /\ OwedInv /\ ConsumerInv
      BY <1>1 DEF QueueInv
    <2>2. /\ Len(chain) \in Nat
          /\ \A i \in 1 .. Len(chain) : chain[i] \in ChainNodes
          /\ _head \in ChainNodes /\ _tail \in ChainNodes
      BY <2>1, ChainPlaces
    <2>3. consumer # "destroyed" => ChainNodes \subseteq allocated
      BY <2>1 DEF MemoryInv, TypeOK
    <2>4. ASSUME NEW p \in Producers, producer[p] = "link"
          PROVE  prevHead[p] \in allocated
      <3>1. PICK i \in 1 .. Len(chain) - 1 : Gap(p, i)
        BY <2>1, <2>4 DEF OwedInv
      <3>2. i \in 1 .. Len(chain)
        BY <2>2
      <3>3. consumer # "destroyed"
        BY <2>1, <2>4 DEF ConsumerInv
      <3> QED
        BY <2>2, <2>3, <3>1, <3>2, <3>3 DEF Gap
    <2>5. consumer = "take" => next \in allocated
      BY <2>1, <2>2, <2>3 DEF ConsumerInv
    <2>6. consumer = "delete" => tail \in allocated
      BY <2>1 DEF MemoryInv
    <2> QED
      BY <2>2, <2>3, <2>4, <2>5, <2>6 DEF NoUseAfterFree
  <1> QED
    BY <1>1, QueueInvariant, PTL

\* The destructor leaves no node behind.
THEOREM NoLeakHolds == Spec => []NoLeak
  <1>1. QueueInv => NoLeak
    BY DEF QueueInv, MemoryInv, NoLeak
  <1> QED
    BY <1>1, QueueInvariant, PTL

-----------------------------------------------------------------------------
\* The items of a chain c behind its first node.
ItemsOf(c, d) == [i \in 1 .. (Len(c) - 1) |-> d[c[i + 1]]]

\* They are a sequence, one shorter than the chain.
LEMMA ItemsOfChain ==
  ASSUME NEW c \in Seq(Nodes), Len(c) > 0, NEW d \in [Nodes -> Items \cup {NoItem}]
  PROVE  /\ ItemsOf(c, d) \in Seq(Items \cup {NoItem})
         /\ Len(ItemsOf(c, d)) = Len(c) - 1
         /\ \A i \in 1 .. Len(c) - 1 : ItemsOf(c, d)[i] = d[c[i + 1]]
  <1>1. Len(c) - 1 \in Nat
    OBVIOUS
  <1>2. \A i \in 1 .. Len(c) - 1 : d[c[i + 1]] \in Items \cup {NoItem}
    <2>1. \A i \in 1 .. Len(c) - 1 : i + 1 \in 1 .. Len(c)
      BY <1>1
    <2> QED
      BY <2>1
  <1> QED
    BY <1>1, <1>2 DEF ItemsOf

\* A sequence with one element more is the result of Append.
LEMMA AppendIs ==
  ASSUME NEW S, NEW q \in Seq(S), NEW r \in Seq(S), NEW x \in S,
         Len(r) = Len(q) + 1, r[Len(q) + 1] = x,
         \A i \in 1 .. Len(q) : r[i] = q[i]
  PROVE  r = Append(q, x)
  OBVIOUS

\* A sequence whose elements have moved forward by one is the Tail.
LEMMA TailIs ==
  ASSUME NEW S, NEW q \in Seq(S), NEW r \in Seq(S), Len(q) > 0,
         Len(r) = Len(q) - 1,
         \A i \in 1 .. Len(r) : r[i] = q[i + 1]
  PROVE  r = Tail(q) /\ Head(q) = q[1] /\ q # <<>>
  OBVIOUS

\* The exchange is the Enqueue of the abstract queue.
LEMMA ExchangeEnqueues ==
  ASSUME QueueInv, NEW p \in Producers, NEW n \in Nodes, NEW x \in Items,
         Exchange(p, n, x)
  PROVE  Queue!Enqueue(x)
  <1> PICK L \in Nat : L = Len(chain)
    BY DEF QueueInv, TypeOK
  <1>1. /\ TypeOK /\ ChainInv /\ MemoryInv /\ ConsumerInv
        /\ TypeOK' /\ ChainInv'
    BY ExchangeInv DEF QueueInv
  <1>2. /\ ~closing /\ n \notin allocated
        /\ Data' = [Data EXCEPT ![n] = x]
        /\ chain' = Append(chain, n)
        /\ result' = result
    BY DEF Exchange, consumerVars
  <1>3. /\ Len(chain') = L + 1
        /\ chain'[L + 1] = n
        /\ \A i \in 1 .. L : chain'[i] = chain[i]
    BY <1>1, <1>2, ChainGrows DEF TypeOK
  <1>4. /\ L >= 1
        /\ \A i \in 1 .. L : chain[i] \in Nodes /\ chain[i] # n
    <2>1. n \notin ChainNodes
      BY <1>1, <1>2 DEF MemoryInv, ConsumerInv, TypeOK
    <2> QED
      BY <1>1, <2>1, ChainPlaces
  <1>5. /\ Contents \in Seq(Items \cup {NoItem})
        /\ Len(Contents) = L - 1
        /\ \A i \in 1 .. L - 1 : Contents[i] = Data[chain[i + 1]]
    <2>1. Contents = ItemsOf(chain, Data)
      BY DEF Contents, ItemsOf
    <2>2. /\ chain \in Seq(Nodes) /\ Len(chain) > 0
          /\ Data \in [Nodes -> Items \cup {NoItem}]
      BY <1>1 DEF TypeOK, ChainInv
    <2> QED
      BY <2>1, <2>2, ItemsOfChain
  <1>6. /\ Contents' \in Seq(Items \cup {NoItem})
        /\ Len(Contents') = L
        /\ \A i \in 1 .. L : Contents'[i] = Data'[chain'[i + 1]]
    <2>1. /\ Contents' \in Seq(Items \cup {NoItem})
          /\ Len(Contents') = Len(chain') - 1
          /\ \A i \in 1 .. Len(chain') - 1 : Contents'[i] = Data'[chain'[i + 1]]
      <3>1. Contents' = ItemsOf(chain', Data')
        BY DEF Contents, ItemsOf
      <3> QED
        BY <1>1, <3>1, ItemsOfChain DEF TypeOK, ChainInv
    <2>2. Len(chain') - 1 = L
      BY <1>3
    <2> QED
      BY <2>1, <2>2
  <1>7. Contents'[L] = x
    <2>1. L \in 1 .. L
      BY <1>4
    <2> QED
      BY <1>1, <1>2, <1>3, <1>6, <2>1 DEF TypeOK
  <1>8. ASSUME NEW i \in 1 .. L - 1
        PROVE  Contents'[i] = Contents[i]
    <2>1. i \in 1 .. L /\ i + 1 \in 1 .. L
      BY <1>4
    <2> QED
      BY <1>1, <1>2, <1>3, <1>4, <1>5, <1>6, <2>1 DEF TypeOK
  <1>9. Contents' = Append(Contents, x)
    <2>1. Len(Contents) + 1 = L
      BY <1>5
    <2> HIDE DEF Contents
    <2> QED
      BY <1>5, <1>6, <1>7, <1>8, <2>1, AppendIs
  <1> QED
    BY <1>2, <1>9 DEF Queue!Enqueue

\* The store of _tail is the Dequeue of the abstract queue.
LEMMA TakeDequeues ==
  ASSUME QueueInv, Take
  PROVE  Queue!Dequeue
  <1> PICK L \in Nat : L = Len(chain)
    BY DEF QueueInv, TypeOK
  <1>1. TypeOK /\ ChainInv /\ ConsumerInv /\ TypeOK' /\ ChainInv'
    BY TakeInv DEF QueueInv
  <1>2. /\ consumer = "take"
        /\ result' = Data[next]
        /\ chain' = Tail(chain)
        /\ Data' = Data
    BY DEF Take, Taken
  <1>3. L > 1 /\ next = chain[2]
    BY <1>1, <1>2 DEF ConsumerInv
  <1>4. /\ Len(chain') = L - 1
        /\ \A i \in 1 .. L - 1 : chain'[i] = chain[i + 1]
    BY <1>1, <1>2, <1>3, ChainShrinks DEF TypeOK
  <1>5. /\ Contents \in Seq(Items \cup {NoItem})
        /\ Len(Contents) = L - 1
        /\ \A i \in 1 .. L - 1 : Contents[i] = Data[chain[i + 1]]
    <2>1. Contents = ItemsOf(chain, Data)
      BY DEF Contents, ItemsOf
    <2>2. /\ chain \in Seq(Nodes) /\ Len(chain) > 0
          /\ Data \in [Nodes -> Items \cup {NoItem}]
      BY <1>1 DEF TypeOK, ChainInv
    <2> QED
      BY <2>1, <2>2, ItemsOfChain
  <1>6. /\ Contents' \in Seq(Items \cup {NoItem})
        /\ Len(Contents') = L - 2
        /\ \A i \in 1 .. L - 2 : Contents'[i] = Data'[chain'[i + 1]]
    <2>1. /\ Contents' \in Seq(Items \cup {NoItem})
          /\ Len(Contents') = Len(chain') - 1
          /\ \A i \in 1 .. Len(chain') - 1 : Contents'[i] = Data'[chain'[i + 1]]
      <3>1. Contents' = ItemsOf(chain', Data')
        BY DEF Contents, ItemsOf
      <3> QED
        BY <1>1, <3>1, ItemsOfChain DEF TypeOK, ChainInv
    <2>2. Len(chain') - 1 = L - 2
      BY <1>4
    <2> QED
      BY <2>1, <2>2
  <1>7. ASSUME NEW i \in 1 .. L - 2
        PROVE  Contents'[i] = Contents[i + 1]
    <2>1. i + 1 \in 1 .. L - 1
      OBVIOUS
    <2> QED
      BY <1>2, <1>4, <1>5, <1>6, <2>1
  <1>8. result' = Contents[1]
    <2>1. 1 \in 1 .. L - 1 /\ 1 + 1 = 2
      BY <1>3
    <2> QED
      BY <1>2, <1>3, <1>5, <2>1
  <1>9. Contents' = Tail(Contents) /\ Head(Contents) = Contents[1] /\ Contents # <<>>
    <2>1. Len(Contents') = Len(Contents) - 1 /\ Len(Contents) > 0
      BY <1>3, <1>5, <1>6
    <2> HIDE DEF Contents
    <2> QED
      BY <1>5, <1>6, <1>7, <2>1, TailIs
  <1> QED
    BY <1>8, <1>9 DEF Queue!Dequeue

\* Every step of the queue is a step of Fifo or leaves it unchanged.
LEMMA FifoStep ==
  ASSUME QueueInv, [Step]_vars
  PROVE  [Queue!Next]_<<Contents, result>>
  <1>1. ASSUME NEW p \in Producers, NEW n \in Nodes, NEW x \in Items \ Held,
               Exchange(p, n, x)
        PROVE  Queue!Next
    BY <1>1, ExchangeEnqueues DEF Queue!Next
  <1>2. CASE Take
    BY <1>2, TakeDequeues DEF Queue!Next
  <1>3. CASE UNCHANGED <<Data, chain, result>>
    BY <1>3 DEF Contents
  <1> QED
    BY <1>1, <1>2, <1>3 DEF Step, Dequeue, Link, Load, Delete, BeginDestroy, EndDestroy,
       Destroyed, vars, producerVars, consumerVars

\* The lock-free queue implements the FIFO queue: an Enqueue takes effect at its
\* exchange of _head and a Dequeue at its store of _tail, in every interleaving.
THEOREM QueueImplementsFifo == Spec => ImplementsFifo
  <1>1. Init => Queue!Init
    <2> SUFFICES ASSUME Init
                 PROVE  Queue!Init
      OBVIOUS
    <2>1. TypeOK /\ ChainInv
      BY InitInv DEF QueueInv
    <2>2. Len(Contents) = 0 /\ Contents \in Seq(Items \cup {NoItem})
      <3>1. Contents = ItemsOf(chain, Data)
        BY DEF Contents, ItemsOf
      <3>2. /\ chain \in Seq(Nodes) /\ Len(chain) = 1
            /\ Data \in [Nodes -> Items \cup {NoItem}]
        BY <2>1 DEF Init, TypeOK
      <3> QED
        BY <3>1, <3>2, ItemsOfChain
    <2>3. Contents = <<>>
      BY <2>2
    <2> QED
      BY <2>3 DEF Init, Queue!Init
  <1>2. QueueInv /\ [Step]_vars => [Queue!Next]_<<Contents, result>>
    BY FifoStep
  <1> QED
    BY <1>1, <1>2, QueueInvariant, PTL DEF Spec, ImplementsFifo, Queue!Spec
=============================================================================
