------------------------------ MODULE AciQueue ------------------------------
(***************************************************************************)
(* The circular queue of the nRF8001 driver (src/nrf8001/aci_queue.cpp).   *)
(* A queue is the record that aci_queue_t declares: an array of slots, the *)
(* index of the next packet to dequeue and the index where the next packet *)
(* goes.  One slot always stays unused, so that head = tail means empty.   *)
(***************************************************************************)
EXTENDS Integers, Sequences

CONSTANTS ACI_QUEUE_SIZE,  \* number of slots (4 in aci_queue.h)
          NoPacket         \* a slot whose length byte is zero

\* One slot is never used, so a queue that can hold anything has two; the
\* indexes are uint8_t.
ASSUME QueueSizeAssumption == ACI_QUEUE_SIZE \in 2 .. 255

Index == 0 .. ACI_QUEUE_SIZE - 1

aci_queue_init == [aci_data |-> [i \in Index |-> NoPacket], head |-> 0, tail |-> 0]

\* A slip: the index is not wrapped.
Mut_succ_no_wrap(i) == i + 1

Succ(i) == (i + 1) % ACI_QUEUE_SIZE

aci_queue_is_empty(q) == q.head = q.tail

\* A plausible slip: the comparison without the wrap-around of the tail.
Mut_full_no_wrap(q) == q.tail + 1 = q.head

aci_queue_is_full(q) == Succ(q.tail) = q.head

aci_queue_peek(q) == q.aci_data[q.head]

\* The queue after a dequeue; the caller has checked that it is not empty.
aci_queue_dequeue(q) ==
    [aci_data |-> q.aci_data, head |-> Succ(q.head), tail |-> q.tail]

\* A slip: the packet is written after the tail has moved.
Mut_enqueue_late(q, p) ==
    [q EXCEPT !.aci_data[Succ(q.tail)] = p, !.tail = Succ(q.tail)]

\* The queue after an enqueue; the caller has checked that it is not full.
aci_queue_enqueue(q, p) ==
    [aci_data |-> [q.aci_data EXCEPT ![q.tail] = p],
     head |-> q.head, tail |-> Succ(q.tail)]

-----------------------------------------------------------------------------
(* What a queue stands for. *)

\* The queues over a set of packets that the operations can produce.
Queues(Packet) ==
    [aci_data : [Index -> Packet \cup {NoPacket}], head : Index, tail : Index]

\* How many packets lie between a head and a tail, and the slot of the i-th.
Used(head, tail) ==
    IF tail >= head THEN tail - head ELSE tail - head + ACI_QUEUE_SIZE

Slot(head, i) == (head + (i - 1)) % ACI_QUEUE_SIZE

Count(q) == Used(q.head, q.tail)

\* The sequence of packets waiting in the queue, the oldest first.
Contents(q) == [i \in 1 .. Count(q) |-> q.aci_data[Slot(q.head, i)]]
=============================================================================
