--------------------------- MODULE AciHal_proofs ---------------------------
(***************************************************************************)
(* What the circular queue of AciQueue does to the sequence of packets it  *)
(* holds, and what the functions of AciHal do to two such queues, for      *)
(* every number of slots and every set of packets: the lemmas from which   *)
(* the proofs about the layers above are built.                            *)
(***************************************************************************)
EXTENDS AciHal, SequenceTheorems, TLAPS

-----------------------------------------------------------------------------
(* The circular queue as a sequence. *)

\* The next index, and the slot of the i-th packet counted from the head.
LEMMA SuccIndex ==
    \A i \in Index :
        /\ Succ(i) = IF i + 1 = ACI_QUEUE_SIZE THEN 0 ELSE i + 1
        /\ Succ(i) \in Index
BY QueueSizeAssumption DEF Index, Succ

LEMMA SlotIndex ==
    \A h \in Index, i \in 1 .. ACI_QUEUE_SIZE :
        Slot(h, i) = IF h + i - 1 >= ACI_QUEUE_SIZE
                     THEN h + i - 1 - ACI_QUEUE_SIZE ELSE h + i - 1
<1>1. ACI_QUEUE_SIZE \in Nat /\ ACI_QUEUE_SIZE >= 2
  BY QueueSizeAssumption
<1>2. \A x, y \in 0 .. ACI_QUEUE_SIZE - 1 :
        (x + y) % ACI_QUEUE_SIZE =
           IF x + y >= ACI_QUEUE_SIZE THEN x + y - ACI_QUEUE_SIZE ELSE x + y
  BY <1>1
<1> SUFFICES ASSUME NEW h \in Index, NEW i \in 1 .. ACI_QUEUE_SIZE
             PROVE  Slot(h, i) = IF h + i - 1 >= ACI_QUEUE_SIZE
                                 THEN h + i - 1 - ACI_QUEUE_SIZE ELSE h + i - 1
  OBVIOUS
<1> DEFINE j == i - 1
<1>3. j \in 0 .. ACI_QUEUE_SIZE - 1 /\ h \in 0 .. ACI_QUEUE_SIZE - 1 /\ h + i - 1 = h + j
  BY <1>1 DEF Index
<1> HIDE DEF j
<1>4. (h + j) % ACI_QUEUE_SIZE =
           IF h + j >= ACI_QUEUE_SIZE THEN h + j - ACI_QUEUE_SIZE ELSE h + j
  BY <1>2, <1>3
<1>5. Slot(h, i) = (h + j) % ACI_QUEUE_SIZE
  BY DEF Slot, j
<1> QED
  BY <1>3, <1>4, <1>5

\* How the two indexes measure a queue, and what moving one of them does.
LEMMA UsedSlots ==
    ASSUME NEW h \in Index, NEW t \in Index
    PROVE  /\ Used(h, t) \in 0 .. ACI_QUEUE_SIZE - 1
           /\ Used(h, t) = 0 <=> h = t
           /\ Succ(t) = h <=> Used(h, t) = ACI_QUEUE_SIZE - 1
           /\ Succ(t) # h => Used(h, Succ(t)) = Used(h, t) + 1
           /\ h # t => Used(Succ(h), t) = Used(h, t) - 1
           /\ Slot(h, Used(h, t) + 1) = t
           /\ \A i \in 1 .. Used(h, t) : Slot(h, i) # t /\ Slot(h, i) \in Index
           /\ Slot(h, 1) = h
           /\ \A i \in 1 .. ACI_QUEUE_SIZE - 1 : Slot(Succ(h), i) = Slot(h, i + 1)
<1>1. /\ ACI_QUEUE_SIZE \in Nat /\ ACI_QUEUE_SIZE >= 2
      /\ h \in 0 .. ACI_QUEUE_SIZE - 1 /\ t \in 0 .. ACI_QUEUE_SIZE - 1
  BY QueueSizeAssumption DEF Index
<1>2. Used(h, t) \in 0 .. ACI_QUEUE_SIZE - 1 /\ (Used(h, t) = 0 <=> h = t)
  BY <1>1 DEF Used
<1>3. /\ Succ(t) = (IF t + 1 = ACI_QUEUE_SIZE THEN 0 ELSE t + 1)
      /\ Succ(h) = (IF h + 1 = ACI_QUEUE_SIZE THEN 0 ELSE h + 1)
      /\ Succ(h) \in Index
  BY SuccIndex
<1>4. Succ(t) = h <=> Used(h, t) = ACI_QUEUE_SIZE - 1
  BY <1>1, <1>3 DEF Used
<1>5. Succ(t) # h => Used(h, Succ(t)) = Used(h, t) + 1
  BY <1>1, <1>3 DEF Used
<1>6. h # t => Used(Succ(h), t) = Used(h, t) - 1
  BY <1>1, <1>3 DEF Used
<1>7. Slot(h, Used(h, t) + 1) = t
  <2>1. Slot(h, Used(h, t) + 1) =
          IF h + (Used(h, t) + 1) - 1 >= ACI_QUEUE_SIZE
          THEN h + (Used(h, t) + 1) - 1 - ACI_QUEUE_SIZE
          ELSE h + (Used(h, t) + 1) - 1
    BY <1>1, <1>2, SlotIndex
  <2> QED
    BY <1>1, <1>2, <2>1 DEF Used
<1>8. \A i \in 1 .. Used(h, t) : Slot(h, i) # t /\ Slot(h, i) \in Index
  <2> TAKE i \in 1 .. Used(h, t)
  <2>1. Slot(h, i) = IF h + i - 1 >= ACI_QUEUE_SIZE
                     THEN h + i - 1 - ACI_QUEUE_SIZE ELSE h + i - 1
    BY <1>1, <1>2, SlotIndex
  <2> QED
    BY <1>1, <1>2, <2>1 DEF Used, Index
<1>9. Slot(h, 1) = h
  BY <1>1, SlotIndex
<1>10. \A i \in 1 .. ACI_QUEUE_SIZE - 1 : Slot(Succ(h), i) = Slot(h, i + 1)
  <2> TAKE i \in 1 .. ACI_QUEUE_SIZE - 1
  <2>1. Slot(h, i + 1) = IF h + (i + 1) - 1 >= ACI_QUEUE_SIZE
                     THEN h + (i + 1) - 1 - ACI_QUEUE_SIZE ELSE h + (i + 1) - 1
    BY <1>1, SlotIndex
  <2>2. Slot(Succ(h), i) = IF Succ(h) + i - 1 >= ACI_QUEUE_SIZE
                     THEN Succ(h) + i - 1 - ACI_QUEUE_SIZE ELSE Succ(h) + i - 1
    BY <1>1, <1>3, SlotIndex
  <2> QED
    BY <1>1, <1>3, <2>1, <2>2
<1> QED
  BY <1>2, <1>4, <1>5, <1>6, <1>7, <1>8, <1>9, <1>10

\* A fresh queue is a queue, and it holds nothing.
LEMMA InitQueue ==
    ASSUME NEW P
    PROVE  /\ aci_queue_init \in Queues(P)
           /\ Contents(aci_queue_init) = << >>
BY QueueSizeAssumption
   DEF aci_queue_init, Queues, Contents, Count, Used, Index

\* The occupancy stays below the number of slots, and the two tests of the
\* queue are tests of its contents.
LEMMA QueueTests ==
    ASSUME NEW P, NEW q \in Queues(P)
    PROVE  /\ Count(q) \in 0 .. ACI_QUEUE_SIZE - 1
           /\ Len(Contents(q)) = Count(q)
           /\ aci_queue_is_empty(q) <=> Contents(q) = << >>
           /\ aci_queue_is_full(q) <=> Count(q) = ACI_QUEUE_SIZE - 1
<1>1. q.head \in Index /\ q.tail \in Index
  BY DEF Queues
<1>2. /\ Count(q) \in 0 .. ACI_QUEUE_SIZE - 1
      /\ Count(q) = 0 <=> aci_queue_is_empty(q)
      /\ aci_queue_is_full(q) <=> Count(q) = ACI_QUEUE_SIZE - 1
  BY <1>1, UsedSlots DEF Count, aci_queue_is_empty, aci_queue_is_full
<1>3. Len(Contents(q)) = Count(q) /\ (Contents(q) = << >> <=> Count(q) = 0)
  BY <1>2, QueueSizeAssumption DEF Contents
<1> QED
  BY <1>2, <1>3

\* An enqueue into a queue with room appends the packet.
LEMMA EnqueueAppends ==
    ASSUME NEW P, NEW q \in Queues(P), NEW p \in P, ~aci_queue_is_full(q)
    PROVE  /\ aci_queue_enqueue(q, p) \in Queues(P)
           /\ Contents(aci_queue_enqueue(q, p)) = Append(Contents(q), p)
<1> DEFINE r == aci_queue_enqueue(q, p)
<1>1. /\ q.head \in Index /\ q.tail \in Index
      /\ q.aci_data \in [Index -> P \cup {NoPacket}]
  BY DEF Queues
<1>2. r = [aci_data |-> [q.aci_data EXCEPT ![q.tail] = p],
           head |-> q.head, tail |-> Succ(q.tail)]
  BY DEF aci_queue_enqueue
<1>3. r \in Queues(P)
  BY <1>1, <1>2, SuccIndex DEF Queues
<1>4. Count(q) \in 0 .. ACI_QUEUE_SIZE - 1 /\ Count(r) = Count(q) + 1
  BY <1>1, <1>2, UsedSlots DEF Count, aci_queue_is_full
<1>5. Slot(r.head, Count(q) + 1) = q.tail
  BY <1>1, <1>2, UsedSlots DEF Count
<1>6. \A i \in 1 .. Count(q) :
        Slot(r.head, i) = Slot(q.head, i) /\ Slot(q.head, i) # q.tail /\ Slot(q.head, i) \in Index
  BY <1>1, <1>2, UsedSlots DEF Count
<1>7. \A i \in 1 .. Count(q) + 1 :
        r.aci_data[Slot(r.head, i)]
          = IF i = Count(q) + 1 THEN p ELSE q.aci_data[Slot(q.head, i)]
  BY <1>1, <1>2, <1>4, <1>5, <1>6, QueueSizeAssumption
<1>8. Contents(r) = [i \in 1 .. Count(q) + 1 |->
                       IF i = Count(q) + 1 THEN p ELSE q.aci_data[Slot(q.head, i)]]
  BY <1>4, <1>7 DEF Contents
<1> HIDE DEF r
<1>9. Contents(r) = Append(Contents(q), p)
  BY <1>4, <1>8, QueueSizeAssumption DEF Contents
<1> QED
  BY <1>3, <1>9 DEF r

\* A dequeue from a queue that holds something drops the packet peek shows.
LEMMA DequeueTakesHead ==
    ASSUME NEW P, NEW q \in Queues(P), ~aci_queue_is_empty(q)
    PROVE  /\ aci_queue_dequeue(q) \in Queues(P)
           /\ Contents(q) # << >>
           /\ aci_queue_peek(q) = Head(Contents(q))
           /\ Contents(aci_queue_dequeue(q)) = Tail(Contents(q))
<1> DEFINE r == aci_queue_dequeue(q)
<1>1. q.head \in Index /\ q.tail \in Index
  BY DEF Queues
<1>2. r = [aci_data |-> q.aci_data, head |-> Succ(q.head), tail |-> q.tail]
  BY DEF aci_queue_dequeue
<1>3. r \in Queues(P)
  BY <1>2, SuccIndex DEF Queues
<1>4. Count(q) \in 1 .. ACI_QUEUE_SIZE - 1 /\ Count(r) = Count(q) - 1
  BY <1>1, <1>2, UsedSlots, QueueSizeAssumption DEF Count, aci_queue_is_empty
<1>5. Slot(q.head, 1) = q.head
  BY <1>1, UsedSlots
<1>6. \A i \in 1 .. ACI_QUEUE_SIZE - 1 : Slot(r.head, i) = Slot(q.head, i + 1)
  BY <1>1, <1>2, UsedSlots
<1>7. r.aci_data = q.aci_data
  BY <1>2
<1> HIDE DEF r
<1>8. Contents(q) # << >> /\ Head(Contents(q)) = q.aci_data[q.head]
  BY <1>4, <1>5, QueueSizeAssumption DEF Contents
<1>9. Contents(r) = [i \in 1 .. Count(q) - 1 |-> q.aci_data[Slot(q.head, i + 1)]]
  BY <1>4, <1>6, <1>7, QueueSizeAssumption DEF Contents
<1>10. Contents(r) = Tail(Contents(q))
  BY <1>4, <1>9, QueueSizeAssumption DEF Contents
<1> QED
  BY <1>3, <1>8, <1>10 DEF aci_queue_peek, r

-----------------------------------------------------------------------------
(* The functions of AciHal, for commands from C and events from E. *)

Holds(q, P) == q \in Queues(P) /\ Contents(q) \in Seq(P)

Hosts(C, E) ==
    [tx : Queues(C), rx : Queues(E), reqn : {HIGH, LOW}, spin : BOOLEAN]

HostOK(h, C, E) ==
    /\ h \in Hosts(C, E)
    /\ Contents(h.tx) \in Seq(C) /\ Contents(h.rx) \in Seq(E)

Chips(E) == [rdyn : {HIGH, LOW}, out : Seq(E)]

\* Where the packets lie may be forgotten: the contents stay.
LEMMA PackKeeps ==
    ASSUME NEW P, NEW q, Holds(q, P)
    PROVE  Holds(Packed(q), P) /\ Contents(Packed(q)) = Contents(q)
<1>1. Count(q) \in 0 .. ACI_QUEUE_SIZE - 1 /\ Len(Contents(q)) = Count(q)
  BY QueueTests DEF Holds
<1>2. ACI_QUEUE_SIZE \in Nat /\ ACI_QUEUE_SIZE >= 2
  BY QueueSizeAssumption
<1> DEFINE r == Packed(q)
           n == Count(q)
           s == Contents(q)
<1>3. /\ r.aci_data = [i \in Index |-> IF i < n THEN s[i + 1] ELSE NoPacket]
      /\ r.head = 0 /\ r.tail = n
      /\ r = [aci_data |-> r.aci_data, head |-> 0, tail |-> n]
  BY DEF Packed
<1>4. \A i \in 1 .. n : s[i] \in P
  BY <1>1 DEF Holds
<1>5. 0 \in Index /\ n \in Index
  BY <1>1, <1>2 DEF Index
<1>6. Count(r) = n
  BY <1>1, <1>3 DEF Count, Used
<1>7. s = [i \in 1 .. n |-> s[i]]
  BY <1>1 DEF Contents
<1> HIDE DEF r, n, s
<1>8. r.aci_data \in [Index -> P \cup {NoPacket}]
  <2> SUFFICES ASSUME NEW i \in Index
               PROVE  (IF i < n THEN s[i + 1] ELSE NoPacket) \in P \cup {NoPacket}
    BY <1>3
  <2>1. i < n => i + 1 \in 1 .. n
    BY <1>1, <1>2 DEF Index, n
  <2> QED
    BY <1>4, <2>1
<1>9. r \in Queues(P)
  BY <1>3, <1>5, <1>8 DEF Queues
<1>10. ASSUME NEW i \in 1 .. n
       PROVE  r.aci_data[Slot(r.head, i)] = s[i]
  <2>1. i \in 1 .. ACI_QUEUE_SIZE /\ i - 1 \in Index /\ i - 1 < n
    BY <1>1, <1>2 DEF Index, n
  <2>2. Slot(0, i) = i - 1
    BY <1>2, <1>5, <2>1, SlotIndex
  <2>3. r.aci_data[i - 1] = s[(i - 1) + 1]
    BY <1>3, <2>1
  <2>4. (i - 1) + 1 = i
    BY <2>1
  <2> QED
    BY <1>3, <2>2, <2>3, <2>4
<1>11. Contents(r) = s
  BY <1>6, <1>7, <1>10 DEF Contents
<1> QED
  BY <1>9, <1>11 DEF Holds, r, s

LEMMA HalPack ==
    ASSUME NEW C, NEW E, NEW h, HostOK(h, C, E)
    PROVE  /\ HostOK(Pack(h), C, E)
           /\ Contents(Pack(h).tx) = Contents(h.tx) /\ Contents(Pack(h).rx) = Contents(h.rx)
<1>1. Holds(h.tx, C) /\ Holds(h.rx, E)
  BY DEF HostOK, Hosts, Holds
<1>2. /\ Pack(h) = [tx |-> Packed(h.tx), rx |-> Packed(h.rx), reqn |-> h.reqn, spin |-> h.spin]
  BY DEF Pack
<1>3. /\ Holds(Packed(h.tx), C) /\ Contents(Packed(h.tx)) = Contents(h.tx)
      /\ Holds(Packed(h.rx), E) /\ Contents(Packed(h.rx)) = Contents(h.rx)
  BY <1>1, PackKeeps
<1> QED
  BY <1>2, <1>3 DEF HostOK, Hosts, Holds

\* A send appends the command or, when there is no room, changes nothing.
SendEffect(h, c, r) ==
    /\ Contents(r.hal.rx) = Contents(h.rx)
    /\ \/ r.ok = TRUE /\ Contents(r.hal.tx) = Append(Contents(h.tx), c)
       \/ r.ok = FALSE /\ r.hal = h /\ aci_queue_is_full(h.tx)

LEMMA HalSend ==
    ASSUME NEW C, NEW E, NEW h, HostOK(h, C, E), NEW c \in C
    PROVE  /\ HostOK(hal_aci_tl_send(h, c).hal, C, E)
           /\ SendEffect(h, c, hal_aci_tl_send(h, c))
<1> DEFINE r == hal_aci_tl_send(h, c)
<1>1. CASE aci_queue_is_full(h.tx)
  BY <1>1 DEF hal_aci_tl_send, SendEffect
<1>2. CASE ~aci_queue_is_full(h.tx)
  <2>1. /\ r.ok = TRUE
        /\ r.hal = [tx |-> aci_queue_enqueue(h.tx, c), rx |-> h.rx,
                    reqn |-> IF aci_queue_is_full(h.rx) THEN h.reqn ELSE LOW,
                    spin |-> h.spin]
    BY <1>2 DEF hal_aci_tl_send
  <2> HIDE DEF r
  <2>2. /\ h.tx \in Queues(C) /\ Contents(h.tx) \in Seq(C)
        /\ h.rx \in Queues(E) /\ Contents(h.rx) \in Seq(E)
        /\ h.reqn \in {HIGH, LOW} /\ h.spin \in BOOLEAN
    BY DEF HostOK, Hosts
  <2>3. /\ aci_queue_enqueue(h.tx, c) \in Queues(C)
        /\ Contents(aci_queue_enqueue(h.tx, c)) = Append(Contents(h.tx), c)
    BY <1>2, <2>2, EnqueueAppends
  <2>4. Append(Contents(h.tx), c) \in Seq(C)
    BY <2>2
  <2>5. /\ r.hal.tx = aci_queue_enqueue(h.tx, c) /\ r.hal.rx = h.rx
        /\ r.hal \in Hosts(C, E)
    BY <2>1, <2>2, <2>3 DEF Hosts
  <2>6. HostOK(r.hal, C, E)
    BY <2>2, <2>3, <2>4, <2>5 DEF HostOK, Hosts
  <2> QED
    BY <2>1, <2>3, <2>5, <2>6 DEF SendEffect, r
<1> QED
  BY <1>1, <1>2

\* The commands are those before, or all but the oldest, which went out.
GoesOut(before, after, sent) ==
    \/ sent = << >> /\ after = before
    \/ before # << >> /\ sent = << Head(before) >> /\ after = Tail(before)

LEMMA HalTransfer ==
    ASSUME NEW C, NEW E, NEW h, HostOK(h, C, E), NEW c \in Chips(E), ~aci_queue_is_full(h.rx),
           NEW r, r = Transfer(h, c)
    PROVE  /\ HostOK(r.hal, C, E) /\ r.chip \in Chips(E)
           /\ GoesOut(Contents(h.tx), Contents(r.hal.tx), r.sent)
<1>0. /\ h.tx \in Queues(C) /\ Contents(h.tx) \in Seq(C)
      /\ h.rx \in Queues(E) /\ Contents(h.rx) \in Seq(E)
  BY DEF HostOK, Hosts
<1> DEFINE tx == IF aci_queue_is_empty(h.tx) THEN h.tx ELSE aci_queue_dequeue(h.tx)
           rx == IF c.out # << >> THEN aci_queue_enqueue(h.rx, Head(c.out)) ELSE h.rx
<1>2. /\ tx \in Queues(C) /\ Contents(tx) \in Seq(C)
      /\ ~aci_queue_is_empty(h.tx) =>
           /\ Contents(h.tx) # << >>
           /\ aci_queue_peek(h.tx) = Head(Contents(h.tx))
           /\ Contents(tx) = Tail(Contents(h.tx))
  BY <1>0, DequeueTakesHead, SMTT(30)
<1>3. c.out \in Seq(E) /\ (c.out # << >> => Head(c.out) \in E)
  BY DEF Chips
<1>4. /\ rx \in Queues(E) /\ Contents(rx) \in Seq(E)
      /\ c.out # << >> => Contents(rx) = Append(Contents(h.rx), Head(c.out))
  <2>1. CASE c.out = << >>
    BY <1>0, <2>1
  <2>2. CASE c.out # << >>
    <3>1. Head(c.out) \in E /\ rx = aci_queue_enqueue(h.rx, Head(c.out))
      BY <1>3, <2>2
    <3>2. rx \in Queues(E) /\ Contents(rx) = Append(Contents(h.rx), Head(c.out))
      BY <1>0, <3>1, EnqueueAppends
    <3>3. Append(Contents(h.rx), Head(c.out)) \in Seq(E)
      BY <1>0, <3>1
    <3> QED
      BY <3>2, <3>3
  <2> QED
    BY <2>1, <2>2
<1>5. /\ r.hal = [tx |-> tx, rx |-> rx, reqn |-> RequestAgain(tx, h.rx), spin |-> FALSE]
      /\ r.chip = [rdyn |-> HIGH, out |-> IF c.out # << >> THEN Tail(c.out) ELSE << >>]
      /\ r.sent = IF aci_queue_is_empty(h.tx) THEN << >> ELSE << aci_queue_peek(h.tx) >>
  BY DEF Transfer
<1>6. tx = h.tx \/ ~aci_queue_is_empty(h.tx)
  OBVIOUS
<1> HIDE DEF tx, rx
<1>7. HostOK(r.hal, C, E)
  BY <1>2, <1>4, <1>5 DEF HostOK, Hosts, RequestAgain
<1>8. r.chip \in Chips(E)
  BY <1>3, <1>5 DEF Chips
<1>9. GoesOut(Contents(h.tx), Contents(r.hal.tx), r.sent)
  BY <1>2, <1>5, <1>6 DEF GoesOut, tx
<1> QED
  BY <1>7, <1>8, <1>9

LEMMA HalCheck ==
    ASSUME NEW C, NEW E, NEW h, HostOK(h, C, E), NEW c \in Chips(E), NEW r, r = m_aci_event_check(h, c)
    PROVE  /\ HostOK(r.hal, C, E) /\ r.chip \in Chips(E)
           /\ GoesOut(Contents(h.tx), Contents(r.hal.tx), r.sent)
<1>0. /\ h.tx \in Queues(C) /\ Contents(h.tx) \in Seq(C)
      /\ h.rx \in Queues(E) /\ Contents(h.rx) \in Seq(E)
      /\ h.reqn \in {HIGH, LOW} /\ h.spin \in BOOLEAN
  BY DEF HostOK, Hosts
<1>1. CASE aci_queue_is_full(h.rx)
  <2>1. r = NoTransfer(h, c)
    BY <1>1 DEF m_aci_event_check
  <2> QED
    BY <2>1 DEF NoTransfer, GoesOut
<1>2. CASE ~aci_queue_is_full(h.rx) /\ c.rdyn = HIGH
  <2> DEFINE g == [tx |-> h.tx, rx |-> h.rx,
                   reqn |-> IF aci_queue_is_empty(h.tx) THEN h.reqn ELSE LOW,
                   spin |-> h.spin]
  <2>1. r = NoTransfer(g, c)
    BY <1>2 DEF m_aci_event_check
  <2>2. r.hal = g /\ r.chip = c /\ r.sent = << >>
    BY <2>1 DEF NoTransfer
  <2>3. HostOK(g, C, E) /\ g.tx = h.tx
    BY <1>0 DEF HostOK, Hosts
  <2> HIDE DEF g
  <2> QED
    BY <2>2, <2>3 DEF GoesOut
<1>3. CASE ~aci_queue_is_full(h.rx) /\ c.rdyn # HIGH
  BY <1>3, HalTransfer DEF m_aci_event_check
<1> QED
  BY <1>1, <1>2, <1>3

LEMMA HalGet ==
    ASSUME NEW C, NEW E, NEW h, HostOK(h, C, E), NEW c \in Chips(E), NEW r, r = hal_aci_tl_event_get(h, c)
    PROVE  /\ HostOK(r.hal, C, E) /\ r.c.chip \in Chips(E)
           /\ GoesOut(Contents(h.tx), Contents(r.hal.tx), r.c.sent)
<1> DEFINE k == m_aci_event_check(h, c)
<1>1. HostOK(k.hal, C, E) /\ k.chip \in Chips(E) /\ GoesOut(Contents(h.tx), Contents(k.hal.tx), k.sent)
  BY HalCheck
<1>2. CASE aci_queue_is_empty(k.hal.rx)
  <2>1. r.c = k /\ r.hal = k.hal
    BY <1>2 DEF hal_aci_tl_event_get
  <2> HIDE DEF k
  <2> QED
    BY <1>1, <2>1
<1>3. CASE ~aci_queue_is_empty(k.hal.rx)
  <2>1. r.c = k /\ r.hal = TakeEvent(k.hal)
    BY <1>3 DEF hal_aci_tl_event_get
  <2> DEFINE q == aci_queue_dequeue(k.hal.rx)
  <2>2. TakeEvent(k.hal) =
          [tx |-> k.hal.tx, rx |-> q,
           reqn |-> IF ~aci_queue_is_full(q) /\ ~aci_queue_is_empty(k.hal.tx)
                    THEN LOW ELSE k.hal.reqn,
           spin |-> k.hal.spin]
    BY DEF TakeEvent
  <2> HIDE DEF k
  <2>3. /\ k.hal.tx \in Queues(C) /\ Contents(k.hal.tx) \in Seq(C)
        /\ k.hal.rx \in Queues(E) /\ Contents(k.hal.rx) \in Seq(E)
        /\ k.hal.reqn \in {HIGH, LOW} /\ k.hal.spin \in BOOLEAN
    BY <1>1 DEF HostOK, Hosts
  <2>4. /\ q \in Queues(E) /\ Contents(k.hal.rx) # << >>
        /\ Contents(q) = Tail(Contents(k.hal.rx))
    BY <1>3, <2>3, DequeueTakesHead
  <2>5. Contents(q) \in Seq(E)
    BY <2>3, <2>4
  <2> HIDE DEF q
  <2>6. /\ r.hal.tx = k.hal.tx /\ r.hal.rx = q
        /\ r.hal \in Hosts(C, E)
    BY <2>1, <2>2, <2>3, <2>4 DEF Hosts
  <2>7. HostOK(r.hal, C, E)
    BY <2>3, <2>5, <2>6 DEF HostOK, Hosts
  <2> QED
    BY <1>1, <2>1, <2>6, <2>7
<1> QED
  BY <1>2, <1>3
\* The event queue gets the oldest event the radio holds back, if there is one.
ComesIn(before, after, out, left) ==
    \/ out = << >> /\ left = << >> /\ after = before
    \/ out # << >> /\ left = Tail(out) /\ after = Append(before, Head(out))

\* What one exchange does to both queues and to the events held back.
Moved(h, c, r) ==
    /\ \/ Contents(h.tx) = << >> /\ r.sent = << >> /\ Contents(r.hal.tx) = << >>
       \/ /\ Contents(h.tx) # << >> /\ r.sent = << Head(Contents(h.tx)) >>
          /\ Contents(r.hal.tx) = Tail(Contents(h.tx))
    /\ ComesIn(Contents(h.rx), Contents(r.hal.rx), c.out, r.chip.out)

NotMoved(h, c, r) ==
    /\ r.sent = << >> /\ r.chip = c
    /\ Contents(r.hal.tx) = Contents(h.tx) /\ Contents(r.hal.rx) = Contents(h.rx)

\* An exchange is made if the radio is ready and its event can be stored.
LEMMA CheckMoves ==
    ASSUME NEW C, NEW E, NEW h, HostOK(h, C, E), NEW c \in Chips(E), NEW r, r = m_aci_event_check(h, c)
    PROVE  IF aci_queue_is_full(h.rx) \/ c.rdyn = HIGH THEN NotMoved(h, c, r) ELSE Moved(h, c, r)
<1>0. /\ h.tx \in Queues(C) /\ Contents(h.tx) \in Seq(C)
      /\ h.rx \in Queues(E) /\ Contents(h.rx) \in Seq(E)
  BY DEF HostOK, Hosts
<1>1. CASE aci_queue_is_full(h.rx)
  BY <1>1 DEF m_aci_event_check, NoTransfer, NotMoved
<1>2. CASE ~aci_queue_is_full(h.rx) /\ c.rdyn = HIGH
  BY <1>2 DEF m_aci_event_check, NoTransfer, NotMoved
<1>3. CASE ~aci_queue_is_full(h.rx) /\ c.rdyn # HIGH
  <2> DEFINE tx == IF aci_queue_is_empty(h.tx) THEN h.tx ELSE aci_queue_dequeue(h.tx)
             rx == IF c.out # << >> THEN aci_queue_enqueue(h.rx, Head(c.out)) ELSE h.rx
  <2>1. /\ r.hal = [tx |-> tx, rx |-> rx, reqn |-> RequestAgain(tx, h.rx), spin |-> FALSE]
        /\ r.chip = [rdyn |-> HIGH, out |-> IF c.out # << >> THEN Tail(c.out) ELSE << >>]
        /\ r.sent = IF aci_queue_is_empty(h.tx) THEN << >> ELSE << aci_queue_peek(h.tx) >>
    BY <1>3 DEF m_aci_event_check, Transfer
  <2>2. ComesIn(Contents(h.rx), Contents(rx), c.out, r.chip.out)
    <3>1. CASE c.out = << >>
      BY <2>1, <3>1 DEF ComesIn
    <3>2. CASE c.out # << >>
      <4>1. Head(c.out) \in E /\ rx = aci_queue_enqueue(h.rx, Head(c.out))
        BY <3>2 DEF Chips
      <4>2. Contents(rx) = Append(Contents(h.rx), Head(c.out))
        BY <1>0, <1>3, <4>1, EnqueueAppends
      <4> QED
        BY <2>1, <3>2, <4>2 DEF ComesIn
    <3> QED
      BY <3>1, <3>2
  <2>3. \/ Contents(h.tx) = << >> /\ r.sent = << >> /\ Contents(tx) = << >>
        \/ /\ Contents(h.tx) # << >> /\ r.sent = << Head(Contents(h.tx)) >>
           /\ Contents(tx) = Tail(Contents(h.tx))
    <3>1. CASE aci_queue_is_empty(h.tx)
      BY <1>0, <2>1, <3>1, QueueTests
    <3>2. CASE ~aci_queue_is_empty(h.tx)
      <4>1. tx = aci_queue_dequeue(h.tx) /\ r.sent = << aci_queue_peek(h.tx) >>
        BY <2>1, <3>2
      <4> QED
        BY <1>0, <3>2, <4>1, DequeueTakesHead
    <3> QED
      BY <3>1, <3>2
  <2>4. r.hal.tx = tx /\ r.hal.rx = rx
    BY <2>1
  <2> HIDE DEF tx, rx
  <2> QED
    BY <1>3, <2>2, <2>3, <2>4 DEF Moved
<1> QED
  BY <1>1, <1>2, <1>3

\* The oldest event is taken out of the event queue, if there is one.
LEMMA GetTakes ==
    ASSUME NEW C, NEW E, NEW h, HostOK(h, C, E), NEW c \in Chips(E),
           NEW r, r = hal_aci_tl_event_get(h, c)
    PROVE  /\ r.c = m_aci_event_check(h, c)
           /\ Contents(r.hal.tx) = Contents(r.c.hal.tx)
           /\ IF Contents(r.c.hal.rx) = << >>
              THEN r.evt = << >> /\ Contents(r.hal.rx) = << >>
              ELSE /\ r.evt = << Head(Contents(r.c.hal.rx)) >>
                   /\ Contents(r.hal.rx) = Tail(Contents(r.c.hal.rx))
<1> DEFINE k == m_aci_event_check(h, c)
<1>1. k.hal.rx \in Queues(E)
  BY HalCheck DEF HostOK, Hosts
<1>2. r.c = k /\ r.hal = (IF aci_queue_is_empty(k.hal.rx) THEN k.hal ELSE TakeEvent(k.hal))
      /\ r.evt = IF aci_queue_is_empty(k.hal.rx) THEN << >> ELSE << aci_queue_peek(k.hal.rx) >>
  BY DEF hal_aci_tl_event_get
<1> HIDE DEF k
<1>3. CASE aci_queue_is_empty(k.hal.rx)
  BY <1>1, <1>2, <1>3, QueueTests DEF k
<1>4. CASE ~aci_queue_is_empty(k.hal.rx)
  <2>1. r.hal.tx = k.hal.tx /\ r.hal.rx = aci_queue_dequeue(k.hal.rx)
    BY <1>2, <1>4 DEF TakeEvent
  <2> QED
    BY <1>1, <1>2, <1>4, <2>1, DequeueTakesHead DEF k
<1> QED
  BY <1>3, <1>4
=============================================================================
