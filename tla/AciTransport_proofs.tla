------------------------ MODULE AciTransport_proofs ------------------------
(***************************************************************************)
(* Theorems about the nRF8001 transport layer, for every queue size and    *)
(* every set of packets, and, in the last section, about the SPI exchange  *)
(* that carries one packet (AciSpi).                                       *)
(***************************************************************************)
EXTENDS AciTransport, AciSpi, AciHal_proofs

-----------------------------------------------------------------------------
(* The operations of the transport layer. *)

\* What is known of the host's half between two calls.
Sound(h) == HalOK(h) /\ ~h.spin /\ Requested(h)

ChipOK(c) == c.rdyn \in {HIGH, LOW} /\ c.out \in Seq(Evt)

LEMMA InitSound ==
    /\ Sound(hal_aci_tl_init)
    /\ Contents(hal_aci_tl_init.tx) = << >> /\ Contents(hal_aci_tl_init.rx) = << >>
<1>1. /\ aci_queue_init \in Queues(Cmd) /\ aci_queue_init \in Queues(Evt)
      /\ Contents(aci_queue_init) = << >>
  BY InitQueue
<1>2. << >> \in Seq(Cmd) /\ << >> \in Seq(Evt)
  OBVIOUS
<1> QED
  BY <1>1, <1>2 DEF Sound, HalOK, Requested, hal_aci_tl_init

LEMMA SendSound ==
    ASSUME NEW h, Sound(h), NEW c \in Cmd, NEW r, r = hal_aci_tl_send(h, c)
    PROVE  /\ Sound(r.hal)
           /\ Contents(r.hal.rx) = Contents(h.rx)
           /\ r.ok => /\ Contents(r.hal.tx) = Append(Contents(h.tx), c)
                      /\ Len(Contents(h.tx)) < ACI_QUEUE_SIZE - 1
           /\ ~r.ok => r.hal = h
           /\ r.ok \in BOOLEAN
<1>1. CASE aci_queue_is_full(h.tx)
  <2>1. r.ok = FALSE /\ r.hal = h
    BY <1>1 DEF hal_aci_tl_send
  <2> QED
    BY <2>1
<1>2. CASE ~aci_queue_is_full(h.tx)
  <2>1. /\ r.ok = TRUE
        /\ r.hal = [tx |-> aci_queue_enqueue(h.tx, c), rx |-> h.rx,
                    reqn |-> IF aci_queue_is_full(h.rx) THEN h.reqn ELSE LOW,
                    spin |-> h.spin]
    BY <1>2 DEF hal_aci_tl_send
  <2>2. h.tx \in Queues(Cmd) /\ Contents(h.tx) \in Seq(Cmd)
    BY DEF Sound, HalOK
  <2>3. /\ aci_queue_enqueue(h.tx, c) \in Queues(Cmd)
        /\ Contents(aci_queue_enqueue(h.tx, c)) = Append(Contents(h.tx), c)
    BY <1>2, <2>2, EnqueueAppends
  <2>4. Append(Contents(h.tx), c) \in Seq(Cmd)
    BY <2>2
  <2>5. Len(Contents(h.tx)) < ACI_QUEUE_SIZE - 1
    BY <1>2, <2>2, QueueTests, QueueSizeAssumption
  <2>6. HalOK(r.hal)
    BY <2>1, <2>3, <2>4 DEF Sound, HalOK
  <2>7. ~r.hal.spin /\ Requested(r.hal)
    BY <2>1 DEF Sound, Requested
  <2>8. Sound(r.hal)
    BY <2>6, <2>7 DEF Sound
  <2>9. r.hal.rx = h.rx /\ r.hal.tx = aci_queue_enqueue(h.tx, c)
    BY <2>1
  <2> QED
    BY <2>1, <2>3, <2>5, <2>8, <2>9
<1> QED
  BY <1>1, <1>2

\* An exchange moves the oldest command out and the radio's event in.
LEMMA TransferSound ==
    ASSUME NEW h, Sound(h), NEW c, ChipOK(c), ~aci_queue_is_full(h.rx),
           NEW r, r = Transfer(h, c)
    PROVE  /\ HalOK(r.hal) /\ ~r.hal.spin /\ Requested(r.hal)
           /\ r.chip \in [rdyn : {HIGH, LOW}, out : Seq(Evt)]
           /\ \/ r.sent = << >> /\ Contents(r.hal.tx) = Contents(h.tx)
              \/ /\ Contents(h.tx) # << >>
                 /\ r.sent = << Head(Contents(h.tx)) >>
                 /\ Contents(r.hal.tx) = Tail(Contents(h.tx))
           /\ \/ r.rcvd = << >> /\ Contents(r.hal.rx) = Contents(h.rx)
              \/ \E e \in Evt :
                   /\ r.rcvd = << e >>
                   /\ Contents(r.hal.rx) = Append(Contents(h.rx), e)
                   /\ Len(Contents(h.rx)) < ACI_QUEUE_SIZE - 1
<1> DEFINE tx == IF aci_queue_is_empty(h.tx) THEN h.tx ELSE aci_queue_dequeue(h.tx)
           rx == IF c.out # << >> THEN aci_queue_enqueue(h.rx, Head(c.out)) ELSE h.rx
<1>1. /\ h.tx \in Queues(Cmd) /\ Contents(h.tx) \in Seq(Cmd)
      /\ h.rx \in Queues(Evt) /\ Contents(h.rx) \in Seq(Evt)
  BY DEF Sound, HalOK
<1>2. /\ tx \in Queues(Cmd) /\ Contents(tx) \in Seq(Cmd)
      /\ ~aci_queue_is_empty(h.tx) =>
           /\ Contents(h.tx) # << >>
           /\ aci_queue_peek(h.tx) = Head(Contents(h.tx))
           /\ Contents(tx) = Tail(Contents(h.tx))
  BY <1>1, DequeueTakesHead, SMTT(30)
<1>3. c.out # << >> => Head(c.out) \in Evt
  BY DEF ChipOK
<1>4. Len(Contents(h.rx)) < ACI_QUEUE_SIZE - 1
  BY <1>1, QueueTests, QueueSizeAssumption
<1>5. /\ rx \in Queues(Evt) /\ Contents(rx) \in Seq(Evt)
      /\ c.out # << >> => Contents(rx) = Append(Contents(h.rx), Head(c.out))
  BY <1>1, <1>3, EnqueueAppends
<1>6. /\ r.hal.tx = tx /\ r.hal.rx = rx
      /\ r.hal.reqn = RequestAgain(tx, h.rx) /\ r.hal.spin = FALSE
      /\ r.hal = [tx |-> tx, rx |-> rx, reqn |-> RequestAgain(tx, h.rx), spin |-> FALSE]
      /\ r.chip = [rdyn |-> HIGH, out |-> IF c.out # << >> THEN Tail(c.out) ELSE << >>]
      /\ r.sent = IF aci_queue_is_empty(h.tx) THEN << >> ELSE << aci_queue_peek(h.tx) >>
      /\ r.rcvd = IF c.out # << >> THEN << Head(c.out) >> ELSE << >>
  BY DEF Transfer
<1> HIDE DEF tx, rx
<1>7. HalOK(r.hal)
  BY <1>2, <1>5, <1>6 DEF HalOK, RequestAgain
<1>8. Requested(r.hal)
  BY <1>6 DEF Requested, RequestAgain
<1>9. r.chip \in [rdyn : {HIGH, LOW}, out : Seq(Evt)]
  BY <1>6 DEF ChipOK
<1>10. \/ r.sent = << >> /\ Contents(r.hal.tx) = Contents(h.tx)
       \/ /\ Contents(h.tx) # << >>
          /\ r.sent = << Head(Contents(h.tx)) >>
          /\ Contents(r.hal.tx) = Tail(Contents(h.tx))
  BY <1>2, <1>6 DEF tx
<1>11. \/ r.rcvd = << >> /\ Contents(r.hal.rx) = Contents(h.rx)
       \/ \E e \in Evt :
            /\ r.rcvd = << e >>
            /\ Contents(r.hal.rx) = Append(Contents(h.rx), e)
            /\ Len(Contents(h.rx)) < ACI_QUEUE_SIZE - 1
  BY <1>3, <1>4, <1>5, <1>6 DEF rx
<1> QED
  BY <1>6, <1>7, <1>8, <1>9, <1>10, <1>11

\* The effect of a poll on the two channels, in the form every caller needs.
CheckEffect(h, r) ==
    /\ Sound(r.hal)
    /\ r.chip \in [rdyn : {HIGH, LOW}, out : Seq(Evt)]
    /\ \/ r.sent = << >> /\ Contents(r.hal.tx) = Contents(h.tx)
       \/ /\ Contents(h.tx) # << >>
          /\ r.sent = << Head(Contents(h.tx)) >>
          /\ Contents(r.hal.tx) = Tail(Contents(h.tx))
    /\ \/ r.rcvd = << >> /\ Contents(r.hal.rx) = Contents(h.rx)
       \/ \E e \in Evt :
            /\ r.rcvd = << e >>
            /\ Contents(r.hal.rx) = Append(Contents(h.rx), e)
            /\ Len(Contents(h.rx)) < ACI_QUEUE_SIZE - 1

LEMMA CheckSound ==
    ASSUME NEW h, Sound(h), NEW c, c \in [rdyn : {HIGH, LOW}, out : Seq(Evt)]
    PROVE  CheckEffect(h, m_aci_event_check(h, c))
<1> DEFINE r == m_aci_event_check(h, c)
<1>1. CASE aci_queue_is_full(h.rx)
  <2>1. r = NoTransfer(h, c)
    BY <1>1 DEF m_aci_event_check
  <2> QED
    BY <2>1 DEF CheckEffect, NoTransfer
<1>2. CASE ~aci_queue_is_full(h.rx) /\ c.rdyn = HIGH
  <2> DEFINE g == [tx |-> h.tx, rx |-> h.rx,
                   reqn |-> IF aci_queue_is_empty(h.tx) THEN h.reqn ELSE LOW,
                   spin |-> h.spin]
  <2>1. r = NoTransfer(g, c)
    BY <1>2 DEF m_aci_event_check
  <2>2. r.hal = g /\ r.chip = c /\ r.sent = << >> /\ r.rcvd = << >>
    BY <2>1 DEF NoTransfer
  <2>3. HalOK(g)
    BY DEF Sound, HalOK
  <2>4. ~g.spin /\ Requested(g)
    BY DEF Sound, Requested
  <2>5. g.tx = h.tx /\ g.rx = h.rx
    OBVIOUS
  <2> HIDE DEF g, r
  <2> QED
    BY <2>2, <2>3, <2>4, <2>5 DEF CheckEffect, Sound, r
<1>3. CASE ~aci_queue_is_full(h.rx) /\ c.rdyn # HIGH
  <2>1. r = Transfer(h, c)
    BY <1>3 DEF m_aci_event_check
  <2>2. ChipOK(c)
    BY DEF ChipOK
  <2> QED
    BY <1>3, <2>1, <2>2, TransferSound DEF CheckEffect, Sound
<1> QED
  BY <1>1, <1>2, <1>3

\* Handing an event to the caller.
LEMMA TakeSound ==
    ASSUME NEW h, Sound(h), ~aci_queue_is_empty(h.rx)
    PROVE  /\ Sound(TakeEvent(h))
           /\ Contents(TakeEvent(h).tx) = Contents(h.tx)
           /\ Contents(h.rx) # << >>
           /\ aci_queue_peek(h.rx) = Head(Contents(h.rx))
           /\ Contents(TakeEvent(h).rx) = Tail(Contents(h.rx))
<1> DEFINE r == TakeEvent(h)
           q == aci_queue_dequeue(h.rx)
<1>1. /\ h.rx \in Queues(Evt) /\ Contents(h.rx) \in Seq(Evt)
  BY DEF Sound, HalOK
<1>2. /\ q \in Queues(Evt) /\ Contents(h.rx) # << >>
      /\ aci_queue_peek(h.rx) = Head(Contents(h.rx))
      /\ Contents(q) = Tail(Contents(h.rx))
  BY <1>1, DequeueTakesHead
<1>3. r = [tx |-> h.tx, rx |-> q,
           reqn |-> IF ~aci_queue_is_full(q) /\ ~aci_queue_is_empty(h.tx)
                    THEN LOW ELSE h.reqn,
           spin |-> h.spin]
  BY DEF TakeEvent
<1> HIDE DEF q, r
<1>4. Contents(q) \in Seq(Evt)
  BY <1>1, <1>2
<1>5. HalOK(r)
  BY <1>2, <1>3, <1>4 DEF Sound, HalOK
<1>6. ~r.spin /\ Requested(r)
  BY <1>3 DEF Sound, Requested
<1> QED
  BY <1>2, <1>3, <1>5, <1>6 DEF Sound, r, q

-----------------------------------------------------------------------------
(* The transport layer as a whole. *)

LEMMA InitInv == Init => IInv
<1> SUFFICES ASSUME Init PROVE IInv
  OBVIOUS
<1>1. /\ HalOK(hal) /\ ~hal.spin /\ Requested(hal)
      /\ Contents(hal.tx) = << >> /\ Contents(hal.rx) = << >>
  BY InitSound DEF Init, Sound
<1>2. TypeOK
  BY <1>1 DEF Init, TypeOK
<1>3. InOrder
  BY <1>1 DEF Init, InOrder
<1> QED
  BY <1>1, <1>2, <1>3 DEF IInv, NeverSpins, RequestStands

\* Moving the front of a queue to the end of a log, and extending a queue.
LEMMA MoveFront ==
    ASSUME NEW S, NEW log \in Seq(S), NEW q \in Seq(S), q # << >>
    PROVE  /\ (log \o << Head(q) >>) \o Tail(q) = log \o q
           /\ log \o << Head(q) >> = Append(log, Head(q))
           /\ log \o << Head(q) >> \in Seq(S)
<1>1. Head(q) \in S /\ Tail(q) \in Seq(S) /\ << Head(q) >> \in Seq(S)
  BY HeadTailProperties
<1>2. << Head(q) >> \o Tail(q) = q
  BY <1>1
<1> QED
  BY <1>1, <1>2, ConcatAssociative

LEMMA ExtendBack ==
    ASSUME NEW S, NEW log \in Seq(S), NEW q \in Seq(S), NEW e \in S
    PROVE  /\ (log \o q) \o << e >> = log \o Append(q, e)
           /\ Append(log \o q, e) = log \o Append(q, e)
           /\ (log \o q) \o << e >> \in Seq(S)
<1>1. << e >> \in Seq(S) /\ log \o q \in Seq(S)
  BY ConcatProperties
<1>2. (log \o q) \o << e >> = log \o (q \o << e >>)
  BY <1>1, ConcatAssociative
<1>3. Append(q, e) = q \o << e >> /\ Append(log \o q, e) = (log \o q) \o << e >>
  BY <1>1, AppendIsConcat
<1>4. (log \o q) \o << e >> \in Seq(S)
  BY <1>1, ConcatProperties
<1> QED
  BY <1>2, <1>3, <1>4

\* A poll leaves the logs and the queues in agreement.
LEMMA CheckInOrder ==
    ASSUME IInv, NEW r, r = m_aci_event_check(hal, chip)
    PROVE  /\ Sound(r.hal)
           /\ r.chip \in [rdyn : {HIGH, LOW}, out : Seq(Evt)]
           /\ delivered \o r.sent \in Seq(Cmd)
           /\ accepted = (delivered \o r.sent) \o Contents(r.hal.tx)
           /\ fetched \o r.rcvd \in Seq(Evt)
           /\ fetched \o r.rcvd = got \o Contents(r.hal.rx)
<1>1. Sound(hal) /\ chip \in [rdyn : {HIGH, LOW}, out : Seq(Evt)]
  BY DEF IInv, TypeOK, NeverSpins, RequestStands, Sound
<1>2. CheckEffect(hal, r)
  BY <1>1, CheckSound
<1>3. /\ Contents(hal.tx) \in Seq(Cmd) /\ delivered \in Seq(Cmd)
      /\ Contents(hal.rx) \in Seq(Evt) /\ got \in Seq(Evt) /\ fetched \in Seq(Evt)
  BY DEF IInv, TypeOK, HalOK
<1>4. delivered \o r.sent \in Seq(Cmd) /\ accepted = (delivered \o r.sent) \o Contents(r.hal.tx)
  <2>1. CASE r.sent = << >> /\ Contents(r.hal.tx) = Contents(hal.tx)
    BY <1>3, <2>1, ConcatEmptySeq DEF IInv, InOrder
  <2>2. CASE /\ Contents(hal.tx) # << >>
             /\ r.sent = << Head(Contents(hal.tx)) >>
             /\ Contents(r.hal.tx) = Tail(Contents(hal.tx))
    BY <1>3, <2>2, MoveFront, SMTT(30) DEF IInv, InOrder
  <2> QED
    BY <1>2, <2>1, <2>2 DEF CheckEffect
<1>5. fetched \o r.rcvd \in Seq(Evt) /\ fetched \o r.rcvd = got \o Contents(r.hal.rx)
  <2>1. CASE r.rcvd = << >> /\ Contents(r.hal.rx) = Contents(hal.rx)
    BY <1>3, <2>1, ConcatEmptySeq DEF IInv, InOrder
  <2>2. ASSUME NEW e \in Evt, r.rcvd = << e >>,
               Contents(r.hal.rx) = Append(Contents(hal.rx), e)
        PROVE  /\ fetched \o r.rcvd \in Seq(Evt)
               /\ fetched \o r.rcvd = got \o Contents(r.hal.rx)
    <3>1. fetched = got \o Contents(hal.rx)
      BY DEF IInv, InOrder
    <3>2. /\ (got \o Contents(hal.rx)) \o << e >> = got \o Append(Contents(hal.rx), e)
          /\ (got \o Contents(hal.rx)) \o << e >> \in Seq(Evt)
      <4> DEFINE q == Contents(hal.rx)
      <4>1. q \in Seq(Evt) /\ got \in Seq(Evt) /\ e \in Evt
        BY <1>3, <2>2
      <4> HIDE DEF q
      <4>2. Append(got \o q, e) = got \o Append(q, e)
        BY <4>1, ExtendBack
      <4>3. got \o q \in Seq(Evt)
        BY <4>1, ConcatProperties
      <4>4. Append(got \o q, e) = (got \o q) \o << e >> /\ Append(got \o q, e) \in Seq(Evt)
        BY <4>1, <4>3, AppendIsConcat
      <4> QED
        BY <4>2, <4>4 DEF q
    <3> QED
      BY <2>2, <3>1, <3>2
  <2> QED
    BY <1>2, <2>1, <2>2 DEF CheckEffect
<1> QED
  BY <1>2, <1>4, <1>5 DEF CheckEffect

\* What EventGet does, with the poll and the dequeue as one value.
LEMMA EventGetEffect ==
    ASSUME EventGet
    PROVE  /\ hal' = hal_aci_tl_event_get(hal, chip).hal
           /\ chip' = hal_aci_tl_event_get(hal, chip).c.chip
           /\ delivered' = delivered \o hal_aci_tl_event_get(hal, chip).c.sent
           /\ fetched' = fetched \o hal_aci_tl_event_get(hal, chip).c.rcvd
           /\ got' = got \o hal_aci_tl_event_get(hal, chip).evt
           /\ accepted' = accepted
BY Zenon DEF EventGet

LEMMA StepInv == IInv /\ [Next]_vars => IInv'
<1> SUFFICES ASSUME IInv, [Next]_vars PROVE IInv'
  OBVIOUS
<1>1. Sound(hal)
  BY DEF IInv, TypeOK, NeverSpins, RequestStands, Sound
<1>2. /\ Contents(hal.tx) \in Seq(Cmd) /\ Contents(hal.rx) \in Seq(Evt)
      /\ chip \in [rdyn : {HIGH, LOW}, out : Seq(Evt)]
      /\ accepted \in Seq(Cmd) /\ delivered \in Seq(Cmd)
      /\ fetched \in Seq(Evt) /\ got \in Seq(Evt)
  BY DEF IInv, TypeOK, HalOK
<1>3. SUFFICES /\ Sound(hal')
               /\ chip' \in [rdyn : {HIGH, LOW}, out : Seq(Evt)]
               /\ accepted' \in Seq(Cmd) /\ delivered' \in Seq(Cmd)
               /\ fetched' \in Seq(Evt) /\ got' \in Seq(Evt)
               /\ accepted' = delivered' \o Contents(hal'.tx)
               /\ fetched' = got' \o Contents(hal'.rx)
  BY DEF IInv, TypeOK, NeverSpins, InOrder, RequestStands, Sound, HalOK, Requested
<1>4. ASSUME NEW c \in Cmd, Send(c)
      PROVE  /\ Sound(hal') /\ UNCHANGED << chip, delivered, fetched, got >>
             /\ accepted' \in Seq(Cmd)
             /\ accepted' = delivered \o Contents(hal'.tx)
             /\ Contents(hal'.rx) = Contents(hal.rx)
  <2> DEFINE r == hal_aci_tl_send(hal, c)
  <2>1. /\ Sound(r.hal) /\ Contents(r.hal.rx) = Contents(hal.rx)
        /\ r.ok => Contents(r.hal.tx) = Append(Contents(hal.tx), c)
        /\ ~r.ok => r.hal = hal
    BY <1>1, SendSound
  <2>2. hal' = r.hal /\ accepted' = IF r.ok THEN Append(accepted, c) ELSE accepted
    BY <1>4 DEF Send
  <2>3. UNCHANGED << chip, delivered, fetched, got >>
    BY <1>4 DEF Send
  <2> HIDE DEF r
  <2>4. accepted = delivered \o Contents(hal.tx)
    BY DEF IInv, InOrder
  <2>5. CASE r.ok
    <3>1. Append(delivered \o Contents(hal.tx), c) = delivered \o Append(Contents(hal.tx), c)
      <4> DEFINE q == Contents(hal.tx)
      <4>1. q \in Seq(Cmd) /\ delivered \in Seq(Cmd) /\ c \in Cmd
        BY <1>2
      <4> HIDE DEF q
      <4>2. Append(delivered \o q, c) = delivered \o Append(q, c)
        BY <4>1, ExtendBack
      <4> QED
        BY <4>2 DEF q
    <3>2. accepted' = Append(accepted, c) /\ Contents(hal'.tx) = Append(Contents(hal.tx), c)
      BY <2>1, <2>2, <2>5
    <3>3. accepted' \in Seq(Cmd) /\ accepted' = delivered \o Contents(hal'.tx)
      <4>1. Append(accepted, c) \in Seq(Cmd)
        BY <1>2
      <4> QED
        BY <2>4, <3>1, <3>2, <4>1
    <3> QED
      BY <2>1, <2>2, <2>3, <3>3
  <2>6. CASE ~r.ok
    BY <1>2, <2>1, <2>2, <2>3, <2>4, <2>6
  <2> QED
    BY <2>5, <2>6
<1>5. CASE EventPeek
  <2>1. /\ hal' = m_aci_event_check(hal, chip).hal
        /\ chip' = m_aci_event_check(hal, chip).chip
        /\ delivered' = delivered \o m_aci_event_check(hal, chip).sent
        /\ fetched' = fetched \o m_aci_event_check(hal, chip).rcvd
        /\ UNCHANGED << accepted, got >>
    BY <1>5 DEF EventPeek, hal_aci_tl_event_peek
  <2> QED
    BY <1>2, <2>1, CheckInOrder
<1>6. CASE EventGet
  <2> DEFINE c == m_aci_event_check(hal, chip)
  <2>1. /\ Sound(c.hal) /\ c.chip \in [rdyn : {HIGH, LOW}, out : Seq(Evt)]
        /\ delivered \o c.sent \in Seq(Cmd)
        /\ accepted = (delivered \o c.sent) \o Contents(c.hal.tx)
        /\ fetched \o c.rcvd \in Seq(Evt)
        /\ fetched \o c.rcvd = got \o Contents(c.hal.rx)
    BY CheckInOrder
  <2>2. /\ chip' = c.chip /\ accepted' = accepted
        /\ delivered' = delivered \o c.sent /\ fetched' = fetched \o c.rcvd
    BY EventGetEffect, <1>6 DEF hal_aci_tl_event_get
  <2>3. CASE aci_queue_is_empty(c.hal.rx)
    <3>1. hal' = c.hal /\ got' = got \o << >>
      BY EventGetEffect, <1>6, <2>3 DEF hal_aci_tl_event_get
    <3>2. got' = got
      BY <1>2, <3>1, ConcatEmptySeq
    <3> HIDE DEF c
    <3> QED
      BY <1>2, <2>1, <2>2, <3>1, <3>2
  <2>4. CASE ~aci_queue_is_empty(c.hal.rx)
    <3>1. hal' = TakeEvent(c.hal) /\ got' = got \o << aci_queue_peek(c.hal.rx) >>
      BY EventGetEffect, <1>6, <2>4 DEF hal_aci_tl_event_get
    <3> HIDE DEF c
    <3>2. /\ Sound(hal') /\ Contents(hal'.tx) = Contents(c.hal.tx)
          /\ Contents(c.hal.rx) # << >>
          /\ aci_queue_peek(c.hal.rx) = Head(Contents(c.hal.rx))
          /\ Contents(hal'.rx) = Tail(Contents(c.hal.rx))
      BY <2>1, <2>4, <3>1, TakeSound
    <3>3. Contents(c.hal.rx) \in Seq(Evt)
      BY <2>1 DEF Sound, HalOK
    <3>4. got' \in Seq(Evt) /\ got \o Contents(c.hal.rx) = got' \o Contents(hal'.rx)
      <4> DEFINE q == Contents(c.hal.rx)
      <4>1. /\ (got \o << Head(q) >>) \o Tail(q) = got \o q
            /\ got \o << Head(q) >> \in Seq(Evt)
        BY <1>2, <3>2, <3>3, MoveFront
      <4> QED
        BY <3>1, <3>2, <4>1
    <3> QED
      BY <1>2, <2>1, <2>2, <3>2, <3>4
  <2> QED
    BY <2>3, <2>4
<1>7. CASE Flush
  <2>1. /\ hal' = [tx |-> aci_queue_init, rx |-> aci_queue_init,
                   reqn |-> hal.reqn, spin |-> hal.spin]
        /\ accepted' = delivered /\ fetched' = got
        /\ UNCHANGED << chip, delivered, got >>
    BY <1>7 DEF Flush, hal_aci_tl_q_flush
  <2>2. /\ aci_queue_init \in Queues(Cmd) /\ aci_queue_init \in Queues(Evt)
        /\ Contents(aci_queue_init) = << >> /\ aci_queue_is_empty(aci_queue_init)
    BY InitQueue DEF aci_queue_init, aci_queue_is_empty
  <2>3. hal'.tx = aci_queue_init /\ hal'.rx = aci_queue_init
    BY <2>1
  <2>4. HalOK(hal') /\ ~hal'.spin /\ Requested(hal')
    BY <1>1, <2>1, <2>2, <2>3 DEF Sound, HalOK, Requested
  <2> QED
    BY <1>2, <2>1, <2>2, <2>3, <2>4, ConcatEmptySeq DEF Sound
<1>8. CASE ResetRadio
  <2>1. chip' = [rdyn |-> HIGH, out |-> << >>]
        /\ UNCHANGED << hal, accepted, delivered, fetched, got >>
    BY <1>8 DEF ResetRadio, PinReset
  <2> QED
    BY <1>1, <1>2, <2>1 DEF IInv, InOrder
<1>9. CASE RadioReady
  <2>1. chip' = [chip EXCEPT !.rdyn = LOW]
        /\ UNCHANGED << hal, accepted, delivered, fetched, got >>
    BY <1>9 DEF RadioReady
  <2> QED
    BY <1>1, <1>2, <2>1 DEF IInv, InOrder
<1>10. ASSUME NEW e \in Evt, RadioEvent(e)
       PROVE  /\ chip' \in [rdyn : {HIGH, LOW}, out : Seq(Evt)]
              /\ UNCHANGED << hal, accepted, delivered, fetched, got >>
  <2>1. chip' = [chip EXCEPT !.out = Append(@, e)]
        /\ UNCHANGED << hal, accepted, delivered, fetched, got >>
    BY <1>10 DEF RadioEvent
  <2>2. Append(chip.out, e) \in Seq(Evt)
    BY <1>2
  <2> QED
    BY <1>2, <2>1, <2>2
<1>11. CASE UNCHANGED vars
  BY <1>1, <1>2, <1>11 DEF vars, IInv, InOrder
<1> QED
  <2>1. CASE \E c \in Cmd : Send(c)
    BY <1>2, <1>4, <2>1 DEF IInv, InOrder
  <2>2. CASE \E e \in Evt : RadioEvent(e)
    BY <1>1, <1>2, <1>10, <2>2 DEF IInv, InOrder
  <2> QED
    BY <1>5, <1>6, <1>7, <1>8, <1>9, <1>11, <2>1, <2>2 DEF Next

\* In every reachable state the records have their types, the program is not
\* in the endless loop, the queues hold exactly what was taken and not yet
\* passed on, and a command that waits keeps the request line low.
THEOREM Invariance == Spec => []IInv
BY InitInv, StepInv, PTL DEF Spec

\* The two rings, the request line, the radio's half and the ghost sequences have
\* their types whatever the order of calls, resets and flushes.
THEOREM TypeCorrect == Spec => []TypeOK
BY Invariance, PTL DEF IInv

\* hal_aci_tl_send, peek, get and flush never lose, repeat or reorder a packet.
THEOREM PacketsInOrder == Spec => []InOrder
BY Invariance, PTL DEF IInv

\* The endless loop marked "Should never happen" is never entered.
THEOREM LoopUnreached == Spec => []NeverSpins
BY Invariance, PTL DEF IInv

\* REQN stays low while a command waits and its reply could be stored.
THEOREM RequestsStand == Spec => []RequestStands
BY Invariance, PTL DEF IInv

-----------------------------------------------------------------------------
(* The transport layer implements the two channels. *)

LEMMA InitChannel == Init => Channel!Init
BY InitSound DEF Init, Channel!Init

\* A poll hands over at most one command and stores at most one event.
LEMMA CheckHandsOver ==
    ASSUME IInv, NEW r, r = m_aci_event_check(hal, chip)
    PROVE  /\ CheckEffect(hal, r)
           /\ \/ Contents(r.hal.tx) = Contents(hal.tx) /\ delivered \o r.sent = delivered
              \/ /\ Contents(hal.tx) # << >>
                 /\ Contents(r.hal.tx) = Tail(Contents(hal.tx))
                 /\ delivered \o r.sent = Append(delivered, Head(Contents(hal.tx)))
<1>1. Sound(hal) /\ chip \in [rdyn : {HIGH, LOW}, out : Seq(Evt)]
  BY DEF IInv, TypeOK, NeverSpins, RequestStands, Sound
<1>2. CheckEffect(hal, r)
  BY <1>1, CheckSound
<1>3. Contents(hal.tx) \in Seq(Cmd) /\ delivered \in Seq(Cmd)
  BY DEF IInv, TypeOK, HalOK
<1>4. CASE r.sent = << >> /\ Contents(r.hal.tx) = Contents(hal.tx)
  BY <1>2, <1>3, <1>4, ConcatEmptySeq
<1>5. CASE /\ Contents(hal.tx) # << >>
           /\ r.sent = << Head(Contents(hal.tx)) >>
           /\ Contents(r.hal.tx) = Tail(Contents(hal.tx))
  BY <1>2, <1>3, <1>5, MoveFront
<1> QED
  BY <1>2, <1>4, <1>5 DEF CheckEffect

LEMMA StepChannel == IInv /\ [Next]_vars => [Channel!Next]_<< Contents(hal.tx), Contents(hal.rx), delivered, got >>
<1> SUFFICES ASSUME IInv, [Next]_vars
             PROVE  Channel!Next \/ UNCHANGED << Contents(hal.tx), Contents(hal.rx), delivered, got >>
  OBVIOUS
<1>1. Sound(hal)
  BY DEF IInv, TypeOK, NeverSpins, RequestStands, Sound
<1>2. /\ Contents(hal.rx) \in Seq(Evt) /\ got \in Seq(Evt)
  BY DEF IInv, TypeOK, HalOK
<1>3. ASSUME NEW c \in Cmd, Send(c)
      PROVE  Channel!Post(c) \/ UNCHANGED << Contents(hal.tx), Contents(hal.rx), delivered, got >>
  <2> DEFINE r == hal_aci_tl_send(hal, c)
  <2>1. /\ Contents(r.hal.rx) = Contents(hal.rx)
        /\ r.ok => /\ Contents(r.hal.tx) = Append(Contents(hal.tx), c)
                   /\ Len(Contents(hal.tx)) < ACI_QUEUE_SIZE - 1
        /\ ~r.ok => r.hal = hal
    BY <1>1, SendSound
  <2>2. hal' = r.hal /\ delivered' = delivered /\ got' = got
    BY <1>3 DEF Send
  <2> HIDE DEF r
  <2> QED
    BY <2>1, <2>2 DEF Channel!Post
<1>4. ASSUME NEW r, r = m_aci_event_check(hal, chip),
             delivered' = delivered \o r.sent, Contents(hal'.tx) = Contents(r.hal.tx)
      PROVE  Channel!HandOver
  BY <1>4, CheckHandsOver DEF Channel!HandOver
<1>5. CASE EventPeek
  <2> DEFINE r == m_aci_event_check(hal, chip)
  <2>1. hal' = r.hal /\ delivered' = delivered \o r.sent /\ got' = got
    BY <1>5 DEF EventPeek, hal_aci_tl_event_peek
  <2>2. CheckEffect(hal, r)
    BY CheckHandsOver
  <2>3. Channel!HandOver
    BY <1>4, <2>1
  <2> HIDE DEF r
  <2>4. Channel!Hold \/ \E e \in Evt : Channel!Arrive(e)
    BY <2>1, <2>2 DEF CheckEffect, Channel!Hold, Channel!Arrive
  <2> QED
    BY <2>3, <2>4 DEF Channel!Next, Channel!Poll
<1>6. CASE EventGet
  <2> DEFINE c == m_aci_event_check(hal, chip)
  <2>1. CheckEffect(hal, c) /\ delivered' = delivered \o c.sent
    BY EventGetEffect, <1>6, CheckHandsOver DEF hal_aci_tl_event_get
  <2>2. CASE aci_queue_is_empty(c.hal.rx)
    <3>1. hal' = c.hal /\ got' = got \o << >>
      BY EventGetEffect, <1>6, <2>2 DEF hal_aci_tl_event_get
    <3>2. got' = got
      BY <1>2, <3>1, ConcatEmptySeq
    <3>3. Channel!HandOver
      BY <1>4, <2>1, <3>1
    <3> HIDE DEF c
    <3>4. Channel!Hold \/ \E e \in Evt : Channel!Arrive(e)
      BY <2>1, <3>1, <3>2 DEF CheckEffect, Channel!Hold, Channel!Arrive
    <3> QED
      BY <3>3, <3>4 DEF Channel!Next, Channel!Poll
  <2>3. CASE ~aci_queue_is_empty(c.hal.rx)
    <3>1. hal' = TakeEvent(c.hal) /\ got' = got \o << aci_queue_peek(c.hal.rx) >>
      BY EventGetEffect, <1>6, <2>3 DEF hal_aci_tl_event_get
    <3>2. /\ Contents(hal'.tx) = Contents(c.hal.tx)
          /\ Contents(c.hal.rx) # << >>
          /\ aci_queue_peek(c.hal.rx) = Head(Contents(c.hal.rx))
          /\ Contents(hal'.rx) = Tail(Contents(c.hal.rx))
      BY <2>1, <2>3, <3>1, TakeSound DEF CheckEffect
    <3>3. Channel!HandOver
      BY <1>4, <2>1, <3>2
    <3> HIDE DEF c
    <3>4. Contents(c.hal.rx) \in Seq(Evt)
      BY <2>1 DEF CheckEffect, Sound, HalOK
    <3>5. got' = Append(got, Head(Contents(c.hal.rx)))
      BY <1>2, <3>1, <3>2, <3>4, MoveFront
    <3>6. ASSUME Contents(c.hal.rx) = Contents(hal.rx)
          PROVE  Channel!Take
      BY <3>2, <3>5, <3>6 DEF Channel!Take
    <3>7. ASSUME NEW e \in Evt, Contents(c.hal.rx) = Append(Contents(hal.rx), e),
                 Len(Contents(hal.rx)) < ACI_QUEUE_SIZE - 1
          PROVE  Channel!ArriveAndTake(e)
      BY <3>2, <3>5, <3>7 DEF Channel!ArriveAndTake
    <3> QED
      BY <2>1, <3>3, <3>6, <3>7 DEF CheckEffect, Channel!Next, Channel!Poll
  <2> QED
    BY <2>2, <2>3
<1>7. CASE Flush
  <2>1. /\ hal' = [tx |-> aci_queue_init, rx |-> aci_queue_init,
                   reqn |-> hal.reqn, spin |-> hal.spin]
        /\ UNCHANGED << delivered, got >>
    BY <1>7 DEF Flush, hal_aci_tl_q_flush
  <2>2. Contents(hal'.tx) = << >> /\ Contents(hal'.rx) = << >>
    BY <2>1, InitQueue
  <2> QED
    BY <2>1, <2>2 DEF Channel!Next, Channel!Flush
<1>8. ASSUME ResetRadio \/ RadioReady \/ UNCHANGED vars
      PROVE  UNCHANGED << hal, delivered, got >>
  BY <1>8 DEF ResetRadio, RadioReady, vars
<1>9. ASSUME UNCHANGED << hal, delivered, got >>
      PROVE  UNCHANGED << Contents(hal.tx), Contents(hal.rx), delivered, got >>
  BY <1>9
<1>10. ASSUME NEW e \in Evt, RadioEvent(e)
       PROVE  UNCHANGED << Contents(hal.tx), Contents(hal.rx), delivered, got >>
  BY <1>10 DEF RadioEvent
<1>12. CASE \E c \in Cmd : Send(c)
  BY <1>3, <1>12 DEF Channel!Next
<1>13. CASE \E e \in Evt : RadioEvent(e)
  BY <1>10, <1>13
<1> QED
  BY <1>5, <1>6, <1>7, <1>8, <1>9, <1>12, <1>13 DEF Next

\* The nRF8001 transport layer implements two bounded FIFO channels, whatever
\* the size of its rings, the commands and the events.
THEOREM Refinement == Spec => ImplementsChannel
BY Invariance, InitChannel, StepChannel, PTL
   DEF Spec, ImplementsChannel, Channel!Spec, Channel!chanVars
-----------------------------------------------------------------------------
(* One SPI exchange, for buffers of any length and whatever length byte the *)
(* radio answers.                                                           *)

LengthsOK == command \in 0 .. HAL_ACI_MAX_LENGTH /\ event \in 0 .. 255

\* The place in the transfer fixes both indexes; the number of bytes to go was
\* cut to the length of a buffer.
PlaceOK ==
    /\ pc \in {"length", "opcode", "rest", "done"}
    /\ pc = "length" => byte_sent_cnt = 0
    /\ pc = "opcode" => byte_sent_cnt = 1
    /\ pc = "rest" => /\ byte_cnt \in Nat /\ byte_sent_cnt = byte_cnt + 1
                      /\ max_bytes \in Int /\ max_bytes <= HAL_ACI_MAX_LENGTH

SpiInv == LengthsOK /\ PlaceOK /\ sent \cup received \subseteq 0 .. HAL_ACI_MAX_LENGTH

LEMMA SpiInvInit == SpiInit => SpiInv
BY SpiAssumption DEF SpiInit, SpiInv, LengthsOK, PlaceOK

LEMMA SpiInvNext == SpiInv /\ [SpiNext]_spiVars => SpiInv'
<1> SUFFICES ASSUME SpiInv, [SpiNext]_spiVars PROVE SpiInv'
    OBVIOUS
<1> USE SpiAssumption DEF SpiInv, LengthsOK, PlaceOK
<1>1. CASE SendLength
    BY <1>1 DEF SendLength
<1>2. CASE SendOpcode
    <2>1. /\ BytesNeeded(command, event) \in Int
          /\ BytesNeeded(command, event) <= HAL_ACI_MAX_LENGTH
        BY DEF BytesNeeded
    <2> QED
        BY <1>2, <2>1 DEF SendOpcode
<1>3. CASE ExchangeByte
    <2>1. byte_sent_cnt \in 0 .. HAL_ACI_MAX_LENGTH /\ byte_cnt \in 0 .. HAL_ACI_MAX_LENGTH
        BY <1>3 DEF ExchangeByte
    <2> QED
        BY <1>3, <2>1 DEF ExchangeByte
<1>4. CASE EndTransfer
    BY <1>4 DEF EndTransfer
<1>5. CASE UNCHANGED spiVars
    BY <1>5 DEF spiVars
<1> QED
    BY <1>1, <1>2, <1>3, <1>4, <1>5 DEF SpiNext

\* m_aci_spi_transfer (hal_aci_tl.cpp:205-229) reads and writes inside the two
\* buffers, whatever length the radio announces.
THEOREM StaysWithinBuffers == SpiSpec => []WithinBuffers
<1>1. SpiInv => WithinBuffers
    BY DEF SpiInv, PlaceOK, WithinBuffers
<1> QED
    BY <1>1, SpiInvInit, SpiInvNext, PTL DEF SpiSpec
=============================================================================
