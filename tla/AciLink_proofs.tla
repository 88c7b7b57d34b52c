--------------------------- MODULE AciLink_proofs ---------------------------
(***************************************************************************)
(* The link of the nRF8001 under the main loop of the example, for every   *)
(* queue size and every number of events the radio holds back: no command  *)
(* of a handler is refused, and events that are still on their way never   *)
(* make the host believe in a pipe of a connection that has ended.         *)
(***************************************************************************)
EXTENDS AciLink, AciHal_proofs

Cmds == {"connect", "disconnect", "other", "data"}

Evts ==
    {"started", "connected", "disconnected", "pipes_open", "pipes_closed", "timing",
     "text", "control", "retime", "hw_error", "response", "pipe_error"}

\* When the first i - 1 of the events in s are handled, the last that said
\* something of the link said that it is up, if b is what is believed now.
UpAt(s, b, i) ==
    \/ b = "up" /\ \A k \in 1 .. i - 1 : s[k] # "disconnected"
    \/ \E j \in 1 .. i - 1 :
         s[j] = "connected" /\ \A k \in j + 1 .. i - 1 : s[k] # "disconnected"

\* A pipe is only reported of a connection that was reported, and a connection
\* that holds has been reported.
Consistent(s, b, l) ==
    /\ \A i \in 1 .. Len(s) : s[i] = "pipes_open" => UpAt(s, b, i)
    /\ l = "connected" => UpAt(s, b, Len(s) + 1)

\* What is believed when e is handled.
After(e, b) == CASE e = "connected" -> "up" [] e = "disconnected" -> "down" [] OTHER -> b

\* Between two turns of the loop no event waits in the host: a turn stores at
\* most one and handles it.
IInv ==
    /\ HostOK(hal, Cmds, Evts) /\ Contents(hal.rx) = << >>
    /\ chip \in Chips(Evts)
    /\ link \in {"standby", "advertising", "connected"} /\ believed \in {"up", "down"}
    /\ pipes_open \in BOOLEAN
    /\ pipes_open => believed = "up"
    /\ Consistent(chip.out, believed, link)
    /\ refused = FALSE

-----------------------------------------------------------------------------
(* The events on their way. *)

\* The first event is handled.
LEMMA HeadHandled ==
    ASSUME NEW s \in Seq(Evts), s # << >>, NEW b \in {"up", "down"}, NEW l,
           Consistent(s, b, l)
    PROVE  /\ Consistent(Tail(s), After(Head(s), b), l)
           /\ Head(s) = "pipes_open" => b = "up"
<1> DEFINE t == Tail(s)
           d == After(Head(s), b)
           n == Len(s)
<1>1. /\ t \in Seq(Evts) /\ n \in Nat \ {0} /\ Len(t) = n - 1
      /\ Head(s) = s[1]
      /\ \A i \in 1 .. n - 1 : t[i] = s[i + 1]
  BY HeadTailProperties
<1>2. ASSUME NEW i \in 1 .. n, UpAt(s, b, i + 1)
      PROVE  UpAt(t, d, i)
  <2>1. i \in Nat /\ i >= 1 /\ i <= n /\ (i + 1) - 1 = i
    BY <1>1
  <2>2. CASE b = "up" /\ \A k \in 1 .. i : s[k] # "disconnected"
    <3>1. s[1] # "disconnected" /\ d = "up"
      BY <1>1, <2>1, <2>2 DEF After
    <3>2. \A k \in 1 .. i - 1 : t[k] # "disconnected"
      BY <1>1, <2>1, <2>2
    <3> QED
      BY <3>1, <3>2 DEF UpAt
  <2>3. CASE \E j \in 1 .. i :
               s[j] = "connected" /\ \A k \in j + 1 .. i : s[k] # "disconnected"
    <3>1. PICK j \in 1 .. i :
               s[j] = "connected" /\ \A k \in j + 1 .. i : s[k] # "disconnected"
      BY <2>3
    <3>2. CASE j = 1
      <4>1. d = "up"
        BY <1>1, <3>1, <3>2 DEF After
      <4>2. \A k \in 1 .. i - 1 : t[k] # "disconnected"
        BY <1>1, <2>1, <3>1, <3>2
      <4> QED
        BY <4>1, <4>2 DEF UpAt
    <3>3. CASE j # 1
      <4>1. j - 1 \in 1 .. i - 1 /\ t[j - 1] = s[j]
        BY <1>1, <2>1, <3>3
      <4>2. \A k \in (j - 1) + 1 .. i - 1 : t[k] # "disconnected"
        BY <1>1, <2>1, <3>1, <3>3
      <4> QED
        BY <3>1, <4>1, <4>2 DEF UpAt
    <3> QED
      BY <3>2, <3>3
  <2> QED
    BY <1>2, <2>1, <2>2, <2>3 DEF UpAt
<1>3. ASSUME NEW i \in 1 .. Len(t), t[i] = "pipes_open"
      PROVE  UpAt(t, d, i)
  <2>1. i \in 1 .. n /\ i + 1 \in 1 .. n /\ s[i + 1] = "pipes_open"
    BY <1>1, <1>3
  <2> QED
    BY <1>2, <2>1 DEF Consistent
<1>4. ASSUME l = "connected" PROVE UpAt(t, d, Len(t) + 1)
  <2>1. n \in 1 .. n /\ Len(t) + 1 = n /\ UpAt(s, b, n + 1)
    BY <1>1, <1>4 DEF Consistent
  <2> QED
    BY <1>2, <2>1
<1>5. Head(s) = "pipes_open" => b = "up"
  BY <1>1 DEF Consistent, UpAt
<1> HIDE DEF t, d
<1>6. Consistent(t, d, l)
  BY <1>3, <1>4 DEF Consistent
<1> QED
  BY <1>5, <1>6 DEF t, d

\* Another event is on its way.
LEMMA EventAdded ==
    ASSUME NEW s \in Seq(Evts), NEW b, NEW l, NEW m, NEW x \in Evts, Consistent(s, b, l),
           x = "pipes_open" => l = "connected",
           m = "connected" => x = "connected" \/ (l = "connected" /\ x # "disconnected")
    PROVE  Consistent(Append(s, x), b, m)
<1> DEFINE t == Append(s, x)
           n == Len(s)
<1>1. /\ n \in Nat /\ Len(t) = n + 1 /\ t[n + 1] = x
      /\ \A i \in 1 .. n : t[i] = s[i]
  OBVIOUS
<1> HIDE DEF t, n
<1>2. ASSUME NEW i \in 1 .. n + 1, UpAt(s, b, i)
      PROVE  UpAt(t, b, i)
  <2>1. \A k \in 1 .. i - 1 : t[k] = s[k]
    BY <1>1
  <2>2. CASE b = "up" /\ \A k \in 1 .. i - 1 : s[k] # "disconnected"
    BY <2>1, <2>2 DEF UpAt
  <2>3. CASE \E j \in 1 .. i - 1 :
               s[j] = "connected" /\ \A k \in j + 1 .. i - 1 : s[k] # "disconnected"
    <3>1. PICK j \in 1 .. i - 1 :
               s[j] = "connected" /\ \A k \in j + 1 .. i - 1 : s[k] # "disconnected"
      BY <2>3
    <3>2. t[j] = "connected" /\ \A k \in j + 1 .. i - 1 : t[k] # "disconnected"
      BY <1>1, <2>1, <3>1
    <3> QED
      BY <3>2 DEF UpAt
  <2> QED
    BY <1>2, <2>2, <2>3 DEF UpAt
<1>3. ASSUME NEW i \in 1 .. n + 1, t[i] = "pipes_open"
      PROVE  UpAt(t, b, i)
  <2>1. CASE i \in 1 .. n
    BY <1>1, <1>2, <1>3, <2>1 DEF Consistent, n
  <2>2. CASE i = n + 1
    BY <1>1, <1>2, <1>3, <2>2 DEF Consistent, n
  <2> QED
    BY <1>1, <2>1, <2>2
<1>4. ASSUME m = "connected"
      PROVE  UpAt(t, b, (n + 1) + 1)
  <2>0. ((n + 1) + 1) - 1 = n + 1 /\ (n + 1) - 1 = n
    BY <1>1
  <2>1. CASE x = "connected"
    <3>1. n + 1 \in 1 .. n + 1 /\ t[n + 1] = "connected"
      BY <1>1, <2>1
    <3>2. \A k \in (n + 1) + 1 .. n + 1 : FALSE
      BY <1>1
    <3> QED
      BY <2>0, <3>1, <3>2 DEF UpAt
  <2>2. CASE l = "connected" /\ x # "disconnected"
    <3>1. UpAt(s, b, n + 1)
      BY <2>2 DEF Consistent, n
    <3>2. UpAt(t, b, n + 1)
      BY <1>1, <1>2, <3>1
    <3>3. CASE b = "up" /\ \A k \in 1 .. n : t[k] # "disconnected"
      <4>1. \A k \in 1 .. n + 1 : t[k] # "disconnected"
        BY <1>1, <2>2, <3>3
      <4> QED
        BY <2>0, <3>3, <4>1 DEF UpAt
    <3>4. CASE \E j \in 1 .. n :
                 t[j] = "connected" /\ \A k \in j + 1 .. n : t[k] # "disconnected"
      <4>1. PICK j \in 1 .. n :
                 t[j] = "connected" /\ \A k \in j + 1 .. n : t[k] # "disconnected"
        BY <3>4
      <4>2. j \in 1 .. n + 1 /\ \A k \in j + 1 .. n + 1 : t[k] # "disconnected"
        BY <1>1, <2>2, <4>1
      <4> QED
        BY <2>0, <4>1, <4>2 DEF UpAt
    <3> QED
      BY <2>0, <3>2, <3>3, <3>4 DEF UpAt
  <2> QED
    BY <1>4, <2>1, <2>2
<1> QED
  BY <1>1, <1>3, <1>4 DEF Consistent, t

-----------------------------------------------------------------------------
(* A turn of the main loop. *)

\* hal_aci_tl_event_get when no event waits in the host: what it returns came with
\* an exchange, which took a command out of the queue if there was one.
Got(h, c, r) ==
    \/ r.evt = << >> /\ r.c.chip.out = c.out
    \/ /\ c.out # << >> /\ r.evt = << Head(c.out) >> /\ r.c.chip.out = Tail(c.out)
       /\ ~aci_queue_is_full(r.hal.tx)

LEMMA GetOne ==
    ASSUME NEW h, HostOK(h, Cmds, Evts), Contents(h.rx) = << >>, NEW c \in Chips(Evts)
    PROVE  /\ Contents(hal_aci_tl_event_get(h, c).hal.rx) = << >>
           /\ Got(h, c, hal_aci_tl_event_get(h, c))
<1> DEFINE r == hal_aci_tl_event_get(h, c)
           k == m_aci_event_check(h, c)
<1>1. /\ h.tx \in Queues(Cmds) /\ Contents(h.tx) \in Seq(Cmds)
      /\ h.rx \in Queues(Evts)
      /\ aci_queue_is_empty(h.rx) /\ ~aci_queue_is_full(h.rx)
  <2>1. h.tx \in Queues(Cmds) /\ Contents(h.tx) \in Seq(Cmds) /\ h.rx \in Queues(Evts)
    BY DEF HostOK, Hosts
  <2>2. aci_queue_is_empty(h.rx) /\ Count(h.rx) = 0
    BY <2>1, QueueTests
  <2> QED
    BY <2>1, <2>2, QueueTests, QueueSizeAssumption
<1>2. CASE c.rdyn = HIGH
  <2> DEFINE g == [tx |-> h.tx, rx |-> h.rx,
                   reqn |-> IF aci_queue_is_empty(h.tx) THEN h.reqn ELSE LOW,
                   spin |-> h.spin]
  <2>1. k = NoTransfer(g, c)
    BY <1>1, <1>2 DEF m_aci_event_check
  <2>2. k.hal = g /\ k.chip = c /\ g.rx = h.rx
    BY <2>1 DEF NoTransfer
  <2> HIDE DEF g, k
  <2>3. r = [c |-> k, hal |-> k.hal, evt |-> << >>]
    BY <1>1, <2>2 DEF hal_aci_tl_event_get, k
  <2> QED
    BY <2>2, <2>3 DEF Got
<1>3. CASE c.rdyn # HIGH
  <2> DEFINE tx == IF aci_queue_is_empty(h.tx) THEN h.tx ELSE aci_queue_dequeue(h.tx)
             rx == IF c.out # << >> THEN aci_queue_enqueue(h.rx, Head(c.out)) ELSE h.rx
  <2>1. k = Transfer(h, c)
    BY <1>1, <1>3 DEF m_aci_event_check
  <2> HIDE DEF k
  <2>2. /\ k.hal = [tx |-> tx, rx |-> rx, reqn |-> RequestAgain(tx, h.rx), spin |-> FALSE]
        /\ k.chip = [rdyn |-> HIGH, out |-> IF c.out # << >> THEN Tail(c.out) ELSE << >>]
    BY <1>1, <2>1 DEF Transfer
  <2>3. k.hal.tx = tx /\ k.hal.rx = rx
        /\ k.chip.out = IF c.out # << >> THEN Tail(c.out) ELSE << >>
    BY <2>2
  <2>4. CASE c.out = << >>
    <3>1. rx = h.rx /\ k.chip.out = c.out
      BY <2>3, <2>4
    <3> HIDE DEF tx, rx
    <3>2. r = [c |-> k, hal |-> k.hal, evt |-> << >>]
      BY <1>1, <2>3, <3>1 DEF hal_aci_tl_event_get, k
    <3> QED
      BY <2>3, <3>1, <3>2 DEF Got
  <2>5. CASE c.out # << >>
    <3>1. c.out \in Seq(Evts) /\ Head(c.out) \in Evts /\ k.chip.out = Tail(c.out)
      BY <2>3, <2>5 DEF Chips
    <3>2. rx = aci_queue_enqueue(h.rx, Head(c.out))
      BY <2>5
    <3>3. rx \in Queues(Evts) /\ Contents(rx) = Append(Contents(h.rx), Head(c.out))
      BY <1>1, <3>1, <3>2, EnqueueAppends
    <3>4. Contents(rx) = << Head(c.out) >>
      BY <3>3
    <3>5. ~aci_queue_is_empty(rx)
      BY <3>3, <3>4, QueueTests
    <3>6. /\ aci_queue_peek(rx) = Head(c.out)
          /\ Contents(aci_queue_dequeue(rx)) = << >>
      <4>1. /\ aci_queue_peek(rx) = Head(Contents(rx))
            /\ Contents(aci_queue_dequeue(rx)) = Tail(Contents(rx))
        BY <3>3, <3>5, DequeueTakesHead
      <4>2. \A y : Head(<< y >>) = y /\ Tail(<< y >>) = << >>
        OBVIOUS
      <4> QED
        BY <3>4, <4>1, <4>2
    <3>7. ~aci_queue_is_full(tx)
      <4>1. CASE aci_queue_is_empty(h.tx)
        <5>1. tx = h.tx /\ Count(h.tx) = 0
          BY <1>1, <4>1, QueueTests
        <5> QED
          BY <1>1, <5>1, QueueTests, QueueSizeAssumption
      <4>2. CASE ~aci_queue_is_empty(h.tx)
        <5>1. /\ tx \in Queues(Cmds) /\ Contents(h.tx) # << >>
              /\ Contents(tx) = Tail(Contents(h.tx))
          BY <1>1, <4>2, DequeueTakesHead
        <5>2. /\ Count(h.tx) = Len(Contents(h.tx)) /\ Count(tx) = Len(Contents(tx))
              /\ Count(h.tx) \in 0 .. ACI_QUEUE_SIZE - 1
          BY <1>1, <5>1, QueueTests
        <5>3. Len(Contents(tx)) = Len(Contents(h.tx)) - 1
          BY <1>1, <5>1
        <5>4. Count(tx) # ACI_QUEUE_SIZE - 1
          BY <5>2, <5>3, QueueSizeAssumption
        <5> QED
          BY <5>1, <5>4, QueueTests
      <4> QED
        BY <4>1, <4>2
    <3> HIDE DEF tx, rx
    <3>8. r = [c |-> k, hal |-> TakeEvent(k.hal), evt |-> << Head(c.out) >>]
      BY <2>3, <3>5, <3>6 DEF hal_aci_tl_event_get, k
    <3>9. /\ TakeEvent(k.hal).tx = tx
          /\ TakeEvent(k.hal).rx = aci_queue_dequeue(rx)
      BY <2>3 DEF TakeEvent
    <3> QED
      BY <2>5, <3>1, <3>6, <3>7, <3>8, <3>9 DEF Got
  <2> QED
    BY <2>4, <2>5
<1> QED
  BY <1>2, <1>3

\* A handler posts at most one command before the greeting.
LEMMA HandlerCommands ==
    ASSUME NEW e, NEW open, NEW done, NEW cmds \in Handler(e, open, done)
    PROVE  cmds = << >> \/ \E x \in Cmds : cmds = << x >>
BY DEF Handler, Cmds

\* What the radio makes of the command that came with the exchange.
LEMMA RadioConsistent ==
    ASSUME link \in {"standby", "advertising", "connected"}, NEW x,
           NEW s \in Seq(Evts), NEW b, Consistent(s, b, link),
           NEW t, t = RadioTakes(x, link)
    PROVE  /\ t.link \in {"standby", "advertising", "connected"}
           /\ s \o t.evts \in Seq(Evts)
           /\ Consistent(s \o t.evts, b, t.link)
<1>1. \/ t.evts = << >> /\ (t.link = link \/ t.link = "advertising")
      \/ t.evts = << "disconnected" >> /\ t.link = "standby"
      \/ \E e \in {"pipe_error", "response"} : t.evts = << e >> /\ t.link = link
  BY DEF RadioTakes
<1>2. CASE t.evts = << >> /\ (t.link = link \/ t.link = "advertising")
  <2>1. s \o t.evts = s
    BY <1>2, ConcatEmptySeq
  <2> QED
    BY <1>2, <2>1 DEF Consistent
<1>3. ASSUME NEW e \in {"disconnected", "pipe_error", "response"}, t.evts = << e >>,
             t.link = IF e = "disconnected" THEN "standby" ELSE link
      PROVE  /\ t.link \in {"standby", "advertising", "connected"}
             /\ s \o t.evts \in Seq(Evts)
             /\ Consistent(s \o t.evts, b, t.link)
  <2>1. s \o t.evts = Append(s, e) /\ e \in Evts
    BY <1>3 DEF Evts
  <2>2. Append(s, e) \in Seq(Evts)
    BY <2>1
  <2>3. /\ e # "pipes_open"
        /\ t.link = "connected" => link = "connected" /\ e # "disconnected"
    BY <1>3
  <2>4. Consistent(Append(s, e), b, t.link)
    BY <2>1, <2>3, EventAdded
  <2> QED
    BY <1>3, <2>1, <2>2, <2>4
<1>4. CASE t.evts = << "disconnected" >> /\ t.link = "standby"
  BY <1>3, <1>4
<1>5. CASE \E e \in {"pipe_error", "response"} : t.evts = << e >> /\ t.link = link
  BY <1>3, <1>5
<1> QED
  BY <1>1, <1>2, <1>4, <1>5

\* The handler of an event, started with room for a command.
LEMMA HandlerSound ==
    ASSUME NEW g, HostOK(g, Cmds, Evts), Contents(g.rx) = << >>, ~aci_queue_is_full(g.tx),
           NEW e \in Evts, e = "pipes_open" => believed = "up",
           pipes_open \in BOOLEAN, pipes_open => believed = "up",
           believed \in {"up", "down"}, refused = FALSE,
           Handle(g, e, lib_aci_event_get(e, pipes_open))
    PROVE  /\ HostOK(hal', Cmds, Evts) /\ Contents(hal'.rx) = << >>
           /\ believed' \in {"up", "down"} /\ believed' = After(e, believed)
           /\ pipes_open' \in BOOLEAN
           /\ pipes_open' => believed' = "up"
           /\ refused' = FALSE
<1> DEFINE open == lib_aci_event_get(e, pipes_open)
<1>1. PICK cmds \in Handler(e, open, timing_change_done) :
        \E p \in {Posts(g, cmds)} :
          /\ pipes_open' = (open /\ (e = "control" => ~p.ok))
          /\ hal' \in Hello(p.hal, e, open, timing_change_done)
          /\ refused' = (refused \/ ~p.ok)
          /\ believed' = CASE e = "connected" -> "up"
                           [] e = "disconnected" -> "down"
                           [] OTHER -> believed
  BY DEF Handle
<1> DEFINE p == Posts(g, cmds)
<1>2. /\ pipes_open' = (open /\ (e = "control" => ~p.ok))
      /\ hal' \in Hello(p.hal, e, open, timing_change_done)
      /\ refused' = (refused \/ ~p.ok)
      /\ believed' = After(e, believed)
  BY <1>1 DEF After
<1>3. HostOK(p.hal, Cmds, Evts) /\ Contents(p.hal.rx) = << >> /\ p.ok = TRUE
  <2>1. CASE cmds = << >>
    <3>1. p = [hal |-> g, ok |-> TRUE]
      BY <2>1 DEF Posts
    <3> QED
      BY <3>1
  <2>2. ASSUME NEW x \in Cmds, cmds = << x >>
        PROVE  HostOK(p.hal, Cmds, Evts) /\ Contents(p.hal.rx) = << >> /\ p.ok = TRUE
    <3>1. p = hal_aci_tl_send(g, x)
      BY <2>2 DEF Posts
    <3> HIDE DEF p
    <3>2. HostOK(p.hal, Cmds, Evts) /\ SendEffect(g, x, p)
      BY <3>1, HalSend
    <3> QED
      BY <3>2 DEF SendEffect
  <2>3. cmds = << >> \/ \E x \in Cmds : cmds = << x >>
    BY HandlerCommands
  <2> HIDE DEF p
  <2> QED
    BY <2>1, <2>2, <2>3
<1> HIDE DEF p
<1>4. HostOK(hal', Cmds, Evts) /\ Contents(hal'.rx) = << >>
  <2>1. hal' = p.hal \/ hal' = hal_aci_tl_send(p.hal, "data").hal
    BY <1>2 DEF Hello
  <2>2. "data" \in Cmds
    BY DEF Cmds
  <2>3. /\ HostOK(hal_aci_tl_send(p.hal, "data").hal, Cmds, Evts)
        /\ SendEffect(p.hal, "data", hal_aci_tl_send(p.hal, "data"))
    BY <1>3, <2>2, HalSend
  <2> QED
    BY <1>3, <2>1, <2>3 DEF SendEffect
<1>5. believed' \in {"up", "down"}
  BY <1>2 DEF After
<1>6. open \in BOOLEAN /\ (open => After(e, believed) = "up")
  BY DEF lib_aci_event_get, After
<1> HIDE DEF open
<1>7. pipes_open' \in BOOLEAN
  BY <1>2, <1>6
<1>8. pipes_open' => believed' = "up"
  BY <1>2, <1>6
<1>9. refused' = FALSE
  BY <1>2, <1>3
<1> QED
  BY <1>2, <1>4, <1>5, <1>7, <1>8, <1>9

-----------------------------------------------------------------------------
(* The link as a whole. *)

LEMMA InitInv == Init => IInv
<1> SUFFICES ASSUME Init PROVE IInv
  OBVIOUS
<1>1. hal = hal_aci_tl_init /\ chip = [rdyn |-> HIGH, out |-> << "started" >>]
  BY DEF Init
<1>2. /\ aci_queue_init \in Queues(Cmds) /\ aci_queue_init \in Queues(Evts)
      /\ Contents(aci_queue_init) = << >>
  BY InitQueue
<1>3. HostOK(hal, Cmds, Evts) /\ Contents(hal.rx) = << >>
  BY <1>1, <1>2 DEF HostOK, Hosts, hal_aci_tl_init
<1>4. << "started" >> \in Seq(Evts)
  BY DEF Evts
<1>5. chip \in Chips(Evts)
  BY <1>1, <1>4 DEF Chips
<1>6. Consistent(chip.out, believed, link)
  BY <1>1 DEF Init, Consistent
<1> QED
  BY <1>3, <1>5, <1>6 DEF Init, IInv

LEMMA MainLoopInv == IInv /\ MainLoop => IInv'
<1> SUFFICES ASSUME IInv, MainLoop PROVE IInv'
  OBVIOUS
<1> DEFINE r == hal_aci_tl_event_get(hal, chip)
           t == RadioTakes(r.c.sent, link)
<1>1. /\ link' = t.link
      /\ chip' = [r.c.chip EXCEPT !.out = r.c.chip.out \o t.evts]
      /\ \/ /\ r.evt = << >>
            /\ hal' = Pack(r.hal)
            /\ UNCHANGED << pipes_open, timing_change_done, believed, refused >>
         \/ \E e \in Range(r.evt) : Handle(Pack(r.hal), e, lib_aci_event_get(e, pipes_open))
  BY DEF MainLoop
<1>2. HostOK(hal, Cmds, Evts) /\ Contents(hal.rx) = << >> /\ chip \in Chips(Evts)
  BY DEF IInv
<1>3. HostOK(r.hal, Cmds, Evts) /\ r.c.chip \in Chips(Evts)
  BY <1>2, HalGet
<1>4. Contents(r.hal.rx) = << >> /\ Got(hal, chip, r)
  BY <1>2, GetOne
<1> HIDE DEF r
<1> DEFINE g == Pack(r.hal)
<1>5. HostOK(g, Cmds, Evts) /\ Contents(g.tx) = Contents(r.hal.tx) /\ Contents(g.rx) = << >>
  BY <1>3, <1>4, HalPack
<1>6. /\ chip.out \in Seq(Evts) /\ Consistent(chip.out, believed, link)
      /\ link \in {"standby", "advertising", "connected"} /\ believed \in {"up", "down"}
      /\ pipes_open \in BOOLEAN
      /\ pipes_open => believed = "up"
      /\ refused = FALSE
  BY DEF IInv, Chips
<1>7. ASSUME NEW s \in Seq(Evts), s = r.c.chip.out, Consistent(s, believed', link)
      PROVE  /\ link' \in {"standby", "advertising", "connected"}
             /\ chip' \in Chips(Evts) /\ Consistent(chip'.out, believed', link')
  <2>1. /\ t.link \in {"standby", "advertising", "connected"}
        /\ s \o t.evts \in Seq(Evts)
        /\ Consistent(s \o t.evts, believed', t.link)
    BY <1>6, <1>7, RadioConsistent
  <2> HIDE DEF t
  <2>2. chip'.out = s \o t.evts /\ chip' \in Chips(Evts)
    BY <1>1, <1>3, <1>7, <2>1 DEF Chips
  <2> QED
    BY <1>1, <2>1, <2>2
<1> HIDE DEF t
<1>8. CASE /\ r.evt = << >>
           /\ hal' = g
           /\ UNCHANGED << pipes_open, timing_change_done, believed, refused >>
  <2>1. r.c.chip.out = chip.out
    BY <1>4, <1>8 DEF Got
  <2>2. /\ link' \in {"standby", "advertising", "connected"}
        /\ chip' \in Chips(Evts) /\ Consistent(chip'.out, believed', link')
    BY <1>6, <1>7, <1>8, <2>1
  <2> HIDE DEF g
  <2> QED
    BY <1>5, <1>6, <1>8, <2>2 DEF IInv
<1>9. ASSUME NEW e \in Range(r.evt), Handle(g, e, lib_aci_event_get(e, pipes_open))
      PROVE  IInv'
  <2>1. r.evt # << >>
    BY <1>9 DEF Range
  <2>2. /\ chip.out # << >> /\ r.evt = << Head(chip.out) >> /\ r.c.chip.out = Tail(chip.out)
        /\ ~aci_queue_is_full(r.hal.tx)
    BY <1>4, <2>1 DEF Got
  <2>3. e = Head(chip.out) /\ e \in Evts /\ Tail(chip.out) \in Seq(Evts)
    BY <1>6, <1>9, <2>2 DEF Range
  <2>4. ~aci_queue_is_full(g.tx)
    <3>1. g.tx \in Queues(Cmds) /\ r.hal.tx \in Queues(Cmds)
      BY <1>3, <1>5 DEF HostOK, Hosts
    <3>2. Count(g.tx) = Count(r.hal.tx)
      BY <1>5, <3>1, QueueTests
    <3> HIDE DEF g
    <3> QED
      BY <2>2, <3>1, <3>2, QueueTests
  <2>5. /\ Consistent(Tail(chip.out), After(e, believed), link)
        /\ e = "pipes_open" => believed = "up"
    BY <1>6, <2>2, <2>3, HeadHandled
  <2> HIDE DEF g
  <2>6. /\ HostOK(hal', Cmds, Evts) /\ Contents(hal'.rx) = << >>
        /\ believed' \in {"up", "down"} /\ believed' = After(e, believed)
        /\ pipes_open' \in BOOLEAN
        /\ pipes_open' => believed' = "up"
        /\ refused' = FALSE
    BY <1>5, <1>6, <1>9, <2>3, <2>4, <2>5, HandlerSound
  <2>7. /\ link' \in {"standby", "advertising", "connected"}
        /\ chip' \in Chips(Evts) /\ Consistent(chip'.out, believed', link')
    BY <1>7, <2>2, <2>3, <2>5, <2>6
  <2> QED
    BY <2>6, <2>7 DEF IInv
<1> QED
  BY <1>1, <1>8, <1>9

LEMMA RaiseInv ==
    ASSUME IInv, NEW e \in Evts, Raise(e),
           link' \in {"standby", "advertising", "connected"},
           e = "pipes_open" => link = "connected",
           link' = "connected" => e = "connected" \/ (link = "connected" /\ e # "disconnected")
    PROVE  IInv'
<1>1. /\ chip \in Chips(Evts) /\ Consistent(chip.out, believed, link)
      /\ chip' = [chip EXCEPT !.out = Append(chip.out, e)]
      /\ UNCHANGED << hal, pipes_open, timing_change_done, believed, refused >>
  BY DEF IInv, Raise
<1>2. chip.out \in Seq(Evts)
  BY <1>1 DEF Chips
<1>3. Consistent(Append(chip.out, e), believed, link')
  BY <1>1, <1>2, EventAdded
<1>4. Append(chip.out, e) \in Seq(Evts)
  BY <1>2
<1>5. chip' \in Chips(Evts) /\ chip'.out = Append(chip.out, e)
  BY <1>1, <1>4 DEF Chips
<1> QED
  BY <1>1, <1>3, <1>5 DEF IInv

LEMMA StepInv == IInv /\ [Next]_vars => IInv'
<1> SUFFICES ASSUME IInv, [Next]_vars PROVE IInv'
  OBVIOUS
<1>1. CASE uart_tx
  <2>1. HostOK(hal, Cmds, Evts) /\ Contents(hal.rx) = << >> /\ "data" \in Cmds
    BY DEF IInv, Cmds
  <2>2. /\ HostOK(hal_aci_tl_send(hal, "data").hal, Cmds, Evts)
        /\ SendEffect(hal, "data", hal_aci_tl_send(hal, "data"))
    BY <2>1, HalSend
  <2>3. HostOK(hal', Cmds, Evts) /\ Contents(hal'.rx) = << >>
    BY <1>1, <2>1, <2>2 DEF uart_tx, SendEffect
  <2> QED
    BY <1>1, <2>3 DEF IInv, uart_tx
<1>2. CASE RadioReady
  <2>1. /\ chip' = [chip EXCEPT !.rdyn = LOW] /\ chip \in Chips(Evts)
        /\ UNCHANGED << hal, link, pipes_open, timing_change_done, believed, refused >>
    BY <1>2 DEF RadioReady, IInv
  <2>2. chip' \in Chips(Evts) /\ chip'.out = chip.out
    BY <2>1 DEF Chips
  <2> QED
    BY <2>1, <2>2 DEF IInv
<1>3. CASE PeerConnects
  BY <1>3, RaiseInv DEF PeerConnects, Evts
<1>4. CASE PeerDisconnects
  BY <1>4, RaiseInv DEF PeerDisconnects, Evts
<1>5. CASE PeerTalks
  <2>1. PICK e \in {"pipes_open", "pipes_closed", "timing", "text", "control", "retime"} : Raise(e)
    BY <1>5 DEF PeerTalks
  <2>2. link = "connected" /\ link' = link /\ e \in Evts /\ e # "disconnected"
    BY <1>5 DEF PeerTalks, Evts
  <2> QED
    BY <2>1, <2>2, RaiseInv
<1>6. CASE HardwareError
  <2>1. Raise("hw_error") /\ link' = link /\ "hw_error" \in Evts
    BY <1>6 DEF HardwareError, Evts
  <2>2. link' \in {"standby", "advertising", "connected"}
    BY <2>1 DEF IInv
  <2> QED
    BY <2>1, <2>2, RaiseInv
<1>7. CASE UNCHANGED vars
  BY <1>7 DEF IInv, vars
<1> QED
  BY <1>1, <1>2, <1>3, <1>4, <1>5, <1>6, <1>7, MainLoopInv DEF Next

THEOREM Invariance == Spec => []IInv
BY InitInv, StepInv, PTL DEF Spec

LEMMA InvImplies == IInv => NoneRefused /\ NoPipeOnDeadLink
BY DEF IInv, NoneRefused, NoPipeOnDeadLink, lib_aci_is_pipe_available

\* No handler of the main loop loses its command to a full queue, although it does
\* not look at the result: its event came with an exchange that made room.
THEOREM CommandsAccepted == Spec => []NoneRefused
BY Invariance, InvImplies, PTL

\* While the events of two connections are on their way, lib_aci_is_pipe_available
\* is never true after the end of a connection was handled.
THEOREM PipesEndWithLink == Spec => []NoPipeOnDeadLink
BY Invariance, InvImplies, PTL
=============================================================================
