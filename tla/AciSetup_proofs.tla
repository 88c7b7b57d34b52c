--------------------------- MODULE AciSetup_proofs ---------------------------
(***************************************************************************)
(* The set-up of the nRF8001, for every number of set-up messages and      *)
(* every queue size: each attempt hands its messages to the radio in their *)
(* order, none skipped and none sent twice, although the command queue     *)
(* takes only some of them at a time.  If the queue takes two messages, no *)
(* attempt reports success before the radio has received all of them.      *)
(***************************************************************************)
EXTENDS AciSetup, AciHal_proofs

Cmds == {Message(i) : i \in 1 .. num_setup_msgs} \cup {Connect}

\* The first messages up to offset, of which the radio has n, are in s.
Order(s, n, offset) ==
    /\ n + Len(s) = offset
    /\ \A i \in 1 .. Len(s) : s[i] = Message(n + i)

IInv ==
    /\ TypeOK
    /\ HostOK(hal, Cmds, Event) /\ chip \in Chips(Event)
    /\ Attempting => Order(Contents(hal.tx), taken, setup_offset)

-----------------------------------------------------------------------------
(* The exchange. *)

\* What the host makes of an event is an event.
LEMMA ViewsSound == ASSUME NEW h, NEW c \in Chips(Event), NEW v \in Views(h, c) PROVE v \in Chips(Event)
<1>1. CASE v = c
  BY <1>1
<1>2. CASE v # c
  <2>1. PICK s \in Status : v = [rdyn |-> c.rdyn, out |-> << s >> \o Tail(c.out)] /\ c.out # << >>
    BY <1>2 DEF Views
  <2>2. s \in Event /\ Tail(c.out) \in Seq(Event)
    BY <2>1 DEF Event, Chips
  <2>3. << s >> \o Tail(c.out) \in Seq(Event)
    BY <2>2
  <2> QED
    BY <2>1, <2>3 DEF Chips
<1> QED
  BY <1>1, <1>2

-----------------------------------------------------------------------------
(* The attempt as a whole. *)

LEMMA InitInv == Init => IInv
<1> SUFFICES ASSUME Init PROVE IInv
  OBVIOUS
<1>1. hal = hal_aci_tl_init /\ chip = [rdyn |-> HIGH, out |-> << "started_setup" >>]
  BY DEF Init
<1>2. /\ aci_queue_init \in Queues(Cmds) /\ aci_queue_init \in Queues(Event)
      /\ Contents(aci_queue_init) = << >>
  BY InitQueue
<1>3. HostOK(hal, Cmds, Event)
  BY <1>1, <1>2 DEF HostOK, Hosts, hal_aci_tl_init
<1>4. << "started_setup" >> \in Seq(Event)
  BY DEF Event
<1>5. chip \in Chips(Event)
  BY <1>1, <1>4 DEF Chips
<1>6. 0 \in 0 .. num_setup_msgs /\ 1 \in 1 .. num_setup_msgs
  BY SetupAssumption
<1>7. "error" \in Event
  BY DEF Event, Status
<1>8. TypeOK
  BY <1>6, <1>7 DEF Init, TypeOK
<1>9. ~Attempting
  BY DEF Init, Attempting
<1> QED
  BY <1>3, <1>5, <1>8, <1>9 DEF IInv

\* What a radio does with a message; it leaves none without an answer.
LEMMA RadioAnswers ==
    ASSUME wanted \in 1 .. num_setup_msgs, mode \in {"setup", "standby"},
           NEW s, NEW r \in RadioTakes(s)
    PROVE  /\ r.mode \in {"setup", "standby"} /\ r.wanted \in 1 .. num_setup_msgs
           /\ r.evts \in Seq(Event)
           /\ "complete" \in Range(r.evts) => r.mode = "standby"
           /\ mode = "standby" => r.mode = "standby"
           /\ s = << >> => r.evts = << >>
           /\ s # << >> /\ mode # "standby" => r.evts # << >>
<1>1. /\ << >> \in Seq(Event) /\ << "error" >> \in Seq(Event) /\ << "continue" >> \in Seq(Event)
      /\ << "complete", "started_standby" >> \in Seq(Event)
  BY DEF Event, Status
<1>2. \A t \in {<< >>, << "error" >>, << "continue" >>} : "complete" \notin Range(t)
  BY DEF Range
<1>3. CASE s = << >>
  <2>1. r = [mode |-> mode, wanted |-> wanted, evts |-> << >>]
    BY <1>3 DEF RadioTakes, RadioStays
  <2> QED
    BY <1>1, <1>2, <1>3, <2>1
<1>4. CASE s # << >> /\ (mode = "standby" \/ ~InTurn(s))
  <2>1. \/ r = [mode |-> mode, wanted |-> wanted, evts |-> << "error" >>]
        \/ mode = "standby" /\ r = [mode |-> mode, wanted |-> wanted, evts |-> << >>]
    BY <1>4 DEF RadioTakes, Refused, RadioStays
  <2>2. r.mode = mode /\ r.wanted = wanted
    BY <2>1
  <2>3. CASE mode = "standby"
    <3>1. r.evts \in {<< >>, << "error" >>}
      BY <2>1
    <3> QED
      BY <1>1, <1>2, <1>4, <2>2, <2>3, <3>1
  <2>4. CASE mode # "standby"
    <3>1. r.evts = << "error" >> /\ << "error" >> # << >>
      BY <2>1, <2>4
    <3> QED
      BY <1>1, <1>2, <1>4, <2>2, <2>4, <3>1
  <2> QED
    BY <2>3, <2>4
<1>5. CASE s # << >> /\ mode # "standby" /\ InTurn(s)
  <2>1. PICK i \in 1 .. num_setup_msgs : s = << Message(i) >>
    BY <1>5, SetupAssumption DEF InTurn
  <2>2. s[1][2] = i
    BY <2>1 DEF Message
  <2>3. \/ r = [mode |-> mode, wanted |-> wanted, evts |-> << "error" >>]
        \/ i < num_setup_msgs /\ r = [mode |-> mode, wanted |-> i + 1, evts |-> << "continue" >>]
        \/ r = [mode |-> "standby", wanted |-> 1, evts |-> << "complete", "started_standby" >>]
    BY <1>5, <2>2 DEF RadioTakes, Refused, RadioStays
  <2>4. \/ r.mode = mode /\ r.wanted = wanted /\ r.evts = << "error" >>
        \/ /\ i < num_setup_msgs /\ r.mode = mode /\ r.wanted = i + 1
           /\ r.evts = << "continue" >>
        \/ /\ r.mode = "standby" /\ r.wanted = 1
           /\ r.evts = << "complete", "started_standby" >>
    BY <2>3
  <2>5. /\ i < num_setup_msgs => i + 1 \in 1 .. num_setup_msgs
        /\ 1 \in 1 .. num_setup_msgs
    BY SetupAssumption
  <2>6. /\ << "error" >> # << >> /\ << "continue" >> # << >>
        /\ << "complete", "started_standby" >> # << >>
    OBVIOUS
  <2> QED
    BY <1>1, <1>2, <1>5, <2>4, <2>5, <2>6
<1> QED
  BY <1>3, <1>4, <1>5

\* The radio's half after an exchange.
LEMMA ExchangeSound ==
    ASSUME wanted \in 1 .. num_setup_msgs, mode \in {"setup", "standby"},
           NEW c, c.chip \in Chips(Event), Exchanged(c)
    PROVE  /\ wanted' \in 1 .. num_setup_msgs /\ mode' \in {"setup", "standby"}
           /\ chip' \in Chips(Event)
<1>1. PICK r \in RadioTakes(c.sent) :
        /\ mode' = r.mode /\ wanted' = r.wanted
        /\ chip' = [c.chip EXCEPT !.out = c.chip.out \o r.evts]
  BY DEF Exchanged
<1>2. /\ r.mode \in {"setup", "standby"} /\ r.wanted \in 1 .. num_setup_msgs
      /\ r.evts \in Seq(Event)
  BY RadioAnswers
<1>3. c.chip.out \o r.evts \in Seq(Event)
  BY <1>2 DEF Chips
<1> QED
  BY <1>1, <1>2, <1>3 DEF Chips

\* Messages that go out are messages that the radio has.
LEMMA OrderGoesOut ==
    ASSUME NEW s \in Seq(Cmds), NEW a, NEW x, NEW n \in Nat, NEW offset \in Nat,
           Order(s, n, offset), GoesOut(s, a, x)
    PROVE  Order(a, n + Len(x), offset) /\ n + Len(x) \in 0 .. offset
<1>1. n + Len(s) = offset /\ Len(s) \in Nat /\ \A i \in 1 .. Len(s) : s[i] = Message(n + i)
  BY DEF Order
<1>2. CASE x = << >> /\ a = s
  <2>1. Len(x) = 0 /\ n + Len(x) = n
    BY <1>2
  <2> QED
    BY <1>1, <1>2, <2>1
<1>3. CASE s # << >> /\ x = << Head(s) >> /\ a = Tail(s)
  <2>1. Len(x) = 1 /\ Len(s) >= 1 /\ Len(a) = Len(s) - 1
    BY <1>3
  <2>2. ASSUME NEW i \in 1 .. Len(a)
        PROVE  a[i] = Message((n + Len(x)) + i)
    <3>1. a[i] = s[i + 1] /\ i + 1 \in 1 .. Len(s)
      BY <1>3, <2>1
    <3>2. n + (i + 1) = (n + Len(x)) + i
      BY <2>1
    <3> QED
      BY <1>1, <3>1, <3>2
  <2>3. (n + Len(x)) + Len(a) = offset
    BY <1>1, <2>1
  <2> QED
    BY <1>1, <2>1, <2>2, <2>3 DEF Order
<1> QED
  BY <1>2, <1>3 DEF GoesOut

LEMMA MainLoopInv == IInv /\ MainLoop => IInv'
<1> SUFFICES ASSUME IInv, MainLoop PROVE IInv'
  OBVIOUS
<1>1. PICK v \in Views(hal, chip) :
        \E r \in {hal_aci_tl_event_get(hal, v)} :
           /\ Exchanged(r.c)
           /\ hal' = Handled(Pack(r.hal), r.evt)
           /\ setup_required' = (setup_required \/ r.evt = << "started_setup" >>)
           /\ pc' = IF setup_required' THEN "setup" ELSE "loop"
  BY DEF MainLoop
<1> DEFINE r == hal_aci_tl_event_get(hal, v)
<1>2. /\ Exchanged(r.c) /\ hal' = Handled(Pack(r.hal), r.evt)
      /\ setup_required' = (setup_required \/ r.evt = << "started_setup" >>)
      /\ pc' = IF setup_required' THEN "setup" ELSE "loop"
  BY <1>1
<1>3. HostOK(r.hal, Cmds, Event) /\ r.c.chip \in Chips(Event)
  BY ViewsSound, HalGet DEF IInv
<1> HIDE DEF r
<1>4. wanted' \in 1 .. num_setup_msgs /\ mode' \in {"setup", "standby"} /\ chip' \in Chips(Event)
  BY <1>2, <1>3, ExchangeSound DEF IInv, TypeOK
<1>5. HostOK(Pack(r.hal), Cmds, Event) /\ Connect \in Cmds
  BY <1>3, HalPack DEF Cmds
<1>6. HostOK(hal_aci_tl_send(Pack(r.hal), Connect).hal, Cmds, Event)
  BY <1>5, HalSend
<1>7. HostOK(hal', Cmds, Event)
  BY <1>2, <1>5, <1>6 DEF Handled
<1>8. setup_required' \in BOOLEAN
  BY <1>2
<1>9. pc' \in {"loop", "setup"} /\ ~Attempting'
  BY <1>2 DEF Attempting
<1>10. TypeOK'
  BY <1>4, <1>8, <1>9 DEF IInv, TypeOK, MainLoop
<1> QED
  BY <1>4, <1>7, <1>9, <1>10 DEF IInv

LEMMA BeginInv == IInv /\ Begin => IInv'
<1> SUFFICES ASSUME IInv, Begin PROVE IInv'
  OBVIOUS
<1>1. PICK v \in Views(hal, chip) :
        \E c \in {hal_aci_tl_event_peek(hal, v)} :
           /\ Exchanged(c)
           /\ hal' = Pack(c.hal)
           /\ pc' = IF aci_queue_is_empty(c.hal.rx) THEN "fill" ELSE "loop"
  BY DEF Begin
<1> DEFINE c == m_aci_event_check(hal, v)
<1>2. /\ Exchanged(c) /\ hal' = Pack(c.hal) /\ pc' \in {"fill", "loop"}
  BY <1>1 DEF hal_aci_tl_event_peek
<1>3. /\ HostOK(c.hal, Cmds, Event) /\ c.chip \in Chips(Event)
      /\ GoesOut(Contents(hal.tx), Contents(c.hal.tx), c.sent)
  BY ViewsSound, HalCheck DEF IInv
<1> HIDE DEF c
<1>4. wanted' \in 1 .. num_setup_msgs /\ mode' \in {"setup", "standby"} /\ chip' \in Chips(Event)
  BY <1>2, <1>3, ExchangeSound DEF IInv, TypeOK
<1>5. HostOK(hal', Cmds, Event) /\ Contents(hal'.tx) = Contents(c.hal.tx)
  BY <1>2, <1>3, HalPack
<1>6. hal.tx \in Queues(Cmds) /\ Contents(hal.tx) = << >>
  <2>1. hal.tx \in Queues(Cmds) /\ aci_queue_is_empty(hal.tx)
    BY DEF Begin, MustWait, IInv, HostOK, Hosts
  <2> QED
    BY <2>1, QueueTests
<1>7. Contents(hal'.tx) = << >>
  BY <1>3, <1>5, <1>6 DEF GoesOut
<1>8. setup_offset' = 0 /\ taken' = 0 /\ cmd_status' = "error" /\ setup_required' = setup_required
  BY DEF Begin
<1>9. Order(Contents(hal'.tx), taken', setup_offset')
  BY <1>7, <1>8 DEF Order
<1>10. 0 \in 0 .. num_setup_msgs /\ "error" \in Event
  BY SetupAssumption DEF Event, Status
<1>11. TypeOK'
  BY <1>2, <1>4, <1>8, <1>10 DEF IInv, TypeOK
<1> QED
  BY <1>4, <1>5, <1>9, <1>11 DEF IInv

LEMMA FillInv == IInv /\ Fill => IInv'
<1> SUFFICES ASSUME IInv, Fill PROVE IInv'
  OBVIOUS
<1> DEFINE m == Message(setup_offset + 1)
           s == hal_aci_tl_send(hal, m)
<1>1. /\ hal' = Pack(s.hal)
      /\ setup_offset' = NextOffset(setup_offset, s.ok)
      /\ pc' = IF s.ok THEN pc ELSE FillReturns(pc)
      /\ pc \in {"fill", "refill"} /\ setup_offset < num_setup_msgs
      /\ UNCHANGED << chip, mode, wanted, setup_required, cmd_status, taken >>
  BY DEF Fill
<1>2. /\ setup_offset \in Nat /\ num_setup_msgs \in Nat /\ taken \in Nat
      /\ setup_offset + 1 \in 1 .. num_setup_msgs
  BY <1>1, SetupAssumption DEF IInv, TypeOK
<1>3. m \in Cmds
  BY <1>2 DEF Cmds
<1>4. /\ HostOK(s.hal, Cmds, Event)
      /\ \/ s.ok = TRUE /\ Contents(s.hal.tx) = Append(Contents(hal.tx), m)
         \/ s.ok = FALSE /\ s.hal = hal
  <2>1. HostOK(hal, Cmds, Event)
    BY DEF IInv
  <2>2. HostOK(s.hal, Cmds, Event) /\ SendEffect(hal, m, s)
    <3> HIDE DEF m
    <3> QED
      BY <1>3, <2>1, HalSend
  <2> HIDE DEF m, s
  <2> QED
    BY <2>2 DEF SendEffect
<1> HIDE DEF s
<1>5. HostOK(hal', Cmds, Event) /\ Contents(hal'.tx) = Contents(s.hal.tx)
  BY <1>1, <1>4, HalPack
<1>6. Order(Contents(hal.tx), taken, setup_offset) /\ Contents(hal.tx) \in Seq(Cmds)
  BY <1>1 DEF IInv, Attempting, HostOK, Hosts
<1>7. CASE s.ok = TRUE
  <2>1. setup_offset' = setup_offset + 1 /\ pc' = pc
    BY <1>1, <1>7 DEF NextOffset
  <2> DEFINE q == Contents(hal.tx)
             t == Append(q, m)
  <2>2. Contents(hal'.tx) = t
    BY <1>4, <1>5, <1>7
  <2>3. /\ Len(q) \in Nat /\ taken + Len(q) = setup_offset
        /\ \A i \in 1 .. Len(q) : q[i] = Message(taken + i)
    BY <1>6 DEF Order
  <2>4. /\ Len(t) = Len(q) + 1 /\ t[Len(q) + 1] = m
        /\ \A i \in 1 .. Len(q) : t[i] = q[i]
    BY <1>3, <1>6
  <2> HIDE DEF q, t
  <2>5. setup_offset + 1 = taken + (Len(q) + 1)
    BY <1>2, <2>3
  <2>6. ASSUME NEW i \in 1 .. Len(t) PROVE t[i] = Message(taken + i)
    <3>1. i \in 1 .. Len(q) \/ i = Len(q) + 1
      BY <2>3, <2>4
    <3> QED
      BY <2>3, <2>4, <2>5, <3>1
  <2>7. taken + Len(t) = setup_offset + 1
    BY <1>2, <2>3, <2>4
  <2>8. Order(Contents(hal'.tx), taken', setup_offset')
    BY <1>1, <2>1, <2>2, <2>6, <2>7 DEF Order
  <2>9. setup_offset' \in 0 .. num_setup_msgs
    BY <1>2, <2>1
  <2>10. TypeOK'
    BY <1>1, <2>1, <2>9 DEF IInv, TypeOK
  <2> QED
    BY <1>1, <1>5, <2>8, <2>10 DEF IInv
<1>8. CASE s.ok = FALSE
  <2>1. setup_offset' = setup_offset /\ pc' \in {"poll", "remove"}
    BY <1>1, <1>8 DEF NextOffset, FillReturns
  <2>2. Contents(hal'.tx) = Contents(hal.tx)
    BY <1>4, <1>5, <1>8
  <2>3. Order(Contents(hal'.tx), taken', setup_offset')
    BY <1>1, <1>6, <2>1, <2>2
  <2>4. TypeOK'
    BY <1>1, <2>1 DEF IInv, TypeOK
  <2> QED
    BY <1>1, <1>5, <2>3, <2>4 DEF IInv
<1> QED
  BY <1>4, <1>7, <1>8

LEMMA PollInv == IInv /\ Poll => IInv'
<1> SUFFICES ASSUME IInv, Poll PROVE IInv'
  OBVIOUS
<1>1. PICK v \in Views(hal, chip) :
        \E c \in {hal_aci_tl_event_peek(hal, v)} :
           /\ Exchanged(c)
           /\ hal' = Pack(c.hal)
           /\ taken' = taken + Len(c.sent)
           /\ IF aci_queue_is_empty(c.hal.rx)
              THEN UNCHANGED << pc, cmd_status >>
              ELSE /\ pc' = Branch(aci_queue_peek(c.hal.rx))
                   /\ cmd_status' = aci_queue_peek(c.hal.rx)
  BY DEF Poll
<1> DEFINE c == m_aci_event_check(hal, v)
<1>2. /\ Exchanged(c) /\ hal' = Pack(c.hal) /\ taken' = taken + Len(c.sent)
      /\ IF aci_queue_is_empty(c.hal.rx)
         THEN UNCHANGED << pc, cmd_status >>
         ELSE /\ pc' = Branch(aci_queue_peek(c.hal.rx))
              /\ cmd_status' = aci_queue_peek(c.hal.rx)
  BY <1>1 DEF hal_aci_tl_event_peek
<1>3. /\ HostOK(c.hal, Cmds, Event) /\ c.chip \in Chips(Event)
      /\ GoesOut(Contents(hal.tx), Contents(c.hal.tx), c.sent)
  BY ViewsSound, HalCheck DEF IInv
<1> HIDE DEF c
<1>4. wanted' \in 1 .. num_setup_msgs /\ mode' \in {"setup", "standby"} /\ chip' \in Chips(Event)
  BY <1>2, <1>3, ExchangeSound DEF IInv, TypeOK
<1>5. HostOK(hal', Cmds, Event) /\ Contents(hal'.tx) = Contents(c.hal.tx)
  BY <1>2, <1>3, HalPack
<1>6. /\ Order(Contents(hal.tx), taken, setup_offset) /\ Contents(hal.tx) \in Seq(Cmds)
      /\ setup_offset' = setup_offset /\ setup_required' = setup_required
      /\ pc = "poll" /\ taken \in Nat /\ setup_offset \in Nat
  BY SetupAssumption DEF Poll, IInv, Attempting, HostOK, Hosts, TypeOK
<1>7. Order(Contents(hal'.tx), taken', setup_offset') /\ taken' \in 0 .. setup_offset
  BY <1>2, <1>3, <1>5, <1>6, OrderGoesOut
<1>8. taken' \in 0 .. num_setup_msgs
  BY <1>6, <1>7, SetupAssumption DEF IInv, TypeOK
<1>9. /\ pc' \in {"loop", "setup", "fill", "refill", "poll", "remove"}
      /\ cmd_status' \in Event
  <2>1. CASE aci_queue_is_empty(c.hal.rx)
    BY <1>2, <1>6, <2>1 DEF IInv, TypeOK
  <2>2. CASE ~aci_queue_is_empty(c.hal.rx)
    <3>1. c.hal.rx \in Queues(Event) /\ Contents(c.hal.rx) \in Seq(Event)
      BY <1>3 DEF HostOK, Hosts
    <3>2. /\ Contents(c.hal.rx) # << >>
          /\ aci_queue_peek(c.hal.rx) = Head(Contents(c.hal.rx))
      BY <2>2, <3>1, DequeueTakesHead
    <3>3. aci_queue_peek(c.hal.rx) \in Event
      BY <3>1, <3>2
    <3> QED
      BY <1>2, <2>2, <3>3 DEF Branch
  <2> QED
    BY <2>1, <2>2
<1>10. TypeOK'
  BY <1>4, <1>6, <1>8, <1>9 DEF IInv, TypeOK
<1> QED
  BY <1>4, <1>5, <1>7, <1>10 DEF IInv

LEMMA RemoveInv == IInv /\ Remove => IInv'
<1> SUFFICES ASSUME IInv, Remove PROVE IInv'
  OBVIOUS
<1>1. PICK v \in Views(hal, chip) :
        \E r \in {hal_aci_tl_event_get(hal, v)} :
           /\ Exchanged(r.c)
           /\ hal' = Pack(r.hal)
           /\ taken' = taken + Len(r.c.sent)
  BY DEF Remove
<1> DEFINE r == hal_aci_tl_event_get(hal, v)
<1>2. Exchanged(r.c) /\ hal' = Pack(r.hal) /\ taken' = taken + Len(r.c.sent)
  BY <1>1
<1>3. /\ HostOK(r.hal, Cmds, Event) /\ r.c.chip \in Chips(Event)
      /\ GoesOut(Contents(hal.tx), Contents(r.hal.tx), r.c.sent)
  BY ViewsSound, HalGet DEF IInv
<1> HIDE DEF r
<1>4. wanted' \in 1 .. num_setup_msgs /\ mode' \in {"setup", "standby"} /\ chip' \in Chips(Event)
  BY <1>2, <1>3, ExchangeSound DEF IInv, TypeOK
<1>5. HostOK(hal', Cmds, Event) /\ Contents(hal'.tx) = Contents(r.hal.tx)
  BY <1>2, <1>3, HalPack
<1>6. /\ Order(Contents(hal.tx), taken, setup_offset) /\ Contents(hal.tx) \in Seq(Cmds)
      /\ taken \in Nat /\ setup_offset \in Nat
  BY SetupAssumption DEF Remove, IInv, Attempting, HostOK, Hosts, TypeOK
<1>7. /\ setup_offset' = setup_offset /\ cmd_status' = cmd_status
      /\ setup_required' \in BOOLEAN /\ pc' \in {"loop", "poll"}
  BY DEF Remove
<1>8. Order(Contents(hal'.tx), taken', setup_offset') /\ taken' \in 0 .. setup_offset
  BY <1>2, <1>3, <1>5, <1>6, <1>7, OrderGoesOut
<1>9. taken' \in 0 .. num_setup_msgs
  BY <1>6, <1>8, SetupAssumption DEF IInv, TypeOK
<1>10. TypeOK'
  BY <1>4, <1>7, <1>9 DEF IInv, TypeOK
<1> QED
  BY <1>4, <1>5, <1>8, <1>10 DEF IInv

LEMMA StepInv == IInv /\ [Next]_vars => IInv'
<1> SUFFICES ASSUME IInv, [Next]_vars PROVE IInv'
  OBVIOUS
<1>1. ASSUME Wait \/ Filled \/ TimeUp PROVE IInv'
  <2>1. /\ UNCHANGED << hal, chip, mode, wanted, setup_required, setup_offset, cmd_status, taken >>
        /\ pc' \in {"loop", "poll", "remove"}
        /\ Attempting' => Attempting
    BY <1>1 DEF Wait, Filled, FillReturns, TimeUp, Attempting
  <2>2. TypeOK'
    BY <2>1 DEF IInv, TypeOK
  <2> QED
    BY <2>1, <2>2 DEF IInv
<1>2. ASSUME RadioReady \/ RadioRestarts \/ HardwareError PROVE IInv'
  <2>1. UNCHANGED << hal, pc, setup_required, setup_offset, cmd_status, taken >>
    BY <1>2 DEF RadioReady, RadioRestarts, HardwareError
  <2>2. chip.out \in Seq(Event) /\ "hw_error" \in Event /\ "started_setup" \in Event
    BY DEF IInv, Chips, Event
  <2>3. Append(chip.out, "hw_error") \in Seq(Event) /\ << "started_setup" >> \in Seq(Event)
    BY <2>2
  <2>4. chip' \in Chips(Event)
    <3>1. \/ chip' = [chip EXCEPT !.rdyn = LOW]
          \/ chip' = [rdyn |-> HIGH, out |-> << "started_setup" >>]
          \/ chip' = [chip EXCEPT !.out = Append(chip.out, "hw_error")]
      BY <1>2 DEF RadioReady, RadioRestarts, HardwareError
    <3>2. chip \in [rdyn : {HIGH, LOW}, out : Seq(Event)]
      BY DEF IInv, Chips
    <3>3. CASE chip' = [chip EXCEPT !.rdyn = LOW]
      BY <3>2, <3>3 DEF Chips
    <3>4. CASE chip' = [rdyn |-> HIGH, out |-> << "started_setup" >>]
      BY <2>3, <3>4 DEF Chips
    <3>5. CASE chip' = [chip EXCEPT !.out = Append(chip.out, "hw_error")]
      BY <2>3, <3>2, <3>5 DEF Chips
    <3> QED
      BY <3>1, <3>3, <3>4, <3>5
  <2>5. mode' \in {"setup", "standby"} /\ wanted' \in 1 .. num_setup_msgs
    BY <1>2, SetupAssumption
       DEF IInv, TypeOK, RadioReady, RadioRestarts, HardwareError
  <2>6. TypeOK'
    BY <2>1, <2>5 DEF IInv, TypeOK
  <2> QED
    BY <2>1, <2>4, <2>6 DEF IInv, Attempting
<1>3. CASE UNCHANGED vars
  BY <1>3 DEF IInv, TypeOK, Attempting, vars
<1> QED
  BY <1>1, <1>2, <1>3, MainLoopInv, BeginInv, FillInv, PollInv, RemoveInv
     DEF Next, Attempt, Trouble

THEOREM Invariance == Spec => []IInv
BY InitInv, StepInv, PTL DEF Spec

\* The two places the program and the radio are at, the offset and the status have
\* their types; in particular the offset never passes the last set-up message.
THEOREM TypeCorrect == Spec => []TypeOK
BY Invariance, PTL DEF IInv

LEMMA OrderIsInOrder == IInv => InOrder
<1> SUFFICES ASSUME IInv, Attempting
             PROVE  /\ taken + Count(hal.tx) = setup_offset
                    /\ \A i \in 1 .. Count(hal.tx) : Contents(hal.tx)[i] = Message(taken + i)
  BY DEF InOrder
<1>1. Len(Contents(hal.tx)) = Count(hal.tx)
  <2>1. hal.tx \in Queues(Cmds)
    BY DEF IInv, HostOK, Hosts
  <2> QED
    BY <2>1, QueueTests
<1> QED
  BY <1>1 DEF IInv, Order

\* aci_setup_fill and the loop of do_aci_setup hand the messages over in their order
\* through a queue that refuses them at any time: none is skipped and none sent twice.
THEOREM MessagesInOrder == Spec => []InOrder
BY Invariance, OrderIsInOrder, PTL
-----------------------------------------------------------------------------
(***************************************************************************)
(* SETUP_SUCCESS.  The status "complete" ends a set-up, and an exchange    *)
(* that sends no message lets the program see any status.  So the theorem  *)
(* needs that no answer comes with such an exchange while messages are     *)
(* left: the queue is filled again after each answer, and that is enough   *)
(* if it takes at least two messages (four slots in the code, three        *)
(* messages).  After the last message an error may look like "complete".   *)
(***************************************************************************)

\* The radio is set up, or an event on its way says that it has restarted.
SetUp(m, out, rx) ==
    m = "standby" \/ "started_setup" \in Range(out) \/ "started_setup" \in Range(rx)

Settled == SetUp(mode, chip.out, Contents(hal.rx))

\* The radio itself says "complete" only when it is set up.
RadioTruthful == "complete" \in Range(chip.out) => mode = "standby"

\* What an attempt finds in its event queue says so then too, or after the last
\* message.
Believable ==
    Attempting => ("complete" \in Range(Contents(hal.rx)) => Settled \/ taken = num_setup_msgs)

\* The event that was peeked at is removed later.
Peeked ==
    pc \in {"refill", "remove"} =>
      /\ Contents(hal.rx) # << >> /\ cmd_status = Head(Contents(hal.rx))
      /\ cmd_status \in {"continue", "complete"}

\* The command queue is full, but for one message whose answer is awaited.
Places == ACI_QUEUE_SIZE - 1

Supplied ==
    setup_offset < num_setup_msgs =>
      /\ pc = "remove" => Settled \/ Len(Contents(hal.tx)) = Places
      /\ pc = "poll" => \/ Settled \/ Len(Contents(hal.tx)) = Places
                        \/ Len(Contents(hal.tx)) = Places - 1 /\ chip.out # << >>

SInv == RadioTruthful /\ Believable /\ Peeked /\ Supplied

LEMMA RangeTail ==
    ASSUME NEW S, NEW s \in Seq(S), s # << >>
    PROVE  Range(s) = {Head(s)} \cup Range(Tail(s))
<1>1. Len(s) \in Nat \ {0} /\ DOMAIN s = 1 .. Len(s) /\ Head(s) = s[1]
  OBVIOUS
<1>2. DOMAIN Tail(s) = 1 .. Len(s) - 1 /\ \A i \in 1 .. Len(s) - 1 : Tail(s)[i] = s[i + 1]
  BY <1>1
<1>3. ASSUME NEW i \in 1 .. Len(s) PROVE s[i] \in {Head(s)} \cup Range(Tail(s))
  <2>1. CASE i = 1
    BY <1>1, <2>1
  <2>2. CASE i # 1
    <3>1. i - 1 \in 1 .. Len(s) - 1 /\ (i - 1) + 1 = i
      BY <1>1, <2>2
    <3>2. Tail(s)[i - 1] = s[i]
      BY <1>2, <3>1
    <3> QED
      BY <1>2, <3>1, <3>2 DEF Range
  <2> QED
    BY <2>1, <2>2
<1>4. ASSUME NEW i \in 1 .. Len(s) - 1 PROVE Tail(s)[i] \in Range(s)
  <2>1. i + 1 \in 1 .. Len(s) /\ Tail(s)[i] = s[i + 1]
    BY <1>1, <1>2
  <2> QED
    BY <1>1, <2>1 DEF Range
<1>5. Head(s) \in Range(s)
  <2>1. 1 \in DOMAIN s
    BY <1>1
  <2> QED
    BY <1>1, <2>1 DEF Range
<1>6. Range(s) \subseteq {Head(s)} \cup Range(Tail(s))
  BY <1>1, <1>3 DEF Range
<1>7. Range(Tail(s)) \subseteq Range(s)
  <2> SUFFICES ASSUME NEW y \in Range(Tail(s)) PROVE y \in Range(s)
    OBVIOUS
  <2>1. PICK i \in 1 .. Len(s) - 1 : y = Tail(s)[i]
    BY <1>2 DEF Range
  <2> QED
    BY <1>4, <2>1
<1> QED
  BY <1>5, <1>6, <1>7

LEMMA RangeAppend ==
    ASSUME NEW S, NEW s \in Seq(S), NEW e \in S
    PROVE  Range(Append(s, e)) = Range(s) \cup {e}
<1> DEFINE t == Append(s, e)
<1>1. /\ Len(s) \in Nat /\ DOMAIN s = 1 .. Len(s) /\ DOMAIN t = 1 .. Len(s) + 1
      /\ t[Len(s) + 1] = e /\ \A i \in 1 .. Len(s) : t[i] = s[i]
  OBVIOUS
<1> HIDE DEF t
<1>2. \A i \in DOMAIN t : t[i] \in Range(s) \cup {e}
  <2> SUFFICES ASSUME NEW i \in DOMAIN t PROVE t[i] \in Range(s) \cup {e}
    OBVIOUS
  <2>1. i \in 1 .. Len(s) \/ i = Len(s) + 1
    BY <1>1
  <2> QED
    BY <1>1, <2>1 DEF Range
<1>3. \A i \in DOMAIN s : i \in DOMAIN t /\ s[i] = t[i]
  BY <1>1
<1>4. Len(s) + 1 \in DOMAIN t
  BY <1>1
<1> QED
  BY <1>1, <1>2, <1>3, <1>4 DEF Range, t

LEMMA RangeConcat ==
    ASSUME NEW S, NEW s \in Seq(S), NEW t \in Seq(S)
    PROVE  Range(s \o t) = Range(s) \cup Range(t)
<1> DEFINE u == s \o t
<1>1. /\ Len(s) \in Nat /\ DOMAIN s = 1 .. Len(s) /\ Len(t) \in Nat /\ DOMAIN t = 1 .. Len(t)
      /\ DOMAIN u = 1 .. Len(s) + Len(t)
      /\ \A i \in 1 .. Len(s) : u[i] = s[i]
      /\ \A i \in 1 .. Len(t) : u[Len(s) + i] = t[i]
  OBVIOUS
<1> HIDE DEF u
<1>2. \A i \in DOMAIN u : u[i] \in Range(s) \cup Range(t)
  <2> SUFFICES ASSUME NEW i \in DOMAIN u PROVE u[i] \in Range(s) \cup Range(t)
    OBVIOUS
  <2>1. CASE i \in 1 .. Len(s)
    BY <1>1, <2>1 DEF Range
  <2>2. CASE i \notin 1 .. Len(s)
    <3>1. i - Len(s) \in 1 .. Len(t) /\ Len(s) + (i - Len(s)) = i
      BY <1>1, <2>2
    <3>2. u[i] = t[i - Len(s)]
      BY <1>1, <3>1
    <3> QED
      BY <1>1, <3>1, <3>2 DEF Range
  <2> QED
    BY <2>1, <2>2
<1>3. \A i \in DOMAIN s : i \in DOMAIN u /\ s[i] = u[i]
  BY <1>1
<1>4. \A i \in DOMAIN t : Len(s) + i \in DOMAIN u /\ t[i] = u[Len(s) + i]
  BY <1>1
<1>5. Range(u) \subseteq Range(s) \cup Range(t)
  BY <1>2 DEF Range
<1>6. Range(s) \subseteq Range(u)
  BY <1>3 DEF Range
<1>7. Range(t) \subseteq Range(u)
  BY <1>4 DEF Range
<1> QED
  BY <1>5, <1>6, <1>7 DEF u
-----------------------------------------------------------------------------
(* The exchange and the events. *)

\* An exchange as the set-up sees it: only a status that comes while no message
\* goes out may be taken for another.
Viewed(h, c, k) ==
    /\ \/ Contents(h.tx) = << >> /\ k.sent = << >> /\ Contents(k.hal.tx) = << >>
       \/ /\ Contents(h.tx) # << >> /\ k.sent = << Head(Contents(h.tx)) >>
          /\ Contents(k.hal.tx) = Tail(Contents(h.tx))
    /\ \/ c.out = << >> /\ k.chip.out = << >> /\ Contents(k.hal.rx) = Contents(h.rx)
       \/ /\ c.out # << >> /\ k.chip.out = Tail(c.out)
          /\ \E e \in Event :
               /\ Contents(k.hal.rx) = Append(Contents(h.rx), e)
               /\ \/ e = Head(c.out)
                  \/ Contents(h.tx) = << >> /\ Head(c.out) \in Status /\ e \in Status

LEMMA ViewedCheck ==
    ASSUME NEW h, HostOK(h, Cmds, Event), NEW c \in Chips(Event), NEW v \in Views(h, c),
           NEW k, k = m_aci_event_check(h, v)
    PROVE  NotMoved(h, c, k) \/ Viewed(h, c, k)
<1>1. CASE v = c
  <2>1. NotMoved(h, c, k) \/ Moved(h, c, k)
    BY <1>1, CheckMoves
  <2>2. c.out # << >> => Head(c.out) \in Event
    BY DEF Chips
  <2> QED
    BY <2>1, <2>2 DEF Moved, ComesIn, Viewed
<1>2. CASE v # c
  <2>1. PICK s \in Status : v = [rdyn |-> c.rdyn, out |-> << s >> \o Tail(c.out)]
    BY <1>2 DEF Views
  <2>2. /\ c.rdyn = LOW /\ ~aci_queue_is_full(h.rx) /\ aci_queue_is_empty(h.tx)
        /\ c.out # << >> /\ Head(c.out) \in Status
    BY <1>2 DEF Views
  <2>3. v.rdyn # HIGH /\ v.out = << s >> \o Tail(c.out) /\ v \in Chips(Event)
    BY <2>1, <2>2, ViewsSound DEF HIGH, LOW
  <2>4. v.out # << >> /\ Head(v.out) = s /\ Tail(v.out) = Tail(c.out)
    <3>1. Tail(c.out) \in Seq(Event) /\ s \in Event
      BY <2>2 DEF Chips, Event
    <3> QED
      BY <2>3, <3>1
  <2>5. Moved(h, v, k)
    BY <2>2, <2>3, CheckMoves
  <2>6. Contents(h.tx) = << >>
    BY <2>2, QueueTests DEF HostOK, Hosts
  <2>7. s \in Event /\ s \in Status
    BY DEF Event
  <2> QED
    BY <2>2, <2>4, <2>5, <2>6, <2>7 DEF Moved, ComesIn, Viewed
<1> QED
  BY <1>1, <1>2

-----------------------------------------------------------------------------
(* An exchange does not lose what makes a "complete" believable. *)

LEMMA ExchangeTruthful ==
    ASSUME IInv, RadioTruthful, NEW v \in Views(hal, chip),
           NEW k, k = m_aci_event_check(hal, v), Exchanged(k)
    PROVE  /\ RadioTruthful'
           /\ mode = "standby" => mode' = "standby"
           /\ Range(k.chip.out) \subseteq Range(chip'.out)
           /\ k.sent = << >> => chip'.out = k.chip.out
           /\ k.sent # << >> /\ mode # "standby" => chip'.out # << >>
<1>1. PICK r \in RadioTakes(k.sent) :
        mode' = r.mode /\ chip' = [k.chip EXCEPT !.out = k.chip.out \o r.evts]
  BY DEF Exchanged
<1>2. k.chip \in Chips(Event) /\ chip.out \in Seq(Event)
  BY ViewsSound, HalCheck DEF IInv, Chips
<1>3. /\ r.evts \in Seq(Event)
      /\ "complete" \in Range(r.evts) => r.mode = "standby"
      /\ mode = "standby" => r.mode = "standby"
      /\ k.sent = << >> => r.evts = << >>
      /\ k.sent # << >> /\ mode # "standby" => r.evts # << >>
  BY RadioAnswers DEF IInv, TypeOK
<1>4. chip'.out = k.chip.out \o r.evts /\ k.chip.out \in Seq(Event)
  BY <1>1, <1>2 DEF Chips
<1>5. Range(chip'.out) = Range(k.chip.out) \cup Range(r.evts)
  BY <1>3, <1>4, RangeConcat
<1>6. Range(k.chip.out) \subseteq Range(chip.out)
  <2>1. NotMoved(hal, chip, k) \/ Viewed(hal, chip, k)
    BY ViewedCheck DEF IInv
  <2>2. k.chip.out = chip.out \/ (chip.out # << >> /\ k.chip.out = Tail(chip.out))
    BY <2>1 DEF NotMoved, Viewed
  <2> QED
    BY <1>2, <2>2, RangeTail
<1>7. RadioTruthful'
  BY <1>1, <1>3, <1>5, <1>6 DEF RadioTruthful
<1>8. /\ r.evts = << >> => chip'.out = k.chip.out
      /\ r.evts # << >> => chip'.out # << >>
  <2> DEFINE e == r.evts
             o == k.chip.out
  <2>1. e \in Seq(Event) /\ o \in Seq(Event) /\ chip'.out = o \o e
    BY <1>3, <1>4
  <2> HIDE DEF e, o
  <2>2. (e = << >> => o \o e = o) /\ (e # << >> => o \o e # << >>)
    BY <2>1
  <2> QED
    BY <2>1, <2>2 DEF e, o
<1> QED
  BY <1>1, <1>3, <1>5, <1>7, <1>8

\* The radio has the last message only after it was put into the queue.
LEMMA LastIsSent ==
    ASSUME NEW s \in Seq(Cmds), NEW n \in Nat, NEW offset \in Nat, Order(s, n, offset),
           offset < num_setup_msgs
    PROVE  n # num_setup_msgs
BY SetupAssumption DEF Order

\* While messages are left, every exchange has one to send.
LEMMA MessageWaits ==
    ASSUME IInv, SInv, ACI_QUEUE_SIZE > 2, pc \in {"poll", "remove"},
           taken # num_setup_msgs, ~Settled
    PROVE  Contents(hal.tx) # << >>
<1> SUFFICES ASSUME Contents(hal.tx) = << >> PROVE FALSE
  OBVIOUS
<1>1. /\ taken + Len(Contents(hal.tx)) = setup_offset /\ Len(Contents(hal.tx)) = 0
      /\ taken \in 0 .. num_setup_msgs /\ num_setup_msgs \in Nat
  BY SetupAssumption DEF IInv, Attempting, Order, TypeOK
<1>2. setup_offset < num_setup_msgs
  BY <1>1
<1>3. Places >= 2 /\ Len(Contents(hal.tx)) # Places /\ Len(Contents(hal.tx)) # Places - 1
  BY <1>1, QueueSizeAssumption DEF Places
<1> QED
  BY <1>2, <1>3 DEF SInv, Supplied

LEMMA ExchangeSettled ==
    ASSUME IInv, SInv, NEW v \in Views(hal, chip),
           NEW k, k = m_aci_event_check(hal, v), Exchanged(k), Settled
    PROVE  SetUp(mode', chip'.out, Contents(k.hal.rx))
<1>1. /\ Range(k.chip.out) \subseteq Range(chip'.out)
      /\ mode = "standby" => mode' = "standby"
  BY ExchangeTruthful DEF SInv
<1>2. NotMoved(hal, chip, k) \/ Viewed(hal, chip, k)
  BY ViewedCheck DEF IInv
<1>3. chip.out \in Seq(Event) /\ Contents(hal.rx) \in Seq(Event)
  BY DEF IInv, HostOK, Chips
<1>4. CASE mode = "standby"
  BY <1>1, <1>4 DEF SetUp
<1>5. CASE "started_setup" \in Range(Contents(hal.rx))
  <2>1. \/ Contents(k.hal.rx) = Contents(hal.rx)
        \/ \E e \in Event : Contents(k.hal.rx) = Append(Contents(hal.rx), e)
    BY <1>2 DEF NotMoved, Viewed
  <2>2. \A e \in Event : Range(Append(Contents(hal.rx), e)) = Range(Contents(hal.rx)) \cup {e}
    BY <1>3, RangeAppend
  <2>3. "started_setup" \in Range(Contents(k.hal.rx))
    BY <1>5, <2>1, <2>2
  <2> QED
    BY <2>3 DEF SetUp
<1>6. CASE "started_setup" \in Range(chip.out)
  <2>1. CASE k.chip.out = chip.out
    BY <1>1, <1>6, <2>1 DEF SetUp
  <2>2. CASE k.chip.out # chip.out
    <3>1. PICK e \in Event :
             /\ chip.out # << >> /\ k.chip.out = Tail(chip.out)
             /\ Contents(k.hal.rx) = Append(Contents(hal.rx), e)
             /\ e = Head(chip.out) \/ Head(chip.out) \in Status
      BY <1>2, <2>2 DEF NotMoved, Viewed
    <3>2. \/ "started_setup" = Head(chip.out)
          \/ "started_setup" \in Range(k.chip.out)
      BY <1>3, <1>6, <3>1, RangeTail
    <3>3. "started_setup" \notin Status
      BY DEF Status
    <3>4. Range(Contents(k.hal.rx)) = Range(Contents(hal.rx)) \cup {e}
      BY <1>3, <3>1, RangeAppend
    <3> QED
      BY <1>1, <3>1, <3>2, <3>3, <3>4 DEF SetUp
  <2> QED
    BY <2>1, <2>2
<1> QED
  BY <1>4, <1>5, <1>6 DEF Settled, SetUp

LEMMA ExchangeBelievable ==
    ASSUME IInv, SInv, ACI_QUEUE_SIZE > 2, pc \in {"poll", "remove"},
           NEW v \in Views(hal, chip), NEW k, k = m_aci_event_check(hal, v), Exchanged(k),
           "complete" \in Range(Contents(k.hal.rx))
    PROVE  \/ SetUp(mode', chip'.out, Contents(k.hal.rx))
           \/ taken = num_setup_msgs /\ k.sent = << >>
<1> DEFINE rx == Contents(k.hal.rx)
<1>1. Settled => SetUp(mode', chip'.out, rx)
  BY ExchangeSettled
<1>2. NotMoved(hal, chip, k) \/ Viewed(hal, chip, k)
  BY ViewedCheck DEF IInv
<1>3. /\ chip.out \in Seq(Event) /\ Contents(hal.rx) \in Seq(Event)
      /\ Order(Contents(hal.tx), taken, setup_offset) /\ Contents(hal.tx) \in Seq(Cmds)
      /\ taken \in Nat /\ num_setup_msgs \in Nat /\ setup_offset <= num_setup_msgs
  BY SetupAssumption DEF IInv, HostOK, Chips, TypeOK, Attempting
<1>4. /\ "complete" \in Range(Contents(hal.rx)) => Settled \/ taken = num_setup_msgs
      /\ "complete" \in Range(chip.out) => mode = "standby"
  BY DEF SInv, Believable, RadioTruthful, Attempting
<1>5. CASE Settled
  BY <1>1, <1>5
<1>6. CASE taken = num_setup_msgs
  <2>1. Len(Contents(hal.tx)) = 0
    BY <1>3, <1>6 DEF Order
  <2>2. Contents(hal.tx) = << >>
    BY <1>3, <2>1
  <2>3. k.sent = << >>
    BY <1>2, <2>2 DEF NotMoved, Viewed
  <2> QED
    BY <1>6, <2>3
<1>7. CASE ~Settled /\ taken # num_setup_msgs
  <2>1. Contents(hal.tx) # << >>
    BY <1>7, MessageWaits
  <2>2. \/ rx = Contents(hal.rx)
        \/ chip.out # << >> /\ rx = Append(Contents(hal.rx), Head(chip.out))
    BY <1>2, <2>1 DEF NotMoved, Viewed
  <2>3. "complete" \notin Range(chip.out) /\ "complete" \notin Range(Contents(hal.rx))
    BY <1>4, <1>7 DEF Settled, SetUp
  <2>4. chip.out # << >> => Head(chip.out) \in Event /\ Head(chip.out) \in Range(chip.out)
    BY <1>3, RangeTail
  <2>5. \A e \in Event : Range(Append(Contents(hal.rx), e)) = Range(Contents(hal.rx)) \cup {e}
    BY <1>3, RangeAppend
  <2>6. "complete" \in Range(rx)
    OBVIOUS
  <2> HIDE DEF rx
  <2> QED
    BY <2>2, <2>3, <2>4, <2>5, <2>6
<1> QED
  BY <1>5, <1>6, <1>7

LEMMA AppendNotEmpty == \A s \in Seq(Event), e \in Event : Append(s, e) # << >>
OBVIOUS

\* An exchange takes one message out of the queue and makes the radio answer it.
LEMMA ExchangeSupplies ==
    ASSUME IInv, SInv, ACI_QUEUE_SIZE > 2, pc \in {"poll", "remove"},
           ~Settled, taken # num_setup_msgs,
           NEW v \in Views(hal, chip), NEW k, k = m_aci_event_check(hal, v), Exchanged(k)
    PROVE  \/ /\ Contents(k.hal.tx) = Contents(hal.tx) /\ chip'.out = chip.out
              /\ Contents(k.hal.rx) = Contents(hal.rx)
           \/ /\ Len(Contents(k.hal.tx)) = Len(Contents(hal.tx)) - 1 /\ chip'.out # << >>
              /\ chip.out # << >> => Contents(k.hal.rx) # << >>
<1>1. Contents(hal.tx) # << >>
  BY MessageWaits
<1>2. /\ Contents(hal.tx) \in Seq(Cmds) /\ Contents(hal.rx) \in Seq(Event)
      /\ chip.out \in Seq(Event) /\ mode = "setup" /\ k.chip.out \in Seq(Event)
      /\ k.chip \in Chips(Event)
  BY ViewsSound, HalCheck DEF IInv, HostOK, Chips, TypeOK, Settled, SetUp
<1>3. /\ k.sent = << >> => chip'.out = k.chip.out
      /\ k.sent # << >> => chip'.out # << >>
  BY <1>2, ExchangeTruthful DEF SInv
<1>5. NotMoved(hal, chip, k) \/ Viewed(hal, chip, k)
  BY ViewedCheck DEF IInv
<1>6. CASE NotMoved(hal, chip, k)
  <2>1. chip'.out = chip.out
    BY <1>3, <1>6 DEF NotMoved
  <2> QED
    BY <1>6, <2>1 DEF NotMoved
<1>7. CASE Viewed(hal, chip, k)
  <2>0. /\ k.sent = << Head(Contents(hal.tx)) >>
        /\ Contents(k.hal.tx) = Tail(Contents(hal.tx))
    BY <1>1, <1>7 DEF Viewed
  <2>1. k.sent # << >> /\ Contents(k.hal.tx) = Tail(Contents(hal.tx))
    BY <2>0
  <2>2. Len(Contents(k.hal.tx)) = Len(Contents(hal.tx)) - 1
    BY <1>1, <1>2, <2>1
  <2>3. chip'.out # << >>
    BY <1>3, <2>1
  <2>4. ASSUME chip.out # << >> PROVE Contents(k.hal.rx) # << >>
    <3>1. PICK e \in Event : Contents(k.hal.rx) = Append(Contents(hal.rx), e)
      BY <1>7, <2>4 DEF Viewed
    <3> QED
      BY <1>2, <3>1, AppendNotEmpty
  <2> QED
    BY <2>2, <2>3, <2>4
<1> QED
  BY <1>5, <1>6, <1>7

\* Events come in behind the one that was peeked at.
LEMMA ExchangeAppends ==
    ASSUME IInv, NEW v \in Views(hal, chip), NEW k, k = m_aci_event_check(hal, v),
           Contents(hal.rx) # << >>
    PROVE  /\ Contents(k.hal.rx) # << >> /\ Contents(k.hal.rx) \in Seq(Event)
           /\ Head(Contents(k.hal.rx)) = Head(Contents(hal.rx))
<1>1. Contents(hal.rx) \in Seq(Event)
  BY DEF IInv, HostOK
<1>2. \/ Contents(k.hal.rx) = Contents(hal.rx)
      \/ \E e \in Event : Contents(k.hal.rx) = Append(Contents(hal.rx), e)
  BY ViewedCheck DEF IInv, NotMoved, Viewed
<1> QED
  BY <1>1, <1>2
-----------------------------------------------------------------------------
(* The invariant is kept. *)

LEMMA MainLoopTruthful == IInv /\ SInv /\ MainLoop => SInv'
<1> SUFFICES ASSUME IInv, SInv, MainLoop PROVE SInv'
  OBVIOUS
<1>1. PICK v \in Views(hal, chip) : Exchanged(hal_aci_tl_event_get(hal, v).c)
  BY DEF MainLoop
<1>2. hal_aci_tl_event_get(hal, v).c = m_aci_event_check(hal, v)
  BY ViewsSound, GetTakes DEF IInv
<1>3. RadioTruthful'
  BY <1>1, <1>2, ExchangeTruthful DEF SInv
<1>4. pc' \in {"loop", "setup"}
  BY DEF MainLoop
<1> QED
  BY <1>3, <1>4 DEF SInv, Believable, Peeked, Supplied, Attempting

LEMMA BeginTruthful == IInv /\ SInv /\ Begin => SInv'
<1> SUFFICES ASSUME IInv, SInv, Begin PROVE SInv'
  OBVIOUS
<1>1. PICK v \in Views(hal, chip) :
        \E c \in {hal_aci_tl_event_peek(hal, v)} :
           /\ Exchanged(c)
           /\ hal' = Pack(c.hal)
           /\ pc' = IF aci_queue_is_empty(c.hal.rx) THEN "fill" ELSE "loop"
  BY DEF Begin
<1> DEFINE c == m_aci_event_check(hal, v)
<1>2. /\ Exchanged(c) /\ hal' = Pack(c.hal)
      /\ pc' = IF aci_queue_is_empty(c.hal.rx) THEN "fill" ELSE "loop"
  BY <1>1 DEF hal_aci_tl_event_peek
<1>3. HostOK(c.hal, Cmds, Event)
  BY ViewsSound, HalCheck DEF IInv
<1>4. RadioTruthful'
  BY <1>2, ExchangeTruthful DEF SInv
<1> HIDE DEF c
<1>5. pc' = "fill" => Contents(hal'.rx) = << >>
  <2>1. c.hal.rx \in Queues(Event)
    BY <1>3 DEF HostOK, Hosts
  <2>2. Contents(hal'.rx) = Contents(c.hal.rx)
    BY <1>2, <1>3, HalPack
  <2> QED
    BY <1>2, <2>1, <2>2, QueueTests
<1>6. pc' \in {"fill", "loop"} /\ taken' = 0
  BY <1>2 DEF Begin
<1>7. "complete" \notin Range(<< >>)
  BY DEF Range
<1> QED
  BY <1>4, <1>5, <1>6, <1>7 DEF SInv, Believable, Peeked, Supplied, Attempting

LEMMA FillTruthful == IInv /\ SInv /\ Fill => SInv'
<1> SUFFICES ASSUME IInv, SInv, Fill PROVE SInv'
  OBVIOUS
<1> DEFINE m == Message(setup_offset + 1)
           s == hal_aci_tl_send(hal, m)
<1>1. /\ hal' = Pack(s.hal)
      /\ pc' = IF s.ok THEN pc ELSE FillReturns(pc)
      /\ pc \in {"fill", "refill"} /\ setup_offset < num_setup_msgs
      /\ UNCHANGED << chip, mode, wanted, setup_required, cmd_status, taken >>
  BY DEF Fill
<1>2. m \in Cmds
  <2>1. setup_offset + 1 \in 1 .. num_setup_msgs
    BY <1>1, SetupAssumption DEF IInv, TypeOK
  <2> QED
    BY <2>1 DEF Cmds
<1>3. HostOK(s.hal, Cmds, Event) /\ SendEffect(hal, m, s) /\ hal.tx \in Queues(Cmds)
  <2>1. HostOK(hal, Cmds, Event) /\ hal.tx \in Queues(Cmds)
    BY DEF IInv, HostOK, Hosts
  <2> HIDE DEF m
  <2> QED
    BY <1>2, <2>1, HalSend
<1> HIDE DEF s, m
<1>4. /\ Contents(hal'.rx) = Contents(s.hal.rx) /\ Contents(hal'.tx) = Contents(s.hal.tx)
  BY <1>1, <1>3, HalPack
<1>5. Contents(hal'.rx) = Contents(hal.rx)
  BY <1>3, <1>4 DEF SendEffect
<1>6. Settled' = Settled
  BY <1>1, <1>5 DEF Settled
<1>7. RadioTruthful' /\ Believable'
  BY <1>1, <1>5, <1>6 DEF SInv, RadioTruthful, Believable, Attempting
<1>8. CASE s.ok = TRUE
  <2>1. pc' = pc
    BY <1>1, <1>8
  <2> QED
    BY <1>1, <1>5, <1>7, <2>1 DEF SInv, Peeked, Supplied
<1>9. CASE s.ok = FALSE
  <2>1. aci_queue_is_full(hal.tx) /\ Contents(hal'.tx) = Contents(hal.tx)
    BY <1>3, <1>4, <1>9 DEF SendEffect
  <2>2. Len(Contents(hal'.tx)) = Places
    BY <1>3, <2>1, QueueTests DEF Places
  <2>3. pc' \in {"poll", "remove"} /\ (pc' = "remove" => pc = "refill")
    BY <1>1, <1>9 DEF FillReturns
  <2> QED
    BY <1>1, <1>5, <1>7, <2>2, <2>3 DEF SInv, Peeked, Supplied
<1> QED
  BY <1>3, <1>8, <1>9 DEF SendEffect

LEMMA PollTruthful == ACI_QUEUE_SIZE > 2 /\ IInv /\ SInv /\ Poll => SInv'
<1> SUFFICES ASSUME ACI_QUEUE_SIZE > 2, IInv, SInv, Poll PROVE SInv'
  OBVIOUS
<1>1. PICK v \in Views(hal, chip) :
        \E c \in {hal_aci_tl_event_peek(hal, v)} :
           /\ Exchanged(c)
           /\ hal' = Pack(c.hal)
           /\ taken' = taken + Len(c.sent)
           /\ IF aci_queue_is_empty(c.hal.rx)
              THEN UNCHANGED << pc, cmd_status >>
              ELSE /\ pc' = Branch(aci_queue_peek(c.hal.rx))
                   /\ cmd_status' = aci_queue_peek(c.hal.rx)
  BY DEF Poll
<1> DEFINE c == m_aci_event_check(hal, v)
<1>2. /\ Exchanged(c) /\ hal' = Pack(c.hal) /\ taken' = taken + Len(c.sent)
      /\ IF aci_queue_is_empty(c.hal.rx)
         THEN UNCHANGED << pc, cmd_status >>
         ELSE /\ pc' = Branch(aci_queue_peek(c.hal.rx))
              /\ cmd_status' = aci_queue_peek(c.hal.rx)
  BY <1>1 DEF hal_aci_tl_event_peek
<1>3. HostOK(c.hal, Cmds, Event)
  BY ViewsSound, HalCheck DEF IInv
<1>4. pc = "poll" /\ setup_offset' = setup_offset
  BY DEF Poll
<1>5. RadioTruthful'
  BY <1>2, ExchangeTruthful DEF SInv
<1>6. /\ "complete" \in Range(Contents(c.hal.rx)) =>
           SetUp(mode', chip'.out, Contents(c.hal.rx))
           \/ taken' = num_setup_msgs
  <2> SUFFICES ASSUME "complete" \in Range(Contents(c.hal.rx))
               PROVE  \/ SetUp(mode', chip'.out, Contents(c.hal.rx))
                      \/ taken' = num_setup_msgs
    OBVIOUS
  <2>1. \/ SetUp(mode', chip'.out, Contents(c.hal.rx))
        \/ taken = num_setup_msgs /\ c.sent = << >>
    BY <1>2, <1>4, ExchangeBelievable
  <2>2. c.sent = << >> => Len(c.sent) = 0
    OBVIOUS
  <2> HIDE DEF c
  <2> QED
    BY <1>2, <2>1, <2>2, SetupAssumption
<1>7. Settled => SetUp(mode', chip'.out, Contents(c.hal.rx))
  BY <1>2, ExchangeSettled
<1>8. ~Settled /\ taken # num_setup_msgs =>
        \/ /\ Contents(c.hal.tx) = Contents(hal.tx) /\ chip'.out = chip.out
           /\ Contents(c.hal.rx) = Contents(hal.rx)
        \/ /\ Len(Contents(c.hal.tx)) = Len(Contents(hal.tx)) - 1 /\ chip'.out # << >>
           /\ chip.out # << >> => Contents(c.hal.rx) # << >>
  BY <1>2, <1>4, ExchangeSupplies
<1> HIDE DEF c
<1>9. /\ Contents(hal'.rx) = Contents(c.hal.rx) /\ Contents(hal'.tx) = Contents(c.hal.tx)
      /\ c.hal.rx \in Queues(Event) /\ Contents(c.hal.rx) \in Seq(Event)
  <2>1. c.hal.rx \in Queues(Event) /\ Contents(c.hal.rx) \in Seq(Event)
    BY <1>3 DEF HostOK, Hosts
  <2>2. Contents(hal'.rx) = Contents(c.hal.rx) /\ Contents(hal'.tx) = Contents(c.hal.tx)
    BY <1>2, <1>3, HalPack
  <2> QED
    BY <2>1, <2>2
<1>10. Believable'
  BY <1>6, <1>9 DEF Believable, Settled
<1>11. pc' # "loop" /\ setup_offset < num_setup_msgs =>
         taken # num_setup_msgs /\ taken' # num_setup_msgs
  <2>1. IInv'
    BY PollInv
  <2>2. pc' # "loop" => Attempting'
    BY <1>2, <1>4 DEF Attempting, Branch
  <2>3. /\ Order(Contents(hal.tx), taken, setup_offset) /\ Contents(hal.tx) \in Seq(Cmds)
        /\ taken \in Nat /\ setup_offset \in Nat
    BY <1>4, SetupAssumption DEF IInv, Attempting, HostOK, TypeOK
  <2>4. /\ Attempting' => Order(Contents(hal'.tx), taken', setup_offset')
        /\ Contents(hal'.tx) \in Seq(Cmds) /\ taken' \in Nat /\ setup_offset' \in Nat
    BY <2>1, SetupAssumption DEF IInv, HostOK, TypeOK
  <2> QED
    BY <1>4, <2>2, <2>3, <2>4, LastIsSent
<1>12. CASE aci_queue_is_empty(c.hal.rx)
  <2>1. pc' = "poll" /\ Contents(c.hal.rx) = << >>
    BY <1>2, <1>4, <1>9, <1>12, QueueTests
  <2>2. ASSUME setup_offset < num_setup_msgs, ~Settled'
        PROVE  \/ Len(Contents(hal'.tx)) = Places
               \/ Len(Contents(hal'.tx)) = Places - 1 /\ chip'.out # << >>
    <3>1. ~Settled
      BY <1>7, <1>9, <2>2 DEF Settled
    <3> QED
      BY <1>4, <1>8, <1>9, <1>11, <2>1, <2>2, <3>1 DEF SInv, Supplied
  <2> QED
    BY <1>4, <1>5, <1>10, <2>1, <2>2 DEF SInv, Peeked, Supplied
<1>13. CASE ~aci_queue_is_empty(c.hal.rx)
  <2>1. /\ Contents(c.hal.rx) # << >>
        /\ cmd_status' = Head(Contents(c.hal.rx)) /\ pc' = Branch(cmd_status')
    BY <1>2, <1>9, <1>13, DequeueTakesHead
  <2>2. CASE cmd_status' = "complete"
    <3>1. pc' = "remove" /\ "complete" \in Range(Contents(c.hal.rx))
      BY <1>9, <2>1, <2>2, RangeTail DEF Branch
    <3>2. setup_offset < num_setup_msgs => Settled'
      BY <1>6, <1>9, <1>11, <3>1 DEF Settled
    <3> QED
      BY <1>4, <1>5, <1>9, <1>10, <2>1, <2>2, <3>1, <3>2 DEF SInv, Peeked, Supplied
  <2>3. CASE cmd_status' = "continue"
    <3>1. pc' = "refill"
      BY <2>1, <2>3 DEF Branch
    <3> QED
      BY <1>5, <1>9, <1>10, <2>1, <2>3, <3>1 DEF SInv, Peeked, Supplied
  <2>4. CASE cmd_status' \notin {"complete", "continue"}
    <3>1. pc' = "loop"
      BY <2>1, <2>4 DEF Branch
    <3> QED
      BY <1>5, <1>10, <3>1 DEF SInv, Peeked, Supplied
  <2> QED
    BY <2>2, <2>3, <2>4
<1> QED
  BY <1>12, <1>13

LEMMA RemoveTruthful ==
    ACI_QUEUE_SIZE > 2 /\ IInv /\ SInv /\ Remove =>
      SInv' /\ (cmd_status = "complete" => Settled' \/ taken' = num_setup_msgs)
<1> SUFFICES ASSUME ACI_QUEUE_SIZE > 2, IInv, SInv, Remove
             PROVE  /\ SInv'
                    /\ cmd_status = "complete" => Settled' \/ taken' = num_setup_msgs
  OBVIOUS
<1>1. PICK v \in Views(hal, chip) :
        \E r \in {hal_aci_tl_event_get(hal, v)} :
           /\ Exchanged(r.c)
           /\ hal' = Pack(r.hal)
           /\ taken' = taken + Len(r.c.sent)
  BY DEF Remove
<1> DEFINE r == hal_aci_tl_event_get(hal, v)
           k == m_aci_event_check(hal, v)
<1>2. Exchanged(r.c) /\ hal' = Pack(r.hal) /\ taken' = taken + Len(r.c.sent)
  BY <1>1
<1>3. /\ HostOK(r.hal, Cmds, Event) /\ r.c = k
      /\ Contents(r.hal.tx) = Contents(k.hal.tx)
      /\ Contents(k.hal.rx) # << >> => Contents(r.hal.rx) = Tail(Contents(k.hal.rx))
  <2>1. v \in Chips(Event) /\ HostOK(hal, Cmds, Event)
    BY ViewsSound DEF IInv
  <2>2. HostOK(r.hal, Cmds, Event)
    BY <2>1, HalGet
  <2>3. /\ r.c = k /\ Contents(r.hal.tx) = Contents(r.c.hal.tx)
        /\ Contents(r.c.hal.rx) # << >> => Contents(r.hal.rx) = Tail(Contents(r.c.hal.rx))
    BY <2>1, GetTakes
  <2> HIDE DEF r, k
  <2> QED
    BY <2>2, <2>3
<1> HIDE DEF r
<1>4. /\ pc = "remove" /\ setup_offset' = setup_offset /\ cmd_status' = cmd_status
      /\ pc' = IF cmd_status = "complete" THEN "loop" ELSE "poll"
  BY DEF Remove
<1>5. /\ Contents(hal.rx) # << >> /\ cmd_status = Head(Contents(hal.rx))
      /\ cmd_status \in {"continue", "complete"}
  BY <1>4 DEF SInv, Peeked
<1>6. Exchanged(k) /\ taken' = taken + Len(k.sent)
  BY <1>2, <1>3
<1>7. RadioTruthful'
  BY <1>6, ExchangeTruthful DEF SInv
<1>8. "complete" \in Range(Contents(k.hal.rx)) =>
        SetUp(mode', chip'.out, Contents(k.hal.rx)) \/ taken' = num_setup_msgs
  <2> SUFFICES ASSUME "complete" \in Range(Contents(k.hal.rx))
               PROVE  \/ SetUp(mode', chip'.out, Contents(k.hal.rx))
                      \/ taken' = num_setup_msgs
    OBVIOUS
  <2>1. \/ SetUp(mode', chip'.out, Contents(k.hal.rx))
        \/ taken = num_setup_msgs /\ k.sent = << >>
    BY <1>4, <1>6, ExchangeBelievable
  <2>2. k.sent = << >> => Len(k.sent) = 0
    OBVIOUS
  <2> HIDE DEF k
  <2> QED
    BY <1>6, <2>1, <2>2, SetupAssumption
<1>9. Settled => SetUp(mode', chip'.out, Contents(k.hal.rx))
  BY <1>6, ExchangeSettled
<1>10. ~Settled /\ taken # num_setup_msgs =>
        \/ Contents(k.hal.tx) = Contents(hal.tx)
        \/ Len(Contents(k.hal.tx)) = Len(Contents(hal.tx)) - 1 /\ chip'.out # << >>
  BY <1>4, <1>6, ExchangeSupplies
<1>11. /\ Contents(k.hal.rx) # << >> /\ Contents(k.hal.rx) \in Seq(Event)
       /\ Head(Contents(k.hal.rx)) = cmd_status
  BY <1>5, ExchangeAppends
<1> HIDE DEF k
<1>12. /\ Contents(hal'.rx) = Tail(Contents(k.hal.rx))
       /\ Contents(hal'.tx) = Contents(k.hal.tx)
  <2>1. Contents(hal'.rx) = Contents(r.hal.rx) /\ Contents(hal'.tx) = Contents(r.hal.tx)
    BY <1>2, <1>3, HalPack
  <2> QED
    BY <1>3, <1>11, <2>1
<1>13. Range(Contents(k.hal.rx)) = {cmd_status} \cup Range(Contents(hal'.rx))
  BY <1>11, <1>12, RangeTail
<1>14. SetUp(mode', chip'.out, Contents(k.hal.rx)) => Settled'
  BY <1>5, <1>13 DEF SetUp, Settled
<1>15. Believable' /\ (cmd_status = "complete" => Settled' \/ taken' = num_setup_msgs)
  BY <1>8, <1>13, <1>14 DEF Believable
<1>16. Supplied'
  <2>1. setup_offset < num_setup_msgs => taken # num_setup_msgs
    <3>1. /\ Order(Contents(hal.tx), taken, setup_offset) /\ Contents(hal.tx) \in Seq(Cmds)
          /\ taken \in Nat /\ setup_offset \in Nat
      BY <1>4, SetupAssumption DEF IInv, Attempting, HostOK, TypeOK
    <3> QED
      BY <3>1, LastIsSent
  <2> QED
    BY <1>4, <1>9, <1>10, <1>12, <1>14, <2>1 DEF SInv, Supplied
<1>17. Peeked'
  BY <1>4 DEF Peeked
<1> QED
  BY <1>7, <1>15, <1>16, <1>17 DEF SInv

LEMMA TruthfulStep == ACI_QUEUE_SIZE > 2 /\ IInv /\ SInv /\ [Next]_vars => SInv'
<1> SUFFICES ASSUME ACI_QUEUE_SIZE > 2, IInv, SInv, [Next]_vars PROVE SInv'
  OBVIOUS
<1>1. ASSUME Wait \/ Filled \/ TimeUp PROVE SInv'
  <2>1. /\ UNCHANGED << hal, chip, mode, wanted, setup_offset, cmd_status, taken >>
        /\ \/ pc' = "loop"
           \/ pc = "fill" /\ pc' = "poll" /\ setup_offset = num_setup_msgs
           \/ pc = "refill" /\ pc' = "remove" /\ setup_offset = num_setup_msgs
    BY <1>1 DEF Wait, Filled, FillReturns, TimeUp
  <2>2. Settled' = Settled /\ (Attempting' => Attempting)
    BY <2>1 DEF Settled, Attempting
  <2>3. RadioTruthful' /\ Believable'
    BY <2>1, <2>2 DEF SInv, RadioTruthful, Believable
  <2>4. Peeked' /\ Supplied'
    BY <2>1, SetupAssumption DEF SInv, Peeked, Supplied
  <2> QED
    BY <2>3, <2>4 DEF SInv
<1>2. CASE RadioReady
  <2>1. /\ UNCHANGED << hal, mode, wanted, pc, setup_offset, cmd_status, taken >>
        /\ chip'.out = chip.out
    BY <1>2 DEF RadioReady, IInv, Chips
  <2>2. Settled' = Settled
    BY <2>1 DEF Settled
  <2> QED
    BY <2>1, <2>2 DEF SInv, RadioTruthful, Believable, Peeked, Supplied, Attempting
<1>3. CASE RadioRestarts
  <2>1. /\ UNCHANGED << hal, pc, setup_offset, cmd_status, taken >>
        /\ chip'.out = << "started_setup" >>
    BY <1>3 DEF RadioRestarts
  <2>2. Range(<< "started_setup" >>) = {"started_setup"}
    BY DEF Range
  <2>3. Settled' /\ RadioTruthful'
    BY <2>1, <2>2 DEF Settled, SetUp, RadioTruthful
  <2> QED
    BY <2>1, <2>3 DEF SInv, Believable, Peeked, Supplied
<1>4. CASE HardwareError
  <2>1. /\ UNCHANGED << hal, mode, wanted, pc, setup_offset, cmd_status, taken >>
        /\ chip'.out = Append(chip.out, "hw_error") /\ chip.out \in Seq(Event)
    BY <1>4 DEF HardwareError, IInv, Chips
  <2>2. Range(chip'.out) = Range(chip.out) \cup {"hw_error"} /\ chip'.out # << >>
    <3>1. "hw_error" \in Event
      BY DEF Event
    <3> QED
      BY <2>1, <3>1, RangeAppend
  <2>3. Settled' = Settled /\ RadioTruthful'
    BY <2>1, <2>2 DEF Settled, SetUp, RadioTruthful, SInv
  <2> QED
    BY <2>1, <2>2, <2>3 DEF SInv, Believable, Peeked, Supplied, Attempting
<1>5. CASE UNCHANGED vars
  BY <1>5 DEF SInv, RadioTruthful, Believable, Peeked, Supplied, Attempting, Settled, vars
<1> QED
  BY <1>1, <1>2, <1>3, <1>4, <1>5, MainLoopTruthful, BeginTruthful, FillTruthful,
     PollTruthful, RemoveTruthful
     DEF Next, Attempt, Trouble

\* Only the removal of the event that ends a set-up clears setup_required.
LEMMA SuccessIsRemoval ==
    ACI_QUEUE_SIZE > 2 /\ IInv /\ SInv /\ [Next]_vars =>
      (setup_required /\ ~setup_required' =>
         taken' = num_setup_msgs \/ mode' = "standby" \/ RestartPending')
<1> SUFFICES ASSUME ACI_QUEUE_SIZE > 2, IInv, SInv, [Next]_vars,
                    setup_required, ~setup_required'
             PROVE  taken' = num_setup_msgs \/ mode' = "standby" \/ RestartPending'
  OBVIOUS
<1>1. ~MainLoop
  BY DEF MainLoop
<1>2. Remove
  BY <1>1 DEF Next, Attempt, Trouble, Wait, Begin, Fill, Filled, Poll, TimeUp,
     RadioReady, RadioRestarts, HardwareError, vars
<1>3. cmd_status = "complete"
  BY <1>2 DEF Remove
<1>4. Settled' \/ taken' = num_setup_msgs
  BY <1>2, <1>3, RemoveTruthful
<1> QED
  BY <1>4 DEF Settled, SetUp, RestartPending

LEMMA InitTruthful == Init => SInv
<1> SUFFICES ASSUME Init PROVE SInv
  OBVIOUS
<1>1. pc = "loop" /\ chip.out = << "started_setup" >>
  BY DEF Init
<1>2. Range(<< "started_setup" >>) = {"started_setup"}
  BY DEF Range
<1> QED
  BY <1>1, <1>2 DEF SInv, RadioTruthful, Believable, Peeked, Supplied, Attempting

\* do_aci_setup (aci_setup.cpp) never reports success with messages left to send, except
\* for a radio that is set up or about to say that it has restarted, whatever it makes of
\* statuses it cannot read, if the command queue takes at least two messages.
THEOREM SuccessAfterTheLast ==
    ASSUME ACI_QUEUE_SIZE > 2 PROVE Spec => SuccessMeansSent
<1>1. Init => IInv /\ SInv
  BY InitInv, InitTruthful
<1>2. IInv /\ SInv /\ [Next]_vars => (IInv /\ SInv)'
  BY StepInv, TruthfulStep
<1>3. IInv /\ SInv /\ [Next]_vars =>
        [setup_required /\ ~setup_required' =>
           taken' = num_setup_msgs \/ mode' = "standby" \/ RestartPending']_vars
  BY SuccessIsRemoval
<1> QED
  BY <1>1, <1>2, <1>3, PTL DEF Spec, SuccessMeansSent
=============================================================================
