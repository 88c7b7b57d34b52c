---------------------------- MODULE AciTransport ----------------------------
(***************************************************************************)
(* The nRF8001 transport layer at work: an application that sends          *)
(* commands, peeks at and gets events and flushes, against a radio that    *)
(* raises events and answers REQN at its own pace.  hal and chip are the   *)
(* two halves of AciHal; the other variables record what has happened.     *)
(***************************************************************************)
EXTENDS AciHal

CONSTANTS Cmd, Evt,
          MaxCmd,   \* bound: commands taken in a behaviour
          MaxEvt    \* bound: events the radio has clocked out or holds

ASSUME PacketAssumption == NoPacket \notin Cmd \cup Evt

VARIABLES hal, chip,
          accepted,   \* commands hal_aci_tl_send took and no flush dropped
          delivered,  \* commands the radio received
          fetched,    \* events received and not dropped by a flush
          got         \* events handed to the application

vars == << hal, chip, accepted, delivered, fetched, got >>

Init ==
    /\ hal = hal_aci_tl_init
    /\ chip = [rdyn |-> HIGH, out |-> << >>]
    /\ accepted = << >> /\ delivered = << >>
    /\ fetched = << >> /\ got = << >>

-----------------------------------------------------------------------------
(* The application.  A program in the endless loop of m_aci_event_check    *)
(* does nothing any more.                                                  *)

Send(c) ==
    /\ ~hal.spin
    /\ Len(accepted) < MaxCmd
    /\ hal' = hal_aci_tl_send(hal, c).hal
    /\ accepted' = IF hal_aci_tl_send(hal, c).ok THEN Append(accepted, c) ELSE accepted
    /\ UNCHANGED << chip, delivered, fetched, got >>

EventPeek ==
    LET c == hal_aci_tl_event_peek(hal, chip)
    IN /\ ~hal.spin
       /\ hal' = c.hal
       /\ chip' = c.chip
       /\ delivered' = delivered \o c.sent
       /\ fetched' = fetched \o c.rcvd
       /\ UNCHANGED << accepted, got >>

EventGet ==
    /\ ~hal.spin
    /\ \E r \in {hal_aci_tl_event_get(hal, chip)} :
       /\ hal' = r.hal
       /\ chip' = r.c.chip
       /\ delivered' = delivered \o r.c.sent
       /\ fetched' = fetched \o r.c.rcvd
       /\ got' = got \o r.evt
       /\ UNCHANGED accepted

\* Both queues are dropped; what was waiting in them will not arrive.
Flush ==
    /\ ~hal.spin
    /\ hal' = hal_aci_tl_q_flush(hal)
    /\ accepted' = delivered
    /\ fetched' = got
    /\ UNCHANGED << chip, delivered, got >>

ResetRadio ==
    /\ ~hal.spin
    /\ chip' = PinReset(chip)
    /\ UNCHANGED << hal, accepted, delivered, fetched, got >>

-----------------------------------------------------------------------------
(* The radio, as the driver uses it: it lowers RDYN when REQN asks for a   *)
(* transfer or when it has an event to give.                               *)

RadioReady ==
    /\ chip.rdyn = HIGH
    /\ hal.reqn = LOW \/ chip.out # << >>
    /\ chip' = [chip EXCEPT !.rdyn = LOW]
    /\ UNCHANGED << hal, accepted, delivered, fetched, got >>

RadioEvent(e) ==
    /\ Len(fetched) + Len(chip.out) < MaxEvt
    /\ chip' = [chip EXCEPT !.out = Append(@, e)]
    /\ UNCHANGED << hal, accepted, delivered, fetched, got >>

Next ==
    \/ \E c \in Cmd : Send(c)
    \/ EventPeek
    \/ EventGet
    \/ Flush
    \/ ResetRadio
    \/ RadioReady
    \/ \E e \in Evt : RadioEvent(e)

Spec == Init /\ [][Next]_vars

\* The main loop of the example programs calls lib_aci_event_get for ever,
\* a working radio answers a lowered REQN, and nobody resets it endlessly.
FairSpec ==
    /\ Spec
    /\ WF_vars(EventGet) /\ WF_vars(RadioReady)
    /\ <>[][~ResetRadio]_vars

-----------------------------------------------------------------------------
(* Properties. *)

\* Every slot between a head and a tail holds a packet of the queue's kind.
HalOK(h) ==
    /\ h \in [tx : Queues(Cmd), rx : Queues(Evt), reqn : {HIGH, LOW}, spin : BOOLEAN]
    /\ Contents(h.tx) \in Seq(Cmd)
    /\ Contents(h.rx) \in Seq(Evt)

TypeOK ==
    /\ HalOK(hal)
    /\ chip \in [rdyn : {HIGH, LOW}, out : Seq(Evt)]
    /\ accepted \in Seq(Cmd) /\ delivered \in Seq(Cmd)
    /\ fetched \in Seq(Evt) /\ got \in Seq(Evt)

\* The comment at hal_aci_tl.cpp:156 says of a full event queue after a
\* transfer "Should never happen": the test made before the transfer is
\* enough, whatever the peeks, gets and commands in between.
NeverSpins == ~hal.spin

\* What the circular queues hold is what was taken and not yet passed on:
\* no command and no event is lost, repeated or reordered, however often
\* the indexes wrap around.
InOrder ==
    /\ accepted = delivered \o Contents(hal.tx)
    /\ fetched = got \o Contents(hal.rx)

\* As long as a reply could be stored, a waiting command keeps REQN low:
\* none of the places that lower or raise the line forgets a command.
Requested(h) ==
    ~aci_queue_is_empty(h.tx) /\ ~aci_queue_is_full(h.rx) => h.reqn = LOW

RequestStands == Requested(hal)

\* The four invariants above hold together: each step keeps all of them.
IInv == TypeOK /\ NeverSpins /\ InOrder /\ RequestStands

\* The promise of AciChannel, with the circular queues read as sequences.
Channel == INSTANCE AciChannel WITH
    Capacity <- ACI_QUEUE_SIZE - 1,
    cmds <- Contents(hal.tx), evts <- Contents(hal.rx)

ImplementsChannel == Channel!Spec

\* A command that was taken is given to the radio unless it is flushed, and
\* an event the radio clocked out is handed to the application.
CommandsArrive ==
    \A n \in 1 .. MaxCmd :
        (Len(accepted) >= n) ~> (Len(delivered) >= n \/ Len(accepted) < n)
EventsArrive ==
    \A n \in 1 .. MaxEvt :
        (Len(fetched) >= n) ~> (Len(got) >= n \/ Len(fetched) < n)
=============================================================================
