------------------------------- MODULE AciHal -------------------------------
(***************************************************************************)
(* The transport layer of the nRF8001 driver (src/nrf8001/hal_aci_tl.cpp), *)
(* as functions of its state.  hal is the host's half: the command queue   *)
(* tx, the event queue rx, the level of the REQN output and whether the    *)
(* program has run into the endless loop of m_aci_event_check.  chip is    *)
(* what the host can observe of the radio: the level of RDYN and the       *)
(* events it has not clocked out yet.  init_local_interfaces sets          *)
(* interface_is_interrupt to false, so every transfer is made by a poll.   *)
(***************************************************************************)
EXTENDS AciQueue

HIGH == "high"
LOW  == "low"

\* After hal_aci_tl_init: empty queues, the radio reset, REQN driven low.
hal_aci_tl_init ==
    [tx |-> aci_queue_init, rx |-> aci_queue_init, reqn |-> LOW, spin |-> FALSE]

\* A slip: only the event queue is emptied.
Mut_flush_events_only(hal) == [hal EXCEPT !.rx = aci_queue_init]

hal_aci_tl_q_flush(hal) ==
    [tx |-> aci_queue_init, rx |-> aci_queue_init,
     reqn |-> hal.reqn, spin |-> hal.spin]

\* hal_aci_tl_pin_reset restarts the radio; the host's queues stay.
PinReset(chip) == [rdyn |-> HIGH, out |-> << >>]

hal_aci_tl_send(hal, cmd) ==
    IF aci_queue_is_full(hal.tx)
    THEN [ok |-> FALSE, hal |-> hal]
    ELSE [ok  |-> TRUE,
          hal |-> [tx   |-> aci_queue_enqueue(hal.tx, cmd),
                   rx   |-> hal.rx,
                   reqn |-> IF aci_queue_is_full(hal.rx) THEN hal.reqn ELSE LOW,
                   spin |-> hal.spin]]

-----------------------------------------------------------------------------
(***************************************************************************)
(* m_aci_spi_transfer: one full-duplex exchange.  The head of tx (or an    *)
(* empty command) goes out while the radio's oldest event (or nothing)     *)
(* comes in; REQN ends high and RDYN follows it.  The result tells the     *)
(* command the radio received and the event the host stored, each as a     *)
(* sequence of at most one element.                                        *)
(***************************************************************************)
RequestAgain(tx, rx) ==
    IF ~aci_queue_is_full(rx) /\ ~aci_queue_is_empty(tx) THEN LOW ELSE HIGH

Transfer(hal, chip) ==
    LET sent  == IF aci_queue_is_empty(hal.tx) THEN << >>
                 ELSE << aci_queue_peek(hal.tx) >>
        tx    == IF aci_queue_is_empty(hal.tx) THEN hal.tx
                 ELSE aci_queue_dequeue(hal.tx)
        some  == chip.out # << >>
        room  == ~aci_queue_is_full(hal.rx)
    IN [hal  |-> [tx   |-> tx,
                  rx   |-> IF some /\ room
                           THEN aci_queue_enqueue(hal.rx, Head(chip.out))
                           ELSE hal.rx,
                  reqn |-> RequestAgain(tx, hal.rx),
                  spin |-> some /\ ~room],
        chip |-> [rdyn |-> HIGH, out |-> IF some THEN Tail(chip.out) ELSE << >>],
        sent |-> sent,
        rcvd |-> IF some THEN << Head(chip.out) >> ELSE << >>]

NoTransfer(hal, chip) ==
    [hal |-> hal, chip |-> chip, sent |-> << >>, rcvd |-> << >>]

\* A slip: the transfer is made although its event cannot be stored.
Mut_check_no_room_test(hal, chip) ==
    IF chip.rdyn = HIGH THEN NoTransfer(hal, chip) ELSE Transfer(hal, chip)

m_aci_event_check(hal, chip) ==
    IF aci_queue_is_full(hal.rx) THEN NoTransfer(hal, chip)
    ELSE IF chip.rdyn = HIGH
         THEN NoTransfer([tx   |-> hal.tx,
                          rx   |-> hal.rx,
                          reqn |-> IF aci_queue_is_empty(hal.tx)
                                   THEN hal.reqn ELSE LOW,
                          spin |-> hal.spin], chip)
         ELSE Transfer(hal, chip)

hal_aci_tl_event_peek(hal, chip) == m_aci_event_check(hal, chip)

\* A slip: an event is taken without asking for the commands still waiting.
Mut_take_no_request(hal) == [hal EXCEPT !.rx = aci_queue_dequeue(@)]

\* The second half of hal_aci_tl_event_get, once rx is known not to be empty.
TakeEvent(hal) ==
    LET rx == aci_queue_dequeue(hal.rx)
    IN [tx   |-> hal.tx,
        rx   |-> rx,
        reqn |-> IF ~aci_queue_is_full(rx) /\ ~aci_queue_is_empty(hal.tx)
                 THEN LOW ELSE hal.reqn,
        spin |-> hal.spin]

\* The state after the poll and the dequeue, and the event the caller gets.
hal_aci_tl_event_get(hal, chip) ==
    LET c == m_aci_event_check(hal, chip)
    IN IF aci_queue_is_empty(c.hal.rx)
       THEN [c |-> c, hal |-> c.hal, evt |-> << >>]
       ELSE [c |-> c, hal |-> TakeEvent(c.hal),
             evt |-> << aci_queue_peek(c.hal.rx) >>]
-----------------------------------------------------------------------------
\* Where in the rings the packets lie, and what the slots that were read still
\* hold, is forgotten: AciTransport shows that only the contents matter.
Packed(q) ==
    [aci_data |-> [i \in Index |-> IF i < Count(q) THEN Contents(q)[i + 1] ELSE NoPacket],
     head |-> 0, tail |-> Count(q)]

Pack(h) == [tx |-> Packed(h.tx), rx |-> Packed(h.rx), reqn |-> h.reqn, spin |-> h.spin]
=============================================================================
