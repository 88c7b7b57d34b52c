------------------------------- MODULE AciLink -------------------------------
(***************************************************************************)
(* The library layer of the nRF8001 driver (src/nrf8001/lib_aci.cpp) under *)
(* the main loop of examples/c++/nrf8001-helloworld.cxx: what the host     *)
(* believes of the link while commands and events cross each other in the  *)
(* two queues of AciHal.  One pipe stands for the bitmaps.  The number of  *)
(* credits is left out: whether one is left is decided anew at every use,  *)
(* because AciSpi shows that the byte that would tell is not read.         *)
(***************************************************************************)
EXTENDS AciHal, Functions

CONSTANT MaxOut   \* bound: events the radio holds back

VARIABLES hal, chip,      \* as in AciHal
          link,           \* the radio: "standby", "advertising", "connected"
          pipes_open,     \* aci_stat->pipes_open_bitmap, for the UART pipe
          timing_change_done,
          believed,       \* ghost: the last link event handled: "up" or "down"
          refused         \* ghost: a command whose result is ignored was refused

vars == << hal, chip, link, pipes_open, timing_change_done, believed, refused >>

\* The radio has been reset by hal_aci_tl_init and announces itself, set up and
\* without a hardware error.
Init ==
    /\ hal = hal_aci_tl_init
    /\ chip = [rdyn |-> HIGH, out |-> << "started" >>]
    /\ link = "standby"
    /\ pipes_open = FALSE
    /\ timing_change_done = FALSE
    /\ believed = "down"
    /\ refused = FALSE

-----------------------------------------------------------------------------
(* The library. *)

lib_aci_is_pipe_available == pipes_open

\* A slip: the bitmaps survive the end of a connection.
Mut_keep_pipes(e, open) ==
    IF e = "pipes_open" THEN TRUE ELSE IF e = "pipes_closed" THEN FALSE ELSE open

\* lib_aci_event_get: what an event does to the bitmaps.
lib_aci_event_get(e, open) ==
    CASE e = "pipes_open" -> TRUE
      [] e \in {"pipes_closed", "disconnected"} -> FALSE
      [] OTHER -> open

\* At most two commands sent one after the other; ok: all were taken.
Posts(h, cmds) ==
    IF cmds = << >> THEN [hal |-> h, ok |-> TRUE]
    ELSE LET s == hal_aci_tl_send(h, cmds[1])
             t == hal_aci_tl_send(s.hal, cmds[2])
         IN IF Len(cmds) = 1 THEN s ELSE [hal |-> t.hal, ok |-> s.ok /\ t.ok]

-----------------------------------------------------------------------------
(* The application's main loop. *)

\* A slip: the data goes first, and the result of the second is ignored.
Mut_handler_data_first(e, open, done) ==
    CASE e \in {"started", "disconnected", "hw_error"} -> {<< "connect" >>}
      [] e \in {"connected", "timing"} -> {<< "other" >>}
      [] e = "control" /\ open -> {<< "disconnect" >>}
      [] e \in {"pipes_open", "pipes_closed"} /\ open /\ ~done -> {<< "data", "other" >>}
      [] OTHER -> {<< >>}

\* A slip: advertising starts once, when the radio starts.
Mut_handler_connects_once(e, open, done) ==
    CASE e = "started" -> {<< "connect" >>}
      [] e = "connected" -> {<< "other" >>}
      [] e = "control" /\ open -> {<< "disconnect" >>}
      [] OTHER -> {<< >>}

\* The commands the handler of an event may send without looking at the
\* result.  Which command a response names is left open: the one to
\* lib_aci_device_version makes the handler store the answer.
Handler(e, open, done) ==
    CASE e \in {"started", "disconnected", "hw_error"} -> {<< "connect" >>}
      [] e \in {"connected", "timing"} -> {<< "other" >>}
      [] e = "response" -> {<< >>, << "other" >>}
      [] e = "control" /\ open -> {<< "disconnect" >>}
      [] e = "retime" /\ open -> {<< "other" >>}
      [] e \in {"pipes_open", "pipes_closed"} /\ open /\ ~done -> {<< "other" >>}
      [] OTHER -> {<< >>}

\* After that, the handler of a pipe status says hello, if a credit is left.
Hello(h, e, open, done) ==
    IF e \in {"pipes_open", "pipes_closed"} /\ open /\ ~done
    THEN {h, hal_aci_tl_send(h, "data").hal} ELSE {h}

\* What the radio makes of a command it has received.
RadioTakes(cmds, l) ==
    CASE cmds = << "connect" >> /\ l = "standby" -> [link |-> "advertising", evts |-> << >>]
      [] cmds = << "disconnect" >> /\ l = "connected" ->
           [link |-> "standby", evts |-> << "disconnected" >>]
      [] cmds = << "data" >> /\ l = "connected" -> [link |-> l, evts |-> << >>]
      [] cmds = << "data" >> /\ l # "connected" -> [link |-> l, evts |-> << "pipe_error" >>]
      [] cmds = << >> -> [link |-> l, evts |-> << >>]
      [] OTHER -> [link |-> l, evts |-> << "response" >>]

\* The handler at work: the host h after the dequeue, the event e, and the
\* bitmap as lib_aci_event_get leaves it.
Handle(h, e, open) ==
    \E p \in {Posts(h, cmds) : cmds \in Handler(e, open, timing_change_done)} :
      /\ pipes_open' = (open /\ (e = "control" => ~p.ok))
      /\ hal' \in Hello(p.hal, e, open, timing_change_done)
      /\ refused' = (refused \/ ~p.ok)
      /\ timing_change_done' =
           CASE e = "connected" -> FALSE
             [] e \in {"pipes_open", "pipes_closed"} /\ open -> TRUE
             [] OTHER -> timing_change_done
      /\ believed' = CASE e = "connected" -> "up"
                       [] e = "disconnected" -> "down"
                       [] OTHER -> believed

\* One turn of the loop: lib_aci_event_get and the handler of the event.
MainLoop ==
    \E r \in {hal_aci_tl_event_get(hal, chip)} : \E t \in {RadioTakes(r.c.sent, link)} :
      /\ link' = t.link
      /\ chip' = [r.c.chip EXCEPT !.out = @ \o t.evts]
      /\ \/ /\ r.evt = << >>
            /\ hal' = Pack(r.hal)
            /\ UNCHANGED << pipes_open, timing_change_done, believed, refused >>
         \/ \E e \in Range(r.evt) : Handle(Pack(r.hal), e, lib_aci_event_get(e, pipes_open))

\* uart_tx: data when the pipe is available and a credit is left.
uart_tx ==
    /\ lib_aci_is_pipe_available
    /\ hal' = hal_aci_tl_send(hal, "data").hal
    /\ UNCHANGED << chip, link, pipes_open, timing_change_done, believed, refused >>

-----------------------------------------------------------------------------
(* The radio and its peer, as the driver uses them. *)

Raise(e) ==
    /\ Len(chip.out) < MaxOut
    /\ chip' = [chip EXCEPT !.out = Append(@, e)]
    /\ UNCHANGED << hal, pipes_open, timing_change_done, believed, refused >>

RadioReady ==
    /\ chip.rdyn = HIGH
    /\ hal.reqn = LOW \/ chip.out # << >>
    /\ chip' = [chip EXCEPT !.rdyn = LOW]
    /\ UNCHANGED << hal, link, pipes_open, timing_change_done, believed, refused >>

PeerConnects    == link = "advertising" /\ link' = "connected" /\ Raise("connected")
PeerDisconnects == link = "connected" /\ link' = "standby" /\ Raise("disconnected")

\* In a connection pipes open and close, the timing changes, and the peer sends
\* text or asks for a disconnect or for another timing at the control point.
PeerTalks ==
    /\ link = "connected" /\ link' = link
    /\ \E e \in {"pipes_open", "pipes_closed", "timing", "text", "control", "retime"} : Raise(e)

HardwareError == link' = link /\ Raise("hw_error")

Next ==
    \/ MainLoop \/ uart_tx \/ RadioReady
    \/ PeerConnects \/ PeerDisconnects \/ PeerTalks \/ HardwareError

Spec == Init /\ [][Next]_vars

\* The loop never ends and a working radio answers a lowered REQN; what the
\* peer does, and hardware errors, may or may not happen.
FairSpec == Spec /\ WF_vars(MainLoop) /\ WF_vars(RadioReady)

-----------------------------------------------------------------------------
(* Properties. *)

\* The handlers ignore whether their commands were taken.  That is sound: an
\* event only comes with a transfer that made room for one command first,
\* and no handler sends two, but for the greeting after a pipe status.
NoneRefused == ~refused

\* Once the host has handled the end of a connection, no event that is still
\* on its way makes it believe that it may send.
NoPipeOnDeadLink == believed = "down" => ~lib_aci_is_pipe_available

\* A device that lost its peer always advertises again: the event reaches
\* the handler and the handler's command reaches the radio.
AdvertisesAgain == link = "standby" ~> link = "advertising"
=============================================================================
