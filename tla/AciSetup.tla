------------------------------- MODULE AciSetup -------------------------------
(***************************************************************************)
(* do_aci_setup of src/nrf8001/aci_setup.cpp under the main loop of        *)
(* examples/c++/nrf8001-helloworld.cxx: the radio starts without a         *)
(* configuration and is given num_setup_msgs messages, as many at a time   *)
(* as the command queue of AciHal takes, the rest as it answers.  A radio  *)
(* that restarts, errors and the guard counter may end an attempt anywhere.*)
(* A message is a unit.  The exchange leaves out the last byte of a message*)
(* longer than the event it goes with (see AciSpi), so the radio may refuse*)
(* any message.  The status of a response is its last byte, which the      *)
(* exchange reads only if a command goes out with it: otherwise the host   *)
(* sees what the buffer held, any status.                                  *)
(***************************************************************************)
EXTENDS AciHal, Functions

CONSTANTS num_setup_msgs,
          MaxOut            \* bound: events the radio holds back

ASSUME SetupAssumption == num_setup_msgs \in Nat \ {0}

VARIABLES hal, chip,       \* as in AciHal
          mode,            \* the radio: "setup" or "standby"
          wanted,          \* the radio: the set-up message it expects
          pc,              \* "loop", or where do_aci_setup is
          setup_required,
          setup_offset,    \* set-up messages put into the command queue
          cmd_status,      \* the status of the event peeked at
          taken            \* ghost: messages of this attempt the radio received

vars == << hal, chip, mode, wanted, pc, setup_required, setup_offset, cmd_status, taken >>

Message(i) == << "setup", i >>
Connect    == << "connect", 0 >>

\* cmd_status of a command response, and the other events.
Status == {"continue", "complete", "error"}
Event  == Status \cup {"started_setup", "started_standby", "hw_error"}

\* The radio has been reset by hal_aci_tl_init and announces itself.
Init ==
    /\ hal = hal_aci_tl_init
    /\ chip = [rdyn |-> HIGH, out |-> << "started_setup" >>]
    /\ mode = "setup" /\ wanted = 1
    /\ pc = "loop" /\ setup_required = FALSE
    /\ setup_offset = 0 /\ cmd_status = "error" /\ taken = 0

-----------------------------------------------------------------------------
(* The exchange, as the set-up sees it. *)

\* What the host may make of the event that comes with the next exchange.
Views(h, c) ==
    IF /\ c.rdyn = LOW /\ ~aci_queue_is_full(h.rx) /\ aci_queue_is_empty(h.tx)
       /\ c.out # << >> /\ Head(c.out) \in Status
    THEN {[rdyn |-> c.rdyn, out |-> << s >> \o Tail(c.out)] : s \in Status}
    ELSE {c}

\* The radio (external).  It takes the messages in their order, begins again at
\* the first one, announces itself when it has the last one, and answers every
\* message: with an error what is out of order, or came without its last byte.
RadioStays(evts) == [mode |-> mode, wanted |-> wanted, evts |-> evts]
Refused          == RadioStays(<< "error" >>)

InTurn(cmds) == cmds \in {<< Message(wanted) >>, << Message(1) >>}

RadioTakes(cmds) ==
    IF cmds = << >> THEN {RadioStays(<< >>)}
    ELSE IF mode = "standby" /\ cmds = << Connect >>
    THEN {RadioStays(<< >>), Refused}
    ELSE IF mode = "standby" \/ ~InTurn(cmds) THEN {Refused}
    ELSE {Refused,
          IF cmds[1][2] < num_setup_msgs
          THEN [mode |-> mode, wanted |-> cmds[1][2] + 1, evts |-> << "continue" >>]
          ELSE [mode |-> "standby", wanted |-> 1,
                evts |-> << "complete", "started_standby" >>]}

\* What the radio's half becomes when the exchange c was made.
Exchanged(c) ==
    \E r \in RadioTakes(c.sent) :
      /\ mode' = r.mode /\ wanted' = r.wanted
      /\ chip' = [c.chip EXCEPT !.out = @ \o r.evts]

-----------------------------------------------------------------------------
(* The main loop and do_aci_setup. *)

\* A slip: a connection is also asked for when a command was refused.
Mut_connect_on_error(h, evt) ==
    IF evt \in {<< "started_standby" >>, << "hw_error" >>, << "error" >>}
    THEN hal_aci_tl_send(h, Connect).hal ELSE h

\* What the handlers of the main loop do about an event: some connect.
Handled(h, evt) ==
    IF evt \in {<< "started_standby" >>, << "hw_error" >>}
    THEN hal_aci_tl_send(h, Connect).hal ELSE h

\* A turn of the loop, up to the test of setup_required.
MainLoop ==
    /\ pc = "loop"
    /\ \E v \in Views(hal, chip) : \E r \in {hal_aci_tl_event_get(hal, v)} :
         /\ Exchanged(r.c)
         /\ hal' = Handled(Pack(r.hal), r.evt)
         /\ setup_required' = (setup_required \/ r.evt = << "started_setup" >>)
         /\ pc' = IF setup_required' THEN "setup" ELSE "loop"
    /\ UNCHANGED << setup_offset, cmd_status, taken >>

\* A slip: an attempt begins although commands are waiting.
Mut_begin_at_once(h) == FALSE

\* SETUP_FAIL_COMMAND_QUEUE_NOT_EMPTY
MustWait(h) == ~aci_queue_is_empty(h.tx)

Wait ==
    /\ pc = "setup" /\ MustWait(hal)
    /\ pc' = "loop"
    /\ UNCHANGED << hal, chip, mode, wanted, setup_required, setup_offset, cmd_status, taken >>

\* The first peek; an event ends the attempt (SETUP_FAIL_EVENT_QUEUE_NOT_EMPTY).
Begin ==
    /\ pc = "setup" /\ ~MustWait(hal)
    /\ \E v \in Views(hal, chip) : \E c \in {hal_aci_tl_event_peek(hal, v)} :
         /\ Exchanged(c)
         /\ hal' = Pack(c.hal)
         /\ pc' = IF aci_queue_is_empty(c.hal.rx) THEN "fill" ELSE "loop"
    /\ setup_offset' = 0 /\ taken' = 0
    /\ cmd_status' = "error"
    /\ UNCHANGED setup_required

\* A slip: the message counts although the queue refused it.
Mut_offset_always(offset, ok) == offset + 1

NextOffset(offset, ok) == IF ok THEN offset + 1 ELSE offset

\* A slip: with nothing left to send the loop goes on without removing the event.
Mut_event_stays(at) == "poll"

\* Where aci_setup_fill returns to.
FillReturns(at) == IF at = "fill" THEN "poll" ELSE "remove"

\* aci_setup_fill: one message a step, until one is refused or none is left.
Fill ==
    /\ pc \in {"fill", "refill"}
    /\ setup_offset < num_setup_msgs
    /\ \E s \in {hal_aci_tl_send(hal, Message(setup_offset + 1))} :
         /\ hal' = Pack(s.hal)
         /\ setup_offset' = NextOffset(setup_offset, s.ok)
         /\ pc' = IF s.ok THEN pc ELSE FillReturns(pc)
    /\ UNCHANGED << chip, mode, wanted, setup_required, cmd_status, taken >>

Filled ==
    /\ pc \in {"fill", "refill"}
    /\ setup_offset = num_setup_msgs
    /\ pc' = FillReturns(pc)
    /\ UNCHANGED << hal, chip, mode, wanted, setup_required, setup_offset, cmd_status, taken >>

\* A slip: the messages left are not sent on.
Mut_branch_no_refill(e) ==
    CASE e \in {"continue", "complete"} -> "remove" [] OTHER -> "loop"

\* Where the event that was peeked at leads; errors and other events stay.
Branch(e) ==
    CASE e = "continue" -> "refill" [] e = "complete" -> "remove" [] OTHER -> "loop"

\* A turn of the loop of do_aci_setup, up to the removal of the event.
Poll ==
    /\ pc = "poll"
    /\ \E v \in Views(hal, chip) : \E c \in {hal_aci_tl_event_peek(hal, v)} :
         /\ Exchanged(c)
         /\ hal' = Pack(c.hal)
         /\ taken' = taken + Len(c.sent)
         /\ IF aci_queue_is_empty(c.hal.rx)
            THEN UNCHANGED << pc, cmd_status >>
            ELSE /\ pc' = Branch(aci_queue_peek(c.hal.rx))
                 /\ cmd_status' = aci_queue_peek(c.hal.rx)
    /\ UNCHANGED << setup_required, setup_offset >>

\* SETUP_FAIL_TIMEOUT: too many polls since the radio last said to go on.
TimeUp ==
    /\ pc = "poll" /\ pc' = "loop"
    /\ UNCHANGED << hal, chip, mode, wanted, setup_required, setup_offset, cmd_status, taken >>

\* lib_aci_event_get removes the event; the last one ends the loop.
Remove ==
    /\ pc = "remove"
    /\ \E v \in Views(hal, chip) : \E r \in {hal_aci_tl_event_get(hal, v)} :
         /\ Exchanged(r.c)
         /\ hal' = Pack(r.hal)
         /\ taken' = taken + Len(r.c.sent)
    /\ pc' = IF cmd_status = "complete" THEN "loop" ELSE "poll"
    /\ setup_required' = (cmd_status # "complete")
    /\ UNCHANGED << setup_offset, cmd_status >>

-----------------------------------------------------------------------------
(* The radio. *)

RadioReady ==
    /\ chip.rdyn = HIGH
    /\ hal.reqn = LOW \/ chip.out # << >>
    /\ chip' = [chip EXCEPT !.rdyn = LOW]
    /\ UNCHANGED << hal, mode, wanted, pc, setup_required, setup_offset, cmd_status, taken >>

RadioRestarts ==
    /\ chip' = [rdyn |-> HIGH, out |-> << "started_setup" >>]
    /\ mode' = "setup" /\ wanted' = 1
    /\ UNCHANGED << hal, pc, setup_required, setup_offset, cmd_status, taken >>

HardwareError ==
    /\ Len(chip.out) < MaxOut
    /\ chip' = [chip EXCEPT !.out = Append(@, "hw_error")]
    /\ UNCHANGED << hal, mode, wanted, pc, setup_required, setup_offset, cmd_status, taken >>

Attempt == Wait \/ Begin \/ Fill \/ Filled \/ Poll \/ Remove
Trouble == RadioRestarts \/ HardwareError

Next == MainLoop \/ Attempt \/ TimeUp \/ RadioReady \/ Trouble

Spec == Init /\ [][Next]_vars

\* The program never stops, the guard counter of an attempt runs out, a working
\* radio answers a lowered REQN, and at some time it restarts and fails no more.
FairSpec ==
    /\ Spec
    /\ WF_vars(MainLoop) /\ WF_vars(Attempt) /\ WF_vars(TimeUp)
    /\ WF_vars(RadioReady)
    /\ <>[][~Trouble]_vars

-----------------------------------------------------------------------------
(* Properties. *)

Attempting == pc \in {"fill", "refill", "poll", "remove"}

TypeOK ==
    /\ mode \in {"setup", "standby"} /\ wanted \in 1 .. num_setup_msgs
    /\ pc \in {"loop", "setup", "fill", "refill", "poll", "remove"}
    /\ setup_required \in BOOLEAN
    /\ setup_offset \in 0 .. num_setup_msgs /\ taken \in 0 .. num_setup_msgs
    /\ cmd_status \in Event

\* While an attempt runs, the messages the radio received and those in the
\* command queue are the first setup_offset ones, in their order: none is
\* skipped when the queue is full, sent twice or mixed with another command.
InOrder ==
    Attempting =>
      /\ taken + Count(hal.tx) = setup_offset
      /\ \A i \in 1 .. Count(hal.tx) : Contents(hal.tx)[i] = Message(taken + i)

\* The radio has restarted, and the host has not read of it.
RestartPending ==
    \/ "started_setup" \in Range(chip.out)
    \/ "started_setup" \in Range(Contents(hal.rx))

\* SETUP_SUCCESS is returned only after all messages were received by the radio,
\* or by a radio that is set up or has restarted: neither an unread status nor
\* the answers to an earlier attempt end a set-up with messages left to send.
SuccessMeansSent ==
    [][setup_required /\ ~setup_required' =>
         taken' = num_setup_msgs \/ mode' = "standby" \/ RestartPending']_vars

\* The guard counter "is used to ensure that this function does not loop
\* forever": whatever the radio does, do_aci_setup returns.
AttemptEnds == Attempting ~> ~Attempting

\* When the troubles are over, a set-up that is required is begun with both
\* queues drained of what the attempts before have left in them, or it is done.
TriesAgain == setup_required ~> (pc = "fill" \/ ~setup_required)
=============================================================================
