------------------------------- MODULE Sx1276 -------------------------------
(***************************************************************************)
(* The SX1276 LoRa/FSK modem driver (src/sx1276/sx1276.cxx): a caller that *)
(* sends and receives packets, the interrupt handlers of DIO0 and DIO1,    *)
(* which run in threads of their own under m_intrLock, and the radio.  The *)
(* caller does not take the lock.  Data is told apart by units: a unit     *)
(* stands for as many bytes as the FIFO's threshold, and length units tell *)
(* the radio and the handlers how many data units follow.                  *)
(***************************************************************************)
EXTENDS Integers, Sequences, FiniteSets

CONSTANTS Configs,     \* the settings the program may have made
          SendSizes,   \* sizes of the packets that are sent, in units
          RecvSize,    \* size of the packets on the air
          FifoThresh,  \* FifoLevel is raised above that many units
          OneChunk,    \* 64 bytes, the most that send writes at once
          ChunkSize,   \* 32 bytes, the piece that is written of a longer packet
          MaxCalls,    \* bound: calls of send and setRx
          MaxAir       \* bound: packets that arrive

ASSUME Sx1276Assumption ==
    /\ Configs \subseteq [modem : {"LORA", "FSK"}, cont : BOOLEAN, crcOn : BOOLEAN]
    /\ SendSizes \subseteq Nat \ {0} /\ RecvSize \in Nat \ {0}
    /\ FifoThresh \in Nat \ {0}
    /\ OneChunk \in Nat \ {0} /\ ChunkSize \in 1 .. OneChunk
    /\ MaxCalls \in Nat /\ MaxAir \in Nat

VARIABLES cfg,     \* m_settings: the modem, its RxContinuous and CrcOn
          pc,      \* the caller
          call,    \* [n, op, size]: the number of the call, and what it does
          state,   \* m_settings.state
          event,   \* m_radioEvent
          prev,    \* opModePrev, the mode the driver believes the radio is in
          handler, \* fskPacketHandler: NbBytes, Size and ChunkSize
          rx,      \* m_rxBuffer and m_rxLen
          isr,     \* where the handler that holds m_intrLock is
          pend,    \* pins whose edge has not been handled
          radio,   \* the radio: mode, fifo, and the packet it sends or receives
          air,     \* ghost: packets that arrived, and which of them were good
          result,  \* what the last call returned
          copied   \* what the caller copied out of the buffer

vars == << cfg, pc, call, state, event, prev, handler, rx, isr, pend, radio,
           air, result, copied >>

fsk == cfg.modem = "FSK"

NoHandler == "none"

Packet(id, size) == [i \in 1 .. size |-> << "data", id, i >>]
LengthUnit(size) == << "len", size, 0 >>
Zeros == [i \in 1 .. RecvSize |-> << "zero", 0, 0 >>]

\* init leaves the radio asleep in setOpMode; the configuration keeps it so.
Init ==
    /\ cfg \in Configs
    /\ pc = "idle" /\ call = [n |-> 0, op |-> "none", size |-> 0]
    /\ state = "IDLE" /\ event = "DONE" /\ prev = "Sleep"
    /\ handler = [nb |-> 0, size |-> 0, chunk |-> 0]
    /\ rx = [buf |-> Zeros, len |-> 0]
    /\ isr = NoHandler /\ pend = {}
    /\ radio = [mode |-> "Sleep", ready |-> FALSE, fifo |-> << >>, got |-> 0,
                crcOk |-> TRUE, size |-> 0, sent |-> << >>]
    /\ air = [n |-> 0, good |-> {}]
    /\ result = "none" /\ copied = << >>

-----------------------------------------------------------------------------
(* The radio's FIFO and mode, as the driver uses them. *)

\* In FSK DIO1 is FifoLevel: an edge when the level rises above the threshold.
LevelEdge(old, new) ==
    IF fsk /\ Len(old) <= FifoThresh /\ Len(new) > FifoThresh THEN {1} ELSE {}

\* The radio in a mode that was just set: asleep or receiving it starts afresh.
Entered(m) ==
    [radio EXCEPT !.mode = m, !.ready = m \in {"Rx", "RxSingle"}, !.got = 0,
                  !.fifo = IF m = "Tx" \/ m = "Standby" THEN @ ELSE << >>,
                  !.size = 0, !.sent = << >>]

\* setOpMode: the register is written only if the mode is not the last one set.
setOpMode(m) ==
    /\ prev' = m
    /\ radio' = IF m = prev THEN radio ELSE Entered(m)

RxMode == IF fsk \/ cfg.cont THEN "Rx" ELSE "RxSingle"

\* readFifo(n): the units read and those left; an empty FIFO reads as junk.
ReadFifo(fifo, n) ==
    [data |-> [i \in 1 .. n |-> IF i <= Len(fifo) THEN fifo[i] ELSE << "junk", 0, i >>],
     rest |-> SubSeq(fifo, n + 1, Len(fifo))]

\* The buffer with data written behind its first units.
Written(buf, from, data) ==
    [i \in DOMAIN buf |-> IF i - from \in DOMAIN data THEN data[i - from] ELSE buf[i]]

-----------------------------------------------------------------------------
(* The caller: send and setRx, their wait, and what the examples do next. *)

\* The example programs make a call when the radio sleeps and the handlers of
\* the call before have long run (upm_delay).
Settled == radio.mode = "Sleep" /\ pend = {} /\ isr = NoHandler

Starts(op, size) ==
    /\ pc = "idle" /\ Settled
    /\ call.n < MaxCalls
    /\ call' = [n |-> call.n + 1, op |-> op, size |-> size]
    /\ copied' = << >> /\ result' = "none"

\* send, until it calls setTx.
send(size) ==
    /\ Starts("tx", size)
    /\ pc' = "set_state"
    /\ \/ /\ fsk
          /\ LET chunk == IF size <= OneChunk THEN size ELSE ChunkSize
                 fifo  == radio.fifo \o << LengthUnit(size) >>
                            \o SubSeq(Packet(call.n + 1, size), 1, chunk)
             IN /\ handler' = [nb |-> chunk, size |-> size, chunk |-> chunk]
                /\ radio' = [radio EXCEPT !.fifo = fifo]
                /\ pend' = pend \cup LevelEdge(radio.fifo, fifo)
          /\ UNCHANGED << state, prev >>
       \/ /\ ~fsk
          /\ LET asleep == radio.mode = "Sleep"
                 r      == IF asleep /\ prev # "Standby" THEN Entered("Standby") ELSE radio
             IN /\ radio' = [r EXCEPT !.fifo = << LengthUnit(size) >>
                                                 \o Packet(call.n + 1, size)]
                /\ prev' = IF asleep THEN "Standby" ELSE prev
                /\ state' = IF asleep THEN "IDLE" ELSE state
          /\ UNCHANGED << handler, pend >>
    /\ UNCHANGED << cfg, event, rx, isr, air >>

\* setRx, until it sets the state.
setRx ==
    /\ Starts("rx", RecvSize)
    /\ pc' = "set_state"
    /\ handler' = IF fsk THEN [handler EXCEPT !.nb = 0, !.size = 0] ELSE handler
    /\ rx' = [rx EXCEPT !.buf = Zeros]
    /\ UNCHANGED << cfg, state, event, prev, isr, pend, radio, air >>

SetState ==
    /\ pc = "set_state"
    /\ state' = IF call.op = "tx" THEN "TX_RUNNING" ELSE "RX_RUNNING"
    /\ pc' = "set_event"
    /\ UNCHANGED << cfg, call, event, prev, handler, rx, isr, pend, radio, air,
                    result, copied >>

\* A slip: the event of the last call stays.
Mut_event_kept ==
    /\ pc = "set_event"
    /\ pc' = "set_mode"
    /\ UNCHANGED << cfg, call, state, event, prev, handler, rx, isr, pend, radio, air,
                    result, copied >>

SetEvent ==
    /\ pc = "set_event"
    /\ event' = "EXEC"
    /\ pc' = "set_mode"
    /\ UNCHANGED << cfg, call, state, prev, handler, rx, isr, pend, radio, air,
                    result, copied >>

SetMode ==
    /\ pc = "set_mode"
    /\ setOpMode(IF call.op = "tx" THEN "Tx" ELSE RxMode)
    /\ pc' = "wait"
    /\ UNCHANGED << cfg, call, state, event, handler, rx, isr, pend, air, result, copied >>

\* The loop of setTx and setRx ends because something has happened ...
EventSeen ==
    /\ pc = "wait" /\ event # "EXEC"
    /\ pc' = "return"
    /\ UNCHANGED << cfg, call, state, event, prev, handler, rx, isr, pend, radio, air,
                    result, copied >>

\* A slip: the loop waits for the event alone.
Mut_time_not_tested ==
    /\ pc = "wait" /\ event # "EXEC"
    /\ pc' = "return"
    /\ UNCHANGED << cfg, call, state, event, prev, handler, rx, isr, pend, radio, air,
                    result, copied >>

\* ... or because the time is up, and then the event is tested once more.
TimeUp ==
    /\ pc = "wait"
    /\ pc' = IF event = "EXEC" THEN "time_out" ELSE "return"
    /\ UNCHANGED << cfg, call, state, event, prev, handler, rx, isr, pend, radio, air,
                    result, copied >>

TimeOut ==
    /\ pc = "time_out"
    /\ event' = "TIMEOUT"
    /\ pc' = "return"
    /\ UNCHANGED << cfg, call, state, prev, handler, rx, isr, pend, radio, air, result,
                    copied >>

Return ==
    /\ pc = "return"
    /\ result' = event
    /\ pc' = IF call.op = "rx" /\ event = "DONE" THEN "retrieve" ELSE "asleep"
    /\ UNCHANGED << cfg, call, state, event, prev, handler, rx, isr, pend, radio, air,
                    copied >>

\* The caller copies the packet, as getRxBufferStr does.
getRxBufferStr ==
    /\ pc = "retrieve"
    /\ copied' = SubSeq(rx.buf, 1, rx.len)
    /\ pc' = "asleep"
    /\ UNCHANGED << cfg, call, state, event, prev, handler, rx, isr, pend, radio, air,
                    result >>

\* A slip: the register is written without setOpMode, which does not learn of it.
Mut_sleep_uncached ==
    /\ pc = "asleep"
    /\ radio' = Entered("Sleep")
    /\ pc' = "asleep_state"
    /\ UNCHANGED << cfg, call, state, event, prev, handler, rx, isr, pend, air, result,
                    copied >>

\* setSleep, in two steps: the mode, then the state.
SleepMode ==
    /\ pc = "asleep"
    /\ setOpMode("Sleep")
    /\ pc' = "asleep_state"
    /\ UNCHANGED << cfg, call, state, event, handler, rx, isr, pend, air, result, copied >>

SleepState ==
    /\ pc = "asleep_state"
    /\ state' = "IDLE"
    /\ pc' = "idle"
    /\ UNCHANGED << cfg, call, event, prev, handler, rx, isr, pend, radio, air, result,
                    copied >>

Caller ==
    \/ SetState \/ SetEvent \/ SetMode \/ EventSeen \/ TimeUp \/ TimeOut
    \/ Return \/ getRxBufferStr \/ SleepMode \/ SleepState

-----------------------------------------------------------------------------
(***************************************************************************)
(* The interrupt handlers.  isr is the step a handler comes to next, and   *)
(* the lock is held while it is not NoHandler.                             *)
(***************************************************************************)

\* Which branch the handler of a pin takes; it reads the state once.
Branch(pin) ==
    CASE pin = 0 /\ state = "RX_RUNNING" -> "read_packet"
      [] pin = 0 /\ state = "TX_RUNNING" -> "sent"
      [] pin = 1 /\ state = "RX_RUNNING" -> IF fsk THEN "read_chunk" ELSE "rx_timeout"
      [] pin = 1 /\ state = "TX_RUNNING" /\ fsk -> "write_chunk"
      [] OTHER -> NoHandler

HandlerStarts(pin) ==
    /\ isr = NoHandler /\ pin \in pend
    /\ pend' = pend \ {pin}
    /\ isr' = Branch(pin)
    /\ UNCHANGED << cfg, pc, call, state, event, prev, handler, rx, radio, air, result,
                    copied >>

IdleUnlessContinuous == IF cfg.cont THEN state ELSE "IDLE"

\* FSK in continuous mode restarts the receiver.
Restarted(r) ==
    IF fsk /\ cfg.cont /\ r.mode = "Rx" THEN [r EXCEPT !.ready = TRUE, !.got = 0] ELSE r

\* onDio0Irq, a packet that fails the CRC.
BadPacket ==
    /\ isr = "read_packet"
    /\ ~radio.crcOk /\ (fsk => cfg.crcOn)
    /\ radio' = Restarted(radio)
    /\ state' = IdleUnlessContinuous
    /\ isr' = "error"
    /\ UNCHANGED << cfg, pc, call, event, prev, handler, rx, pend, air, result, copied >>

\* The size comes out of the FIFO unless DIO1 has read it before.
FifoWithSize(h) ==
    IF h.size = 0 /\ h.nb = 0
    THEN LET r == ReadFifo(radio.fifo, 1)
         IN {[size |-> n, fifo |-> r.rest] :
               n \in IF r.data[1][1] = "len" THEN {r.data[1][2]} ELSE 0 .. RecvSize}
    ELSE {[size |-> h.size, fifo |-> radio.fifo]}

\* onDio0Irq, a packet to keep: what is left of it is read.
GoodPacket ==
    /\ isr = "read_packet"
    /\ radio.crcOk \/ (fsk /\ ~cfg.crcOn)
    /\ \E f \in IF fsk THEN FifoWithSize(handler)
                 ELSE {[size |-> RecvSize, fifo |-> radio.fifo]} :
         LET from == IF fsk THEN handler.nb ELSE 0
             r    == ReadFifo(f.fifo, f.size - from)
         IN /\ rx' = [rx EXCEPT !.buf = Written(@, from, r.data)]
            /\ handler' = IF fsk THEN [handler EXCEPT !.nb = f.size, !.size = f.size]
                          ELSE [handler EXCEPT !.size = f.size]
            /\ radio' = Restarted([radio EXCEPT !.fifo = IF fsk THEN r.rest ELSE @])
    /\ state' = IdleUnlessContinuous
    /\ isr' = "done"
    /\ UNCHANGED << cfg, pc, call, event, prev, pend, air, result, copied >>

CountersReset == IF fsk THEN [handler EXCEPT !.nb = 0, !.size = 0] ELSE handler

\* The end of onDio0Irq after either of them.
PacketEnds ==
    /\ isr \in {"error", "done"}
    /\ rx' = IF isr = "done" THEN [rx EXCEPT !.len = handler.size] ELSE rx
    /\ event' = IF isr = "done" THEN "DONE" ELSE "ERROR"
    /\ handler' = CountersReset
    /\ isr' = NoHandler
    /\ UNCHANGED << cfg, pc, call, state, prev, pend, radio, air, result, copied >>

\* onDio0Irq and onDio1Irq when an operation ends: the state, then the event.
OperationEnds ==
    /\ isr \in {"sent", "rx_timeout"}
    /\ state' = "IDLE"
    /\ isr' = IF isr = "sent" THEN "post_done" ELSE "post_timeout"
    /\ UNCHANGED << cfg, pc, call, event, prev, handler, rx, pend, radio, air, result,
                    copied >>

PostEvent ==
    /\ isr \in {"post_done", "post_timeout"}
    /\ event' = IF isr = "post_done" THEN "DONE" ELSE "TIMEOUT"
    /\ isr' = NoHandler
    /\ UNCHANGED << cfg, pc, call, state, prev, handler, rx, pend, radio, air, result,
                    copied >>

\* Slips: what is left is read before it has come; a whole piece is read always.
Mut_chunk_all(left, piece) == left
Mut_chunk_piece(left, piece) == piece

\* A whole piece while more than that is left, the rest otherwise.
Chunk(left, piece) == IF left > piece THEN piece ELSE left

\* onDio1Irq while receiving.
ReadChunk ==
    /\ isr = "read_chunk"
    /\ \E f \in FifoWithSize(handler) :
         LET n == Chunk(f.size - handler.nb, FifoThresh)
             r == ReadFifo(f.fifo, n)
         IN /\ rx' = [rx EXCEPT !.buf = Written(@, handler.nb, r.data)]
            /\ handler' = [handler EXCEPT !.nb = @ + n, !.size = f.size]
            /\ radio' = [radio EXCEPT !.fifo = r.rest]
    /\ isr' = NoHandler
    /\ UNCHANGED << cfg, pc, call, state, event, prev, pend, air, result, copied >>

\* onDio1Irq while sending: the next piece is taken out of m_rxBuffer.
WriteChunk ==
    /\ isr = "write_chunk"
    /\ LET n    == Chunk(handler.size - handler.nb, handler.chunk)
           data == [i \in 1 .. n |-> IF handler.nb + i \in DOMAIN rx.buf
                                     THEN rx.buf[handler.nb + i] ELSE << "junk", 0, i >>]
           fifo == radio.fifo \o data
       IN /\ radio' = [radio EXCEPT !.fifo = fifo]
          /\ pend' = pend \cup LevelEdge(radio.fifo, fifo)
          /\ handler' = [handler EXCEPT !.nb = @ + n]
    /\ isr' = NoHandler
    /\ UNCHANGED << cfg, pc, call, state, event, prev, rx, air, result, copied >>

Handlers ==
    \/ \E pin \in {0, 1} : HandlerStarts(pin)
    \/ BadPacket \/ GoodPacket \/ PacketEnds \/ OperationEnds \/ PostEvent
    \/ ReadChunk \/ WriteChunk

-----------------------------------------------------------------------------
(* The radio. *)

\* It sends the FIFO unit by unit and reports the end of a packet on DIO0.
ClockOut ==
    /\ radio.mode = "Tx" /\ radio.fifo # << >>
    /\ LET unit == Head(radio.fifo)
           r    == IF unit[1] = "len" THEN [radio EXCEPT !.size = unit[2]]
                   ELSE [radio EXCEPT !.sent = Append(@, unit)]
       IN /\ radio' = [r EXCEPT !.fifo = Tail(@)]
          /\ pend' = IF unit[1] # "len" /\ Len(r.sent) = r.size THEN pend \cup {0}
                     ELSE pend
    /\ UNCHANGED << cfg, pc, call, state, event, prev, handler, rx, isr, air, result,
                    copied >>

\* A packet arrives: unit by unit in FSK, where the receiver stops after it, and
\* at once in LoRa, where a single reception puts the radio in standby.
Arrives(crcOk, units) ==
    LET fifo == IF fsk THEN radio.fifo \o units ELSE units
        last == fsk => radio.got = RecvSize
    IN /\ radio' = [radio EXCEPT !.fifo = fifo,
                       !.got = IF last THEN 0 ELSE @ + 1,
                       !.crcOk = IF last THEN crcOk ELSE @,
                       !.ready = ~last \/ (radio.mode = "Rx" /\ ~fsk),
                       !.mode = IF @ = "RxSingle" THEN "Standby" ELSE @]
       /\ pend' = pend \cup LevelEdge(radio.fifo, fifo) \cup (IF last THEN {0} ELSE {})
       /\ air' = IF ~last THEN air
                 ELSE [n |-> air.n + 1,
                       good |-> IF crcOk THEN air.good \cup {air.n + 1} ELSE air.good]

ClockIn ==
    /\ radio.ready /\ air.n < MaxAir
    /\ \E crcOk \in BOOLEAN :
         LET data == Packet(air.n + 1, RecvSize)
         IN Arrives(crcOk, IF ~fsk THEN data
                           ELSE IF radio.got = 0 THEN << LengthUnit(RecvSize) >>
                           ELSE << data[radio.got] >>)
    /\ UNCHANGED << cfg, pc, call, state, event, prev, handler, rx, isr, result, copied >>

\* A LoRa radio that looks for one packet gives up and reports that on DIO1.
GivesUp ==
    /\ radio.mode = "RxSingle"
    /\ radio' = [radio EXCEPT !.mode = "Standby", !.ready = FALSE]
    /\ pend' = pend \cup {1}
    /\ UNCHANGED << cfg, pc, call, state, event, prev, handler, rx, isr, air, result,
                    copied >>

Next ==
    \/ \E size \in SendSizes : send(size)
    \/ setRx \/ Caller \/ Handlers
    \/ ClockOut \/ ClockIn \/ GivesUp

Spec == Init /\ [][Next]_vars

\* The caller runs, its time limit passes; nothing is assumed of the radio.
FairSpec == Spec /\ WF_vars(Caller)

-----------------------------------------------------------------------------
(* Properties. *)

TypeOK ==
    /\ cfg \in Configs
    /\ call.op \in {"none", "tx", "rx"} /\ call.n \in 0 .. MaxCalls
    /\ state \in {"IDLE", "RX_RUNNING", "TX_RUNNING"}
    /\ event \in {"DONE", "EXEC", "ERROR", "TIMEOUT"}
    /\ handler.nb \in Nat /\ handler.size \in Nat /\ handler.nb <= handler.size
    /\ pend \subseteq {0, 1}

Returned(op) ==
    pc \in {"asleep", "asleep_state", "idle"} /\ call.op = op /\ result = "DONE"

\* "REVENT_DONE ... operation completed successfully" (sx1276.hpp:116): when send
\* returns it, the radio has sent that very packet, all of it and nothing else.
\* That holds of packets that fit one chunk, as those of sendStr with up to 64
\* bytes do; the rest of a longer one is taken out of the wrong buffer.
DoneMeansSent ==
    pc = "asleep" /\ call.op = "tx" /\ result = "DONE" =>
        radio.sent = Packet(call.n, call.size)

\* What the caller copies after a single reception is one whole packet that
\* arrived, one with a good CRC where the CRC is checked, however the two
\* handlers shared the reading of it.
ReceivedWhole ==
    Returned("rx") /\ ~cfg.cont =>
        \E k \in 1 .. air.n :
            copied = Packet(k, RecvSize) /\ (cfg.crcOn => k \in air.good)

\* A caller that waits does not wait for a radio that does nothing: the radio is
\* in the mode asked for, or its answer is on the way.
Armed ==
    pc = "wait" /\ event = "EXEC" =>
        \/ radio.mode = IF call.op = "tx" THEN "Tx" ELSE RxMode
        \/ pend # {} \/ isr # NoHandler

\* Every call returns, whatever the radio does.
CallReturns == pc # "idle" ~> pc = "idle"
=============================================================================
