-------------------------------- MODULE Rf22 --------------------------------
(***************************************************************************)
(* The RF22 packet radio driver (src/rf22/rf22.cxx).  One buffer, _buf,    *)
(* serves both directions; the program fills it to send and the interrupt  *)
(* handler fills it with what was received.  mraa runs the handler in a    *)
(* thread of its own and nothing is locked, so the other side may run      *)
(* between any two accesses.  A step is one read, test or write of a       *)
(* member, all of them volatile, one memcpy, or one exchange with the      *)
(* radio; the bytes are copied before or after it.                         *)
(* Bytes are pairs of a message number and a position.                     *)
(***************************************************************************)
EXTENDS Integers, Sequences, SequencesExt

CONSTANTS RF22_MAX_MESSAGE_LEN,        \* 64 in rf22.hpp
          FRAGMENT,                    \* FIFO size - almost empty - 1: 59
          RF22_TXFFAEM_THRESHOLD,      \* transmit FIFO almost empty: 4
          RF22_RXFFAFULL_THRESHOLD,    \* receive FIFO almost full: 55
          RF22_FIFO_SIZE,              \* 64
          Duties                       \* bounds: what a program may do, each the
                                       \*   lengths of the messages it sends and of
                                       \*   those it hears, and how many of each

\* The members that count are of eight bits.
Byte == 256

ASSUME LengthAssumption ==
    /\ RF22_RXFFAFULL_THRESHOLD \in 1 .. RF22_MAX_MESSAGE_LEN
    /\ RF22_FIFO_SIZE \in 1 .. Byte - 1
    /\ RF22_MAX_MESSAGE_LEN \in 1 .. RF22_FIFO_SIZE
    /\ RF22_TXFFAEM_THRESHOLD \in 0 .. RF22_FIFO_SIZE - 2
    /\ FRAGMENT = RF22_FIFO_SIZE - RF22_TXFFAEM_THRESHOLD - 1

\* A program sends messages of any length, nothing too; a packet on the air has
\* a byte at least.
ASSUME DutyAssumption ==
    \A d \in Duties : /\ d.send \subseteq 0 .. Byte - 1 /\ d.sends \in Nat
                      /\ d.hear \subseteq 1 .. Byte - 1 /\ d.hears \in Nat

VARIABLES h,      \* the driver: _mode, _buf, _bufLen, _rxBufValid, _txBufSentIndex
          c,      \* the radio: mode, FIFOs, length registers, interrupt flags,
                  \*   what it has put on the air and what it is hearing
          at,     \* where each thread is
          loc,    \* its locals: a value it has read, a length, a count, and
                  \*   the bytes it exchanges with the radio
          isr,    \* the flags the handler has read and not yet come to
          flag,   \* the one it deals with
          msg,    \* the message the program is sending
          given, aired,  \* ghosts: messages accepted by send, packets put on the air
          duty    \* what the program does; it never changes

calls == << isr, flag, msg, given, duty >>
vars == << h, c, at, loc, aired, calls >>

Threads == {"program", "handler"}
Bytes(n, k) == [i \in 1 .. k |-> << n, i >>]
Lesser(a, b) == IF a < b THEN a ELSE b
NoLocals == [i |-> 0, n |-> 0, k |-> 0, b |-> << >>]

\* After init(): the buffers are clear and the radio is idle.
Init ==
    /\ h = [mode |-> "idle", buf |-> Bytes(0, RF22_MAX_MESSAGE_LEN), len |-> 0,
            valid |-> FALSE, idx |-> 0]
    /\ c = [mode |-> "idle", tx |-> << >>, rx |-> << >>, pktLen |-> 0, rxLen |-> 0,
            flags |-> {}, out |-> << >>, air |-> << >>, heard |-> 0]
    /\ at = [t \in Threads |-> "idle"] /\ loc = [t \in Threads |-> NoLocals]
    /\ isr = {} /\ flag = "none" /\ msg = << >>
    /\ given = << >> /\ aired = << >>
    /\ duty \in Duties

-----------------------------------------------------------------------------
(* A step of thread t takes it from statement p to statement q.            *)

Moves(t, p, q, v) ==
    /\ at[t] = p
    /\ at' = [at EXCEPT ![t] = q]
    /\ loc' = [loc EXCEPT ![t] = IF q \in {"idle", "flags"} THEN NoLocals ELSE v]
    /\ UNCHANGED aired

Reads(t, p, q, v) == Moves(t, p, q, v) /\ UNCHANGED << h, c, calls >>
Tests(t, p, q) == Reads(t, p, q, loc[t])
Sets(t, p, q, s) == Moves(t, p, q, loc[t]) /\ h' = s /\ UNCHANGED << c, calls >>
Tells(t, p, q, s) == Moves(t, p, q, loc[t]) /\ c' = s /\ UNCHANGED << h, calls >>

I(t, v) == [loc[t] EXCEPT !.i = v]
N(t, v) == [loc[t] EXCEPT !.n = v]
K(t, v) == [loc[t] EXCEPT !.k = v]
B(t, v) == [loc[t] EXCEPT !.b = v]

\* Where a call made in several places returns to.
Handles(t, f) == t = "handler" /\ flag = f
Done(t) == IF t = "program" THEN "idle" ELSE "flags"
FragmentSent(t) == IF Handles(t, "txffaem") THEN "flags" ELSE "packet_length"
FifoReset(t) == IF Handles(t, "crcerror") THEN "keep_trying" ELSE "rx_len"
RxCleared(t) == IF Handles(t, "crcerror") THEN "reset_rx" ELSE Done(t)
RxOnDone(t) == IF t = "program" THEN "again" ELSE "flags"

\* bytes are written into the buffer behind its first n; what they overwrite
\* behind its end is not modelled.
Written(buf, n, bytes) ==
    [i \in DOMAIN buf |-> IF i \in n + 1 .. n + Len(bytes) THEN bytes[i - n] ELSE buf[i]]

\* n bytes of a FIFO, or of a buffer from a place on.  Where there are too few
\* come old ones: here byte 0 of message 0.
Taken(bytes, n) ==
    [i \in 1 .. n |-> IF i <= Len(bytes) THEN bytes[i] ELSE << 0, 0 >>]
Rest(bytes, n) == SubSeq(bytes, n + 1, Len(bytes))

\* The radio leaves the packet it is at when it is told to do something else.
TxOn == [c EXCEPT !.mode = "tx", !.air = << >>]
RxOn == [c EXCEPT !.mode = "rx", !.out = << >>]

-----------------------------------------------------------------------------
(* What both threads call.                                                 *)

clearRxBuf(t) ==
    \/ Sets(t, "rx_len", "rx_valid", [h EXCEPT !.len = 0])
    \/ Sets(t, "rx_valid", RxCleared(t), [h EXCEPT !.valid = FALSE])

resetRxFifo(t) == Tells(t, "reset_rx", FifoReset(t), [c EXCEPT !.rx = << >>])

setModeRx(t) ==
    \/ Tests(t, "rx", IF h.mode = "rx" THEN RxOnDone(t) ELSE "rx_on")
    \/ Tells(t, "rx_on", "rx_mode", RxOn)
    \/ Sets(t, "rx_mode", RxOnDone(t), [h EXCEPT !.mode = "rx"])

setModeTx(t) ==
    \/ Tests(t, "tx", IF h.mode = "tx" THEN Done(t) ELSE "tx_on")
    \/ Tells(t, "tx_on", "tx_mode", TxOn)
    \/ Sets(t, "tx_mode", "reset_rx", [h EXCEPT !.mode = "tx"])

sendNextFragment(t) ==
    LET v == loc[t] IN
    \/ Reads(t, "fragment", "some_left", I(t, h.idx))
    \/ Tests(t, "some_left", IF v.i < h.len THEN "len" ELSE FragmentSent(t))
    \/ Reads(t, "len", "len_less_idx", N(t, h.len))
    \/ Reads(t, "len_less_idx", "from_idx", N(t, Lesser((v.n - h.idx) % Byte, FRAGMENT)))
    \/ Reads(t, "from_idx", "request", I(t, h.idx))
    \/ Reads(t, "request", "write_fifo", B(t, Taken(Rest(h.buf, v.i), v.n)))
    \/ Tells(t, "write_fifo", "idx", [c EXCEPT !.tx = @ \o v.b])
    \/ Reads(t, "idx", "add_to_idx", I(t, h.idx))
    \/ Sets(t, "add_to_idx", FragmentSent(t), [h EXCEPT !.idx = (v.i + v.n) % Byte])

startTransmit(t) ==
    \/ Reads(t, "packet_length", "set_length", N(t, h.len))
    \/ Tells(t, "set_length", "tx", [c EXCEPT !.pktLen = loc[t].n])

Calls(t) ==
    \/ clearRxBuf(t) \/ resetRxFifo(t) \/ setModeRx(t) \/ setModeTx(t)
    \/ sendNextFragment(t) \/ startTransmit(t)

-----------------------------------------------------------------------------
(* handleInterrupt: the flags are read, which clears them, and dealt with  *)
(* in this order.                                                          *)

Order == [fferror |-> 1, txffaem |-> 2, rxffafull |-> 3, pksent |-> 4, pkvalid |-> 5,
          crcerror |-> 6, preaval |-> 7]
Begins == [fferror |-> "reset", txffaem |-> "fragment", rxffafull |-> "room",
           pksent |-> "sent", pkvalid |-> "received_length", crcerror |-> "rx_len",
           preaval |-> "rx_len"]
First(f, flags) == f \in flags /\ \A g \in flags : Order[f] <= Order[g]

H == "handler"
Hl == loc[H]

ReadFlags ==
    /\ c.flags # {}
    /\ Moves(H, "idle", "flags", Hl)
    /\ isr' = c.flags
    /\ c' = [c EXCEPT !.flags = {}]
    /\ UNCHANGED << h, flag, msg, given, duty >>

NextFlag ==
    /\ \/ \E f \in isr :
            /\ First(f, isr)
            /\ Moves(H, "flags", Begins[f], Hl) /\ isr' = isr \ {f} /\ flag' = f
       \/ isr = {} /\ Moves(H, "flags", "idle", Hl) /\ isr' = {} /\ flag' = "none"
    /\ UNCHANGED << h, c, msg, given, duty >>

resetFifos == Tells(H, "reset", "if_tx", [c EXCEPT !.rx = << >>, !.tx = << >>])

restartTransmit ==
    \/ Sets(H, "restart", "first_idx", [h EXCEPT !.mode = "idle"])
    \/ Sets(H, "first_idx", "fragment", [h EXCEPT !.idx = 0])

FifoError ==
    \/ resetFifos
    \/ Tests(H, "if_tx", IF h.mode = "tx" THEN "restart" ELSE "if_rx")
    \/ Tests(H, "if_rx", IF h.mode = "rx" THEN "rx_len" ELSE "flags")
    \/ restartTransmit

\* A slip: the fragment is read whether or not it fits.
Mut_room_unchecked == FALSE

NoRoom == h.len + RF22_RXFFAFULL_THRESHOLD > RF22_MAX_MESSAGE_LEN

\* n bytes of the FIFO are read, and then copied into the buffer from i on.
ReadFifo(p, q, n) ==
    /\ Moves(H, p, q, B(H, Taken(c.rx, n)))
    /\ c' = [c EXCEPT !.rx = Rest(@, n)]
    /\ UNCHANGED << h, calls >>

Copied(p, q) == Sets(H, p, q, [h EXCEPT !.buf = Written(@, Hl.i, Hl.b)])

readNextFragment ==
    \/ Tests(H, "room", IF NoRoom THEN "flags" ELSE "behind")
    \/ Reads(H, "behind", "read_fragment", I(H, h.len))
    \/ ReadFifo("read_fragment", "copy_fragment", RF22_RXFFAFULL_THRESHOLD)
    \/ Copied("copy_fragment", "old_len")
    \/ Reads(H, "old_len", "longer", I(H, h.len))
    \/ Sets(H, "longer", "flags", [h EXCEPT !.len = (Hl.i + RF22_RXFFAFULL_THRESHOLD) % Byte])

PacketSent == Sets(H, "sent", "flags", [h EXCEPT !.mode = "idle"])

\* A packet with a stupid length is dropped, with the flags not yet looked at.
Drop ==
    /\ Moves(H, "stupid", "rx_len", Hl)
    /\ h' = [h EXCEPT !.mode = "idle"] /\ isr' = {}
    /\ UNCHANGED << c, flag, msg, given, duty >>

PacketValid ==
    \/ Reads(H, "received_length", "if_stupid", N(H, c.rxLen))
    \/ Tests(H, "if_stupid",
             IF Hl.n > RF22_MAX_MESSAGE_LEN \/ Hl.n < h.len THEN "stupid" ELSE "end")
    \/ Drop
    \/ Reads(H, "end", "octets_left", I(H, h.len))
    \/ Reads(H, "octets_left", "read_rest", K(H, (Hl.n - h.len) % Byte))
    \/ ReadFifo("read_rest", "copy_rest", Hl.k)
    \/ Copied("copy_rest", "new_len")
    \/ Sets(H, "new_len", "received", [h EXCEPT !.len = Hl.n])
    \/ Sets(H, "received", "validate", [h EXCEPT !.mode = "idle"])
    \/ Sets(H, "validate", "flags", [h EXCEPT !.valid = TRUE])

CrcError == Sets(H, "keep_trying", "rx", [h EXCEPT !.mode = "idle"])

handleInterrupt ==
    \/ ReadFlags \/ NextFlag \/ Calls(H)
    \/ FifoError \/ readNextFragment \/ PacketSent \/ PacketValid \/ CrcError

-----------------------------------------------------------------------------
(* The program: send and recv.                                             *)

P == "program"
Pl == loc[P]

\* A slip: a message is sent without waiting for the one before.
Mut_no_wait == TRUE

waitPacketSent == h.mode # "tx"

Send ==
    /\ Len(given) < duty.sends
    /\ Moves(P, "idle", "wait", Pl)
    /\ \E k \in duty.send : msg' = Bytes(Len(given) + 1, k)
    /\ UNCHANGED << h, c, isr, flag, given, duty >>

fillTxBuf ==
    \/ waitPacketSent /\ Tests(P, "wait", "tx_len")
    \/ Sets(P, "tx_len", "tx_idx", [h EXCEPT !.len = 0])
    \/ Sets(P, "tx_idx", IF msg = << >> THEN "idle" ELSE "fits", [h EXCEPT !.idx = 0])

\* The message is accepted when it is in the buffer.
Accept ==
    /\ Moves(P, "add", "fragment", Pl)
    /\ h' = [h EXCEPT !.len = (Pl.i + Len(msg)) % Byte]
    /\ given' = Append(given, msg)
    /\ UNCHANGED << c, isr, flag, msg, duty >>

appendTxBuf ==
    \/ Tests(P, "fits", IF h.len + Len(msg) > RF22_MAX_MESSAGE_LEN THEN "idle" ELSE "to")
    \/ Reads(P, "to", "copy_in", I(P, h.len))
    \/ Sets(P, "copy_in", "sum", [h EXCEPT !.buf = Written(@, Pl.i, msg)])
    \/ Reads(P, "sum", "add", I(P, h.len))
    \/ Accept

\* The receiver is switched on if there is no message, and the flag read again.
available ==
    \/ duty.hears > 0 /\ Tests(P, "idle", IF h.valid THEN "size" ELSE "rx")
    \/ Tests(P, "again", IF h.valid THEN "size" ELSE "idle")

\* The caller's buffer, which has room for the longest message, is not modelled.
Copy == Tests(P, "copy_out", "rx_len")

recv ==
    \/ available
    \/ Reads(P, "size", IF RF22_MAX_MESSAGE_LEN > h.len THEN "cut" ELSE "copy_out",
             N(P, RF22_MAX_MESSAGE_LEN))
    \/ Reads(P, "cut", "copy_out", N(P, h.len))
    \/ Copy

Program == Send \/ fillTxBuf \/ appendTxBuf \/ recv \/ Calls(P)

-----------------------------------------------------------------------------
(* The radio, as the driver relies on it.                                  *)

Raise(s, f) == [s EXCEPT !.flags = @ \cup {f}]
Radio == UNCHANGED << h, at, loc, calls >>

\* The next byte of the packet goes on the air.
TransmitByte ==
    /\ c.mode = "tx" /\ Len(c.out) < c.pktLen /\ c.tx # << >>
    /\ LET s == [c EXCEPT !.out = Append(@, Head(c.tx)), !.tx = Tail(@)]
       IN c' = IF Len(s.tx) = RF22_TXFFAEM_THRESHOLD THEN Raise(s, "txffaem") ELSE s
    /\ Radio /\ UNCHANGED aired

\* The transmit FIFO runs empty in the middle of a packet.
Underflow ==
    /\ c.mode = "tx" /\ Len(c.out) < c.pktLen /\ c.tx = << >>
    /\ c' = Raise([c EXCEPT !.mode = "idle", !.out = << >>], "fferror")
    /\ Radio /\ UNCHANGED aired

TransmitEnd ==
    /\ c.mode = "tx" /\ Len(c.out) >= c.pktLen
    /\ aired' = Append(aired, c.out)
    /\ c' = Raise([c EXCEPT !.mode = "idle", !.out = << >>], "pksent")
    /\ Radio

\* A packet begins; it has the number after the last one.
Preamble ==
    /\ c.mode = "rx" /\ c.air = << >> /\ c.heard < duty.hears
    /\ \E k \in duty.hear :
         c' = Raise([c EXCEPT !.air = Bytes(-(c.heard + 1), k), !.heard = @ + 1], "preaval")
    /\ Radio /\ UNCHANGED aired

\* A byte arrives; the last one ends the packet, with a good or a bad sum.
\* A FIFO that is full loses it.
ReceiveByte ==
    /\ c.mode = "rx" /\ c.air # << >>
    /\ LET full == Len(c.rx) = RF22_FIFO_SIZE
           s == [c EXCEPT !.rx = IF full THEN @ ELSE Append(@, Head(c.air)),
                          !.air = Tail(@)]
           t == IF full THEN Raise(s, "fferror")
                ELSE IF Len(s.rx) = RF22_RXFFAFULL_THRESHOLD THEN Raise(s, "rxffafull") ELSE s
           e == [t EXCEPT !.mode = "idle", !.rxLen = Head(c.air)[2]]
       IN IF s.air # << >> THEN c' = t
          ELSE \E f \in {"pkvalid", "crcerror"} : c' = Raise(e, f)
    /\ Radio /\ UNCHANGED aired

Transmitter == TransmitByte \/ Underflow \/ TransmitEnd

Next == Program \/ handleInterrupt \/ Transmitter \/ Preamble \/ ReceiveByte

Spec == Init /\ [][Next]_vars

\* The two threads are scheduled, and the radio sends what it is told to.
FairSpec == Spec /\ WF_vars(Program) /\ WF_vars(handleInterrupt) /\ WF_vars(Transmitter)

-----------------------------------------------------------------------------
(* Properties. *)

\* The driver's members have their types; as long as the program only receives,
\* the fragments in which packets of any length arrive stay in the buffer.
TypeOK ==
    /\ h.mode \in {"idle", "rx", "tx"} /\ h.valid \in BOOLEAN
    /\ h.len \in 0 .. Byte - 1 /\ h.idx \in 0 .. Byte - 1
    /\ duty.sends = 0 => h.len <= RF22_MAX_MESSAGE_LEN

SendsOnly == duty.hears = 0

Short == \A m \in Range(given) : Len(m) <= FRAGMENT

\* What goes on the air is what send was given, each message whole and in the
\* order of the calls, if the program only sends and its messages fit in one
\* fragment, however late the handler comes.
SentInOrder == SendsOnly /\ Short => IsPrefix(aired, given)

\* Every such message that send accepts goes on the air, in its turn, even if the
\* handler comes so early that the next send waits for ever.
AllAired == SendsOnly /\ Short ~> aired = given \/ ~Short

\* "waits until any previous transmit packet is finished being transmitted"
\* (rf22.hpp:754): send does not wait longer than that.
SendReturns == at[P] = "wait" ~> at[P] # "wait"
=============================================================================
