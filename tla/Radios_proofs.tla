---------------------------- MODULE Radios_proofs ----------------------------
(***************************************************************************)
(* Proofs about the packet radios: Rf22, for every size of its buffers and *)
(* FIFOs that LengthAssumption allows and every duty of the program, and   *)
(* Nrf24l01, for every size of its FIFOs.                                  *)
(***************************************************************************)
EXTENDS Rf22, Nrf24l01, SequenceTheorems, TLAPS

-----------------------------------------------------------------------------
(* The types of the state. *)

Octet == Int \X Nat
Flag == {"fferror", "txffaem", "rxffafull", "pksent", "pkvalid", "crcerror", "preaval"}
Mode == {"idle", "rx", "tx"}
Buffer == [1 .. RF22_MAX_MESSAGE_LEN -> Octet]
Small == 0 .. Byte - 1
Driver == [mode : Mode, buf : Buffer, len : Small, valid : BOOLEAN, idx : Small]
Chip == [mode : Mode, tx : Seq(Octet), rx : Seq(Octet), pktLen : Nat, rxLen : Small,
         flags : SUBSET Flag, out : Seq(Octet), air : Seq(Int \X Small), heard : Nat]
Locals == [i : Small, n : Small, k : Small, b : Seq(Octet)]

\* Statements that both threads come to, then those of one or the other.
Clearing == {"rx_len", "rx_valid"}
ToRx == {"rx", "rx_on", "rx_mode"}
ToTx == {"packet_length", "set_length", "tx", "tx_on", "tx_mode", "reset_rx"}
Fragment == {"fragment", "some_left", "len", "len_less_idx", "from_idx", "request",
             "write_fifo", "idx", "add_to_idx"}
Restart == {"restart", "first_idx"}
MoreRoom == {"behind", "read_fragment", "copy_fragment", "old_len"}
Measured == {"end", "octets_left", "read_rest", "copy_rest", "new_len"}
Handling == {"flags", "reset", "if_tx", "if_rx", "room", "longer", "sent", "received_length",
             "if_stupid", "stupid", "received", "validate", "keep_trying"}
            \cup MoreRoom \cup Measured
Filling == {"wait", "tx_len", "tx_idx", "fits", "to", "copy_in", "sum", "add"}
Receiving == {"again", "size", "cut", "copy_out"}

Label == {"idle"} \cup Clearing \cup ToRx \cup ToTx \cup Fragment \cup Restart \cup Handling
         \cup Filling \cup Receiving

TypesOK ==
    /\ h \in Driver /\ c \in Chip
    /\ at \in [Threads -> Label] /\ loc \in [Threads -> Locals]
    /\ isr \in SUBSET Flag /\ flag \in Flag \cup {"none"}
    /\ msg \in Seq(Int \X Nat)
    /\ given \in Seq(Seq(Octet)) /\ aired \in Seq(Seq(Octet))
    /\ duty \in Duties

\* A program that sends nothing is never in send, and neither side is in what
\* send calls.  The handler has measured what it adds to the buffer, and the
\* program can only have emptied it since.
Listens ==
    /\ h.len <= RF22_MAX_MESSAGE_LEN /\ h.mode # "tx" /\ c.mode # "tx"
    /\ "txffaem" \notin c.flags \cup isr
    /\ at[P] \in {"idle"} \cup Clearing \cup ToRx \cup Receiving
    /\ at[H] \in {"idle", "reset_rx"} \cup Clearing \cup ToRx \cup Handling
    /\ at[H] \in MoreRoom => h.len + RF22_RXFFAFULL_THRESHOLD <= RF22_MAX_MESSAGE_LEN
    /\ at[H] = "longer" => loc[H].i + RF22_RXFFAFULL_THRESHOLD <= RF22_MAX_MESSAGE_LEN
    /\ at[H] \in Measured => loc[H].n <= RF22_MAX_MESSAGE_LEN

Inv == TypesOK /\ (duty.sends = 0 => Listens)

LEMMA BufferIsSeq ==
    ASSUME NEW buf \in Buffer
    PROVE  buf \in Seq(Octet) /\ Len(buf) = RF22_MAX_MESSAGE_LEN
           /\ DOMAIN buf = 1 .. RF22_MAX_MESSAGE_LEN
BY LengthAssumption DEF Buffer

LEMMA TakenType ==
    ASSUME NEW s \in Seq(Octet), NEW n \in Nat
    PROVE  /\ Taken(s, n) \in Seq(Octet) /\ Len(Taken(s, n)) = n
           /\ \A i \in 1 .. n : Taken(s, n)[i] = IF i <= Len(s) THEN s[i] ELSE << 0, 0 >>
<1>1. << 0, 0 >> \in Octet
  BY DEF Octet
<1>2. \A i \in 1 .. n : (IF i <= Len(s) THEN s[i] ELSE << 0, 0 >>) \in Octet
  BY <1>1
<1>3. Taken(s, n) \in [1 .. n -> Octet]
  BY <1>2 DEF Taken
<1> QED
  BY <1>3 DEF Taken

LEMMA RestType ==
    ASSUME NEW s \in Seq(Octet), NEW n \in Nat
    PROVE  /\ Rest(s, n) \in Seq(Octet)
           /\ Len(Rest(s, n)) = IF n <= Len(s) THEN Len(s) - n ELSE 0
           /\ \A i \in 1 .. Len(s) - n : Rest(s, n)[i] = s[n + i]
<1>1. CASE n < Len(s)
  <2>1. \A i \in n + 1 .. Len(s) : s[i] \in Octet
    OBVIOUS
  <2>2. n + 1 \in Nat /\ Len(s) \in Nat
    OBVIOUS
  <2>3. /\ SubSeq(s, n + 1, Len(s)) \in Seq(Octet)
        /\ Len(SubSeq(s, n + 1, Len(s))) = Len(s) - (n + 1) + 1
        /\ \A i \in 1 .. Len(s) - (n + 1) + 1 : SubSeq(s, n + 1, Len(s))[i] = s[n + 1 + i - 1]
    BY <1>1, <2>1, <2>2, SubSeqProperties
  <2> QED
    BY <1>1, <2>3 DEF Rest
<1>2. CASE n >= Len(s)
  BY <1>2, SubSeqEmpty DEF Rest
<1> QED
  BY <1>1, <1>2

LEMMA WrittenType ==
    ASSUME NEW buf \in Buffer, NEW n \in Nat, NEW s \in Seq(Octet)
    PROVE  /\ Written(buf, n, s) \in Buffer
           /\ \A i \in 1 .. RF22_MAX_MESSAGE_LEN :
                Written(buf, n, s)[i] = IF n < i /\ i <= n + Len(s) THEN s[i - n] ELSE buf[i]
BY DEF Written, Buffer

LEMMA WrittenFirst ==
    ASSUME NEW buf \in Buffer, NEW s \in Seq(Octet), Len(s) <= RF22_MAX_MESSAGE_LEN
    PROVE  \A k \in 1 .. Len(s) : Written(buf, 0, s)[k] = s[k]
BY LengthAssumption DEF Written, Buffer

LEMMA BytesType ==
    ASSUME NEW n \in Int, NEW k \in Nat
    PROVE  /\ Bytes(n, k) \in Seq({n} \X Nat) /\ Len(Bytes(n, k)) = k
           /\ \A i \in 1 .. k : Bytes(n, k)[i] = << n, i >>
BY DEF Bytes

LEMMA ModType == \A n \in Int : n % Byte \in Small
BY DEF Byte, Small

LEMMA SizeTypes ==
    /\ 0 \in Small /\ FRAGMENT \in Small /\ RF22_RXFFAFULL_THRESHOLD \in Small
    /\ RF22_MAX_MESSAGE_LEN \in Small
    /\ \A n \in Small : n \in Nat
BY LengthAssumption DEF Small, Byte

-----------------------------------------------------------------------------
(* Each kind of step keeps the types. *)

LEMMA ReturnTypes ==
    \A t : /\ Done(t) \in Label /\ FragmentSent(t) \in Label /\ FifoReset(t) \in Label
           /\ RxCleared(t) \in Label /\ RxOnDone(t) \in Label
BY DEF Done, FragmentSent, FifoReset, RxCleared, RxOnDone, Label, Clearing, ToRx, ToTx, Fragment,
   Handling, Receiving

LEMMA MovesType ==
    ASSUME TypesOK, NEW t \in Threads, NEW p, NEW q \in Label, NEW w \in Locals, Moves(t, p, q, w)
    PROVE  /\ at' \in [Threads -> Label] /\ loc' \in [Threads -> Locals] /\ aired' = aired
           /\ at'[t] = q /\ at[t] = p
           /\ loc'[t] = w \/ q \in {"idle", "flags"}
           /\ \A s \in Threads \ {t} : at'[s] = at[s] /\ loc'[s] = loc[s]
<1>1. NoLocals \in Locals
  BY DEF NoLocals, Locals, Small, Byte
<1> QED
  BY <1>1 DEF Moves, TypesOK

LEMMA ReadsType ==
    ASSUME TypesOK, NEW t \in Threads, NEW p, NEW q \in Label, NEW w \in Locals, Reads(t, p, q, w)
    PROVE  TypesOK'
BY MovesType DEF Reads, TypesOK, calls

LEMMA TestsType ==
    ASSUME TypesOK, NEW t \in Threads, NEW p, NEW q \in Label, Tests(t, p, q)
    PROVE  TypesOK'
<1>1. loc[t] \in Locals
  BY DEF TypesOK
<1> QED
  BY <1>1, ReadsType DEF Tests

LEMMA SetsType ==
    ASSUME TypesOK, NEW t \in Threads, NEW p, NEW q \in Label, NEW s \in Driver, Sets(t, p, q, s)
    PROVE  TypesOK'
<1>1. loc[t] \in Locals
  BY DEF TypesOK
<1> QED
  BY <1>1, MovesType DEF Sets, TypesOK, calls

LEMMA TellsType ==
    ASSUME TypesOK, NEW t \in Threads, NEW p, NEW q \in Label, NEW s \in Chip, Tells(t, p, q, s)
    PROVE  TypesOK'
<1>1. loc[t] \in Locals
  BY DEF TypesOK
<1> QED
  BY <1>1, MovesType DEF Tells, TypesOK, calls

LEMMA LocalTypes ==
    ASSUME TypesOK, NEW t \in Threads
    PROVE  /\ loc[t] \in Locals /\ loc[t].i \in Small /\ loc[t].n \in Small
           /\ loc[t].i \in Nat /\ loc[t].n \in Nat /\ loc[t].k \in Nat
           /\ loc[t].b \in Seq(Octet)
           /\ \A w \in Small : I(t, w) \in Locals /\ N(t, w) \in Locals /\ K(t, w) \in Locals
           /\ \A w \in Seq(Octet) : B(t, w) \in Locals
<1>1. loc[t] \in Locals
  BY DEF TypesOK
<1>2. \A w \in Small : w \in Nat
  BY DEF Small, Byte
<1> QED
  BY <1>1, <1>2 DEF Locals, I, N, K, B

\* What the steps make of the driver and of the radio.
LEMMA DriverTypes ==
    ASSUME TypesOK
    PROVE  /\ h.len \in Small /\ h.idx \in Small /\ h.mode \in Mode /\ h.valid \in BOOLEAN
           /\ h.buf \in Buffer
           /\ h.len \in Nat /\ h.idx \in Nat
           /\ \A x \in Small : [h EXCEPT !.len = x] \in Driver /\ [h EXCEPT !.idx = x] \in Driver
           /\ \A m \in Mode : [h EXCEPT !.mode = m] \in Driver
           /\ \A x \in BOOLEAN : [h EXCEPT !.valid = x] \in Driver
           /\ \A x \in Buffer : [h EXCEPT !.buf = x] \in Driver
<1>1. h \in Driver
  BY DEF TypesOK
<1>2. /\ h.len \in Small /\ h.idx \in Small /\ h.mode \in Mode /\ h.valid \in BOOLEAN
      /\ h.buf \in Buffer
  BY <1>1 DEF Driver
<1>3. \A x \in Small : x \in Nat
  BY DEF Small, Byte
<1>4. /\ \A x \in Small : [h EXCEPT !.len = x] \in Driver /\ [h EXCEPT !.idx = x] \in Driver
      /\ \A m \in Mode : [h EXCEPT !.mode = m] \in Driver
      /\ \A x \in BOOLEAN : [h EXCEPT !.valid = x] \in Driver
      /\ \A x \in Buffer : [h EXCEPT !.buf = x] \in Driver
  BY <1>1 DEF Driver
<1> QED
  BY <1>2, <1>3, <1>4

LEMMA ChipTypes ==
    ASSUME TypesOK
    PROVE  /\ c.tx \in Seq(Octet) /\ c.rx \in Seq(Octet) /\ c.out \in Seq(Octet)
           /\ c.air \in Seq(Int \X Small) /\ c.rxLen \in Small /\ c.heard \in Nat
           /\ c.flags \in SUBSET Flag /\ c.mode \in Mode /\ c.pktLen \in Nat
           /\ TxOn \in Chip /\ RxOn \in Chip
           /\ \A x \in Seq(Octet) : [c EXCEPT !.rx = x] \in Chip /\ [c EXCEPT !.tx = x] \in Chip
           /\ [c EXCEPT !.rx = << >>, !.tx = << >>] \in Chip
           /\ \A x \in Nat : [c EXCEPT !.pktLen = x] \in Chip
           /\ [c EXCEPT !.flags = {}] \in Chip
<1>1. << >> \in Seq(Octet) /\ << >> \in Seq(Int \X Small)
  OBVIOUS
<1>2. c \in Chip
  BY DEF TypesOK
<1>3. /\ c.tx \in Seq(Octet) /\ c.rx \in Seq(Octet) /\ c.out \in Seq(Octet)
      /\ c.air \in Seq(Int \X Small) /\ c.rxLen \in Small /\ c.heard \in Nat
      /\ c.flags \in SUBSET Flag /\ c.mode \in Mode /\ c.pktLen \in Nat
  BY <1>2 DEF Chip
<1>4. \A x \in Small : x \in Nat
  BY DEF Small, Byte
<1>5. TxOn \in Chip /\ RxOn \in Chip
  BY <1>1, <1>2 DEF Chip, TxOn, RxOn, Mode
<1>6. /\ \A x \in Seq(Octet) : [c EXCEPT !.rx = x] \in Chip /\ [c EXCEPT !.tx = x] \in Chip
      /\ [c EXCEPT !.rx = << >>, !.tx = << >>] \in Chip
      /\ \A x \in Nat : [c EXCEPT !.pktLen = x] \in Chip
      /\ [c EXCEPT !.flags = {}] \in Chip
  BY <1>1, <1>2 DEF Chip
<1> QED
  BY <1>3, <1>4, <1>5, <1>6

LEMMA CallsTypes ==
    ASSUME TypesOK, NEW t \in Threads, Calls(t)
    PROVE  TypesOK'
<1> USE LocalTypes, DriverTypes, ChipTypes, ReturnTypes
<1>0. /\ Clearing \subseteq Label /\ ToRx \subseteq Label /\ ToTx \subseteq Label
      /\ Fragment \subseteq Label
  BY DEF Label
<1>1. CASE clearRxBuf(t)
  <2>1. "rx_valid" \in Label
    BY <1>0 DEF Clearing
  <2> QED
    BY <1>1, <2>1, SizeTypes, SetsType DEF clearRxBuf
<1>2. CASE resetRxFifo(t)
  <2>1. << >> \in Seq(Octet)
    OBVIOUS
  <2> QED
    BY <1>2, <2>1, TellsType DEF resetRxFifo
<1>3. CASE setModeRx(t)
  <2>1. {"rx_on", "rx_mode"} \subseteq Label /\ "rx" \in Mode
    BY <1>0 DEF ToRx, Mode
  <2> QED
    BY <1>3, <2>1, SetsType, TestsType, TellsType DEF setModeRx
<1>4. CASE setModeTx(t)
  <2>1. {"tx_on", "tx_mode", "reset_rx"} \subseteq Label /\ "tx" \in Mode
    BY <1>0 DEF ToTx, Mode
  <2> QED
    BY <1>4, <2>1, SetsType, TestsType, TellsType DEF setModeTx
<1>5. CASE startTransmit(t)
  <2>1. {"set_length", "tx"} \subseteq Label
    BY <1>0 DEF ToTx
  <2> QED
    BY <1>5, <2>1, ReadsType, TellsType DEF startTransmit
<1>6. CASE sendNextFragment(t)
  <2>0. Fragment \subseteq Label
    BY <1>0
  <2> DEFINE w == loc[t]
  <2>1. CASE \/ Reads(t, "fragment", "some_left", I(t, h.idx))
             \/ Tests(t, "some_left", IF w.i < h.len THEN "len" ELSE FragmentSent(t))
             \/ Reads(t, "len", "len_less_idx", N(t, h.len))
    BY <2>0, <2>1, ReadsType, TestsType DEF Fragment
  <2>2. CASE Reads(t, "len_less_idx", "from_idx", N(t, Lesser((w.n - h.idx) % Byte, FRAGMENT)))
    <3>0. w.n \in Nat /\ h.idx \in Nat
      OBVIOUS
    <3>1. (w.n - h.idx) % Byte \in Small /\ FRAGMENT \in Small
      <4>1. w.n - h.idx \in Int
        BY <3>0
      <4> QED
        BY <4>1, SizeTypes, ModType
    <3>2. Lesser((w.n - h.idx) % Byte, FRAGMENT) \in Small
      BY <3>1 DEF Lesser
    <3> QED
      BY <2>0, <2>2, <3>2, ReadsType DEF Fragment
  <2>3. CASE \/ Reads(t, "from_idx", "request", I(t, h.idx))
             \/ Reads(t, "idx", "add_to_idx", I(t, h.idx))
    BY <2>0, <2>3, ReadsType DEF Fragment
  <2>4. CASE Reads(t, "request", "write_fifo", B(t, Taken(Rest(h.buf, w.i), w.n)))
    <3>1. Taken(Rest(h.buf, w.i), w.n) \in Seq(Octet)
      BY BufferIsSeq, RestType, TakenType
    <3> QED
      BY <2>0, <2>4, <3>1, ReadsType DEF Fragment
  <2>5. CASE Tells(t, "write_fifo", "idx", [c EXCEPT !.tx = @ \o w.b])
    <3>1. c.tx \o w.b \in Seq(Octet)
      BY ConcatProperties
    <3> QED
      BY <2>0, <2>5, <3>1, TellsType DEF Fragment
  <2>6. CASE Sets(t, "add_to_idx", FragmentSent(t), [h EXCEPT !.idx = (w.i + w.n) % Byte])
    <3>1. (w.i + w.n) % Byte \in Small
      BY ModType
    <3> QED
      BY <2>6, <3>1, SetsType
  <2> QED
    BY <1>6, <2>1, <2>2, <2>3, <2>4, <2>5, <2>6 DEF sendNextFragment
<1> QED
  BY <1>1, <1>2, <1>3, <1>4, <1>5, <1>6 DEF Calls

LEMMA ReadFifoType ==
    ASSUME TypesOK, NEW p, NEW q \in Label, NEW n \in Nat, ReadFifo(p, q, n)
    PROVE  TypesOK'
<1>1. Taken(c.rx, n) \in Seq(Octet) /\ Rest(c.rx, n) \in Seq(Octet)
  BY ChipTypes, TakenType, RestType
<1>2. B(H, Taken(c.rx, n)) \in Locals /\ H \in Threads
  BY <1>1, LocalTypes DEF H, Threads
<1>3. [c EXCEPT !.rx = Rest(@, n)] \in Chip
  BY <1>1, ChipTypes
<1> QED
  BY <1>2, <1>3, MovesType DEF ReadFifo, TypesOK, calls

LEMMA CopiedType ==
    ASSUME TypesOK, NEW p, NEW q \in Label, Copied(p, q)
    PROVE  TypesOK'
<1>1. H \in Threads
  BY DEF H, Threads
<1>2. Written(h.buf, Hl.i, Hl.b) \in Buffer
  BY <1>1, LocalTypes, DriverTypes, WrittenType DEF Hl
<1> QED
  BY <1>1, <1>2, DriverTypes, SetsType DEF Copied

\* Reading the flags, taking the next and forgetting them.
LEMMA FlagTypes ==
    ASSUME TypesOK, ReadFlags \/ NextFlag \/ Drop
    PROVE  TypesOK'
<1>1. H \in Threads /\ Hl \in Locals
  <2>1. H \in Threads
    BY DEF H, Threads
  <2> QED
    BY <2>1, LocalTypes DEF Hl
<1>2. {"idle", "flags", "rx_len", "fragment"} \cup Handling \subseteq Label
  <2>1. {"idle"} \cup Clearing \cup Fragment \cup Handling \subseteq Label
    BY DEF Label
  <2>2. "flags" \in Handling /\ "rx_len" \in Clearing /\ "fragment" \in Fragment
    BY DEF Handling, Clearing, Fragment
  <2> QED
    BY <2>1, <2>2
<1>3. \A f \in Flag : Begins[f] \in Label
  <2> SUFFICES ASSUME NEW f \in Flag PROVE Begins[f] \in Label
    OBVIOUS
  <2>1. Begins[f] \in {"reset", "fragment", "room", "sent", "received_length", "rx_len"}
    <3>1. /\ Begins["fferror"] = "reset" /\ Begins["txffaem"] = "fragment"
          /\ Begins["rxffafull"] = "room" /\ Begins["pksent"] = "sent"
          /\ Begins["pkvalid"] = "received_length" /\ Begins["crcerror"] = "rx_len"
          /\ Begins["preaval"] = "rx_len"
      BY DEF Begins
    <3> QED
      BY <3>1 DEF Flag
  <2> QED
    BY <1>2, <2>1 DEF Handling
\* Each is a move of the handler that keeps the types of the rest.
<1>4. ASSUME NEW p, NEW q \in Label, Moves(H, p, q, Hl),
             h' \in Driver, c' \in Chip, isr' \in SUBSET Flag, flag' \in Flag \cup {"none"},
             UNCHANGED << msg, given, duty >>
      PROVE  TypesOK'
  <2>1. at' \in [Threads -> Label] /\ loc' \in [Threads -> Locals] /\ aired' = aired
    BY <1>1, <1>4, MovesType
  <2>2. /\ msg \in Seq(Int \X Nat) /\ given \in Seq(Seq(Octet)) /\ aired \in Seq(Seq(Octet))
        /\ duty \in Duties
    BY DEF TypesOK
  <2> QED
    BY <1>4, <2>1, <2>2 DEF TypesOK
<1>5. /\ h \in Driver /\ c \in Chip /\ isr \in SUBSET Flag /\ flag \in Flag \cup {"none"}
      /\ {} \in SUBSET Flag
  BY DEF TypesOK
<1>6. CASE ReadFlags
  <2>1. c.flags \in SUBSET Flag /\ [c EXCEPT !.flags = {}] \in Chip
    BY <1>5 DEF Chip
  <2>2. /\ Moves(H, "idle", "flags", Hl) /\ isr' = c.flags /\ c' = [c EXCEPT !.flags = {}]
        /\ UNCHANGED << h, flag, msg, given, duty >>
    BY <1>6 DEF ReadFlags
  <2> QED
    BY <1>2, <1>4, <1>5, <2>1, <2>2
<1>7. CASE NextFlag
  <2>1. UNCHANGED << h, c, msg, given, duty >>
    BY <1>7 DEF NextFlag
  <2>2. CASE \E f \in isr : First(f, isr) /\ Moves(H, "flags", Begins[f], Hl)
                            /\ isr' = isr \ {f} /\ flag' = f
    <3>1. PICK f \in isr : Moves(H, "flags", Begins[f], Hl) /\ isr' = isr \ {f} /\ flag' = f
      BY <2>2
    <3>2. f \in Flag /\ isr' \in SUBSET Flag
      BY <1>5, <3>1
    <3>3. Begins[f] \in Label
      BY <1>3, <3>2
    <3> QED
      BY <1>4, <1>5, <2>1, <3>1, <3>2, <3>3
  <2>3. CASE isr = {} /\ Moves(H, "flags", "idle", Hl) /\ isr' = {} /\ flag' = "none"
    BY <1>2, <1>4, <1>5, <2>1, <2>3
  <2> QED
    BY <1>7, <2>2, <2>3 DEF NextFlag
<1>8. CASE Drop
  <2>1. [h EXCEPT !.mode = "idle"] \in Driver
    BY <1>5 DEF Driver, Mode
  <2>2. /\ Moves(H, "stupid", "rx_len", Hl) /\ h' = [h EXCEPT !.mode = "idle"] /\ isr' = {}
        /\ UNCHANGED << c, flag, msg, given, duty >>
    BY <1>8 DEF Drop
  <2> QED
    BY <1>2, <1>4, <1>5, <2>1, <2>2
<1> QED
  BY <1>6, <1>7, <1>8

LEMMA HandlerTypes ==
    ASSUME TypesOK, handleInterrupt
    PROVE  TypesOK'
<1> USE DriverTypes, ChipTypes, ReturnTypes
<1>0. /\ H \in Threads /\ Hl \in Locals /\ Hl.i \in Nat /\ Hl.n \in Small /\ Hl.k \in Nat
      /\ Hl.n \in Nat
      /\ \A w \in Small : I(H, w) \in Locals /\ N(H, w) \in Locals /\ K(H, w) \in Locals
      /\ {"idle", "flags"} \subseteq Label /\ Clearing \subseteq Label /\ ToRx \subseteq Label
      /\ Handling \subseteq Label /\ Fragment \subseteq Label /\ Restart \subseteq Label
      /\ {"idle", "tx", "rx"} = Mode /\ 0 \in Small /\ TRUE \in BOOLEAN
  <2>1. H \in Threads
    BY DEF H, Threads
  <2>2. Hl = loc[H]
    BY DEF Hl
  <2>3. {"idle", "flags"} \subseteq Label /\ {"idle", "tx", "rx"} = Mode
    BY DEF Label, Mode, Handling
  <2>4. /\ Clearing \subseteq Label /\ ToRx \subseteq Label /\ Handling \subseteq Label
        /\ Fragment \subseteq Label /\ Restart \subseteq Label
    BY DEF Label
  <2> QED
    BY <2>1, <2>2, <2>3, <2>4, SizeTypes, LocalTypes
<1>1. CASE ReadFlags
  BY <1>1, FlagTypes
<1>2. CASE NextFlag
  BY <1>2, FlagTypes
<1>3. CASE FifoError
  <2>1. {"if_tx", "restart", "if_rx", "rx_len", "flags", "first_idx", "fragment"} \subseteq Label
    BY <1>0 DEF Handling, Restart, Clearing, Fragment
  <2>2. CASE resetFifos
    BY <1>0, <2>1, <2>2, TellsType DEF resetFifos
  <2>3. CASE restartTransmit
    BY <1>0, <2>1, <2>3, SetsType DEF restartTransmit
  <2> QED
    BY <1>0, <1>3, <2>1, <2>2, <2>3, TestsType DEF FifoError
<1>4. CASE readNextFragment
  <2>1. {"flags", "longer"} \cup MoreRoom \subseteq Label /\ RF22_RXFFAFULL_THRESHOLD \in Nat
    BY <1>0, SizeTypes DEF Handling
  <2>2. CASE Sets(H, "longer", "flags", [h EXCEPT !.len = (Hl.i + RF22_RXFFAFULL_THRESHOLD) % Byte])
    <3>1. (Hl.i + RF22_RXFFAFULL_THRESHOLD) % Byte \in Small
      BY <1>0, <2>1, ModType
    <3> QED
      BY <1>0, <2>1, <2>2, <3>1, SetsType
  <2> QED
    BY <1>0, <1>4, <2>1, <2>2, TestsType, ReadsType, ReadFifoType, CopiedType
       DEF readNextFragment, MoreRoom
<1>5. CASE PacketSent \/ CrcError
  <2>1. {"flags", "rx"} \subseteq Label
    BY <1>0 DEF ToRx
  <2> QED
    BY <1>0, <1>5, <2>1, SetsType DEF PacketSent, CrcError
<1>6. CASE PacketValid
  <2>1. {"flags", "if_stupid", "stupid", "received", "validate", "rx_len"} \cup Measured
          \subseteq Label
    BY <1>0 DEF Handling, Clearing
  <2>2. CASE Drop
    BY <2>2, FlagTypes
  <2>3. CASE Reads(H, "octets_left", "read_rest", K(H, (Hl.n - h.len) % Byte))
    <3>1. (Hl.n - h.len) % Byte \in Small
      BY <1>0, ModType
    <3> QED
      BY <1>0, <2>1, <2>3, <3>1, ReadsType DEF Measured
  <2>4. CASE Sets(H, "new_len", "received", [h EXCEPT !.len = Hl.n])
    BY <1>0, <2>1, <2>4, SetsType
  <2>5. CASE \/ Sets(H, "received", "validate", [h EXCEPT !.mode = "idle"])
             \/ Sets(H, "validate", "flags", [h EXCEPT !.valid = TRUE])
    BY <1>0, <2>1, <2>5, SetsType
  <2>6. CASE \/ Reads(H, "received_length", "if_stupid", N(H, c.rxLen))
             \/ Tests(H, "if_stupid",
                  IF Hl.n > RF22_MAX_MESSAGE_LEN \/ Hl.n < h.len THEN "stupid" ELSE "end")
             \/ Reads(H, "end", "octets_left", I(H, h.len))
    BY <1>0, <2>1, <2>6, ReadsType, TestsType DEF Measured
  <2>7. CASE \/ ReadFifo("read_rest", "copy_rest", Hl.k)
             \/ Copied("copy_rest", "new_len")
    BY <1>0, <2>1, <2>7, ReadFifoType, CopiedType DEF Measured
  <2> QED
    BY <1>6, <2>2, <2>3, <2>4, <2>5, <2>6, <2>7 DEF PacketValid
<1> QED
  BY <1>0, <1>1, <1>2, <1>3, <1>4, <1>5, <1>6, CallsTypes DEF handleInterrupt

LEMMA ProgramTypes ==
    ASSUME TypesOK, Program
    PROVE  TypesOK'
<1> USE DriverTypes, ReturnTypes, SizeTypes
<1>0. /\ P \in Threads /\ Pl \in Locals /\ Pl.i \in Nat /\ Pl.n \in Nat
      /\ \A w \in Small : I(P, w) \in Locals /\ N(P, w) \in Locals
  <2>1. P \in Threads /\ Pl = loc[P]
    BY DEF P, Pl, Threads
  <2> QED
    BY <2>1, LocalTypes
<1>1. /\ {"idle"} \cup Filling \subseteq Label /\ Receiving \subseteq Label
      /\ {"rx", "rx_len", "fragment"} \subseteq Label
  BY DEF Label, ToRx, Clearing, Fragment
<1>2. CASE Send
  <2>1. PICK k \in duty.send : msg' = Bytes(Len(given) + 1, k)
    BY <1>2 DEF Send
  <2>2. k \in Nat /\ Len(given) + 1 \in Int
    <3>1. k \in 0 .. Byte - 1
      BY DutyAssumption DEF TypesOK
    <3>2. Len(given) \in Nat
      BY DEF TypesOK
    <3>3. k \in Nat
      BY <3>1 DEF Byte
    <3> QED
      BY <3>2, <3>3
  <2>3. msg' \in Seq(Int \X Nat)
    BY <2>1, <2>2 DEF Bytes
  <2>4. "wait" \in Label
    BY <1>1 DEF Filling
  <2>5. at' \in [Threads -> Label] /\ loc' \in [Threads -> Locals] /\ aired' = aired
    BY <1>0, <1>2, <2>4, MovesType DEF Send
  <2> QED
    BY <1>2, <2>3, <2>5 DEF Send, TypesOK
<1>3. CASE fillTxBuf
  <2>1. {"tx_len", "tx_idx", "fits", "idle"} \subseteq Label
    BY <1>1 DEF Filling
  <2> QED
    BY <1>0, <1>3, <2>1, SetsType, TestsType DEF fillTxBuf
<1>4. CASE appendTxBuf
  <2>1. {"to", "copy_in", "sum", "add", "idle"} \subseteq Label
    BY <1>1 DEF Filling
  <2>2. msg \in Seq(Octet) /\ Len(msg) \in Nat
    BY DEF TypesOK, Octet
  <2>3. CASE Sets(P, "copy_in", "sum", [h EXCEPT !.buf = Written(@, Pl.i, msg)])
    <3>1. Written(h.buf, Pl.i, msg) \in Buffer
      BY <1>0, <2>2, WrittenType
    <3> QED
      BY <1>0, <2>1, <2>3, <3>1, SetsType
  <2>4. CASE Accept
    <3>1. (Pl.i + Len(msg)) % Byte \in Small
      <4>1. Pl.i + Len(msg) \in Int
        BY <1>0, <2>2
      <4> QED
        BY <4>1, ModType
    <3>2. [h EXCEPT !.len = (Pl.i + Len(msg)) % Byte] \in Driver
      BY <3>1
    <3>3. Append(given, msg) \in Seq(Seq(Octet))
      BY <2>2, AppendProperties DEF TypesOK
    <3>4. at' \in [Threads -> Label] /\ loc' \in [Threads -> Locals] /\ aired' = aired
      BY <1>0, <1>1, <2>4, MovesType DEF Accept
    <3> QED
      BY <2>4, <3>2, <3>3, <3>4 DEF Accept, TypesOK
  <2> QED
    BY <1>0, <1>4, <2>1, <2>3, <2>4, ReadsType, TestsType DEF appendTxBuf
<1>5. CASE recv
  <2>1. {"idle"} \cup Receiving \cup {"rx", "rx_len"} \subseteq Label
    BY <1>1
  <2>2. CASE available
    BY <1>0, <2>1, <2>2, TestsType DEF available, Receiving
  <2>3. CASE Copy
    BY <1>0, <2>1, <2>3, TestsType DEF Copy, Receiving
  <2> QED
    BY <1>0, <1>5, <2>1, <2>2, <2>3, ReadsType DEF recv, Receiving
<1> QED
  BY <1>0, <1>2, <1>3, <1>4, <1>5, CallsTypes DEF Program

LEMMA RadioTypes ==
    ASSUME TypesOK, Transmitter \/ Preamble \/ ReceiveByte
    PROVE  TypesOK'
<1>0. c \in Chip /\ << >> \in Seq(Octet)
  BY DEF TypesOK
<1>1. \A s \in Chip : \A f \in Flag : Raise(s, f) \in Chip
  BY DEF Raise, Chip
<1>2. c' \in Chip
  <2>1. CASE TransmitByte
    <3> DEFINE s == [c EXCEPT !.out = Append(c.out, Head(c.tx)), !.tx = Tail(c.tx)]
    <3>1. Append(c.out, Head(c.tx)) \in Seq(Octet) /\ Tail(c.tx) \in Seq(Octet)
      <4>1. c.out \in Seq(Octet) /\ c.tx \in Seq(Octet) /\ c.tx # << >>
        BY <2>1, ChipTypes DEF TransmitByte
      <4> QED
        BY <4>1
    <3>2. s \in Chip
      BY <1>0, <3>1 DEF Chip
    <3>3. c' \in {s, Raise(s, "txffaem")}
      BY <1>0, <2>1 DEF TransmitByte, Chip
    <3> HIDE DEF s
    <3> QED
      BY <1>1, <3>2, <3>3 DEF Flag
  <2>2. CASE Underflow \/ TransmitEnd
    <3>1. [c EXCEPT !.mode = "idle", !.out = << >>] \in Chip
      BY <1>0 DEF Chip, Mode
    <3> QED
      BY <1>1, <2>2, <3>1 DEF Underflow, TransmitEnd, Flag
  <2>3. CASE Preamble
    <3>1. PICK k \in duty.hear :
            c' = Raise([c EXCEPT !.air = Bytes(-(c.heard + 1), k), !.heard = c.heard + 1], "preaval")
      BY <1>0, <2>3 DEF Preamble, Chip
    <3>2. Bytes(-(c.heard + 1), k) \in Seq(Int \X Small) /\ c.heard + 1 \in Nat
      <4>1. k \in 1 .. Byte - 1
        BY DutyAssumption DEF TypesOK
      <4>2. c.heard \in Nat
        BY ChipTypes
      <4>3. k \in Nat /\ \A i \in 1 .. k : i \in Small
        BY <4>1 DEF Byte, Small
      <4>4. Bytes(-(c.heard + 1), k) \in [1 .. k -> Int \X Small]
        BY <4>2, <4>3 DEF Bytes
      <4> QED
        BY <4>2, <4>3, <4>4
    <3>3. [c EXCEPT !.air = Bytes(-(c.heard + 1), k), !.heard = c.heard + 1] \in Chip
      BY <1>0, <3>2 DEF Chip
    <3> QED
      BY <1>1, <3>1, <3>3 DEF Flag
  <2>4. CASE ReceiveByte
    <3> DEFINE full == Len(c.rx) = RF22_FIFO_SIZE
               s == [c EXCEPT !.rx = IF full THEN c.rx ELSE Append(c.rx, Head(c.air)),
                              !.air = Tail(c.air)]
               t == IF full THEN Raise(s, "fferror")
                    ELSE IF Len(s.rx) = RF22_RXFFAFULL_THRESHOLD THEN Raise(s, "rxffafull") ELSE s
               e == [t EXCEPT !.mode = "idle", !.rxLen = Head(c.air)[2]]
    <3>1. /\ Tail(c.air) \in Seq(Int \X Small) /\ Head(c.air)[2] \in Small
          /\ c.rx \in Seq(Octet) /\ Append(c.rx, Head(c.air)) \in Seq(Octet)
      <4>1. c.air \in Seq(Int \X Small) /\ c.air # << >> /\ c.rx \in Seq(Octet)
        BY <2>4, ChipTypes DEF ReceiveByte
      <4>2. Head(c.air) \in Int \X Small /\ Tail(c.air) \in Seq(Int \X Small)
        BY <4>1
      <4>3. Head(c.air) \in Octet
        <5>1. \A n \in Small : n \in Nat
          BY DEF Small, Byte
        <5> QED
          BY <4>2, <5>1 DEF Octet
      <4> QED
        BY <4>1, <4>2, <4>3, AppendProperties
    <3>2. s \in Chip
      BY <1>0, <3>1 DEF Chip
    <3>3. c' = t \/ c' = Raise(e, "pkvalid") \/ c' = Raise(e, "crcerror")
      BY <1>0, <2>4 DEF ReceiveByte, Chip
    <3> HIDE DEF s
    <3>4. t \in Chip
      BY <1>1, <3>2 DEF Flag
    <3> HIDE DEF t
    <3>5. e \in Chip
      BY <3>1, <3>4 DEF Chip, Mode
    <3> HIDE DEF e
    <3> QED
      BY <1>1, <3>3, <3>4, <3>5 DEF Flag
  <2> QED
    BY <2>1, <2>2, <2>3, <2>4 DEF Transmitter
<1>3. aired' \in Seq(Seq(Octet))
  <2>1. aired' = aired \/ aired' = Append(aired, c.out)
    BY DEF Transmitter, TransmitByte, Underflow, TransmitEnd, Preamble, ReceiveByte
  <2>2. aired \in Seq(Seq(Octet)) /\ c.out \in Seq(Octet)
    BY ChipTypes DEF TypesOK
  <2> QED
    BY <2>1, <2>2, AppendProperties
<1>4. UNCHANGED << h, at, loc, calls >>
  BY DEF Transmitter, TransmitByte, Underflow, TransmitEnd, Preamble, ReceiveByte, Radio
<1> QED
  BY <1>2, <1>3, <1>4 DEF TypesOK, calls

LEMMA TypesInit == Init => TypesOK
<1>1. << >> \in Seq(Octet) /\ << >> \in Seq(Int \X Small) /\ << >> \in Seq(Seq(Octet))
      /\ << >> \in Seq(Int \X Nat)
  OBVIOUS
<1>2. Bytes(0, RF22_MAX_MESSAGE_LEN) \in Buffer
  BY SizeTypes DEF Bytes, Buffer, Octet, Small, Byte
<1>3. NoLocals \in Locals
  BY <1>1, SizeTypes DEF NoLocals, Locals
<1>4. "idle" \in Label
  BY DEF Label
<1> SUFFICES ASSUME Init PROVE TypesOK
  OBVIOUS
<1>5. h \in Driver
  BY <1>2, SizeTypes DEF Init, Driver, Mode
<1>6. c \in Chip
  BY <1>1, SizeTypes DEF Init, Chip, Mode
<1>7. at \in [Threads -> Label] /\ loc \in [Threads -> Locals]
  BY <1>3, <1>4 DEF Init
<1> QED
  BY <1>1, <1>5, <1>6, <1>7 DEF Init, TypesOK

LEMMA TypesStep == TypesOK /\ [Next]_vars => TypesOK'
<1>1. ASSUME TypesOK, UNCHANGED vars PROVE TypesOK'
  BY <1>1 DEF vars, calls, TypesOK
<1> QED
  BY <1>1, HandlerTypes, ProgramTypes, RadioTypes DEF Next

-----------------------------------------------------------------------------
(* What a step of one thread or the other does, and what it leaves alone. *)

LEMMA ProgramMoves ==
    ASSUME TypesOK, NEW p, NEW q, NEW w, Moves(P, p, q, w)
    PROVE  at[P] = p /\ at'[P] = q /\ at'[H] = at[H] /\ loc'[H] = loc[H] /\ aired' = aired
BY DEF Moves, TypesOK, Threads, P, H

LEMMA ProgramLocals ==
    ASSUME TypesOK, NEW p, NEW q, NEW w, Moves(P, p, q, w), q # "idle", q # "flags"
    PROVE  loc'[P] = w
BY DEF Moves, TypesOK, Threads, P, H

LEMMA HandlerMoves ==
    ASSUME TypesOK, NEW p, NEW q, NEW w, Moves(H, p, q, w)
    PROVE  at[H] = p /\ at'[H] = q /\ at'[P] = at[P] /\ loc'[P] = loc[P] /\ aired' = aired
BY DEF Moves, TypesOK, Threads, P, H

LEMMA HandlerLocals ==
    ASSUME TypesOK, NEW p, NEW q, NEW w, Moves(H, p, q, w), q # "idle", q # "flags"
    PROVE  loc'[H] = w
BY DEF Moves, TypesOK, Threads, P, H

\* The step of one thread leaves the other where it is.
ByProgram(p, q) ==
    /\ at[P] = p /\ at'[P] = q /\ at'[H] = at[H] /\ loc'[H] = loc[H] /\ aired' = aired
    /\ isr' = isr /\ flag' = flag /\ msg' = msg /\ given' = given /\ duty' = duty
ByHandler(p, q) ==
    /\ at[H] = p /\ at'[H] = q /\ at'[P] = at[P] /\ loc'[P] = loc[P] /\ aired' = aired
    /\ isr' = isr /\ flag' = flag /\ msg' = msg /\ given' = given /\ duty' = duty

LEMMA ProgramSteps ==
    ASSUME TypesOK, NEW p, NEW q, NEW w
    PROVE  /\ Reads(P, p, q, w) => ByProgram(p, q) /\ h' = h /\ c' = c
           /\ Tests(P, p, q) => ByProgram(p, q) /\ h' = h /\ c' = c
           /\ Sets(P, p, q, w) => ByProgram(p, q) /\ h' = w /\ c' = c
           /\ Tells(P, p, q, w) => ByProgram(p, q) /\ h' = h /\ c' = w
BY ProgramMoves DEF Reads, Tests, Sets, Tells, calls, ByProgram

LEMMA HandlerSteps ==
    ASSUME TypesOK, NEW p, NEW q, NEW w
    PROVE  /\ Reads(H, p, q, w) => ByHandler(p, q) /\ h' = h /\ c' = c
           /\ Tests(H, p, q) => ByHandler(p, q) /\ h' = h /\ c' = c
           /\ Sets(H, p, q, w) => ByHandler(p, q) /\ h' = w /\ c' = c
           /\ Tells(H, p, q, w) => ByHandler(p, q) /\ h' = h /\ c' = w
BY HandlerMoves DEF Reads, Tests, Sets, Tells, calls, ByHandler

\* A member that is set leaves the others alone.
LEMMA Fields ==
    ASSUME TypesOK
    PROVE  /\ \A x : /\ [h EXCEPT !.len = x].len = x /\ [h EXCEPT !.len = x].mode = h.mode
                    /\ [h EXCEPT !.len = x].idx = h.idx /\ [h EXCEPT !.len = x].buf = h.buf
           /\ \A x : /\ [h EXCEPT !.mode = x].mode = x /\ [h EXCEPT !.mode = x].len = h.len
                    /\ [h EXCEPT !.mode = x].idx = h.idx /\ [h EXCEPT !.mode = x].buf = h.buf
           /\ \A x : /\ [h EXCEPT !.idx = x].idx = x /\ [h EXCEPT !.idx = x].len = h.len
                    /\ [h EXCEPT !.idx = x].mode = h.mode /\ [h EXCEPT !.idx = x].buf = h.buf
           /\ \A x : /\ [h EXCEPT !.buf = x].buf = x /\ [h EXCEPT !.buf = x].len = h.len
                    /\ [h EXCEPT !.buf = x].mode = h.mode /\ [h EXCEPT !.buf = x].idx = h.idx
           /\ \A x : /\ [h EXCEPT !.valid = x].buf = h.buf /\ [h EXCEPT !.valid = x].len = h.len
                    /\ [h EXCEPT !.valid = x].mode = h.mode /\ [h EXCEPT !.valid = x].idx = h.idx
BY DriverTypes DEF TypesOK, Driver

\* And a register of the radio too.
LEMMA Registers ==
    ASSUME TypesOK
    PROVE  /\ \A x : /\ [c EXCEPT !.rx = x].mode = c.mode /\ [c EXCEPT !.rx = x].flags = c.flags
                    /\ [c EXCEPT !.rx = x].tx = c.tx /\ [c EXCEPT !.rx = x].out = c.out
                    /\ [c EXCEPT !.rx = x].pktLen = c.pktLen
           /\ \A x : /\ [c EXCEPT !.tx = x].mode = c.mode /\ [c EXCEPT !.tx = x].flags = c.flags
                    /\ [c EXCEPT !.tx = x].tx = x /\ [c EXCEPT !.tx = x].out = c.out
                    /\ [c EXCEPT !.tx = x].pktLen = c.pktLen
           /\ \A x : /\ [c EXCEPT !.pktLen = x].mode = c.mode /\ [c EXCEPT !.pktLen = x].tx = c.tx
                    /\ [c EXCEPT !.pktLen = x].flags = c.flags /\ [c EXCEPT !.pktLen = x].out = c.out
                    /\ [c EXCEPT !.pktLen = x].pktLen = x
           /\ \A x : /\ [c EXCEPT !.flags = x].mode = c.mode /\ [c EXCEPT !.flags = x].tx = c.tx
                    /\ [c EXCEPT !.flags = x].flags = x /\ [c EXCEPT !.flags = x].out = c.out
                    /\ [c EXCEPT !.flags = x].pktLen = c.pktLen
           /\ [c EXCEPT !.rx = << >>, !.tx = << >>].mode = c.mode
           /\ [c EXCEPT !.rx = << >>, !.tx = << >>].flags = c.flags
           /\ RxOn.mode = "rx" /\ RxOn.flags = c.flags
           /\ TxOn.mode = "tx" /\ TxOn.flags = c.flags /\ TxOn.out = c.out /\ TxOn.tx = c.tx
           /\ TxOn.pktLen = c.pktLen
BY DEF TypesOK, Chip, RxOn, TxOn

LEMMA ListensProgram ==
    ASSUME TypesOK, Listens, duty.sends = 0, Program
    PROVE  Listens'
<1> DEFINE Places == {"idle"} \cup Clearing \cup ToRx \cup Receiving
           Easy(q) == /\ h'.len = 0 \/ h'.len = h.len
                      /\ h'.mode = h.mode \/ h'.mode = "rx"
                      /\ c'.mode = c.mode \/ c'.mode = "rx"
                      /\ c'.flags = c.flags /\ isr' = isr
                      /\ at'[P] = q /\ at'[H] = at[H] /\ loc'[H] = loc[H]
<1>1. ASSUME NEW q \in Places, Easy(q) PROVE Listens'
  <2>0. /\ h.len <= RF22_MAX_MESSAGE_LEN /\ h.len \in Nat
        /\ at[H] \in MoreRoom => h.len + RF22_RXFFAFULL_THRESHOLD <= RF22_MAX_MESSAGE_LEN
    BY DriverTypes DEF Listens
  <2>1. h'.len <= RF22_MAX_MESSAGE_LEN
    BY <1>1, <2>0, LengthAssumption
  <2>2. at'[H] \in MoreRoom => h'.len + RF22_RXFFAFULL_THRESHOLD <= RF22_MAX_MESSAGE_LEN
    BY <1>1, <2>0, LengthAssumption
  <2>3. /\ h'.mode # "tx" /\ c'.mode # "tx" /\ "txffaem" \notin c'.flags \cup isr'
        /\ at'[P] \in {"idle"} \cup Clearing \cup ToRx \cup Receiving
    BY <1>1 DEF Listens
  <2> QED
    BY <1>1, <2>1, <2>2, <2>3 DEF Listens
<1>2. {"size", "rx", "idle", "cut", "copy_out", "rx_len", "rx_valid", "rx_on", "rx_mode", "again"} \subseteq Places
  BY DEF Clearing, ToRx, Receiving
<1>3. RxCleared(P) = "idle" /\ RxOnDone(P) = "again"
  BY DEF RxCleared, RxOnDone, Done, Handles, P
<1>4. at[P] \in Places /\ c.flags = c.flags
  BY DEF Listens
<1>5. ~Send /\ ~fillTxBuf /\ ~appendTxBuf /\ ~sendNextFragment(P) /\ ~startTransmit(P)
      /\ ~setModeTx(P) /\ ~resetRxFifo(P)
  <2>1. ~Send
    <3>1. Len(given) >= 0
      BY DEF TypesOK
    <3> QED
      BY <3>1 DEF Send
  <2>2. ~fillTxBuf /\ ~appendTxBuf
    BY <1>4 DEF fillTxBuf, appendTxBuf, Accept, Reads, Tests, Sets, Moves, Clearing, ToRx, Receiving
  <2>3. ~sendNextFragment(P) /\ ~startTransmit(P)
    BY <1>4 DEF sendNextFragment, startTransmit, Reads, Tests, Sets, Tells, Moves, Clearing, ToRx, Receiving
  <2>4. ~setModeTx(P) /\ ~resetRxFifo(P)
    BY <1>4 DEF setModeTx, resetRxFifo, Reads, Tests, Sets, Tells, Moves, Clearing, ToRx, Receiving
  <2> QED
    BY <2>1, <2>2, <2>3, <2>4
<1> HIDE DEF Places
<1>6. CASE recv
  <2>1. CASE available
    <3>1. PICK p, q : Tests(P, p, q) /\ q \in Places
      BY <1>2, <2>1 DEF available
    <3> QED
      BY <1>1, <3>1, ProgramSteps DEF ByProgram
  <2>2. CASE Copy
    <3>1. Tests(P, "copy_out", "rx_len") /\ "rx_len" \in Places
      BY <1>2, <2>2 DEF Copy
    <3> QED
      BY <1>1, <3>1, ProgramSteps DEF ByProgram
  <2>3. CASE \/ Reads(P, "size", IF RF22_MAX_MESSAGE_LEN > h.len THEN "cut" ELSE "copy_out",
                      N(P, RF22_MAX_MESSAGE_LEN))
             \/ Reads(P, "cut", "copy_out", N(P, h.len))
    <3>1. PICK p, q, w : Reads(P, p, q, w) /\ q \in Places
      BY <1>2, <2>3
    <3> QED
      BY <1>1, <3>1, ProgramSteps DEF ByProgram
  <2> QED
    BY <1>6, <2>1, <2>2, <2>3 DEF recv
<1>7. CASE clearRxBuf(P)
  <2>1. CASE Sets(P, "rx_len", "rx_valid", [h EXCEPT !.len = 0])
    <3>1. h' = [h EXCEPT !.len = 0] /\ c' = c /\ ByProgram("rx_len", "rx_valid")
      BY <2>1, ProgramSteps
    <3>2. h'.len = 0 /\ h'.mode = h.mode
      BY <3>1, Fields
    <3> QED
      BY <1>1, <1>2, <3>1, <3>2 DEF ByProgram
  <2>2. CASE Sets(P, "rx_valid", RxCleared(P), [h EXCEPT !.valid = FALSE])
    <3>1. h' = [h EXCEPT !.valid = FALSE] /\ c' = c /\ ByProgram("rx_valid", "idle")
      BY <1>3, <2>2, ProgramSteps
    <3>2. h'.len = h.len /\ h'.mode = h.mode
      BY <3>1, Fields
    <3> QED
      BY <1>1, <1>2, <3>1, <3>2 DEF ByProgram
  <2> QED
    BY <1>7, <2>1, <2>2 DEF clearRxBuf
<1>8. CASE setModeRx(P)
  <2>1. CASE Tests(P, "rx", IF h.mode = "rx" THEN RxOnDone(P) ELSE "rx_on")
    <3>1. PICK q : Tests(P, "rx", q) /\ q \in Places
      BY <1>2, <1>3, <2>1
    <3> QED
      BY <1>1, <3>1, ProgramSteps DEF ByProgram
  <2>2. CASE Tells(P, "rx_on", "rx_mode", RxOn)
    <3>1. c' = RxOn /\ h' = h /\ ByProgram("rx_on", "rx_mode")
      BY <2>2, ProgramSteps
    <3>2. c'.mode = "rx" /\ c'.flags = c.flags
      BY <3>1, Registers
    <3> QED
      BY <1>1, <1>2, <3>1, <3>2 DEF ByProgram
  <2>3. CASE Sets(P, "rx_mode", RxOnDone(P), [h EXCEPT !.mode = "rx"])
    <3>1. h' = [h EXCEPT !.mode = "rx"] /\ c' = c /\ ByProgram("rx_mode", "again")
      BY <1>3, <2>3, ProgramSteps
    <3>2. h'.len = h.len /\ h'.mode = "rx"
      BY <3>1, Fields
    <3> QED
      BY <1>1, <1>2, <3>1, <3>2 DEF ByProgram
  <2> QED
    BY <1>8, <2>1, <2>2, <2>3 DEF setModeRx
<1> QED
  BY <1>5, <1>6, <1>7, <1>8 DEF Program, Calls

\* The handler's labels at which it has measured nothing, and the others.
Idling == {"flags", "reset", "if_tx", "if_rx", "room", "sent", "received_length", "if_stupid",
           "stupid", "received", "validate", "keep_trying", "idle", "reset_rx"}
          \cup Clearing \cup ToRx

LEMMA HandlerPlaces ==
    /\ Idling \cup MoreRoom \cup Measured \cup {"longer"}
         = {"idle", "reset_rx"} \cup Clearing \cup ToRx \cup Handling
    /\ Idling \cap MoreRoom = {} /\ Idling \cap Measured = {} /\ MoreRoom \cap Measured = {}
    /\ "longer" \notin Idling /\ "longer" \notin Measured /\ "longer" \notin MoreRoom
<1>1. /\ Idling \cap MoreRoom = {} /\ Idling \cap Measured = {} /\ MoreRoom \cap Measured = {}
      /\ "longer" \notin Idling /\ "longer" \notin Measured /\ "longer" \notin MoreRoom
  BY DEF Idling, MoreRoom, Measured, Clearing, ToRx
<1>2. Idling \cup MoreRoom \cup Measured \cup {"longer"}
        = {"idle", "reset_rx"} \cup Clearing \cup ToRx \cup Handling
  BY DEF Idling, Handling
<1> QED
  BY <1>1, <1>2

\* A step of the handler to such a place that makes the message no longer.
LEMMA IdlingListens ==
    ASSUME TypesOK, Listens, NEW q \in Idling,
           at'[P] = at[P], at'[H] = q,
           h'.len = 0 \/ h'.len = h.len, h'.mode # "tx", c'.mode # "tx",
           "txffaem" \notin c'.flags \cup isr'
    PROVE  Listens'
<1>1. h.len <= RF22_MAX_MESSAGE_LEN /\ h.len \in Nat
  BY DriverTypes DEF Listens
<1>2. h'.len <= RF22_MAX_MESSAGE_LEN
  BY <1>1, LengthAssumption
<1>3. /\ at'[H] \in {"idle", "reset_rx"} \cup Clearing \cup ToRx \cup Handling
      /\ at'[H] \notin MoreRoom /\ at'[H] \notin Measured /\ at'[H] # "longer"
  BY HandlerPlaces
<1>4. at'[P] \in {"idle"} \cup Clearing \cup ToRx \cup Receiving
  BY DEF Listens
<1> QED
  BY <1>2, <1>3, <1>4 DEF Listens

LEMMA ListensFlags ==
    ASSUME TypesOK, Listens, ReadFlags \/ NextFlag
    PROVE  Listens'
<1>0. h.mode # "tx" /\ c.mode # "tx" /\ "txffaem" \notin c.flags \cup isr
  BY DEF Listens
<1>1. "idle" \in Idling /\ "flags" \in Idling
      /\ {"reset", "room", "sent", "received_length", "rx_len"} \subseteq Idling
  BY DEF Idling, Clearing
<1>2. CASE ReadFlags
  <2>1. /\ at'[P] = at[P] /\ at'[H] = "flags"
    BY <1>2, HandlerMoves DEF ReadFlags
  <2>2. h' = h /\ c'.mode = c.mode /\ c'.flags = {} /\ isr' = c.flags
    BY <1>2, Registers DEF ReadFlags
  <2> QED
    BY <1>0, <1>1, <2>1, <2>2, IdlingListens
<1>3. CASE NextFlag
  <2>0. h' = h /\ c' = c
    BY <1>3 DEF NextFlag
  <2>1. CASE isr = {} /\ Moves(H, "flags", "idle", Hl) /\ isr' = {}
    <3>1. at'[P] = at[P] /\ at'[H] = "idle"
      BY <2>1, HandlerMoves
    <3> QED
      BY <1>0, <1>1, <2>0, <2>1, <3>1, IdlingListens
  <2>2. CASE \E f \in isr : Moves(H, "flags", Begins[f], Hl) /\ isr' = isr \ {f}
    <3>1. PICK f \in isr : Moves(H, "flags", Begins[f], Hl) /\ isr' = isr \ {f}
      BY <2>2
    <3>2. f \in Flag \ {"txffaem"}
      BY <1>0, <3>1 DEF TypesOK
    <3>3. Begins[f] \in {"reset", "room", "sent", "received_length", "rx_len"}
      <4>1. /\ Begins["fferror"] = "reset" /\ Begins["rxffafull"] = "room"
            /\ Begins["pksent"] = "sent" /\ Begins["pkvalid"] = "received_length"
            /\ Begins["crcerror"] = "rx_len" /\ Begins["preaval"] = "rx_len"
        BY DEF Begins
      <4> QED
        BY <3>2, <4>1 DEF Flag
    <3>4. at'[P] = at[P] /\ at'[H] = Begins[f]
      BY <3>1, HandlerMoves
    <3> QED
      BY <1>0, <1>1, <2>0, <3>1, <3>3, <3>4, IdlingListens
  <2> QED
    BY <1>3, <2>1, <2>2 DEF NextFlag
<1> QED
  BY <1>2, <1>3

LEMMA ListensCalls ==
    ASSUME TypesOK, Listens, Calls(H) \/ FifoError \/ PacketSent \/ CrcError
    PROVE  Listens'
<1>0. h.mode # "tx" /\ c.mode # "tx" /\ "txffaem" \notin c.flags \cup isr
  BY DEF Listens
<1>1. {"idle", "flags", "rx_len", "rx_valid", "reset_rx", "keep_trying", "rx", "rx_on", "rx_mode",
       "if_tx", "if_rx"} \subseteq Idling
  BY DEF Idling, Clearing, ToRx
<1>2. {RxCleared(H), RxOnDone(H), FifoReset(H)} \subseteq Idling
  BY <1>1 DEF Done, RxCleared, RxOnDone, FifoReset, Handles, P, H
<1>3. ~sendNextFragment(H) /\ ~startTransmit(H) /\ ~restartTransmit /\ ~setModeTx(H)
  <2>1. at[H] \in {"idle", "reset_rx"} \cup Clearing \cup ToRx \cup Handling
    BY DEF Listens
  <2>2. at[H] \notin Fragment \cup Restart \cup {"packet_length", "set_length", "tx", "tx_on", "tx_mode"}
    BY <2>1 DEF Fragment, Restart, Handling, Clearing, ToRx, MoreRoom, Measured
  <2>3. ~sendNextFragment(H) /\ ~startTransmit(H)
    BY <2>2 DEF sendNextFragment, startTransmit, Reads, Tests, Sets, Tells, Moves, Fragment
  <2>4. ~restartTransmit /\ ~setModeTx(H)
    BY <2>2 DEF restartTransmit, setModeTx, Reads, Tests, Sets, Tells, Moves, Restart
  <2> QED
    BY <2>3, <2>4
<1>4. ASSUME NEW p, NEW q \in Idling, Tests(H, p, q) PROVE Listens'
  <2>1. ByHandler(p, q) /\ h' = h /\ c' = c
    BY <1>4, HandlerSteps
  <2> QED
    BY <1>0, <2>1, IdlingListens DEF ByHandler
<1>5. ASSUME NEW p, NEW q \in Idling, NEW s, Sets(H, p, q, s),
             s.len = 0 \/ s.len = h.len, s.mode # "tx"
      PROVE  Listens'
  <2>1. ByHandler(p, q) /\ h' = s /\ c' = c
    BY <1>5, HandlerSteps
  <2> QED
    BY <1>0, <1>5, <2>1, IdlingListens DEF ByHandler
<1>6. ASSUME NEW p, NEW q \in Idling, NEW s, Tells(H, p, q, s), s.mode # "tx", s.flags = c.flags
      PROVE  Listens'
  <2>1. ByHandler(p, q) /\ h' = h /\ c' = s
    BY <1>6, HandlerSteps
  <2> QED
    BY <1>0, <1>6, <2>1, IdlingListens DEF ByHandler
<1>7. CASE clearRxBuf(H)
  <2>1. CASE Sets(H, "rx_len", "rx_valid", [h EXCEPT !.len = 0])
    <3>1. [h EXCEPT !.len = 0].len = 0 /\ [h EXCEPT !.len = 0].mode # "tx"
      BY <1>0, Fields
    <3> QED
      BY <1>1, <1>5, <2>1, <3>1
  <2>2. CASE Sets(H, "rx_valid", RxCleared(H), [h EXCEPT !.valid = FALSE])
    <3>1. [h EXCEPT !.valid = FALSE].len = h.len /\ [h EXCEPT !.valid = FALSE].mode # "tx"
      BY <1>0, Fields
    <3> QED
      BY <1>2, <1>5, <2>2, <3>1
  <2> QED
    BY <1>7, <2>1, <2>2 DEF clearRxBuf
<1>8. CASE setModeRx(H)
  <2>1. CASE Tests(H, "rx", IF h.mode = "rx" THEN RxOnDone(H) ELSE "rx_on")
    BY <1>1, <1>2, <1>4, <2>1
  <2>2. CASE Tells(H, "rx_on", "rx_mode", RxOn)
    BY <1>1, <1>6, <2>2, Registers
  <2>3. CASE Sets(H, "rx_mode", RxOnDone(H), [h EXCEPT !.mode = "rx"])
    <3>1. [h EXCEPT !.mode = "rx"].len = h.len /\ [h EXCEPT !.mode = "rx"].mode = "rx"
      BY Fields
    <3> QED
      BY <1>2, <1>5, <2>3, <3>1
  <2> QED
    BY <1>8, <2>1, <2>2, <2>3 DEF setModeRx
<1>9. CASE resetRxFifo(H)
  <2>1. Tells(H, "reset_rx", FifoReset(H), [c EXCEPT !.rx = << >>])
    BY <1>9 DEF resetRxFifo
  <2>2. [c EXCEPT !.rx = << >>].mode # "tx" /\ [c EXCEPT !.rx = << >>].flags = c.flags
    BY <1>0, Registers
  <2> QED
    BY <1>2, <1>6, <2>1, <2>2
<1>10. CASE FifoError
  <2>1. CASE resetFifos
    BY <1>0, <1>1, <1>6, <2>1, Registers DEF resetFifos
  <2>2. CASE Tests(H, "if_tx", IF h.mode = "tx" THEN "restart" ELSE "if_rx")
    BY <1>0, <1>1, <1>4, <2>2
  <2>3. CASE Tests(H, "if_rx", IF h.mode = "rx" THEN "rx_len" ELSE "flags")
    BY <1>1, <1>4, <2>3
  <2> QED
    BY <1>3, <1>10, <2>1, <2>2, <2>3 DEF FifoError
<1>11. CASE PacketSent \/ CrcError
  <2>1. CASE Sets(H, "sent", "flags", [h EXCEPT !.mode = "idle"])
    <3>1. [h EXCEPT !.mode = "idle"].len = h.len /\ [h EXCEPT !.mode = "idle"].mode = "idle"
      BY Fields
    <3> QED
      BY <1>1, <1>5, <2>1, <3>1
  <2>2. CASE Sets(H, "keep_trying", "rx", [h EXCEPT !.mode = "idle"])
    <3>1. [h EXCEPT !.mode = "idle"].len = h.len /\ [h EXCEPT !.mode = "idle"].mode = "idle"
      BY Fields
    <3> QED
      BY <1>1, <1>5, <2>2, <3>1
  <2> QED
    BY <1>11, <2>1, <2>2 DEF PacketSent, CrcError
<1> QED
  BY <1>3, <1>7, <1>8, <1>9, <1>10, <1>11 DEF Calls

LEMMA ListensFragment ==
    ASSUME TypesOK, Listens, readNextFragment
    PROVE  Listens'
<1>0. /\ h.mode # "tx" /\ c.mode # "tx" /\ "txffaem" \notin c.flags \cup isr
      /\ h.len <= RF22_MAX_MESSAGE_LEN
      /\ at[P] \in {"idle"} \cup Clearing \cup ToRx \cup Receiving
      /\ at[H] \in MoreRoom => h.len + RF22_RXFFAFULL_THRESHOLD <= RF22_MAX_MESSAGE_LEN
      /\ at[H] = "longer" => loc[H].i + RF22_RXFFAFULL_THRESHOLD <= RF22_MAX_MESSAGE_LEN
  BY DEF Listens
<1>1. /\ RF22_RXFFAFULL_THRESHOLD \in Nat /\ RF22_MAX_MESSAGE_LEN \in Nat
      /\ RF22_RXFFAFULL_THRESHOLD <= RF22_MAX_MESSAGE_LEN /\ RF22_MAX_MESSAGE_LEN < 256
  BY LengthAssumption DEF Byte
<1>2. h.len \in Nat /\ loc[H] \in Locals /\ loc[H].i \in Nat
  BY DriverTypes, LocalTypes DEF Threads, H
<1>3. "flags" \in Idling /\ {"behind", "read_fragment", "copy_fragment", "old_len"} = MoreRoom
  BY DEF Idling, MoreRoom
\* A step from one place where there is room to the next.
<1>4. ASSUME NEW q \in MoreRoom, at'[P] = at[P], at'[H] = q,
             h'.len = h.len, h'.mode = h.mode, c'.mode = c.mode, c'.flags = c.flags, isr' = isr,
             h.len + RF22_RXFFAFULL_THRESHOLD <= RF22_MAX_MESSAGE_LEN
      PROVE  Listens'
  <2>1. /\ at'[H] \in {"idle", "reset_rx"} \cup Clearing \cup ToRx \cup Handling
        /\ at'[H] # "longer" /\ at'[H] \notin Measured
    BY <1>4, HandlerPlaces
  <2> QED
    BY <1>0, <1>4, <2>1 DEF Listens
<1>5. CASE Tests(H, "room", IF NoRoom THEN "flags" ELSE "behind")
  <2>1. CASE NoRoom
    <3>1. ByHandler("room", "flags") /\ h' = h /\ c' = c
      BY <1>5, <2>1, HandlerSteps
    <3> QED
      BY <1>0, <1>3, <3>1, IdlingListens DEF ByHandler
  <2>2. CASE ~NoRoom
    <3>1. ByHandler("room", "behind") /\ h' = h /\ c' = c
      BY <1>5, <2>2, HandlerSteps
    <3>2. h.len + RF22_RXFFAFULL_THRESHOLD <= RF22_MAX_MESSAGE_LEN
      BY <1>1, <1>2, <2>2 DEF NoRoom
    <3> QED
      BY <1>3, <1>4, <3>1, <3>2 DEF ByHandler
  <2> QED
    BY <2>1, <2>2
<1>6. CASE Reads(H, "behind", "read_fragment", I(H, h.len))
  <2>1. ByHandler("behind", "read_fragment") /\ h' = h /\ c' = c
    BY <1>6, HandlerSteps
  <2> QED
    BY <1>0, <1>3, <1>4, <2>1 DEF ByHandler
<1>7. CASE ReadFifo("read_fragment", "copy_fragment", RF22_RXFFAFULL_THRESHOLD)
  <2>1. at[H] = "read_fragment" /\ at'[H] = "copy_fragment" /\ at'[P] = at[P]
    BY <1>7, HandlerMoves DEF ReadFifo
  <2>2. h' = h /\ isr' = isr /\ c' = [c EXCEPT !.rx = Rest(c.rx, RF22_RXFFAFULL_THRESHOLD)]
    BY <1>7 DEF ReadFifo, calls
  <2>3. c'.mode = c.mode /\ c'.flags = c.flags
    BY <2>2, Registers
  <2> QED
    BY <1>0, <1>3, <1>4, <2>1, <2>2, <2>3
<1>8. CASE Copied("copy_fragment", "old_len")
  <2>1. ByHandler("copy_fragment", "old_len") /\ c' = c /\ h' = [h EXCEPT !.buf = Written(h.buf, Hl.i, Hl.b)]
    BY <1>8, HandlerSteps DEF Copied
  <2>2. h'.len = h.len /\ h'.mode = h.mode
    BY <2>1, Fields
  <2> QED
    BY <1>0, <1>3, <1>4, <2>1, <2>2 DEF ByHandler
<1>9. CASE Reads(H, "old_len", "longer", I(H, h.len))
  <2>1. ByHandler("old_len", "longer") /\ h' = h /\ c' = c
    BY <1>9, HandlerSteps
  <2>2. loc'[H] = [loc[H] EXCEPT !.i = h.len]
    BY <1>9, HandlerLocals DEF Reads, I
  <2>3. loc'[H].i = h.len
    BY <1>2, <2>2 DEF Locals
  <2>4. at[H] \in MoreRoom /\ at'[H] = "longer" /\ at'[P] = at[P] /\ isr' = isr
    BY <2>1 DEF ByHandler, MoreRoom
  <2>5. /\ at'[H] \in {"idle", "reset_rx"} \cup Clearing \cup ToRx \cup Handling
        /\ at'[H] \notin MoreRoom /\ at'[H] \notin Measured
    BY <2>4, HandlerPlaces
  <2> QED
    BY <1>0, <2>1, <2>3, <2>4, <2>5 DEF Listens
<1>10. CASE Sets(H, "longer", "flags", [h EXCEPT !.len = (Hl.i + RF22_RXFFAFULL_THRESHOLD) % Byte])
  <2>1. /\ ByHandler("longer", "flags") /\ c' = c
        /\ h' = [h EXCEPT !.len = (Hl.i + RF22_RXFFAFULL_THRESHOLD) % Byte]
    BY <1>10, HandlerSteps
  <2>2. /\ at[H] = "longer" /\ at'[H] = "flags" /\ at'[P] = at[P] /\ isr' = isr
        /\ Hl = loc[H]
    BY <2>1 DEF ByHandler, Hl
  <2>3. h'.len = (Hl.i + RF22_RXFFAFULL_THRESHOLD) % Byte /\ h'.mode = h.mode
    BY <2>1, Fields
  <2>4. Hl.i + RF22_RXFFAFULL_THRESHOLD <= RF22_MAX_MESSAGE_LEN
    BY <1>0, <2>2
  <2>5. h'.len <= RF22_MAX_MESSAGE_LEN
    <3>1. (Hl.i + RF22_RXFFAFULL_THRESHOLD) % 256 = Hl.i + RF22_RXFFAFULL_THRESHOLD
      BY <1>1, <1>2, <2>2, <2>4
    <3> QED
      BY <2>3, <2>4, <3>1 DEF Byte
  <2>6. /\ at'[H] \in {"idle", "reset_rx"} \cup Clearing \cup ToRx \cup Handling
        /\ at'[H] \notin MoreRoom /\ at'[H] \notin Measured /\ at'[H] # "longer"
    BY <1>3, <2>2, HandlerPlaces
  <2> QED
    BY <1>0, <2>1, <2>2, <2>3, <2>5, <2>6 DEF Listens
<1> QED
  BY <1>5, <1>6, <1>7, <1>8, <1>9, <1>10 DEF readNextFragment

LEMMA ListensPacket ==
    ASSUME TypesOK, Listens, PacketValid
    PROVE  Listens'
<1>0. /\ h.mode # "tx" /\ c.mode # "tx" /\ "txffaem" \notin c.flags \cup isr
      /\ h.len <= RF22_MAX_MESSAGE_LEN
      /\ at[P] \in {"idle"} \cup Clearing \cup ToRx \cup Receiving
      /\ at[H] \in Measured => loc[H].n <= RF22_MAX_MESSAGE_LEN
  BY DEF Listens
<1>1. /\ loc[H] \in Locals /\ Hl = loc[H] /\ loc[H].n \in Nat /\ h.len \in Nat
      /\ RF22_MAX_MESSAGE_LEN \in Nat
  BY DriverTypes, LocalTypes, LengthAssumption DEF Threads, H, Hl
<1>2. /\ {"flags", "if_stupid", "rx_len", "validate", "stupid", "received"} \subseteq Idling
      /\ {"end", "octets_left", "read_rest", "copy_rest", "new_len"} = Measured
  BY DEF Idling, Clearing, Measured
\* A step from one place where the length is known to the next.
<1>3. ASSUME NEW q \in Measured, at'[P] = at[P], at'[H] = q,
             h'.len = h.len, h'.mode = h.mode, c'.mode = c.mode, c'.flags = c.flags, isr' = isr,
             loc'[H].n <= RF22_MAX_MESSAGE_LEN
      PROVE  Listens'
  <2>1. /\ at'[H] \in {"idle", "reset_rx"} \cup Clearing \cup ToRx \cup Handling
        /\ at'[H] # "longer" /\ at'[H] \notin MoreRoom
    BY <1>3, HandlerPlaces
  <2> QED
    BY <1>0, <1>3, <2>1 DEF Listens
<1>4. CASE Reads(H, "received_length", "if_stupid", N(H, c.rxLen))
  <2>1. ByHandler("received_length", "if_stupid") /\ h' = h /\ c' = c
    BY <1>4, HandlerSteps
  <2> QED
    BY <1>0, <1>2, <2>1, IdlingListens DEF ByHandler
<1>5. CASE Tests(H, "if_stupid",
                 IF Hl.n > RF22_MAX_MESSAGE_LEN \/ Hl.n < h.len THEN "stupid" ELSE "end")
  <2> DEFINE Stupid == Hl.n > RF22_MAX_MESSAGE_LEN \/ Hl.n < h.len
  <2>1. CASE Stupid
    <3>1. ByHandler("if_stupid", "stupid") /\ h' = h /\ c' = c
      BY <1>5, <2>1, HandlerSteps
    <3> QED
      BY <1>0, <1>2, <3>1, IdlingListens DEF ByHandler
  <2>2. CASE ~Stupid
    <3>1. Tests(H, "if_stupid", "end")
      BY <1>5, <2>2
    <3>2. loc[H].n <= RF22_MAX_MESSAGE_LEN
      BY <1>1, <2>2
    <3> HIDE DEF Stupid
    <3>3. ByHandler("if_stupid", "end") /\ h' = h /\ c' = c
      BY <3>1, HandlerSteps
    <3>4. loc'[H] = loc[H]
      BY <3>1, HandlerLocals DEF Tests, Reads
    <3> QED
      BY <1>2, <1>3, <3>2, <3>3, <3>4 DEF ByHandler
  <2> QED
    BY <2>1, <2>2
<1>6. CASE Drop
  <2>1. at'[H] = "rx_len" /\ at'[P] = at[P]
    BY <1>6, HandlerMoves DEF Drop
  <2>2. h' = [h EXCEPT !.mode = "idle"] /\ isr' = {} /\ c' = c
    BY <1>6 DEF Drop
  <2>3. h'.len = h.len /\ h'.mode = "idle"
    BY <2>2, Fields
  <2> QED
    BY <1>0, <1>2, <2>1, <2>2, <2>3, IdlingListens
<1>7. CASE Reads(H, "end", "octets_left", I(H, h.len))
  <2>1. ByHandler("end", "octets_left") /\ h' = h /\ c' = c
    BY <1>7, HandlerSteps
  <2>2. loc'[H] = [loc[H] EXCEPT !.i = h.len]
    BY <1>7, HandlerLocals DEF Reads, I
  <2>3. loc'[H].n = loc[H].n
    BY <1>1, <2>2 DEF Locals
  <2> QED
    BY <1>0, <1>2, <1>3, <2>1, <2>3 DEF ByHandler
<1>8. CASE Reads(H, "octets_left", "read_rest", K(H, (Hl.n - h.len) % Byte))
  <2>1. ByHandler("octets_left", "read_rest") /\ h' = h /\ c' = c
    BY <1>8, HandlerSteps
  <2>2. loc'[H] = [loc[H] EXCEPT !.k = (Hl.n - h.len) % Byte]
    BY <1>8, HandlerLocals DEF Reads, K
  <2>3. loc'[H].n = loc[H].n
    BY <1>1, <2>2 DEF Locals
  <2> QED
    BY <1>0, <1>2, <1>3, <2>1, <2>3 DEF ByHandler
<1>9. CASE ReadFifo("read_rest", "copy_rest", Hl.k)
  <2>1. at[H] = "read_rest" /\ at'[H] = "copy_rest" /\ at'[P] = at[P]
    BY <1>9, HandlerMoves DEF ReadFifo
  <2>2. h' = h /\ isr' = isr /\ c' = [c EXCEPT !.rx = Rest(c.rx, Hl.k)]
    BY <1>9 DEF ReadFifo, calls
  <2>3. c'.mode = c.mode /\ c'.flags = c.flags
    BY <2>2, Registers
  <2>4. loc'[H] = [loc[H] EXCEPT !.b = Taken(c.rx, Hl.k)]
    BY <1>9, HandlerLocals DEF ReadFifo, B
  <2>5. loc'[H].n = loc[H].n
    BY <1>1, <2>4 DEF Locals
  <2> QED
    BY <1>0, <1>2, <1>3, <2>1, <2>2, <2>3, <2>5
<1>10. CASE Copied("copy_rest", "new_len")
  <2>1. ByHandler("copy_rest", "new_len") /\ c' = c /\ h' = [h EXCEPT !.buf = Written(h.buf, Hl.i, Hl.b)]
    BY <1>10, HandlerSteps DEF Copied
  <2>2. h'.len = h.len /\ h'.mode = h.mode
    BY <2>1, Fields
  <2>3. loc'[H] = loc[H]
    BY <1>10, HandlerLocals DEF Copied, Sets
  <2> QED
    BY <1>0, <1>2, <1>3, <2>1, <2>2, <2>3 DEF ByHandler
<1>11. CASE Sets(H, "new_len", "received", [h EXCEPT !.len = Hl.n])
  <2>1. ByHandler("new_len", "received") /\ c' = c /\ h' = [h EXCEPT !.len = Hl.n]
    BY <1>11, HandlerSteps
  <2>2. h'.len = Hl.n /\ h'.mode = h.mode
    BY <2>1, Fields
  <2>3. /\ at[H] = "new_len" /\ at'[H] = "received" /\ at'[P] = at[P] /\ isr' = isr
    BY <2>1 DEF ByHandler
  <2>4. h'.len <= RF22_MAX_MESSAGE_LEN
    BY <1>0, <1>1, <1>2, <2>2, <2>3
  <2>5. /\ at'[H] \in {"idle", "reset_rx"} \cup Clearing \cup ToRx \cup Handling
        /\ at'[H] \notin MoreRoom /\ at'[H] \notin Measured /\ at'[H] # "longer"
    BY <1>2, <2>3, HandlerPlaces
  <2> QED
    BY <1>0, <2>1, <2>2, <2>3, <2>4, <2>5 DEF Listens
<1>12. CASE Sets(H, "received", "validate", [h EXCEPT !.mode = "idle"])
  <2>1. ByHandler("received", "validate") /\ c' = c /\ h' = [h EXCEPT !.mode = "idle"]
    BY <1>12, HandlerSteps
  <2>2. h'.len = h.len /\ h'.mode = "idle"
    BY <2>1, Fields
  <2> QED
    BY <1>0, <1>2, <2>1, <2>2, IdlingListens DEF ByHandler
<1>13. CASE Sets(H, "validate", "flags", [h EXCEPT !.valid = TRUE])
  <2>1. ByHandler("validate", "flags") /\ c' = c /\ h' = [h EXCEPT !.valid = TRUE]
    BY <1>13, HandlerSteps
  <2>2. h'.len = h.len /\ h'.mode = h.mode
    BY <2>1, Fields
  <2> QED
    BY <1>0, <1>2, <2>1, <2>2, IdlingListens DEF ByHandler
<1> QED
  BY <1>4, <1>5, <1>6, <1>7, <1>8, <1>9, <1>10, <1>11, <1>12, <1>13 DEF PacketValid

LEMMA ListensRadio ==
    ASSUME TypesOK, Listens, Transmitter \/ Preamble \/ ReceiveByte
    PROVE  Listens'
<1>0. /\ h.mode # "tx" /\ c.mode # "tx" /\ "txffaem" \notin c.flags \cup isr /\ c \in Chip
  BY DEF Listens, TypesOK
<1>1. ~Transmitter
  BY <1>0 DEF Transmitter, TransmitByte, Underflow, TransmitEnd
<1>2. ASSUME Radio, c'.mode # "tx", "txffaem" \notin c'.flags
      PROVE  Listens'
  <2>1. h' = h /\ at' = at /\ loc' = loc /\ isr' = isr
    BY <1>2 DEF Radio, calls
  <2> QED
    BY <1>0, <1>2, <2>1 DEF Listens
<1>3. CASE Preamble
  <2>1. c'.mode = c.mode /\ c'.flags = c.flags \cup {"preaval"}
    BY <1>0, <1>3 DEF Preamble, Raise, Chip
  <2> QED
    BY <1>0, <1>2, <1>3, <2>1 DEF Preamble
<1>4. CASE ReceiveByte
  <2> DEFINE full == Len(c.rx) = RF22_FIFO_SIZE
             s == [c EXCEPT !.rx = IF full THEN c.rx ELSE Append(c.rx, Head(c.air)),
                            !.air = Tail(c.air)]
             t == IF full THEN Raise(s, "fferror")
                  ELSE IF Len(s.rx) = RF22_RXFFAFULL_THRESHOLD THEN Raise(s, "rxffafull") ELSE s
             e == [t EXCEPT !.mode = "idle", !.rxLen = Head(c.air)[2]]
             Fs == {"mode", "tx", "rx", "pktLen", "rxLen", "flags", "out", "air", "heard"}
  <2>1. s.mode = c.mode /\ s.flags = c.flags /\ DOMAIN s = Fs
    BY <1>0 DEF Chip
  <2>2. c' = t \/ c' = Raise(e, "pkvalid") \/ c' = Raise(e, "crcerror")
    BY <1>0, <1>4 DEF ReceiveByte, Chip
  <2> HIDE DEF s
  <2>3. t.mode = c.mode /\ t.flags \subseteq c.flags \cup {"fferror", "rxffafull"} /\ DOMAIN t = Fs
    BY <2>1 DEF Raise
  <2> HIDE DEF t
  <2>4. e.mode = "idle" /\ e.flags = t.flags /\ DOMAIN e = Fs
    BY <2>3
  <2> HIDE DEF e
  <2>5. \A f : Raise(e, f).mode = "idle" /\ Raise(e, f).flags = t.flags \cup {f}
    BY <2>4 DEF Raise
  <2>6. c'.mode # "tx" /\ "txffaem" \notin c'.flags
    BY <1>0, <2>2, <2>3, <2>5
  <2> QED
    BY <1>2, <1>4, <2>6 DEF ReceiveByte
<1> QED
  BY <1>1, <1>3, <1>4

LEMMA InvStep == Inv /\ [Next]_vars => Inv'
<1> SUFFICES ASSUME Inv, [Next]_vars PROVE Inv'
  OBVIOUS
<1>1. TypesOK /\ TypesOK'
  BY TypesStep DEF Inv
<1>2. CASE UNCHANGED vars
  BY <1>1, <1>2 DEF vars, calls, Inv, Listens
<1>3. CASE Next
  <2>1. duty' = duty
    <3>1. CASE Program
      BY <3>1 DEF Program, Calls, clearRxBuf, resetRxFifo, setModeRx, setModeTx, sendNextFragment,
         startTransmit, Send, fillTxBuf, appendTxBuf, Accept, recv, available, Copy, Reads, Tests, Sets,
         Tells, calls
    <3>2. CASE handleInterrupt
      BY <3>2 DEF handleInterrupt, Calls, clearRxBuf, resetRxFifo, setModeRx, setModeTx, sendNextFragment,
         startTransmit, ReadFlags, NextFlag, FifoError, resetFifos, restartTransmit, readNextFragment,
         ReadFifo, Copied, PacketSent, Drop, PacketValid, CrcError, Reads, Tests, Sets, Tells, calls
    <3>3. CASE Transmitter \/ Preamble \/ ReceiveByte
      BY <3>3 DEF Transmitter, TransmitByte, Underflow, TransmitEnd, Preamble, ReceiveByte, Radio, calls
    <3> QED
      BY <1>3, <3>1, <3>2, <3>3 DEF Next
  <2>2. ASSUME duty.sends = 0 PROVE Listens'
    <3>1. Listens
      BY <2>2 DEF Inv
    <3>2. CASE Program
      BY <1>1, <2>2, <3>1, <3>2, ListensProgram
    <3>3. CASE handleInterrupt
      BY <1>1, <3>1, <3>3, ListensFlags, ListensCalls, ListensFragment, ListensPacket DEF handleInterrupt
    <3>4. CASE Transmitter \/ Preamble \/ ReceiveByte
      BY <1>1, <3>1, <3>4, ListensRadio
    <3> QED
      BY <1>3, <3>2, <3>3, <3>4 DEF Next
  <2> QED
    BY <1>1, <2>1, <2>2 DEF Inv
<1> QED
  BY <1>2, <1>3

\* The driver's members have their types, and as long as the program only
\* receives the fragments of a packet stay within the buffer (readNextFragment and
\* the length test of handleInterrupt, rf22.cxx:225-227, 645-655), wherever the
\* program clears it in between.
THEOREM StaysInBuffer == Spec => []TypeOK
<1>1. Init => Inv
  <2> SUFFICES ASSUME Init PROVE Inv
    OBVIOUS
  <2>1. TypesOK
    BY TypesInit
  <2>2. /\ h.len = 0 /\ h.mode = "idle" /\ c.mode = "idle" /\ c.flags = {} /\ isr = {}
        /\ at[P] = "idle" /\ at[H] = "idle"
    BY DEF Init, Threads, P, H
  <2>3. Listens
    BY <2>2, LengthAssumption DEF Listens, MoreRoom, Measured
  <2> QED
    BY <2>1, <2>3 DEF Inv
<1>2. Inv => TypeOK
  BY DriverTypes DEF Inv, Listens, TypeOK, Mode, Small
<1> QED
  BY <1>1, <1>2, InvStep, PTL DEF Spec

-----------------------------------------------------------------------------
(* A program that only sends, messages that fit in one fragment.           *)

Filled == {"tx_len", "tx_idx", "fits", "to", "copy_in", "sum", "add"}
Loading == Fragment \cup {"packet_length", "set_length", "tx", "tx_on"}
OnAir == {"idle", "wait", "tx_mode", "reset_rx", "rx_len", "rx_valid"}

\* There is nothing for the handler to do.
Quiet == c.flags = {} /\ isr = {} /\ at[H] \in {"idle", "flags"}

\* The packet of the last message has been sent, or is being sent.
Sent == c.mode = "idle" /\ c.out = << >> /\ c.tx = << >> /\ aired = given
Going ==
    /\ c.mode = "tx" /\ c.pktLen = Len(c.out) + Len(c.tx)
    /\ given = Append(aired, c.out \o c.tx)

\* What the handler has still to do, or is doing.
Pending ==
    /\ c.flags \cup isr \subseteq {"txffaem", "pksent"}
    /\ at[H] \in {"idle", "flags", "fragment", "some_left", "sent"}
    /\ at[H] \in {"fragment", "some_left"} => flag = "txffaem"
    /\ at[H] = "some_left" => loc[H].i >= h.len
    /\ "pksent" \in isr => c.flags = {}
    /\ "pksent" \in c.flags \cup isr => Sent
    /\ at[H] = "sent" => Sent /\ isr = {} /\ c.flags = {}

Composing == h.mode = "idle" /\ c.mode = "idle" /\ c.out = << >> /\ Quiet

\* The message is in the buffer.
Buffered == \A k \in 1 .. Len(msg) : h.buf[k] = msg[k]

\* How far fillTxBuf has come.
Fills ==
    /\ Composing /\ aired = given /\ c.tx = << >>
    /\ at[P] # "tx_len" => h.len = 0
    /\ at[P] \in {"fits", "to", "copy_in", "sum", "add"} => h.idx = 0 /\ msg # << >>
    /\ at[P] \in {"to", "copy_in", "sum", "add"} => Len(msg) <= RF22_MAX_MESSAGE_LEN
    /\ at[P] \in {"copy_in", "add"} => loc[P].i = 0
    /\ at[P] \in {"sum", "add"} => Buffered

\* How far sendNextFragment and startTransmit have come.
Loads ==
    /\ Composing /\ given = Append(aired, msg) /\ Buffered
    /\ h.len = Len(msg) /\ msg # << >> /\ Len(msg) <= RF22_MAX_MESSAGE_LEN
    /\ h.idx = IF at[P] \in {"packet_length", "set_length", "tx", "tx_on"} THEN Len(msg) ELSE 0
    /\ c.tx = IF at[P] \in {"fragment", "some_left", "len", "len_less_idx", "from_idx", "request",
                            "write_fifo"} THEN << >> ELSE msg
    /\ at[P] \in {"some_left", "request", "add_to_idx"} => loc[P].i = 0
    /\ at[P] \in {"len_less_idx", "from_idx", "request", "write_fifo", "idx", "add_to_idx",
                  "set_length"} => loc[P].n = Len(msg)
    /\ at[P] = "write_fifo" => loc[P].b = msg
    /\ at[P] \in {"tx", "tx_on"} => c.pktLen = Len(msg)

\* The driver takes itself for sending until the handler has heard of the end.
Airs ==
    /\ h.mode \in {"idle", "tx"} /\ (at[P] = "tx_mode" => h.mode = "idle")
    /\ h.mode = "idle" /\ at[P] # "tx_mode" => Sent /\ Quiet
    /\ h.mode = "tx" \/ at[P] = "tx_mode" => (Sent \/ Going) /\ h.idx >= h.len

Sends ==
    /\ Pending
    /\ at[P] \in Filled \cup Loading \cup OnAir
    /\ at[P] \in Filled => Fills
    /\ at[P] \in Loading => Loads
    /\ at[P] \in OnAir => Airs

SendInv == TypesOK /\ (duty.hears = 0 /\ Short => Sends)

\* The messages accepted so far are short if those accepted by now are.
LEMMA ShortBefore ==
    ASSUME TypesOK, given' = given \/ given' = Append(given, msg), Short'
    PROVE  Short
<1>1. given \in Seq(Seq(Octet))
  BY DEF TypesOK
<1>2. \A i \in DOMAIN given : i \in DOMAIN Append(given, msg) /\ Append(given, msg)[i] = given[i]
  BY <1>1
<1>3. \A i \in DOMAIN given : i \in DOMAIN given' /\ given'[i] = given[i]
  BY <1>2
<1> QED
  BY <1>3 DEF Short, Range

LEMMA LastShort ==
    ASSUME TypesOK, Short, NEW s \in Seq(Octet), given = Append(aired, s)
    PROVE  Len(s) <= FRAGMENT
<1>1. aired \in Seq(Seq(Octet))
  BY DEF TypesOK
<1>2. Len(aired) + 1 \in DOMAIN given /\ given[Len(aired) + 1] = s
  BY <1>1
<1> QED
  BY <1>2 DEF Short, Range

LEMMA MessageType ==
    ASSUME TypesOK PROVE msg \in Seq(Octet) /\ Len(msg) \in Nat
BY DEF TypesOK, Octet

\* The stages are apart.
LEMMA Stages ==
    /\ Filled \cap Loading = {} /\ Filled \cap OnAir = {} /\ Loading \cap OnAir = {}
    /\ Filled \cup Loading \cup OnAir \subseteq Label
    /\ Filled = {"tx_len", "tx_idx", "fits", "to", "copy_in", "sum", "add"}
    /\ Loading = {"fragment", "some_left", "len", "len_less_idx", "from_idx", "request", "write_fifo",
                  "idx", "add_to_idx", "packet_length", "set_length", "tx", "tx_on"}
    /\ OnAir = {"idle", "wait", "tx_mode", "reset_rx", "rx_len", "rx_valid"}
<1>1. /\ Filled = {"tx_len", "tx_idx", "fits", "to", "copy_in", "sum", "add"}
      /\ Loading = {"fragment", "some_left", "len", "len_less_idx", "from_idx", "request", "write_fifo",
                    "idx", "add_to_idx", "packet_length", "set_length", "tx", "tx_on"}
      /\ OnAir = {"idle", "wait", "tx_mode", "reset_rx", "rx_len", "rx_valid"}
  BY DEF Filled, Loading, OnAir, Fragment
<1>2. Filled \cap Loading = {} /\ Filled \cap OnAir = {} /\ Loading \cap OnAir = {}
  BY <1>1
<1>3. Filled \cup Loading \cup OnAir \subseteq Label
  BY DEF Filled, Loading, OnAir, Label, Clearing, ToTx, Filling
<1> QED
  BY <1>1, <1>2, <1>3

LEMMA Arrives ==
    /\ Pending' /\ at'[P] \in Filled /\ Fills' => Sends'
    /\ Pending' /\ at'[P] \in Loading /\ Loads' => Sends'
    /\ Pending' /\ at'[P] \in OnAir /\ Airs' => Sends'
BY Stages DEF Sends

LEMMA QuietPends == Quiet' => Pending'
BY DEF Quiet, Pending

\* While a message is composed the handler has nothing to do.
LEMMA Composes ==
    ASSUME TypesOK, Composing, NEW p, NEW q, ByProgram(p, q),
           h'.mode = h.mode, c'.mode = c.mode, c'.out = c.out, c'.flags = c.flags
    PROVE  Composing' /\ Pending'
<1>1. Composing' /\ Quiet'
  BY DEF Composing, Quiet, ByProgram
<1> QED
  BY <1>1, QuietPends

-----------------------------------------------------------------------------
LEMMA FillsStep ==
    ASSUME TypesOK, TypesOK', Sends, fillTxBuf \/ appendTxBuf, at[P] # "wait"
    PROVE  Sends'
<1>0. /\ h.len \in Nat /\ h.idx \in Nat /\ Len(msg) \in Nat /\ msg \in Seq(Octet) /\ h.buf \in Buffer
      /\ RF22_MAX_MESSAGE_LEN \in Nat /\ RF22_MAX_MESSAGE_LEN < 256
      /\ Pl = loc[P] /\ loc[P] \in Locals
  <2>1. RF22_MAX_MESSAGE_LEN \in Nat /\ RF22_MAX_MESSAGE_LEN < 256
    BY LengthAssumption DEF Byte
  <2>2. Pl = loc[P] /\ loc[P] \in Locals
    BY LocalTypes DEF Pl, Threads, P
  <2> QED
    BY <2>1, <2>2, DriverTypes, MessageType
<1>1. at[P] \in Filled
  BY DEF Filled, fillTxBuf, appendTxBuf, Accept, Sets, Reads, Tests, Moves
<1>2. Fills /\ Composing
  BY <1>1 DEF Sends, Fills
<1>3. CASE Sets(P, "tx_len", "tx_idx", [h EXCEPT !.len = 0])
  <2>1. ByProgram("tx_len", "tx_idx") /\ c' = c /\ h' = [h EXCEPT !.len = 0]
    BY <1>3, ProgramSteps
  <2>2. h'.len = 0 /\ h'.mode = h.mode
    BY <2>1, Fields
  <2>3. Composing' /\ Pending'
    BY <1>2, <2>1, <2>2, Composes
  <2>4. Fills' /\ at'[P] \in Filled
    BY <1>2, <2>1, <2>2, <2>3 DEF Fills, ByProgram, Filled
  <2> QED
    BY <2>3, <2>4, Arrives
<1>4. CASE Sets(P, "tx_idx", IF msg = << >> THEN "idle" ELSE "fits", [h EXCEPT !.idx = 0])
  <2> DEFINE q == IF msg = << >> THEN "idle" ELSE "fits"
  <2>1. ByProgram("tx_idx", q) /\ c' = c /\ h' = [h EXCEPT !.idx = 0]
    BY <1>4, ProgramSteps
  <2>2. h'.len = h.len /\ h'.mode = h.mode /\ h'.idx = 0
    BY <2>1, Fields
  <2>3. Composing' /\ Pending'
    BY <1>2, <2>1, <2>2, Composes
  <2>4. h.len = 0 /\ at'[P] = q /\ msg' = msg /\ given' = given /\ aired' = aired
    BY <1>2, <2>1 DEF Fills, ByProgram
  <2>5. CASE msg = << >>
    <3>1. Airs' /\ at'[P] \in OnAir
      BY <1>2, <2>1, <2>2, <2>3, <2>4, <2>5 DEF Airs, OnAir, Fills, Composing, Sent
    <3> QED
      BY <2>3, <3>1, Arrives
  <2>6. CASE msg # << >>
    <3>1. Fills' /\ at'[P] \in Filled
      BY <1>2, <2>1, <2>2, <2>3, <2>4, <2>6 DEF Fills, Filled
    <3> QED
      BY <2>3, <3>1, Arrives
  <2> QED
    BY <2>5, <2>6
<1>5. CASE Tests(P, "fits", IF h.len + Len(msg) > RF22_MAX_MESSAGE_LEN THEN "idle" ELSE "to")
  <2> DEFINE Long == h.len + Len(msg) > RF22_MAX_MESSAGE_LEN
  <2>1. ByProgram("fits", IF Long THEN "idle" ELSE "to") /\ c' = c /\ h' = h
    BY <1>5, ProgramSteps
  <2>2. Composing' /\ Pending'
    BY <1>2, <2>1, Composes
  <2>3. /\ h.len = 0 /\ h.idx = 0 /\ msg # << >> /\ at'[P] = (IF Long THEN "idle" ELSE "to")
        /\ msg' = msg /\ given' = given /\ aired' = aired
    BY <1>2, <2>1 DEF Fills, ByProgram
  <2>4. CASE Long
    <3>1. Airs' /\ at'[P] \in OnAir
      BY <1>2, <2>1, <2>2, <2>3, <2>4 DEF Airs, OnAir, Fills, Composing, Sent
    <3> QED
      BY <2>2, <3>1, Arrives
  <2>5. CASE ~Long
    <3>1. Len(msg) <= RF22_MAX_MESSAGE_LEN
      BY <1>0, <2>3, <2>5
    <3>2. Fills' /\ at'[P] \in Filled
      BY <1>2, <2>1, <2>2, <2>3, <2>5, <3>1 DEF Fills, Filled
    <3> QED
      BY <2>2, <3>2, Arrives
  <2> QED
    BY <2>4, <2>5
<1>6. CASE Reads(P, "to", "copy_in", I(P, h.len))
  <2>1. ByProgram("to", "copy_in") /\ c' = c /\ h' = h
    BY <1>6, ProgramSteps
  <2>2. Composing' /\ Pending'
    BY <1>2, <2>1, Composes
  <2>3. loc'[P] = [loc[P] EXCEPT !.i = h.len]
    BY <1>6, ProgramLocals DEF Reads, I
  <2>4. loc'[P].i = 0
    BY <1>0, <1>2, <2>1, <2>3 DEF Locals, Fills, ByProgram
  <2>5. Fills' /\ at'[P] \in Filled
    BY <1>2, <2>1, <2>2, <2>4 DEF Fills, Filled, ByProgram
  <2> QED
    BY <2>2, <2>5, Arrives
<1>7. CASE Sets(P, "copy_in", "sum", [h EXCEPT !.buf = Written(h.buf, Pl.i, msg)])
  <2>1. ByProgram("copy_in", "sum") /\ c' = c /\ h' = [h EXCEPT !.buf = Written(h.buf, Pl.i, msg)]
    BY <1>7, ProgramSteps
  <2>2. h'.len = h.len /\ h'.mode = h.mode /\ h'.idx = h.idx /\ h'.buf = Written(h.buf, Pl.i, msg)
    BY <2>1, Fields
  <2>3. Composing' /\ Pending'
    BY <1>2, <2>1, <2>2, Composes
  <2>4. /\ h.len = 0 /\ h.idx = 0 /\ msg # << >> /\ at'[P] = "sum" /\ Len(msg) <= RF22_MAX_MESSAGE_LEN
        /\ msg' = msg /\ given' = given /\ aired' = aired /\ Pl.i = 0
    BY <1>0, <1>2, <2>1 DEF Fills, ByProgram
  <2>5. \A k \in 1 .. Len(msg) : h'.buf[k] = msg[k]
    <3>1. \A k \in 1 .. Len(msg) : Written(h.buf, 0, msg)[k] = msg[k]
      BY <1>0, <2>4, WrittenFirst
    <3> QED
      BY <2>2, <2>4, <3>1
  <2>6. Fills' /\ at'[P] \in Filled
    BY <1>2, <2>1, <2>2, <2>3, <2>4, <2>5 DEF Fills, Filled, Buffered
  <2> QED
    BY <2>3, <2>6, Arrives
<1>8. CASE Reads(P, "sum", "add", I(P, h.len))
  <2>1. ByProgram("sum", "add") /\ c' = c /\ h' = h
    BY <1>8, ProgramSteps
  <2>2. Composing' /\ Pending'
    BY <1>2, <2>1, Composes
  <2>3. loc'[P] = [loc[P] EXCEPT !.i = h.len]
    BY <1>8, ProgramLocals DEF Reads, I
  <2>4. loc'[P].i = 0
    BY <1>0, <1>2, <2>1, <2>3 DEF Locals, Fills, ByProgram
  <2>5. Fills' /\ at'[P] \in Filled
    BY <1>2, <2>1, <2>2, <2>4 DEF Fills, Filled, ByProgram, Buffered
  <2> QED
    BY <2>2, <2>5, Arrives
<1>9. CASE Accept
  <2>1. /\ at[P] = "add" /\ at'[P] = "fragment" /\ at'[H] = at[H] /\ aired' = aired
    BY <1>9, ProgramMoves DEF Accept
  <2>2. /\ c' = c /\ isr' = isr /\ msg' = msg /\ given' = Append(given, msg)
        /\ h' = [h EXCEPT !.len = (Pl.i + Len(msg)) % Byte]
    BY <1>9 DEF Accept
  <2>3. h'.len = (Pl.i + Len(msg)) % Byte /\ h'.mode = h.mode /\ h'.idx = h.idx /\ h'.buf = h.buf
    BY <2>2, Fields
  <2>4. /\ h.idx = 0 /\ msg # << >> /\ Len(msg) <= RF22_MAX_MESSAGE_LEN /\ Pl.i = 0 /\ Buffered
        /\ aired = given /\ c.tx = << >>
    BY <1>0, <1>2, <2>1 DEF Fills
  <2>5. h'.len = Len(msg)
    BY <1>0, <2>3, <2>4 DEF Byte
  <2>6. Composing' /\ Quiet'
    BY <1>2, <2>1, <2>2, <2>3 DEF Composing, Quiet
  <2>7. Loads' /\ at'[P] \in Loading
    <3>1. at'[P] \in Loading
      BY <2>1, Stages
    <3>2. Buffered'
      BY <2>2, <2>3, <2>4 DEF Buffered
    <3> QED
      BY <2>1, <2>2, <2>3, <2>4, <2>5, <2>6, <3>1, <3>2 DEF Loads
  <2> QED
    BY <2>6, <2>7, QuietPends, Arrives
<1> QED
  BY <1>1, <1>3, <1>4, <1>5, <1>6, <1>7, <1>8, <1>9, Stages DEF fillTxBuf, appendTxBuf, waitPacketSent,
     Tests, Reads, Moves

LEMMA EqualSeqs ==
    ASSUME NEW A, NEW S, NEW s \in Seq(A), NEW t \in Seq(S), Len(s) = Len(t),
           \A i \in 1 .. Len(t) : s[i] = t[i]
    PROVE  s = t
OBVIOUS

\* The first n bytes of the buffer are the message that lies in it.
LEMMA TakenMessage ==
    ASSUME NEW buf \in Buffer, NEW s \in Seq(Octet), Len(s) <= RF22_MAX_MESSAGE_LEN,
           \A k \in 1 .. Len(s) : buf[k] = s[k]
    PROVE  Taken(Rest(buf, 0), Len(s)) = s
<1>0. Len(s) \in Nat /\ 0 \in Nat
  OBVIOUS
<1>1. buf \in Seq(Octet) /\ Len(buf) = RF22_MAX_MESSAGE_LEN /\ Len(buf) \in Nat
  BY BufferIsSeq
<1> DEFINE r == Rest(buf, 0)
           b == Taken(r, Len(s))
<1>2. /\ r \in Seq(Octet) /\ Len(r) = Len(buf)
      /\ \A i \in 1 .. Len(buf) - 0 : r[i] = buf[0 + i]
  <2>1. /\ r \in Seq(Octet) /\ Len(r) = IF 0 <= Len(buf) THEN Len(buf) - 0 ELSE 0
        /\ \A i \in 1 .. Len(buf) - 0 : r[i] = buf[0 + i]
    BY <1>0, <1>1, RestType
  <2> QED
    BY <1>1, <2>1
<1> HIDE DEF r
<1>3. /\ b \in Seq(Octet) /\ Len(b) = Len(s)
      /\ \A i \in 1 .. Len(s) : b[i] = IF i <= Len(r) THEN r[i] ELSE << 0, 0 >>
  BY <1>0, <1>2, TakenType
<1> HIDE DEF b
<1>4. \A i \in 1 .. Len(s) : b[i] = s[i]
  <2> SUFFICES ASSUME NEW i \in 1 .. Len(s) PROVE b[i] = s[i]
    OBVIOUS
  <2>1. i <= Len(r) /\ i \in 1 .. Len(buf) - 0 /\ 0 + i = i
    BY <1>0, <1>1, <1>2
  <2> QED
    BY <1>2, <1>3, <2>1
<1>5. b = s
  BY <1>3, <1>4, EqualSeqs
<1> QED
  BY <1>5 DEF b, r

LEMMA Sizes ==
    RF22_MAX_MESSAGE_LEN \in Nat /\ RF22_MAX_MESSAGE_LEN < 256 /\ FRAGMENT \in Int
<1>1. RF22_MAX_MESSAGE_LEN \in Nat /\ RF22_MAX_MESSAGE_LEN < 256
  BY LengthAssumption DEF Byte
<1>2. FRAGMENT \in Int
  BY LengthAssumption
<1> QED
  BY <1>1, <1>2

LEMMA SmallMod == \A n \in Nat : n < 256 => (n - 0) % Byte = n /\ (0 + n) % Byte = n
BY DEF Byte

\* A step of sendNextFragment or startTransmit that leaves the message alone.
LEMMA LoadsOn ==
    ASSUME TypesOK, Sends, at[P] \in Loading, NEW p, NEW q \in Loading, ByProgram(p, q),
           h'.mode = h.mode, h'.buf = h.buf, h'.len = h.len,
           c'.mode = c.mode, c'.out = c.out, c'.flags = c.flags,
           h'.idx = IF q \in {"packet_length", "set_length", "tx", "tx_on"} THEN Len(msg) ELSE 0,
           c'.tx = IF q \in {"fragment", "some_left", "len", "len_less_idx", "from_idx", "request",
                             "write_fifo"} THEN << >> ELSE msg,
           q \in {"some_left", "request", "add_to_idx"} => loc'[P].i = 0,
           q \in {"len_less_idx", "from_idx", "request", "write_fifo", "idx", "add_to_idx",
                  "set_length"} => loc'[P].n = Len(msg),
           q = "write_fifo" => loc'[P].b = msg,
           q \in {"tx", "tx_on"} => c'.pktLen = Len(msg)
    PROVE  Sends'
<1>1. Loads /\ Composing
  BY DEF Sends, Loads
<1>2. Composing' /\ Pending'
  BY <1>1, Composes
<1>3. Buffered' /\ msg' = msg /\ given' = given /\ aired' = aired /\ at'[P] = q
  BY <1>1 DEF Loads, Buffered, ByProgram
<1>4. Loads'
  BY <1>1, <1>2, <1>3 DEF Loads
<1> QED
  BY <1>2, <1>3, <1>4, Arrives

LEMMA LoadsStep ==
    ASSUME TypesOK, Sends, Short, at[P] # "tx_mode",
           sendNextFragment(P) \/ startTransmit(P) \/ setModeTx(P)
    PROVE  Sends'
<1>0. msg \in Seq(Octet) /\ h.buf \in Buffer /\ loc[P] \in Locals
  <2>1. loc[P] \in Locals
    BY LocalTypes DEF Threads, P
  <2> QED
    BY <2>1, DriverTypes, MessageType
<1>n. /\ Len(msg) \in Nat /\ RF22_MAX_MESSAGE_LEN \in Nat /\ RF22_MAX_MESSAGE_LEN < 256
      /\ FRAGMENT \in Int
  BY MessageType, Sizes
<1>1. at[P] \in Loading
  <2>1. at[P] \in {"fragment", "some_left", "len", "len_less_idx", "from_idx", "request", "write_fifo",
                   "idx", "add_to_idx", "packet_length", "set_length", "tx", "tx_on"}
    BY DEF sendNextFragment, startTransmit, setModeTx, Reads, Tests, Sets, Tells, Moves
  <2> QED
    BY <2>1, Stages
<1>2. Loads
  BY <1>1 DEF Sends
<1>3. h.mode = "idle" /\ Buffered /\ given = Append(aired, msg)
  BY <1>2 DEF Loads, Composing
<1>l. h.len = Len(msg) /\ Len(msg) > 0 /\ Len(msg) <= RF22_MAX_MESSAGE_LEN
  <2>1. msg # << >>
    BY <1>2 DEF Loads
  <2>2. Len(msg) \in Nat \ {0}
    BY <1>0, <2>1, EmptySeq
  <2>3. h.len = Len(msg) /\ Len(msg) <= RF22_MAX_MESSAGE_LEN
    BY <1>2 DEF Loads
  <2> QED
    BY <2>2, <2>3
<1>m. /\ (Len(msg) - 0) % Byte = Len(msg) /\ (0 + Len(msg)) % Byte = Len(msg)
  <2>1. Len(msg) < 256
    BY <1>n, <1>l
  <2> QED
    BY <1>n, <2>1, SmallMod
<1>4. Len(msg) <= FRAGMENT
  BY <1>0, <1>3, LastShort
<1>5. \A x : /\ I(P, x).i = x /\ I(P, x).n = loc[P].n /\ I(P, x).b = loc[P].b
             /\ N(P, x).n = x /\ N(P, x).i = loc[P].i /\ B(P, x).b = x /\ B(P, x).n = loc[P].n
  BY <1>0 DEF I, N, B, Locals
<1>6. CASE Reads(P, "fragment", "some_left", I(P, h.idx))
  <2>1. ByProgram("fragment", "some_left") /\ c' = c /\ h' = h
    BY <1>6, ProgramSteps
  <2>2. h.idx = 0 /\ c.tx = << >>
    BY <1>2, <2>1 DEF Loads, ByProgram
  <2>3. loc'[P] = I(P, h.idx)
    BY <1>6, ProgramLocals DEF Reads
  <2>4. loc'[P].i = 0
    BY <1>5, <2>2, <2>3
  <2> QED
    BY <1>1, <2>1, <2>2, <2>4, Stages, LoadsOn
<1>7. CASE Tests(P, "some_left", IF loc[P].i < h.len THEN "len" ELSE FragmentSent(P))
  <2>1. at[P] = "some_left"
    BY <1>7 DEF Tests, Reads, Moves
  <2>2. h.idx = 0 /\ c.tx = << >> /\ loc[P].i = 0
    BY <1>2, <2>1 DEF Loads
  <2>3. loc[P].i < h.len
    BY <1>l, <2>2
  <2>4. Tests(P, "some_left", "len")
    BY <1>7, <2>3
  <2>5. ByProgram("some_left", "len") /\ c' = c /\ h' = h
    BY <2>4, ProgramSteps
  <2> QED
    BY <1>1, <2>2, <2>5, Stages, LoadsOn
<1>8. CASE Reads(P, "len", "len_less_idx", N(P, h.len))
  <2>1. ByProgram("len", "len_less_idx") /\ c' = c /\ h' = h
    BY <1>8, ProgramSteps
  <2>2. h.idx = 0 /\ c.tx = << >>
    BY <1>2, <2>1 DEF Loads, ByProgram
  <2>3. loc'[P] = N(P, h.len)
    BY <1>8, ProgramLocals DEF Reads
  <2>4. loc'[P].n = Len(msg)
    BY <1>l, <1>5, <2>3
  <2> QED
    BY <1>1, <2>1, <2>2, <2>4, Stages, LoadsOn
<1>9. CASE Reads(P, "len_less_idx", "from_idx", N(P, Lesser((loc[P].n - h.idx) % Byte, FRAGMENT)))
  <2>1. ByProgram("len_less_idx", "from_idx") /\ c' = c /\ h' = h
    BY <1>9, ProgramSteps
  <2>2. h.idx = 0 /\ c.tx = << >> /\ loc[P].n = Len(msg)
    BY <1>2, <2>1 DEF Loads, ByProgram
  <2>3. Lesser((loc[P].n - h.idx) % Byte, FRAGMENT) = Len(msg)
    <3>1. (loc[P].n - h.idx) % Byte = Len(msg)
      BY <1>m, <2>2
    <3>2. Lesser(Len(msg), FRAGMENT) = Len(msg)
      BY <1>n, <1>4 DEF Lesser
    <3> QED
      BY <3>1, <3>2
  <2>4. loc'[P] = N(P, Len(msg))
    BY <1>9, <2>3, ProgramLocals DEF Reads
  <2>5. loc'[P].n = Len(msg)
    BY <1>5, <2>4
  <2> QED
    BY <1>1, <2>1, <2>2, <2>5, Stages, LoadsOn
<1>10. CASE Reads(P, "from_idx", "request", I(P, h.idx))
  <2>1. ByProgram("from_idx", "request") /\ c' = c /\ h' = h
    BY <1>10, ProgramSteps
  <2>2. h.idx = 0 /\ c.tx = << >> /\ loc[P].n = Len(msg)
    BY <1>2, <2>1 DEF Loads, ByProgram
  <2>3. loc'[P] = I(P, h.idx)
    BY <1>10, ProgramLocals DEF Reads
  <2>4. loc'[P].i = 0 /\ loc'[P].n = Len(msg)
    BY <1>5, <2>2, <2>3
  <2> QED
    BY <1>1, <2>1, <2>2, <2>4, Stages, LoadsOn
<1>11. CASE Reads(P, "request", "write_fifo", B(P, Taken(Rest(h.buf, loc[P].i), loc[P].n)))
  <2>1. ByProgram("request", "write_fifo") /\ c' = c /\ h' = h
    BY <1>11, ProgramSteps
  <2>2. h.idx = 0 /\ c.tx = << >> /\ loc[P].n = Len(msg) /\ loc[P].i = 0
    BY <1>2, <2>1 DEF Loads, ByProgram
  <2>3. Taken(Rest(h.buf, loc[P].i), loc[P].n) = msg
    BY <1>0, <1>3, <1>l, <2>2, TakenMessage DEF Buffered
  <2>4. loc'[P] = B(P, msg)
    BY <1>11, <2>3, ProgramLocals DEF Reads
  <2>5. loc'[P].b = msg /\ loc'[P].n = Len(msg)
    BY <1>5, <2>2, <2>4
  <2> QED
    BY <1>1, <2>1, <2>2, <2>5, Stages, LoadsOn
<1>12. CASE Tells(P, "write_fifo", "idx", [c EXCEPT !.tx = c.tx \o loc[P].b])
  <2>1. ByProgram("write_fifo", "idx") /\ h' = h /\ c' = [c EXCEPT !.tx = c.tx \o loc[P].b]
    BY <1>12, ProgramSteps
  <2>2. h.idx = 0 /\ c.tx = << >> /\ loc[P].n = Len(msg) /\ loc[P].b = msg
    BY <1>2, <2>1 DEF Loads, ByProgram
  <2>3. c.tx \o loc[P].b = msg
    BY <1>0, <2>2, ConcatEmptySeq
  <2>4. c'.tx = msg /\ c'.mode = c.mode /\ c'.out = c.out /\ c'.flags = c.flags
    BY <2>1, <2>3, Registers
  <2>5. loc'[P] = loc[P]
    BY <1>12, ProgramLocals DEF Tells
  <2>6. ByProgram("write_fifo", "idx") /\ h' = h
    BY <2>1
  <2> QED
    BY <1>1, <2>2, <2>4, <2>5, <2>6, Stages, LoadsOn
<1>13. CASE Reads(P, "idx", "add_to_idx", I(P, h.idx))
  <2>1. ByProgram("idx", "add_to_idx") /\ c' = c /\ h' = h
    BY <1>13, ProgramSteps
  <2>2. h.idx = 0 /\ c.tx = msg /\ loc[P].n = Len(msg)
    BY <1>2, <2>1 DEF Loads, ByProgram
  <2>3. loc'[P] = I(P, h.idx)
    BY <1>13, ProgramLocals DEF Reads
  <2>4. loc'[P].i = 0 /\ loc'[P].n = Len(msg)
    BY <1>5, <2>2, <2>3
  <2> QED
    BY <1>1, <2>1, <2>2, <2>4, Stages, LoadsOn
<1>14. CASE Sets(P, "add_to_idx", FragmentSent(P), [h EXCEPT !.idx = (loc[P].i + loc[P].n) % Byte])
  <2>0. FragmentSent(P) = "packet_length"
    BY DEF FragmentSent, Handles, P
  <2>1. /\ ByProgram("add_to_idx", "packet_length") /\ c' = c
        /\ h' = [h EXCEPT !.idx = (loc[P].i + loc[P].n) % Byte]
    BY <1>14, <2>0, ProgramSteps
  <2>2. c.tx = msg /\ loc[P].n = Len(msg) /\ loc[P].i = 0
    BY <1>2, <2>1 DEF Loads, ByProgram
  <2>3. (loc[P].i + loc[P].n) % Byte = Len(msg)
    BY <1>m, <2>2
  <2>4. h'.idx = Len(msg) /\ h'.len = h.len /\ h'.mode = h.mode /\ h'.buf = h.buf
    BY <2>1, <2>3, Fields
  <2> QED
    BY <1>1, <2>1, <2>2, <2>4, Stages, LoadsOn
<1>15. CASE Reads(P, "packet_length", "set_length", N(P, h.len))
  <2>1. ByProgram("packet_length", "set_length") /\ c' = c /\ h' = h
    BY <1>15, ProgramSteps
  <2>2. h.idx = Len(msg) /\ c.tx = msg
    BY <1>2, <2>1 DEF Loads, ByProgram
  <2>3. loc'[P] = N(P, h.len)
    BY <1>15, ProgramLocals DEF Reads
  <2>4. loc'[P].n = Len(msg)
    BY <1>l, <1>5, <2>3
  <2> QED
    BY <1>1, <2>1, <2>2, <2>4, Stages, LoadsOn
<1>16. CASE Tells(P, "set_length", "tx", [c EXCEPT !.pktLen = loc[P].n])
  <2>1. ByProgram("set_length", "tx") /\ h' = h /\ c' = [c EXCEPT !.pktLen = loc[P].n]
    BY <1>16, ProgramSteps
  <2>2. h.idx = Len(msg) /\ c.tx = msg /\ loc[P].n = Len(msg)
    BY <1>2, <2>1 DEF Loads, ByProgram
  <2>3. c'.tx = msg /\ c'.pktLen = Len(msg) /\ c'.mode = c.mode /\ c'.out = c.out /\ c'.flags = c.flags
    BY <2>1, <2>2, Registers
  <2>4. ByProgram("set_length", "tx") /\ h' = h
    BY <2>1
  <2> QED
    BY <1>1, <2>2, <2>3, <2>4, Stages, LoadsOn
<1>17. CASE Tests(P, "tx", IF h.mode = "tx" THEN Done(P) ELSE "tx_on")
  <2>1. Tests(P, "tx", "tx_on")
    BY <1>3, <1>17
  <2>2. ByProgram("tx", "tx_on") /\ c' = c /\ h' = h
    BY <2>1, ProgramSteps
  <2>3. h.idx = Len(msg) /\ c.tx = msg /\ c.pktLen = Len(msg)
    BY <1>2, <2>2 DEF Loads, ByProgram
  <2> QED
    BY <1>1, <2>2, <2>3, Stages, LoadsOn
<1>18. CASE Tells(P, "tx_on", "tx_mode", TxOn)
  <2>1. ByProgram("tx_on", "tx_mode") /\ h' = h /\ c' = TxOn
    BY <1>18, ProgramSteps
  <2>2. h.idx = Len(msg) /\ c.tx = msg /\ c.pktLen = Len(msg) /\ c.out = << >> /\ Quiet
    BY <1>2, <2>1 DEF Loads, ByProgram, Composing
  <2>3. c'.tx = msg /\ c'.pktLen = Len(msg) /\ c'.mode = "tx" /\ c'.out = << >> /\ c'.flags = c.flags
    BY <2>1, <2>2, Registers
  <2>4. Quiet' /\ at'[P] = "tx_mode" /\ given' = given /\ aired' = aired
    BY <2>1, <2>2, <2>3 DEF Quiet, ByProgram
  <2>5. c'.out \o c'.tx = msg /\ Len(c'.out) + Len(c'.tx) = c'.pktLen
    <3>1. << >> \o msg = msg
      BY <1>0, ConcatEmptySeq
    <3>2. 0 + Len(msg) = Len(msg)
      BY <1>n
    <3> QED
      BY <2>3, <3>1, <3>2
  <2>6. Going'
    BY <1>3, <2>3, <2>4, <2>5 DEF Going
  <2>7. h'.idx >= h'.len
    BY <1>n, <1>l, <2>1, <2>2
  <2>8. Airs' /\ at'[P] \in OnAir
    BY <1>3, <2>1, <2>4, <2>6, <2>7, Stages DEF Airs
  <2> QED
    BY <2>4, <2>8, QuietPends, Arrives
<1>19. CASE Sets(P, "tx_mode", "reset_rx", [h EXCEPT !.mode = "tx"])
  BY <1>19 DEF Sets, Moves
<1> QED
  BY <1>6, <1>7, <1>8, <1>9, <1>10, <1>11, <1>12, <1>13, <1>14, <1>15, <1>16, <1>17, <1>18, <1>19
     DEF sendNextFragment, startTransmit, setModeTx

\* What the handler has to do stays the same when the program takes a step that
\* makes the message no longer and leaves the radio where it is.
LEMMA PendsOn ==
    ASSUME TypesOK, Pending, at'[H] = at[H], loc'[H] = loc[H], flag' = flag, isr' = isr,
           given' = given, aired' = aired,
           c'.mode = c.mode, c'.out = c.out, c'.tx = c.tx, c'.flags = c.flags,
           NEW n \in Nat, n = h'.len, n <= h.len
    PROVE  Pending'
<1>1. at[H] = "some_left" => loc[H].i >= n
  <2>1. h.len \in Nat /\ loc[H].i \in Nat
    BY DriverTypes, LocalTypes DEF Threads, H
  <2>2. at[H] = "some_left" => loc[H].i >= h.len
    BY DEF Pending
  <2> QED
    BY <2>1, <2>2
<1>2. Sent' = Sent
  BY DEF Sent
<1> QED
  BY <1>1, <1>2 DEF Pending

LEMMA AirsOn ==
    ASSUME TypesOK, Sends, at[P] \in OnAir \ {"tx_mode"},
           NEW q \in OnAir \ {"tx_mode"}, at'[P] = q,
           at'[H] = at[H], loc'[H] = loc[H], flag' = flag, isr' = isr, given' = given, aired' = aired,
           c'.mode = c.mode, c'.out = c.out, c'.tx = c.tx, c'.flags = c.flags, c'.pktLen = c.pktLen,
           h'.idx = h.idx, h'.mode = h.mode, h'.len = 0 \/ h'.len = h.len
    PROVE  Sends'
<1>1. Pending /\ Airs
  BY DEF Sends
<1>2. h.len \in Nat /\ h.idx \in Nat /\ h'.len \in Nat /\ h'.len <= h.len
  BY DriverTypes
<1>3. Pending'
  BY <1>1, <1>2, PendsOn
<1>4. /\ Sent => Sent'
      /\ Going => Going'
      /\ Quiet => Quiet'
  BY DEF Sent, Going, Quiet
<1>5. h.idx >= h.len => h'.idx >= h'.len
  BY <1>2
<1>6. Airs'
  BY <1>1, <1>4, <1>5 DEF Airs
<1> QED
  BY <1>3, <1>6, Arrives

LEMMA AirsProgram ==
    ASSUME TypesOK, Sends, duty.hears = 0, Program, at[P] \in OnAir
    PROVE  Sends'
<1>0. Pending /\ Airs
  BY DEF Sends
<1>1. at[P] \in {"idle", "wait", "tx_mode", "reset_rx", "rx_len", "rx_valid"}
  BY Stages
<1>2. CASE Send
  <2>1. at[P] = "idle" /\ at'[P] = "wait" /\ at'[H] = at[H] /\ loc'[H] = loc[H] /\ aired' = aired
    BY <1>2, ProgramMoves DEF Send
  <2>2. h' = h /\ c' = c /\ isr' = isr /\ flag' = flag /\ given' = given
    BY <1>2 DEF Send
  <2> QED
    BY <2>1, <2>2, Stages, AirsOn
<1>3. CASE Tests(P, "wait", "tx_len") /\ waitPacketSent
  <2>1. ByProgram("wait", "tx_len") /\ h' = h /\ c' = c
    BY <1>3, ProgramSteps
  <2>2. h.mode = "idle" /\ Sent /\ Quiet
    BY <1>0, <1>3, <2>1 DEF Airs, waitPacketSent, ByProgram
  <2>3. Quiet' /\ Composing'
    BY <2>1, <2>2 DEF Quiet, Composing, Sent, ByProgram
  <2>4. Fills'
    BY <2>1, <2>2, <2>3 DEF Fills, Sent, ByProgram
  <2>5. at'[P] \in Filled
    BY <2>1, Stages DEF ByProgram
  <2> QED
    BY <2>3, <2>4, <2>5, QuietPends, Arrives
<1>4. CASE Sets(P, "tx_mode", "reset_rx", [h EXCEPT !.mode = "tx"])
  <2>1. ByProgram("tx_mode", "reset_rx") /\ c' = c /\ h' = [h EXCEPT !.mode = "tx"]
    BY <1>4, ProgramSteps
  <2>2. h'.mode = "tx" /\ h'.len = h.len /\ h'.idx = h.idx
    BY <2>1, Fields
  <2>3. (Sent \/ Going) /\ h.idx >= h.len
    BY <1>0, <2>1 DEF Airs, ByProgram
  <2>4. (Sent => Sent') /\ (Going => Going')
    BY <2>1 DEF Sent, Going, ByProgram
  <2>5. Pending'
    <3>1. h.len \in Nat /\ h.len <= h.len
      BY DriverTypes
    <3> QED
      BY <1>0, <2>1, <2>2, <3>1, PendsOn DEF ByProgram
  <2>6. Airs'
    BY <2>1, <2>2, <2>3, <2>4 DEF Airs, ByProgram
  <2>7. at'[P] \in OnAir
    BY <2>1, Stages DEF ByProgram
  <2> QED
    BY <2>5, <2>6, <2>7, Arrives
<1>5. CASE resetRxFifo(P)
  <2>0. FifoReset(P) = "rx_len"
    BY DEF FifoReset, Handles, P
  <2>1. ByProgram("reset_rx", "rx_len") /\ h' = h /\ c' = [c EXCEPT !.rx = << >>]
    BY <1>5, <2>0, ProgramSteps DEF resetRxFifo
  <2>2. /\ c'.mode = c.mode /\ c'.out = c.out /\ c'.tx = c.tx /\ c'.flags = c.flags
        /\ c'.pktLen = c.pktLen
    BY <2>1, Registers
  <2>3. ByProgram("reset_rx", "rx_len") /\ h' = h
    BY <2>1
  <2> QED
    BY <2>2, <2>3, Stages, AirsOn DEF ByProgram
<1>6. CASE clearRxBuf(P)
  <2>0. RxCleared(P) = "idle"
    BY DEF RxCleared, Done, Handles, P
  <2>1. CASE Sets(P, "rx_len", "rx_valid", [h EXCEPT !.len = 0])
    <3>1. ByProgram("rx_len", "rx_valid") /\ c' = c /\ h' = [h EXCEPT !.len = 0]
      BY <2>1, ProgramSteps
    <3>2. h'.len = 0 /\ h'.mode = h.mode /\ h'.idx = h.idx
      BY <3>1, Fields
    <3>3. ByProgram("rx_len", "rx_valid") /\ c' = c
      BY <3>1
    <3> QED
      BY <3>2, <3>3, Stages, AirsOn DEF ByProgram
  <2>2. CASE Sets(P, "rx_valid", RxCleared(P), [h EXCEPT !.valid = FALSE])
    <3>1. ByProgram("rx_valid", "idle") /\ c' = c /\ h' = [h EXCEPT !.valid = FALSE]
      BY <2>0, <2>2, ProgramSteps
    <3>2. h'.len = h.len /\ h'.mode = h.mode /\ h'.idx = h.idx
      BY <3>1, Fields
    <3>3. ByProgram("rx_valid", "idle") /\ c' = c
      BY <3>1
    <3> QED
      BY <3>2, <3>3, Stages, AirsOn DEF ByProgram
  <2> QED
    BY <1>6, <2>1, <2>2 DEF clearRxBuf
<1>7. ~setModeRx(P) /\ ~sendNextFragment(P) /\ ~startTransmit(P)
  BY <1>1 DEF setModeRx, sendNextFragment, startTransmit, Reads, Tests, Sets, Tells, Moves
<1>8. ~recv /\ ~appendTxBuf
  <2>1. ~available
    BY <1>1 DEF available, Tests, Reads, Moves
  <2>2. ~Copy /\ ~appendTxBuf
    BY <1>1 DEF Copy, appendTxBuf, Accept, Tests, Reads, Sets, Moves
  <2>3. ~Reads(P, "size", IF RF22_MAX_MESSAGE_LEN > h.len THEN "cut" ELSE "copy_out",
               N(P, RF22_MAX_MESSAGE_LEN))
        /\ ~Reads(P, "cut", "copy_out", N(P, h.len))
    BY <1>1 DEF Reads, Moves
  <2> QED
    BY <2>1, <2>2, <2>3 DEF recv
<1>9. CASE fillTxBuf
  BY <1>1, <1>3, <1>9 DEF fillTxBuf, Sets, Moves
<1>10. CASE setModeTx(P)
  BY <1>1, <1>4, <1>10 DEF setModeTx, Tests, Reads, Tells, Moves
<1> QED
  BY <1>2, <1>5, <1>6, <1>7, <1>8, <1>9, <1>10 DEF Program, Calls

LEMMA SendsProgram ==
    ASSUME TypesOK, TypesOK', Sends, duty.hears = 0, Short, Program
    PROVE  Sends'
<1>1. at[P] \in Filled \/ at[P] \in Loading \/ at[P] \in OnAir
  BY DEF Sends
<1>2. CASE at[P] \in OnAir
  BY <1>2, AirsProgram
<1>3. CASE at[P] \in Filled
  <2>1. at[P] \in {"tx_len", "tx_idx", "fits", "to", "copy_in", "sum", "add"}
    BY <1>3, Stages
  <2>2. ~Send /\ ~clearRxBuf(P) /\ ~resetRxFifo(P) /\ ~setModeRx(P) /\ ~setModeTx(P)
    BY <2>1 DEF Send, clearRxBuf, resetRxFifo, setModeRx, setModeTx, Reads, Tests, Sets, Tells, Moves
  <2>3. ~sendNextFragment(P) /\ ~startTransmit(P)
    BY <2>1 DEF sendNextFragment, startTransmit, Reads, Tests, Sets, Tells, Moves
  <2>4. ~recv
    BY <2>1 DEF recv, available, Copy, Reads, Tests, Moves
  <2> QED
    BY <2>1, <2>2, <2>3, <2>4, FillsStep DEF Program, Calls
<1>4. CASE at[P] \in Loading
  <2>1. at[P] \in {"fragment", "some_left", "len", "len_less_idx", "from_idx", "request", "write_fifo",
                   "idx", "add_to_idx", "packet_length", "set_length", "tx", "tx_on"}
    BY <1>4, Stages
  <2>2. ~Send /\ ~clearRxBuf(P) /\ ~resetRxFifo(P) /\ ~setModeRx(P)
    BY <2>1 DEF Send, clearRxBuf, resetRxFifo, setModeRx, Reads, Tests, Sets, Tells, Moves
  <2>3. ~fillTxBuf /\ ~appendTxBuf
    BY <2>1 DEF fillTxBuf, appendTxBuf, Accept, Reads, Tests, Sets, Moves
  <2>4. ~recv
    BY <2>1 DEF recv, available, Copy, Reads, Tests, Moves
  <2> QED
    BY <2>1, <2>2, <2>3, <2>4, LoadsStep DEF Program, Calls
<1> QED
  BY <1>1, <1>2, <1>3, <1>4

\* The handler moves on without touching what the program relies on.
LEMMA Undisturbed ==
    ASSUME Sends, at'[P] = at[P], loc'[P] = loc[P], h' = h, c' = c,
           msg' = msg, given' = given, aired' = aired, Pending', Quiet => Quiet'
    PROVE  Sends'
<1>1. CASE at[P] \in Filled
  <2>1. Fills /\ Composing
    BY <1>1 DEF Sends, Fills
  <2>2. Composing'
    BY <2>1 DEF Composing
  <2>3. Fills'
    BY <2>1, <2>2 DEF Fills, Buffered
  <2> QED
    BY <1>1, <2>3, Arrives
<1>2. CASE at[P] \in Loading
  <2>1. Loads /\ Composing
    BY <1>2 DEF Sends, Loads
  <2>2. Composing'
    BY <2>1 DEF Composing
  <2>3. Loads'
    BY <2>1, <2>2 DEF Loads, Buffered
  <2> QED
    BY <1>2, <2>3, Arrives
<1>3. CASE at[P] \in OnAir
  <2>1. Airs
    BY <1>3 DEF Sends
  <2>2. (Sent => Sent') /\ (Going => Going')
    BY DEF Sent, Going
  <2>3. Airs'
    BY <2>1, <2>2 DEF Airs
  <2> QED
    BY <1>3, <2>3, Arrives
<1> QED
  BY <1>1, <1>2, <1>3 DEF Sends

\* When there is something to do the program does not compose a message, and the
\* driver takes itself for sending.
LEMMA Busy ==
    ASSUME Sends, ~Quiet \/ c.mode = "tx"
    PROVE  /\ at[P] \in OnAir /\ Airs
           /\ h.mode = "tx" \/ at[P] = "tx_mode"
           /\ Sent \/ Going
           /\ h.idx >= h.len
<1>1. ~Composing
  BY DEF Composing
<1>2. at[P] \in OnAir /\ Airs
  BY <1>1 DEF Sends, Fills, Loads
<1>3. h.mode = "tx" \/ at[P] = "tx_mode"
  BY <1>2 DEF Airs, Sent
<1> QED
  BY <1>2, <1>3 DEF Airs

LEMMA SendsHandler ==
    ASSUME TypesOK, Sends, handleInterrupt
    PROVE  Sends'
<1>0. Pending /\ at[H] \in {"idle", "flags", "fragment", "some_left", "sent"}
  BY DEF Sends, Pending
<1>1. CASE ReadFlags
  <2>1. /\ at[H] = "idle" /\ at'[H] = "flags" /\ at'[P] = at[P] /\ loc'[P] = loc[P] /\ aired' = aired
    BY <1>1, HandlerMoves DEF ReadFlags
  <2>2. /\ c.flags # {} /\ isr' = c.flags /\ c' = [c EXCEPT !.flags = {}] /\ h' = h
        /\ given' = given
    BY <1>1 DEF ReadFlags
  <2>3. /\ c'.flags = {} /\ c'.mode = c.mode /\ c'.out = c.out /\ c'.tx = c.tx /\ c'.pktLen = c.pktLen
    BY <2>2, Registers
  <2>4. at[P] \in OnAir /\ Airs /\ (h.mode = "tx" \/ at[P] = "tx_mode")
    BY <2>2, Busy DEF Quiet
  <2>5. (Sent => Sent') /\ (Going => Going')
    BY <2>1, <2>2, <2>3 DEF Sent, Going
  <2>6. Pending'
    <3>1. c.flags \subseteq {"txffaem", "pksent"} /\ ("pksent" \in c.flags => Sent)
      BY <1>0 DEF Pending
    <3>2. isr' = c.flags /\ c'.flags = {} /\ at'[H] = "flags"
      BY <2>1, <2>2, <2>3
    <3> QED
      BY <2>5, <3>1, <3>2 DEF Pending
  <2>7. Airs'
    <3>1. h' = h /\ at'[P] = at[P]
      BY <2>1, <2>2
    <3> QED
      BY <2>4, <2>5, <3>1 DEF Airs
  <2> QED
    BY <2>1, <2>4, <2>6, <2>7, Arrives
<1>2. CASE NextFlag
  <2>0. h' = h /\ c' = c /\ msg' = msg /\ given' = given
    BY <1>2 DEF NextFlag
  <2>1. CASE isr = {} /\ Moves(H, "flags", "idle", Hl) /\ isr' = {}
    <3>1. /\ at[H] = "flags" /\ at'[H] = "idle" /\ at'[P] = at[P] /\ loc'[P] = loc[P] /\ aired' = aired
      BY <2>1, HandlerMoves
    <3>2. Sent' = Sent
      BY <2>0, <3>1 DEF Sent
    <3>3. Pending' /\ (Quiet => Quiet')
      BY <1>0, <2>0, <2>1, <3>1, <3>2 DEF Pending, Quiet
    <3> QED
      BY <2>0, <3>1, <3>3, Undisturbed
  <2>2. CASE \E f \in isr : /\ First(f, isr)
                            /\ Moves(H, "flags", Begins[f], Hl) /\ isr' = isr \ {f} /\ flag' = f
    <3>1. PICK f \in isr : /\ First(f, isr)
                           /\ Moves(H, "flags", Begins[f], Hl) /\ isr' = isr \ {f} /\ flag' = f
      BY <2>2
    <3>2. /\ at[H] = "flags" /\ at'[H] = Begins[f] /\ at'[P] = at[P] /\ loc'[P] = loc[P]
          /\ aired' = aired
      BY <3>1, HandlerMoves
    <3>3. Sent' = Sent /\ ~Quiet
      BY <2>0, <3>1, <3>2 DEF Sent, Quiet
    <3>4. /\ isr \subseteq {"txffaem", "pksent"} /\ ("pksent" \in isr => Sent /\ c.flags = {})
      BY <1>0 DEF Pending
    <3>5. CASE f = "txffaem"
      <4>1. Begins[f] = "fragment"
        BY <3>5 DEF Begins
      <4>2. Pending'
        BY <1>0, <2>0, <3>1, <3>2, <3>3, <3>5, <4>1 DEF Pending
      <4> QED
        BY <2>0, <3>2, <3>3, <4>2, Undisturbed
    <3>6. CASE f = "pksent"
      <4>1. Begins[f] = "sent"
        BY <3>6 DEF Begins
      <4>2. "txffaem" \notin isr
        <5>1. \A g \in isr : Order["pksent"] <= Order[g]
          BY <3>1, <3>6 DEF First
        <5>2. Order["pksent"] = 4 /\ Order["txffaem"] = 2
          BY DEF Order
        <5> QED
          BY <5>1, <5>2
      <4>3. isr' = {} /\ c'.flags = {} /\ Sent'
        BY <2>0, <3>1, <3>3, <3>4, <3>6, <4>2
      <4>4. Pending'
        BY <3>2, <4>1, <4>3 DEF Pending
      <4> QED
        BY <2>0, <3>2, <3>3, <4>4, Undisturbed
    <3> QED
      BY <3>1, <3>4, <3>5, <3>6
  <2> QED
    BY <1>2, <2>1, <2>2 DEF NextFlag
<1>3. CASE Reads(H, "fragment", "some_left", I(H, h.idx))
  <2>1. ByHandler("fragment", "some_left") /\ h' = h /\ c' = c
    BY <1>3, HandlerSteps
  <2>2. at[H] = "fragment" /\ ~Quiet /\ flag = "txffaem"
    BY <1>0, <2>1 DEF ByHandler, Quiet, Pending
  <2>3. h.idx >= h.len
    BY <2>2, Busy
  <2>4. loc'[H].i = h.idx
    <3>1. loc'[H] = [loc[H] EXCEPT !.i = h.idx]
      BY <1>3, HandlerLocals DEF Reads, I
    <3>2. loc[H] \in Locals
      BY LocalTypes DEF Threads, H
    <3> QED
      BY <3>1, <3>2 DEF Locals
  <2>5. Sent' = Sent
    BY <2>1 DEF Sent, ByHandler
  <2>6. Pending'
    BY <1>0, <2>1, <2>2, <2>3, <2>4, <2>5 DEF Pending, ByHandler
  <2> QED
    BY <2>1, <2>2, <2>6, Undisturbed DEF ByHandler
<1>4. CASE Tests(H, "some_left", IF loc[H].i < h.len THEN "len" ELSE FragmentSent(H))
  <2>1. at[H] = "some_left"
    BY <1>4 DEF Tests, Reads, Moves
  <2>2. loc[H].i >= h.len /\ flag = "txffaem" /\ ~Quiet
    BY <1>0, <2>1 DEF Pending, Quiet
  <2>3. ~(loc[H].i < h.len)
    <3>1. loc[H].i \in Nat /\ h.len \in Nat
      BY DriverTypes, LocalTypes DEF Threads, H
    <3> QED
      BY <2>2, <3>1
  <2>4. FragmentSent(H) = "flags"
    BY <2>2 DEF FragmentSent, Handles, H
  <2>5. Tests(H, "some_left", "flags")
    BY <1>4, <2>3, <2>4
  <2>6. ByHandler("some_left", "flags") /\ h' = h /\ c' = c
    BY <2>5, HandlerSteps
  <2>7. Sent' = Sent
    BY <2>6 DEF Sent, ByHandler
  <2>8. Pending'
    BY <1>0, <2>6, <2>7 DEF Pending, ByHandler
  <2> QED
    BY <2>2, <2>6, <2>8, Undisturbed DEF ByHandler
<1>5. CASE PacketSent
  <2>1. ByHandler("sent", "flags") /\ c' = c /\ h' = [h EXCEPT !.mode = "idle"]
    BY <1>5, HandlerSteps DEF PacketSent
  <2>2. h'.mode = "idle" /\ h'.len = h.len /\ h'.idx = h.idx
    BY <2>1, Fields
  <2>3. at[H] = "sent" /\ Sent /\ isr = {} /\ c.flags = {} /\ ~Quiet
    BY <1>0, <2>1 DEF Pending, Quiet, ByHandler
  <2>4. at[P] \in OnAir /\ h.idx >= h.len
    BY <2>3, Busy
  <2>5. Sent' /\ Quiet'
    BY <2>1, <2>3 DEF Sent, Quiet, ByHandler
  <2>6. Airs' /\ at'[P] = at[P]
    BY <2>1, <2>2, <2>4, <2>5 DEF Airs, ByHandler
  <2> QED
    BY <2>4, <2>5, <2>6, QuietPends, Arrives
<1>6. ~clearRxBuf(H) /\ ~resetRxFifo(H) /\ ~setModeRx(H) /\ ~setModeTx(H) /\ ~startTransmit(H)
  BY <1>0 DEF clearRxBuf, resetRxFifo, setModeRx, setModeTx, startTransmit, Reads, Tests, Sets, Tells,
     Moves
<1>7. ~FifoError /\ ~readNextFragment
  BY <1>0 DEF FifoError, resetFifos, restartTransmit, readNextFragment, ReadFifo, Copied, Reads, Tests,
     Sets, Tells, Moves
<1>8. ~PacketValid /\ ~CrcError
  BY <1>0 DEF PacketValid, Drop, CrcError, ReadFifo, Copied, Reads, Tests, Sets, Moves
<1>9. CASE sendNextFragment(H)
  BY <1>0, <1>3, <1>4, <1>9 DEF sendNextFragment, Reads, Sets, Tells, Moves
<1> QED
  BY <1>1, <1>2, <1>5, <1>6, <1>7, <1>8, <1>9 DEF handleInterrupt, Calls

\* Moving the head of one sequence to the end of the other leaves both together
\* what they were.
LEMMA MoveHead ==
    ASSUME NEW s \in Seq(Octet), NEW t \in Seq(Octet), t # << >>
    PROVE  /\ Append(s, Head(t)) \o Tail(t) = s \o t
           /\ Len(Append(s, Head(t))) + Len(Tail(t)) = Len(s) + Len(t)
<1>1. /\ Append(s, Head(t)) \in Seq(Octet) /\ Tail(t) \in Seq(Octet)
      /\ Len(Append(s, Head(t))) = Len(s) + 1 /\ Len(Tail(t)) = Len(t) - 1
      /\ \A i \in 1 .. Len(s) : Append(s, Head(t))[i] = s[i]
      /\ Append(s, Head(t))[Len(s) + 1] = t[1]
      /\ \A i \in 1 .. Len(t) - 1 : Tail(t)[i] = t[i + 1]
  OBVIOUS
<1> DEFINE a == Append(s, Head(t))
           b == Tail(t)
<1> HIDE DEF a, b
<1>2. /\ a \in Seq(Octet) /\ b \in Seq(Octet) /\ Len(a) = Len(s) + 1 /\ Len(b) = Len(t) - 1
      /\ \A i \in 1 .. Len(s) : a[i] = s[i]
      /\ a[Len(s) + 1] = t[1]
      /\ \A i \in 1 .. Len(t) - 1 : b[i] = t[i + 1]
  BY <1>1 DEF a, b
<1>3. a \o b = s \o t
  <2>1. a \o b \in Seq(Octet) /\ s \o t \in Seq(Octet) /\ Len(a \o b) = Len(s \o t)
    <3>1. a \o b \in Seq(Octet) /\ Len(a \o b) = Len(a) + Len(b)
      BY <1>2, ConcatProperties
    <3>2. s \o t \in Seq(Octet) /\ Len(s \o t) = Len(s) + Len(t)
      BY ConcatProperties
    <3>3. Len(s) \in Nat /\ Len(t) \in Nat
      OBVIOUS
    <3> QED
      BY <1>2, <3>1, <3>2, <3>3
  <2>2. \A i \in 1 .. Len(s \o t) : (a \o b)[i] = (s \o t)[i]
    <3>1. SUFFICES ASSUME NEW i \in 1 .. Len(s \o t) PROVE (a \o b)[i] = (s \o t)[i]
      OBVIOUS
    <3>2. i \in 1 .. Len(s) + Len(t)
      BY ConcatProperties
    <3>3. /\ (a \o b)[i] = IF i <= Len(a) THEN a[i] ELSE b[i - Len(a)]
          /\ (s \o t)[i] = IF i <= Len(s) THEN s[i] ELSE t[i - Len(s)]
      BY <1>2, <3>2, ConcatProperties
    <3>4. CASE i <= Len(s)
      BY <1>2, <3>2, <3>3, <3>4
    <3>5. CASE i = Len(s) + 1
      BY <1>2, <3>2, <3>3, <3>5
    <3>6. CASE i > Len(s) + 1
      <4>1. i - Len(a) \in 1 .. Len(t) - 1 /\ i - Len(s) = i - Len(a) + 1
        BY <1>2, <3>2, <3>6
      <4>2. b[i - Len(a)] = t[i - Len(a) + 1]
        BY <1>2, <4>1
      <4>3. ~(i <= Len(a)) /\ ~(i <= Len(s))
        BY <1>2, <3>2, <3>6
      <4> QED
        BY <3>3, <4>1, <4>2, <4>3
    <3>7. i \in Int /\ Len(s) \in Int
      BY <3>2
    <3>8. i <= Len(s) \/ i = Len(s) + 1 \/ i > Len(s) + 1
      BY <3>7
    <3> QED
      BY <3>4, <3>5, <3>6, <3>8
  <2> QED
    BY <2>1, <2>2, EqualSeqs
<1>4. Len(a) + Len(b) = Len(s) + Len(t)
  BY <1>2
<1> QED
  BY <1>3, <1>4 DEF a, b

LEMMA SendsRadio ==
    ASSUME TypesOK, Sends, Transmitter \/ Preamble \/ ReceiveByte
    PROVE  Sends'
<1>0. /\ c \in Chip /\ c.tx \in Seq(Octet) /\ c.out \in Seq(Octet)
      /\ Len(c.tx) \in Nat /\ Len(c.out) \in Nat
      /\ given \in Seq(Seq(Octet)) /\ aired \in Seq(Seq(Octet))
  BY ChipTypes DEF TypesOK
<1>1. c.mode # "rx"
  BY DEF Sends, Fills, Loads, Composing, Airs, Sent, Going
<1>2. c.mode = "tx" /\ Transmitter
  BY <1>1 DEF Transmitter, TransmitByte, Underflow, TransmitEnd, Preamble, ReceiveByte
<1>3. /\ at[P] \in OnAir /\ Airs /\ (h.mode = "tx" \/ at[P] = "tx_mode")
      /\ ~Sent /\ Going /\ h.idx >= h.len
  BY <1>2, Busy DEF Sent
<1>4. /\ Pending /\ "pksent" \notin c.flags \cup isr /\ at[H] # "sent"
      /\ c.flags \cup isr \subseteq {"txffaem", "pksent"}
  BY <1>3 DEF Sends, Pending
<1>5. Radio
  BY <1>2 DEF Transmitter, TransmitByte, Underflow, TransmitEnd
<1>6. h' = h /\ at' = at /\ loc' = loc /\ isr' = isr /\ flag' = flag /\ given' = given
  BY <1>5 DEF Radio, calls
<1>7. ASSUME Sent' \/ Going' PROVE Airs'
  BY <1>3, <1>6, <1>7 DEF Airs
<1>8. CASE TransmitByte
  <2> DEFINE s == [c EXCEPT !.out = Append(c.out, Head(c.tx)), !.tx = Tail(c.tx)]
  <2>1. c.tx # << >> /\ aired' = aired /\ (c' = s \/ c' = Raise(s, "txffaem"))
    BY <1>0, <1>8 DEF TransmitByte, Chip
  <2>2. /\ s.mode = "tx" /\ s.pktLen = c.pktLen /\ s.flags = c.flags
        /\ s.out = Append(c.out, Head(c.tx)) /\ s.tx = Tail(c.tx)
        /\ DOMAIN s = {"mode", "tx", "rx", "pktLen", "rxLen", "flags", "out", "air", "heard"}
    BY <1>0, <1>2 DEF Chip
  <2> HIDE DEF s
  <2>3. /\ c'.mode = "tx" /\ c'.pktLen = c.pktLen /\ c'.flags \subseteq c.flags \cup {"txffaem"}
        /\ c'.out = Append(c.out, Head(c.tx)) /\ c'.tx = Tail(c.tx)
    BY <2>1, <2>2 DEF Raise
  <2>4. /\ Append(c.out, Head(c.tx)) \o Tail(c.tx) = c.out \o c.tx
        /\ Len(Append(c.out, Head(c.tx))) + Len(Tail(c.tx)) = Len(c.out) + Len(c.tx)
    BY <1>0, <2>1, MoveHead
  <2>5. Going'
    BY <1>3, <1>6, <2>1, <2>3, <2>4 DEF Going
  <2>6. Pending'
    BY <1>4, <1>6, <2>3 DEF Pending
  <2>7. at'[P] \in OnAir
    BY <1>3, <1>6
  <2> QED
    BY <1>7, <2>5, <2>6, <2>7, Arrives
<1>9. ~Underflow
  <2>1. c.tx = << >> => Len(c.out) = c.pktLen
    BY <1>0, <1>3 DEF Going
  <2> QED
    BY <1>0, <2>1 DEF Underflow
<1>10. CASE TransmitEnd
  <2> DEFINE s == [c EXCEPT !.mode = "idle", !.out = << >>]
  <2>1. Len(c.out) >= c.pktLen /\ aired' = Append(aired, c.out) /\ c' = Raise(s, "pksent")
    BY <1>10 DEF TransmitEnd
  <2>2. /\ s.mode = "idle" /\ s.flags = c.flags /\ s.out = << >> /\ s.tx = c.tx
        /\ DOMAIN s = {"mode", "tx", "rx", "pktLen", "rxLen", "flags", "out", "air", "heard"}
    BY <1>0 DEF Chip
  <2> HIDE DEF s
  <2>3. c'.mode = "idle" /\ c'.flags = c.flags \cup {"pksent"} /\ c'.out = << >> /\ c'.tx = c.tx
    BY <2>1, <2>2 DEF Raise
  <2>4. c.tx = << >>
    <3>1. c.pktLen = Len(c.out) + Len(c.tx)
      BY <1>3 DEF Going
    <3>2. Len(c.out) >= c.pktLen /\ Len(c.tx) \in Nat /\ Len(c.out) \in Nat /\ c.pktLen \in Int
      BY <1>0, <2>1 DEF Chip
    <3> DEFINE a == Len(c.tx)
               b == Len(c.out)
               l == c.pktLen
    <3>3. b >= l /\ a \in Nat /\ b \in Nat /\ l \in Int /\ l = b + a
      BY <3>1, <3>2
    <3> HIDE DEF a, b, l
    <3>4. a = 0
      BY <3>3
    <3> QED
      BY <1>0, <3>4, EmptySeq DEF a
  <2>5. given = Append(aired, c.out)
    <3>1. c.out \o c.tx = c.out
      BY <1>0, <2>4, ConcatEmptySeq
    <3> QED
      BY <1>3, <3>1 DEF Going
  <2>6. Sent'
    BY <1>6, <2>1, <2>3, <2>4, <2>5 DEF Sent
  <2>7. Pending'
    BY <1>4, <1>6, <2>3, <2>6 DEF Pending
  <2>8. at'[P] \in OnAir
    BY <1>3, <1>6
  <2> QED
    BY <1>7, <2>6, <2>7, <2>8, Arrives
<1> QED
  BY <1>2, <1>8, <1>9, <1>10 DEF Transmitter

LEMMA SendInvStep == SendInv /\ [Next]_vars => SendInv'
<1> SUFFICES ASSUME SendInv, [Next]_vars PROVE SendInv'
  OBVIOUS
<1>1. TypesOK /\ TypesOK'
  BY TypesStep DEF SendInv
<1>2. CASE UNCHANGED vars
  <2>1. h' = h /\ c' = c /\ at' = at /\ loc' = loc /\ isr' = isr /\ flag' = flag /\ msg' = msg
        /\ given' = given /\ aired' = aired /\ duty' = duty
    BY <1>2 DEF vars, calls
  <2>2. Short' = Short
    BY <2>1 DEF Short, Range
  <2>3. Sent' = Sent /\ Going' = Going /\ Quiet' = Quiet
    BY <2>1 DEF Sent, Going, Quiet
  <2>4. Composing' = Composing /\ Buffered' = Buffered
    BY <2>1 DEF Composing, Buffered, Sent, Quiet
  <2>5. Fills' = Fills /\ Loads' = Loads /\ Airs' = Airs /\ Pending' = Pending
    BY <2>1, <2>3, <2>4 DEF Fills, Loads, Airs, Pending
  <2>6. Sends' = Sends
    BY <2>1, <2>5 DEF Sends
  <2> QED
    BY <1>1, <2>1, <2>2, <2>6 DEF SendInv
<1>3. CASE Next
  <2>1. duty' = duty /\ (given' = given \/ given' = Append(given, msg))
    <3>1. CASE Program
      BY <3>1 DEF Program, Calls, clearRxBuf, resetRxFifo, setModeRx, setModeTx, sendNextFragment,
         startTransmit, Send, fillTxBuf, appendTxBuf, Accept, recv, available, Copy, Reads, Tests, Sets,
         Tells, calls
    <3>2. CASE handleInterrupt
      BY <3>2 DEF handleInterrupt, Calls, clearRxBuf, resetRxFifo, setModeRx, setModeTx, sendNextFragment,
         startTransmit, ReadFlags, NextFlag, FifoError, resetFifos, restartTransmit, readNextFragment,
         ReadFifo, Copied, PacketSent, Drop, PacketValid, CrcError, Reads, Tests, Sets, Tells, calls
    <3>3. CASE Transmitter \/ Preamble \/ ReceiveByte
      BY <3>3 DEF Transmitter, TransmitByte, Underflow, TransmitEnd, Preamble, ReceiveByte, Radio, calls
    <3> QED
      BY <1>3, <3>1, <3>2, <3>3 DEF Next
  <2>2. ASSUME duty.hears = 0, Short' PROVE Sends'
    <3>1. Short
      BY <1>1, <2>1, <2>2, ShortBefore
    <3>2. Sends
      BY <2>2, <3>1 DEF SendInv
    <3>3. CASE Program
      BY <1>1, <2>2, <3>1, <3>2, <3>3, SendsProgram
    <3>4. CASE handleInterrupt
      BY <1>1, <3>2, <3>4, SendsHandler
    <3>5. CASE Transmitter \/ Preamble \/ ReceiveByte
      BY <1>1, <3>2, <3>5, SendsRadio
    <3> QED
      BY <1>3, <3>3, <3>4, <3>5 DEF Next
  <2> QED
    BY <1>1, <2>1, <2>2 DEF SendInv
<1> QED
  BY <1>2, <1>3

LEMMA SendInvInit == Init => SendInv
<1> SUFFICES ASSUME Init PROVE SendInv
  OBVIOUS
<1>1. TypesOK
  BY TypesInit
<1>2. /\ h.mode = "idle" /\ h.len = 0 /\ h.idx = 0 /\ c.mode = "idle" /\ c.out = << >> /\ c.tx = << >>
      /\ c.flags = {} /\ isr = {} /\ aired = given
      /\ at[P] = "idle" /\ at[H] = "idle"
  BY DEF Init, Threads, P, H
<1>3. Sent /\ Quiet /\ Pending /\ Airs
  BY <1>2 DEF Sent, Quiet, Pending, Airs
<1>4. Sends
  BY <1>2, <1>3, Stages DEF Sends
<1> QED
  BY <1>1, <1>4 DEF SendInv

\* A program that only sends, and sends messages of one fragment: they go on the
\* air whole and in the order of the calls (send and waitPacketSent, rf22.cxx:556-609,
\* against the sections of handleInterrupt for an almost empty FIFO and a sent
\* packet), whichever thread runs between two accesses of the other.
THEOREM SendsInOrder == Spec => []SentInOrder
<1>1. SendInv => SentInOrder
  <2> SUFFICES ASSUME SendInv, SendsOnly, Short PROVE IsPrefix(aired, given)
    BY DEF SentInOrder
  <2>0. Sends /\ aired \in Seq(Seq(Octet)) /\ given \in Seq(Seq(Octet)) /\ Len(aired) \in Nat
    BY DEF SendInv, SendsOnly, TypesOK
  <2>1. given = aired \/ \E m \in Seq(Octet) : given = Append(aired, m)
    <3>1. Sent \/ Going \/ aired = given \/ given = Append(aired, msg)
      BY <2>0 DEF Sends, Fills, Loads, Airs
    <3>2. c.out \o c.tx \in Seq(Octet) /\ msg \in Seq(Octet)
      BY ChipTypes, MessageType, ConcatProperties DEF SendInv
    <3> QED
      BY <3>1, <3>2 DEF Sent, Going
  <2>2. Len(aired) <= Len(given) /\ \A i \in 1 .. Len(aired) : given[i] = aired[i]
    <3>1. CASE given = aired
      BY <2>0, <3>1
    <3>2. ASSUME NEW m \in Seq(Octet), given = Append(aired, m)
          PROVE  Len(aired) <= Len(given) /\ \A i \in 1 .. Len(aired) : given[i] = aired[i]
      <4> DEFINE S == Seq(Octet)
      <4>1. m \in S /\ aired \in Seq(S)
        BY <2>0, <3>2
      <4> HIDE DEF S
      <4>2. /\ Len(Append(aired, m)) = Len(aired) + 1
            /\ \A i \in 1 .. Len(aired) : Append(aired, m)[i] = aired[i]
        BY <4>1
      <4> QED
        BY <2>0, <3>2, <4>2
    <3> QED
      BY <2>1, <3>1, <3>2
  <2>3. SubSeq(aired, 1, Len(aired)) = SubSeq(given, 1, Len(aired))
    <3>1. /\ SubSeq(given, 1, Len(aired)) \in Seq(Seq(Octet))
          /\ Len(SubSeq(given, 1, Len(aired))) = Len(aired)
          /\ \A i \in 1 .. Len(aired) : SubSeq(given, 1, Len(aired))[i] = aired[i]
      BY <2>0, <2>2
    <3>2. SubSeq(aired, 1, Len(aired)) = aired
      BY <2>0, SubSeqFull
    <3> DEFINE q == SubSeq(given, 1, Len(aired))
    <3> HIDE DEF q
    <3>3. q \in Seq(Seq(Octet)) /\ Len(q) = Len(aired) /\ \A i \in 1 .. Len(aired) : q[i] = aired[i]
      BY <3>1 DEF q
    <3>4. q = aired
      BY <2>0, <3>3, EqualSeqs
    <3> QED
      BY <3>2, <3>4 DEF q
  <2> QED
    BY <2>2, <2>3 DEF IsPrefix
<1> QED
  BY <1>1, SendInvInit, SendInvStep, PTL DEF Spec

-----------------------------------------------------------------------------
(***************************************************************************)
(* The nRF24L01, for a FIFO of any size: the types, Listening,             *)
(* NothingOnlyOnce and NotCutShort.  All of them follow from one invariant *)
(* that says, of every place of the driver, what it may rely on there.     *)
(***************************************************************************)
\* TypeOK in two parts: the switches, and what is counted or named.
SwitchesOK ==
    m_ptx \in BOOLEAN /\ ce \in BOOLEAN /\ ended \in BOOLEAN /\ stale \in BOOLEAN

DataOK ==
    /\ access \in {"rx_power_up", "clear_tx", "flush_rx", "idle", "sending",
               "rx_fifo", "get_data", "clear_rx"}
    /\ after \in {"flush_rx", "idle"}
    /\ m_rxBuffer \in {"none", "payload"}
    /\ prim \in {"rx", "tx", "down"} /\ status \subseteq Flags
    /\ rxFifo \in 0 .. FIFO_SIZE /\ txFifo \in 0 .. FIFO_SIZE
    /\ access = "sending" => txFifo <= 1

InLoop == {"idle", "rx_fifo", "get_data", "clear_rx"}

\* Places after the raising of CE, until the next send.
PoweredUp == InLoop \cup {"clear_tx", "flush_rx"}

\* After rxPowerUp the radio listens.
ListensInv == access \in PoweredUp => ce /\ prim = "rx" /\ ~m_ptx

\* rxPowerUp has cleared the flags, and a radio that listens sets none.
ClearedInv == access \in InLoop \cup {"flush_rx"} => status \cap SendFlags = {}

\* Only configure goes through "flush_rx".
AfterInv == access \in InLoop \cup {"sending"} => after = "idle"

\* A flag seen while sending is that of the payload that is sent.
EndedInv == access = "sending" /\ status \cap SendFlags # {} => ended

\* Outside CallHandler, a flag without a payload is the one configure has left.
StaleInv ==
    /\ after = "idle" /\ access # "clear_rx" /\ "RX_DR" \in status /\ rxFifo = 0 => stale
    /\ access = "get_data" /\ rxFifo = 0 => stale
    /\ NothingOnlyOnce

NrfInv ==
    /\ SwitchesOK /\ DataOK
    /\ ListensInv /\ ClearedInv /\ AfterInv /\ EndedInv /\ StaleInv

-----------------------------------------------------------------------------
LEMMA NrfInvInit == NrfInit => NrfInv
BY FifoAssumption DEF NrfInit, NrfInv, SwitchesOK, DataOK, ListensInv, ClearedInv, AfterInv,
   EndedInv, StaleInv, NothingOnlyOnce, InLoop, PoweredUp, Flags, SendFlags

LEMMA NrfInvNext == NrfInv /\ [NrfNext]_nrfVars => NrfInv'
<1> SUFFICES ASSUME NrfInv, [NrfNext]_nrfVars PROVE NrfInv'
    OBVIOUS
<1> USE FifoAssumption DEF NrfInv, InLoop, PoweredUp, Flags, SendFlags
<1>1. CASE rxPowerUp
    <2>1. SwitchesOK'
        BY <1>1, Zenon DEF rxPowerUp, ghosts, SwitchesOK
    <2>2. DataOK'
        BY <1>1 DEF DataOK, rxPowerUp, ghosts
    <2>3. (ListensInv /\ ClearedInv /\ AfterInv)'
        BY <1>1 DEF DataOK, ListensInv, ClearedInv, AfterInv, rxPowerUp, ghosts
    <2>4. (EndedInv /\ StaleInv)'
        BY <1>1 DEF DataOK, ClearedInv, AfterInv, EndedInv, StaleInv, NothingOnlyOnce,
           rxPowerUp, ghosts
    <2> QED
        BY <2>1, <2>2, <2>3, <2>4
<1>2. CASE ClearTx
    <2>1. SwitchesOK'
        BY <1>2, Zenon DEF ClearTx, SendFlagsCleared, ghosts, SwitchesOK
    <2>2. DataOK'
        BY <1>2 DEF DataOK, ClearTx, SendFlagsCleared, ghosts
    <2>3. (ListensInv /\ ClearedInv /\ AfterInv)'
        BY <1>2 DEF DataOK, ListensInv, ClearedInv, AfterInv, ClearTx,
           SendFlagsCleared, ghosts
    <2>4. (EndedInv /\ StaleInv)'
        BY <1>2 DEF DataOK, ClearedInv, AfterInv, EndedInv, StaleInv, NothingOnlyOnce,
           ClearTx, SendFlagsCleared, ghosts
    <2> QED
        BY <2>1, <2>2, <2>3, <2>4
<1>3. CASE rxFlushBuffer
    <2>1. SwitchesOK'
        <3>1. stale' \in BOOLEAN
            BY <1>3 DEF rxFlushBuffer
        <3> QED
            BY <1>3, <3>1, Zenon DEF rxFlushBuffer, SwitchesOK
    <2>2. DataOK'
        BY <1>3 DEF DataOK, rxFlushBuffer
    <2>3. (ListensInv /\ ClearedInv /\ AfterInv)'
        BY <1>3 DEF DataOK, ListensInv, ClearedInv, AfterInv, rxFlushBuffer
    <2>4. (EndedInv /\ StaleInv)'
        BY <1>3 DEF DataOK, ClearedInv, AfterInv, EndedInv, StaleInv, NothingOnlyOnce,
           rxFlushBuffer
    <2> QED
        BY <2>1, <2>2, <2>3, <2>4
<1>4. CASE send
    <2>1. SwitchesOK'
        BY <1>4, Zenon DEF send, Loaded, SwitchesOK
    <2>2. DataOK'
        BY <1>4 DEF DataOK, send, Loaded
    <2>3. (ListensInv /\ ClearedInv /\ AfterInv)'
        BY <1>4 DEF DataOK, ListensInv, ClearedInv, AfterInv, send, Loaded
    <2>4. (EndedInv /\ StaleInv)'
        BY <1>4 DEF DataOK, ClearedInv, AfterInv, EndedInv, StaleInv, NothingOnlyOnce,
           send, Loaded
    <2> QED
        BY <2>1, <2>2, <2>3, <2>4
<1>5. CASE dataSending
    <2>1. SwitchesOK'
        BY <1>5, Zenon DEF dataSending, SendDone, radio, ghosts, SwitchesOK
    <2>2. DataOK'
        BY <1>5 DEF DataOK, dataSending, SendDone, radio, ghosts
    <2>3. (ListensInv /\ ClearedInv /\ AfterInv)'
        BY <1>5 DEF DataOK, ListensInv, ClearedInv, AfterInv, dataSending, SendDone,
           radio, ghosts
    <2>4. (EndedInv /\ StaleInv)'
        BY <1>5 DEF DataOK, ClearedInv, AfterInv, EndedInv, StaleInv, NothingOnlyOnce,
           dataSending, SendDone, radio, ghosts
    <2> QED
        BY <2>1, <2>2, <2>3, <2>4
<1>6. CASE dataReady
    <2>1. SwitchesOK'
        BY <1>6, Zenon DEF dataReady, ReadyTest, radio, ghosts, SwitchesOK
    <2>2. DataOK'
        BY <1>6 DEF DataOK, dataReady, ReadyTest, radio, ghosts
    <2>3. (ListensInv /\ ClearedInv /\ AfterInv)'
        BY <1>6 DEF DataOK, ListensInv, ClearedInv, AfterInv, dataReady, ReadyTest,
           radio, ghosts
    <2>4. (EndedInv /\ StaleInv)'
        BY <1>6 DEF DataOK, ClearedInv, AfterInv, EndedInv, StaleInv, NothingOnlyOnce,
           dataReady, ReadyTest, radio, ghosts
    <2> QED
        BY <2>1, <2>2, <2>3, <2>4
<1>7. CASE rxFifoEmpty
    <2>1. SwitchesOK'
        BY <1>7, Zenon DEF rxFifoEmpty, radio, ghosts, SwitchesOK
    <2>2. DataOK'
        BY <1>7 DEF DataOK, rxFifoEmpty, radio, ghosts
    <2>3. (ListensInv /\ ClearedInv /\ AfterInv)'
        BY <1>7 DEF DataOK, ListensInv, ClearedInv, AfterInv, rxFifoEmpty, radio, ghosts
    <2>4. (EndedInv /\ StaleInv)'
        BY <1>7 DEF DataOK, ClearedInv, AfterInv, EndedInv, StaleInv, NothingOnlyOnce,
           rxFifoEmpty, radio, ghosts
    <2> QED
        BY <2>1, <2>2, <2>3, <2>4
<1>8. CASE getData
    <2>1. SwitchesOK'
        BY <1>8, Zenon DEF getData, ghosts, SwitchesOK
    <2>2. DataOK'
        BY <1>8 DEF DataOK, getData, ghosts
    <2>3. (ListensInv /\ ClearedInv /\ AfterInv)'
        BY <1>8 DEF DataOK, ListensInv, ClearedInv, AfterInv, getData, ghosts
    <2>4. (EndedInv /\ StaleInv)'
        BY <1>8 DEF DataOK, ClearedInv, AfterInv, EndedInv, StaleInv, NothingOnlyOnce,
           getData, ghosts
    <2> QED
        BY <2>1, <2>2, <2>3, <2>4
<1>9. CASE CallHandler
    <2>1. SwitchesOK'
        BY <1>9, Zenon DEF CallHandler, RxFlagCleared, SwitchesOK
    <2>2. DataOK'
        BY <1>9 DEF DataOK, CallHandler, RxFlagCleared
    <2>3. (ListensInv /\ ClearedInv /\ AfterInv)'
        BY <1>9 DEF DataOK, ListensInv, ClearedInv, AfterInv, CallHandler, RxFlagCleared
    <2>4. (EndedInv /\ StaleInv)'
        BY <1>9 DEF DataOK, ClearedInv, AfterInv, EndedInv, StaleInv, NothingOnlyOnce,
           CallHandler, RxFlagCleared
    <2> QED
        BY <2>1, <2>2, <2>3, <2>4
<1>10. CASE Receives
    <2>1. SwitchesOK'
        BY <1>10, Zenon DEF Receives, driver, ghosts, SwitchesOK
    <2>2. DataOK'
        BY <1>10 DEF DataOK, Receives, driver, ghosts
    <2>3. (ListensInv /\ ClearedInv /\ AfterInv)'
        BY <1>10 DEF DataOK, ListensInv, ClearedInv, AfterInv, Receives, driver, ghosts
    <2>4. (EndedInv /\ StaleInv)'
        BY <1>10 DEF DataOK, ClearedInv, AfterInv, EndedInv, StaleInv, NothingOnlyOnce,
           Receives, driver, ghosts
    <2> QED
        BY <2>1, <2>2, <2>3, <2>4
<1>11. CASE Transmits("TX_DS", 0)
    <2>1. SwitchesOK'
        BY <1>11, Zenon DEF Transmits, driver, SwitchesOK
    <2>2. DataOK'
        BY <1>11 DEF DataOK, Transmits, driver
    <2>3. (ListensInv /\ ClearedInv /\ AfterInv)'
        BY <1>11 DEF DataOK, ListensInv, ClearedInv, AfterInv, Transmits, driver
    <2>4. access = "sending" => txFifo = 1
        BY <1>11 DEF DataOK, Transmits
    <2>5. (EndedInv /\ StaleInv)'
        BY <1>11, <2>4 DEF ClearedInv, AfterInv, EndedInv, StaleInv, NothingOnlyOnce,
           Transmits, driver
    <2> QED
        BY <2>1, <2>2, <2>3, <2>5
<1>12. CASE Transmits("MAX_RT", 1)
    <2>1. SwitchesOK'
        BY <1>12, Zenon DEF Transmits, driver, SwitchesOK
    <2>2. DataOK'
        BY <1>12 DEF DataOK, Transmits, driver
    <2>3. (ListensInv /\ ClearedInv /\ AfterInv)'
        BY <1>12 DEF DataOK, ListensInv, ClearedInv, AfterInv, Transmits, driver
    <2>4. access = "sending" => txFifo = 1
        BY <1>12 DEF DataOK, Transmits
    <2>5. (EndedInv /\ StaleInv)'
        BY <1>12, <2>4 DEF ClearedInv, AfterInv, EndedInv, StaleInv, NothingOnlyOnce,
           Transmits, driver
    <2> QED
        BY <2>1, <2>2, <2>3, <2>5
<1>13. CASE UNCHANGED nrfVars
    <2>1. SwitchesOK'
        BY <1>13, Zenon DEF nrfVars, driver, radio, ghosts, SwitchesOK
    <2>2. DataOK'
        BY <1>13 DEF DataOK, nrfVars, driver, radio, ghosts
    <2>3. (ListensInv /\ ClearedInv /\ AfterInv)'
        BY <1>13 DEF DataOK, ListensInv, ClearedInv, AfterInv, nrfVars, driver, radio,
           ghosts
    <2>4. (EndedInv /\ StaleInv)'
        BY <1>13 DEF DataOK, ClearedInv, AfterInv, EndedInv, StaleInv, NothingOnlyOnce,
           nrfVars, driver, radio, ghosts
    <2> QED
        BY <2>1, <2>2, <2>3, <2>4
<1> QED
    BY <1>1, <1>2, <1>3, <1>4, <1>5, <1>6, <1>7, <1>8, <1>9, <1>10, <1>11, <1>12,
       <1>13 DEF NrfNext, InCall, RadioSends

LEMMA NrfInvariance == NrfSpec => []NrfInv
BY NrfInvInit, NrfInvNext, PTL DEF NrfSpec

-----------------------------------------------------------------------------
\* Types; the payload that send waits for is alone in the radio's FIFO
\* (nrf24l01.cxx:82-92).
THEOREM NrfTypeCorrect == NrfSpec => []NrfTypeOK
<1>1. NrfInv => NrfTypeOK
    BY DEF NrfInv, SwitchesOK, DataOK, NrfTypeOK
<1> QED
    BY <1>1, NrfInvariance, PTL

\* In its main loop the program has a radio that listens and shows no flag of
\* a transmission (rxPowerUp, nrf24l01.cxx:191-197).
THEOREM RadioListens == NrfSpec => []Listening
<1>1. NrfInv => Listening
    BY DEF NrfInv, ListensInv, ClearedInv, InLoop, PoweredUp, Listening
<1> QED
    BY <1>1, NrfInvariance, PTL

\* pollListener calls the handler without a payload at most for the flag that
\* configure has left set (nrf24l01.cxx:64-65, 159-177).
THEOREM HandledOnce == NrfSpec => []NothingOnlyOnce
<1>1. NrfInv => NothingOnlyOnce
    BY DEF NrfInv, StaleInv
<1> QED
    BY <1>1, NrfInvariance, PTL

\* dataSending ends the wait of send only when the radio is done with this
\* payload (nrf24l01.cxx:92, 145-157).
THEOREM WaitIsForThisPayload == NrfSpec => NotCutShort
<1> DEFINE A == access = "sending" /\ access' # "sending" => ended
<1>1. NrfInv /\ [NrfNext]_nrfVars => [A]_nrfVars
    <2> SUFFICES ASSUME NrfInv, NrfNext, access = "sending", access' # "sending" PROVE ended
        OBVIOUS
    <2>1. dataSending
        BY DEF NrfNext, InCall, rxPowerUp, ClearTx, rxFlushBuffer, send, dataReady,
               rxFifoEmpty, getData, CallHandler, Receives, RadioSends, Transmits, driver
    <2> QED
        BY <2>1 DEF dataSending, SendDone, NrfInv, EndedInv
<1> QED
    BY <1>1, NrfInvariance, PTL DEF NrfSpec, NotCutShort
=============================================================================
