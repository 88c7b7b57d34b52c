--------------------------- MODULE Sx1276_proofs ---------------------------
(***************************************************************************)
(* Proofs about Sx1276, for every set of configurations, all sizes and     *)
(* without the bounds of the model.                                        *)
(***************************************************************************)
EXTENDS Sx1276, SequenceTheorems, TLAPS

-----------------------------------------------------------------------------
(* The types of the state. *)

Unit == {"len", "data", "zero", "junk"} \X Nat \X Nat
Preparing == {"set_state", "set_event", "set_mode"}
Running == {"wait", "time_out", "return", "retrieve", "asleep"}
Resting == {"idle", "asleep_state"}

TxPlaces == {"sent", "post_done", "write_chunk"}
RxPlaces == {"read_packet", "read_chunk", "rx_timeout", "error", "done", "post_timeout"}

Handling == [nb : Nat, size : Nat, chunk : Nat]
Received == [buf : [1 .. RecvSize -> Unit], len : Nat]
Chip == [mode : {"Sleep", "Standby", "Tx", "Rx", "RxSingle"}, ready : BOOLEAN,
         fifo : Seq(Unit), got : 0 .. RecvSize, crcOk : BOOLEAN, size : Nat, sent : Seq(Unit)]

Shapes ==
    /\ cfg \in Configs
    /\ pc \in Preparing \cup Running \cup Resting
    /\ call \in [n : 0 .. MaxCalls, op : {"none", "tx", "rx"}, size : Nat]
    /\ state \in {"IDLE", "RX_RUNNING", "TX_RUNNING"}
    /\ event \in {"DONE", "EXEC", "ERROR", "TIMEOUT"}
    /\ handler \in Handling /\ handler.nb <= handler.size
    /\ rx \in Received
    /\ isr \in {NoHandler} \cup TxPlaces \cup RxPlaces
    /\ pend \in SUBSET {0, 1}
    /\ radio \in Chip
    /\ air \in [n : Nat, good : SUBSET Nat]

\* Packets that are not FSK are not counted piece by piece.
TypesOK == Shapes /\ (~fsk => handler.nb = 0 /\ isr \notin {"read_chunk", "write_chunk"})

\* What is read out of the FIFO and what is left in it.
LEMMA ReadFifoType ==
    ASSUME NEW s \in Seq(Unit), NEW n \in Nat
    PROVE  /\ ReadFifo(s, n).data \in Seq(Unit) /\ Len(ReadFifo(s, n).data) = n
           /\ DOMAIN ReadFifo(s, n).data = 1 .. n
           /\ \A i \in 1 .. n : i <= Len(s) => ReadFifo(s, n).data[i] = s[i]
           /\ ReadFifo(s, n).rest \in Seq(Unit)
           /\ Len(ReadFifo(s, n).rest) = IF n <= Len(s) THEN Len(s) - n ELSE 0
           /\ \A i \in 1 .. Len(s) - n : ReadFifo(s, n).rest[i] = s[n + i]
<1> DEFINE d == [i \in 1 .. n |-> IF i <= Len(s) THEN s[i] ELSE << "junk", 0, i >>]
           r == SubSeq(s, n + 1, Len(s))
<1>1. ReadFifo(s, n).data = d /\ ReadFifo(s, n).rest = r
  BY DEF ReadFifo
<1>2. d \in Seq(Unit) /\ Len(d) = n /\ DOMAIN d = 1 .. n /\ \A i \in 1 .. n : i <= Len(s) => d[i] = s[i]
  <2>1. \A i \in 1 .. n : << "junk", 0, i >> \in Unit
    BY DEF Unit
  <2>2. \A i \in 1 .. n : i <= Len(s) => s[i] \in Unit
    OBVIOUS
  <2>3. \A i \in 1 .. n : (IF i <= Len(s) THEN s[i] ELSE << "junk", 0, i >>) \in Unit
    BY <2>1, <2>2
  <2>4. d \in [1 .. n -> Unit]
    BY <2>3
  <2>5. \A i \in 1 .. n : i <= Len(s) => d[i] = s[i]
    OBVIOUS
  <2> HIDE DEF d
  <2> QED
    BY <2>4, <2>5
<1>3. /\ r \in Seq(Unit) /\ Len(r) = IF n <= Len(s) THEN Len(s) - n ELSE 0
      /\ \A i \in 1 .. Len(s) - n : r[i] = s[n + i]
  <2>1. CASE n < Len(s)
    <3>1. \A i \in n + 1 .. Len(s) : s[i] \in Unit
      OBVIOUS
    <3>2. /\ r \in Seq(Unit) /\ Len(r) = Len(s) - (n + 1) + 1
          /\ \A i \in 1 .. Len(s) - (n + 1) + 1 : r[i] = s[n + 1 + i - 1]
      BY <2>1, <3>1, SubSeqProperties
    <3> QED
      BY <2>1, <3>2
  <2>2. CASE n >= Len(s)
    BY <2>2, SubSeqEmpty
  <2> QED
    BY <2>1, <2>2
<1> QED
  BY <1>1, <1>2, <1>3

LEMMA WrittenType ==
    ASSUME NEW buf \in [1 .. RecvSize -> Unit], NEW from \in Nat, NEW d \in Seq(Unit)
    PROVE  /\ Written(buf, from, d) \in [1 .. RecvSize -> Unit]
           /\ \A i \in 1 .. RecvSize :
                Written(buf, from, d)[i] =
                   IF from < i /\ i <= from + Len(d) THEN d[i - from] ELSE buf[i]
<1>1. DOMAIN d = 1 .. Len(d) /\ Len(d) \in Nat /\ RecvSize \in Nat
  BY Sx1276Assumption
<1>2. \A i \in 1 .. RecvSize : i - from \in DOMAIN d <=> (from < i /\ i <= from + Len(d))
  BY <1>1
<1>3. \A i \in 1 .. RecvSize : i - from \in DOMAIN d => d[i - from] \in Unit
  BY <1>1
<1> QED
  BY <1>2, <1>3 DEF Written

LEMMA PacketType ==
    ASSUME NEW k \in Nat, NEW n \in Nat
    PROVE  /\ Packet(k, n) \in Seq(Unit) /\ Len(Packet(k, n)) = n
           /\ \A i \in 1 .. n : Packet(k, n)[i] = << "data", k, i >>
           /\ LengthUnit(n) \in Unit
<1>1. \A i \in 1 .. n : << "data", k, i >> \in Unit
  BY DEF Unit
<1>2. Packet(k, n) \in [1 .. n -> Unit]
  BY <1>1 DEF Packet
<1> QED
  BY <1>2 DEF Packet, LengthUnit, Unit

\* What is left to do of a packet, piece by piece.
LEMMA ChunkType ==
    ASSUME NEW left \in Nat, NEW piece \in Nat
    PROVE  Chunk(left, piece) \in Nat /\ Chunk(left, piece) <= left /\ Chunk(left, piece) <= piece
BY DEF Chunk

\* The size the handlers take out of the FIFO or have taken before.
LEMMA SizeType ==
    ASSUME TypesOK, NEW f \in FifoWithSize(handler)
    PROVE  f.size \in Nat /\ f.fifo \in Seq(Unit) /\ handler.nb <= f.size /\ handler.nb \in Nat
<1>1. /\ handler.nb \in Nat /\ handler.size \in Nat /\ handler.nb <= handler.size
      /\ radio.fifo \in Seq(Unit) /\ RecvSize \in Nat
  BY Sx1276Assumption DEF TypesOK, Shapes, Handling, Chip
<1>2. CASE handler.size = 0 /\ handler.nb = 0
  <2> DEFINE r == ReadFifo(radio.fifo, 1)
  <2>1. r.data \in Seq(Unit) /\ Len(r.data) = 1 /\ r.rest \in Seq(Unit)
    BY <1>1, ReadFifoType
  <2>2. r.data[1][2] \in Nat
    BY <2>1 DEF Unit
  <2>3. f.fifo = r.rest /\ f.size \in (IF r.data[1][1] = "len" THEN {r.data[1][2]} ELSE 0 .. RecvSize)
    <3>1. f \in {[size |-> n, fifo |-> r.rest] :
                   n \in IF r.data[1][1] = "len" THEN {r.data[1][2]} ELSE 0 .. RecvSize}
      BY <1>2 DEF FifoWithSize
    <3> DEFINE ns == IF r.data[1][1] = "len" THEN {r.data[1][2]} ELSE 0 .. RecvSize
    <3>2. PICK n \in ns : f = [size |-> n, fifo |-> r.rest]
      BY <3>1
    <3> HIDE DEF r
    <3> QED
      BY <3>2
  <2> HIDE DEF r
  <2> QED
    BY <1>1, <1>2, <2>1, <2>2, <2>3
<1>3. CASE ~(handler.size = 0 /\ handler.nb = 0)
  BY <1>1, <1>3 DEF FifoWithSize
<1> QED
  BY <1>2, <1>3

LEMMA HandlingType ==
    ASSUME handler \in Handling, NEW x \in Nat, NEW y \in Nat, x <= y,
           NEW t, t = [handler EXCEPT !.nb = x, !.size = y]
    PROVE  t \in Handling /\ t.nb = x /\ t.size = y /\ t.nb <= t.size
<1>1. t.nb = x /\ t.size = y
  BY DEF Handling
<1>2. t \in Handling
  BY DEF Handling
<1> QED
  BY <1>1, <1>2

LEMMA EnteredType ==
    ASSUME radio \in Chip, NEW m \in {"Sleep", "Standby", "Tx", "Rx", "RxSingle"}
    PROVE  Entered(m) \in Chip
<1>1. << >> \in Seq(Unit)
  OBVIOUS
<1> DEFINE f == IF m = "Tx" \/ m = "Standby" THEN radio.fifo ELSE << >>
<1>2. f \in Seq(Unit) /\ 0 \in 0 .. RecvSize
  BY <1>1, Sx1276Assumption DEF Chip
<1>5. RecvSize \in Nat
  BY Sx1276Assumption
<1> DEFINE y == m \in {"Rx", "RxSingle"}
<1>4. y \in BOOLEAN
  OBVIOUS
<1>3. Entered(m) = [radio EXCEPT !.mode = m, !.ready = y, !.got = 0,
                                 !.fifo = f, !.size = 0, !.sent = << >>]
  BY DEF Entered, Chip
<1> HIDE DEF f, y
<1> DEFINE r == [radio EXCEPT !.mode = m, !.ready = y, !.got = 0]
<1>6. r \in Chip
  BY <1>2, <1>4, <1>5 DEF Chip
<1>7. Entered(m) = [r EXCEPT !.fifo = f, !.size = 0, !.sent = << >>]
  BY <1>3 DEF Chip
<1> HIDE DEF r
<1>8. [r EXCEPT !.fifo = f, !.size = 0, !.sent = << >>] \in Chip
  BY <1>1, <1>2, <1>6 DEF Chip
<1> QED
  BY <1>7, <1>8

LEMMA TypesInit == Init => TypesOK
<1> SUFFICES ASSUME Init PROVE TypesOK
  OBVIOUS
<1>1. rx \in Received /\ handler \in Handling
  BY DEF Init, Zeros, Received, Handling, Unit
<1>2. radio \in Chip
  <2>1. << >> \in Seq(Unit)
    OBVIOUS
  <2> QED
    BY <2>1, Sx1276Assumption DEF Init, Chip
<1>3. call \in [n : 0 .. MaxCalls, op : {"none", "tx", "rx"}, size : Nat]
  <2>1. 0 \in 0 .. MaxCalls
    BY Sx1276Assumption
  <2> QED
    BY <2>1 DEF Init
<1>4. air \in [n : Nat, good : SUBSET Nat]
  BY DEF Init
<1>5. cfg \in Configs /\ pc = "idle" /\ state = "IDLE" /\ event = "DONE" /\ isr = NoHandler /\ pend = {}
  BY DEF Init
<1>6. handler.nb = 0 /\ handler.size = 0
  BY DEF Init
<1>7. isr \notin {"read_chunk", "write_chunk"}
  BY <1>5 DEF NoHandler
<1>8. Shapes
  BY <1>1, <1>2, <1>3, <1>4, <1>5, <1>6 DEF Shapes, Resting
<1> QED
  BY <1>6, <1>7, <1>8 DEF TypesOK

LEMMA CallTypes ==
    ASSUME TypesOK, (\E size \in SendSizes : send(size)) \/ setRx
    PROVE  Shapes'
<1>0. call.n \in 0 .. MaxCalls /\ MaxCalls \in Nat /\ SendSizes \subseteq Nat \ {0} /\ RecvSize \in Nat \ {0}
      /\ OneChunk \in Int /\ ChunkSize \in Nat /\ radio \in Chip /\ radio.fifo \in Seq(Unit)
      /\ ChunkSize >= 1 /\ ChunkSize <= OneChunk
  BY Sx1276Assumption DEF TypesOK, Shapes, Chip
<1>1. CASE setRx
  <2>1. call' \in [n : 0 .. MaxCalls, op : {"none", "tx", "rx"}, size : Nat]
    BY <1>0, <1>1 DEF setRx, Starts
  <2>2. handler' \in Handling /\ handler'.nb <= handler'.size
    <3>1. handler' = handler \/ handler' = [handler EXCEPT !.nb = 0, !.size = 0]
      BY <1>1 DEF setRx
    <3>2. 0 \in Nat /\ 0 <= 0 /\ handler \in Handling
      BY DEF TypesOK, Shapes
    <3>3. handler' = [handler EXCEPT !.nb = 0, !.size = 0] => handler' \in Handling /\ handler'.nb <= handler'.size
      BY <3>2, HandlingType
    <3> QED
      BY <3>1, <3>3 DEF TypesOK, Shapes
  <2>3. rx' \in Received
    BY <1>1 DEF setRx, TypesOK, Shapes, Received, Zeros, Unit
  <2> QED
    BY <1>1, <2>1, <2>2, <2>3 DEF setRx, Starts, TypesOK, Shapes, Preparing
<1>2. ASSUME NEW size \in SendSizes, send(size) PROVE Shapes'
  <2>1. call' \in [n : 0 .. MaxCalls, op : {"none", "tx", "rx"}, size : Nat]
        /\ call.n + 1 \in Nat /\ size \in Nat /\ size > 0
    BY <1>0, <1>2, SMTT(20) DEF send, Starts
  <2> DEFINE p == Packet(call.n + 1, size)
  <2>2. p \in Seq(Unit) /\ Len(p) = size /\ LengthUnit(size) \in Unit
    BY <2>1, PacketType
  <2> HIDE DEF p
  <2>3. CASE fsk
    <3> DEFINE chunk == IF size <= OneChunk THEN size ELSE ChunkSize
               q == SubSeq(p, 1, chunk)
               fifo == radio.fifo \o << LengthUnit(size) >> \o q
    <3>1. chunk \in Nat /\ chunk <= size
      BY <1>0, <2>1
    <3> HIDE DEF chunk
    <3>2. q \in Seq(Unit)
      <4>1. \A i \in 1 .. chunk : p[i] \in Unit
        BY <2>1, <2>2, <3>1
      <4> QED
        BY <3>1, <4>1, SubSeqProperties
    <3> HIDE DEF q
    <3>3. fifo \in Seq(Unit)
      BY <1>0, <2>2, <3>2
    <3>4. /\ handler' = [nb |-> chunk, size |-> size, chunk |-> chunk]
          /\ radio' = [radio EXCEPT !.fifo = fifo]
          /\ pend' = pend \cup LevelEdge(radio.fifo, fifo)
          /\ UNCHANGED << state, prev >>
      BY <1>2, <2>3 DEF send, chunk, fifo, q, p
    <3> HIDE DEF fifo
    <3>5. handler' \in Handling /\ handler'.nb <= handler'.size
      BY <2>1, <3>1, <3>4 DEF Handling
    <3>6. radio' \in Chip
      BY <1>0, <3>3, <3>4 DEF Chip
    <3>7. pend' \in SUBSET {0, 1}
      BY <3>4 DEF LevelEdge, TypesOK, Shapes
    <3> QED
      BY <1>2, <2>1, <3>4, <3>5, <3>6, <3>7 DEF send, Starts, TypesOK, Shapes, Preparing
  <2>4. CASE ~fsk
    <3> DEFINE r == IF radio.mode = "Sleep" /\ prev # "Standby" THEN Entered("Standby") ELSE radio
               q == << LengthUnit(size) >> \o p
    <3>1. r \in Chip
      BY <1>0, EnteredType
    <3> HIDE DEF r
    <3>2. q \in Seq(Unit)
      BY <2>2
    <3>3. radio' = [r EXCEPT !.fifo = q] /\ state' \in {state, "IDLE"} /\ UNCHANGED << handler, pend >>
      BY <1>2, <2>4 DEF send, r, p
    <3> HIDE DEF q
    <3>4. radio' \in Chip
      BY <3>1, <3>2, <3>3 DEF Chip
    <3> QED
      BY <1>2, <2>1, <3>3, <3>4 DEF send, Starts, TypesOK, Shapes, Preparing
  <2> QED
    BY <2>3, <2>4
<1> QED
  BY <1>1, <1>2

LEMMA CallerTypes ==
    ASSUME TypesOK, Caller PROVE Shapes'
<1>1. CASE SetState \/ SetEvent \/ EventSeen \/ TimeUp \/ TimeOut \/ Return \/ getRxBufferStr \/ SleepState
  BY <1>1 DEF SetState, SetEvent, EventSeen, TimeUp, TimeOut, Return, getRxBufferStr, SleepState,
     TypesOK, Shapes, Preparing, Running, Resting
<1>2. CASE SetMode \/ SleepMode
  <2>1. \E m \in {"Sleep", "Tx", "Rx", "RxSingle"} : setOpMode(m)
    BY <1>2 DEF SetMode, SleepMode, RxMode
  <2>2. radio' \in Chip
    BY <2>1, EnteredType DEF setOpMode, TypesOK, Shapes
  <2> QED
    BY <1>2, <2>2 DEF SetMode, SleepMode, TypesOK, Shapes, Running, Resting
<1> QED
  BY <1>1, <1>2 DEF Caller

LEMMA HandlersTypes ==
    ASSUME TypesOK, Handlers PROVE Shapes'
<1>0. /\ handler \in Handling /\ handler.nb \in Nat /\ handler.size \in Nat /\ handler.nb <= handler.size
      /\ handler.chunk \in Nat /\ radio \in Chip /\ radio.fifo \in Seq(Unit) /\ RecvSize \in Nat
      /\ rx \in Received /\ rx.buf \in [1 .. RecvSize -> Unit] /\ rx.len \in Nat
      /\ FifoThresh \in Nat
  BY Sx1276Assumption DEF TypesOK, Shapes, Handling, Chip, Received
<1>1. \A r \in Chip : Restarted(r) \in Chip
  <2>1. \A r \in Chip : [r EXCEPT !.ready = TRUE, !.got = 0] \in Chip
    <3> SUFFICES ASSUME NEW r \in Chip PROVE [r EXCEPT !.ready = TRUE, !.got = 0] \in Chip
      OBVIOUS
    <3>1. 0 \in 0 .. RecvSize /\ TRUE \in BOOLEAN
      BY <1>0
    <3> QED
      BY <1>0, <3>1 DEF Chip
  <2> QED
    BY <2>1 DEF Restarted
<1>2. CASE \E pin \in {0, 1} : HandlerStarts(pin)
  <2>1. PICK pin \in {0, 1} : HandlerStarts(pin)
    BY <1>2
  <2>2. Branch(pin) \in {NoHandler} \cup TxPlaces \cup RxPlaces
    <3>1. Branch(pin) \in {NoHandler, "read_packet", "sent", "read_chunk", "rx_timeout", "write_chunk"}
      BY DEF Branch
    <3> QED
      BY <3>1 DEF TxPlaces, RxPlaces
  <2> QED
    BY <2>1, <2>2 DEF HandlerStarts, TypesOK, Shapes
<1>3. CASE OperationEnds \/ PostEvent
  BY <1>3 DEF OperationEnds, PostEvent, TypesOK, Shapes, TxPlaces, RxPlaces
<1>4. CASE BadPacket
  BY <1>0, <1>1, <1>4 DEF BadPacket, TypesOK, Shapes, RxPlaces, IdleUnlessContinuous
<1>5. CASE PacketEnds
  <2>1. rx' \in Received
    BY <1>0, <1>5 DEF PacketEnds, Received
  <2>2. handler' \in Handling /\ handler'.nb <= handler'.size
    <3>1. handler' = handler \/ handler' = [handler EXCEPT !.nb = 0, !.size = 0]
      BY <1>5 DEF PacketEnds, CountersReset
    <3>2. 0 \in Nat /\ 0 <= 0
      OBVIOUS
    <3>3. handler' = [handler EXCEPT !.nb = 0, !.size = 0] => handler' \in Handling /\ handler'.nb <= handler'.size
      BY <1>0, <3>2, HandlingType
    <3> QED
      BY <1>0, <3>1, <3>3
  <2> QED
    BY <1>5, <2>1, <2>2 DEF PacketEnds, TypesOK, Shapes
<1>6. CASE GoodPacket
  <2> DEFINE files == IF fsk THEN FifoWithSize(handler) ELSE {[size |-> RecvSize, fifo |-> radio.fifo]}
             from == IF fsk THEN handler.nb ELSE 0
  <2>1. PICK f \in files :
          LET r == ReadFifo(f.fifo, f.size - from)
          IN /\ rx' = [rx EXCEPT !.buf = Written(@, from, r.data)]
             /\ handler' = IF fsk THEN [handler EXCEPT !.nb = f.size, !.size = f.size]
                           ELSE [handler EXCEPT !.size = f.size]
             /\ radio' = Restarted([radio EXCEPT !.fifo = IF fsk THEN r.rest ELSE @])
    BY <1>6 DEF GoodPacket
  <2>2. f.size \in Nat /\ f.fifo \in Seq(Unit) /\ from <= f.size /\ from \in Nat
    BY <1>0, SizeType
  <2>3. fsk \/ f.size = RecvSize
    OBVIOUS
  <2> HIDE DEF from, files
  <2> DEFINE r == ReadFifo(f.fifo, f.size - from)
             w == Written(rx.buf, from, r.data)
  <2>4. r.data \in Seq(Unit) /\ r.rest \in Seq(Unit)
    BY <2>2, ReadFifoType
  <2> HIDE DEF r
  <2>5. w \in [1 .. RecvSize -> Unit]
    BY <1>0, <2>2, <2>4, WrittenType
  <2>6. rx' \in Received
    <3>1. rx' = [rx EXCEPT !.buf = w]
      BY <1>0, <2>1 DEF r, Received
    <3> HIDE DEF w
    <3> QED
      BY <1>0, <2>5, <3>1 DEF Received
  <2>7. radio' \in Chip
    <3>1. [radio EXCEPT !.fifo = IF fsk THEN r.rest ELSE @] \in Chip
      BY <1>0, <2>4 DEF Chip
    <3> QED
      BY <1>1, <2>1, <3>1 DEF r
  <2>8. handler' \in Handling /\ handler'.nb <= handler'.size
    <3>1. CASE fsk
      <4>1. handler' = [handler EXCEPT !.nb = f.size, !.size = f.size]
        BY <2>1, <3>1
      <4> DEFINE n == f.size
      <4>2. n \in Nat /\ n <= n /\ handler \in Handling
        BY <1>0, <2>2
      <4>3. handler' = [handler EXCEPT !.nb = n, !.size = n]
        BY <4>1
      <4> HIDE DEF n
      <4> QED
        BY <4>2, <4>3, HandlingType
    <3>2. CASE ~fsk
      <4>1. handler' = [handler EXCEPT !.size = f.size] /\ handler.nb <= f.size
        BY <2>1, <2>2, <3>2 DEF TypesOK, Shapes
      <4> QED
        BY <1>0, <2>2, <4>1 DEF Handling
    <3> QED
      BY <3>1, <3>2
  <2> QED
    BY <1>6, <2>6, <2>7, <2>8 DEF GoodPacket, TypesOK, Shapes, RxPlaces, IdleUnlessContinuous
<1>7. CASE ReadChunk
  <2>1. PICK f \in FifoWithSize(handler) :
          LET n == Chunk(f.size - handler.nb, FifoThresh)
              r == ReadFifo(f.fifo, n)
          IN /\ rx' = [rx EXCEPT !.buf = Written(@, handler.nb, r.data)]
             /\ handler' = [handler EXCEPT !.nb = @ + n, !.size = f.size]
             /\ radio' = [radio EXCEPT !.fifo = r.rest]
    BY <1>7 DEF ReadChunk
  <2>2. f.size \in Nat /\ f.fifo \in Seq(Unit) /\ handler.nb <= f.size
    BY SizeType
  <2> DEFINE n == Chunk(f.size - handler.nb, FifoThresh)
             r == ReadFifo(f.fifo, n)
             w == Written(rx.buf, handler.nb, r.data)
             x == handler.nb + n
  <2>3. n \in Nat /\ x \in Nat /\ x <= f.size
    <3>1. f.size - handler.nb \in Nat
      BY <1>0, <2>2
    <3>2. n \in Nat /\ n <= f.size - handler.nb
      BY <1>0, <3>1, ChunkType
    <3> QED
      BY <1>0, <2>2, <3>2, SMTT(20)
  <2>4. rx' = [rx EXCEPT !.buf = w] /\ radio' = [radio EXCEPT !.fifo = r.rest]
        /\ handler' = [handler EXCEPT !.nb = x, !.size = f.size]
    BY <1>0, <2>1 DEF Received, Handling
  <2> HIDE DEF n, x
  <2>5. r.data \in Seq(Unit) /\ r.rest \in Seq(Unit)
    BY <2>2, <2>3, ReadFifoType
  <2> HIDE DEF r
  <2>6. w \in [1 .. RecvSize -> Unit]
    BY <1>0, <2>5, WrittenType
  <2> HIDE DEF w
  <2>7. rx' \in Received /\ radio' \in Chip
    BY <1>0, <2>4, <2>5, <2>6 DEF Received, Chip
  <2>8. handler' \in Handling /\ handler'.nb <= handler'.size
    BY <1>0, <2>2, <2>3, <2>4 DEF Handling
  <2> QED
    BY <1>7, <2>7, <2>8 DEF ReadChunk, TypesOK, Shapes
<1>8. CASE WriteChunk
  <2> DEFINE n == Chunk(handler.size - handler.nb, handler.chunk)
             data == [i \in 1 .. n |-> IF handler.nb + i \in DOMAIN rx.buf
                                       THEN rx.buf[handler.nb + i] ELSE << "junk", 0, i >>]
             fifo == radio.fifo \o data
             x == handler.nb + n
  <2>1. n \in Nat /\ x \in Nat /\ x <= handler.size
    <3>1. handler.size - handler.nb \in Nat
      BY <1>0
    <3>2. n \in Nat /\ n <= handler.size - handler.nb
      BY <1>0, <3>1, ChunkType
    <3> QED
      BY <1>0, <3>2
  <2>2. radio' = [radio EXCEPT !.fifo = fifo] /\ pend' = pend \cup LevelEdge(radio.fifo, fifo)
        /\ handler' = [handler EXCEPT !.nb = x]
    BY <1>0, <1>8 DEF WriteChunk, Handling
  <2> HIDE DEF n, x
  <2>3. fifo \in Seq(Unit)
    <3>1. \A i \in 1 .. n : << "junk", 0, i >> \in Unit
      BY <2>1 DEF Unit
    <3>2. \A i \in 1 .. n : (IF handler.nb + i \in DOMAIN rx.buf
                             THEN rx.buf[handler.nb + i] ELSE << "junk", 0, i >>) \in Unit
      BY <1>0, <3>1
    <3>3. data \in [1 .. n -> Unit]
      BY <3>2
    <3>4. data \in Seq(Unit)
      BY <2>1, <3>3
    <3> HIDE DEF data
    <3> QED
      BY <1>0, <3>4
  <2> HIDE DEF fifo
  <2>4. radio' \in Chip
    BY <1>0, <2>2, <2>3 DEF Chip
  <2>5. handler' \in Handling /\ handler'.nb <= handler'.size
    BY <1>0, <2>1, <2>2 DEF Handling
  <2>6. pend' \in SUBSET {0, 1}
    BY <2>2 DEF LevelEdge, TypesOK, Shapes
  <2> QED
    BY <1>8, <2>4, <2>5, <2>6 DEF WriteChunk, TypesOK, Shapes
<1> QED
  BY <1>2, <1>3, <1>4, <1>5, <1>6, <1>7, <1>8 DEF Handlers

LEMMA RadioTypes ==
    ASSUME TypesOK, ClockOut \/ ClockIn \/ GivesUp PROVE Shapes'
<1>0. /\ radio \in Chip /\ radio.fifo \in Seq(Unit) /\ radio.sent \in Seq(Unit) /\ radio.got \in Nat
      /\ radio.mode \in {"Sleep", "Standby", "Tx", "Rx", "RxSingle"}
      /\ air.n \in Nat /\ air.good \in SUBSET Nat /\ RecvSize \in Nat \ {0}
      /\ radio.got \in 0 .. RecvSize
  BY Sx1276Assumption DEF TypesOK, Shapes, Chip
<1>1. CASE GivesUp
  <2>1. radio' \in Chip
    BY <1>0, <1>1 DEF GivesUp, Chip
  <2> QED
    BY <1>1, <2>1 DEF GivesUp, TypesOK, Shapes
<1>2. CASE ClockOut
  <2> DEFINE unit == Head(radio.fifo)
             t == Tail(radio.fifo)
             a == Append(radio.sent, unit)
  <2>1. unit \in Unit /\ t \in Seq(Unit)
    BY <1>0, <1>2 DEF ClockOut
  <2>2. unit[2] \in Nat /\ a \in Seq(Unit)
    BY <1>0, <2>1 DEF Unit
  <2>3. radio' = [[radio EXCEPT !.size = unit[2]] EXCEPT !.fifo = t]
        \/ radio' = [[radio EXCEPT !.sent = a] EXCEPT !.fifo = t]
    BY <1>0, <1>2 DEF ClockOut, Chip
  <2> HIDE DEF unit, t, a
  <2>4. radio' \in Chip
    BY <1>0, <2>1, <2>2, <2>3 DEF Chip
  <2>5. pend' \in SUBSET {0, 1}
    BY <1>2 DEF ClockOut, TypesOK, Shapes
  <2> QED
    BY <1>2, <2>4, <2>5 DEF ClockOut, TypesOK, Shapes
<1>3. CASE ClockIn
  <2> DEFINE data == Packet(air.n + 1, RecvSize)
             units == IF ~fsk THEN data
                      ELSE IF radio.got = 0 THEN << LengthUnit(RecvSize) >>
                      ELSE << data[radio.got] >>
             fifo == IF fsk THEN radio.fifo \o units ELSE units
             last == fsk => radio.got = RecvSize
  <2>1. PICK crcOk \in BOOLEAN : Arrives(crcOk, units)
    BY <1>3 DEF ClockIn
  <2>2. units \in Seq(Unit)
    <3>1. data \in Seq(Unit) /\ LengthUnit(RecvSize) \in Unit /\ Len(data) = RecvSize
      <4>1. air.n + 1 \in Nat /\ RecvSize \in Nat
        BY <1>0
      <4> QED
        BY <4>1, PacketType
    <3> HIDE DEF data
    <3>2. radio.got # 0 => data[radio.got] \in Unit
      BY <1>0, <3>1
    <3>3. radio.got # 0 => << data[radio.got] >> \in Seq(Unit)
      BY <3>2
    <3>4. << LengthUnit(RecvSize) >> \in Seq(Unit)
      BY <3>1
    <3> QED
      BY <3>1, <3>3, <3>4
  <2> HIDE DEF data, units
  <2>3. fifo \in Seq(Unit)
    BY <1>0, <2>2
  <2> DEFINE g == IF last THEN 0 ELSE radio.got + 1
             k == IF last THEN crcOk ELSE radio.crcOk
             y == ~last \/ (radio.mode = "Rx" /\ ~fsk)
             m == IF radio.mode = "RxSingle" THEN "Standby" ELSE radio.mode
  <2>4. radio' = [radio EXCEPT !.fifo = fifo, !.got = g, !.crcOk = k, !.ready = y, !.mode = m]
    BY <1>0, <2>1 DEF Arrives, Chip
  <2>5. g \in 0 .. RecvSize
    BY <1>0, <1>3 DEF ClockIn
  <2>6. /\ k \in BOOLEAN /\ y \in BOOLEAN /\ m \in {"Sleep", "Standby", "Tx", "Rx", "RxSingle"}
    BY <1>0 DEF Chip
  <2> HIDE DEF fifo, g, k, y, m
  <2>7. radio' \in Chip
    BY <1>0, <2>3, <2>4, <2>5, <2>6 DEF Chip
  <2>8. pend' \in SUBSET {0, 1} /\ air' \in [n : Nat, good : SUBSET Nat]
    <3>1. pend' \in SUBSET {0, 1}
      BY <2>1 DEF Arrives, LevelEdge, TypesOK, Shapes
    <3>2. air' = air \/ \E G \in {air.good, air.good \cup {air.n + 1}} :
                          air' = [n |-> air.n + 1, good |-> G]
      BY <2>1 DEF Arrives
    <3>3. air.n + 1 \in Nat /\ air.good \cup {air.n + 1} \in SUBSET Nat
      BY <1>0
    <3> QED
      BY <1>0, <3>1, <3>2, <3>3 DEF TypesOK, Shapes
  <2> QED
    BY <1>3, <2>7, <2>8 DEF ClockIn, TypesOK, Shapes
<1> QED
  BY <1>1, <1>2, <1>3

\* A LoRa packet is not counted piece by piece.
LEMMA LoRaStep ==
    ASSUME TypesOK, Next, ~fsk
    PROVE  cfg' = cfg /\ handler'.nb = 0 /\ isr' \notin {"read_chunk", "write_chunk"}
<1>0. handler \in Handling /\ handler.nb = 0 /\ isr \notin {"read_chunk", "write_chunk"}
  BY DEF TypesOK, Shapes
<1>1. ~ReadChunk /\ ~WriteChunk
  BY <1>0 DEF ReadChunk, WriteChunk
<1>2. ASSUME NEW size \in SendSizes, send(size) PROVE cfg' = cfg /\ handler' = handler /\ isr' = isr
  BY <1>2 DEF send
<1>3. setRx \/ Caller \/ ClockOut \/ ClockIn \/ GivesUp => cfg' = cfg /\ handler' = handler /\ isr' = isr
  BY DEF setRx, Caller, SetState, SetEvent, SetMode, EventSeen, TimeUp, TimeOut, Return,
     getRxBufferStr, SleepMode, SleepState, ClockOut, ClockIn, GivesUp
<1>4. CASE \E pin \in {0, 1} : HandlerStarts(pin)
  BY <1>0, <1>4 DEF HandlerStarts, Branch, NoHandler
<1>5. CASE GoodPacket
  <2>1. cfg' = cfg /\ isr' = "done" /\ \E n : handler' = [handler EXCEPT !.size = n]
    BY <1>5 DEF GoodPacket
  <2> QED
    BY <1>0, <2>1 DEF Handling
<1>6. CASE BadPacket \/ PacketEnds \/ OperationEnds \/ PostEvent
  BY <1>0, <1>6 DEF BadPacket, PacketEnds, OperationEnds, PostEvent, CountersReset, NoHandler
<1> QED
  BY <1>0, <1>1, <1>2, <1>3, <1>4, <1>5, <1>6 DEF Next, Handlers

LEMMA SettingsKept == ASSUME Next PROVE cfg' = cfg
BY DEF Next, send, setRx, Starts, Caller, SetState, SetEvent, SetMode, EventSeen, TimeUp, TimeOut,
   Return, getRxBufferStr, SleepMode, SleepState, Handlers, HandlerStarts, BadPacket, GoodPacket,
   PacketEnds, OperationEnds, PostEvent, ReadChunk, WriteChunk, ClockOut, ClockIn, GivesUp

LEMMA TypesStep == TypesOK /\ [Next]_vars => TypesOK'
<1>1. ASSUME TypesOK, UNCHANGED vars PROVE TypesOK'
  BY <1>1 DEF vars, TypesOK, Shapes, fsk
<1>2. ASSUME TypesOK, Next PROVE Shapes'
  BY <1>2, CallTypes, CallerTypes, HandlersTypes, RadioTypes DEF Next
<1>3. ASSUME TypesOK, Next PROVE TypesOK'
  BY <1>2, <1>3, LoRaStep, SettingsKept DEF TypesOK, fsk
<1> QED
  BY <1>1, <1>3

\* The driver's members have their types, and the handlers of DIO0 and DIO1 never
\* count more of a packet in fskPacketHandler than its size.
THEOREM TypeCorrect == Spec => []TypeOK
<1>1. TypesOK => TypeOK
  BY DEF TypesOK, Shapes, TypeOK, Handling
<1> QED
  BY <1>1, TypesInit, TypesStep, PTL DEF Spec


-----------------------------------------------------------------------------
(* Which modes, states, handlers and pins go with which part of a call. *)

NothingPends == pend = {} /\ isr = NoHandler

RunningState == IF call.op = "tx" THEN "TX_RUNNING" ELSE "RX_RUNNING"

ModeInv ==
    /\ pc \in Resting => radio.mode = "Sleep" /\ prev = "Sleep"
    /\ pc \in Preparing =>
         prev = radio.mode /\ prev = IF call.op = "tx" /\ ~fsk THEN "Standby" ELSE "Sleep"
    /\ pc \in Running /\ call.op = "tx" => radio.mode = "Tx" /\ prev = "Tx"
    /\ pc \in Running /\ call.op = "rx" =>
         /\ prev = RxMode
         /\ radio.mode = RxMode \/ (radio.mode = "Standby" /\ RxMode = "RxSingle")
    /\ radio.mode \in {"Sleep", "Standby", "Tx"} => ~radio.ready
    /\ radio.mode = "RxSingle" => radio.ready /\ NothingPends /\ state = "RX_RUNNING"

StateInv ==
    /\ pc # "idle" => call.op # "none"
    /\ pc \in {"idle", "set_state"} => state = "IDLE"
    /\ pc \in {"set_event", "set_mode"} => state = RunningState
    /\ state \in {"IDLE", RunningState}
    /\ pc = "retrieve" => call.op = "rx"

HandlerInv ==
    /\ call.op = "none" => NothingPends
    /\ call.op = "tx" => isr \in {NoHandler} \cup TxPlaces
    /\ call.op = "rx" => isr \in {NoHandler} \cup RxPlaces
    /\ pc \in Preparing =>
         IF call.op = "tx" THEN isr \in {NoHandler, "write_chunk"} /\ 0 \notin pend ELSE NothingPends

\* The answer of a radio that has stopped looking for a packet is on the way.
AnswerInv ==
    pc = "wait" /\ call.op = "rx" /\ radio.mode = "Standby" /\ event = "EXEC" =>
        \/ pend # {} /\ state = "RX_RUNNING"
        \/ isr \in {"read_packet", "error", "done", "rx_timeout", "post_timeout"}

Control == TypesOK /\ ModeInv /\ StateInv /\ HandlerInv /\ AnswerInv

\* What a step does to the mode of the radio.
ModeKept == radio'.mode = radio.mode /\ radio'.ready = radio.ready

LEMMA EnteredMode ==
    ASSUME radio \in Chip, NEW m
    PROVE  /\ Entered(m).mode = m /\ Entered(m).ready = (m \in {"Rx", "RxSingle"})
           /\ Entered(m).fifo = (IF m = "Tx" \/ m = "Standby" THEN radio.fifo ELSE << >>)
           /\ Entered(m).got = 0 /\ Entered(m).size = 0 /\ Entered(m).sent = << >>
           /\ Entered(m).crcOk = radio.crcOk
           /\ m \notin {"Rx", "RxSingle"} => ~Entered(m).ready
BY DEF Entered, Chip

LEMMA ControlInit == Init => Control
BY TypesInit DEF Init, Control, ModeInv, StateInv, HandlerInv, AnswerInv, NothingPends, RunningState,
   Preparing, Running, Resting

LEMMA CallControl ==
    ASSUME Control, (\E size \in SendSizes : send(size)) \/ setRx
    PROVE  ModeInv' /\ StateInv' /\ HandlerInv' /\ AnswerInv'
<1>0. /\ pc = "idle" /\ radio.mode = "Sleep" /\ prev = "Sleep" /\ pend = {} /\ isr = NoHandler
      /\ state = "IDLE" /\ radio \in Chip /\ ~radio.ready
  BY DEF Control, ModeInv, StateInv, send, setRx, Starts, Settled, TypesOK, Shapes, Resting
<1>1. cfg' = cfg /\ pc' = "set_state" /\ isr' = isr
  BY DEF send, setRx, Starts
<1>2. /\ call'.op \in {"tx", "rx"} /\ state' = "IDLE" /\ pend' \subseteq {1}
      /\ call'.op = "rx" => pend' = {}
      /\ prev' = IF call'.op = "tx" /\ ~fsk THEN "Standby" ELSE "Sleep"
      /\ radio'.mode = prev' /\ ~radio'.ready
  <2>1. CASE setRx
    BY <1>0, <2>1 DEF setRx, Starts
  <2>2. ASSUME NEW size \in SendSizes, send(size), fsk
        PROVE  radio'.mode = radio.mode /\ radio'.ready = radio.ready
               /\ prev' = prev /\ state' = state /\ pend' \subseteq {1} /\ call'.op = "tx"
    BY <1>0, <2>2 DEF send, Starts, Chip, LevelEdge
  <2>3. ASSUME NEW size \in SendSizes, send(size), ~fsk
        PROVE  radio'.mode = "Standby" /\ ~radio'.ready
               /\ prev' = "Standby" /\ state' = "IDLE" /\ pend' = pend /\ call'.op = "tx"
    <3>1. Entered("Standby") \in Chip
      BY <1>0, EnteredType
    <3>2. \E q : radio' = [Entered("Standby") EXCEPT !.fifo = q]
      BY <1>0, <2>3 DEF send
    <3>3. radio'.mode = Entered("Standby").mode /\ radio'.ready = Entered("Standby").ready
      BY <3>1, <3>2 DEF Chip
    <3> QED
      BY <1>0, <2>3, <3>3, EnteredMode DEF send, Starts
  <2> QED
    BY <1>0, <2>1, <2>2, <2>3
<1> QED
  BY <1>0, <1>1, <1>2 DEF ModeInv, StateInv, HandlerInv, AnswerInv, NothingPends, RunningState,
     Preparing, Running, Resting, fsk, NoHandler

LEMMA CallerControl ==
    ASSUME Control, Caller PROVE ModeInv' /\ StateInv' /\ HandlerInv' /\ AnswerInv'
<1>0. /\ ModeInv /\ StateInv /\ HandlerInv /\ AnswerInv
      /\ radio \in Chip /\ pc \in Preparing \cup Running \cup Resting /\ call.op \in {"none", "tx", "rx"}
      /\ RxMode \in {"Rx", "RxSingle"}
  BY DEF Control, TypesOK, Shapes, RxMode
<1>1. CASE SetState \/ SetEvent \/ EventSeen \/ TimeUp \/ TimeOut \/ Return \/ getRxBufferStr \/ SleepState
  <2>1. UNCHANGED << cfg, call, prev, isr, pend, radio >>
    BY <1>1 DEF SetState, SetEvent, EventSeen, TimeUp, TimeOut, Return, getRxBufferStr, SleepState
  <2>2. \/ pc = "set_state" /\ pc' = "set_event" /\ state' = RunningState
        \/ pc = "set_event" /\ pc' = "set_mode" /\ state' = state
        \/ pc = "wait" /\ pc' \in {"return", "time_out"} /\ state' = state
        \/ pc = "time_out" /\ pc' = "return" /\ state' = state
        \/ pc = "return" /\ pc' = "asleep" /\ state' = state
        \/ pc = "return" /\ pc' = "retrieve" /\ state' = state /\ call.op = "rx"
        \/ pc = "retrieve" /\ pc' = "asleep" /\ state' = state
        \/ pc = "asleep_state" /\ pc' = "idle" /\ state' = "IDLE"
    BY <1>1 DEF SetState, SetEvent, EventSeen, TimeUp, TimeOut, Return, getRxBufferStr, SleepState,
       RunningState
  <2>3. ModeInv'
    BY <1>0, <2>1, <2>2 DEF ModeInv, RunningState, NothingPends, Preparing, Running, Resting, fsk, RxMode
  <2>4. StateInv'
    BY <1>0, <2>1, <2>2 DEF StateInv, RunningState
  <2>5. HandlerInv'
    BY <1>0, <2>1, <2>2 DEF HandlerInv, NothingPends, Preparing
  <2>6. AnswerInv'
    BY <2>2 DEF AnswerInv
  <2> QED
    BY <2>3, <2>4, <2>5, <2>6
<1>2. CASE SetMode
  <2>1. /\ pc = "set_mode" /\ pc' = "wait" /\ UNCHANGED << cfg, call, state, event, isr, pend >>
        /\ prev' = IF call.op = "tx" THEN "Tx" ELSE RxMode
        /\ radio' = Entered(prev')
    BY <1>0, <1>2 DEF SetMode, setOpMode, ModeInv, Preparing, RxMode
  <2>2. radio'.mode = prev' /\ radio'.ready = (prev' \in {"Rx", "RxSingle"})
    BY <1>0, <2>1, EnteredMode
  <2> QED
    BY <1>0, <2>1, <2>2 DEF ModeInv, StateInv, HandlerInv, AnswerInv, NothingPends, RunningState,
       Preparing, Running, Resting, fsk, RxMode
<1>3. CASE SleepMode
  <2>1. /\ pc = "asleep" /\ pc' = "asleep_state" /\ UNCHANGED << cfg, call, state, event, isr, pend >>
        /\ prev' = "Sleep" /\ radio' = Entered("Sleep")
    BY <1>0, <1>3 DEF SleepMode, setOpMode, ModeInv, StateInv, Running
  <2>2. radio'.mode = "Sleep" /\ ~radio'.ready
    BY <1>0, <2>1, EnteredMode
  <2> QED
    BY <1>0, <2>1, <2>2 DEF ModeInv, StateInv, HandlerInv, AnswerInv, NothingPends, RunningState,
       Preparing, Running, Resting
<1> QED
  BY <1>1, <1>2, <1>3 DEF Caller

LEMMA HandlersControl ==
    ASSUME Control, Handlers PROVE ModeInv' /\ StateInv' /\ HandlerInv' /\ AnswerInv'
<1>0. /\ ModeInv /\ StateInv /\ HandlerInv /\ AnswerInv
      /\ radio \in Chip /\ pc \in Preparing \cup Running \cup Resting /\ call.op \in {"none", "tx", "rx"}
      /\ RxMode \in {"Rx", "RxSingle"} /\ pend \in SUBSET {0, 1}
      /\ state \in {"IDLE", "RX_RUNNING", "TX_RUNNING"}
      /\ isr \in {NoHandler} \cup TxPlaces \cup RxPlaces
  BY DEF Control, TypesOK, Shapes, RxMode
<1>1. UNCHANGED << cfg, pc, call, prev >>
  BY DEF Handlers, HandlerStarts, BadPacket, GoodPacket, PacketEnds, OperationEnds, PostEvent,
     ReadChunk, WriteChunk
<1>2. CASE \E pin \in {0, 1} : HandlerStarts(pin)
  <2>1. PICK pin \in {0, 1} : HandlerStarts(pin)
    BY <1>2
  <2>2. /\ isr = NoHandler /\ pin \in pend /\ pend' = pend \ {pin} /\ isr' = Branch(pin)
        /\ UNCHANGED << state, event, radio >>
    BY <2>1 DEF HandlerStarts
  <2>3. /\ state = "IDLE" => Branch(pin) = NoHandler
        /\ state = "RX_RUNNING" => Branch(pin) \in {"read_packet", "read_chunk", "rx_timeout"}
        /\ state = "RX_RUNNING" /\ ~fsk => Branch(pin) \in {"read_packet", "rx_timeout"}
        /\ state = "TX_RUNNING" => Branch(pin) \in {"sent", "write_chunk", NoHandler}
        /\ state = "TX_RUNNING" /\ pin = 1 => Branch(pin) \in {"write_chunk", NoHandler}
    BY DEF Branch
  <2>4. ModeInv'
    BY <1>0, <1>1, <2>2 DEF ModeInv, NothingPends, fsk, RxMode
  <2>5. StateInv'
    BY <1>0, <1>1, <2>2 DEF StateInv, RunningState
  <2>6. HandlerInv'
    BY <1>0, <1>1, <2>2, <2>3 DEF HandlerInv, StateInv, RunningState, NothingPends, TxPlaces, RxPlaces
  <2>7. AnswerInv'
    BY <1>0, <1>1, <2>2, <2>3 DEF AnswerInv, ModeInv, RxMode, NoHandler, Running
  <2> QED
    BY <2>4, <2>5, <2>6, <2>7
<1>3. CASE BadPacket \/ GoodPacket
  <2>1. /\ isr = "read_packet" /\ isr' \in {"error", "done"} /\ pend' = pend /\ event' = event
        /\ state' \in {state, "IDLE"}
    BY <1>3 DEF BadPacket, GoodPacket, IdleUnlessContinuous
  <2>2. radio'.mode = radio.mode /\ radio'.ready \in BOOLEAN
        /\ (radio.mode # "Rx" => radio'.ready = radio.ready)
    <3>1. \E q : radio' = Restarted([radio EXCEPT !.fifo = q])
      <4>1. radio = [radio EXCEPT !.fifo = radio.fifo]
        BY <1>0 DEF Chip
      <4>2. CASE BadPacket
        <5>1. radio' = Restarted(radio) /\ radio.fifo \in Seq(Unit)
          BY <1>0, <4>2 DEF BadPacket, Chip
        <5> QED
          BY <4>1, <5>1
      <4>3. CASE GoodPacket
        <5>1. PICK f \in (IF fsk THEN FifoWithSize(handler) ELSE {[size |-> RecvSize, fifo |-> radio.fifo]}) :
                radio' = Restarted([radio EXCEPT !.fifo =
                           IF fsk THEN ReadFifo(f.fifo, f.size - IF fsk THEN handler.nb ELSE 0).rest ELSE @])
          BY <4>3 DEF GoodPacket
        <5> DEFINE q == IF fsk THEN ReadFifo(f.fifo, f.size - IF fsk THEN handler.nb ELSE 0).rest ELSE radio.fifo
        <5>2. radio' = Restarted([radio EXCEPT !.fifo = q])
          BY <1>0, <5>1 DEF Chip
        <5> QED
          BY <5>2
      <4> QED
        BY <1>3, <4>2, <4>3
    <3>2. PICK q : radio' = Restarted([radio EXCEPT !.fifo = q])
      BY <3>1
    <3> QED
      BY <1>0, <3>2 DEF Restarted, Chip
  <2>3. call.op = "rx" /\ pc \notin Preparing
    BY <1>0, <2>1 DEF HandlerInv, NothingPends, TxPlaces, NoHandler
  <2>4. radio.mode # "RxSingle"
    BY <1>0, <2>1 DEF ModeInv, NothingPends, NoHandler
  <2>5. ModeInv'
    BY <1>0, <1>1, <2>1, <2>2, <2>3, <2>4 DEF ModeInv, fsk, RxMode
  <2>6. StateInv'
    BY <1>0, <1>1, <2>1, <2>3 DEF StateInv, RunningState, Preparing
  <2>7. HandlerInv'
    BY <1>0, <1>1, <2>1, <2>3 DEF HandlerInv, RxPlaces
  <2>8. AnswerInv'
    BY <2>1 DEF AnswerInv
  <2> QED
    BY <2>5, <2>6, <2>7, <2>8
<1>4. CASE PacketEnds
  <2>1. /\ isr \in {"error", "done"} /\ isr' = NoHandler /\ UNCHANGED << state, pend, radio >>
        /\ event' \in {"DONE", "ERROR"}
    BY <1>4 DEF PacketEnds
  <2> QED
    BY <1>0, <1>1, <2>1 DEF ModeInv, StateInv, HandlerInv, AnswerInv, NothingPends, RunningState,
       fsk, RxMode, NoHandler
<1>5. CASE OperationEnds
  <2>1. /\ \/ isr = "sent" /\ isr' = "post_done"
           \/ isr = "rx_timeout" /\ isr' = "post_timeout"
        /\ state' = "IDLE" /\ UNCHANGED << event, pend, radio >>
    BY <1>5 DEF OperationEnds
  <2>2. pc \notin Preparing
    BY <1>0, <2>1 DEF HandlerInv, NothingPends, NoHandler, StateInv, Preparing, TxPlaces, RxPlaces
  <2>3. ModeInv'
    BY <1>0, <1>1, <2>1, <2>2 DEF ModeInv, NothingPends, NoHandler, fsk, RxMode
  <2> QED
    BY <1>0, <1>1, <2>1, <2>2, <2>3 DEF StateInv, HandlerInv, AnswerInv, NothingPends, RunningState,
       NoHandler, Preparing, TxPlaces, RxPlaces
<1>6. CASE PostEvent
  <2>1. /\ isr \in {"post_done", "post_timeout"} /\ isr' = NoHandler /\ UNCHANGED << state, pend, radio >>
        /\ event' \in {"DONE", "TIMEOUT"}
    BY <1>6 DEF PostEvent
  <2>2. ModeInv'
    BY <1>0, <1>1, <2>1 DEF ModeInv, NothingPends, NoHandler, fsk, RxMode
  <2>3. StateInv'
    BY <1>0, <1>1, <2>1 DEF StateInv, RunningState
  <2>4. HandlerInv'
    BY <1>0, <1>1, <2>1 DEF HandlerInv, NothingPends, NoHandler
  <2>5. AnswerInv'
    BY <1>0, <1>1, <2>1 DEF AnswerInv, NoHandler
  <2> QED
    BY <2>2, <2>3, <2>4, <2>5
<1>7. CASE ReadChunk \/ WriteChunk
  <2>1. /\ isr \in {"read_chunk", "write_chunk"} /\ isr' = NoHandler /\ UNCHANGED << state, event >>
        /\ pend' = pend \/ (isr = "write_chunk" /\ pend' \in {pend, pend \cup {1}})
        /\ ModeKept
    <3>1. CASE ReadChunk
      <4>1. \E fifo : radio' = [radio EXCEPT !.fifo = fifo]
        BY <3>1 DEF ReadChunk
      <4>2. ModeKept
        BY <1>0, <4>1 DEF ModeKept, Chip
      <4> QED
        BY <3>1, <4>2 DEF ReadChunk
    <3>2. CASE WriteChunk
      <4>1. \E fifo : radio' = [radio EXCEPT !.fifo = fifo] /\ pend' = pend \cup LevelEdge(radio.fifo, fifo)
        BY <3>2 DEF WriteChunk
      <4>2. ModeKept
        BY <1>0, <4>1 DEF ModeKept, Chip
      <4>3. pend' \in {pend, pend \cup {1}}
        BY <4>1 DEF LevelEdge
      <4> QED
        BY <3>2, <4>2, <4>3 DEF WriteChunk
    <3> QED
      BY <1>7, <3>1, <3>2
  <2>2. ~(radio.mode = "Standby" /\ call.op = "rx" /\ pc = "wait")
    BY <1>0, <2>1 DEF Control, TypesOK, ModeInv, Running, RxMode
  <2>3. ModeInv'
    BY <1>0, <1>1, <2>1 DEF ModeInv, ModeKept, NothingPends, NoHandler, fsk, RxMode
  <2>4. AnswerInv'
    BY <1>1, <2>1, <2>2 DEF AnswerInv, ModeKept
  <2>5. StateInv'
    BY <1>0, <1>1, <2>1 DEF StateInv, RunningState
  <2>6. HandlerInv'
    BY <1>0, <1>1, <2>1 DEF HandlerInv, NothingPends, NoHandler, TxPlaces, RxPlaces
  <2> QED
    BY <2>3, <2>4, <2>5, <2>6
<1> QED
  BY <1>2, <1>3, <1>4, <1>5, <1>6, <1>7 DEF Handlers

LEMMA RadioControl ==
    ASSUME Control, ClockOut \/ ClockIn \/ GivesUp
    PROVE  ModeInv' /\ StateInv' /\ HandlerInv' /\ AnswerInv'
<1>0. /\ ModeInv /\ StateInv /\ HandlerInv /\ AnswerInv
      /\ radio \in Chip /\ pc \in Preparing \cup Running \cup Resting /\ call.op \in {"none", "tx", "rx"}
      /\ RxMode \in {"Rx", "RxSingle"} /\ pend \in SUBSET {0, 1}
  BY DEF Control, TypesOK, Shapes, RxMode
<1>1. UNCHANGED << cfg, pc, call, prev, state, event, isr >>
  BY DEF ClockOut, ClockIn, GivesUp
<1>2. StateInv'
  BY <1>0, <1>1 DEF StateInv, RunningState
<1>3. CASE ClockOut
  <2>1. radio.mode = "Tx" /\ ModeKept /\ pend' \in {pend, pend \cup {0}}
    BY <1>0, <1>3 DEF ClockOut, ModeKept, Chip
  <2>2. pc \in Running /\ call.op = "tx"
    BY <1>0, <2>1 DEF ModeInv, StateInv, Running, Resting, Preparing, RxMode
  <2>3. ModeInv'
    BY <1>0, <1>1, <2>1 DEF ModeInv, ModeKept, NothingPends, fsk, RxMode
  <2> QED
    BY <1>0, <1>1, <1>2, <2>1, <2>2, <2>3 DEF HandlerInv, AnswerInv, Running, Preparing
<1>4. CASE GivesUp
  <2>1. /\ radio.mode = "RxSingle" /\ radio'.mode = "Standby" /\ ~radio'.ready /\ pend' = pend \cup {1}
    BY <1>0, <1>4 DEF GivesUp, Chip
  <2>2. pc \in Running /\ call.op = "rx" /\ state = "RX_RUNNING"
    BY <1>0, <2>1 DEF ModeInv, StateInv, Running, Resting, Preparing
  <2> QED
    BY <1>0, <1>1, <1>2, <2>1, <2>2 DEF ModeInv, HandlerInv, AnswerInv, NothingPends, fsk, RxMode,
       Running, Resting, Preparing
<1>5. CASE ClockIn
  <2> DEFINE data == Packet(air.n + 1, RecvSize)
             units == IF ~fsk THEN data
                      ELSE IF radio.got = 0 THEN << LengthUnit(RecvSize) >>
                      ELSE << data[radio.got] >>
  <2>1. PICK crcOk \in BOOLEAN : Arrives(crcOk, units)
    BY <1>5 DEF ClockIn
  <2> HIDE DEF data, units
  <2>2. radio.ready /\ radio.mode \in {"Rx", "RxSingle"}
    BY <1>0, <1>5 DEF ClockIn, ModeInv, Chip
  <2>3. /\ radio'.mode = IF radio.mode = "RxSingle" THEN "Standby" ELSE radio.mode
        /\ pend \subseteq pend'
        /\ radio'.ready = (~(fsk => radio.got = RecvSize) \/ (radio.mode = "Rx" /\ ~fsk))
    BY <1>0, <2>1 DEF Arrives, Chip
  <2>4. pc \in Running /\ call.op = "rx"
    BY <1>0, <2>2 DEF ModeInv, StateInv, Running, Resting, Preparing
  <2>5. radio.mode = "RxSingle" => ~fsk /\ ~radio'.ready /\ 0 \in pend' /\ state = "RX_RUNNING"
    BY <1>0, <2>1, <2>3, <2>4 DEF ModeInv, RxMode, Running, Arrives
  <2>6. ModeInv'
    BY <1>0, <1>1, <2>2, <2>3, <2>4, <2>5 DEF ModeInv, fsk, RxMode, Running, Preparing, Resting
  <2>7. HandlerInv'
    BY <1>0, <1>1, <2>4 DEF HandlerInv, Running, Preparing
  <2>8. AnswerInv'
    BY <1>0, <1>1, <2>2, <2>3, <2>4, <2>5 DEF AnswerInv, ModeInv
  <2> QED
    BY <1>2, <2>6, <2>7, <2>8
<1> QED
  BY <1>3, <1>4, <1>5

LEMMA ControlStep == Control /\ [Next]_vars => Control'
<1>1. ASSUME Control, UNCHANGED vars PROVE Control'
  BY <1>1, TypesStep DEF vars, Control, ModeInv, StateInv, HandlerInv, AnswerInv, NothingPends,
     RunningState, fsk, RxMode
<1>2. ASSUME Control, Next PROVE ModeInv' /\ StateInv' /\ HandlerInv' /\ AnswerInv'
  BY <1>2, CallControl, CallerControl, HandlersControl, RadioControl DEF Next
<1> QED
  BY <1>1, <1>2, TypesStep DEF Control

\* A caller that waits does not wait for a radio that does nothing: the mode that
\* setOpMode remembers is the one the radio was put in, and a radio that stops by
\* itself leaves an interrupt that a handler will answer.
THEOREM NeverWaitsForNothing == Spec => []Armed
<1>1. Control => Armed
  <2> SUFFICES ASSUME Control, pc = "wait", event = "EXEC"
               PROVE  radio.mode = (IF call.op = "tx" THEN "Tx" ELSE RxMode) \/ pend # {} \/ isr # NoHandler
    BY DEF Armed
  <2>1. call.op \in {"tx", "rx"}
    BY DEF Control, StateInv, TypesOK, Shapes
  <2>2. CASE call.op = "tx"
    BY <2>2 DEF Control, ModeInv, Running
  <2>3. CASE call.op = "rx"
    BY <2>3 DEF Control, ModeInv, AnswerInv, Running, NoHandler
  <2> QED
    BY <2>1, <2>2, <2>3
<1> QED
  BY <1>1, ControlInit, ControlStep, PTL DEF Spec


-----------------------------------------------------------------------------
(* What send returns, for packets that fit one chunk. *)

OneChunkOnly == \A k \in Configs : k.modem = "FSK" => SendSizes \subseteq 1 .. OneChunk

Whole == << LengthUnit(call.size) >> \o Packet(call.n, call.size)
AllSent == radio.sent = Packet(call.n, call.size)

EventInv == pc = "set_mode" => event = "EXEC"

Emptied == pc \in Resting \/ (pc \in Preparing /\ call.op = "rx") => radio.fifo = << >>

\* What has been sent and what has not make up the packet.
Split ==
    \/ radio.fifo = Whole /\ radio.sent = << >>
    \/ radio.size = call.size /\ radio.sent \o radio.fifo = Packet(call.n, call.size)

Reported ==
    \/ 0 \in pend \/ isr \in {"sent", "post_done"}
    \/ pc \in {"wait", "time_out", "return"} /\ event = "DONE"
    \/ pc = "asleep" /\ result = "DONE"

Sending ==
    call.op = "tx" =>
      /\ call.size > 0
      /\ fsk => handler.nb = handler.size
      /\ pc \in Preparing => radio.fifo = Whole
      /\ pc \in Running => Split /\ (Reported => AllSent)

SentInv == Control /\ EventInv /\ Emptied /\ Sending

\* Moving the head of one sequence to the end of the other leaves both together
\* what they were.
LEMMA MoveHead ==
    ASSUME NEW s \in Seq(Unit), NEW t \in Seq(Unit), t # << >>
    PROVE  /\ Append(s, Head(t)) \o Tail(t) = s \o t
           /\ Head(t) \in Unit /\ Tail(t) \in Seq(Unit) /\ Append(s, Head(t)) \in Seq(Unit)
           /\ Len(Append(s, Head(t))) = Len(s) + 1
           /\ Len(s) < Len(s \o t) /\ (s \o t)[Len(s) + 1] = Head(t)
           /\ Len(s) + 1 = Len(s \o t) => Append(s, Head(t)) = s \o t
<1>1. Head(t) \in Unit /\ Tail(t) \in Seq(Unit) /\ << Head(t) >> \in Seq(Unit)
  BY HeadTailProperties
<1>2. Append(s, Head(t)) = s \o << Head(t) >>
  BY <1>1, AppendIsConcat
<1>3. << Head(t) >> \o Tail(t) = t
  OBVIOUS
<1> DEFINE h == << Head(t) >>
           u == Tail(t)
<1> HIDE DEF h, u
<1>4. (s \o h) \o u = s \o (h \o u)
  BY <1>1, ConcatAssociative DEF h, u
<1>5. Append(s, Head(t)) \o Tail(t) = s \o t
  BY <1>2, <1>3, <1>4 DEF h, u
<1>6. Append(s, Head(t)) \in Seq(Unit) /\ Len(Append(s, Head(t))) = Len(s) + 1
  BY <1>1, AppendProperties
<1>7. Len(t) \in Nat /\ Len(s) \in Nat /\ Len(t) # 0 /\ Head(t) = t[1] /\ Len(Tail(t)) = Len(t) - 1
  OBVIOUS
<1> DEFINE w == s \o t
<1>8. Len(w) = Len(s) + Len(t) /\ \A i \in 1 .. Len(s) + Len(t) : w[i] = IF i <= Len(s) THEN s[i] ELSE t[i - Len(s)]
  BY ConcatProperties
<1> HIDE DEF w
<1>9. w[Len(s) + 1] = t[1]
  <2>1. Len(s) + 1 \in 1 .. Len(s) + Len(t) /\ ~(Len(s) + 1 <= Len(s)) /\ Len(s) + 1 - Len(s) = 1
    BY <1>7
  <2> QED
    BY <1>8, <2>1
<1>10. ASSUME Len(s) + 1 = Len(w) PROVE Append(s, Head(t)) = w
  <2>1. Len(Tail(t)) = 0
    BY <1>7, <1>8, <1>10
  <2>2. Tail(t) = << >>
    BY <1>1, <2>1, EmptySeq
  <2> DEFINE a == Append(s, Head(t))
  <2>3. a \o << >> = a
    BY <1>6, ConcatEmptySeq
  <2> QED
    BY <1>5, <2>2, <2>3 DEF w
<1>11. Len(s) < Len(w)
  BY <1>7, <1>8
<1> QED
  BY <1>1, <1>5, <1>6, <1>7, <1>9, <1>10, <1>11 DEF w

\* A packet and the unit that tells its length.
LEMMA WholeType ==
    ASSUME NEW k \in Nat, NEW n \in Nat
    PROVE  LET w == << LengthUnit(n) >> \o Packet(k, n)
           IN /\ w \in Seq(Unit) /\ Len(w) = n + 1
              /\ Head(w) = LengthUnit(n) /\ Tail(w) = Packet(k, n)
              /\ w[1] = LengthUnit(n) /\ \A i \in 1 .. n : w[i + 1] = << "data", k, i >>
<1> DEFINE h == << LengthUnit(n) >>
           p == Packet(k, n)
           w == h \o p
<1>1. h \in Seq(Unit) /\ Len(h) = 1 /\ h[1] = LengthUnit(n)
  BY PacketType
<1>2. p \in Seq(Unit) /\ Len(p) = n /\ \A i \in 1 .. n : p[i] = << "data", k, i >>
  BY PacketType
<1> HIDE DEF h, p
<1>3. /\ w \in Seq(Unit) /\ Len(w) = n + 1 /\ w[1] = LengthUnit(n)
      /\ \A i \in 1 .. n : w[i + 1] = p[i]
  <2>1. /\ w \in Seq(Unit) /\ Len(w) = Len(h) + Len(p)
        /\ \A i \in 1 .. Len(h) + Len(p) : w[i] = IF i <= Len(h) THEN h[i] ELSE p[i - Len(h)]
    BY <1>1, <1>2, ConcatProperties
  <2> HIDE DEF w
  <2>2. w[1] = h[1]
    BY <1>1, <1>2, <2>1
  <2>3. \A i \in 1 .. n : i + 1 \in 1 .. 1 + n /\ i + 1 - 1 = i /\ ~(i + 1 <= 1)
    OBVIOUS
  <2>4. \A i \in 1 .. n : w[i + 1] = p[i]
    BY <1>1, <1>2, <2>1, <2>3
  <2> QED
    BY <1>1, <1>2, <2>1, <2>2, <2>4
<1> HIDE DEF w
<1>4. w # << >>
  BY <1>3
<1>5. Head(w) = w[1] /\ Tail(w) \in Seq(Unit) /\ Len(Tail(w)) = n
      /\ \A i \in 1 .. n : Tail(w)[i] = w[i + 1]
  BY <1>3, <1>4, HeadTailProperties
<1>6. Tail(w) = p
  BY <1>2, <1>3, <1>5, SeqEqual
<1> QED
  BY <1>2, <1>3, <1>5, <1>6 DEF h, p, w

LEMMA EventStep == ASSUME Control, EventInv, [Next]_vars PROVE EventInv'
<1>1. CASE UNCHANGED vars
  BY <1>1 DEF EventInv, vars
<1>2. CASE (\E size \in SendSizes : send(size)) \/ setRx
  BY <1>2 DEF send, setRx, EventInv
<1>3. CASE Caller
  BY <1>3 DEF Caller, SetState, SetEvent, SetMode, EventSeen, TimeUp, TimeOut, Return, getRxBufferStr,
     SleepMode, SleepState, EventInv
<1>4. CASE Handlers
  <2>1. pc' = pc
    BY <1>4 DEF Handlers, HandlerStarts, BadPacket, GoodPacket, PacketEnds, OperationEnds, PostEvent,
       ReadChunk, WriteChunk
  <2>2. pc = "set_mode" => isr \in {NoHandler, "write_chunk"}
    BY DEF Control, HandlerInv, NothingPends, Preparing
  <2>3. pc = "set_mode" => event' = event
    BY <1>4, <2>2 DEF Handlers, HandlerStarts, BadPacket, GoodPacket, PacketEnds, OperationEnds,
       PostEvent, ReadChunk, WriteChunk, NoHandler
  <2> QED
    BY <2>1, <2>3 DEF EventInv
<1>5. CASE ClockOut \/ ClockIn \/ GivesUp
  BY <1>5 DEF ClockOut, ClockIn, GivesUp, EventInv
<1> QED
  BY <1>1, <1>2, <1>3, <1>4, <1>5 DEF Next

\* Nothing can be read out of an empty FIFO.
LEMMA EmptyRead ==
    ASSUME TypesOK, radio.fifo = << >>, NEW f \in FifoWithSize(handler), NEW n \in Nat
    PROVE  f.fifo = << >> /\ ReadFifo(f.fifo, n).rest = << >>
<1>1. << >> \in Seq(Unit) /\ Len(<< >>) = 0
  OBVIOUS
<1>2. \A m \in Nat : ReadFifo(<< >>, m).rest = << >>
  <2> SUFFICES ASSUME NEW m \in Nat PROVE ReadFifo(<< >>, m).rest = << >>
    OBVIOUS
  <2>1. m + 1 \in Int /\ 0 < m + 1
    OBVIOUS
  <2>2. SubSeq(<< >>, m + 1, 0) = << >>
    BY <2>1, SubSeqEmpty
  <2> QED
    BY <1>1, <2>2 DEF ReadFifo
<1>3. f.fifo = radio.fifo \/ f.fifo = ReadFifo(radio.fifo, 1).rest
  BY DEF FifoWithSize
<1> QED
  BY <1>2, <1>3

\* A packet that was written whole leaves nothing to write.
LEMMA NothingLeft ==
    ASSUME Control, Sending, call.op = "tx", WriteChunk
    PROVE  radio'.fifo = radio.fifo /\ pend' = pend /\ handler' = handler /\ ModeKept
           /\ radio'.sent = radio.sent /\ radio'.size = radio.size
<1>0. /\ isr = "write_chunk" /\ fsk /\ handler \in Handling /\ handler.nb = handler.size
      /\ handler.nb \in Nat /\ handler.chunk \in Nat /\ radio \in Chip /\ radio.fifo \in Seq(Unit)
  BY DEF WriteChunk, Sending, Control, TypesOK, Shapes, Handling, Chip
<1>1. Chunk(handler.size - handler.nb, handler.chunk) = 0
  <2>1. handler.size - handler.nb = 0
    BY <1>0
  <2> QED
    BY <1>0, <2>1 DEF Chunk
<1> DEFINE data == [i \in 1 .. 0 |-> IF handler.nb + i \in DOMAIN rx.buf
                                    THEN rx.buf[handler.nb + i] ELSE << "junk", 0, i >>]
           fifo == radio.fifo \o data
<1>2. data = << >>
  OBVIOUS
<1>3. fifo = radio.fifo
  BY <1>0, <1>2, ConcatEmptySeq
<1>4. /\ radio' = [radio EXCEPT !.fifo = fifo] /\ pend' = pend \cup LevelEdge(radio.fifo, fifo)
      /\ handler' = [handler EXCEPT !.nb = handler.nb + 0]
  BY <1>0, <1>1 DEF WriteChunk, Handling
<1> HIDE DEF fifo
<1>5. handler' = handler
  <2>1. handler.nb + 0 = handler.nb
    BY <1>0
  <2> QED
    BY <1>0, <1>4, <2>1 DEF Handling
<1>6. LevelEdge(radio.fifo, radio.fifo) = {}
  <2>1. Len(radio.fifo) \in Nat /\ FifoThresh \in Nat
    BY <1>0, Sx1276Assumption
  <2> QED
    BY <2>1 DEF LevelEdge
<1> QED
  BY <1>0, <1>3, <1>4, <1>5, <1>6 DEF Chip, ModeKept

LEMMA EmptiedStep == ASSUME Control, Emptied, Sending, [Next]_vars PROVE Emptied'
<1>0. /\ radio \in Chip /\ radio.fifo \in Seq(Unit) /\ pc \in Preparing \cup Running \cup Resting
      /\ call.op \in {"none", "tx", "rx"} /\ TypesOK
  BY DEF Control, TypesOK, Shapes, Chip
<1>1. CASE UNCHANGED vars
  BY <1>1 DEF Emptied, vars
<1>2. CASE (\E size \in SendSizes : send(size)) \/ setRx
  <2>1. pc = "idle" /\ pc' = "set_state"
    BY <1>2 DEF send, setRx, Starts
  <2>2. CASE setRx
    BY <2>1, <2>2 DEF setRx, Emptied, Resting
  <2>3. CASE \E size \in SendSizes : send(size)
    BY <2>1, <2>3 DEF send, Starts, Emptied, Resting
  <2> QED
    BY <1>2, <2>2, <2>3
<1>3. CASE SetState \/ SetEvent \/ EventSeen \/ TimeUp \/ TimeOut \/ Return \/ getRxBufferStr \/ SleepState
  <2>1. UNCHANGED << radio, call >> /\ (pc' \in Preparing => pc \in Preparing)
        /\ (pc' \in Resting => pc \in Resting)
    BY <1>3 DEF SetState, SetEvent, EventSeen, TimeUp, TimeOut, Return, getRxBufferStr, SleepState,
       Preparing, Resting
  <2> QED
    BY <2>1 DEF Emptied
<1>4. CASE SetMode
  BY <1>4 DEF SetMode, Emptied, Resting, Preparing
<1>5. CASE SleepMode
  <2>1. radio' = Entered("Sleep")
    BY <1>0, <1>5 DEF SleepMode, setOpMode, Control, ModeInv, StateInv, Running, RxMode
  <2>2. radio'.fifo = << >>
    BY <1>0, <2>1, EnteredMode
  <2> QED
    BY <2>2 DEF Emptied
<1>6. CASE Handlers
  <2>1. UNCHANGED << pc, call >>
    BY <1>6 DEF Handlers, HandlerStarts, BadPacket, GoodPacket, PacketEnds, OperationEnds, PostEvent,
       ReadChunk, WriteChunk
  <2> SUFFICES ASSUME pc \in Resting \/ (pc \in Preparing /\ call.op = "rx") PROVE radio'.fifo = << >>
    BY <2>1 DEF Emptied
  <2>2. radio.fifo = << >>
    BY DEF Emptied
  <2>3. \A r \in Chip : Restarted(r).fifo = r.fifo
    BY DEF Restarted, Chip
  <2>4. CASE GoodPacket
    <3> DEFINE files == IF fsk THEN FifoWithSize(handler) ELSE {[size |-> RecvSize, fifo |-> radio.fifo]}
               from == IF fsk THEN handler.nb ELSE 0
    <3>1. PICK f \in files :
            radio' = Restarted([radio EXCEPT !.fifo = IF fsk THEN ReadFifo(f.fifo, f.size - from).rest ELSE @])
      BY <2>4 DEF GoodPacket
    <3>2. CASE fsk
      <4>1. f.size \in Nat /\ f.fifo \in Seq(Unit) /\ handler.nb <= f.size /\ handler.nb \in Nat
            /\ f \in FifoWithSize(handler)
        BY <1>0, <3>2, SizeType
      <4>2. f.size - handler.nb \in Nat
        BY <4>1
      <4>3. ReadFifo(f.fifo, f.size - handler.nb).rest = << >>
        BY <1>0, <2>2, <4>1, <4>2, EmptyRead
      <4>4. radio' = Restarted([radio EXCEPT !.fifo = << >>])
        BY <3>1, <3>2, <4>3
      <4> QED
        BY <1>0, <4>4 DEF Restarted, Chip
    <3>3. CASE ~fsk
      <4>1. radio' = Restarted([radio EXCEPT !.fifo = radio.fifo])
        BY <1>0, <3>1, <3>3 DEF Chip
      <4> QED
        BY <1>0, <2>2, <4>1 DEF Restarted, Chip
    <3> QED
      BY <3>2, <3>3
  <2>5. CASE ReadChunk
    <3>1. PICK f \in FifoWithSize(handler) :
            radio' = [radio EXCEPT !.fifo = ReadFifo(f.fifo, Chunk(f.size - handler.nb, FifoThresh)).rest]
      BY <2>5 DEF ReadChunk
    <3>2. f.size \in Nat /\ handler.nb <= f.size /\ handler.nb \in Nat
      BY <1>0, SizeType
    <3>3. f.size - handler.nb \in Nat /\ FifoThresh \in Nat
      BY <3>2, Sx1276Assumption
    <3> DEFINE n == Chunk(f.size - handler.nb, FifoThresh)
    <3>4. n \in Nat
      BY <3>3, ChunkType
    <3> HIDE DEF n
    <3>5. ReadFifo(f.fifo, n).rest = << >>
      BY <1>0, <2>2, <3>4, EmptyRead
    <3> QED
      BY <1>0, <3>1, <3>5 DEF n, Chip
  <2>6. CASE WriteChunk
    <3>1. isr = "write_chunk"
      BY <2>6 DEF WriteChunk
    <3>2. call.op = "tx" /\ pc \in Resting /\ fsk
      BY <1>0, <3>1 DEF Control, TypesOK, HandlerInv, NothingPends, NoHandler, RxPlaces
    <3> QED
      BY <2>2, <2>6, <3>2, NothingLeft
  <2>7. CASE BadPacket
    BY <1>0, <2>2, <2>3, <2>7 DEF BadPacket
  <2>8. CASE (\E pin \in {0, 1} : HandlerStarts(pin)) \/ PacketEnds \/ OperationEnds \/ PostEvent
    BY <2>2, <2>8 DEF HandlerStarts, PacketEnds, OperationEnds, PostEvent
  <2> QED
    BY <1>6, <2>4, <2>5, <2>6, <2>7, <2>8 DEF Handlers
<1>7. CASE ClockOut \/ ClockIn \/ GivesUp
  <2>1. radio.mode \in {"Tx", "Rx", "RxSingle"}
    BY <1>0, <1>7 DEF ClockOut, ClockIn, GivesUp, Control, ModeInv, Chip
  <2>2. pc \in Running /\ pc' = pc
    BY <1>0, <1>7, <2>1 DEF ClockOut, ClockIn, GivesUp, Control, ModeInv
  <2> QED
    BY <2>2 DEF Emptied, Running, Preparing, Resting
<1> QED
  BY <1>1, <1>2, <1>3, <1>4, <1>5, <1>6, <1>7 DEF Next, Caller

\* The radio sends the next unit.
LEMMA SendsOn ==
    ASSUME Control, Sending, call.op = "tx", ClockOut
    PROVE  Split' /\ (Reported' => AllSent')
<1> DEFINE p == Packet(call.n, call.size)
           unit == Head(radio.fifo)
           t == Tail(radio.fifo)
           a == Append(radio.sent, unit)
<1>0. /\ radio \in Chip /\ radio.fifo \in Seq(Unit) /\ radio.sent \in Seq(Unit) /\ radio.fifo # << >>
      /\ call.n \in Nat /\ call.size \in Nat /\ call.size > 0 /\ radio.mode = "Tx"
  BY Sx1276Assumption DEF ClockOut, Control, TypesOK, Shapes, Chip, Sending
<1>1. pc \in Running
  BY <1>0 DEF Control, TypesOK, Shapes, ModeInv, StateInv, Running, Resting, Preparing
<1>2. p \in Seq(Unit) /\ Len(p) = call.size /\ \A i \in 1 .. call.size : p[i] = << "data", call.n, i >>
  BY <1>0, PacketType
<1>3. Split /\ (Reported => AllSent)
  BY <1>1 DEF Sending
<1>4. UNCHANGED << pc, call, event, isr, result >> /\ Packet(call.n, call.size)' = p
  BY DEF ClockOut
<1>5. CASE radio.fifo = Whole /\ radio.sent = << >>
  <2>1. unit = LengthUnit(call.size) /\ t = p
    BY <1>0, <1>5, WholeType DEF Whole
  <2>2. unit[1] = "len" /\ unit[2] = call.size
    BY <2>1 DEF LengthUnit
  <2>3. radio' = [[radio EXCEPT !.size = unit[2]] EXCEPT !.fifo = t] /\ pend' = pend
    BY <1>0, <2>2 DEF ClockOut, Chip
  <2> HIDE DEF unit, t, p
  <2>4. radio'.size = call.size /\ radio'.fifo = p /\ radio'.sent = << >>
    BY <1>0, <1>5, <2>1, <2>2, <2>3 DEF Chip
  <2>5. << >> \o p = p
    BY <1>2, ConcatEmptySeq
  <2>6. ~AllSent
    BY <1>0, <1>2, <1>5 DEF AllSent, p
  <2>7. ~Reported'
    BY <1>3, <1>4, <2>3, <2>6 DEF Reported
  <2>8. Split'
    BY <1>4, <2>4, <2>5 DEF Split, p
  <2> QED
    BY <2>7, <2>8
<1>6. CASE radio.size = call.size /\ radio.sent \o radio.fifo = p
  <2>1. /\ a \o t = p /\ unit \in Unit /\ t \in Seq(Unit) /\ a \in Seq(Unit) /\ Len(a) = Len(radio.sent) + 1
        /\ Len(radio.sent) < Len(p) /\ p[Len(radio.sent) + 1] = unit
        /\ Len(radio.sent) + 1 = Len(p) => a = p
    <3>1. /\ Append(radio.sent, Head(radio.fifo)) \o Tail(radio.fifo) = radio.sent \o radio.fifo
          /\ Head(radio.fifo) \in Unit /\ Tail(radio.fifo) \in Seq(Unit)
          /\ Append(radio.sent, Head(radio.fifo)) \in Seq(Unit)
          /\ Len(Append(radio.sent, Head(radio.fifo))) = Len(radio.sent) + 1
          /\ Len(radio.sent) < Len(radio.sent \o radio.fifo)
          /\ (radio.sent \o radio.fifo)[Len(radio.sent) + 1] = Head(radio.fifo)
          /\ Len(radio.sent) + 1 = Len(radio.sent \o radio.fifo)
               => Append(radio.sent, Head(radio.fifo)) = radio.sent \o radio.fifo
      <4>1. radio.sent \in Seq(Unit) /\ radio.fifo \in Seq(Unit) /\ radio.fifo # << >>
        BY <1>0
      <4> QED
        BY <4>1, MoveHead
    <3> HIDE DEF p
    <3> QED
      BY <1>6, <3>1
  <2>2. Len(radio.sent) \in Nat
    BY <1>0
  <2> HIDE DEF p, unit, t, a
  <2>3. unit[1] # "len"
    <3>1. Len(radio.sent) + 1 \in 1 .. call.size
      BY <1>0, <1>2, <2>1, <2>2
    <3> QED
      BY <1>2, <2>1, <3>1
  <2>5. /\ radio' = [[radio EXCEPT !.sent = a] EXCEPT !.fifo = t]
        /\ pend' = IF Len(a) = radio.size THEN pend \cup {0} ELSE pend
    BY <1>0, <2>3 DEF ClockOut, Chip, unit, t, a
  <2>6. radio.sent # p
    BY <1>2, <2>1, <2>2
  <2>7. ~Reported
    BY <1>3, <2>6 DEF AllSent, p
  <2>8. radio'.sent = a /\ radio'.fifo = t /\ radio'.size = call.size
    BY <1>0, <1>6, <2>5 DEF Chip
  <2>9. Split'
    BY <1>4, <2>1, <2>8 DEF Split, p
  <2>10. ASSUME Reported' PROVE AllSent'
    <3>1. pend' # pend
      BY <1>4, <2>7, <2>10 DEF Reported
    <3>2. Len(a) = call.size
      BY <1>6, <2>5, <3>1
    <3>3. a = p
      BY <1>2, <2>1, <3>2
    <3> QED
      BY <1>4, <2>8, <3>3 DEF AllSent, p
  <2> QED
    BY <2>9, <2>10
<1> QED
  BY <1>3, <1>5, <1>6 DEF Split

\* What a call of send has written before it starts the radio.
LEMMA SendWrites ==
    ASSUME OneChunkOnly, Control, Emptied, NEW size \in SendSizes, send(size)
    PROVE  /\ radio'.fifo = << LengthUnit(size) >> \o Packet(call.n + 1, size)
           /\ fsk => handler'.nb = handler'.size
<1> DEFINE p == Packet(call.n + 1, size)
           h == << LengthUnit(size) >>
<1>0. /\ pc = "idle" /\ radio.fifo = << >> /\ radio \in Chip /\ cfg \in Configs
      /\ size \in Nat /\ size > 0 /\ OneChunk \in Nat /\ call.n + 1 \in Nat
      /\ radio.mode = "Sleep" /\ prev = "Sleep"
  BY Sx1276Assumption DEF Control, TypesOK, Shapes, Emptied, send, Starts, Resting, Settled, ModeInv
<1>1. p \in Seq(Unit) /\ Len(p) = size /\ h \in Seq(Unit)
  <2>1. p \in Seq(Unit) /\ Len(p) = size /\ LengthUnit(size) \in Unit
    BY <1>0, PacketType
  <2> QED
    BY <2>1
<1>2. CASE fsk
  <2>1. size <= OneChunk
    BY <1>0, <1>2 DEF OneChunkOnly, fsk
  <2>2. /\ radio' = [radio EXCEPT !.fifo = radio.fifo \o h \o SubSeq(p, 1, size)]
        /\ handler' = [nb |-> size, size |-> size, chunk |-> size]
    BY <1>2, <2>1 DEF send
  <2>3. SubSeq(p, 1, size) = p
    BY <1>1, SubSeqFull
  <2>4. radio.fifo \o h = h
    BY <1>0, <1>1, ConcatEmptySeq
  <2> HIDE DEF h, p
  <2>5. radio' = [radio EXCEPT !.fifo = h \o p]
    BY <2>2, <2>3, <2>4
  <2>6. radio'.fifo = h \o p
    BY <1>0, <2>5 DEF Chip
  <2> QED
    BY <2>2, <2>6 DEF h, p
<1>3. CASE ~fsk
  <2>1. Entered("Standby") \in Chip
    BY <1>0, EnteredType
  <2>2. radio' = [Entered("Standby") EXCEPT !.fifo = h \o p]
    BY <1>0, <1>3 DEF send
  <2> QED
    BY <1>3, <2>1, <2>2 DEF Chip
<1> QED
  BY <1>2, <1>3

LEMMA SendingStep ==
    ASSUME OneChunkOnly, Control, EventInv, Emptied, Sending, [Next]_vars PROVE Sending'
<1>0. /\ radio \in Chip /\ pc \in Preparing \cup Running \cup Resting
      /\ call \in [n : 0 .. MaxCalls, op : {"none", "tx", "rx"}, size : Nat]
  BY DEF Control, TypesOK, Shapes
<1>1. CASE UNCHANGED vars
  BY <1>1 DEF vars, Sending, Split, Reported, AllSent, Whole, fsk
<1>2. ASSUME NEW size \in SendSizes, send(size) PROVE Sending'
  <2>1. /\ call'.op = "tx" /\ call'.n = call.n + 1 /\ call'.size = size /\ pc' = "set_state"
        /\ cfg' = cfg /\ size > 0
    BY <1>2, Sx1276Assumption DEF send, Starts
  <2>2. Whole' = << LengthUnit(size) >> \o Packet(call.n + 1, size)
    BY <2>1 DEF Whole
  <2>3. radio'.fifo = Whole' /\ (fsk => handler'.nb = handler'.size)
    BY <1>2, <2>2, SendWrites
  <2> QED
    BY <2>1, <2>3 DEF Sending, Running, fsk
<1>3. CASE setRx
  BY <1>3 DEF setRx, Starts, Sending
<1>4. CASE Caller
  <2>1. UNCHANGED << cfg, call, handler, isr, pend >>
    BY <1>4 DEF Caller, SetState, SetEvent, SetMode, EventSeen, TimeUp, TimeOut, Return,
       getRxBufferStr, SleepMode, SleepState
  <2> SUFFICES ASSUME call.op = "tx"
               PROVE  /\ pc' \in Preparing => radio'.fifo = Whole
                      /\ pc' \in Running => Split' /\ (Reported' => AllSent')
    BY <2>1 DEF Sending, Whole, fsk
  <2>2. CASE SetState \/ SetEvent
    BY <2>2 DEF SetState, SetEvent, Sending, Preparing, Running
  <2>3. CASE SetMode
    <3>1. radio.fifo = Whole /\ isr \in {NoHandler, "write_chunk"} /\ 0 \notin pend
          /\ pc = "set_mode" /\ prev # "Tx" /\ event = "EXEC"
      BY <2>3 DEF SetMode, Sending, Control, HandlerInv, ModeInv, EventInv, Preparing
    <3>2. radio' = Entered("Tx") /\ pc' = "wait" /\ event' = event
      BY <2>3, <3>1 DEF SetMode, setOpMode
    <3>3. radio'.fifo = Whole /\ radio'.sent = << >>
      BY <1>0, <3>1, <3>2, EnteredMode
    <3>4. ~Reported'
      BY <2>1, <3>1, <3>2 DEF Reported, NoHandler
    <3> QED
      BY <2>1, <3>2, <3>3, <3>4 DEF Split, Whole, Preparing
  <2>4. CASE EventSeen \/ TimeUp \/ TimeOut
    <3>1. pc \in {"wait", "time_out"} /\ pc' \in {"time_out", "return"} /\ radio' = radio
          /\ (event' = event \/ event' = "TIMEOUT")
      BY <2>4 DEF EventSeen, TimeUp, TimeOut
    <3>2. Reported' => Reported
      BY <2>1, <3>1 DEF Reported
    <3>3. Split /\ (Reported => AllSent)
      BY <3>1 DEF Sending, Running
    <3> QED
      BY <2>1, <3>1, <3>2, <3>3 DEF Split, AllSent, Whole, Preparing
  <2>5. CASE Return
    <3>1. pc = "return" /\ pc' \in {"retrieve", "asleep"} /\ radio' = radio /\ result' = event /\ event' = event
      BY <2>5 DEF Return
    <3>2. Reported' => Reported
      BY <2>1, <3>1 DEF Reported
    <3>3. Split /\ (Reported => AllSent)
      BY <3>1 DEF Sending, Running
    <3> QED
      BY <2>1, <3>1, <3>2, <3>3 DEF Split, AllSent, Whole, Preparing
  <2>6. CASE getRxBufferStr
    BY <2>6 DEF getRxBufferStr, Control, StateInv
  <2>7. CASE SleepMode \/ SleepState
    BY <2>7 DEF SleepMode, SleepState, Preparing, Running
  <2> QED
    BY <1>4, <2>2, <2>3, <2>4, <2>5, <2>6, <2>7 DEF Caller
<1>5. CASE Handlers
  <2>1. UNCHANGED << cfg, pc, call, result >>
    BY <1>5 DEF Handlers, HandlerStarts, BadPacket, GoodPacket, PacketEnds, OperationEnds, PostEvent,
       ReadChunk, WriteChunk
  <2> SUFFICES ASSUME call.op = "tx" PROVE Sending'
    BY <2>1 DEF Sending
  <2>2. isr \in {NoHandler} \cup TxPlaces
    BY DEF Control, HandlerInv
  <2>3. /\ radio'.fifo = radio.fifo /\ radio'.sent = radio.sent /\ radio'.size = radio.size
        /\ handler' = handler /\ pend' \subseteq pend
        /\ isr' \in {"sent", "post_done"} => 0 \in pend \/ isr \in {"sent", "post_done"}
        /\ event' # event => isr = "post_done"
    <3>1. CASE \E pin \in {0, 1} : HandlerStarts(pin)
      <4>1. PICK pin \in {0, 1} : HandlerStarts(pin)
        BY <3>1
      <4>2. Branch(pin) \in {"sent", "post_done"} => pin = 0
        BY DEF Branch, NoHandler
      <4> QED
        BY <4>1, <4>2 DEF HandlerStarts
    <3>2. CASE OperationEnds \/ PostEvent
      BY <2>2, <3>2 DEF OperationEnds, PostEvent, TxPlaces, NoHandler
    <3>3. CASE WriteChunk
      BY <3>3, NothingLeft DEF WriteChunk, NoHandler
    <3>4. ~BadPacket /\ ~GoodPacket /\ ~PacketEnds /\ ~ReadChunk
      BY <2>2 DEF BadPacket, GoodPacket, PacketEnds, ReadChunk, TxPlaces, NoHandler
    <3> QED
      BY <1>5, <3>1, <3>2, <3>3, <3>4 DEF Handlers
  <2>4. Reported' => Reported
    BY <2>1, <2>3 DEF Reported
  <2> QED
    BY <2>1, <2>3, <2>4 DEF Sending, Split, AllSent, Whole, fsk
<1>6. CASE ClockOut
  <2>1. UNCHANGED << cfg, pc, call, handler >>
    BY <1>6 DEF ClockOut
  <2>2. call.op = "tx" => pc \notin Preparing
    BY <1>0, <1>6 DEF ClockOut, Control, ModeInv, Preparing
  <2> QED
    BY <1>6, <2>1, <2>2, SendsOn DEF Sending, fsk
<1>7. CASE ClockIn \/ GivesUp
  <2>1. radio.mode \in {"Rx", "RxSingle"} /\ call' = call
    BY <1>0, <1>7 DEF ClockIn, GivesUp, Control, ModeInv, Chip
  <2>2. call.op = "rx"
    BY <1>0, <2>1 DEF Control, ModeInv, StateInv, Running, Resting, Preparing
  <2> QED
    BY <2>1, <2>2 DEF Sending
<1> QED
  BY <1>1, <1>2, <1>3, <1>4, <1>5, <1>6, <1>7 DEF Next

\* When send returns REVENT_DONE the radio has sent that very packet: all of it, and
\* nothing else.  In FSK that needs packets that fit one chunk: the pieces after the
\* first come from m_rxBuffer (sx1276.cxx:1912).
THEOREM SendsThePacket ==
    ASSUME OneChunkOnly PROVE Spec => []DoneMeansSent
<1>1. Init => SentInv
  BY ControlInit DEF Init, SentInv, EventInv, Emptied, Sending
<1>2. SentInv /\ [Next]_vars => SentInv'
  BY ControlStep, EventStep, EmptiedStep, SendingStep DEF SentInv
<1>3. SentInv => DoneMeansSent
  BY DEF SentInv, Sending, Reported, AllSent, DoneMeansSent, Running
<1> QED
  BY <1>1, <1>2, <1>3, PTL DEF Spec


-----------------------------------------------------------------------------
(* What a single reception delivers. *)

\* The packet that is arriving, how many of its units have come, how many of
\* them the handlers have taken, and the unit that comes in a place.
Current == IF radio.ready THEN air.n + 1 ELSE air.n
Arrived == IF radio.ready THEN radio.got ELSE RecvSize + 1
Used == IF handler.size = 0 THEN 0 ELSE 1 + handler.nb
Place(k, j) == IF j = 1 THEN LengthUnit(RecvSize) ELSE << "data", k, j - 1 >>

Checked == air.n >= 1 /\ (radio.crcOk => air.n \in air.good)

\* The units of the packet are in the buffer, in the FIFO, or still to come, and
\* an interrupt is raised only for what is there to be read.
Shared ==
    /\ handler.size \in {0, RecvSize} /\ (handler.size = 0 => handler.nb = 0)
    /\ Used + Len(radio.fifo) = Arrived
    /\ \A i \in 1 .. Len(radio.fifo) : radio.fifo[i] = Place(Current, Used + i)
    /\ \A i \in 1 .. handler.nb : rx.buf[i] = << "data", Current, i >>
    /\ 1 \in pend \/ isr = "read_chunk" => Len(radio.fifo) > FifoThresh
    /\ isr = "read_chunk" => 1 \notin pend
    /\ 0 \in pend \/ isr = "read_packet" => ~radio.ready
    /\ ~radio.ready => Checked

\* A LoRa packet is in the FIFO as a whole when the radio reports it.
Captured == radio.fifo = Packet(air.n, RecvSize) /\ Checked /\ ~radio.ready

Complete ==
    /\ rx.buf = Packet(air.n, RecvSize)
    /\ air.n >= 1 /\ (cfg.crcOn => air.n \in air.good)
    /\ ~radio.ready /\ state = "IDLE"

Delivered == Complete /\ rx.len = RecvSize /\ isr = NoHandler

Fresh == pc \in Preparing /\ fsk => handler.size = 0 /\ handler.nb = 0

Receiving ==
    pc \in Running =>
      /\ isr \in {"read_packet", "read_chunk"} => state = "RX_RUNNING"
      /\ isr = "error" => state = "IDLE"
      /\ fsk /\ state = "RX_RUNNING" => Shared
      /\ ~fsk /\ (0 \in pend \/ isr = "read_packet") => Captured
      /\ isr = "done" => Complete /\ handler.size = RecvSize
      /\ pc # "asleep" /\ event = "DONE" => Delivered
      /\ pc = "retrieve" => event = "DONE"

PacketInv ==
    /\ Control /\ EventInv
    /\ ~cfg.cont /\ call.op = "rx" => Fresh /\ Receiving
    /\ ReceivedWhole

LEMMA Fields ==
    ASSUME TypesOK
    PROVE  /\ handler \in Handling /\ handler.nb \in Nat /\ handler.size \in Nat /\ handler.nb <= handler.size
           /\ radio \in Chip /\ radio.fifo \in Seq(Unit) /\ radio.got \in 0 .. RecvSize /\ radio.ready \in BOOLEAN
           /\ radio.crcOk \in BOOLEAN /\ rx \in Received /\ rx.buf \in [1 .. RecvSize -> Unit]
           /\ air \in [n : Nat, good : SUBSET Nat] /\ air.n \in Nat
           /\ RecvSize \in Nat /\ RecvSize > 0 /\ FifoThresh \in Nat /\ FifoThresh > 0
           /\ pc \in Preparing \cup Running \cup Resting /\ pend \in SUBSET {0, 1}
           /\ Len(radio.fifo) \in Nat /\ Current \in Nat /\ Used \in Nat
<1>1. /\ handler \in Handling /\ handler.nb \in Nat /\ handler.size \in Nat /\ handler.nb <= handler.size
      /\ rx \in Received /\ rx.buf \in [1 .. RecvSize -> Unit] /\ pend \in SUBSET {0, 1}
      /\ pc \in Preparing \cup Running \cup Resting
  BY DEF TypesOK, Shapes, Handling, Received
<1>2. /\ radio \in Chip /\ radio.fifo \in Seq(Unit) /\ radio.got \in 0 .. RecvSize
      /\ radio.ready \in BOOLEAN /\ radio.crcOk \in BOOLEAN
  BY DEF TypesOK, Shapes, Chip
<1>3. air \in [n : Nat, good : SUBSET Nat] /\ air.n \in Nat
  BY DEF TypesOK, Shapes
<1>4. RecvSize \in Nat /\ RecvSize > 0 /\ FifoThresh \in Nat /\ FifoThresh > 0
  BY Sx1276Assumption
<1>5. Len(radio.fifo) \in Nat
  BY <1>2
<1>6. Current \in Nat /\ Used \in Nat
  BY <1>1, <1>3 DEF Current, Used
<1> QED
  BY <1>1, <1>2, <1>3, <1>4, <1>5, <1>6

\* The packet goes on behind the units that have been read.
LEMMA SizeRead ==
    ASSUME TypesOK, Shared, Len(radio.fifo) > 0 \/ handler.size # 0, NEW f \in FifoWithSize(handler)
    PROVE  /\ f.size = RecvSize /\ f.fifo \in Seq(Unit)
           /\ handler.nb + Len(f.fifo) + 1 = Arrived
           /\ \A i \in 1 .. Len(f.fifo) : f.fifo[i] = << "data", Current, handler.nb + i >>
           /\ Len(radio.fifo) <= Len(f.fifo) + 1
<1>0. /\ handler.nb \in Nat /\ radio.fifo \in Seq(Unit) /\ Len(radio.fifo) \in Nat /\ Current \in Nat
      /\ RecvSize \in Nat /\ RecvSize > 0
  BY Fields
<1>1. CASE handler.size = 0
  <2> DEFINE r == ReadFifo(radio.fifo, 1)
  <2>0. handler.nb = 0 /\ Used = 0 /\ Len(radio.fifo) > 0 /\ Len(radio.fifo) = Arrived
    BY <1>0, <1>1 DEF Shared, Used
  <2>1. /\ r.data[1] = radio.fifo[1] /\ r.rest \in Seq(Unit) /\ Len(r.rest) = Len(radio.fifo) - 1
        /\ \A i \in 1 .. Len(radio.fifo) - 1 : r.rest[i] = radio.fifo[1 + i]
    <3>1. /\ r.data[1] = radio.fifo[1] /\ r.rest \in Seq(Unit)
          /\ Len(r.rest) = IF 1 <= Len(radio.fifo) THEN Len(radio.fifo) - 1 ELSE 0
          /\ \A i \in 1 .. Len(radio.fifo) - 1 : r.rest[i] = radio.fifo[1 + i]
      <4>1. 1 \in Nat /\ 1 \in 1 .. 1 /\ 1 <= Len(radio.fifo)
        BY <1>0, <2>0
      <4> QED
        BY <1>0, <4>1, ReadFifoType
    <3> QED
      BY <1>0, <2>0, <3>1
  <2>2. radio.fifo[1] = LengthUnit(RecvSize)
    <3>1. 1 \in 1 .. Len(radio.fifo) /\ Used + 1 = 1
      BY <1>0, <2>0
    <3> QED
      BY <3>1 DEF Shared, Place
  <2>3. r.data[1][1] = "len" /\ r.data[1][2] = RecvSize
    BY <2>1, <2>2 DEF LengthUnit
  <2>4. f = [size |-> RecvSize, fifo |-> r.rest]
    BY <1>1, <2>0, <2>3 DEF FifoWithSize
  <2> HIDE DEF r
  <2>5. f.size = RecvSize /\ f.fifo = r.rest
    BY <2>4
  <2>6. ASSUME NEW i \in 1 .. Len(f.fifo) PROVE f.fifo[i] = << "data", Current, handler.nb + i >>
    <3>1. i \in 1 .. Len(radio.fifo) - 1 /\ 1 + i \in 1 .. Len(radio.fifo) /\ 1 + i # 1 /\ 1 + i - 1 = i
      BY <1>0, <2>1, <2>5
    <3>2. radio.fifo[1 + i] = Place(Current, 1 + i)
      BY <2>0, <3>1 DEF Shared
    <3>3. Place(Current, 1 + i) = << "data", Current, i >>
      BY <3>1 DEF Place
    <3>4. f.fifo[i] = << "data", Current, i >>
      BY <2>1, <2>5, <3>1, <3>2, <3>3
    <3>5. handler.nb + i = i
      BY <2>0
    <3> QED
      BY <3>4, <3>5
  <2> QED
    BY <1>0, <2>0, <2>1, <2>5, <2>6
<1>2. CASE handler.size # 0
  <2>1. handler.size = RecvSize /\ Used = 1 + handler.nb /\ f = [size |-> RecvSize, fifo |-> radio.fifo]
    BY <1>2 DEF Shared, Used, FifoWithSize
  <2>2. f.size = RecvSize /\ f.fifo = radio.fifo
    BY <2>1
  <2>3. ASSUME NEW i \in 1 .. Len(f.fifo) PROVE f.fifo[i] = << "data", Current, handler.nb + i >>
    <3> DEFINE j == 1 + handler.nb + i
    <3>1. radio.fifo[i] = Place(Current, j)
      BY <2>1, <2>2 DEF Shared
    <3>2. j # 1 /\ j - 1 = handler.nb + i
      BY <1>0
    <3> HIDE DEF j
    <3>3. Place(Current, j) = << "data", Current, handler.nb + i >>
      BY <3>2 DEF Place
    <3> QED
      BY <2>2, <3>1, <3>3
  <2>4. 1 + handler.nb + Len(radio.fifo) = Arrived
    BY <2>1 DEF Shared
  <2>5. handler.nb + Len(f.fifo) + 1 = Arrived /\ Len(radio.fifo) <= Len(f.fifo) + 1
    <3>1. Len(f.fifo) = Len(radio.fifo) /\ 1 + handler.nb + Len(radio.fifo) = Arrived
      BY <2>2, <2>4
    <3> HIDE DEF Arrived
    <3> QED
      BY <1>0, <3>1
  <2> QED
    BY <1>0, <2>2, <2>3, <2>5
<1> QED
  BY <1>1, <1>2

\* The first units of a packet are in the buffer, the next ones in the FIFO.
Taken(buf, nb, k) == \A i \in 1 .. nb : buf[i] = << "data", k, i >>
Follows(fifo, nb, k) == \A i \in 1 .. Len(fifo) : fifo[i] = << "data", k, nb + i >>

\* Reading n more units of the packet: the buffer holds them behind the others.
LEMMA ReadOn ==
    ASSUME NEW buf \in [1 .. RecvSize -> Unit], NEW fifo \in Seq(Unit), NEW k \in Nat, NEW nb \in Nat,
           NEW n \in Nat, n <= Len(fifo), nb + n <= RecvSize, Taken(buf, nb, k), Follows(fifo, nb, k)
    PROVE  /\ Taken(Written(buf, nb, ReadFifo(fifo, n).data), nb + n, k)
           /\ Len(ReadFifo(fifo, n).rest) = Len(fifo) - n
           /\ Follows(ReadFifo(fifo, n).rest, nb + n, k)
<1> DEFINE r == ReadFifo(fifo, n)
           w == Written(buf, nb, r.data)
<1>0. RecvSize \in Nat /\ Len(fifo) \in Nat
  BY Sx1276Assumption
<1>1. /\ r.data \in Seq(Unit) /\ Len(r.data) = n /\ \A i \in 1 .. n : i <= Len(fifo) => r.data[i] = fifo[i]
      /\ r.rest \in Seq(Unit) /\ Len(r.rest) = Len(fifo) - n
      /\ \A i \in 1 .. Len(fifo) - n : r.rest[i] = fifo[n + i]
  BY ReadFifoType
<1> HIDE DEF r
<1>2. \A i \in 1 .. RecvSize : w[i] = IF nb < i /\ i <= nb + n THEN r.data[i - nb] ELSE buf[i]
  <2>1. \A i \in 1 .. RecvSize :
          w[i] = IF nb < i /\ i <= nb + Len(r.data) THEN r.data[i - nb] ELSE buf[i]
    BY <1>1, WrittenType
  <2> HIDE DEF w
  <2> QED
    BY <1>1, <2>1
<1> HIDE DEF w
<1>3. ASSUME NEW i \in 1 .. nb + n PROVE w[i] = << "data", k, i >>
  <2>0. i \in 1 .. RecvSize /\ i \in Nat
    BY <1>0
  <2>1. CASE i <= nb
    <3>1. i \in 1 .. nb /\ ~(nb < i)
      BY <2>1
    <3> QED
      BY <1>2, <2>0, <3>1 DEF Taken
  <2>2. CASE nb < i
    <3>1. i - nb \in 1 .. n /\ i - nb <= Len(fifo) /\ i - nb \in 1 .. Len(fifo) /\ nb + (i - nb) = i
      BY <1>0, <2>0, <2>2
    <3>2. r.data[i - nb] = << "data", k, nb + (i - nb) >>
      BY <1>1, <3>1 DEF Follows
    <3> QED
      BY <1>2, <2>0, <2>2, <3>1, <3>2
  <2> QED
    BY <2>0, <2>1, <2>2
<1>4. ASSUME NEW i \in 1 .. Len(fifo) - n PROVE r.rest[i] = << "data", k, nb + n + i >>
  <2>1. n + i \in 1 .. Len(fifo) /\ nb + (n + i) = nb + n + i
    BY <1>0
  <2>2. fifo[n + i] = << "data", k, nb + (n + i) >>
    BY <2>1 DEF Follows
  <2> QED
    BY <1>1, <2>1, <2>2
<1> QED
  BY <1>1, <1>3, <1>4 DEF r, w, Taken, Follows

\* A buffer that holds all the units of a packet is that packet.
LEMMA WholeBuffer ==
    ASSUME NEW buf \in [1 .. RecvSize -> Unit], NEW k \in Nat,
           \A i \in 1 .. RecvSize : buf[i] = << "data", k, i >>
    PROVE  buf = Packet(k, RecvSize)
BY DEF Packet


\* onDio0Irq has read what was left of the packet.
LEMMA KeepsPacket ==
    ASSUME Control, Receiving, ~cfg.cont, pc \in Running, GoodPacket
    PROVE  Complete' /\ handler'.size = RecvSize /\ (~fsk => radio' = radio)
<1>0. /\ TypesOK /\ isr = "read_packet" /\ state = "RX_RUNNING" /\ state' = "IDLE"
      /\ UNCHANGED << cfg, air >> /\ (radio.crcOk \/ (fsk /\ ~cfg.crcOn))
  BY DEF GoodPacket, Control, Receiving, IdleUnlessContinuous
<1>1. /\ handler \in Handling /\ handler.nb \in Nat /\ radio \in Chip /\ radio.fifo \in Seq(Unit)
      /\ rx \in Received /\ rx.buf \in [1 .. RecvSize -> Unit] /\ air.n \in Nat
      /\ RecvSize \in Nat /\ RecvSize > 0 /\ Len(radio.fifo) \in Nat
  BY <1>0, Fields
<1>2. \A r : Restarted(r) = r
  BY DEF Restarted
<1>3. ~radio.ready /\ Checked
  BY <1>0 DEF Receiving, Shared, Captured
<1> DEFINE files == IF fsk THEN FifoWithSize(handler) ELSE {[size |-> RecvSize, fifo |-> radio.fifo]}
           from == IF fsk THEN handler.nb ELSE 0
<1>4. PICK f \in files :
        LET r == ReadFifo(f.fifo, f.size - from)
        IN /\ rx' = [rx EXCEPT !.buf = Written(@, from, r.data)]
           /\ handler' = IF fsk THEN [handler EXCEPT !.nb = f.size, !.size = f.size]
                         ELSE [handler EXCEPT !.size = f.size]
           /\ radio' = Restarted([radio EXCEPT !.fifo = IF fsk THEN r.rest ELSE @])
  BY DEF GoodPacket
<1>5. /\ f.size = RecvSize /\ f.fifo \in Seq(Unit) /\ from \in Nat /\ from <= RecvSize
      /\ Len(f.fifo) = RecvSize - from
      /\ \A i \in 1 .. Len(f.fifo) : f.fifo[i] = << "data", air.n, from + i >>
      /\ \A i \in 1 .. from : rx.buf[i] = << "data", air.n, i >>
  <2>1. CASE fsk
    <3>1. Shared /\ Current = air.n /\ Arrived = RecvSize + 1
      BY <1>0, <1>3, <2>1 DEF Receiving, Current, Arrived
    <3>2. Len(radio.fifo) > 0 \/ handler.size # 0
      BY <1>1, <3>1 DEF Shared, Used
    <3>3. f \in FifoWithSize(handler) /\ from = handler.nb
      BY <2>1
    <3>4. /\ f.size = RecvSize /\ f.fifo \in Seq(Unit)
          /\ handler.nb + Len(f.fifo) + 1 = Arrived
          /\ \A i \in 1 .. Len(f.fifo) : f.fifo[i] = << "data", Current, handler.nb + i >>
      BY <1>0, <3>1, <3>2, <3>3, SizeRead
    <3>5. \A i \in 1 .. handler.nb : rx.buf[i] = << "data", Current, i >>
      BY <3>1 DEF Shared
    <3>6. Len(f.fifo) \in Nat
      BY <3>4
    <3>7. handler.nb <= RecvSize /\ Len(f.fifo) = RecvSize - handler.nb
      <4>1. handler.nb + Len(f.fifo) + 1 = RecvSize + 1 /\ handler.nb \in Nat /\ RecvSize \in Nat
        BY <1>1, <3>1, <3>4
      <4> QED
        BY <3>6, <4>1
    <3> HIDE DEF from
    <3> QED
      BY <1>1, <3>1, <3>3, <3>4, <3>5, <3>7
  <2>2. CASE ~fsk
    <3>1. f = [size |-> RecvSize, fifo |-> radio.fifo] /\ from = 0
      BY <2>2
    <3>2. f.size = RecvSize /\ f.fifo = Packet(air.n, RecvSize)
      BY <1>0, <2>2, <3>1 DEF Receiving, Captured
    <3>3. /\ f.fifo \in Seq(Unit) /\ Len(f.fifo) = RecvSize
          /\ \A i \in 1 .. RecvSize : f.fifo[i] = << "data", air.n, i >>
      BY <1>1, <3>2, PacketType
    <3>4. \A i \in 1 .. RecvSize : 0 + i = i
      OBVIOUS
    <3> HIDE DEF from
    <3> QED
      BY <1>1, <3>1, <3>2, <3>3, <3>4
  <2> QED
    BY <2>1, <2>2
<1> HIDE DEF from, files
<1> DEFINE n == RecvSize - from
           r == ReadFifo(f.fifo, n)
           w == Written(rx.buf, from, r.data)
<1>6. n \in Nat /\ n <= Len(f.fifo) /\ from + n = RecvSize
  BY <1>1, <1>5
<1>7. \A i \in 1 .. RecvSize : w[i] = << "data", air.n, i >>
  <2>1. Taken(rx.buf, from, air.n) /\ Follows(f.fifo, from, air.n)
    BY <1>5 DEF Taken, Follows
  <2>2. Taken(Written(rx.buf, from, ReadFifo(f.fifo, n).data), from + n, air.n)
    <3> HIDE DEF n, r
    <3>1. /\ rx.buf \in [1 .. RecvSize -> Unit] /\ f.fifo \in Seq(Unit) /\ air.n \in Nat /\ from \in Nat
          /\ n \in Nat /\ n <= Len(f.fifo) /\ from + n <= RecvSize
      BY <1>1, <1>5, <1>6
    <3> QED
      BY <2>1, <3>1, ReadOn
  <2> QED
    BY <1>6, <2>2 DEF Taken
<1>8. w \in [1 .. RecvSize -> Unit]
  <2> HIDE DEF n
  <2>1. r.data \in Seq(Unit)
    BY <1>5, <1>6, ReadFifoType
  <2> HIDE DEF r
  <2> QED
    BY <1>1, <1>5, <2>1, WrittenType
<1>9. rx' = [rx EXCEPT !.buf = w] /\ handler'.size = RecvSize
      /\ radio' = [radio EXCEPT !.fifo = IF fsk THEN r.rest ELSE @]
  BY <1>1, <1>2, <1>4, <1>5 DEF Received, Handling
<1> HIDE DEF n, r, w
<1>10. w = Packet(air.n, RecvSize)
  BY <1>1, <1>7, <1>8, WholeBuffer
<1>11. rx'.buf = Packet(air.n, RecvSize) /\ radio'.ready = radio.ready /\ (~fsk => radio' = radio)
  BY <1>1, <1>9, <1>10 DEF Received, Chip
<1>12. air.n >= 1 /\ (cfg.crcOn => air.n \in air.good)
  BY <1>0, <1>3 DEF Checked
<1> QED
  BY <1>0, <1>3, <1>9, <1>11, <1>12 DEF Complete

\* onDio1Irq has read a piece of the packet.
LEMMA ReadsPiece ==
    ASSUME Control, Shared, ReadChunk PROVE Shared'
<1>0. TypesOK /\ isr = "read_chunk" /\ UNCHANGED << pend, air >> /\ isr' = NoHandler /\ fsk
  BY DEF ReadChunk, Control, TypesOK
<1>1. /\ handler \in Handling /\ handler.nb \in Nat /\ radio \in Chip /\ radio.fifo \in Seq(Unit)
      /\ rx \in Received /\ rx.buf \in [1 .. RecvSize -> Unit] /\ air.n \in Nat
      /\ RecvSize \in Nat /\ RecvSize > 0 /\ Len(radio.fifo) \in Nat /\ FifoThresh \in Nat /\ FifoThresh > 0
      /\ Current \in Nat /\ radio.got \in 0 .. RecvSize
  BY <1>0, Fields
<1>2. PICK f \in FifoWithSize(handler) :
        LET n == Chunk(f.size - handler.nb, FifoThresh)
            r == ReadFifo(f.fifo, n)
        IN /\ rx' = [rx EXCEPT !.buf = Written(@, handler.nb, r.data)]
           /\ handler' = [handler EXCEPT !.nb = @ + n, !.size = f.size]
           /\ radio' = [radio EXCEPT !.fifo = r.rest]
  BY DEF ReadChunk
<1>3. Len(radio.fifo) > FifoThresh /\ 1 \notin pend
  BY <1>0 DEF Shared
<1>4. /\ f.size = RecvSize /\ f.fifo \in Seq(Unit)
      /\ handler.nb + Len(f.fifo) + 1 = Arrived
      /\ \A i \in 1 .. Len(f.fifo) : f.fifo[i] = << "data", Current, handler.nb + i >>
      /\ Len(radio.fifo) <= Len(f.fifo) + 1 /\ Len(f.fifo) \in Nat
  <2>1. Len(radio.fifo) > 0
    BY <1>1, <1>3
  <2> QED
    BY <1>0, <2>1, SizeRead
<1>5. Arrived <= RecvSize + 1
  BY <1>1 DEF Arrived
<1> DEFINE n == Chunk(RecvSize - handler.nb, FifoThresh)
           r == ReadFifo(f.fifo, n)
           w == Written(rx.buf, handler.nb, r.data)
           x == handler.nb + n
<1>6. n \in Nat /\ n <= Len(f.fifo) /\ x <= RecvSize /\ x \in Nat
  <2>1. RecvSize - handler.nb \in Nat
    BY <1>1, <1>4, <1>5
  <2>2. n \in Nat /\ n <= RecvSize - handler.nb /\ n <= FifoThresh
    BY <1>1, <2>1, ChunkType
  <2> HIDE DEF n
  <2>3. handler.nb \in Nat /\ RecvSize \in Nat /\ FifoThresh \in Nat /\ Len(radio.fifo) \in Nat
    BY <1>1
  <2>4. FifoThresh < Len(radio.fifo) /\ Len(radio.fifo) <= Len(f.fifo) + 1 /\ Len(f.fifo) \in Nat
    BY <1>3, <1>4, <2>3
  <2> QED
    BY <2>2, <2>3, <2>4
<1>7. rx' = [rx EXCEPT !.buf = w] /\ radio' = [radio EXCEPT !.fifo = r.rest]
      /\ handler' = [handler EXCEPT !.nb = x, !.size = RecvSize]
  BY <1>1, <1>2, <1>4 DEF Received, Handling
<1> HIDE DEF n
<1>8. /\ Taken(Written(rx.buf, handler.nb, ReadFifo(f.fifo, n).data), handler.nb + n, Current)
      /\ Len(ReadFifo(f.fifo, n).rest) = Len(f.fifo) - n
      /\ Follows(ReadFifo(f.fifo, n).rest, handler.nb + n, Current)
  <2>1. Taken(rx.buf, handler.nb, Current) /\ Follows(f.fifo, handler.nb, Current)
    BY <1>4 DEF Shared, Taken, Follows
  <2>2. handler.nb + n <= RecvSize
    BY <1>6
  <2> HIDE DEF r, x, w
  <2>3. /\ rx.buf \in [1 .. RecvSize -> Unit] /\ f.fifo \in Seq(Unit) /\ Current \in Nat
        /\ handler.nb \in Nat /\ n \in Nat /\ n <= Len(f.fifo)
    BY <1>1, <1>4, <1>6
  <2> QED
    BY <2>1, <2>2, <2>3, ReadOn
<1>9. /\ \A i \in 1 .. x : w[i] = << "data", Current, i >>
      /\ Len(r.rest) = Len(f.fifo) - n
      /\ \A i \in 1 .. Len(r.rest) : r.rest[i] = << "data", Current, x + i >>
  BY <1>8 DEF Taken, Follows
<1> HIDE DEF r, w
<1>10. rx'.buf = w /\ radio'.fifo = r.rest /\ radio'.ready = radio.ready /\ radio'.got = radio.got
       /\ radio'.crcOk = radio.crcOk /\ handler'.nb = x /\ handler'.size = RecvSize
  BY <1>1, <1>7 DEF Received, Chip, Handling
<1>11. Current' = Current /\ Arrived' = Arrived /\ Used' = 1 + x /\ Checked' = Checked
  BY <1>0, <1>1, <1>10 DEF Current, Arrived, Used, Checked
<1>12. Used' + Len(r.rest) = Arrived
  <2>1. /\ Len(r.rest) = Len(f.fifo) - n /\ Used' = 1 + (handler.nb + n)
        /\ handler.nb + Len(f.fifo) + 1 = Arrived
    BY <1>4, <1>9, <1>11
  <2>2. handler.nb \in Nat /\ n \in Nat /\ Len(f.fifo) \in Nat
    BY <1>1, <1>4, <1>6
  <2> QED
    BY <2>1, <2>2
<1>13. ASSUME NEW i \in 1 .. Len(r.rest) PROVE r.rest[i] = Place(Current, 1 + x + i)
  <2> DEFINE j == 1 + x + i
  <2>1. j # 1 /\ j - 1 = x + i
    BY <1>6
  <2> HIDE DEF j, x
  <2>2. Place(Current, j) = << "data", Current, x + i >>
    BY <2>1 DEF Place
  <2> QED
    BY <1>9, <2>2 DEF j
<1>14. (0 \in pend => ~radio.ready) /\ (~radio.ready => Checked)
  BY DEF Shared
<1> HIDE DEF x
<1>15. \A i \in 1 .. Len(r.rest) : r.rest[i] = Place(Current, Used' + i)
  BY <1>11, <1>13
<1> QED
  BY <1>0, <1>1, <1>3, <1>9, <1>10, <1>11, <1>12, <1>14, <1>15 DEF Shared, NoHandler

\* The next unit of the packet arrives, in FSK.
LEMMA TakesIn ==
    ASSUME Control, fsk, Shared, ClockIn PROVE Shared' /\ isr # "read_packet" /\ 0 \notin pend
<1>0. TypesOK /\ radio.ready /\ UNCHANGED << cfg, handler, rx, isr >>
  BY DEF ClockIn, Control
<1>1. /\ handler.nb \in Nat /\ radio \in Chip /\ radio.fifo \in Seq(Unit)
      /\ rx.buf \in [1 .. RecvSize -> Unit] /\ air.n \in Nat /\ air \in [n : Nat, good : SUBSET Nat]
      /\ RecvSize \in Nat /\ RecvSize > 0 /\ Len(radio.fifo) \in Nat /\ FifoThresh \in Nat
      /\ Used \in Nat /\ radio.got \in 0 .. RecvSize
  BY <1>0, Fields
<1> DEFINE k == air.n + 1
           u == IF radio.got = 0 THEN LengthUnit(RecvSize) ELSE Packet(k, RecvSize)[radio.got]
           fifo == radio.fifo \o << u >>
           last == radio.got = RecvSize
           L == Len(radio.fifo)
<1>2. PICK crcOk \in BOOLEAN : Arrives(crcOk, << u >>)
  BY DEF ClockIn
<1>3. u = Place(k, radio.got + 1) /\ u \in Unit
  <2>0. k \in Nat /\ radio.got + 1 - 1 = radio.got
    BY <1>1
  <2>1. /\ LengthUnit(RecvSize) \in Unit
        /\ \A i \in 1 .. RecvSize : Packet(k, RecvSize)[i] = << "data", k, i >> /\ << "data", k, i >> \in Unit
    <3>1. \A i \in 1 .. RecvSize : << "data", k, i >> \in Unit
      BY <2>0 DEF Unit
    <3> HIDE DEF k
    <3> QED
      BY <1>1, <2>0, <3>1, PacketType
  <2> HIDE DEF k
  <2>2. CASE radio.got = 0
    BY <2>1, <2>2 DEF Place
  <2>3. CASE radio.got # 0
    <3>1. radio.got \in 1 .. RecvSize /\ radio.got + 1 # 1
      BY <1>1, <2>3
    <3>2. u = << "data", k, radio.got >> /\ u \in Unit
      BY <2>1, <2>3, <3>1
    <3> HIDE DEF u
    <3>3. Place(k, radio.got + 1) = << "data", k, radio.got + 1 - 1 >>
      BY <3>1 DEF Place
    <3> QED
      BY <2>0, <3>2, <3>3
  <2> QED
    BY <2>2, <2>3
<1> HIDE DEF u
<1>4. /\ fifo \in Seq(Unit) /\ Len(fifo) = L + 1 /\ fifo[L + 1] = u
      /\ \A i \in 1 .. L : fifo[i] = radio.fifo[i]
  <2>1. << u >> \in Seq(Unit) /\ Len(<< u >>) = 1 /\ << u >>[1] = u
    BY <1>3
  <2> DEFINE v == << u >>
  <2> HIDE DEF v
  <2>2. /\ radio.fifo \o v \in Seq(Unit) /\ Len(radio.fifo \o v) = Len(radio.fifo) + Len(v)
        /\ \A i \in 1 .. Len(radio.fifo) + Len(v) :
             (radio.fifo \o v)[i] = IF i <= Len(radio.fifo) THEN radio.fifo[i] ELSE v[i - Len(radio.fifo)]
    BY <1>1, <2>1, ConcatProperties DEF v
  <2> DEFINE q == radio.fifo \o v
  <2> HIDE DEF q
  <2>3. q \in Seq(Unit) /\ Len(q) = L + 1
    BY <2>1, <2>2 DEF q, v
  <2>4. q[L + 1] = u
    <3>1. L + 1 \in 1 .. L + 1 /\ ~(L + 1 <= L) /\ L + 1 - L = 1
      BY <1>1
    <3> QED
      BY <2>1, <2>2, <3>1 DEF q, v
  <2>5. \A i \in 1 .. L : q[i] = radio.fifo[i]
    <3>1. \A i \in 1 .. L : i \in 1 .. L + 1 /\ i <= L
      BY <1>1
    <3> QED
      BY <2>1, <2>2, <3>1 DEF q, v
  <2> QED
    BY <2>3, <2>4, <2>5 DEF q, v
<1>5. /\ radio'.fifo = fifo /\ radio'.ready = ~last
      /\ radio'.got = (IF last THEN 0 ELSE radio.got + 1)
      /\ radio'.crcOk = (IF last THEN crcOk ELSE radio.crcOk)
      /\ pend' = pend \cup LevelEdge(radio.fifo, fifo) \cup (IF last THEN {0} ELSE {})
      /\ air' = IF ~last THEN air
                ELSE [n |-> air.n + 1, good |-> IF crcOk THEN air.good \cup {air.n + 1} ELSE air.good]
  BY <1>1, <1>2 DEF Arrives, Chip
<1> HIDE DEF fifo
<1>6. Current = k /\ Arrived = radio.got /\ Used + L = radio.got
  BY <1>0 DEF Current, Arrived, Shared
<1>7. Current' = k /\ Arrived' = radio.got + 1 /\ Used' = Used
  BY <1>0, <1>1, <1>5 DEF Current, Arrived, Used
<1>8. isr # "read_packet" /\ 0 \notin pend
  BY <1>0 DEF Shared
<1>9. ~radio'.ready => Checked' /\ 0 \in pend'
  <2> SUFFICES ASSUME last PROVE Checked' /\ 0 \in pend'
    BY <1>5
  <2>1. air'.n = air.n + 1 /\ radio'.crcOk = crcOk /\ (crcOk => air.n + 1 \in air'.good)
    BY <1>5
  <2> QED
    BY <1>1, <1>5, <2>1 DEF Checked
<1>10. \A i \in 1 .. L + 1 : fifo[i] = Place(k, Used + i)
  <2> SUFFICES ASSUME NEW i \in 1 .. L + 1 PROVE fifo[i] = Place(k, Used + i)
    OBVIOUS
  <2>1. CASE i = L + 1
    <3>1. Used + i = radio.got + 1
      BY <1>1, <1>6, <2>1
    <3> QED
      BY <1>3, <1>4, <2>1, <3>1
  <2>2. CASE i # L + 1
    <3>1. i \in 1 .. L
      BY <1>1, <2>2
    <3> QED
      BY <1>4, <1>6, <3>1 DEF Shared
  <2> QED
    BY <2>1, <2>2
<1>11. /\ 1 \in pend' => L + 1 > FifoThresh
       /\ isr = "read_chunk" => L + 1 > FifoThresh /\ 1 \notin pend'
  <2>1. 1 \in LevelEdge(radio.fifo, fifo) => L <= FifoThresh /\ L + 1 > FifoThresh
    BY <1>4 DEF LevelEdge
  <2>2. (1 \in pend \/ isr = "read_chunk" => L > FifoThresh) /\ (isr = "read_chunk" => 1 \notin pend)
    BY DEF Shared
  <2>3. 1 \in pend' => 1 \in pend \/ 1 \in LevelEdge(radio.fifo, fifo)
    BY <1>5
  <2> HIDE DEF last
  <2> QED
    BY <1>1, <2>1, <2>2, <2>3
<1>12. 0 \in pend' => ~radio'.ready
  <2>1. 0 \notin LevelEdge(radio.fifo, fifo)
    BY DEF LevelEdge
  <2> QED
    BY <1>5, <1>8, <2>1
<1>13. /\ handler.size \in {0, RecvSize} /\ (handler.size = 0 => handler.nb = 0)
       /\ \A i \in 1 .. handler.nb : rx.buf[i] = << "data", k, i >>
  BY <1>6 DEF Shared
<1>14. Used' + Len(radio'.fifo) = Arrived'
  <2>1. Used' = Used /\ Len(radio'.fifo) = L + 1 /\ Arrived' = radio.got + 1 /\ Used + L = radio.got
    BY <1>4, <1>5, <1>6, <1>7
  <2>2. Used \in Nat /\ L \in Nat /\ radio.got \in Nat
    BY <1>1
  <2> HIDE DEF L
  <2> QED
    BY <2>1, <2>2
<1>15. Shared'
  <2> HIDE DEF k, last
  <2>1. \A i \in 1 .. Len(radio'.fifo) : radio'.fifo[i] = Place(Current', Used' + i)
    BY <1>4, <1>5, <1>7, <1>10
  <2>2. Len(radio'.fifo) = L + 1
    BY <1>4, <1>5
  <2> HIDE DEF L
  <2> QED
    BY <1>0, <1>7, <1>8, <1>9, <1>11, <1>12, <1>13, <1>14, <2>1, <2>2 DEF Shared
<1> QED
  BY <1>8, <1>15


LEMMA FreshStep ==
    ASSUME Control, call.op = "rx" => Fresh, [Next]_vars, call'.op = "rx" PROVE Fresh'
<1>1. CASE UNCHANGED vars
  BY <1>1 DEF vars, Fresh, fsk
<1>2. CASE (\E size \in SendSizes : send(size)) \/ setRx
  <2>1. setRx
    <3>1. ASSUME NEW size \in SendSizes, send(size) PROVE call'.op = "tx"
      BY <3>1 DEF send, Starts
    <3> QED
      BY <1>2, <3>1
  <2>2. fsk => handler' = [handler EXCEPT !.nb = 0, !.size = 0]
    BY <2>1 DEF setRx
  <2> QED
    BY <2>1, <2>2 DEF setRx, Fresh, fsk, Control, TypesOK, Shapes, Handling
<1>3. CASE Caller
  <2>1. UNCHANGED << cfg, call, handler >> /\ (pc' \in Preparing => pc \in Preparing)
    BY <1>3 DEF Caller, SetState, SetEvent, SetMode, EventSeen, TimeUp, TimeOut, Return,
       getRxBufferStr, SleepMode, SleepState, Preparing
  <2> QED
    BY <2>1 DEF Fresh, fsk
<1>4. CASE Handlers
  <2>1. pc' = pc /\ call' = call /\ cfg' = cfg
    BY <1>4 DEF Handlers, HandlerStarts, BadPacket, GoodPacket, PacketEnds, OperationEnds, PostEvent,
       ReadChunk, WriteChunk
  <2>2. pc \in Preparing => NothingPends
    BY <2>1 DEF Control, HandlerInv
  <2>3. NothingPends => FALSE
    BY <1>4 DEF NothingPends, NoHandler, Handlers, HandlerStarts, BadPacket, GoodPacket, PacketEnds,
       OperationEnds, PostEvent, ReadChunk, WriteChunk
  <2> QED
    BY <2>1, <2>2, <2>3 DEF Fresh
<1>5. CASE ClockOut \/ ClockIn \/ GivesUp
  BY <1>5 DEF ClockOut, ClockIn, GivesUp, Fresh, fsk
<1> QED
  BY <1>1, <1>2, <1>3, <1>4, <1>5 DEF Next

LEMMA CallerReceives ==
    ASSUME Control, EventInv, Fresh, Receiving, call.op = "rx", ~cfg.cont, Caller PROVE Receiving'
<1>0. TypesOK /\ UNCHANGED << cfg, call, handler, rx, isr, pend, air >>
  BY DEF Control, Caller, SetState, SetEvent, SetMode, EventSeen, TimeUp, TimeOut, Return,
     getRxBufferStr, SleepMode, SleepState
<1>1. CASE SetState \/ SetEvent \/ SleepMode \/ SleepState
  BY <1>1 DEF SetState, SetEvent, SleepMode, SleepState, Receiving, Running
<1>2. CASE SetMode
  <2>1. NothingPends /\ (fsk => handler.size = 0 /\ handler.nb = 0) /\ event = "EXEC"
    BY <1>2 DEF SetMode, Control, HandlerInv, Fresh, EventInv, Preparing
  <2>2. radio' = Entered(RxMode) /\ pc' = "wait" /\ event' = event
    BY <1>2 DEF SetMode, setOpMode, Control, ModeInv, Preparing, RxMode
  <2>3. radio'.fifo = << >> /\ radio'.ready /\ radio'.got = 0
    BY <1>0, <2>2, EnteredMode, Fields DEF RxMode
  <2>4. fsk => Shared'
    <3> SUFFICES ASSUME fsk PROVE Shared'
      OBVIOUS
    <3>1. handler'.size = 0 /\ handler'.nb = 0 /\ Used' = 0 /\ Arrived' = 0 /\ Len(radio'.fifo) = 0
      BY <1>0, <2>1, <2>3 DEF Used, Arrived
    <3> QED
      BY <1>0, <2>1, <2>3, <3>1 DEF Shared, NothingPends, NoHandler
  <2> QED
    BY <1>0, <2>1, <2>2, <2>4 DEF Receiving, NothingPends, NoHandler, fsk
<1>3. CASE EventSeen \/ TimeUp \/ TimeOut \/ Return \/ getRxBufferStr
  <2>1. /\ UNCHANGED << state, radio >> /\ pc \in Running /\ pc # "asleep"
        /\ event' = "DONE" => event = "DONE"
        /\ pc' = "retrieve" => event' = "DONE"
    BY <1>3 DEF EventSeen, TimeUp, TimeOut, Return, getRxBufferStr, Running
  <2>2. /\ Shared' = Shared /\ Captured' = Captured /\ Complete' = Complete /\ Delivered' = Delivered
    BY <1>0, <2>1 DEF Shared, Captured, Complete, Delivered, Current, Arrived, Used, Checked
  <2> QED
    BY <1>0, <2>1, <2>2 DEF Receiving, fsk
<1> QED
  BY <1>1, <1>2, <1>3 DEF Caller

LEMMA HandlersReceive ==
    ASSUME Control, Receiving, call.op = "rx", ~cfg.cont, Handlers PROVE Receiving'
<1>0. TypesOK /\ UNCHANGED << cfg, pc, call, air >>
  BY DEF Control, Handlers, HandlerStarts, BadPacket, GoodPacket, PacketEnds, OperationEnds, PostEvent,
     ReadChunk, WriteChunk
<1> SUFFICES ASSUME pc \in Running PROVE Receiving'
  BY <1>0 DEF Receiving
<1>1. isr \in {NoHandler} \cup RxPlaces /\ state \in {"IDLE", "RX_RUNNING"}
  BY DEF Control, HandlerInv, StateInv, RunningState
<1>2. \A r : Restarted(r) = r
  BY DEF Restarted
<1>3. CASE \E pin \in {0, 1} : HandlerStarts(pin)
  <2>1. PICK pin \in {0, 1} : HandlerStarts(pin)
    BY <1>3
  <2>2. /\ isr = NoHandler /\ pin \in pend /\ pend' = pend \ {pin} /\ isr' = Branch(pin)
        /\ UNCHANGED << state, event, handler, rx, radio >>
    BY <2>1 DEF HandlerStarts
  <2>3. /\ state = "IDLE" => Branch(pin) = NoHandler
        /\ state = "RX_RUNNING" => Branch(pin) \in {"read_packet", "read_chunk", "rx_timeout"}
        /\ Branch(pin) = "read_packet" => pin = 0
        /\ Branch(pin) = "read_chunk" => pin = 1 /\ fsk
    BY DEF Branch, NoHandler
  <2>4. Current' = Current /\ Arrived' = Arrived /\ Used' = Used /\ Checked' = Checked
    BY <1>0, <2>2 DEF Current, Arrived, Used, Checked
  <2>5. Shared => Shared'
    BY <2>2, <2>3, <2>4 DEF Shared, NoHandler
  <2>6. Captured' = Captured /\ Complete' = Complete
    BY <1>0, <2>2, <2>4 DEF Captured, Complete
  <2>7. event = "DONE" /\ pc # "asleep" => Delivered /\ Delivered'
    BY <2>2, <2>3, <2>6 DEF Receiving, Delivered, Complete
  <2> QED
    BY <1>0, <1>1, <2>2, <2>3, <2>5, <2>6, <2>7 DEF Receiving, fsk, NoHandler
<1>4. CASE BadPacket
  <2>1. /\ isr = "read_packet" /\ isr' = "error" /\ state' = "IDLE" /\ radio' = radio
        /\ UNCHANGED << event, handler, rx, pend >>
    BY <1>2, <1>4 DEF BadPacket, IdleUnlessContinuous
  <2>2. Captured' = Captured
    BY <1>0, <2>1 DEF Captured, Checked
  <2>3. ~(pc # "asleep" /\ event = "DONE") /\ pc # "retrieve"
    BY <2>1 DEF Receiving, Delivered, NoHandler
  <2> QED
    BY <1>0, <2>1, <2>2, <2>3 DEF Receiving, fsk
<1>5. CASE GoodPacket
  <2>1. /\ isr = "read_packet" /\ isr' = "done" /\ state' = "IDLE" /\ UNCHANGED << event, pend >>
    BY <1>5 DEF GoodPacket, IdleUnlessContinuous
  <2>2. Complete' /\ handler'.size = RecvSize /\ (~fsk => radio' = radio)
    BY <1>5, KeepsPacket
  <2>3. ~fsk => Captured' = Captured
    BY <1>0, <2>2 DEF Captured, Checked
  <2>4. ~(pc # "asleep" /\ event = "DONE") /\ pc # "retrieve"
    BY <2>1 DEF Receiving, Delivered, NoHandler
  <2> QED
    BY <1>0, <2>1, <2>2, <2>3, <2>4 DEF Receiving, fsk
<1>6. CASE PacketEnds
  <2>1. /\ isr \in {"error", "done"} /\ isr' = NoHandler /\ UNCHANGED << state, pend, radio >>
        /\ rx' = (IF isr = "done" THEN [rx EXCEPT !.len = handler.size] ELSE rx)
        /\ event' = IF isr = "done" THEN "DONE" ELSE "ERROR"
    BY <1>6 DEF PacketEnds
  <2>2. state = "IDLE"
    BY <2>1 DEF Receiving, Complete
  <2>3. isr = "done" => Delivered'
    <3> SUFFICES ASSUME isr = "done" PROVE Delivered'
      OBVIOUS
    <3>1. Complete /\ handler.size = RecvSize
      BY DEF Receiving
    <3>2. rx'.buf = rx.buf /\ rx'.len = RecvSize
      BY <1>0, <2>1, <3>1, Fields DEF Received
    <3> QED
      BY <1>0, <2>1, <3>1, <3>2 DEF Delivered, Complete
  <2>4. Captured' = Captured
    BY <1>0, <2>1 DEF Captured, Checked
  <2>5. pc # "retrieve"
    BY <2>1 DEF Receiving, Delivered, NoHandler
  <2> QED
    BY <1>0, <2>1, <2>2, <2>3, <2>4, <2>5 DEF Receiving, fsk, NoHandler
<1>7. CASE OperationEnds
  <2>1. /\ isr = "rx_timeout" /\ isr' = "post_timeout" /\ state' = "IDLE"
        /\ UNCHANGED << event, handler, rx, pend, radio >>
    BY <1>1, <1>7 DEF OperationEnds, RxPlaces, NoHandler
  <2>2. Captured' = Captured
    BY <1>0, <2>1 DEF Captured, Checked
  <2>3. ~(pc # "asleep" /\ event = "DONE") /\ pc # "retrieve"
    BY <2>1 DEF Receiving, Delivered, NoHandler
  <2> QED
    BY <1>0, <2>1, <2>2, <2>3 DEF Receiving, fsk
<1>8. CASE PostEvent
  <2>1. /\ isr = "post_timeout" /\ isr' = NoHandler /\ event' = "TIMEOUT"
        /\ UNCHANGED << state, handler, rx, pend, radio >>
    BY <1>1, <1>8 DEF PostEvent, RxPlaces, NoHandler
  <2>2. Captured' = Captured
    BY <1>0, <2>1 DEF Captured, Checked
  <2>3. pc # "retrieve"
    BY <2>1 DEF Receiving, Delivered, NoHandler
  <2>4. Shared => Shared'
    BY <1>0, <2>1 DEF Shared, Current, Arrived, Used, Checked, NoHandler
  <2> QED
    BY <1>0, <2>1, <2>2, <2>3, <2>4 DEF Receiving, fsk, NoHandler
<1>9. CASE ReadChunk
  <2>1. isr = "read_chunk" /\ isr' = NoHandler /\ UNCHANGED << state, event, pend >> /\ fsk
    BY <1>0, <1>9 DEF ReadChunk, TypesOK
  <2>2. Shared'
    BY <1>9, <2>1, ReadsPiece DEF Receiving
  <2>3. ~(pc # "asleep" /\ event = "DONE") /\ pc # "retrieve"
    BY <2>1 DEF Receiving, Delivered, NoHandler
  <2> QED
    BY <1>0, <2>1, <2>2, <2>3 DEF Receiving, fsk, NoHandler
<1>10. ~WriteChunk
  BY <1>1 DEF WriteChunk, RxPlaces, NoHandler
<1> QED
  BY <1>3, <1>4, <1>5, <1>6, <1>7, <1>8, <1>9, <1>10 DEF Handlers

LEMMA RadioReceives ==
    ASSUME Control, Receiving, call.op = "rx", ~cfg.cont, ClockOut \/ ClockIn \/ GivesUp PROVE Receiving'
<1>0. TypesOK /\ UNCHANGED << cfg, pc, call, handler, rx, isr, state, event >>
  BY DEF Control, ClockOut, ClockIn, GivesUp
<1> SUFFICES ASSUME pc \in Running PROVE Receiving'
  BY <1>0 DEF Receiving
<1>1. /\ radio.mode = RxMode \/ (radio.mode = "Standby" /\ ~radio.ready)
      /\ radio \in Chip
      /\ RxMode = IF fsk THEN "Rx" ELSE "RxSingle"
      /\ radio.mode = "RxSingle" => NothingPends /\ radio.ready
  BY <1>0, Fields DEF Control, ModeInv, RxMode
<1>2. ~ClockOut
  BY <1>1 DEF ClockOut
<1>3. radio.ready => isr # "done" /\ ~(pc # "asleep" /\ event = "DONE") /\ pc # "retrieve"
  BY DEF Receiving, Complete, Delivered
<1>4. CASE GivesUp
  <2>1. NothingPends /\ radio.ready /\ ~fsk /\ pend' = pend \cup {1}
    BY <1>1, <1>4 DEF GivesUp
  <2> QED
    BY <1>0, <1>3, <2>1 DEF Receiving, NothingPends, NoHandler, fsk
<1>5. CASE ClockIn /\ fsk
  <2>1. radio.ready
    BY <1>5 DEF ClockIn
  <2>2. state = "RX_RUNNING" => Shared'
    BY <1>5, TakesIn DEF Receiving
  <2> QED
    BY <1>0, <1>3, <1>5, <2>1, <2>2 DEF Receiving, fsk
<1>6. CASE ClockIn /\ ~fsk
  <2>1. radio.ready /\ radio.mode = "RxSingle"
    BY <1>1, <1>6 DEF ClockIn
  <2>2. PICK crcOk \in BOOLEAN : Arrives(crcOk, Packet(air.n + 1, RecvSize))
    BY <1>6 DEF ClockIn
  <2>3. /\ radio'.fifo = Packet(air.n + 1, RecvSize) /\ ~radio'.ready /\ radio'.crcOk = crcOk
        /\ air'.n = air.n + 1 /\ (crcOk => air.n + 1 \in air'.good)
    BY <1>1, <1>6, <2>1, <2>2 DEF Arrives, Chip
  <2>4. air'.n >= 1
    BY <1>0, <2>3, Fields
  <2>5. Packet(air.n, RecvSize)' = Packet(air.n + 1, RecvSize)
    BY <2>3
  <2>6. Captured'
    BY <2>3, <2>4, <2>5 DEF Captured, Checked
  <2> QED
    BY <1>0, <1>3, <1>6, <2>1, <2>6 DEF Receiving, fsk
<1> QED
  BY <1>2, <1>4, <1>5, <1>6

LEMMA ReceivingStep ==
    ASSUME Control, EventInv, ~cfg.cont, call.op = "rx" => Fresh /\ Receiving, [Next]_vars, call'.op = "rx"
    PROVE  Receiving'
<1>1. CASE UNCHANGED vars
  <2>1. call.op = "rx"
    BY <1>1 DEF vars
  <2>2. /\ Shared' = Shared /\ Captured' = Captured /\ Complete' = Complete /\ Delivered' = Delivered
    BY <1>1 DEF vars, Shared, Captured, Complete, Delivered, Current, Arrived, Used, Checked
  <2> QED
    BY <1>1, <2>1, <2>2 DEF Receiving, vars, fsk
<1>2. CASE (\E size \in SendSizes : send(size)) \/ setRx
  BY <1>2 DEF send, setRx, Receiving, Running
<1>3. CASE Caller \/ Handlers \/ ClockOut \/ ClockIn \/ GivesUp
  <2>1. call' = call
    BY <1>3 DEF Caller, SetState, SetEvent, SetMode, EventSeen, TimeUp, TimeOut, Return, getRxBufferStr,
       SleepMode, SleepState, Handlers, HandlerStarts, BadPacket, GoodPacket, PacketEnds,
       OperationEnds, PostEvent, ReadChunk, WriteChunk, ClockOut, ClockIn, GivesUp
  <2> QED
    BY <1>3, <2>1, CallerReceives, HandlersReceive, RadioReceives
<1> QED
  BY <1>1, <1>2, <1>3 DEF Next

\* The packets that have arrived stay so.
LEMMA AirGrows ==
    ASSUME TypesOK, Next PROVE air.n <= air'.n /\ air'.n \in Nat /\ air.n \in Nat /\ air.good \subseteq air'.good
<1>0. air \in [n : Nat, good : SUBSET Nat] /\ air.n \in Nat
  BY Fields
<1>1. CASE ClockIn
  <2>1. air' = air \/ \E G : air.good \subseteq G /\ air' = [n |-> air.n + 1, good |-> G]
    BY <1>1 DEF ClockIn, Arrives
  <2> QED
    BY <1>0, <2>1
<1>2. CASE ~ClockIn
  <2>1. air' = air
    BY <1>2 DEF Next, send, setRx, Caller, SetState, SetEvent, SetMode, EventSeen, TimeUp, TimeOut,
       Return, getRxBufferStr, SleepMode, SleepState, Handlers, HandlerStarts, BadPacket, GoodPacket,
       PacketEnds, OperationEnds, PostEvent, ReadChunk, WriteChunk, ClockOut, GivesUp
  <2> QED
    BY <1>0, <2>1
<1> QED
  BY <1>1, <1>2

LEMMA ReceivedStep ==
    ASSUME PacketInv, [Next]_vars PROVE ReceivedWhole'
<1>1. CASE UNCHANGED vars
  BY <1>1 DEF vars, PacketInv, ReceivedWhole, Returned
<1>2. CASE Next
  <2>0. TypesOK /\ ReceivedWhole
    BY DEF PacketInv, Control
  <2>1. cfg' = cfg /\ air.n <= air'.n /\ air'.n \in Nat /\ air.n \in Nat /\ air.good \subseteq air'.good
    BY <1>2, <2>0, SettingsKept, AirGrows
  <2>2. ASSUME Returned("rx"), ~cfg.cont, copied' = copied PROVE ReceivedWhole'
    <3>1. PICK k \in 1 .. air.n : copied = Packet(k, RecvSize) /\ (cfg.crcOn => k \in air.good)
      BY <2>0, <2>2 DEF ReceivedWhole
    <3>2. k \in 1 .. air'.n /\ copied' = Packet(k, RecvSize) /\ (cfg'.crcOn => k \in air'.good)
      BY <2>1, <2>2, <3>1
    <3> QED
      BY <3>2 DEF ReceivedWhole
  <2>3. ASSUME getRxBufferStr, ~cfg.cont PROVE ReceivedWhole'
    <3>1. pc = "retrieve" /\ call.op = "rx" /\ copied' = SubSeq(rx.buf, 1, rx.len)
      BY <2>3 DEF getRxBufferStr, PacketInv, Control, StateInv
    <3>2. Delivered
      BY <2>3, <3>1 DEF PacketInv, Receiving, Running
    <3>3. Packet(air.n, RecvSize) \in Seq(Unit) /\ Len(Packet(air.n, RecvSize)) = RecvSize
      BY <2>0, <2>1, Fields, PacketType
    <3>4. copied' = Packet(air.n, RecvSize)
      <4> DEFINE p == Packet(air.n, RecvSize)
      <4>1. copied' = SubSeq(p, 1, Len(p))
        BY <3>1, <3>2, <3>3 DEF Delivered, Complete
      <4> HIDE DEF p
      <4>2. SubSeq(p, 1, Len(p)) = p
        BY <3>3, SubSeqFull DEF p
      <4> QED
        BY <4>1, <4>2 DEF p
    <3>5. air.n \in 1 .. air'.n /\ (cfg'.crcOn => air.n \in air'.good)
      BY <2>1, <3>2 DEF Delivered, Complete
    <3> QED
      BY <3>4, <3>5 DEF ReceivedWhole
  <2>4. Returned("rx")' => (Returned("rx") /\ copied' = copied) \/ getRxBufferStr
    <3>1. CASE (\E size \in SendSizes : send(size)) \/ setRx
      BY <3>1 DEF send, setRx, Starts, Returned
    <3>2. CASE Caller
      BY <3>2 DEF Caller, SetState, SetEvent, SetMode, EventSeen, TimeUp, TimeOut, Return,
         getRxBufferStr, SleepMode, SleepState, Returned
    <3>3. CASE Handlers
      BY <3>3 DEF Handlers, HandlerStarts, BadPacket, GoodPacket, PacketEnds, OperationEnds, PostEvent,
         ReadChunk, WriteChunk, Returned
    <3>4. CASE ClockOut \/ ClockIn \/ GivesUp
      BY <3>4 DEF ClockOut, ClockIn, GivesUp, Returned
    <3> QED
      BY <1>2, <3>1, <3>2, <3>3, <3>4 DEF Next
  <2>5. CASE Returned("rx")' /\ ~cfg.cont
    BY <2>2, <2>3, <2>4, <2>5
  <2>6. CASE ~(Returned("rx")' /\ ~cfg.cont)
    BY <2>1, <2>6 DEF ReceivedWhole
  <2> QED
    BY <2>5, <2>6
<1> QED
  BY <1>1, <1>2

\* What the caller copies after a single reception is one whole packet that
\* arrived, one with a good CRC where the CRC is checked, whichever pieces of it
\* the handlers of DIO1 and of DIO0 read, and whenever they came to it.
THEOREM DeliversWholePackets == Spec => []ReceivedWhole
<1>1. Init => PacketInv
  BY ControlInit DEF Init, PacketInv, EventInv, ReceivedWhole, Returned
<1>2. PacketInv /\ [Next]_vars => PacketInv'
  <2> SUFFICES ASSUME PacketInv, [Next]_vars PROVE PacketInv'
    OBVIOUS
  <2>1. cfg' = cfg
    BY SettingsKept DEF vars
  <2>2. Control' /\ EventInv' /\ ReceivedWhole'
    BY ControlStep, EventStep, ReceivedStep DEF PacketInv
  <2>3. ASSUME ~cfg.cont, call'.op = "rx" PROVE Fresh' /\ Receiving'
    BY <2>3, FreshStep, ReceivingStep DEF PacketInv
  <2> QED
    BY <2>1, <2>2, <2>3 DEF PacketInv
<1>3. PacketInv => ReceivedWhole
  BY DEF PacketInv
<1> QED
  BY <1>1, <1>2, <1>3, PTL DEF Spec
=============================================================================
