------------------------------- MODULE AciSpi -------------------------------
(***************************************************************************)
(* One SPI exchange of the nRF8001 driver, byte by byte: the function      *)
(* m_aci_spi_transfer of src/nrf8001/hal_aci_tl.cpp.  A packet lies in a   *)
(* buffer of HAL_ACI_MAX_LENGTH + 1 bytes: its length in buffer[0] and     *)
(* its bytes in buffer[1 .. length].  Bytes are told apart by their index  *)
(* only, so the state is which indexes have gone over the wire.  The names *)
(* of the specification begin with Spi, because its theorem stands beside  *)
(* those about AciTransport.                                               *)
(***************************************************************************)
EXTENDS Integers, FiniteSets

CONSTANTS HAL_ACI_MAX_LENGTH,  \* 31 in hal_aci_tl.h
          EventLength          \* the length bytes the radio may answer

ASSUME SpiAssumption ==
    HAL_ACI_MAX_LENGTH \in 1 .. 254 /\ EventLength \subseteq 0 .. 255

VARIABLES pc,             \* the next byte: "length", "opcode", "rest", "done"
          command,        \* data_to_send->buffer[0]
          event,          \* the length the radio announces
          byte_sent_cnt,  \* index of the next byte of data_to_send
          byte_cnt,       \* index where the next received byte goes
          max_bytes,
          sent, received  \* the indexes that were clocked out and in

spiVars == << pc, command, event, byte_sent_cnt, byte_cnt, max_bytes, sent, received >>

\* hal_aci_tl_send has refused every longer command.
SpiInit ==
    /\ pc = "length"
    /\ command \in 0 .. HAL_ACI_MAX_LENGTH
    /\ event \in EventLength
    /\ byte_sent_cnt = 0 /\ byte_cnt = 0 /\ max_bytes = 0
    /\ sent = {} /\ received = {}

\* The command's length goes out while the status byte comes in.
SendLength ==
    /\ pc = "length"
    /\ sent' = sent \cup {byte_sent_cnt}
    /\ byte_sent_cnt' = byte_sent_cnt + 1
    /\ pc' = "opcode"
    /\ UNCHANGED << command, event, byte_cnt, max_bytes, received >>

\* A slip: the length the radio announces is trusted.
Mut_no_cap(c, e) == IF c = 0 \/ e > c - 1 THEN e ELSE c - 1

\* How many bytes the two packets need, at most what a buffer holds.
BytesNeeded(c, e) ==
    LET longest == IF c = 0 \/ e > c - 1 THEN e ELSE c - 1
    IN IF longest > HAL_ACI_MAX_LENGTH THEN HAL_ACI_MAX_LENGTH ELSE longest

\* The first byte of the command goes out while the event's length comes in.
SendOpcode ==
    /\ pc = "opcode"
    /\ sent' = sent \cup {byte_sent_cnt}
    /\ received' = received \cup {0}
    /\ byte_sent_cnt' = byte_sent_cnt + 1
    /\ max_bytes' = BytesNeeded(command, event)
    /\ byte_cnt' = 1
    /\ pc' = "rest"
    /\ UNCHANGED << command, event >>

ExchangeByte ==
    /\ pc = "rest"
    /\ byte_cnt < max_bytes
    /\ sent' = sent \cup {byte_sent_cnt}
    /\ received' = received \cup {byte_cnt}
    /\ byte_sent_cnt' = byte_sent_cnt + 1
    /\ byte_cnt' = byte_cnt + 1
    /\ UNCHANGED << pc, command, event, max_bytes >>

EndTransfer ==
    /\ pc = "rest"
    /\ byte_cnt >= max_bytes
    /\ pc' = "done"
    /\ UNCHANGED << command, event, byte_sent_cnt, byte_cnt, max_bytes, sent, received >>

SpiNext == SendLength \/ SendOpcode \/ ExchangeByte \/ EndTransfer

SpiSpec == SpiInit /\ [][SpiNext]_spiVars

-----------------------------------------------------------------------------
(* Properties. *)

\* Whatever length the radio announces, the transfer reads and writes
\* inside the two buffers, and the two indexes stay in step: the radio
\* answers each byte one place behind the byte that was sent.
WithinBuffers ==
    /\ sent \cup received \subseteq 0 .. HAL_ACI_MAX_LENGTH
    /\ pc = "rest" => byte_sent_cnt = byte_cnt + 1

\* "Transmit/receive the rest of the packet" (hal_aci_tl.cpp:225): when the
\* transfer ends, the whole command has gone out and the whole event is in.
WholePackets ==
    pc = "done" =>
        /\ 0 .. command \subseteq sent
        /\ event <= HAL_ACI_MAX_LENGTH => 0 .. event \subseteq received
=============================================================================
