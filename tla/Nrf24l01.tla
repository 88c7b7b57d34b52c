------------------------------- MODULE Nrf24l01 -------------------------------
(***************************************************************************)
(* The nRF24L01 driver (src/nrf24l01/nrf24l01.cxx) under a program that    *)
(* configures the radio and then sends and polls for ever, as the          *)
(* transmitter and receiver examples do.  There is no interrupt: between   *)
(* any two register accesses the radio receives, finishes or gives up a    *)
(* transmission.  Accesses made while CE is low are one step with the      *)
(* raising of CE, because the radio does nothing in between.  A program    *)
(* that starts does not reset the radio and may find it in any state.      *)
(* The names of the specification carry the radio's, because its theorems  *)
(* stand beside those about Rf22.                                          *)
(***************************************************************************)
EXTENDS Integers

CONSTANT FIFO_SIZE   \* payloads in each FIFO of the radio: 3

ASSUME FifoAssumption == FIFO_SIZE \in Nat \ {0}

VARIABLES access,         \* the next access to the radio; "idle": in the main loop
          after,          \* where rxPowerUp returns to
          m_ptx,
          m_rxBuffer,     \* "payload", or "none": what an empty FIFO gives
          ce, prim,       \* the radio: the CE line, and the mode in CONFIG
          status,         \* the radio: bits of STATUS that are set
          rxFifo, txFifo, \* the radio: payloads in the two FIFOs
          ended,          \* ghost: the radio is done with the payload of this send
          stale           \* ghost: configure has left RX_DR set, with an empty FIFO

driver  == << access, after, m_ptx, m_rxBuffer >>
radio   == << ce, prim, status, rxFifo, txFifo >>
ghosts  == << ended, stale >>
nrfVars == << driver, radio, ghosts >>

SendFlags == {"TX_DS", "MAX_RT"}
Flags == SendFlags \cup {"RX_DR"}

\* At the call of configure: init has lowered CE, setSourceAddress raises it,
\* and the radio is as the program before has left it.
NrfInit ==
    /\ access = "rx_power_up" /\ after = "flush_rx"
    /\ m_ptx \in BOOLEAN /\ m_rxBuffer = "none"
    /\ ce \in BOOLEAN /\ prim \in {"rx", "tx", "down"}
    /\ status \in SUBSET Flags
    /\ rxFifo \in 0 .. FIFO_SIZE /\ txFifo \in 0 .. FIFO_SIZE
    /\ ended = FALSE /\ stale = FALSE

-----------------------------------------------------------------------------
(* configure and rxPowerUp. *)

\* rxPowerUp, up to the raising of CE.
rxPowerUp ==
    /\ access = "rx_power_up" /\ access' = "clear_tx"
    /\ m_ptx' = FALSE
    /\ prim' = "rx" /\ ce' = TRUE
    /\ UNCHANGED << after, m_rxBuffer, status, rxFifo, txFifo, ghosts >>

\* A slip: the flags of the last transmission stay set.
Mut_flags_kept(f) == f

\* Writing ones to TX_DS and MAX_RT clears them.
SendFlagsCleared(f) == f \ SendFlags

\* The rest of rxPowerUp.
ClearTx ==
    /\ access = "clear_tx" /\ access' = after
    /\ status' = SendFlagsCleared(status)
    /\ UNCHANGED << after, m_ptx, m_rxBuffer, ce, prim, rxFifo, txFifo, ghosts >>

rxFlushBuffer ==
    /\ access = "flush_rx" /\ access' = "idle"
    /\ rxFifo' = 0
    /\ stale' = ("RX_DR" \in status)
    /\ after' = "idle"
    /\ UNCHANGED << m_ptx, m_rxBuffer, ce, prim, status, txFifo, ended >>

-----------------------------------------------------------------------------
(* send. *)

\* A slip: a payload that was given up stays in front of the next.
Mut_load_behind(n) == n + 1

\* The payloads in the FIFO after FLUSH_TX and W_TX_PAYLOAD.
Loaded(n) == 1

\* The wait for the last packet passes at once, m_ptx being clear; then the
\* radio is made a transmitter and given the payload.
send ==
    /\ access = "idle" /\ access' = "sending"
    /\ ~m_ptx
    /\ m_ptx' = TRUE
    /\ prim' = "tx" /\ ce' = TRUE
    /\ txFifo' = Loaded(txFifo)
    /\ ended' = FALSE
    /\ UNCHANGED << after, m_rxBuffer, status, rxFifo, stale >>

\* A slip: only a success ends the wait.
Mut_done_if_sent(f) == "TX_DS" \in f

SendDone(f) == f \cap SendFlags # {}

\* A turn of the loop over dataSending; when it ends rxPowerUp is next.
dataSending ==
    /\ access = "sending"
    /\ access' = IF SendDone(status) THEN "rx_power_up" ELSE "sending"
    /\ UNCHANGED << after, m_ptx, m_rxBuffer, radio, ghosts >>

-----------------------------------------------------------------------------
(* pollListener. *)

\* A slip: dataReady looks at the flag only.
Mut_ready_by_flag(f) == IF "RX_DR" \in f THEN "get_data" ELSE "idle"

\* dataReady looks at RX_DR first, and at the FIFO if it is not set.
ReadyTest(f) == IF "RX_DR" \in f THEN "get_data" ELSE "rx_fifo"

dataReady ==
    /\ access = "idle"
    /\ access' = ReadyTest(status)
    /\ UNCHANGED << after, m_ptx, m_rxBuffer, radio, ghosts >>

rxFifoEmpty ==
    /\ access = "rx_fifo"
    /\ access' = IF rxFifo = 0 THEN "idle" ELSE "get_data"
    /\ UNCHANGED << after, m_ptx, m_rxBuffer, radio, ghosts >>

\* R_RX_PAYLOAD
getData ==
    /\ access = "get_data" /\ access' = "clear_rx"
    /\ m_rxBuffer' = IF rxFifo = 0 THEN "none" ELSE "payload"
    /\ rxFifo' = IF rxFifo = 0 THEN 0 ELSE rxFifo - 1
    /\ UNCHANGED << after, m_ptx, ce, prim, status, txFifo, ghosts >>

\* A slip: the flag stays set.
Mut_rx_flag_kept(f) == f

RxFlagCleared(f) == f \ {"RX_DR"}

\* RX_DR is cleared, and the handler called with the buffer.
CallHandler ==
    /\ access = "clear_rx" /\ access' = "idle"
    /\ status' = RxFlagCleared(status)
    /\ stale' = FALSE
    /\ UNCHANGED << after, m_ptx, m_rxBuffer, ce, prim, rxFifo, txFifo, ended >>

-----------------------------------------------------------------------------
(* The radio, as the driver uses it. *)

\* A packet arrives; with a full FIFO it is not acknowledged and dropped.
Receives ==
    /\ ce /\ prim = "rx" /\ rxFifo < FIFO_SIZE
    /\ rxFifo' = rxFifo + 1
    /\ status' = status \cup {"RX_DR"}
    /\ UNCHANGED << driver, ce, prim, txFifo, ghosts >>

\* The oldest payload is acknowledged, or given up and kept.
Transmits(flag, kept) ==
    /\ ce /\ prim = "tx" /\ txFifo > 0 /\ "MAX_RT" \notin status
    /\ status' = status \cup {flag}
    /\ txFifo' = (txFifo - 1) + kept
    /\ ended' = (txFifo = 1)
    /\ UNCHANGED << driver, ce, prim, rxFifo, stale >>

RadioSends == Transmits("TX_DS", 0) \/ Transmits("MAX_RT", 1)

InCall ==
    \/ rxPowerUp \/ ClearTx \/ rxFlushBuffer \/ dataSending
    \/ rxFifoEmpty \/ getData \/ CallHandler

NrfNext == InCall \/ send \/ dataReady \/ Receives \/ RadioSends

NrfSpec == NrfInit /\ [][NrfNext]_nrfVars

\* A call that was made goes on; the main loop calls pollListener again and
\* again, between any two sends; a transmission ends by success or otherwise.
NrfFairSpec == NrfSpec /\ WF_nrfVars(InCall) /\ SF_nrfVars(dataReady) /\ WF_nrfVars(RadioSends)

-----------------------------------------------------------------------------
(* Properties. *)

\* Types.  While a payload is sent it is alone in the FIFO: no payload given up
\* before, or left by an earlier program, goes out in its place.
NrfTypeOK ==
    /\ access \in {"rx_power_up", "clear_tx", "flush_rx", "idle", "sending",
               "rx_fifo", "get_data", "clear_rx"}
    /\ after \in {"flush_rx", "idle"}
    /\ m_ptx \in BOOLEAN /\ m_rxBuffer \in {"none", "payload"}
    /\ ce \in BOOLEAN /\ prim \in {"rx", "tx", "down"} /\ status \subseteq Flags
    /\ rxFifo \in 0 .. FIFO_SIZE /\ txFifo \in 0 .. FIFO_SIZE
    /\ access = "sending" => txFifo <= 1
    /\ ended \in BOOLEAN /\ stale \in BOOLEAN

\* dataSending reports the end of a transmission only when the radio is done
\* with this very payload: no flag of an earlier one, or of an earlier
\* program, cuts it short.
NotCutShort == [][access = "sending" /\ access' # "sending" => ended]_nrfVars

\* Whenever the program is in its main loop the radio listens, and no flag of
\* a transmission is left to be taken for that of the next.
Listening ==
    access \in {"idle", "rx_fifo", "get_data", "clear_rx"} =>
        ce /\ prim = "rx" /\ ~m_ptx /\ status \cap SendFlags = {}

\* The handler is called for nothing at most once: when configure has flushed the
\* FIFO under a set RX_DR.  After that the flag and the FIFO agree, whatever
\* arrives between the reading of a payload and the clearing of RX_DR.
NothingOnlyOnce == access = "clear_rx" /\ m_rxBuffer = "none" => stale

\* A payload that arrives there loses its flag; the handler is called for it
\* all the same.
EachHandled ==
    rxFifo > 0 /\ after = "idle" ~> access = "clear_rx" /\ m_rxBuffer = "payload"

\* send returns, whether the packet is acknowledged or not.
EachSendReturns == access = "sending" ~> access = "idle"
=============================================================================
