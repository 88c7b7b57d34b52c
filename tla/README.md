# TLA+ models of UPM drivers

UPM is a library of some 230 drivers for sensors, actuators and radios on top
of libmraa (GPIO, I2C, SPI, UART).  Most drivers set a register, read a register
and scale a number.  The drivers modelled here keep state over which
*something else runs*: an interrupt handler, a parser thread, a radio with its
own pace, the other end of a queue.  Paths below are relative to the
repository's `src/` (so `src/nrf8001/aci_queue.cpp` is a file of the repository).

## 1. Inventory

| Part | State it keeps | Operations | Interacts with | What is hard | What makes it correct |
|---|---|---|---|---|---|
| nRF8001 packet queue, `src/nrf8001/aci_queue.*` | ring of slots, head, tail | init, enqueue, dequeue, empty, full, peek | the transport layer | wrap-around, the slot kept free | first in, first out; no packet lost |
| nRF8001 transport, `src/nrf8001/hal_aci_tl.*` | command ring, event ring, level of REQN | send, event get, event peek, flush, reset, SPI transfer | radio over SPI, RDYN, REQN; the library above | one exchange carries a command and an event; room for the event must exist before; REQN must not be forgotten | in-order channels, no endless loop, everything sent arrives |
| nRF8001 library and example main loop, `src/nrf8001/lib_aci.*`, `examples/c++/nrf8001-helloworld.cxx` | pipe bitmaps, credits, timing flag | event handling, connect, disconnect, send data | transport layer; the peer of the radio | commands and events cross each other; results ignored by handlers | no command refused, no sending on a dead link, advertises again |
| nRF8001 set-up, `src/nrf8001/aci_setup.*` | index of the next set-up message | fill, run | transport layer, main loop of the example | more messages than the queue takes; an attempt that ends early leaves messages and answers behind | every message once, in order; no success while messages are left; attempts end |
| nRF8001 codec, `src/nrf8001/acilib.*` | none | encode, decode | library | layouts | none over time |
| NMEA GPS, `src/nmea_gps/nmea_gps.*` | three bounded queues, satellites, depth, parser thread | start, stop, parse, set depth, get, print | device over UART or I2C; program threads | locks per container only; start and stop races; depth changed while full | bounded queues, current satellites, one thread |
| RF22 radio, `src/rf22/rf22.*` | mode, one buffer and its length for both directions, valid flag | send, available, recv, interrupt handler | radio over SPI and its interrupt | handler thread against program over unlocked members; FIFO refills | messages sent whole and in order; fragments within the buffer; send returns |
| Curie IMU, `src/curieimu/curieimu.*` | readings, event queues, a lock, a condition variable, a static pointer | update, enable, fetch | Firmata thread of mraa | a wait without a predicate; a queue without a lock | who waits goes on; events in order and once |
| SX1276 radio, `src/sx1276/sx1276.*` | settings with state, radio event, packet buffer, last mode set | send, setRx, setSleep, six interrupt handlers | radio, time limits | a late answer against a timeout; a packet that two handlers read | done means sent; what is copied is one packet; calls return |
| nRF24L01 radio, `src/nrf24l01/nrf24l01.*` | whether it transmits, one packet buffer | configure, send, pollListener | radio over SPI, by polling | flags that outlive their cause; a payload between two register accesses | a send waits for its own payload; every payload is handled |
| Thread-driven sensors, `src/bh1792`, `src/pulsensor`, `src/max30100` | flags of a thread or handler | start, stop, sample | handler or thread | stop before the thread runs | one thread while started, none after |
| MCP2515 CAN, `src/mcp2515` | mode, buffers in the chip | load, transmit, receive | chip | time limits | a message once |
| Register-level drivers, displays, actuators, AT modules, NFC readers | chip configuration | read, write | bus | little | arithmetic |
| Utilities, interfaces, function tables, bindings | none | delays, declarations | all | none | none |

`PROJECT.json` lists the parts one by one with their status, and under `hazards`
the places, with line numbers, that are hard to test.

### The hard behaviours

* **Polling against a radio** (nRF8001).  A transfer is full duplex: asking
  whether an event can be stored must come before the exchange, since an event
  that was clocked out cannot be put back; the code then loops for ever.
* **Interrupt threads** (RF22, Curie IMU, SX1276).  mraa runs handlers in their
  own thread.  The drivers share plain members with them, without locks.
* **Locks that are too small** (NMEA GPS).  Each container has its own mutex, a
  sentence touches several, and the program may do anything in between.
* **Bounds that move**: the depth of the GPS queues, the FIFO of a radio.
* **Time limits and retries** (SX1276, nRF8001 set-up).  An answer may come while the
  caller gives up, or belong to the attempt before.
* **Flags nobody resets** (nRF24L01).  A program that starts finds the radio as the last
  one left it, and a flag may be cleared after the payload it announces was overtaken.

## 2. Modules

| Module | Models | Uses |
|---|---|---|
| `AciQueue` | the ring as a record, its functions | |
| `AciHal` | `hal_aci_tl.cpp` as functions of the host's and the radio's half | extends `AciQueue` |
| `AciHal_proofs` | lemmas about the ring and those functions, for any packets | extends `AciHal`, TLAPS |
| `AciChannel` | abstract: two bounded first-in first-out channels | |
| `AciTransport` | application and radio as actions over `AciHal` | extends `AciHal`, instance of `AciChannel` |
| `AciSpi` | one exchange, byte by byte | |
| `AciTransport_proofs` | theorems about `AciTransport`, and one about `AciSpi` | extends `AciTransport`, `AciSpi`, `AciHal_proofs` |
| `AciLink`, `AciLink_proofs` | library events, handlers of the main loop, link of the radio, and theorems | extend `AciHal`, `AciHal_proofs` |
| `AciSetup`, `AciSetup_proofs` | `do_aci_setup` under the main loop, the radio in set-up mode, and theorems | extend `AciHal`, `AciHal_proofs` |
| `NmeaGps`, `NmeaGps_proofs` | parser thread, queues, program threads, and theorems | |
| `MCNmeaGps` | values of `Gsv` for TLC | extends `NmeaGps` |
| `Rf22` | driver, interrupt handler and radio | |
| `MCRf22` | programs that send, receive or do both | extends `Rf22` |
| `Nrf24l01` | driver and radio by register accesses | |
| `Radios_proofs` | theorems about `Rf22` and about `Nrf24l01` | extends `Rf22` and `Nrf24l01` |
| `CurieImu`, `CurieImu_proofs` | driver, Firmata thread and board, and theorems | |
| `Sx1276`, `Sx1276_proofs` | caller, handlers of DIO0 and DIO1, radio, both modems, and theorems | |
| `MCSx1276` | the configurations TLC checks | extends `Sx1276` |

Correspondence with the code, beyond the definitions named after functions:

* **AciTransport.**  `hal` is the two static queues, the level of REQN and
  whether the program is in the endless loop after a transfer (`hal_aci_tl.cpp:153-158`).
  `chip` is what the driver can observe: RDYN and events not yet clocked out.
  Only polling mode is modelled, because `init_local_interfaces` is the only place
  that sets the mode.  A packet is one unit here.  `accepted` and `fetched` are
  cut back by a flush to what has already passed, so `InOrder` says that a
  flush is the only loss.
* **AciSpi** takes `m_aci_spi_transfer` apart instead.  The loop over the rest of
  the packet ends one byte early: the last byte of a command is never
  sent and the last byte of an event never read.  `AciTransport` and
  `AciLink` speak of packets as if they arrived, that is, of the order
  and number of packets, not of their last byte.  Where the last byte matters (the
  number of credits, status of a command response), `AciLink` leaves the value
  open: whether a credit is left is chosen anew each time.
* **AciLink.**  `pipes_open` stands for the bitmap bit of the UART pipe.  `link`
  is the real state of the radio, `believed` what the handled events say.
  `"control"` and `"retime"` are the data events that make the example disconnect
  or change timing, `"text"` any other data, `"timing"` a change of the link's timing.  The
  radio answers commands immediately in the exchange.  It starts set up and without a
  hardware error; how it gets there is `AciSetup`.
* **AciSetup.**  A set-up message is its number.  `pc` is `"loop"` in the main loop of the
  example and otherwise the place in `do_aci_setup`: `"fill"` and `"refill"` are the two
  calls of `aci_setup_fill`, one message a step.  The radio takes messages in order and
  begins again at the first.  Both consequences of the unsent byte of `AciSpi` are here.  A message that is longer than
  the event it goes with loses its last byte, so the radio may answer any message with an error (`RadioTakes`).
  The status of a response is read only if a command goes out in the same exchange, otherwise
  the host sees any status (`Views`).  The guard counter of the loop is left out:
  it ends an attempt in any turn of the loop (`TimeUp`), as do restarts of the radio and hardware errors.
* **NmeaGps.**  Each access to a container happens under its mutex and is one
  step.  A sentence becomes a list of steps (`parseNMEASentence`), so other threads
  run between two containers and between two satellites.  `ended` records what
  ends the program: a failed read that throws in the parser thread, or a second
  thread assigned to `_parser`.
* **Rf22.**  A step is one read, test or write of a member (all of them are `volatile`), one `memcpy` or
  one exchange with the radio.  `at` has the statement each thread is at and `loc` the values it has
  read, so the program may run between any two accesses of a flag section, and the handler between any two of `send` and `recv`.  An exchange is
  one step although both threads share the chip-select line.  `isr` is the set of flags read and not yet dealt with, which the
  handler takes in the order of the code (`First`), and `flag` the one it is at.  What both threads call
  (`setModeRx`, `sendNextFragment`, ...) is one definition with a thread as its parameter.  A
  byte is a pair of message and position, so mixtures are visible.  The
  message buffer and FIFO have 4 bytes where the code has 64, with the thresholds in
  the same order (almost empty 1, first fragment 2, almost full 3); lengths are of eight bits.  The counters of good packets, the signal
  strength, what a copy behind the end of the buffer overwrites and the buffer of `recv`'s caller are left out.
* **CurieImu.**  The messages of the board wait in `inbox`; the handler is one step
  for `setResults` and one for what follows.  A reading is the number of
  the request it answers.  `pthread_cond_wait` returns when it is signalled, and at any other time (`SpuriousWakeup`).
  Each call of a method of the queue of shocks is one step: `getNextShock` reads the first and then takes it out,
  without a lock, and threads in `Fetching` may do so together.  What a data race inside `std::queue` does is not modelled.
* **Sx1276.**  Data is counted in units of the FIFO's threshold (15 bytes): `OneChunk` is the 64
  bytes `send` writes at once and `ChunkSize` the 32 of a longer packet, in the same order.
  The caller has a step for every access the handlers may come between; a handler holds
  `m_intrLock` (`isr`) and is at most two steps.  The examples wait between two calls, so a
  call begins when the radio sleeps and no edge is pending (`Settled`).  DIO2 to DIO5, CAD, RSSI
  and packets of fixed length are left out.
* **Nrf24l01.**  One step per register access.  Accesses while CE is low are one step,
  since the radio does nothing then.  `Init` allows every state of the radio that an
  earlier program may have left.  `pollListener` is `dataReady`, `rxFifoEmpty`, `getData`
  and the handler.  `sendBeaconingMsg` writes and switches without waiting for the radio and is not modelled.

## 3. Runs

"Expected" says whether TLC finds the property true or finds the counterexample the
finding describes.  Ghost variables and bounds are named in the modules.

| Run (cfg) | Expected | Shows |
|---|---|---|
| `AciTransport.cfg` | pass | types, no endless loop, order, the request line, the refinement of `AciChannel`; commands reach the radio and events the application |
| `AciSpi.cfg` | pass | all command lengths and boundary event lengths stay in the buffers |
| `AciSpiWhole.cfg` | violation of `WholePackets` | the last byte is not transferred |
| `AciLink.cfg` | pass | handlers' commands are never refused; no pipe on a dead link; a device without a peer advertises again |
| `AciSetup.cfg` | pass | messages in order through a queue that refuses them; no success while messages are left to send; attempts end; a set-up that is required is tried again |
| `NmeaGps.cfg` | pass | depth, satellites, order of fix and sentence, printing, start and stop; `parseStop` returns |
| `Rf22.cfg` | pass | one-fragment messages go out whole and in order, and every one that is accepted does; fragments stay in the buffer |
| `Rf22Stuck.cfg` | violation of `SendReturns` | a packet sent before the mode is noted |
| `CurieImu.cfg` | pass | shocks in order and once, with two threads of which one fetches |
| `CurieImuLive.cfg` | violation of `UpdateReturns` | a response before the wait is lost |
| `Sx1276.cfg` | pass | `REVENT_DONE` means this packet was sent whole; a received copy is one packet, with a good CRC where it is checked; no caller waits for an idle radio; calls return |
| `Nrf24l01.cfg` | pass | from any state of the radio: no transmission is cut short by an old flag, the radio listens between calls, every payload reaches the handler, `send` returns |

**Bounds.**

* *AciTransport*: a ring of three slots with three packets in each direction: each
  index wraps, and a ring is empty, has one packet and is full.  Other sizes,
  the four slots of the code among them, are covered by the proofs.
* *AciLink*: queues of four slots, as in the code.  `MaxOut` is how many events the radio
  holds back: three, so that events of two connections are on their way together.  Where in a
  ring the packets lie is forgotten after each turn (`Pack`), which keeps the graph
  small enough to be searched for cycles.  The proofs cover every size and `MaxOut`.
* *AciSetup*: five messages against a queue of three places, so that it refuses, is refilled
  in the middle of an attempt, and an attempt that ended leaves messages behind; two events
  held back.  `Pack` as in *AciLink*.
* *NmeaGps*: depths that are clamped from both sides, three sentences against a first
  depth of two, one program thread and the parser.  Nearly every method of the class
  assumes a single caller besides the parser, so `User` has one element.
* *Rf22*: a set of programs, chosen in `Init` (`Duties`).  One sends three messages of 0, 1, 2
  or 5 bytes: nothing, one fragment (twice), more than the buffer.  One sends a message of two fragments.  One receives two packets
  of 1, 4 or 6 bytes, 6 being more than buffer and FIFO hold.  One sends a message of 2
  and hears a packet of 1 at the same time.  `SentInOrder` and `AllAired` are properties of
  programs that only send and the length in `TypeOK` of programs that do not send: with both at once
  the code promises less (see below).
* *Sx1276*: both modems, single and continuous reception, with and without CRC; two calls, so
  that the second meets what the first left, and two packets on the air; packets of one and
  two units are sent and of three received, with a threshold of one, so that a reception takes
  several handler runs.  Longer packets are sent from the wrong buffer (section 4).
* *Nrf24l01*: the FIFOs of the radio (three payloads), every initial state; nothing is capped.
* *CurieImu*: two threads, two readings, two times detection on or off, three shocks: an update or an enable of
  one thread comes between any two steps of the other, and shocks are on their way, in the handler's hands and in the queue together.

**Deadlock** is checked for the nRF8001 (its main loop never stops).  A single
exchange (AciSpi) ends; the GPS program ends when the device cannot be read; the
RF22, SX1276 and Curie programs may have nothing left to do within the bounds, and those of RF22
and Curie may wait for ever, which is what one finding about each is.  The nRF24L01 program never stops.

**Fairness.**  `EventGet` and `MainLoop` are weakly fair because the main loop of
the example calls them for ever; `RadioReady` because a working radio answers
REQN; `<>[][~ResetRadio]_vars` because no program resets the radio endlessly, and
nothing is assumed of peers, events or hardware errors.  The GPS parser and a thread
within `parseStop` are scheduled, and a device read returns after its timeout.
In `AciSetup` the loop, the statements of an attempt, its guard counter and the radio's ready line are fair,
and from some time on there are no more restarts and hardware errors.  In `Sx1276` only the caller is fair: its time
limit passes whatever the radio does.  In `Nrf24l01` a call once begun goes on, the program polls
again and again (`SF`, since it may send in between for as long as it likes), and a transmission ends.
In `Rf22` the program, the handler and the radio's transmitter are weakly fair.  In `CurieImu`
threads have strong fairness since they compete for a lock that is freed again and again.

**Mutants.**  Each property of a passing run has a definition `Mut_...` next to the one
it replaces: the slip (a missing wrap, a late test, a dropped reset) that the
property would find.

## 4. Findings

Each is a run that violates one property; `PROJECT.json` quotes the sentence of
the code or header that says otherwise.

1. nRF8001 (`AciSpiWhole.cfg`): the transfer loop leaves out the last byte of a packet.
2. RF22 (`Rf22Stuck.cfg`): `_mode` is set after the transmitter started; `send` may wait for ever.
3. Curie IMU (`CurieImuLive.cfg`): a response before `pthread_cond_wait` is lost, and the caller
   waits for ever.

The models also have the following behaviours of the code.  No run is about them; they are
hazards in `PROJECT.json`, and the reason why some properties above are
stated for one kind of program.

* nRF8001 library: a pipe status raised before a disconnect was queued is handled after it and
  opens the pipe again (`lib_aci.cpp:559`), against the comment at `lib_aci.cpp:310`.
* nRF8001 set-up: the last message may lose its last byte and be refused, and the status of that refusal, which comes
  in an exchange without a command, is not read and may be taken for "complete" (`aci_setup.cpp:133`): the program reports success
  for a radio that is not set up.  `SuccessMeansSent` says what is left, that no message was skipped.  When it is misread the
  other way, the attempt is repeated, and a radio that is set up answers each repetition with an error.
* NMEA GPS: `_running` is tested and set in two steps, so two threads that call
  `parseStart` together both start a parser, and assigning the second to the joinable
  `_parser` ends the program.
* NMEA GPS: after `setMaxQueueDepth` with less than a queue holds, size and depth, compared
  for equality (`nmea_gps.cxx:348`), never meet again and the queue grows; `WithinDepth` is stated as long as the depth
  is not lowered.
* NMEA GPS: a read that fails throws in the parser thread, where nobody catches it (`nmea_gps.cxx:83`).
* RF22: starting the transmitter zeroes the length of the message it sends (`rf22.cxx:467`), so a
  message of several fragments (over 59 bytes) underflows; `SentInOrder` is about one fragment.
* RF22: `available()` during a transmission turns the radio to receiving and leaves the
  unsent bytes in the FIFO, in front of the next message.
* RF22: `recv` tests, measures, copies and clears in steps (`rf22.cxx:569-575`) and the handler sets the bytes, the length and the
  valid flag in steps (`rf22.cxx:236-240`).  Where they meet, `recv` may return an empty message, a mixture
  of two, or the same message twice: it measures one, the handler clears and reads the next, `recv` copies that and clears, and the handler
  then sets length and flag.  `send` may find its message too long for what the handler has put there (`rf22.cxx:621`).
* RF22: `setModeRx` notes its mode after it has started the receiver (`rf22.cxx:453`): if a packet is received and handled in between, the mode says
  receiving and the receiver is off, and `available` does not turn it on again.
* RF22: a packet that is dropped for its length leaves its bytes in the FIFO, in front of the next (`rf22.cxx:230`).
* RF22: flags of two moments are read together (`rf22.cxx:250`) and handled in the order of the code: with a
  packet and the preamble of the next, the preamble's section comes last and clears the message just taken.
* RF22: a time limit is compared in microseconds where the header says milliseconds (`rf22.cxx:544`);
  limits are not modelled there.
* Curie IMU: the wait has no predicate (`curieimu.cpp:71`).  A wake-up that nobody signalled, a response that wakes two
  threads, or a shock that comes while a reading is awaited lets an update copy an earlier, a freed or another message's
  result.  Two threads that fetch shocks together may return one twice and lose the other (`curieimu.cpp:358-363`), and the second may read an empty queue.
* Curie IMU: `awaitingReponse` is one pointer
  for all objects (`curieimu.cpp:25`); an update replaces the notification handler, so that no shock is queued until
  detection is turned on again (`curieimu.cpp:209`); `new char(length)` reserves one byte (`curieimu.cpp:83`).
* SX1276: in FSK the pieces of a long packet after the first come from `m_rxBuffer` (`sx1276.cxx:1912`), not from
  the packet; the handlers of DIO2 and DIO4 may take an RSSI value in either order (`sx1276.cxx:1960`).
* SX1276: a packet that was sent may be reported as timed out, when the limit passes while the
  handler runs (`sx1276.cxx:1251`).
* nRF24L01: after `configure` the handler may be called once for a payload that was flushed.

## 5. Proofs

All theorems are proved for every value of the constants, from the named assumptions of the
modules.  Each proof has an inductive invariant, `Init => IInv`, one step per action, and the
property as a consequence.  Two proof modules extend two components each, which is why the
specifications of `AciSpi` and `Nrf24l01` have names of their own (`SpiSpec`, `NrfSpec`); the theorems about
one component use nothing of the other.

**The ring and the transport functions** (`AciHal_proofs`), for every queue size from 2
to 255 (the index is a `uint8_t`) and any packets, from `QueueSizeAssumption`.
Arithmetic of indexes (`SuccIndex`, `SlotIndex`, `UsedSlots`) gives what a ring does to its
contents (`EnqueueAppends`, `DequeueTakesHead`, `QueueTests`, `PackKeeps`); those give what the functions
of `AciHal` do to the commands waiting (`HalSend`, `HalCheck`, `HalGet`).

**`AciTransport_proofs`**, also from `PacketAssumption`: `TypeCorrect`, `PacketsInOrder`, `LoopUnreached`, `RequestsStand`
(`TypeOK`, `InOrder`, `NeverSpins`, `RequestStands` are invariants) and `Refinement`: `Spec` implements
`AciChannel`, reading each ring as a sequence.  The invariant is the conjunction of the four.
None of its parts is inductive alone: order needs to know that the slots between head and tail
hold packets, the loop is unreachable because a transfer starts with room, and the request
line speaks of both rings.

**`AciLink_proofs`**: `CommandsAccepted` (`NoneRefused`) and `PipesEndWithLink` (`NoPipeOnDeadLink`).
Two facts carry them.  The event ring is empty between two turns of the loop, since a turn stores at
most one event and takes it; so an event in hand came with an exchange just made, which took a
command out of the ring, and the handler's command has a place (`GetOne`, `HandlerSound`).  And the events on
their way are consistent: before every pipe status the last that was said of the link, in the
radio's queue or by the host's belief, is that it is up (`UpAt`, `Consistent`); `HeadHandled` and
`EventAdded` keep that at the two ends of the queue.

**`AciSetup_proofs`**, also from `SetupAssumption`: `TypeCorrect`, `MessagesInOrder` (`InOrder`).
`IInv` adds the types of the two rings to `Order`: the radio has received the first `taken` messages of the
attempt, and the ring holds the ones after them up to `setup_offset`.  `SuccessAfterTheLast` (`SuccessMeansSent`)
needs more, and a queue of three slots or more: an exchange that sends nothing lets the program see
any status, so none may bring an answer while messages are left.  `SInv` says why none does: whenever the
loop polls, the command queue is full, or holds one less and the answer that fills it again is on its
way (`Supplied`, which uses that the radio answers each message, if only with an error); the radio says "complete" only when it is set up
(`RadioTruthful`); a "complete" in the event queue means that, a restart on its way, or that the last message is out
(`Believable`); and the event removed is the one peeked at (`Peeked`).  With two slots, which the
assumption on the queue allows, the property is false: the first exchange sends the
one message queued, the second sends nothing and so leaves the status of the answer unread.

The last section of `AciTransport_proofs` has, from `SpiAssumption`, `StaysWithinBuffers` (`WithinBuffers` of `AciSpi`), for
every length of buffers and every length byte: the place in the transfer fixes both indexes, and
the number of bytes to go was cut to the length of a buffer.

**`NmeaGps_proofs`**, from `DepthAssumption`, for every set of satellites:
`DepthPositive` (`TypeOK`; a depth is never zero), `QueuesWithinDepth` (a push keeps
the bound because a queue of exactly `depth` entries loses its oldest, which needs a positive
depth), `FixComesFirst` (the steps still to do of a sentence have the fix before the raw sentence),
`SatellitesUpToDate` (the list is in the order of the reports, at most one entry each), all
for every set of threads; `StartAndStopInOrder` and `PrintsWhatItAnnounced` for one thread of the program, which
is what they are true of.

**`CurieImu_proofs`**, from `ThreadsAssumption`, for every finite set of threads and without the bounds: `ShocksInOrder` (`ShocksOnce`), if one
thread fetches.  `OrderInv`: fetched, queued, in the handler's hands and on the way, shocks are in ascending order.
`FetchInv`: between its test and its pop, the thread that fetches finds in front of the queue what it has read, since the
handler only appends; that is where a second such thread would break it.

**`Radios_proofs`, RF22**, from `LengthAssumption` (the thresholds lie in the FIFO, the buffer is no
longer than it) and `DutyAssumption` (what a program may do is given by numbers; a packet on the air has a byte).
* `StaysInBuffer` (`TypeOK`).  `Inv` is the types and, of a program that sends nothing, `Listens`: it
  is never in `send` and the mode is never transmitting, so the handler never fills or counts for a transmission; what the handler has measured stays within the buffer wherever
  it is between test, copy and sum, since the program can in the meantime only empty it.
* `SendsInOrder` (`SentInOrder`).  `SendInv` follows a message by the places of the two threads.  While it is filled in, nothing moves and no flag is
  left (`Fills`); while it is loaded into the FIFO and the transmitter told, it is in the buffer and then in the FIFO (`Loads`); then part of it is out and the
  rest in the FIFO (`Going`), or it is out and the handler has yet to say so (`Airs`, `Pending`, `Sent`).  It is inductive as long as the messages
  accepted are of one fragment, and those accepted before were if those accepted now are (`ShortBefore`).

**`Radios_proofs`, nRF24L01**, from `FifoAssumption`: `NrfTypeCorrect` (`NrfTypeOK`), `RadioListens` (`Listening`), `HandledOnce`
(`NothingOnlyOnce`) and `WaitIsForThisPayload` (`NotCutShort`, an action property).  `NrfInv` says that a
flag of a transmission seen while sending is that of this payload, and that outside the
handler a receive flag without a payload can only be the one `configure` left.

**`Sx1276_proofs`**, from `Sx1276Assumption`, for both modems, all sizes and thresholds, any number of calls and
packets.
* `TypeCorrect` (`TypeOK`).
* `NeverWaitsForNothing` (`Armed`).  Its invariant `Control` relates the caller's place, `opModePrev`, the mode of the radio,
  the state in the settings and where a handler can be: what the driver remembers is the mode the radio was put in
  (`ModeInv`), a handler that runs belongs to the call (`HandlerInv`), and a radio that went to standby by itself
  left an interrupt that will be handled, or a handler that is about to report it (`AnswerInv`).
* `SendsThePacket` (`DoneMeansSent`), if FSK packets fit one chunk (`OneChunkOnly`).  The code sends the rest of a longer
  packet from the receive buffer (section 4), so without that the property is false; LoRa packets may have
  any size.  What the radio has sent and what is left in the FIFO are the packet (`Sending`), and nothing of an earlier call
  is in the FIFO when one begins (`Emptied`).
* `DeliversWholePackets` (`ReceivedWhole`).  While a reception runs the units of the current packet are in the buffer, in the FIFO
  or still to come, in this order, and an interrupt pends only for what is there (`Shared`; `Captured` for
  LoRa, where the packet arrives as a whole); a handler that reports success has a complete packet behind it (`Complete`),
  and nothing runs any more that could change it before the caller copies (`Delivered`).

**Only model-checked**: all liveness (`CommandsArrive`, `EventsArrive`, `AdvertisesAgain`, `AttemptEnds`, `TriesAgain`, `AllAired`,
`StopReturns`, `CallReturns`, `EachHandled`, `EachSendReturns`),
because fairness and ENABLED are out of the prover's reach.  Every invariant of a passing run has a theorem.

## 6. Not modelled

Formatting, text parsing and register contents; the printed counters of the
GPS driver; RF22's radio configuration and time limits; SX1276's DIO2 to DIO5, CAD, RSSI and register
settings; nRF24L01's addresses, rates and beacon; steps, taps, gyroscope and temperature of the
Curie IMU, which differ from what is modelled by message and member only.

Of the whole parts that are left out three have hazards; `PROJECT.json` lists the first, without a property.  The threads of BH1792 and the pulse sensor are one flag and one counter each: `bh1792.c:579` sets its
alive flag inside the thread, so that a stop or second start before it runs finds it not alive, and the counter
of `pulsensor.cxx:51` is not checked against a second start.  The MCP2515
keeps its state in the chip and is used by one thread; a transmission that timed out stays pending there
(`mcp2515.c:626`).  A model of these would have one or two variables and state
what the code says in the same words.

All others (some 200 drivers that set, read and scale registers; displays and actuators; AT
modules, NFC and RFID readers, which exchange text or frames in sequence; BACnet and Z-Wave, thin layers over
libraries that are not in the repository; utilities, declarations, bindings) keep no
state over which steps interleave.  That is most of the repository by size, and the reason why the share of lines
the models cover is small.  `PROJECT.json` has the parts one by one.

## 7. Plan

Done, most important first: the nRF8001 transport with its abstract channel, the link and the
set-up above it, NMEA GPS, RF22, Curie IMU, SX1276, nRF24L01; theorems about all of them.
Left, in this order:

1. *Prove* refinements for the other components, starting with those above the transport layer: the main loop of
   `AciLink` and the set-up as clients of `AciChannel`; then the GPS queues as bounded lists that lose their oldest entry.
2. *Extend*: long packets of the SX1276 and DIO2 to DIO5; credits and pipe errors in
   `AciLink` with a bound; two Curie objects that share `awaitingReponse`.
