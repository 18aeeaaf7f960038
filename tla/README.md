# TLA+ models of pi-industrial-robottools

The repository holds several small programs built around a remote-controlled
rover and some home instrumentation: firmware that drives the rover, the
operator's client and a bridge that command it, a video link, loggers for
boiler valves and for a water meter with its CPLD, and two JTAG programs.  They
share few lines of code but much of the difficulty: real time, wrapping
counters, lossy links, several threads, partial failures.

This directory models them in TLA+, checks the models with TLC and proves the
most important results with TLAPS.  `PROJECT.json` says which lines of the
source each definition translates, lists every run with its properties, the
known hazards of the code, and for each property a plausible bug (a definition
marked `Faulty` next to the one it replaces) that breaks it.

    tlc -workers 2 -config MCRoverTiming.cfg MCRover.tla     # one run
    tlapm RoverProofs.tla                                    # one module of proofs

## 1. The system

### Inventory

| Component | Source | State it keeps | Operations | What makes it hard |
|---|---|---|---|---|
| Rover sketch | `arduino/slcan_controller/*.ino`, `MTimer`, `IBT2Motor`, `IBT2Servo` | three timers, two H-bridge drivers (enable, setpoint, error, PWM pins), LED | `UpdateServoSetpoint` callback; per loop: dead-man check, servo and motor tick, telemetry | `millis()` wraps; a timer races a late setpoint; two pins of a bridge are written one after the other; telemetry reads state of different ages |
| CAN-over-serial receiver | `arduino/slcan_controller/SLCan.cpp` | receive ring (in the serial library), `_rxbuf`, `_rptr` | `input`, `handle`, `send` | characters are dropped when the ring is full; overlong lines restart the buffer |
| Joystick client | `controlstream/joystick-input.c` | stick positions, SDL event queue and timer | `tick_cb`, event loop, `send_socketcan` | sends no stop; its timer is half the rover's limit; 16-bit extremes |
| CAN bridge | `controlstream/rover-stick-ctl.c` | receive buffer | receive, repack, write | UDP loses, duplicates and reorders; interrupted receive; stops and restarts |
| Boiler valve logger | `boilermon/valvelog/valvelog.c` | last and present sample of six inputs | scan every timer expiry | one input fails while others are read; inputs move during a scan; restarts |
| Water meter CPLD | `pulsemeter/verilog/*.v` | synchronisers, debounce counter, accumulator, SPI shift register | every clock edge | contact bounce; a pulse on the clock that clears the accumulator; host edges anywhere |
| Water logger | `pulsemeter/waterlog/waterlog-ekm.c` | `last_count` | read, check echo, append | reading clears the meter, so a failed read may lose a count; restarts |
| SVF player | `svfload/svfload.c`, `svfload/libxsvf/{play,svf,tap}.c`, `svfload/freebsd-kmod/ksvf_gpio.c` | believed TAP state, settings, clock counts, pins | analyse, play; walk, shift, delay; setup, shutdown | the host cannot observe the device's state; any pin operation may fail, delays half way |
| Camera and sender | `videostream/mjpegcam.cc`, `videostream.cc` | ring of capture buffers, queued or filled | dequeue, queue back, push | a buffer is given back before it is used |
| Video receiver | `videostream/recvjpegsdl.cc` | `bmp_buffer`, `tbuff`, SDL's event queue, texture | pull, decode, copy, notify; upload, quit | two threads share a picture without a lock |
| uvgRTP, media | `uvgrtp-2.0.0/src/{media_stream,queue,rtp,pkt_dispatch}.cc`, `formats/` | sequence numbers, transactions of the send queue, fragments by timestamp, frames given up | `push_frame`, `packet_handler`s, `pull_frame` | loss, reordering, doubling, wrapping numbers; state kept across calls; start codes at any alignment |
| uvgRTP, session | `zrtp.cc`, `zrtp/`, `srtp/`, `rtcp.cc`, `rtcp/`, `session.cc` | handshake phase and role, keys, roll-over counter, digests seen, participant statistics | Hello … Conf2ACK with retransmission; encrypt, decrypt; reports and goodbyes from a thread | two symmetric ends, each with its own timeouts; counters that must move at the same packet at both ends; statistics on probation |
| papilio-prog | `papilio-prog/*.cpp` | believed TAP state, unsent TMS bits, unsent USB clocks, flash type and size | scan the chain, load and reconfigure the FPGA, identify, erase, write, verify the flash behind it | two buffers between the program and the chain; other devices shift along; slow, protected or unknown chips; loops that forget a failure |
| Others | see `PROJECT.json` | | | temperature sensor test program, command line tools of libxsvf, an unused class |

### How they interact

    stick --SDL--> client --UDP--> bridge --CAN--> SLCan --callback--> sketch --PWM--> bridges
                   ControlLink                     SLCan               Rover
                        \______ the rover appears there as DeadMan, which Rover refines

    reed contact --> CPLD (Debounce, MiniSpi, PulseMeter) --SPI--> water logger (WaterLog)
                        \______ appears there as Accumulator, which PulseMeter refines

    SVF file --> libxsvf (SvfPlayer over Tap) --callbacks--> svfctl()/driver --JTAG--> device

    camera driver <--buffers--> Camera --> RtpGeneric --UDP--> RtpGeneric --> Viewer --> screen
                        \______ composed in VideoStream

    frame --> H26xSender --UDP--> H26xReceiver --> NAL units      (H26xStream)

    Zrtp --keys--> Srtp <--packets--> Rtcp                                   (MediaSession)

    image --> ProgAlgSpi --> IoBase --USB, JTAG--> Board: FPGA --> serial flash   (Papilio)

The video programs use uvgRTP's generic format only; its video formats, its
handshake and its protection are modelled as the library offers them.

### What correct means, part by part

* **Rover.** Motion ends when setpoints stop, whatever the clock does; it does
  not end earlier; both sides of an H-bridge are never driven; steering is not
  pushed beyond its limits; a new setpoint reaches the pins in bounded time;
  telemetry describes what is driven.
* **SLCan.** What is acted on was sent as one frame; losses do not outlive the
  line they happened in.
* **Control link.** Whoever stops, the rover stops; nothing stops it while
  datagrams get through; reordering does no lasting harm.
* **Valve logger.** The log reconstructs each valve whose reads worked.
* **Water meter and logger.** One pulse for one closing; no pulse lost or
  counted twice between contact and log unless a fault took the count; the end
  of a flow is marked.
* **SVF player.** The host follows the device; each bit is shifted once; what
  failed is reported; the analysis predicts the play; it always ends.
* **Video.** A frame handed over is one that was pushed; a picture is only torn
  when the loop falls a ring of buffers behind; the screen does not go back in
  time and ends up with the last picture.
* **uvgRTP, video formats.** A frame is cut at its start codes, every unit sent
  once; units come together whole and in order; what was given up stays so.
* **uvgRTP, session.** Both ends hold the same keys or know they do not; what
  is protected can be read; reports say what has happened and keep coming.
* **papilio-prog.** What it believes of the chain is so; what it reports of the
  flash is so.

## 2. The modules

| Module | Models | State ↔ code | Actions ↔ code |
|---|---|---|---|
| `MTimer` | `MTimer.cpp`, `millis()` modulo `Wrap` | `_last` is the argument | `TimedOut`/`LastAfter` are `timedout()`, `LastReset` is `reset()` |
| `IBT2` | arithmetic of both drivers | | `StoredSetpoint` is `update()`; `ComputedSetpoint`, `ServoError`, `MotorError` the pieces of `tick()`; `IdlePinWritten`, `DrivenPinWritten` the two writes of `drive()` |
| `Int16` | two's-complement bytes of a setpoint | | |
| `Rover` | the sketch | `drivesOff`, `servo`, `tsend`, `ibt2m`, `ibt2s`, `led`; `pc` is the place in `loop()` | one action per part of `loop()`, two per `drive()`; `UpdateServoSetpoint` the callback; `Tick` a millisecond |
| `DeadMan` | what the rover promises about motion | `on`, `quiet` | `Command`, `Stop`, `Elapse` |
| `SLCan` | serial reception | `ring`, `rxbuf`; positions on the wire stand for characters | `Arrive`, `Overrun` (interrupt), `Input` (one pass of the loop in `input()`, with `handle()`) |
| `ControlLink` | client, network, bridge, rover as `DeadMan` | `events` is SDL's queue, `due` its timer, `stick` the two positions, `buf` the bridge's buffer, `air` the datagrams under way | `TickCb`, `HandleEvent`, `Receive`, `Interrupted`, starts and stops of both programs, `Lose`, `Millisecond` |
| `ValveLog` | valve logger | `past`, `prst` are `io_past`, `io_prst`; `logged`, `system` the last events written | `Timer`, `ReadInput`, `ReadFails`, `EndScan`, `Restart`, `Move` |
| `Debounce` | `debounce.v`, the contact and ghosts that count its samples | registers by name | a posedge |
| `MiniSpi`, `PulseMeter` | `minispi.v`, `pulsemeter.v`, an SPI host | registers by name; `hold`, `bits` the host's | `Posedge` and the host's `Select`, `ClockUp`, `ClockDown`, `Deselect` |
| `Accumulator` | the meter as its host sees it | `acc`, `word` | `Blip`, `ReadOut` |
| `WaterLog` | water logger over `Accumulator` | `lastCount`; `record` the last line of the log | `Transfer`, `TransferFails`, `Record`, `WaterRestart`, `Flow` |
| `Tap` | TAP walker and IEEE 1149.1 device, the table of papilio-prog | | `WalkTms`, `WalkNext` a round of `libxsvf_tap_walk()`; `Ahead`, `HostNext` a step of `setTapState()`; `Device` an edge of TCK |
| `SvfPlayer` | `svfload -p` | `script`, `set` (locals of `libxsvf_svf()`), `jobs` (calls the command has still to make), `tap`, `rc`, `total`, `count`, `outputs`; `dev` the device | `ReadCommand`, `WalkRound`, `ShiftBit`, `DelayCall`, `AnalyzeDelay`, setups and shutdowns |
| `Camera` | `mjpegcam.cc` over a V4L2 driver | the ring: queued, filled, in the caller's hands | `DriverWrites`, `Dequeue`, `QueueBack`, `SelectTimesOut` |
| `RtpGeneric` | a generic uvgRTP stream and UDP | outbox of packets, `frames` by timestamp, frames received | `PushFrame`, `SendPacket`, `PacketHandler` with `Receive`, `PullFrame`; the network loses, doubles, overtakes |
| `Viewer` | `recvjpegsdl.cc` behind the pull | `bmp`, `tbuff` in halves, `events`, `texture` | `Decode`, `CopyHalves`, `Notify`; `TakeEvent`, `Upload`, `Quit` |
| `VideoStream` | the three together, or a local camera | `source` | the loops of `videostream` and of `refresh_video()` |
| `H26xSender` | `find_h26x_start_code()`; `push_frame` of `h264.cc`, `h265.cc`, `h266.cc` over `queue.cc` | bytes of a frame; a record: transaction, collected units, sequence number | `FindStartCode`: the scan in words, jumps and the stopper byte; `PushH26xFrame` and the operators below it, one per function |
| `H26xReceiver`, `H26xStream` | the three packet handlers; both sides and UDP | `frames`, `dropped` of `h265_frame_info_t` | `Push`, `Receive` (with the handler), `Age`, the network |
| `Zrtp` | handshake in Diffie-Hellman and multistream mode | `ep[p]`: phase, role, tries, what is known of the other | `Begin`, `Receive` (`recv_msg` and what the phase makes of it), `Timeout`; one mishap of the network |
| `Srtp` | SRTP and SRTCP contexts | `roc`, highest number, digests seen | `Protect`, `Unprotect`, `ProtectReport`, `ReportClear` |
| `Rtcp` | an RTCP instance | `part`, the statistics of the other end; `senders`; own counts | `TakeRtp`, `TakeReport`, `TakeBye`, `Report` |
| `MediaSession` | two ends with all three | `config`, contexts, packets and reports under way | `Open`, `Send`, `ReceiveRtp`, `ReportTimeout`, `ReceiveReport`, `Stop` |
| `Board` | JTAG chain, FPGA, serial flash (external) | TAP, instructions, flash content, write enable, busy | `Rise`, `Fall` an edge of TCK, `Apply` a sequence of clocks |
| `IoBase` | `iobase.cpp`, `ioftdi.cpp`, `jtag.cpp` | `state`, `tms`, `usb` | `SetTapState`, `ShiftTdiTdo`, `FlushTms`, `MpsseSend`, `ShiftIr`, `ShiftDr` |
| `ProgAlgSpi` | `progalgspi.cpp`, `progalgxc3s.cpp` | | each function a list of steps |
| `Papilio` | `butterfly.cpp` working those lists off | `todo`, `type`, `pages`, `result` | `JtagOperation`, `SendCommand`, `Poll`, `Compare`, `Spi_Identify`, `UsbFails` |

`MC*` modules give constants their values where a `.cfg` cannot write them.
`RoverProofs`, `ControlPathProofs` (of `ControlLink` and `SLCan`, whose
specification is `CanSpec`), `LoggerProofs` (of `ValveLog` and `WaterLog`),
`PulseMeterProofs`, `SvfPlayerProofs` (with the tables of `Tap`),
`MediaSessionProofs` (with the handshake of `Zrtp`), `VideoStreamProofs` (of the
ring of `Camera`, the stream of `RtpGeneric`, the screen of `Viewer`) and
`H26xStreamProofs` (of `H26xSender`, `H26xReceiver`) hold the theorems.
Variables marked *ghost* record history for a property and guard nothing.

Choices that shape the models:

* **Granularity of the rover.** Each write of a PWM pin is a step, and a
  millisecond may pass between any two steps.  `loop()` never blocks; the
  only real-time assumption is that `drivesOff` is checked at least every
  `LoopMs` (guard of `Tick`).  A frame can be accepted any number of times
  while `pc = "input"`.
* **Positions instead of characters.** `SLCan` moves positions of the wire
  through ring and buffer, so that a property can say where the bytes of an
  accepted line came from.  Which position holds which character is fixed by
  the frames sent, which collide on purpose.
* **Failures.** Any pin operation of the player may fail, before or after the
  edge; a delay may fail after any number of its clocks.  A transfer of the
  water logger may fail before or after the meter has cleared its count.
  A valve input may fail in any scan.  The USB link of papilio-prog may fail at
  any step.  The network loses, doubles and overtakes a bounded number of
  packets, anywhere.
* **The build.** `linux` is chosen in the initial state of `SvfPlayer`: the
  user-space pins of `svfctl()` or the FreeBSD driver, which differ in what a
  failing delay reports and in how the shutdown fails.
* **Uninitialised values** are chosen in the initial state among what they may
  hold: the member `FlashType` of papilio-prog (`Settings`), the field
  `probation` of a participant (`Leftovers`).
* **Records and operators.** The sender of a video frame, an endpoint of the
  handshake, an RTCP instance and the chain of papilio-prog are records, and
  each function of the code an operator from one such record to the next: a
  call of the code runs to its end before anything else happens to them.
* **Symbols instead of bits.** On the chain of papilio-prog a symbol stands for
  the bits that belong together (an instruction, an IDCODE, a flash command).
  Pictures are numbers, with a number for each part or half where tearing can
  be seen.  A key is what it was derived from.

## 3. The runs

All runs pass.  Sizes are distinct states.

**rover_timing** (`MCRoverTiming.cfg`; 306 000).  Wrap 13, dead-man
period 5, servo 2, telemetry 4, loop latency 2, one command.  No period divides
the wrap, so that every phase of every timer meets it; `OffMs + LoopMs < Wrap`
is the only relation the code needs (200 ms against 2^32).
`DeadManSafe`, `NoEarlyStop`: drives go off within a period and a loop latency
of the last setpoint and never before a period, although the timer runs, and
fires, while they are off.  `ThrottleLatency`: since `disable()` clears neither
setpoint nor PWM, an enabling frame can move the rover at an old throttle, but
only for a servo period and two latencies.  `ImplementsDeadMan`: the sketch
refines `DeadMan` with its fairness, so silence does stop the drives.

**rover_data** (`MCRoverData.cfg`; 2.9 million).  All periods 1 or 2, four
frames (both directions, both saturations, beyond 10 bits), ADC readings at
both ends and near the trim: `NoShootThrough`, `SteeringInsideLimits`,
`TelemetryHonest`.  The properties depend on order and data, not on the lengths
of periods.

**slcan** (`MCSLCan.cfg`; 393 000).  Three six-character frames through a ring
of two, dropped characters anywhere and of any number, line buffer of 14:
longer than two frames and shorter than three, so that the restart happens.
`NoSplice` bounds what the protocol, which has no checksum, can promise: a
splice needs a whole frame's worth of losses between two line ends.
`IntactFramesHandled`: a frame that arrives whole is acted on.

**control_link** (`MCControlLink.cfg`; 232 000).  Timer period 2, network delay
at most 1, rover's grace 4 and limit 5 (100, 200 ms and the loop latency), full
deflection -32768, one stick event per millisecond.  Period plus delay is less
than the grace, as the code's 100 ms against 200 ms leaves room for.
`CutStops`, `NoStopWithoutLoss`, `Converges`.

**valvelog** (`ValveLog.cfg`; 165 000).  Three valves (two to relate, one to
fail), one failing read per life, restarts: `LogTrue` (each valve, and the
system events while no read fails), `OnIsLogged`.

**pulsemeter** (`PulseMeter.cfg`; 2.5 million).  Two-bit debounce counter,
three-bit words, host edges at least three clocks apart: the least the
synchroniser needs, at two the echo fails.  The contact bounces freely.
`OnePulsePerClosing`, `ReadsAreTrue` (no pulse lost or counted twice, the echo
is what was sent), `ImplementsAccumulator`.  (With a one-bit counter the two
zeros the synchroniser starts with pass for a closing; the real counter has
eight.)

**waterlog** (`WaterLog.cfg`; 5 000).  Accumulator of four, six pulses (so
that it wraps), two faults: `EveryPulseOnce`, `StopEventuallyMarked`.

**svf_player** (`MCSvfPlayer.cfg`; 177 000).  About 115 files that between them
visit every TAP state, scan with empty and non-empty headers, data and
trailers, end in every kind of state and make each kind of error; both builds,
any initial device state, two failing pin operations, delay calls of at most
two clocks.  `HostFollowsDevice`, `LeftInOrder`, `ExactBits`,
`MismatchReported`, `AccountsTrue`, `Terminates`.  `FileAssumption` says what a
file of the model is; RUNTEST in RESET is excluded by it, see below.

**video_stream** (`MCVideoStream.cfg`; 115 000).  A ring of two buffers, three
pictures of three, two and one packets, eight sequence numbers, starting at 0
or just before their wrap, one fault of the network; or the viewer's own
camera.  `FramesArrive`: a frame handed over is one whole push or one packet of
one, and an untouched push arrives exactly once.  `NoTearWhileKeepingUp`: what
is sent is of one picture unless the driver filled a whole ring meanwhile.
`ShownInOrder`, `LastPictureShown`.  Two buffers suffice because a loop holds
one at a time.

**h26x** (`MCH26x.cfg`; 480 000).  A hundred and sixty layouts of two units,
every alignment of the second start code against the scan's words and the
stopper byte with zeros beside it; nine shapes of frames, in pairs, of large,
small, tiny and intra units over the three formats, with up to two packets
lost, doubled or overtaken and frames that grow too old, sequence numbers from
0 or close to their wrap of 16.  `FramesSent`, `UnitsIntact`,
`UnitsArriveOnce`, `GivenUpForGood`.  Where a property excludes frames the code
does not handle, the definition says which (`OrderlyFor`, `Simple`, `OwnOnly`)
and the list below says why.

**session** (`MCMediaSession.cfg`; 623 000).  Ten combinations of key
exchange, authentication, replay protection, reports and senders; one fault in
the handshake, one on the way of the media; eight sequence numbers, from 1 or
5, so that five packets wrap.  `KeysAgree`: an end that is done has the other's
keys, and the other is done or about to be.  `HandshakeRight`: every fault but
the five of `Fatal` is recovered from.  `MediaReadable`: a frame is handed up
as it was sent wherever the roll-over counters are bound to agree, and refused
the second time where replay is protected against.  "The second time" means
that it was readable before (`readable`), not that it came before: between two
authenticated senders a packet that is refused while the counters disagree is
not remembered, and its copy may be accepted once they agree again; the tenth
combination has such streams.  `ReportsTrue`: the packets an end calls dropped
were sent and have not come in, or after a jump; a report announces the blocks it
has and can be read.  `SomeoneReports`.  What `ReportsTrue` says of
`dropped_pkts` needs fewer faults than `MAX_MISORDER`: a packet that is that many
late counts as a jump, and may start the count again.  The tries of the handshake
are the code's 20 and 10.

**papilio** (`MCPapilio.cfg`; 173 000).  Every command and option, images of
one to three pages, flashes of two to four pages of every kind and content,
fast, slow, protected or unknown, chains of one to three devices, a USB buffer
of six clocks and a TMS buffer of ten bits, the link failing anywhere.  `ChainTrue`: once all that waits is
sent, TAP, instructions and the commands the flash has heard are what the
program believes.  `ResultTrue`: it says success only if the flash holds the
image or is blank, and does not fail on a chip it knows (`Trusted`, `Healthy`
say which those are).

`svf_player`, `video_stream`, `h26x`, `session` and `papilio` model programs
that end, or streams with a fixed number of frames, so deadlock is not checked
there.

### Fairness

| Specification | Fairness | Why the code justifies it |
|---|---|---|
| `Rover` | WF of `Thread`, of `Tick` | a single bare-metal loop without blocking calls; the hardware counts |
| `ControlLink` | WF of `TickCb`, `HandleEvent`, `Network`, `RoverStops`, `Millisecond` | SDL's timer thread and event loop run; a datagram arrives or is lost; the switch is `Rover`'s; nothing obliges a program to start, the stick to move or the network not to lose |
| `ValveLog` | WF of `Scan` | the timer keeps expiring; valves, failures and restarts owe nothing |
| `WaterLog` | WF of `Transfer`, `Record` | the loop goes on; a bounded number of faults leaves transfers enabled |
| `SvfPlayer` | WF of `Next` | the program keeps running; finitely many failures |
| `VideoStream` | WF of `Driver`, `Capture`, `Sender`, `Dispatcher`, `Decoder`, `Display` | threads and the camera run; the network owes nothing, the user need not quit |
| `MediaSession` | WF of `Runner(p)` | the RTCP thread polls with a timeout in a loop |

The other specifications state safety only.  `Terminates` uses the bound on
failures: with a pin that never works again `cb_play_udelay()` loops for ever.

### What the code does that its comments do not say

Met while modelling; the properties above are stated for what the code does.

* Valve logger: "Rising edge, valve turned on" (`valvelog.c:132`): after a
  failed read a valve that stayed on is logged on a second time, because the
  failed read leaves its bit clear in `io_past` and logs no off event; for the
  same reason "all valves turned off" (`:162`) may be logged while one is on.
* Water logger: "Emit a zero record any time water was flowing then it stops"
  (`waterlog-ekm.c:157`): a restart in between forgets `last_count`.
  `pulsemeter/README.txt:12` says a host "only needs to read, add": a transfer
  rejected after chip select has cleared the count.
* Player: "Returns: non-zero on failure" (`svfload.c:351`): a pulse whose pin
  operation failed keeps the expected value in `tdo_val` and compares as a
  match, so a play whose pulses never arrived returns 0.  RUNTEST clocks with
  TMS = 0 in every run state (`svf.c:526`): in RESET the first clock moves the
  device to IDLE while the host stays in RESET.  The Linux shutdown returns the
  result of its last pin only; the FreeBSD driver's error keeps its count from
  being copied out.  A scan with no bits clocks one bit through; EXIT2 states
  can be walked to only from the pause state beside them; ENDDR lets an unknown
  state through, and only the walker's own limit ends the walk to it.
* Client: `joystick-input.c:183` calls axis zero the steering; the code below
  uses axis 2.
* Video: the buffer is back with the driver before its caller reads it
  (`mjpegcam.cc:141`); `tbuff` is shared without a lock (`recvjpegsdl.cc:162`),
  so that a frame on screen may be of two pictures until the next redraw; a
  generic frame across the wrap of the sequence numbers is put together with
  its parts swapped, and a doubled packet counts for a missing one
  (`media.cc:118`, `:123`).
* Start codes (`h26x.cc`): across two words they are missed when a byte that
  follows is zero (`:146`); a three-byte code that ends a word is taken for one
  of four (`:65`); the stopper byte can make one (`:101`); the last eight
  bytes are not scanned; a frame shorter than eight bytes has the byte before
  it overwritten.
* H.265 sender: one small unit before a large one reads a null pointer
  (`h265.cc:116`); a last small unit behind collected ones is not sent (`:97`);
  a second large unit spoils the lengths in the aggregation; H.264 keeps
  collected units for the next frame; a frame given up leaves its packets in
  the transaction (`queue.cc:185`).
* H.26x receivers: the first packet to arrive is filed under its own number
  whatever it is (`h265_pkt_handler.cc:212`, against the comment at `:242`);
  duplicates are counted; `intra` is a local, so the intra-delay logic never
  acts (`:137`).
* ZRTP: a lost or overtaken Hello, a lost HelloACK, a lost Conf2ACK (sent once,
  `zrtp.cc:567`) and a stray datagram each end the handshake.
* SRTP: one roll-over counter serves both directions; the rule for late packets,
  `seq + MAX_OFF < MAX_OFF`, is never true (`srtp.cc:90`, against the comment
  at `:79`); with authentication a packet with the highest number is refused,
  and all after it; replay protection alone does nothing (`session.cc:62`);
  what is refused is handed up all the same (against `pkt_dispatch.cc:189`).
  SRTCP encrypts under 16 bits of the number it decrypts under in full.
* RTCP: a report before the first RTP packet makes a participant whose
  probation is uninitialised, after which that end never reports; a pure sender
  never sends a sender report (against `rtcp.cc:138`); after a goodbye the thread
  polls a closed socket and spins; media after a goodbye makes a participant
  without a socket, and stopping then crashes; the wrap count stays zero.
* papilio-prog: `FlashType` is never set for an Atmel chip (`progalgspi.cpp:127`
  reads it); a DataFlash page beyond 1024 aliases another, and wide pages never
  verify; `EraseSpi` can return true with the upper half not erased;
  WRITE_ONLY returns true although nothing was written; a later check overwrites
  a failed one; waits do not flush the USB buffer, so they pass before what they
  wait for was sent; the last TMS bits are never sent and the TAP stays in
  EXIT1-IR; the program exits with 0 after "Error occured."; a flash behind a
  chain of several devices is read out of step and never identified.

## 4. What is proved

| Theorem | Module | States |
|---|---|---|
| `TypeCorrect` | `RoverProofs` | `Spec => []TypeOK` |
| `DeadManAlways` | `RoverProofs` | `Spec => []DeadManSafe` |
| `NoEarlyStopAlways` | `RoverProofs` | `Spec => NoEarlyStop` |
| `Refinement` | `RoverProofs` | `Spec => DM!DMSpec` |
| `NoShootThroughAlways` | `RoverProofs` | `Spec => []NoShootThrough` |
| `SteeringInsideLimitsAlways` | `RoverProofs` | `Spec => []SteeringInsideLimits` |
| `TelemetryHonestAlways` | `RoverProofs` | `Spec => TelemetryHonest` |
| `ThrottleLatencyAlways` | `RoverProofs` | `Spec => []ThrottleLatency` |
| `NoSpliceAlways` | `ControlPathProofs` | `CanSpec => []NoSplice` |
| `IntactFramesHandledAlways` | `ControlPathProofs` | `CanSpec => []IntactFramesHandled` |
| `CutStopsAlways` | `ControlPathProofs` | `Spec => []CutStops` |
| `NoStopWithoutLossAlways` | `ControlPathProofs` | `Spec => NoStopWithoutLoss` |
| `LogTrueAlways` | `LoggerProofs` | `Spec => []LogTrue` |
| `OnePulseAlways` | `PulseMeterProofs` | `Spec => []OnePulsePerClosing` |
| `MeterIsAccumulator` | `PulseMeterProofs` | `Spec => ImplementsAccumulator` |
| `ReadsAreTrueAlways` | `PulseMeterProofs` | `Spec => []ReadsAreTrue` |
| `EveryPulseOnceAlways` | `LoggerProofs` | `Spec => []EveryPulseOnce` |
| `WalkIsFaithful` | `SvfPlayerProofs` | every round of the walker predicts the device |
| `ResetFromAnywhere` | `SvfPlayerProofs` | five of the six pulses of INIT reach RESET from any state |
| `HostFollowsDeviceAlways` | `SvfPlayerProofs` | `Spec => []HostFollowsDevice` |
| `LeftInOrderAlways` | `SvfPlayerProofs` | `Spec => []LeftInOrder` |
| `MismatchReportedAlways` | `SvfPlayerProofs` | `Spec => []MismatchReported` |
| `ExactBitsAlways` | `SvfPlayerProofs` | `Spec => ExactBits` |
| `AccountsTrueAlways` | `SvfPlayerProofs` | `Spec => []AccountsTrue`, for files of fewer than `MaxTck` clocks |
| `SetTapStateIsFaithful` | `SvfPlayerProofs` | every step of papilio-prog's walk predicts the device |
| `HandshakeInvAlways` | `MediaSessionProofs` | `Spec => []HandshakeInv` |
| `KeysAgreeAlways` | `MediaSessionProofs` | `Spec => []KeysAgree` |
| `MediaReadableAlways` | `MediaSessionProofs` | `Spec => []MediaReadable` |
| `ReportsTrueAlways` | `MediaSessionProofs` | `Spec => []ReportsTrue`, if no configuration has `MAX_MISORDER` faults |
| `NoTearAlways` | `VideoStreamProofs` | `Spec => NoTearWhileKeepingUp` |
| `FramesArriveAlways` | `VideoStreamProofs` | `Spec => []FramesArrive` |
| `ShownInOrderAlways` | `VideoStreamProofs` | `Spec => ShownInOrder` |
| `UnitsIntactAlways` | `H26xStreamProofs` | `Spec => []UnitsIntact` |
| `GivenUpForGoodAlways` | `H26xStreamProofs` | `Spec => []GivenUpForGood` |

They hold for all constants under the assumptions the modules declare:
`WrapAssumption` (`MTimer`), `TimingAssumption` (positive periods,
`OffMs + LoopMs < Wrap`), `DataAssumption` (bytes, 10-bit readings),
`SLCanAssumption` (an identifier of digits, at most eight data bytes, frames of
them, and the longest frame fits in `_rxbuf`, which `SLC_MTU` is made for),
`LinkAssumption` (a period and a delay fit in the grace, the grace in the
limit), a debounce counter of more than one bit (`DebounceAssumption`), a word
of at least one (`WidthAssumption`, `WordsAssumption`), a host whose edges are at
least three clocks apart (`HostAssumption`: half a period of the default 100 kHz
has nine of the 1.8432 MHz clock), what powers of two are
(`PowersAssumption`, arithmetic the provers do not know), `FileAssumption` (a file is a
sequence of commands whose arguments have the types the parser gives them, and
RUNTEST waits in IDLE or a pause state), `ZrtpAssumption` (two peers),
`SrtpAssumption` (sequence numbers and `MAX_OFF` are positive),
`SessionAssumption` (a configuration's flags are Booleans,
its senders peers, its numbers of packets and of faults natural numbers),
`RtcpAssumption` (`MAX_DROPOUT` and `MAX_MISORDER` leave room between them in a
cycle), `CameraAssumption` and `SizeAssumption` (a ring of at least two buffers,
which `VIDIOC_REQBUFS` is asked for, and pictures of one to three packets),
`RtpAssumption` (more than six sequence numbers, which are 16 bits wide),
`SourcesAssumption`.
`ThrottleLatencyAlways` also assumes that its own bound is at most a turn of
`millis()`, `ReportsTrueAlways` that the network holds no packet back by
`MAX_MISORDER`, which is 100: fewer faults than that in all, and
`AccountsTrueAlways` speaks of the states in which `total` has not reached
`MaxTck`, where the model (and not the code) stops counting.

**The dead man's switch.** `DeadManSafe` is not inductive: `age`, the ghost that
measures silence, says nothing about the timer.  `DeadManInv` relates three
clocks while the drives are on: the timer's distance to its `_last`, modulo
`Wrap`, is `age` (`TimerIsAge`), and at the last check, `lag` milliseconds ago,
the period was not yet over (`NotYetFired`).  The lemmas on distance on the circle of `Wrap` values
are where the wrap-around is dealt with; that a period and a latency fit in one
turn is what makes "elapsed" unambiguous.  `NoEarlyStop` and the refinement use
the same invariant, read in the other direction.

**The throttle's latency.** `LatencyInv` bounds `wait` by the servo timer:
between checks by what has elapsed on it, which passes its period by no more
than a loop; while the drives are being written, by what it was at the check
and the time since.

**The bridges.** `BridgeInv` ties the pins to `pc`: after the first write of
`drive()` the pin that is to stay idle is zero, whatever the earlier command
was, so the second write never completes a pair.  `CarryInv` adds that
outside `drive()` the pins are those of the error the fields give, and how far
a computed setpoint may go: honest telemetry, and steering inside its limits.

**Serial reception.** The buffer holds positions of the wire in order, without a
gap among what was read and without a line end (`BufferOK`); a restart in the
middle only drops the first of them.  A line as long as a frame that begins
with a `t` and ends with a CR then either is a frame or is stretched over two
or more (`FrameOrTwo`); in the second case what it does not hold was not
received, at least a frame's worth (`GapCount`).  For `IntactFramesHandled`,
`WholeOK` says that from a line end on the buffer is the frame so far, however
the lines before it were cut up; that is where the buffer must have room for a
frame.

**The link.** `CutStops` needs what is under way: `LeftOvers` says a
datagram is at least as old as its sender has been gone, `ClientSilence` and
`BridgeSilence` that the rover's silence is at most the delay shorter than a
program's absence.  `NoStopWithoutLoss` needs the next setpoint: `NextIsComing`
says it is in the timer, in the event queue or in the air, early enough in each
of the three for a silence of at most a period and a delay.

**The valve log.** `LogTrue` speaks of the moments between scans.  `LogInv`
splits a scan at the input it has come to: the inputs before it have their last
read in `prst`, the others in `past`, and the log of each agrees with that.

**The meter.** `DebounceInv` relates the counter to the ghosts that count
samples: `Counting` says how many equal ones in a row lie behind it, `Rest` that the wire has
rested since the last pulse wherever the next one can begin; the first clocks
after power up are a case of their own.  The refinement is a split on whether a
clock loads the shift register, when the accumulator starts again from the
pulse of that very clock.

**A transaction with the meter.** `ReadsAreTrue` compares the word before and the
word after; `ReadInv` says where a transaction has come to between.  The bits
the host has read, followed by the shift register, are one number: the count
the register was loaded with, followed by as much of the pattern as has been
sent (`FirstWord`, and past the first word `SecondWord`, where the count has
left the register and the pattern follows itself).  For that to hold at every
clock, a bit on its way through the synchronisers counts as shifted in
(`Settled`), a chip select on its way as a count still to be loaded (`Loading`);
`LinesOK` and `MosiOK` say which is the case from the host's lines and the
clocks since its last edge, and are where three clocks between edges are needed.
The number of a string of bits is a recursive function, and what an appended
bit does to it is shown by induction on the length: over the set of lengths for
which it holds, with the least-number principle of the library, since its
induction theorems take the formula as a parameter.

**The water log.** The property is inductive with the types; the work is in
the lemmas on `%` that carry "up to whole turns" through a wrap of the
accumulator.

**The player.** `Follows` alone is lost at the next call: what is left in `jobs`
must fit the state (bits left to shift imply the shift state or a walk to it
first, a delay implies a state that clocks do not leave), and INIT, which does not know
the device's state, needs to count its pulses.  `PlayerInv` says so for every
phase.  `Clocked` has a closed form because two clocks with TMS = 0 reach a
state a third does not leave, unless they start in RESET; hence the assumption
on RUNTEST.  `MismatchReported` follows a mismatch from the bit through
`tdo_error` and the jobs behind it to `rc`.

**The bits of a scan.** `ExactBits` says of a finished scan that header, data
and trailer went out whole.  `ScanInv` says where a scan that is not finished
has come to: `ScanStage` finds the stage from the calls left in `jobs`, and
`Stage` says for each one which parts are shifted in full, how far the part at
hand is and which are still untouched.  Parts without a bit and the part that
leaves the shift state (`Last`) are cases of their own, and a walk must arrive
(`WalkArrives`): one that gives up is an error, after which nothing is promised.

**The clocks counted.** Analysis and play run the same file at different times,
and nothing in the play's state says what the analysis came through.
`AccountInv` therefore says that there is a sequence of places, `Way`, from the
start of the file to RESET, each the one that follows (`AfterPlace`, a function
of the file and the place alone) and each with the clocks counted by then; while
the analysis runs it ends where the analysis is, and the play is at one of its
places with the same count (`OnTheWay`), or some clocks into the delay that
begins there, however often that has failed halfway.  The play may meet an error
where the analysis met none.  Then it leaves the way and walks to RESET, and must
not count more than the rest of the way did: clocks counted and clocks still to
RESET together (`Sum`) never become fewer along a way, since a clock brings the
port at most one step nearer to RESET (`FarNear`).  `EdgesAccounted` is inductive
with the types.

**The handshake.** What `KeysAgree` promises of the other end is an induction
over messages.  `HandshakeInv` says what each message not yet read proves of
the one who sent it (`Backed`): a Confirm shows the secret its sender uses and
its role, the Conf2ACK says that the responder has succeeded.  In multistream
mode the MAC of a Confirm is made with the keys of the first stream
(zrtp.cc:187-195 derives them in Diffie-Hellman mode only), so it shows nothing
of the new secret; there the invariant says that both ends hold the only secret
there is for these two roles (`Msk`): the hash over both ZIDs, the responder's
Hello and the initiator's Commit.  All this stays true
while the message is under way, however often it is doubled and whatever
overtakes it, because no step takes it back (`Kept`, proved once per phase in
the lemmas `...Outcome`).  Hence an end that reads the last message of the
other one knows what `Paired` says of it.  Loss needs no argument: it only takes
messages away.

**The protected stream.** A packet is read when the receiver's roll-over counter
is the one it was encrypted under.  Where nothing is overtaken by a packet that
ends a cycle, the counters along the queue agree with the receiver's (`Flow`):
each packet's cycle follows from its number (`NextCycle`), taking the first one
moves the receiver's counter as sending it moved the sender's, and losing or
overtaking one inside a cycle does not show.  Where the code lets the counters
part (authenticated or two-way streams across a wrap), `Quiet` is what is left:
no counter has moved yet.  Replay protection is the relation of the digests
remembered to the packets read (`ReadOK`).

**The reports.** A participant's statistics are four numbers of which two have
been reduced modulo a cycle, and `dropped_pkts` is what they leave.  `Tally` says
which packets they stand for: `base_seq` and `max_seq` are the numbers of two
packets that have come in, the one not after the other, and whatever has come in
from the first on and was not ignored is among those `received_pkts` counts.
The numbers of two packets never lie further apart than the packets (`NumSpan`),
so no more are expected than have come in or are missing (`ExpectedMissing`).
Each of the four outcomes of `update_participant_seq()` keeps that
(`SettledTally`), on one condition: a packet that is late must be told by its
number (`NumLate`), or the count would go backwards.  How late it can be is in
`Flight`: packets are under way in order but for the first, and only a fault holds
that one back.  On probation the same bound excludes that a late packet passes for
the next in sequence (`NumNext`).  That a report can be read follows from the
keys of `MediaInv`, that it announces its blocks from `num_receivers_` and
the map of participants changing together until the socket is closed (`HeardOK`).

**The ring of capture buffers.** The loop gives a buffer back before it reads it,
so nothing in `NoTearWhileKeepingUp` follows from who owns the buffer.
`CameraInv` follows it through the ring: every buffer is in one of the queues or
in the loop's hand (`Partition`), what waits is complete (`Recorded`), and the one
in use is the last the driver will come to, still whole until it is the next
(`InHand`).  Hence a torn picture costs a whole ring of filled ones (`Waiting`
counts them).

**The stream.** Sequence numbers wrap, so a packet's number does not say which
push it is of, and the receiver goes by the timestamp, two markers and a count.
`StreamInv(b, n)` therefore speaks of two functions that no variable holds, the
first number and the number of packets of each push (`StreamOK` says they exist).
They fix every packet ever sent, so what is under way is a selection of those in
their order (`UnderWay`).  The table is where it is decided: unless a packet was
doubled, an entry counts its fragments (`Exact`), none of them is under way any
more (`Unmet`), and the two markers it has seen are the first packet and the last
in either order.  A count that equals the distance between the markers then
means all packets, and nothing less does; when the last packet overtook the
first or the numbers wrapped, the frame comes out turned (`Turned`), as the code
leaves it.  `CleanArrive` follows a push that no fault has touched: its first `k`
packets have arrived, the others are under way or still to be sent, and it has
been handed over if and only if `k` is all of them.  That fragments are joined in
the order of their numbers is shown with ranks in a finite set, and that a doubled
packet can at worst leave an entry behind or hand over a frame with a hole, of
which the property says so, is the one case `Exact` leaves out.

**The screen.** Two threads share `tbuff` without a lock.  `Stages` orders each half
of the picture from the texture back over `tbuff`, `bmp_buffer` and the decoder's
input to what is still to come: a later stage never holds an earlier picture,
whichever half was copied last.  It is claimed only while nothing has been
overtaken (`ViewInv`).

**H.26x.** Nothing a receiver knows tells it which packets belong to a unit: it
counts, and compares the count with the distance between two markers.  That this
suffices rests on what the sender sends.  `PushFrameSends`, at the end of one lemma
for each of its functions, says so: whatever the bytes of the frame, and whatever
an earlier push left in the transaction, the fragments of a push form runs
(`Runs`), each the parts of one unit in order under consecutive numbers, no unit
twice.  Two invariants follow each push from there.  `Ordered`, while none of its
packets was lost, overtaken or doubled: what is under way is the rest of its run,
and its entry holds the run as far as it has come (`Half`), at the places
`Place` computes across the wrap; or more packets than there are numbers, and
then it can never be complete (`TooMany`).  `AnyOrder`, for a push with one unit in
fragments that does not wrap and no packet of which was doubled: the entry's
count is the number of different fragments it holds (`Scattered`), those without
their first one wait apart, and a count equal to the distance between first and
last leaves no number out.  `StreamInv` joins the two for all pushes with the
table (`TableIn`: no entry under a timestamp that was given up, from which
`GivenUpForGood`) and with what the application has.  A push that sends
leftovers of a failed one is outside both, as `OwnOnly` says.

**TAP tables.** Finite, but the theorems are about the operators, and the first
two are what the player's invariant rests on.

Liveness, fairness and everything that needs ENABLED stay with TLC
(`ImplementsDeadMan` with its fairness, `OnIsLogged`, `StopEventuallyMarked`,
`Converges`, `Terminates`, `LastPictureShown`, `SomeoneReports`).  Also
model-checked only: `HandshakeRight` of `MediaSession`, which is not true of every
value of the constants (with as many faults as a phase has tries the handshake
times out) and so is checked with the code's 20 and 10 tries and one fault;
`FramesSent` of `H26xStream`, which
compares the bytes of a frame with a reference cut of it, and `ChainTrue` and
`ResultTrue` of `Papilio`, whose lists of steps are folds: both are inductions
over data, which the provers do not have.  `UnitsArriveOnce` is meant for units of
fewer packets than there are numbers, as in the run; a larger one can never be
put together (`TooMany`).

## 5. What is not modelled

* **uvgRTP**: SDES and APP packets (nothing sends them by itself), the
  keep-alive of the hole puncher, several sockets per stream, slices pushed
  by the user (`RTP_SLICE`), the getters of RTCP packets,
  and the cryptography, of which only who shares which inputs is modelled.  Data
  races on the map of participants are left out, and so is what the detached
  RTCP thread does when `destroy_stream` finds it in `poll()` (`rtcp.cc:74`): the
  instance is deleted under it (`media_stream.cc:171`), it wakes up within
  `MIN_TIMEOUT`, and what follows is undefined.  In the model the thread ends with
  `Stop`.
* **papilio-prog**: parsing of bit files and of the device list, appending data
  to an image, selecting another device than the first (`main` never does); a
  read that comes back short after a hundred tries with `errno` zero
  (`ioftdi.cpp:321`), which the callers do not notice: `UsbFails` takes every such
  read for an exception, as it is with the `EAGAIN` an empty transfer leaves; the
  mask `&80` for a read of 8n + 1 bits (`ioftdi.cpp:229`), of which there is none.
  A wait may run over the end of the TMS buffer (`iobase.cpp:82` looks for room for one
  bit only); that takes a chain of hundreds of devices, the run's stays within
  `TmsSize`.
* **IDCODE scan** (`scan.c`), **XSVF files** (`xsvf.c`, compiled but never
  selected), parsing of SVF text: the files of the model are sequences of
  commands already read.
* **Decoder of `SLCan.cpp:84`**: from two data bytes on it decodes one byte more
  than the frame has; the only callback reads the four bytes it should.
* **Video**: the statistics counters, which three threads change without a lock
  and which are only printed; opening the camera; JPEG and SDL.
* **FreeBSD modules** beyond the pulse, delay and pin handling: loading, sysctl,
  parallel port variant.
* **Formatting, logging, command lines, `LimitSwitch`** (instantiated nowhere),
  `read-max31865.c` (prints registers once) and libxsvf's own tools, which this
  repository does not build.

## 6. Order of work

The modules were written most important first: rover and its proofs; serial
receiver; valve logger; meter and logger; control link; player; video; video
formats; session; papilio-prog; then the proofs of the smaller components.
What is left, in the order in which it seems worth doing:

1. Proofs of what papilio-prog promises.
2. An abstract specification of a protected one-way stream that `MediaSession`
   refines, and of the flash that `Papilio` writes.
3. The IDCODE scan over `Tap`; the decoder of `SLCan` as a pure function.
