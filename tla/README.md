# TLA+ models of the LBNL cell controller

The cell controller closes the fast orbit feedback loop of a storage ring. An
FPGA collects beam position errors from the neighbouring cells, computes
setpoints for the corrector power supplies of its own cell, sends them out as
UDP packets and records what comes back; a soft processor in the same FPGA
configures it, serves commands of EPICS IOCs over UDP and rewrites the boot
flash by TFTP. This directory holds TLA+ models of that program
(`src/gateware`, Verilog, and `src/software`, C), configurations that check
them with TLC, and proofs checked with TLAPS.

- [The system](#the-system): parts, state, interactions, hard behaviours
- [The models](#the-models): which module stands for which code, and how
- [The runs](#the-runs): what is checked, within which bounds
- [The proofs](#the-proofs)
- [Where the code differs from what is said of it](#where-the-code-differs-from-what-is-said-of-it)
- [What is not modelled](#what-is-not-modelled)
- [Plan](#plan)

`PROJECT.json` lists components, runs, the faulty variants that each property
is tried against, the source lines of every definition, the hazards and the
theorems.

## The system

Two kinds of concurrency meet in it. The gateware is a set of register-transfer
processes in several clock domains: all registers of a domain change together
on its edge, and the domains are unrelated. The software is one thread that
polls its services in turn (`main.c:79-86`), so that handlers never interleave
with one another; they interleave with the gateware between any two register
accesses, and with the network.

### Gateware

| Component | State | Operations | Correct if |
|---|---|---|---|
| Arbitrary waveform generator, `psAWG.v`, `psAWG.c` | control register, state machine, interval and setpoint counters, pattern memory and its addresses | commands of the IOC, trigger, sampling instant, word after word of a packet | samples go out in order, a packet is a word per supply, a trigger gives whole cycles |
| Setpoint multiplexer, `psMUX.v` | selection, output register | pass on one of two streams, switch between them | no packet is cut, lengthened or mixed; a request to switch is honoured |
| Setpoint transmitter and readback receiver, `fofbEthernet.v` | packet memory, toggles and their synchronisers in two clock domains, UDP state | store or toss a packet, hand it over, send it; receive a packet of readbacks | what is on the wire is the packet handed over, once and whole; never stuck; readbacks are handed over whole |
| Waveform recorder, `fofbRecorder.v`, `psWaveformRecorder.c` | two circular buffers, sample and channel counters, state machine, trigger location | arm, disarm, trigger, a setpoint, a readback, read out | the waveforms are the samples around the trigger |
| Feedback computation, `fofbCalc.v`, `fofbDSP.v` | coefficient memories and their write latches, accumulators, sequencing, fake impulse | load coefficients, one computation each fast acquisition cycle | a sum has all its columns; a coefficient gets where it was sent |
| Setpoint computation, `psSetpointCalc.v`, `psSetpointMonitor.v` | offsets, limits, soft start factor, pipeline of channel indices | one packet each cycle | every setpoint from its own gain, offset and limits; no jump at the start |
| Position errors, `errorConvert.v`, `forwardData.v` | a latch and a toggle each way | forward a sample between clocks | a sample is taken whole |
| Link statistics, `linkStatistics.v` | histogram memory, clear request | count, clear | every event counted once, every clear done |
| MMC mailbox, `mmcMailbox.v` | 2 kB memory, one port each side | byte reads and writes | values of two bytes are not torn |
| Event receiver, `evr_axi`, `evrGTXwrapper.v` | event decoder, time stamp, action memory, alignment detection, resets | decode, act, time stamp | see the software that controls it |
| Event FIFO, `evFIFO.v` | ring of events | record an event | the last events, in their order |
| I2C sequencer `i2cHandler.v`, `fifoUART.v`, counters, fans | bus sequencer, registers | transfers, measurements | one master of the bus at a time |

### Software

| Component | State | Operations | Correct if |
|---|---|---|---|
| Command server, `epics.c` | last nonce, reply buffer; partial FIR set, static flags of the dispatcher | handle a command or a retry | a retry is not executed again and gets its own results; every command ends |
| TFTP server, `tftp.c` | one session: file, address, room left, block number; reply buffer | requests, data, acknowledgements, sessions that time out | an acknowledged file is in the flash; what is read is the file |
| Boot flash, `bootFlash.c` | flash contents, protection bits | read, write with sector erase, protection check | no cell programmed twice without an erase, protected cells untouched |
| System parameters, `systemParameters.c` | parameter record with checksum | read at start, stash, change | a bad record is replaced by defaults; what is kept was confirmed |
| Receiver aligner, `mgt.c` | state and time of entry | crank | accepted only after a while of alignment; aligned in the end; no reset left behind |
| Event actions, `evr.c` | action word of each event | start, add, remove, read the time | one user does not remove another's action |
| Fast feedback configuration, `fastFeedback.c`, `fastMPS.c` | setpoint banks, link control registers | stash and swap, inhibit | the live bank is of one command; an inhibit is kept |
| Aurora links, `aurora.c` | link registers | reset, read statistics | resets in their order; a count that was there |
| Power supply Ethernet, `fofbEthernet.c` | two control registers | negotiate, fall back, set the readback | the start ends; both links usable |
| Mailbox reader, `mmcMailbox.c` | configuration asked for | read a value, check, configure | a value that was held; the start ends |
| I2C, `iicChunk.c`, `iicProc.c`, `mgtClkSwitch.c`, `user_mgt_refclk.c` | bus owner, multiplexer, EEPROM, oscillator | take and give the bus, write pages, set the clock | only the device that is meant answers; devices are as the caller is told |
| Eye scan, `eyescan.c` | place, which of two measurements, output position | crank a step | every place measured twice, with settings at rest; the scan ends |
| Console, `console.c` | serial and UDP buffers, question being asked, event log | a character, a line, an answer | characters in order; nothing done before it was confirmed |
| Main loop, `main.c`, `platform.c` | none of interest | poll each service | |
| Simulation target, `uart_fifo.c`, `simplatform.c`, `udp_simple.c` | ring, simulated registers, one datagram each way | keys, datagrams | nothing lost or overwritten; replies to the asker |

### How they interact

```
 IOC --UDP--> epics.c --GPIO--> psAWG.v --+
                 |                        +--> psMUX.v --> fofbEthernet.v --UDP--> power supplies
 links --> fofbCalc.v --> psSetpointCalc.v+        |              |
                                                   v              v readbacks
 TFTP client --> tftp.c --> bootFlash.c        fofbRecorder.v <---+
                                                   ^
                             psWaveformRecorder.c -+-- triggers
```

The streams between gateware modules are AXI streams (TVALID, TLAST, data)
without back pressure: whoever cannot take a word loses it. Registers are
written by the software through `GPIO_WRITE` strobes, one clock wide, at any
clock. Between clock domains there are toggles with two synchronising
flip-flops.

### What is hard

- *Any clock*: commands, triggers and strobes fall on any clock of a packet.
- *Two clocks*: memories and registers are guarded by nothing but the order in
  which toggles are seen, or by one clock being fast enough.
- *Registers in steps*: the recorder is armed by four writes, a coefficient
  goes through latches, setpoint banks are swapped by a bit of a register that
  other commands read, modify and write, all while the gateware runs on.
- *Words in pieces*: times, counts and mailbox values are read in two accesses.
- *Lost, repeated and late packets*: commands, retries, data blocks and
  acknowledgements; the server's one reply buffer is reused for all of them.
- *Partial failure*: erase succeeds and programming does not, a device does not
  acknowledge, the dispatcher rejects a command after the reply header has been
  overwritten, power goes in the middle of a write.
- *Waiting*: for a link, a marker, a microcontroller, a measurement or a filter
  that may never answer, in a program with one thread.
- *Shared resources*: actions of events, one I2C bus with two masters, one
  console with two lines and questions that wait for an answer.
- *Counters by sign bit*, loaded with a count minus two, and rings, whose ends
  are easy to miss by one.

`PROJECT.json` lists each under `hazards`, at the line where it bites, with
the properties that would show it going wrong.

## The models

| Module | Models | Steps |
|---|---|---|
| `PacketStream` | what a setpoint stream promises its consumer (abstract) | a pause, the first word of a packet, the next word |
| `PsStream` | `psAWG.v`, `psMUX.v`, control commands of `psAWG.c`; the feedback stream as `psMUX.v` sees it | an edge of `sysClk`, with at most one register write |
| `Mailbox` | what a handshake between clock domains promises (abstract) | put, take |
| `FofbEthernetTx` | transmitter of `fofbEthernet.v`; its input is `PacketStream` | an edge of `sysClk` or of the Ethernet clock |
| `FofbEthernetRx` | receiver of `fofbEthernet.v` | an edge of either clock, in nanoseconds |
| `ForwardData` | `forwardData.v` | an edge of either clock or of both |
| `LinkStatistics` | `linkStatistics.v` but the software's port of its memory | an edge of `sysClk` |
| `Feedback` | `fofbCalc.v`, `psSetpointCalc.v`, `psSetpointMonitor.v` | an edge of `sysClk` |
| `DspLoad` | gains, matrix elements and filter coefficients of `epics.c`, through the latches of `fofbDSP.v` to the memories and filters of `fofbCalc.v` | a register write; a sample of the feedback |
| `WaveformRecorder` | `fofbRecorder.v`, `psWaveformRecorder.c` | a word of a stream, a trigger, a register write |
| `EpicsServer` | `epicsHandler`, IOCs, network, restart | a packet handled, an action of an IOC |
| `EpicsCommands` | commands of `epics.c` into `fastFeedback.c`, `fastMPS.c`, `aurora.c` | a register access; the links' readers |
| `BootFlash` | `bootFlash.c` over a chip that erases sectors and clears bits | operators used by `TftpServer` |
| `TftpServer` | `tftpHandler` and all it calls, clients, network | a packet handled, an action of a client, time |
| `Parameters` | `systemParameters.c`, the console's questions and changes, restarts | a line, a file, a step of the flash write, a power failure |
| `ConsoleIO` | input and output of `console.c`, serial and UDP | a packet, a key, a turn of the main loop |
| `EventLog` | `tlog` of `console.c`, `evFIFO.v` | an event, a command, a turn of the crank |
| `EyeScan` | `eyescan.c` and what it needs of `drp.c` | a turn of the crank, the transceiver |
| `IicBus` | `iicChunk.c`, `iicProc.c`, `mgtClkSwitch.c`, `user_mgt_refclk.c`, the sequencer | a transfer, a step of the sequencer |
| `Mgt` | `mgt.c`, `drpControl.v`, alignment in `evrGTXwrapper.v` | a turn of the crank, the transceiver, time |
| `EventReceiver` | `evr.c`, trigger events of `psAWG.c` and `psWaveformRecorder.c` | an access to the receiver; its clock |
| `MmcMailbox` | `mmcMailbox.c`, `mmcMailbox.v` | a byte read; a byte updated |
| `EthernetLink` | `fofbEthernet.c` | a look at the register, a command, the core |
| `Deque` | what a queue promises (abstract) | put, take, drop |
| `UartQueue` | `uart_fifo.c` | an operation |
| `SimPlatform` | `simplatform.c`, `udp_simple.c`, on top of `UartQueue` | a turn of the main loop, a key, a datagram |
| `PsStreamProofs`, `EpicsServerProofs`, `TftpServerProofs` | theorems about the modules of that name | |
| `GatewareProofs` | theorems about `FofbEthernetTx`, `FofbEthernetRx`, `DspLoad`, `LinkStatistics`, `ForwardData` and the composition | |
| `ServicesProofs` | theorems about `Parameters` and `ConsoleIO` | |
| `SoftwareProofs` | theorems about the devices the software drives, and the simulation | |
| `IicProofs` | theorems about `IicBus` | |
| `RecorderProofs` | theorems about `WaveformRecorder` | |
| `MC...` | TLC instances | |

Names are the code's names wherever TLA+ allows. Each heading names the
module's abstractions and what is external to it; each `Bound:` constant is a
bound of the instance.

**Gateware.** A step computes every register from the values before the edge,
as nonblocking assignments do: the action of an edge is the conjunction of the
always blocks, and the branches of a state machine are its disjuncts. In
`PsStream` a pattern word is its address, which is what tells order and mixing
apart. `FofbEthernetTx` composes with `PsStream` through `PacketStream`: the
multiplexer is shown to implement it, and the transmitter is shown correct for
every stream that obeys it. A synchroniser's metastability is the choice of
which edge comes first, or of the old or the new value when both come at once.
In `FofbEthernetRx` no handshake guards the data, so that its correctness is a
matter of the clocks: time is counted in nanoseconds, a byte is known by its
value and place, and the clocks have any phase. `Feedback` keeps integers and
their widths, as clipping and wrapping are what it is about, but only the
columns taken into a sum.

**EpicsServer.** What the network may still deliver of an IOC's commands is
every command from `oldest` to `newest`, any number of times: retries and
duplicates are the same on the wire. The dispatcher is what it means for the
protocol: a command is executed and has results, or is rejected. The reply
buffer is split in the parts that change at different moments: nonce in the
header, arguments, size. What the commands do is in `DspLoad` and
`EpicsCommands`.

**BootFlash, TftpServer.** A cell is a byte, a block is two cells. Erase and
program are separate in what they do to cells, so that a missing erase shows as
`Garbage`. The chip may fail at each step. The timer is whether 30 seconds have
passed; as the counter of microseconds wraps, it may flip either way at any
time.

**WaveformRecorder.** A word is its cycle and its supply. `PrepareArm` and
`StartArm` are the writes of `psRecorderArm`: parameters, then control
register, with words in between. The readout is an operator,
`psRecorderFetch`, compared with `Waveform`, which is defined from the history
of samples and knows nothing of addresses.

**Software against devices.** A function of the software is split at its
register accesses wherever the device may change between them; where nothing
can, it is one step, as the software is one thread. `EyeScan` is resumed from
the main loop and so is a step a turn. A result in it is the settings it was
measured with, as they reach the registers: the bit that tells the two
measurements of a point apart (`eyescan.c:421`) does not, as the mask of the
register leaves it out (`eyescan.c:76,174`), so that both are taken alike; the
vertical offset is limited on the way (`eyescan.c:419`). `EventReceiver` tells
the users of an event's actions apart, of which the code knows only bits.

**DspLoad.** All values go through one register: an address and a high half are
latched, and the write of the low half takes what the latches hold then
(`fofbDSP.v:55-79`), into the memory of the command (`fofbCalc.v:165-184`) or
into the filter of the latched row (`fofbCalc.v:239-245`). A command is taken
element by element, an access a step. `wanted` is the history of what the IOC
sent, written when a command arrives, and never from the latches. Gains, limits
and offsets are handled alike, and one memory stands for all of them.

**IicBus.** A command of the processor is a sequence of transfers with an error
path each, as the code's early returns make it. A transfer reaches the device
that is meant only if the multiplexer leads to it (`Reached`). Otherwise it may
be acknowledged all the same (`Misled`): by a device of the same address at
another port, or, when the processor took the bus from a sequencer that had not
stopped (`late`, `iicChunk.c:149-153`), by any device that still holds the data
line. `stray` records that. While the processor has the lines the sequencer is
cut off from them (`common_cctrl_top.v:228-233`): it goes on, does not move the
multiplexer, and its scans read nothing (`NoBus`). A device is `doubtful` if the
last report of it was by a command that was late; the report is then not claimed
to be true. `kept` is the history of the one command that does not give the bus
back, as it did not find the oscillator (`user_mgt_refclk.c:233-237`); no other
command may leave the processor with the bus.

## The runs

Modules that share no state are checked on one instance: `part` is chosen in
the initial state, the specification of that part runs and the others rest in
an initial state of theirs. Every behaviour of every part is there, and each
fairness condition is conjoined with its part, so that the others may rest. A
property of several parts, which stand in brackets, is their conjunction. A run
passes unless marked *violation*; those are explained
[below](#where-the-code-differs-from-what-is-said-of-it).

| Run | Parts and question | Bounds |
|---|---|---|
| `ps_timer` | Paced by the interval counter: `StreamSpec` (the output implements `PacketStream`), `PatternInOrder`, `WholeCycles`, `ReleaseHonoured`, under any interleaving of commands, triggers and feedback packets | 3 supplies, pattern of up to 3, intervals 7 and 8 |
| `streams` | *stream*: `StreamSpec`, the same stream paced by the fast acquisition strobe, with the pattern's end moved while it runs. *recorder*: `SamplesAroundTrigger` (`ReadbacksAroundTrigger`, `SetpointsAroundTrigger`) under any interleaving of setpoints, readbacks, losses, triggers and commands. Both: `StreamsTypeOK` | 3 supplies, strobes 5 clocks apart or more; 2 supplies, buffers of 4, 5 cycles, 4 commands |
| `gateware` | *feedback*: `SetpointsAsComputed` (`SumComplete`, `FakeImpulseInOneColumn`, `SetpointsAreOwn`, `PacketsWhole`, `Gradual`). *load*: `ValuesAsSent` (`MemoryAsSent`, `FilterAsSent`). *transmitter*: `SentAsAccepted` (`AddressFollowsWord`, `WireFromAccepted`), `HandshakeSpec` (the toggles implement `Mailbox`, liveness included). *receiver*: `ValuesInOrder`. *statistics*: `EventsCounted` (`HistogramOfTaken`, `ClearHonoured`). *transmitter* and *forward*: `HeldAcrossClocks` (`MemoryHeld`, `WholePackets`, `LatchHeld`). *load* and *transmitter*: `NothingStuck` (`FirCommandsEnd`, `FreeAgain`) | 16 columns, 3 supplies, setpoints of 4 bits; 2 rows and columns, 3 coefficients in pieces of 2; 4 supplies, 2 kinds of packet; clocks of 8 and 10 ns; 3 places |
| `services` | *epics*: one IOC, loss, duplication, restart: `AtMostOnce`, `ResultsAreOwn`. *tftp*: transfers in any order, failing chip: `TransfersAsSent` (`WrittenAsSent`, `ReadInOrder`), `FlashSafe` (`NoGarbage`, `ProtectedKept`). *console*: `CharactersInOrder` (`TakenInOrder`, `SentInOrder`). *parameters*: `InUseIsStored`, `ChangesAsConfirmed` (`StartsWithWhole`, `ConfirmedFirst`, `OffsetKeptIsSet`). *epics* and *console*: `ServicesAnswer` (`Answered`, `OutputLeaves`) | 3 commands, 1 restart; 3 transfers of 8 kinds; buffers of 2, 4 characters, 2 clients; 3 lines, 1 restart |
| `software` | *iic*: `BusHeldByOne` (`BusHandedOver`, `OwnDeviceAnswers`, `SnapshotOfOneScan`), `DevicesAsTold` (`EepromAsTold`, `OscillatorAsTold`). *mgt*: `AcceptedWhenSettled`, `ReceiverAligned`. *eye*: `ScanAsPlotted` (`PlotIsThePicture`, `OffsetsHeldWhileCounting`). *evr*: `ActionsKept` (`ActionsAsWanted`, `OthersGoOn`). *log*: `LogInTurn` (`ReportedInTurn`, `TodOfOneSecond`). *ethernet*: `LinksAsAsked` (`ModeAsAsked`, `LinksUsable`). *commands*: `CommandsKept` (`LiveSetOfOneCommand`, `InhibitsKept`, `GtxResetWrapped`). *queue*: `IsADeque`. *sim*: `SimDelivers` (`KeysInOrder`, `NotClobbered`, `RepliesToAsker`). *mmc*, *evr*, *commands*: `WordsNotTorn` (`ValueWasHeld`, `TimeWasShown`, `CountWasHad`). Whatever waits: `WaitsEnd` (`ScanEnds`, `MailboxStarts`, `ReceiverStarts`, `LinksStart`, `KeysServed`) | 2 to 4 commands and events of each kind, see `Software.cfg`; an EEPROM of 2 pages of 2 bytes, to which 3 are written; a readback of 2 values |
| `ps_live_change` | *violation* of `StreamSpec` when the pacing changes from one source to the other | |
| `tx_torn` | *violation* of `WireFromOnePacket` | 3 supplies |
| `epics_zero` | *violation* of `NoEmptyReply` | |
| `tftp_truncated` | *violation* of `ReadWhole` | |
| `recorder_mid_packet` | *violation* of `FirstChannelFirst` | |
| `mgt_tx_reset` | *violation* of `TransmitterRuns` | |
| `fir_abandoned` | *violation* of `FirCommandsEnd` when a set of coefficients is given up | 2 rows |

**Why the bounds are enough.** *ps_timer, stream*: 3 supplies are the fewest
for which a packet has a word that is neither the first, nor the last, nor the
one at which the counter changes sign; a pattern of 3 has a middle sample, and
all shorter patterns are included. Intervals of 7 and 8 are just longer than a
packet and differ in phase with the feedback, whose gap of 4 lets packets meet
at every offset. The graph is complete: time is not bounded. *recorder*: the
buffers wrap after two cycles of two channels; requests of 3 and 4 samples fit
one channel and are cut down for two, or do not fit at all; four commands allow
to choose channels, arm, abandon and arm again. *feedback*: the two results of
the filters reach every limit from both sides; 16 columns are two periods of
the address bits that time the multiplier. *load*: with 2 rows, 2 columns and a
set in two pieces any command can come between the pieces of a set and leave its
own address and high half in the latches; there are commands with as many values
as rows, with fewer and with more, and the second piece has one coefficient too
many. *transmitter*: four supplies exceed
the depth of the synchronisers; two kinds of packet tell a packet from its
neighbour. *receiver*: both clocks have their real periods and any phase; the
shortest header is the worst case, as it makes values follow each other at
least as fast; a value is told from the ones before and after it by numbering
modulo 3. *statistics*: counters modulo 3 and three places; the register is
written at most every other clock, which the bus cannot exceed (with writes at
consecutive clocks TLC finds a request lost, as it is a toggle). *epics*: with
three commands there is one before and one after any rejected command, and a
restart may fall between any two packets. *tftp*: the files begin at a sector,
cross the boundary between sector sizes, end in a short block, an empty block
or one too many, and lie in or out of the protected sector; three transfers
allow a write, one that fails after it, and a read. *console*: buffers of two
are full, half full and empty with four characters from two clients and the
serial line. *parameters*: three lines are a change, a question and its
answer, or a change between them. *software*: times are shortened with their
order kept; a ring of 4 wraps with 4 events; every command can come before,
between and after one other, and each device may fail or answer at any point.
*iic*: the write is a page and a byte, so that it goes over the end of a page
and ends within one; any command may follow any other, in particular one that
was late or did not find the oscillator.

**Deadlock** is checked in `ps_timer` and `gateware`, whose parts must go on.
In the others the bounds on commands, transfers, events and cycles end the
behaviours.

**Fairness.** `PsStream` assumes that the clock runs, nothing about commands.
`FofbEthernetTx` assumes that both clocks run and that the UDP engine
acknowledges a request, which it does once the line is free. `DspLoad` assumes
that the software goes on with the command it is at, and that samples of the
feedback keep coming, which `docs/EPICSnotes.html:185-187` asks for.
`EpicsServer` assumes that an IOC that goes on repeating a command gets it
through at last, and so a reply: without it UDP promises nothing; a command
that is abandoned needs no answer. For the software the assumption is that the
main loop comes round (`main.c:79-86`) and that time passes; devices may be
dead for ever in `MmcMailbox`, `EventReceiver`, `EthernetLink` and `EyeScan`,
as their time limits are there for that. Only `Mgt` needs strong fairness: of
resets tried for ever one ends in the right phase. None of them assumes that a
command is eventually sent or withdrawn.

**Faulty variants.** Each property is tried against a variant of the code that
a plausible slip would produce; the operators are called "Faulty variant" where
they stand, next to the original (a reset left out, a comparison off by one, a
guard dropped, a nonce remembered too early). They are part of no specification.

## The proofs

TLC checks the instances above; the following hold for all values of the
constants that satisfy the assumptions named in the modules.

**PsStreamProofs** proves `TypeCorrect` (`TypeOK`) and `ImplementsPacketStream`
(`StreamSpec`), for any number of supplies from two on, any pattern and any
intervals, under the assumption `Steady`: the way samples are timed does not
change while the stream runs, and two sampling instants are more than a packet
apart. That assumption is needed: `ps_live_change` shows what happens without
it. The invariant is `IInv`:

- `TypeOK` alone is not inductive, as nothing in it keeps the setpoint counter
  from counting below -1;
- `TimingInv`: samples are timed by a counter reloaded with at least a packet's
  clocks, or by the strobe;
- `RoomInv`: while a packet is being sent, the next sampling instant is further
  away than its end, which makes the two branches of the state machine that end
  and start packets exclude one another;
- `InsideInv`, `SourceInv`: in the middle of a packet the multiplexer keeps its
  selection, and the number of the word passed on is that of the counter of the
  stream selected;
- `WordInv`: a packet has no more words than supplies.

Initial states satisfy it (`Init => IInv`), one lemma for each part shows that
an edge of the clock keeps it (`StateMachine`, `FofbWords`, `SelectionHeld`,
`Output`, `SourcesKept`, `TypesKept`), and `Output` shows that the output step
is a step of `PacketStream` or leaves it unchanged.

`SendsPatternInOrder` (`PatternInOrder`) and `SendsWholeCycles` (`WholeCycles`)
hold where, besides, the end of the pattern is not moved while the stream runs
(`EndStays`, as in the run `ps_timer`). `PatternInv` is what the order rests on:
while the generator is at work its read address is the number of packets sent,
no later than the end, and the compare with the end, which is a clock late, has
seen the address of the word being presented whenever it decides that a cycle is
over (`psAWG.v:107-152`).

**EpicsServerProofs** proves `OwnResults` (`ResultsAreOwn`), for any set of
IOCs, any distinct nonces and any number of commands and restarts, and
`ExecutedOnce` (`AtMostOnce`) for one IOC. The core of the invariant is
`ServerInv`: the results kept for retries are those of the last command
executed, and if the header belongs to another command, one rejected since, no
retry of the executed command can arrive any more, as the IOC had gone on to
the rejected one. Hence a reply that carries the wrong header is never one an
IOC waits for. `OnceInv`, for one IOC, adds that a command executed is the one
remembered or one of which no retry can arrive any more.

**GatewareProofs** proves of the transmitter, for any number of supplies, any size of the
memory that holds them and every stream that obeys `PacketStream`: the type
invariant; `SendsWhatItAccepts` (`SentAsAccepted`); `HoldsMemory` and
`SendsWholePackets` (`MemoryHeld`, `WholePackets`); and `ImplementsMailbox`, the
steps of `Mailbox` (its fairness stays with `gateware`). The invariant `TxInv`:

- `ToggleInv`: while a packet is on its way both flip-flops that tell the system
  side of its end still show the old value; otherwise the Ethernet side has seen
  all there is, and once the system side has seen the end its first flip-flop
  cannot take that back. This is what makes the two domains exclude one another,
  whichever clock ticks.
- `PacketInv`: a packet is tossed from its second word on or taken as a whole,
  as whoever found the transmitter free at the first word finds it so at the
  last; `StreamInv` counts the words.
- `StoredInv`, `HeldInv`, `WireInv` follow the words from the stream to the
  memory and to the wire. All of them leave out supply 0, which `tx_torn` shows
  to be exposed.

**GatewareProofs** is also about the smaller parts, and puts the gateware together:

- `CountsEvents` (`EventsCounted`), for any number of places and any width of
  the counts. A place is read in one clock and written in the next; `TakingInv`
  says that what was read is still what is there, `HistogramInv` that a clear
  has reached as far as its counter, `WaitingInv` that nothing keeps a clear
  waiting for more than two clocks. It assumes that two writes of the software
  are more than one clock apart (`WriteGap >= 1`): a second one in the next
  clock would take the first back.
- `LoadsValuesAsSent` (`ValuesAsSent`), for any matrix and any size of a set of
  coefficients and of the commands it comes in. `LatchInv` says what is in the
  latches when it matters: the address of the element at hand from its first
  access to its last, and its high half at the last; `LeftInv`, that what is left
  of a command fits and is what was sent for its places. With `MemoryAsSent`,
  that the memories differ from what was sent only where the command at hand has
  yet to write, this is inductive. For the filters, if no set is given up,
  `SentInv` says that the filter of the set being sent has what came before the
  next column, and that the mark is in the latch with the last coefficient and
  with no other; `SetInv`, that the other filters are empty or full.
- `HoldsLatch` (`LatchHeld`): request and acknowledgement run through one chain
  of registers through both domains, and those the last change has not reached
  yet all agree (`ChainInv`).
- `TakesValuesInOrder` (`ValuesInOrder`) under `ClocksAssumption`, four system
  clocks last no longer than six bytes of the network (40 ns and 48 ns in the
  hardware). No handshake protects a readback, so that the proof is one about
  time: `OneUnderWay` says that one register of the chain shows a value under
  way, `TimeInv` that the time until it is taken is no longer than the time
  before which the next one cannot be complete.
- `ComputesSetpoints` (`SetpointsAsComputed`), for any numbers of columns and
  supplies, any gains, limits, offsets and results of the filters. `CalcInv`
  says how far a sum is (`Done`) and which column each register of the
  multiplier holds (`Behind`, `Holds`). A setpoint takes six clocks, in which
  each stage of the pipeline is at another supply: `PacketAt(n)` says what all of
  them hold in clock `n` of a packet, `DataAt` their values. `InTime` says that a
  packet is over before there is another result. It needs a bound on the time
  until that result: `ToSum` and `ToResult` count the cycles that are left, and
  `FirInv` says that a filter at work has the next sum at least so far away. So
  what `psSetpointCalc.v:4-5` assumes, that `din` stays as it is for a packet, is
  a consequence of the sums being `ColumnCount` cycles apart. It rests on
  `FeedbackAssumption`, `ColumnCount >= Supplies + 8` (512 and 24 in the code);
  limits are not negative, and offsets and limits have the setpoint's width, so
  that their sum does not overflow its one bit more (`NoOverflow`).
- `GatewareTypeCorrect` (`GatewareTypeOK`) and `HoldsAcrossClocks`
  (`HeldAcrossClocks`) for the composition; `GatewareParts` shows that whichever
  part runs, each makes a step of its own or none.

**TftpServerProofs** proves `TftpTypeCorrect`, `FlashStaysSafe` (`FlashSafe`)
and `TransfersArriveAsSent` (`TransfersAsSent`) for any sizes of flash, sector
and block, any files and any of the packets lost, repeated, delayed or failed,
under three assumptions named in `TftpServer`: `Layout` (sectors are whole
blocks, the protected part and each file begin with a sector, files end within
the flash: `bootFlash.c:40-58,184-194`, `tftp.c:73-79`), `ContentsWritten` (what
is written can be told from an erased cell) and `OneClient`. `MCTftpServer`
evaluates them on the instances (`TheoremsApply`). Of several clients at once
nothing is claimed, as the server does not tell them apart (`tftp.c:33`). The
argument:

- `ProtectionInv`: a session stands at the beginning of a block. As blocks and
  sectors do not straddle the boundary of what is protected, comparing the
  first address of a write is enough, though the code compares no more.
- `PacketInv`, `ArrivalInv`: the packets under way are those of the client's
  transfers, in the order they were first sent.
- `SessionInv`, `WritingInv`, `WrittenInv`: the session's address and the bytes
  it has left end with the file; the rest of the sector it is in is erased; and
  for each block acknowledged the flash holds the file up to its end.
- `ReadingInv`, `ReadInv`: the block an acknowledgement can be about is the one
  sent last, and every reply under way has the part of the file that its number
  says.

**ServicesProofs** proves for the parameters `ParametersTypeCorrect`,
`StartsAsUsed` (`InUseIsStored`) and `ChangesOnlyAsConfirmed`
(`ChangesAsConfirmed`), from `SectorInv` (a sector with the right checksum is
the one last written as a whole) and `QuestionInv` (an open question is about the
candidate of the command that asked it); and for the console
`ConsoleTypeCorrect` and `KeepsCharactersInOrder` (`CharactersInOrder`), for any
sizes of the buffers: every character has a number as it comes in or is printed,
`InputInv` says that those waiting rise and are above those taken, `Orderly`
that those in the output buffer rise and are above those of every packet sent.
What a whole text does to the output is a recursive function of its length;
that it keeps `Orderly` is by induction over it (`PrintsMany`).
`ServicesTypeCorrect` (`ServicesTypeOK`) is the type invariant of the services
together, under the assumptions of the TFTP server.

**SoftwareProofs** is about the specification of the run `software` itself:
`EachPartSteps` shows that whichever part runs each makes a step of its own
or none, so that what is proved of a part holds of the whole.

- `UsesLinksAsAsked` (`LinksAsAsked`) from `LinksInv`: the devices that the
  negotiation has passed are done with, and one that is polled is out of reset.
- `AcceptsWhenSettled` (`AcceptedWhenSettled`) from `SettledSince`: while
  alignment is confirmed the reset has been complete for at least as long as the
  state has lasted.
- `ReadsWhole` (`WordsNotTorn`): three pieces of code read a value in two
  accesses, and two of them, the mailbox and the link counters, until two
  readings agree. `ReadInParts` is the invariant of both: it relates the parts
  read so far to how often the high part can change before the call ends. One
  change is harmless, and two in one call is what the time it takes rules out;
  this is in the models (`early`, `counted`) and not a result. `TimeInv` is that
  of the time, where the clock only runs forward.
- `KeepsActions` (`ActionsKept`) from `MappingInv`: the actions of an event are
  those of the users that remember it, and of the markers.
- `PlotsWhatWasMeasured` (`ScanAsPlotted`) from `MeasuringInv`, a measurement is
  taken with the settings of the point at hand and none is under way between
  two, and `PlottedInv`, the number of what was printed is the place of that
  point in the picture (`Position`), which the picture has row by row
  (`PointInRows`).
- `KeepsCommands` (`CommandsKept`): of a command's setpoints the first ones are
  in the bank that is not live (`SetpointsInv`), the registers of the links are
  as the last command left them (`InhibitsInv`), and the resets are nested
  (`ResetInv`).
- `QueueIsADeque` (`IsADeque`): the level computed from the two indices and the
  flag is the length of the contents, and the contents are the places from the
  reading index on around the end of the ring; each operation then is one of
  `Deque`, or changes nothing of it, also those that look for an item that is
  not there.
- `DeliversInOrder` (`SimDelivers`) from `KeysInv` (keys in the queue and in the
  terminal rise, and are above the one served last) and `NetInv`.
- `LogsInTurn` (`LogInTurn`) from `WaitInv`, the events not reported are in the
  ring one after another from the reading place on, and what the crank has seen
  of them is a part of them, and `BitsInv`, the bits counted came after the
  last marker. The property is about a log that found the ring stopped, until as
  many events wait as it holds.
- `SoftwareTypeCorrect` (`SoftwareTypeOK`) puts the types of all parts together.
  They are among the invariants above, but for three counters: what the event
  receiver waits for (`StartTypes`), the datagrams (`DatagramTypes`), and the bits
  the log has counted. That the last are no more than the events logged also for
  a log that has lost events, or starts in a running ring, is `RoomInv`: what has
  not been read is still ahead of the reader, with as many whole rounds as the
  writer is ahead of it.

**IicProofs** proves `BusHasOneMaster` (`BusHeldByOne`) and `DoesAsReported`
(`DevicesAsTold`) of `IicSpec`, for pages of any size and number, any numbers of
bytes that fit and any offsets. It is claimed of a command that gave up waiting
for the sequencer neither that only its device answers nor that its report is
true, and of the one that does not find the oscillator not that it gives the bus
back (it keeps it); both theorems hold of all commands before and after these.
A command is a sequence of transfers, and one without acknowledgement goes on at
its error path, so that what is left of a command is not the rest of one
sequence but of many. The proof has three parts.

- *Programs.* `Right` says what an item has to be by itself, `Follows` what may
  stand next to what: after the address of the EEPROM a subaddress, a byte only
  at the next place of the same page, a polled page only behind its STOP, the
  values of the oscillator in their turn. `ErrorPaths` says that the error path
  of each transfer is behind it. A `Program` obeys these rules at every place;
  each command of the code is shown to be one (`WriteIsProgram`,
  `AdjustIsProgram`, ...), from lemmas on putting pieces together and on one
  item.
- *The invariant.* `IicInv`: what is left is a program, and before each of its
  items the bus is as that item needs it (`BusAt`: who drives it, whether it is
  open, and, if the sequencer stopped in time, where the multiplexer leads), and,
  if besides there was no error (`Trusted`), so are the EEPROM (`EepromAt`: the
  cells below the page are written, and the page holds its bytes so far) and the
  oscillator (`ClockAt`). It holds again after a step because of the two items
  that follow one another (`Continued`), or because of the error path
  (`HeldFails`), which leads to no report. `DevicesAsTold` alone is not
  inductive: it says nothing of a command that has not reported yet.
- *The steps.* One lemma for each action, `CommandBegins` for the commands, and
  `NoStray` for the answer of another device than was meant: optical modules
  have the address of the first EEPROM, and only the port tells them apart.
  `AstrayKeepsEeprom` is for the bytes that went to another device in a command
  that was late: none of them is left for the next command to store.

It rests on `BusAssumption`: what is written fits the EEPROM, which
`iicProc.c:273` makes sure of, and an offset is not one of the names of the
other values.

**RecorderProofs.** `RecordsAroundTrigger` (`SamplesAroundTrigger`) relates the
two circular buffers to the samples completed so far. `RecorderInv` has three
parts that say what is where, and two that say how far the recorder is.

- `HeldIn`: word `j` of the sample `s` back is `s * channels - j` places behind
  the base address, for as many samples as the acquisition has, less one while
  it runs. The one under way takes the place of the oldest, which is the only
  reason that the counts must fit the buffer together (`CountsFit`).
- `BegunIn`: the words of the sample under way are those of the recorded
  channels below the next one, so that an offset is the number of recorded
  channels passed (`RankOf`). For setpoints it holds to the end of the sample
  only while no readbacks are lost, which is what `txClean` is for.
- `ProgressInv`: the counters, the state and the place noted at the trigger are
  functions of the number of samples before and after it. It speaks of an
  acquisition the recorder was armed for once (`Recording`): arming again
  changes what the registers say under a running recorder.
- `CounterInv` is what remains of the counters when it is armed again, and
  `SamplesInv` bounds the samples by the cycles.

When a sample is complete the base moves by its words: what was ahead of the
base is behind it (`PlacesMove`, `SampleHeld`), a store does not reach what is
held (`WordStored`), and what is read out is the window (`AroundTrigger`).
Arithmetic modulo the capacity is done once, in `WrappedAround` and
`WrappedTwice`; the capacity need not be a power of 2. `RecorderTypeCorrect` is
the type invariant, and `StreamsTypeCorrect` (`StreamsTypeOK`) that of the
recorder and the source of setpoints together.

Constants are as general as the assumptions in the modules say. Those stated
for these proofs are that the two markers of the event receiver are different
events, that there is an image to boot, that bounds are natural numbers, that
there is at least one step in the range of the setpoint computation (in
`FeedbackAssumption`), and that the
recorder's setpoint counter has room for all supplies (`OffsetRangeAssumption`):
its range is a power of 2, which is defined by recursion, so that this cannot be
proved; TLC evaluates it.

**Only model-checked.** Liveness and what depends on `ENABLED` are out of the
prover's reach: `NothingStuck`, `ServicesAnswer`, `WaitsEnd`, `ReceiverAligned`,
`ReleaseHonoured` and the fairness of the mailbox. The library's
induction theorems take an operator as a parameter, which no prover here can
instantiate; where induction is needed (`ServicesProofs`, the queue) it is done
with the least element of a set of numbers that would refute the claim, which
needs no such theorem. Every other property of a passing run is
stated by a theorem.

## Where the code differs from what is said of it

- **Changing the interval of a running generator can break a packet**
  (`ps_live_change`). The source of sampling instants and the reload value
  change at once (`psAWG.v:37`, `86-89`), and a sampling instant inside a packet
  restarts the setpoint counter: the packet gets more words than supplies.
- **A setpoint of a packet being dropped gets into the packet being sent**
  (`tx_torn`). The memory takes a word whenever `sysTossPacket` is clear, which
  it still is for the first word of a refused packet (`fofbEthernet.v:219`).
  Supply 0 then gets the setpoint of the next cycle. All the others are safe,
  as `gateware` shows.
- **A first command with nonce 0 is not executed** (`epics_zero`): it is taken
  for a retry, and answered with an empty packet. `protocolTest.c` sends one.
- **A block sent again is four bytes short** (`tftp_truncated`):
  `lastSendSize` is the size without the header (`tftp.c:153`, `307`), and a
  short block ends the transfer on the client's side.
- **A recorder armed in the middle of a readback packet starts there**
  (`recorder_mid_packet`), so that its waveforms do not begin with the lowest
  channel, which `docs/EPICSnotes.html` promises.
- **The transmitter reset is never released** (`mgt_tx_reset`). The word that
  should end the reset (`mgt.c:162`) lacks the bit that lets resets through
  (`drpControl.v:39-41`), so that `gttxreset` stays asserted while the receiver
  is aligned.
- **A set of filter coefficients that is given up blocks the server**
  (`fir_abandoned`). The padding of an incomplete set (`epics.c:212-221`) writes
  address and high half but never the reload, the filter takes the rest from the
  next set, and the wait at `epics.c:224` has no limit. This rests on the
  external filter waiting with one whole set.

Further things the models or their making show that no run is kept for:

- Before an interval is first written the reload value is 0
  (`psAWG.v:31`). A generator enabled then has a sampling instant every other
  clock, never ends a packet and never gives the supplies back
  (`ReleaseHonoured` with `InitialInterval = 2`).
- Two TFTP clients can mix in one session, as a request does not set the time
  of the last packet (`tftp.c:192`). A comment in the code says so
  (`tftp.c:33`).
- Arming the recorder does not clear `full`, and arming it during an
  acquisition changes the channels recorded and the counts used for readout, but
  not the acquisition (`psWaveformRecorder.c:61-70`). `ReadbacksAroundTrigger`
  is about acquisitions that are left alone.
- The command that does not find the oscillator keeps the bus: it returns at
  `user_mgt_refclk.c:233-237` with `IIC_ENABLE` set, which cuts the sequencer off
  from the lines (`common_cctrl_top.v:228-233`). The next `iicChunkReadback` lets
  the sequencer run all the same (`iicChunk.c:106,129`), and the IOC gets values
  that were not read from the modules, until another command takes the bus and
  gives it back: at start that is `mgtClkSwitchInit` (`main.c:69`), after the
  console's command (`console.c:683`) any later one. `BusHandedOver` without
  `kept` is violated by this command.
- A command that took the bus from a sequencer which had not stopped may report
  a write that did not happen (`iicChunk.c:149-153`). The code prints "iicSuspend
  failed!" and goes on; nothing says that it should not.
- The two measurements of a point of an eye scan are taken with the same
  settings, though the code computes a bit for the second one (`eyescan.c:421`):
  it is outside the mask (`eyescan.c:76`). No text of the repository says what
  the second measurement is to differ in.
- `ethRxBad` is set for a packet that is not as expected and never looked at
  (`fofbEthernet.v:382`).
- A question of the console is answered by whatever line comes next, which may
  be another user's (`console.c:378-389`).
- `cmdDEBUG` runs the actions of the flags as they were before the change.
- `tlog` leaves the ring running when it ends (`console.c:663-666`).
- The receive register of `fifoUART.v` shifts while a byte waits in it
  (`fifoUART.v:108`); the software reads it soon enough at its baud rate.

## What is not modelled

- *Not in the repository*: the readers and writers of the cell links, the event
  decoder's library, the UDP engine and the badger network core (submodules),
  vendor cores (transceivers, floating point, FIR, FIFOs).
- *Without state or protocol*: wiring, constraints, build scripts, counters and
  fan measurement, register files, the display functions of the console and of
  the drivers, `qsfp.c`, `xadc.c`, `util.c`, `errorConvert.v`, the width
  conversions and saturating adders.
- *Within the modelled parts*: the auto-negotiation handshake of
  `fofbEthernet.v:55-79`; the software's port of the statistics memory; the
  pattern memory being rewritten while it is read; the recorder's time stamp and
  latency measurement; `bfErase`; the EEPROM files of TFTP (their writes are in
  `IicBus`); the console command of `iicProc.c`; DRP accesses below what
  `eyescan.c` needs; commands that only write one register or read monitors;
  registers of the simulation that only keep what is written.
- *Never called*: `iicChunkIsQSFPpresent`, `crankRebootStateMachine`.

Inputs are those the software can produce: an IOC that asks the recorder for
supplies that do not exist, or a TFTP client that sends blocks longer than RFC
1350 allows, is not in the models.

## Plan

The first modules were the source of setpoints and its consumers
(`PacketStream`, `PsStream`, `FofbEthernetTx`, `Mailbox`, `WaveformRecorder`)
and the servers (`EpicsServer`, `BootFlash`, `TftpServer`); then came the
feedback computation and its loading, the console and parameters, the devices
the software drives, the simulation target, and the small handshakes of the
gateware. What is left, in order of importance:

1. The auto-negotiation handshake of `fofbEthernet.v` with `EthernetLink`: a
   start pulse that must be seen before it clears itself.
2. `fifoUART.v` with `ConsoleIO`, the saturating arithmetic of the filters
   against a reference, and the pattern memory under rewriting.
3. A recorder as a window on a sequence of samples, and a flash file as an
   atomic value, as abstract specifications.
