# AtariSIO: models, model checking, proofs

AtariSIO connects an 8-bit Atari to a PC through a serial port. The PC plays the
Atari's disk drives, printer and cassette recorder (SIO server), or it plays the
Atari and talks to real drives (1050-2-PC). This directory models the system,
from the interrupt handler of the driver to the keys of the user interface,
checks the models with TLC and proves the central properties with TLAPS. All
paths below are relative to `src/`.

## 1. Inventory

### Kernel driver, `driver/atarisio.c`

One device structure per serial port, shared by an interrupt handler and the
process that holds the device open.

* *State*: `cmdframe_buf` (five bytes, the character counters, `is_valid`,
  `receiving`, `serial_number`, `missed_count`, `end_reception_time`),
  `current_cmdframe_serial_number` (of the frame being answered), the rings
  `rx_buf` (with `wakeup_len`) and `tx_buf`, `serial_config` (rate, line
  settings, IER), `last_msr`, `do_autobaud`, three wait queues.
* *SIOSERVER mode*: the interrupt handler notices the edges of the COMMAND line,
  collects the command frame, judges it (`check_command_frame_quality`), flushes
  both rings when the frame ends, wakes the reader and, after bad frames,
  switches the baud rate. The process fetches a frame (`GET_COMMAND_FRAME`,
  `poll`) and answers it with single characters (ACK, NAK, COMPLETE, ERROR) and
  data blocks; it collects data frames and acknowledges them.
* *1050-2-PC mode*: `send_command_frame` (13 attempts) and
  `internal_perform_ext_sio` (2 attempts) drive a transaction with a real
  device.
* *Tape mode and FSK*: transmission without handshake, bit banging.
* *Module and ports*: taking the ports from the 8250 driver, probing,
  registering, open and release, and all of it back.
* *Hard*: the process tests shared state outside the lock before it sleeps; the
  Atari aborts whatever is going on by starting a new command; the reply checks
  and the queueing of the reply are separate lock regions; the baud rate is
  changed by the interrupt handler and by the process; set-up may fail at any
  step of any device.
* *Correct when*: a frame that is handed out is whole; no character outlives the
  command it belongs to; a reply never answers an older command; no wake-up is
  lost; no change of the rate overtakes a character; a sending ioctl comes back;
  a master reports success only for what the drive has done; the machine gets
  its ports back.

### Wrappers, `tools/*SIOWrapper.cpp`

`KernelSIOWrapper` is one ioctl per method. `UserspaceSIOWrapper` does without the
driver: `WaitForCommandFrame` is a state machine (idle, assert, receive,
deassert, OK, soft and hard error) that polls the COMMAND line or, without one,
goes by silence, and `ExtSIO` is a second implementation of the master. *Correct
when* a frame is never put together from two commands, errors lead back to a
state that hears the Atari, recovery does not throw current replies away, and
both masters keep one promise.

### Serving loop and handlers

`SIOManager::DoServing` waits for a frame, blocks signals and dispatches to the
handler registered for the device: `AtrSIOHandler` (disk, XF551 and high-speed
commands), `AtpSIOHandler` (protected disks with rotational timing),
`PrinterHandler` (buffer, flush after a delay, `Coprocess`),
`RemoteControlHandler` (commands from the Atari that call `DeviceManager`).
`CasHandler` plays cassettes outside that loop. *Hard*: any call of the wrapper
may be refused, because the Atari has begun another command, or fail; XF551
commands change the rate between the parts of one transaction; server and
printer child block on each other's pipes; the cassette player's state and the
driver's mode must agree. *Correct when* the answers a drive gives are true, the
rate is left as agreed, nothing the child says is lost, a tape plays what its
file says, and neither keys nor the child of a shell command keep the Atari
waiting for good (the printer's child can, see section 3).

### Device manager and front ends

`DeviceManager` owns the drives, their images, the printer and the options.
`CursesFrontend` calls it from the keys, `RemoteControlHandler` from commands of
the Atari, and disk commands change the images in between: wherever the user
interface waits for a key it serves the Atari. *Correct when* options reach every
handler, what looks saved is saved, and changes disappear only by order.

### Images and algorithms

Geometry (`AtrImage`) and its three file formats, the DiskComm compression
(`DCMCodec`), the DOS 2 and MyDOS file systems (`Dos2xUtils`), virtual drives
(`VirtualImageObserver`: a directory of the PC shown as a disk whose changes are
followed), ATP tracks, the copying of disks (`atarixfer`). Sequential; *correct
when* decoding inverts encoding, sectors are neither lost nor used twice, and
a file of the host changes only as its own entry on the Atari's disk does.

### The rest

Directory lists, caches and smart pointers, logging, small command line tools,
measuring programs, 6502 programs as byte arrays, documentation: not modelled,
see section 7 and `PROJECT.json`.

### How the parts interact

    Atari --COMMAND line, characters--> interrupt handler --cmdframe_buf, rx_buf--> ioctls
    Atari <--characters-- UART <-- interrupt handler <--tx_buf-- ioctls
    ioctls <-- KernelSIOWrapper <-- SIOManager --frame--> handlers --> images, printer
    serial port <-- UserspaceSIOWrapper <-- SIOManager, atarixfer
    front end, RemoteControlHandler --> DeviceManager --> handlers, images, SIOManager's table
    front end --> CasHandler --> driver's tape mode;   GetCh --> SIOManager::DoServing

The list of hazards, each at its line, is in `PROJECT.json`.

## 2. Modules

| module | models |
| --- | --- |
| `FrameQuality`, `MCFrameQuality` | checksum and verdict on a command frame; one frame with its counters, character by character, in every order of sound and broken ones |
| `Rings`, `ByteQueue` | the driver's two circular buffers, with their indices modulo `IOBUF_LENGTH`; the queue of bounded length that each of them implements |
| `SioServer` | the driver in SIOSERVER mode, with the Atari and the UART as environment |
| `SioTransaction` | abstract: what a caller of an SIO master may rely on |
| `SioPeripheral` | external: a disk drive and the line to it |
| `SioMaster`, `UserMaster` | the driver's master and the userspace one; both implement `SioTransaction` |
| `UserServer` | command frame reception and replies without the driver |
| `SioService` | the serving loop over the driver's device: handlers, keys, signals |
| `DriverSetup` | loading, unloading, opening of the driver and the ports it takes |
| `AtrImage` | geometry of images, their file formats, images in memory |
| `ImageFiles` | an image created, written to files of three kinds and read back, in any order (uses `AtrImage`) |
| `DiskDrive` | `AtrSIOHandler` with its image (uses `AtrImage`) |
| `AtpDrive` | `AtpSIOHandler` with the rotation of the disk |
| `TapeDeck` | `CasImage`, `CasHandler`, tape mode of driver and wrapper |
| `Printer` | `PrinterHandler` and `Coprocess` with the child |
| `DeviceManager` | every method, as an operator from state and outcome to state and result |
| `RemoteControl` | the remote control commands in terms of `DeviceManager` |
| `Frontend` | keys, remote control and disk commands around the manager |
| `Dos2x`, `VirtualDrive` | the file system on an image; the observation of a virtual drive |
| `DcmCodec` | the five encodings, passes and records of DCM files |
| `Xfer` | `atarixfer`: detection, copying in both directions, retries |
| `MC...` | instances for TLC; `MCDevices`, `MCUserspace` and `MCData` put parts that do not share state into one run, of which one moves |
| `Induction` | induction over numbers and recursive functions, for the proofs |
| `..._proofs` | theorems; section 5 says about which modules |

Definitions named `X_Something` are `X` with a plausible mistake. They are not
part of the model; `PROJECT.json` says which property notices each of them.

### SioServer

*Three parties.* The **environment** (`Assert`, `Deassert`, `SendBurst`, `Drain`,
`FrameAges`) moves the COMMAND line, puts characters into the receive FIFO,
empties the transmitter and lets time pass; none of this is code of the
repository, it is what the driver is exposed to. The **interrupt handler**
(`Interrupt`) is one action per pass of its loop, because it holds `dev->lock`
from its first register access to its last. The **process** has a program
counter `pc`; every lock region, and every access outside of one, is an action
of its own, so that interrupts fall between a test and the use of its result.

| action | code |
| --- | --- |
| `Interrupt` | `atarisio_interrupt` with `check_modem_lines_before_receive` (`StartFrame`), `receive_chars` (`CollectChars`, `FillRing`), `check_modem_lines_after_receive` (`EndFrame`, `Flush`), `validate_command_frame` (`Quality`, `SwitchesBaud`), `send_chars` |
| `Call`, `EntryOf` | the dispatch of `atarisio_unlocked_ioctl` |
| `Poll` | `atarisio_poll` |
| `GetSleep`, `GetNone`, `GetExpired`, `GetTake` | `get_command_frame` |
| `Check`, `CheckTime`, `Put`, `InitiateSend` | `check_new_command_frame`, `check_command_frame_time`, `send_single_character`, `initiate_send` |
| `Setup`, `RestoreLcr`, `SwitchXF551` | the beginning and end of `send_block`, the rate change behind the XF551 ioctls |
| `SendSleep` | `wait_send` |
| `ReceiveLen`, `ReceiveSleep`, `ReceiveWoken`, `ReceiveBlock` | `wait_receive` and `receive_block` |
| `Configure` | `set_sioserver_mode`, `print_status`, the baud rate ioctls |
| `Timeout`, `Signal` | the deadline and signal exits of all waits |

*Abstractions.* A character is what the driver tells apart: a good one carries
the number of its command frame (negated for data), a garbled one 0, so "the
checksum matches" is "five characters of one frame"; the real checksum is the
subject of `FrameQuality`. A ring is the sequence between tail and head; its
elements remember the *epoch* (the number of frame ends handled) at which they
were stored. Epoch, `fate` (what became of each frame) and `lost` are history
variables and steer nothing. Time is reduced to events: a deadline may pass at
any moment of a wait (`Timeout`), and a frame ages beyond 10 ms at any moment
(`FrameAges`). The receive FIFO holds one run of characters of one kind and does
not overrun. `wakeup` is 0 for the code's -1.

*Set by constants*: DSR or CTS cabling, where the leading edge interrupts, too
(`RiseInterrupts`, false for RI); the pause between bytes (`BytePause`); automatic
baud rate (`Autobaud`); a processor on which a load may pass an earlier store
(`StoreReorder`), which matters because `wait_send` and `get_command_frame` set
the task state with a plain store.

### Rings

`Rings` has `rx_buf` and `tx_buf` as the code has them: an array, `head`, `tail` and, for
reception, `wakeup_len`. There is an action for every place that moves an index, each
a region of `dev->lock`: `StoreChar` (`receive_chars`), `FetchChar` and `FetchBlock` (the parts of
`receive_single_character` and `receive_block` behind `wait_receive`, with the copy to the
process in two parts, its faults, and the checksum computed in the array), `WaitLen`
and `DiscardReceived` (`wait_receive`), `PutChar` (`send_single_character`), `SetupSendFrame`
(`setup_send_frame`: refused, or readable only up to some byte), `PutFrame` (the five
characters in `send_command_frame`), `SendChars` (`send_chars`), `Flush` (the end of a command
frame) and `Reset` (`reset_rx_buf`, `reset_tx_buf`). They come in any order, more of them than
the ioctls allow, so that what holds here holds for `SioServer` and `SioMaster`, which are
written with sequences. `Queued` maps a ring to its sequence; `RX` and `TX` are `ByteQueue`
under this mapping.

A ring of `IOBUF_LENGTH` cells holds one character less. `StoreChar` looks for room and sinks
the character; `PutChar` does not, and makes a full ring an empty one (`Put` of `ByteQueue`
says so). The handlers never come near: they queue a single character behind a few
others, and `setup_send_frame` refuses blocks that would fill the ring.

### SioMaster

*The promise* (`SioTransaction`): between the beginning and the end of a
transaction the device performs the command any number of times; the outcome
`ok` means that it has performed it and that its last word was COMPLETE, the
outcome `device_error` that its last word was ERROR; every other outcome means
nothing. `SioMaster` implements it with `done` and `answer` (history of the drive) and
an outcome that is the value returned by the ioctl (`TX!Spec`, property
`Transaction`). More than "at least once" cannot be promised: a drive whose
COMPLETE is lost is asked again.

*The other end* (`SioPeripheral`) is a drive as the driver takes it for granted: a
leading edge makes it listen and forget what it was doing; it takes up a frame
heard whole, alone and at the right rate, and says nothing otherwise; it may
refuse, fail, or take so long that the master's deadline passes first. The rates
it uses are those the five speeds of `atarisio.h` stand for. The line loses,
damages or delays at most `MaxFaults` transmissions. Its operators have no
counterpart in the repository and are marked external.

| action | code |
| --- | --- |
| `Call` | entry of the ioctl, the adaption of the speed to the command |
| `Attempt`, `QueueFrame`, `FrameSent`, `FrameLate`, `FrameInterrupted`, `Release` | `send_command_frame` up to the release of COMMAND, one action per lock region, and the exits of its `wait_send` |
| `TakeAck`, `SwitchRate`, `Again` | the answer to the frame, the rate change behind it, the end of the retry loop |
| `Setup`, `DataSent`, `TakeDataAck` | `perform_ext_sio_send_data` and `send_block` |
| `TakeComplete`, `ReceiveBlock`, `Finish` | `wait_ext_sio_command_complete`, `receive_block`, `sio_error` and the outer loop |

*Abstractions.* A frame or block to send is one element of `tx`; a block to receive
is two elements of `rx`, the bytes and the checksum, which carry the number of
the ioctl they belong to. How a waiting process is woken is left to `SioServer`,
which has the same `wait_send` and `wait_receive`; here a wait ends when what it
waits for is there, at its deadline, which may pass at any moment of a
reception, or by a signal. A send meets its deadline only together with a fault
of the line, so that these are bounded by `MaxFaults`, too.

### UserMaster

The wrapper's `ExtSIO` against the same `SioPeripheral`, held to the same
`SioTransaction`. One action per system call that touches the line or its
queues: `Call`, `Attempt`, `FrameSent` / `FrameFailed` / `Interrupted`, `Release`,
`TakeAck`, `Again` are `SendCommandFrame`; `DataSent`, `TakeDataAck`, `TakeComplete`,
`ReceiveBlock`, `RetrySio` are `InternalExtSIO`; `Leave` is the end of `ExtSIO`. `tx` and
`rx` are the queues of the kernel's serial driver. A signal cuts a transmission
short, and the waits end with it.

### UserServer

`WaitForCommandFrame` is a loop with two places where the Atari may move: its
top, where the line is read (`PollIdle`, `PollAssert`, `JudgeFrame`, `PollDeassert`,
`HandleError`, `ForgetFrame`, one per state), and `select` with the read behind it
(`SelectReturns`, `SelectFails`). `GetCommandFrame`, `AckFrame`, `Reply` and
`ReceiveDataFrame` are the methods of that meaning; what they write stays in the
output queue `out` until the port has sent it (`Drain`) or the recovery flushes it
(`TrySwitchbaud`). `fCommandFrameTimeout` may expire at any moment. The initial
states cover cables with and without a COMMAND line, either rate of the Atari
and two kinds of Atari: an arbitrary one, and a *prompt* one that repeats one
frame until it is answered while the computer keeps up with it. Only the latter
can be promised to be heard.

### DiskDrive and AtrImage

A command frame is processed in one step: nothing else touches the drive
meanwhile. A command is a record of its `calls` of the wrapper, of which the
handler leaves at the first that fails, of the call up to which they must have
succeeded (`need`) for what it does to the image (`image`), to the handler's copy of
the geometry (`cfg`) and to the next format (`fmt`).
`Process` chooses after which call and how the answer ended and draws from that
what the Atari may expect of every sector looked at (`belief`) and the rate in
force (`RateAfter`: the XF551 acknowledgement sets 38400, the last call sets 19200
again). `AtrImage` has the real numbers: `SetFormat`'s three ways to a geometry,
`CalculateOffset`, the headers of ATR and DI files and the guess from the size of
a raw file. `ImageFiles` has them in sequence: a raw file of an odd number of
sectors comes back as an image of double density, and such a one is saved again.

### AtpDrive, TapeDeck, Printer

`AtpDrive` keeps for each track its density and the sectors in the order of the
list, each with its position, and the time modulo one rotation (`angle`); a command
spends time on spinning up, seeking and searching as the code computes it. What
the Atari may expect of a sector is kept per density (`known`): a track of the
other density holds other sectors under the same numbers. `AtpRead`, `AtpWrite` and
`FormatAs` are the commands; `TrackChunk`, `TimingChunk` and `FromChunks` what is saved
and loaded. `TapeDeck` reads files chunk by chunk (`ReadChunk`), and a pass of
`DoPlaying` is a step (`PlayChunk`, `GapEnds`), in which the send or the flush may fail;
the keys are `Pause`, `Start`, `Seek`, `LoadCasImage`, `Quit`. Driver and userspace wrapper
differ in what starting and ending the tape mode does to the rates (`drv`). A rate
of 0, which a file may have, the driver remembers but refuses to set
(`SetBaudrate`); `StartTapeMode` then fails with the receiver and automatic switching
already off, and `EndTapeMode` finds no tape mode to end (`refused`).
`FromChunks` reads a track back from its chunks, whose times `TimingOK` checks.
`Printer` has one action per system call that may block: `WriteData`, `LogReplies`,
`Close`, `Drain`, `Exit`; the child reads, says something, ends or dies. A signal
may end the read of `Drain`, after which the end of the child is awaited at once.
Lines are scaled down to buffers of three and four characters, pipes to four.

### DeviceManager, RemoteControl, Frontend

A method of `DeviceManager` is an operator from the state of the manager, and from
what file system and driver make of the call, to the new state and the result.
`RemoteControl` has an operator per command (`Lo`, `Cr`, `Lv`, `Rd`, `Un`, `Wr`, `Wc`, `Xc`, `Cd`,
`Ls`, `St`, `Wp`, `Ad`, `Sp`, `Xf`, `Pr`, `Sh`), made of those. `Frontend` has the callers: `RemoteFrame`
and `RemoteAsks` (a frame with commands, the frames that ask for results),
`AtariWrites` (a disk command changes an image), `Process...` (one per key of the
dispatch in `atariserver.cpp`), and one action per answer to a question. `ui` is
the question that is open; in that state the Atari is served.

### Dos2x, VirtualDrive, DcmCodec, Xfer

`Dos2x` formats an image (`InitVTOC`), adds files and directories (`AllocSectors`,
`WriteBufferToImage`, `Unique`, `AddFile`) with the real sector numbers; a table of free
sectors is the set of the sectors whose bit is set. `VirtualDrive` has a directory
entry per sector, of which the Atari's DOS opens, closes, deletes and renames
(`OpenFile`, `CloseFile`, ...), each one write of a directory sector that
`IndicateSectorWrite` judges by the status bytes before and after. Writing a file back
(`WriteAtariFileToDisk`) leaves the host's file alone if it cannot be opened, and else
whole or cut (`Partial`): it is emptied before the chain is looked at. `mkdir` may
fail or find a file of that name, and then the directory is not followed. A name
of the Atari that has none of the host (`PICONAME.TXT`, `NoName` in a listing) is
followed as a null pointer when that file is closed, and the server ends (`alive`).
`was` and `inside` remember what has arrived at the host. `DcmCodec` scales
the sectors down and keeps the edges (an offset of a full sector is written as
0, passes are closed at a limit); the loops of `Save`, `Load` and of record 43 are
functions of the number of their turns, of which no more than two fall on a
sector in `Save`. Its only variable is the image, to which a step adds a sector with any
contents; `Load` starts with any bytes in its buffer, which it does not
initialise. `Xfer` follows `atarixfer` from the detection of
speed and density to the last sector, over commands that fail before or after
the drive performed them. What a drive says of its disk may be out of date or be a
geometry no image can have (`drive.conf`, `odd`), the status names enhanced density only
when the drive has noticed it, and formats of the user's own are read but not
written. `misled`, a history variable, says that the drive named another format than
the disk's, which the reading of sector 721 could not put right, or that this
reading failed although the sector is there. The rates themselves are left out; a
mode is found or not, and the workarounds it switches on stay.

### SioService, DriverSetup

`SioService` has the loop of `DoServing` with the handler table, the signal mask
(`Mask`, `Unmask`), keys and delayed tasks, over ioctls that return 0 or an error
number. It waits for children at two places: `exit` is the shell command of the
remote control, for which `SetKillTimer` sets an alarm that kills the child
(`Alarm`, `ChildKilled`); `close` is `CloseProcess` of the printer, which frames, keys and
delayed tasks can lead to and which has no timer. Either child may end by itself
(`ChildEnds`) and neither has to. `DriverSetup` has `AtarisioInitModule` as a sequence
of devices, each a chain of steps of which any may fail (`SetUp`, `CleanupOne`),
`AtarisioOpen`, `AtarisioRelease` and `AtarisioExitModule`.

## 3. Runs

Bounds common to the server runs: one or two command frames (a frame in progress
and one waiting, or one that overtakes the other; `server_lcr` needs three), up to
five characters between two edges (a whole frame or a broken one), data frames
of one or two bytes and their checksum, rings that hold one reply, one data frame
and one character more, a transmit FIFO of two (a data frame needs two
interrupts). The sets of ioctls are split over the runs; the interrupt handler
and the environment are the same in all of them.

| run | asks |
| --- | --- |
| `server_frames` | With fetching, polling, mode changes and status prints, automatic rate changes, both edges interrupting, and good, wrong and broken frames: is a frame that waits whole, and the only one whose fate is open (`ValidIntact`)? |
| `server_replies` | With replies that change the rate, data blocks with a byte pause, and frames that overtake them: does anything of an aborted reply survive (`OneEpoch`), is a reply to an overtaken frame refused (`WaitingIsNewer`), is the line quiet when a send has succeeded (`DrainedOnSuccess`)? |
| `server_progress` | Under fairness: is every sleeper woken (`NoLostWakeup`), does a send return (`SendReturns`), is a frame that is there fetched (`FrameFetched`), is a complete data frame collected (`DataFetched`)? |
| `master` | Every speed and direction of data in seven requests, two ioctls: does success mean that this command was performed (`Transaction`) and the data its own (`DataIsOurs`), is a write repeated at most once per round of the outer loop (`WritesLimited`), do master and drive use one rate whenever one listens to the other (`RatesAgree`), does the ioctl return (`MasterReturns`)? |
| `userspace` | Without the driver. The master, five requests, two calls, signals: the same promise (`Transaction`), a return (`MasterReturns`). The server: frames whole and the buffer within its bounds (`HandedWhole`), no current reply flushed by the recovery from errors (`RepliesNotCut`), an Atari that keeps asking heard in the end (`HeardAtLast`). |
| `devices` | Disk drive: are answers true (`Promised`), is the copy of the geometry fresh (`ConfigFresh`), where is 38400 left in force (`RateLeft`)? ATP drive: is the nearest sector read (`AtpNearest`), and does the disk, also saved and loaded, hold what the Atari was told (`AtpPromised`)? Tape: does the line play the file and is the driver restored, as far as a file with a rate of 0 allows (`TapeSound`), does the deck stop (`TapeEnds`)? Images of every size: do ATR, raw and DI files, one after the other, leave a sound geometry (`GeometrySound`)? Printer: is what the child says logged, whole and in order (`RepliesLogged`), and the server let go (`PrinterLetsGo`), unless the two wait for each other (`EachWaits`, which the run reaches)? |
| `frontend` | Four events on two drives: do options reach every handler (`OptionsAgree`), is what looks saved saved (`CleanIsSaved`), do changes vanish by order only (`OthersKeepChanges`)? |
| `data` | `VerdictTrue` of every frame of up to eight characters; of `atarixfer`, whether disk and image are the same, and all of the disk is in the image unless the drive misled the program about it (`CopyIsTrue`); `DiskSound` of nine geometries; of virtual drives, whether what the server wrote back is under the entry's name (`Mirrored`) and nothing but the closing of its own entry changes a file, which it may cut (`HostKept`); `CodecsKeepData` of compressed images; `PortsReturned` of the driver; `Served` of the loop, as long as no child of the printer holds it; `RingsAreQueues` of the two rings, wherever they wrap, with blocks in two parts, checksums and faults. |

Why the bounds are enough:

* `master`, `userspace`: two attempts where the code makes 13, and two rounds of the
  outer loop: a first and a repeated attempt of either loop differ, a second and
  a third repetition do not. Two calls let the second meet what the first has
  left behind. One damaged, lost or late transmission comes on top of deadlines
  and refusals, which are not counted. The invariant behind the proofs was
  checked with two. The server part has a command frame of three characters with
  its checksum, so that four characters are a frame that is too long and two of
  them soft; a read of up to three spans the end of one frame and the start of
  the next, and the buffer has the slack of the code.
* `data`, rings: six cells, so that a command frame just fits, with tails at every one of
  them; blocks of three and four, of which the longer is refused, faults at every
  byte of a block; values at the carry of the checksum. One ring moves per behaviour.
* `devices`: sectors 1 and 721 tell single from enhanced density, the PERCOM
  blocks are one valid, one without tracks and one of more sectors than a disk
  can have. A rotation of five positions with up to three sectors, one number
  twice, a bad sector, and a track of the other density. Tapes with a gap that starts a part, an FSK block
  that is sent in pieces with an odd end, an empty and an unknown chunk, a chunk
  that is cut off, and one whose rate is 0. A pipe of four characters, which two
  lines overfill and a reply of five, longer than the read buffer, as well: server
  and child block, one of them or both. Images of the smallest sizes, of those whose
  layout is guessed and around the limit of 16 bits.
* `frontend`: a question, what comes in between, the answer and a further step make
  four events. One ATR, one ATP file, a program and the image made of it, one
  directory.
* `data`: eight characters are one more than the count from which a frame is
  hopeless; byte values around the carries of the checksum. Disks of two or
  three sectors (one in the user's own format), one fault and one retry; a disk to be
  written to is one of enhanced density before. Geometries at every change of form of
  the tables of free sectors, files of one sector and of 400, which spans a
  table, up to a full directory of three. Entries in the first, the last observed and
  the last sector of a directory, one of them with no file of the host; two writes,
  before and after a rename.
  Images of up to four sectors of three and six bytes. Three devices on two ports.

The modules that compose parts without common state (`MCDevices`, `MCUserspace`,
`MCData`) choose one of them in the initial state; the others stand still, so a
run's states are the sum of theirs and not the product. Deadlock is checked in
all runs of `SioServer`; elsewhere a bounded number of calls, a finished program or
a server that has quit is the end.

### Disagreements between the code and what it says of itself

Each of these runs ends in a counterexample to one property.

| run | shows |
| --- | --- |
| `server_lcr` | `send_block` decides by the *current* rate whether to restore the line settings; after an automatic switch back to the default rate it does not. The receiver repairs it at the next character and logs "wrong LCR in receive chars!". |
| `master_signal` | A signal during the transmission of a command frame makes `send_command_frame` return without `clear_command_line`; the comment at `driver/atarisio.c:512` has COMMAND released outside of a command frame. The ioctl repeats the command, is interrupted in the same way and returns with COMMAND asserted. |
| `virtual_files` | `SetDirectoryObserver` observes seven of the eight sectors of a directory: a file whose entry is in the last is not written back, against `README:567`. |
| `frontend_printer` | The key `c` of the printer dialogue shows CR and installs the conversion to LF (`tools/CursesFrontend.cpp:1425`, `2268`). |

Further promises the code does not keep stand, as properties no run includes, in
the modules they are about, or are one of a run's with a proviso less. TLC refutes
each of them in its module's instance.

| property | what the code does |
| --- | --- |
| `SioServer!SentOnSuccess` | A sending ioctl returns 0 although the end of a command frame flushed its characters; `driver/atarisio.h:218` describes 0 as success. |
| `SioServer!PrintOnlyPrints` | `PRINT_STATUS` takes a character from the FIFO and clears change bits. |
| `SioServer!RepliesCurrent` | A frame that begins between `check_new_command_frame` and the queueing of the ACK is answered with the ACK meant for its predecessor. |
| `SioServer!NotifiedSend` with `StoreReorder` | Where a load may pass the store of the task state, `wait_send` can sleep through its wake-up until its deadline. |
| `SioServer!WaitingIsNewer` with the mode ioctl | `set_sioserver_mode` starts the serial numbers anew but not the number of the frame being answered, so that a later frame can have the old number. |
| `DiskDrive!BackToStandard` | `driver/atarisio.h:269` has the XF551 calls go "back to 19200 just after they are finished": if the call that was to do it is refused because the Atari has begun another command, 38400 stays. `RateLeft` says that nothing else leaves it. |
| `TapeDeck!TapeModeHeld` | After a failed send the deck has ended the tape mode; the same pass may go on to the next block with the deck running (`tools/CasHandler.cpp:331`). |
| `TapeDeck!DrivesHeard` | Neither the reader of CAS files nor the caller of `SetTapeBaudrate` looks at a rate of 0 (`tools/CasImage.cpp:166`, `tools/CasHandler.cpp:397`). The driver refuses it (`driver/atarisio.c:1286`) when `start_tape_mode` has switched off the receiver and automatic rates; the blocks go out at the rate before, and ending a tape mode that is off does not switch them on again. `TapeSound` excepts exactly this. |
| `TapeDeck!BackToDrives` | Without the driver the line stays at the tape's rate when the deck is left (`README:384`). |
| `Printer!NeverBothWait` | The server writes to the printer's child while that waits for room in its own pipe, which is read between writes only (`tools/Coprocess.cpp:218`): both wait for good, and no Atari is served. `PrinterLetsGo` excepts exactly this. |
| `SioService!Served` without its proviso | `CloseProcess` waits for the printer's child without a timer (`tools/PrinterHandler.cpp:119`); only the shell command sets one (`tools/RemoteControlHandler.cpp:990`). |
| `VirtualDrive!ServerRuns` | `AddDataBlock` puts `PICONAME.TXT` on the drive with a name of the Atari and none of the host (`tools/Dos2xUtils.cpp:404`). When the Atari writes the file anew, the name is known and `IndicateCloseFile` follows the null pointer (line 950). |
| `Xfer!WholeDisk` | `atarixfer` believes the drive's word on the density, and does not retry the reading of sector 721 that would put it right (`tools/atarixfer.cpp:361`): a lost answer makes a disk of quad density an image of its first half, and the program reports success. `CopyIsTrue` excepts a drive that misled it. |
| `VirtualDrive!Mirrored` without `OwnNames` | In a directory with `a.txt` and `A.TXT` the second is shown as `A00.TXT`. When the Atari deletes the first and writes a new `A.TXT`, `GetOrigName` (`tools/Dos2xUtils.cpp:910`) gives it the file `A.TXT`, which is shown beside it and is replaced; `README:574-575` has file writes "quite safe to use". The directories of the run satisfy `OwnNames`. |
| `Frontend!LoadSparesChanges` | The key for loading refuses a drive with unsaved changes when its number is typed (`README:367`) and loads when the name is; what the Atari wrote in between is gone. |

Modelled, and kept out of the properties by what they say: `WriteAtariFileToDisk` opens
the host's file with `"wb"` before it looks at the chain (`tools/Dos2xUtils.cpp:726`), so
that a loop, an illegal link or a sector that cannot be read (739-767) leaves it
empty or cut. `HostKept` allows that for the entry that is closed and for no other
file; `Mirrored` is about what was written without an error. A full disk may show
only in the `fclose` at 769, which is not looked at: to the server such a file is
written, in the model it is cut.

Also noticed while reading, not modelled: a signal that ends the server in the
middle of a frame exits without saving (`tools/SIOManager.cpp:66`); `atarixfer -e`
reports "finished successfully" after failed writes; a refused format of an ATP disk has changed the density
(`tools/AtpSIOHandler.cpp:374`); `CloseProcess` ends with the status OK whatever the
child returned (`tools/PrinterHandler.cpp:136`); a save that fails unlinks the file
(`tools/AtrMemoryImage.cpp:412`); `InitVTOC` clears seven of eight directory sectors
(`tools/Dos2xUtils.cpp:1347`); a device opened while a later one is still set up is
freed if that fails (`driver/atarisio.c:4181`); an unknown speed sets the error of
`ExtSIO` and the result of the transfer overwrites it
(`tools/UserspaceSIOWrapper.cpp:344`); `missed_count` leaves out frames that expired.

## 4. Fairness

* `SioServer` (`FairSpec`): weak fairness of `Interrupt` (a pending interrupt is
  served), `Run` (the process runs when it can: only a sleep stops it) and `Drain`
  (the transmitter transmits). Nothing is assumed of the Atari, and neither a
  deadline nor a signal is needed: the liveness properties hold by notification
  alone, which is what the code's waits are built on. The run uses one command
  frame; with it, the leads-to properties already meet every ioctl asleep at
  every point of the frame.
* `SioMaster`, `UserMaster`: weak fairness of `Run` (the process goes on, and the
  deadline of a reception passes, guaranteed by `schedule_timeout` and `select`) and
  of `Uart`. The drive owes nothing: it may stay silent for ever.
* `UserServer`: weak fairness of `Loop`. `HeardAtLast` is about a prompt Atari, for which
  its moves and the running out of the timer are strongly fair: a clock runs on
  although the loop sets the timer again and again, and an Atari that repeats its
  frame does so whenever the wrapper has looked at everything so far.
* `TapeDeck`: weak fairness of the end of a gap and of a pass of the loop. `Printer`:
  of the server's and the child's steps; the child reads its input and ends when
  that ends, as `lpr` does.
* `SioService`: weak fairness of the serving loop and of the alarm, which goes off
  when it was set: for the child of a shell command, and for no other. Of the
  children nothing is assumed. `Served` is therefore about behaviours in which the
  server is not for ever in `CloseProcess`, where a child of the printer that does not
  end keeps it (`Printer` has what the two do there).

## 5. Proofs

Seven modules of proofs and one of induction, for every value of the constants,
from the named assumptions of the modules alone. `SioServer_proofs` and
`SioMaster_proofs` are about those modules; `Userspace_proofs` about `UserMaster` and
`UserServer`; `Devices_proofs` about `AtrImage`, `DiskDrive`, `TapeDeck`, `AtpDrive` and
`Printer`; `Data_proofs` about `VirtualDrive`, `Xfer`, `DriverSetup` and `Dos2x`; `Frontend_proofs` about
`DeviceManager`, `RemoteControl` and `Frontend`; `FrameQuality_proofs` about `FrameQuality` and
`Rings`.

`Induction` makes recursive functions accessible to proofs: `SetInduction` (a set with 0
that is closed under successors is `Nat`; the library's theorem takes a predicate
as a parameter, which the provers cannot instantiate), `Recursion` (a function
defined from its predecessor exists) and `LeastOfMany` (a non-empty set of numbers
has a least one). A `RECURSIVE` operator would remain out of reach; no module has one:
a loop is a recursive function from the number of its turns to what it has done.

### The driver

`SioServer_proofs`: any number of frames and characters, any bursts, sizes of rings
and FIFO and any set of ioctls (`ServerAssumption`: positive sizes, and a ring that
holds a data frame with its checksum).

* `TypeCorrect`: `Spec => []TypeOK`, inductive as it stands. It bounds the rings and the
  frame buffer, so it contains the arithmetic of `receive_chars`,
  `send_single_character` and `setup_send_frame`.
* `RingsHoldOneEpoch`: `Spec => []OneEpoch`. Inductive together with `TypeOK`: the
  interrupt handler flushes in the very step that advances the epoch, everybody
  else stores the current one.
* `NoWakeupIsLost`: `InOrder /\ Spec => []NoLostWakeup`, where `InOrder` says that stores
  are not reordered and the status is not printed; both are needed (see above).
  Strengthened by what holds on the way to sleep: `Usual` (a program counter that
  exists only with reordering is never reached, the transmitter's indication is
  never lost, the process is runnable except between its store and its
  wake-up), `CoveredReceive` (from the moment the length is announced until the
  process is runnable again, the ring is shorter than that length or the process
  has been made runnable) and `CoveredSend` (likewise, the transmitter's interrupt is
  armed as long as there is anything to wait for).
* `SuccessIsDrained`: `Spec => DrainedOnSuccess`, from `InOps` (which ioctl is at which
  program counter) and `Drained` (behind `wait_send` the ring is empty, and with a
  result of 0 the transmitter).
* `WaitingIsIntact`: `Spec => []ValidIntact`, from `NumberInv` (characters carry the number
  of a frame that was begun), `Intact` (a frame that is valid is the end of a
  reception, its five characters are of one number) and `FateInv` (the frame whose
  fate is open is the one in the buffer).
* `OldRepliesAreRefused`: `ModeKept /\ Spec => []WaitingIsNewer`. `NewerInv`: the number being
  answered never runs ahead, is below the buffer's while a frame is there, and a
  frame is not valid and under reception at once. `ModeKept` (the process does not
  set the mode again) is needed, see section 3.

`FrameQuality_proofs`: `VerdictIsTrue`, `Spec => []VerdictTrue`, any characters in any order and
number. `calculate_checksum` is a recursive function; over a frame of any length it is
0 for zeroes only, and otherwise 1 + (sum - 1) mod 255, which is what lets one
wrong byte be noticed unless it differs by 255. `VerdictInv` has the counters
(`CountersInv`: characters are sound or broken ones, breaks are broken ones, the
sound ones are in the buffer) and the verdict on them (`JudgedInv`).

The same module proves of `RingsSpec`, for rings of any length in which a command frame
fits, any blocks, frames and FIFO (`RingsAssumption`):

* `RingsKeepShape`: `RingsSpec => []RingsInv`, inductive as it stands: the indices are inside
  and the cells hold octets.
* `RingsStayQueues`: `RingsSpec => RingsAreQueues`. Every step from rings in
  that shape is one of the queues they stand for. `Place` and `Between` are the arithmetic
  modulo the length without its modulus (`PlaceIs`, `BetweenIs`, `Moves`); a `Segment` is what lies
  from a tail on, of which a store makes a longer one (`SegmentAppend`) and a take two
  (`SegmentParts`). `CopyIs` and `CopiedIn` put the two parts of a copied block together,
  wherever the array ends in it, and `SumIs` shows by induction over the length that
  the checksum calculated in the array is that of the bytes in a row.

`PortsAreReturned` (in `Data_proofs`): `SetupSpec => []PortsReturned`, any ports, parameters and
devices and every combination of failing steps. `KernelOK` says of each port who
has it (`PortOK`) and of each device that what it holds is what it has to give
back (`DevOK`); loading and unloading run over the devices, and both are
inductions over their number.

### The masters

`SioMaster_proofs` and `Userspace_proofs`: any requests, any number of calls, of faults
and of attempts in either loop (`MasterAssumption`, `UserMasterAssumption`).

* `TypeCorrect` of both: every variable has its type, the counters stay below their limits.
* `MasterImplementsTransaction`, `WrapperImplementsTransaction`: `Spec => TX!Spec`. The initial
  states agree; a step of the master is `Begin` (the call), `End` (the last round),
  `Perform` (the drive answers this command) or a stutter. For `End` one has to know
  that a result of 0 rests on the drive's own COMPLETE, and that takes the
  history of the whole transaction: `IInv` says, per program counter, that the
  drive listens while COMMAND is asserted (`LineInv`), that it has heard this frame or
  none (`FrameInv`), that the ring holds no surplus ACK (`AnswerInv`, without which an
  ACK taken for COMPLETE would count as success), that a COMPLETE or ERROR in the
  ring is the drive's last word (`WordInv`) and that the process has drawn the right
  conclusion (`ResultInv`). Each part alone is not inductive. TLC has checked both
  `IInv` with two faults before they were proved.
* `BufferIsOurs` of both: `Spec => DataIsOurs`, by `DataInv`: what is in the ring after the
  frame has been sent was sent for this command.
* `WritesAreLimited` (driver): `Spec => []WritesLimited`, by `WriteInv`: the performances so
  far, and the one that may still come, are covered by the rounds begun. It rests on
  `HeardInv` (the drive and the transmit ring do not mix up commands).
* `RatesDoAgree` (driver): `Spec => RatesAgree`. `RateInv` gives the driver's rate for each
  program counter and mode, `HeardInv` says that a drive which answers has heard the
  frame of that mode.
* `LineIsReleased`: in the driver only a signal makes the ioctl return with COMMAND
  asserted; in the wrapper nothing does, `Spec => []LineReleased` (no run checks this one:
  `LineInv` is inductive and the theorem covers every instance).

### The server without the driver

`Userspace_proofs`, any number of frames, characters and errors, any sizes of frame,
read and buffer with the code's relation (`UserServerAssumption`).

* `FramesAreWhole`: `ServerSpec => []HandedWhole`. `ServerInv` adds to types and property that
  the loop does not wait in the receiving state with a whole frame in the buffer
  (`Looked`): that is what bounds the read behind `select`.
* `RepliesStay`: `ServerSpec => RepliesNotCut`. What makes it hold is that `TrySwitchbaud` comes
  only after a frame that could not be read, and that a prompt Atari waits for its
  answer before it sends again. `RepliesInv` follows the Atari's frame from the COMMAND
  line to the reply: the loop knows the line (`KnownInv`), what moves is of the
  frame in progress (`MovingInv`), and for a prompt Atari one of the parts of
  `PromptInv` holds: asserted and nothing sent, heard so far, garbled, whole, served.

### The devices

`Devices_proofs`:

* `GeometriesAreSound`: every geometry an image can get by its number of sectors, all
  sector lengths: contiguous sectors that fill the image, and headers that keep
  it. From it `FilesKeepGeometry`: `FilesSpec => []GeometrySound`, with `FilesInv`: whatever is read from
  a file has a geometry that a number of sectors gives, or there is no image
  (`FilesAssumption`: lengths of sectors are those of the code).
* `AnswersAreTrue`, `ConfigIsFresh`, `DiskTypeCorrect`: any sectors, contents, PERCOM blocks and
  failing calls. `DiskInv` is `DiskTypeOK`, `ConfigFresh` and `Promised`; the latter is carried by
  two lemmas, one for commands that touch no sector or end in an error (`Harmless`)
  and one for those that do and are completed last (`Settles`). `DiskTypeCorrect` rests
  on `VerifyPercomFormat`'s arithmetic: every layout it lets through multiplies to a
  sector number. `RateIsLeft` and `ProtectionHolds` are action properties from the same
  invariant.
* `NearestIsRead`, `AtpKeepsItsPromise`: any layouts of tracks, disks, times and sequences of
  commands, formats, saves and loads (`AtpAssumption`: a layout puts no two sectors at
  one place, a file's tracks are in order, as the loader checks). `AtpInv` keeps the
  tracks in the order of their places (`SoundTracks`), which `AddSector`, formatting and
  loading preserve and which makes the first match behind the head the nearest
  one, also across the index. `KnownAll` says that every good copy of a sector holds
  what the Atari may expect, whichever of several copies the head meets.
  `TrackComesBack`: the chunks written for a track are read back as that track.
* `NothingIsSwallowed`: `PrinterSpec => []RepliesLogged`, lines and bursts of any length and any
  size of buffer and pipe. A reply is cut into lines in the buffer and once more by
  the buffer's end; `CutKeeps` says that cutting, and dropping the newline, keeps
  what is visible. `PrinterInv` adds the types of the buffers.
* `TapeTypeCorrect`, `TapeIsSound`: any sequence of keys, sends and failures, for all tapes
  the reader turns into blocks, rates of 0 among them. `TapeInv` is types, `Handled` (the
  driver in tape mode remembers the drives' settings), `Placed` (a deck that plays is
  inside a block whose rate is set, if it has one) and `Heard` (as long as nothing
  failed or was refused, what was played went out right). `TapeAssumption` says that the result of the reader is a sequence of blocks;
  TLC evaluates it on the tapes of the run.

### The drives' owner

`Frontend_proofs`, any number of drives, files, names, remote commands in a frame and
events (`ManagerAssumption`, `FrontendAssumption`): `OptionsAlwaysAgree`, `CleanIsAlwaysSaved`,
`ChangesAreKept`. `ManagerOK` says that the manager is a record of its fields (`Shape`), that a
handler agrees with the options and is clean only if it is saved (`InSlot`), and that
an image the user interface holds on to is there (`HeldOK`). There is a lemma per
method of `DeviceManager`, from any good state and outcome to a good state; the commands
and the keys are made of those, the loops over drives and over the commands of a
frame by induction.

### Files and disks

`Data_proofs`:

* `VirtualTypeCorrect`, `HostIsKept`: any names, entries and numbers of writes, with every
  outcome of writing back and of `mkdir`. `VirtualTypeOK` is inductive: a name of the Atari
  that is remembered has one of the host beside it, but for the names that the
  listing shows without one (`Unnamed`), and the server ends only where there are such.
  From it every write of an entry is `Safe`: it changes a file of the host only in
  closing that entry, to its contents or to part of them.
* `HostMirrors`: `OwnNames /\ VirtualSpec => []Mirrored`. `OwnNames` is about the directory the drive is
  made of: no file of it is shown under another name than the one its own would
  get. Without it the property does not hold, see section 3. `MirrorInv`: no two
  entries have one name (`OwnEntries`), of two names remembered each has a file of its
  own (`Own`), a directory with a file is never deleted (`FullStays`), and behind every
  entry of which the host took what it has, the host still has it (`There`). The
  server may fail to write or end at any point.
* `CopiesAreTrue`: `XferSpec => []CopyIsTrue`, disks and images of any size, any number of faults
  and retries (`XferAssumption`: how the numbers of sectors of the formats compare; those of
  single and of double density are below the last of an enhanced disk). `XferInv` has a part for
  reading (`ReadInv`), one for writing (`WriteInv`: what lies behind is the image's, what
  lies ahead is zero, and the sector at hand may be either), one for the
  formatting before it (`ConfigInv`: a drive that is told to format has been
  configured for the density of the image) and one for what the program takes the
  disk to be (`FormatInv`: the disk's format, or one of which the reading of sector 721
  is still to tell it, unless `misled`). `DensityTaken`, `WordTaken` and `ProbeTells` are the
  three ways to it.

* `DiskIsSound`: `DosSpec => []DiskSound`, any image of DOS 2, DOS 2.5 and MyDOS with 720 to 65535
  sectors, any files, up to a full disk (`DosAssumption`: what `SetDosFormat` accepts, and
  no file without sectors). `Lists` says that bits, bytes and tables put together are
  the free sectors in their order, whence `AllocSectors` gets as many different ones
  as it wants (`LowestIs`). `DosInv` is `ImageOK`, `TablesOK` (the tables agree where they overlap
  and the counters count) and `DirOK` (entries have sectors of their own that no table
  shows as free, and names of their own). `SizesAre` has the arithmetic: a file system
  with links of ten bits has no sector above 1023, and the tables never need a
  byte behind the last table sector. `NameIsFresh`: there are more numbers than entries.
* `CodecsDoKeepData`: `CodecSpec => []CodecsKeepData`, any lengths of a full sector and of a pass,
  any values of a byte, any number of sectors with any contents, and whatever bytes the
  reader's buffer holds at first (`CodecAssumption`: a
  smaller sector is no shorter than half a full one, a pass is longer than its
  header). Each loop is shown to exist by induction over its turns (`LoopExists`).
  `Rec41`, `Rec43` and `Rec44` say that what one encoder writes its decoder turns back; for
  record 43 the two loops go in lockstep, a run of one being a run of the other
  (`InStep`). `SaveInv` holds after every turn of `Save`: the closed passes, and the open one
  whether or not it turns out to be the last, are read back up to the sector at
  hand, and two turns per sector are enough to reach the end (`SaveStep`). `ChecksumIs`: the
  checksum of a DI file stays a byte and is zero exactly as long as all bytes were.

### Only model-checked

* Liveness: `SendReturns`, `FrameFetched`, `DataFetched`, `MasterReturns`, `HeardAtLast`, `TapeEnds`,
  `PrinterLetsGo`, `Served`. Fairness and `ENABLED` are beyond the prover.
* The reader of tapes, which folds over the chunks of a file.

## 6. Plan

Done: the driver's two modes, both masters, the userspace server, every handler,
the device manager and its callers, images, file systems and codecs, the copy
program, loading of the driver, the rings; and a theorem for every safety property the
passing runs check. Left: the disk drive composed with the driver's reply gating,
which `DiskDrive` now has as "refused or failed"; gzip and byte access of image files.

## 7. Not modelled, and why

* Register-level probing, detection of chip and base clock, FSK bit banging and
  delays: no state to interleave. Timestamps and logging.
* Receive FIFO overruns reach the model as shorter runs of characters; faults
  while copying from or to the process reach the rings only, and the wrap of `jiffies`
  does not exist in it. Several processes cannot be in the ioctls at once: `open` refuses a second
  one.
* How a rate is set with termios, the delays of the userspace wrapper.
* Directory lists, their cache, the search path, history and smart pointers:
  small sequential containers of one thread. The cache goes by modification times
  of one second's resolution (`tools/DirectoryCache.cpp:77`).
* Names in the lists of MyPicoDos, apart from that they are files of the Atari only; the
  text of file names on virtual drives beyond the case of their letters.
* Drawing, line editing and file selection of the front ends; `adir`, `ataridd`,
  `ataricom`, `atpdump` and the like, sequential readers and printers of files.
* Measuring and test programs, 6502 programs as byte arrays, contrib, docbook.
