------------------------------ MODULE TapeDeck ------------------------------
(***************************************************************************)
(* Tape emulation: CasImage reads a file, CasHandler plays it, the user    *)
(* works its keys, and the driver (or the userspace wrapper) sends.        *)
(*                                                                         *)
(* The handler runs in one thread.  A pass of DoPlaying's loop is a step:  *)
(* within it a send or a flush may fail.  good counts the entries of the   *)
(* current block that went out as the file has them: at the block's rate,  *)
(* by a line that is in tape mode, FSK levels alternating.                 *)
(***************************************************************************)
EXTENDS Integers, SequencesExt

CONSTANTS
    TapeFiles,     \* files the user may load: sequences of chunks
    MaxTransfer,   \* eMaxTransferSize, 200 in the code
    Skip,          \* blocks skipped by the up and down keys, 20 in the code
    NewPart,       \* a gap longer than this starts a part, 5000 ms in the code
    StandardRate, DefaultTapeRate

VARIABLES
    deck,          \* "unloaded", or fState: "paused", "gap", "playing", "done"
    tape,          \* fCasImage: the blocks
    block, pos,    \* fCurrentBlockNumber, fCurrentBytePos (blocks count from 1)
    kernel,        \* the driver is used, not the userspace wrapper
    drv,           \* rates and tape mode of the driver
    good, failed,  \* what the Atari heard of the block; a call failed since start
    refused        \* the driver has refused to start its tape mode before

tapevars == <<deck, tape, block, pos, kernel, drv, good, failed, refused>>

Running == {"gap", "playing"}
-----------------------------------------------------------------------------
(* CasImage: from the chunks of a file to blocks.                          *)

ReadChunk(r, c) ==
    LET part == IF Len(r.blocks) > 0 /\ c.aux > NewPart THEN r.part + 1 ELSE r.part
        new(rate) == [kind |-> c.type, len |-> c.len, rate |-> rate, part |-> part]
    IN  CASE c.type = "baud" -> [r EXCEPT !.rate = c.aux]
          [] c.type = "data" -> [r EXCEPT !.part = part, !.blocks = Append(@, new(r.rate))]
          [] c.type = "fsk"  -> [r EXCEPT !.part = part, !.blocks = Append(@, new(0))]
          [] c.type \in {"FUJI", "short"} -> [r EXCEPT !.ok = FALSE]
          [] OTHER -> r

ReadImageFromFile(file) ==
    IF file = <<>> \/ Head(file).type # "FUJI" THEN [ok |-> FALSE, blocks |-> <<>>]
    ELSE LET r == FoldLeft(ReadChunk, [ok |-> TRUE, blocks |-> <<>>, part |-> 0, rate |-> 600], Tail(file))
         IN  [ok |-> r.ok /\ r.blocks # <<>>, blocks |-> r.blocks]

TapeBlocks == [kind : {"data", "fsk"}, len : Nat, rate : Nat, part : Nat]

\* What the reader makes of a file are blocks, and a long send is split where the
\* levels of an FSK block are as at its beginning.
ASSUME TapeAssumption ==
    /\ MaxTransfer \in Nat /\ MaxTransfer % 2 = 0
    /\ StandardRate \in Nat /\ DefaultTapeRate \in Nat
    /\ \A f \in TapeFiles : ReadImageFromFile(f).blocks \in Seq(TapeBlocks)

\* CasHandler's index of the first block of each part.
PartStart(p) == CHOOSE i \in DOMAIN tape :
    tape[i].part = p /\ \A j \in 1 .. i - 1 : tape[j].part # p
Parts == tape[Len(tape)].part + 1
-----------------------------------------------------------------------------
(* The calls of the wrapper.  What they return the handler does not look at. *)

\* The driver remembers a rate of 0 but refuses to set it; the rate stays.
SetBaudrate(d, r) == IF r = 0 THEN d.rate ELSE r

SetTapeBaudrate(d, r) ==
    IF kernel THEN [d EXCEPT !.trate = r, !.rate = IF d.tape THEN SetBaudrate(d, r) ELSE @]
    ELSE [d EXCEPT !.trate = r, !.rate = r]

\* Refused, the receiver and automatic switching are off and tape mode is not on.
StartTapeMode(d) ==
    IF ~kernel THEN [d EXCEPT !.old = d.rate, !.rate = d.trate]
    ELSE IF d.tape THEN d
    ELSE [d EXCEPT !.old = d.rate, !.oldAuto = d.auto, !.oldRx = d.rx,
                   !.rx = FALSE, !.auto = FALSE,
                   !.rate = SetBaudrate(d, d.trate), !.tape = d.trate # 0]

EndTapeMode_KeepsReceiver(d) ==
    IF kernel /\ d.tape THEN [d EXCEPT !.rate = d.old, !.auto = d.oldAuto, !.tape = FALSE] ELSE d

EndTapeMode(d) ==
    IF ~kernel THEN [d EXCEPT !.rate = d.old]
    ELSE IF ~d.tape THEN d
    ELSE [d EXCEPT !.rx = d.oldRx, !.rate = d.old, !.auto = d.oldAuto, !.tape = FALSE]

\* perform_send_fsk_data_*: the first interval of every call is a break, and
\* the levels alternate from there.
FskLevelRight(p) == p % 2 = 0

\* Whether what is sent from pos on is what block b of the file says.
SentAsIs(d, b, p) ==
    /\ kernel => d.tape
    /\ tape[b].kind = "data" => d.rate = tape[b].rate
    /\ tape[b].kind = "fsk"  => FskLevelRight(p)

SetupNewBlock(b, d) ==
    IF tape[b].kind = "data" THEN SetTapeBaudrate(d, tape[b].rate) ELSE d
-----------------------------------------------------------------------------
(* CasHandler, at a tape speed of 100 percent.                              *)

AbortTapePlayback(s) ==
    [deck |-> "done", drv |-> IF s.deck \in Running THEN EndTapeMode(s.drv) ELSE s.drv]

ChunkLength(b, p) ==
    IF tape[b].len - p < MaxTransfer THEN tape[b].len - p ELSE MaxTransfer

\* The gap is over, or the user skips it.
GapEnds ==
    /\ deck = "gap"
    /\ deck' = "playing"
    /\ UNCHANGED <<tape, block, pos, kernel, drv, good, failed, refused>>

NextBlock_SameAgain(s, flushed) ==
    [deck |-> "gap", drv |-> SetupNewBlock(block, s.drv), block |-> block, pos |-> 0]

\* The end of the block: what was sent is flushed, the next block is set up.
NextBlock(s, flushed) ==
    LET t == IF flushed THEN s ELSE AbortTapePlayback(s)
    IN  IF block < Len(tape)
        THEN [deck |-> "gap", drv |-> SetupNewBlock(block + 1, t.drv), block |-> block + 1, pos |-> 0]
        ELSE LET u == AbortTapePlayback(t)
             IN  [deck |-> u.deck, drv |-> u.drv, block |-> block, pos |-> tape[block].len]

PlayChunk(sent, flushed) ==
    LET len   == ChunkLength(block, pos)
        end   == pos + len = tape[block].len
        start == [deck |-> deck, drv |-> drv]
        s0    == IF len <= 0 THEN AbortTapePlayback(start) ELSE start
        s1    == IF sent THEN s0 ELSE AbortTapePlayback(s0)
        res   == IF end THEN NextBlock(s1, flushed)
                 ELSE [deck |-> s1.deck, drv |-> s1.drv, block |-> block, pos |-> pos + len]
    IN  /\ deck = "playing"
        /\ sent => kernel \/ tape[block].kind = "data"
        /\ end \/ flushed
        /\ kernel \/ flushed
        /\ deck' = res.deck /\ drv' = res.drv /\ block' = res.block /\ pos' = res.pos
        /\ good' = IF res.block # block THEN 0
                   ELSE IF sent /\ SentAsIs(s0.drv, block, pos) THEN good + len ELSE good
        /\ failed' = (failed \/ ~sent \/ ~flushed \/ len <= 0)
        /\ UNCHANGED <<tape, kernel, refused>>

\* The state and driver a pause leaves; it is only asked for while running.
Paused(s) == IF s.deck \in Running THEN [deck |-> "paused", drv |-> EndTapeMode(s.drv)] ELSE s

Pause ==
    /\ deck \in Running
    /\ LET s == Paused([deck |-> deck, drv |-> drv]) IN deck' = s.deck /\ drv' = s.drv
    /\ UNCHANGED <<tape, block, pos, kernel, good, failed, refused>>

Start ==
    /\ deck \in {"paused", "done"}
    /\ drv' = StartTapeMode(SetupNewBlock(block, drv))
    /\ deck' = "gap" /\ pos' = 0 /\ good' = 0 /\ failed' = FALSE
    /\ refused' = (refused \/ (kernel /\ ~drv'.tape))
    /\ UNCHANGED <<tape, block, kernel>>

\* The block each of the seek operations goes to.
SeekTargets ==
    LET p == tape[block].part
    IN  {1, Len(tape), block}
        \cup {IF block + n > Len(tape) THEN Len(tape) ELSE block + n : n \in {1, Skip}}
        \cup {IF n >= block THEN 1 ELSE block - n : n \in {1, Skip}}
        \cup {IF p + 1 < Parts THEN PartStart(p + 1) ELSE block}
        \cup {IF PartStart(p) # block THEN PartStart(p)
              ELSE IF p > 0 THEN PartStart(p - 1) ELSE block}

Seek(b) ==
    /\ deck # "unloaded"
    /\ b \in SeekTargets
    /\ LET s == Paused([deck |-> deck, drv |-> drv])
       IN  deck' = s.deck /\ drv' = SetupNewBlock(b, s.drv)
    /\ block' = b /\ pos' = 0 /\ good' = 0
    /\ UNCHANGED <<tape, kernel, failed, refused>>

LoadCasImage(file) ==
    /\ deck = "unloaded"
    /\ ReadImageFromFile(file).ok
    /\ tape' = ReadImageFromFile(file).blocks
    /\ deck' = "paused" /\ block' = 1 /\ pos' = 0 /\ good' = 0 /\ failed' = FALSE
    /\ UNCHANGED <<kernel, drv, refused>>

\* The user leaves tape emulation: playback is aborted, the image unloaded.
Quit ==
    /\ deck # "unloaded"
    /\ deck' = "unloaded"
    /\ drv' = AbortTapePlayback([deck |-> deck, drv |-> drv]).drv
    /\ tape' = <<>> /\ block' = 0 /\ pos' = 0 /\ good' = 0
    /\ UNCHANGED <<kernel, failed, refused>>

TapeInit ==
    /\ deck = "unloaded" /\ tape = <<>> /\ block = 0 /\ pos = 0 /\ good = 0 /\ failed = FALSE
    /\ refused = FALSE
    /\ kernel \in BOOLEAN
    /\ drv = [rate |-> StandardRate, old |-> 0, trate |-> DefaultTapeRate, tape |-> FALSE,
              auto |-> TRUE, oldAuto |-> FALSE, rx |-> TRUE, oldRx |-> FALSE]

Playing == \E sent, flushed \in BOOLEAN : PlayChunk(sent, flushed)

TapeNext ==
    \/ GapEnds
    \/ Playing
    \/ Pause
    \/ Start
    \/ \E b \in 1 .. Len(tape) : Seek(b)
    \/ \E f \in TapeFiles : LoadCasImage(f)
    \/ Quit

\* The frontend calls DoPlaying again and again while the deck runs.
TapeFairness == WF_tapevars(GapEnds) /\ WF_tapevars(Playing)

TapeSpec == TapeInit /\ [][TapeNext]_tapevars /\ TapeFairness
-----------------------------------------------------------------------------
(* Properties.                                                             *)

Drivers == [rate : Nat, old : Nat, trate : Nat, tape : BOOLEAN, auto : BOOLEAN,
            oldAuto : BOOLEAN, rx : BOOLEAN, oldRx : BOOLEAN]

\* Every variable has its type; a tape that is loaded is at one of its blocks.
TapeTypeOK ==
    /\ deck \in {"unloaded", "paused", "gap", "playing", "done"}
    /\ tape \in Seq(TapeBlocks) /\ pos \in Nat /\ good \in Nat
    /\ IF deck = "unloaded" THEN block = 0 ELSE block \in 1 .. Len(tape)
    /\ {kernel, failed, refused} \subseteq BOOLEAN /\ drv \in Drivers

\* As long as no call has failed and tape mode was never refused, all that was
\* played of a block reached the line as the file has it: at its rate, in tape mode,
\* with the levels of an FSK block alternating although it is sent in pieces.  A
\* rate of 0 in the file is no rate: that block goes out at the one before.
HasRate(b) == tape[b].kind = "data" => tape[b].rate # 0
WholeBlocks == deck = "playing" /\ ~failed /\ ~refused /\ HasRate(block) => good = pos

\* Once the deck does not run, the driver is back at the disk drives' rate, with
\* the receiver and automatic rate switching as they were, unless it has refused
\* to start its tape mode: a start at a rate of 0 switches them off for good.
KernelRestored ==
    kernel /\ deck \notin Running =>
        drv.rate = StandardRate /\ ~drv.tape /\ (refused \/ (drv.rx /\ drv.auto))

\* Both: what was played is right, and what is left behind.
TapeSound == WholeBlocks /\ KernelRestored

\* A tape that was started stops: at its end, by the user or by an error.
TapeEnds == deck \in Running ~> deck \notin Running

\* While the deck runs the driver is in tape mode.  No run checks this one, nor the
\* next two; TLC refutes them.
TapeModeHeld == kernel /\ deck \in Running => drv.tape

\* The driver hears the drives' commands whenever the deck does not run.
DrivesHeard == kernel /\ deck \notin Running => drv.rx /\ drv.auto

\* Once the user has left the deck, the line is at the disk drives' rate again.
BackToDrives == deck = "unloaded" => drv.rate = StandardRate
=============================================================================
