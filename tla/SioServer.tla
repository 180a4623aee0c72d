------------------------------ MODULE SioServer ------------------------------
(***************************************************************************)
(* The kernel driver in SIOSERVER mode (driver/atarisio.c).                *)
(*                                                                         *)
(* Three parties share the device structure:                               *)
(*   - the Atari and the UART: the COMMAND line, the characters it sends,  *)
(*     the transmitter that drains.  Not code of the repository; modelled  *)
(*     from how the driver uses it;                                        *)
(*   - the interrupt handler: every pass of its loop is one action, for it *)
(*     holds dev->lock from its first register access to its last;         *)
(*   - the process that calls the ioctls: one action per lock region and   *)
(*     per access it makes outside the lock, so that interrupts fall       *)
(*     between a test and the use of what was tested.                      *)
(*                                                                         *)
(* Characters are abstracted to what the driver tells apart: good ones     *)
(* carry the number of the command frame they belong to (negated for those *)
(* of a data frame), garbled ones 0, so "the checksum matches" is "five    *)
(* characters of one command frame".  A ring buffer is the sequence of     *)
(* what is between its tail and its head; the elements remember the epoch  *)
(* (the number of command frame ends handled) in which they were stored,   *)
(* which is history and steers nothing.                                    *)
(***************************************************************************)
EXTENDS Integers, Sequences, FiniteSets, FrameQuality

CONSTANTS
    MaxFrames,     \* bound: command frames the Atari starts
    MaxChars,      \* bound: characters it sends between two line changes
    Bursts,        \* the runs of characters the UART may deliver at once
    DataLen,       \* bytes of a data frame, checksum not counted
    IobufLength,   \* IOBUF_LENGTH: a ring holds one character less
    FifoLen,       \* depth of the transmit FIFO (16 in the code)
    Ops,           \* the ioctls the process uses
    RiseInterrupts,\* DSR/CTS cabling: the leading edge interrupts, too
    BytePause,     \* add_highspeedpause & ATARISIO_HIGHSPEEDPAUSE_BYTE_DELAY
    Autobaud,      \* initial do_autobaud
    StoreReorder   \* the processor lets a load pass the store of the task state

Kinds == {"good", "garbled", "framing", "break", "framing+break"}

GetOps     == {"get", "poll"}
AgedOps    == {"ack", "nak", "ack_xf"}            \* checked for age as well
CharOps    == AgedOps \cup {"complete", "complete_xf", "error", "dack", "dnak"}
BlockOps   == {"data", "data_xf", "raw"}
RecvOps    == {"recv", "recv_raw"}
Unchecked  == {"dack", "dnak"}
ConfigOps  == {"mode", "print", "baud_std", "baud_hs", "autobaud_off"}
SendOps    == CharOps \cup BlockOps \cup {"recv"}
Checked    == (CharOps \ Unchecked) \cup BlockOps
AllOps     == GetOps \cup CharOps \cup BlockOps \cup RecvOps \cup ConfigOps

ASSUME ServerAssumption ==
    /\ MaxFrames \in Nat \ {0}
    /\ MaxChars \in Nat
    /\ Bursts \subseteq [kind : Kinds, n : Nat \ {0}]
    /\ DataLen \in Nat \ {0}
    /\ IobufLength \in Nat /\ IobufLength > DataLen + 2
    /\ FifoLen \in Nat \ {0}
    /\ Ops \subseteq AllOps
    /\ RiseInterrupts \in BOOLEAN
    /\ BytePause \in BOOLEAN
    /\ Autobaud \in BOOLEAN
    /\ StoreReorder \in BOOLEAN

VARIABLES
    line, delta,       \* COMMAND asserted; the modem status register's change bit
    rxf, txf,          \* receive FIFO (one burst); characters in the transmit FIFO
    last,              \* last_msr, the command line's bit
    cf, cur,           \* cmdframe_buf; current_cmdframe_serial_number
    rx, wakeup,        \* rx_buf; its wakeup_len (0 for -1)
    tx, thri,          \* tx_buf; UART_IER_THRI in IER (see ThriStates)
    baud, just,        \* serial_config.baudrate, .just_switched_baud
    autobaud, lcr,     \* do_autobaud; serial_config.LCR
    pc, op, ret,       \* the process: where it is, in which ioctl, its result
    tstate, nrx,       \* current->state; no_received_chars
    frames, sent,      \* history: frames started, characters since a line change
    epoch, fate,       \* history: command frame ends handled, each frame's fate
    lost               \* history: characters were flushed during this ioctl

env   == <<line, delta, rxf, txf, frames, sent>>
conf  == <<baud, just, autobaud, lcr>>
local == <<op, ret, nrx, lost>>
host  == <<pc, tstate, local>>
hist  == <<epoch, fate>>
bufs  == <<rx, wakeup, tx, thri>>
vars  == <<env, last, cf, cur, bufs, conf, host, hist>>

\* "read": enabled, but its indication was cleared by a read of UART_IIR
ThriStates == {"off", "armed", "read"}
Bauds == {"std", "hs", "xf"}     \* default_baudrate, highspeed_baudrate, 38400
Fates == {"none", "pending", "handed", "missed", "reported", "expired", "dropped"}
-----------------------------------------------------------------------------
(* The command frame buffer.                                               *)

\* reset_cmdframe_buf_data; fresh is FALSE for an end_reception_time of 0,
\* too, which is always too old.
ResetData(c) ==
    [c EXCEPT !.valid = FALSE, !.receiving = FALSE, !.buf = <<>>,
              !.ok = 0, !.err = 0, !.brk = 0, !.fresh = FALSE]

\* (A definition named X_... is X with a plausible mistake: each property is
\* run once against such a mutant of the code to see that it can fail.)

\* check_modem_lines_before_receive, on a leading edge
StartFrame_NoSerial(c) ==
    [ResetData(c) EXCEPT !.receiving = TRUE,
                         !.missed = IF c.valid THEN c.missed + 1 ELSE c.missed]

StartFrame(c) ==
    [ResetData(c) EXCEPT !.receiving = TRUE,
                         !.serial = c.serial + 1,
                         !.missed = IF c.valid THEN c.missed + 1 ELSE c.missed]

IsOk(b)  == b.kind \in {"good", "garbled"}
IdOf(b)  == IF b.kind = "good" THEN b.id ELSE 0

\* receive_chars, while a command frame is being received
CollectChars(c, b) ==
    LET room == FrameLength - Len(c.buf)
        take == IF b.n < room THEN b.n ELSE room
    IN  [c EXCEPT
          !.buf = IF IsOk(b) THEN @ \o [i \in 1 .. take |-> IdOf(b)] ELSE @,
          !.ok  = IF IsOk(b) THEN @ + b.n ELSE @,
          !.err = IF b.kind \in {"framing", "framing+break"} THEN @ + b.n ELSE @,
          !.brk = IF b.kind \in {"break", "framing+break"} THEN @ + b.n ELSE @]

\* receive_chars, otherwise: the ring takes what fits, the rest is sunk
FillRing(r, b) ==
    LET room == (IobufLength - 1) - Len(r)
        take == IF b.n < room THEN b.n ELSE room
    IN  IF IsOk(b)
        THEN r \o [i \in 1 .. take |-> [id |-> IdOf(b), ep |-> epoch]]
        ELSE r

\* All five stored characters are those of one frame.
SumOK(c) ==
    /\ Len(c.buf) = FrameLength
    /\ c.buf[1] > 0
    /\ \A i \in 1 .. FrameLength : c.buf[i] = c.buf[1]

Quality(c) == CheckQuality(c.receiving, c.ok, c.err, c.brk, SumOK(c))

EndFrame_KeepsValid(c) ==
    [c EXCEPT !.valid = (@ \/ Quality(c) = "ok"),
              !.fresh = IF Quality(c) = "ok" THEN TRUE ELSE @,
              !.receiving = FALSE]

\* check_modem_lines_after_receive, on a trailing edge
EndFrame(c) ==
    [c EXCEPT !.valid = (Quality(c) = "ok"),
              !.fresh = IF Quality(c) = "ok" THEN TRUE ELSE @,
              !.receiving = FALSE]
-----------------------------------------------------------------------------
(* Baud rate switching.                                                    *)

\* set_baudrate: nothing happens, not even to just, when the rate is set
SetBaud(b) ==
    /\ baud' = b
    /\ just' = (just \/ baud # b)

\* validate_command_frame and try_switchbaud, for a frame of quality q
SwitchesBaud(q) ==
    /\ autobaud
    /\ \/ q = "major"
       \/ q = "normal" /\ ~just

OtherBaud == IF baud = "std" THEN "hs" ELSE "std"
-----------------------------------------------------------------------------
(* The interrupt handler.                                                  *)

NoBurst == [kind |-> "good", n |-> 0, id |-> 0]

\* UART_IIR: received data, modem status, or transmitter empty
Pending == rxf.n > 0 \/ delta \/ (thri = "armed" /\ txf = 0)

CmdQueue == {"g_set", "g_test", "g_sched"}
RxQueue  == {"rw_set", "rw_test", "rw_sched"}
TxQueue  == {"ws_set", "ws_test", "ws_sched"}

Wake_NoCommand(cmd, rcv, snd) ==
    tstate' = IF (rcv /\ pc \in RxQueue) \/ (snd /\ pc \in TxQueue) THEN "R" ELSE tstate

Wake_NoReceive(cmd, rcv, snd) ==
    tstate' = IF (cmd /\ pc \in CmdQueue) \/ (snd /\ pc \in TxQueue) THEN "R" ELSE tstate

\* wake_up on the queues whose conditions came true
Wake(cmd, rcv, snd) ==
    tstate' = IF \/ cmd /\ pc \in CmdQueue
                 \/ rcv /\ pc \in RxQueue
                 \/ snd /\ pc \in TxQueue
              THEN "R" ELSE tstate

\* The flush of both rings at the end of a command frame.
Flush_Dropped(end, ring) == ring
Flush(end, ring) == IF end THEN <<>> ELSE ring

\* History: what becomes of frames on a leading edge and on a trailing edge.
FatesAfter(rise, end, c) ==
    LET f1 == [i \in 1 .. MaxFrames |->
                 IF fate[i] = "pending" /\ rise THEN "missed"
                 ELSE IF fate[i] = "pending" /\ end THEN "dropped"
                 ELSE fate[i]]
    IN  IF end /\ Quality(c) = "ok" THEN [f1 EXCEPT ![c.buf[1]] = "pending"] ELSE f1

\* One pass of the loop of atarisio_interrupt.
Interrupt ==
    /\ Pending
    /\ LET rise == line /\ ~last
           end  == delta /\ ~line
           c1   == IF rise THEN StartFrame(cf) ELSE cf
           c2   == IF c1.receiving THEN CollectChars(c1, rxf) ELSE c1
           r2   == IF c1.receiving THEN rx ELSE FillRing(rx, rxf)
           q    == Quality(c2)
           bad  == end /\ q # "ok"
           t3   == Flush(end, tx)
           f3   == IF bad THEN 0 ELSE txf
           load == IF f3 > 0 THEN 0
                   ELSE IF Len(t3) < FifoLen THEN Len(t3) ELSE FifoLen
           t4   == SubSeq(t3, load + 1, Len(t3))
           idle == f3 = 0 /\ t4 = <<>>
       IN  /\ cf' = IF end THEN EndFrame(c2) ELSE c2
           /\ rx' = Flush(end, r2)
           /\ tx' = t4
           /\ txf' = f3 + load
           /\ thri' = IF idle THEN "off" ELSE IF load > 0 /\ thri = "read" THEN "armed" ELSE thri
           /\ lcr' = IF rxf.n > 0 THEN "std" ELSE lcr
           /\ baud' = IF bad /\ SwitchesBaud(q) THEN OtherBaud ELSE baud
           /\ just' = IF end THEN bad /\ SwitchesBaud(q) ELSE just
           /\ Wake(end /\ q = "ok",
                   wakeup \in (Len(rx) + 1) .. Len(r2),
                   idle)
           /\ epoch' = IF end THEN epoch + 1 ELSE epoch
           /\ fate' = FatesAfter(rise, end, c2)
           /\ lost' = (lost \/ (op \in SendOps /\ ((end /\ tx # <<>>) \/ (bad /\ txf > 0))))
    /\ last' = line
    /\ rxf' = NoBurst
    /\ delta' = FALSE
    /\ UNCHANGED <<line, frames, sent, cur, wakeup, autobaud, pc, op, ret, nrx>>
-----------------------------------------------------------------------------
(* The Atari and the UART.  While COMMAND is asserted the Atari sends the  *)
(* command frame, else it may send data frames.                            *)

Assert ==
    /\ ~line
    /\ frames < MaxFrames
    /\ line' = TRUE
    /\ frames' = frames + 1
    /\ sent' = 0
    /\ delta' = (delta \/ RiseInterrupts)
    /\ UNCHANGED <<rxf, txf, last, cf, cur, bufs, conf, host, hist>>

Deassert ==
    /\ line
    /\ line' = FALSE
    /\ delta' = TRUE
    /\ sent' = 0
    /\ UNCHANGED <<rxf, txf, frames, last, cf, cur, bufs, conf, host, hist>>

\* A run of characters in the receive FIFO.
SendBurst ==
    /\ rxf.n = 0
    /\ frames > 0
    /\ \E b \in Bursts :
         /\ sent + b.n <= MaxChars
         /\ rxf' = [kind |-> b.kind, n |-> b.n, id |-> IF line THEN frames ELSE -frames]
         /\ sent' = sent + b.n
    /\ UNCHANGED <<line, delta, txf, frames, last, cf, cur, bufs, conf, host, hist>>

\* The transmitter shifts out what its FIFO holds; THRE is raised anew.
Drain ==
    /\ txf > 0
    /\ txf' = 0
    /\ UNCHANGED <<line, delta, rxf, frames, sent, last, cf, cur, bufs, conf, host, hist>>

\* More than 10 ms have passed since the end of the command frame.
FrameAges ==
    /\ cf.fresh
    /\ cf' = [cf EXCEPT !.fresh = FALSE]
    /\ UNCHANGED <<env, last, cur, bufs, conf, host, hist>>
-----------------------------------------------------------------------------
(* The process: entering and leaving an ioctl.                             *)

Goto(l) == pc' = l /\ UNCHANGED <<tstate, local>>

\* current->state = TASK_INTERRUPTIBLE, and back to TASK_RUNNING
Sleep(l) == pc' = l /\ tstate' = "S" /\ UNCHANGED local
Awake(l) == pc' = l /\ tstate' = "R" /\ UNCHANGED local

\* What is local to the ioctl goes out of scope with it.
Return(r) == pc' = "user" /\ ret' = r /\ tstate' = "R" /\ op' = "none" /\ nrx' = 0 /\ lost' = FALSE

EntryOf(o) ==
    CASE o = "get"         -> "g_set"
      [] o = "poll"        -> "p_wait"
      [] o \in Unchecked   -> "put"
      [] o \in ConfigOps   -> "config"
      [] OTHER             -> "check"

Call ==
    /\ pc = "user"
    /\ \E o \in Ops : op' = o /\ pc' = EntryOf(o)
    /\ ret' = "ok"
    /\ UNCHANGED <<tstate, nrx, lost, env, last, cf, cur, bufs, conf, hist>>

(* GET_COMMAND_FRAME and poll.                                             *)

DeviceUnchanged == UNCHANGED <<env, last, cf, cur, bufs, conf, hist>>

\* poll_wait and the unlocked test of is_valid; the poll core sleeps safely
Poll ==
    /\ pc = "p_wait"
    /\ cf.valid
    /\ Return("ready")
    /\ DeviceUnchanged

\* current->state = TASK_INTERRUPTIBLE, then the unlocked test of is_valid;
\* with StoreReorder the test may be made first.
GetSleep ==
    /\ \/ pc = "g_set"   /\ Sleep("g_test")
       \/ pc = "g_test"  /\ ~cf.valid /\ Goto("g_sched")
       \/ pc = "g_test"  /\ cf.valid  /\ Awake("g_lock")
       \/ pc = "g_set"   /\ StoreReorder /\ ~cf.valid /\ Goto("g_store")
       \/ pc = "g_store" /\ Sleep("g_sched")
       \/ pc = "g_sched" /\ tstate = "R" /\ Goto("g_set")
    /\ DeviceUnchanged

\* Under the lock: no frame, a frame that is too old, or a frame to hand out.
Taken(c) == [c EXCEPT !.valid = FALSE, !.missed = 0]

FatesReported(i) ==
    [j \in 1 .. MaxFrames |->
        IF j = i THEN "handed"
        ELSE IF fate[j] \in {"missed", "expired", "dropped"} THEN "reported"
        ELSE fate[j]]

GetNone ==
    /\ pc = "g_lock"
    /\ ~cf.valid
    /\ Return("timeout")
    /\ DeviceUnchanged

GetExpired ==
    /\ pc = "g_lock"
    /\ cf.valid
    /\ ~cf.fresh
    /\ cf' = [cf EXCEPT !.valid = FALSE]
    /\ fate' = [fate EXCEPT ![cf.buf[1]] = "expired"]
    /\ Goto("g_set") \/ Return("timeout")
    /\ UNCHANGED <<env, last, cur, bufs, conf, epoch>>

GetTake ==
    /\ pc = "g_lock"
    /\ cf.valid
    /\ cf.fresh
    /\ cf' = Taken(cf)
    /\ cur' = cf.serial
    /\ fate' = FatesReported(cf.buf[1])
    /\ rx' = <<>>
    /\ wakeup' = 0
    /\ tx' = <<>>
    /\ Return("ok")
    /\ UNCHANGED <<env, last, thri, conf, epoch>>
-----------------------------------------------------------------------------
(* Replies.                                                                *)

\* check_new_command_frame: two loads, outside the lock
Check ==
    /\ pc = "check"
    /\ IF cf.serial # cur
       THEN Return("timeout")
       ELSE Goto(CASE op \in AgedOps  -> "age"
                   [] op \in CharOps  -> "put"
                   [] op \in BlockOps -> "setup"
                   [] OTHER           -> "rw_len")
    /\ DeviceUnchanged

\* check_command_frame_time, under the lock
CheckTime ==
    /\ pc = "age"
    /\ IF cf.fresh THEN Goto("put") ELSE Return("timeout")
    /\ DeviceUnchanged

\* send_single_character: the head moves, full or not
Put ==
    /\ pc = "put"
    /\ tx' = IF Len(tx) = IobufLength - 1 THEN <<>> ELSE Append(tx, epoch)
    /\ Goto("init")
    /\ UNCHANGED <<env, last, cf, cur, rx, wakeup, thri, conf, hist>>

\* send_block: setup_send_frame starts at the tail, whatever was queued
Setup ==
    /\ pc = "setup"
    /\ lcr' = IF BytePause /\ baud # "std" THEN "slow" ELSE lcr
    /\ tx' = [i \in 1 .. DataLen + (IF op = "raw" THEN 0 ELSE 1) |-> epoch]
    /\ Goto("init")
    /\ UNCHANGED <<env, last, cf, cur, rx, wakeup, thri, baud, just, autobaud, hist>>

InitiateSend_Dropped ==
    /\ pc = "init"
    /\ Goto("ws_set")
    /\ UNCHANGED <<env, last, cf, cur, bufs, conf, hist>>

\* initiate_send
InitiateSend ==
    /\ pc = "init"
    /\ thri' = IF tx # <<>> /\ thri = "off" THEN "armed" ELSE thri
    /\ Goto("ws_set")
    /\ UNCHANGED <<env, last, cf, cur, rx, wakeup, tx, conf, hist>>

\* What a send returns to the rest of its ioctl.
Result(r) == IF ret = "checksum" THEN "checksum" ELSE r

Finish(r) ==
    IF op \in BlockOps \cup {"ack_xf", "complete_xf"}
    THEN /\ pc' = IF op \in BlockOps THEN "post" ELSE "xf"
         /\ ret' = r
         /\ tstate' = "R"
         /\ UNCHANGED <<op, nrx, lost>>
    ELSE Return(Result(r))

SendSleep_NoTemt ==
    /\ \/ pc = "ws_set"   /\ Sleep("ws_test")
       \/ pc = "ws_test"  /\ tx # <<>> /\ Goto("ws_sched")
       \/ pc = "ws_test"  /\ tx = <<>> /\ Awake("ws_temt")
       \/ pc = "ws_sched" /\ tstate = "R" /\ Goto("ws_set")
       \/ pc = "ws_temt"  /\ Finish("ok")
    /\ DeviceUnchanged

\* wait_send
SendSleep ==
    /\ \/ pc = "ws_set"   /\ Sleep("ws_test")
       \/ pc = "ws_test"  /\ tx # <<>> /\ Goto("ws_sched")
       \/ pc = "ws_test"  /\ tx = <<>> /\ Awake("ws_after")
       \/ pc = "ws_set"   /\ StoreReorder /\ tx # <<>> /\ Goto("ws_store")
       \/ pc = "ws_store" /\ Sleep("ws_sched")
       \/ pc = "ws_sched" /\ tstate = "R" /\ Goto("ws_set")
       \/ pc = "ws_after" /\ tx # <<>> /\ Finish("timeout")
       \/ pc = "ws_after" /\ tx = <<>> /\ Goto("ws_temt")
       \/ pc = "ws_temt"  /\ txf = 0 /\ Finish("ok")
    /\ DeviceUnchanged

\* The end of send_block: the test of the set-up is made once more.
RestoreLcr ==
    /\ pc = "post"
    /\ lcr' = IF BytePause /\ baud # "std" THEN "std" ELSE lcr
    /\ IF op = "data_xf" THEN Goto("xf") ELSE Return(ret)
    /\ UNCHANGED <<env, last, cf, cur, bufs, baud, just, autobaud, hist>>

\* set_baudrate at the end of the XF551 ioctls, whatever the send returned
SwitchXF551 ==
    /\ pc = "xf"
    /\ SetBaud(IF op = "ack_xf" THEN "xf" ELSE "std")
    /\ Return(ret)
    /\ UNCHANGED <<env, last, cf, cur, bufs, autobaud, lcr, hist>>
-----------------------------------------------------------------------------
(* RECEIVE_DATA_FRAME and RECEIVE_RAW_FRAME.                               *)

WantLen == DataLen + (IF op = "recv" THEN 1 ELSE 0)

ReceiveLen ==
    /\ pc = "rw_len"
    /\ wakeup' = WantLen
    /\ Goto("rw_set")
    /\ UNCHANGED <<env, last, cf, cur, rx, tx, thri, conf, hist>>

\* wait_receive: the spin lock in its loop orders the store and the test
ReceiveSleep ==
    /\ \/ /\ pc = "rw_set"
          /\ Sleep("rw_test")
       \/ /\ pc = "rw_test"
          /\ nrx' = Len(rx)
          /\ IF Len(rx) >= WantLen
             THEN pc' = "rw_after" /\ tstate' = "R"
             ELSE pc' = "rw_sched" /\ UNCHANGED tstate
          /\ UNCHANGED <<op, ret, lost>>
       \/ /\ pc = "rw_sched"
          /\ tstate = "R"
          /\ Goto("rw_set")
    /\ DeviceUnchanged

\* wakeup_len is -1 again; a short reception flushes what there is.
ReceiveWoken ==
    /\ pc = "rw_after"
    /\ wakeup' = 0
    /\ IF nrx < WantLen
       THEN /\ rx' = IF nrx > 0 THEN <<>> ELSE rx
            /\ Return("timeout")
       ELSE /\ UNCHANGED rx
            /\ Goto("rb")
    /\ UNCHANGED <<env, last, cf, cur, tx, thri, conf, hist>>

\* receive_block, under the lock: the ring is measured again
ReceiveBlock ==
    /\ pc = "rb"
    /\ IF Len(rx) < WantLen
       THEN /\ UNCHANGED rx
            /\ Return("timeout")
       ELSE /\ rx' = SubSeq(rx, WantLen + 1, Len(rx))
            /\ IF op = "recv_raw"
               THEN Return("ok")
               ELSE /\ ret' = IF \A i \in 1 .. WantLen : rx[i].id # 0
                              THEN "ok" ELSE "checksum"
                    /\ pc' = "put"
                    /\ nrx' = 0
                    /\ UNCHANGED <<op, tstate, lost>>
    /\ UNCHANGED <<env, last, cf, cur, wakeup, tx, thri, conf, hist>>
-----------------------------------------------------------------------------
(* Deadlines and signals.                                                  *)

Timeout ==
    /\ \/ pc = "p_wait"   /\ Return("timeout")
       \/ pc = "g_sched"  /\ Awake("g_lock")
       \/ pc = "ws_sched" /\ Awake("ws_after")
       \/ pc = "ws_temt"  /\ Finish("timeout")
       \/ pc = "rw_sched" /\ Awake("rw_after")
    /\ DeviceUnchanged

Signal ==
    /\ \/ pc \in {"p_wait", "g_sched", "rw_sched"} /\ Return("eintr")
       \/ pc = "ws_sched" /\ Finish("eintr")
    /\ DeviceUnchanged
-----------------------------------------------------------------------------
(* The ioctls that configure the device.                                   *)

\* set_sioserver_mode: the serial number of the frame being answered stays
SetMode ==
    /\ op = "mode"
    /\ lcr' = "std"
    /\ SetBaud("std")
    /\ cf' = [ResetData(cf) EXCEPT !.serial = 0, !.missed = 0]
    /\ fate' = [i \in 1 .. MaxFrames |->
                  IF fate[i] \in {"pending", "missed", "expired", "dropped"}
                  THEN "reported" ELSE fate[i]]
    /\ UNCHANGED <<env, thri, autobaud>>

\* print_status reads the receiver, the interrupt and the modem status.
PrintStatus ==
    /\ op = "print"
    /\ rxf' = IF rxf.n > 1 THEN [rxf EXCEPT !.n = @ - 1] ELSE NoBurst
    /\ delta' = FALSE
    /\ thri' = IF rxf'.n = 0 /\ thri = "armed" /\ txf = 0 THEN "read" ELSE thri
    /\ UNCHANGED <<line, txf, frames, sent, conf, cf, fate>>

SetBaudrate ==
    /\ op \in {"baud_std", "baud_hs", "autobaud_off"}
    /\ SetBaud(IF op = "baud_hs" THEN "hs" ELSE "std")
    /\ autobaud' = (autobaud /\ op # "autobaud_off")
    /\ UNCHANGED <<env, thri, lcr, cf, fate>>

Configure ==
    /\ pc = "config"
    /\ SetMode \/ PrintStatus \/ SetBaudrate
    /\ Return("ok")
    /\ UNCHANGED <<last, cur, rx, wakeup, tx, epoch>>
-----------------------------------------------------------------------------
Init ==
    /\ line = FALSE /\ delta = FALSE /\ last = FALSE
    /\ rxf = NoBurst /\ txf = 0
    /\ cf = [valid |-> FALSE, receiving |-> FALSE, fresh |-> FALSE, buf |-> <<>>,
             ok |-> 0, err |-> 0, brk |-> 0, serial |-> 0, missed |-> 0]
    /\ cur = 0
    /\ rx = <<>> /\ wakeup = 0
    /\ tx = <<>> /\ thri = "off"
    /\ baud = "std" /\ just = TRUE /\ autobaud = Autobaud /\ lcr = "std"
    /\ pc = "user" /\ op = "none" /\ ret = "ok" /\ tstate = "R" /\ nrx = 0
    /\ frames = 0 /\ sent = 0
    /\ epoch = 0 /\ lost = FALSE
    /\ fate = [i \in 1 .. MaxFrames |-> "none"]

Environment == Assert \/ Deassert \/ SendBurst \/ Drain \/ FrameAges

\* What the process does by itself once it is in an ioctl.
Run ==
    \/ Poll \/ GetSleep \/ GetNone \/ GetExpired \/ GetTake
    \/ Check \/ CheckTime \/ Put \/ Setup \/ InitiateSend \/ SendSleep
    \/ RestoreLcr \/ SwitchXF551
    \/ ReceiveLen \/ ReceiveSleep \/ ReceiveWoken \/ ReceiveBlock
    \/ Configure

Next == Environment \/ Interrupt \/ Call \/ Run \/ Timeout \/ Signal

Spec == Init /\ [][Next]_vars

\* The processor serves a pending interrupt, the process runs when it can,
\* the transmitter transmits.  No deadline and no signal is assumed.
FairSpec ==
    /\ Spec
    /\ WF_vars(Interrupt)
    /\ WF_vars(Run)
    /\ WF_vars(Drain)
-----------------------------------------------------------------------------
(* Properties.                                                             *)

PCs == {"user", "p_wait", "g_set", "g_test", "g_store", "g_sched", "g_lock",
        "check", "age", "put", "setup", "init", "ws_set", "ws_test", "ws_store",
        "ws_sched", "ws_after", "ws_temt", "post", "xf", "rw_len", "rw_set",
        "rw_test", "rw_sched", "rw_after", "rb", "config"}

FrameType ==
    [valid : BOOLEAN, receiving : BOOLEAN, fresh : BOOLEAN, buf : Seq(Int),
     ok : Nat, err : Nat, brk : Nat, serial : Nat, missed : Nat]

FlagType ==
    /\ line \in BOOLEAN /\ delta \in BOOLEAN /\ last \in BOOLEAN
    /\ just \in BOOLEAN /\ autobaud \in BOOLEAN /\ lost \in BOOLEAN

EnvType ==
    /\ rxf \in [kind : Kinds, n : Nat, id : Int] /\ txf \in Nat
    /\ frames \in 0 .. MaxFrames /\ sent \in 0 .. MaxChars

FrameBufType ==
    /\ cf \in FrameType /\ Len(cf.buf) <= FrameLength
    /\ cur \in Nat

RingType ==
    /\ rx \in Seq([id : Int, ep : Nat]) /\ Len(rx) < IobufLength
    /\ wakeup \in Nat
    /\ tx \in Seq(Nat) /\ Len(tx) < IobufLength
    /\ thri \in ThriStates

ConfigType ==
    /\ baud \in Bauds
    /\ lcr \in {"std", "slow"}

HostType ==
    /\ pc \in PCs /\ op \in AllOps \cup {"none"} /\ tstate \in {"R", "S"}
    /\ ret \in {"ok", "ready", "timeout", "eintr", "checksum"}
    /\ nrx \in Nat

HistType == epoch \in Nat /\ fate \in [1 .. MaxFrames -> Fates]

\* Every variable has its type, and a ring never holds more than it can
\* (receive_chars, send_single_character, setup_send_frame).
TypeOK ==
    FlagType /\ EnvType /\ FrameBufType /\ RingType /\ ConfigType /\ HostType /\ HistType

\* What lies in the two rings was stored after the last command frame ended:
\* neither a half-sent reply nor data of an aborted transfer survives into
\* the next command (the flushes of check_modem_lines_after_receive).
OneEpoch ==
    /\ \A i \in 1 .. Len(rx) : rx[i].ep = epoch
    /\ \A i \in 1 .. Len(tx) : tx[i] = epoch

\* A frame that waits to be fetched is whole: five characters of one command
\* frame, none broken, with no reception going on over it; and it is the one
\* frame whose fate is open (validate_command_frame, get_command_frame).
ValidIntact ==
    /\ cf.valid => /\ ~cf.receiving
                   /\ SumOK(cf)
                   /\ cf.ok = FrameLength /\ cf.err = 0 /\ cf.brk = 0
    /\ \A i \in 1 .. MaxFrames : fate[i] = "pending" <=> cf.valid /\ cf.buf[1] = i

\* While a newer frame is being received or waits, the number of the frame
\* being answered differs from the buffer's, so check_new_command_frame
\* refuses every reply to the old one.
WaitingIsNewer == cf.valid \/ cf.receiving => cur < cf.serial

\* A process asleep in get_command_frame has nothing to fetch.
NotifiedGet == pc = "g_sched" /\ tstate = "S" => ~cf.valid

\* A process asleep in wait_receive lacks characters, and the ring still
\* knows at which length to wake it.
NotifiedReceive ==
    pc = "rw_sched" /\ tstate = "S" => Len(rx) < WantLen /\ wakeup = WantLen

\* A process asleep in wait_send has a transmitter interrupt coming, even
\* when a command frame end has just flushed all it was waiting for.
NotifiedSend == pc = "ws_sched" /\ tstate = "S" => thri = "armed"

\* No wake-up is lost between a test and the sleep it leads to.
NoLostWakeup == NotifiedGet /\ NotifiedReceive /\ NotifiedSend

\* When a sending ioctl has succeeded, ring and transmitter are empty: what
\* follows (a change of the baud rate, the next reply) overtakes nothing.
DrainedOnSuccess ==
    [][op' = "none" /\ op \in SendOps /\ ret' = "ok" => tx' = <<>> /\ txf' = 0]_vars

\* An ioctl that sends comes back without the help of a deadline or signal:
\* the interrupts it depends on come (initiate_send, send_chars, wait_send).
SendReturns == pc = "init" ~> pc = "user"

\* A frame that is there while get_command_frame waits is fetched, unless it
\* expires or is overtaken.
FrameFetched ==
    pc \in CmdQueue /\ cf.valid ~> pc = "user" \/ ~cf.valid

\* A complete data frame ends wait_receive, unless it is flushed.
DataFetched ==
    pc \in RxQueue /\ Len(rx) >= WantLen ~> pc \notin RxQueue \/ Len(rx) < WantLen
-----------------------------------------------------------------------------
(* What docs and comments promise and the code does not keep.              *)

\* A sending ioctl that returns 0 has transmitted its characters.
SentOnSuccess == [][op' = "none" /\ op \in SendOps /\ ret' = "ok" => ~lost]_vars

\* The receiver never runs with the line settings of a slowed-down transmission
\* once send_block is through.
LcrRestored == pc = "user" => lcr = "std"

\* Printing the status changes nothing in the device.
PrintOnlyPrints == [][op = "print" /\ pc = "config" => UNCHANGED <<rxf, delta, thri>>]_vars

\* A reply is queued only while no newer command frame has been noticed.
RepliesCurrent ==
    [][pc' = "init" /\ pc \in {"put", "setup"} /\ op \in Checked => cf.serial = cur]_vars
=============================================================================
