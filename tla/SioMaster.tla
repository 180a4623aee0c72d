------------------------------ MODULE SioMaster ------------------------------
(***************************************************************************)
(* The driver as SIO master, 1050-2-PC mode (driver/atarisio.c): an EXT_SIO *)
(* ioctl sends a command frame, with retries, moves the data and waits for *)
(* the drive's answers, and repeats all of it once.                        *)
(*                                                                         *)
(* One action per lock region and per wait.  How a wait is woken is the    *)
(* subject of SioServer, which has the same wait_send and wait_receive: a  *)
(* wait ends here when what it waits for is there, at its deadline, which  *)
(* may pass at any moment of it, or by a signal.                           *)
(***************************************************************************)
EXTENDS SioPeripheral

CONSTANTS
    Wanted,              \* the requests the caller makes
    MaxCalls,            \* bound: ioctls
    CommandRetries,      \* MAX_COMMAND_FRAME_RETRIES
    SioRetries,          \* the 2 of internal_perform_ext_sio
    BytePause,           \* add_highspeedpause & ATARISIO_HIGHSPEEDPAUSE_BYTE_DELAY
    Signals              \* signals may arrive during an ioctl

ASSUME MasterAssumption ==
    /\ Wanted \subseteq Requests /\ Wanted # {}
    /\ MaxCalls \in Nat /\ MaxFaults \in Nat
    /\ CommandRetries \in Nat \ {0} /\ SioRetries \in Nat \ {0}
    /\ BytePause \in BOOLEAN /\ Signals \in BOOLEAN

VARIABLES
    pc, calls, req,      \* the process, the ioctls so far, the parameters
    mode,                \* highspeed_mode of send_command_frame
    retry, tries,        \* its retry; sio_retry
    ret, cmd, c,         \* ret and last_err; cmd_ret; the character received
    lcr,                 \* serial_config.LCR
    signal,              \* a signal is pending
    got                  \* the caller's data buffer

wire  == <<command, baud, tx, rx>>
drive == <<dev, faults, done, answer>>
count == <<retry, tries>>
local == <<calls, req, mode, count, ret, cmd, c>>
vars  == <<wire, drive, pc, local, lcr, signal, got>>

\* (A definition named X_... is X with a plausible mistake; see the README.)

Outcomes == {"ok", "timeout", "eintr", "nak", "data_nak", "unknown",
             "device_error", "checksum"}

Goto(l) == pc' = l /\ UNCHANGED local
-----------------------------------------------------------------------------
(* send_command_frame                                                      *)

\* The ioctl; send_command_frame adapts the mode to the command each time,
\* with the same outcome.
Call ==
    /\ pc = "user"
    /\ calls < MaxCalls
    /\ calls' = calls + 1
    /\ \E r \in Wanted :
         /\ req' = r
         /\ mode' = IF \/ r.mode = "warp" /\ r.cmd # "sector"
                       \/ r.mode = "xf551" /\ r.cmd = "format"
                    THEN "normal" ELSE r.mode
    /\ pc' = "attempt"
    /\ retry' = 0 /\ tries' = 0 /\ ret' = "ok" /\ cmd' = "ok" /\ c' = "none"
    /\ done' = 0 /\ answer' = "none" /\ got' = Noise
    /\ UNCHANGED <<wire, dev, faults, lcr, signal>>

\* set_command_line, the rate of the frame, the line settings
Attempt ==
    /\ pc = "attempt"
    /\ command' = TRUE
    /\ dev' = Listen
    /\ baud' = IF mode = "ultra" THEN "hs" ELSE "std"
    /\ lcr' = IF BytePause THEN "slow" ELSE lcr
    /\ Goto("queue")
    /\ UNCHANGED <<tx, rx, faults, done, answer, signal, got>>

\* After T0: what an earlier attempt left in the ring is dropped.
QueueFrame ==
    /\ pc = "queue"
    /\ tx' = <<[kind |-> "frame", req |-> req, id |-> calls]>>
    /\ Goto("sendframe")
    /\ UNCHANGED <<command, baud, rx, drive, lcr, signal, got>>

FrameSent_KeepsRing ==
    /\ pc = "sendframe"
    /\ tx = <<>>
    /\ baud' = IF mode = "turbo" THEN "hs" ELSE baud
    /\ lcr' = IF BytePause THEN "std" ELSE lcr
    /\ Goto("release")
    /\ UNCHANGED <<command, tx, rx, drive, signal, got>>

\* wait_send has succeeded: what was received so far is dropped.
FrameSent ==
    /\ pc = "sendframe"
    /\ tx = <<>>
    /\ baud' = IF mode = "turbo" THEN "hs" ELSE baud
    /\ lcr' = IF BytePause THEN "std" ELSE lcr
    /\ rx' = <<>>
    /\ Goto("release")
    /\ UNCHANGED <<command, tx, drive, signal, got>>

\* The deadline of wait_send, before or after the ring is empty.
FrameLate ==
    /\ pc = "sendframe"
    /\ Fault
    /\ pc' = "again" /\ ret' = "timeout"
    /\ UNCHANGED <<wire, dev, done, answer, calls, req, mode, count, cmd, c, lcr, signal, got>>

\* The return in the middle: COMMAND stays asserted.
FrameInterrupted ==
    /\ pc = "sendframe"
    /\ signal /\ tx # <<>>
    /\ pc' = "end" /\ ret' = "eintr"
    /\ UNCHANGED <<wire, drive, calls, req, mode, count, cmd, c, lcr, signal, got>>

\* After T1: clear_command_line
Release ==
    /\ pc = "release"
    /\ command' = FALSE
    /\ Goto("ack")
    /\ UNCHANGED <<baud, tx, rx, drive, lcr, signal, got>>

\* receive_single_character: a is the first character, or the reason why there
\* is none.  (A character that comes between the last look at the ring and the
\* deadline is one that comes after it.)
Take(a) ==
    \/ rx # <<>> /\ a = Head(rx).kind /\ rx' = Tail(rx)
    \/ rx = <<>> /\ (a = "timeout" \/ (a = "eintr" /\ signal)) /\ UNCHANGED rx

\* The answer to the frame, before the rate is switched.
TakeAck(a) ==
    /\ pc = "ack"
    /\ Take(a)
    /\ c' = a
    /\ pc' = "switch"
    /\ UNCHANGED <<command, baud, tx, drive, calls, req, mode, count, ret, cmd,
                   lcr, signal, got>>

Sending   == "send" \in req.dir
Receiving == "recv" \in req.dir

SwitchRate_Never ==
    /\ pc = "switch"
    /\ pc' = IF c # "ack" THEN "again" ELSE IF Sending THEN "setup" ELSE "complete"
    /\ ret' = CASE c = "ack" -> "ok"
                [] c = "nak" -> "nak"
                [] c \in {"timeout", "eintr"} -> "timeout"
                [] OTHER     -> "unknown"
    /\ c' = "none"
    /\ UNCHANGED <<wire, drive, calls, req, mode, count, cmd, lcr, signal, got>>

\* WARP and XF551 go on at high speed, whatever the answer was.
SwitchRate ==
    /\ pc = "switch"
    /\ baud' = IF mode \in {"warp", "xf551"} THEN "hs" ELSE baud
    /\ pc' = IF c # "ack" THEN "again" ELSE IF Sending THEN "setup" ELSE "complete"
    /\ ret' = CASE c = "ack" -> "ok"
                [] c = "nak" -> "nak"
                [] c \in {"timeout", "eintr"} -> "timeout"
                [] OTHER     -> "unknown"
    /\ c' = "none"
    /\ UNCHANGED <<command, tx, rx, drive, calls, req, mode, count, cmd,
                   lcr, signal, got>>

Again_Forever ==
    /\ pc = "again"
    /\ command' = FALSE
    /\ pc' = "attempt"
    /\ UNCHANGED <<baud, tx, rx, drive, local, lcr, signal, got>>

\* The label again, and the end of the loop.
Again ==
    /\ pc = "again"
    /\ command' = FALSE
    /\ retry' = retry + 1
    /\ pc' = IF retry + 1 < CommandRetries THEN "attempt" ELSE "end"
    /\ UNCHANGED <<baud, tx, rx, drive, calls, req, mode, tries, ret, cmd, c,
                   lcr, signal, got>>
-----------------------------------------------------------------------------
(* perform_ext_sio_send_data, wait_ext_sio_command_complete, receive_block *)

\* send_block: setup_send_frame starts at the tail
Setup ==
    /\ pc = "setup"
    /\ lcr' = IF BytePause THEN "slow" ELSE lcr
    /\ tx' = <<[kind |-> "block", req |-> req, id |-> calls]>>
    /\ Goto("senddata")
    /\ UNCHANGED <<command, baud, rx, drive, signal, got>>

\* wait_send and the rest of send_block
DataSent ==
    /\ pc = "senddata"
    /\ lcr' = IF BytePause THEN "std" ELSE lcr
    /\ \/ tx = <<>> /\ pc' = "dataack" /\ ret' = "ok" /\ Sound
       \/ pc' = "end" /\ ret' = "timeout" /\ Fault
       \/ signal /\ tx # <<>> /\ pc' = "end" /\ ret' = "eintr" /\ Sound
    /\ UNCHANGED <<wire, dev, done, answer, calls, req, mode, count, cmd, c, signal, got>>

TakeDataAck(a) ==
    /\ pc = "dataack"
    /\ Take(a)
    /\ ret' = CASE a = "ack" -> "ok"
                [] a \in {"timeout", "eintr"} -> a
                [] OTHER     -> "data_nak"
    /\ pc' = IF a = "ack" THEN "complete" ELSE "end"
    /\ UNCHANGED <<command, baud, tx, drive, calls, req, mode, count, cmd, c,
                   lcr, signal, got>>

\* wait_ext_sio_command_complete: an ACK will do; an error does not keep the
\* master from receiving the data.
TakeComplete(a) ==
    /\ pc = "complete"
    /\ Take(a)
    /\ cmd' = CASE a \in {"complete", "ack"} -> "ok"
                [] a = "error"              -> "device_error"
                [] a \in {"timeout", "eintr"} -> a
                [] OTHER                    -> "unknown"
    /\ pc' = IF Receiving /\ a \in {"complete", "ack", "error"} THEN "block" ELSE "end"
    /\ UNCHANGED <<command, baud, tx, drive, calls, req, mode, count, ret, c,
                   lcr, signal, got>>

BlockLen == 2        \* the bytes and their checksum

ReceiveBlock_NoChecksum ==
    /\ pc = "block"
    /\ \/ /\ Len(rx) >= BlockLen
          /\ got' = rx[1]
          /\ rx' = SubSeq(rx, BlockLen + 1, Len(rx))
          /\ ret' = "ok"
       \/ ret' = "timeout" /\ rx' = <<>> /\ UNCHANGED got
       \/ ret' = "eintr" /\ signal /\ Len(rx) < BlockLen /\ UNCHANGED <<rx, got>>
    /\ pc' = "end"
    /\ UNCHANGED <<command, baud, tx, drive, calls, req, mode, count, cmd, c, lcr, signal>>

\* The bytes reach the caller even when the checksum is wrong.  At the
\* deadline what there is of the block is flushed.
ReceiveBlock ==
    /\ pc = "block"
    /\ \/ /\ Len(rx) >= BlockLen
          /\ got' = rx[1]
          /\ rx' = SubSeq(rx, BlockLen + 1, Len(rx))
          /\ ret' = IF rx[1].kind = "data" /\ rx[2] = Char("sum", rx[1].id)
                    THEN "ok" ELSE "checksum"
       \/ ret' = "timeout" /\ rx' = <<>> /\ UNCHANGED got
       \/ ret' = "eintr" /\ signal /\ Len(rx) < BlockLen /\ UNCHANGED <<rx, got>>
    /\ pc' = "end"
    /\ UNCHANGED <<command, baud, tx, drive, calls, req, mode, count, cmd, c, lcr, signal>>

Result == IF ret = "ok" THEN cmd ELSE ret

Finish_OnceMore ==
    /\ pc = "end"
    /\ IF Result # "ok" /\ tries + 1 <= SioRetries
       THEN /\ pc' = "attempt" /\ tries' = tries + 1
            /\ retry' = 0 /\ ret' = "ok" /\ cmd' = "ok" /\ c' = "none"
            /\ UNCHANGED signal
       ELSE /\ pc' = "user" /\ ret' = Result /\ signal' = FALSE
            /\ retry' = 0 /\ tries' = 0 /\ cmd' = "ok"
            /\ UNCHANGED c
    /\ UNCHANGED <<wire, drive, calls, req, mode, lcr, got>>

\* The label sio_error, and the end of the loop; back in user mode a pending
\* signal is delivered.
Finish ==
    /\ pc = "end"
    /\ IF Result # "ok" /\ tries + 1 < SioRetries
       THEN /\ pc' = "attempt" /\ tries' = tries + 1
            /\ retry' = 0 /\ ret' = "ok" /\ cmd' = "ok" /\ c' = "none"
            /\ UNCHANGED signal
       ELSE /\ pc' = "user" /\ ret' = Result /\ signal' = FALSE
            /\ retry' = 0 /\ tries' = 0 /\ cmd' = "ok"
            /\ UNCHANGED c
    /\ UNCHANGED <<wire, drive, calls, req, mode, lcr, got>>
-----------------------------------------------------------------------------
Init ==
    /\ DevInit
    /\ pc = "user" /\ calls = 0 /\ req = NoRequest /\ mode = "normal"
    /\ retry = 0 /\ tries = 0 /\ ret = "none" /\ cmd = "ok" /\ c = "none"
    /\ lcr = "std" /\ signal = FALSE /\ got = Noise

\* What the process does as long as it lacks nothing.
Run ==
    \/ Attempt \/ QueueFrame \/ FrameSent \/ Release
    \/ \E a \in CharKinds \cup {"timeout", "eintr"} :
         TakeAck(a) \/ TakeDataAck(a) \/ TakeComplete(a)
    \/ SwitchRate \/ Again \/ Setup \/ DataSent \/ ReceiveBlock \/ Finish
    \/ FrameLate \/ FrameInterrupted

\* A drive leaves the master the time to switch its rate after the ACK of the
\* frame.  receive_chars sets wrong line settings right.
Settled == pc # "switch" /\ (pc = "ack" => rx = <<>>)

Line ==
    /\ \/ HearFrame \/ Acknowledge
       \/ Settled /\ Perform(calls)
    /\ lcr' = IF rx' # rx THEN "std" ELSE lcr
    /\ UNCHANGED <<pc, local, signal, got>>

Uart == Transmit /\ UNCHANGED <<pc, local, lcr, signal, got>>

SignalArrives ==
    /\ Signals
    /\ pc # "user"
    /\ ~signal
    /\ signal' = TRUE
    /\ UNCHANGED <<wire, drive, pc, local, lcr, got>>

Next == Call \/ Run \/ Uart \/ Line \/ SignalArrives

Spec == Init /\ [][Next]_vars

\* The process runs when it can, the deadlines of receptions pass, and the
\* transmitter transmits.
FairSpec == Spec /\ WF_vars(Run) /\ WF_vars(Uart)
-----------------------------------------------------------------------------
(* Properties.                                                             *)

PCs == {"user", "attempt", "queue", "sendframe", "release", "ack", "switch", "again",
        "setup", "senddata", "dataack", "complete", "block", "end"}

Chars == [kind : CharKinds, id : 0 .. MaxCalls]

\* Types, and the rings: never more than one frame or block to send, the
\* counters of both loops below their limits until the loops are left.
TypeOK ==
    /\ command \in BOOLEAN /\ baud \in {"std", "hs"} /\ lcr \in {"std", "slow"}
    /\ tx \in Seq([kind : {"frame", "block"}, req : Wanted \cup {NoRequest}, id : 0 .. MaxCalls])
    /\ Len(tx) <= 1
    /\ rx \in Seq(Chars)
    /\ dev \in [state : DevStates, heard : {"nothing", "frame", "noise"},
               req : Wanted \cup {NoRequest}, id : 0 .. MaxCalls]
    /\ faults \in 0 .. MaxFaults
    /\ done \in Nat /\ answer \in {"none", "complete", "error"}
    /\ pc \in PCs /\ calls \in 0 .. MaxCalls /\ req \in Wanted \cup {NoRequest} /\ mode \in Modes
    /\ retry \in 0 .. CommandRetries /\ (retry = CommandRetries => pc \in {"end", "user"})
    /\ tries \in 0 .. SioRetries - 1
    /\ ret \in Outcomes \cup {"none"} /\ cmd \in Outcomes
    /\ c \in CharKinds \cup {"none", "timeout", "eintr"}
    /\ signal \in BOOLEAN /\ got \in Chars

TX == INSTANCE SioTransaction WITH
        open    <- pc # "user",
        outcome <- IF pc = "user" THEN ret ELSE "none"

\* The ioctl keeps the promises of SioTransaction: 0 means that the drive has
\* performed this very command, an error of the drive is its last word.
Transaction == TX!Spec

\* A transaction that returns 0 has filled the caller's buffer with the bytes
\* the drive sent for it, not with those of an earlier one.
DataIsOurs ==
    [][pc # "user" /\ pc' = "user" /\ ret' = "ok" /\ Receiving
         => got' = Char("data", calls)]_vars

\* However many frames were repeated, a command with data for the drive is
\* performed at most once per round of internal_perform_ext_sio.
WritesLimited == Sending => done <= SioRetries

\* The master listens for each answer at the rate at which the drive gives it,
\* in every high speed mode; a drive whose ACK was lost and that goes on is not
\* listened for.
InStep == \/ pc = "ack" /\ dev.state \in {"ack", "nak"}
          \/ pc \in {"dataack", "complete", "block"}
RateNow ==
    IF dev.state \in {"ack", "nak"} THEN AckRate(dev.req) ELSE ReplyRate(dev.req)
RatesAgree == [][(Acknowledge \/ Perform(calls)) /\ InStep => baud = RateNow]_vars

\* Whatever went wrong, an ioctl leaves COMMAND asserted only when a signal
\* made it return.
LineReleased == [][pc # "user" /\ pc' = "user" /\ command' => ret' = "eintr"]_vars

\* The ioctl comes back, whatever the line does.
MasterReturns == pc # "user" ~> pc = "user"

\* What a comment promises: COMMAND is asserted during the transmission of a
\* command frame and released otherwise.
CommandLineAtRest == pc = "user" => ~command
=============================================================================
