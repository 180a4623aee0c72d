------------------------------ MODULE UserMaster ------------------------------
(***************************************************************************)
(* The second SIO master of the repository: UserspaceSIOWrapper::ExtSIO    *)
(* (tools/UserspaceSIOWrapper.cpp), which needs no driver but an ordinary  *)
(* serial port.  It meets the same drive as the driver's master does       *)
(* (SioPeripheral) and is held to the same promise (SioTransaction).       *)
(*                                                                         *)
(* One action per system call that touches the line or its queues; a wait  *)
(* in select ends when there is something to read, at its deadline or with *)
(* an error (a signal).  The queues are the kernel's: tx what is written   *)
(* and not yet on the line, rx what was received and not yet read.         *)
(***************************************************************************)
EXTENDS SioPeripheral

CONSTANTS
    Wanted,              \* the requests the caller makes
    MaxCalls,            \* bound: calls of ExtSIO
    CommandRetries,      \* eCommandFrameRetries
    SioRetries,          \* eSIORetries
    Signals              \* signals may interrupt the system calls

ASSUME UserMasterAssumption ==
    /\ Wanted \subseteq Requests /\ Wanted # {}
    /\ MaxCalls \in Nat /\ MaxFaults \in Nat
    /\ CommandRetries \in Nat \ {0} /\ SioRetries \in Nat \ {0}
    /\ Signals \in BOOLEAN

VARIABLES
    pc, calls, req,      \* where ExtSIO is, the calls so far, the parameters
    retry, tries,        \* retry of SendCommandFrame and of InternalExtSIO
    ret,                 \* ret, and at the end fLastResult
    got                  \* the caller's data buffer

wire  == <<command, baud, tx, rx>>
drive == <<dev, faults, done, answer>>
vars  == <<wire, drive, pc, calls, req, retry, tries, ret, got>>

\* complete_error: EATARISIO_COMMAND_COMPLETE_ERROR, returned for any character
\* in the place of COMPLETE; unknown: a system call failed, too.
Outcomes == {"ok", "timeout", "nak", "data_nak", "unknown", "complete_error", "too_long"}

Goto(l) == pc' = l /\ UNCHANGED <<calls, req, retry, tries, ret>>

\* The label retry_sio, reached with an error; next_retry, likewise.
Fail(l, r) == pc' = l /\ ret' = r /\ UNCHANGED <<calls, req, retry, tries>>

Sending   == "send" \in req.dir
Receiving == "recv" \in req.dir

\* highspeed_mode, adapted to the command
Speed ==
    IF \/ req.mode = "warp" /\ req.cmd # "sector"
       \/ req.mode = "xf551" /\ req.cmd = "format"
    THEN "normal" ELSE req.mode
-----------------------------------------------------------------------------
(* ExtSIO.  A speed the wrapper does not know sets an error that the       *)
(* transfer, which is made nevertheless, overwrites.                       *)

Call ==
    /\ pc = "user"
    /\ calls < MaxCalls
    /\ calls' = calls + 1
    /\ \E r \in Wanted, long \in BOOLEAN :
         /\ long => r.dir # {}
         /\ req' = r
         /\ pc' = IF long THEN "leave" ELSE "attempt"
         /\ ret' = IF long THEN "too_long" ELSE "ok"
    /\ retry' = 0 /\ tries' = 0
    /\ done' = 0 /\ answer' = "none" /\ got' = Noise
    /\ UNCHANGED <<wire, dev, faults>>

(* SendCommandFrame                                                        *)

\* (A definition named X_... is X with a plausible mistake; see the README.)

\* The rate of the frame, tcflush of both queues, SetCommandLine, write
Attempt ==
    /\ pc = "attempt"
    /\ baud' = IF req.mode = "ultra" THEN "hs" ELSE "std"
    /\ tx' = <<[kind |-> "frame", req |-> req, id |-> calls]>>
    /\ rx' = <<>>
    /\ command' = TRUE
    /\ dev' = Listen
    /\ Goto("sendframe")
    /\ UNCHANGED <<faults, done, answer, got>>

\* A signal: select or write fail, or the sleeps and tcdrain return early.
Interrupted == Signals

\* WaitTransmitComplete has no result: what tcdrain leaves in the queue when a
\* signal ends it stays there.
FrameSent ==
    /\ pc = "sendframe"
    /\ tx = <<>> \/ Interrupted
    /\ baud' = IF Speed = "turbo" THEN "hs" ELSE baud
    /\ rx' = <<>>
    /\ Goto("release")
    /\ UNCHANGED <<command, tx, drive, got>>

\* TransmitBuf returns an error: COMMAND is released.
FrameFailed ==
    /\ pc = "sendframe"
    /\ \/ Fail("again", "timeout") /\ Fault
       \/ Fail("again", "unknown") /\ Interrupted /\ Sound
    /\ command' = FALSE
    /\ UNCHANGED <<baud, tx, rx, dev, done, answer, got>>

Release ==
    /\ pc = "release"
    /\ command' = FALSE
    /\ Goto("ack")
    /\ UNCHANGED <<baud, tx, rx, drive, got>>

\* ReceiveByte: a is the character, or the reason why there is none.
Take(a) ==
    \/ rx # <<>> /\ a = Head(rx).kind /\ rx' = Tail(rx)
    \/ rx = <<>> /\ (a = "timeout" \/ (a = "unknown" /\ Interrupted)) /\ UNCHANGED rx

Answers == CharKinds \cup {"timeout", "unknown"}

\* The answer to the frame; any character switches the rate of WARP and XF551.
TakeAck(a) ==
    /\ pc = "ack"
    /\ Take(a)
    /\ baud' = IF Speed \in {"warp", "xf551"} /\ a \in CharKinds THEN "hs" ELSE baud
    /\ CASE a = "ack"     -> Goto(IF Sending THEN "senddata" ELSE "complete")
         [] a = "timeout" -> Fail("again", "timeout")
         [] a = "nak"     -> Fail("again", "nak")
         [] OTHER         -> Fail("again", "unknown")
    /\ tx' = IF a = "ack" /\ Sending
             THEN Append(tx, [kind |-> "block", req |-> req, id |-> calls]) ELSE tx
    /\ UNCHANGED <<command, drive, got>>

Again_NoLimit ==
    /\ pc = "again"
    /\ retry' = retry
    /\ pc' = "attempt"
    /\ UNCHANGED <<wire, drive, calls, req, tries, ret, got>>

\* The end of the loop of SendCommandFrame
Again ==
    /\ pc = "again"
    /\ retry' = retry + 1
    /\ pc' = IF retry + 1 < CommandRetries THEN "attempt" ELSE "failed"
    /\ UNCHANGED <<wire, drive, calls, req, tries, ret, got>>
-----------------------------------------------------------------------------
(* InternalExtSIO, behind the command frame.                               *)

\* TransmitBuf of the data and its checksum
DataSent ==
    /\ pc = "senddata"
    /\ \/ (tx = <<>> \/ Interrupted) /\ Goto("dataack") /\ Sound
       \/ Fail("failed", "timeout") /\ Fault
       \/ Fail("failed", "unknown") /\ Interrupted /\ Sound
    /\ UNCHANGED <<wire, dev, done, answer, got>>

TakeDataAck(a) ==
    /\ pc = "dataack"
    /\ Take(a)
    /\ CASE a = "ack"                   -> Goto("complete")
         [] a \in {"timeout", "unknown"} -> Fail("failed", a)
         [] OTHER                       -> Fail("failed", "data_nak")
    /\ UNCHANGED <<command, baud, tx, drive, got>>

TakeComplete_TakesError(a) ==
    /\ pc = "complete"
    /\ Take(a)
    /\ IF a \in {"complete", "ack", "error"}
       THEN IF Receiving THEN Goto("block") ELSE Fail("leave", "ok")
       ELSE Fail("failed", IF a \in {"timeout", "unknown"} THEN a ELSE "complete_error")
    /\ UNCHANGED <<command, baud, tx, drive, got>>

\* An ACK will do; the data of a command that failed are not waited for.
TakeComplete(a) ==
    /\ pc = "complete"
    /\ Take(a)
    /\ IF a \in {"complete", "ack"}
       THEN IF Receiving THEN Goto("block") ELSE Fail("leave", "ok")
       ELSE Fail("failed", IF a \in {"timeout", "unknown"} THEN a ELSE "complete_error")
    /\ UNCHANGED <<command, baud, tx, drive, got>>

BlockLen == 2        \* the bytes and their checksum

\* What was read when ReceiveBuf gives up is lost.
ReceiveBlock ==
    /\ pc = "block"
    /\ \/ /\ Len(rx) >= BlockLen
          /\ rx' = SubSeq(rx, BlockLen + 1, Len(rx))
          /\ got' = rx[1]
          /\ IF rx[1].kind = "data" /\ rx[2] = Char("sum", rx[1].id)
             THEN Fail("leave", "ok")
             ELSE Fail("failed", "data_nak")
       \/ /\ Len(rx) < BlockLen
          /\ rx' = <<>>
          /\ UNCHANGED got
          /\ Fail("failed", "timeout") \/ (Interrupted /\ Fail("failed", "unknown"))
    /\ UNCHANGED <<command, baud, tx, drive>>

\* retry_sio, and the end of the loop
RetrySio ==
    /\ pc = "failed"
    /\ tries' = tries + 1
    /\ retry' = 0
    /\ pc' = IF tries + 1 < SioRetries THEN "attempt" ELSE "leave"
    /\ UNCHANGED <<wire, drive, calls, req, ret, got>>

Leave ==
    /\ pc = "leave"
    /\ pc' = "user"
    /\ retry' = 0 /\ tries' = 0
    /\ UNCHANGED <<wire, drive, calls, req, ret, got>>
-----------------------------------------------------------------------------
Init ==
    /\ DevInit
    /\ pc = "user" /\ calls = 0 /\ req = NoRequest
    /\ retry = 0 /\ tries = 0 /\ ret = "none" /\ got = Noise

Run ==
    \/ Attempt \/ FrameSent \/ FrameFailed \/ Release \/ Again
    \/ \E a \in Answers : TakeAck(a) \/ TakeDataAck(a) \/ TakeComplete(a)
    \/ DataSent \/ ReceiveBlock \/ RetrySio \/ Leave

\* Nothing keeps the drive waiting for this master: it may go on before the
\* rate has been switched, and is then misheard.
Line ==
    /\ HearFrame \/ Acknowledge \/ Perform(calls)
    /\ UNCHANGED <<pc, calls, req, retry, tries, ret, got>>

Uart == Transmit /\ UNCHANGED <<pc, calls, req, retry, tries, ret, got>>

Next == Call \/ Run \/ Uart \/ Line

Spec == Init /\ [][Next]_vars

\* The process goes on, its deadlines pass, and the port transmits.
FairSpec == Spec /\ WF_vars(Run) /\ WF_vars(Uart)
-----------------------------------------------------------------------------
(* Properties.                                                             *)

PCs == {"user", "attempt", "sendframe", "release", "ack", "again", "senddata",
        "dataack", "complete", "block", "failed", "leave"}

Chars == [kind : CharKinds, id : 0 .. MaxCalls]
Sent  == [kind : {"frame", "block"}, req : Wanted \cup {NoRequest}, id : 0 .. MaxCalls]

\* Every variable has its type; the loops stay within their limits.
TypeOK ==
    /\ command \in BOOLEAN /\ baud \in {"std", "hs"}
    /\ tx \in Seq(Sent) /\ rx \in Seq(Chars)
    /\ dev \in [state : DevStates, heard : {"nothing", "frame", "noise"},
                req : Wanted \cup {NoRequest}, id : 0 .. MaxCalls]
    /\ faults \in 0 .. MaxFaults
    /\ done \in Nat /\ answer \in {"none", "complete", "error"}
    /\ pc \in PCs /\ calls \in 0 .. MaxCalls /\ req \in Wanted \cup {NoRequest}
    /\ retry \in 0 .. IF pc = "failed" THEN CommandRetries ELSE CommandRetries - 1
    /\ tries \in 0 .. IF pc = "leave" THEN SioRetries ELSE SioRetries - 1
    /\ ret \in Outcomes \cup {"none"} /\ got \in Chars

TX == INSTANCE SioTransaction WITH
        open    <- pc # "user",
        outcome <- IF pc = "user" THEN ret ELSE "none"

\* ExtSIO returns 0 only for a transaction this very call had the drive
\* perform, and whose last word was COMPLETE (InternalExtSIO, SendCommandFrame).
Transaction == TX!Spec

\* With the result 0, the caller's buffer holds the bytes the drive sent for
\* this call, not what an earlier call or attempt has left in the queue.
DataIsOurs ==
    [][pc = "leave" /\ pc' = "user" /\ ret' = "ok" /\ Receiving
         => got = Char("data", calls)]_vars

\* COMMAND is asserted only while a command frame is sent: signals, deadlines
\* and refusals included (the driver's master does not keep this).
LineReleased == command => pc \in {"sendframe", "release"}

\* ExtSIO comes back, whatever the line does.
MasterReturns == pc # "user" ~> pc = "user"
=============================================================================
