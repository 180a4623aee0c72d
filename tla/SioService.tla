----------------------------- MODULE SioService -----------------------------
(***************************************************************************)
(* The serving loop (tools/SIOManager.cpp) on the driver's device          *)
(* (tools/KernelSIOWrapper.cpp, tools/SIOWrapper.cpp).  The user interface *)
(* calls the loop whenever it wants a key; the loop gives it the key only  *)
(* when no command frame waits, and takes no signal while it answers one,  *)
(* except those that end the server and the alarm of a shell command.      *)
(*                                                                         *)
(* Each method of the wrapper is one ioctl, whose error number it returns; *)
(* SioServer and TapeDeck have what the driver makes of it.  Handlers and  *)
(* user interface make all the calls of their kind, in any order.          *)
(***************************************************************************)
EXTENDS Integers, FiniteSets

CONSTANTS
    Devices, PrinterId, \* device ids of frames; that of the printer
    Errors, EINVAL      \* error numbers of ioctls, positive

VARIABLES
    fHandlers,          \* device -> "none", "active" or "inactive"
    frame,              \* the frame that waits in the driver; "none"
    keys,               \* a key waits
    signals, blocked,   \* pending signals; the signal mask
    resize,             \* fGotSigWinCh
    where,              \* the process
    fLastResult         \* of the wrapper

servicevars ==
    <<fHandlers, frame, keys, signals, blocked, resize, where, fLastResult>>

NoFrame == "none"
Signals == {"WINCH", "CHLD", "ALRM"}

-----------------------------------------------------------------------------
(* KernelSIOWrapper.  A device that is open stays so.                      *)

Ioctl == fLastResult' \in {0} \cup Errors

SendCommandACK == Ioctl
SendCommandNAK == Ioctl
SendDataACK == Ioctl
SendDataNAK == Ioctl
SendComplete == Ioctl
SendError == Ioctl
SendDataFrame == Ioctl
ReceiveDataFrame == Ioctl
SendRawFrame == Ioctl
ReceiveRawFrame == Ioctl
SendCommandACKXF551 == Ioctl
SendCompleteXF551 == Ioctl
SendDataFrameXF551 == Ioctl
FlushWriteBuffer == Ioctl
SendRawDataNoWait == Ioctl
SendTapeBlock == Ioctl
SendFskData == Ioctl
DebugKernelStatus == Ioctl
SetBaudrate == Ioctl
SetStandardBaudrate == Ioctl
SetHighSpeedBaudrate == Ioctl
SetTapeBaudrate == Ioctl
SetAutobaud == Ioctl
SetHighSpeedPause == Ioctl
SetSioTiming == Ioctl
StartTapeMode == Ioctl
EndTapeMode == Ioctl
\* What names neither a line nor a cable is refused before the driver is asked.
SetSIOServerMode(line) == IF line = "other" THEN UNCHANGED fLastResult ELSE Ioctl
Set1050CableType(cable) == IF cable = "other" THEN fLastResult' = EINVAL ELSE Ioctl

\* These return the value, and on an error a rate: the standard one, or 0.
GetBaudrate == Ioctl
GetExactBaudrate == Ioctl
GetBaudrateForPokeyDivisor == Ioctl
\* And these leave the error number out.
EnableTimestampRecording == fLastResult' \in {0, -1}
GetTimestamps == fLastResult' \in {0, -1}

HandlerCalls ==
    \/ SendCommandACK \/ SendCommandNAK \/ SendDataACK \/ SendDataNAK \/ SendComplete
    \/ SendError \/ SendDataFrame \/ ReceiveDataFrame \/ SendRawFrame \/ ReceiveRawFrame
    \/ SendCommandACKXF551 \/ SendCompleteXF551 \/ SendDataFrameXF551
    \/ GetBaudrate \/ GetExactBaudrate \/ SetBaudrate
FrontendCalls ==
    \/ \E line \in {"RI", "DSR", "CTS", "other"} : SetSIOServerMode(line) \/ Set1050CableType(line)
    \/ SetStandardBaudrate \/ SetHighSpeedBaudrate \/ SetAutobaud \/ SetSioTiming
    \/ GetBaudrateForPokeyDivisor \/ DebugKernelStatus
    \/ EnableTimestampRecording \/ GetTimestamps
TapeCalls ==
    \/ StartTapeMode \/ EndTapeMode \/ SendRawDataNoWait \/ FlushWriteBuffer
    \/ SendTapeBlock \/ SendFskData \/ SetTapeBaudrate

-----------------------------------------------------------------------------
(* WaitForCommandFrame: a frame counts more than a key.  An interrupted    *)
(* wait is one of a signal with neither.                                   *)

Ready == frame # NoFrame \/ keys

\* 0: a frame; 1: a key; 2: interrupted; -1: fifteen seconds have passed.
WaitForCommandFrame ==
    IF frame # NoFrame THEN {0} ELSE IF keys THEN {1} ELSE {-1, 2}

Interruptible == signals # {}
Handled == IF "WINCH" \in signals THEN TRUE ELSE resize

Wait ==
    /\ where = "wait" /\ UNCHANGED <<fHandlers, frame, keys, blocked, fLastResult>>
    /\ \E ret \in WaitForCommandFrame :
          /\ ret = 2 => Interruptible
          /\ where' = CASE ret = 0 -> "get" [] ret = 1 -> "ui" [] ret = -1 -> "delayed" [] ret = 2 -> "again"
          /\ IF ret = 2 THEN signals' = {} /\ resize' = Handled ELSE UNCHANGED <<signals, resize>>

\* DoServing: the mask, then the frame.  What nobody is registered for, or who is
\* switched off, is left unanswered.
Mask_Alarm == Signals
Mask == Signals \ {"ALRM"}

GetCommandFrame ==
    /\ where = "get" /\ blocked' = Mask /\ Ioctl
    /\ frame' = NoFrame
    /\ where' = IF fLastResult' = 0 /\ fHandlers[frame] = "active" THEN "handle" ELSE "unmask"
    /\ UNCHANGED <<fHandlers, keys, signals, resize>>

\* Where the printer's child may be closed: there is a printer.
Closes == IF fHandlers[PrinterId] = "none" THEN {} ELSE {"close"}

\* A handler, until it comes back.  The remote control waits for the child of a
\* shell command; it and the printer itself wait for the printer's.
ProcessCommandFrame ==
    /\ where = "handle" /\ where' \in {"unmask", "exit"} \cup Closes /\ HandlerCalls
    /\ UNCHANGED <<fHandlers, frame, keys, signals, blocked, resize>>

\* Coprocess::Exit returns when the child has ended.
WaitOver == where' = IF blocked = {} THEN "wait" ELSE "unmask"

\* Only for the shell command there is a timer, whose alarm kills the child.
ChildKilled ==
    /\ where = "exit" /\ "ALRM" \in signals /\ "ALRM" \notin blocked
    /\ signals' = signals \ {"ALRM"} /\ WaitOver
    /\ UNCHANGED <<fHandlers, frame, keys, blocked, resize, fLastResult>>

Alarm ==
    /\ where = "exit" /\ signals' = signals \cup {"ALRM"}
    /\ UNCHANGED <<fHandlers, frame, keys, blocked, resize, where, fLastResult>>

\* Either child may end by itself; nothing makes it.
ChildEnds ==
    /\ where \in {"exit", "close"} /\ WaitOver
    /\ UNCHANGED <<fHandlers, frame, keys, signals, blocked, resize, fLastResult>>

\* The handlers of the signals that came meanwhile run now.
Unmask ==
    /\ where = "unmask" /\ where' = "wait" /\ blocked' = {}
    /\ signals' = {} /\ resize' = Handled
    /\ UNCHANGED <<fHandlers, frame, keys, fLastResult>>

ProcessDelayedTasks ==
    /\ where = "delayed"
    /\ where' \in {"wait"} \cup Closes
    /\ UNCHANGED <<fHandlers, frame, keys, signals, blocked, resize, fLastResult>>

-----------------------------------------------------------------------------
(* The user interface.                                                     *)

\* GetCh, after an interruption: a new size of the window, or it waits again.
Interrupted ==
    /\ where = "again" /\ where' = (IF resize THEN "ui" ELSE "wait")
    /\ UNCHANGED <<fHandlers, frame, keys, signals, blocked, resize, fLastResult>>

RegisterHandler(d) == fHandlers[d] = "none" /\ fHandlers' = [fHandlers EXCEPT ![d] = "active"]
UnregisterHandler(d) == fHandlers[d] # "none" /\ fHandlers' = [fHandlers EXCEPT ![d] = "none"]
SetActive(d) ==
    /\ fHandlers[d] # "none"
    /\ fHandlers' = [fHandlers EXCEPT ![d] = IF @ = "active" THEN "inactive" ELSE "active"]

\* A key, or the new size, does one thing and then asks for the next.  It may flush
\* or remove the printer.
UseKey ==
    /\ where = "ui" /\ where' \in {"wait", "more"} \cup Closes /\ keys' = FALSE /\ resize' = FALSE
    /\ \/ /\ \E d \in Devices : RegisterHandler(d) \/ UnregisterHandler(d) \/ SetActive(d)
          /\ UNCHANGED fLastResult
       \/ (FrontendCalls \/ TapeCalls) /\ UNCHANGED fHandlers
    /\ UNCHANGED <<frame, signals, blocked>>

MoreCalls ==
    /\ where = "more" /\ where' = "wait" /\ (FrontendCalls \/ TapeCalls)
    /\ UNCHANGED <<fHandlers, frame, keys, signals, blocked, resize>>

Loop == \/ Wait \/ GetCommandFrame \/ ProcessCommandFrame \/ ChildKilled \/ Unmask
        \/ ProcessDelayedTasks \/ Interrupted \/ UseKey \/ MoreCalls

Environment ==
    /\ \/ \E d \in Devices : frame = NoFrame /\ frame' = d /\ UNCHANGED <<keys, signals>>
       \/ ~keys /\ keys' = TRUE /\ UNCHANGED <<frame, signals>>
       \/ \E s \in {"WINCH", "CHLD"} : signals' = signals \cup {s} /\ UNCHANGED <<frame, keys>>
    /\ UNCHANGED <<fHandlers, blocked, resize, where, fLastResult>>

\* The device is one of a driver whose version fits, and has its baud rates; the
\* last call, of the timing, may have failed.
CreateSIOWrapper == fLastResult \in {0} \cup Errors

ServiceInit ==
    /\ CreateSIOWrapper
    /\ fHandlers \in [Devices -> {"none", "active"}]
    /\ frame = NoFrame /\ keys = FALSE /\ signals = {} /\ blocked = {} /\ resize = FALSE
    /\ where = "wait"

ServiceNext == Loop \/ Alarm \/ ChildEnds \/ Environment

\* The process runs; the alarm that was set goes off.  No child has to end.
ServiceSpec ==
    /\ ServiceInit /\ [][ServiceNext]_servicevars
    /\ WF_servicevars(Loop) /\ WF_servicevars(Alarm)

-----------------------------------------------------------------------------
\* Whatever keys are pressed and signals come, a frame that waits is fetched, and a
\* handler that was called comes back, even from the child of a shell command that
\* does not end -- provided that no child of the printer keeps the server for ever.
\* For that one CloseProcess waits without a timer.
Served ==
    []<>(where # "close") =>
        /\ (frame # NoFrame) ~> (where = "get")
        /\ (where = "get") ~> (where = "wait")
=============================================================================
