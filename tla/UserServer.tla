------------------------------ MODULE UserServer ------------------------------
(***************************************************************************)
(* SIO server without the driver: UserspaceSIOWrapper::WaitForCommandFrame *)
(* and the replies (tools/UserspaceSIOWrapper.cpp) on an ordinary serial   *)
(* port.  There is no interrupt: the wrapper polls the COMMAND line every  *)
(* 100 microseconds, or, for cables without that line, tells a command     *)
(* frame by the silence around it.                                         *)
(*                                                                         *)
(* The loop reads the line at its top and the kernel's input queue behind  *)
(* select; the Atari moves in between.  Characters carry the number of     *)
(* their command frame, negated for data, 0 if garbled.  The one timer     *)
(* (fCommandFrameTimeout) may expire at any moment.                        *)
(*                                                                         *)
(* An environment that is prompt is an Atari that repeats one frame until  *)
(* it is answered, and a computer fast enough to see each of its moves.    *)
(***************************************************************************)
EXTENDS Integers, Sequences

CONSTANTS
    MaxFrames,     \* bound: command frames of an Atari that is not prompt
    MaxChars,      \* bound: characters it sends between two line changes
    MaxQueue,      \* bound: characters in the kernel's input queue
    DataLen,       \* characters of a data frame with its checksum
    CmdRawLength,  \* eCmdRawLength
    ReadLen,       \* the 10 of the read of command frame characters
    CmdBufLength   \* eCmdBufLength

ASSUME UserServerAssumption ==
    /\ MaxFrames \in Nat \ {0} /\ MaxChars \in Nat /\ MaxQueue \in Nat
    /\ CmdRawLength \in Nat \ {0} /\ ReadLen \in Nat \ {0} /\ DataLen \in Nat \ {0}
    /\ CmdBufLength \in Nat /\ CmdRawLength - 1 + ReadLen <= CmdBufLength

VARIABLES
    line, inq,           \* COMMAND asserted; the kernel's input queue
    sent, frames, arate, \* the Atari: characters since a line change, frames, its rate
    polled,              \* the loop has looked at everything since the last move
    prompt,              \* the kind of environment (see above)
    haveLine,            \* fHaveCommandLine
    cst, buf, timer,     \* fCommandReceiveState, fCmdBuf, fCommandFrameTimeout
    lastOK, autobaud,    \* fLastCommandOK, fDoAutobaud
    srvBaud,                \* fBaudrate
    fresh,               \* younger than eCommandExpire
    out,                 \* frames whose replies are in the output queue
    where, result,             \* the process, and the result of its last call
    serving              \* history: the frame fetched

atari == <<line, sent, frames, arate>>
conf  == <<prompt, haveLine, autobaud>>
fsm   == <<cst, buf, timer, lastOK, fresh>>
servervars  == <<atari, inq, polled, conf, fsm, srvBaud, out, where, result, serving>>

States == {"idle", "assert", "receive", "deassert", "ok", "soft", "hard"}
Rates  == {"std", "hs"}
CmdLength == CmdRawLength - 1

\* The data of a good command frame or data frame: the checksum matches.
OfOneFrame(s) == s[1] # 0 /\ \A i \in 1 .. Len(s) : s[i] = s[1]
-----------------------------------------------------------------------------
(* The states of the command frame reception.                              *)

\* SetWaitCommandIdleState, SetReceiveCommandState, SetWaitCommandDeassertState;
\* what is in the buffer is not looked at again in the idle state
SetIdle == cst' = "idle" /\ buf' = <<>> /\ timer' = IF haveLine THEN timer ELSE "running"
SetReceive == cst' = "receive" /\ buf' = <<>> /\ timer' = "running"
SetDeassert == cst' = "deassert" /\ timer' = IF haveLine THEN timer ELSE "running"

PollAgain == where' = "loop" /\ UNCHANGED result
Select == where' = "select" /\ UNCHANGED result
Return(r) == where' = "user" /\ result' = r

TrySwitchbaud_OnlyDown ==
    /\ srvBaud' = "std"
    /\ inq' = <<>> /\ out' = {}

\* TrySwitchbaud flushes both queues, whether it switches or not.
TrySwitchbaud ==
    /\ srvBaud' = IF ~autobaud THEN srvBaud ELSE IF srvBaud = "std" THEN "hs" ELSE "std"
    /\ inq' = <<>> /\ out' = {}

\* The top of the loop, an error state: one broken frame after a good one is
\* forgiven.
HandleError ==
    /\ where = "loop"
    /\ cst \in {"soft", "hard"}
    /\ lastOK' = FALSE
    /\ SetIdle
    /\ IF cst = "soft" /\ lastOK
       THEN UNCHANGED <<srvBaud, inq, out>>
       ELSE TrySwitchbaud
    /\ polled' = FALSE
    /\ PollAgain
    /\ UNCHANGED <<atari, conf, fresh, serving>>

PollIdle ==
    /\ where = "loop" /\ cst = "idle"
    /\ IF (IF haveLine THEN ~line ELSE timer = "expired")
       THEN cst' = "assert" /\ PollAgain /\ polled' = FALSE
       ELSE Select /\ polled' = prompt /\ UNCHANGED cst
    /\ UNCHANGED <<atari, inq, conf, buf, timer, lastOK, fresh, srvBaud, out, serving>>

PollAssert_FlushesBoth ==
    /\ where = "loop" /\ cst = "assert"
    /\ IF haveLine /\ line
       THEN SetReceive /\ PollAgain /\ polled' = FALSE /\ UNCHANGED <<inq, out>>
       ELSE /\ Select
            /\ polled' = prompt
            /\ inq' = IF haveLine THEN <<>> ELSE inq
            /\ out' = IF haveLine THEN {} ELSE out
            /\ UNCHANGED <<cst, buf, timer>>
    /\ UNCHANGED <<atari, conf, lastOK, fresh, srvBaud, serving>>

\* With a COMMAND line, what comes while it is not asserted is flushed.
PollAssert ==
    /\ where = "loop" /\ cst = "assert"
    /\ IF haveLine /\ line
       THEN SetReceive /\ PollAgain /\ polled' = FALSE /\ UNCHANGED inq
       ELSE /\ Select
            /\ polled' = prompt
            /\ inq' = IF haveLine THEN <<>> ELSE inq
            /\ UNCHANGED <<cst, buf, timer>>
    /\ UNCHANGED <<atari, conf, lastOK, fresh, srvBaud, out, serving>>

JudgeFrame_NoChecksum ==
    /\ where = "loop" /\ cst = "receive"
    /\ IF Len(buf) = CmdRawLength
       THEN SetDeassert /\ polled' = FALSE /\ PollAgain
       ELSE IF Len(buf) > CmdRawLength \/ timer = "expired"
       THEN cst' = (IF Len(buf) \in CmdLength .. CmdRawLength THEN "soft" ELSE "hard")
            /\ UNCHANGED timer /\ polled' = FALSE /\ PollAgain
       ELSE Select /\ polled' = prompt /\ UNCHANGED <<cst, timer>>
    /\ UNCHANGED <<atari, inq, conf, buf, lastOK, fresh, srvBaud, out, serving>>

\* eCmdRawLength characters are judged by their checksum; more of them, or fewer
\* than eCmdLength at the deadline, are a hard error.
JudgeFrame ==
    /\ where = "loop" /\ cst = "receive"
    /\ IF Len(buf) = CmdRawLength
       THEN /\ IF OfOneFrame(buf) /\ buf[1] > 0
               THEN SetDeassert
               ELSE cst' = "soft" /\ UNCHANGED timer
            /\ polled' = FALSE /\ PollAgain
       ELSE IF Len(buf) > CmdRawLength \/ timer = "expired"
       THEN /\ cst' = IF Len(buf) > CmdRawLength \/ Len(buf) < CmdLength THEN "hard" ELSE "soft"
            /\ polled' = FALSE /\ PollAgain
            /\ UNCHANGED timer
       ELSE Select /\ polled' = prompt /\ UNCHANGED <<cst, timer>>
    /\ UNCHANGED <<atari, inq, conf, buf, lastOK, fresh, srvBaud, out, serving>>

\* SetCommandOKState, and the return of WaitForCommandFrame with a frame
PollDeassert ==
    /\ where = "loop" /\ cst = "deassert"
    /\ IF (IF haveLine THEN ~line ELSE timer = "expired")
       THEN cst' = "ok" /\ fresh' = TRUE /\ lastOK' = TRUE /\ Return("frame")
            /\ polled' = FALSE
       ELSE Select /\ polled' = prompt /\ UNCHANGED <<cst, fresh, lastOK>>
    /\ UNCHANGED <<atari, inq, conf, buf, timer, srvBaud, out, serving>>

\* A frame that was not fetched is forgotten.
ForgetFrame ==
    /\ where = "loop" /\ cst = "ok"
    /\ SetIdle
    /\ PollAgain
    /\ polled' = FALSE
    /\ UNCHANGED <<atari, inq, conf, lastOK, fresh, srvBaud, out, serving>>

\* select, and read of what is there
ReadInput ==
    /\ inq # <<>>
    /\ CASE cst = "receive" ->
              LET n == IF Len(inq) < ReadLen THEN Len(inq) ELSE ReadLen
              IN  /\ buf' = buf \o SubSeq(inq, 1, n)
                  /\ inq' = SubSeq(inq, n + 1, Len(inq))
                  /\ UNCHANGED <<cst, timer>>
         [] cst = "idle" ->
              inq' = <<>> /\ timer' = (IF haveLine THEN timer ELSE "running") /\ UNCHANGED <<cst, buf>>
         [] cst = "assert" ->
              IF haveLine THEN UNCHANGED <<inq, cst, buf, timer>> ELSE SetReceive /\ UNCHANGED inq
         [] OTHER -> cst' = "hard" /\ UNCHANGED <<inq, buf, timer>>

\* What select ends with: input, its timeout, another file (the printer's
\* coprocess), or the deadline after which the printer is flushed.
SelectReturns ==
    /\ where = "select"
    /\ ReadInput \/ (inq = <<>> /\ UNCHANGED <<inq, cst, buf, timer>>)
    /\ \/ PollAgain
       \/ ~prompt /\ (Return("other") \/ Return("idle"))
    /\ polled' = (polled /\ inq = <<>>)
    /\ UNCHANGED <<atari, conf, lastOK, fresh, srvBaud, out, serving>>

SelectFails ==
    /\ where = "select" /\ ~prompt
    /\ cst' = "hard"
    /\ Return("error")
    /\ UNCHANGED <<atari, inq, polled, conf, buf, timer, lastOK, fresh, srvBaud, out, serving>>

WaitForCommandFrame ==
    /\ where = "user"
    /\ where' = "loop" /\ result' = IF result = "error" THEN result ELSE "none"
    /\ polled' = FALSE
    /\ UNCHANGED <<atari, inq, conf, fsm, srvBaud, out, serving>>
-----------------------------------------------------------------------------
(* Fetching the frame and answering it.                                    *)

GetCommandFrame ==
    /\ where = "user" /\ result = "frame"
    /\ IF cst = "ok"
       THEN serving' = buf[1] /\ cst' = "assert" /\ buf' = <<>> /\ result' = "fetched"
       ELSE result' = "none" /\ UNCHANGED <<serving, cst, buf>>
    /\ UNCHANGED <<atari, inq, polled, conf, timer, lastOK, fresh, srvBaud, out, where>>

\* SendCommandACK, SendCommandNAK; nothing but the age is looked at.
AckFrame ==
    /\ where = "user" /\ result = "fetched"
    /\ IF fresh THEN out' = out \cup {serving} /\ result' \in {"acked", "naked"}
                ELSE UNCHANGED out /\ result' = "late"
    /\ UNCHANGED <<atari, inq, polled, conf, fsm, srvBaud, where, serving>>

\* SendComplete, SendError, SendDataFrame: left to the kernel to send
Reply ==
    /\ where = "user" /\ result \in {"acked", "data"}
    /\ out' = out \cup {serving}
    /\ result' = "replied"
    /\ UNCHANGED <<atari, inq, polled, conf, fsm, srvBaud, where, serving>>

\* ReceiveDataFrame: what was read when the deadline passes is lost.
ReceiveDataFrame ==
    /\ where = "user" /\ result = "acked"
    /\ IF Len(inq) >= DataLen
       THEN /\ inq' = SubSeq(inq, DataLen + 1, Len(inq))
            /\ result' = IF OfOneFrame(SubSeq(inq, 1, DataLen)) THEN "data" ELSE "checksum"
       ELSE inq' = <<>> /\ result' = "short"
    /\ out' = IF result' = "short" THEN out ELSE out \cup {serving}
    /\ UNCHANGED <<atari, polled, conf, fsm, srvBaud, where, serving>>
-----------------------------------------------------------------------------
(* The environment.                                                        *)

\* The wrapper has looked at everything there is.
Settled == where = "select" /\ polled /\ inq = <<>>

process == <<conf, cst, buf, lastOK, srvBaud, where, result, serving>>

Assert ==
    /\ ~line
    /\ IF prompt THEN Settled /\ cst = "assert" ELSE frames < MaxFrames
    /\ line' = TRUE
    /\ sent' = 0
    /\ frames' = IF prompt THEN 1 ELSE frames + 1
    /\ polled' = FALSE
    /\ UNCHANGED <<arate, inq, timer, fresh, out, process>>

Deassert ==
    /\ line
    /\ prompt => Settled /\ sent = CmdRawLength
    /\ line' = FALSE
    /\ sent' = 0
    /\ polled' = FALSE
    /\ UNCHANGED <<arate, frames, inq, timer, fresh, out, process>>

\* A character at the wrong rate is garbled, and a slow one may be taken for
\* two, a fast one be lost; the first one, without a COMMAND line, is not.
Heard ==
    IF srvBaud = arate THEN {<<IF line THEN frames ELSE -frames>>}
    ELSE {<<0>>} \cup (IF srvBaud = "hs" THEN {<<0, 0>>}
                       ELSE IF haveLine \/ sent > 0 THEN {<<>>} ELSE {})

SendChar ==
    /\ IF prompt THEN Settled /\ line /\ sent < CmdRawLength
                 ELSE frames > 0 /\ sent < MaxChars
    /\ sent' = sent + 1
    /\ \E h \in Heard : Len(inq) + Len(h) <= MaxQueue /\ inq' = inq \o h
    /\ polled' = FALSE
    /\ UNCHANGED <<line, frames, arate, timer, fresh, out, process>>

\* The deadline of a prompt Atari's frame passes when it has sent all of it.
TimerExpires ==
    /\ timer = "running"
    /\ prompt => Settled /\ (cst = "receive" => sent = CmdRawLength \/ ~line)
    /\ timer' = "expired"
    /\ polled' = FALSE
    /\ UNCHANGED <<atari, inq, fresh, out, process>>

FrameAges ==
    /\ fresh /\ ~prompt
    /\ fresh' = FALSE
    /\ UNCHANGED <<atari, inq, polled, timer, out, process>>

\* The port has sent what was written.
Drain ==
    /\ out # {} /\ where # "loop"
    /\ out' = {}
    /\ UNCHANGED <<atari, inq, polled, timer, fresh, process>>
-----------------------------------------------------------------------------
\* SetSIOServerMode on a port that was just opened, at the standard rate
ServerInit ==
    /\ line = FALSE /\ inq = <<>> /\ sent = 0 /\ frames = 0
    /\ arate \in Rates
    /\ polled = FALSE
    /\ prompt \in BOOLEAN /\ haveLine \in BOOLEAN /\ autobaud \in BOOLEAN
    /\ cst = "idle" /\ buf = <<>> /\ timer = IF haveLine THEN "expired" ELSE "running"
    /\ lastOK = TRUE /\ srvBaud = "std" /\ fresh = FALSE
    /\ out = {} /\ where = "user" /\ result = "none" /\ serving = 0

Loop ==
    \/ HandleError \/ PollIdle \/ PollAssert \/ JudgeFrame \/ PollDeassert
    \/ ForgetFrame \/ SelectReturns \/ WaitForCommandFrame

Handler == GetCommandFrame \/ AckFrame \/ Reply \/ ReceiveDataFrame

Environment == Assert \/ Deassert \/ SendChar \/ TimerExpires \/ FrameAges \/ Drain

ServerNext == Loop \/ SelectFails \/ Handler \/ Environment

ServerSpec == ServerInit /\ [][ServerNext]_servervars

\* The loop runs, its deadlines pass, and a prompt Atari keeps asking.
FairServerSpec ==
    /\ ServerSpec
    /\ WF_servervars(Loop)
    /\ SF_servervars(TimerExpires)
    /\ SF_servervars(prompt /\ (Assert \/ Deassert \/ SendChar))
-----------------------------------------------------------------------------
(* Properties.                                                             *)

Tags    == -MaxFrames .. MaxFrames
Results == {"none", "frame", "other", "idle", "error", "fetched", "late", "acked", "naked",
            "replied", "data", "checksum", "short"}

\* Every variable has its type.
ServerTypeOK ==
    /\ line \in BOOLEAN /\ inq \in Seq(Tags)
    /\ sent \in Nat /\ frames \in 0 .. MaxFrames /\ arate \in Rates
    /\ polled \in BOOLEAN /\ prompt \in BOOLEAN /\ haveLine \in BOOLEAN
    /\ cst \in States /\ buf \in Seq(Tags) /\ timer \in {"running", "expired"}
    /\ lastOK \in BOOLEAN /\ autobaud \in BOOLEAN /\ srvBaud \in Rates /\ fresh \in BOOLEAN
    /\ out \subseteq Tags
    /\ where \in {"user", "loop", "select"} /\ result \in Results /\ serving \in Tags

\* What is handed out is one command frame, all of it and nothing else: never
\* the beginning of one and the end of the next, though the line may move many
\* times between two looks at it; and what has piled up never overflows fCmdBuf.
HandedWhole ==
    /\ Len(buf) <= CmdBufLength
    /\ cst \in {"deassert", "ok"} => Len(buf) = CmdRawLength /\ OfOneFrame(buf) /\ buf[1] > 0

\* The recovery from errors throws a reply away only when the Atari has moved
\* on to another frame; a signal (the result of the last wait is an error) is
\* the exception.
RepliesNotCut ==
    [][where = "loop" /\ haveLine /\ result # "error" /\ out' # out
         => \A f \in out : f < frames]_servervars

\* An Atari that keeps asking, at either rate, is heard in the end, with and
\* without a COMMAND line, if the rate may be switched.
HeardAtLast == (prompt /\ autobaud) ~> (where = "user" /\ result = "frame")
=============================================================================
