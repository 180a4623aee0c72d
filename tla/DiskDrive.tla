------------------------------ MODULE DiskDrive ------------------------------
(***************************************************************************)
(* One drive of the server: AtrSIOHandler::ProcessCommandFrame with its    *)
(* image, and the calls of the SIO wrapper by which it answers.            *)
(*                                                                         *)
(* Nothing else touches a drive while it processes a command frame, so a   *)
(* command is one step.  What may go wrong in it is the answer: each call  *)
(* of the wrapper may fail, because the Atari has begun another command    *)
(* frame ("refused", the driver has then done nothing) or after the driver *)
(* has tried ("failed"); the handler leaves at the first call that fails.  *)
(*                                                                         *)
(* belief is what the Atari knows of each sector from the answers it got:  *)
(* the values it may hold.                                                 *)
(***************************************************************************)
EXTENDS AtrImage, FiniteSets

CONSTANTS
    Probes,        \* the sectors looked at
    Values,        \* contents of a sector; 0 is blank
    Blocks,        \* PERCOM blocks the Atari sends
    Presets        \* formats of the images that are loaded

ASSUME DiskAssumption ==
    /\ Probes \subseteq Nat
    /\ Blocks \subseteq [tracks : Nat, spt : Nat, sides : Nat, seclen : Nat]
    /\ Presets \subseteq {"90k", "130k", "180k", "360k"}

VARIABLES
    image, virtual,    \* fImage, fVirtualImageObserver
    cfg, fmt,          \* fImageConfig, fFormatConfig
    opts,              \* fEnableHighSpeed, fEnableXF551Mode, fStrictFormatChecking
    rate,              \* the driver's baud rate: the standard one, or 38400
    belief, heard      \* the Atari's knowledge; how its last command ended

diskvars == <<image, virtual, cfg, fmt, opts, rate, belief, heard>>

Options == [hs : BOOLEAN, xf551 : BOOLEAN, strict : BOOLEAN]

\* The calls of the wrapper; xf marks the ones that switch the rate.
Call(op, xf) == [op |-> op, xf |-> xf]
Ack(hi)      == Call("ack", hi)
Complete(hi) == Call("complete", hi)
Data(hi)     == Call("data", hi)
Nak          == Call("nak", FALSE)
Error        == Call("error", FALSE)
Receive      == Call("receive", FALSE)

\* What a command does: its calls, how many of them must succeed before it
\* takes effect, and the effect.
Effect(calls, need) ==
    [calls |-> calls, need |-> need, image |-> image, cfg |-> cfg, fmt |-> fmt]

Refusal == Effect(<<Nak>>, 1)
Unsupported(hi) == hi /\ ~opts.xf551
-----------------------------------------------------------------------------
(* The commands.                                                           *)

GetStatus(hi) ==
    IF Unsupported(hi) THEN Refusal ELSE Effect(<<Ack(hi), Complete(FALSE), Data(hi)>>, 1)

ReadCommand(hi, s) ==
    LET found == CanRead(image, s) /\ SectorLength(cfg, s) = SectorLength(image.cfg, s)
    IN  IF Unsupported(hi) \/ s \notin 1 .. cfg.sectors THEN Refusal
        ELSE Effect(<<Ack(hi), IF found THEN Complete(FALSE) ELSE Error, Data(hi)>>, 1)

WriteCommand_CompletesAlways(hi, s, v) ==
    IF Unsupported(hi) \/ s \notin 1 .. cfg.sectors THEN Refusal
    ELSE [Effect(<<Ack(hi), Receive, Complete(hi)>>, 2)
            EXCEPT !.image = IF CanWrite(image, s, SectorLength(cfg, s)) THEN WriteSector(image, s, v)
                             ELSE image]

WriteCommand(hi, s, v) ==
    IF Unsupported(hi) \/ s \notin 1 .. cfg.sectors THEN Refusal
    ELSE IF image.protected \/ ~CanWrite(image, s, SectorLength(cfg, s))
    THEN Effect(<<Ack(hi), Receive, Error>>, 2)
    ELSE [Effect(<<Ack(hi), Receive, Complete(hi)>>, 2)
            EXCEPT !.image = WriteSector(image, s, v)]

PercomGet(hi) ==
    IF Unsupported(hi) THEN Refusal ELSE Effect(<<Ack(hi), Complete(FALSE), Data(hi)>>, 1)

VerifyPercomFormat(b) ==
    LET total == b.tracks * b.spt * b.sides
    IN  /\ 0 < total /\ total < 65536
        /\ b.seclen \in SectorLengths
        /\ opts.strict => /\ b.sides = 1 /\ b.tracks = 40
                          /\ \/ b.seclen = 128 /\ b.spt \in {18, 26}
                             \/ b.seclen = 256 /\ b.spt = 18

PercomPut(hi, b) ==
    IF Unsupported(hi) THEN Refusal
    ELSE IF VerifyPercomFormat(b)
    THEN [Effect(<<Ack(hi), Receive, Complete(hi)>>, 2)
            EXCEPT !.fmt = Config(b.seclen, b.tracks * b.spt * b.sides, b.spt, b.tracks, b.sides)]
    ELSE Effect(<<Ack(hi), Receive, Error>>, 2)

\* A format command answers with the list of bad sectors, but for 0x20.
FormatCalls(result, data) ==
    IF data THEN <<Ack(FALSE), result, Data(FALSE)>> ELSE <<Ack(FALSE), result>>

CreateAs_KeepsConfig(c, data) ==
    IF c = NoDisk
    THEN [Effect(FormatCalls(Error, data), 1) EXCEPT !.image = CreateImage(image, c)]
    ELSE [Effect(FormatCalls(Complete(FALSE), data), 1)
            EXCEPT !.image = CreateImage(image, c), !.fmt = c]

\* The image becomes a blank one of the geometry c, or is lost if there is no
\* such geometry.
CreateAs(c, data) ==
    IF c = NoDisk
    THEN [Effect(FormatCalls(Error, data), 1) EXCEPT !.image = CreateImage(image, c)]
    ELSE [Effect(FormatCalls(Complete(FALSE), data), 1)
            EXCEPT !.image = CreateImage(image, c), !.cfg = c, !.fmt = c]

Protected(data) == Effect(FormatCalls(Error, data), 1)

PercomFormat == SetFormatLayout(fmt.seclen, fmt.spt, fmt.tracks, fmt.sides)

\* 0x20 of the Speedy has no data frame, and is unknown to virtual drives.
FormatSpeedy ==
    IF ~opts.hs \/ virtual THEN Refusal
    ELSE IF image.protected THEN Protected(FALSE) ELSE CreateAs(PercomFormat, FALSE)

FormatDisk(hi) ==
    IF Unsupported(hi) THEN Refusal
    ELSE IF image.protected \/ virtual THEN Protected(TRUE) ELSE CreateAs(PercomFormat, TRUE)

FormatEnhanced(hi) ==
    IF Unsupported(hi) THEN Refusal
    ELSE IF image.protected \/ virtual THEN Protected(TRUE) ELSE CreateAs(SetFormatName("130k"), TRUE)

Sent == Effect(<<Ack(FALSE), Complete(FALSE), Data(FALSE)>>, 1)

\* The speed byte, the length and the code of the high speed routine
HighSpeedInfo == IF opts.hs THEN Sent ELSE Refusal

\* Happy and Speedy commands that are only acknowledged
Configure == IF opts.hs THEN Effect(<<Ack(FALSE), Complete(FALSE)>>, 1) ELSE Refusal

\* The sectors of the MyPicoDos boot code, and the APE commands (time, name of
\* the image, version); there are numbers of neither kind that are unknown.
ReadMyPicoDos(known) == IF known THEN Sent ELSE Refusal
ApeSpecial(known) == IF known THEN Sent ELSE Refusal
-----------------------------------------------------------------------------
(* The answer, of which the first k calls succeed.                         *)

RateAfter_NoReset(calls, k, how) ==
    LET last == IF k < Len(calls) THEN k + 1 ELSE Len(calls)
        done == {i \in 1 .. last : calls[i].xf /\ ~(i = k + 1 /\ how = "refused")}
    IN  IF done = {} THEN rate
        ELSE IF \E i \in done : calls[i].op # "ack" THEN "std" ELSE "xf"

\* reset_baudrate is set with the call that acknowledges and cleared with the
\* call that switches back, whether that succeeds or not.
RateAfter(calls, k, how) ==
    LET last  == IF k < Len(calls) THEN k + 1 ELSE Len(calls)
        begun == {i \in 1 .. last : calls[i].xf}
        reset == begun # {} /\ \A i \in begun : calls[i].op = "ack"
        done  == {i \in begun : ~(i = k + 1 /\ how = "refused")}
    IN  IF begun = {} THEN rate
        ELSE IF reset \/ \E i \in done : calls[i].op # "ack" THEN "std"
        ELSE "xf"

\* What the Atari makes of it: a COMPLETE settles a write or a format, an ERROR
\* means nothing was done, and silence may mean either.
Learn(touched, k, e) ==
    LET ops == {e.calls[i].op : i \in 1 .. (IF k < Len(e.calls) THEN k ELSE Len(e.calls))}
    IN  CASE "complete" \in ops -> [s \in Probes |-> IF s \in DOMAIN touched THEN {touched[s]} ELSE belief[s]]
          [] ops \cap {"complete", "error", "nak"} = {} ->
               [s \in Probes |-> IF s \in DOMAIN touched THEN belief[s] \cup {touched[s]} ELSE belief[s]]
          [] OTHER -> belief

Process(e, touched) ==
    /\ rate = "std"
    /\ \E k \in 0 .. Len(e.calls), how \in {"refused", "failed"} :
         /\ k = Len(e.calls) => how = "failed"
         /\ rate' = RateAfter(e.calls, k, how)
         /\ heard' = CASE k = Len(e.calls) -> "whole"
                       [] k = Len(e.calls) - 1 /\ how = "refused" -> "last refused"
                       [] OTHER -> "cut"
         /\ belief' = Learn(touched, k, e)
         /\ IF k >= e.need
            THEN image' = e.image /\ cfg' = e.cfg /\ fmt' = e.fmt
            ELSE UNCHANGED <<image, cfg, fmt>>
    /\ UNCHANGED <<virtual, opts>>

Nothing == [s \in {} |-> 0]
One(s, v) == [x \in {s} |-> v]

Ask ==
    \/ \E hi \in BOOLEAN : Process(GetStatus(hi), Nothing) \/ Process(PercomGet(hi), Nothing)
    \/ \E hi \in BOOLEAN, s \in Probes \cup {0} : Process(ReadCommand(hi, s), Nothing)
    \/ \E hi \in BOOLEAN, s \in Probes, v \in Values : Process(WriteCommand(hi, s, v), One(s, v))
    \/ \E hi \in BOOLEAN, b \in Blocks : Process(PercomPut(hi, b), Nothing)
    \/ Process(FormatSpeedy, Blank(Probes))
    \/ \E hi \in BOOLEAN : Process(FormatDisk(hi), Blank(Probes)) \/ Process(FormatEnhanced(hi), Blank(Probes))
    \/ Process(HighSpeedInfo, Nothing) \/ Process(Configure, Nothing)
    \/ \E known \in BOOLEAN : Process(ReadMyPicoDos(known), Nothing) \/ Process(ApeSpecial(known), Nothing)
-----------------------------------------------------------------------------
(* The user's side, and the driver between two commands.                   *)

SetWriteProtect ==
    /\ image' = [image EXCEPT !.protected = ~image.protected]
    /\ UNCHANGED <<virtual, cfg, fmt, opts, rate, belief, heard>>

Save ==
    /\ image.changed
    /\ image' = [image EXCEPT !.changed = FALSE]
    /\ UNCHANGED <<virtual, cfg, fmt, opts, rate, belief, heard>>

\* With automatic switching the driver's next bad frame brings the rate back.
Autobaud ==
    /\ rate = "xf" /\ opts.hs
    /\ rate' = "std"
    /\ UNCHANGED <<image, virtual, cfg, fmt, opts, belief, heard>>

DiskInit ==
    /\ \E f \in Presets : image = NewImage(SetFormatName(f), Probes)
    /\ virtual \in BOOLEAN
    /\ cfg = image.cfg /\ fmt = image.cfg
    /\ opts \in Options
    /\ rate = "std"
    /\ belief = [s \in Probes |-> {0}]
    /\ heard = "whole"

DiskNext == Ask \/ SetWriteProtect \/ Save \/ Autobaud

DiskSpec == DiskInit /\ [][DiskNext]_diskvars
-----------------------------------------------------------------------------
(* Properties.                                                             *)

\* A geometry of a disk: the layout multiplies to a number of sectors a sector
\* number can name.
DiskGeometries ==
    {c \in [format : {"90k", "130k", "180k", "360k", "user"}, seclen : SectorLengths,
            sectors : Nat, spt : Nat, tracks : Nat, sides : Nat] :
        0 < c.sectors /\ c.sectors < 65536 /\ c.spt * c.tracks * c.sides = c.sectors}

\* Every variable has its type; image, handler and the next format always have
\* the geometry of a disk, whatever PERCOM blocks were sent.
DiskTypeOK ==
    /\ image \in [cfg : DiskGeometries, data : [Probes -> Values \cup {0}],
                  protected : BOOLEAN, changed : BOOLEAN]
    /\ virtual \in BOOLEAN /\ opts \in Options /\ rate \in {"std", "xf"}
    /\ cfg \in DiskGeometries /\ fmt \in DiskGeometries
    /\ belief \in [Probes -> SUBSET (Values \cup {0})]
    /\ heard \in {"whole", "last refused", "cut"}

\* The answers are true: whatever calls failed on the way, each sector holds a
\* value the Atari has reason to expect, the last one acknowledged with COMPLETE
\* and none that was answered with ERROR.
Promised == \A s \in Probes : image.data[s] \in belief[s]

\* The handler's copy of the geometry, by which it judges sector numbers and
\* the length of data frames, is that of its image.
ConfigFresh == cfg = image.cfg

\* Protection holds against every command, formatting included.
ProtectedUntouched == [][image.protected => image'.data = image.data /\ image'.cfg = image.cfg]_diskvars

\* A command that ends early leaves the standard rate behind, unless it is the
\* call that switches back which the driver refuses.
RateLeft ==
    [][rate' = "xf" => heard' = "last refused"]_diskvars

\* driver/atarisio.h says of the XF551 calls that they set the rate "to 38400 (or
\* back to 19200) just after they are finished": between two commands the rate
\* is the standard one.
BackToStandard == rate = "std"
=============================================================================
