-------------------------------- MODULE Xfer --------------------------------
(***************************************************************************)
(* atarixfer: a disk in a real drive is copied to an image, or an image to *)
(* the disk (tools/atarixfer.cpp), with the commands of SIOWrapper over a  *)
(* line on which a command may fail: before the drive performed it or, the *)
(* answer lost, after.  What a drive says of the disk in it may be out of  *)
(* date.  Sectors and their contents are scaled down: Sectors says how many*)
(* a format has, and the first is always of 128 bytes, as the first three  *)
(* are; a user defined format has them all of 128.                         *)
(***************************************************************************)
EXTENDS Integers, Sequences

CONSTANTS
    Sectors,       \* format -> number of sectors; "other" is a user defined one
    Contents,      \* what a sector can hold, Zero among it
    Zero,
    MaxFaults,     \* bound: commands that fail although the drive could do them
    MaxRetries     \* bound: option -R

\* Sector 721, the last of an enhanced density disk here, is on no single or double
\* density disk and on every one of quad density.
ASSUME XferAssumption ==
    /\ DOMAIN Sectors = {"90k", "130k", "180k", "360k", "other"}
    /\ \A f \in DOMAIN Sectors : Sectors[f] \in Nat \ {0}
    /\ Sectors["90k"] < Sectors["130k"] /\ Sectors["180k"] < Sectors["130k"]
    /\ Sectors["130k"] <= Sectors["360k"]
    /\ Zero \in Contents /\ MaxFaults \in Nat /\ MaxRetries \in Nat

VARIABLES
    step,          \* where the program is
    opt,           \* its options, and what the workarounds added to them
    drive,         \* what the drive can do, the disk in it, the format it is set to
    probes,        \* the highspeed modes still to try
    img,           \* the image: its format and sectors
    sec, tries,    \* the current sector, the attempts left
    bad,           \* sectors for which an error was printed
    misled,        \* the drive named another format, or did not answer when it
                   \* should have told one from another (of the property only)
    faults

xfervars == <<step, opt, drive, probes, img, sec, tries, bad, misled, faults>>

Formats == DOMAIN Sectors
Length(f) == IF f \in {"180k", "360k"} THEN 256 ELSE 128
SectorLen(f, s) == IF s = 1 THEN 128 ELSE Length(f)
Disk(f, c) == [fmt |-> f, data |-> [s \in 1 .. Sectors[f] |-> c]]
LastProbed == Sectors["130k"]           \* "sector 721": only the larger formats have it

\* A command to the drive, which can do it or not.  One that it can do may
\* fail all the same; the caller says what that leaves behind.
Ask(can, ok, fail) ==
    \/ can /\ ok /\ UNCHANGED faults
    \/ ~can /\ fail /\ UNCHANGED faults
    \/ can /\ faults < MaxFaults /\ faults' = faults + 1 /\ fail

GetStatus == TRUE
PercomGet == drive.percom
PercomPut == drive.percom
ReadSector(s, len) == s \in DOMAIN drive.disk.data /\ SectorLen(drive.disk.fmt, s) = len
WriteSector(s, len) == ReadSector(s, len)
\* Formatting answers with a sector: another length is an error to the caller,
\* but the disk is formatted.
FormatDisk(len) == drive.conf # "odd" /\ Length(drive.conf) = len
Formatted(f) == IF f = "odd" THEN drive ELSE [drive EXCEPT !.disk = Disk(f, Zero), !.conf = f]

Goto(s) == step' = s
-----------------------------------------------------------------------------
Checks(modes) == (IF modes \in {2, 3} THEN <<"ultra", "turbo">> ELSE <<>>) \o
                 (IF modes \in {1, 3} THEN <<"warp", "xf551">> ELSE <<>>)

ProgramInit ==
    /\ step = "speed"
    /\ \E m \in {"read", "write"}, f \in {"none", "90k", "130k", "180k", "360k"}, c, u, x \in BOOLEAN, r \in 0 .. MaxRetries :
           /\ m = "write" => ~u /\ ~x      \* only read_image looks at them
           /\ opt = [mode |-> m, force |-> f, goon |-> c, usd |-> u, xf |-> x, retries |-> r]
    /\ \E hs \in {0, 3} : probes = Checks(hs)
    /\ sec = 1 /\ tries = opt.retries + 1 /\ bad = {} /\ misled = FALSE /\ faults = 0

\* A drive with or without the PERCOM commands, its disk written before, set to the
\* format of the disk or another, "odd" one that no image can have; an image whose
\* sectors are all zeros but one.
WorldInit ==
    /\ \E f \in Formats, g \in Formats \cup {"odd"}, p \in BOOLEAN, k \in {"plain", "ultra", "xf551"}, c \in Contents \ {Zero} :
           /\ p \/ ({f, g} \subseteq {"90k", "130k"})
           /\ opt.mode = "write" => f = "130k"        \* it is formatted
           /\ probes = <<>> => k = "plain"
           /\ drive = [disk |-> Disk(f, c), conf |-> g, percom |-> p, kind |-> k]
    /\ \E f \in Formats, s \in 1 .. LastProbed, c \in Contents :
           /\ opt.mode = "read" => f = "90k" /\ s = 1 /\ c = Zero
           /\ img = [Disk(f, Zero) EXCEPT !.data[IF s \in 1 .. Sectors[f] THEN s ELSE 1] = c]

XferInit == ProgramInit /\ WorldInit

\* check_ultraspeed, check_happy_1050, check_turbo_1050, check_xf551: a mode is found
\* in vain when its rate cannot be set, but the workaround for the XF551 stays.
Check ==
    /\ step = "speed" /\ probes # <<>>
    /\ LET kind == Head(probes)
       IN  Ask(drive.kind = kind,
               /\ probes' \in {<<>>, Tail(probes)}
               /\ opt' = [opt EXCEPT !.xf = @ \/ kind = "xf551"],
               probes' = Tail(probes) /\ UNCHANGED opt)
    /\ UNCHANGED <<step, drive, img, sec, tries, bad, misled>>

DetectHighspeedMode ==
    /\ step = "speed" /\ probes = <<>>
    /\ Goto(IF opt.mode = "read" THEN "density" ELSE "check")
    /\ UNCHANGED <<opt, drive, probes, img, sec, tries, bad, misled, faults>>

-----------------------------------------------------------------------------
\* read_image.  Density(f) takes format f, but for the doubtful ones, of which the
\* number of sectors is found by reading one of the second half; of the same length.
StatusFormat(f) == IF f = "360k" THEN "180k" ELSE IF f = "other" THEN "90k" ELSE f
Doubtful(f) == \/ f = "90k" /\ opt.usd
               \/ f = "180k" /\ opt.xf
               \/ f = "360k"
Density(f) ==
    IF f = "odd" THEN Goto("failed") /\ UNCHANGED img
    ELSE /\ Goto(IF Doubtful(f) THEN "probe721" ELSE "read")
         /\ img' = Disk(f, Zero)

\* The word of the drive, true when the probe can put it right.
Word(f) ==
    LET d == drive.disk.fmt
    IN  /\ Density(f)
        /\ misled' = (f # d /\ (Doubtful(f) => {f, d} \notin {{"90k", "130k"}, {"180k", "360k"}}))

\* With -x sector 4 is read first, whether that works or not: the drive may notice
\* which format the disk has.
GetDensity ==
    /\ step = "density"
    /\ drive' \in {drive} \cup (IF opt.force = "none" /\ opt.xf
                               THEN {[drive EXCEPT !.conf = drive.disk.fmt]} ELSE {})
    /\ IF opt.force # "none" THEN Density(opt.force) /\ UNCHANGED <<misled, faults>>
       ELSE IF opt.usd THEN Goto("status") /\ UNCHANGED <<img, misled, faults>>
       ELSE Ask(PercomGet, Word(drive'.conf), Goto("status") /\ UNCHANGED <<img, misled>>)
    /\ UNCHANGED <<opt, probes, sec, tries, bad>>

\* Some drives do not tell enhanced density, or not before they have read the disk.
AskStatus ==
    /\ step = "status"
    /\ LET told == {StatusFormat(f) : f \in {drive.disk.fmt, drive.conf} \ {"odd"}}
       IN  Ask(GetStatus,
               \E f \in told \cup (IF "130k" \in told THEN {"90k"} ELSE {}) : Word(f),
               Goto("failed") /\ UNCHANGED <<img, misled>>)
    /\ UNCHANGED <<opt, drive, probes, sec, tries, bad>>

\* A failure is not retried: it counts as the smaller format.
Probe721_ImageStays ==
    /\ step = "probe721"
    /\ Goto("read")
    /\ Ask(ReadSector(LastProbed, Length(img.fmt)),
           UNCHANGED <<img, misled>>,
           UNCHANGED img /\ misled' = (misled \/ ReadSector(LastProbed, Length(img.fmt))))
    /\ UNCHANGED <<opt, drive, probes, sec, tries, bad>>

Probe721 ==
    /\ step = "probe721"
    /\ Goto("read")
    /\ Ask(ReadSector(LastProbed, Length(img.fmt)),
           /\ img' = Disk(IF img.fmt = "90k" THEN "130k" ELSE "360k", Zero)
           /\ UNCHANGED misled,
           /\ img' = Disk(IF img.fmt = "90k" THEN "90k" ELSE "180k", Zero)
           /\ misled' = (misled \/ ReadSector(LastProbed, Length(img.fmt))))
    /\ UNCHANGED <<opt, drive, probes, sec, tries, bad>>

NextSector == sec' = sec + 1 /\ tries' = opt.retries + 1
Again == tries' = tries - 1 /\ UNCHANGED <<sec, img, bad, step>>

\* After the last failed attempt, with -e, whatever the buffer holds goes into
\* the image.
ReadFailed ==
    IF tries > 1 THEN Again
    ELSE IF ~opt.goon THEN Goto("failed") /\ UNCHANGED <<sec, tries, img, bad>>
    ELSE /\ NextSector /\ UNCHANGED step
         /\ bad' = bad \cup {sec}
         /\ \E c \in Contents : img' = [img EXCEPT !.data[sec] = c]

ReadImage ==
    /\ step = "read"
    /\ IF sec \notin DOMAIN img.data THEN Goto("done") /\ UNCHANGED <<sec, tries, img, bad, faults>>
       ELSE Ask(ReadSector(sec, SectorLen(img.fmt, sec)),
                NextSector /\ img' = [img EXCEPT !.data[sec] = drive.disk.data[sec]] /\ UNCHANGED <<bad, step>>,
                ReadFailed)
    /\ UNCHANGED <<opt, drive, probes, misled>>

-----------------------------------------------------------------------------
\* write_image.
DiskFormat == IF opt.force = "none" THEN img.fmt ELSE opt.force
Total == IF Sectors[DiskFormat] < Sectors[img.fmt] THEN Sectors[DiskFormat] ELSE Sectors[img.fmt]

CheckForced ==
    /\ step = "check"
    /\ Goto(IF Length(DiskFormat) # Length(img.fmt) \/ img.fmt = "other" THEN "failed"
            ELSE IF DiskFormat = "130k" THEN "format" ELSE "percom")
    /\ UNCHANGED <<opt, drive, probes, img, sec, tries, bad, misled, faults>>

\* format_disk: the drive is configured if it can be; a drive that cannot is
\* formatted in single or enhanced density by the command alone.
Configure ==
    /\ step = "percom"
    /\ Ask(PercomGet,
           Goto("percom_put"),
           Goto(IF DiskFormat = "90k" THEN "format" ELSE "failed"))
    /\ UNCHANGED <<opt, drive, probes, img, sec, tries, bad, misled>>

PutConfiguration ==
    /\ step = "percom_put"
    /\ LET set == [drive EXCEPT !.conf = DiskFormat]
       IN  Ask(PercomPut,
               Goto("format") /\ drive' = set,
               Goto(IF DiskFormat = "90k" THEN "format" ELSE "failed") /\ drive' \in {drive, set})
    /\ UNCHANGED <<opt, probes, img, sec, tries, bad, misled>>

NewFormat == IF DiskFormat = "130k" THEN "130k" ELSE IF drive.percom THEN drive.conf ELSE "90k"

Format ==
    /\ step = "format"
    /\ Ask(DiskFormat = "130k" \/ ~drive.percom \/ FormatDisk(Length(DiskFormat)),
           Goto("write") /\ drive' = Formatted(NewFormat),
           Goto("failed") /\ drive' \in {drive, Formatted(NewFormat)})
    /\ UNCHANGED <<opt, probes, img, sec, tries, bad, misled>>

WriteFailed ==
    IF tries > 1 THEN Again
    ELSE IF ~opt.goon THEN Goto("failed") /\ UNCHANGED <<sec, tries, img, bad>>
    ELSE NextSector /\ bad' = bad \cup {sec} /\ UNCHANGED <<step, img>>

\* Sectors of zeros are not written: the disk has just been formatted.
WriteImage ==
    /\ step = "write"
    /\ LET written == [drive EXCEPT !.disk.data[sec] = img.data[sec]]
       IN  IF sec > Total THEN Goto("done") /\ UNCHANGED <<sec, tries, bad, img, drive, faults>>
           ELSE IF img.data[sec] = Zero THEN NextSector /\ UNCHANGED <<step, img, bad, drive, faults>>
           ELSE Ask(WriteSector(sec, SectorLen(img.fmt, sec)),
                    NextSector /\ drive' = written /\ UNCHANGED <<step, img, bad>>,
                    WriteFailed /\ drive' \in IF sec \in DOMAIN drive.disk.data THEN {drive, written} ELSE {drive})
    /\ UNCHANGED <<opt, probes, misled>>

XferNext ==
    \/ Check \/ DetectHighspeedMode
    \/ GetDensity \/ AskStatus \/ Probe721 \/ ReadImage
    \/ CheckForced \/ Configure \/ PutConfiguration \/ Format \/ WriteImage

XferSpec == XferInit /\ [][XferNext]_xfervars

-----------------------------------------------------------------------------
\* What atarixfer calls a success is one: but for the sectors whose errors it
\* printed, those of the image are on the disk.  A write that lost the drive's answer
\* is done again, a disk is formatted in the density of the image, no sector left out
\* for its zeros holds an earlier content (a drive that kept a user defined format may
\* lack it), and of a disk that is read the image has all, if the drive answered the
\* questions for its format and named the right one, or one that the reading of sector
\* 721 puts right; not with -F.
CopyIsTrue ==
    step = "done" =>
        /\ \A s \in (1 .. IF opt.mode = "read" THEN Sectors[img.fmt] ELSE Total) \ bad :
              \/ s \in DOMAIN drive.disk.data /\ drive.disk.data[s] = img.data[s]
              \/ opt.mode = "write" /\ drive.disk.fmt = "other" /\ s \notin DOMAIN drive.disk.data /\ img.data[s] = Zero
        /\ ~misled /\ opt.mode = "read" /\ opt.force = "none" => img.fmt = drive.disk.fmt

\* Of a disk that is read without an error the image has all: not so, see README.
WholeDisk ==
    step = "done" /\ opt.mode = "read" /\ opt.force = "none" /\ bad = {} => img.fmt = drive.disk.fmt
=============================================================================
