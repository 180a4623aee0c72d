------------------------------- MODULE AtrImage -------------------------------
(***************************************************************************)
(* Disk images in memory: the geometry of an image (AtrImage.cpp,          *)
(* AtrImage.h), the image itself (AtrMemoryImage.cpp) and how its geometry *)
(* is kept in the three file formats that are not compressed.  Everything  *)
(* here is a function of its arguments; the numbers are the real ones.     *)
(***************************************************************************)
EXTENDS Integers, Sequences

NoDisk == [format |-> "none", seclen |-> 128, sectors |-> 0, spt |-> 0, tracks |-> 0, sides |-> 0]

SectorLengths == {128, 256, 512, 1024, 2048, 4096, 8192}

\* DetermineDiskFormatFromLayout
FormatOf(seclen, spt, tracks, sides) ==
    CASE seclen = 128 /\ spt = 18 /\ tracks = 40 /\ sides = 1 -> "90k"
      [] seclen = 128 /\ spt = 26 /\ tracks = 40 /\ sides = 1 -> "130k"
      [] seclen # 128 /\ spt = 18 /\ tracks = 40 /\ sides = 1 -> "180k"
      [] seclen # 128 /\ spt = 18 /\ tracks = 40 /\ sides = 2 -> "360k"
      [] OTHER -> "user"

Config(seclen, n, spt, tracks, sides) ==
    [format |-> FormatOf(seclen, spt, tracks, sides), seclen |-> seclen,
     sectors |-> n, spt |-> spt, tracks |-> tracks, sides |-> sides]

\* The three SetFormat; NoDisk stands for a refusal (Init).
SetFormatName(f) ==
    CASE f = "90k"  -> Config(128, 720, 18, 40, 1)
      [] f = "130k" -> Config(128, 1040, 26, 40, 1)
      [] f = "180k" -> Config(256, 720, 18, 40, 1)
      [] f = "360k" -> Config(256, 1440, 18, 40, 2)
      [] OTHER      -> NoDisk

SetFormatLayout(seclen, spt, tracks, sides) ==
    LET n == spt * tracks * sides
    IN  IF n = 0 \/ n >= 65536 THEN NoDisk ELSE Config(seclen, n, spt, tracks, sides)

\* A layout is guessed from the number of sectors.
GuessedLayout(seclen, n) ==
    CASE seclen \in {128, 256} /\ n = 720  -> <<18, 40, 1>>
      [] seclen \in {128, 256} /\ n = 1040 -> <<26, 40, 1>>
      [] seclen \in {128, 256} /\ n = 1440 -> <<18, 40, 2>>
      [] seclen \in {128, 256} /\ n = 2880 -> <<18, 80, 2>>
      [] seclen \in {128, 256} /\ n = 5760 -> <<36, 80, 2>>
      [] seclen = 512 /\ n = 720  -> <<9, 80, 1>>
      [] seclen = 512 /\ n = 1440 -> <<9, 80, 2>>
      [] seclen = 512 /\ n = 2880 -> <<18, 80, 2>>
      [] OTHER -> <<n, 1, 1>>

SetFormatSectors(seclen, n) ==
    IF n = 0 \/ n >= 65536 THEN NoDisk
    ELSE LET l == GuessedLayout(seclen, n) IN Config(seclen, n, l[1], l[2], l[3])

\* CalculateImageSize: the first three sectors of double density are short.
ImageSize(c) == IF c.seclen = 256 THEN c.sectors * 256 - 384 ELSE c.sectors * c.seclen

SectorLength(c, s) ==
    IF s = 0 \/ s > c.sectors THEN 0
    ELSE IF c.seclen = 256 /\ s <= 3 THEN 128 ELSE c.seclen

CalculateOffset_LongBoot(c, s) ==
    IF s = 0 \/ s > c.sectors THEN -1
    ELSE IF c.seclen = 256 THEN (IF s < 3 THEN (s - 1) * 128 ELSE 384 + (s - 4) * 256)
    ELSE c.seclen * (s - 1)

CalculateOffset(c, s) ==
    IF s = 0 \/ s > c.sectors THEN -1
    ELSE IF c.seclen = 256 THEN (IF s <= 3 THEN (s - 1) * 128 ELSE 384 + (s - 4) * 256)
    ELSE c.seclen * (s - 1)
-----------------------------------------------------------------------------
(* The geometry in a file.                                                 *)

\* CreateATRHeaderFromFormat: paragraphs of 16 bytes, length, protection
AtrHeader(c, protected) ==
    [paragraphs |-> ImageSize(c) \div 16, seclen |-> c.seclen, protected |-> protected]

\* The sectors a header stands for, 0 if it is refused; 256 * 720 is the size
\* of images with three full sectors at the beginning.
HeaderSectors(h) ==
    LET size == h.paragraphs * 16
    IN  IF h.seclen = 256
        THEN IF size <= 384 THEN 0
             ELSE IF size = 256 * 720 THEN 720
             ELSE IF (size + 384) % 256 # 0 THEN 0 ELSE (size + 384) \div 256
        ELSE IF size % h.seclen # 0 THEN 0 ELSE size \div h.seclen

SetFormatFromATRHeader(h) == SetFormatSectors(h.seclen, HeaderSectors(h))

\* ReadImageFromXfdFile: an XFD file is the data alone.
XfdConfig(size) ==
    IF size % 128 # 0 \/ size < 384 THEN NoDisk
    ELSE IF (size \div 128) % 2 = 1 THEN SetFormatSectors(256, (size - 384) \div 256 + 3)
    ELSE SetFormatSectors(128, size \div 128)

\* WriteImageToDiFile and ReadImageFromDiFile keep the layout, in one byte each
\* for the tracks and for the sides but one.
DiHeader(c) ==
    [tracks |-> c.tracks % 256, spt |-> c.spt, sides |-> (c.sides - 1) % 256, seclen |-> c.seclen]

DiConfig(h) ==
    IF h.seclen \in {128, 256} THEN SetFormatLayout(h.seclen, h.spt, h.tracks, h.sides + 1) ELSE NoDisk

\* CalculateDiSectorChecksum, for bytes below Base
DiChecksum(buf, Base) ==
    LET sum[i \in 0 .. Len(buf)] ==
          IF i = 0 THEN 0
          ELSE LET s == sum[i - 1] + buf[i] IN IF s >= Base THEN s - (Base - 1) ELSE s
    IN  sum[Len(buf)]
-----------------------------------------------------------------------------
(* What makes a geometry usable.                                           *)

SectorEnd(c, s) == CalculateOffset(c, s) + SectorLength(c, s)

\* The sectors lie one behind the other and fill the image; nothing is behind the
\* last.  (Of double density there is an image of three sectors at least.)
Contiguous(c) ==
    /\ CalculateOffset(c, 1) = 0
    /\ \A s \in 1 .. c.sectors - 1 : SectorEnd(c, s) = CalculateOffset(c, s + 1)
    /\ CalculateOffset(c, c.sectors + 1) = -1
    /\ c.seclen # 256 \/ c.sectors >= 3 => SectorEnd(c, c.sectors) = ImageSize(c)

\* The geometry comes back from an ATR file, from a raw file whose size tells the
\* density, and, but for the layout, from a DI file.
KeptByAtr(c) ==
    c.seclen # 256 \/ c.sectors > 3 => \A p \in BOOLEAN : SetFormatFromATRHeader(AtrHeader(c, p)) = c

SameSectors(c, d) == d.seclen = c.seclen /\ d.sectors = c.sectors

KeptByXfd(c) ==
    \/ c.seclen = 128 /\ c.sectors % 2 = 0 /\ c.sectors > 3
    \/ c.seclen = 256 /\ c.sectors > 3
    => SameSectors(c, XfdConfig(ImageSize(c)))

KeptByDi(c) == c.seclen \in {128, 256} => SameSectors(c, DiConfig(DiHeader(c)))

Sound(c) == Contiguous(c) /\ KeptByAtr(c) /\ KeptByXfd(c) /\ KeptByDi(c)
-----------------------------------------------------------------------------
(* An image: its geometry, its sectors (those in Probes stand for all), the *)
(* write protection and whether it differs from its file.                  *)

Blank(Probes) == [s \in Probes |-> 0]

NewImage(c, Probes) == [cfg |-> c, data |-> Blank(Probes), protected |-> FALSE, changed |-> FALSE]

\* CreateImage: the old image is gone even if the new format is refused.
CreateImage(img, c) ==
    [cfg |-> c, data |-> [s \in DOMAIN img.data |-> 0], protected |-> FALSE, changed |-> TRUE]

CanRead(img, s) == CalculateOffset(img.cfg, s) >= 0

CanWrite(img, s, len) ==
    ~img.protected /\ CalculateOffset(img.cfg, s) >= 0 /\ len = SectorLength(img.cfg, s)

WriteSector(img, s, v) == [img EXCEPT !.data[s] = v, !.changed = TRUE]
=============================================================================
