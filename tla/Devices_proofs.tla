--------------------------- MODULE Devices_proofs ---------------------------
(***************************************************************************)
(* Proofs about the devices of the server: the drive with an image, the    *)
(* tape deck, the drive that imitates a 1050, and the printer.             *)
(***************************************************************************)
EXTENDS DiskDrive, TapeDeck, AtpDrive, Printer, ImageFiles,
        Induction, SequenceTheorems, FiniteSetTheorems, TLAPS

-----------------------------------------------------------------------------
(***************************************************************************)
(* Disk images: their geometry, for every sector length and every number of *)
(* sectors.                                                                *)
(***************************************************************************)

-----------------------------------------------------------------------------
(* Guessing a layout.                                                      *)

\* The geometries an image of n sectors can have.
LEMMA GuessedConfig ==
    ASSUME NEW seclen \in SectorLengths, NEW n \in Nat, 0 < n, n < 65536
    PROVE  LET l == GuessedLayout(seclen, n)
               c == SetFormatSectors(seclen, n)
           IN  /\ c = Config(seclen, n, l[1], l[2], l[3])
               /\ c.seclen = seclen /\ c.sectors = n
               /\ c.spt = l[1] /\ c.tracks = l[2] /\ c.sides = l[3]
  <1>1. SetFormatSectors(seclen, n) =
          LET l == GuessedLayout(seclen, n) IN Config(seclen, n, l[1], l[2], l[3])
    BY DEF SetFormatSectors
  <1> QED
    BY <1>1 DEF Config

\* The layout that is guessed multiplies to the number of sectors, in bytes for
\* tracks and sides.
LEMMA GuessMultiplies ==
    ASSUME NEW seclen \in SectorLengths, NEW n \in Nat, 0 < n
    PROVE  LET l == GuessedLayout(seclen, n) IN
             /\ l[1] \in Nat /\ l[2] \in Nat /\ l[3] \in Nat
             /\ 0 < l[2] /\ l[2] < 256 /\ 0 < l[3] /\ l[3] < 256
             /\ l[1] * l[2] * l[3] = n
  <1> DEFINE l == GuessedLayout(seclen, n)
  <1>1. \/ l = <<18, 40, 1>> /\ n = 720
        \/ l = <<26, 40, 1>> /\ n = 1040
        \/ l = <<18, 40, 2>> /\ n = 1440
        \/ l = <<18, 80, 2>> /\ n = 2880
        \/ l = <<36, 80, 2>> /\ n = 5760
        \/ l = <<9, 80, 1>> /\ n = 720
        \/ l = <<9, 80, 2>> /\ n = 1440
        \/ l = <<n, 1, 1>>
    BY DEF GuessedLayout
  <1> HIDE DEF l
  <1>2. CASE l = <<n, 1, 1>>
    BY <1>2 DEF l
  <1>3. CASE l # <<n, 1, 1>>
    BY <1>1, <1>3 DEF l
  <1> QED
    BY <1>2, <1>3

LEMMA Lengths ==
    ASSUME NEW seclen \in SectorLengths
    PROVE  seclen \in Nat /\ seclen >= 128 /\ seclen % 16 = 0
  BY DEF SectorLengths

-----------------------------------------------------------------------------
(* The sectors in the image.                                               *)

LEMMA ContiguousAll ==
    ASSUME NEW c, c.seclen \in SectorLengths, c.sectors \in Nat, c.sectors > 0
    PROVE  Contiguous(c)
  <1>0. c.seclen \in Nat
    BY Lengths
  <1>1. CASE c.seclen = 256
    BY <1>1 DEF Contiguous, SectorEnd, CalculateOffset, SectorLength, ImageSize
  <1>2. CASE c.seclen # 256
    <2> DEFINE len == c.seclen
               n == c.sectors
    <2>1. \A s \in 1 .. n : CalculateOffset(c, s) = len * (s - 1) /\ SectorLength(c, s) = len
      BY <1>2 DEF CalculateOffset, SectorLength
    <2>2. \A s \in 1 .. n : SectorEnd(c, s) = len * s
      BY <1>0, <2>1 DEF SectorEnd
    <2>3. CalculateOffset(c, n + 1) = -1
      BY DEF CalculateOffset
    <2>4. ImageSize(c) = n * len
      BY <1>2 DEF ImageSize
    <2>5. \A s \in 1 .. n - 1 : SectorEnd(c, s) = CalculateOffset(c, s + 1)
      BY <1>0, <2>1, <2>2
    <2>6. CalculateOffset(c, 1) = 0
      BY <1>0, <2>1
    <2>7. SectorEnd(c, n) = ImageSize(c)
      BY <1>0, <2>2, <2>4
    <2> QED
      BY <2>3, <2>5, <2>6, <2>7 DEF Contiguous
  <1> QED
    BY <1>1, <1>2
-----------------------------------------------------------------------------
(* The geometry in a file.                                                 *)

\* The header counts paragraphs of 16 bytes, and sizes are multiples of them.
LEMMA Paragraphs ==
    ASSUME NEW seclen \in SectorLengths, NEW n \in Nat
    PROVE  /\ ((n * seclen) \div 16) * 16 = n * seclen
           /\ n > 3 => ((n * 256 - 384) \div 16) * 16 = n * 256 - 384
  <1>1. CASE seclen = 128
    BY <1>1
  <1>2. CASE seclen = 256
    BY <1>2
  <1>3. CASE seclen = 512
    BY <1>3
  <1>4. CASE seclen = 1024
    BY <1>4
  <1>5. CASE seclen = 2048
    BY <1>5
  <1>6. CASE seclen = 4096
    BY <1>6
  <1>7. CASE seclen = 8192
    BY <1>7
  <1> QED
    BY <1>1, <1>2, <1>3, <1>4, <1>5, <1>6, <1>7 DEF SectorLengths

\* What a header of that many paragraphs stands for.
LEMMA HeaderStandsFor ==
    ASSUME NEW h, NEW n \in Nat, n > 0, h.seclen \in SectorLengths,
           IF h.seclen = 256 THEN n > 3 /\ h.paragraphs * 16 = n * 256 - 384
           ELSE h.paragraphs * 16 = n * h.seclen
    PROVE  HeaderSectors(h) = n
  <1> DEFINE size == h.paragraphs * 16
  <1>1. HeaderSectors(h) =
          IF h.seclen = 256
          THEN IF size <= 384 THEN 0
               ELSE IF size = 256 * 720 THEN 720
               ELSE IF (size + 384) % 256 # 0 THEN 0 ELSE (size + 384) \div 256
          ELSE IF size % h.seclen # 0 THEN 0 ELSE size \div h.seclen
    BY DEF HeaderSectors
  <1>2. CASE h.seclen = 256
    <2>1. size = n * 256 - 384 /\ n > 3
      BY <1>2
    <2> HIDE DEF size
    <2>2. /\ ~(size <= 384) /\ size # 256 * 720
          /\ (size + 384) % 256 = 0 /\ (size + 384) \div 256 = n
      BY <2>1
    <2> QED
      BY <1>1, <1>2, <2>2
  <1>3. CASE h.seclen # 256
    <2>1. size = n * h.seclen
      BY <1>3
    <2> HIDE DEF size
    <2>2. size % h.seclen = 0 /\ size \div h.seclen = n
      <3>1. \A len \in SectorLengths : (n * len) % len = 0 /\ (n * len) \div len = n
        BY DEF SectorLengths
      <3> QED
        BY <2>1, <3>1
    <2> QED
      BY <1>1, <1>3, <2>2
  <1> QED
    BY <1>2, <1>3

LEMMA HeaderKeeps ==
    ASSUME NEW p, NEW c, c.seclen \in SectorLengths, c.sectors \in Nat, c.sectors > 0,
           c.seclen # 256 \/ c.sectors > 3
    PROVE  SetFormatFromATRHeader(AtrHeader(c, p)) = SetFormatSectors(c.seclen, c.sectors)
  <1> DEFINE h == AtrHeader(c, p)
  <1>1. h.seclen = c.seclen /\ h.paragraphs = ImageSize(c) \div 16
    BY DEF AtrHeader
  <1> HIDE DEF h
  <1>2. ImageSize(c) = IF c.seclen = 256 THEN c.sectors * 256 - 384 ELSE c.sectors * c.seclen
    BY DEF ImageSize
  <1>3. IF h.seclen = 256 THEN c.sectors > 3 /\ h.paragraphs * 16 = c.sectors * 256 - 384
        ELSE h.paragraphs * 16 = c.sectors * h.seclen
    <2>1. CASE h.seclen = 256
      <3>1. c.sectors > 3 /\ h.paragraphs = (c.sectors * 256 - 384) \div 16
        BY <1>1, <1>2, <2>1
      <3>2. ((c.sectors * 256 - 384) \div 16) * 16 = c.sectors * 256 - 384
        BY <3>1, Paragraphs
      <3> QED
        BY <2>1, <3>1, <3>2
    <2>2. CASE h.seclen # 256
      <3>1. h.paragraphs = (c.sectors * c.seclen) \div 16
        BY <1>1, <1>2, <2>2
      <3>2. ((c.sectors * c.seclen) \div 16) * 16 = c.sectors * c.seclen
        BY Paragraphs
      <3> QED
        BY <1>1, <2>2, <3>1, <3>2
    <2> QED
      BY <2>1, <2>2
  <1>4. HeaderSectors(h) = c.sectors
    BY <1>1, <1>3, HeaderStandsFor
  <1>5. SetFormatFromATRHeader(h) = SetFormatSectors(c.seclen, c.sectors)
    BY <1>1, <1>4 DEF SetFormatFromATRHeader
  <1> QED
    BY <1>5 DEF h

\* A raw file tells double from single density by its size.
LEMMA RawKeeps ==
    ASSUME NEW c, c.seclen \in {128, 256}, c.sectors \in Nat, c.sectors > 3, c.sectors < 65536,
           c.seclen = 128 => c.sectors % 2 = 0
    PROVE  XfdConfig(ImageSize(c)) = SetFormatSectors(c.seclen, c.sectors)
  <1> DEFINE n == c.sectors
  <1>1. CASE c.seclen = 128
    <2>1. ImageSize(c) = n * 128
      BY <1>1 DEF ImageSize
    <2>2. (n * 128) % 128 = 0 /\ (n * 128) \div 128 = n /\ ~(n * 128 < 384) /\ n % 2 # 1
      BY <1>1
    <2> QED
      BY <1>1, <2>1, <2>2 DEF XfdConfig
  <1>2. CASE c.seclen = 256
    <2>1. ImageSize(c) = n * 256 - 384
      BY <1>2 DEF ImageSize
    <2>2. /\ (n * 256 - 384) % 128 = 0 /\ (n * 256 - 384) \div 128 = 2 * n - 3
          /\ ~(n * 256 - 384 < 384) /\ (2 * n - 3) % 2 = 1
          /\ (n * 256 - 384 - 384) \div 256 = n - 3
      OBVIOUS
    <2> QED
      BY <1>2, <2>1, <2>2 DEF XfdConfig
  <1> QED
    BY <1>1, <1>2

LEMMA ByteKeeps ==
    ASSUME NEW x \in Nat, x < 256
    PROVE  x % 256 = x
  OBVIOUS

\* The header of a DI file keeps tracks and sides in a byte each.
LEMMA DiKeeps ==
    ASSUME NEW seclen \in {128, 256}, NEW n \in Nat, 0 < n, n < 65536
    PROVE  LET c == SetFormatSectors(seclen, n)
           IN  DiConfig(DiHeader(c)) = c /\ SameSectors(c, DiConfig(DiHeader(c)))
  <1> DEFINE c == SetFormatSectors(seclen, n)
             h == DiHeader(c)
  <1>1. seclen \in SectorLengths
    BY DEF SectorLengths
  <1>2. c.seclen = seclen /\ c.sectors = n
    BY <1>1, GuessedConfig
  <1>3. /\ c.spt \in Nat /\ c.tracks \in Nat /\ c.sides \in Nat
        /\ 0 < c.tracks /\ c.tracks < 256 /\ 0 < c.sides /\ c.sides < 256
        /\ c.spt * c.tracks * c.sides = n
    BY <1>1, GuessedConfig, GuessMultiplies
  <1> HIDE DEF c
  <1>4. h.tracks = c.tracks /\ h.spt = c.spt /\ h.sides + 1 = c.sides /\ h.seclen = seclen
    <2>1. h = [tracks |-> c.tracks % 256, spt |-> c.spt, sides |-> (c.sides - 1) % 256, seclen |-> c.seclen]
      BY DEF DiHeader
    <2>2. c.tracks % 256 = c.tracks
      <3>1. c.tracks \in Nat /\ c.tracks < 256
        BY <1>3
      <3> QED
        BY <3>1, ByteKeeps
    <2>3. c.sides - 1 \in Nat /\ c.sides - 1 < 256
      BY <1>3
    <2>4. (c.sides - 1) % 256 = c.sides - 1
      BY <2>3, ByteKeeps
    <2> HIDE DEF h
    <2> QED
      BY <1>2, <1>3, <2>1, <2>2, <2>4
  <1> HIDE DEF h
  <1>5. DiConfig(h) = Config(seclen, n, c.spt, c.tracks, c.sides)
    <2>1. DiConfig(h) = SetFormatLayout(seclen, c.spt, c.tracks, c.sides)
      BY <1>4 DEF DiConfig
    <2>2. ~(n = 0 \/ n >= 65536)
      OBVIOUS
    <2> QED
      BY <1>3, <2>1, <2>2 DEF SetFormatLayout
  <1>6. c = Config(seclen, n, c.spt, c.tracks, c.sides)
    BY <1>1, GuessedConfig DEF c
  <1> QED
    BY <1>2, <1>5, <1>6 DEF SameSectors, c, h

\* Every geometry that an image can have by its number of sectors is sound: its
\* sectors lie one behind the other and fill the image, and the files keep it.
THEOREM GeometriesAreSound ==
    \A seclen \in SectorLengths, n \in Nat :
        0 < n /\ n < 65536 => Sound(SetFormatSectors(seclen, n))
  <1> SUFFICES ASSUME NEW seclen \in SectorLengths, NEW n \in Nat, 0 < n, n < 65536
               PROVE  Sound(SetFormatSectors(seclen, n))
    OBVIOUS
  <1> DEFINE c == SetFormatSectors(seclen, n)
  <1>1. c.seclen = seclen /\ c.sectors = n
    BY GuessedConfig
  <1> HIDE DEF c
  <1>2. Contiguous(c)
    BY <1>1, ContiguousAll
  <1>3. KeptByAtr(c)
    <2> SUFFICES ASSUME c.seclen # 256 \/ c.sectors > 3, NEW p \in BOOLEAN
                 PROVE  SetFormatFromATRHeader(AtrHeader(c, p)) = c
      BY DEF KeptByAtr
    <2>1. SetFormatFromATRHeader(AtrHeader(c, p)) = SetFormatSectors(seclen, n)
      BY <1>1, HeaderKeeps
    <2> QED
      BY <2>1 DEF c
  <1>4. KeptByXfd(c)
    <2>1. CASE \/ c.seclen = 128 /\ c.sectors % 2 = 0 /\ c.sectors > 3
               \/ c.seclen = 256 /\ c.sectors > 3
      <3>1. XfdConfig(ImageSize(c)) = c
        BY <1>1, <2>1, RawKeeps DEF c
      <3> QED
        BY <3>1 DEF KeptByXfd, SameSectors
    <2>2. CASE ~(\/ c.seclen = 128 /\ c.sectors % 2 = 0 /\ c.sectors > 3
                 \/ c.seclen = 256 /\ c.sectors > 3)
      BY <2>2 DEF KeptByXfd
    <2> QED
      BY <2>1, <2>2
  <1>5. KeptByDi(c)
    BY <1>1, DiKeeps DEF KeptByDi, c
  <1> QED
    BY <1>2, <1>3, <1>4, <1>5 DEF Sound, c

-----------------------------------------------------------------------------
(* Images that go through files.                                           *)

\* Files make no other geometries than a number of sectors does.
BySectors(c) ==
    \E seclen \in SectorLengths, n \in Nat : 0 < n /\ n < 65536 /\ c = SetFormatSectors(seclen, n)

FilesInv == geometry = NoDisk \/ BySectors(geometry)

LEMMA FormatOrNone ==
    ASSUME NEW seclen \in SectorLengths, NEW n \in Nat
    PROVE  SetFormatSectors(seclen, n) = NoDisk \/ BySectors(SetFormatSectors(seclen, n))
  <1>1. CASE 0 < n /\ n < 65536
    BY <1>1 DEF BySectors
  <1>2. CASE ~(0 < n /\ n < 65536)
    BY <1>2 DEF SetFormatSectors
  <1> QED
    BY <1>1, <1>2

LEMMA AtrOrNone ==
    ASSUME NEW c, BySectors(c), NEW p \in BOOLEAN
    PROVE  SetFormatFromATRHeader(AtrHeader(c, p)) = NoDisk \/ BySectors(SetFormatFromATRHeader(AtrHeader(c, p)))
  <1>1. PICK seclen \in SectorLengths, n \in Nat :
           0 < n /\ n < 65536 /\ c = SetFormatSectors(seclen, n)
    BY DEF BySectors
  <1>2. c.seclen = seclen /\ c.sectors = n
    BY <1>1, GuessedConfig
  <1>3. CASE seclen # 256 \/ n > 3
    <2>1. SetFormatFromATRHeader(AtrHeader(c, p)) = SetFormatSectors(c.seclen, c.sectors)
      BY <1>1, <1>2, <1>3, HeaderKeeps
    <2> QED
      BY <1>1, <1>2, <2>1
  <1>4. CASE seclen = 256 /\ n <= 3
    <2> DEFINE h == AtrHeader(c, p)
    <2>1. h.seclen = 256 /\ h.paragraphs = (n * 256 - 384) \div 16
      BY <1>2, <1>4 DEF AtrHeader, ImageSize
    <2> HIDE DEF h
    <2>2. h.paragraphs * 16 <= 384
      BY <1>4, <2>1
    <2>3. HeaderSectors(h) = 0
      BY <2>1, <2>2 DEF HeaderSectors
    <2>4. SetFormatFromATRHeader(h) = NoDisk
      BY <2>3 DEF SetFormatFromATRHeader, SetFormatSectors
    <2> QED
      BY <2>4 DEF h
  <1> QED
    BY <1>3, <1>4

LEMMA XfdOrNone ==
    ASSUME NEW size \in Int
    PROVE  XfdConfig(size) = NoDisk \/ BySectors(XfdConfig(size))
  <1>1. 128 \in SectorLengths /\ 256 \in SectorLengths
    BY DEF SectorLengths
  <1>2. CASE size >= 384
    <2>1. size \div 128 \in Nat /\ (size - 384) \div 256 + 3 \in Nat
      BY <1>2
    <2>2. \/ XfdConfig(size) = NoDisk
          \/ XfdConfig(size) = SetFormatSectors(256, (size - 384) \div 256 + 3)
          \/ XfdConfig(size) = SetFormatSectors(128, size \div 128)
      BY DEF XfdConfig
    <2> QED
      BY <1>1, <2>1, <2>2, FormatOrNone
  <1>3. CASE size < 384
    BY <1>3 DEF XfdConfig
  <1> QED
    BY <1>2, <1>3

LEMMA SizeIsInt ==
    ASSUME NEW c, BySectors(c)
    PROVE  ImageSize(c) \in Int
  <1>1. PICK seclen \in SectorLengths, n \in Nat :
           0 < n /\ n < 65536 /\ c = SetFormatSectors(seclen, n)
    BY DEF BySectors
  <1>2. c.seclen = seclen /\ c.sectors = n
    BY <1>1, GuessedConfig
  <1> QED
    BY <1>2, Lengths DEF ImageSize

LEMMA DiIsSame ==
    ASSUME NEW c, BySectors(c), c.seclen <= 256
    PROVE  DiConfig(DiHeader(c)) = c
  <1>1. PICK seclen \in SectorLengths, n \in Nat :
           0 < n /\ n < 65536 /\ c = SetFormatSectors(seclen, n)
    BY DEF BySectors
  <1>2. c.seclen = seclen
    BY <1>1, GuessedConfig
  <1>3. seclen \in {128, 256}
    BY <1>2 DEF SectorLengths
  <1> QED
    BY <1>1, <1>3, DiKeeps

LEMMA FilesInvKept == FilesSpec => []FilesInv
  <1>1. FilesInit => FilesInv
    BY DEF FilesInit, FilesInv
  <1>2. FilesInv /\ [FilesNext]_geometry => FilesInv'
    <2> SUFFICES ASSUME FilesInv, [FilesNext]_geometry
                 PROVE  FilesInv'
      OBVIOUS
    <2>1. CASE Create
      <3>1. PICK seclen \in ImageLengths, n \in SectorCounts : geometry' = SetFormatSectors(seclen, n)
        BY <2>1 DEF Create
      <3> QED
        BY <3>1, FilesAssumption, FormatOrNone DEF FilesInv, BySectors
    <2>2. CASE ThroughAtr
      BY <2>2, AtrOrNone DEF ThroughAtr, FilesInv, BySectors
    <2>3. CASE ThroughXfd
      BY <2>3, XfdOrNone, SizeIsInt DEF ThroughXfd, FilesInv, BySectors
    <2>4. CASE ThroughDi
      BY <2>4, DiIsSame DEF ThroughDi, FilesInv, BySectors
    <2>5. CASE UNCHANGED geometry
      BY <2>5 DEF FilesInv, BySectors
    <2> QED
      BY <2>1, <2>2, <2>3, <2>4, <2>5 DEF FilesNext
  <1> QED
    BY <1>1, <1>2, PTL DEF FilesSpec

\* An image keeps a sound geometry, whatever files it goes through and in whatever
\* order.
THEOREM FilesKeepGeometry == FilesSpec => []GeometrySound
  <1>1. FilesInv => GeometrySound
    <2> SUFFICES ASSUME FilesInv, geometry # NoDisk
                 PROVE  Sound(geometry)
      BY DEF GeometrySound
    <2>1. PICK seclen \in SectorLengths, n \in Nat :
           0 < n /\ n < 65536 /\ geometry = SetFormatSectors(seclen, n)
      BY DEF FilesInv, BySectors
    <2> QED
      BY <2>1, GeometriesAreSound
  <1> QED
    BY <1>1, FilesInvKept, PTL

-----------------------------------------------------------------------------
(***************************************************************************)
(* Drives, for any PERCOM blocks, any sectors and contents, and any sequence *)
(* of commands and failing calls.                                          *)
(***************************************************************************)

-----------------------------------------------------------------------------
(* Type correctness: every geometry in use is one of a disk.               *)

Images == [cfg : DiskGeometries, data : [Probes -> Values \cup {0}],
           protected : BOOLEAN, changed : BOOLEAN]

\* The geometry of a disk has sectors, and its layout multiplies to their number.
LEMMA DiskFields ==
    ASSUME NEW c \in DiskGeometries
    PROVE  /\ c.seclen \in SectorLengths /\ c.sectors \in Nat /\ 0 < c.sectors /\ c.sectors < 65536
           /\ c.spt \in Nat /\ c.tracks \in Nat /\ c.sides \in Nat
           /\ c.spt * c.tracks * c.sides = c.sectors
  BY DEF DiskGeometries

\* The refused format is not one of a disk.
LEMMA NoDiskIsNone == NoDisk \notin DiskGeometries
  <1>1. ~(0 < NoDisk.sectors)
    BY DEF NoDisk
  <1> QED
    BY <1>1, DiskFields

\* A layout that multiplies to a sector number is a disk.
LEMMA LayoutIsDisk ==
    ASSUME NEW seclen \in SectorLengths, NEW spt \in Nat, NEW cyls \in Nat, NEW sides \in Nat,
           NEW n \in Nat, 0 < n, n < 65536, spt * cyls * sides = n
    PROVE  Config(seclen, n, spt, cyls, sides) \in DiskGeometries
  <1> DEFINE f == FormatOf(seclen, spt, cyls, sides)
             c == Config(seclen, n, spt, cyls, sides)
  <1>0. 0 < n /\ n < 65536
    OBVIOUS
  <1>1. f \in {"90k", "130k", "180k", "360k", "user"}
    BY DEF FormatOf
  <1>2. c = [format |-> f, seclen |-> seclen, sectors |-> n, spt |-> spt, tracks |-> cyls, sides |-> sides]
    BY DEF Config
  <1> HIDE DEF f
  <1>3. c \in [format : {"90k", "130k", "180k", "360k", "user"}, seclen : SectorLengths,
               sectors : Nat, spt : Nat, tracks : Nat, sides : Nat]
    BY <1>1, <1>2
  <1>4. 0 < c.sectors /\ c.sectors < 65536 /\ c.spt * c.tracks * c.sides = c.sectors
    <2>1. c.spt = spt /\ c.tracks = cyls /\ c.sides = sides /\ c.sectors = n
      BY <1>2
    <2> QED
      BY <2>1
  <1> HIDE DEF c
  <1>5. c \in DiskGeometries
    BY <1>3, <1>4 DEF DiskGeometries
  <1> QED
    BY <1>5 DEF c

\* The formats with a name are disks.
LEMMA NamedFormats ==
    ASSUME NEW f \in {"90k", "130k", "180k", "360k"}
    PROVE  SetFormatName(f) \in DiskGeometries
  <1>1. 128 \in SectorLengths /\ 256 \in SectorLengths
    BY DEF SectorLengths
  <1>2. Config(128, 720, 18, 40, 1) \in DiskGeometries
    BY <1>1, LayoutIsDisk
  <1>3. Config(128, 1040, 26, 40, 1) \in DiskGeometries
    BY <1>1, LayoutIsDisk
  <1>4. Config(256, 720, 18, 40, 1) \in DiskGeometries
    BY <1>1, LayoutIsDisk
  <1>5. Config(256, 1440, 18, 40, 2) \in DiskGeometries
    BY <1>1, LayoutIsDisk
  <1> QED
    BY <1>2, <1>3, <1>4, <1>5 DEF SetFormatName

\* The format for the next formatting can always be made, so that formatting never
\* loses the image (VerifyPercomFormat, SetFormat).
LEMMA FormatExists ==
    ASSUME fmt \in DiskGeometries
    PROVE  PercomFormat \in DiskGeometries
  <1> DEFINE n == fmt.spt * fmt.tracks * fmt.sides
  <1>1. /\ fmt.seclen \in SectorLengths /\ fmt.spt \in Nat /\ fmt.tracks \in Nat /\ fmt.sides \in Nat
        /\ n \in Nat /\ 0 < n /\ n < 65536
    BY DiskFields
  <1>2. Config(fmt.seclen, n, fmt.spt, fmt.tracks, fmt.sides) \in DiskGeometries
    BY <1>1, LayoutIsDisk
  <1> HIDE DEF n
  <1>3. PercomFormat = IF n = 0 \/ n >= 65536 THEN NoDisk
                       ELSE Config(fmt.seclen, n, fmt.spt, fmt.tracks, fmt.sides)
    BY DEF PercomFormat, SetFormatLayout, n
  <1>4. ~(n = 0 \/ n >= 65536)
    BY <1>1
  <1> QED
    BY <1>2, <1>3, <1>4

\* A PERCOM block that has been verified is a disk.
LEMMA BlockIsDisk ==
    ASSUME NEW b \in Blocks, VerifyPercomFormat(b)
    PROVE  Config(b.seclen, b.tracks * b.spt * b.sides, b.spt, b.tracks, b.sides) \in DiskGeometries
  <1>1. b.tracks \in Nat /\ b.spt \in Nat /\ b.sides \in Nat
    BY DiskAssumption
  <1>2. b.seclen \in SectorLengths /\ b.tracks * b.spt * b.sides > 0 /\ b.tracks * b.spt * b.sides < 65536
    BY <1>1 DEF VerifyPercomFormat
  <1>3. b.spt * b.tracks * b.sides = b.tracks * b.spt * b.sides
    BY <1>1
  <1> QED
    BY <1>1, <1>2, <1>3, LayoutIsDisk

LEMMA WrittenImage ==
    ASSUME NEW img \in Images, NEW s \in Probes, NEW v \in Values
    PROVE  /\ WriteSector(img, s, v) \in Images
           /\ WriteSector(img, s, v).cfg = img.cfg
           /\ WriteSector(img, s, v).data = [img.data EXCEPT ![s] = v]
  BY DEF WriteSector, Images

LEMMA CreatedImage ==
    ASSUME NEW img \in Images, NEW c \in DiskGeometries
    PROVE  /\ CreateImage(img, c) \in Images
           /\ CreateImage(img, c).cfg = c
           /\ CreateImage(img, c).data = [s \in Probes |-> 0]
  BY DEF CreateImage, Images
-----------------------------------------------------------------------------
(* What the commands do, one shape for all of them.                        *)

\* The calls in which an answer can consist.
Shapes(hi) ==
    {<<Nak>>, <<Ack(FALSE), Complete(FALSE)>>, <<Ack(FALSE), Error>>,
     <<Ack(hi), Complete(FALSE), Data(hi)>>, <<Ack(hi), Error, Data(hi)>>,
     <<Ack(hi), Receive, Complete(hi)>>, <<Ack(hi), Receive, Error>>}

\* Nothing changes but the format of the next formatting.
Harmless(e) == e.image = image /\ e.cfg = cfg /\ e.fmt \in DiskGeometries

\* One sector is written, when its data have been received and before COMPLETE.
Writes(e, hi, s, v) ==
    /\ e.calls = <<Ack(hi), Receive, Complete(hi)>> /\ e.need = 2
    /\ e.image = WriteSector(image, s, v) /\ e.cfg = cfg /\ e.fmt = fmt
    /\ ~image.protected

FormatAnswers == {<<Ack(FALSE), Complete(FALSE)>>, <<Ack(FALSE), Complete(FALSE), Data(FALSE)>>}

\* The image becomes a blank one, before COMPLETE.
Formats(e) ==
    /\ e.calls \in FormatAnswers
    /\ e.need = 1
    /\ e.cfg \in DiskGeometries /\ e.fmt \in DiskGeometries
    /\ e.image = CreateImage(image, e.cfg)
    /\ ~image.protected

\* A command that was not meant to touch a sector.
Asks(e) == Harmless(e) /\ \E hi \in BOOLEAN : e.calls \in Shapes(hi)

\* Every command of the Atari is processed as one of these.
Commanded ==
    \E e, touched :
      /\ Process(e, touched)
      /\ \/ Asks(e) /\ touched = Nothing
         \/ \E hi \in BOOLEAN, s \in Probes, v \in Values :
              /\ touched = One(s, v)
              /\ \/ Writes(e, hi, s, v)
                 \/ Harmless(e) /\ e.calls \in {<<Nak>>, <<Ack(hi), Receive, Error>>}
         \/ /\ touched = Blank(Probes)
            /\ \/ Formats(e)
               \/ Harmless(e) /\ e.calls \in {<<Nak>>, <<Ack(FALSE), Error>>,
                                              <<Ack(FALSE), Error, Data(FALSE)>>}

LEMMA EffectFields ==
    ASSUME NEW calls, NEW need
    PROVE  LET e == Effect(calls, need) IN
             /\ e.calls = calls /\ e.need = need
             /\ e.image = image /\ e.cfg = cfg /\ e.fmt = fmt
  BY DEF Effect

LEMMA CommandShapes ==
    ASSUME DiskTypeOK, Ask
    PROVE  Commanded
  <1>0. fmt \in DiskGeometries /\ image \in Images
    BY DEF DiskTypeOK, Images
  <1> DEFINE Asked == \E e : Process(e, Nothing) /\ Asks(e)
  <1>a. Asked => Commanded
    BY DEF Commanded
  <1>b. ASSUME NEW calls, NEW need, NEW hi \in BOOLEAN, calls \in Shapes(hi)
        PROVE  Asks(Effect(calls, need))
    BY <1>0, <1>b DEF Asks, Harmless, Effect
  <1>1. ASSUME NEW hi \in BOOLEAN, NEW e, Process(e, Nothing), e \in {GetStatus(hi), PercomGet(hi)}
        PROVE  Commanded
    <2>1. e \in {Effect(<<Nak>>, 1), Effect(<<Ack(hi), Complete(FALSE), Data(hi)>>, 1)}
      BY <1>1 DEF GetStatus, PercomGet, Refusal
    <2>2. <<Nak>> \in Shapes(hi) /\ <<Ack(hi), Complete(FALSE), Data(hi)>> \in Shapes(hi)
      BY DEF Shapes
    <2>3. Asks(e)
      BY <1>b, <2>1, <2>2
    <2> QED
      BY <1>1, <1>a, <2>3
  <1>2. ASSUME NEW hi \in BOOLEAN, NEW s \in Probes \cup {0}, Process(ReadCommand(hi, s), Nothing)
        PROVE  Commanded
    <2>1. ReadCommand(hi, s) \in {Effect(<<Nak>>, 1), Effect(<<Ack(hi), Complete(FALSE), Data(hi)>>, 1),
                                  Effect(<<Ack(hi), Error, Data(hi)>>, 1)}
      BY DEF ReadCommand, Refusal
    <2>2. /\ <<Nak>> \in Shapes(hi) /\ <<Ack(hi), Complete(FALSE), Data(hi)>> \in Shapes(hi)
          /\ <<Ack(hi), Error, Data(hi)>> \in Shapes(hi)
      BY DEF Shapes
    <2>3. Asks(ReadCommand(hi, s))
      BY <1>b, <2>1, <2>2
    <2> QED
      BY <1>2, <1>a, <2>3
  <1>3. ASSUME NEW hi \in BOOLEAN, NEW s \in Probes, NEW v \in Values,
               Process(WriteCommand(hi, s, v), One(s, v))
        PROVE  Commanded
    <2> DEFINE e == WriteCommand(hi, s, v)
    <2>1. CASE e = Effect(<<Nak>>, 1) \/ e = Effect(<<Ack(hi), Receive, Error>>, 2)
      <3>1. Harmless(e) /\ e.calls \in {<<Nak>>, <<Ack(hi), Receive, Error>>}
        BY <1>0, <2>1 DEF Harmless, Effect
      <3> QED
        BY <1>3, <3>1 DEF Commanded
    <2>2. CASE e = [Effect(<<Ack(hi), Receive, Complete(hi)>>, 2)
                      EXCEPT !.image = WriteSector(image, s, v)] /\ ~image.protected
      <3>1. Writes(e, hi, s, v)
        BY <2>2 DEF Writes, Effect
      <3> QED
        BY <1>3, <3>1 DEF Commanded
    <2>3. \/ e = Effect(<<Nak>>, 1) \/ e = Effect(<<Ack(hi), Receive, Error>>, 2)
          \/ /\ e = [Effect(<<Ack(hi), Receive, Complete(hi)>>, 2)
                       EXCEPT !.image = WriteSector(image, s, v)]
             /\ ~image.protected
      BY DEF WriteCommand, Refusal
    <2> QED
      BY <2>1, <2>2, <2>3
  <1>4. ASSUME NEW hi \in BOOLEAN, NEW b \in Blocks, Process(PercomPut(hi, b), Nothing)
        PROVE  Commanded
    <2> DEFINE e == PercomPut(hi, b)
               c == Config(b.seclen, b.tracks * b.spt * b.sides, b.spt, b.tracks, b.sides)
    <2> HIDE DEF c
    <2>1. \/ e = Effect(<<Nak>>, 1) \/ e = Effect(<<Ack(hi), Receive, Error>>, 2)
          \/ /\ e = [Effect(<<Ack(hi), Receive, Complete(hi)>>, 2) EXCEPT !.fmt = c]
             /\ c \in DiskGeometries
      BY BlockIsDisk DEF PercomPut, Refusal, c
    <2>2. /\ <<Nak>> \in Shapes(hi) /\ <<Ack(hi), Receive, Error>> \in Shapes(hi)
          /\ <<Ack(hi), Receive, Complete(hi)>> \in Shapes(hi)
      BY DEF Shapes
    <2>3. ASSUME e = [Effect(<<Ack(hi), Receive, Complete(hi)>>, 2) EXCEPT !.fmt = c],
                 c \in DiskGeometries
          PROVE  Asks(e)
      <3>1. e.calls = <<Ack(hi), Receive, Complete(hi)>> /\ e.image = image /\ e.cfg = cfg /\ e.fmt = c
        BY <2>3 DEF Effect
      <3> HIDE DEF e
      <3> QED
        BY <2>2, <2>3, <3>1 DEF Asks, Harmless
    <2> HIDE DEF e
    <2>4. Asks(e)
      BY <1>b, <2>1, <2>2, <2>3
    <2> QED
      BY <1>4, <1>a, <2>4 DEF e
  <1>5. ASSUME NEW data \in BOOLEAN, NEW e, Process(e, Blank(Probes)),
               \/ e = Refusal
               \/ e = Protected(data)
               \/ \E c \in DiskGeometries : e = CreateAs(c, data) /\ ~image.protected
        PROVE  Commanded
    <2>1. CASE e = Refusal \/ e = Protected(data)
      <3>1. e.calls \in {<<Nak>>, <<Ack(FALSE), Error>>, <<Ack(FALSE), Error, Data(FALSE)>>}
        <4>1. FormatCalls(Error, data) \in {<<Ack(FALSE), Error>>, <<Ack(FALSE), Error, Data(FALSE)>>}
          BY DEF FormatCalls
        <4>2. e.calls = <<Nak>> \/ e.calls = FormatCalls(Error, data)
          BY <2>1 DEF Refusal, Protected, Effect
        <4> QED
          BY <4>1, <4>2, Zenon
      <3>2. Harmless(e)
        BY <1>0, <2>1 DEF Refusal, Protected, Effect, Harmless
      <3> QED
        BY <1>5, <3>1, <3>2 DEF Commanded
    <2>2. ASSUME NEW c \in DiskGeometries, e = CreateAs(c, data), ~image.protected
          PROVE  Commanded
      <3>1. e = [Effect(FormatCalls(Complete(FALSE), data), 1)
                   EXCEPT !.image = CreateImage(image, c), !.cfg = c, !.fmt = c]
        BY <2>2, NoDiskIsNone DEF CreateAs
      <3>2. FormatCalls(Complete(FALSE), data) \in FormatAnswers
        BY DEF FormatCalls, FormatAnswers
      <3>3. Formats(e)
        BY <2>2, <3>1, <3>2 DEF Formats, Effect
      <3> QED
        BY <1>5, <3>3 DEF Commanded
    <2> QED
      BY <1>5, <2>1, <2>2
  <1>6. ASSUME Process(FormatSpeedy, Blank(Probes))
        PROVE  Commanded
    <2>1. \/ FormatSpeedy = Refusal
          \/ FormatSpeedy = Protected(FALSE)
          \/ \E c \in DiskGeometries : FormatSpeedy = CreateAs(c, FALSE) /\ ~image.protected
      BY <1>0, FormatExists DEF FormatSpeedy
    <2> QED
      BY <1>5, <1>6, <2>1
  <1>7. ASSUME NEW hi \in BOOLEAN, NEW e, Process(e, Blank(Probes)), e \in {FormatDisk(hi), FormatEnhanced(hi)}
        PROVE  Commanded
    <2>1. \/ e = Refusal
          \/ e = Protected(TRUE)
          \/ \E c \in DiskGeometries : e = CreateAs(c, TRUE) /\ ~image.protected
      BY <1>0, <1>7, FormatExists, NamedFormats DEF FormatDisk, FormatEnhanced
    <2> QED
      BY <1>5, <1>7, <2>1
  <1>8. ASSUME NEW e, Process(e, Nothing),
               e \in {Refusal, Sent, Effect(<<Ack(FALSE), Complete(FALSE)>>, 1)}
        PROVE  Commanded
    <2>1. /\ <<Nak>> \in Shapes(FALSE) /\ <<Ack(FALSE), Complete(FALSE)>> \in Shapes(FALSE)
          /\ <<Ack(FALSE), Complete(FALSE), Data(FALSE)>> \in Shapes(FALSE)
      BY DEF Shapes
    <2>2. Asks(e)
      BY <1>b, <1>8, <2>1 DEF Refusal, Sent
    <2> QED
      BY <1>8, <1>a, <2>2
  <1>9. HighSpeedInfo \in {Sent, Refusal}
    BY DEF HighSpeedInfo
  <1>10. Configure \in {Effect(<<Ack(FALSE), Complete(FALSE)>>, 1), Refusal}
    BY DEF Configure
  <1>11. \A isKnown \in BOOLEAN : ReadMyPicoDos(isKnown) \in {Sent, Refusal} /\ ApeSpecial(isKnown) \in {Sent, Refusal}
    BY DEF ReadMyPicoDos, ApeSpecial
  <1> QED
    BY <1>1, <1>2, <1>3, <1>4, <1>6, <1>7, <1>8, <1>9, <1>10, <1>11 DEF Ask
-----------------------------------------------------------------------------
(* What the Atari learns from the answer.                                  *)

\* The answers that got through.
Ops(e, k) == {e.calls[i].op : i \in 1 .. (IF k < Len(e.calls) THEN k ELSE Len(e.calls))}

Undecided(e, k) == Ops(e, k) \cap {"complete", "error", "nak"} = {}

\* The knowledge about a sector is kept unless COMPLETE was heard, and what was
\* meant for the sector is added unless it was refused.
LEMMA Learned ==
    ASSUME NEW touched, NEW k, NEW e, NEW s \in Probes
    PROVE  /\ "complete" \notin Ops(e, k) => belief[s] \subseteq Learn(touched, k, e)[s]
           /\ "complete" \in Ops(e, k) \/ Undecided(e, k) =>
                (s \in DOMAIN touched => touched[s] \in Learn(touched, k, e)[s])
           /\ s \notin DOMAIN touched => Learn(touched, k, e)[s] = belief[s]
           /\ Learn(touched, k, e)[s] \subseteq
                belief[s] \cup {touched[x] : x \in {s} \cap DOMAIN touched}
  <1>1. CASE "complete" \in Ops(e, k)
    <2>1. Learn(touched, k, e) =
            [x \in Probes |-> IF x \in DOMAIN touched THEN {touched[x]} ELSE belief[x]]
      BY <1>1 DEF Learn, Ops
    <2> QED
      BY <1>1, <2>1
  <1>2. CASE "complete" \notin Ops(e, k) /\ Undecided(e, k)
    <2>1. Learn(touched, k, e) =
            [x \in Probes |-> IF x \in DOMAIN touched THEN belief[x] \cup {touched[x]} ELSE belief[x]]
      BY <1>2 DEF Learn, Ops, Undecided
    <2> QED
      BY <1>2, <2>1
  <1>3. CASE "complete" \notin Ops(e, k) /\ ~Undecided(e, k)
    <2>1. Learn(touched, k, e) = belief
      BY <1>3 DEF Learn, Ops, Undecided
    <2> QED
      BY <1>3, <2>1
  <1> QED
    BY <1>1, <1>2, <1>3

\* What Learn returns for every sector.
LEMMA LearnedAll ==
    ASSUME NEW touched, NEW k, NEW e, belief \in [Probes -> SUBSET (Values \cup {0})],
           \A x \in Probes \cap DOMAIN touched : touched[x] \in Values \cup {0}
    PROVE  Learn(touched, k, e) \in [Probes -> SUBSET (Values \cup {0})]
  <1>1. \A s \in Probes : Learn(touched, k, e)[s] \in SUBSET (Values \cup {0})
    BY Learned
  <1>2. \/ Learn(touched, k, e) = belief
        \/ Learn(touched, k, e) =
             [x \in Probes |-> IF x \in DOMAIN touched THEN {touched[x]} ELSE belief[x]]
        \/ Learn(touched, k, e) =
             [x \in Probes |-> IF x \in DOMAIN touched THEN belief[x] \cup {touched[x]} ELSE belief[x]]
    BY DEF Learn
  <1> QED
    BY <1>1, <1>2
-----------------------------------------------------------------------------
(* Every command and every operation of the user keeps the three.          *)

DiskInv == DiskTypeOK /\ ConfigFresh /\ Promised

\* Whatever a command that was processed found and left.
LEMMA Processed ==
    ASSUME NEW e, NEW touched, Process(e, touched)
    PROVE  \E k \in 0 .. Len(e.calls) :
             /\ belief' = Learn(touched, k, e)
             /\ IF k >= e.need THEN image' = e.image /\ cfg' = e.cfg /\ fmt' = e.fmt
                ELSE UNCHANGED <<image, cfg, fmt>>
  BY DEF Process

LEMMA ProcessedRest ==
    ASSUME NEW e, NEW touched, Process(e, touched), DiskTypeOK
    PROVE  /\ virtual' \in BOOLEAN /\ opts' \in Options
           /\ heard' \in {"whole", "last refused", "cut"}
           /\ rate' \in {"std", "xf"}
  BY DEF Process, DiskTypeOK, RateAfter

\* A command that leaves the image as it was.
LEMMA HarmlessKeeps ==
    ASSUME DiskInv, NEW e, NEW touched, Process(e, touched), Harmless(e),
           \A k \in 0 .. Len(e.calls) : touched # Nothing => "complete" \notin Ops(e, k),
           \A x \in Probes \cap DOMAIN touched : touched[x] \in Values \cup {0}
    PROVE  DiskInv'
  <1>1. PICK k \in 0 .. Len(e.calls) :
             /\ belief' = Learn(touched, k, e)
             /\ IF k >= e.need THEN image' = e.image /\ cfg' = e.cfg /\ fmt' = e.fmt
                ELSE UNCHANGED <<image, cfg, fmt>>
    BY Processed
  <1>2. image' = image /\ cfg' = cfg /\ fmt' \in DiskGeometries
    BY <1>1 DEF Harmless, DiskInv, DiskTypeOK
  <1>3. \A s \in Probes : belief[s] \subseteq belief'[s]
    <2> TAKE s \in Probes
    <2>1. CASE touched = Nothing
      BY <1>1, <2>1, Learned DEF Nothing
    <2>2. CASE touched # Nothing
      BY <1>1, <2>2, Learned
    <2> QED
      BY <2>1, <2>2
  <1>4. belief' \in [Probes -> SUBSET (Values \cup {0})]
    BY <1>1, LearnedAll DEF DiskInv, DiskTypeOK
  <1>5. DiskTypeOK'
    BY <1>2, <1>4, ProcessedRest DEF DiskInv, DiskTypeOK
  <1>6. ConfigFresh'
    BY <1>2 DEF DiskInv, ConfigFresh
  <1>7. Promised'
    BY <1>2, <1>3 DEF DiskInv, Promised
  <1> QED
    BY <1>5, <1>6, <1>7 DEF DiskInv

\* A command that writes what it was meant to touch, before COMPLETE and with no
\* other answer than COMPLETE.
Truthful(e) ==
    \A k \in 0 .. Len(e.calls) :
      /\ ~(k >= e.need) => "complete" \notin Ops(e, k)
      /\ "complete" \in Ops(e, k) \/ Undecided(e, k)

Settles(e, touched) ==
    /\ e.image \in Images /\ e.cfg \in DiskGeometries /\ e.fmt \in DiskGeometries
    /\ e.cfg = e.image.cfg
    /\ \A x \in Probes : e.image.data[x] = IF x \in DOMAIN touched THEN touched[x] ELSE image.data[x]
    /\ Truthful(e)

LEMMA TouchedKeeps ==
    ASSUME DiskInv, NEW e, NEW touched, Process(e, touched), Settles(e, touched)
    PROVE  DiskInv'
  <1>0. /\ e.image \in Images /\ e.cfg \in DiskGeometries /\ e.fmt \in DiskGeometries
        /\ e.cfg = e.image.cfg
        /\ \A x \in Probes : e.image.data[x] = IF x \in DOMAIN touched THEN touched[x] ELSE image.data[x]
        /\ \A k \in 0 .. Len(e.calls) :
             /\ ~(k >= e.need) => "complete" \notin Ops(e, k)
             /\ "complete" \in Ops(e, k) \/ Undecided(e, k)
    BY Zenon DEF Settles, Truthful
  <1>1. PICK k \in 0 .. Len(e.calls) :
             /\ belief' = Learn(touched, k, e)
             /\ IF k >= e.need THEN image' = e.image /\ cfg' = e.cfg /\ fmt' = e.fmt
                ELSE UNCHANGED <<image, cfg, fmt>>
    BY Processed
  <1>2. \A x \in Probes \cap DOMAIN touched : touched[x] \in Values \cup {0}
    <2>1. \A x \in Probes : e.image.data[x] \in Values \cup {0}
      BY <1>0 DEF Images
    <2> QED
      BY <1>0, <2>1
  <1>3. belief' \in [Probes -> SUBSET (Values \cup {0})]
    BY <1>1, <1>2, LearnedAll DEF DiskInv, DiskTypeOK
  <1>4. CASE k >= e.need
    <2>1. image' = e.image /\ cfg' = e.cfg /\ fmt' = e.fmt
      BY <1>1, <1>4
    <2>2. DiskTypeOK'
      BY <1>0, <1>3, <2>1, ProcessedRest DEF DiskInv, DiskTypeOK, Images
    <2>3. Promised'
      <3> SUFFICES ASSUME NEW s \in Probes PROVE image'.data[s] \in belief'[s]
        BY DEF Promised
      <3>1. CASE s \in DOMAIN touched
        BY <1>0, <1>1, <2>1, <3>1, Learned
      <3>2. CASE s \notin DOMAIN touched
        BY <1>0, <1>1, <2>1, <3>2, Learned DEF DiskInv, Promised
      <3> QED
        BY <3>1, <3>2
    <2> QED
      BY <1>0, <2>1, <2>2, <2>3 DEF DiskInv, ConfigFresh
  <1>5. CASE ~(k >= e.need)
    <2>1. UNCHANGED <<image, cfg, fmt>>
      BY <1>1, <1>5
    <2>2. DiskTypeOK'
      BY <1>0, <1>3, <2>1, ProcessedRest DEF DiskInv, DiskTypeOK
    <2>3. Promised'
      <3> SUFFICES ASSUME NEW s \in Probes PROVE image'.data[s] \in belief'[s]
        BY DEF Promised
      <3>1. "complete" \notin Ops(e, k)
        BY <1>0, <1>5
      <3> QED
        BY <1>1, <2>1, <3>1, Learned DEF DiskInv, Promised
    <2> QED
      BY <2>1, <2>2, <2>3 DEF DiskInv, ConfigFresh
  <1> QED
    BY <1>4, <1>5

\* The answers of the shapes that matter.
LEMMA OpsOf ==
    ASSUME NEW e, NEW k \in 0 .. Len(e.calls)
    PROVE  /\ \A x \in Ops(e, k) : \E i \in 1 .. k : x = e.calls[i].op
           /\ \A i \in 1 .. k : e.calls[i].op \in Ops(e, k)
  <1>1. (IF k < Len(e.calls) THEN k ELSE Len(e.calls)) = k
    OBVIOUS
  <1>2. Ops(e, k) = {e.calls[i].op : i \in 1 .. k}
    BY <1>1 DEF Ops
  <1> QED
    BY <1>2

LEMMA OpsOfWrite ==
    ASSUME NEW e, NEW hi \in BOOLEAN, e.calls = <<Ack(hi), Receive, Complete(hi)>>, NEW k \in 0 .. Len(e.calls)
    PROVE  /\ ~(k >= 2) => "complete" \notin Ops(e, k)
           /\ "complete" \in Ops(e, k) \/ Undecided(e, k)
  <1>1. Len(e.calls) = 3 /\ k \in {0, 1, 2, 3}
    OBVIOUS
  <1>2. e.calls[1].op = "ack" /\ e.calls[2].op = "receive" /\ e.calls[3].op = "complete"
    BY DEF Ack, Receive, Complete, Call
  <1>3. k < 3 => \A x \in Ops(e, k) : x \in {"ack", "receive"}
    BY <1>1, <1>2, OpsOf
  <1>4. k = 3 => "complete" \in Ops(e, k)
    <2>1. k = 3 => 3 \in 1 .. k
      OBVIOUS
    <2>2. k = 3 => e.calls[3].op \in Ops(e, k)
      BY <2>1, OpsOf, Zenon
    <2> QED
      BY <1>2, <2>2
  <1> QED
    BY <1>1, <1>3, <1>4 DEF Undecided

LEMMA FormatShape ==
    ASSUME NEW e,
           e.calls \in FormatAnswers
    PROVE  Len(e.calls) \in {2, 3} /\ e.calls[1].op = "ack" /\ e.calls[2].op = "complete"
  <1>1. CASE e.calls = <<Ack(FALSE), Complete(FALSE)>>
    BY <1>1 DEF Ack, Complete, Call
  <1>2. CASE e.calls = <<Ack(FALSE), Complete(FALSE), Data(FALSE)>>
    BY <1>2 DEF Ack, Complete, Call
  <1> QED
    BY <1>1, <1>2, Zenon DEF FormatAnswers

LEMMA OpsOfFormat ==
    ASSUME NEW e, Len(e.calls) \in {2, 3}, e.calls[1].op = "ack", e.calls[2].op = "complete",
           NEW k \in 0 .. Len(e.calls)
    PROVE  /\ ~(k >= 1) => "complete" \notin Ops(e, k)
           /\ "complete" \in Ops(e, k) \/ Undecided(e, k)
  <1>1. k < 2 => \A x \in Ops(e, k) : x = "ack"
    BY OpsOf
  <1>2. k >= 2 => "complete" \in Ops(e, k)
    BY OpsOf
  <1>3. k = 0 => Ops(e, k) = {}
    BY OpsOf
  <1> QED
    BY <1>1, <1>2, <1>3 DEF Undecided

LEMMA OpsOfRefusal ==
    ASSUME NEW e, NEW hi \in BOOLEAN, NEW k \in 0 .. Len(e.calls),
           e.calls \in {<<Nak>>, <<Ack(hi), Receive, Error>>, <<Ack(FALSE), Error>>,
                        <<Ack(FALSE), Error, Data(FALSE)>>}
    PROVE  "complete" \notin Ops(e, k)
  <1>2. \A i \in 1 .. Len(e.calls) : e.calls[i].op # "complete"
    <2>1. CASE e.calls = <<Nak>>
      BY <2>1 DEF Nak, Call
    <2>2. CASE e.calls = <<Ack(hi), Receive, Error>>
      BY <2>2 DEF Ack, Receive, Error, Call
    <2>3. CASE e.calls = <<Ack(FALSE), Error>>
      BY <2>3 DEF Ack, Error, Call
    <2>4. CASE e.calls = <<Ack(FALSE), Error, Data(FALSE)>>
      BY <2>4 DEF Ack, Error, Data, Call
    <2> QED
      BY <2>1, <2>2, <2>3, <2>4, Zenon
  <1>3. \A i \in 1 .. k : i \in 1 .. Len(e.calls)
    OBVIOUS
  <1> QED
    BY <1>2, <1>3, OpsOf
-----------------------------------------------------------------------------
(* The theorems.                                                           *)

LEMMA CommandKeeps ==
    ASSUME DiskInv, Ask
    PROVE  DiskInv'
  <1>0. image \in Images /\ fmt \in DiskGeometries /\ cfg \in DiskGeometries /\ cfg = image.cfg
    BY DEF DiskInv, DiskTypeOK, ConfigFresh, Images
  <1>1. Commanded
    BY CommandShapes DEF DiskInv
  <1>2. ASSUME NEW e, NEW touched, Process(e, touched), Asks(e), touched = Nothing
        PROVE  DiskInv'
    BY <1>2, HarmlessKeeps DEF Asks, Nothing
  <1>3. ASSUME NEW e, NEW touched, Process(e, touched), NEW hi \in BOOLEAN, NEW s \in Probes,
               NEW v \in Values, touched = One(s, v), Writes(e, hi, s, v)
        PROVE  DiskInv'
    <2>1. e.image \in Images /\ e.image.cfg = image.cfg /\ e.image.data = [image.data EXCEPT ![s] = v]
      BY <1>0, <1>3, WrittenImage DEF Writes
    <2>2. \A x \in Probes : e.image.data[x] = IF x \in DOMAIN touched THEN touched[x] ELSE image.data[x]
      BY <1>0, <1>3, <2>1 DEF One, Images
    <2>3. e.cfg = e.image.cfg /\ e.fmt \in DiskGeometries /\ e.need = 2
      BY <1>0, <1>3, <2>1 DEF Writes
    <2>4. Truthful(e)
      BY <1>3, <2>3, OpsOfWrite DEF Writes, Truthful
    <2> QED
      <3>1. e.cfg \in DiskGeometries /\ e.image \in Images
        BY <1>0, <2>1, <2>3
      <3>2. Settles(e, touched)
        BY <2>2, <2>3, <2>4, <3>1 DEF Settles
      <3> QED
        BY <1>3, <3>2, TouchedKeeps
  <1>4. ASSUME NEW e, NEW touched, Process(e, touched), touched = Blank(Probes), Formats(e)
        PROVE  DiskInv'
    <2>1. e.image \in Images /\ e.image.cfg = e.cfg /\ e.image.data = [s \in Probes |-> 0]
      <3>1. e.cfg \in DiskGeometries /\ e.image = CreateImage(image, e.cfg)
        BY <1>4, Zenon DEF Formats
      <3> QED
        BY <1>0, <3>1, CreatedImage
    <2>2. \A x \in Probes : e.image.data[x] = IF x \in DOMAIN touched THEN touched[x] ELSE image.data[x]
      BY <1>4, <2>1 DEF Blank
    <2>3. e.cfg \in DiskGeometries /\ e.fmt \in DiskGeometries /\ e.need = 1
      BY <1>4 DEF Formats
    <2>4. Truthful(e)
      <3>1. Len(e.calls) \in {2, 3} /\ e.calls[1].op = "ack" /\ e.calls[2].op = "complete"
        <4>1. e.calls \in FormatAnswers
          BY <1>4, Zenon DEF Formats
        <4> QED
          BY <4>1, FormatShape
      <3> QED
        BY <2>3, <3>1, OpsOfFormat DEF Truthful
    <2> QED
      <3>1. Settles(e, touched)
        BY <2>1, <2>2, <2>3, <2>4 DEF Settles
      <3> QED
        BY <1>4, <3>1, TouchedKeeps
  <1>5. ASSUME NEW e, NEW touched, Process(e, touched), Harmless(e), NEW hi \in BOOLEAN,
               \A x \in Probes \cap DOMAIN touched : touched[x] \in Values \cup {0},
               e.calls \in {<<Nak>>, <<Ack(hi), Receive, Error>>, <<Ack(FALSE), Error>>,
                            <<Ack(FALSE), Error, Data(FALSE)>>}
        PROVE  DiskInv'
    BY <1>5, OpsOfRefusal, HarmlessKeeps
  <1>6. ASSUME NEW e, NEW touched, Process(e, touched), Harmless(e), NEW hi \in BOOLEAN, NEW s \in Probes,
               NEW v \in Values, touched = One(s, v), e.calls \in {<<Nak>>, <<Ack(hi), Receive, Error>>}
        PROVE  DiskInv'
    <2>1. \A x \in Probes \cap DOMAIN touched : touched[x] \in Values \cup {0}
      BY <1>6 DEF One
    <2> QED
      BY <1>5, <1>6, <2>1
  <1>7. ASSUME NEW e, NEW touched, Process(e, touched), Harmless(e), touched = Blank(Probes),
               e.calls \in {<<Nak>>, <<Ack(FALSE), Error>>, <<Ack(FALSE), Error, Data(FALSE)>>}
        PROVE  DiskInv'
    <2>1. \A x \in Probes \cap DOMAIN touched : touched[x] \in Values \cup {0}
      BY <1>7 DEF Blank
    <2> QED
      BY <1>5, <1>7, <2>1
  <1> QED
    BY <1>1, <1>2, <1>3, <1>4, <1>6, <1>7 DEF Commanded

LEMMA UserKeeps ==
    ASSUME DiskInv, SetWriteProtect \/ Save \/ Autobaud \/ UNCHANGED diskvars
    PROVE  DiskInv'
  <1>0. image \in Images
    BY DEF DiskInv, DiskTypeOK, Images
  <1>1. /\ image' \in Images /\ image'.cfg = image.cfg /\ image'.data = image.data
        /\ rate' \in {"std", "xf"}
    BY <1>0 DEF SetWriteProtect, Save, Autobaud, diskvars, Images, DiskInv, DiskTypeOK
  <1>2. UNCHANGED <<virtual, cfg, fmt, opts, belief, heard>>
    BY DEF SetWriteProtect, Save, Autobaud, diskvars
  <1>3. DiskTypeOK'
    BY <1>1, <1>2 DEF DiskInv, DiskTypeOK, Images
  <1> QED
    BY <1>1, <1>2, <1>3 DEF DiskInv, ConfigFresh, Promised

LEMMA InitInv == DiskInit => DiskInv
  <1> SUFFICES ASSUME DiskInit PROVE DiskInv
    OBVIOUS
  <1>1. PICK f \in Presets : image = NewImage(SetFormatName(f), Probes)
    BY DEF DiskInit
  <1>2. SetFormatName(f) \in DiskGeometries
    BY NamedFormats, DiskAssumption
  <1>3. image \in Images /\ image.cfg \in DiskGeometries /\ image.data = [s \in Probes |-> 0]
    BY <1>1, <1>2 DEF NewImage, Blank, Images
  <1>4. DiskTypeOK
    BY <1>3 DEF DiskInit, DiskTypeOK, Images
  <1> QED
    BY <1>3, <1>4 DEF DiskInv, DiskInit, ConfigFresh, Promised

\* A drive keeps its types: no PERCOM block, no command and no failing call gives
\* the image, the handler or the next format a geometry that is not one of a disk.
THEOREM DiskTypeCorrect == DiskSpec => []DiskTypeOK
  <1>1. DiskInv /\ [DiskNext]_diskvars => DiskInv'
    BY CommandKeeps, UserKeeps DEF DiskNext
  <1>2. DiskInv => DiskTypeOK
    BY DEF DiskInv
  <1> QED
    BY InitInv, <1>1, <1>2, PTL DEF DiskSpec

\* The handler judges by the geometry of its image, after formatting too.
THEOREM ConfigIsFresh == DiskSpec => []ConfigFresh
  <1>1. DiskInv /\ [DiskNext]_diskvars => DiskInv'
    BY CommandKeeps, UserKeeps DEF DiskNext
  <1>2. DiskInv => ConfigFresh
    BY DEF DiskInv
  <1> QED
    BY InitInv, <1>1, <1>2, PTL DEF DiskSpec

\* The answers of a drive are true, whichever of its calls fail in whatever
\* sequence of commands: every sector holds a value the Atari expects.
THEOREM AnswersAreTrue == DiskSpec => []Promised
  <1>1. DiskInv /\ [DiskNext]_diskvars => DiskInv'
    BY CommandKeeps, UserKeeps DEF DiskNext
  <1>2. DiskInv => Promised
    BY DEF DiskInv
  <1> QED
    BY InitInv, <1>1, <1>2, PTL DEF DiskSpec
-----------------------------------------------------------------------------
(* The baud rate.                                                          *)

RateInv == rate \in {"std", "xf"} /\ (rate = "xf" => heard = "last refused")

\* The calls of an answer that switch the rate back are its last.
SwitchLast(e) ==
    \A i \in 1 .. Len(e.calls) : e.calls[i].xf /\ e.calls[i].op # "ack" => i = Len(e.calls)

LEMMA ShapesSwitchLast ==
    ASSUME NEW hi \in BOOLEAN, NEW e, e.calls \in Shapes(hi)
    PROVE  SwitchLast(e)
  <1>1. CASE e.calls = <<Nak>>
    BY <1>1 DEF SwitchLast, Nak, Call
  <1>2. CASE e.calls = <<Ack(FALSE), Complete(FALSE)>>
    BY <1>2 DEF SwitchLast, Ack, Complete, Call
  <1>3. CASE e.calls = <<Ack(FALSE), Error>>
    BY <1>3 DEF SwitchLast, Ack, Error, Call
  <1>4. CASE e.calls = <<Ack(hi), Complete(FALSE), Data(hi)>>
    BY <1>4 DEF SwitchLast, Ack, Complete, Data, Call
  <1>5. CASE e.calls = <<Ack(hi), Error, Data(hi)>>
    BY <1>5 DEF SwitchLast, Ack, Error, Data, Call
  <1>6. CASE e.calls = <<Ack(hi), Receive, Complete(hi)>>
    BY <1>6 DEF SwitchLast, Ack, Receive, Complete, Call
  <1>7. CASE e.calls = <<Ack(hi), Receive, Error>>
    BY <1>7 DEF SwitchLast, Ack, Receive, Error, Call
  <1> QED
    BY <1>1, <1>2, <1>3, <1>4, <1>5, <1>6, <1>7, Zenon DEF Shapes

\* If the rate is left at 38400, the last call was refused.
LEMMA ProcessedRate ==
    ASSUME NEW e, NEW touched, Process(e, touched), SwitchLast(e)
    PROVE  RateInv'
  <1>1. PICK k \in 0 .. Len(e.calls), how \in {"refused", "failed"} :
             /\ k = Len(e.calls) => how = "failed"
             /\ rate' = RateAfter(e.calls, k, how)
             /\ heard' = CASE k = Len(e.calls) -> "whole"
                           [] k = Len(e.calls) - 1 /\ how = "refused" -> "last refused"
                           [] OTHER -> "cut"
    BY DEF Process
  <1> DEFINE last  == IF k < Len(e.calls) THEN k + 1 ELSE Len(e.calls)
             begun == {i \in 1 .. last : e.calls[i].xf}
             reset == begun # {} /\ \A i \in begun : e.calls[i].op = "ack"
             done  == {i \in begun : ~(i = k + 1 /\ how = "refused")}
  <1>2. rate' = IF begun = {} THEN rate
                ELSE IF reset \/ \E i \in done : e.calls[i].op # "ack" THEN "std" ELSE "xf"
    BY <1>1 DEF RateAfter
  <1>3. rate = "std"
    BY DEF Process
  <1>4. ASSUME rate' # "std"
        PROVE  rate' = "xf" /\ k = Len(e.calls) - 1 /\ how = "refused"
    <2>1. rate' = "xf" /\ begun # {} /\ ~reset /\ \A i \in done : e.calls[i].op = "ack"
      BY <1>2, <1>3, <1>4
    <2>2. PICK i \in begun : e.calls[i].op # "ack"
      BY <2>1
    <2>3. i = k + 1 /\ how = "refused"
      BY <2>1, <2>2
    <2>4. i \in 1 .. Len(e.calls) /\ e.calls[i].xf
      BY <2>2
    <2>5. i = Len(e.calls)
      BY <2>2, <2>4 DEF SwitchLast
    <2> QED
      BY <2>1, <2>3, <2>5
  <1>5. k = Len(e.calls) - 1 /\ how = "refused" => heard' = "last refused"
    BY <1>1
  <1> QED
    BY <1>4, <1>5 DEF RateInv

LEMMA CommandRate ==
    ASSUME DiskTypeOK, Ask
    PROVE  RateInv'
  <1>1. Commanded
    BY CommandShapes
  <1>2. ASSUME NEW e, NEW touched, Process(e, touched), Asks(e)
        PROVE  RateInv'
    BY <1>2, ShapesSwitchLast, ProcessedRate DEF Asks
  <1>3. ASSUME NEW e, NEW touched, Process(e, touched), NEW hi \in BOOLEAN,
               e.calls \in {<<Nak>>, <<Ack(hi), Receive, Error>>, <<Ack(hi), Receive, Complete(hi)>>}
        PROVE  RateInv'
    <2>1. e.calls \in Shapes(hi)
      BY <1>3, Zenon DEF Shapes
    <2> QED
      BY <1>3, <2>1, ShapesSwitchLast, ProcessedRate
  <1>4. ASSUME NEW e, NEW touched, Process(e, touched),
               e.calls \in FormatAnswers \cup {<<Nak>>, <<Ack(FALSE), Error>>, <<Ack(FALSE), Error, Data(FALSE)>>}
        PROVE  RateInv'
    <2>1. e.calls \in Shapes(FALSE)
      BY <1>4, Zenon DEF FormatAnswers, Shapes
    <2> QED
      BY <1>4, <2>1, ShapesSwitchLast, ProcessedRate
  <1>5. ASSUME NEW e, NEW hi, NEW s, NEW v, Writes(e, hi, s, v)
        PROVE  e.calls = <<Ack(hi), Receive, Complete(hi)>>
    BY <1>5 DEF Writes
  <1>6. ASSUME NEW e, Formats(e)
        PROVE  e.calls \in FormatAnswers
    BY <1>6 DEF Formats
  <1>7. PICK e, touched :
           /\ Process(e, touched)
           /\ \/ Asks(e)
              \/ \E hi \in BOOLEAN, s \in Probes, v \in Values :
                   Writes(e, hi, s, v) \/ e.calls \in {<<Nak>>, <<Ack(hi), Receive, Error>>}
              \/ Formats(e)
              \/ e.calls \in {<<Nak>>, <<Ack(FALSE), Error>>, <<Ack(FALSE), Error, Data(FALSE)>>}
    BY <1>1, Zenon DEF Commanded
  <1>8. CASE Asks(e)
    BY <1>2, <1>7, <1>8
  <1>9. CASE \E hi \in BOOLEAN, s \in Probes, v \in Values :
               Writes(e, hi, s, v) \/ e.calls \in {<<Nak>>, <<Ack(hi), Receive, Error>>}
    <2>1. PICK hi \in BOOLEAN, s \in Probes, v \in Values :
                 Writes(e, hi, s, v) \/ e.calls \in {<<Nak>>, <<Ack(hi), Receive, Error>>}
      BY <1>9
    <2>2. e.calls \in {<<Nak>>, <<Ack(hi), Receive, Error>>, <<Ack(hi), Receive, Complete(hi)>>}
      BY <1>5, <2>1, Zenon
    <2> QED
      BY <1>3, <1>7, <2>2
  <1>10. CASE \/ Formats(e)
              \/ e.calls \in {<<Nak>>, <<Ack(FALSE), Error>>, <<Ack(FALSE), Error, Data(FALSE)>>}
    <2>1. e.calls \in FormatAnswers \cup {<<Nak>>, <<Ack(FALSE), Error>>, <<Ack(FALSE), Error, Data(FALSE)>>}
      BY <1>6, <1>10
    <2> QED
      BY <1>4, <1>7, <2>1
  <1> QED
    BY <1>7, <1>8, <1>9, <1>10, Zenon

\* The rate is left at 38400 only by the call that was to switch it back, when
\* the driver refuses it because the Atari has begun another frame.
THEOREM RateIsLeft == DiskSpec => RateLeft
  <1>1. DiskInit => RateInv
    BY DEF DiskInit, RateInv
  <1>2. RateInv /\ DiskTypeOK /\ [DiskNext]_diskvars => RateInv'
    <2> SUFFICES ASSUME RateInv, DiskTypeOK, [DiskNext]_diskvars PROVE RateInv'
      OBVIOUS
    <2>1. CASE Ask
      BY <2>1, CommandRate
    <2>2. CASE SetWriteProtect \/ Save \/ Autobaud \/ UNCHANGED diskvars
      BY <2>2 DEF SetWriteProtect, Save, Autobaud, diskvars, RateInv
    <2> QED
      BY <2>1, <2>2 DEF DiskNext
  <1>3. RateInv' => (rate' = "xf" => heard' = "last refused")
    BY DEF RateInv
  <1>4. DiskSpec => []RateInv
    BY <1>1, <1>2, DiskTypeCorrect, PTL DEF DiskSpec
  <1> QED
    BY <1>3, <1>4, PTL DEF RateLeft
-----------------------------------------------------------------------------
(* Write protection.                                                       *)

LEMMA CommandSpares ==
    ASSUME DiskTypeOK, Ask, image.protected
    PROVE  image' = image
  <1>1. Commanded
    BY CommandShapes
  <1>2. PICK e, touched :
           /\ Process(e, touched)
           /\ Harmless(e) \/ ~image.protected
    BY <1>1 DEF Commanded, Asks, Writes, Formats
  <1> QED
    BY <1>2, Processed DEF Harmless

\* Protection holds against every command, formatting included, and whatever the
\* user does with the drive the data stay.
THEOREM ProtectionHolds == DiskSpec => ProtectedUntouched
  <1>1. DiskTypeOK /\ [DiskNext]_diskvars =>
          (image.protected => image'.data = image.data /\ image'.cfg = image.cfg)
    <2> SUFFICES ASSUME DiskTypeOK, [DiskNext]_diskvars, image.protected
                 PROVE  image'.data = image.data /\ image'.cfg = image.cfg
      OBVIOUS
    <2>1. CASE Ask
      BY <2>1, CommandSpares
    <2>2. CASE SetWriteProtect \/ Save \/ Autobaud \/ UNCHANGED diskvars
      BY <2>2 DEF SetWriteProtect, Save, Autobaud, diskvars, DiskTypeOK
    <2> QED
      BY <2>1, <2>2 DEF DiskNext
  <1> QED
    BY <1>1, DiskTypeCorrect, PTL DEF DiskSpec, ProtectedUntouched

-----------------------------------------------------------------------------
(***************************************************************************)
(* The tape deck, for every tape whose chunks the reader turns into blocks, *)
(* any even size of a send and any sequence of keys, sends and failures.   *)
(***************************************************************************)

-----------------------------------------------------------------------------
(* The calls of the wrapper.                                               *)

\* What the driver will return to when the tape mode ends, or is at already.
Returnable(d) ==
    IF d.tape THEN d.old = StandardRate /\ (refused \/ (d.oldRx /\ d.oldAuto))
    ELSE d.rate = StandardRate /\ (refused \/ (d.rx /\ d.auto))

LEMMA SetKeeps ==
    ASSUME NEW d \in Drivers, NEW r \in Nat, kernel \in BOOLEAN
    PROVE  LET e == SetTapeBaudrate(d, r) IN
             /\ e \in Drivers /\ e.tape = d.tape /\ e.trate = r
             /\ (d.tape /\ r # 0) \/ ~kernel => e.rate = r
             /\ kernel /\ Returnable(d) => Returnable(e)
  BY DEF SetTapeBaudrate, SetBaudrate, Drivers, Returnable

LEMMA StartKeeps ==
    ASSUME NEW d \in Drivers, kernel \in BOOLEAN
    PROVE  LET e == StartTapeMode(d) IN
             /\ e \in Drivers
             /\ kernel => (e.tape <=> (d.tape \/ d.trate # 0))
             /\ ~kernel \/ (~d.tape /\ e.tape) => e.rate = d.trate
             /\ kernel /\ Returnable(d) /\ e.tape => Returnable(e)
             /\ kernel /\ Returnable(d) /\ ~e.tape => e.rate = StandardRate
  BY DEF StartTapeMode, SetBaudrate, Drivers, Returnable

LEMMA EndKeeps ==
    ASSUME NEW d \in Drivers, kernel \in BOOLEAN
    PROVE  LET e == EndTapeMode(d) IN
             /\ e \in Drivers
             /\ kernel => ~e.tape
             /\ kernel /\ Returnable(d) => Returnable(e)
  BY DEF EndTapeMode, Drivers, Returnable

LEMMA SetupKeeps ==
    ASSUME NEW d \in Drivers, kernel \in BOOLEAN, tape \in Seq(TapeBlocks), NEW b \in 1 .. Len(tape)
    PROVE  LET e == SetupNewBlock(b, d) IN
             /\ e \in Drivers /\ e.tape = d.tape
             /\ tape[b].kind = "data" => e.trate = tape[b].rate
             /\ tape[b].kind = "data" /\ HasRate(b) /\ (d.tape \/ ~kernel) => e.rate = tape[b].rate
             /\ kernel /\ Returnable(d) => Returnable(e)
  <1>1. tape[b] \in TapeBlocks
    OBVIOUS
  <1>2. tape[b].rate \in Nat
    BY <1>1 DEF TapeBlocks
  <1>3. CASE tape[b].kind = "data"
    BY <1>2, <1>3, SetKeeps DEF SetupNewBlock, HasRate
  <1>4. CASE tape[b].kind # "data"
    BY <1>4 DEF SetupNewBlock
  <1> QED
    BY <1>3, <1>4
-----------------------------------------------------------------------------
(* The driver is given back as it was.                                     *)

\* A handler in the middle of a pass, or at rest.
Handled(s) ==
    /\ s.drv \in Drivers
    /\ kernel => Returnable(s.drv)
    /\ kernel /\ s.deck \notin Running => ~s.drv.tape

LEMMA AbortKeeps ==
    ASSUME NEW s, Handled(s), kernel \in BOOLEAN
    PROVE  AbortTapePlayback(s).deck = "done" /\ Handled(AbortTapePlayback(s))
  BY EndKeeps DEF AbortTapePlayback, Handled, Running

LEMMA PausedKeeps ==
    ASSUME NEW s, Handled(s), kernel \in BOOLEAN
    PROVE  /\ Handled(Paused(s))
           /\ Paused(s).deck = IF s.deck \in Running THEN "paused" ELSE s.deck
           /\ kernel => ~Paused(s).drv.tape
  <1>1. CASE s.deck \in Running
    BY <1>1, EndKeeps DEF Paused, Handled
  <1>2. CASE s.deck \notin Running
    BY <1>2 DEF Paused, Handled
  <1> QED
    BY <1>1, <1>2

LEMMA NextKeeps ==
    ASSUME NEW s, NEW flushed \in BOOLEAN, Handled(s), kernel \in BOOLEAN,
           tape \in Seq(TapeBlocks), block \in 1 .. Len(tape)
    PROVE  LET n == NextBlock(s, flushed) IN
             /\ Handled(n)
             /\ \/ /\ n.deck = "gap" /\ n.block = block + 1 /\ n.block \in 1 .. Len(tape) /\ n.pos = 0
                   /\ flushed => n.drv = SetupNewBlock(block + 1, s.drv)
                \/ n.deck = "done" /\ n.block = block /\ n.pos = tape[block].len
  <1> DEFINE t == IF flushed THEN s ELSE AbortTapePlayback(s)
             u == AbortTapePlayback(t)
             n == NextBlock(s, flushed)
  <1>1. Handled(t) /\ (flushed => t = s)
    BY AbortKeeps
  <1>2. Handled(u) /\ u.deck = "done"
    BY <1>1, AbortKeeps
  <1>3. CASE block < Len(tape)
    <2>1. n = [deck |-> "gap", drv |-> SetupNewBlock(block + 1, t.drv), block |-> block + 1, pos |-> 0]
      BY <1>3 DEF NextBlock
    <2>2. block + 1 \in 1 .. Len(tape)
      BY <1>3
    <2> HIDE DEF t
    <2>3. t.drv \in Drivers /\ (kernel => Returnable(t.drv))
      BY <1>1 DEF Handled
    <2>4. n.drv \in Drivers /\ (kernel => Returnable(n.drv)) /\ n.deck = "gap"
      BY <2>1, <2>2, <2>3, SetupKeeps
    <2> QED
      BY <1>1, <2>1, <2>2, <2>4 DEF Handled, Running
  <1>4. CASE ~(block < Len(tape))
    <2>1. n = [deck |-> u.deck, drv |-> u.drv, block |-> block, pos |-> tape[block].len]
      BY <1>4 DEF NextBlock
    <2> HIDE DEF u, n
    <2>2. n.drv = u.drv /\ n.deck = "done" /\ n.block = block /\ n.pos = tape[block].len
      BY <1>2, <2>1
    <2>3. Handled(n)
      BY <1>2, <2>2 DEF Handled, Running
    <2> QED
      BY <2>2, <2>3 DEF n
  <1> QED
    BY <1>3, <1>4
-----------------------------------------------------------------------------
(* The invariant.                                                          *)

\* The place on the tape, and what has been heard of the block.
Placed == deck \in Running => pos <= tape[block].len

Heard ==
    deck \in Running /\ ~failed /\ ~refused =>
        /\ kernel => drv.tape
        /\ HasRate(block) => good = pos /\ (tape[block].kind = "data" => drv.rate = tape[block].rate)
        /\ pos % 2 = 0
        /\ deck = "gap" => pos = 0

TapeInv == TapeTypeOK /\ Handled([deck |-> deck, drv |-> drv]) /\ Placed /\ Heard

\* The same, of the variables.
LEMMA HandledNow ==
    Handled([deck |-> deck, drv |-> drv]) <=>
        /\ drv \in Drivers
        /\ kernel => Returnable(drv)
        /\ kernel /\ deck \notin Running => ~drv.tape
  BY DEF Handled

LEMMA InitTapeInv == TapeInit => TapeInv
  <1> SUFFICES ASSUME TapeInit PROVE TapeInv
    OBVIOUS
  <1>1. drv \in Drivers /\ Returnable(drv) /\ ~drv.tape
    BY TapeAssumption DEF TapeInit, Drivers, Returnable
  <1>2. TapeTypeOK
    <2>1. {kernel, failed, refused} \subseteq BOOLEAN
      BY Zenon DEF TapeInit
    <2>2. tape \in Seq(TapeBlocks) /\ pos \in Nat /\ good \in Nat
      BY DEF TapeInit
    <2>3. deck = "unloaded" /\ block = 0
      BY DEF TapeInit
    <2> QED
      BY <1>1, <2>1, <2>2, <2>3 DEF TapeTypeOK
  <1>3. Handled([deck |-> deck, drv |-> drv])
    BY <1>1 DEF Handled
  <1> QED
    BY <1>2, <1>3 DEF TapeInv, TapeInit, Placed, Heard, Running

LEMMA SumOfEvens ==
    ASSUME NEW m \in Nat, NEW n \in Nat, m % 2 = 0, n % 2 = 0 PROVE (m + n) % 2 = 0
  OBVIOUS

\* One pass of DoPlaying that sends a chunk, with every outcome of its calls.
LEMMA PlayKeeps ==
    ASSUME TapeInv, NEW sent \in BOOLEAN, NEW flushed \in BOOLEAN, PlayChunk(sent, flushed)
    PROVE  TapeInv'
  <1> DEFINE len   == ChunkLength(block, pos)
             end   == pos + len = tape[block].len
             start == [deck |-> deck, drv |-> drv]
             s0    == IF len <= 0 THEN AbortTapePlayback(start) ELSE start
             s1    == IF sent THEN s0 ELSE AbortTapePlayback(s0)
             keep  == [deck |-> s1.deck, drv |-> s1.drv, block |-> block, pos |-> pos + len]
             res   == IF end THEN NextBlock(s1, flushed) ELSE keep
  <1>1. /\ tape \in Seq(TapeBlocks) /\ block \in 1 .. Len(tape) /\ pos \in Nat /\ good \in Nat
        /\ deck = "playing" /\ pos <= tape[block].len
        /\ kernel \in BOOLEAN /\ failed \in BOOLEAN /\ refused \in BOOLEAN
    BY DEF TapeInv, TapeTypeOK, Placed, PlayChunk, Running
  <1>2. tape[block] \in TapeBlocks
    BY <1>1
  <1>3. tape[block].len \in Nat
    BY <1>2 DEF TapeBlocks
  <1>4. /\ len \in Nat /\ pos + len <= tape[block].len
        /\ ~end => len = MaxTransfer
    BY <1>1, <1>3, TapeAssumption DEF ChunkLength
  <1>5. Handled(start) /\ start.deck = "playing"
    BY <1>1 DEF TapeInv
  <1>6. Handled(s0) /\ s0.deck \in {"playing", "done"} /\ (len > 0 => s0 = start)
    BY <1>1, <1>4, <1>5, AbortKeeps
  <1>7. Handled(s1) /\ s1.deck \in {"playing", "done"} /\ (sent => s1 = s0)
    BY <1>1, <1>6, AbortKeeps
  <1>8. /\ deck' = res.deck /\ drv' = res.drv /\ block' = res.block /\ pos' = res.pos
        /\ good' = IF res.block # block THEN 0
                   ELSE IF sent /\ SentAsIs(s0.drv, block, pos) THEN good + len ELSE good
        /\ failed' = (failed \/ ~sent \/ ~flushed \/ len <= 0)
        /\ tape' = tape /\ kernel' = kernel /\ refused' = refused
    BY Zenon DEF PlayChunk
  <1>9. failed' \in BOOLEAN
    BY <1>8
  <1>10. ~failed' => ~failed /\ sent /\ flushed /\ len > 0
    <2>1. ~(len <= 0) => len > 0
      BY <1>4
    <2> QED
      BY <1>8, <2>1, Zenon
  <1>11. good' \in Nat
    BY <1>1, <1>4, <1>8
  <1> HIDE DEF len, start, s0, s1
  <1>12. CASE end
    <2> DEFINE n == NextBlock(s1, flushed)
    <2>1. res = n
      BY <1>12
    <2> HIDE DEF n
    <2>2. /\ Handled(n)
          /\ \/ /\ n.deck = "gap" /\ n.block = block + 1 /\ n.block \in 1 .. Len(tape) /\ n.pos = 0
                /\ flushed => n.drv = SetupNewBlock(block + 1, s1.drv)
             \/ n.deck = "done" /\ n.block = block /\ n.pos = tape[block].len
      BY <1>1, <1>7, NextKeeps DEF n
    <2>3. deck' = n.deck /\ drv' = n.drv /\ block' = n.block /\ pos' = n.pos
      BY <1>8, <2>1
    <2>4. drv' \in Drivers
      BY <2>2, <2>3 DEF Handled
    <2>5. Handled([deck |-> deck, drv |-> drv])'
      BY <1>8, <2>2, <2>3 DEF Handled, Returnable
    <2>6. TapeTypeOK'
      BY <1>1, <1>3, <1>8, <1>9, <1>11, <2>2, <2>3, <2>4 DEF TapeTypeOK
    <2>7. CASE n.deck = "done"
      BY <2>3, <2>5, <2>6, <2>7 DEF TapeInv, Placed, Heard, Running
    <2>8. CASE n.deck # "done"
      <3>1. /\ deck' = "gap" /\ block' = block + 1 /\ block + 1 \in 1 .. Len(tape) /\ pos' = 0
            /\ flushed => drv' = SetupNewBlock(block + 1, s1.drv)
        BY <2>2, <2>3, <2>8
      <3>2. good' = 0
        <4>1. res.block # block
          BY <1>1, <1>8, <3>1
        <4> QED
          BY <1>8, <4>1
      <3>3. tape[block + 1] \in TapeBlocks
        BY <1>1, <3>1
      <3>4. tape[block + 1].len \in Nat
        BY <3>3 DEF TapeBlocks
      <3>5. Placed'
        BY <1>8, <3>1, <3>4 DEF Placed
      <3>6. ASSUME ~failed', ~refused
            PROVE  /\ kernel => drv'.tape
                   /\ HasRate(block + 1) /\ tape[block + 1].kind = "data" => drv'.rate = tape[block + 1].rate
        <4>1. s1.drv = drv /\ flushed /\ ~failed
          BY <1>6, <1>7, <1>10, <3>6 DEF start
        <4>2. kernel => drv.tape
          BY <1>1, <3>6, <4>1 DEF TapeInv, Heard, Running
        <4>3. drv \in Drivers
          BY DEF TapeInv, TapeTypeOK
        <4> QED
          BY <1>1, <3>1, <4>1, <4>2, <4>3, SetupKeeps
      <3>7. Heard'
        BY <1>8, <3>1, <3>2, <3>6 DEF Heard, HasRate
      <3> QED
        BY <2>5, <2>6, <3>5, <3>7 DEF TapeInv
    <2> QED
      BY <2>7, <2>8
  <1>13. CASE ~end
    <2>1. res = keep
      BY <1>13
    <2>2. deck' = s1.deck /\ drv' = s1.drv /\ block' = block /\ pos' = pos + MaxTransfer
      BY <1>4, <1>8, <1>13, <2>1
    <2>3. drv' \in Drivers
      BY <1>7, <2>2 DEF Handled
    <2>4. Handled([deck |-> deck, drv |-> drv])'
      BY <1>7, <1>8, <2>2 DEF Handled, Returnable
    <2>5. pos' \in Nat /\ pos' <= tape[block].len
      BY <1>1, <1>4, <1>13, <2>2, TapeAssumption
    <2>6. deck' \in {"playing", "done"}
      BY <1>7, <2>2
    <2>7. TapeTypeOK'
      BY <1>1, <1>8, <1>9, <1>11, <2>2, <2>3, <2>5, <2>6 DEF TapeTypeOK
    <2>8. Placed'
      BY <1>8, <2>2, <2>5 DEF Placed
    <2>9. ASSUME ~failed', ~refused, deck' \in Running
          PROVE  /\ kernel => drv'.tape
                 /\ HasRate(block) => good' = pos' /\ (tape[block].kind = "data" => drv'.rate = tape[block].rate)
                 /\ pos' % 2 = 0
      <3>1. drv' = drv /\ s0.drv = drv /\ sent /\ ~failed
        BY <1>6, <1>7, <1>10, <2>2, <2>9 DEF start
      <3>2. /\ kernel => drv.tape
            /\ HasRate(block) => good = pos /\ (tape[block].kind = "data" => drv.rate = tape[block].rate)
            /\ pos % 2 = 0
        BY <1>1, <2>9, <3>1 DEF TapeInv, Heard, Running
      <3>3. HasRate(block) => SentAsIs(s0.drv, block, pos)
        BY <3>1, <3>2 DEF SentAsIs, FskLevelRight
      <3>4. res.block = block
        BY <2>1
      <3>5. HasRate(block) => good' = good + MaxTransfer
        <4>1. len = MaxTransfer
          BY <1>4, <1>13
        <4>2. good' = IF SentAsIs(s0.drv, block, pos) THEN good + len ELSE good
          BY <1>8, <3>1, <3>4
        <4> QED
          BY <3>3, <4>1, <4>2
      <3>6. (pos + MaxTransfer) % 2 = 0
        BY <1>1, <3>2, TapeAssumption, SumOfEvens
      <3> QED
        BY <2>2, <3>1, <3>2, <3>5, <3>6
    <2>10. Heard'
      BY <1>8, <2>2, <2>6, <2>9 DEF Heard, HasRate
    <2> QED
      BY <2>4, <2>7, <2>8, <2>10 DEF TapeInv
  <1> QED
    BY <1>12, <1>13

\* The keys, the loader and the end of a gap.
LEMMA KeysKeep ==
    ASSUME TapeInv,
           \/ GapEnds \/ Pause \/ Start \/ Quit \/ UNCHANGED tapevars
           \/ \E b \in 1 .. Len(tape) : Seek(b)
           \/ \E f \in TapeFiles : LoadCasImage(f)
    PROVE  TapeInv'
  <1> DEFINE now == [deck |-> deck, drv |-> drv]
  <1>1. /\ tape \in Seq(TapeBlocks) /\ kernel \in BOOLEAN /\ failed \in BOOLEAN
        /\ refused \in BOOLEAN /\ pos \in Nat /\ good \in Nat /\ drv \in Drivers /\ Handled(now)
        /\ deck \in {"unloaded", "paused", "gap", "playing", "done"}
        /\ IF deck = "unloaded" THEN block = 0 ELSE block \in 1 .. Len(tape)
    BY DEF TapeInv, TapeTypeOK
  <1>2. CASE GapEnds
    BY <1>1, <1>2 DEF GapEnds, TapeInv, TapeTypeOK, Handled, Returnable, Placed, Heard, HasRate, Running
  <1>3. CASE UNCHANGED tapevars
    BY <1>3 DEF tapevars, TapeInv, TapeTypeOK, Handled, Returnable, Placed, Heard, HasRate, Running
  <1>4. CASE Pause
    <2>1. deck' = Paused(now).deck /\ drv' = Paused(now).drv /\ UNCHANGED <<tape, block, pos, kernel, good, failed, refused>>
      BY <1>4 DEF Pause
    <2>2. Handled(Paused(now)) /\ deck' = "paused" /\ block \in 1 .. Len(tape)
      BY <1>1, <1>4, <2>1, PausedKeeps DEF Pause, Running
    <2>3. Handled(now)' /\ drv' \in Drivers
      BY <2>1, <2>2 DEF Handled, Returnable
    <2> QED
      BY <1>1, <2>1, <2>2, <2>3 DEF TapeInv, TapeTypeOK, Placed, Heard, Running
  <1>5. CASE Start
    <2> DEFINE set == SetupNewBlock(block, drv)
    <2>1. /\ drv' = StartTapeMode(set) /\ deck' = "gap" /\ pos' = 0 /\ good' = 0 /\ failed' = FALSE
          /\ refused' = (refused \/ (kernel /\ ~drv'.tape))
          /\ UNCHANGED <<tape, block, kernel>> /\ deck \in {"paused", "done"}
      BY <1>5 DEF Start
    <2>2. block \in 1 .. Len(tape) /\ tape[block] \in TapeBlocks
      BY <1>1, <2>1
    <2>3. tape[block].len \in Nat
      BY <2>2 DEF TapeBlocks
    <2>4. kernel => ~drv.tape /\ Returnable(drv)
      BY <1>1, <2>1 DEF Handled, Running
    <2>5. /\ set \in Drivers /\ set.tape = drv.tape
          /\ tape[block].kind = "data" => set.trate = tape[block].rate
          /\ kernel => Returnable(set)
      BY <1>1, <2>2, <2>4, SetupKeeps
    <2> HIDE DEF set
    <2>6. /\ drv' \in Drivers
          /\ kernel /\ drv'.tape => Returnable(drv')
          /\ kernel /\ ~drv'.tape => drv'.rate = StandardRate
          /\ ~kernel \/ drv'.tape => drv'.rate = set.trate
      BY <1>1, <2>1, <2>4, <2>5, StartKeeps
    <2>10. refused' \in BOOLEAN /\ (~refused' => ~refused /\ (kernel => drv'.tape))
      BY <1>1, <2>1
    <2>7. Handled(now)'
      BY <2>1, <2>6 DEF Handled, Returnable, Running
    <2>8. TapeTypeOK'
      BY <1>1, <2>1, <2>2, <2>6, <2>10 DEF TapeTypeOK
    <2>9. Placed' /\ Heard'
      BY <2>1, <2>3, <2>5, <2>6, <2>10 DEF Placed, Heard, HasRate
    <2> QED
      BY <2>7, <2>8, <2>9 DEF TapeInv
  <1>6. ASSUME NEW b \in 1 .. Len(tape), Seek(b)
        PROVE  TapeInv'
    <2> DEFINE p == Paused(now)
    <2>1. /\ deck' = p.deck /\ drv' = SetupNewBlock(b, p.drv) /\ block' = b /\ pos' = 0 /\ good' = 0
          /\ UNCHANGED <<tape, kernel, failed, refused>> /\ deck # "unloaded"
      BY <1>6 DEF Seek
    <2>2. Handled(p) /\ (kernel => ~p.drv.tape) /\ p.deck = IF deck \in Running THEN "paused" ELSE deck
      BY <1>1, PausedKeeps
    <2> HIDE DEF p
    <2>3. p.drv \in Drivers /\ (kernel => Returnable(p.drv))
      BY <2>2 DEF Handled
    <2>4. drv' \in Drivers /\ (kernel => Returnable(drv')) /\ (kernel => ~drv'.tape)
      BY <1>1, <2>1, <2>2, <2>3, SetupKeeps
    <2>5. deck' \in {"paused", "done"}
      BY <1>1, <2>1, <2>2 DEF Running
    <2>6. Handled(now)'
      BY <2>1, <2>4 DEF Handled, Returnable
    <2> QED
      BY <1>1, <2>1, <2>4, <2>5, <2>6 DEF TapeInv, TapeTypeOK, Placed, Heard, Running
  <1>7. ASSUME NEW f \in TapeFiles, LoadCasImage(f)
        PROVE  TapeInv'
    <2>1. /\ tape' = ReadImageFromFile(f).blocks /\ ReadImageFromFile(f).ok
          /\ deck' = "paused" /\ block' = 1 /\ pos' = 0 /\ good' = 0 /\ failed' = FALSE
          /\ UNCHANGED <<kernel, drv, refused>> /\ deck = "unloaded"
      BY <1>7 DEF LoadCasImage
    <2>2. tape' \in Seq(TapeBlocks) /\ tape' # <<>>
      <3>1. tape' \in Seq(TapeBlocks)
        BY <2>1, TapeAssumption
      <3>2. tape' # <<>>
        BY <2>1, Zenon DEF ReadImageFromFile
      <3> QED
        BY <3>1, <3>2
    <2>3. 1 \in 1 .. Len(tape')
      BY <2>2
    <2>4. Handled(now)'
      BY <1>1, <2>1 DEF Handled, Returnable, Running
    <2>5. TapeTypeOK'
      BY <1>1, <2>1, <2>2, <2>3 DEF TapeTypeOK
    <2> QED
      BY <2>1, <2>4, <2>5 DEF TapeInv, Placed, Heard, Running
  <1>8. CASE Quit
    <2> DEFINE a == AbortTapePlayback(now)
    <2>1. /\ deck' = "unloaded" /\ drv' = a.drv /\ tape' = <<>> /\ block' = 0 /\ pos' = 0 /\ good' = 0
          /\ UNCHANGED <<kernel, failed, refused>>
      BY <1>8 DEF Quit
    <2>2. Handled(a) /\ a.deck = "done"
      BY <1>1, AbortKeeps
    <2>3. Handled(now)' /\ drv' \in Drivers
      BY <2>1, <2>2 DEF Handled, Returnable, Running
    <2>4. tape' \in Seq(TapeBlocks)
      BY <2>1
    <2>5. TapeTypeOK'
      BY <1>1, <2>1, <2>3, <2>4 DEF TapeTypeOK
    <2> QED
      BY <2>1, <2>3, <2>5 DEF TapeInv, Placed, Heard, Running
  <1> QED
    BY <1>2, <1>3, <1>4, <1>5, <1>6, <1>7, <1>8
-----------------------------------------------------------------------------
(* The theorems.                                                           *)

LEMMA TapeStep == TapeInv /\ [TapeNext]_tapevars => TapeInv'
  BY PlayKeeps, KeysKeep DEF TapeNext, Playing

\* The deck keeps its types, whatever fails and whichever keys are pressed.
THEOREM TapeTypeCorrect == TapeSpec => []TapeTypeOK
  <1>1. TapeInv => TapeTypeOK
    BY DEF TapeInv
  <1> QED
    BY InitTapeInv, TapeStep, <1>1, PTL DEF TapeSpec

\* As long as no call has failed and tape mode was not refused, what is played of a
\* block that has a rate is what the file says, in tape mode, at that rate and with
\* the levels of an FSK block right at every split.  Whenever the deck does not run,
\* the driver is at the disk drives' rate and out of tape mode, and hears them as
\* before unless it has refused a start.
THEOREM TapeIsSound == TapeSpec => []TapeSound
  <1>1. TapeInv => WholeBlocks
    BY DEF TapeInv, Heard, WholeBlocks, Running
  <1>2. TapeInv => KernelRestored
    BY DEF TapeInv, Handled, Returnable, KernelRestored
  <1>3. TapeInv => TapeSound
    BY <1>1, <1>2 DEF TapeSound
  <1> QED
    BY InitTapeInv, TapeStep, <1>3, PTL DEF TapeSpec
-----------------------------------------------------------------------------
(***************************************************************************)
(* The 1050: the sectors of a track in the order of their places, which    *)
(* adding, formatting and loading keep, the sector GetSector finds, and    *)
(* what the Atari may know of the disk.                                    *)
(***************************************************************************)

-----------------------------------------------------------------------------
(* The time modulo a rotation.                                             *)

LEMMA ModWithin ==
    ASSUME NEW m \in Nat \ {0}, NEW x \in Nat, x < m PROVE x % m = x
  OBVIOUS

LEMMA ModBelow ==
    ASSUME NEW m \in Nat \ {0}, NEW x \in Int, x < 0, x + m >= 0 PROVE x % m = x + m
  OBVIOUS

LEMMA DivMod ==
    ASSUME NEW m \in Nat \ {0}, NEW x \in Nat
    PROVE  x = m * (x \div m) + (x % m) /\ x \div m \in Nat /\ x % m \in 0 .. m - 1
  OBVIOUS

LEMMA DivModUnique ==
    ASSUME NEW m \in Nat \ {0}, NEW x \in Nat, NEW y \in Nat, x \div m = y \div m, x % m = y % m
    PROVE  x = y
  BY DivMod

LEMMA TimesGrows ==
    ASSUME NEW m \in Nat, NEW p \in Nat, NEW q \in Nat, p < q
    PROVE  m * p + m <= m * q
  <1>1. PICK k \in Nat : q = p + 1 + k
    <2>1. q - p - 1 \in Nat /\ q = p + 1 + (q - p - 1)
      OBVIOUS
    <2> QED
      BY <2>1
  <1>2. m * q = m * p + m + m * k /\ m * k \in Nat
    BY <1>1
  <1> QED
    BY <1>2

LEMMA SameModApart ==
    ASSUME NEW m \in Nat \ {0}, NEW a \in Nat, NEW b \in Nat, a % m = b % m, a < b
    PROVE  a + m <= b
  <1>1. /\ a = m * (a \div m) + (a % m) /\ a \div m \in Nat /\ a % m \in 0 .. m - 1
        /\ b = m * (b \div m) + (b % m) /\ b \div m \in Nat
    BY DivMod
  <1>2. PICK p, q, r : p = a \div m /\ q = b \div m /\ r = a % m
    OBVIOUS
  <1>3. /\ p \in Nat /\ q \in Nat /\ r \in Nat /\ a = m * p + r /\ b = m * q + r
    BY <1>1, <1>2
  <1>4. m * p \in Nat /\ m * q \in Nat
    BY <1>3
  <1>5. p < q
    <2>1. q # p
      BY <1>3, <1>4
    <2>2. ~ (q < p)
      BY <1>3, <1>4, TimesGrows
    <2> QED
      BY <1>3, <2>1, <2>2
  <1> QED
    BY <1>3, <1>4, <1>5, TimesGrows

LEMMA ShiftedApart ==
    ASSUME NEW m \in Nat \ {0}, NEW s \in Nat, NEW x \in 0 .. m - 1, NEW y \in 0 .. m - 1, x # y
    PROVE  (s + x) % m # (s + y) % m
  <1> SUFFICES ASSUME (s + x) % m = (s + y) % m PROVE FALSE
    OBVIOUS
  <1>1. PICK a, b : a = s + x /\ b = s + y
    OBVIOUS
  <1>2. a \in Nat /\ b \in Nat /\ a % m = b % m /\ a # b /\ a < b + m /\ b < a + m
    BY <1>1
  <1>3. ASSUME a < b PROVE FALSE
    <2>1. a + m <= b
      BY <1>2, <1>3, SameModApart
    <2> QED
      BY <1>2, <2>1
  <1>4. ASSUME b < a PROVE FALSE
    <2>1. b + m <= a
      BY <1>2, <1>4, SameModApart
    <2> QED
      BY <1>2, <2>1
  <1> QED
    BY <1>2, <1>3, <1>4

-----------------------------------------------------------------------------
(* Adding a sector to a track.                                             *)

MinIsLeast(T) == Min(T) \in T /\ \A y \in T : Min(T) <= y

LEMMA MinOfMany ==
    ASSUME NEW T, T \subseteq Nat, T # {}
    PROVE  MinIsLeast(T)
  <1>1. \E x \in T : \A y \in T : x <= y
    BY LeastOfMany
  <1> QED
    BY <1>1 DEF Min, MinIsLeast

\* What InsertAt does, place by place.
Inserted(r, secs, p, x) ==
    /\ Len(r) = Len(secs) + 1
    /\ \A i \in 1 .. Len(r) : r[i] = IF i < p THEN secs[i] ELSE IF i = p THEN x ELSE secs[i - 1]

LEMMA InsertAtIs ==
    ASSUME NEW A, NEW secs \in Seq(A), NEW x \in A, NEW p \in 1 .. Len(secs) + 1
    PROVE  InsertAt(secs, p, x) \in Seq(A) /\ Inserted(InsertAt(secs, p, x), secs, p, x)
  <1>1. PICK u, w : u = SubSeq(secs, 1, p - 1) /\ w = SubSeq(secs, p, Len(secs))
    OBVIOUS
  <1>2. /\ u \in Seq(A) /\ Len(u) = p - 1 /\ \A i \in 1 .. p - 1 : u[i] = secs[i]
    BY <1>1
  <1>3. w \in Seq(A) /\ Len(w) = Len(secs) - p + 1 /\ \A i \in 1 .. Len(secs) - p + 1 : w[i] = secs[p + i - 1]
    BY <1>1
  <1>4. PICK v : v = u \o <<x>>
    OBVIOUS
  <1>5. v \in Seq(A) /\ Len(v) = p /\ v[p] = x /\ \A i \in 1 .. p - 1 : v[i] = secs[i]
    BY <1>2, <1>4
  <1>6. PICK r : r = v \o w
    OBVIOUS
  <1>7. r \in Seq(A) /\ Len(r) = Len(secs) + 1
    <2>1. r \in Seq(A) /\ Len(r) = Len(v) + Len(w)
      BY <1>3, <1>5, <1>6, ConcatProperties
    <2> QED
      BY <1>3, <1>5, <2>1
  <1>8. \A i \in 1 .. Len(r) : r[i] = IF i < p THEN secs[i] ELSE IF i = p THEN x ELSE secs[i - 1]
    <2> SUFFICES ASSUME NEW i \in 1 .. Len(r)
                 PROVE  r[i] = IF i < p THEN secs[i] ELSE IF i = p THEN x ELSE secs[i - 1]
      OBVIOUS
    <2>1. CASE i <= p
      <3>1. r[i] = v[i]
        BY <1>3, <1>5, <1>6, <2>1
      <3> QED
        BY <1>5, <2>1, <3>1
    <2>2. CASE i > p
      <3>1. r[i] = w[i - p] /\ i - p \in 1 .. Len(secs) - p + 1
        BY <1>3, <1>5, <1>6, <1>7, <2>2
      <3>2. w[i - p] = secs[p + (i - p) - 1]
        BY <1>3, <3>1
      <3> QED
        BY <2>2, <3>1, <3>2
    <2> QED
      BY <2>1, <2>2
  <1>9. InsertAt(secs, p, x) = r
    BY <1>1, <1>4, <1>6 DEF InsertAt
  <1> QED
    BY <1>7, <1>8, <1>9 DEF Inserted

LEMMA PosIsInt ==
    ASSUME NEW s \in AtpSectors
    PROVE  s.pos \in 0 .. Rotation - 1 /\ s.pos \in Int
  <1>1. Rotation \in Nat
    BY AtpAssumption
  <1>2. s.pos \in 0 .. Rotation - 1
    BY DEF AtpSectors
  <1> QED
    BY <1>1, <1>2

LEMMA PlacesOf ==
    ASSUME NEW secs \in Seq(AtpSectors)
    PROVE  DOMAIN secs = 1 .. Len(secs) /\ \A i \in DOMAIN secs : secs[i] \in AtpSectors /\ secs[i].pos \in Int
  <1>1. DOMAIN secs = 1 .. Len(secs) /\ \A i \in DOMAIN secs : secs[i] \in AtpSectors
    OBVIOUS
  <1> QED
    BY <1>1, PosIsInt

\* The place AddSector chooses.
Place(secs, s) ==
    LET after == {i \in DOMAIN secs : secs[i].pos > s.pos}
    IN  IF after = {} THEN Len(secs) + 1 ELSE Min(after)

\* A track of sound sectors and one more.
LEMMA PlaceIs ==
    ASSUME NEW secs \in Seq(AtpSectors), Growing(secs), NEW s \in AtpSectors
    PROVE  /\ Place(secs, s) \in 1 .. Len(secs) + 1
           /\ \A i \in DOMAIN secs : i < Place(secs, s) => secs[i].pos <= s.pos
           /\ \A i \in DOMAIN secs : i >= Place(secs, s) => secs[i].pos > s.pos
  <1> DEFINE after == {i \in DOMAIN secs : secs[i].pos > s.pos}
  <1>1. Place(secs, s) = IF after = {} THEN Len(secs) + 1 ELSE Min(after)
    BY DEF Place
  <1>2. after \subseteq Nat /\ DOMAIN secs = 1 .. Len(secs)
    OBVIOUS
  <1>3. s.pos \in Int /\ \A i \in DOMAIN secs : secs[i].pos \in Int
    BY PosIsInt, PlacesOf
  <1>4. CASE after = {}
    BY <1>1, <1>2, <1>3, <1>4
  <1>5. CASE after # {}
    <2>1. PICK p : p = Min(after)
      OBVIOUS
    <2>2. p \in after /\ \A i \in after : p <= i
      <3> HIDE DEF after
      <3> QED
        BY <1>2, <1>5, <2>1, MinOfMany DEF MinIsLeast
    <2>3. Place(secs, s) = p /\ p \in 1 .. Len(secs) /\ p \in DOMAIN secs /\ secs[p].pos > s.pos
      BY <1>1, <1>2, <1>5, <2>1, <2>2
    <2>4. ASSUME NEW i \in DOMAIN secs, i < p PROVE secs[i].pos <= s.pos
      BY <1>2, <1>3, <2>2, <2>3, <2>4
    <2>5. ASSUME NEW i \in DOMAIN secs, i >= p PROVE secs[i].pos > s.pos
      <3>1. CASE i = p
        BY <2>3, <3>1
      <3>2. CASE i # p
        <4>1. secs[p].pos < secs[i].pos
          BY <1>2, <2>3, <2>5, <3>2 DEF Growing
        <4> QED
          BY <1>3, <2>3, <4>1
      <3> QED
        BY <3>1, <3>2
    <2> QED
      BY <2>3, <2>4, <2>5
  <1> QED
    BY <1>4, <1>5

LEMMA AddSectorGrows ==
    ASSUME NEW secs \in Seq(AtpSectors), Growing(secs), NEW s \in AtpSectors,
           \A i \in DOMAIN secs : secs[i].pos # s.pos
    PROVE  /\ AddSector(secs, s) \in Seq(AtpSectors) /\ Growing(AddSector(secs, s))
           /\ \A i \in DOMAIN AddSector(secs, s) :
                 AddSector(secs, s)[i] = s \/ \E k \in DOMAIN secs : AddSector(secs, s)[i] = secs[k]
  <1>1. PICK p : p = Place(secs, s)
    OBVIOUS
  <1>2. PICK r : r = AddSector(secs, s)
    OBVIOUS
  <1>3. r = InsertAt(secs, p, s)
    BY <1>1, <1>2 DEF AddSector, Place
  <1>4. /\ p \in 1 .. Len(secs) + 1
        /\ \A i \in DOMAIN secs : i < p => secs[i].pos <= s.pos
        /\ \A i \in DOMAIN secs : i >= p => secs[i].pos > s.pos
    BY <1>1, PlaceIs
  <1>5. r \in Seq(AtpSectors) /\ Inserted(r, secs, p, s)
    BY <1>3, <1>4, InsertAtIs
  <1>6. /\ DOMAIN secs = 1 .. Len(secs) /\ DOMAIN r = 1 .. Len(r) /\ Len(r) = Len(secs) + 1
        /\ s.pos \in Int /\ \A i \in DOMAIN secs : secs[i].pos \in Int
    BY <1>5, PosIsInt, PlacesOf DEF Inserted
  <1>7. ASSUME NEW i \in DOMAIN r
        PROVE  \/ i < p /\ i \in DOMAIN secs /\ r[i] = secs[i]
               \/ i = p /\ r[i] = s
               \/ i > p /\ i - 1 \in DOMAIN secs /\ r[i] = secs[i - 1]
    BY <1>4, <1>5, <1>6 DEF Inserted
  <1>8. ASSUME NEW i \in DOMAIN r, NEW j \in DOMAIN r, i < j PROVE r[i].pos < r[j].pos
    <2>1. i \in Int /\ j \in Int /\ p \in Int
      BY <1>4, <1>6
    <2>2. CASE i < p /\ j < p
      <3>1. r[i] = secs[i] /\ r[j] = secs[j] /\ i \in DOMAIN secs /\ j \in DOMAIN secs
        BY <1>7, <2>1, <2>2
      <3> QED
        BY <1>8, <3>1 DEF Growing
    <2>3. CASE i < p /\ j = p
      <3>1. r[i] = secs[i] /\ r[j] = s /\ i \in DOMAIN secs
        BY <1>7, <2>1, <2>3
      <3>2. secs[i].pos <= s.pos /\ secs[i].pos # s.pos
        BY <1>4, <2>3, <3>1
      <3> QED
        BY <1>6, <3>1, <3>2
    <2>4. CASE i < p /\ j > p
      <3>1. r[i] = secs[i] /\ r[j] = secs[j - 1] /\ i \in DOMAIN secs /\ j - 1 \in DOMAIN secs
        BY <1>7, <2>1, <2>4
      <3>2. i < j - 1
        BY <2>1, <2>4
      <3> QED
        BY <3>1, <3>2 DEF Growing
    <2>5. CASE i = p
      <3>1. r[i] = s /\ r[j] = secs[j - 1] /\ j - 1 \in DOMAIN secs /\ j - 1 >= p
        BY <1>7, <1>8, <2>1, <2>5
      <3> QED
        BY <1>4, <1>6, <3>1
    <2>6. CASE i > p
      <3>1. r[i] = secs[i - 1] /\ r[j] = secs[j - 1] /\ i - 1 \in DOMAIN secs /\ j - 1 \in DOMAIN secs /\ i - 1 < j - 1
        BY <1>7, <1>8, <2>1, <2>6
      <3> QED
        BY <3>1 DEF Growing
    <2> QED
      BY <1>8, <2>1, <2>2, <2>3, <2>4, <2>5, <2>6
  <1>9. Growing(r)
    BY <1>8 DEF Growing
  <1>10. \A i \in DOMAIN r : r[i] = s \/ \E k \in DOMAIN secs : r[i] = secs[k]
    BY <1>7
  <1> QED
    BY <1>2, <1>5, <1>9, <1>10

LEMMA AddSectorIsSeq ==
    ASSUME NEW secs \in Seq(AtpSectors), NEW s \in AtpSectors
    PROVE  AddSector(secs, s) \in Seq(AtpSectors)
  <1> DEFINE after == {i \in DOMAIN secs : secs[i].pos > s.pos}
             p     == IF after = {} THEN Len(secs) + 1 ELSE Min(after)
  <1>1. after \subseteq DOMAIN secs /\ DOMAIN secs = 1 .. Len(secs) /\ after \subseteq Nat
    OBVIOUS
  <1>2. AddSector(secs, s) = InsertAt(secs, p, s)
    BY DEF AddSector
  <1> HIDE DEF after
  <1>3. after # {} => Min(after) \in after
    BY <1>1, MinOfMany DEF MinIsLeast
  <1>4. p \in 1 .. Len(secs) + 1
    BY <1>1, <1>3
  <1> QED
    BY <1>2, <1>4, InsertAtIs

AddedBy(f, secs) ==
    /\ f = [n \in 0 .. Len(secs) |-> f[n]] /\ f[0] = <<>>
    /\ \A n \in 1 .. Len(secs) : f[n] = AddSector(f[n - 1], secs[n])
    /\ \A n \in 0 .. Len(secs) : f[n] \in Seq(AtpSectors)

LEMMA AddedExists ==
    ASSUME NEW secs \in Seq(AtpSectors)
    PROVE  \E f : AddedBy(f, secs)
  <1> DEFINE V    == Seq(AtpSectors)
             next == [n \in 1 .. Len(secs) |-> [v \in V |-> AddSector(v, secs[n])]]
  <1>1. \A n \in 1 .. Len(secs), v \in V : next[n][v] = AddSector(v, secs[n])
    OBVIOUS
  <1>2. <<>> \in V /\ Len(secs) \in Nat
    OBVIOUS
  <1>3. \A n \in 1 .. Len(secs), v \in V : AddSector(v, secs[n]) \in V
    <2>1. \A n \in 1 .. Len(secs) : secs[n] \in AtpSectors
      OBVIOUS
    <2> QED
      BY <2>1, AddSectorIsSeq
  <1> HIDE DEF next
  <1>4. \A n \in 1 .. Len(secs), v \in V : next[n][v] \in V
    BY <1>1, <1>3
  <1> HIDE DEF V
  <1>5. PICK f : Recurs(f, V, <<>>, Len(secs), next)
    BY <1>2, <1>4, Recursion
  <1>6. /\ f = [n \in 0 .. Len(secs) |-> f[n]] /\ f[0] = <<>>
        /\ \A n \in 0 .. Len(secs) : f[n] \in V
    BY <1>5 DEF Recurs
  <1>7. ASSUME NEW n \in 1 .. Len(secs) PROVE f[n] = AddSector(f[n - 1], secs[n])
    <2>1. n - 1 \in 0 .. Len(secs)
      BY <1>2
    <2>2. f[n - 1] \in V /\ f[n] = next[n][f[n - 1]]
      BY <1>5, <2>1 DEF Recurs
    <2> QED
      BY <1>1, <2>2
  <1> QED
    BY <1>6, <1>7 DEF AddedBy, V

LEMMA AddedIs ==
    ASSUME NEW secs \in Seq(AtpSectors)
    PROVE  \E f : AddedBy(f, secs) /\ Added(secs) = f[Len(secs)]
  <1> DEFINE upto[n \in 0 .. Len(secs)] == IF n = 0 THEN <<>> ELSE AddSector(upto[n - 1], secs[n])
  <1>1. Added(secs) = upto[Len(secs)]
    BY DEF Added
  <1>2. PICK f : AddedBy(f, secs)
    BY AddedExists
  <1>3. f = [n \in 0 .. Len(secs) |-> IF n = 0 THEN <<>> ELSE AddSector(f[n - 1], secs[n])]
    <2>1. ASSUME NEW n \in 0 .. Len(secs)
          PROVE  f[n] = IF n = 0 THEN <<>> ELSE AddSector(f[n - 1], secs[n])
      <3>1. n = 0 \/ n \in 1 .. Len(secs)
        OBVIOUS
      <3> QED
        BY <1>2, <3>1 DEF AddedBy
    <2> QED
      BY <1>2, <2>1 DEF AddedBy
  <1>4. upto = [n \in 0 .. Len(secs) |-> IF n = 0 THEN <<>> ELSE AddSector(upto[n - 1], secs[n])]
    BY <1>3, Zenon
  <1> HIDE DEF upto
  <1>5. /\ upto[0] = <<>>
        /\ \A n \in 1 .. Len(secs) : upto[n] = AddSector(upto[n - 1], secs[n])
    <2> DEFINE Step(n) == IF n = 0 THEN <<>> ELSE AddSector(upto[n - 1], secs[n])
    <2>1. upto = [n \in 0 .. Len(secs) |-> Step(n)]
      BY <1>4
    <2> HIDE DEF Step
    <2>2. \A n \in 0 .. Len(secs) : upto[n] = Step(n)
      BY <2>1
    <2>3. upto[0] = Step(0) /\ 0 \in 0 .. Len(secs)
      BY <2>2
    <2>4. ASSUME NEW n \in 1 .. Len(secs) PROVE upto[n] = AddSector(upto[n - 1], secs[n])
      <3>1. upto[n] = Step(n) /\ n # 0
        BY <2>2
      <3> QED
        BY <3>1 DEF Step
    <2> QED
      BY <2>3, <2>4 DEF Step
  <1>6. upto[Len(secs)] = f[Len(secs)]
    <2> DEFINE S == {n \in Nat : n <= Len(secs) => upto[n] = f[n]}
    <2>1. 0 \in S
      BY <1>2, <1>5 DEF AddedBy
    <2>2. ASSUME NEW n \in Nat, n \in S PROVE n + 1 \in S
      <3> SUFFICES ASSUME n + 1 <= Len(secs) PROVE upto[n + 1] = f[n + 1]
        OBVIOUS
      <3>1. PICK m : m = n + 1
        OBVIOUS
      <3>2. m \in 1 .. Len(secs) /\ upto[m - 1] = f[m - 1]
        BY <2>2, <3>1
      <3>3. upto[m] = f[m]
        BY <1>2, <1>5, <3>2 DEF AddedBy
      <3> QED
        BY <3>1, <3>3
    <2> HIDE DEF S
    <2>3. Len(secs) \in S
      BY <2>1, <2>2, SetInduction
    <2> QED
      BY <2>3 DEF S
  <1> QED
    BY <1>1, <1>2, <1>6

\* A track that is built of sectors at different positions is in order and has
\* nothing but these.
PickedFrom(r, secs, n) == \A i \in DOMAIN r : \E k \in 1 .. n : r[i] = secs[k]

LEMMA AddedGrows ==
    ASSUME NEW secs \in Seq(AtpSectors), \A i, j \in DOMAIN secs : i # j => secs[i].pos # secs[j].pos
    PROVE  /\ Added(secs) \in Seq(AtpSectors) /\ Growing(Added(secs))
           /\ PickedFrom(Added(secs), secs, Len(secs))
  <1>1. PICK f : AddedBy(f, secs) /\ Added(secs) = f[Len(secs)]
    BY AddedIs
  <1> DEFINE S == {n \in Nat : n <= Len(secs) => Growing(f[n]) /\ PickedFrom(f[n], secs, n)}
  <1>2. 0 \in S
    <2>1. f[0] = <<>>
      BY <1>1 DEF AddedBy
    <2> QED
      BY <2>1 DEF Growing, PickedFrom
  <1>3. ASSUME NEW n \in Nat, n \in S PROVE n + 1 \in S
    <2> SUFFICES ASSUME n + 1 <= Len(secs) PROVE Growing(f[n + 1]) /\ PickedFrom(f[n + 1], secs, n + 1)
      OBVIOUS
    <2>1. PICK m, u, s : m = n + 1 /\ u = f[n] /\ s = secs[n + 1]
      OBVIOUS
    <2>2. m \in 1 .. Len(secs) /\ m - 1 = n /\ n \in 0 .. Len(secs) /\ DOMAIN secs = 1 .. Len(secs)
      BY <2>1
    <2>3. f[m] = AddSector(u, s) /\ u \in Seq(AtpSectors) /\ s \in AtpSectors
      <3>1. s = secs[m] /\ u = f[m - 1]
        BY <2>1, <2>2
      <3>2. f[m] = AddSector(f[m - 1], secs[m]) /\ f[n] \in Seq(AtpSectors)
        BY <1>1, <2>2 DEF AddedBy
      <3>3. secs[m] \in AtpSectors
        BY <2>2
      <3> QED
        BY <2>1, <3>1, <3>2, <3>3
    <2>4. Growing(u) /\ PickedFrom(u, secs, n)
      BY <1>3, <2>1, <2>2
    <2>5. \A i \in DOMAIN u : u[i].pos # s.pos
      <3> SUFFICES ASSUME NEW i \in DOMAIN u PROVE u[i].pos # s.pos
        OBVIOUS
      <3>1. PICK k \in 1 .. n : u[i] = secs[k]
        BY <2>4 DEF PickedFrom
      <3>2. k \in DOMAIN secs /\ m \in DOMAIN secs /\ k # m
        BY <2>1, <2>2
      <3> QED
        BY <2>1, <3>1, <3>2
    <2>6. /\ Growing(f[m])
          /\ \A i \in DOMAIN f[m] : f[m][i] = s \/ \E k \in DOMAIN u : f[m][i] = u[k]
      BY <2>3, <2>4, <2>5, AddSectorGrows
    <2>7. PickedFrom(f[m], secs, m)
      <3> SUFFICES ASSUME NEW i \in DOMAIN f[m] PROVE \E k \in 1 .. m : f[m][i] = secs[k]
        BY DEF PickedFrom
      <3>1. CASE f[m][i] = s
        BY <2>1, <2>2, <3>1
      <3>2. CASE f[m][i] # s
        <4>1. PICK k \in DOMAIN u : f[m][i] = u[k]
          BY <2>6, <3>2
        <4>2. PICK j \in 1 .. n : u[k] = secs[j]
          BY <2>4 DEF PickedFrom
        <4> QED
          BY <2>1, <4>1, <4>2
      <3> QED
        BY <3>1, <3>2
    <2> QED
      BY <2>1, <2>6, <2>7
  <1> HIDE DEF S
  <1>4. Len(secs) \in S
    BY <1>2, <1>3, SetInduction
  <1>5. f[Len(secs)] \in Seq(AtpSectors)
    BY <1>1 DEF AddedBy
  <1>6. Growing(f[Len(secs)]) /\ PickedFrom(f[Len(secs)], secs, Len(secs))
    BY <1>4 DEF S
  <1> QED
    BY <1>1, <1>5, <1>6

\* Sectors without a position stay in their order.
LEMMA AddedInOrder ==
    ASSUME NEW secs \in Seq(AtpSectors), \A i \in DOMAIN secs : secs[i].pos = 0
    PROVE  Added(secs) = secs
  <1>1. PICK f : AddedBy(f, secs) /\ Added(secs) = f[Len(secs)]
    BY AddedIs
  <1> DEFINE S == {n \in Nat : n <= Len(secs) => f[n] = SubSeq(secs, 1, n)}
  <1>2. 0 \in S
    <2>1. f[0] = <<>>
      BY <1>1 DEF AddedBy
    <2>2. SubSeq(secs, 1, 0) = <<>>
      BY SubSeqEmpty
    <2> QED
      BY <2>1, <2>2
  <1>3. ASSUME NEW n \in Nat, n \in S PROVE n + 1 \in S
    <2> SUFFICES ASSUME n + 1 <= Len(secs) PROVE f[n + 1] = SubSeq(secs, 1, n + 1)
      OBVIOUS
    <2>1. PICK m, u, s : m = n + 1 /\ u = f[n] /\ s = secs[n + 1]
      OBVIOUS
    <2>2. m \in 1 .. Len(secs) /\ m - 1 = n /\ n \in 0 .. Len(secs) /\ DOMAIN secs = 1 .. Len(secs)
      BY <2>1
    <2>3. f[m] = AddSector(u, s) /\ u \in Seq(AtpSectors) /\ s \in AtpSectors /\ s.pos = 0
      <3>1. s = secs[m] /\ u = f[m - 1]
        BY <2>1, <2>2
      <3>2. f[m] = AddSector(f[m - 1], secs[m]) /\ f[n] \in Seq(AtpSectors)
        BY <1>1, <2>2 DEF AddedBy
      <3>3. secs[m] \in AtpSectors /\ secs[m].pos = 0
        BY <2>2
      <3> QED
        BY <2>1, <3>1, <3>2, <3>3
    <2>4. u = SubSeq(secs, 1, n) /\ Len(u) = n
      BY <1>3, <2>1, <2>2
    <2>5. \A i \in DOMAIN u : u[i].pos = 0
      BY <2>2, <2>3, <2>4
    <2>6. AddSector(u, s) = InsertAt(u, Len(u) + 1, s)
      <3>1. {i \in DOMAIN u : u[i].pos > s.pos} = {}
        BY <2>3, <2>5
      <3> QED
        BY <3>1 DEF AddSector
    <2>7. InsertAt(u, Len(u) + 1, s) \in Seq(AtpSectors) /\ Inserted(InsertAt(u, Len(u) + 1, s), u, Len(u) + 1, s)
      <3>1. Len(u) + 1 \in 1 .. Len(u) + 1
        BY <2>2, <2>4
      <3> QED
        BY <2>3, <3>1, InsertAtIs
    <2>8. PICK r : r = InsertAt(u, Len(u) + 1, s)
      OBVIOUS
    <2>9. /\ r \in Seq(AtpSectors) /\ Len(r) = m
          /\ \A i \in 1 .. m : r[i] = secs[i]
      <3>1. r \in Seq(AtpSectors) /\ Len(r) = m
        BY <2>1, <2>4, <2>7, <2>8 DEF Inserted
      <3>2. ASSUME NEW i \in 1 .. m PROVE r[i] = secs[i]
        <4>1. r[i] = IF i < Len(u) + 1 THEN u[i] ELSE IF i = Len(u) + 1 THEN s ELSE u[i - 1]
          BY <2>7, <2>8, <3>1 DEF Inserted
        <4>2. CASE i < m
          <5>1. i \in 1 .. n /\ u[i] = secs[i]
            BY <2>1, <2>2, <2>4, <4>2
          <5> QED
            BY <2>1, <2>2, <2>4, <4>1, <5>1
        <4>3. CASE i = m
          BY <2>1, <2>2, <2>4, <4>1, <4>3
        <4> QED
          BY <2>2, <4>2, <4>3
      <3> QED
        BY <3>1, <3>2
    <2>10. /\ SubSeq(secs, 1, m) \in Seq(AtpSectors) /\ Len(SubSeq(secs, 1, m)) = m
           /\ \A i \in 1 .. m : SubSeq(secs, 1, m)[i] = secs[i]
      BY <2>2
    <2>11. r = SubSeq(secs, 1, m)
      BY <2>9, <2>10, SeqEqual
    <2> QED
      BY <2>1, <2>3, <2>6, <2>8, <2>11
  <1> HIDE DEF S
  <1>4. Len(secs) \in S
    BY <1>2, <1>3, SetInduction
  <1>5. f[Len(secs)] = SubSeq(secs, 1, Len(secs))
    BY <1>4 DEF S
  <1> QED
    BY <1>1, <1>5, SubSeqFull

-----------------------------------------------------------------------------
(* Tracks.                                                                 *)

TrackOK(t) ==
    /\ t = [density |-> t.density, sectors |-> t.sectors]
    /\ t.density \in Densities /\ t.sectors \in Seq(AtpSectors) /\ Growing(t.sectors)

\* The way the disk turns from one position to another.
Ahead(at, now) == IF at >= now THEN at - now ELSE at - now + Rotation

LEMMA AheadIs ==
    ASSUME NEW at \in 0 .. Rotation - 1, NEW now \in 0 .. Rotation - 1
    PROVE  (at - now) % Rotation = Ahead(at, now)
  <1>1. Rotation \in Nat \ {0}
    BY AtpAssumption
  <1>2. CASE at >= now
    <2>1. at - now \in Nat /\ at - now < Rotation
      BY <1>1, <1>2
    <2> QED
      BY <1>1, <1>2, <2>1, ModWithin DEF Ahead
  <1>3. CASE ~ (at >= now)
    <2>1. at - now \in Int /\ at - now < 0 /\ at - now + Rotation >= 0
      BY <1>1, <1>3
    <2> QED
      BY <1>1, <1>3, <2>1, ModBelow DEF Ahead
  <1> QED
    BY <1>2, <1>3

\* The steps of the list from one sector to another, once around.
StepsTo(i, from, n) == IF i >= from THEN i - from ELSE i - from + n

LEMMA StepsIs ==
    ASSUME NEW n \in Nat \ {0}, NEW i \in 1 .. n, NEW from \in 1 .. n
    PROVE  (i - from) % n = StepsTo(i, from, n)
  <1>1. CASE i >= from
    <2>1. i - from \in Nat /\ i - from < n
      BY <1>1
    <2> QED
      BY <1>1, <2>1, ModWithin DEF StepsTo
  <1>2. CASE ~ (i >= from)
    <2>1. i - from \in Int /\ i - from < 0 /\ i - from + n >= 0
      BY <1>2
    <2> QED
      BY <1>2, <2>1, ModBelow DEF StepsTo
  <1> QED
    BY <1>1, <1>2

LEMMA StepsOrder ==
    ASSUME NEW n \in Nat \ {0}, NEW i \in 1 .. n, NEW j \in 1 .. n, NEW from \in 1 .. n,
           StepsTo(i, from, n) <= StepsTo(j, from, n)
    PROVE  /\ i < j => i >= from \/ j < from
           /\ j < i => i >= from /\ j < from
  BY DEF StepsTo

\* GetSector looks through the list from the sector that comes first.
ComesFirst(secs, now) ==
    LET ahead == {i \in DOMAIN secs : secs[i].pos >= now} IN IF ahead = {} THEN 1 ELSE Min(ahead)

FirstOf(i, secs, id, from) ==
    /\ i \in DOMAIN secs /\ secs[i].id = id
    /\ \A k \in DOMAIN secs : secs[k].id = id => (i - from) % Len(secs) <= (k - from) % Len(secs)

LEMMA GetSectorFinds ==
    ASSUME NEW secs \in Seq(AtpSectors), NEW id, NEW now, NEW j \in DOMAIN secs, secs[j].id = id
    PROVE  /\ ComesFirst(secs, now) \in DOMAIN secs
           /\ FirstOf(GetSector(secs, id, now), secs, id, ComesFirst(secs, now))
  <1> DEFINE ahead == {i \in DOMAIN secs : secs[i].pos >= now}
             hits  == {i \in DOMAIN secs : secs[i].id = id}
  <1>1. PICK n, from : n = Len(secs) /\ from = ComesFirst(secs, now)
    OBVIOUS
  <1>2. DOMAIN secs = 1 .. n /\ n \in Nat \ {0} /\ hits \subseteq 1 .. n /\ j \in hits
    BY <1>1
  <1>3. from \in 1 .. n
    <2>1. from = IF ahead = {} THEN 1 ELSE Min(ahead)
      BY <1>1 DEF ComesFirst
    <2>2. ahead \subseteq 1 .. n /\ ahead \subseteq Nat
      BY <1>2
    <2> HIDE DEF ahead
    <2>3. ahead # {} => Min(ahead) \in ahead
      BY <2>2, MinOfMany DEF MinIsLeast
    <2> QED
      BY <1>2, <2>1, <2>2, <2>3
  <1>4. GetSector(secs, id, now) =
          IF hits = {} THEN 0 ELSE CHOOSE i \in hits : \A k \in hits : (i - from) % n <= (k - from) % n
    BY <1>1 DEF GetSector, ComesFirst
  <1>5. \E i \in hits : \A k \in hits : (i - from) % n <= (k - from) % n
    <2> DEFINE T == {(i - from) % n : i \in hits}
    <2>1. \A i \in hits : (i - from) % n = StepsTo(i, from, n) /\ i \in 1 .. n
      BY <1>2, <1>3, StepsIs
    <2>2. \A i \in 1 .. n : StepsTo(i, from, n) \in Nat
      BY <1>2, <1>3 DEF StepsTo
    <2>3. T \subseteq Nat /\ T # {}
      BY <1>2, <2>1, <2>2
    <2>4. PICK x \in T : \A y \in T : x <= y
      <3> HIDE DEF T
      <3> QED
        BY <2>3, LeastOfMany
    <2>5. PICK i \in hits : x = (i - from) % n
      BY <2>4
    <2>6. \A k \in hits : (k - from) % n \in T
      OBVIOUS
    <2> QED
      BY <2>4, <2>5, <2>6
  <1> HIDE DEF hits
  <1>6. PICK i : i = GetSector(secs, id, now)
    OBVIOUS
  <1>7. i \in hits /\ \A k \in hits : (i - from) % n <= (k - from) % n
    BY <1>2, <1>4, <1>5, <1>6
  <1>8. FirstOf(i, secs, id, from)
    BY <1>1, <1>7 DEF hits, FirstOf
  <1> QED
    BY <1>1, <1>2, <1>3, <1>6, <1>8

\* What GetSector finds is the next of its number in the list, and thereby in time.
LEMMA GetSectorNearest ==
    ASSUME NEW secs \in Seq(AtpSectors), Growing(secs), NEW id, NEW now \in 0 .. Rotation - 1,
           NEW j \in DOMAIN secs, secs[j].id = id
    PROVE  LET i == GetSector(secs, id, now)
           IN  i # 0 /\ (secs[i].pos - now) % Rotation <= (secs[j].pos - now) % Rotation
  <1> DEFINE ahead == {i \in DOMAIN secs : secs[i].pos >= now}
  <1>1. PICK n, from : n = Len(secs) /\ from = ComesFirst(secs, now)
    OBVIOUS
  <1>2. DOMAIN secs = 1 .. n /\ n \in Nat \ {0} /\ j \in 1 .. n
    BY <1>1
  <1>3. \A i \in 1 .. n : secs[i].pos \in Int /\ secs[i].pos \in 0 .. Rotation - 1
    BY <1>2, PosIsInt, PlacesOf
  <1>4. now \in Int /\ Rotation \in Int
    BY AtpAssumption
  <1>5. from = IF ahead = {} THEN 1 ELSE Min(ahead)
    BY <1>1 DEF ComesFirst
  <1>6. /\ from \in 1 .. n
        /\ \A i \in 1 .. n : i >= from /\ ahead # {} => secs[i].pos >= now
        /\ \A i \in 1 .. n : i < from \/ ahead = {} => secs[i].pos < now
        /\ ahead = {} => from = 1
    <2>1. CASE ahead = {}
      BY <1>2, <1>3, <1>4, <1>5, <2>1
    <2>2. CASE ahead # {}
      <3>1. ahead \subseteq Nat
        BY <1>2
      <3>2. from \in ahead /\ \A i \in ahead : from <= i
        <4> HIDE DEF ahead
        <4> QED
          BY <1>5, <2>2, <3>1, MinOfMany DEF MinIsLeast
      <3>3. from \in 1 .. n /\ secs[from].pos >= now
        BY <1>2, <3>2
      <3>4. ASSUME NEW i \in 1 .. n, i >= from PROVE secs[i].pos >= now
        <4>1. i = from \/ secs[from].pos < secs[i].pos
          BY <1>2, <3>3, <3>4 DEF Growing
        <4> QED
          BY <1>3, <1>4, <3>3, <4>1
      <3>5. ASSUME NEW i \in 1 .. n, i < from PROVE secs[i].pos < now
        <4>1. i \notin ahead
          BY <3>2, <3>3, <3>5
        <4> QED
          BY <1>2, <1>3, <1>4, <4>1
      <3> QED
        BY <2>2, <3>3, <3>4, <3>5
    <2> QED
      BY <2>1, <2>2
  <1> HIDE DEF ahead
  <1>9. PICK i : i = GetSector(secs, id, now)
    OBVIOUS
  <1>10. FirstOf(i, secs, id, from)
    BY <1>1, <1>9, GetSectorFinds
  <1>11. i \in 1 .. n /\ secs[i].id = id /\ (i - from) % n <= (j - from) % n
    BY <1>1, <1>2, <1>10 DEF FirstOf
  <1>12. StepsTo(i, from, n) <= StepsTo(j, from, n)
    BY <1>2, <1>6, <1>11, StepsIs
  <1>13. PICK p, q : p = secs[i].pos /\ q = secs[j].pos
    OBVIOUS
  <1>14. /\ p \in 0 .. Rotation - 1 /\ q \in 0 .. Rotation - 1 /\ p \in Int /\ q \in Int
         /\ i < j => p < q
         /\ j < i => q < p
    BY <1>2, <1>3, <1>11, <1>13 DEF Growing
  <1>15. Ahead(p, now) <= Ahead(q, now)
    <2>1. CASE i = j
      <3>1. p = q
        BY <1>13, <2>1
      <3> QED
        BY <1>4, <1>14, <3>1 DEF Ahead
    <2>2. CASE i < j
      <3>1. i >= from \/ j < from
        BY <1>2, <1>6, <1>11, <1>12, <2>2, StepsOrder
      <3>2. \/ p >= now /\ q >= now
            \/ p < now /\ q < now
        BY <1>2, <1>6, <1>11, <1>13, <2>2, <3>1
      <3> QED
        BY <1>4, <1>14, <2>2, <3>2 DEF Ahead
    <2>3. CASE j < i
      <3>1. i >= from /\ j < from
        BY <1>2, <1>6, <1>11, <1>12, <2>3, StepsOrder
      <3>2. ahead # {}
        BY <1>2, <1>6, <3>1
      <3>3. p >= now /\ q < now
        BY <1>2, <1>6, <1>11, <1>13, <3>1, <3>2
      <3> QED
        BY <1>4, <1>14, <3>3 DEF Ahead
    <2> QED
      BY <1>2, <1>11, <2>1, <2>2, <2>3
  <1>16. (p - now) % Rotation <= (q - now) % Rotation
    BY <1>14, <1>15, AheadIs
  <1> QED
    BY <1>2, <1>9, <1>11, <1>13, <1>16

\* A track comes back from the file as it was.
Stripped(x) == [x EXCEPT !.pos = 0]

LEMMA StrippedIs ==
    ASSUME NEW x \in AtpSectors
    PROVE  /\ Stripped(x) \in AtpSectors /\ Stripped(x).pos = 0
           /\ [Stripped(x) EXCEPT !.pos = x.pos] = x
  <1>1. 0 \in 0 .. Rotation - 1
    BY AtpAssumption
  <1>2. x \in [id : Nat, pos : 0 .. Rotation - 1, data : AtpValues \cup {0}, ok : BOOLEAN]
    BY DEF AtpSectors
  <1>3. Stripped(x) \in AtpSectors
    BY <1>1, <1>2 DEF Stripped, AtpSectors
  <1> QED
    BY <1>2, <1>3 DEF Stripped

LEMMA TrackComesBack ==
    ASSUME NEW t, TrackOK(t)
    PROVE  FromChunks(TrackChunk(t), TimingChunk(t)) = t
  <1>1. PICK s, n : s = t.sectors /\ n = Len(s)
    OBVIOUS
  <1>2. s \in Seq(AtpSectors) /\ Growing(s) /\ DOMAIN s = 1 .. n /\ n \in Nat /\ s = [i \in 1 .. n |-> s[i]]
    BY <1>1 DEF TrackOK
  <1>3. PICK c : c = [i \in 1 .. n |-> [s[i] EXCEPT !.pos = 0]]
    OBVIOUS
  <1>4. \A i \in 1 .. n : s[i] \in AtpSectors /\ s[i].pos \in 0 .. Rotation - 1 /\ s[i].pos \in Int
    BY <1>2, PosIsInt, PlacesOf
  <1>5. \A i \in 1 .. n : Stripped(s[i]) \in AtpSectors /\ Stripped(s[i]).pos = 0
    BY <1>4, StrippedIs
  <1>6. c \in Seq(AtpSectors) /\ DOMAIN c = 1 .. n /\ Len(c) = n /\ \A i \in 1 .. n : c[i].pos = 0
    <2>1. c = [i \in 1 .. n |-> Stripped(s[i])]
      BY <1>3 DEF Stripped
    <2>2. \A i \in 1 .. n : c[i] \in AtpSectors /\ c[i].pos = 0
      BY <1>5, <2>1
    <2>3. c \in [1 .. n -> AtpSectors] /\ n \in Nat
      BY <1>2, <2>1, <2>2, Zenon
    <2>4. c \in Seq(AtpSectors) /\ DOMAIN c = 1 .. n /\ Len(c) = n
      BY <2>3
    <2> QED
      BY <2>2, <2>4, Zenon
  <1>7. Added(c) = c
    BY <1>6, AddedInOrder
  <1>8. PICK m : m = [i \in 1 .. n |-> s[i].pos]
    OBVIOUS
  <1>9. DOMAIN m = 1 .. n /\ Len(m) = n /\ \A i \in 1 .. n : m[i] = s[i].pos
    BY <1>2, <1>8
  <1>10. /\ TrackChunk(t) = [density |-> t.density, sectors |-> c]
         /\ TimingChunk(t) = m
    BY <1>1, <1>2, <1>3, <1>8 DEF TrackChunk, TimingChunk
  <1>11. TimingOK(m, c)
    <2> SUFFICES ASSUME NEW i \in 1 .. n
                 PROVE  m[i] < Rotation /\ (i > 1 => m[i - 1] < m[i])
      BY <1>6, <1>9 DEF TimingOK
    <2>1. Rotation \in Nat
      BY AtpAssumption
    <2>2. m[i] < Rotation
      <3>1. m[i] \in 0 .. Rotation - 1
        BY <1>4, <1>9
      <3> QED
        BY <2>1, <3>1
    <2>3. ASSUME i > 1 PROVE m[i - 1] < m[i]
      <3>1. i - 1 \in 1 .. n /\ i - 1 < i
        BY <1>2, <2>3
      <3>2. s[i - 1].pos < s[i].pos
        BY <1>2, <3>1 DEF Growing
      <3>3. PICK p, q : p = m[i - 1] /\ q = m[i]
        OBVIOUS
      <3>4. p = s[i - 1].pos /\ q = s[i].pos
        BY <1>9, <3>1, <3>3
      <3>5. p \in Int /\ q \in Int
        BY <1>4, <3>1, <3>4
      <3>6. p < q
        BY <3>2, <3>4
      <3> QED
        BY <3>3, <3>6
    <2> QED
      BY <2>2, <2>3
  <1>12. FromChunks([density |-> t.density, sectors |-> c], m) =
           [density |-> t.density, sectors |-> [i \in 1 .. n |-> [c[i] EXCEPT !.pos = m[i]]]]
    BY <1>6, <1>7, <1>9, <1>11 DEF FromChunks
  <1>13. \A i \in 1 .. n : [c[i] EXCEPT !.pos = m[i]] = s[i]
    <2>1. \A i \in 1 .. n : c[i] = Stripped(s[i]) /\ m[i] = s[i].pos
      BY <1>3, <1>9 DEF Stripped
    <2> QED
      BY <1>4, <2>1, StrippedIs
  <1>14. [i \in 1 .. n |-> [c[i] EXCEPT !.pos = m[i]]] = s
    BY <1>2, <1>13
  <1> QED
    BY <1>1, <1>10, <1>12, <1>14 DEF TrackOK

LEMMA MadeOf ==
    ASSUME NEW S, NEW n \in Nat, NEW b, b = [i \in 1 .. n |-> b[i]], \A i \in 1 .. n : b[i] \in S
    PROVE  b \in Seq(S) /\ DOMAIN b = 1 .. n /\ Len(b) = n
  OBVIOUS

\* A track that has just been formatted.
LEMMA BlankIsOK ==
    ASSUME NEW d \in Densities, NEW t \in Nat
    PROVE  /\ TrackOK([density |-> d, sectors |-> BlankTrack(d, t)])
           /\ \A i \in DOMAIN BlankTrack(d, t) : BlankTrack(d, t)[i].data = 0
  <1>1. PICK n, l, s : n = Spt(d) /\ l = Layout[d] /\ s = t * TrackSkew
    OBVIOUS
  <1>2. /\ l \in Seq(0 .. Rotation - 1) /\ n = Len(l) /\ n \in Nat /\ DOMAIN l = 1 .. n
        /\ \A i, j \in 1 .. n : i # j => l[i] # l[j]
    <2>1. /\ Layout[d] \in Seq(0 .. Rotation - 1)
          /\ \A i, j \in DOMAIN Layout[d] : i # j => Layout[d][i] # Layout[d][j]
      BY AtpAssumption
    <2>2. n = Len(l)
      BY <1>1 DEF Spt
    <2> QED
      BY <1>1, <2>1, <2>2
  <1>3. s \in Nat
    BY <1>1, AtpAssumption
  <1>4. Rotation \in Nat \ {0}
    BY AtpAssumption
  <1>5. \A i \in 1 .. n : l[i] \in 0 .. Rotation - 1 /\ s + l[i] \in Nat
    BY <1>2, <1>3, <1>4
  <1>6. \A i \in 1 .. n : (s + l[i]) % Rotation \in 0 .. Rotation - 1
    BY <1>4, <1>5, DivMod
  <1>7. PICK b : b = [i \in 1 .. n |-> Sector(i, (s + l[i]) % Rotation, 0, TRUE)]
    OBVIOUS
  <1>8. ASSUME NEW i \in 1 .. n
        PROVE  b[i] \in AtpSectors /\ b[i].data = 0 /\ b[i].pos = (s + l[i]) % Rotation
    BY <1>2, <1>6, <1>7 DEF Sector, AtpSectors
  <1>9. b \in Seq(AtpSectors) /\ DOMAIN b = 1 .. n /\ Len(b) = n
    <2>1. \A i \in 1 .. n : b[i] \in AtpSectors
      BY <1>8
    <2>2. DOMAIN b = 1 .. n /\ b = [i \in 1 .. n |-> b[i]]
      BY <1>7, Zenon
    <2> QED
      BY <1>2, <2>1, <2>2, MadeOf
  <1>10. ASSUME NEW i \in 1 .. n, NEW j \in 1 .. n, i # j PROVE b[i].pos # b[j].pos
    <2>1. l[i] \in 0 .. Rotation - 1 /\ l[j] \in 0 .. Rotation - 1 /\ l[i] # l[j]
      BY <1>2, <1>5, <1>10
    <2>2. (s + l[i]) % Rotation # (s + l[j]) % Rotation
      BY <1>3, <1>4, <2>1, ShiftedApart, Zenon
    <2> QED
      BY <1>8, <2>2
  <1>11. PICK r : r = Added(b)
    OBVIOUS
  <1>12. r \in Seq(AtpSectors) /\ Growing(r) /\ PickedFrom(r, b, n)
    BY <1>9, <1>10, <1>11, AddedGrows
  <1>13. BlankTrack(d, t) = r
    BY <1>1, <1>7, <1>11 DEF BlankTrack
  <1>14. \A i \in DOMAIN r : r[i].data = 0
    BY <1>8, <1>12 DEF PickedFrom
  <1> QED
    BY <1>12, <1>13, <1>14 DEF TrackOK
-----------------------------------------------------------------------------
(* The disk and what the Atari was told of it.                             *)

SoundTracks(trs) ==
    /\ DOMAIN trs \subseteq Nat /\ trs = [t \in DOMAIN trs |-> trs[t]]
    /\ \A t \in DOMAIN trs : TrackOK(trs[t])

\* The i-th sector of track t is one that holds sector n of density d.
IsCopy(trs, d, n, t, i) ==
    /\ n \in Nat \ {0} /\ t = (n - 1) \div Spt(d) /\ trs[t].density = d
    /\ i \in DOMAIN trs[t].sectors /\ trs[t].sectors[i].id = ((n - 1) % Spt(d)) + 1

KnownShape(k) ==
    k = [d \in Densities |-> k[d]] /\ \A d \in Densities : k[d] = [n \in Watched |-> k[d][n]]

KnownAll(trs, k) ==
    \A d \in Densities, n \in Watched, t \in DOMAIN trs : \A i \in DOMAIN trs[t].sectors :
        IsCopy(trs, d, n, t, i) /\ trs[t].sectors[i].ok => trs[t].sectors[i].data \in k[d][n]

AtpInv ==
    /\ SoundTracks(tracks) /\ density \in Densities
    /\ KnownShape(known) /\ KnownAll(tracks, known)

LEMMA SptIsNat ==
    ASSUME NEW d \in Densities
    PROVE  Spt(d) \in Nat \ {0}
  <1>1. Layout[d] \in Seq(0 .. Rotation - 1) /\ Layout[d] # <<>>
    BY AtpAssumption
  <1> QED
    BY <1>1 DEF Spt

\* A number is a place on a track, and the other way round.
LEMMA OneNumber ==
    ASSUME NEW m \in Nat \ {0}, NEW a \in Nat \ {0}, NEW b \in Nat \ {0},
           (a - 1) \div m = (b - 1) \div m, ((a - 1) % m) + 1 = ((b - 1) % m) + 1
    PROVE  a = b
  <1>1. PICK x, y : x = a - 1 /\ y = b - 1
    OBVIOUS
  <1>2. x \in Nat /\ y \in Nat /\ x % m \in Nat /\ y % m \in Nat
    BY <1>1, DivMod
  <1>3. x \div m = y \div m /\ x % m = y % m
    BY <1>1, <1>2
  <1>4. x = y
    BY <1>2, <1>3, DivModUnique
  <1> QED
    BY <1>1, <1>4

\* New contents for one sector of a track.
Refilled(secs, i, v) == [secs EXCEPT ![i].data = v]

LEMMA RefilledIs ==
    ASSUME NEW secs \in Seq(AtpSectors), NEW i \in DOMAIN secs, NEW v \in AtpValues
    PROVE  /\ Refilled(secs, i, v) \in Seq(AtpSectors)
           /\ DOMAIN Refilled(secs, i, v) = DOMAIN secs
           /\ \A j \in DOMAIN secs : /\ Refilled(secs, i, v)[j].pos = secs[j].pos
                                     /\ Refilled(secs, i, v)[j].id = secs[j].id
                                     /\ Refilled(secs, i, v)[j].ok = secs[j].ok
                                     /\ Refilled(secs, i, v)[j].data = IF j = i THEN v ELSE secs[j].data
  <1>1. PICK r, x : r = Refilled(secs, i, v) /\ x = [secs[i] EXCEPT !.data = v]
    OBVIOUS
  <1>2. secs[i] \in AtpSectors
    OBVIOUS
  <1>3. /\ x \in AtpSectors
        /\ x.pos = secs[i].pos /\ x.id = secs[i].id /\ x.ok = secs[i].ok /\ x.data = v
    BY <1>1, <1>2 DEF AtpSectors
  <1>4. r = [secs EXCEPT ![i] = x]
    BY <1>1 DEF Refilled
  <1>5. r \in Seq(AtpSectors) /\ DOMAIN r = DOMAIN secs
    BY <1>3, <1>4
  <1>6. \A j \in DOMAIN secs : r[j] = IF j = i THEN x ELSE secs[j]
    BY <1>4
  <1> QED
    BY <1>1, <1>3, <1>5, <1>6

\* New contents for a sector of the disk.
Written(trs, t, i, v) == [trs EXCEPT ![t].sectors[i].data = v]

WrittenAs(trs, new, t, i, v) ==
    /\ DOMAIN new = DOMAIN trs
    /\ \A u \in DOMAIN trs : u # t => new[u] = trs[u]
    /\ new[t] = [density |-> trs[t].density, sectors |-> Refilled(trs[t].sectors, i, v)]

LEMMA WrittenIs ==
    ASSUME NEW trs, SoundTracks(trs), NEW t \in DOMAIN trs, NEW i \in DOMAIN trs[t].sectors, NEW v \in AtpValues
    PROVE  WrittenAs(trs, Written(trs, t, i, v), t, i, v) /\ SoundTracks(Written(trs, t, i, v))
  <1>1. PICK new, x : new = Written(trs, t, i, v) /\ x = [trs[t] EXCEPT !.sectors[i].data = v]
    OBVIOUS
  <1>2. TrackOK(trs[t]) /\ DOMAIN trs \subseteq Nat
    BY DEF SoundTracks
  <1>3. PICK d, s : d = trs[t].density /\ s = trs[t].sectors
    OBVIOUS
  <1>4. trs[t] = [density |-> d, sectors |-> s] /\ d \in Densities /\ s \in Seq(AtpSectors) /\ Growing(s)
    BY <1>2, <1>3 DEF TrackOK
  <1>5. x = [density |-> d, sectors |-> Refilled(s, i, v)]
    <2>1. x = [trs[t] EXCEPT !.sectors = Refilled(s, i, v)]
      BY <1>1, <1>3 DEF Refilled
    <2> QED
      BY <1>4, <2>1
  <1>6. new = [trs EXCEPT ![t] = x]
    BY <1>1 DEF Written
  <1>7. new = [u \in DOMAIN trs |-> IF u = t THEN x ELSE trs[u]]
    BY <1>6
  <1>8. PICK r : r = Refilled(s, i, v)
    OBVIOUS
  <1>9. r \in Seq(AtpSectors) /\ DOMAIN r = DOMAIN s /\ \A j \in DOMAIN s : r[j].pos = s[j].pos
    BY <1>3, <1>4, <1>8, RefilledIs
  <1>10. Growing(r)
    BY <1>4, <1>9 DEF Growing
  <1>11. TrackOK(x)
    BY <1>4, <1>5, <1>8, <1>9, <1>10 DEF TrackOK
  <1>12. WrittenAs(trs, new, t, i, v)
    BY <1>3, <1>5, <1>7 DEF WrittenAs
  <1>13. SoundTracks(new)
    BY <1>7, <1>11 DEF SoundTracks
  <1> QED
    BY <1>1, <1>12, <1>13

\* A write leaves what the Atari knows true, if it knows the new contents of the
\* sector, and forgets the old ones only where there is one sector of the number.
LEMMA WriteKeeps ==
    ASSUME NEW trs, NEW k, SoundTracks(trs), KnownShape(k), KnownAll(trs, k),
           NEW d \in Densities, NEW n \in Watched, NEW t \in DOMAIN trs, NEW i \in DOMAIN trs[t].sectors,
           IsCopy(trs, d, n, t, i), NEW v \in AtpValues, NEW S, v \in S,
           \/ k[d][n] \subseteq S
           \/ \A j \in DOMAIN trs[t].sectors : IsCopy(trs, d, n, t, j) => j = i
    PROVE  /\ SoundTracks(Written(trs, t, i, v))
           /\ KnownShape([k EXCEPT ![d][n] = S])
           /\ KnownAll(Written(trs, t, i, v), [k EXCEPT ![d][n] = S])
  <1>1. PICK new, l : new = Written(trs, t, i, v) /\ l = [k EXCEPT ![d][n] = S]
    OBVIOUS
  <1>2. SoundTracks(new) /\ WrittenAs(trs, new, t, i, v)
    BY <1>1, WrittenIs
  <1>3. PICK kd : kd = [k[d] EXCEPT ![n] = S]
    OBVIOUS
  <1>4. l = [k EXCEPT ![d] = kd]
    BY <1>1, <1>3
  <1>5. \A e \in Densities : l[e] = IF e = d THEN kd ELSE k[e]
    BY <1>4 DEF KnownShape
  <1>6. kd = [m \in Watched |-> IF m = n THEN S ELSE k[d][m]]
    BY <1>3 DEF KnownShape
  <1>7. KnownShape(l)
    <2>1. l = [e \in Densities |-> l[e]]
      BY <1>4 DEF KnownShape
    <2>2. kd = [m \in Watched |-> kd[m]]
      BY <1>6
    <2> QED
      BY <1>5, <2>1, <2>2 DEF KnownShape
  <1>8. KnownAll(new, l)
    <2> SUFFICES ASSUME NEW e \in Densities, NEW m \in Watched, NEW u \in DOMAIN new,
                        NEW j \in DOMAIN new[u].sectors, IsCopy(new, e, m, u, j), new[u].sectors[j].ok
                 PROVE  new[u].sectors[j].data \in l[e][m]
      BY DEF KnownAll
    <2>1. u \in DOMAIN trs
      BY <1>2 DEF WrittenAs
    <2>2. TrackOK(trs[t])
      BY DEF SoundTracks
    <2>3. trs[t].sectors \in Seq(AtpSectors)
      BY <2>2 DEF TrackOK
    <2>4. PICK r : r = Refilled(trs[t].sectors, i, v)
      OBVIOUS
    <2>5. /\ DOMAIN r = DOMAIN trs[t].sectors
          /\ \A h \in DOMAIN trs[t].sectors :
                /\ r[h].id = trs[t].sectors[h].id /\ r[h].ok = trs[t].sectors[h].ok
                /\ r[h].data = IF h = i THEN v ELSE trs[t].sectors[h].data
      BY <2>3, <2>4, RefilledIs
    <2>6. new[t].density = trs[t].density /\ new[t].sectors = r
      BY <1>2, <2>4 DEF WrittenAs
    <2>7. u # t => new[u] = trs[u]
      BY <1>2, <2>1 DEF WrittenAs
    <2>8. /\ j \in DOMAIN trs[u].sectors /\ IsCopy(trs, e, m, u, j) /\ trs[u].sectors[j].ok
          /\ new[u].sectors[j].data = IF u = t /\ j = i THEN v ELSE trs[u].sectors[j].data
      <3>1. CASE u # t
        BY <2>7, <3>1 DEF IsCopy
      <3>2. CASE u = t
        <4>1. j \in DOMAIN r /\ IsCopy(new, e, m, u, j)
          BY <2>6, <3>2 DEF IsCopy
        <4>2. j \in DOMAIN trs[t].sectors /\ r[j].id = trs[t].sectors[j].id /\ r[j].ok = trs[t].sectors[j].ok
          BY <2>5, <4>1
        <4>3. IsCopy(trs, e, m, t, j)
          BY <2>6, <3>2, <4>1, <4>2 DEF IsCopy
        <4> QED
          BY <2>5, <2>6, <3>2, <4>1, <4>2, <4>3 DEF IsCopy
      <3> QED
        BY <3>1, <3>2
    <2>9. trs[u].sectors[j].data \in k[e][m]
      BY <2>1, <2>8 DEF KnownAll
    <2>10. l[e][m] = IF e = d /\ m = n THEN S ELSE k[e][m]
      BY <1>5, <1>6
    <2>11. CASE u = t /\ j = i
      <3>1. e = d
        BY <2>8, <2>11 DEF IsCopy
      <3>2. Spt(d) \in Nat \ {0}
        BY SptIsNat
      <3>3. m = n
        BY <2>8, <2>11, <3>1, <3>2, OneNumber DEF IsCopy
      <3> QED
        BY <2>8, <2>10, <2>11, <3>1, <3>3
    <2>12. CASE ~ (u = t /\ j = i)
      <3>1. CASE ~ (e = d /\ m = n)
        BY <2>8, <2>9, <2>10, <2>12, <3>1
      <3>2. CASE e = d /\ m = n
        <4>1. u = t
          BY <2>8, <3>2 DEF IsCopy
        <4>2. k[d][n] \subseteq S
          BY <2>8, <2>12, <3>2, <4>1
        <4> QED
          BY <2>8, <2>9, <2>10, <2>12, <3>2, <4>2
      <3> QED
        BY <3>1, <3>2
    <2> QED
      BY <2>11, <2>12
  <1> QED
    BY <1>1, <1>2, <1>7, <1>8

LEMMA AtpInvInit == AtpInit => AtpInv
  <1> SUFFICES ASSUME AtpInit PROVE AtpInv
    OBVIOUS
  <1>1. PICK disk \in AtpDisks : tracks = disk
    BY DEF AtpInit
  <1>2. /\ 0 \in DOMAIN disk /\ DOMAIN disk \subseteq Nat
        /\ disk \in [DOMAIN disk -> AtpTrack]
        /\ \A t \in DOMAIN disk : Growing(disk[t].sectors)
    BY AtpAssumption
  <1>3. \A t \in DOMAIN disk : TrackOK(disk[t])
    <2> SUFFICES ASSUME NEW t \in DOMAIN disk PROVE TrackOK(disk[t])
      OBVIOUS
    <2>1. disk[t] \in AtpTrack /\ Growing(disk[t].sectors)
      BY <1>2
    <2> QED
      BY <2>1 DEF TrackOK, AtpTrack
  <1>4. SoundTracks(tracks)
    BY <1>1, <1>2, <1>3 DEF SoundTracks
  <1>5. density \in Densities
    BY <1>1, <1>2, <1>3 DEF AtpInit, TrackOK
  <1>6. known = [d \in Densities |-> [n \in Watched |-> Readable(disk, d, n)]]
    BY <1>1 DEF AtpInit
  <1>7. KnownShape(known)
    BY <1>6 DEF KnownShape
  <1>8. KnownAll(tracks, known)
    <2> SUFFICES ASSUME NEW d \in Densities, NEW n \in Watched, NEW t \in DOMAIN disk,
                        NEW i \in DOMAIN disk[t].sectors, IsCopy(disk, d, n, t, i), disk[t].sectors[i].ok
                 PROVE  disk[t].sectors[i].data \in Readable(disk, d, n)
      BY <1>1, <1>6 DEF KnownAll
    <2>1. disk[t].sectors[i] \in Range(disk[t].sectors)
      BY DEF Range
    <2> QED
      BY <2>1 DEF Readable, IsCopy
  <1> QED
    BY <1>4, <1>5, <1>7, <1>8 DEF AtpInv

\* The copies of a valid number are what AtpInv says of them.
LEMMA CopiesAre ==
    ASSUME AtpInv, NEW n, ValidNumber(n), NEW t, t = TrackOf(n), t \in DOMAIN tracks, tracks[t].density = density
    PROVE  /\ density \in Densities /\ Spt(density) \in Nat \ {0} /\ n \in Nat \ {0}
           /\ Copies(n) \subseteq DOMAIN tracks[t].sectors /\ IsFiniteSet(Copies(n))
           /\ \A i \in DOMAIN tracks[t].sectors : i \in Copies(n) <=> IsCopy(tracks, density, n, t, i)
  <1>1. density \in Densities /\ Spt(density) \in Nat \ {0}
    BY SptIsNat DEF AtpInv
  <1>2. n \in Nat \ {0}
    <2>1. PICK s : s = Spt(density)
      OBVIOUS
    <2>2. AtpTracks * s \in Nat
      BY <1>1, <2>1, AtpAssumption
    <2> QED
      BY <2>1, <2>2 DEF ValidNumber
  <1>3. Copies(n) = {i \in DOMAIN tracks[t].sectors : tracks[t].sectors[i].id = ((n - 1) % Spt(density)) + 1}
    BY DEF Copies, IdOf
  <1>4. tracks[t].sectors \in Seq(AtpSectors)
    BY DEF AtpInv, SoundTracks, TrackOK
  <1>5. IsFiniteSet(Copies(n))
    <2>1. DOMAIN tracks[t].sectors = 1 .. Len(tracks[t].sectors) /\ Len(tracks[t].sectors) \in Nat
      BY <1>4
    <2>2. IsFiniteSet(1 .. Len(tracks[t].sectors))
      BY <2>1, FS_Interval
    <2>3. Copies(n) \in SUBSET (1 .. Len(tracks[t].sectors))
      BY <1>3, <2>1
    <2> QED
      BY <2>2, <2>3, FS_Subset
  <1> QED
    BY <1>1, <1>2, <1>3, <1>5 DEF IsCopy, TrackOf

LEMMA AtpWriteKeeps ==
    ASSUME AtpInv, NEW n \in Watched, NEW v \in AtpValues, NEW verify \in BOOLEAN, AtpWrite(n, v, verify)
    PROVE  AtpInv'
  <1>1. density' = density /\ ValidNumber(n)
    BY DEF AtpWrite
  <1>2. CASE UNCHANGED <<tracks, known>>
    BY <1>1, <1>2 DEF AtpInv
  <1>3. CASE ~ UNCHANGED <<tracks, known>>
    <2>1. PICK i, t : i = Found(n).index /\ t = TrackOf(n)
      OBVIOUS
    <2>2. /\ i # 0
          /\ tracks' = [tracks EXCEPT ![t].sectors[i].data = v]
          /\ \/ Cardinality(Copies(n)) = 1 /\ known' = [known EXCEPT ![density][n] = {v}]
             \/ known' = [known EXCEPT ![density][n] = @ \cup {v}]
      BY <1>3, <2>1 DEF AtpWrite
    <2>3. PICK now : /\ i = IF t \in DOMAIN tracks /\ tracks[t].density = density
                            THEN GetSector(tracks[t].sectors, IdOf(n), now) ELSE 0
      BY <2>1 DEF Found
    <2>4. /\ t \in DOMAIN tracks /\ tracks[t].density = density
          /\ i = GetSector(tracks[t].sectors, IdOf(n), now)
      BY <2>2, <2>3
    <2>5. PICK secs : secs = tracks[t].sectors
      OBVIOUS
    <2>6. secs \in Seq(AtpSectors)
      BY <2>4, <2>5 DEF AtpInv, SoundTracks, TrackOK
    <2>7. \E j \in DOMAIN secs : secs[j].id = IdOf(n)
      BY <2>2, <2>4, <2>5 DEF GetSector
    <2>8. i \in DOMAIN secs /\ secs[i].id = IdOf(n)
      <3>1. PICK j \in DOMAIN secs : secs[j].id = IdOf(n)
        BY <2>7
      <3>2. i = GetSector(secs, IdOf(n), now)
        BY <2>4, <2>5
      <3>3. FirstOf(i, secs, IdOf(n), ComesFirst(secs, now))
        BY <2>6, <3>1, <3>2, GetSectorFinds, Zenon
      <3> QED
        BY <3>3, Zenon DEF FirstOf
    <2>9. /\ density \in Densities /\ Spt(density) \in Nat \ {0} /\ n \in Nat \ {0}
          /\ Copies(n) \subseteq DOMAIN secs /\ IsFiniteSet(Copies(n))
          /\ \A j \in DOMAIN secs : j \in Copies(n) <=> IsCopy(tracks, density, n, t, j)
      BY <1>1, <2>1, <2>4, <2>5, CopiesAre
    <2>10. i \in Copies(n)
      BY <2>1, <2>4, <2>5, <2>8 DEF Copies
    <2>11. PICK S : /\ known' = [known EXCEPT ![density][n] = S]
                    /\ v \in S
                    /\ \/ Cardinality(Copies(n)) = 1
                       \/ known[density][n] \subseteq S
      <3>1. CASE Cardinality(Copies(n)) = 1 /\ known' = [known EXCEPT ![density][n] = {v}]
        BY <3>1
      <3>2. CASE known' = [known EXCEPT ![density][n] = @ \cup {v}]
        <4>1. PICK U : U = known[density][n] \cup {v}
          OBVIOUS
        <4>2. known' = [known EXCEPT ![density][n] = U]
          BY <3>2, <4>1
        <4>3. v \in U /\ known[density][n] \subseteq U
          BY <4>1
        <4> QED
          BY <4>2, <4>3, Zenon
      <3> QED
        BY <2>2, <3>1, <3>2
    <2>12. \/ known[density][n] \subseteq S
           \/ \A j \in DOMAIN secs : IsCopy(tracks, density, n, t, j) => j = i
      <3>1. CASE Cardinality(Copies(n)) = 1
        <4>1. PICK x : Copies(n) = {x}
          BY <2>9, <3>1, FS_Singleton
        <4> QED
          BY <2>9, <2>10, <4>1
      <3> QED
        BY <2>11, <3>1
    <2>13. tracks' = Written(tracks, t, i, v)
      BY <2>2 DEF Written
    <2>14. IsCopy(tracks, density, n, t, i)
      BY <2>8, <2>9, <2>10
    <2>15. SoundTracks(tracks) /\ KnownShape(known) /\ KnownAll(tracks, known)
      BY DEF AtpInv
    <2>16. /\ SoundTracks(Written(tracks, t, i, v))
           /\ KnownShape([known EXCEPT ![density][n] = S])
           /\ KnownAll(Written(tracks, t, i, v), [known EXCEPT ![density][n] = S])
      <3>1. i \in DOMAIN tracks[t].sectors
        BY <2>5, <2>8
      <3>2. \/ known[density][n] \subseteq S
            \/ \A j \in DOMAIN tracks[t].sectors : IsCopy(tracks, density, n, t, j) => j = i
        BY <2>5, <2>12, Zenon
      <3> QED
        BY <2>4, <2>9, <2>11, <2>14, <2>15, <3>1, <3>2, WriteKeeps, Zenon
    <2> QED
      BY <1>1, <2>9, <2>11, <2>13, <2>16 DEF AtpInv
  <1> QED
    BY <1>2, <1>3

LEMMA FormatKeeps ==
    ASSUME AtpInv, NEW d \in Densities, FormatAs(d)
    PROVE  AtpInv'
  <1>1. density' = d
    BY DEF FormatAs
  <1>2. CASE UNCHANGED <<tracks, known>>
    BY <1>1, <1>2 DEF AtpInv
  <1>3. CASE ~ UNCHANGED <<tracks, known>>
    <2>1. /\ tracks' = InitBlank(d)
          /\ \E answered \in BOOLEAN :
                known' = [e \in Densities |-> [n \in Watched |->
                            IF e # d THEN {} ELSE IF answered THEN {0} ELSE known[d][n] \cup {0}]]
      BY <1>3 DEF FormatAs
    <2>2. PICK new : new = InitBlank(d)
      OBVIOUS
    <2>3. AtpTracks \in Nat \ {0}
      BY AtpAssumption
    <2>4. /\ DOMAIN new = 0 .. AtpTracks - 1 /\ DOMAIN new \subseteq Nat
          /\ new = [t \in DOMAIN new |-> new[t]]
          /\ \A t \in DOMAIN new : new[t] = [density |-> d, sectors |-> BlankTrack(d, t)]
      BY <2>2, <2>3 DEF InitBlank
    <2>5. SoundTracks(new)
      BY <2>4, BlankIsOK DEF SoundTracks
    <2>6. PICK k : k = known'
      OBVIOUS
    <2>7. /\ KnownShape(k) /\ \A n \in Watched : 0 \in k[d][n]
      BY <2>1, <2>6 DEF KnownShape
    <2>8. KnownAll(new, k)
      <3> SUFFICES ASSUME NEW e \in Densities, NEW n \in Watched, NEW t \in DOMAIN new,
                          NEW i \in DOMAIN new[t].sectors, IsCopy(new, e, n, t, i)
                   PROVE  new[t].sectors[i].data \in k[e][n]
        BY DEF KnownAll
      <3>1. t \in Nat /\ new[t].density = d /\ new[t].sectors = BlankTrack(d, t)
        BY <2>4
      <3>2. e = d
        BY <3>1 DEF IsCopy
      <3>3. new[t].sectors[i].data = 0
        BY <3>1, BlankIsOK
      <3> QED
        BY <2>7, <3>2, <3>3
    <2> QED
      BY <1>1, <2>1, <2>2, <2>5, <2>6, <2>7, <2>8 DEF AtpInv
  <1> QED
    BY <1>2, <1>3

LEMMA AtpInvStep == AtpInv /\ [AtpNext]_atpvars => AtpInv'
  <1> SUFFICES ASSUME AtpInv, [AtpNext]_atpvars PROVE AtpInv'
    OBVIOUS
  <1>1. CASE \E n \in Numbers : AtpRead(n)
    BY <1>1 DEF AtpRead, AtpInv
  <1>2. CASE \E n \in Watched, v \in AtpValues, verify \in BOOLEAN : AtpWrite(n, v, verify)
    BY <1>2, AtpWriteKeeps
  <1>3. CASE \E d \in Densities : FormatAs(d)
    BY <1>3, FormatKeeps
  <1>4. CASE Turn
    BY <1>4 DEF Turn, AtpInv
  <1>5. CASE Seal
    BY <1>5 DEF Seal, AtpInv
  <1>6. CASE UNCHANGED atpvars
    BY <1>6 DEF atpvars, AtpInv
  <1> QED
    BY <1>1, <1>2, <1>3, <1>4, <1>5, <1>6 DEF AtpNext

LEMMA AtpInvHolds == AtpSpec => []AtpInv
  BY AtpInvInit, AtpInvStep, PTL DEF AtpSpec

-----------------------------------------------------------------------------
(* Theorems.                                                               *)

\* Whatever the layout, the skew and the disk: of several sectors of one number
\* the head reads the one it meets first (AtpTrack::GetSector), since AddSector,
\* formatting and loading keep the sectors of a track in the order of their places.
THEOREM NearestIsRead == AtpSpec => []AtpNearest
  <1>1. AtpInv => AtpNearest
    <2> SUFFICES ASSUME AtpInv, NEW t \in DOMAIN tracks, NEW d \in Densities, NEW id \in 1 .. Spt(d),
                        NEW now \in 0 .. Rotation - 1, NEW secs, secs = tracks[t].sectors,
                        NEW j \in DOMAIN secs, secs[j].id = id
                 PROVE  LET i == GetSector(secs, id, now)
                        IN  i # 0 /\ (secs[i].pos - now) % Rotation <= (secs[j].pos - now) % Rotation
      BY DEF AtpNearest
    <2>1. secs \in Seq(AtpSectors) /\ Growing(secs)
      BY DEF AtpInv, SoundTracks, TrackOK
    <2> QED
      BY <2>1, GetSectorNearest
  <1> QED
    BY <1>1, AtpInvHolds, PTL

\* A sector that is read without an error holds what the Atari was told was
\* written to it, whatever was answered and lost in between; and every track comes
\* back from the file as it is.
THEOREM AtpKeepsItsPromise == AtpSpec => []AtpPromised
  <1>1. AtpInv => AtpKnown
    <2> SUFFICES ASSUME AtpInv, NEW n \in Watched, ValidNumber(n), NEW t, t = TrackOf(n), t \in DOMAIN tracks,
                        tracks[t].density = density, NEW i \in Copies(n), tracks[t].sectors[i].ok
                 PROVE  tracks[t].sectors[i].data \in known[density][n]
      BY DEF AtpKnown
    <2>1. density \in Densities /\ i \in DOMAIN tracks[t].sectors /\ IsCopy(tracks, density, n, t, i)
      BY CopiesAre
    <2> QED
      BY <2>1 DEF AtpInv, KnownAll
  <1>2. AtpInv => AtpRoundTrip
    BY TrackComesBack DEF AtpInv, SoundTracks, AtpRoundTrip
  <1> QED
    BY <1>1, <1>2, AtpInvHolds, PTL DEF AtpPromised

-----------------------------------------------------------------------------
(***************************************************************************)
(* The printer: whatever is printed while the queue is cut, taken and      *)
(* logged, is in the log, the buffer or the queue, in order.               *)
(***************************************************************************)

-----------------------------------------------------------------------------
(* What is visible of a sequence of characters.                            *)

Seen(f, s) ==
    /\ f = [n \in 0 .. Len(s) |-> f[n]] /\ f[0] = <<>>
    /\ \A n \in 1 .. Len(s) : f[n] = IF s[n] = NL THEN f[n - 1] ELSE Append(f[n - 1], s[n])

LEMMA SeenExists ==
    ASSUME NEW C, NEW s \in Seq(C)
    PROVE  \E f : Seen(f, s)
  <1> DEFINE next == [n \in 1 .. Len(s) |-> [v \in Seq(C) |-> IF s[n] = NL THEN v ELSE Append(v, s[n])]]
             V == Seq(C)
  <1>1. \A n \in 1 .. Len(s), v \in V :
            v \in Seq(C) /\ next[n][v] = IF s[n] = NL THEN v ELSE Append(v, s[n])
    OBVIOUS
  <1>2. <<>> \in V /\ Len(s) \in Nat
    OBVIOUS
  <1>3. \A n \in 1 .. Len(s), v \in V : next[n][v] \in V
    <2>1. \A n \in 1 .. Len(s), v \in Seq(C) : Append(v, s[n]) \in Seq(C)
      OBVIOUS
    <2> QED
      BY <1>1, <2>1
  <1> HIDE DEF next, V
  <1>4. PICK f : Recurs(f, V, <<>>, Len(s), next)
    BY <1>2, <1>3, Recursion
  <1>5. f = [n \in 0 .. Len(s) |-> f[n]] /\ f[0] = <<>>
    BY <1>4 DEF Recurs
  <1>6. ASSUME NEW n \in 1 .. Len(s)
        PROVE  f[n] = IF s[n] = NL THEN f[n - 1] ELSE Append(f[n - 1], s[n])
    <2>1. n - 1 \in 0 .. Len(s)
      OBVIOUS
    <2>2. f[n - 1] \in V /\ f[n] = next[n][f[n - 1]]
      BY <1>4, <2>1 DEF Recurs
    <2> QED
      BY <1>1, <2>2
  <1> QED
    BY <1>5, <1>6 DEF Seen

LEMMA VisibleIs ==
    ASSUME NEW C, NEW s \in Seq(C)
    PROVE  \E f : Seen(f, s) /\ Visible(s) = f[Len(s)]
  <1> DEFINE upto[n \in 0 .. Len(s)] ==
                 IF n = 0 THEN <<>> ELSE IF s[n] = NL THEN upto[n - 1] ELSE Append(upto[n - 1], s[n])
  <1>1. Visible(s) = upto[Len(s)]
    BY DEF Visible
  <1>2. PICK f : Seen(f, s)
    BY SeenExists
  <1>3. f = [n \in 0 .. Len(s) |->
                 IF n = 0 THEN <<>> ELSE IF s[n] = NL THEN f[n - 1] ELSE Append(f[n - 1], s[n])]
    <2>1. \A n \in 0 .. Len(s) :
             f[n] = IF n = 0 THEN <<>> ELSE IF s[n] = NL THEN f[n - 1] ELSE Append(f[n - 1], s[n])
      BY <1>2 DEF Seen
    <2> QED
      BY <1>2, <2>1 DEF Seen
  <1>4. upto = [n \in 0 .. Len(s) |->
                 IF n = 0 THEN <<>> ELSE IF s[n] = NL THEN upto[n - 1] ELSE Append(upto[n - 1], s[n])]
    BY <1>3, Zenon
  <1> HIDE DEF upto
  <1>5. Seen(upto, s)
    <2> DEFINE Step(n) == IF n = 0 THEN <<>> ELSE IF s[n] = NL THEN upto[n - 1] ELSE Append(upto[n - 1], s[n])
    <2>1. upto = [n \in 0 .. Len(s) |-> Step(n)]
      BY <1>4
    <2> HIDE DEF Step
    <2>2. upto = [n \in 0 .. Len(s) |-> upto[n]] /\ \A n \in 0 .. Len(s) : upto[n] = Step(n)
      BY <2>1
    <2>3. upto[0] = Step(0) /\ 0 \in 0 .. Len(s)
      BY <2>2
    <2>4. ASSUME NEW n \in 1 .. Len(s)
          PROVE  upto[n] = IF s[n] = NL THEN upto[n - 1] ELSE Append(upto[n - 1], s[n])
      <3>1. upto[n] = Step(n) /\ n # 0
        BY <2>2
      <3> QED
        BY <3>1 DEF Step
    <2> QED
      BY <2>2, <2>3, <2>4 DEF Step, Seen
  <1> QED
    BY <1>1, <1>5

\* Two such functions agree as far as the characters do.
LEMMA SeenAlike ==
    ASSUME NEW C, NEW s \in Seq(C), NEW t \in Seq(C), NEW f, NEW g, Seen(f, s), Seen(g, t),
           Len(s) <= Len(t), \A i \in 1 .. Len(s) : s[i] = t[i]
    PROVE  \A n \in 0 .. Len(s) : f[n] = g[n]
  <1> DEFINE S == {n \in Nat : n <= Len(s) => f[n] = g[n]}
  <1>1. 0 \in S
    BY DEF Seen
  <1>2. ASSUME NEW n \in Nat, n \in S PROVE n + 1 \in S
    <2> SUFFICES ASSUME n + 1 <= Len(s) PROVE f[n + 1] = g[n + 1]
      OBVIOUS
    <2>1. f[n] = g[n] /\ n + 1 \in 1 .. Len(s) /\ n + 1 \in 1 .. Len(t) /\ (n + 1) - 1 = n
      BY <1>2
    <2>2. PICK m : m = n + 1
      OBVIOUS
    <2>3. m \in 1 .. Len(s) /\ m \in 1 .. Len(t) /\ f[m - 1] = g[m - 1] /\ s[m] = t[m]
      BY <2>1, <2>2
    <2>4. f[m] = g[m]
      BY <2>3 DEF Seen
    <2> QED
      BY <2>2, <2>4
  <1> HIDE DEF S
  <1>3. Nat \subseteq S
    BY <1>1, <1>2, SetInduction
  <1> QED
    BY <1>3 DEF S

LEMMA VisibleEmpty == Visible(<<>>) = <<>>
  <1>1. <<>> \in Seq({}) /\ Len(<<>>) = 0
    OBVIOUS
  <1>2. PICK f : Seen(f, <<>>) /\ Visible(<<>>) = f[Len(<<>>)]
    BY <1>1, VisibleIs
  <1> QED
    BY <1>1, <1>2 DEF Seen

LEMMA VisibleAppend ==
    ASSUME NEW C, NEW s \in Seq(C), NEW c \in C
    PROVE  Visible(Append(s, c)) = IF c = NL THEN Visible(s) ELSE Append(Visible(s), c)
  <1>1. PICK t : t = Append(s, c)
    OBVIOUS
  <1>2. /\ t \in Seq(C) /\ Len(t) = Len(s) + 1 /\ t[Len(t)] = c
        /\ \A i \in 1 .. Len(s) : s[i] = t[i]
    BY <1>1
  <1>3. PICK f : Seen(f, s) /\ Visible(s) = f[Len(s)]
    BY VisibleIs
  <1>4. PICK g : Seen(g, t) /\ Visible(t) = g[Len(t)]
    BY <1>2, VisibleIs
  <1>5. f[Len(s)] = g[Len(s)]
    BY <1>2, <1>3, <1>4, SeenAlike
  <1>6. Len(t) \in 1 .. Len(t) /\ Len(t) - 1 = Len(s)
    BY <1>2
  <1>7. g[Len(t)] = IF t[Len(t)] = NL THEN g[Len(t) - 1] ELSE Append(g[Len(t) - 1], t[Len(t)])
    BY <1>4, <1>6 DEF Seen
  <1> QED
    BY <1>1, <1>2, <1>3, <1>4, <1>5, <1>6, <1>7

LEMMA VisibleIsSeq ==
    ASSUME NEW C, NEW s \in Seq(C)
    PROVE  Visible(s) \in Seq(C)
  <1>1. PICK f : Seen(f, s) /\ Visible(s) = f[Len(s)]
    BY VisibleIs
  <1> DEFINE S == {n \in Nat : n <= Len(s) => f[n] \in Seq(C)}
  <1>2. 0 \in S
    BY <1>1 DEF Seen
  <1>3. ASSUME NEW n \in Nat, n \in S PROVE n + 1 \in S
    <2> SUFFICES ASSUME n + 1 <= Len(s) PROVE f[n + 1] \in Seq(C)
      OBVIOUS
    <2>1. PICK m : m = n + 1
      OBVIOUS
    <2>2. m \in 1 .. Len(s) /\ f[m - 1] \in Seq(C) /\ s[m] \in C
      BY <1>3, <2>1
    <2>3. f[m] = IF s[m] = NL THEN f[m - 1] ELSE Append(f[m - 1], s[m])
      BY <1>1, <2>2 DEF Seen
    <2>4. Append(f[m - 1], s[m]) \in Seq(C)
      BY <2>2
    <2>5. f[m] \in Seq(C)
      BY <2>2, <2>3, <2>4
    <2> QED
      BY <2>1, <2>5
  <1> HIDE DEF S
  <1>4. Nat \subseteq S
    BY <1>2, <1>3, SetInduction
  <1> QED
    BY <1>1, <1>4 DEF S

\* Parts can be looked at one by one.
LEMMA VisibleConcat ==
    ASSUME NEW C, NEW s \in Seq(C), NEW t \in Seq(C)
    PROVE  Visible(s \o t) = Visible(s) \o Visible(t)
  <1> DEFINE S == {n \in Nat : n <= Len(t) =>
                       Visible(s \o SubSeq(t, 1, n)) = Visible(s) \o Visible(SubSeq(t, 1, n))}
  <1>1. 0 \in S
    <2>1. SubSeq(t, 1, 0) = <<>>
      BY SubSeqEmpty
    <2>2. s \o <<>> = s /\ Visible(s) \o <<>> = Visible(s)
      BY VisibleIsSeq, ConcatEmptySeq
    <2> QED
      BY <2>1, <2>2, VisibleEmpty
  <1>2. ASSUME NEW n \in Nat, n \in S PROVE n + 1 \in S
    <2> SUFFICES ASSUME n + 1 <= Len(t)
                 PROVE  Visible(s \o SubSeq(t, 1, n + 1)) = Visible(s) \o Visible(SubSeq(t, 1, n + 1))
      OBVIOUS
    <2>1. PICK u : u = SubSeq(t, 1, n)
      OBVIOUS
    <2>2. PICK c : c = t[n + 1]
      OBVIOUS
    <2>3. u \in Seq(C) /\ c \in C /\ s \o u \in Seq(C)
      BY <2>1, <2>2
    <2>4. SubSeq(t, 1, n + 1) = Append(u, c)
      BY <2>1, <2>2
    <2>5. s \o Append(u, c) = Append(s \o u, c)
      BY <2>3
    <2>6. Visible(s \o u) = Visible(s) \o Visible(u)
      BY <1>2, <2>1
    <2>7. /\ Visible(Append(s \o u, c)) = IF c = NL THEN Visible(s \o u) ELSE Append(Visible(s \o u), c)
          /\ Visible(Append(u, c)) = IF c = NL THEN Visible(u) ELSE Append(Visible(u), c)
      BY <2>3, VisibleAppend
    <2>8. PICK x, y : x = Visible(s) /\ y = Visible(u)
      OBVIOUS
    <2>9. x \in Seq(C) /\ y \in Seq(C)
      BY <2>3, <2>8, VisibleIsSeq
    <2>10. Append(x \o y, c) = x \o Append(y, c)
      <3>1. x \o y \in Seq(C)
        BY <2>9
      <3>2. Append(x \o y, c) = (x \o y) \o <<c>> /\ Append(y, c) = y \o <<c>> /\ <<c>> \in Seq(C)
        BY <2>3, <2>9, <3>1, AppendIsConcat
      <3>3. PICK d : d = <<c>>
        OBVIOUS
      <3>4. x \in Seq(C) /\ y \in Seq(C) /\ d \in Seq(C)
        BY <2>9, <3>2, <3>3
      <3>5. (x \o y) \o d = x \o (y \o d)
        BY <3>4, SMT
      <3> QED
        BY <3>2, <3>3, <3>5
    <2> QED
      BY <2>4, <2>5, <2>6, <2>7, <2>8, <2>10
  <1> HIDE DEF S
  <1>3. Len(t) \in S
    BY <1>1, <1>2, SetInduction
  <1>4. SubSeq(t, 1, Len(t)) = t
    BY SubSeqFull
  <1>5. Visible(s \o SubSeq(t, 1, Len(t))) = Visible(s) \o Visible(SubSeq(t, 1, Len(t)))
    BY <1>3 DEF S
  <1> QED
    BY <1>4, <1>5

-----------------------------------------------------------------------------
(* The lines one behind the other.                                         *)

Joins(f, lines) ==
    /\ f = [n \in 0 .. Len(lines) |-> f[n]] /\ f[0] = <<>>
    /\ \A n \in 1 .. Len(lines) : f[n] = f[n - 1] \o lines[n]

LEMMA JoinsExists ==
    ASSUME NEW C, NEW s \in Seq(Seq(C))
    PROVE  \E f : Joins(f, s)
  <1> DEFINE next == [n \in 1 .. Len(s) |-> [v \in Seq(C) |-> v \o s[n]]]
             V == Seq(C)
  <1>1. \A n \in 1 .. Len(s), v \in V : next[n][v] = v \o s[n]
    OBVIOUS
  <1>2. <<>> \in V /\ Len(s) \in Nat
    OBVIOUS
  <1>3. \A n \in 1 .. Len(s), v \in V : next[n][v] \in V
    OBVIOUS
  <1> HIDE DEF next, V
  <1>4. PICK f : Recurs(f, V, <<>>, Len(s), next)
    BY <1>2, <1>3, Recursion
  <1>5. f = [n \in 0 .. Len(s) |-> f[n]] /\ f[0] = <<>>
    BY <1>4 DEF Recurs
  <1>6. ASSUME NEW n \in 1 .. Len(s) PROVE f[n] = f[n - 1] \o s[n]
    <2>1. n - 1 \in 0 .. Len(s)
      OBVIOUS
    <2>2. f[n - 1] \in V /\ f[n] = next[n][f[n - 1]]
      BY <1>4, <2>1 DEF Recurs
    <2> QED
      BY <1>1, <2>2
  <1> QED
    BY <1>5, <1>6 DEF Joins

LEMMA JoinedIs ==
    ASSUME NEW C, NEW s \in Seq(Seq(C))
    PROVE  \E f : Joins(f, s) /\ Joined(s) = f[Len(s)]
  <1> DEFINE upto[n \in 0 .. Len(s)] == IF n = 0 THEN <<>> ELSE upto[n - 1] \o s[n]
  <1>1. Joined(s) = upto[Len(s)]
    BY DEF Joined
  <1>2. PICK f : Joins(f, s)
    BY JoinsExists
  <1>3. f = [n \in 0 .. Len(s) |-> IF n = 0 THEN <<>> ELSE f[n - 1] \o s[n]]
    <2>1. ASSUME NEW n \in 0 .. Len(s) PROVE f[n] = IF n = 0 THEN <<>> ELSE f[n - 1] \o s[n]
      <3>1. n = 0 \/ n \in 1 .. Len(s)
        OBVIOUS
      <3> QED
        BY <1>2, <3>1 DEF Joins
    <2> QED
      BY <1>2, <2>1 DEF Joins
  <1>4. upto = [n \in 0 .. Len(s) |-> IF n = 0 THEN <<>> ELSE upto[n - 1] \o s[n]]
    BY <1>3, Zenon
  <1> HIDE DEF upto
  <1>5. Joins(upto, s)
    <2> DEFINE Step(n) == IF n = 0 THEN <<>> ELSE upto[n - 1] \o s[n]
    <2>1. upto = [n \in 0 .. Len(s) |-> Step(n)]
      BY <1>4
    <2> HIDE DEF Step
    <2>2. upto = [n \in 0 .. Len(s) |-> upto[n]] /\ \A n \in 0 .. Len(s) : upto[n] = Step(n)
      BY <2>1
    <2>3. upto[0] = Step(0) /\ 0 \in 0 .. Len(s)
      BY <2>2
    <2>4. ASSUME NEW n \in 1 .. Len(s) PROVE upto[n] = upto[n - 1] \o s[n]
      <3>1. upto[n] = Step(n) /\ n # 0
        BY <2>2
      <3> QED
        BY <3>1 DEF Step
    <2> QED
      BY <2>2, <2>3, <2>4 DEF Step, Joins
  <1> QED
    BY <1>1, <1>5

LEMMA JoinedEmpty == Joined(<<>>) = <<>>
  <1>1. <<>> \in Seq(Seq({})) /\ Len(<<>>) = 0
    OBVIOUS
  <1>2. PICK f : Joins(f, <<>>) /\ Joined(<<>>) = f[Len(<<>>)]
    BY <1>1, JoinedIs
  <1> QED
    BY <1>1, <1>2 DEF Joins

LEMMA JoinedAppend ==
    ASSUME NEW C, NEW s \in Seq(Seq(C)), NEW c \in Seq(C)
    PROVE  Joined(Append(s, c)) = Joined(s) \o c
  <1>1. PICK t : t = Append(s, c)
    OBVIOUS
  <1>2. PICK D : D = Seq(C)
    OBVIOUS
  <1>3. /\ t \in Seq(D) /\ Len(t) = Len(s) + 1 /\ t[Len(t)] = c
        /\ s \in Seq(D) /\ \A i \in 1 .. Len(s) : s[i] = t[i]
    BY <1>1, <1>2
  <1>4. PICK f : Joins(f, s) /\ Joined(s) = f[Len(s)]
    BY JoinedIs
  <1>5. PICK g : Joins(g, t) /\ Joined(t) = g[Len(t)]
    BY <1>2, <1>3, JoinedIs
  <1> DEFINE S == {n \in Nat : n <= Len(s) => f[n] = g[n]}
  <1>6. 0 \in S
    BY <1>4, <1>5 DEF Joins
  <1>7. ASSUME NEW n \in Nat, n \in S PROVE n + 1 \in S
    <2> SUFFICES ASSUME n + 1 <= Len(s) PROVE f[n + 1] = g[n + 1]
      OBVIOUS
    <2>1. PICK m : m = n + 1
      OBVIOUS
    <2>2. m \in 1 .. Len(s) /\ m \in 1 .. Len(t) /\ f[m - 1] = g[m - 1] /\ s[m] = t[m]
      BY <1>3, <1>7, <2>1
    <2>3. f[m] = g[m]
      BY <1>4, <1>5, <2>2 DEF Joins
    <2> QED
      BY <2>1, <2>3
  <1> HIDE DEF S
  <1>8. Nat \subseteq S
    BY <1>6, <1>7, SetInduction
  <1>9. f[Len(s)] = g[Len(s)]
    BY <1>3, <1>8 DEF S
  <1>10. Len(t) \in 1 .. Len(t) /\ Len(t) - 1 = Len(s)
    BY <1>3
  <1>11. g[Len(t)] = g[Len(t) - 1] \o t[Len(t)]
    BY <1>5, <1>10 DEF Joins
  <1> QED
    BY <1>1, <1>3, <1>4, <1>5, <1>9, <1>10, <1>11

LEMMA JoinedIsSeq ==
    ASSUME NEW C, NEW s \in Seq(Seq(C))
    PROVE  Joined(s) \in Seq(C)
  <1>1. PICK f : Joins(f, s) /\ Joined(s) = f[Len(s)]
    BY JoinedIs
  <1> DEFINE S == {n \in Nat : n <= Len(s) => f[n] \in Seq(C)}
  <1>2. 0 \in S
    BY <1>1 DEF Joins
  <1>3. ASSUME NEW n \in Nat, n \in S PROVE n + 1 \in S
    <2> SUFFICES ASSUME n + 1 <= Len(s) PROVE f[n + 1] \in Seq(C)
      OBVIOUS
    <2>1. PICK m : m = n + 1
      OBVIOUS
    <2>2. m \in 1 .. Len(s) /\ f[m - 1] \in Seq(C) /\ s[m] \in Seq(C)
      BY <1>3, <2>1
    <2>3. f[m] = f[m - 1] \o s[m]
      BY <1>1, <2>2 DEF Joins
    <2>4. f[m - 1] \o s[m] \in Seq(C)
      BY <2>2
    <2> QED
      BY <2>1, <2>3, <2>4
  <1> HIDE DEF S
  <1>4. Nat \subseteq S
    BY <1>2, <1>3, SetInduction
  <1>5. Len(s) \in Nat
    OBVIOUS
  <1>6. f[Len(s)] \in Seq(C)
    BY <1>4, <1>5 DEF S
  <1> QED
    BY <1>1, <1>6

-----------------------------------------------------------------------------
(* A line is taken out of the buffer.                                      *)

\* What goes and is not logged is the end of the line.
Cut(b, t) ==
    /\ t.len \in Nat /\ t.drop \in Nat /\ t.len <= t.drop /\ t.drop <= Len(b)
    /\ t.drop = t.len \/ (t.drop = t.len + 1 /\ b[t.drop] = NL)

LEMMA LineIsCut ==
    ASSUME NEW C, NEW b \in Seq(C), NEW end \in BOOLEAN, TakeLine(b, end).got
    PROVE  Cut(b, TakeLine(b, end))
  <1>1. PICK n : n = SelectInSeq(b, LAMBDA c : c = NL)
    OBVIOUS
  <1>2. n \in Nat /\ n <= Len(b) /\ (n > 0 => b[n] = NL)
    <2> DEFINE I == {i \in 1 .. Len(b) : b[i] = NL}
    <2>1. n = IF I # {} THEN Min(I) ELSE 0
      BY <1>1 DEF SelectInSeq
    <2>2. I # {} => Min(I) \in I
      <3> SUFFICES ASSUME I # {} PROVE Min(I) \in I
        OBVIOUS
      <3>1. I \in SUBSET Nat
        OBVIOUS
      <3> HIDE DEF I
      <3>2. \E x \in I : \A y \in I : x <= y
        BY <3>1, LeastOfMany
      <3> QED
        BY <3>2 DEF Min
    <2> QED
      BY <2>1, <2>2
  <1>3. BufferLength - 1 \in Nat /\ BufferLength - 1 >= 1
    BY PrinterAssumption
  <1>4. PICK m : m = BufferLength - 1
    OBVIOUS
  <1>5. TakeLine(b, end) =
          IF n > 0 THEN IF n - 1 > m THEN [got |-> TRUE, len |-> m, drop |-> m]
                        ELSE [got |-> TRUE, len |-> n - 1, drop |-> n]
          ELSE IF b # <<>> /\ (end \/ Len(b) = ReadbufSize \/ Len(b) >= m)
               THEN [got |-> TRUE, len |-> IF Len(b) > m THEN m ELSE Len(b), drop |-> IF Len(b) > m THEN m ELSE Len(b)]
          ELSE [got |-> FALSE, len |-> 0, drop |-> 0]
    BY <1>1, <1>4 DEF TakeLine
  <1> QED
    BY <1>2, <1>3, <1>4, <1>5 DEF Cut

\* Where no line can be taken there is room for more, and after the end nothing left.
LEMMA NothingToTake ==
    ASSUME NEW C, NEW b \in Seq(C), NEW end \in BOOLEAN, ~TakeLine(b, end).got
    PROVE  Len(b) < ReadbufSize /\ (end => b = <<>>)
  <1> DEFINE m == BufferLength - 1
             n == SelectInSeq(b, LAMBDA c : c = NL)
  <1>1. ~(n > 0) /\ ~(b # <<>> /\ (end \/ Len(b) = ReadbufSize \/ Len(b) >= m))
    BY DEF TakeLine
  <1>2. ReadbufSize \in Nat /\ BufferLength \in Nat /\ ReadbufSize > m /\ BufferLength > 1
    BY PrinterAssumption
  <1> QED
    BY <1>1, <1>2

\* What is visible is the same before and after.
LEMMA CutKeeps ==
    ASSUME NEW C, NEW b \in Seq(C), NEW t, Cut(b, t)
    PROVE  /\ SubSeq(b, 1, t.len) \in Seq(C) /\ SubSeq(b, t.drop + 1, Len(b)) \in Seq(C)
           /\ Len(SubSeq(b, t.drop + 1, Len(b))) <= Len(b)
           /\ Visible(SubSeq(b, 1, t.len) \o SubSeq(b, t.drop + 1, Len(b))) = Visible(b)
  <1>1. PICK l, d : l = t.len /\ d = t.drop
    OBVIOUS
  <1>2. /\ l \in Nat /\ d \in Nat /\ l <= d /\ d <= Len(b)
        /\ d = l \/ (d = l + 1 /\ b[d] = NL)
    BY <1>1 DEF Cut
  <1>3. PICK x, y : x = SubSeq(b, 1, l) /\ y = SubSeq(b, d + 1, Len(b))
    OBVIOUS
  <1>4. x \in Seq(C) /\ y \in Seq(C) /\ Len(y) <= Len(b)
    BY <1>2, <1>3
  <1>5. Visible(x \o y) = Visible(b)
    <2>1. PICK z : z = SubSeq(b, 1, d)
      OBVIOUS
    <2>2. z \in Seq(C) /\ z \o y = b
      <3>1. z \in Seq(C)
        BY <1>2, <2>1
      <3>2. z \o y = SubSeq(b, 1, Len(b))
        <4>1. /\ 1 \in 1 .. Len(b) + 1 /\ d \in 1 - 1 .. Len(b) /\ Len(b) \in d .. Len(b)
          BY <1>2
        <4>2. SubSeq(b, 1, d) \o SubSeq(b, d + 1, Len(b)) = SubSeq(b, 1, Len(b))
          BY <4>1, ConcatAdjacentSubSeq, Zenon
        <4> QED
          BY <1>3, <2>1, <4>2
      <3> QED
        BY <3>1, <3>2, SubSeqFull
    <2>3. Visible(z) = Visible(x)
      <3>1. CASE d = l
        BY <1>3, <2>1, <3>1
      <3>2. CASE d = l + 1 /\ b[d] = NL
        <4>1. z = Append(x, NL) /\ NL \in C
          BY <1>2, <1>3, <2>1, <3>2
        <4> QED
          BY <1>4, <4>1, VisibleAppend
      <3> QED
        BY <1>2, <3>1, <3>2
    <2>4. Visible(x \o y) = Visible(x) \o Visible(y) /\ Visible(z \o y) = Visible(z) \o Visible(y)
      BY <1>4, <2>2, VisibleConcat, Zenon
    <2> QED
      BY <2>2, <2>3, <2>4, Zenon
  <1> QED
    BY <1>1, <1>3, <1>4, <1>5

-----------------------------------------------------------------------------
(* The invariant.                                                          *)

Buffers(l, b, p) ==
    /\ l \in Seq(Seq(Spoken)) /\ b \in Seq(Spoken) /\ p \in Seq(Spoken)
    /\ Len(b) <= ReadbufSize

\* All that a child said, in the log, the buffer and the pipe.
AllOf(l, b, p) == Visible(Joined(l) \o b \o p)

\* Behind the end of the child's output there is nothing more to read.
Finished ==
    eof => /\ outq = <<>> /\ child = "exited"
           /\ srv \in {"reap", "wait"} => rbuf = <<>>

PrinterInv ==
    /\ Buffers(logged, rbuf, outq)
    /\ said \in Seq(Spoken) /\ owe \in Seq(Spoken) /\ eof \in BOOLEAN
    /\ Finished
    /\ RepliesLogged

LEMMA AllOfParts ==
    ASSUME NEW l, NEW b, NEW p, Buffers(l, b, p)
    PROVE  AllOf(l, b, p) = (Visible(Joined(l)) \o Visible(b)) \o Visible(p)
  <1>1. PICK j : j = Joined(l)
    OBVIOUS
  <1>2. j \in Seq(Spoken)
    BY <1>1, JoinedIsSeq DEF Buffers
  <1>3. j \o b \in Seq(Spoken) /\ b \in Seq(Spoken) /\ p \in Seq(Spoken)
    BY <1>2 DEF Buffers
  <1>4. Visible((j \o b) \o p) = Visible(j \o b) \o Visible(p)
    BY <1>3, VisibleConcat
  <1>5. Visible(j \o b) = Visible(j) \o Visible(b)
    BY <1>2, <1>3, VisibleConcat
  <1> QED
    BY <1>1, <1>4, <1>5 DEF AllOf

\* Into the buffer.
LEMMA TakingKeeps ==
    ASSUME NEW l, NEW b, NEW p, Buffers(l, b, p), NEW n \in Nat, n <= Len(p), n <= ReadbufSize - Len(b)
    PROVE  /\ Buffers(l, b \o SubSeq(p, 1, n), SubSeq(p, n + 1, Len(p)))
           /\ AllOf(l, b \o SubSeq(p, 1, n), SubSeq(p, n + 1, Len(p))) = AllOf(l, b, p)
  <1>1. PICK j : j = Joined(l)
    OBVIOUS
  <1>2. j \in Seq(Spoken)
    BY <1>1, JoinedIsSeq DEF Buffers
  <1>3. PICK x, y : x = SubSeq(p, 1, n) /\ y = SubSeq(p, n + 1, Len(p))
    OBVIOUS
  <1>4. x \in Seq(Spoken) /\ y \in Seq(Spoken) /\ Len(x) = n
    BY <1>3 DEF Buffers
  <1>5. p = x \o y
    <2>1. p \in Seq(Spoken)
      BY DEF Buffers
    <2>2. 1 \in 1 .. Len(p) + 1 /\ n \in 1 - 1 .. Len(p) /\ Len(p) \in n .. Len(p)
      BY <2>1
    <2>3. SubSeq(p, 1, n) \o SubSeq(p, n + 1, Len(p)) = SubSeq(p, 1, Len(p))
      BY <2>1, <2>2, ConcatAdjacentSubSeq, Zenon
    <2> QED
      BY <1>3, <2>1, <2>3, SubSeqFull
  <1>6. b \in Seq(Spoken) /\ ReadbufSize \in Nat
    BY PrinterAssumption DEF Buffers
  <1>7. b \o x \in Seq(Spoken) /\ Len(b \o x) <= ReadbufSize
    BY <1>4, <1>6
  <1>8. (j \o b) \o (x \o y) = (j \o (b \o x)) \o y
    <2>1. j \in Seq(Spoken) /\ b \in Seq(Spoken) /\ x \in Seq(Spoken)
      BY <1>2, <1>4, <1>6
    <2>2. (j \o b) \o x = j \o (b \o x)
      BY <2>1, SMT
    <2>3. PICK z : z = j \o b
      OBVIOUS
    <2>4. z \in Seq(Spoken) /\ x \in Seq(Spoken) /\ y \in Seq(Spoken)
      BY <1>4, <2>1, <2>3
    <2>5. (z \o x) \o y = z \o (x \o y)
      BY <2>4, SMT
    <2> QED
      BY <2>2, <2>3, <2>5, Zenon
  <1>9. AllOf(l, b \o x, y) = AllOf(l, b, p)
    BY <1>1, <1>5, <1>8 DEF AllOf
  <1> QED
    BY <1>3, <1>4, <1>7, <1>9 DEF Buffers

\* Into the log.
LEMMA LoggingKeeps ==
    ASSUME NEW l, NEW b, NEW p, Buffers(l, b, p), NEW t, Cut(b, t)
    PROVE  /\ Buffers(Append(l, SubSeq(b, 1, t.len)), SubSeq(b, t.drop + 1, Len(b)), p)
           /\ AllOf(Append(l, SubSeq(b, 1, t.len)), SubSeq(b, t.drop + 1, Len(b)), p) = AllOf(l, b, p)
  <1>1. PICK x, y : x = SubSeq(b, 1, t.len) /\ y = SubSeq(b, t.drop + 1, Len(b))
    OBVIOUS
  <1>2. b \in Seq(Spoken) /\ l \in Seq(Seq(Spoken)) /\ p \in Seq(Spoken)
    BY DEF Buffers
  <1>3. x \in Seq(Spoken) /\ y \in Seq(Spoken) /\ Len(y) <= Len(b) /\ Visible(x \o y) = Visible(b)
    BY <1>1, <1>2, CutKeeps
  <1>4. PICK k : k = Append(l, x)
    OBVIOUS
  <1>5. k \in Seq(Seq(Spoken))
    BY <1>2, <1>3, <1>4
  <1>6. Buffers(k, y, p)
    <2>1. ReadbufSize \in Nat /\ Len(b) \in Nat /\ Len(y) \in Nat /\ Len(b) <= ReadbufSize
      BY <1>2, <1>3, PrinterAssumption DEF Buffers
    <2> QED
      BY <1>2, <1>3, <1>5, <2>1 DEF Buffers
  <1>7. Joined(k) = Joined(l) \o x
    BY <1>2, <1>3, <1>4, JoinedAppend
  <1>8. PICK j : j = Joined(l)
    OBVIOUS
  <1>9. j \in Seq(Spoken)
    BY <1>2, <1>8, JoinedIsSeq
  <1>10. /\ Visible(j \o x) = Visible(j) \o Visible(x)
         /\ Visible(x \o y) = Visible(x) \o Visible(y)
    BY <1>3, <1>9, VisibleConcat
  <1>11. (Visible(j) \o Visible(x)) \o Visible(y) = Visible(j) \o (Visible(x) \o Visible(y))
    <2>1. PICK u, v, w : u = Visible(j) /\ v = Visible(x) /\ w = Visible(y)
      OBVIOUS
    <2>2. u \in Seq(Spoken) /\ v \in Seq(Spoken) /\ w \in Seq(Spoken)
      BY <1>3, <1>9, <2>1, VisibleIsSeq, Zenon
    <2>3. (u \o v) \o w = u \o (v \o w)
      BY <2>2, SMT
    <2> QED
      BY <2>1, <2>3, Zenon
  <1>12. /\ AllOf(k, y, p) = (Visible(Joined(k)) \o Visible(y)) \o Visible(p)
         /\ AllOf(l, b, p) = (Visible(Joined(l)) \o Visible(b)) \o Visible(p)
    BY <1>6, AllOfParts
  <1>13. AllOf(k, y, p) = AllOf(l, b, p)
    BY <1>3, <1>7, <1>8, <1>10, <1>11, <1>12
  <1> QED
    BY <1>1, <1>4, <1>6, <1>13

LEMMA ReadLineKeeps ==
    ASSUME PrinterInv, NEW waits \in BOOLEAN, NEW next, ReadLine(waits, next)
    PROVE  /\ Buffers(logged', rbuf', outq')
           /\ AllOf(logged', rbuf', outq') = AllOf(logged, rbuf, outq)
           /\ srv' \in {srv, next} /\ eof' \in BOOLEAN
           /\ eof' => outq' = <<>> /\ child = "exited" /\ (srv' = srv \/ rbuf' = <<>>)
  <1> DEFINE room == ReadbufSize - Len(rbuf)
             n    == IF Len(outq) < room THEN Len(outq) ELSE room
             b    == rbuf \o SubSeq(outq, 1, n)
             rest == SubSeq(outq, n + 1, Len(outq))
             end  == eof \/ (waits /\ n = 0)
             t0   == TakeLine(rbuf, eof)
             t    == TakeLine(b, end)
  <1>1. Buffers(logged, rbuf, outq)
    BY DEF PrinterInv
  <1>2. n \in Nat /\ n <= Len(outq) /\ n <= ReadbufSize - Len(rbuf)
    BY <1>1, PrinterAssumption DEF Buffers
  <1>3. /\ Buffers(logged, b, rest)
        /\ AllOf(logged, b, rest) = AllOf(logged, rbuf, outq)
    BY <1>1, <1>2, TakingKeeps
  <1>4. end \in BOOLEAN /\ eof \in BOOLEAN /\ (eof => outq = <<>> /\ child = "exited")
    BY DEF PrinterInv, Finished
  <1>5. ReadLine(waits, next) =
            IF t0.got
            THEN Log(rbuf, t0) /\ UNCHANGED <<outq, eof, srv>>
            ELSE IF eof THEN srv' = next /\ UNCHANGED <<outq, eof, rbuf, logged>>
            ELSE /\ waits => outq # <<>> \/ child = "exited"
                 /\ outq' = rest
                 /\ eof' = end
                 /\ IF t.got THEN Log(b, t) /\ UNCHANGED srv
                    ELSE rbuf' = b /\ srv' = next /\ UNCHANGED logged
    BY DEF ReadLine
  <1>6. CASE t0.got
    <2>1. Cut(rbuf, t0)
      BY <1>1, <1>4, <1>6, LineIsCut DEF Buffers
    <2>2. Log(rbuf, t0) /\ UNCHANGED <<outq, eof, srv>>
      BY <1>5, <1>6
    <2>3. /\ logged' = Append(logged, SubSeq(rbuf, 1, t0.len))
          /\ rbuf' = SubSeq(rbuf, t0.drop + 1, Len(rbuf)) /\ outq' = outq /\ srv' = srv /\ eof' = eof
      BY <2>2 DEF Log
    <2> HIDE DEF t0
    <2> QED
      BY <1>1, <1>4, <2>1, <2>3, LoggingKeeps
  <1>7. CASE ~t0.got /\ eof
    <2>1. srv' = next /\ UNCHANGED <<outq, eof, rbuf, logged>>
      BY <1>5, <1>7
    <2>2. rbuf = <<>>
      BY <1>1, <1>4, <1>7, NothingToTake DEF Buffers
    <2> HIDE DEF t0
    <2> QED
      BY <1>1, <1>4, <2>1, <2>2
  <1>8. CASE ~t0.got /\ ~eof
    <2>4. Len(rbuf) < ReadbufSize
      BY <1>1, <1>4, <1>8, NothingToTake DEF Buffers
    <2> HIDE DEF t0
    <2>1. /\ outq' = rest /\ eof' = end
          /\ waits => outq # <<>> \/ child = "exited"
          /\ IF t.got THEN Log(b, t) /\ UNCHANGED srv
             ELSE rbuf' = b /\ srv' = next /\ UNCHANGED logged
      BY <1>5, <1>8
    <2>5. eof' => outq' = <<>> /\ child = "exited"
      <3> SUFFICES ASSUME eof' PROVE outq' = <<>> /\ child = "exited"
        OBVIOUS
      <3>1. waits /\ n = 0
        BY <1>8, <2>1
      <3>2. outq \in Seq(Spoken) /\ rbuf \in Seq(Spoken) /\ ReadbufSize \in Nat
        BY <1>1, PrinterAssumption DEF Buffers
      <3>3. Len(outq) = 0
        BY <2>4, <3>1, <3>2
      <3>4. outq = <<>>
        BY <3>2, <3>3
      <3> QED
        BY <2>1, <3>1, <3>4
    <2>2. CASE t.got
      <3>1. b \in Seq(Spoken)
        BY <1>3 DEF Buffers
      <3> HIDE DEF b, rest, end, n
      <3>2. Cut(b, t)
        BY <1>4, <2>2, <3>1, LineIsCut
      <3>3. /\ logged' = Append(logged, SubSeq(b, 1, t.len))
            /\ rbuf' = SubSeq(b, t.drop + 1, Len(b)) /\ srv' = srv
        BY <2>1, <2>2 DEF Log
      <3> HIDE DEF t
      <3> QED
        BY <1>3, <1>4, <2>1, <2>5, <3>2, <3>3, LoggingKeeps
    <2>3. CASE ~t.got
      <3>1. b \in Seq(Spoken)
        BY <1>3 DEF Buffers
      <3> HIDE DEF b, rest, end, n
      <3>2. end => b = <<>>
        BY <1>4, <2>3, <3>1, NothingToTake
      <3> HIDE DEF t
      <3> QED
        BY <1>3, <1>4, <2>1, <2>3, <2>5, <3>2
    <2> QED
      BY <2>2, <2>3
  <1> QED
    BY <1>6, <1>7, <1>8

LEMMA PrinterInvInit == PrinterInit => PrinterInv
  <1> SUFFICES ASSUME PrinterInit PROVE PrinterInv
    OBVIOUS
  <1>1. /\ logged = <<>> /\ rbuf = <<>> /\ outq = <<>> /\ said = <<>> /\ owe = <<>> /\ eof = FALSE
        /\ spawned = FALSE
    BY DEF PrinterInit
  <1>2. RepliesLogged /\ Finished
    BY <1>1 DEF RepliesLogged, Finished
  <1>3. Buffers(<<>>, <<>>, <<>>)
    BY PrinterAssumption DEF Buffers
  <1>4. <<>> \in Seq(Spoken)
    OBVIOUS
  <1> QED
    BY <1>1, <1>2, <1>3, <1>4 DEF PrinterInv

\* The steps that touch neither log nor buffer nor pipe.
LEMMA OthersKeep ==
    ASSUME PrinterInv, UNCHANGED <<logged, rbuf, outq, said, eof>>, owe' \in Seq(Spoken),
           spawned' => spawned, srv' # "wait" => srv # "wait" \/ ~spawned',
           child' = child \/ child' = "exited",
           eof => (srv' \in {"reap", "wait"} => srv \in {"reap", "wait"})
    PROVE  PrinterInv'
  <1>1. Finished'
    BY DEF PrinterInv, Finished
  <1>2. RepliesLogged'
    <2>1. (spawned /\ (srv # "wait" \/ eof) => Visible(said) = Visible(Joined(logged) \o rbuf \o outq))'
      BY DEF PrinterInv, RepliesLogged
    <2>2. (srv = "wait" /\ eof => rbuf = <<>> /\ outq = <<>>)'
      BY <1>1 DEF Finished
    <2> QED
      BY <2>1, <2>2 DEF RepliesLogged
  <1> QED
    BY <1>1, <1>2 DEF PrinterInv

\* The process is new: nothing has been said.
LEMMA SpawnStarts ==
    ASSUME logged' = <<>>, rbuf' = <<>>, outq' = <<>>, said' = <<>>, owe' = <<>>, eof' = FALSE
    PROVE  PrinterInv'
  <1>1. Buffers(<<>>, <<>>, <<>>)
    BY PrinterAssumption DEF Buffers
  <1>2. <<>> \in Seq(Spoken)
    OBVIOUS
  <1>3. (<<>> \o <<>>) \o <<>> = <<>>
    OBVIOUS
  <1>4. RepliesLogged' /\ Finished'
    BY <1>3, JoinedEmpty DEF RepliesLogged, Finished
  <1> QED
    BY <1>1, <1>2, <1>4 DEF PrinterInv

LEMMA PrintKeeps ==
    ASSUME PrinterInv, NEW line, Write(line)
    PROVE  PrinterInv'
  <1>1. owe \in Seq(Spoken)
    BY DEF PrinterInv
  <1>2. CASE UNCHANGED pipes /\ UNCHANGED <<rbuf, eof, logged, srv, spawned>>
    BY <1>1, <1>2, OthersKeep DEF pipes
  <1>3. CASE UNCHANGED pipes /\ UNCHANGED <<rbuf, eof, logged, spawned>> /\ srv = "idle" /\ srv' = "write"
    BY <1>1, <1>3, OthersKeep DEF pipes
  <1>4. CASE owe' = <<>> /\ outq' = <<>> /\ said' = <<>> /\ rbuf' = <<>> /\ eof' = FALSE /\ logged' = <<>>
    BY <1>4, SpawnStarts
  <1> QED
    BY <1>2, <1>3, <1>4 DEF Write

LEMMA ReadsKeep ==
    ASSUME PrinterInv, NEW waits \in BOOLEAN, NEW next, ReadLine(waits, next), next # "wait",
           srv \notin {"reap", "wait"}, UNCHANGED <<said, owe, spawned, child>>
    PROVE  PrinterInv'
  <1>1. /\ Buffers(logged', rbuf', outq')
        /\ AllOf(logged', rbuf', outq') = AllOf(logged, rbuf, outq)
        /\ srv' \in {srv, next} /\ eof' \in BOOLEAN
        /\ eof' => outq' = <<>> /\ child = "exited" /\ (srv' = srv \/ rbuf' = <<>>)
    BY ReadLineKeeps
  <1>3. Finished'
    BY <1>1 DEF Finished
  <1>2. RepliesLogged'
    BY <1>1 DEF PrinterInv, RepliesLogged, AllOf
  <1> QED
    BY <1>1, <1>2, <1>3 DEF PrinterInv

LEMMA SpeechIsHeard == Says \subseteq Seq(Spoken)
  BY PrinterAssumption

LEMMA ChildSaysKeeps ==
    ASSUME PrinterInv, ChildSays
    PROVE  PrinterInv'
  <1>1. /\ owe \in Seq(Spoken) /\ owe # <<>> /\ outq \in Seq(Spoken) /\ said \in Seq(Spoken)
        /\ Buffers(logged, rbuf, outq)
    BY DEF PrinterInv, ChildSays, Buffers
  <1>2. PICK c : c = Head(owe)
    OBVIOUS
  <1>3. c \in Spoken /\ Tail(owe) \in Seq(Spoken)
    BY <1>1, <1>2
  <1>4. UNCHANGED <<logged, rbuf, eof, spawned, srv, child>> /\ owe' = Tail(owe)
    BY DEF ChildSays
  <1>7. ~eof
    BY DEF ChildSays, PrinterInv, Finished
  <1>5. CASE UNCHANGED <<outq, said>>
    BY <1>3, <1>4, <1>5, OthersKeep
  <1>6. CASE outq' = Append(outq, c) /\ said' = Append(said, c)
    <2>1. outq' \in Seq(Spoken) /\ said' \in Seq(Spoken)
      BY <1>1, <1>3, <1>6
    <2>2. Buffers(logged', rbuf', outq')
      BY <1>1, <1>4, <2>1 DEF Buffers
    <2>3. PICK j : j = Joined(logged) \o rbuf
      OBVIOUS
    <2>4. j \in Seq(Spoken)
      <3>1. Joined(logged) \in Seq(Spoken) /\ rbuf \in Seq(Spoken)
        BY <1>1, JoinedIsSeq DEF Buffers
      <3> QED
        BY <2>3, <3>1
    <2>5. j \o Append(outq, c) = Append(j \o outq, c) /\ j \o outq \in Seq(Spoken)
      BY <1>1, <1>3, <2>4
    <2>6. /\ Visible(Append(j \o outq, c)) = IF c = NL THEN Visible(j \o outq) ELSE Append(Visible(j \o outq), c)
          /\ Visible(Append(said, c)) = IF c = NL THEN Visible(said) ELSE Append(Visible(said), c)
      BY <1>1, <1>3, <2>5, VisibleAppend
    <2>7. RepliesLogged'
      <3> SUFFICES ASSUME spawned, srv # "wait"
                   PROVE  Visible(said') = Visible(j \o outq')
        BY <1>4, <1>7, <2>3 DEF RepliesLogged
      <3>1. Visible(said) = Visible(j \o outq)
        BY <2>3 DEF PrinterInv, RepliesLogged
      <3> QED
        BY <1>6, <2>5, <2>6, <3>1
    <2> QED
      BY <1>3, <1>4, <1>7, <2>1, <2>2, <2>7 DEF PrinterInv, Finished
  <1> QED
    BY <1>2, <1>5, <1>6 DEF ChildSays

LEMMA PrinterInvStep == PrinterInv /\ [PrinterNext]_printvars => PrinterInv'
  <1> SUFFICES ASSUME PrinterInv, [PrinterNext]_printvars PROVE PrinterInv'
    OBVIOUS
  <1> USE DEF pipes
  <1>0. owe \in Seq(Spoken) /\ <<>> \in Seq(Spoken)
    BY DEF PrinterInv
  <1>1. ASSUME NEW l \in PrintLines, Write(l) PROVE PrinterInv'
    BY <1>1, PrintKeeps
  <1>2. CASE Flush
    BY <1>0, <1>2, OthersKeep DEF Flush
  <1>3. CASE WriteData
    BY <1>0, <1>3, OthersKeep DEF WriteData
  <1>4. CASE LogReplies
    BY <1>4, ReadsKeep DEF LogReplies
  <1>5. CASE LastReplies
    BY <1>5, ReadsKeep DEF LastReplies
  <1>6. CASE Close
    BY <1>0, <1>6, OthersKeep DEF Close
  <1>7. CASE Drain
    <2>1. CASE ReadLine(TRUE, "reap")
      BY <1>7, <2>1, ReadsKeep DEF Drain
    <2>2. CASE ~eof /\ srv' = "reap" /\ UNCHANGED <<outq, eof, rbuf, logged>>
      BY <1>0, <1>7, <2>2, OthersKeep DEF Drain
    <2> QED
      BY <1>7, <2>1, <2>2 DEF Drain
  <1>8. CASE ExitCloses
    BY <1>0, <1>8, OthersKeep DEF ExitCloses
  <1>9. CASE Exit
    BY <1>0, <1>9, OthersKeep DEF Exit
  <1>10. CASE ChildReads
    <2>1. owe' \in Seq(Spoken)
      BY <1>10, SpeechIsHeard DEF ChildReads
    <2> QED
      BY <1>10, <2>1, OthersKeep DEF ChildReads
  <1>11. CASE ChildSays
    BY <1>11, ChildSaysKeeps
  <1>12. CASE ChildEnds
    BY <1>0, <1>12, OthersKeep DEF ChildEnds
  <1>13. CASE ChildDies
    BY <1>0, <1>13, OthersKeep DEF ChildDies
  <1>14. CASE UNCHANGED printvars
    BY <1>0, <1>14, OthersKeep DEF printvars
  <1> QED
    BY <1>1, <1>2, <1>3, <1>4, <1>5, <1>6, <1>7, <1>8, <1>9, <1>10, <1>11, <1>12, <1>13, <1>14
       DEF PrinterNext, Server, Child

\* Nothing the child says is lost or changes its order between its mouth and the
\* log: what has been logged, waits in the read buffer or is in the pipe is all it
\* said, however its lines fall into the buffers and whenever it dies.  If the
\* server has met the end of its output, all of it is in the log.
THEOREM NothingIsSwallowed == PrinterSpec => []RepliesLogged
  <1>1. PrinterInv => RepliesLogged
    BY DEF PrinterInv
  <1> QED
    BY <1>1, PrinterInvInit, PrinterInvStep, PTL DEF PrinterSpec
=============================================================================
