----------------------------- MODULE ImageFiles -----------------------------
(***************************************************************************)
(* An image in memory and its files (AtrMemoryImage.cpp): it is created    *)
(* with a number of sectors, and written to an ATR, a raw or a DI file and *)
(* read back, in any order.  Only its geometry is kept; a call that fails  *)
(* leaves no image.                                                        *)
(***************************************************************************)
EXTENDS AtrImage

CONSTANTS
    ImageLengths, \* lengths of sectors
    SectorCounts  \* numbers of sectors

ASSUME FilesAssumption == ImageLengths \subseteq SectorLengths /\ SectorCounts \subseteq Nat

VARIABLE geometry   \* fImageConfig

FilesInit == geometry = NoDisk

\* CreateImage, if there is memory for the image (one or two sectors of double
\* density would be smaller than the three short ones).
Create ==
    \E seclen \in ImageLengths, n \in SectorCounts :
        LET c == SetFormatSectors(seclen, n)
        IN  (seclen = 256 => n \notin {1, 2}) /\ geometry' = c

\* The image is written to a file, and the file is read.
ThroughAtr ==
    /\ geometry # NoDisk
    /\ \E p \in BOOLEAN : geometry' = SetFormatFromATRHeader(AtrHeader(geometry, p))

ThroughXfd == geometry # NoDisk /\ geometry' = XfdConfig(ImageSize(geometry))

\* (The buffer of WriteImageToDiFile has room for sectors of 256 bytes.)
ThroughDi ==
    /\ geometry # NoDisk /\ geometry.seclen <= 256
    /\ geometry' = DiConfig(DiHeader(geometry))

FilesNext == Create \/ ThroughAtr \/ ThroughXfd \/ ThroughDi
FilesSpec == FilesInit /\ [][FilesNext]_geometry

\* Whatever files an image went through, its sectors lie one behind the other and fill
\* it, and its geometry comes back from the ATR file, from the raw file if its size
\* tells the density, and from the DI file.
GeometrySound == geometry # NoDisk => Sound(geometry)
=============================================================================
