-------------------------------- MODULE Dos2x --------------------------------
(***************************************************************************)
(* The Atari file system atariserver and dir2atr build on an image         *)
(* (tools/Dos2xUtils.cpp): the tables of free sectors, in one sector, in   *)
(* two that overlap (DOS 2.5) or in as many as MyDOS needs, the directory  *)
(* and the chains of the files.  A table is the set of the sectors whose   *)
(* bits are set; contents of files are left out.  Sector numbers are those *)
(* of the code.                                                            *)
(***************************************************************************)
EXTENDS Integers, Sequences, FiniteSetsExt, SequencesExt

CONSTANTS
    Geometries,      \* [numsec, seclen, format]: the images that are formatted
    FileSizes,       \* numbers of sectors of the files that are added
    MaxEntries       \* bound: entries of the directory

\* SetDosFormat and InitVTOC refuse other images; no file has no sector.
ASSUME DosAssumption ==
    /\ Geometries \subseteq [numsec : Nat, seclen : {128, 256}, format : {"dos2", "mydos"}]
    /\ \A g \in Geometries : 720 <= g.numsec /\ g.numsec <= 65535
    /\ FileSizes \subseteq Nat \ {0} /\ MaxEntries \in Nat

VARIABLES
    geo,             \* the image
    vtoc, vtoc2,     \* free sectors in the table(s); vtoc2 is the second one of DOS 2.5
    low, high,       \* the counters of free sectors in them
    links,           \* sector -> the next one, as written into it
    dir,             \* the root directory
    result           \* what the last operation returned

dosvars == <<geo, vtoc, vtoc2, low, high, links, dir, result>>

eVTOCSector == 360
eDirSector == 361
eVTOC2Sector == 1024

\* SetDosFormat.
IsDos25EnhancedDensity == geo.format = "dos2" /\ geo.numsec = 1040 /\ geo.seclen = 128

NumVTOC(numsec, seclen) ==
    LET n == 1 + ((numsec + 80) \div (seclen * 8))
    IN  IF seclen = 128 /\ n > 1 /\ n % 2 = 1 THEN n + 1 ELSE n

GetNumberOfVTOCs == IF geo.format = "mydos" THEN NumVTOC(geo.numsec, geo.seclen) ELSE 1
Use16BitSectorLinks ==
    geo.format = "mydos" /\ IF geo.seclen = 128 THEN GetNumberOfVTOCs > 1 ELSE geo.numsec >= 1024
LastSector == IF geo.format = "mydos" THEN geo.numsec ELSE IF IsDos25EnhancedDensity THEN 1023 ELSE 719

\* Sectors no file may have: boot, tables, directory, and 720 of the DOS formats.
Reserved == (0 .. 3) \cup (eVTOCSector - GetNumberOfVTOCs + 1 .. eDirSector + 7) \cup
            (IF geo.format = "dos2" THEN {720} ELSE {})

\* MarkSectorsFree.
MarkedFree == (4 .. eVTOCSector - GetNumberOfVTOCs) \cup
              (IF IsDos25EnhancedDensity THEN (eDirSector + 8 .. 719) \cup (721 .. LastSector)
               ELSE eDirSector + 8 .. LastSector)

InitVTOC ==
    /\ geo \in Geometries
    /\ IF IsDos25EnhancedDensity
       THEN /\ vtoc = {s \in MarkedFree : s < 720} /\ vtoc2 = {s \in MarkedFree : s >= 48}
            /\ low = 707 /\ high = 303
       ELSE /\ vtoc = MarkedFree /\ vtoc2 = {}
            /\ low = (IF geo.format = "mydos" THEN LastSector - 11 - GetNumberOfVTOCs ELSE LastSector - 12)
            /\ high = 0
    /\ links = [s \in {} |-> 0]
    /\ dir = <<>> /\ result = TRUE

GetNumberOfFreeSectors == low + high

-----------------------------------------------------------------------------
\* AllocSectors takes the bits of the tables in their order, byte by byte; 128 of
\* them are put together.  A directory of MyDOS gets eight sectors of one byte,
\* behind the root directory in the first table.
InBit(S, s)    == IF s \in S THEN <<s>> ELSE <<>>
InHalf(S, s)   == InBit(S, s) \o InBit(S, s + 1) \o InBit(S, s + 2) \o InBit(S, s + 3)
InByte(S, k)   == InHalf(S, 8 * k) \o InHalf(S, 8 * k + 4)
InTable(S, t)  == FlattenSeq([k \in 1 .. 128 |-> InByte(S, 128 * t + k - 1)])
InTables(S)    == FlattenSeq([t \in 1 .. 1 + geo.numsec \div 1024 |-> InTable(S, t - 1)])
Lowest(S, n)   == SubSeq(InTables(S), 1, n)
Octet(k) == 8 * k .. 8 * k + 7
Octets == {k \in 46 .. geo.numsec \div 8 : Octet(k) \subseteq vtoc}

AllocSectors_OneTable(secs) ==
    LET S == ToSet(secs) IN
    /\ vtoc' = vtoc \ S
    /\ vtoc2' = {s \in vtoc2 : s < 720 \/ s \notin S}
    /\ LET b == Cardinality({s \in S : IsDos25EnhancedDensity /\ s >= 720})
       IN  low' = low - (Len(secs) - b) /\ high' = high - b

AllocSectors(secs) ==
    LET S == ToSet(secs) IN
    /\ vtoc' = vtoc \ S
    /\ vtoc2' = vtoc2 \ S
    /\ LET b == Cardinality({s \in S : IsDos25EnhancedDensity /\ s >= 720})
       IN  low' = low - (Len(secs) - b) /\ high' = high - b

\* WriteBufferToImage: each sector names the next one, in ten bits unless the
\* file system is one of sixteen.
WriteBufferToImage(secs) ==
    LET S == ToSet(secs)
        Behind(s) == LET i == CHOOSE j \in DOMAIN secs : secs[j] = s
                     IN  IF i = Len(secs) THEN 0 ELSE secs[i + 1]
    IN  links' = [s \in S \cup DOMAIN links |->
                    IF s \notin S THEN links[s]
                    ELSE IF Use16BitSectorLinks THEN Behind(s) ELSE Behind(s) % 1024]

\* AddEntry: a name is a stem and the number behind it, -1 for none; where
\* another entry has the same, the number becomes the first free one.
Unique(name) ==
    IF \A i \in DOMAIN dir : dir[i].name # name THEN name
    ELSE <<name[1], Min({k \in 0 .. Len(dir) : \A i \in DOMAIN dir : dir[i].name # <<name[1], k>>})>>

\* SetAtariDirectory.
Entry(name, secs, isdir) ==
    [name |-> Unique(name), isdir |-> isdir, start |-> secs[1], count |-> Len(secs),
     dos25 |-> IsDos25EnhancedDensity /\ \E i \in DOMAIN secs : secs[i] >= 720,
     bit16 |-> Use16BitSectorLinks, secs |-> secs]

\* AddFile, AddDataBlock: PICONAME.TXT and the files of a DOS are added like
\* those of the host.
AddFile(name, n) ==
    /\ UNCHANGED geo
    /\ IF n > GetNumberOfFreeSectors \/ Len(dir) >= MaxEntries
       THEN result' = FALSE /\ UNCHANGED <<vtoc, vtoc2, low, high, links, dir>>
       ELSE LET secs == Lowest(vtoc \cup {s \in vtoc2 : s >= 720}, n)
            IN  /\ AllocSectors(secs)
                /\ WriteBufferToImage(secs)
                /\ dir' = Append(dir, Entry(name, secs, FALSE))
                /\ result' = TRUE

AddDirectory(name) ==
    /\ geo.format = "mydos" /\ UNCHANGED <<geo, links>>
    /\ IF 8 > GetNumberOfFreeSectors \/ Octets = {} \/ Len(dir) >= MaxEntries
       THEN result' = FALSE /\ UNCHANGED <<vtoc, vtoc2, low, high, dir>>
       ELSE LET first == 8 * Min(Octets)
                secs == [i \in 1 .. 8 |-> first + i - 1]
            IN  /\ AllocSectors(secs)
                /\ dir' = Append(dir, Entry(name, secs, TRUE))
                /\ result' = TRUE

DosInit == InitVTOC
DosNext == \E name \in {<<"a", -1>>, <<"a", 0>>} :
               \/ \E n \in FileSizes : AddFile(name, n)
               \/ AddDirectory(name)
DosSpec == DosInit /\ [][DosNext]_dosvars

-----------------------------------------------------------------------------
\* WriteAtariFileToDisk reads the sectors of the entry, in their order and no
\* other, if each names the next one and none comes twice or lies outside.
FollowLink(e, s) == IF e.bit16 THEN links[s] ELSE links[s] % 1024
ReadsBack(e) ==
    /\ IsInjective(e.secs) /\ e.start = e.secs[1]
    /\ ToSet(e.secs) \subseteq (4 .. geo.numsec) \cap DOMAIN links
    /\ \A i \in DOMAIN e.secs :
          FollowLink(e, e.secs[i]) = IF i = Len(e.secs) THEN 0 ELSE e.secs[i + 1]

\* GetDos2Directory counts the free sectors of both tables if the first one says
\* that the disk is of DOS 2.
VtocType == IF geo.format = "dos2" THEN 2
            ELSE IF geo.seclen = 128
            THEN IF GetNumberOfVTOCs = 1 THEN 2 ELSE ((GetNumberOfVTOCs + 1) \div 2) + 2
            ELSE IF geo.numsec < 1024 THEN 2 ELSE 2 + GetNumberOfVTOCs
FreeListed == low + IF geo.numsec = 1040 /\ geo.seclen = 128 /\ VtocType = 2 THEN high ELSE 0

\* The file system is sound whatever is added, up to a full disk: no sector is
\* given twice or taken from the system, every file reads back as it was
\* written, through the links of its sectors, the two tables of DOS 2.5 agree
\* where they overlap, the counters count the bits, no bit lies outside the
\* table sectors, and no two entries have one name.
DiskSound ==
    LET used == UNION {ToSet(dir[i].secs) : i \in DOMAIN dir}
    IN  /\ \A i \in DOMAIN dir : dir[i].count = Cardinality(ToSet(dir[i].secs))
        /\ \A i, j \in DOMAIN dir : i # j => ToSet(dir[i].secs) \cap ToSet(dir[j].secs) = {}
        /\ used \cap (Reserved \cup vtoc \cup vtoc2) = {}
        /\ (vtoc \cup vtoc2) \cap Reserved = {} /\ used \subseteq 4 .. LastSector
        /\ \A i \in DOMAIN dir : ~dir[i].isdir => ReadsBack(dir[i])
        /\ IsDos25EnhancedDensity => {s \in vtoc : s >= 48} = {s \in vtoc2 : s < 720}
        /\ FreeListed = GetNumberOfFreeSectors
        /\ low = Cardinality(vtoc) /\ high = Cardinality({s \in vtoc2 : s >= 720})
        /\ ~IsDos25EnhancedDensity => 10 + (LastSector \div 8) < GetNumberOfVTOCs * geo.seclen
        /\ \A i, j \in DOMAIN dir : dir[i].name = dir[j].name => i = j
=============================================================================
