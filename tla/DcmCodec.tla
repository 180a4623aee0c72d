------------------------------ MODULE DcmCodec ------------------------------
(***************************************************************************)
(* The DiskComm compression of disk images (tools/DCMCodec.cpp).  A file   *)
(* is a sequence of passes, a pass a sequence of records, a record the     *)
(* difference of a sector to the one before.  The bytes of a record are    *)
(* kept as the code keeps them, scaled down: Full bytes are the largest    *)
(* sector, 256 in the code, an offset of Full is written as 0, and a       *)
(* smaller sector, 128 in the code, is half as long.  Record 42, which     *)
(* Save never writes, is left out.  A loop is the function from the number *)
(* of its turns to what it has done.                                       *)
(***************************************************************************)
EXTENDS Integers, Sequences, SequencesExt

CONSTANTS
    Full,         \* length of a sector of double density
    PassLimit,    \* bytes after which a pass is closed
    Base,         \* values of a byte of a sector
    ImageSizes,   \* lengths of the sectors of images
    ImageSectors  \* bound: sectors of an image, by their length

ASSUME CodecAssumption ==
    /\ Full \in Nat \ {0, 1} /\ PassLimit \in Nat /\ PassLimit > 4 /\ Base \in Nat \ {0, 1}
    /\ ImageSizes \subseteq Full \div 2 .. Full /\ ImageSectors \in [ImageSizes -> Nat]

VARIABLE disk     \* the image that is saved, AtrMemoryImage

Atr == INSTANCE AtrImage

Byte(n) == n % Full                        \* assignment to a uint8_t
ReadOffset(b) == IF b = 0 THEN Full ELSE b

\* An image: the length of its sectors and their contents, the short first one
\* padded with zeros as it is in the codec's buffer.
Zeros(n) == [i \in 1 .. n |-> 0]
Empty(n) == n = Zeros(Len(n))

-----------------------------------------------------------------------------
\* The encoders: the bytes of cur, knowing prev.
Diff(cur, prev) == {i \in DOMAIN cur : cur[i] # prev[i]}

\* EncodeRec41: the last byte that changed, and from there backwards to the first.
EncodeRec41(cur, prev) ==
    LET d == Diff(cur, prev)
        n == IF d = {} THEN 1 ELSE CHOOSE i \in d : \A j \in d : j <= i
    IN  <<Byte(n - 1)>> \o Reverse(SubSeq(cur, 1, n))

\* EncodeRec44: the first byte that changed, and from there to the end.
EncodeRec44(cur, prev) ==
    LET d == Diff(cur, prev)
        n == IF d = {} THEN Len(cur) ELSE CHOOSE i \in d : \A j \in d : i <= j
    IN  <<Byte(n - 1)>> \o SubSeq(cur, n, Len(cur))

\* EncodeRec43: strings as they are and runs of three and more, in turns, each
\* with the offset of its end; from counts the bytes already encoded.
RunEnd(cur, i) ==
    CHOOSE e \in i .. Len(cur) : /\ \A j \in i .. e : cur[j] = cur[i]
                                 /\ e = Len(cur) \/ cur[e + 1] # cur[i]

EncodeRun(st, cur) ==
    LET n == Len(cur)
        runs == {i \in st.from + 1 .. n - 2 : cur[i] = cur[i + 1] /\ cur[i] = cur[i + 2]}
        i == CHOOSE r \in runs : \A q \in runs : r <= q
    IN  IF st.from >= n THEN st
        ELSE IF runs = {} THEN [from |-> n, out |-> st.out \o <<Byte(n)>> \o SubSeq(cur, st.from + 1, n)]
        ELSE [from |-> RunEnd(cur, i),
              out |-> st.out \o <<Byte(i - 1)>> \o SubSeq(cur, st.from + 1, i - 1)
                      \o <<Byte(RunEnd(cur, i)), cur[i]>>]

EncodeRec43(cur) ==
    LET turn[k \in 0 .. Len(cur)] ==
            IF k = 0 THEN [from |-> 0, out |-> <<>>] ELSE EncodeRun(turn[k - 1], cur)
    IN  turn[Len(cur)].out

Record(type, bytes) == [type |-> type, bytes |-> bytes, next |-> 0]
Shorter(e, best) == IF Len(e.bytes) < Full - 1 /\ Len(e.bytes) < Len(best.bytes) THEN e ELSE best

EncodeRec(cur, prev, isFirst) ==
    LET r47 == Record("47", cur)
        r41 == IF isFirst THEN r47 ELSE Shorter(Record("41", EncodeRec41(cur, prev)), r47)
        r43 == Shorter(Record("43", EncodeRec43(cur)), r41)
    IN  IF isFirst THEN r43 ELSE Shorter(Record("44", EncodeRec44(cur, prev)), r43)

EncodeRec46 == Record("46", <<>>)

-----------------------------------------------------------------------------
\* Save: one step of its loop is one sector.  A record's next is 0 where the
\* code sets the top bit of its type, else the sector that follows a gap.
EncodeRecFA(last, first, recs) == [last |-> last, first |-> first, recs |-> recs]

RecordLen(r) == 1 + Len(r.bytes)

SaveSector_GapOfTwo(st, cur) ==
    LET first == st.first = 0
        gap == ~first /\ st.sec - st.prevSec > 2
        recs == IF gap THEN [st.recs EXCEPT ![Len(st.recs)].next = st.sec] ELSE st.recs
        r == IF ~first /\ cur = st.prev THEN EncodeRec46 ELSE EncodeRec(cur, st.prev, first)
    IN  [st EXCEPT !.first = IF first THEN st.sec ELSE @, !.prevSec = st.sec, !.prev = cur,
                   !.sec = @ + 1, !.recs = Append(recs, r),
                   !.len = @ + RecordLen(r) + (IF gap THEN 2 ELSE 0)]

SaveSector(st, cur) ==
    LET first == st.first = 0
        gap == ~first /\ st.sec - st.prevSec > 1
        recs == IF gap THEN [st.recs EXCEPT ![Len(st.recs)].next = st.sec] ELSE st.recs
        r == IF ~first /\ cur = st.prev THEN EncodeRec46 ELSE EncodeRec(cur, st.prev, first)
    IN  [st EXCEPT !.first = IF first THEN st.sec ELSE @, !.prevSec = st.sec, !.prev = cur,
                   !.sec = @ + 1, !.recs = Append(recs, r),
                   !.len = @ + RecordLen(r) + (IF gap THEN 2 ELSE 0)]

ClosePass(st, last) ==
    [st EXCEPT !.passes = Append(@, EncodeRecFA(last, st.first, st.recs)),
               !.first = 0, !.recs = <<>>, !.len = 4]

\* A turn of the inner loop, or the end of a pass.  No more than two turns fall on
\* a sector.
SaveTurn(st, image) ==
    IF st.sec > Len(image.data) THEN st
    ELSE IF st.len >= PassLimit THEN ClosePass(st, FALSE)
    ELSE IF Empty(image.data[st.sec]) THEN [st EXCEPT !.sec = @ + 1]
    ELSE SaveSector(st, image.data[st.sec])

SaveStart(size) ==
    [sec |-> 1, passes |-> <<>>, first |-> 0, prevSec |-> 0, prev |-> Zeros(size), recs |-> <<>>, len |-> 4]

Save(image) ==
    LET turn[k \in 0 .. 2 * Len(image.data)] ==
            IF k = 0 THEN SaveStart(image.size) ELSE SaveTurn(turn[k - 1], image)
    IN  ClosePass(turn[2 * Len(image.data)], TRUE).passes

-----------------------------------------------------------------------------
\* The decoders: the buffer after the record, from the buffer before it.
Overwrite(buf, at, bytes) ==       \* at counts from 0
    [i \in DOMAIN buf |-> IF i \in at + 1 .. at + Len(bytes) THEN bytes[i - at] ELSE buf[i]]

DecodeRec41(buf, b) == Overwrite(buf, 0, Reverse(Tail(b)))
DecodeRec44(buf, b) == Overwrite(buf, ReadOffset(b[1]), Tail(b))
DecodeRec47(buf, b) == b

\* pos bytes of the sector are decoded, b is read up to p.
DecodeRun(st, b) ==
    LET n == Len(st.out)
        e == IF st.pos = 0 THEN b[st.p] ELSE ReadOffset(b[st.p])
        string == Overwrite(st.out, st.pos, SubSeq(b, st.p + 1, st.p + e - st.pos))
        q == st.p + 1 + e - st.pos
        end == ReadOffset(b[q])
    IN  IF st.pos >= n THEN st
        ELSE IF e >= n THEN [out |-> string, p |-> q, pos |-> e]
        ELSE [out |-> Overwrite(string, e, [i \in 1 .. end - e |-> b[q + 1]]), p |-> q + 2, pos |-> end]

DecodeRec43(buf, b) ==
    LET turn[k \in 0 .. Len(buf)] ==
            IF k = 0 THEN [out |-> buf, p |-> 1, pos |-> 0] ELSE DecodeRun(turn[k - 1], b)
    IN  turn[Len(buf)].out

Decode(r, buf) ==
    CASE r.type = "41" -> DecodeRec41(buf, r.bytes)
      [] r.type = "43" -> DecodeRec43(buf, r.bytes)
      [] r.type = "44" -> DecodeRec44(buf, r.bytes)
      [] r.type = "46" -> buf
      [] r.type = "47" -> DecodeRec47(buf, r.bytes)

\* DecodeRecFA sets the current sector; the buffer lives on from pass to pass,
\* and the passes end with the one marked as the last.
DecodeRecFA(st, pass) == [st EXCEPT !.sector = pass.first, !.ended = pass.last]

LoadRecord(st, r) ==
    LET buf == Decode(r, st.buf)
        len == IF st.sector = 1 THEN Full \div 2 ELSE Len(buf)
    IN  [st EXCEPT !.buf = buf,
                   !.data[st.sector] = [i \in DOMAIN buf |-> IF i <= len THEN buf[i] ELSE 0],
                   !.sector = IF r.next = 0 THEN @ + 1 ELSE r.next]

LoadRecords(st, recs) ==
    LET turn[k \in 0 .. Len(recs)] == IF k = 0 THEN st ELSE LoadRecord(turn[k - 1], recs[k])
    IN  turn[Len(recs)]

LoadPass(st, pass) == IF st.ended THEN st ELSE LoadRecords(DecodeRecFA(st, pass), pass.recs)

\* The buffer holds what the memory held.
LoadStart(buf, sectors) ==
    [buf |-> buf, sector |-> 0, ended |-> FALSE, data |-> [s \in 1 .. sectors |-> Zeros(Len(buf))]]

Load(st, file) ==
    LET turn[k \in 0 .. Len(file)] == IF k = 0 THEN st ELSE LoadPass(turn[k - 1], file[k])
    IN  turn[Len(file)]

Loaded(image, buf) == Load(LoadStart(buf, Len(image.data)), Save(image))

-----------------------------------------------------------------------------
\* Sectors as AtrMemoryImage has them, the first one padded; an image has any.
SectorContents(size, s) ==
    {c \in [1 .. size -> 0 .. Base - 1] : s = 1 => \A i \in Full \div 2 + 1 .. size : c[i] = 0}

AddSector ==
    /\ Len(disk.data) < ImageSectors[disk.size]
    /\ \E c \in SectorContents(disk.size, Len(disk.data) + 1) : disk' = [disk EXCEPT !.data = Append(@, c)]

CodecInit == disk \in {[size |-> n, data |-> <<>>] : n \in ImageSizes}
CodecSpec == CodecInit /\ [][AddSector]_disk

\* An image is read back from its compressed file as it was saved, whatever its
\* sectors hold, in one pass or several; and the checksum by which a DI file marks
\* empty sectors is zero for those alone.
CodecsKeepData ==
    /\ disk.data # <<>> =>
          \A b \in 0 .. Base - 1 : Loaded(disk, [i \in 1 .. disk.size |-> b]).data = disk.data
    /\ \A s \in DOMAIN disk.data : Atr!DiChecksum(disk.data[s], Base) = 0 <=> Empty(disk.data[s])
=============================================================================
