----------------------------- MODULE FrameQuality -----------------------------
(***************************************************************************)
(* The two pure decisions of the driver's command frame reception          *)
(* (driver/atarisio.c): the SIO checksum and the verdict on the characters *)
(* counted between the two edges of the COMMAND line.                      *)
(***************************************************************************)
EXTENDS Integers, Sequences

\* enum command_frame_quality
Qualities == {"ok", "minor", "normal", "major"}

FrameLength == 5     \* four bytes and their checksum
TooMany     == 7     \* "our speed is too high"
TooFew      == 3     \* "our speed may be too low"

\* (A definition named X_... is X with a plausible mistake; see the README.)
\* check_command_frame_quality: the tests in the order of the code.  sumOK
\* says whether the fifth stored byte is the checksum of the first four.
CheckQuality(receiving, ok, err, brk, sumOK) ==
    IF \/ ~receiving
       \/ brk > 1
       \/ ok + err + brk >= TooMany
       \/ ok + err <= TooFew
    THEN "major"
    ELSE IF brk > 0
    THEN "normal"
    ELSE IF ok = FrameLength /\ err = 0
    THEN IF sumOK THEN "ok" ELSE "minor"
    ELSE IF ok = FrameLength - 1 /\ err = 1
    THEN "minor"
    ELSE "normal"

-----------------------------------------------------------------------------
\* One step of calculate_checksum: an 8 bit addition whose carry is added
\* back at once.
AddWithCarry(sum, byte) ==
    IF sum + byte >= 256 THEN ((sum + byte) % 256) + 1 ELSE sum + byte

Checksum_ShortByOne(buf, start, len, total) ==
    LET sum[i \in 0 .. len] ==
            IF i <= 1 THEN 0
            ELSE AddWithCarry(sum[i - 1], buf[(start + i - 2) % total])
    IN  sum[len]

\* calculate_checksum(buf, start, len, total_len) over a circular buffer
\* buf \in [0 .. total - 1 -> 0 .. 255].
Checksum(buf, start, len, total) ==
    LET sum[i \in 0 .. len] ==
            IF i = 0 THEN 0
            ELSE AddWithCarry(sum[i - 1], buf[(start + i - 1) % total])
    IN  sum[len]
=============================================================================
