---------------------------- MODULE MCFrameQuality ----------------------------
(***************************************************************************)
(* One command frame, character by character: what the line status         *)
(* register says of each, in every order, the counters of receive_chars,   *)
(* and the verdict at the trailing edge, with the checksum computed over   *)
(* real bytes.                                                             *)
(***************************************************************************)
EXTENDS FrameQuality, FiniteSets

CONSTANTS
    MaxReceived,     \* bound: characters received in one frame
    Bytes            \* the byte values the Atari sends

ASSUME FrameAssumption == MaxReceived \in Nat /\ Bytes \subseteq 0 .. 255

VARIABLES chars, buf, pos, ok, err, brk, started, verdict
vars == <<chars, buf, pos, ok, err, brk, started, verdict>>

\* The error bits of the line status register.  8 data bits without parity:
\* a parity error cannot occur.  A break is a framing error, too.
Status == {{}, {"FE"}, {"FE", "BI"}}

Init ==
    /\ chars = 0 /\ pos = 0 /\ ok = 0 /\ err = 0 /\ brk = 0
    /\ buf = [i \in 0 .. FrameLength - 1 |-> 0]
    /\ started \in BOOLEAN       \* the leading edge was noticed
    /\ verdict = "none"

\* receive_chars: the counters run only while a frame is being received, and
\* only the first five sound characters are stored.
Receive(lsr, c) ==
    LET store == started /\ lsr = {} /\ pos < FrameLength
    IN  /\ buf' = IF store THEN [buf EXCEPT ![pos] = c] ELSE buf
        /\ pos' = IF store THEN pos + 1 ELSE pos
        /\ ok'  = IF started /\ lsr = {} THEN ok + 1 ELSE ok
        /\ err' = IF started /\ "FE" \in lsr THEN err + 1 ELSE err
        /\ brk' = IF started /\ "BI" \in lsr THEN brk + 1 ELSE brk

ReceiveChar ==
    /\ verdict = "none"
    /\ chars < MaxReceived
    /\ chars' = chars + 1
    /\ \E lsr \in Status, c \in Bytes : Receive(lsr, c)
    /\ UNCHANGED <<started, verdict>>

SumMatches(b) == Checksum(b, 0, FrameLength - 1, FrameLength) = b[FrameLength - 1]

\* The trailing edge.
End ==
    /\ verdict = "none"
    /\ verdict' = CheckQuality(started, ok, err, brk, SumMatches(buf))
    /\ UNCHANGED <<chars, buf, pos, ok, err, brk, started>>

Next == ReceiveChar \/ End

Spec == Init /\ [][Next]_vars

\* Only a frame of exactly five characters, all sound, is accepted: one broken
\* or surplus character, wherever it comes, is enough to refuse it.
OnlyWholeFrames ==
    verdict = "ok" => started /\ chars = FrameLength /\ pos = FrameLength

\* What the code says of the verdicts that are left over, "if we got up to
\* here, we have received 4 to 6 characters in total".
FourToSix == verdict \in {"minor", "normal"} => chars \in 4 .. 6

\* The end-around carry makes the checksum of an accepted frame the sum of its
\* bytes modulo 255, where 0 stands for a frame of zeros only.
AcceptedSum ==
    verdict = "ok" =>
        LET sum == buf[0] + buf[1] + buf[2] + buf[3]
        IN  buf[4] = IF sum = 0 THEN 0 ELSE ((sum - 1) % 255) + 1

\* No frame that differs from an accepted one in a single byte is accepted,
\* unless that byte turned from 0 to 255 or back in a frame of which another
\* byte is not zero: the one such error the SIO checksum cannot see.
DamageDetected ==
    verdict = "ok" =>
        \A k \in 0 .. FrameLength - 1 : \A b \in (0 .. 255) \ {buf[k]} :
            SumMatches([buf EXCEPT ![k] = b]) =>
                /\ {b, buf[k]} = {0, 255}
                /\ \E j \in 0 .. FrameLength - 2 : j # k /\ buf[j] # 0

\* The verdict is right: what is accepted is whole and has the sum of its bytes,
\* what is refused has the length the code says, and damage is seen.
VerdictTrue == OnlyWholeFrames /\ FourToSix /\ AcceptedSum /\ DamageDetected
=============================================================================
