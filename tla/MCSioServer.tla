----------------------------- MODULE MCSioServer -----------------------------
(***************************************************************************)
(* Instances of SioServer for TLC: the runs of characters the UART         *)
(* delivers.                                                               *)
(***************************************************************************)
EXTENDS SioServer

Burst(k, m) == [kind |-> k, n |-> m]

\* A good frame, one with a wrong checksum, and a break; the verdicts on other
\* numbers of characters are MCFrameQuality's.
VerdictBursts == {Burst("good", 5), Burst("garbled", 5), Burst("framing+break", 1)}

\* A command frame that is right and a part of one that is not.
CommandBursts == {Burst("good", 5), Burst("garbled", 2)}
=============================================================================
