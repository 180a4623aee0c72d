------------------------------ MODULE ByteQueue ------------------------------
(***************************************************************************)
(* What the driver relies on when it uses one of its circular buffers: a   *)
(* queue of bounded capacity.  SioServer is written with such queues.      *)
(***************************************************************************)
EXTENDS Naturals, Sequences

CONSTANT Capacity

VARIABLE queue

NoRoom == Len(queue) = Capacity

\* A character from the line: there is room for it, or it is lost.
Store(c) == queue' = IF NoRoom THEN queue ELSE Append(queue, c)

\* A character from the process, for which nobody has looked for room: where
\* there is none, all that was queued is lost.
Put(c) == queue' = IF NoRoom THEN <<>> ELSE Append(queue, c)

\* A block takes the place of whatever was queued.
Load(s) == queue' = s

Empty == queue' = <<>>

Front(n) == SubSeq(queue, 1, n)
Take(n)  == n <= Len(queue) /\ queue' = SubSeq(queue, n + 1, Len(queue))
=============================================================================
