------------------------------- MODULE Printer -------------------------------
(***************************************************************************)
(* The P: device: PrinterHandler writes what the Atari prints to a file or *)
(* into the pipe of a child process (Coprocess) and logs what the child    *)
(* says in return.  Server and child share two pipes of bounded capacity   *)
(* and block on them; while the server blocks, no Atari is served.         *)
(***************************************************************************)
EXTENDS Integers, SequencesExt

CONSTANTS
    PrintLines,    \* data frames of the write command
    Says,          \* what the child may say of a line, or at its end
    PipeSize,      \* capacity of a pipe
    ReadbufSize,   \* eReadbufSize, 1024 in the code
    BufferLength,  \* eBufferLength, 512 in the code
    MaxPrints      \* bound: write commands looked at

\* The characters the child may say.
Spoken == UNION {Range(s) : s \in Says}

ASSUME PrinterAssumption ==
    /\ {ReadbufSize, BufferLength} \subseteq Nat /\ ReadbufSize > BufferLength - 1 /\ BufferLength > 1
    /\ Says \subseteq Seq(Spoken)

VARIABLES
    dest, conv,                \* fDestination, fEOLConversion
    status, spawned, wrote,    \* fPrinterStatus, fProcessSpawned, fWroteData
    srv, job,                  \* where the server is; what it has to write
    child, owe,                \* "none", "runs", "exited"; what the child is about to say
    inq, inOpen, outq,         \* the pipes; the server's end of the first is open
    rbuf, eof,                 \* fReadbuf, fGotEOF
    said, logged,              \* all a child said; all that was logged of it
    printed, answers           \* what was taken over; the answers to write commands

pipes      == <<child, owe, inq, inOpen, outq, said>>
printvars  == <<dest, conv, status, spawned, wrote, srv, job, pipes, rbuf, eof, logged, printed, answers>>

NL == "\n"
EOLOf == [raw |-> <<"eol">>, lf |-> <<NL>>, cr |-> <<"\r">>, crlf |-> <<"\r", NL>>]

\* The characters up to the Atari's end of line, which is converted.
Converted(line) ==
    LET n == IF Contains(line, "eol") THEN SelectInSeq(line, LAMBDA c : c = "eol") ELSE 0
    IN  IF n = 0 THEN line ELSE SubSeq(line, 1, n - 1) \o EOLOf[conv]
-----------------------------------------------------------------------------
(* Coprocess: taking lines out of the read buffer.                         *)

TakeLine_DropsLong(b, end) ==
    LET n == SelectInSeq(b, LAMBDA c : c = NL)
        m == BufferLength - 1
    IN  IF n = 0 THEN [got |-> FALSE, len |-> 0, drop |-> 0]
        ELSE [got |-> TRUE, len |-> IF n - 1 > m THEN m ELSE n - 1, drop |-> n]

\* CheckGotLine: what is taken from the buffer, how much of it is a line, or none.
TakeLine(b, end) ==
    LET n == SelectInSeq(b, LAMBDA c : c = NL)
        m == BufferLength - 1
    IN  IF n > 0 THEN IF n - 1 > m THEN [got |-> TRUE, len |-> m, drop |-> m]
                      ELSE [got |-> TRUE, len |-> n - 1, drop |-> n]
        ELSE IF b # <<>> /\ (end \/ Len(b) = ReadbufSize \/ Len(b) >= m)
             THEN [got |-> TRUE, len |-> IF Len(b) > m THEN m ELSE Len(b), drop |-> IF Len(b) > m THEN m ELSE Len(b)]
        ELSE [got |-> FALSE, len |-> 0, drop |-> 0]

Log(b, t) ==
    /\ logged' = Append(logged, SubSeq(b, 1, t.len))
    /\ rbuf' = SubSeq(b, t.drop + 1, Len(b))

\* One ReadLine of LogExternalReplies: a line is logged, or there is none
\* and the server goes on at next; with block it waits for output or its end.
ReadLine(block, next) ==
    LET room == ReadbufSize - Len(rbuf)
        n    == IF Len(outq) < room THEN Len(outq) ELSE room
        b    == rbuf \o SubSeq(outq, 1, n)
        end  == eof \/ (block /\ n = 0)
        t0   == TakeLine(rbuf, eof)
        t    == TakeLine(b, end)
    IN  IF t0.got
        THEN Log(rbuf, t0) /\ UNCHANGED <<outq, eof, srv>>
        ELSE IF eof THEN srv' = next /\ UNCHANGED <<outq, eof, rbuf, logged>>
        ELSE /\ block => outq # <<>> \/ child = "exited"
             /\ outq' = SubSeq(outq, n + 1, Len(outq))
             /\ eof' = end
             /\ IF t.got THEN Log(b, t) /\ UNCHANGED srv
                ELSE rbuf' = b /\ srv' = next /\ UNCHANGED logged
-----------------------------------------------------------------------------
(* PrinterHandler.                                                         *)

\* Write to printer: the data frame is received (or the transfer fails and
\* nothing happens); a file is written at once, a process spawned if need be.
Write(line) ==
    /\ srv = "idle" /\ Len(answers) < MaxPrints
    /\ job' = Converted(line)
    /\ \/ /\ dest = "file"
          /\ \E ok \in BOOLEAN :
                /\ printed' = IF ok THEN printed \o job' ELSE printed
                /\ status' = IF ok THEN "ok" ELSE "error"
                /\ answers' = Append(answers, IF ok THEN "complete" ELSE "error")
          /\ wrote' = TRUE
          /\ UNCHANGED <<dest, conv, spawned, srv, pipes, rbuf, eof, logged>>
       \/ /\ dest = "process" /\ spawned
          /\ srv' = "write" /\ wrote' = TRUE
          /\ UNCHANGED <<dest, conv, status, spawned, pipes, rbuf, eof, logged, printed, answers>>
       \/ /\ dest = "process" /\ ~spawned           \* SpawnProcess
          /\ srv' = "write" /\ wrote' = TRUE /\ status' = "spawned" /\ spawned' = TRUE
          /\ child' = "runs" /\ owe' = <<>> /\ inq' = <<>> /\ inOpen' = TRUE /\ outq' = <<>> /\ said' = <<>>
          /\ rbuf' = <<>> /\ eof' = FALSE /\ logged' = <<>> /\ printed' = <<>>
          /\ UNCHANGED <<dest, conv, answers>>
       \/ /\ dest = "process" /\ ~spawned           \* no pipe or no child
          /\ wrote' = FALSE /\ status' = "error" /\ answers' = Append(answers, "error")
          /\ UNCHANGED <<dest, conv, spawned, srv, pipes, rbuf, eof, logged, printed>>

\* WriteData: it blocks while the pipe is full and fails when the child is gone.
WriteData ==
    /\ srv = "write"
    /\ srv' = "log"
    /\ \/ /\ child = "runs" /\ Len(inq) + Len(job) <= PipeSize
          /\ inq' = inq \o job /\ printed' = printed \o job
          /\ answers' = Append(answers, "complete")
          /\ UNCHANGED status
       \/ /\ child = "exited"
          /\ status' = "error" /\ answers' = Append(answers, "error")
          /\ UNCHANGED <<inq, printed>>
    /\ UNCHANGED <<dest, conv, spawned, wrote, job, child, owe, inOpen, outq, said, rbuf, eof, logged>>

LogReplies ==
    /\ srv = "log"
    /\ ReadLine(FALSE, "idle")
    /\ UNCHANGED <<dest, conv, status, spawned, wrote, job, child, owe, inq, inOpen, said, printed, answers>>

\* CloseProcess, from a pause of 15 s without commands, a flush or the end:
\* replies are logged, the write pipe is closed, replies are logged until the
\* child has closed its side, and its end is waited for.
Flush ==
    /\ srv = "idle" /\ spawned /\ wrote
    /\ srv' = "last"
    /\ UNCHANGED <<dest, conv, status, spawned, wrote, job, pipes, rbuf, eof, logged, printed, answers>>

LastReplies ==
    /\ srv = "last"
    /\ ReadLine(FALSE, "close")
    /\ UNCHANGED <<dest, conv, status, spawned, wrote, job, child, owe, inq, inOpen, said, printed, answers>>

Close_Forgotten ==
    /\ srv = "close"
    /\ srv' = "drain"
    /\ UNCHANGED <<dest, conv, status, spawned, wrote, job, pipes, rbuf, eof, logged, printed, answers>>

Close ==
    /\ srv = "close"
    /\ srv' = "drain" /\ inOpen' = FALSE
    /\ UNCHANGED <<dest, conv, status, spawned, wrote, job, child, owe, inq, outq, said, rbuf, eof, logged, printed, answers>>

\* A signal ends a read that waits: what is not logged by then never will be.
Drain ==
    /\ srv = "drain"
    /\ \/ ReadLine(TRUE, "reap")
       \/ /\ ~TakeLine(rbuf, eof).got /\ ~eof /\ outq = <<>> /\ child = "runs"
          /\ srv' = "reap" /\ UNCHANGED <<outq, eof, rbuf, logged>>
    /\ UNCHANGED <<dest, conv, status, spawned, wrote, job, child, owe, inq, inOpen, said, printed, answers>>

\* Exit: the read pipe is closed, then the end of the child is waited for.
ExitCloses ==
    /\ srv = "reap"
    /\ srv' = "wait"
    /\ UNCHANGED <<dest, conv, status, spawned, wrote, job, pipes, rbuf, eof, logged, printed, answers>>

Exit ==
    /\ srv = "wait" /\ child = "exited"
    /\ srv' = "idle" /\ status' = "ok" /\ spawned' = FALSE
    /\ UNCHANGED <<dest, conv, wrote, job, pipes, rbuf, eof, logged, printed, answers>>

\* The child copies the pipe to the printer, says something now and then, and
\* ends when its input has ended.  It may also die early.
ChildReads ==
    /\ child = "runs" /\ owe = <<>> /\ inq # <<>>
    /\ inq' = Tail(inq)
    /\ owe' \in Says
    /\ UNCHANGED <<dest, conv, status, spawned, wrote, srv, job, child, inOpen, outq, said, rbuf, eof, logged, printed, answers>>

\* It has to wait for room in the pipe; once the server has closed it, what it
\* says is lost.
ChildSays ==
    /\ child = "runs" /\ owe # <<>>
    /\ \/ /\ srv # "wait" /\ Len(outq) < PipeSize
          /\ outq' = Append(outq, Head(owe)) /\ said' = Append(said, Head(owe))
       \/ srv = "wait" /\ UNCHANGED <<outq, said>>
    /\ owe' = Tail(owe)
    /\ UNCHANGED <<dest, conv, status, spawned, wrote, srv, job, child, inq, inOpen, rbuf, eof, logged, printed, answers>>

ChildEnds ==
    /\ child = "runs" /\ inq = <<>> /\ owe = <<>> /\ ~inOpen
    /\ child' = "exited"
    /\ UNCHANGED <<dest, conv, status, spawned, wrote, srv, job, owe, inq, inOpen, outq, said, rbuf, eof, logged, printed, answers>>

ChildDies ==
    /\ child = "runs"
    /\ child' = "exited" /\ owe' = <<>> /\ inq' = <<>>
    /\ UNCHANGED <<dest, conv, status, spawned, wrote, srv, job, inOpen, outq, said, rbuf, eof, logged, printed, answers>>

PrinterInit ==
    /\ dest \in {"file", "process"} /\ conv \in DOMAIN EOLOf
    /\ status = "ok" /\ spawned = FALSE /\ wrote = FALSE /\ srv = "idle" /\ job = <<>>
    /\ child = "none" /\ owe = <<>> /\ inq = <<>> /\ inOpen = FALSE /\ outq = <<>> /\ said = <<>>
    /\ rbuf = <<>> /\ eof = FALSE /\ logged = <<>> /\ printed = <<>> /\ answers = <<>>

Child  == ChildReads \/ ChildSays \/ ChildEnds
Server == WriteData \/ LogReplies \/ LastReplies \/ Close \/ Drain \/ ExitCloses \/ Exit

PrinterNext ==
    \/ \E l \in PrintLines : Write(l)
    \/ Flush
    \/ Server
    \/ Child
    \/ ChildDies

\* The child reads its input, says what it has to say and ends with its input.
PrinterFairness == WF_printvars(Server) /\ WF_printvars(Child)

PrinterSpec == PrinterInit /\ [][PrinterNext]_printvars /\ PrinterFairness
-----------------------------------------------------------------------------
(* Properties.                                                             *)

\* Of what the child says nothing is lost or reordered on the way to the log,
\* however the lines fall into the buffers: it has been logged, is being read or
\* is in the pipe, until the server closes the pipe; and if it has met the end of
\* what the child says before, all of it has been logged.
Visible(s) ==
    LET upto[n \in 0 .. Len(s)] ==
            IF n = 0 THEN <<>> ELSE IF s[n] = NL THEN upto[n - 1] ELSE Append(upto[n - 1], s[n])
    IN  upto[Len(s)]

Joined(lines) ==
    LET upto[n \in 0 .. Len(lines)] == IF n = 0 THEN <<>> ELSE upto[n - 1] \o lines[n]
    IN  upto[Len(lines)]

RepliesLogged ==
    /\ spawned /\ (srv # "wait" \/ eof) => Visible(said) = Visible(Joined(logged) \o rbuf \o outq)
    /\ srv = "wait" /\ eof => rbuf = <<>> /\ outq = <<>>

\* Each of the two waits for room in a pipe that only the other can empty.
EachWaits ==
    /\ srv = "write" /\ child = "runs" /\ Len(inq) + Len(job) > PipeSize
    /\ owe # <<>> /\ Len(outq) = PipeSize

\* The server comes back from the printer, unless it and the child wait for each
\* other: a child that answers what it has read while the server writes.  Only the
\* replies that come between two writes are read.
PrinterLetsGo == srv # "idle" ~> srv = "idle" \/ EachWaits

\* What nothing in the code prevents; no run checks it, TLC refutes it.
NeverBothWait == ~EachWaits
=============================================================================
