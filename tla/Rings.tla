-------------------------------- MODULE Rings --------------------------------
(***************************************************************************)
(* The two circular buffers of the driver, rx_buf and tx_buf               *)
(* (driver/atarisio.c), with their indices, the two parts in which a block *)
(* is copied and the checksum computed where the bytes lie.  One action    *)
(* for every place of the driver that moves a head or a tail, which it     *)
(* does with dev->lock held.  Which of them come in which order is the     *)
(* matter of SioServer and SioMaster: here they come in any.               *)
(***************************************************************************)
EXTENDS FrameQuality

CONSTANTS
    IobufLength,     \* IOBUF_LENGTH
    FifoLen,         \* what send_chars writes at most (16)
    Chars,           \* the characters the line brings and the process sends singly
    Blocks, Frames,  \* the data blocks and the command frames the process sends
    Lengths          \* the lengths of the blocks it wants to receive

Uint8 == 0 .. 255

ASSUME RingsAssumption ==
    /\ IobufLength \in Nat /\ IobufLength > FrameLength
    /\ FifoLen \in Nat \ {0}
    /\ Chars \subseteq Uint8
    /\ Blocks \subseteq Seq(Uint8) \ {<<>>}
    /\ \A f \in Frames : f \in Seq(Uint8) /\ Len(f) = FrameLength
    /\ Lengths \subseteq Nat \ {0}

VARIABLES
    rx_buf, tx_buf,  \* [buf, head, tail]; rx_buf has wakeup_len, too
    wake,            \* do_wakeup of the character just received
    answer, handed   \* what the last step returned; the bytes it handed over

ringvars == <<rx_buf, tx_buf, wake, answer, handed>>

Cells == 0 .. IobufLength - 1

\* The expression of the code for the number of characters in a ring.
Count(r) == (r.head + IobufLength - r.tail) % IobufLength

\* What a ring stands for: the characters between its tail and its head.
Queued(r) == [i \in 1 .. Count(r) |-> r.buf[(r.tail + i - 1) % IobufLength]]

Smaller(m, n) == IF m < n THEN m ELSE n

Says(res, bytes) == answer' = res /\ handed' = bytes
-----------------------------------------------------------------------------
(* The receive buffer.                                                     *)

StoreChar_Fills(c) ==
    /\ rx_buf' = [rx_buf EXCEPT !.buf[rx_buf.head] = c, !.head = (rx_buf.head + 1) % IobufLength]
    /\ wake' = (Count(rx_buf') = rx_buf.wakeup_len)
    /\ Says("none", <<>>)
    /\ UNCHANGED tx_buf

\* receive_chars; a full ring sinks the character
StoreChar(c) ==
    /\ IF (rx_buf.head + 1) % IobufLength # rx_buf.tail
       THEN /\ rx_buf' = [rx_buf EXCEPT !.buf[rx_buf.head] = c,
                                        !.head = (rx_buf.head + 1) % IobufLength]
            /\ wake' = (Count(rx_buf') = rx_buf.wakeup_len)
       ELSE /\ wake' = FALSE
            /\ UNCHANGED rx_buf
    /\ Says("none", <<>>)
    /\ UNCHANGED tx_buf

Quiet == wake' = FALSE /\ UNCHANGED tx_buf

\* wait_receive, before it sleeps and after; no_received_chars never is -1
WaitLen(n) ==
    /\ rx_buf' = [rx_buf EXCEPT !.wakeup_len = n]
    /\ Says("none", <<>>) /\ Quiet

\* wait_receive that got too little, and send_command_frame of the master
DiscardReceived ==
    /\ rx_buf' = [rx_buf EXCEPT !.tail = rx_buf.head]
    /\ Says("none", <<>>) /\ Quiet

\* receive_single_character, after wait_receive
FetchChar ==
    /\ IF Count(rx_buf) < 1
       THEN Says("timeout", <<>>) /\ UNCHANGED rx_buf
       ELSE /\ Says("ok", <<rx_buf.buf[rx_buf.tail]>>)
            /\ rx_buf' = [rx_buf EXCEPT !.tail = (rx_buf.tail + 1) % IobufLength]
    /\ Quiet

\* copy_received_data_to_user: up to the end of the array, then from its start
CopyToUser(r, n) ==
    LET len == Smaller(IobufLength - r.tail, n)
    IN  [i \in 1 .. len |-> r.buf[r.tail + i - 1]] \o [i \in 1 .. n - len |-> r.buf[i - 1]]

\* receive_block, after wait_receive.  The tail moves whatever the copy said.
FetchBlock(n, handle_checksum, fault) ==
    LET want == n + (IF handle_checksum THEN 1 ELSE 0)
        r    == rx_buf
    IN  /\ IF Count(r) < want
           THEN Says("timeout", <<>>) /\ UNCHANGED rx_buf
           ELSE /\ IF n >= IobufLength - 2
                   THEN Says("einval", <<>>)
                   ELSE IF fault THEN Says("fault", <<>>)
                   ELSE /\ handed' = CopyToUser(r, n)
                        /\ answer' =
                             IF /\ handle_checksum
                                /\ r.buf[(r.tail + n) % IobufLength] # Checksum(r.buf, r.tail, n, IobufLength)
                             THEN "checksum" ELSE "ok"
                /\ rx_buf' = [r EXCEPT !.tail = (r.tail + want) % IobufLength]
        /\ Quiet
-----------------------------------------------------------------------------
(* The transmit buffer.                                                    *)

Still == wake' = FALSE /\ UNCHANGED rx_buf

\* send_single_character: full or not
PutChar(c) ==
    /\ tx_buf' = [tx_buf EXCEPT !.buf[tx_buf.head] = c, !.head = (tx_buf.head + 1) % IobufLength]
    /\ Says("none", <<>>) /\ Still

\* s copied into the array from a cell on
Over(array, at, s) ==
    [i \in Cells |-> IF i \in at .. at + Len(s) - 1 THEN s[i - at + 1] ELSE array[i]]

\* setup_send_frame; of the process' data only the first k bytes can be read
\* (all of them, most of the time), and copy_from_user fills up with zeros.
SetupSendFrame(d, add_checksum, k) ==
    LET n   == Len(d)
        t   == tx_buf.tail
        len == Smaller(IobufLength - t, n)
        e   == [i \in 1 .. n |-> IF i <= k THEN d[i] ELSE 0]
        one == Over(tx_buf.buf, t, SubSeq(e, 1, len))
        two == IF k < len THEN one ELSE Over(one, 0, SubSeq(e, len + 1, n))
    IN  /\ IF n >= IobufLength - 2
           THEN Says("einval", <<>>) /\ UNCHANGED tx_buf
           ELSE IF k < n
           THEN /\ Says("fault", <<>>)
                /\ tx_buf' = [tx_buf EXCEPT !.buf = two, !.head = t]
           ELSE /\ Says("ok", <<>>)
                /\ tx_buf' =
                     IF add_checksum
                     THEN [tx_buf EXCEPT
                             !.buf  = [two EXCEPT ![(t + n) % IobufLength] = Checksum(two, t, n, IobufLength)],
                             !.head = (t + n + 1) % IobufLength]
                     ELSE [tx_buf EXCEPT !.buf = two, !.head = (t + n) % IobufLength]
        /\ Still

\* send_command_frame of the master, whatever was queued
PutFrame(f) ==
    LET t == tx_buf.tail IN
    /\ tx_buf' = [tx_buf EXCEPT
                    !.buf  = [i \in Cells |->
                                LET k == (i + IobufLength - t) % IobufLength
                                IN  IF k < FrameLength THEN f[k + 1] ELSE tx_buf.buf[i]],
                    !.head = (t + FrameLength) % IobufLength]
    /\ Says("none", <<>>) /\ Still

\* send_chars: into the FIFO of the UART
SendChars ==
    LET k == Smaller(FifoLen, Count(tx_buf)) IN
    /\ Says("none", [i \in 1 .. k |-> tx_buf.buf[(tx_buf.tail + i - 1) % IobufLength]])
    /\ tx_buf' = [tx_buf EXCEPT !.tail = (tx_buf.tail + k) % IobufLength]
    /\ Still
-----------------------------------------------------------------------------
(* Both.                                                                   *)

\* check_modem_lines_after_receive, at the end of a command frame
Flush ==
    /\ rx_buf' = [rx_buf EXCEPT !.head = rx_buf.tail]
    /\ tx_buf' = [tx_buf EXCEPT !.tail = tx_buf.head]
    /\ wake' = FALSE /\ Says("none", <<>>)

\* reset_rx_buf and reset_tx_buf
Reset ==
    /\ rx_buf' = [rx_buf EXCEPT !.head = 0, !.tail = 0, !.wakeup_len = -1]
    /\ tx_buf' = [tx_buf EXCEPT !.head = 0, !.tail = 0]
    /\ wake' = FALSE /\ Says("none", <<>>)

RingsInit ==
    /\ rx_buf = [buf |-> [i \in Cells |-> 0], head |-> 0, tail |-> 0, wakeup_len |-> -1]
    /\ tx_buf = [buf |-> [i \in Cells |-> 0], head |-> 0, tail |-> 0]
    /\ wake = FALSE /\ answer = "none" /\ handed = <<>>

Interrupt ==
    \/ \E c \in Chars : StoreChar(c)
    \/ SendChars
    \/ Flush

Receiver ==
    \/ \E n \in Lengths \cup {1, -1} : WaitLen(n)
    \/ DiscardReceived
    \/ FetchChar
    \/ \E n \in Lengths, handle_checksum, fault \in BOOLEAN : FetchBlock(n, handle_checksum, fault)

Sender ==
    \/ \E c \in Chars : PutChar(c)
    \/ \E d \in Blocks, add_checksum \in BOOLEAN : \E k \in 0 .. Len(d) : SetupSendFrame(d, add_checksum, k)
    \/ \E f \in Frames : PutFrame(f)

RingsNext == Interrupt \/ Receiver \/ Sender \/ Reset

RingsSpec == RingsInit /\ [][RingsNext]_ringvars
-----------------------------------------------------------------------------
(* Properties.                                                             *)

RX == INSTANCE ByteQueue WITH queue <- Queued(rx_buf), Capacity <- IobufLength - 1
TX == INSTANCE ByteQueue WITH queue <- Queued(tx_buf), Capacity <- IobufLength - 1

\* calculate_checksum of bytes in a row
SumOf(s) == Checksum([i \in 0 .. Len(s) - 1 |-> s[i + 1]], 0, Len(s), Len(s))

RxRings == [buf : [Cells -> Uint8], head : Cells, tail : Cells, wakeup_len : Int]
TxRings == [buf : [Cells -> Uint8], head : Cells, tail : Cells]

\* No step leaves an index outside of its array, or more than an octet in it.
RingsInv == rx_buf \in RxRings /\ tx_buf \in TxRings
\* What each step on rx_buf comes to.
StoreCharIs(c) ==
    /\ RX!Store(c)
    /\ wake' <=> ~RX!NoRoom /\ Len(Queued(rx_buf)) + 1 = rx_buf.wakeup_len

FetchCharIs ==
    \/ answer' = "timeout" /\ Queued(rx_buf) = <<>> /\ UNCHANGED rx_buf
    \/ answer' = "ok" /\ RX!Take(1) /\ handed' = RX!Front(1)

FetchBlockIs(n, checked) ==
    LET q == Queued(rx_buf)
        want == IF checked THEN n + 1 ELSE n
    IN  IF Len(q) < want
        THEN answer' = "timeout" /\ UNCHANGED rx_buf
        ELSE /\ RX!Take(want)
             /\ answer' \in {"ok", "checksum"} =>
                  /\ handed' = RX!Front(n)
                  /\ answer' = "ok" <=> (checked => q[n + 1] = SumOf(handed'))

RxStep ==
    /\ \A c \in Chars : StoreChar(c) => StoreCharIs(c)
    /\ DiscardReceived \/ Flush \/ Reset => RX!Empty
    /\ FetchChar => FetchCharIs
    /\ \A n \in Lengths, checked, fault \in BOOLEAN : FetchBlock(n, checked, fault) => FetchBlockIs(n, checked)

\* What a block goes out as, and what is left of one that does not.
SetupSendFrameIs(d, summed) ==
    CASE answer' = "ok"     -> TX!Load(IF summed THEN Append(d, SumOf(d)) ELSE d)
      [] answer' = "fault"  -> TX!Empty
      [] answer' = "einval" -> UNCHANGED tx_buf

TxStep ==
    /\ \A c \in Chars : PutChar(c) => TX!Put(c)
    /\ \A d \in Blocks, summed \in BOOLEAN : \A k \in 0 .. Len(d) :
         SetupSendFrame(d, summed, k) => SetupSendFrameIs(d, summed)
    /\ \A f \in Frames : PutFrame(f) => TX!Load(f)
    /\ SendChars => TX!Take(Len(handed')) /\ handed' = TX!Front(Len(handed'))
    /\ Flush \/ Reset => TX!Empty

\* Wherever their tails are, the rings are queues.  rx_buf: the interrupt appends
\* and wakes the process when the length it waits for is reached, and what the
\* process is given are the oldest characters, called sound if the next one is
\* their checksum.  tx_buf: what the UART is given are the oldest characters, a
\* block or a command frame goes out alone, followed by its checksum, and one the
\* driver refuses or cannot read not even in part.
RingsAreQueues == [][RxStep /\ TxStep]_ringvars
=============================================================================
