--------------------------- MODULE SioMaster_proofs ---------------------------
(***************************************************************************)
(* Proofs about the driver's SIO master: it implements SioTransaction, for *)
(* any requests and any number of ioctls, of retries and of faults.        *)
(***************************************************************************)
EXTENDS SioMaster, SequenceTheorems, TLAPS

-----------------------------------------------------------------------------
(* The inductive invariant.                                                *)

\* The states in which the drive has answered the command for good.
Over == {"idle", "bytes", "sum"}

Has(k) == \E i \in 1 .. Len(rx) : rx[i].kind = k

\* The drive's last word is what the master has made of it.
Agreed ==
    /\ cmd = "ok" => dev.state \in Over /\ done > 0 /\ answer = "complete"
    /\ cmd = "device_error" => dev.state \in Over /\ answer = "error"

\* The drive listens for as long as COMMAND is asserted, and the master has
\* released it before it takes an answer.
LineInv ==
    /\ command => dev.state = "listen"
    /\ pc \in {"queue", "sendframe", "release"} => command
    /\ pc \in {"ack", "switch", "setup", "senddata", "dataack", "complete", "block"}
         => ~command
    /\ pc = "end" /\ command => ret = "eintr"

\* Once the frame is out, the drive has heard this frame or none.
Same == dev.id = calls /\ dev.req = req

FrameInv ==
    /\ pc = "sendframe" =>
         \/ tx = <<[kind |-> "frame", req |-> req, id |-> calls]>>
         \/ tx = <<>> /\ (dev.heard = "noise" \/ Same)
    /\ pc \in {"release", "ack", "switch", "setup"} => tx = <<>>
    /\ pc \in {"release", "ack", "switch", "setup", "senddata", "dataack", "complete", "block"} =>
         \/ dev.state = "idle"
         \/ dev.state = "listen" /\ dev.heard # "frame"
         \/ Same

\* What the receive ring holds agrees with how far the drive has come: no ACK
\* is left over, and a COMPLETE or ERROR is the drive's last word.
AnswerInv ==
    /\ pc = "release" => rx = <<>>
    /\ pc = "ack" =>
         /\ dev.state \in {"listen", "ack", "nak"} => rx = <<>>
         /\ dev.state \notin {"accept", "refuse"}
         /\ rx # <<>> /\ rx[1].kind = "ack"
              => Len(rx) = 1 /\ dev.state = IF Sending THEN "data" ELSE "work"
    /\ pc = "switch" /\ c = "ack" =>
         rx = <<>> /\ dev.state = IF Sending THEN "data" ELSE "work"
    /\ pc = "setup" => rx = <<>> /\ dev.state = "data"
    /\ pc \in {"senddata", "dataack"} =>
         /\ dev.state \in {"data", "accept", "refuse", "work"} \cup Over
         /\ dev.state \in {"data", "accept", "refuse"} => rx = <<>>
         /\ \A i \in 2 .. Len(rx) : rx[i].kind # "ack"
    /\ pc = "complete" => dev.state \in {"work"} \cup Over /\ ~Has("ack")

WordInv ==
    pc \in {"release", "ack", "switch", "setup", "senddata", "dataack", "complete"} =>
      /\ Has("complete") => dev.state \in Over /\ done > 0 /\ answer = "complete"
      /\ Has("error")    => dev.state \in Over /\ answer = "error"

ResultInv ==
    /\ pc = "again" => ret \in {"timeout", "nak", "unknown"}
    /\ pc = "complete" => ret = "ok"
    /\ pc = "block" => Agreed
    /\ pc = "end" => ret \in Outcomes \ {"device_error"} /\ (ret = "ok" => Agreed)

\* Everything the ring holds comes from this command.
DataInv ==
    /\ pc \in {"release", "ack", "switch", "setup", "senddata", "dataack", "complete", "block"} =>
         \A i \in 1 .. Len(rx) : rx[i].kind # "noise" => rx[i].id = calls
    /\ pc = "end" /\ ret = "ok" /\ cmd = "ok" /\ Receiving => got = Char("data", calls)

\* The drive and the transmit ring do not mix up commands, and no block is left
\* in the ring while the drive is at a frame.
HeardInv ==
    /\ dev.state # "listen" => dev.heard = "nothing"
    /\ dev.id <= calls
    /\ dev.state # "idle" /\ (dev.state = "listen" => dev.heard = "frame") /\ dev.id = calls
         => dev.req = req
    /\ tx # <<>> =>
         /\ tx[1].id <= calls
         /\ tx[1].id = calls => tx[1].req = req
         /\ tx[1].kind = "block" => dev.heard # "frame" /\ dev.state # "ack"

\* The drive may still perform this write without another word of the master.
Pending ==
    /\ dev.id = calls
    /\ \/ dev.state \in {"accept", "work"}
       \/ dev.state = "data" /\ tx # <<>> /\ tx[1].kind = "block"

\* Each round of internal_perform_ext_sio accounts for one performance, from
\* the moment it has a data block to send.
WriteInv ==
    Sending => done + (IF Pending THEN 1 ELSE 0)
                 <= IF pc = "user" THEN SioRetries
                    ELSE IF pc \in {"senddata", "dataack", "complete", "block", "end"}
                    THEN tries + 1 ELSE tries

IInv ==
    /\ TypeOK
    /\ LineInv /\ FrameInv /\ AnswerInv /\ WordInv /\ ResultInv
    /\ DataInv /\ HeardInv /\ WriteInv
-----------------------------------------------------------------------------
(* Type correctness.                                                       *)

LEMMA Constants ==
    /\ Wanted \subseteq Requests /\ MaxCalls \in Nat /\ MaxFaults \in Nat
    /\ CommandRetries \in Nat /\ CommandRetries > 0
    /\ SioRetries \in Nat /\ SioRetries > 0
    /\ NoRequest \in Requests
  BY MasterAssumption DEF NoRequest, Requests, Modes, Commands, Transfer

Items == [kind : {"frame", "block"}, req : Wanted \cup {NoRequest}, id : 0 .. MaxCalls]

Drives == [state : DevStates, heard : {"nothing", "frame", "noise"},
           req : Wanted \cup {NoRequest}, id : 0 .. MaxCalls]

\* A ring with one item.
LEMMA OneItem ==
    ASSUME NEW S, NEW x \in S
    PROVE  <<x>> \in Seq(S) /\ Len(<<x>>) = 1 /\ <<x>> # <<>>
  OBVIOUS

\* What a ring holds when a character is taken from it.
LEMMA TakeType ==
    ASSUME rx \in Seq(Chars), NEW a, Take(a)
    PROVE  rx' \in Seq(Chars) /\ a \in CharKinds \cup {"timeout", "eintr"}
  <1>1. CASE rx # <<>> /\ a = Head(rx).kind /\ rx' = Tail(rx)
    <2>1. Head(rx) \in Chars /\ Tail(rx) \in Seq(Chars)
      BY <1>1, HeadTailProperties
    <2> QED
      BY <1>1, <2>1 DEF Chars
  <1>2. CASE rx = <<>> /\ (a = "timeout" \/ (a = "eintr" /\ signal)) /\ UNCHANGED rx
    BY <1>2
  <1> QED
    BY <1>1, <1>2 DEF Take

\* Actions that leave the rings and the drive alone.
LEMMA ProcessType ==
    ASSUME TypeOK, FrameLate \/ FrameInterrupted \/ Release \/ SwitchRate
                   \/ Again \/ DataSent \/ Finish \/ SignalArrives
    PROVE  TypeOK'
  <1> USE Constants DEF TypeOK, PCs, Outcomes, vars, wire, drive, local, count
  <1>1. CASE FrameLate
    BY <1>1 DEF FrameLate, Fault
  <1>2. CASE FrameInterrupted
    BY <1>2 DEF FrameInterrupted
  <1>3. CASE Release
    <2>1. command' \in BOOLEAN
      BY <1>3 DEF Release
    <2> QED
      BY <1>3, <2>1 DEF Release, Goto
  <1>4. CASE SwitchRate
    BY <1>4 DEF SwitchRate
  <1>5. CASE Again
    <2>1. command' \in BOOLEAN
      BY <1>5 DEF Again
    <2> QED
      BY <1>5, <2>1 DEF Again
  <1>6. CASE DataSent
    BY <1>6 DEF DataSent, Fault, Sound
  <1>7. CASE Finish
    <2>1. signal' \in BOOLEAN
      BY <1>7 DEF Finish
    <2> QED
      BY <1>7, <2>1 DEF Finish, Result
  <1>8. CASE SignalArrives
    BY <1>8 DEF SignalArrives
  <1> QED
    BY <1>1, <1>2, <1>3, <1>4, <1>5, <1>6, <1>7, <1>8

\* Actions that empty a ring or put one item into it.
LEMMA SendType ==
    ASSUME TypeOK, Call \/ Attempt \/ QueueFrame \/ FrameSent \/ Setup
    PROVE  TypeOK'
  <1> USE Constants DEF TypeOK, PCs, Outcomes, vars, wire, drive, local, count, Goto
  <1>1. CASE Call
    BY <1>1 DEF Call, Requests, Modes, Noise, Char, Chars, CharKinds
  <1>2. CASE Attempt
    BY <1>2 DEF Attempt, Listen, Listening, DevStates
  <1>3. CASE QueueFrame
    <2>1. [kind |-> "frame", req |-> req, id |-> calls] \in Items
      BY DEF Items
    <2> QED
      BY <1>3, <2>1, OneItem DEF QueueFrame, Items
  <1>4. CASE FrameSent
    BY <1>4 DEF FrameSent
  <1>5. CASE Setup
    <2>1. [kind |-> "block", req |-> req, id |-> calls] \in Items
      BY DEF Items
    <2> QED
      BY <1>5, <2>1, OneItem DEF Setup, Items
  <1> QED
    BY <1>1, <1>2, <1>3, <1>4, <1>5

LEMMA ReceiveType ==
    ASSUME TypeOK,
           \/ \E a \in CharKinds \cup {"timeout", "eintr"} :
                TakeAck(a) \/ TakeDataAck(a) \/ TakeComplete(a)
           \/ ReceiveBlock
    PROVE  TypeOK'
  <1> USE Constants DEF PCs, Outcomes, vars, wire, drive, local, count
  <1>1. CASE \E a \in CharKinds \cup {"timeout", "eintr"} :
               TakeAck(a) \/ TakeDataAck(a) \/ TakeComplete(a)
    <2>1. PICK a \in CharKinds \cup {"timeout", "eintr"} :
            TakeAck(a) \/ TakeDataAck(a) \/ TakeComplete(a)
      BY <1>1
    <2>2. rx' \in Seq(Chars)
      BY <2>1, TakeType DEF TypeOK, TakeAck, TakeDataAck, TakeComplete
    <2>3. CASE TakeAck(a)
      BY <2>2, <2>3 DEF TypeOK, TakeAck
    <2>4. CASE TakeDataAck(a)
      BY <2>2, <2>4 DEF TypeOK, TakeDataAck
    <2>5. CASE TakeComplete(a)
      BY <2>2, <2>5 DEF TypeOK, TakeComplete
    <2> QED
      BY <2>1, <2>3, <2>4, <2>5
  <1>2. CASE ReceiveBlock
    <2>1. rx' \in Seq(Chars) /\ got' \in Chars
      <3>1. ASSUME Len(rx) >= BlockLen
            PROVE  rx[1] \in Chars /\ SubSeq(rx, BlockLen + 1, Len(rx)) \in Seq(Chars)
        <4>1. \A i \in BlockLen + 1 .. Len(rx) : rx[i] \in Chars
          BY <3>1 DEF TypeOK, BlockLen
        <4>2. rx[1] \in Chars
          BY <3>1 DEF TypeOK, BlockLen
        <4>3. BlockLen + 1 \in Int /\ Len(rx) \in Int
          BY DEF TypeOK, BlockLen
        <4> QED
          BY <4>1, <4>2, <4>3, SubSeqProperties
      <3>2. <<>> \in Seq(Chars)
        OBVIOUS
      <3> QED
        BY <1>2, <3>1, <3>2 DEF ReceiveBlock, TypeOK
    <2>2. ret' \in {"ok", "checksum", "timeout", "eintr"}
      BY <1>2 DEF ReceiveBlock
    <2>3. /\ pc' = "end"
          /\ UNCHANGED <<command, baud, tx, drive, calls, req, mode, count, cmd, c,
                         lcr, signal>>
      BY <1>2 DEF ReceiveBlock
    <2> QED
      BY <2>1, <2>2, <2>3 DEF TypeOK
  <1> QED
    BY <1>1, <1>2

\* The drive and the UART.
LEMMA TransmitType ==
    ASSUME TypeOK, Uart
    PROVE  TypeOK'
  <1>1. tx' \in Seq(Items) /\ Len(tx') <= 1 /\ Head(tx) \in Items
    <2>1. tx \in Seq(Items) /\ tx # <<>> /\ Len(tx) <= 1 /\ tx' = Tail(tx)
      BY DEF TypeOK, Uart, Transmit, Items
    <2>2. Tail(tx) \in Seq(Items) /\ Len(Tail(tx)) = Len(tx) - 1 /\ Head(tx) \in Items
      BY <2>1, HeadTailProperties
    <2>3. Len(tx) \in Nat
      BY <2>1
    <2> QED
      BY <2>1, <2>2, <2>3
  <1>2. PICK sound \in BOOLEAN :
          LET t == Head(tx) IN
            /\ IF sound THEN Sound ELSE Fault
            /\ dev' = IF command
                      THEN IF /\ sound /\ t.kind = "frame" /\ baud = FrameRate(t.req)
                              /\ dev.heard = "nothing"
                           THEN [dev EXCEPT !.heard = "frame", !.req = t.req, !.id = t.id]
                           ELSE Listening("noise")
                      ELSE IF dev.state = "data"
                      THEN [dev EXCEPT !.state =
                             IF sound /\ t.kind = "block" /\ baud = ReplyRate(dev.req)
                             THEN "accept" ELSE "refuse"]
                      ELSE dev
    BY DEF Uart, Transmit
  <1>3. dev' \in Drives
    <2>1. dev \in Drives
      BY DEF TypeOK, Drives
    <2>2. ASSUME tx # <<>>
          PROVE  Head(tx).req \in Wanted \cup {NoRequest} /\ Head(tx).id \in 0 .. MaxCalls
      BY <1>1 DEF Items
    <2>3. tx # <<>>
      BY DEF Uart, Transmit
    <2>4. Listening("noise") \in Drives
      BY Constants DEF Listening, Drives, DevStates
    <2>5. [dev EXCEPT !.heard = "frame", !.req = Head(tx).req, !.id = Head(tx).id] \in Drives
      BY <2>1, <2>2, <2>3 DEF Drives
    <2>6. \A to \in {"accept", "refuse"} : [dev EXCEPT !.state = to] \in Drives
      BY <2>1 DEF Drives, DevStates
    <2> QED
      BY <1>2, <2>1, <2>4, <2>5, <2>6
  <1>4. faults' \in 0 .. MaxFaults
    BY <1>2, Constants DEF TypeOK, Sound, Fault
  <1>5. UNCHANGED <<command, baud, rx, done, answer, pc, local, lcr, signal, got>>
    BY DEF Uart, Transmit
  <1> QED
    BY <1>1, <1>3, <1>4, <1>5 DEF TypeOK, Items, Drives, local, count

\* What an answer of the drive leaves of its state and of the receive ring.
LEMMA AnswerType ==
    ASSUME TypeOK, NEW from \in DevStates, NEW k \in CharKinds, NEW rate,
           NEW to \in DevStates, Answer(from, k, rate, to)
    PROVE  /\ dev' \in Drives
           /\ rx' \in Seq(Chars)
           /\ faults' \in 0 .. MaxFaults
           /\ dev.state = from /\ dev'.state = to
           /\ to # "idle" => dev'.id = dev.id /\ dev'.req = dev.req
           /\ \/ rx' = rx
              \/ rx' = Append(rx, Noise)
              \/ rx' = Append(rx, Char(k, dev.id))
  <1>1. dev \in Drives /\ rx \in Seq(Chars) /\ faults \in 0 .. MaxFaults
    BY DEF TypeOK, Drives
  <1>2. Noise \in Chars /\ Char(k, dev.id) \in Chars
    BY <1>1, Constants DEF Noise, Char, Chars, CharKinds, Drives
  <1>3. \/ rx' = rx
        \/ rx' = Append(rx, Noise)
        \/ rx' = Append(rx, Char(k, dev.id))
    BY DEF Answer, Emit
  <1>4. rx' \in Seq(Chars)
    BY <1>1, <1>2, <1>3, AppendProperties
  <1>5. faults' \in 0 .. MaxFaults
    BY <1>1, Constants DEF Answer, Emit, Sound, Fault
  <1>6. /\ Idle \in Drives /\ Idle.state = "idle"
        /\ [dev EXCEPT !.state = to] \in Drives
        /\ [dev EXCEPT !.state = to].state = to
        /\ [dev EXCEPT !.state = to].id = dev.id
        /\ [dev EXCEPT !.state = to].req = dev.req
    BY <1>1, Constants DEF Idle, Drives, DevStates
  <1>7. /\ dev.state = from
        /\ dev' = IF to = "idle" THEN Idle ELSE [dev EXCEPT !.state = to]
    BY DEF Answer
  <1> QED
    BY <1>3, <1>4, <1>5, <1>6, <1>7

LEMMA LineType ==
    ASSUME TypeOK, Line
    PROVE  TypeOK'
  <1>1. /\ UNCHANGED <<command, baud, tx, pc, calls, req, mode, retry, tries, ret, cmd, c,
                       signal, got>>
        /\ lcr' \in {"std", "slow"}
    BY DEF Line, HearFrame, Acknowledge, Perform, Answer, TypeOK, local, count
  <1>2. /\ dev' \in Drives /\ rx' \in Seq(Chars) /\ faults' \in 0 .. MaxFaults
        /\ done' \in Nat /\ answer' \in {"none", "complete", "error"}
    <2>1. CASE HearFrame
      <3>1. dev \in Drives /\ Idle \in Drives
        BY Constants DEF TypeOK, Drives, Idle, DevStates
      <3>2. \A to \in {"ack", "nak"} :
              [dev EXCEPT !.state = to, !.heard = "nothing"] \in Drives
        BY <3>1 DEF Drives, DevStates
      <3>3. dev' \in Drives
        BY <2>1, <3>1, <3>2 DEF HearFrame
      <3> QED
        BY <2>1, <3>3 DEF HearFrame, TypeOK
    <2>2. CASE Acknowledge
      <3>1. UNCHANGED <<done, answer>>
        BY <2>2 DEF Acknowledge
      <3>2. PICK from \in DevStates, k \in CharKinds, rate \in {"std", "hs"}, to \in DevStates :
              Answer(from, k, rate, to)
        BY <2>2 DEF Acknowledge, AckRate, ReplyRate, DevStates, CharKinds
      <3> QED
        BY <3>1, <3>2, AnswerType DEF TypeOK
    <2>3. CASE Perform(calls)
      <3>1. done' \in Nat /\ answer' \in {"none", "complete", "error"}
        BY <2>3 DEF Perform, TypeOK
      <3>2. PICK k \in CharKinds, rate \in {"std", "hs"}, to \in DevStates :
              Answer("work", k, rate, to)
        BY <2>3 DEF Perform, ReplyRate, DevStates, CharKinds
      <3>3. "work" \in DevStates
        BY DEF DevStates
      <3> QED
        BY <3>1, <3>2, <3>3, AnswerType
    <2> QED
      BY <2>1, <2>2, <2>3 DEF Line
  <1> QED
    BY <1>1, <1>2 DEF TypeOK, Drives

LEMMA TypeInit == Init => TypeOK
  <1> SUFFICES ASSUME Init PROVE TypeOK
    OBVIOUS
  <1>1. Idle \in Drives /\ Noise \in Chars
    BY Constants DEF Idle, Drives, DevStates, Noise, Char, Chars, CharKinds
  <1>2. /\ tx \in Seq(Items) /\ Len(tx) <= 1
        /\ rx \in Seq(Chars)
    BY DEF Init, DevInit
  <1>3. command \in BOOLEAN /\ signal \in BOOLEAN
    BY DEF Init, DevInit
  <1> QED
    BY <1>1, <1>2, <1>3, Constants DEF Init, DevInit, TypeOK, Items, Drives, PCs, CharKinds,
       Modes, Outcomes

LEMMA TypeStep ==
    ASSUME TypeOK, [Next]_vars
    PROVE  TypeOK'
  <1>1. CASE UNCHANGED vars
    BY <1>1 DEF vars, wire, drive, local, count, TypeOK
  <1>2. CASE Next
    BY <1>2, ProcessType, SendType, ReceiveType, TransmitType, LineType DEF Next, Run
  <1> QED
    BY <1>1, <1>2

\* Every variable keeps its type, the transmit ring holds at most one frame or
\* block and both retry counters stay below their limits: for any requests and
\* any number of ioctls, retries and faults (driver/atarisio.c:2176, 2408).
THEOREM TypeCorrect == Spec => []TypeOK
  BY TypeInit, TypeStep, PTL DEF Spec

-----------------------------------------------------------------------------
(* The invariant is inductive.                                             *)

\* Where a character of the receive ring comes from, after an answer of the
\* drive and after one has been taken.
LEMMA Grown ==
    ASSUME TypeOK, NEW from \in DevStates, NEW k \in CharKinds, NEW rate,
           NEW to \in DevStates, Answer(from, k, rate, to)
    PROVE  /\ Len(rx) \in Nat /\ Len(rx') \in Nat
           /\ Len(rx') \in {Len(rx), Len(rx) + 1}
           /\ \A i \in 1 .. Len(rx') :
                \/ i \in 1 .. Len(rx) /\ rx'[i] = rx[i]
                \/ /\ i = Len(rx) + 1 /\ rx'[i].kind \in {k, "noise"}
                   /\ rx'[i].kind # "noise" => rx'[i].id = dev.id
  <1>1. /\ rx \in Seq(Chars) /\ rx' \in Seq(Chars)
        /\ rx' = rx \/ rx' = Append(rx, Noise) \/ rx' = Append(rx, Char(k, dev.id))
    BY AnswerType DEF TypeOK
  <1>2. /\ Noise \in Chars /\ Noise.kind = "noise"
        /\ Char(k, dev.id) \in Chars /\ Char(k, dev.id).kind = k
        /\ Char(k, dev.id).id = dev.id
    BY Constants DEF TypeOK, Noise, Char, Chars, CharKinds
  <1>3. \A x \in Chars :
          rx' = Append(rx, x) =>
            /\ Len(rx') = Len(rx) + 1
            /\ \A i \in 1 .. Len(rx) : rx'[i] = rx[i]
            /\ rx'[Len(rx) + 1] = x
    BY <1>1, AppendProperties
  <1> QED
    BY <1>1, <1>2, <1>3

LEMMA Taken ==
    ASSUME TypeOK, NEW a, Take(a)
    PROVE  \/ /\ a \in {"timeout", "eintr"} /\ rx' = rx
           \/ /\ Len(rx) \in Nat /\ Len(rx) > 0 /\ a = rx[1].kind
              /\ Len(rx') = Len(rx) - 1
              /\ \A i \in 1 .. Len(rx') : i + 1 \in 1 .. Len(rx) /\ rx'[i] = rx[i + 1]
  <1>1. rx \in Seq(Chars)
    BY DEF TypeOK
  <1>2. CASE rx # <<>> /\ a = Head(rx).kind /\ rx' = Tail(rx)
    <2>1. Len(rx) \in Nat /\ Len(rx) > 0 /\ Head(rx) = rx[1]
      BY <1>1, <1>2
    <2>2. /\ Len(rx') = Len(rx) - 1
          /\ \A i \in 1 .. Len(rx') : rx'[i] = rx[i + 1]
      BY <1>1, <1>2, HeadTailProperties
    <2>3. \A i \in 1 .. Len(rx') : i + 1 \in 1 .. Len(rx)
      BY <2>1, <2>2
    <2> QED
      BY <1>2, <2>1, <2>2, <2>3
  <1>3. CASE a \in {"timeout", "eintr"} /\ UNCHANGED rx
    BY <1>3
  <1> QED
    BY <1>2, <1>3 DEF Take

LEMMA InvInit == Init => IInv
  <1> SUFFICES ASSUME Init PROVE IInv
    OBVIOUS
  <1>1. LineInv /\ FrameInv /\ AnswerInv /\ WordInv /\ ResultInv
    BY DEF Init, DevInit, LineInv, FrameInv, AnswerInv, WordInv, ResultInv, Idle
  <1>2. DataInv /\ HeardInv /\ WriteInv
    BY DEF Init, DevInit, DataInv, HeardInv, WriteInv, Sending, NoRequest, Idle
  <1> QED
    BY <1>1, <1>2, TypeInit DEF IInv

\* Actions of the process that leave the rings alone.
LEMMA ProcessInv ==
    ASSUME IInv, FrameLate \/ FrameInterrupted \/ Release \/ SwitchRate
                 \/ Again \/ DataSent \/ Finish \/ SignalArrives
    PROVE  LineInv' /\ FrameInv' /\ AnswerInv' /\ WordInv' /\ ResultInv'
  <1> USE DEF IInv, LineInv, FrameInv, AnswerInv, WordInv, ResultInv, Agreed, Same, Over, Has,
              Sending, Outcomes, vars, wire, drive, local, count
  <1>1. CASE FrameLate
    BY <1>1 DEF FrameLate
  <1>2. CASE FrameInterrupted
    BY <1>2 DEF FrameInterrupted
  <1>3. CASE Release
    BY <1>3 DEF Release, Goto
  <1>4. CASE SwitchRate
    BY <1>4 DEF SwitchRate
  <1>5. CASE Again
    BY <1>5 DEF Again
  <1>6. CASE DataSent
    BY <1>6 DEF DataSent, Sound
  <1>7. CASE Finish
    BY <1>7 DEF Finish, Result
  <1>8. CASE SignalArrives
    BY <1>8 DEF SignalArrives
  <1> QED
    BY <1>1, <1>2, <1>3, <1>4, <1>5, <1>6, <1>7, <1>8

\* Actions that empty a ring or put one item into it.
LEMMA SendInv ==
    ASSUME IInv, Call \/ Attempt \/ QueueFrame \/ FrameSent \/ Setup
    PROVE  LineInv' /\ FrameInv' /\ AnswerInv' /\ WordInv' /\ ResultInv'
  <1> USE DEF IInv, LineInv, FrameInv, AnswerInv, WordInv, ResultInv, Agreed, Same, Over, Has,
              Sending, Outcomes, vars, wire, drive, local, count
  <1>1. CASE Call
    BY <1>1 DEF Call
  <1>2. CASE Attempt
    BY <1>2 DEF Attempt, Goto, Listen, Listening
  <1>3. CASE QueueFrame
    BY <1>3 DEF QueueFrame, Goto
  <1>4. CASE FrameSent
    BY <1>4 DEF FrameSent, Goto
  <1>5. CASE Setup
    BY <1>5 DEF Setup, Goto
  <1> QED
    BY <1>1, <1>2, <1>3, <1>4, <1>5

LEMMA ReceiveInv ==
    ASSUME IInv,
           \/ \E a \in CharKinds \cup {"timeout", "eintr"} :
                TakeAck(a) \/ TakeDataAck(a) \/ TakeComplete(a)
           \/ ReceiveBlock
    PROVE  LineInv' /\ FrameInv' /\ AnswerInv' /\ WordInv' /\ ResultInv'
  <1> USE DEF IInv, LineInv, FrameInv, AnswerInv, WordInv, ResultInv, Agreed, Same, Over, Has,
              Sending, Outcomes, vars, wire, drive, local, count
  <1>1. CASE \E a \in CharKinds \cup {"timeout", "eintr"} :
               TakeAck(a) \/ TakeDataAck(a) \/ TakeComplete(a)
    <2>1. PICK a \in CharKinds \cup {"timeout", "eintr"} :
            TakeAck(a) \/ TakeDataAck(a) \/ TakeComplete(a)
      BY <1>1
    <2>2. rx \in Seq(Chars) /\ Take(a) /\ rx' \in Seq(Chars)
      BY <2>1, TakeType DEF TypeOK, TakeAck, TakeDataAck, TakeComplete
    <2>3. \/ /\ a \in {"timeout", "eintr"} /\ rx' = rx
          \/ /\ Len(rx) \in Nat /\ Len(rx) > 0 /\ a = rx[1].kind
             /\ Len(rx') = Len(rx) - 1
             /\ \A i \in 1 .. Len(rx') : i + 1 \in 1 .. Len(rx) /\ rx'[i] = rx[i + 1]
      BY <2>2, Taken
    <2>4. CASE TakeAck(a)
      BY <2>2, <2>3, <2>4 DEF TakeAck
    <2>5. CASE TakeDataAck(a)
      BY <2>2, <2>3, <2>5 DEF TakeDataAck
    <2>6. CASE TakeComplete(a)
      BY <2>2, <2>3, <2>6 DEF TakeComplete
    <2> QED
      BY <2>1, <2>4, <2>5, <2>6
  <1>2. CASE ReceiveBlock
    BY <1>2 DEF ReceiveBlock
  <1> QED
    BY <1>1, <1>2

LEMMA TransmitInv ==
    ASSUME IInv, Uart
    PROVE  LineInv' /\ FrameInv' /\ AnswerInv' /\ WordInv' /\ ResultInv'
  <1> USE DEF IInv, LineInv, FrameInv, AnswerInv, WordInv, ResultInv, Agreed, Same, Over, Has,
              Sending, Outcomes, vars, wire, drive, local, count
  <1>1. /\ UNCHANGED <<command, baud, rx, done, answer, pc, local, lcr, signal, got>>
        /\ tx # <<>> /\ tx' = Tail(tx)
    BY DEF Uart, Transmit
  <1>2. tx' = <<>>
    BY <1>1 DEF TypeOK
  <1>3. CASE command
    BY <1>1, <1>2, <1>3 DEF Uart, Transmit, TypeOK, Listening
  <1>4. CASE ~command
    BY <1>1, <1>2, <1>4 DEF Uart, Transmit, TypeOK
  <1> QED
    BY <1>3, <1>4

LEMMA LineStep ==
    ASSUME IInv, Line
    PROVE  LineInv' /\ FrameInv' /\ AnswerInv' /\ WordInv' /\ ResultInv'
  <1> USE DEF IInv, LineInv, FrameInv, AnswerInv, WordInv, ResultInv, Agreed, Same, Over, Has,
              Sending, Outcomes, vars, wire, drive, local, count
  <1>1. UNCHANGED <<command, baud, tx, pc, calls, req, mode, retry, tries, ret, cmd, c>>
    BY DEF Line, HearFrame, Acknowledge, Perform, Answer
  <1>2. CASE HearFrame
    <2>1. /\ rx' = rx /\ done' = done /\ answer' = answer
          /\ dev.state = "listen" /\ ~command
          /\ \/ dev'.state = "idle"
             \/ dev.heard = "frame" /\ dev'.state \in {"ack", "nak"}
                /\ dev'.id = dev.id /\ dev'.req = dev.req
      <3>1. /\ dev \in Drives /\ Idle.state = "idle"
            /\ \A to \in {"ack", "nak"} :
                 LET d == [dev EXCEPT !.state = to, !.heard = "nothing"] IN
                   d.state = to /\ d.id = dev.id /\ d.req = dev.req
        BY DEF TypeOK, Drives, Idle
      <3>2. /\ rx' = rx /\ done' = done /\ answer' = answer
            /\ dev.state = "listen"
        BY <1>2 DEF HearFrame
      <3>3. ~command
        BY <1>2 DEF HearFrame
      <3>4. \/ dev' = Idle
            \/ dev.heard = "frame" /\ \E to \in {"ack", "nak"} :
                 dev' = [dev EXCEPT !.state = to, !.heard = "nothing"]
        BY <1>2 DEF HearFrame
      <3>5. \/ dev'.state = "idle"
            \/ dev.heard = "frame" /\ dev'.state \in {"ack", "nak"} /\ dev'.id = dev.id /\ dev'.req = dev.req
        <4>1. CASE dev' = Idle
          BY <3>1, <4>1
        <4>2. CASE ~ (dev' = Idle)
          <5>1. PICK to \in {"ack", "nak"} : dev' = [dev EXCEPT !.state = to, !.heard = "nothing"]
            BY <3>4, <4>2
          <5> QED
            BY <3>1, <3>4, <4>2, <5>1
        <4> QED
          BY <4>1, <4>2
      <3> QED
        BY <3>2, <3>3, <3>5
    <2> QED
      BY <1>1, <2>1
  <1>3. CASE Acknowledge
    <2>1. done' = done /\ answer' = answer
      BY <1>3 DEF Acknowledge
    <2>2. PICK from \in DevStates, k \in CharKinds, rate \in {"std", "hs"}, to \in DevStates :
            /\ Answer(from, k, rate, to)
            /\ \/ /\ from = "ack" /\ k = "ack"
                  /\ to = IF "send" \in dev.req.dir THEN "data" ELSE "work"
               \/ from \in {"nak", "refuse"} /\ k = "nak" /\ to = "idle"
               \/ from = "accept" /\ k = "ack" /\ to = "work"
               \/ from = "bytes" /\ k = "data" /\ to = "sum"
               \/ from = "sum" /\ k = "sum" /\ to = "idle"
      BY <1>3 DEF Acknowledge, AckRate, ReplyRate, DevStates, CharKinds
    <2>3. /\ Len(rx) \in Nat /\ Len(rx') \in Nat
          /\ Len(rx') \in {Len(rx), Len(rx) + 1}
          /\ \A i \in 1 .. Len(rx') :
               \/ i \in 1 .. Len(rx) /\ rx'[i] = rx[i]
               \/ i = Len(rx) + 1 /\ rx'[i].kind \in {k, "noise"}
      BY <2>2, Grown
    <2>4. /\ dev.state = from /\ dev'.state = to
          /\ to # "idle" => dev'.id = dev.id /\ dev'.req = dev.req
      BY <2>2, AnswerType
    <2>5. rx \in Seq(Chars) /\ rx' \in Seq(Chars)
      BY <2>2, AnswerType DEF TypeOK
    <2>6. LineInv' /\ FrameInv' /\ ResultInv'
      BY <1>1, <2>1, <2>2, <2>4
    <2>7. WordInv'
      BY <1>1, <2>1, <2>2, <2>3, <2>4
    <2>8. AnswerInv'
      <3>1. rx = <<>> => Len(rx) = 0
        OBVIOUS
      <3>2. rx' # <<>> => Len(rx') > 0
        BY <2>5
      <3>3. CASE pc = "ack"
        <4>1. dev'.state \in {"data", "work", "idle", "sum"} /\ from # "accept"
          BY <2>2, <2>4, <3>3
        <4>2. ASSUME rx' # <<>>, rx'[1].kind = "ack"
              PROVE  Len(rx') = 1 /\ dev'.state = IF Sending' THEN "data" ELSE "work"
          <5>1. 1 \in 1 .. Len(rx')
            BY <2>3, <3>2, <4>2
          <5>2. rx = <<>>
            <6> SUFFICES ASSUME rx # <<>> PROVE FALSE
              OBVIOUS
            <6>1. Len(rx) > 0
              BY <2>5
            <6>2. rx'[1] = rx[1]
              BY <2>3, <5>1, <6>1
            <6>3. dev.state = IF Sending THEN "data" ELSE "work"
              BY <3>3, <4>2, <6>2
            <6> QED
              BY <2>2, <2>4, <6>3
          <5>3. Len(rx') = 1 /\ k = "ack"
            BY <2>2, <2>3, <3>1, <4>2, <5>1, <5>2
          <5>4. from = "ack" /\ to = IF "send" \in dev.req.dir THEN "data" ELSE "work"
            BY <2>2, <4>1, <5>3
          <5>5. dev.req = req
            BY <2>4, <3>3, <5>4
          <5> QED
            BY <1>1, <2>4, <5>3, <5>4, <5>5
        <4> QED
          BY <1>1, <3>3, <4>1, <4>2
      <3>4. CASE pc \in {"senddata", "dataack"}
        BY <1>1, <2>2, <2>3, <2>4, <2>5, <3>1, <3>2, <3>4
      <3>5. CASE pc \notin {"ack", "senddata", "dataack"}
        BY <1>1, <2>2, <2>3, <2>4, <2>5, <3>5
      <3> QED
        BY <3>3, <3>4, <3>5
    <2> QED
      BY <2>6, <2>7, <2>8
  <1>4. CASE Settled /\ Perform(calls)
    <2>1. PICK k \in {"complete", "error"}, rate \in {"std", "hs"}, to \in {"bytes", "idle"} :
            /\ Answer("work", k, rate, to)
            /\ IF dev.id = calls
               THEN answer' = k /\ done' = IF k = "complete" THEN done + 1 ELSE done
               ELSE UNCHANGED <<done, answer>>
      BY <1>4 DEF Perform, ReplyRate
    <2>2. "work" \in DevStates /\ k \in CharKinds /\ to \in DevStates /\ done \in Nat
      BY DEF DevStates, CharKinds, TypeOK
    <2>3. /\ Len(rx) \in Nat /\ Len(rx') \in Nat
          /\ Len(rx') \in {Len(rx), Len(rx) + 1}
          /\ \A i \in 1 .. Len(rx') :
               \/ i \in 1 .. Len(rx) /\ rx'[i] = rx[i]
               \/ i = Len(rx) + 1 /\ rx'[i].kind \in {k, "noise"}
      BY <2>1, <2>2, Grown
    <2>4. /\ dev.state = "work" /\ dev'.state = to
          /\ to # "idle" => dev'.id = dev.id /\ dev'.req = dev.req
      BY <2>1, <2>2, AnswerType
    <2>5. rx \in Seq(Chars) /\ rx' \in Seq(Chars)
      BY <2>1, <2>2, AnswerType DEF TypeOK
    <2>6. LineInv' /\ FrameInv' /\ ResultInv'
      BY <1>1, <2>1, <2>2, <2>4
    <2>7. WordInv'
      <3> SUFFICES ASSUME pc \in {"release", "ack", "switch", "setup", "senddata", "dataack",
                                  "complete"}
                   PROVE  /\ Has("complete")' => dev'.state \in Over /\ done' > 0
                                                   /\ answer' = "complete"
                          /\ Has("error")' => dev'.state \in Over /\ answer' = "error"
        BY <1>1
      <3>1. \A i \in 1 .. Len(rx) : rx[i].kind \notin {"complete", "error"}
        BY <2>4
      <3>2. dev.id = calls
        BY <2>4
      <3>3. \A i \in 1 .. Len(rx') : rx'[i].kind \in {"complete", "error"} => rx'[i].kind = k
        BY <2>3, <3>1
      <3>4. answer' = k /\ (k = "complete" => done' = done + 1)
        BY <2>1, <3>2
      <3> QED
        BY <2>1, <2>2, <2>4, <3>3, <3>4
    <2>8. AnswerInv'
      BY <1>1, <1>4, <2>3, <2>4, <2>5 DEF Settled
    <2> QED
      BY <2>6, <2>7, <2>8
  <1> QED
    BY <1>2, <1>3, <1>4 DEF Line

\* The rest of the invariant, in the same groups.
LEMMA ProcessData ==
    ASSUME IInv, FrameLate \/ FrameInterrupted \/ Release \/ SwitchRate
                 \/ Again \/ DataSent \/ Finish \/ SignalArrives
    PROVE  DataInv' /\ HeardInv' /\ WriteInv'
  <1> USE Constants DEF IInv, DataInv, HeardInv, WriteInv, Pending, Sending, Receiving, Outcomes,
          wire, drive, local, count
  <1>0. /\ done \in Nat /\ tries \in 0 .. SioRetries - 1 /\ calls \in Nat /\ dev.id \in Nat
    BY DEF TypeOK
  <1>1. CASE FrameLate
    BY <1>0, <1>1 DEF FrameLate
  <1>2. CASE FrameInterrupted
    BY <1>0, <1>2 DEF FrameInterrupted
  <1>3. CASE Release
    BY <1>0, <1>3 DEF Release, Goto
  <1>4. CASE SwitchRate
    BY <1>0, <1>4 DEF SwitchRate, FrameInv, AnswerInv, Over
  <1>5. CASE Again
    BY <1>0, <1>5 DEF Again, ResultInv
  <1>6. CASE DataSent
    BY <1>0, <1>6 DEF DataSent
  <1>7. CASE Finish
    BY <1>0, <1>7 DEF Finish
  <1>8. CASE SignalArrives
    BY <1>0, <1>8 DEF SignalArrives
  <1> QED
    BY <1>1, <1>2, <1>3, <1>4, <1>5, <1>6, <1>7, <1>8

LEMMA SendData ==
    ASSUME IInv, Call \/ Attempt \/ QueueFrame \/ FrameSent \/ Setup
    PROVE  DataInv' /\ HeardInv' /\ WriteInv'
  <1> USE Constants DEF IInv, DataInv, HeardInv, WriteInv, Pending, Sending, Receiving, Outcomes,
          wire, drive, local, count
  <1>0. /\ done \in Nat /\ tries \in 0 .. SioRetries - 1 /\ calls \in Nat /\ dev.id \in Nat
    BY DEF TypeOK
  <1>1. CASE Call
    <2>1. tx # <<>> => tx[1].id \in Nat
      <3>1. tx \in Seq(Items)
        BY DEF TypeOK, Items
      <3>2. tx # <<>> => tx[1] \in Items
        BY <3>1
      <3> QED
        BY <3>2 DEF Items
    <2> QED
      BY <1>0, <1>1, <2>1 DEF Call
  <1>2. CASE Attempt
    BY <1>0, <1>2 DEF Attempt, Goto, Listen, Listening, LineInv
  <1>3. CASE QueueFrame
    BY <1>0, <1>3 DEF QueueFrame, Goto, LineInv
  <1>4. CASE FrameSent
    BY <1>0, <1>4 DEF FrameSent, Goto
  <1>5. CASE Setup
    BY <1>0, <1>5 DEF Setup, Goto, AnswerInv
  <1> QED
    BY <1>1, <1>2, <1>3, <1>4, <1>5

LEMMA ReceiveData ==
    ASSUME IInv,
           \/ \E a \in CharKinds \cup {"timeout", "eintr"} :
                TakeAck(a) \/ TakeDataAck(a) \/ TakeComplete(a)
           \/ ReceiveBlock
    PROVE  DataInv' /\ HeardInv' /\ WriteInv'
  <1> USE Constants DEF IInv, DataInv, HeardInv, WriteInv, Pending, Sending, Receiving,
          wire, drive, local, count
  <1>0. /\ done \in Nat /\ tries \in 0 .. SioRetries - 1 /\ calls \in Nat /\ dev.id \in Nat
    BY DEF TypeOK
  <1>1. CASE \E a \in CharKinds \cup {"timeout", "eintr"} :
               TakeAck(a) \/ TakeDataAck(a) \/ TakeComplete(a)
    <2>1. PICK a \in CharKinds \cup {"timeout", "eintr"} :
            TakeAck(a) \/ TakeDataAck(a) \/ TakeComplete(a)
      BY <1>1
    <2>2. Take(a)
      BY <2>1 DEF TakeAck, TakeDataAck, TakeComplete
    <2>3. \/ /\ a \in {"timeout", "eintr"} /\ rx' = rx
          \/ /\ Len(rx) \in Nat /\ Len(rx) > 0 /\ a = rx[1].kind
             /\ Len(rx') = Len(rx) - 1
             /\ \A i \in 1 .. Len(rx') : i + 1 \in 1 .. Len(rx) /\ rx'[i] = rx[i + 1]
      BY <2>2, Taken
    <2>4. CASE TakeAck(a)
      BY <1>0, <2>3, <2>4 DEF TakeAck
    <2>5. CASE TakeDataAck(a)
      BY <1>0, <2>3, <2>5 DEF TakeDataAck
    <2>6. CASE TakeComplete(a)
      BY <1>0, <2>3, <2>6 DEF TakeComplete
    <2> QED
      BY <2>1, <2>4, <2>5, <2>6
  <1>2. CASE ReceiveBlock
    <2>1. UNCHANGED <<tx, dev, done, calls, req, tries, cmd>> /\ pc = "block" /\ pc' = "end"
      BY <1>2 DEF ReceiveBlock
    <2>2. ret' = "ok" => got' = Char("data", calls)
      <3>1. SUFFICES ASSUME ret' = "ok" PROVE got' = Char("data", calls)
        OBVIOUS
      <3>2. Len(rx) >= BlockLen /\ got' = rx[1] /\ rx[1].kind = "data"
        BY <1>2, <3>1 DEF ReceiveBlock
      <3>3. 1 \in 1 .. Len(rx) /\ rx[1] \in Chars
        BY <3>2 DEF BlockLen, TypeOK
      <3>4. rx[1].id = calls
        BY <2>1, <3>2, <3>3
      <3> QED
        BY <3>2, <3>3, <3>4 DEF Chars, Char
    <2> QED
      BY <1>0, <2>1, <2>2
  <1> QED
    BY <1>1, <1>2

LEMMA TransmitData ==
    ASSUME IInv, Uart
    PROVE  DataInv' /\ HeardInv' /\ WriteInv'
  <1> USE Constants DEF IInv, DataInv, HeardInv, WriteInv, Pending, Sending, Receiving,
          local, count
  <1>1. /\ UNCHANGED <<command, baud, rx, done, answer, pc, calls, req, tries, ret, cmd, got>>
        /\ tx # <<>>
    BY DEF Uart, Transmit
  <1>2. tx' = <<>> /\ tx \in Seq(Items) /\ Head(tx) = tx[1]
    BY DEF TypeOK, Items, Uart, Transmit
  <1>3. /\ done \in Nat /\ tries \in 0 .. SioRetries - 1 /\ calls \in Nat /\ dev.id \in Nat
        /\ dev \in Drives
    BY DEF TypeOK, Drives
  <1>4. tx[1] \in Items /\ tx[1].id \in Nat
    <2>1. tx[1] \in Items
      BY <1>1, <1>2
    <2> QED
      BY <2>1 DEF Items
  <1>5. \/ /\ dev.heard = "nothing" /\ dev'.heard = "frame" /\ dev'.state = dev.state
           /\ dev'.id = tx[1].id /\ dev'.req = tx[1].req /\ command
        \/ dev' = Listening("noise")
        \/ /\ dev.state = "data" /\ dev'.state \in {"accept", "refuse"}
           /\ dev'.heard = dev.heard /\ dev'.id = dev.id /\ dev'.req = dev.req
           /\ dev'.state = "accept" => tx[1].kind = "block"
        \/ dev' = dev
    BY <1>2, <1>3 DEF Uart, Transmit, Drives
  <1>6. command => dev.state = "listen"
    BY DEF LineInv
  <1> QED
    BY <1>1, <1>2, <1>3, <1>4, <1>5, <1>6 DEF Listening

LEMMA LineData ==
    ASSUME IInv, Line
    PROVE  DataInv' /\ HeardInv' /\ WriteInv'
  <1> USE Constants DEF IInv, DataInv, HeardInv, WriteInv, Pending, Sending, Receiving
  <1>1. UNCHANGED <<command, baud, tx, pc, calls, req, tries, ret, cmd, got>>
    BY DEF Line, HearFrame, Acknowledge, Perform, Answer, local, count
  <1>2. /\ done \in Nat /\ tries \in 0 .. SioRetries - 1 /\ calls \in Nat /\ dev.id \in Nat
        /\ dev \in Drives
    BY DEF TypeOK, Drives
  <1>3. /\ Idle.state = "idle" /\ Idle.heard = "nothing" /\ Idle.id = 0
    BY DEF Idle
  <1>4. CASE HearFrame
    <2>1. UNCHANGED <<rx, done>> /\ dev.state = "listen"
      BY <1>4 DEF HearFrame
    <2>2. \/ dev' = Idle
          \/ /\ dev.heard = "frame" /\ dev'.heard = "nothing"
             /\ dev'.state \in {"ack", "nak"} /\ dev'.id = dev.id /\ dev'.req = dev.req
      <3>1. CASE dev.heard # "frame"
        BY <1>4, <3>1 DEF HearFrame
      <3>2. CASE dev.heard = "frame"
        <4>1. PICK to \in {"ack", "nak"} :
                dev' = [dev EXCEPT !.state = to, !.heard = "nothing"]
          BY <1>4, <3>2 DEF HearFrame
        <4> QED
          BY <1>2, <3>2, <4>1 DEF Drives
      <3> QED
        BY <3>1, <3>2
    <2> QED
      BY <1>1, <1>2, <1>3, <2>1, <2>2
  <1>5. ASSUME NEW from \in DevStates, NEW k \in CharKinds, NEW rate, NEW to \in DevStates,
               Answer(from, k, rate, to), from \notin {"idle", "listen"}, to # "listen"
        PROVE  /\ dev.state = from /\ dev.heard = "nothing"
               /\ \/ dev' = Idle /\ to = "idle"
                  \/ /\ dev'.state = to /\ dev'.heard = "nothing"
                     /\ dev'.id = dev.id /\ dev'.req = dev.req
               /\ DataInv'
    <2>1. /\ dev.state = from
          /\ dev' = IF to = "idle" THEN Idle ELSE [dev EXCEPT !.state = to]
      BY <1>5 DEF Answer
    <2>2. LET d == [dev EXCEPT !.state = to] IN
            d.state = to /\ d.heard = dev.heard /\ d.id = dev.id /\ d.req = dev.req
      BY <1>2 DEF Drives
    <2>3. /\ Len(rx) \in Nat /\ Len(rx') \in Nat
          /\ \A i \in 1 .. Len(rx') :
               \/ i \in 1 .. Len(rx) /\ rx'[i] = rx[i]
               \/ /\ i = Len(rx) + 1 /\ rx'[i].kind \in {k, "noise"}
                  /\ rx'[i].kind # "noise" => rx'[i].id = dev.id
      BY <1>5, Grown
    <2>4. DataInv'
      BY <1>1, <1>5, <2>1, <2>3 DEF FrameInv, Same
    <2> QED
      BY <1>5, <2>1, <2>2, <2>4
  <1>6. CASE Acknowledge
    <2>1. UNCHANGED done
      BY <1>6 DEF Acknowledge
    <2>2. PICK from \in DevStates, k \in CharKinds, rate \in {"std", "hs"}, to \in DevStates :
            /\ Answer(from, k, rate, to)
            /\ \/ from = "ack" /\ to = IF "send" \in dev.req.dir THEN "data" ELSE "work"
               \/ from \in {"nak", "refuse"} /\ to = "idle"
               \/ from = "accept" /\ to = "work"
               \/ from = "bytes" /\ to = "sum"
               \/ from = "sum" /\ to = "idle"
      BY <1>6 DEF Acknowledge, AckRate, ReplyRate, DevStates, CharKinds
    <2>3. from \notin {"idle", "listen"} /\ to # "listen"
      BY <2>2
    <2>4. /\ dev.state = from /\ dev.heard = "nothing"
          /\ \/ dev' = Idle /\ to = "idle"
             \/ /\ dev'.state = to /\ dev'.heard = "nothing"
                /\ dev'.id = dev.id /\ dev'.req = dev.req
          /\ DataInv'
      BY <1>5, <2>2, <2>3
    <2>5. HeardInv'
      BY <1>1, <1>2, <1>3, <2>2, <2>4
    <2>6. WriteInv'
      BY <1>1, <1>2, <1>3, <2>1, <2>2, <2>4
    <2> QED
      BY <2>4, <2>5, <2>6
  <1>7. CASE Perform(calls)
    <2>1. PICK k \in {"complete", "error"}, rate \in {"std", "hs"}, to \in {"bytes", "idle"} :
            /\ Answer("work", k, rate, to)
            /\ IF dev.id = calls
               THEN answer' = k /\ done' = IF k = "complete" THEN done + 1 ELSE done
               ELSE UNCHANGED <<done, answer>>
      BY <1>7 DEF Perform, ReplyRate
    <2>2. "work" \in DevStates /\ k \in CharKinds /\ to \in DevStates
      BY DEF DevStates, CharKinds
    <2>3. /\ dev.state = "work" /\ dev.heard = "nothing"
          /\ \/ dev' = Idle /\ to = "idle"
             \/ /\ dev'.state = to /\ dev'.heard = "nothing"
                /\ dev'.id = dev.id /\ dev'.req = dev.req
          /\ DataInv'
      BY <1>5, <2>1, <2>2
    <2>4. HeardInv'
      BY <1>1, <1>2, <1>3, <2>1, <2>3
    <2>5. WriteInv'
      BY <1>1, <1>2, <1>3, <2>1, <2>3
    <2> QED
      BY <2>3, <2>4, <2>5
  <1> QED
    BY <1>4, <1>6, <1>7 DEF Line

LEMMA InvStep ==
    ASSUME IInv, [Next]_vars
    PROVE  IInv'
  <1>1. TypeOK'
    BY TypeStep DEF IInv
  <1>2. LineInv' /\ FrameInv' /\ AnswerInv' /\ WordInv' /\ ResultInv'
    <2>1. CASE UNCHANGED vars
      BY <2>1 DEF IInv, LineInv, FrameInv, AnswerInv, WordInv, ResultInv, Agreed, Same, Over,
                  Has, Sending, vars, wire, drive, local, count
    <2>2. CASE Next
      BY <2>2, ProcessInv, SendInv, ReceiveInv, TransmitInv, LineStep DEF Next, Run
    <2> QED
      BY <2>1, <2>2
  <1>3. DataInv' /\ HeardInv' /\ WriteInv'
    <2>1. CASE UNCHANGED vars
      BY <2>1 DEF IInv, DataInv, HeardInv, WriteInv, Pending, Sending, Receiving,
                  vars, wire, drive, local, count
    <2>2. CASE Next
      BY <2>2, ProcessData, SendData, ReceiveData, TransmitData, LineData DEF Next, Run
    <2> QED
      BY <2>1, <2>2
  <1> QED
    BY <1>1, <1>2, <1>3 DEF IInv

-----------------------------------------------------------------------------
(* The master implements SioTransaction.                                   *)

LEMMA TransactionInit == Init => TX!Init
  BY DEF Init, DevInit, TX!Init

\* A step of the master begins or ends a transaction, lets the drive perform the
\* command, or is invisible to the caller.
LEMMA TransactionStep ==
    ASSUME IInv, [Next]_vars
    PROVE  [TX!Next]_(TX!vars)
  <1>1. CASE Call
    <2>1. TX!Begin
      BY <1>1 DEF Call, TX!Begin
    <2> QED
      BY <2>1 DEF TX!Next
  <1>2. CASE Finish
    <2>1. CASE pc' = "user"
      <3>1. /\ pc = "end" /\ ret' = Result /\ UNCHANGED <<done, answer>>
        BY <1>2, <2>1 DEF Finish, drive
      <3>2. /\ Result = "ok" => done > 0 /\ answer = "complete"
            /\ Result = "device_error" => answer = "error"
        BY <3>1 DEF IInv, ResultInv, Agreed, Result
      <3>3. Result \in Outcomes
        BY <3>1 DEF IInv, ResultInv, TypeOK, Result
      <3>4. TX!End
        BY <2>1, <3>1, <3>2, <3>3 DEF TX!End
      <3> QED
        BY <3>4 DEF TX!Next
    <2>2. CASE pc' # "user"
      BY <1>2, <2>2 DEF Finish, drive, TX!vars
    <2> QED
      BY <2>1, <2>2
  <1>3. CASE Line
    <2>1. UNCHANGED <<pc, ret>>
      BY <1>3 DEF Line, local
    <2>2. CASE HearFrame \/ Acknowledge
      BY <2>1, <2>2 DEF HearFrame, Acknowledge, TX!vars
    <2>3. CASE Perform(calls)
      <3>1. CASE dev.id = calls
        <4>1. TX!Perform
          BY <2>1, <2>3, <3>1 DEF Perform, TX!Perform
        <4> QED
          BY <4>1 DEF TX!Next
      <3>2. CASE dev.id # calls
        BY <2>1, <2>3, <3>2 DEF Perform, TX!vars
      <3> QED
        BY <3>1, <3>2
    <2> QED
      BY <1>3, <2>2, <2>3 DEF Line
  <1>4. CASE \/ Run /\ ~Finish
             \/ Uart \/ SignalArrives
    <2>1. UNCHANGED <<done, answer>>
      BY <1>4 DEF Run, Attempt, QueueFrame, FrameSent, Release, TakeAck, TakeDataAck,
         TakeComplete, SwitchRate, Again, Setup, DataSent, ReceiveBlock, FrameLate,
         FrameInterrupted, Uart, Transmit, SignalArrives, drive
    <2>2. \/ pc # "user" /\ pc' # "user"
          \/ UNCHANGED <<pc, ret>>
      BY <1>4 DEF Run, Attempt, QueueFrame, FrameSent, Release, TakeAck, TakeDataAck,
         TakeComplete, SwitchRate, Again, Setup, DataSent, ReceiveBlock, FrameLate,
         FrameInterrupted, Uart, SignalArrives, Goto, local
    <2> QED
      BY <2>1, <2>2 DEF TX!vars
  <1>5. CASE UNCHANGED vars
    BY <1>5 DEF vars, drive, local, TX!vars
  <1> QED
    BY <1>1, <1>2, <1>3, <1>4, <1>5 DEF Next

\* The return value of the ioctl can be trusted: 0 means that the drive has
\* performed this very command, a device error that an error was the drive's
\* last word, whatever was lost, repeated, late or left over from another
\* attempt (driver/atarisio.c:2341-2417).
THEOREM MasterImplementsTransaction == Spec => Transaction
  <1>1. Init => IInv /\ TX!Init
    BY InvInit, TransactionInit
  <1>2. IInv /\ [Next]_vars => IInv'
    BY InvStep
  <1>3. IInv /\ [Next]_vars => [TX!Next]_(TX!vars)
    BY TransactionStep
  <1> QED
    BY <1>1, <1>2, <1>3, PTL DEF Spec, Transaction, TX!Spec

-----------------------------------------------------------------------------
(* What else the caller and the drive may rely on.                         *)

\* The buffer of an ioctl that returns 0 holds what the drive sent for it
\* (driver/atarisio.c:2223, 2394).
THEOREM BufferIsOurs == Spec => DataIsOurs
  <1>1. Init => IInv
    BY InvInit
  <1>2. IInv /\ [Next]_vars => IInv'
    BY InvStep
  <1>3. ASSUME IInv, [Next]_vars, pc # "user", pc' = "user", ret' = "ok", Receiving
        PROVE  got' = Char("data", calls)
    <2>1. Finish
      BY <1>3 DEF Next, Call, Run, Attempt, QueueFrame, FrameSent, Release, TakeAck,
         TakeDataAck, TakeComplete, SwitchRate, Again, Setup, DataSent, ReceiveBlock,
         FrameLate, FrameInterrupted, Uart, Line, SignalArrives, Goto, vars
    <2>2. pc = "end" /\ Result = "ok" /\ got' = got
      BY <1>3, <2>1 DEF Finish
    <2> QED
      BY <1>3, <2>2 DEF IInv, DataInv, Result
  <1>4. IInv /\ [Next]_vars =>
          [pc # "user" /\ pc' = "user" /\ ret' = "ok" /\ Receiving
             => got' = Char("data", calls)]_vars
    BY <1>3
  <1> QED
    BY <1>1, <1>2, <1>4, PTL DEF Spec, DataIsOurs

\* A command with data for the drive is performed at most once per round of
\* internal_perform_ext_sio, however often its frame is sent and whatever comes
\* late, even after the ioctl has returned (driver/atarisio.c:2176, 2408).
THEOREM WritesAreLimited == Spec => []WritesLimited
  <1>1. Init => IInv
    BY InvInit
  <1>2. IInv /\ [Next]_vars => IInv'
    BY InvStep
  <1>3. IInv => WritesLimited
    <2> SUFFICES ASSUME IInv, Sending PROVE done <= SioRetries
      BY DEF WritesLimited
    <2>1. done \in Nat /\ tries \in 0 .. SioRetries - 1
      BY DEF IInv, TypeOK
    <2>2. done + (IF Pending THEN 1 ELSE 0)
            <= IF pc = "user" THEN SioRetries
               ELSE IF pc \in {"senddata", "dataack", "complete", "block", "end"}
               THEN tries + 1 ELSE tries
      BY DEF IInv, WriteInv
    <2> QED
      BY <2>1, <2>2, Constants
  <1> QED
    BY <1>1, <1>2, <1>3, PTL DEF Spec

\* Only a signal makes the ioctl return with COMMAND asserted
\* (driver/atarisio.c:2211, 2262).
THEOREM LineIsReleased == Spec => LineReleased
  <1>1. Init => IInv
    BY InvInit
  <1>2. IInv /\ [Next]_vars => IInv'
    BY InvStep
  <1>3. ASSUME IInv, [Next]_vars, pc # "user", pc' = "user", command'
        PROVE  ret' = "eintr"
    <2>1. Finish
      BY <1>3 DEF Next, Call, Run, Attempt, QueueFrame, FrameSent, Release, TakeAck,
         TakeDataAck, TakeComplete, SwitchRate, Again, Setup, DataSent, ReceiveBlock,
         FrameLate, FrameInterrupted, Uart, Line, SignalArrives, Goto, vars
    <2>2. pc = "end" /\ ret' = Result
      BY <1>3, <2>1 DEF Finish
    <2>3. command
      BY <1>3, <2>1 DEF Finish, wire
    <2> QED
      BY <1>3, <2>2, <2>3 DEF IInv, LineInv, Result
  <1>4. IInv /\ [Next]_vars =>
          [pc # "user" /\ pc' = "user" /\ command' => ret' = "eintr"]_vars
    BY <1>3
  <1> QED
    BY <1>1, <1>2, <1>4, PTL DEF Spec, LineReleased
-----------------------------------------------------------------------------
(* The rates of the two ends.                                              *)

\* send_command_frame adapts the mode to the command.
ModeOf(r) == IF \/ r.mode = "warp" /\ r.cmd # "sector"
                \/ r.mode = "xf551" /\ r.cmd = "format"
             THEN "normal" ELSE r.mode

\* At which rate the line is, by how far the master has come.
RateInv ==
    /\ pc # "user" => mode = ModeOf(req)
    /\ pc \in {"queue", "sendframe"} => baud = IF mode = "ultra" THEN "hs" ELSE "std"
    /\ pc \in {"release", "ack", "switch"} =>
         baud = IF mode \in {"ultra", "turbo"} THEN "hs" ELSE "std"
    /\ pc \in {"setup", "senddata", "dataack", "complete", "block"} =>
         baud = IF mode = "normal" THEN "std" ELSE "hs"
    /\ pc = "block" => cmd \in {"ok", "device_error"}

LEMMA RateStep ==
    ASSUME IInv, RateInv, [Next]_vars
    PROVE  RateInv'
  <1> USE DEF RateInv, vars, wire, drive, local, count, Goto
  <1>0. mode \in Modes
    BY DEF IInv, TypeOK
  <1>1. CASE Call
    BY <1>1 DEF Call, ModeOf
  <1>2. CASE Attempt \/ QueueFrame \/ FrameSent \/ Release \/ FrameLate \/ FrameInterrupted
    BY <1>2 DEF Attempt, QueueFrame, FrameSent, Release, FrameLate, FrameInterrupted, ModeOf
  <1>3. CASE \E a \in CharKinds \cup {"timeout", "eintr"} :
               TakeAck(a) \/ TakeDataAck(a) \/ TakeComplete(a)
    BY <1>3 DEF TakeAck, TakeDataAck, TakeComplete, ModeOf
  <1>4. CASE SwitchRate
    BY <1>0, <1>4 DEF SwitchRate, Modes, ModeOf
  <1>5. CASE Again \/ Setup \/ DataSent \/ ReceiveBlock \/ Finish
    BY <1>5 DEF Again, Setup, DataSent, ReceiveBlock, Finish, ModeOf
  <1>6. CASE Uart \/ Line \/ SignalArrives \/ UNCHANGED vars
    <2>1. UNCHANGED <<baud, pc, req, mode, cmd>>
      BY <1>6 DEF Uart, Transmit, Line, HearFrame, Acknowledge, Perform, Answer, SignalArrives
    <2> QED
      BY <2>1 DEF ModeOf
  <1> QED
    BY <1>1, <1>2, <1>3, <1>4, <1>5, <1>6 DEF Next, Run

\* When the drive answers a master that listens for the answer, the master
\* listens at the rate at which it comes, in every high speed mode, after any
\* number of attempts and whatever an earlier one has left the rate at
\* (driver/atarisio.c:2176-2339).
THEOREM RatesDoAgree == Spec => RatesAgree
  <1>1. Init => IInv /\ RateInv
    BY InvInit DEF Init, RateInv
  <1>2. IInv /\ RateInv /\ [Next]_vars => IInv' /\ RateInv'
    BY InvStep, RateStep
  <1>3. ASSUME IInv, RateInv, Acknowledge \/ Perform(calls), InStep
        PROVE  baud = RateNow
    <2>1. dev.state \in {"ack", "nak", "accept", "refuse", "bytes", "sum", "work"}
      BY <1>3 DEF Acknowledge, Perform, Answer
    <2>2. pc \in {"ack", "dataack", "complete", "block"} /\ dev.req = req
      BY <1>3, <2>1 DEF InStep, IInv, FrameInv, Same
    <2>3. dev.state \in {"ack", "nak"} <=> pc = "ack"
      BY <1>3, <2>1, <2>2 DEF InStep, IInv, AnswerInv, ResultInv, Agreed, RateInv, Over
    <2>4. mode \in Modes /\ mode = ModeOf(req)
      BY <1>3, <2>2 DEF IInv, TypeOK, RateInv
    <2>5. CASE pc = "ack"
      BY <1>3, <2>2, <2>3, <2>4, <2>5 DEF RateInv, RateNow, AckRate, ModeOf
    <2>6. CASE pc # "ack"
      <3>1. baud = IF mode = "normal" THEN "std" ELSE "hs"
        BY <1>3, <2>2, <2>6 DEF RateInv
      <3>2. RateNow = ReplyRate(req)
        BY <2>2, <2>3, <2>6 DEF RateNow
      <3>3. ReplyRate(req) = IF ModeOf(req) = "normal" THEN "std" ELSE "hs"
        BY <2>4 DEF ReplyRate, ModeOf, Modes
      <3> QED
        BY <2>4, <3>1, <3>2, <3>3
    <2> QED
      BY <2>5, <2>6
  <1>4. IInv /\ RateInv => [(Acknowledge \/ Perform(calls)) /\ InStep => baud = RateNow]_vars
    BY <1>3
  <1> QED
    BY <1>1, <1>2, <1>4, PTL DEF Spec, RatesAgree
=============================================================================
