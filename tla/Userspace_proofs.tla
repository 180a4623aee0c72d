-------------------------- MODULE Userspace_proofs --------------------------
(***************************************************************************)
(* Proofs about the master and the server that need no driver.             *)
(***************************************************************************)
EXTENDS UserMaster, UserServer, SequenceTheorems, TLAPS

-----------------------------------------------------------------------------
(***************************************************************************)
(* The master.  It implements the same SioTransaction as that of the       *)
(* driver, and releases COMMAND, for any requests, retries, faults and     *)
(* signals.                                                                *)
(*                                                                         *)
(* It differs from the driver's master in what may go wrong: a signal ends *)
(* tcdrain early, so that COMMAND may be released with the frame still in  *)
(* the queue; and the drive does not wait for this master, so that its     *)
(* last word may be there before the ACK was read.                         *)
(***************************************************************************)

-----------------------------------------------------------------------------
(* The inductive invariant.                                                *)

\* The states in which the drive has answered the command for good.
Over == {"idle", "bytes", "sum"}

Has(k) == \E i \in 1 .. Len(rx) : rx[i].kind = k

\* From the release of COMMAND to the result.
Waiting == {"release", "ack", "senddata", "dataack", "complete", "block"}

\* The drive's last word is a COMPLETE for this call.
Agreed == dev.state \in Over /\ done > 0 /\ answer = "complete"

\* The drive listens for as long as COMMAND is asserted.
LineInv ==
    /\ command => dev.state = "listen"
    /\ command <=> pc \in {"sendframe", "release"}

Same == dev.id = calls /\ dev.req = req

\* The drive hears this frame or none: it is in the queue until then, and stays
\* there for good if COMMAND is released too early.
FrameInv ==
    /\ pc \in {"sendframe", "release"} =>
         \/ tx = <<[kind |-> "frame", req |-> req, id |-> calls]>> /\ dev.heard = "nothing"
         \/ tx = <<>> /\ (dev.heard = "noise" \/ Same)
    /\ pc = "ack" /\ tx # <<>> =>
         dev.state = "idle" \/ (dev.state = "listen" /\ dev.heard # "frame")
    /\ pc \in Waiting =>
         \/ dev.state = "idle"
         \/ dev.state = "listen" /\ dev.heard # "frame"
         \/ Same

\* What the receive queue holds agrees with how far the drive has come: no ACK
\* is left over when COMPLETE is awaited, for which ExtSIO would take it.
AnswerInv ==
    /\ pc = "release" => rx = <<>>
    /\ pc = "ack" =>
         /\ dev.state \in {"listen", "ack", "nak"} => rx = <<>>
         /\ dev.state \notin {"accept", "refuse"}
         /\ rx # <<>> /\ rx[1].kind = "ack" =>
              IF Sending THEN Len(rx) = 1 /\ dev.state = "data"
                         ELSE dev.state \in {"work"} \cup Over
         /\ \A i \in 2 .. Len(rx) : rx[i].kind # "ack"
    /\ pc \in {"senddata", "dataack"} =>
         /\ dev.state \in {"data", "accept", "refuse", "work"} \cup Over
         /\ dev.state \in {"data", "accept", "refuse"} => rx = <<>>
         /\ \A i \in 2 .. Len(rx) : rx[i].kind # "ack"
    /\ pc = "complete" => dev.state \in {"work"} \cup Over /\ ~Has("ack")

WordInv ==
    pc \in Waiting \ {"block"} =>
      /\ Has("complete") => Agreed
      /\ Has("error")    => dev.state \in Over

ResultInv ==
    /\ pc \in {"again", "failed"} => ret \in Outcomes \ {"ok"}
    /\ pc = "block" => Agreed
    /\ pc = "leave" => ret \in Outcomes /\ (ret = "ok" => Agreed)

\* Everything the queue holds comes from this call.
DataInv ==
    /\ pc \in Waiting => \A i \in 1 .. Len(rx) : rx[i].kind # "noise" => rx[i].id = calls
    /\ pc = "leave" /\ ret = "ok" /\ Receiving => got = Char("data", calls)

IInv ==
    /\ TypeOK
    /\ LineInv /\ FrameInv /\ AnswerInv /\ WordInv /\ ResultInv /\ DataInv
-----------------------------------------------------------------------------
(* Type correctness.                                                       *)

LEMMA Constants ==
    /\ Wanted \subseteq Requests /\ MaxCalls \in Nat /\ MaxFaults \in Nat
    /\ CommandRetries \in Nat /\ CommandRetries > 0
    /\ SioRetries \in Nat /\ SioRetries > 0
    /\ NoRequest \in Requests
  BY UserMasterAssumption DEF NoRequest, Requests, Modes, Commands, Transfer

Drives == [state : DevStates, heard : {"nothing", "frame", "noise"},
           req : Wanted \cup {NoRequest}, id : 0 .. MaxCalls]

\* A queue with one item, and one with an item more.
LEMMA Queued ==
    ASSUME NEW S, NEW x \in S, NEW q \in Seq(S)
    PROVE  <<x>> \in Seq(S) /\ <<x>> # <<>> /\ Append(q, x) \in Seq(S)
  BY AppendProperties

\* What the queue holds when a character is taken from it.
LEMMA TakeType ==
    ASSUME rx \in Seq(Chars), NEW a, Take(a)
    PROVE  rx' \in Seq(Chars) /\ a \in Answers
  <1>1. CASE rx # <<>> /\ a = Head(rx).kind /\ rx' = Tail(rx)
    <2>1. Head(rx) \in Chars /\ Tail(rx) \in Seq(Chars)
      BY <1>1, HeadTailProperties
    <2> QED
      BY <1>1, <2>1 DEF Chars, Answers
  <1>2. CASE rx = <<>> /\ (a = "timeout" \/ (a = "unknown" /\ Interrupted)) /\ UNCHANGED rx
    BY <1>2 DEF Answers
  <1> QED
    BY <1>1, <1>2 DEF Take

LEMMA DataSentType ==
    ASSUME TypeOK, DataSent
    PROVE  TypeOK'
  <1>1. /\ pc = "senddata" /\ pc' \in {"dataack", "failed"}
        /\ ret' = ret \/ ret' \in {"timeout", "unknown"}
    BY DEF DataSent, Goto, Fail
  <1>2. UNCHANGED <<command, baud, tx, rx, dev, done, answer, calls, req, retry, tries, got>>
    BY DEF DataSent, Goto, Fail, wire
  <1>3. faults' \in 0 .. MaxFaults
    <2>1. faults \in 0 .. MaxFaults /\ (Fault \/ Sound)
      BY DEF TypeOK, DataSent
    <2> QED
      BY <2>1, Constants DEF Fault, Sound
  <1>4. ret \in Outcomes \cup {"none"} /\ ret' \in Outcomes \cup {"none"} /\ pc' \in PCs
    BY <1>1 DEF TypeOK, Outcomes, PCs
  <1>5. retry \in 0 .. CommandRetries - 1 /\ tries \in 0 .. SioRetries - 1
    BY <1>1 DEF TypeOK
  <1>6. retry \in 0 .. IF pc' = "failed" THEN CommandRetries ELSE CommandRetries - 1
    BY <1>5, Constants
  <1>7. tries \in 0 .. IF pc' = "leave" THEN SioRetries ELSE SioRetries - 1
    BY <1>1, <1>5
  <1> QED
    BY <1>2, <1>3, <1>4, <1>6, <1>7 DEF TypeOK

\* The steps of the process that read nothing.
LEMMA ProcessType ==
    ASSUME TypeOK, Call \/ Attempt \/ FrameSent \/ FrameFailed \/ Release \/ Again
                   \/ DataSent \/ RetrySio \/ Leave
    PROVE  TypeOK'
  <1> USE Constants DEF TypeOK, PCs, Outcomes, wire, drive, Goto, Fail
  <1>1. CASE Call
    BY <1>1 DEF Call, Requests, Modes, Noise, Char, Chars, CharKinds
  <1>2. CASE Attempt
    <2>1. [kind |-> "frame", req |-> req, id |-> calls] \in Sent
      BY DEF Sent
    <2>2. tx' \in Seq(Sent)
      BY <1>2, <2>1, Queued DEF Attempt
    <2> QED
      BY <1>2, <2>2 DEF Attempt, Listen, Listening, DevStates
  <1>3. CASE FrameSent
    BY <1>3 DEF FrameSent
  <1>4. CASE FrameFailed
    <2>1. command' \in BOOLEAN
      BY <1>4 DEF FrameFailed
    <2>2. /\ pc' = "again" /\ ret' \in Outcomes /\ pc = "sendframe"
          /\ UNCHANGED <<baud, tx, rx, dev, done, answer, got, calls, req, retry, tries>>
      BY <1>4 DEF FrameFailed
    <2>3. faults' \in 0 .. MaxFaults
      BY <1>4 DEF FrameFailed, Fault, Sound
    <2> QED
      BY <2>1, <2>2, <2>3
  <1>5. CASE Release
    <2>1. command' \in BOOLEAN
      BY <1>5 DEF Release
    <2> QED
      BY <1>5, <2>1 DEF Release
  <1>6. CASE Again
    BY <1>6 DEF Again
  <1>7. CASE DataSent
    BY <1>7, DataSentType DEF TypeOK
  <1>8. CASE RetrySio
    BY <1>8 DEF RetrySio
  <1>9. CASE Leave
    BY <1>9 DEF Leave
  <1> QED
    BY <1>1, <1>2, <1>3, <1>4, <1>5, <1>6, <1>7, <1>8, <1>9

LEMMA ReceiveType ==
    ASSUME TypeOK,
           \/ \E a \in Answers : TakeAck(a) \/ TakeDataAck(a) \/ TakeComplete(a)
           \/ ReceiveBlock
    PROVE  TypeOK'
  <1> USE Constants DEF PCs, Outcomes, drive, Goto, Fail
  <1>1. CASE \E a \in Answers : TakeAck(a) \/ TakeDataAck(a) \/ TakeComplete(a)
    <2>1. PICK a \in Answers : TakeAck(a) \/ TakeDataAck(a) \/ TakeComplete(a)
      BY <1>1
    <2>2. rx' \in Seq(Chars)
      BY <2>1, TakeType DEF TypeOK, TakeAck, TakeDataAck, TakeComplete
    <2>3. CASE TakeAck(a)
      <3>1. [kind |-> "block", req |-> req, id |-> calls] \in Sent
        BY DEF Sent, TypeOK
      <3>2. tx' \in Seq(Sent)
        BY <2>3, <3>1, Queued DEF TypeOK, TakeAck
      <3>3. /\ baud' \in {"std", "hs"}
            /\ UNCHANGED <<command, drive, got, calls, req, retry, tries>>
        BY <2>3 DEF TypeOK, TakeAck
      <3>4. /\ pc' \in {"senddata", "complete", "again"} /\ pc = "ack"
            /\ ret' \in {ret, "timeout", "nak", "unknown"}
        BY <2>3 DEF TakeAck
      <3> QED
        BY <2>2, <3>2, <3>3, <3>4 DEF TypeOK
    <2>4. CASE TakeDataAck(a)
      BY <2>2, <2>4 DEF TypeOK, TakeDataAck
    <2>5. CASE TakeComplete(a)
      BY <2>2, <2>5 DEF TypeOK, TakeComplete
    <2> QED
      BY <2>1, <2>3, <2>4, <2>5
  <1>2. CASE ReceiveBlock
    <2>1. rx' \in Seq(Chars) /\ got' \in Chars
      <3>1. ASSUME Len(rx) >= BlockLen
            PROVE  rx[1] \in Chars /\ SubSeq(rx, BlockLen + 1, Len(rx)) \in Seq(Chars)
        <4>1. \A i \in BlockLen + 1 .. Len(rx) : rx[i] \in Chars
          BY <3>1 DEF TypeOK, BlockLen
        <4>2. rx[1] \in Chars
          BY <3>1 DEF TypeOK, BlockLen
        <4>3. BlockLen + 1 \in Int /\ Len(rx) \in Int
          BY DEF TypeOK, BlockLen
        <4> QED
          BY <4>1, <4>2, <4>3, SubSeqProperties
      <3>2. <<>> \in Seq(Chars)
        OBVIOUS
      <3> QED
        BY <1>2, <3>1, <3>2 DEF ReceiveBlock, TypeOK
    <2>2. /\ pc = "block" /\ pc' \in {"leave", "failed"}
          /\ ret' \in {"ok", "data_nak", "timeout", "unknown"}
          /\ UNCHANGED <<command, baud, tx, drive, calls, req, retry, tries>>
      BY <1>2 DEF ReceiveBlock
    <2> QED
      BY <2>1, <2>2 DEF TypeOK
  <1> QED
    BY <1>1, <1>2

LEMMA TransmitType ==
    ASSUME TypeOK, Uart
    PROVE  TypeOK'
  <1>1. tx \in Seq(Sent) /\ tx # <<>> /\ tx' = Tail(tx)
    BY DEF TypeOK, Uart, Transmit
  <1>2. tx' \in Seq(Sent) /\ Head(tx) \in Sent
    BY <1>1, HeadTailProperties
  <1>3. dev \in Drives
    BY DEF TypeOK, Drives
  <1>4. dev' \in Drives
    <2>1. Listening("noise") \in Drives
      BY Constants DEF Listening, Drives, DevStates
    <2>2. [dev EXCEPT !.heard = "frame", !.req = Head(tx).req, !.id = Head(tx).id] \in Drives
      BY <1>2, <1>3 DEF Drives, Sent
    <2>3. \A to \in {"accept", "refuse"} : [dev EXCEPT !.state = to] \in Drives
      BY <1>3 DEF Drives, DevStates
    <2> QED
      BY <1>3, <2>1, <2>2, <2>3 DEF Uart, Transmit
  <1>5. faults' \in 0 .. MaxFaults
    BY Constants DEF Uart, Transmit, TypeOK, Sound, Fault
  <1>6. UNCHANGED <<command, baud, rx, done, answer, pc, calls, req, retry, tries, ret, got>>
    BY DEF Uart, Transmit
  <1> QED
    BY <1>2, <1>4, <1>5, <1>6 DEF TypeOK, Drives

\* What an answer of the drive leaves of its state and of the receive queue.
LEMMA AnswerType ==
    ASSUME TypeOK, NEW from \in DevStates, NEW k \in CharKinds, NEW rate,
           NEW to \in DevStates, Answer(from, k, rate, to)
    PROVE  /\ dev' \in Drives
           /\ rx' \in Seq(Chars)
           /\ faults' \in 0 .. MaxFaults
           /\ dev.state = from /\ dev'.state = to
           /\ to # "idle" => dev'.id = dev.id /\ dev'.req = dev.req
           /\ \/ rx' = rx
              \/ rx' = Append(rx, Noise)
              \/ rx' = Append(rx, Char(k, dev.id))
  <1>1. dev \in Drives /\ rx \in Seq(Chars) /\ faults \in 0 .. MaxFaults
    BY DEF TypeOK, Drives
  <1>2. Noise \in Chars /\ Char(k, dev.id) \in Chars
    BY <1>1, Constants DEF Noise, Char, Chars, CharKinds, Drives
  <1>3. \/ rx' = rx
        \/ rx' = Append(rx, Noise)
        \/ rx' = Append(rx, Char(k, dev.id))
    BY DEF Answer, Emit
  <1>4. rx' \in Seq(Chars)
    BY <1>1, <1>2, <1>3, Queued
  <1>5. faults' \in 0 .. MaxFaults
    BY <1>1, Constants DEF Answer, Emit, Sound, Fault
  <1>6. /\ Idle \in Drives /\ Idle.state = "idle"
        /\ [dev EXCEPT !.state = to] \in Drives
        /\ [dev EXCEPT !.state = to].state = to
        /\ [dev EXCEPT !.state = to].id = dev.id
        /\ [dev EXCEPT !.state = to].req = dev.req
    BY <1>1, Constants DEF Idle, Drives, DevStates
  <1>7. /\ dev.state = from
        /\ dev' = IF to = "idle" THEN Idle ELSE [dev EXCEPT !.state = to]
    BY DEF Answer
  <1> QED
    BY <1>3, <1>4, <1>5, <1>6, <1>7

\* The drive takes a frame up or not (SioPeripheral).
LEMMA HeardFrame ==
    ASSUME TypeOK, HearFrame
    PROVE  /\ dev' \in Drives
           /\ dev.state = "listen" /\ ~command
           /\ UNCHANGED <<command, baud, tx, rx, faults, done, answer>>
           /\ \/ dev'.state = "idle"
              \/ /\ dev.heard = "frame" /\ dev'.state \in {"ack", "nak"}
                 /\ dev'.id = dev.id /\ dev'.req = dev.req
  <1>1. dev \in Drives /\ Idle \in Drives /\ Idle.state = "idle"
    BY Constants DEF TypeOK, Drives, Idle, DevStates
  <1>2. \A to \in {"ack", "nak"} :
          LET d == [dev EXCEPT !.state = to, !.heard = "nothing"] IN
            d \in Drives /\ d.state = to /\ d.id = dev.id /\ d.req = dev.req
    BY <1>1 DEF Drives, DevStates
  <1>3. \/ dev' = Idle
        \/ dev.heard = "frame" /\ \E to \in {"ack", "nak"} :
             dev' = [dev EXCEPT !.state = to, !.heard = "nothing"]
    BY DEF HearFrame
  <1>4. /\ dev.state = "listen"
        /\ UNCHANGED <<command, baud, tx, rx, faults, done, answer>>
    BY DEF HearFrame
  <1>5. ~command
    BY DEF HearFrame
  <1> QED
    BY <1>1, <1>2, <1>3, <1>4, <1>5

LEMMA LineType ==
    ASSUME TypeOK, Line
    PROVE  TypeOK'
  <1>1. UNCHANGED <<command, baud, tx, pc, calls, req, retry, tries, ret, got>>
    BY DEF Line, HearFrame, Acknowledge, Perform, Answer
  <1>2. /\ dev' \in Drives /\ rx' \in Seq(Chars) /\ faults' \in 0 .. MaxFaults
        /\ done' \in Nat /\ answer' \in {"none", "complete", "error"}
    <2>1. CASE HearFrame
      BY <2>1, HeardFrame DEF TypeOK
    <2>2. CASE Acknowledge
      <3>1. UNCHANGED <<done, answer>>
        BY <2>2 DEF Acknowledge
      <3>2. PICK from \in DevStates, k \in CharKinds, rate \in {"std", "hs"}, to \in DevStates :
              Answer(from, k, rate, to)
        BY <2>2 DEF Acknowledge, AckRate, ReplyRate, DevStates, CharKinds
      <3> QED
        BY <3>1, <3>2, AnswerType DEF TypeOK
    <2>3. CASE Perform(calls)
      <3>1. done' \in Nat /\ answer' \in {"none", "complete", "error"}
        BY <2>3 DEF Perform, TypeOK
      <3>2. PICK k \in CharKinds, rate \in {"std", "hs"}, to \in DevStates :
              Answer("work", k, rate, to)
        BY <2>3 DEF Perform, ReplyRate, DevStates, CharKinds
      <3>3. "work" \in DevStates
        BY DEF DevStates
      <3> QED
        BY <3>1, <3>2, <3>3, AnswerType
    <2> QED
      BY <2>1, <2>2, <2>3 DEF Line
  <1> QED
    BY <1>1, <1>2 DEF TypeOK, Drives

LEMMA TypeInit == Init => TypeOK
  <1> SUFFICES ASSUME Init PROVE TypeOK
    OBVIOUS
  <1>1. Idle \in Drives /\ Noise \in Chars
    BY Constants DEF Idle, Drives, DevStates, Noise, Char, Chars, CharKinds
  <1>2. tx \in Seq(Sent) /\ rx \in Seq(Chars)
    BY DEF Init, DevInit
  <1>3. command \in BOOLEAN
    BY DEF Init, DevInit
  <1> QED
    BY <1>1, <1>2, <1>3, Constants DEF Init, DevInit, TypeOK, Drives, PCs, Outcomes

LEMMA TypeStep ==
    ASSUME TypeOK, [Next]_vars
    PROVE  TypeOK'
  <1>1. CASE UNCHANGED vars
    BY <1>1 DEF vars, wire, drive, TypeOK
  <1>2. CASE Next
    BY <1>2, ProcessType, ReceiveType, TransmitType, LineType DEF Next, Run
  <1> QED
    BY <1>1, <1>2

\* Every variable keeps its type and both retry counters stay below their
\* limits, for any requests, retries, faults and signals
\* (tools/UserspaceSIOWrapper.cpp: SendCommandFrame, InternalExtSIO).
THEOREM TypeCorrect == Spec => []TypeOK
  BY TypeInit, TypeStep, PTL DEF Spec

-----------------------------------------------------------------------------
(* The invariant is inductive.                                             *)

\* Where a character of the receive queue comes from, after an answer of the
\* drive and after one has been taken.
LEMMA Grown ==
    ASSUME TypeOK, NEW from \in DevStates, NEW k \in CharKinds, NEW rate,
           NEW to \in DevStates, Answer(from, k, rate, to)
    PROVE  /\ Len(rx) \in Nat /\ Len(rx') \in Nat
           /\ Len(rx') \in {Len(rx), Len(rx) + 1}
           /\ \A i \in 1 .. Len(rx') :
                \/ i \in 1 .. Len(rx) /\ rx'[i] = rx[i]
                \/ /\ i = Len(rx) + 1 /\ rx'[i].kind \in {k, "noise"}
                   /\ rx'[i].kind # "noise" => rx'[i].id = dev.id
  <1>1. /\ rx \in Seq(Chars) /\ rx' \in Seq(Chars)
        /\ rx' = rx \/ rx' = Append(rx, Noise) \/ rx' = Append(rx, Char(k, dev.id))
    BY AnswerType DEF TypeOK
  <1>2. /\ Noise \in Chars /\ Noise.kind = "noise"
        /\ Char(k, dev.id) \in Chars /\ Char(k, dev.id).kind = k
        /\ Char(k, dev.id).id = dev.id
    BY Constants DEF TypeOK, Noise, Char, Chars, CharKinds
  <1>3. \A x \in Chars :
          rx' = Append(rx, x) =>
            /\ Len(rx') = Len(rx) + 1
            /\ \A i \in 1 .. Len(rx) : rx'[i] = rx[i]
            /\ rx'[Len(rx) + 1] = x
    BY <1>1, AppendProperties
  <1> QED
    BY <1>1, <1>2, <1>3

LEMMA Taken ==
    ASSUME TypeOK, NEW a, Take(a)
    PROVE  \/ /\ a \in {"timeout", "unknown"} /\ rx' = rx
           \/ /\ Len(rx) \in Nat /\ Len(rx) > 0 /\ a = rx[1].kind
              /\ Len(rx') = Len(rx) - 1
              /\ \A i \in 1 .. Len(rx') :
                   i + 1 \in 2 .. Len(rx) /\ i + 1 \in 1 .. Len(rx) /\ rx'[i] = rx[i + 1]
  <1>1. rx \in Seq(Chars)
    BY DEF TypeOK
  <1>2. CASE rx # <<>> /\ a = Head(rx).kind /\ rx' = Tail(rx)
    <2>1. Len(rx) \in Nat /\ Len(rx) > 0 /\ Head(rx) = rx[1]
      BY <1>1, <1>2
    <2>2. /\ Len(rx') = Len(rx) - 1
          /\ \A i \in 1 .. Len(rx') : rx'[i] = rx[i + 1]
      BY <1>1, <1>2, HeadTailProperties
    <2>3. \A i \in 1 .. Len(rx') : i + 1 \in 2 .. Len(rx) /\ i + 1 \in 1 .. Len(rx)
      BY <2>1, <2>2
    <2> QED
      BY <1>2, <2>1, <2>2, <2>3
  <1>3. CASE a \in {"timeout", "unknown"} /\ UNCHANGED rx
    BY <1>3
  <1> QED
    BY <1>2, <1>3 DEF Take

LEMMA InvInit == Init => IInv
  <1> SUFFICES ASSUME Init PROVE IInv
    OBVIOUS
  <1>1. LineInv /\ FrameInv /\ AnswerInv /\ WordInv /\ ResultInv /\ DataInv
    BY DEF Init, DevInit, LineInv, FrameInv, AnswerInv, WordInv, ResultInv, DataInv, Idle,
           Waiting
  <1> QED
    BY <1>1, TypeInit DEF IInv

\* The steps of the process that read nothing.
LEMMA ProcessInv ==
    ASSUME IInv, Call \/ Attempt \/ FrameSent \/ FrameFailed \/ Release \/ Again
                 \/ DataSent \/ RetrySio \/ Leave
    PROVE  LineInv' /\ FrameInv' /\ AnswerInv' /\ WordInv' /\ ResultInv' /\ DataInv'
  <1> USE DEF IInv, LineInv, FrameInv, AnswerInv, WordInv, ResultInv, DataInv, Agreed, Same,
              Over, Has, Waiting, Sending, Receiving, Outcomes, wire, drive, Goto, Fail
  <1>1. CASE Call
    BY <1>1 DEF Call
  <1>2. CASE Attempt
    BY <1>2 DEF Attempt, Listen, Listening
  <1>3. CASE FrameSent
    BY <1>3 DEF FrameSent
  <1>4. CASE FrameFailed
    BY <1>4 DEF FrameFailed
  <1>5. CASE Release
    BY <1>5 DEF Release
  <1>6. CASE Again
    BY <1>6 DEF Again
  <1>7. CASE DataSent
    BY <1>7 DEF DataSent
  <1>8. CASE RetrySio
    BY <1>8 DEF RetrySio
  <1>9. CASE Leave
    BY <1>9 DEF Leave
  <1> QED
    BY <1>1, <1>2, <1>3, <1>4, <1>5, <1>6, <1>7, <1>8, <1>9

LEMMA ReceiveInv ==
    ASSUME IInv,
           \/ \E a \in Answers : TakeAck(a) \/ TakeDataAck(a) \/ TakeComplete(a)
           \/ ReceiveBlock
    PROVE  LineInv' /\ FrameInv' /\ AnswerInv' /\ WordInv' /\ ResultInv' /\ DataInv'
  <1> USE DEF IInv, LineInv, FrameInv, AnswerInv, WordInv, ResultInv, DataInv, Agreed, Same,
              Over, Has, Waiting, Sending, Receiving, Outcomes, wire, drive, Goto, Fail
  <1>1. CASE \E a \in Answers : TakeAck(a) \/ TakeDataAck(a) \/ TakeComplete(a)
    <2>1. PICK a \in Answers : TakeAck(a) \/ TakeDataAck(a) \/ TakeComplete(a)
      BY <1>1
    <2>2. rx \in Seq(Chars) /\ Take(a) /\ rx' \in Seq(Chars)
      BY <2>1, TakeType DEF TypeOK, TakeAck, TakeDataAck, TakeComplete
    <2>3. \/ /\ a \in {"timeout", "unknown"} /\ rx' = rx
          \/ /\ Len(rx) \in Nat /\ Len(rx) > 0 /\ a = rx[1].kind
             /\ Len(rx') = Len(rx) - 1
             /\ \A i \in 1 .. Len(rx') :
                  i + 1 \in 2 .. Len(rx) /\ i + 1 \in 1 .. Len(rx) /\ rx'[i] = rx[i + 1]
      BY <2>2, Taken
    <2>4. CASE TakeAck(a)
      BY <2>2, <2>3, <2>4 DEF TakeAck
    <2>5. CASE TakeDataAck(a)
      BY <2>2, <2>3, <2>5 DEF TakeDataAck
    <2>6. CASE TakeComplete(a)
      BY <2>2, <2>3, <2>6 DEF TakeComplete
    <2> QED
      BY <2>1, <2>4, <2>5, <2>6
  <1>2. CASE ReceiveBlock
    <2>1. /\ UNCHANGED <<command, tx, dev, done, answer, calls, req>>
          /\ pc = "block" /\ pc' \in {"leave", "failed"}
          /\ pc' = "failed" => ret' \in {"data_nak", "timeout", "unknown"}
          /\ pc' = "leave" => ret' = "ok"
      BY <1>2 DEF ReceiveBlock
    <2>2. ASSUME pc' = "leave"
          PROVE  got' = Char("data", calls)
      <3>1. Len(rx) >= BlockLen /\ got' = rx[1] /\ rx[1].kind = "data"
        BY <1>2, <2>2 DEF ReceiveBlock
      <3>2. 1 \in 1 .. Len(rx) /\ rx[1] \in Chars
        BY <3>1 DEF BlockLen, TypeOK
      <3>3. rx[1].id = calls
        BY <2>1, <3>1, <3>2
      <3> QED
        BY <3>1, <3>2, <3>3 DEF Chars, Char
    <2> QED
      BY <2>1, <2>2
  <1> QED
    BY <1>1, <1>2

LEMMA TransmitInv ==
    ASSUME IInv, Uart
    PROVE  LineInv' /\ FrameInv' /\ AnswerInv' /\ WordInv' /\ ResultInv' /\ DataInv'
  <1> USE DEF IInv, LineInv, FrameInv, AnswerInv, WordInv, ResultInv, DataInv, Agreed, Same,
              Over, Has, Waiting, Sending, Receiving
  <1>1. /\ UNCHANGED <<command, baud, rx, done, answer, pc, calls, req, ret, got>>
        /\ tx # <<>> /\ tx' = Tail(tx)
    BY DEF Uart, Transmit
  <1>2. dev \in Drives
    BY DEF TypeOK, Drives
  <1>3. \/ /\ command /\ dev.heard = "nothing" /\ dev'.heard = "frame"
           /\ dev'.state = dev.state /\ dev'.id = Head(tx).id /\ dev'.req = Head(tx).req
        \/ command /\ dev' = Listening("noise")
        \/ /\ dev.state = "data" /\ dev'.state \in {"accept", "refuse"}
           /\ dev'.heard = dev.heard /\ dev'.id = dev.id /\ dev'.req = dev.req
        \/ dev' = dev /\ ~command
    BY <1>2 DEF Uart, Transmit, Drives
  <1>4. CASE command
    <2>1. /\ pc \in {"sendframe", "release"}
          /\ tx = <<[kind |-> "frame", req |-> req, id |-> calls]>>
      BY <1>1, <1>4
    <2>2. tx' = <<>> /\ Head(tx).req = req /\ Head(tx).id = calls
      BY <1>1, <2>1
    <2>3. dev.state = "listen"
      BY <1>4
    <2>4. CASE dev' = Listening("noise")
      BY <1>1, <1>4, <2>1, <2>2, <2>4 DEF Listening
    <2>5. CASE dev'.state = dev.state /\ dev'.id = calls /\ dev'.req = req
      BY <1>1, <1>4, <2>1, <2>2, <2>3, <2>5
    <2> QED
      BY <1>3, <1>4, <2>2, <2>3, <2>4, <2>5
  <1>5. CASE ~command
    BY <1>1, <1>3, <1>5
  <1> QED
    BY <1>4, <1>5

LEMMA LineStep ==
    ASSUME IInv, Line
    PROVE  LineInv' /\ FrameInv' /\ AnswerInv' /\ WordInv' /\ ResultInv' /\ DataInv'
  <1> USE DEF IInv, LineInv, FrameInv, AnswerInv, WordInv, ResultInv, DataInv, Agreed, Same,
              Over, Has, Waiting, Sending, Receiving
  <1>1. UNCHANGED <<command, baud, tx, pc, calls, req, ret, got>>
    BY DEF Line, HearFrame, Acknowledge, Perform, Answer
  <1>2. CASE HearFrame
    BY <1>1, <1>2, HeardFrame
  <1>3. CASE Acknowledge
    <2>1. done' = done /\ answer' = answer
      BY <1>3 DEF Acknowledge
    <2>2. PICK from \in DevStates, k \in CharKinds, rate \in {"std", "hs"}, to \in DevStates :
            /\ Answer(from, k, rate, to)
            /\ \/ /\ from = "ack" /\ k = "ack"
                  /\ to = IF "send" \in dev.req.dir THEN "data" ELSE "work"
               \/ from \in {"nak", "refuse"} /\ k = "nak" /\ to = "idle"
               \/ from = "accept" /\ k = "ack" /\ to = "work"
               \/ from = "bytes" /\ k = "data" /\ to = "sum"
               \/ from = "sum" /\ k = "sum" /\ to = "idle"
      BY <1>3 DEF Acknowledge, AckRate, ReplyRate, DevStates, CharKinds
    <2>3. /\ Len(rx) \in Nat /\ Len(rx') \in Nat
          /\ Len(rx') \in {Len(rx), Len(rx) + 1}
          /\ \A i \in 1 .. Len(rx') :
               \/ i \in 1 .. Len(rx) /\ rx'[i] = rx[i]
               \/ /\ i = Len(rx) + 1 /\ rx'[i].kind \in {k, "noise"}
                  /\ rx'[i].kind # "noise" => rx'[i].id = dev.id
      BY <2>2, Grown
    <2>4. /\ dev.state = from /\ dev'.state = to
          /\ to # "idle" => dev'.id = dev.id /\ dev'.req = dev.req
      BY <2>2, AnswerType
    <2>5. rx \in Seq(Chars) /\ rx' \in Seq(Chars)
      BY <2>2, AnswerType DEF TypeOK
    <2>6. LineInv' /\ FrameInv' /\ ResultInv'
      BY <1>1, <2>1, <2>2, <2>4
    <2>7. WordInv' /\ DataInv'
      BY <1>1, <2>1, <2>2, <2>3, <2>4
    <2>8. AnswerInv'
      <3>1. (rx = <<>> => Len(rx) = 0) /\ (rx' # <<>> => Len(rx') > 0)
        BY <2>5
      <3>2. CASE pc = "ack"
        <4>1. dev'.state \in {"data", "work", "idle", "sum"} /\ from # "accept"
          BY <2>2, <2>4, <3>2
        <4>2. \A i \in 2 .. Len(rx') : rx'[i].kind # "ack"
          BY <2>2, <2>3, <2>4, <3>1, <3>2, <4>1
        <4>3. ASSUME rx' # <<>>, rx'[1].kind = "ack"
              PROVE  IF Sending THEN Len(rx') = 1 /\ to = "data" ELSE to \in {"work"} \cup Over
          <5>1. 1 \in 1 .. Len(rx')
            BY <2>3, <3>1, <4>3
          <5>2. CASE from = "ack"
            <6>1. rx = <<>> /\ dev.req = req
              BY <2>4, <3>2, <5>2
            <6> QED
              BY <2>2, <2>3, <3>1, <4>3, <5>1, <5>2, <6>1
          <5>3. CASE from # "ack"
            <6>1. k # "ack"
              BY <2>2, <4>1, <5>3
            <6>2. rx # <<>> /\ rx[1].kind = "ack"
              BY <2>3, <3>1, <4>3, <5>1, <6>1
            <6>3. ~Sending
              BY <2>2, <2>4, <3>2, <5>3, <6>2
            <6> QED
              BY <2>2, <5>3, <6>3
          <5> QED
            BY <5>2, <5>3
        <4> QED
          BY <1>1, <2>4, <3>2, <4>1, <4>2, <4>3
      <3>3. CASE pc \in {"senddata", "dataack"}
        BY <1>1, <2>2, <2>3, <2>4, <2>5, <3>1, <3>3
      <3>4. CASE pc \notin {"ack", "senddata", "dataack"}
        BY <1>1, <2>2, <2>3, <2>4, <2>5, <3>4
      <3> QED
        BY <3>2, <3>3, <3>4
    <2> QED
      BY <2>6, <2>7, <2>8
  <1>4. CASE Perform(calls)
    <2>1. PICK k \in {"complete", "error"}, rate \in {"std", "hs"}, to \in {"bytes", "idle"} :
            /\ Answer("work", k, rate, to)
            /\ IF dev.id = calls
               THEN answer' = k /\ done' = IF k = "complete" THEN done + 1 ELSE done
               ELSE UNCHANGED <<done, answer>>
      BY <1>4 DEF Perform, ReplyRate
    <2>2. "work" \in DevStates /\ k \in CharKinds /\ to \in DevStates /\ done \in Nat
      BY DEF DevStates, CharKinds, TypeOK
    <2>3. /\ Len(rx) \in Nat /\ Len(rx') \in Nat
          /\ Len(rx') \in {Len(rx), Len(rx) + 1}
          /\ \A i \in 1 .. Len(rx') :
               \/ i \in 1 .. Len(rx) /\ rx'[i] = rx[i]
               \/ /\ i = Len(rx) + 1 /\ rx'[i].kind \in {k, "noise"}
                  /\ rx'[i].kind # "noise" => rx'[i].id = dev.id
      BY <2>1, <2>2, Grown
    <2>4. /\ dev.state = "work" /\ dev'.state = to
          /\ to # "idle" => dev'.id = dev.id /\ dev'.req = dev.req
      BY <2>1, <2>2, AnswerType
    <2>5. rx \in Seq(Chars) /\ rx' \in Seq(Chars)
      BY <2>1, <2>2, AnswerType DEF TypeOK
    <2>6. LineInv' /\ FrameInv' /\ ResultInv'
      BY <1>1, <2>1, <2>2, <2>4
    <2>7. WordInv'
      <3> SUFFICES ASSUME pc \in Waiting \ {"block"}
                   PROVE  (Has("complete")' => Agreed') /\ (Has("error")' => dev'.state \in Over)
        BY <1>1
      <3>1. \A i \in 1 .. Len(rx) : rx[i].kind \notin {"complete", "error"}
        BY <2>4
      <3>2. dev.id = calls
        BY <2>4
      <3>3. \A i \in 1 .. Len(rx') : rx'[i].kind \in {"complete", "error"} => rx'[i].kind = k
        BY <2>3, <3>1
      <3>4. answer' = k /\ (k = "complete" => done' = done + 1)
        BY <2>1, <3>2
      <3> QED
        BY <2>1, <2>2, <2>4, <3>3, <3>4
    <2>8. AnswerInv'
      <3>1. rx' # <<>> => Len(rx') > 0
        BY <2>5
      <3>2. k # "ack" /\ dev'.state \in Over
        BY <2>1, <2>4
      <3>3. \A i \in 1 .. Len(rx') : rx'[i].kind = "ack" => i \in 1 .. Len(rx) /\ rx'[i] = rx[i]
        BY <2>3, <3>2
      <3>4. rx' # <<>> /\ rx'[1].kind = "ack" => rx # <<>> /\ rx[1].kind = "ack"
        BY <2>3, <2>5, <3>1, <3>3
      <3> QED
        BY <1>1, <2>3, <2>4, <3>2, <3>3, <3>4
    <2>9. DataInv'
      BY <1>1, <2>3, <2>4
    <2> QED
      BY <2>6, <2>7, <2>8, <2>9
  <1> QED
    BY <1>2, <1>3, <1>4 DEF Line

LEMMA InvStep ==
    ASSUME IInv, [Next]_vars
    PROVE  IInv'
  <1>1. TypeOK'
    BY TypeStep DEF IInv
  <1>2. CASE UNCHANGED vars
    BY <1>1, <1>2 DEF IInv, LineInv, FrameInv, AnswerInv, WordInv, ResultInv, DataInv, Agreed,
                Same, Over, Has, Waiting, Sending, Receiving, vars, wire, drive
  <1>3. CASE Next
    BY <1>1, <1>3, ProcessInv, ReceiveInv, TransmitInv, LineStep DEF Next, Run, IInv
  <1> QED
    BY <1>2, <1>3

-----------------------------------------------------------------------------
(* What the caller and the drive may rely on.                              *)

\* A step of ExtSIO begins or ends a transaction, lets the drive perform the
\* command, or is invisible to the caller.
LEMMA TransactionStep ==
    ASSUME IInv, [Next]_vars
    PROVE  [TX!Next]_(TX!vars)
  <1>1. CASE Call
    <2>1. TX!Begin
      BY <1>1 DEF Call, TX!Begin
    <2> QED
      BY <2>1 DEF TX!Next
  <1>2. CASE Leave
    <2>1. pc = "leave" /\ pc' = "user" /\ UNCHANGED <<ret, done, answer>>
      BY <1>2 DEF Leave, drive
    <2>2. ret \in Outcomes /\ ret # "device_error" /\ (ret = "ok" => done > 0 /\ answer = "complete")
      BY <2>1 DEF IInv, ResultInv, Agreed, Outcomes
    <2>3. TX!End
      BY <2>1, <2>2 DEF TX!End
    <2> QED
      BY <2>3 DEF TX!Next
  <1>3. CASE Line
    <2>1. UNCHANGED <<pc, ret>>
      BY <1>3 DEF Line
    <2>2. CASE HearFrame \/ Acknowledge
      BY <2>1, <2>2 DEF HearFrame, Acknowledge, TX!vars
    <2>3. CASE Perform(calls)
      <3>1. CASE dev.id = calls
        <4>1. TX!Perform
          BY <2>1, <2>3, <3>1 DEF Perform, TX!Perform
        <4> QED
          BY <4>1 DEF TX!Next
      <3>2. CASE dev.id # calls
        BY <2>1, <2>3, <3>2 DEF Perform, TX!vars
      <3> QED
        BY <3>1, <3>2
    <2> QED
      BY <1>3, <2>2, <2>3 DEF Line
  <1>4. CASE (Run /\ ~Leave) \/ Uart
    <2>1. UNCHANGED <<done, answer>>
      BY <1>4 DEF Run, Attempt, FrameSent, FrameFailed, Release, TakeAck, TakeDataAck,
         TakeComplete, Again, DataSent, ReceiveBlock, RetrySio, Uart, Transmit, drive
    <2>2. (pc # "user" /\ pc' # "user") \/ UNCHANGED <<pc, ret>>
      BY <1>4 DEF Run, Attempt, FrameSent, FrameFailed, Release, TakeAck, TakeDataAck,
         TakeComplete, Again, DataSent, ReceiveBlock, RetrySio, Uart, Goto, Fail
    <2> QED
      BY <2>1, <2>2 DEF TX!vars
  <1>5. CASE UNCHANGED vars
    BY <1>5 DEF vars, drive, TX!vars
  <1> QED
    BY <1>1, <1>2, <1>3, <1>4, <1>5 DEF Next

\* The result of ExtSIO can be trusted as much as that of the ioctl: 0 means
\* that the drive has performed this very command, although an ACK passes for a
\* COMPLETE and signals cut the transmissions short
\* (tools/UserspaceSIOWrapper.cpp: InternalExtSIO).
THEOREM WrapperImplementsTransaction == Spec => Transaction
  <1>1. Init => IInv /\ TX!Init
    BY InvInit DEF Init, DevInit, TX!Init
  <1>2. IInv /\ [Next]_vars => IInv'
    BY InvStep
  <1>3. IInv /\ [Next]_vars => [TX!Next]_(TX!vars)
    BY TransactionStep
  <1> QED
    BY <1>1, <1>2, <1>3, PTL DEF Spec, Transaction, TX!Spec

\* With the result 0 the caller's buffer holds what the drive sent for this
\* call (tools/UserspaceSIOWrapper.cpp: ReceiveDataFrame of the master).
THEOREM BufferIsOurs == Spec => DataIsOurs
  <1>1. Init => IInv
    BY InvInit
  <1>2. IInv /\ [Next]_vars => IInv'
    BY InvStep
  <1>3. ASSUME IInv, [Next]_vars, pc = "leave", pc' = "user", ret' = "ok", Receiving
        PROVE  got = Char("data", calls)
    <2>1. UNCHANGED ret
      BY <1>3 DEF Next, Call, Run, Attempt, FrameSent, FrameFailed, Release, TakeAck,
         TakeDataAck, TakeComplete, Again, DataSent, ReceiveBlock, RetrySio, Leave, Uart,
         Line, vars
    <2> QED
      BY <1>3, <2>1 DEF IInv, DataInv
  <1>4. IInv /\ [Next]_vars =>
          [pc = "leave" /\ pc' = "user" /\ ret' = "ok" /\ Receiving
             => got = Char("data", calls)]_vars
    BY <1>3
  <1> QED
    BY <1>1, <1>2, <1>4, PTL DEF Spec, DataIsOurs

\* COMMAND is asserted only while a frame is sent: no signal, deadline or error
\* of a system call leaves it asserted
\* (tools/UserspaceSIOWrapper.cpp: SendCommandFrame).
THEOREM LineIsReleased == Spec => []LineReleased
  <1>1. Init => IInv
    BY InvInit
  <1>2. IInv /\ [Next]_vars => IInv'
    BY InvStep
  <1>3. IInv => LineReleased
    BY DEF IInv, LineInv, LineReleased
  <1> QED
    BY <1>1, <1>2, <1>3, PTL DEF Spec

-----------------------------------------------------------------------------
(***************************************************************************)
(* The server.  Whatever the Atari sends and however late the wrapper      *)
(* looks, what it hands out is one whole command frame, and its buffer does *)
(* not overflow; and no reply to a frame that the Atari still waits for is *)
(* thrown away.                                                            *)
(***************************************************************************)

-----------------------------------------------------------------------------
(* The inductive invariant.                                                *)

\* What the loop looks at before it waits: a frame that is complete is not
\* added to.
Looked == where = "select" /\ cst = "receive" => Len(buf) < CmdRawLength

ServerInv == ServerTypeOK /\ HandedWhole /\ Looked

LEMMA Bounds ==
    /\ MaxFrames \in Nat /\ MaxFrames > 0
    /\ CmdRawLength \in Nat /\ CmdRawLength > 0
    /\ ReadLen \in Nat /\ ReadLen > 0 /\ DataLen \in Nat /\ DataLen > 0
    /\ CmdBufLength \in Nat /\ CmdRawLength - 1 + ReadLen <= CmdBufLength
    /\ 0 \in Tags /\ <<>> \in Seq(Tags) /\ Len(<<>>) = 0
  BY UserServerAssumption DEF Tags

\* A part of a sequence.
LEMMA PartOf ==
    ASSUME NEW S, NEW q \in Seq(S), NEW m \in Nat, NEW n \in Nat, m > 0, n <= Len(q)
    PROVE  /\ SubSeq(q, m, n) \in Seq(S)
           /\ Len(SubSeq(q, m, n)) = IF m <= n THEN n - m + 1 ELSE 0
  <1>1. \A i \in m .. n : q[i] \in S
    OBVIOUS
  <1> QED
    BY <1>1, SubSeqProperties

LEMMA ServerInvInit == ServerInit => ServerInv
  <1> SUFFICES ASSUME ServerInit PROVE ServerInv
    OBVIOUS
  <1>1. /\ line \in BOOLEAN /\ polled \in BOOLEAN /\ lastOK \in BOOLEAN /\ fresh \in BOOLEAN
        /\ prompt \in BOOLEAN /\ haveLine \in BOOLEAN /\ autobaud \in BOOLEAN
    BY DEF ServerInit
  <1>2. /\ inq \in Seq(Tags) /\ buf \in Seq(Tags) /\ sent \in Nat /\ frames \in 0 .. MaxFrames
        /\ arate \in Rates /\ cst \in States /\ timer \in {"running", "expired"}
        /\ srvBaud \in Rates /\ out \subseteq Tags
        /\ where \in {"user", "loop", "select"} /\ result \in Results /\ serving \in Tags
    BY Bounds DEF ServerInit, Rates, States, Results
  <1>3. HandedWhole /\ Looked
    BY Bounds DEF ServerInit, HandedWhole, Looked
  <1> QED
    BY <1>1, <1>2, <1>3 DEF ServerInv, ServerTypeOK

-----------------------------------------------------------------------------
(* The loop of WaitForCommandFrame.                                        *)

\* The Boolean variables.
LEMMA FlagsKept ==
    ASSUME ServerTypeOK, ServerNext
    PROVE  /\ line' \in BOOLEAN /\ polled' \in BOOLEAN /\ prompt' \in BOOLEAN
           /\ haveLine' \in BOOLEAN /\ lastOK' \in BOOLEAN /\ autobaud' \in BOOLEAN
           /\ fresh' \in BOOLEAN
  <1> USE DEF ServerTypeOK, atari, conf, fsm, process
  <1>1. CASE Loop
    <2>1. UNCHANGED <<line, conf>>
      BY <1>1 DEF Loop, HandleError, PollIdle, PollAssert, JudgeFrame, PollDeassert, ForgetFrame,
                  SelectReturns, WaitForCommandFrame
    <2>2. lastOK' \in BOOLEAN /\ fresh' \in BOOLEAN
      BY <1>1 DEF Loop, HandleError, PollIdle, PollAssert, JudgeFrame, PollDeassert, ForgetFrame,
                  SelectReturns, WaitForCommandFrame
    <2>3. polled' \in BOOLEAN
      BY <1>1 DEF Loop, HandleError, PollIdle, PollAssert, JudgeFrame, PollDeassert, ForgetFrame,
                  SelectReturns, WaitForCommandFrame
    <2> QED
      BY <2>1, <2>2, <2>3
  <1>2. CASE SelectFails
    BY <1>2 DEF SelectFails
  <1>3. CASE Handler
    BY <1>3 DEF Handler, GetCommandFrame, AckFrame, Reply, ReceiveDataFrame
  <1>4. CASE Environment
    <2>1. UNCHANGED <<conf, lastOK>>
      BY <1>4 DEF Environment, Assert, Deassert, SendChar, TimerExpires, FrameAges, Drain
    <2>2. line' \in BOOLEAN /\ polled' \in BOOLEAN /\ fresh' \in BOOLEAN
      BY <1>4 DEF Environment, Assert, Deassert, SendChar, TimerExpires, FrameAges, Drain
    <2> QED
      BY <2>1, <2>2
  <1> QED
    BY <1>1, <1>2, <1>3, <1>4 DEF ServerNext

\* The other variables and the rest of the invariant.
Rest ==
    /\ inq \in Seq(Tags) /\ sent \in Nat /\ frames \in 0 .. MaxFrames /\ arate \in Rates
    /\ cst \in States /\ buf \in Seq(Tags) /\ timer \in {"running", "expired"}
    /\ srvBaud \in Rates /\ out \subseteq Tags
    /\ where \in {"user", "loop", "select"} /\ result \in Results /\ serving \in Tags
    /\ HandedWhole /\ Looked

\* The states that do not read.
LEMMA PollRest ==
    ASSUME Rest, HandleError \/ PollIdle \/ PollAssert \/ JudgeFrame \/ PollDeassert
                 \/ ForgetFrame \/ WaitForCommandFrame \/ SelectFails
    PROVE  Rest'
  <1> USE Bounds DEF Rest, States, Rates, Results, HandedWhole, Looked, atari, conf, fsm,
                     PollAgain, Select, Return, SetIdle, SetReceive, SetDeassert, TrySwitchbaud
  <1>1. CASE HandleError
    <2>1. inq' \in {inq, <<>>} /\ out' \in {out, {}} /\ srvBaud' \in Rates
      BY <1>1 DEF HandleError
    <2>2. inq' \in Seq(Tags) /\ out' \subseteq Tags
      BY <2>1
    <2>3. /\ cst' = "idle" /\ buf' = <<>> /\ timer' \in {"running", "expired"}
          /\ where' = "loop" /\ UNCHANGED <<result, sent, frames, arate, serving>>
      BY <1>1 DEF HandleError
    <2> QED
      BY <2>1, <2>2, <2>3
  <1>2. CASE PollIdle
    BY <1>2 DEF PollIdle
  <1>3. CASE PollAssert
    <2>1. inq' \in {inq, <<>>} /\ buf' \in {buf, <<>>} /\ timer' \in {timer, "running"}
      BY <1>3 DEF PollAssert
    <2>2. inq' \in Seq(Tags) /\ buf' \in Seq(Tags) /\ timer' \in {"running", "expired"}
      BY <2>1
    <2>3. /\ \/ cst' = "receive" /\ buf' = <<>> /\ where' = "loop"
             \/ cst' = "assert" /\ buf' = buf /\ where' = "select"
          /\ UNCHANGED <<result, sent, frames, arate, srvBaud, out, serving>>
      BY <1>3 DEF PollAssert
    <2> QED
      BY <2>2, <2>3
  <1>4. CASE JudgeFrame
    BY <1>4 DEF JudgeFrame
  <1>5. CASE PollDeassert
    BY <1>5 DEF PollDeassert
  <1>6. CASE ForgetFrame
    BY <1>6 DEF ForgetFrame
  <1>7. CASE WaitForCommandFrame
    BY <1>7 DEF WaitForCommandFrame
  <1>8. CASE SelectFails
    BY <1>8 DEF SelectFails
  <1> QED
    BY <1>1, <1>2, <1>3, <1>4, <1>5, <1>6, <1>7, <1>8

\* A read adds at most ReadLen characters to less than a frame.
LEMMA ReadRest ==
    ASSUME Rest, SelectReturns
    PROVE  Rest'
  <1> USE Bounds DEF Rest, HandedWhole, Looked, atari, conf, PollAgain, Return
  <1>1. /\ where = "select" /\ where' \in {"loop", "user"}
        /\ result' \in Results
        /\ UNCHANGED <<sent, frames, arate, srvBaud, out, serving>>
    BY DEF SelectReturns, Results
  <1>2. CASE inq = <<>> /\ UNCHANGED <<inq, cst, buf, timer>>
    BY <1>1, <1>2
  <1>3. CASE ReadInput /\ cst = "receive"
    <2> DEFINE n == IF Len(inq) < ReadLen THEN Len(inq) ELSE ReadLen
    <2>0. /\ buf' = buf \o SubSeq(inq, 1, n)
          /\ inq' = SubSeq(inq, n + 1, Len(inq))
      BY <1>3 DEF ReadInput
    <2>1. n \in Nat /\ n <= Len(inq) /\ n <= ReadLen
      OBVIOUS
    <2> HIDE DEF n
    <2>2. /\ SubSeq(inq, 1, n) \in Seq(Tags) /\ Len(SubSeq(inq, 1, n)) = n
          /\ SubSeq(inq, n + 1, Len(inq)) \in Seq(Tags)
      BY <2>1, PartOf
    <2>3. buf' \in Seq(Tags) /\ Len(buf') = Len(buf) + n /\ inq' \in Seq(Tags)
      BY <2>0, <2>2, ConcatProperties
    <2>4. cst' = "receive" /\ timer' = timer
      BY <1>3 DEF ReadInput
    <2>5. Len(buf) < CmdRawLength /\ Len(buf) \in Nat
      BY <1>1, <1>3
    <2>6. Len(buf') <= CmdBufLength
      BY <2>1, <2>3, <2>5
    <2> QED
      BY <1>1, <2>3, <2>4, <2>6 DEF States
  <1>4. CASE ReadInput /\ cst # "receive"
    <2>1. inq' \in {inq, <<>>} /\ buf' \in {buf, <<>>} /\ timer' \in {timer, "running"}
      BY <1>4 DEF ReadInput, SetReceive
    <2>2. inq' \in Seq(Tags) /\ buf' \in Seq(Tags) /\ timer' \in {"running", "expired"}
      BY <2>1
    <2>3. cst' \in {"idle", "assert", "receive", "hard"}
      BY <1>4 DEF ReadInput, SetReceive
    <2>4. Len(buf') <= CmdBufLength
      BY <2>1
    <2> QED
      BY <1>1, <2>2, <2>3, <2>4 DEF States
  <1> QED
    BY <1>2, <1>3, <1>4 DEF SelectReturns

-----------------------------------------------------------------------------
(* The handler and the Atari.                                              *)

LEMMA HandlerRest ==
    ASSUME Rest, Handler
    PROVE  Rest'
  <1> USE Bounds DEF Rest, HandedWhole, Looked, atari, conf, fsm
  <1>1. CASE GetCommandFrame
    <2>1. CASE cst = "ok"
      <3>1. 1 \in 1 .. Len(buf)
        BY <2>1
      <3>2. buf[1] \in Tags
        BY <3>1
      <3>3. /\ serving' = buf[1] /\ cst' = "assert" /\ buf' = <<>> /\ result' = "fetched"
            /\ UNCHANGED <<inq, sent, frames, arate, timer, srvBaud, out, where>>
        BY <1>1, <2>1 DEF GetCommandFrame
      <3> QED
        BY <3>2, <3>3 DEF States, Results
    <2>2. CASE cst # "ok"
      BY <1>1, <2>2 DEF GetCommandFrame, Results
    <2> QED
      BY <2>1, <2>2
  <1>2. CASE AckFrame
    <2>1. /\ out' \subseteq Tags /\ result' \in {"acked", "naked", "late"}
          /\ UNCHANGED <<inq, sent, frames, arate, cst, buf, timer, srvBaud, where, serving>>
      BY <1>2 DEF AckFrame
    <2> QED
      BY <2>1 DEF Results
  <1>3. CASE Reply
    <2>1. /\ out' \subseteq Tags /\ result' = "replied"
          /\ UNCHANGED <<inq, sent, frames, arate, cst, buf, timer, srvBaud, where, serving>>
      BY <1>3 DEF Reply
    <2> QED
      BY <2>1 DEF Results
  <1>4. CASE ReceiveDataFrame
    <2>1. /\ out' \subseteq Tags /\ result' \in {"data", "checksum", "short"}
          /\ UNCHANGED <<sent, frames, arate, cst, buf, timer, srvBaud, where, serving>>
      BY <1>4 DEF ReceiveDataFrame
    <2>2. inq' \in Seq(Tags)
      <3>1. ASSUME Len(inq) >= DataLen
            PROVE  SubSeq(inq, DataLen + 1, Len(inq)) \in Seq(Tags)
        <4>1. DataLen + 1 \in Nat /\ Len(inq) \in Nat
          OBVIOUS
        <4> QED
          BY <4>1, PartOf
      <3>2. \/ Len(inq) >= DataLen /\ inq' = SubSeq(inq, DataLen + 1, Len(inq))
            \/ inq' = <<>>
        BY <1>4 DEF ReceiveDataFrame
      <3> QED
        BY <3>1, <3>2
    <2> QED
      BY <2>1, <2>2 DEF Results
  <1> QED
    BY <1>1, <1>2, <1>3, <1>4 DEF Handler

LEMMA EnvironmentRest ==
    ASSUME Rest, Environment
    PROVE  Rest'
  <1> USE Bounds DEF Rest, HandedWhole, Looked, atari, conf, process
  <1>1. UNCHANGED <<arate, cst, buf, srvBaud, where, result, serving>>
    BY DEF Environment, Assert, Deassert, SendChar, TimerExpires, FrameAges, Drain
  <1>2. sent' \in Nat /\ frames' \in 0 .. MaxFrames
    BY DEF Environment, Assert, Deassert, SendChar, TimerExpires, FrameAges, Drain
  <1>3. timer' \in {"running", "expired"} /\ out' \subseteq Tags
    BY DEF Environment, Assert, Deassert, SendChar, TimerExpires, FrameAges, Drain
  <1>4. inq' \in Seq(Tags)
    <2>1. CASE SendChar
      <3>1. PICK h \in Heard : inq' = inq \o h
        BY <2>1 DEF SendChar
      <3>2. /\ frames \in Tags /\ -frames \in Tags
        BY DEF Tags
      <3>3. h \in Seq(Tags)
        <4>1. \/ h = <<frames>> \/ h = <<-frames>>
              \/ h = <<0>> \/ h = <<0, 0>> \/ h = <<>>
          BY <3>1, Zenon DEF Heard
        <4>2. \A x, y \in Tags : <<x>> \in Seq(Tags) /\ <<x, y>> \in Seq(Tags)
          OBVIOUS
        <4> QED
          BY <3>2, <4>1, <4>2
      <3> QED
        BY <3>1, <3>3, ConcatProperties
    <2>2. CASE UNCHANGED inq
      BY <2>2
    <2> QED
      BY <2>1, <2>2 DEF Environment, Assert, Deassert, TimerExpires, FrameAges, Drain
  <1> QED
    BY <1>1, <1>2, <1>3, <1>4

LEMMA ServerInvStep ==
    ASSUME ServerInv, [ServerNext]_servervars
    PROVE  ServerInv'
  <1>1. CASE UNCHANGED servervars
    BY <1>1 DEF servervars, atari, conf, fsm, ServerInv, ServerTypeOK, HandedWhole, Looked
  <1>2. CASE ServerNext
    <2>1. Rest
      BY DEF ServerInv, ServerTypeOK, Rest
    <2>2. Rest'
      BY <1>2, <2>1, PollRest, ReadRest, HandlerRest, EnvironmentRest DEF ServerNext, Loop
    <2>3. /\ line' \in BOOLEAN /\ polled' \in BOOLEAN /\ prompt' \in BOOLEAN
          /\ haveLine' \in BOOLEAN /\ lastOK' \in BOOLEAN /\ autobaud' \in BOOLEAN
          /\ fresh' \in BOOLEAN
      BY <1>2, FlagsKept DEF ServerInv
    <2> QED
      BY <2>2, <2>3 DEF ServerInv, ServerTypeOK, Rest
  <1> QED
    BY <1>1, <1>2

-----------------------------------------------------------------------------
(* What the handlers may rely on.                                          *)

\* A frame that is handed out is one command frame with its checksum, all of it
\* and nothing else, and what piles up between two looks at the line never
\* exceeds fCmdBuf: for any number of frames and characters of the Atari, with
\* a COMMAND line or without
\* (tools/UserspaceSIOWrapper.cpp: WaitForCommandFrame).
THEOREM FramesAreWhole == ServerSpec => []HandedWhole
  <1>1. ServerInv => HandedWhole
    BY DEF ServerInv
  <1> QED
    BY <1>1, ServerInvInit, ServerInvStep, PTL DEF ServerSpec

-----------------------------------------------------------------------------
(* Replies are thrown away only when the Atari has moved on.               *)

\* The queues hold what was said of frames before the last one: true of the
\* Atari that is not prompt whenever the line is asserted.
Old == \A f \in out \cup {serving} : f < frames

\* select is called in the states that wait for something.
SelectInv == where = "select" => cst \in {"idle", "assert", "receive", "deassert"}

\* Nothing is known of a frame that was not sent; a reply belongs to a frame.
KnownInv ==
    /\ \A i \in 1 .. Len(inq) : inq[i] <= frames
    /\ \A i \in 1 .. Len(buf) : buf[i] <= frames
    /\ \A f \in out \cup {serving} : f <= frames
    /\ line => frames > 0
    /\ prompt => frames <= 1
    /\ (result \in {"fetched", "acked", "data"} \/ out # {}) => serving # 0

\* The Atari that is not prompt: the wrapper is behind the COMMAND line only in
\* a frame that is later than its replies.
MovingInv ==
    ~prompt =>
        /\ line \/ cst \in {"receive", "deassert", "soft"} => Old
        /\ cst = "hard" => Old \/ result = "error"
        /\ cst = "ok" /\ line => buf[1] < frames

\* The Atari that is prompt repeats its frame: once it was heard it is never
\* misunderstood, so that there is no error to recover from.  In each state of
\* the reception, the part of the frame that has been sent, and where it is.
AssertPart ==
    cst = "assert" /\ line => inq = <<>> /\ sent = 0 /\ ~(where = "select" /\ polled)
HeardPart ==
    cst = "receive" /\ srvBaud = arate =>
        /\ line /\ timer = "running" /\ Len(buf) + Len(inq) = sent /\ sent <= CmdRawLength
        /\ \A i \in 1 .. Len(inq) : inq[i] = frames
        /\ \A i \in 1 .. Len(buf) : buf[i] = frames
GarbledPart ==
    cst = "receive" /\ srvBaud # arate =>
        /\ \A i \in 1 .. Len(inq) : inq[i] = 0
        /\ \A i \in 1 .. Len(buf) : buf[i] = 0
WholePart ==
    /\ cst = "deassert" => srvBaud = arate /\ inq = <<>> /\ (line => sent = CmdRawLength)
    /\ cst = "ok" => ~line /\ inq = <<>> /\ srvBaud = arate
    /\ where = "user" => cst \in {"idle", "assert", "ok"}
ServedPart == serving # 0 => srvBaud = arate /\ cst \notin {"soft", "hard"}

PromptInv == prompt => AssertPart /\ HeardPart /\ GarbledPart /\ WholePart /\ ServedPart

\* With a COMMAND line.
RepliesInv == SelectInv /\ (haveLine => KnownInv /\ MovingInv /\ PromptInv)

LEMMA RepliesInvInit == ServerInit => RepliesInv
  <1> SUFFICES ASSUME ServerInit PROVE RepliesInv
    OBVIOUS
  <1>1. KnownInv
    BY DEF ServerInit, KnownInv
  <1>2. MovingInv /\ PromptInv /\ SelectInv
    BY DEF ServerInit, MovingInv, PromptInv, AssertPart, HeardPart, GarbledPart, WholePart,
           ServedPart, SelectInv
  <1> QED
    BY <1>1, <1>2 DEF RepliesInv

\* The kind of the environment and of the cable does not change.
LEMMA ConfKept ==
    ASSUME ServerNext
    PROVE  UNCHANGED conf
  <1> USE DEF conf, fsm, process
  <1>1. CASE Loop
    BY <1>1 DEF Loop, HandleError, PollIdle, PollAssert, JudgeFrame, PollDeassert, ForgetFrame,
                SelectReturns, WaitForCommandFrame
  <1>2. CASE SelectFails
    BY <1>2 DEF SelectFails
  <1>3. CASE Handler
    BY <1>3 DEF Handler, GetCommandFrame, AckFrame, Reply, ReceiveDataFrame
  <1>4. CASE Environment
    BY <1>4 DEF Environment, Assert, Deassert, SendChar, TimerExpires, FrameAges, Drain
  <1> QED
    BY <1>1, <1>2, <1>3, <1>4 DEF ServerNext

LEMMA SelectStep ==
    ASSUME ServerTypeOK, SelectInv, ServerNext
    PROVE  SelectInv'
  <1> USE DEF SelectInv, atari, conf, fsm, process, PollAgain, Select, Return
  <1>1. CASE Loop
    <2>1. CASE SelectReturns
      BY <2>1 DEF SelectReturns
    <2>2. CASE JudgeFrame
      BY <2>2 DEF JudgeFrame, SetDeassert
    <2>3. CASE HandleError \/ ForgetFrame \/ WaitForCommandFrame
      BY <2>3 DEF HandleError, ForgetFrame, WaitForCommandFrame
    <2>4. CASE PollIdle
      BY <2>4 DEF PollIdle
    <2>5. CASE PollAssert
      BY <2>5 DEF PollAssert, SetReceive
    <2>6. CASE PollDeassert
      BY <2>6 DEF PollDeassert
    <2> QED
      BY <1>1, <2>1, <2>2, <2>3, <2>4, <2>5, <2>6 DEF Loop
  <1>2. CASE SelectFails
    BY <1>2 DEF SelectFails
  <1>3. CASE Handler
    BY <1>3 DEF Handler, GetCommandFrame, AckFrame, Reply, ReceiveDataFrame
  <1>4. CASE Environment
    BY <1>4 DEF Environment, Assert, Deassert, SendChar, TimerExpires, FrameAges, Drain
  <1> QED
    BY <1>1, <1>2, <1>3, <1>4 DEF ServerNext

\* What a read moves from the kernel's queue to the buffer.
LEMMA Moved ==
    ASSUME NEW q \in Seq(Tags), NEW b \in Seq(Tags),
           NEW n \in Nat, n = IF Len(q) < ReadLen THEN Len(q) ELSE ReadLen
    PROVE  LET c == b \o SubSeq(q, 1, n)
               r == SubSeq(q, n + 1, Len(q))
           IN  /\ Len(c) = Len(b) + n /\ Len(r) = Len(q) - n
               /\ \A i \in 1 .. Len(c) : \/ i \in 1 .. Len(b) /\ c[i] = b[i]
                                         \/ i - Len(b) \in 1 .. Len(q) /\ c[i] = q[i - Len(b)]
               /\ \A i \in 1 .. Len(r) : i + n \in 1 .. Len(q) /\ r[i] = q[i + n]
  <1>0. n <= Len(q) /\ Len(q) \in Nat /\ Len(b) \in Nat /\ 1 \in Nat /\ n + 1 \in Nat
    BY Bounds
  <1> DEFINE h == SubSeq(q, 1, n)
             r == SubSeq(q, n + 1, Len(q))
  <1>1. \A i \in 1 .. Len(q) : q[i] \in Tags
    OBVIOUS
  <1>2. h \in Seq(Tags) /\ Len(h) = n /\ \A i \in 1 .. n : h[i] = q[1 + i - 1]
    <2>1. \A i \in 1 .. n : q[i] \in Tags
      BY <1>0, <1>1
    <2> QED
      BY <1>0, <2>1, SubSeqProperties
  <1>3. /\ r \in Seq(Tags) /\ Len(r) = Len(q) - n
        /\ \A i \in 1 .. Len(r) : r[i] = q[n + 1 + i - 1]
    <2>1. \A i \in n + 1 .. Len(q) : q[i] \in Tags
      BY <1>0, <1>1
    <2>2. /\ r \in Seq(Tags)
          /\ Len(r) = IF n + 1 <= Len(q) THEN Len(q) - (n + 1) + 1 ELSE 0
          /\ \A i \in 1 .. (Len(q) - (n + 1) + 1) : r[i] = q[n + 1 + i - 1]
      <3>1. n + 1 \in Int /\ Len(q) \in Int
        BY <1>0
      <3>2. PICK k, l : k = n + 1 /\ l = Len(q)
        OBVIOUS
      <3>3. \A i \in k .. l : q[i] \in Tags
        BY <2>1, <3>2
      <3>4. /\ SubSeq(q, k, l) \in Seq(Tags)
            /\ Len(SubSeq(q, k, l)) = IF k <= l THEN l - k + 1 ELSE 0
            /\ \A i \in 1 .. l - k + 1 : SubSeq(q, k, l)[i] = q[k + i - 1]
        <4>1. q \in Seq(Tags) /\ k \in Int /\ l \in Int /\ k \in 1 .. l + 1 /\ l \in k - 1 .. Len(q)
          BY <1>0, <3>1, <3>2
        <4> QED
          BY <3>3, <4>1, SubSeqProperties
      <3> QED
        BY <3>2, <3>4
    <2> QED
      BY <1>0, <2>2
  <1>4. /\ Len(b \o h) = Len(b) + n
        /\ \A i \in 1 .. Len(b) + n :
             (b \o h)[i] = IF i <= Len(b) THEN b[i] ELSE h[i - Len(b)]
    BY <1>2, ConcatProperties
  <1> HIDE DEF h, r
  <1>5. \A i \in 1 .. Len(b \o h) : \/ i \in 1 .. Len(b) /\ (b \o h)[i] = b[i]
                                    \/ i - Len(b) \in 1 .. Len(q) /\ (b \o h)[i] = q[i - Len(b)]
    BY <1>0, <1>2, <1>4
  <1>6. ASSUME NEW i \in 1 .. Len(r) PROVE i + n \in 1 .. Len(q) /\ r[i] = q[i + n]
    <2>1. r[i] = q[n + 1 + i - 1] /\ i \in 1 .. Len(q) - n
      BY <1>3
    <2>2. n + 1 + i - 1 = i + n /\ i + n \in 1 .. Len(q)
      BY <1>0, <2>1
    <2> QED
      BY <2>1, <2>2
  <1> QED
    BY <1>3, <1>4, <1>5, <1>6 DEF h, r

\* A read, whatever the state: the buffer and the queue hold what they held.
LEMMA ReadHolds ==
    ASSUME ServerInv, ReadInput, NEW x \in Tags
    PROVE  /\ (/\ \A i \in 1 .. Len(inq) : inq[i] <= x
               /\ \A i \in 1 .. Len(buf) : buf[i] <= x)
                => /\ \A i \in 1 .. Len(inq') : inq'[i] <= x
                   /\ \A i \in 1 .. Len(buf') : buf'[i] <= x
           /\ (/\ cst = "receive"
               /\ \A i \in 1 .. Len(inq) : inq[i] = x
               /\ \A i \in 1 .. Len(buf) : buf[i] = x)
                => /\ \A i \in 1 .. Len(inq') : inq'[i] = x
                   /\ \A i \in 1 .. Len(buf') : buf'[i] = x
                   /\ Len(buf') + Len(inq') = Len(buf) + Len(inq)
  <1>0. /\ inq \in Seq(Tags) /\ buf \in Seq(Tags)
        /\ \A i \in 1 .. Len(inq) : inq[i] \in Int
        /\ \A i \in 1 .. Len(buf) : buf[i] \in Int
        /\ x \in Int /\ Len(inq) \in Nat /\ Len(buf) \in Nat
    BY Bounds DEF ServerInv, ServerTypeOK, Tags
  <1>1. CASE cst = "receive"
    <2> DEFINE n == IF Len(inq) < ReadLen THEN Len(inq) ELSE ReadLen
    <2>0. n = IF Len(inq) < ReadLen THEN Len(inq) ELSE ReadLen
      OBVIOUS
    <2>1. n \in Nat
      BY <1>0, Bounds
    <2>2. buf' = buf \o SubSeq(inq, 1, n) /\ inq' = SubSeq(inq, n + 1, Len(inq))
      BY <1>1 DEF ReadInput
    <2> HIDE DEF n
    <2> DEFINE c == buf \o SubSeq(inq, 1, n)
               r == SubSeq(inq, n + 1, Len(inq))
    <2>a. /\ Len(c) = Len(buf) + n /\ Len(r) = Len(inq) - n
          /\ \A i \in 1 .. Len(c) : \/ i \in 1 .. Len(buf) /\ c[i] = buf[i]
                                    \/ i - Len(buf) \in 1 .. Len(inq) /\ c[i] = inq[i - Len(buf)]
          /\ \A i \in 1 .. Len(r) : i + n \in 1 .. Len(inq) /\ r[i] = inq[i + n]
      BY <1>0, <2>0, <2>1, Moved, Zenon
    <2>b. buf' = c /\ inq' = r
      BY <2>2
    <2> HIDE DEF c, r
    <2>3. /\ Len(buf') = Len(buf) + n /\ Len(inq') = Len(inq) - n
          /\ \A i \in 1 .. Len(buf') : \/ i \in 1 .. Len(buf) /\ buf'[i] = buf[i]
                                       \/ i - Len(buf) \in 1 .. Len(inq) /\ buf'[i] = inq[i - Len(buf)]
          /\ \A i \in 1 .. Len(inq') : i + n \in 1 .. Len(inq) /\ inq'[i] = inq[i + n]
      BY <2>a, <2>b, Zenon
    <2>4. ASSUME \A i \in 1 .. Len(inq) : inq[i] <= x, \A i \in 1 .. Len(buf) : buf[i] <= x
          PROVE  /\ \A i \in 1 .. Len(inq') : inq'[i] <= x
                 /\ \A i \in 1 .. Len(buf') : buf'[i] <= x
      BY <2>3, <2>4, Zenon
    <2>5. ASSUME \A i \in 1 .. Len(inq) : inq[i] = x, \A i \in 1 .. Len(buf) : buf[i] = x
          PROVE  /\ \A i \in 1 .. Len(inq') : inq'[i] = x
                 /\ \A i \in 1 .. Len(buf') : buf'[i] = x
      BY <2>3, <2>5, Zenon
    <2>6. Len(buf') + Len(inq') = Len(buf) + Len(inq)
      BY <1>0, <2>1, <2>3
    <2> QED
      BY <2>4, <2>5, <2>6
  <1>2. CASE cst # "receive"
    <2>1. inq' \in {inq, <<>>} /\ buf' \in {buf, <<>>}
      BY <1>2 DEF ReadInput, SetReceive
    <2> QED
      BY <1>0, <1>2, <2>1
  <1> QED
    BY <1>1, <1>2

\* What a character of the Atari adds to the queue: nothing, or characters of
\* this frame, or garbled ones.
LEMMA HeardHolds ==
    ASSUME ServerInv, SendChar
    PROVE  /\ \A i \in 1 .. Len(inq') : \/ i \in 1 .. Len(inq) /\ inq'[i] = inq[i]
                                        \/ inq'[i] \in {0, frames, -frames}
           /\ srvBaud = arate /\ line =>
                Len(inq') = Len(inq) + 1 /\ inq'[Len(inq) + 1] = frames
           /\ srvBaud # arate =>
                \A i \in 1 .. Len(inq') : \/ i \in 1 .. Len(inq) /\ inq'[i] = inq[i]
                                          \/ inq'[i] = 0
           /\ \A i \in 1 .. Len(inq) : inq'[i] = inq[i]
  <1>0. inq \in Seq(Tags) /\ Len(inq) \in Nat /\ frames \in Nat
    BY Bounds DEF ServerInv, ServerTypeOK
  <1>1. PICK h \in Heard : inq' = inq \o h
    BY DEF SendChar
  <1>2. /\ srvBaud = arate => h = <<IF line THEN frames ELSE -frames>>
        /\ srvBaud # arate => h = <<0>> \/ h = <<0, 0>> \/ h = <<>>
    BY <1>1, Zenon DEF Heard
  <1>3. h \in Seq(Tags) /\ \A j \in 1 .. Len(h) : h[j] \in {0, frames, -frames}
    <2>1. \/ h = <<frames>> \/ h = <<-frames>>
          \/ h = <<0>> \/ h = <<0, 0>> \/ h = <<>>
      BY <1>2
    <2>2. \A x, y \in Tags : <<x>> \in Seq(Tags) /\ <<x, y>> \in Seq(Tags)
      OBVIOUS
    <2>3. frames \in Tags /\ -frames \in Tags /\ 0 \in Tags
      BY Bounds DEF ServerInv, ServerTypeOK, Tags
    <2>4. h \in Seq(Tags)
      BY <2>1, <2>2, <2>3, Bounds
    <2>5. h = <<0, 0>> => \A j \in 1 .. Len(h) : h[j] \in {0, frames, -frames}
      OBVIOUS
    <2>6. h # <<0, 0>> => \A j \in 1 .. Len(h) : h[j] \in {0, frames, -frames}
      BY <2>1
    <2> QED
      BY <2>4, <2>5, <2>6
  <1>4. /\ Len(inq') = Len(inq) + Len(h) /\ Len(h) \in Nat
        /\ \A i \in 1 .. Len(inq) + Len(h) :
             inq'[i] = IF i <= Len(inq) THEN inq[i] ELSE h[i - Len(inq)]
    BY <1>0, <1>1, <1>3, ConcatProperties
  <1>5. \A i \in 1 .. Len(inq') : \/ i \in 1 .. Len(inq)
                                  \/ i - Len(inq) \in 1 .. Len(h)
    BY <1>0, <1>4
  <1>7. \A i \in 1 .. Len(inq') : \/ i \in 1 .. Len(inq) /\ inq'[i] = inq[i]
                                  \/ i - Len(inq) \in 1 .. Len(h) /\ inq'[i] = h[i - Len(inq)]
    BY <1>0, <1>4, <1>5
  <1>8. srvBaud # arate => \A j \in 1 .. Len(h) : h[j] = 0
    BY <1>2
  <1>9. srvBaud = arate /\ line => Len(h) = 1 /\ h[1] = frames
    BY <1>2
  <1>10. srvBaud = arate /\ line => Len(inq') = Len(inq) + 1 /\ inq'[Len(inq) + 1] = frames
    <2>1. ASSUME srvBaud = arate, line
          PROVE  Len(inq') = Len(inq) + 1 /\ inq'[Len(inq) + 1] = frames
      <3>1. Len(h) = 1 /\ h[1] = frames
        BY <1>9, <2>1, Zenon
      <3>2. Len(inq) + 1 \in 1 .. Len(inq) + Len(h) /\ ~(Len(inq) + 1 <= Len(inq))
        BY <1>0, <3>1
      <3>3. inq'[Len(inq) + 1] = h[Len(inq) + 1 - Len(inq)]
        BY <1>4, <3>2
      <3> QED
        BY <1>0, <1>4, <3>1, <3>3
    <2> QED
      BY <2>1, Zenon
  <1>11. \A i \in 1 .. Len(inq) : inq'[i] = inq[i]
    BY <1>0, <1>4
  <1> QED
    BY <1>3, <1>7, <1>8, <1>10, <1>11

LEMMA KnownStep ==
    ASSUME ServerInv, KnownInv, haveLine, ServerNext
    PROVE  KnownInv'
  <1> USE DEF KnownInv, atari, conf, fsm, process, PollAgain, Select, Return
  <1>0. /\ inq \in Seq(Tags) /\ buf \in Seq(Tags) /\ frames \in Nat /\ frames \in Tags
        /\ \A i \in 1 .. Len(inq) : inq[i] \in Int
        /\ \A i \in 1 .. Len(buf) : buf[i] \in Int
        /\ serving \in Int /\ \A f \in out : f \in Int
        /\ haveLine' = haveLine /\ prompt' = prompt
    BY Bounds, ConfKept DEF ServerInv, ServerTypeOK, Tags
  <1>1. CASE Loop
    <2>1. CASE SelectReturns
      <3>1. /\ \A i \in 1 .. Len(inq') : inq'[i] <= frames
            /\ \A i \in 1 .. Len(buf') : buf'[i] <= frames
        <4>1. CASE ReadInput
          BY <1>0, <4>1, ReadHolds
        <4>2. CASE UNCHANGED <<inq, cst, buf, timer>>
          BY <4>2
        <4> QED
          BY <2>1, <4>1, <4>2 DEF SelectReturns
      <3>2. /\ UNCHANGED <<frames, line, out, serving>>
            /\ result' \in {result, "other", "idle"}
        BY <2>1 DEF SelectReturns
      <3> QED
        BY <1>0, <3>1, <3>2
    <2>2. CASE ~SelectReturns
      <3>1. UNCHANGED <<frames, line, serving>> /\ result' \in {result, "frame", "none"}
        BY <1>1, <2>2 DEF Loop, HandleError, PollIdle, PollAssert, JudgeFrame, PollDeassert,
                          ForgetFrame, WaitForCommandFrame
      <3>2. inq' \in {inq, <<>>}
        BY <1>1, <2>2 DEF Loop, HandleError, PollIdle, PollAssert, JudgeFrame, PollDeassert,
                          ForgetFrame, WaitForCommandFrame, TrySwitchbaud
      <3>3. buf' \in {buf, <<>>}
        BY <1>1, <2>2 DEF Loop, HandleError, PollIdle, PollAssert, JudgeFrame, PollDeassert,
                          ForgetFrame, WaitForCommandFrame, SetIdle, SetReceive, SetDeassert
      <3>4. out' \in {out, {}}
        BY <1>1, <2>2 DEF Loop, HandleError, PollIdle, PollAssert, JudgeFrame, PollDeassert,
                          ForgetFrame, WaitForCommandFrame, TrySwitchbaud
      <3> QED
        BY <1>0, <3>1, <3>2, <3>3, <3>4
    <2> QED
      BY <2>1, <2>2
  <1>2. CASE SelectFails
    BY <1>2 DEF SelectFails
  <1>3. CASE Handler
    <2>1. CASE GetCommandFrame
      <3>1. CASE cst = "ok"
        <4>1. buf[1] > 0 /\ buf[1] <= frames
          <5>1. 1 \in 1 .. Len(buf)
            BY <3>1, Bounds DEF ServerInv, HandedWhole
          <5> QED
            BY <3>1, <5>1 DEF ServerInv, HandedWhole
        <4> QED
          BY <1>0, <2>1, <3>1, <4>1 DEF GetCommandFrame
      <3>2. CASE cst # "ok"
        BY <2>1, <3>2 DEF GetCommandFrame
      <3> QED
        BY <3>1, <3>2
    <2>2. CASE AckFrame
      BY <1>0, <2>2 DEF AckFrame
    <2>3. CASE Reply
      BY <1>0, <2>3 DEF Reply
    <2>4. CASE ReceiveDataFrame
      <3>1. \A i \in 1 .. Len(inq') : inq'[i] <= frames
        <4>1. CASE inq' = <<>>
          BY <4>1
        <4>2. CASE Len(inq) >= DataLen /\ inq' = SubSeq(inq, DataLen + 1, Len(inq))
          <5>1. DataLen + 1 \in Nat /\ Len(inq) \in Nat /\ DataLen \in Nat
            BY <1>0, Bounds
          <5>2. \A i \in DataLen + 1 .. Len(inq) : inq[i] \in Tags
            BY <1>0, <5>1
          <5>3. /\ Len(inq') = IF DataLen + 1 <= Len(inq) THEN Len(inq) - (DataLen + 1) + 1 ELSE 0
                /\ \A i \in 1 .. (Len(inq) - (DataLen + 1) + 1) : inq'[i] = inq[DataLen + 1 + i - 1]
            BY <4>2, <5>1, <5>2, SubSeqProperties
          <5> QED
            BY <1>0, <5>1, <5>3
        <4> QED
          BY <2>4, <4>1, <4>2 DEF ReceiveDataFrame
      <3>2. /\ UNCHANGED <<frames, line, buf, serving>> /\ out' \in {out, out \cup {serving}}
            /\ result' \in {"data", "checksum", "short"} /\ result = "acked"
        BY <2>4 DEF ReceiveDataFrame
      <3> QED
        BY <1>0, <3>1, <3>2
    <2> QED
      BY <1>3, <2>1, <2>2, <2>3, <2>4 DEF Handler
  <1>4. CASE Environment
    <2>1. CASE Assert
      <3>1. frames' >= frames /\ frames' > 0 /\ frames' \in Nat /\ (prompt => frames' <= 1)
        BY <1>0, <2>1 DEF Assert
      <3>2. UNCHANGED <<inq, out, buf, serving, result>>
        BY <2>1 DEF Assert
      <3>3. /\ \A i \in 1 .. Len(inq) : inq[i] <= frames'
            /\ \A i \in 1 .. Len(buf) : buf[i] <= frames'
            /\ \A f \in out \cup {serving} : f <= frames'
        BY <1>0, <3>1
      <3> QED
        BY <1>0, <3>1, <3>2, <3>3
    <2>2. CASE SendChar
      <3>1. UNCHANGED <<line, frames, out, buf, serving, result>>
        BY <2>2 DEF SendChar
      <3>2. \A i \in 1 .. Len(inq') : inq'[i] <= frames
        BY <1>0, <2>2, HeardHolds
      <3> QED
        BY <1>0, <3>1, <3>2
    <2>3. CASE Deassert \/ TimerExpires \/ FrameAges \/ Drain
      <3>1. UNCHANGED <<inq, frames, buf, serving, result>> /\ out' \in {out, {}}
        BY <2>3 DEF Deassert, TimerExpires, FrameAges, Drain
      <3>2. line' => frames > 0
        BY <1>0, <2>3 DEF Deassert, TimerExpires, FrameAges, Drain, ServerInv, ServerTypeOK
      <3>3. \A f \in out' \cup {serving} : f <= frames
        BY <3>1
      <3> QED
        BY <1>0, <3>1, <3>2, <3>3
    <2> QED
      BY <1>4, <2>1, <2>2, <2>3 DEF Environment
  <1> QED
    BY <1>1, <1>2, <1>3, <1>4 DEF ServerNext

\* Of an Atari that is not prompt.
LEMMA MovingStep ==
    ASSUME ServerInv, SelectInv, KnownInv, MovingInv, haveLine, ~prompt, ServerNext
    PROVE  MovingInv'
  <1> USE DEF atari, conf, fsm, process, PollAgain, Select, Return
  <1>0. /\ frames \in Int /\ serving \in Int /\ \A f \in out : f \in Int
        /\ haveLine' = haveLine /\ prompt' = prompt /\ line \in BOOLEAN
        /\ cst = "ok" => buf[1] \in Int /\ buf[1] <= frames
    <2>1. frames \in Int /\ serving \in Int /\ (\A f \in out : f \in Int) /\ line \in BOOLEAN
      BY Bounds DEF ServerInv, ServerTypeOK, Tags
    <2>2. cst = "ok" => 1 \in 1 .. Len(buf) /\ buf \in Seq(Tags)
      BY Bounds DEF ServerInv, ServerTypeOK, HandedWhole
    <2>3. cst = "ok" => buf[1] \in Tags /\ buf[1] <= frames
      BY <2>2 DEF KnownInv
    <2> QED
      BY <2>1, <2>3, Bounds, ConfKept DEF Tags
  <1>1. SUFFICES /\ line' \/ cst' \in {"receive", "deassert", "soft"} => Old'
                 /\ cst' = "hard" => Old' \/ result' = "error"
                 /\ cst' = "ok" /\ line' => buf'[1] < frames'
    BY DEF MovingInv
  <1>2. /\ line \/ cst \in {"receive", "deassert", "soft"} => Old
        /\ cst = "hard" => Old \/ result = "error"
        /\ cst = "ok" /\ line => buf[1] < frames
    BY DEF MovingInv
  <1>3. ASSUME Old, UNCHANGED <<frames, serving>>, out' \subseteq out \cup {serving}
        PROVE  Old'
    BY <1>3 DEF Old
  <1>4. CASE Loop
    <2>1. UNCHANGED <<frames, serving, line>> /\ out' \subseteq out
      BY <1>4 DEF Loop, HandleError, PollIdle, PollAssert, JudgeFrame, PollDeassert,
                  ForgetFrame, SelectReturns, WaitForCommandFrame, TrySwitchbaud
    <2>2. Old => Old'
      BY <1>3, <2>1
    <2>3. cst' \in {"receive", "deassert", "soft", "hard"}
            => cst' = cst \/ line \/ cst \in {"receive", "deassert"}
      <3>1. CASE SelectReturns
        BY <3>1 DEF SelectReturns, ReadInput, SelectInv
      <3>2. CASE JudgeFrame
        BY <3>2 DEF JudgeFrame
      <3>3. CASE HandleError \/ PollIdle \/ PollAssert \/ PollDeassert \/ ForgetFrame \/ WaitForCommandFrame
        BY <3>3 DEF HandleError, PollIdle, PollAssert, PollDeassert, ForgetFrame,
                    WaitForCommandFrame, SetIdle, SetReceive
      <3> QED
        BY <1>4, <3>1, <3>2, <3>3 DEF Loop
    <2>4. cst' = "ok" => (cst = "ok" /\ buf' = buf) \/ ~line
      <3>1. CASE SelectReturns
        BY <3>1 DEF SelectReturns, ReadInput, SelectInv
      <3>2. CASE JudgeFrame
        BY <3>2 DEF JudgeFrame, SetDeassert
      <3>3. CASE HandleError \/ PollIdle \/ PollAssert \/ PollDeassert \/ ForgetFrame \/ WaitForCommandFrame
        BY <3>3 DEF HandleError, PollIdle, PollAssert, PollDeassert, ForgetFrame,
                    WaitForCommandFrame, SetIdle, SetReceive
      <3> QED
        BY <1>4, <3>1, <3>2, <3>3 DEF Loop
    <2>5. cst' = "hard" /\ cst = "hard" => result' = result \/ result # "error"
      BY <1>4 DEF Loop, HandleError, PollIdle, PollAssert, JudgeFrame, PollDeassert,
                  ForgetFrame, SelectReturns, ReadInput, SelectInv, WaitForCommandFrame
    <2>6. cst' = "hard" => Old' \/ result' = "error"
      <3>1. CASE cst = "hard"
        BY <1>2, <2>2, <2>5, <3>1
      <3>2. CASE cst # "hard"
        BY <1>2, <2>2, <2>3, <3>2
      <3> QED
        BY <3>1, <3>2
    <2>7. line' \/ cst' \in {"receive", "deassert", "soft"} => Old'
      BY <1>2, <2>1, <2>2, <2>3
    <2>8. cst' = "ok" /\ line' => buf'[1] < frames'
      BY <1>2, <2>1, <2>4
    <2> QED
      BY <2>6, <2>7, <2>8
  <1>5. CASE SelectFails
    BY <1>2, <1>3, <1>5 DEF SelectFails
  <1>6. CASE GetCommandFrame
    <2>1. CASE cst = "ok"
      <3>1. cst' = "assert" /\ UNCHANGED <<line, frames, out>> /\ serving' = buf[1]
        BY <1>6, <2>1 DEF GetCommandFrame
      <3>2. line => Old'
        BY <1>0, <1>2, <2>1, <3>1 DEF Old
      <3> QED
        BY <3>1, <3>2
    <2>2. CASE cst # "ok"
      BY <1>2, <1>3, <1>6, <2>2 DEF GetCommandFrame
    <2> QED
      BY <2>1, <2>2
  <1>7. CASE AckFrame \/ Reply \/ ReceiveDataFrame
    <2>1. /\ UNCHANGED <<line, frames, serving, cst, buf>> /\ out' \subseteq out \cup {serving}
          /\ result # "error"
      BY <1>7 DEF AckFrame, Reply, ReceiveDataFrame
    <2> QED
      BY <1>2, <1>3, <2>1
  <1>8. CASE Assert
    <2>1. frames' = frames + 1 /\ UNCHANGED <<out, serving, cst, buf>>
      BY <1>8 DEF Assert
    <2>2. Old'
      BY <1>0, <2>1 DEF Old, KnownInv
    <2> QED
      BY <1>0, <2>1, <2>2
  <1>9. CASE Deassert \/ SendChar \/ TimerExpires \/ FrameAges \/ Drain
    <2>1. UNCHANGED <<frames, serving, cst, buf, result>> /\ out' \subseteq out
      BY <1>9 DEF Deassert, SendChar, TimerExpires, FrameAges, Drain
    <2>2. line' => line
      BY <1>0, <1>9 DEF Deassert, SendChar, TimerExpires, FrameAges, Drain
    <2>3. Old => Old'
      BY <1>3, <2>1
    <2> QED
      BY <1>2, <2>1, <2>2, <2>3
  <1> QED
    BY <1>4, <1>5, <1>6, <1>7, <1>8, <1>9 DEF ServerNext, Handler, Environment

\* Of a prompt one.
LEMMA PromptStep ==
    ASSUME ServerInv, SelectInv, KnownInv, PromptInv, haveLine, prompt, ServerNext
    PROVE  PromptInv'
  <1> USE DEF atari, conf, fsm, process, PollAgain, Select, Return
  <1> DEFINE Parts == AssertPart /\ HeardPart /\ GarbledPart /\ WholePart /\ ServedPart
  <1>0. /\ inq \in Seq(Tags) /\ buf \in Seq(Tags) /\ Len(inq) \in Nat /\ Len(buf) \in Nat
        /\ sent \in Nat /\ frames \in Nat /\ frames \in Tags /\ 0 \in Tags
        /\ CmdRawLength \in Nat /\ CmdRawLength > 0 /\ line \in BOOLEAN
    <2>1. frames \in Nat /\ frames \in Tags
      BY Bounds DEF ServerInv, ServerTypeOK, Tags
    <2> QED
      BY <2>1, Bounds DEF ServerInv, ServerTypeOK
  <1>1. SUFFICES Parts'
    BY DEF PromptInv
  <1>2. AssertPart /\ HeardPart /\ GarbledPart /\ WholePart /\ ServedPart
    BY DEF PromptInv
  <1>3. CASE HandleError
    BY <1>2, <1>3 DEF HandleError, SetIdle, ServedPart, AssertPart, HeardPart, GarbledPart, WholePart
  <1>4. CASE PollIdle
    BY <1>2, <1>4 DEF PollIdle, ServedPart, AssertPart, HeardPart, GarbledPart, WholePart
  <1>5. CASE PollAssert
    <2>1. CASE line
      <3>1. /\ cst = "assert" /\ cst' = "receive" /\ buf' = <<>> /\ timer' = "running"
            /\ UNCHANGED <<inq, line, sent, frames, srvBaud, arate, serving>> /\ where' = "loop"
        BY <1>5, <2>1 DEF PollAssert, SetReceive
      <3>2. inq = <<>> /\ sent = 0
        BY <1>2, <2>1, <3>1 DEF AssertPart
      <3>3. HeardPart' /\ GarbledPart'
        BY <1>0, <2>1, <3>1, <3>2 DEF HeardPart, GarbledPart
      <3> QED
        BY <1>2, <3>1, <3>3 DEF AssertPart, WholePart, ServedPart
    <2>2. CASE ~line
      BY <1>2, <1>5, <2>2 DEF PollAssert, ServedPart, AssertPart, HeardPart, GarbledPart, WholePart
    <2> QED
      BY <2>1, <2>2
  <1>6. CASE JudgeFrame
    <2>0. /\ cst = "receive" /\ UNCHANGED <<inq, line, sent, frames, srvBaud, arate, serving, buf>>
          /\ where' \in {"loop", "select"}
      BY <1>6 DEF JudgeFrame
    <2>1. CASE Len(buf) = CmdRawLength
      <3>1. 1 \in 1 .. Len(buf)
        BY <1>0, <2>1
      <3>2. CASE OfOneFrame(buf) /\ buf[1] > 0
        <4>1. cst' = "deassert"
          BY <1>6, <2>1, <3>2 DEF JudgeFrame, SetDeassert
        <4>2. srvBaud = arate
          BY <1>2, <2>0, <3>1, <3>2 DEF GarbledPart
        <4>3. Len(inq) = 0 /\ sent = CmdRawLength
          BY <1>0, <1>2, <2>0, <2>1, <4>2 DEF HeardPart
        <4>4. inq = <<>>
          BY <1>0, <4>3
        <4> QED
          BY <1>2, <2>0, <4>1, <4>2, <4>3, <4>4
             DEF AssertPart, HeardPart, GarbledPart, WholePart, ServedPart
      <3>3. CASE ~(OfOneFrame(buf) /\ buf[1] > 0)
        <4>1. cst' = "soft"
          BY <1>6, <2>1, <3>3 DEF JudgeFrame
        <4>2. srvBaud # arate
          <5> SUFFICES ASSUME srvBaud = arate PROVE FALSE
            OBVIOUS
          <5>1. line /\ \A i \in 1 .. Len(buf) : buf[i] = frames
            BY <1>2, <2>0 DEF HeardPart
          <5>2. frames > 0
            BY <5>1 DEF KnownInv
          <5> QED
            BY <1>0, <3>1, <3>3, <5>1, <5>2 DEF OfOneFrame
        <4> QED
          BY <1>2, <2>0, <4>1, <4>2
             DEF AssertPart, HeardPart, GarbledPart, WholePart, ServedPart
      <3> QED
        BY <3>2, <3>3
    <2>2. CASE Len(buf) # CmdRawLength /\ (Len(buf) > CmdRawLength \/ timer = "expired")
      <3>1. cst' \in {"soft", "hard"} /\ where' = "loop"
        BY <1>6, <2>2 DEF JudgeFrame
      <3>2. srvBaud # arate
        BY <1>0, <1>2, <2>0, <2>2 DEF HeardPart
      <3> QED
        BY <1>2, <2>0, <3>1, <3>2
           DEF AssertPart, HeardPart, GarbledPart, WholePart, ServedPart
    <2>3. CASE ~(Len(buf) = CmdRawLength \/ Len(buf) > CmdRawLength \/ timer = "expired")
      <3>1. UNCHANGED <<cst, timer>> /\ where' = "select"
        BY <1>6, <2>3 DEF JudgeFrame
      <3> QED
        BY <1>2, <2>0, <3>1
           DEF AssertPart, HeardPart, GarbledPart, WholePart, ServedPart
    <2> QED
      BY <2>1, <2>2, <2>3
  <1>7. CASE PollDeassert
    BY <1>2, <1>7 DEF PollDeassert, ServedPart, AssertPart, HeardPart, GarbledPart, WholePart
  <1>8. CASE ForgetFrame
    BY <1>2, <1>8 DEF ForgetFrame, SetIdle, ServedPart, AssertPart, HeardPart, GarbledPart, WholePart
  <1>9. CASE SelectReturns
    <2>0. /\ where' = "loop" /\ where = "select"
          /\ UNCHANGED <<line, sent, frames, arate, srvBaud, serving>>
      BY <1>9 DEF SelectReturns
    <2>1. CASE UNCHANGED <<inq, cst, buf, timer>>
      BY <1>2, <2>0, <2>1 DEF AssertPart, HeardPart, GarbledPart, WholePart, ServedPart
    <2>2. CASE ReadInput
      <3>1. CASE cst = "receive"
        <4>1. UNCHANGED <<cst, timer>>
          BY <2>2, <3>1 DEF ReadInput
        <4>2. HeardPart'
          <5>1. /\ (\A i \in 1 .. Len(inq) : inq[i] = frames) /\ (\A i \in 1 .. Len(buf) : buf[i] = frames)
                  => /\ \A i \in 1 .. Len(inq') : inq'[i] = frames
                     /\ \A i \in 1 .. Len(buf') : buf'[i] = frames
                     /\ Len(buf') + Len(inq') = Len(buf) + Len(inq)
            BY <1>0, <2>2, <3>1, ReadHolds, Zenon
          <5>2. HeardPart
            BY <1>2
          <5> QED
            BY <2>0, <3>1, <4>1, <5>1, <5>2 DEF HeardPart
        <4>3. GarbledPart'
          <5>1. (\A i \in 1 .. Len(inq) : inq[i] = 0) /\ (\A i \in 1 .. Len(buf) : buf[i] = 0)
                  => /\ \A i \in 1 .. Len(inq') : inq'[i] = 0
                     /\ \A i \in 1 .. Len(buf') : buf'[i] = 0
            BY <1>0, <2>2, <3>1, ReadHolds, Zenon
          <5>2. GarbledPart
            BY <1>2
          <5> QED
            BY <2>0, <3>1, <4>1, <5>1, <5>2 DEF GarbledPart
        <4> QED
          BY <1>2, <2>0, <3>1, <4>1, <4>2, <4>3 DEF AssertPart, WholePart, ServedPart
      <3>2. CASE cst = "idle"
        BY <1>2, <2>0, <2>2, <3>2 DEF ReadInput, AssertPart, HeardPart, GarbledPart, WholePart, ServedPart
      <3>3. CASE cst = "assert"
        BY <1>2, <2>0, <2>2, <3>3 DEF ReadInput, AssertPart, HeardPart, GarbledPart, WholePart, ServedPart
      <3>4. CASE cst = "deassert"
        BY <1>2, <2>2, <3>4 DEF ReadInput, WholePart
      <3> QED
        BY <2>0, <3>1, <3>2, <3>3, <3>4 DEF SelectInv
    <2> QED
      BY <1>9, <2>1, <2>2 DEF SelectReturns
  <1>10. CASE WaitForCommandFrame
    BY <1>2, <1>10 DEF WaitForCommandFrame, ServedPart, AssertPart, HeardPart, GarbledPart, WholePart
  <1>11. CASE SelectFails
    BY <1>11 DEF SelectFails
  <1>12. CASE GetCommandFrame
    BY <1>2, <1>12 DEF GetCommandFrame, ServedPart, AssertPart, HeardPart, GarbledPart, WholePart
  <1>13. CASE AckFrame \/ Reply
    <2>1. UNCHANGED <<line, sent, frames, arate, inq, polled, cst, buf, timer, srvBaud, where, serving>>
      BY <1>13 DEF AckFrame, Reply
    <2> QED
      BY <1>2, <2>1 DEF ServedPart, AssertPart, HeardPart, GarbledPart, WholePart
  <1>14. CASE ReceiveDataFrame
    <2>1. /\ where = "user"
          /\ UNCHANGED <<line, sent, frames, arate, srvBaud, serving, cst, buf, timer, where, polled>>
      BY <1>14 DEF ReceiveDataFrame
    <2>2. inq = <<>> => inq' = <<>>
      <3>1. Len(<<>>) = 0 /\ DataLen > 0 /\ DataLen \in Nat
        BY Bounds
      <3> QED
        BY <1>14, <3>1 DEF ReceiveDataFrame
    <2> QED
      BY <1>2, <2>1, <2>2 DEF ServedPart, AssertPart, HeardPart, GarbledPart, WholePart
  <1>15. CASE Assert
    BY <1>2, <1>15 DEF Assert, Settled, ServedPart, AssertPart, HeardPart, GarbledPart, WholePart
  <1>16. ASSUME Settled, cst = "receive", srvBaud = arate
         PROVE  line /\ sent # CmdRawLength
    <2>1. Len(buf) < CmdRawLength /\ inq = <<>>
      BY <1>16 DEF ServerInv, Looked, Settled
    <2> QED
      BY <1>0, <1>2, <1>16, <2>1 DEF HeardPart
  <1>17. CASE Deassert
    <2>1. Settled /\ sent = CmdRawLength /\ ~line'
          /\ UNCHANGED <<arate, inq, srvBaud, serving, cst, buf, where>>
      BY <1>17 DEF Deassert
    <2>2. ~(cst = "receive" /\ srvBaud = arate)
      BY <1>16, <2>1
    <2> QED
      BY <1>2, <2>1, <2>2 DEF ServedPart, AssertPart, HeardPart, GarbledPart, WholePart
  <1>18. CASE SendChar
    <2>1. /\ Settled /\ line /\ sent < CmdRawLength /\ sent' = sent + 1 /\ line' /\ ~polled'
          /\ UNCHANGED <<frames, arate, srvBaud, serving, cst, buf, timer, where>>
      BY <1>0, <1>18 DEF SendChar
    <2>2. cst # "assert" /\ cst # "ok" /\ cst # "deassert"
      BY <1>0, <1>2, <2>1 DEF Settled, AssertPart, WholePart
    <2>3. HeardPart'
      <3>1. HeardPart
        BY <1>2
      <3>2. srvBaud = arate =>
               /\ Len(inq') = Len(inq) + 1 /\ inq'[Len(inq) + 1] = frames
               /\ \A i \in 1 .. Len(inq) : inq'[i] = inq[i]
        BY <1>18, <2>1, HeardHolds, Zenon
      <3>3. ASSUME srvBaud = arate, \A i \in 1 .. Len(inq) : inq[i] = frames
            PROVE  \A i \in 1 .. Len(inq') : inq'[i] = frames
        BY <1>0, <3>2, <3>3
      <3> QED
        BY <1>0, <2>1, <3>1, <3>2, <3>3 DEF HeardPart
    <2>4. GarbledPart'
      <3>1. GarbledPart
        BY <1>2
      <3>2. srvBaud # arate =>
               \A i \in 1 .. Len(inq') : \/ i \in 1 .. Len(inq) /\ inq'[i] = inq[i]
                                         \/ inq'[i] = 0
        BY <1>18, HeardHolds, Zenon
      <3> QED
        BY <2>1, <3>1, <3>2 DEF GarbledPart
    <2> QED
      BY <1>2, <2>1, <2>2, <2>3, <2>4 DEF AssertPart, WholePart, ServedPart, Settled
  <1>19. CASE TimerExpires
    <2>1. /\ Settled /\ (cst = "receive" => sent = CmdRawLength \/ ~line) /\ ~polled'
          /\ UNCHANGED <<line, sent, frames, arate, inq, srvBaud, serving, cst, buf, where>>
      BY <1>19 DEF TimerExpires
    <2>2. ~(cst = "receive" /\ srvBaud = arate)
      BY <1>16, <2>1
    <2> QED
      BY <1>2, <2>1, <2>2 DEF ServedPart, AssertPart, HeardPart, GarbledPart, WholePart
  <1>20. CASE FrameAges \/ Drain
    BY <1>2, <1>20 DEF FrameAges, Drain, ServedPart, AssertPart, HeardPart, GarbledPart, WholePart
  <1> QED
    BY <1>3, <1>4, <1>5, <1>6, <1>7, <1>8, <1>9, <1>10, <1>11, <1>12, <1>13, <1>14, <1>15,
       <1>17, <1>18, <1>19, <1>20 DEF ServerNext, Loop, Handler, Environment

LEMMA RepliesInvStep ==
    ASSUME ServerInv, RepliesInv, [ServerNext]_servervars
    PROVE  RepliesInv'
  <1>1. CASE UNCHANGED servervars
    BY <1>1 DEF servervars, atari, conf, fsm, RepliesInv, SelectInv, KnownInv, MovingInv, Old,
                PromptInv, AssertPart, HeardPart, GarbledPart, WholePart, ServedPart
  <1>2. CASE ServerNext
    <2>1. SelectInv'
      BY <1>2, SelectStep DEF RepliesInv, ServerInv
    <2>2. haveLine' = haveLine /\ prompt' = prompt
      BY <1>2, ConfKept DEF conf
    <2>3. ASSUME haveLine
          PROVE  KnownInv' /\ MovingInv' /\ PromptInv'
      <3>1. KnownInv'
        BY <1>2, <2>3, KnownStep DEF RepliesInv
      <3>2. MovingInv'
        <4>1. CASE prompt
          BY <2>2, <4>1 DEF MovingInv
        <4>2. CASE ~prompt
          BY <1>2, <2>3, <4>2, MovingStep DEF RepliesInv
        <4> QED
          BY <4>1, <4>2
      <3>3. PromptInv'
        <4>1. CASE prompt
          BY <1>2, <2>3, <4>1, PromptStep DEF RepliesInv
        <4>2. CASE ~prompt
          BY <2>2, <4>2 DEF PromptInv
        <4> QED
          BY <4>1, <4>2
      <3> QED
        BY <3>1, <3>2, <3>3
    <2> QED
      BY <2>1, <2>2, <2>3 DEF RepliesInv
  <1> QED
    BY <1>1, <1>2

\* The recovery from errors, TrySwitchbaud in the loop of WaitForCommandFrame,
\* flushes the output queue; what it throws away are replies to frames the Atari
\* has given up: it has sent another one since.  For any number of frames and
\* characters, with a COMMAND line, and unless a signal has interrupted the wait
\* (tools/UserspaceSIOWrapper.cpp: WaitForCommandFrame, TrySwitchbaud).
THEOREM RepliesStay == ServerSpec => RepliesNotCut
  <1> DEFINE Kept == where = "loop" /\ haveLine /\ result # "error" /\ out' # out
                       => \A f \in out : f < frames
  <1>1. ASSUME ServerInv, RepliesInv, [ServerNext]_servervars
        PROVE  [Kept]_servervars
    <2> SUFFICES ASSUME ServerNext, where = "loop", haveLine, result # "error", out' # out
                 PROVE  \A f \in out : f < frames
      BY <1>1
    <2> USE DEF atari, conf, fsm, process, PollAgain, Select, Return
    <2>1. HandleError /\ ~(cst = "soft" /\ lastOK)
      <3>1. CASE Loop
        BY <3>1 DEF Loop, HandleError, PollIdle, PollAssert, JudgeFrame, PollDeassert, ForgetFrame,
                    SelectReturns, WaitForCommandFrame
      <3>2. CASE SelectFails \/ Handler \/ Environment
        BY <3>2 DEF SelectFails, Handler, GetCommandFrame, AckFrame, Reply, ReceiveDataFrame,
                    Environment, Assert, Deassert, SendChar, TimerExpires, FrameAges, Drain
      <3> QED
        BY <3>1, <3>2 DEF ServerNext
    <2>2. cst \in {"soft", "hard"}
      BY <2>1 DEF HandleError
    <2>3. KnownInv /\ MovingInv /\ PromptInv
      BY <1>1 DEF RepliesInv
    <2>4. CASE prompt
      <3>1. serving = 0
        BY <2>2, <2>3, <2>4 DEF PromptInv, ServedPart
      <3>2. out = {}
        BY <2>3, <3>1 DEF KnownInv
      <3> QED
        BY <3>2
    <2>5. CASE ~prompt
      BY <2>2, <2>3, <2>5 DEF MovingInv, Old
    <2> QED
      BY <2>4, <2>5
  <1>2. ServerSpec => [](ServerInv /\ RepliesInv)
    BY ServerInvInit, ServerInvStep, RepliesInvInit, RepliesInvStep, PTL DEF ServerSpec
  <1> QED
    BY <1>1, <1>2, PTL DEF ServerSpec, RepliesNotCut
=============================================================================
