--------------------------- MODULE SioServer_proofs ---------------------------
(***************************************************************************)
(* Proofs about the driver in SIOSERVER mode, for every number of frames   *)
(* and characters, every length of the rings and of the data frames.       *)
(***************************************************************************)
EXTENDS SioServer, SequenceTheorems, TLAPS

-----------------------------------------------------------------------------
(* Sequences.                                                              *)

\* n copies of x are a sequence of length n.
LEMMA CopiesType ==
    ASSUME NEW S, NEW x \in S, NEW n \in Nat
    PROVE  /\ [i \in 1 .. n |-> x] \in Seq(S)
           /\ Len([i \in 1 .. n |-> x]) = n
  OBVIOUS

\* What is left of a sequence after its first k elements.
LEMMA RestType ==
    ASSUME NEW S, NEW s \in Seq(S), NEW k \in 0 .. Len(s)
    PROVE  /\ SubSeq(s, k + 1, Len(s)) \in Seq(S)
           /\ Len(SubSeq(s, k + 1, Len(s))) = Len(s) - k
           /\ \A i \in 1 .. Len(s) - k : SubSeq(s, k + 1, Len(s))[i] = s[i + k]
  <1>1. \A i \in k + 1 .. Len(s) : s[i] \in S
    OBVIOUS
  <1> QED
    BY <1>1, SubSeqProperties

-----------------------------------------------------------------------------
(* The helpers of the interrupt handler keep the types.                    *)

BurstType == [kind : Kinds, n : Nat, id : Int]
ItemType  == [id : Int, ep : Nat]

LEMMA StartFrameType ==
    ASSUME NEW c \in FrameType, Len(c.buf) <= FrameLength
    PROVE  StartFrame(c) \in FrameType /\ Len(StartFrame(c).buf) <= FrameLength
  <1> DEFINE d == ResetData(c)
  <1>1. <<>> \in Seq(Int) /\ Len(<<>>) = 0
    OBVIOUS
  <1>2. d \in FrameType /\ d.buf = <<>>
    BY <1>1 DEF ResetData, FrameType
  <1>3. StartFrame(c) \in FrameType /\ StartFrame(c).buf = <<>>
    <2> HIDE DEF d
    <2>1. StartFrame(c) = [d EXCEPT !.receiving = TRUE,
                                    !.serial = c.serial + 1,
                                    !.missed = IF c.valid THEN c.missed + 1 ELSE c.missed]
      BY DEF StartFrame, d
    <2>2. /\ c.serial + 1 \in Nat
          /\ (IF c.valid THEN c.missed + 1 ELSE c.missed) \in Nat
      BY DEF FrameType
    <2>3. StartFrame(c) \in FrameType
      BY <1>2, <2>1, <2>2 DEF FrameType
    <2>4. StartFrame(c).buf = d.buf
      BY <1>2, <2>1 DEF FrameType
    <2> QED
      BY <1>2, <2>3, <2>4
  <1> QED
    BY <1>1, <1>3 DEF FrameLength

LEMMA CollectCharsType ==
    ASSUME NEW c \in FrameType, Len(c.buf) <= FrameLength, NEW b \in BurstType
    PROVE  /\ CollectChars(c, b) \in FrameType
           /\ Len(CollectChars(c, b).buf) <= FrameLength
  <1> DEFINE room == FrameLength - Len(c.buf)
             take == IF b.n < room THEN b.n ELSE room
             new  == [i \in 1 .. take |-> IdOf(b)]
  <1>1. take \in Nat /\ take <= room
    BY DEF FrameType, BurstType, FrameLength
  <1>2. IdOf(b) \in Int
    BY DEF IdOf, BurstType
  <1>3. new \in Seq(Int) /\ Len(new) = take
    BY <1>1, <1>2, CopiesType
  <1>4. c.buf \in Seq(Int)
    BY DEF FrameType
  <1>5. c.buf \o new \in Seq(Int) /\ Len(c.buf \o new) <= FrameLength
    <2>1. c.buf \o new \in Seq(Int) /\ Len(c.buf \o new) = Len(c.buf) + Len(new)
      BY <1>3, <1>4, ConcatProperties
    <2>2. Len(c.buf) \in Nat
      BY <1>4
    <2> QED
      BY <2>1, <2>2, <1>1, <1>3 DEF FrameLength
  <1> HIDE DEF take, new
  <1>6. CollectChars(c, b) =
          [c EXCEPT
            !.buf = IF IsOk(b) THEN @ \o new ELSE @,
            !.ok  = IF IsOk(b) THEN @ + b.n ELSE @,
            !.err = IF b.kind \in {"framing", "framing+break"} THEN @ + b.n ELSE @,
            !.brk = IF b.kind \in {"break", "framing+break"} THEN @ + b.n ELSE @]
    BY DEF CollectChars, take, new
  <1>7. c.ok + b.n \in Nat /\ c.err + b.n \in Nat /\ c.brk + b.n \in Nat
    BY DEF FrameType, BurstType
  <1>8. CollectChars(c, b) \in FrameType
    BY <1>4, <1>5, <1>6, <1>7 DEF FrameType
  <1>9. CollectChars(c, b).buf = IF IsOk(b) THEN c.buf \o new ELSE c.buf
    BY <1>6 DEF FrameType
  <1> QED
    BY <1>5, <1>8, <1>9

LEMMA EndFrameType ==
    ASSUME NEW c \in FrameType, Len(c.buf) <= FrameLength
    PROVE  EndFrame(c) \in FrameType /\ Len(EndFrame(c).buf) <= FrameLength
  BY DEF EndFrame, FrameType, Quality, CheckQuality

LEMMA FillRingType ==
    ASSUME NEW r \in Seq(ItemType), Len(r) < IobufLength, NEW b \in BurstType,
           epoch \in Nat
    PROVE  /\ FillRing(r, b) \in Seq(ItemType)
           /\ Len(FillRing(r, b)) < IobufLength
           /\ Len(FillRing(r, b)) >= Len(r)
  <1> DEFINE room == (IobufLength - 1) - Len(r)
             take == IF b.n < room THEN b.n ELSE room
             item == [id |-> IdOf(b), ep |-> epoch]
             new  == [i \in 1 .. take |-> item]
  <1>1. IobufLength \in Nat /\ Len(r) \in Nat /\ b.n \in Nat
    BY ServerAssumption DEF BurstType
  <1>2. take \in Nat /\ take <= room
    BY <1>1
  <1>3. item \in ItemType
    BY DEF IdOf, BurstType, ItemType
  <1> HIDE DEF item
  <1>4. new \in Seq(ItemType) /\ Len(new) = take
    BY <1>2, <1>3, CopiesType
  <1>5. r \o new \in Seq(ItemType) /\ Len(r \o new) = Len(r) + Len(new)
    BY <1>4, ConcatProperties
  <1> HIDE DEF new, take
  <1>6. FillRing(r, b) = IF IsOk(b) THEN r \o new ELSE r
    BY DEF FillRing, take, new, item
  <1> QED
    BY <1>1, <1>2, <1>4, <1>5, <1>6

-----------------------------------------------------------------------------
(* Type correctness.                                                       *)

LEMMA Constants ==
    /\ MaxFrames \in Nat /\ MaxFrames > 0 /\ MaxChars \in Nat
    /\ DataLen \in Nat /\ DataLen > 0
    /\ IobufLength \in Nat /\ IobufLength > DataLen + 2
    /\ FifoLen \in Nat /\ FifoLen > 0
  BY ServerAssumption

LEMMA InitType == Init => TypeOK
  <1> SUFFICES ASSUME Init PROVE TypeOK
    OBVIOUS
  <1>1. EnvType
    <2>1. NoBurst \in [kind : Kinds, n : Nat, id : Int]
      BY DEF NoBurst, Kinds
    <2>2. rxf = NoBurst /\ txf = 0 /\ frames = 0 /\ sent = 0
      BY DEF Init
    <2> QED
      BY <2>1, <2>2, Constants DEF EnvType
  <1>e. \A S : <<>> \in Seq(S) /\ Len(<<>>) = 0
    BY EmptySeq
  <1>2. FrameBufType
    <2>1. <<>> \in Seq(Int) /\ Len(<<>>) = 0
      BY <1>e
    <2>2. cf \in FrameType /\ cf.buf = <<>>
      BY <2>1 DEF Init, FrameType
    <2>3. cur = 0
      BY DEF Init
    <2> QED
      BY <2>1, <2>2, <2>3 DEF FrameBufType, FrameLength
  <1>3. RingType
    <2>1. /\ <<>> \in Seq(Nat) /\ <<>> \in Seq([id : Int, ep : Nat])
          /\ Len(<<>>) = 0
      BY <1>e
    <2>2. IobufLength \in Nat /\ IobufLength > 0
      BY ServerAssumption
    <2> QED
      BY <2>1, <2>2 DEF Init, RingType, ThriStates
  <1>4. ConfigType
    BY ServerAssumption DEF Init, ConfigType, Bauds
  <1>5. HostType
    BY DEF Init, HostType, PCs
  <1>6. HistType
    BY DEF Init, HistType, Fates
  <1>7. FlagType
    <2>1. Autobaud \in BOOLEAN
      BY ServerAssumption
    <2> QED
      BY <2>1 DEF Init, FlagType
  <1> QED
    BY <1>1, <1>2, <1>3, <1>4, <1>5, <1>6, <1>7 DEF TypeOK

\* A part of the state that a step leaves alone keeps its type.
LEMMA PartsStay ==
    /\ EnvType /\ UNCHANGED env => EnvType'
    /\ FrameBufType /\ UNCHANGED <<cf, cur>> => FrameBufType'
    /\ RingType /\ UNCHANGED bufs => RingType'
    /\ ConfigType /\ UNCHANGED <<baud, lcr>> => ConfigType'
    /\ HostType /\ UNCHANGED <<pc, op, ret, tstate, nrx>> => HostType'
    /\ HistType /\ UNCHANGED hist => HistType'
    /\ FlagType /\ UNCHANGED <<line, delta, last, just, autobaud, lost>> => FlagType'
  <1>1. EnvType /\ UNCHANGED env => EnvType'
    BY DEF EnvType, env
  <1>2. FrameBufType /\ UNCHANGED <<cf, cur>> => FrameBufType'
    BY DEF FrameBufType
  <1>3. RingType /\ UNCHANGED bufs => RingType'
    BY DEF RingType, bufs
  <1>4. ConfigType /\ UNCHANGED <<baud, lcr>> => ConfigType'
    BY DEF ConfigType
  <1>5. HostType /\ UNCHANGED <<pc, op, ret, tstate, nrx>> => HostType'
    BY DEF HostType
  <1>6. HistType /\ UNCHANGED hist => HistType'
    BY DEF HistType, hist
  <1>7. FlagType /\ UNCHANGED <<line, delta, last, just, autobaud, lost>> => FlagType'
    BY DEF FlagType
  <1> QED
    BY <1>1, <1>2, <1>3, <1>4, <1>5, <1>6, <1>7

\* The process moves between its control points; nothing else of it changes
\* type.
Answers == {"ok", "ready", "timeout", "eintr", "checksum"}

HostOK == HostType /\ lost \in BOOLEAN

LEMMA HostMoves ==
    ASSUME HostType, lost \in BOOLEAN, NEW l \in PCs
    PROVE  /\ Goto(l) => HostOK'
           /\ Sleep(l) => HostOK'
           /\ Awake(l) => HostOK'
  <1>1. (Goto(l) => HostType') /\ (Sleep(l) => HostType') /\ (Awake(l) => HostType')
    BY DEF HostType, Goto, Sleep, Awake, local
  <1>2. Goto(l) \/ Sleep(l) \/ Awake(l) => lost' = lost
    BY DEF Goto, Sleep, Awake, local
  <1> QED
    BY <1>1, <1>2 DEF HostOK

LEMMA HostReturns ==
    ASSUME HostType, lost \in BOOLEAN, NEW r \in Answers
    PROVE  /\ Return(r) => HostOK'
           /\ Finish(r) => HostOK'
  <1>1. Result(r) \in Answers
    BY DEF Result, Answers
  <1>2. ASSUME NEW q \in Answers, Return(q)
        PROVE  HostOK'
    <2>1. HostType'
      BY <1>2 DEF HostType, Return, PCs, Answers
    <2>2. lost' \in BOOLEAN
      BY <1>2 DEF Return
    <2> QED
      BY <2>1, <2>2 DEF HostOK
  <1>3. Finish(r) => HostOK'
    <2> SUFFICES ASSUME Finish(r) PROVE HostOK'
      OBVIOUS
    <2>1. CASE op \in BlockOps \cup {"ack_xf", "complete_xf"}
      <3>1. HostType'
        BY <2>1 DEF HostType, Finish, PCs, Answers
      <3>2. lost' = lost
        BY <2>1 DEF Finish
      <3> QED
        BY <3>1, <3>2 DEF HostOK
    <2>2. CASE op \notin BlockOps \cup {"ack_xf", "complete_xf"}
      BY <1>1, <1>2, <2>2 DEF Finish
    <2> QED
      BY <2>1, <2>2
  <1> QED
    BY <1>2, <1>3

\* A step that only moves the process keeps every type.
LEMMA DeviceStays == TypeOK /\ DeviceUnchanged /\ HostOK' => TypeOK'
  <1> SUFFICES ASSUME TypeOK, DeviceUnchanged, HostOK' PROVE TypeOK'
    OBVIOUS
  <1>1. UNCHANGED <<env, cf, cur, bufs, hist, baud, lcr, line, delta, last, just, autobaud>>
    BY DEF DeviceUnchanged, env, conf
  <1>2. FlagType'
    BY <1>1 DEF TypeOK, FlagType, HostOK
  <1> QED
    BY <1>1, <1>2, PartsStay DEF TypeOK, HostOK

LEMMA EnvironmentType == TypeOK /\ Environment => TypeOK'
  <1> SUFFICES ASSUME TypeOK, Environment PROVE TypeOK'
    OBVIOUS
  <1> USE DEF TypeOK
  <1>0. UNCHANGED <<cur, bufs, baud, lcr, pc, op, ret, tstate, nrx, hist,
                    last, just, autobaud, lost>>
    BY DEF Environment, Assert, Deassert, SendBurst, Drain, FrameAges, conf, host, local
  <1>1. FlagType'
    <2>1. line' \in BOOLEAN /\ delta' \in BOOLEAN
      BY ServerAssumption
         DEF Environment, Assert, Deassert, SendBurst, Drain, FrameAges, FlagType, env
    <2> QED
      BY <1>0, <2>1 DEF FlagType
  <1>2. EnvType'
    <2>1. CASE Assert
      BY <2>1, Constants DEF Assert, EnvType
    <2>2. CASE Deassert
      BY <2>2, Constants DEF Deassert, EnvType
    <2>3. CASE SendBurst
      <3>1. PICK b \in Bursts :
              /\ sent + b.n <= MaxChars
              /\ rxf' = [kind |-> b.kind, n |-> b.n, id |-> IF line THEN frames ELSE -frames]
              /\ sent' = sent + b.n
        BY <2>3 DEF SendBurst
      <3>2. b.kind \in Kinds /\ b.n \in Nat
        BY ServerAssumption
      <3>3. (IF line THEN frames ELSE -frames) \in Int
        BY DEF EnvType
      <3> QED
        BY <2>3, <3>1, <3>2, <3>3, Constants DEF SendBurst, EnvType
    <2>4. CASE Drain
      BY <2>4 DEF Drain, EnvType
    <2>5. CASE FrameAges
      BY <2>5, PartsStay DEF FrameAges
    <2> QED
      BY <2>1, <2>2, <2>3, <2>4, <2>5 DEF Environment
  <1>3. FrameBufType'
    <2>1. CASE FrameAges
      BY <2>1 DEF FrameAges, FrameBufType, FrameType
    <2>2. CASE UNCHANGED cf
      BY <1>0, <2>2, PartsStay
    <2> QED
      BY <2>1, <2>2 DEF Environment, Assert, Deassert, SendBurst, Drain
  <1> QED
    BY <1>0, <1>1, <1>2, <1>3, PartsStay

LEMMA WaitingType ==
    TypeOK /\ (Poll \/ GetSleep \/ GetNone \/ Check \/ CheckTime \/ SendSleep
                 \/ ReceiveSleep \/ Timeout \/ Signal) => TypeOK'
  <1> SUFFICES ASSUME TypeOK, Poll \/ GetSleep \/ GetNone \/ Check \/ CheckTime
                              \/ SendSleep \/ ReceiveSleep \/ Timeout \/ Signal
               PROVE  TypeOK'
    OBVIOUS
  <1>0. HostType /\ lost \in BOOLEAN
    BY DEF TypeOK, FlagType
  <1>1. DeviceUnchanged
    BY DEF Poll, GetSleep, GetNone, Check, CheckTime, SendSleep, ReceiveSleep, Timeout, Signal
  <1>2. HostOK'
    <2>1. ASSUME NEW l, Goto(l) \/ Sleep(l) \/ Awake(l), l \in PCs PROVE HostOK'
      BY <1>0, <2>1, HostMoves
    <2>2. ASSUME NEW r, Return(r) \/ Finish(r), r \in Answers PROVE HostOK'
      BY <1>0, <2>2, HostReturns
    <2> USE DEF PCs, Answers
    <2>3. CASE Poll \/ GetNone
      BY <2>2, <2>3 DEF Poll, GetNone
    <2>4. CASE GetSleep
      BY <2>1, <2>4 DEF GetSleep
    <2>5. CASE Check
      BY <2>1, <2>2, <2>5 DEF Check
    <2>6. CASE CheckTime
      BY <2>1, <2>2, <2>6 DEF CheckTime
    <2>7. CASE SendSleep
      BY <2>1, <2>2, <2>7 DEF SendSleep
    <2>8. CASE ReceiveSleep
      <3>1. CASE pc = "rw_test"
        <4>1. Len(rx) \in Nat
          BY DEF TypeOK, RingType
        <4>2. HostType'
          BY <2>8, <3>1, <4>1, <1>0 DEF ReceiveSleep, HostType, Sleep, Goto
        <4>3. lost' = lost
          BY <2>8, <3>1 DEF ReceiveSleep, Sleep, Goto
        <4> QED
          BY <1>0, <4>2, <4>3 DEF HostOK
      <3>2. CASE pc # "rw_test"
        BY <2>1, <2>8, <3>2 DEF ReceiveSleep
      <3> QED
        BY <3>1, <3>2
    <2>9. CASE Timeout
      BY <2>1, <2>2, <2>9 DEF Timeout
    <2>10. CASE Signal
      BY <2>2, <2>10 DEF Signal
    <2> QED
      BY <2>3, <2>4, <2>5, <2>6, <2>7, <2>8, <2>9, <2>10
  <1> QED
    BY <1>1, <1>2, DeviceStays

LEMMA FetchingType == TypeOK /\ (GetExpired \/ GetTake) => TypeOK'
  <1> SUFFICES ASSUME TypeOK, GetExpired \/ GetTake PROVE TypeOK'
    OBVIOUS
  <1> USE DEF TypeOK
  <1>0. HostType /\ lost \in BOOLEAN
    BY DEF FlagType
  <1>1. UNCHANGED <<env, baud, lcr, line, delta, last, just, autobaud, epoch>>
    BY DEF GetExpired, GetTake, conf, env
  <1>2. HostOK'
    <2>1. Goto("g_set") \/ Return("timeout") \/ Return("ok")
      BY DEF GetExpired, GetTake
    <2> QED
      BY <1>0, <2>1, HostMoves, HostReturns DEF PCs, Answers
  <1>3. FlagType'
    BY <1>1, <1>2 DEF FlagType, HostOK
  <1>4. FrameBufType'
    <2>1. CASE GetExpired
      BY <2>1 DEF GetExpired, FrameBufType, FrameType
    <2>2. CASE GetTake
      <3>1. cf' = Taken(cf) /\ cur' = cf.serial
        BY <2>2 DEF GetTake
      <3> QED
        BY <3>1 DEF Taken, FrameBufType, FrameType
    <2> QED
      BY <2>1, <2>2
  <1>5. RingType'
    <2>1. CASE GetExpired
      BY <2>1, PartsStay DEF GetExpired
    <2>2. CASE GetTake
      <3>1. rx' = <<>> /\ tx' = <<>> /\ wakeup' = 0 /\ thri' = thri
        BY <2>2 DEF GetTake
      <3>2. <<>> \in Seq(Nat) /\ <<>> \in Seq([id : Int, ep : Nat]) /\ Len(<<>>) = 0
        BY EmptySeq
      <3> QED
        BY <3>1, <3>2, Constants DEF RingType
    <2> QED
      BY <2>1, <2>2
  <1>6. HistType'
    <2>1. CASE GetExpired
      BY <1>1, <2>1 DEF GetExpired, HistType, Fates
    <2>2. CASE GetTake
      BY <1>1, <2>2 DEF GetTake, FatesReported, HistType, Fates
    <2> QED
      BY <2>1, <2>2
  <1> QED
    BY <1>1, <1>2, <1>3, <1>4, <1>5, <1>6, PartsStay DEF HostOK

LEMMA SendingType ==
    TypeOK /\ (Put \/ Setup \/ InitiateSend \/ RestoreLcr \/ SwitchXF551) => TypeOK'
  <1> SUFFICES ASSUME TypeOK, Put \/ Setup \/ InitiateSend \/ RestoreLcr \/ SwitchXF551
               PROVE  TypeOK'
    OBVIOUS
  <1> USE DEF TypeOK
  <1>0. HostType /\ lost \in BOOLEAN /\ ret \in Answers
    BY DEF FlagType, HostType, Answers
  <1>1. UNCHANGED <<env, cf, cur, line, delta, last, autobaud, hist, rx, wakeup>>
    BY DEF Put, Setup, InitiateSend, RestoreLcr, SwitchXF551, env, conf, bufs
  <1>2. HostOK'
    <2>1. Goto("init") \/ Goto("ws_set") \/ Goto("xf") \/ Return(ret)
      BY DEF Put, Setup, InitiateSend, RestoreLcr, SwitchXF551
    <2> QED
      BY <1>0, <2>1, HostMoves, HostReturns DEF PCs
  <1>3. FlagType'
    <2>1. just' \in BOOLEAN
      BY DEF Put, Setup, InitiateSend, RestoreLcr, SwitchXF551, SetBaud, conf, FlagType
    <2> QED
      BY <1>1, <1>2, <2>1 DEF FlagType, HostOK
  <1>4. ConfigType'
    BY DEF Put, Setup, InitiateSend, RestoreLcr, SwitchXF551, SetBaud, conf, ConfigType, Bauds
  <1>5. tx' \in Seq(Nat) /\ Len(tx') < IobufLength /\ thri' \in ThriStates
    <2>0. tx \in Seq(Nat) /\ Len(tx) < IobufLength /\ thri \in ThriStates /\ Len(tx) \in Nat
      BY DEF RingType
    <2>1. CASE Put
      <3>1. epoch \in Nat
        BY DEF HistType
      <3>2. Append(tx, epoch) \in Seq(Nat) /\ Len(Append(tx, epoch)) = Len(tx) + 1
        BY <2>0, <3>1, AppendProperties
      <3>3. <<>> \in Seq(Nat) /\ Len(<<>>) = 0
        BY EmptySeq
      <3>4. tx' = (IF Len(tx) = IobufLength - 1 THEN <<>> ELSE Append(tx, epoch)) /\ thri' = thri
        BY <2>1 DEF Put
      <3> QED
        BY <2>0, <3>2, <3>3, <3>4, Constants
    <2>2. CASE Setup
      <3> DEFINE n == DataLen + (IF op = "raw" THEN 0 ELSE 1)
      <3>1. n \in Nat /\ n < IobufLength
        BY Constants
      <3>2. epoch \in Nat
        BY DEF HistType
      <3>3. tx' = [i \in 1 .. n |-> epoch] /\ thri' = thri
        BY <2>2 DEF Setup
      <3> HIDE DEF n
      <3> QED
        BY <2>0, <3>1, <3>2, <3>3, CopiesType
    <2>3. CASE InitiateSend
      BY <2>0, <2>3 DEF InitiateSend, ThriStates
    <2>4. CASE RestoreLcr \/ SwitchXF551
      BY <2>0, <2>4 DEF RestoreLcr, SwitchXF551, bufs
    <2> QED
      BY <2>1, <2>2, <2>3, <2>4
  <1>6. RingType'
    BY <1>1, <1>5 DEF RingType
  <1> QED
    BY <1>1, <1>2, <1>3, <1>4, <1>6, PartsStay DEF HostOK

LEMMA ReceivingType ==
    TypeOK /\ (ReceiveLen \/ ReceiveWoken \/ ReceiveBlock) => TypeOK'
  <1> SUFFICES ASSUME TypeOK, ReceiveLen \/ ReceiveWoken \/ ReceiveBlock
               PROVE  TypeOK'
    OBVIOUS
  <1> USE DEF TypeOK
  <1>0. HostType /\ lost \in BOOLEAN
    BY DEF FlagType
  <1>1. UNCHANGED <<env, cf, cur, baud, lcr, line, delta, last, just, autobaud, hist, tx, thri>>
    BY DEF ReceiveLen, ReceiveWoken, ReceiveBlock, env, conf
  <1>2. HostOK'
    <2>1. CASE Goto("rw_set") \/ Goto("rb") \/ Return("timeout") \/ Return("ok")
      BY <1>0, <2>1, HostMoves, HostReturns DEF PCs, Answers
    <2>2. CASE /\ ret' \in {"ok", "checksum"} /\ pc' = "put" /\ nrx' = 0
               /\ UNCHANGED <<op, tstate, lost>>
      <3>1. HostType'
        BY <1>0, <2>2 DEF HostType, PCs
      <3> QED
        BY <1>0, <2>2, <3>1 DEF HostOK
    <2> QED
      BY <2>1, <2>2 DEF ReceiveLen, ReceiveWoken, ReceiveBlock
  <1>3. FlagType'
    BY <1>1, <1>2 DEF FlagType, HostOK
  <1>4. WantLen \in Nat
    BY Constants DEF WantLen
  <1>5. rx' \in Seq([id : Int, ep : Nat]) /\ Len(rx') < IobufLength /\ wakeup' \in Nat
    <2>0. rx \in Seq([id : Int, ep : Nat]) /\ Len(rx) < IobufLength /\ wakeup \in Nat
      BY DEF RingType
    <2>1. CASE ReceiveLen
      BY <1>4, <2>0, <2>1 DEF ReceiveLen
    <2>2. CASE ReceiveWoken
      <3>1. rx' = rx \/ rx' = <<>>
        BY <2>2 DEF ReceiveWoken
      <3>2. <<>> \in Seq([id : Int, ep : Nat]) /\ Len(<<>>) = 0
        BY EmptySeq
      <3>3. wakeup' = 0
        BY <2>2 DEF ReceiveWoken
      <3>4. 0 < IobufLength
        BY Constants
      <3>5. CASE rx' = rx
        BY <2>0, <3>3, <3>5
      <3>6. CASE rx' = <<>>
        BY <3>2, <3>3, <3>4, <3>6
      <3> QED
        BY <3>1, <3>5, <3>6
    <2>3. CASE ReceiveBlock
      <3>1. wakeup' = wakeup
        BY <2>3 DEF ReceiveBlock
      <3>2. CASE Len(rx) < WantLen
        BY <2>0, <2>3, <3>1, <3>2 DEF ReceiveBlock
      <3>3. CASE ~(Len(rx) < WantLen)
        <4>1. rx' = SubSeq(rx, WantLen + 1, Len(rx))
          BY <2>3, <3>3 DEF ReceiveBlock
        <4>2. WantLen \in 0 .. Len(rx) /\ Len(rx) \in Nat
          BY <1>4, <2>0, <3>3
        <4>3. rx' \in Seq([id : Int, ep : Nat]) /\ Len(rx') = Len(rx) - WantLen
          BY <2>0, <4>1, <4>2, RestType
        <4> QED
          BY <1>4, <2>0, <3>1, <4>2, <4>3, Constants
      <3> QED
        BY <3>2, <3>3
    <2> QED
      BY <2>1, <2>2, <2>3
  <1>6. RingType'
    BY <1>1, <1>5 DEF RingType
  <1> QED
    BY <1>1, <1>2, <1>3, <1>6, PartsStay DEF HostOK

LEMMA ConfigureType == TypeOK /\ Configure => TypeOK'
  <1> SUFFICES ASSUME TypeOK, Configure PROVE TypeOK'
    OBVIOUS
  <1> USE DEF TypeOK
  <1>0. HostType /\ lost \in BOOLEAN
    BY DEF FlagType
  <1>1. UNCHANGED <<last, cur, rx, wakeup, tx, epoch>>
    BY DEF Configure
  <1>2. HostOK'
    BY <1>0, HostReturns DEF Configure, Answers
  <1>3. FlagType'
    <2>1. line' = line /\ delta' \in BOOLEAN /\ autobaud' \in BOOLEAN /\ just' \in BOOLEAN
      BY DEF Configure, SetMode, PrintStatus, SetBaudrate, SetBaud, FlagType, env, conf
    <2> QED
      BY <1>1, <1>2, <2>1 DEF FlagType, HostOK
  <1>4. EnvType'
    <2>1. CASE UNCHANGED env
      BY <2>1, PartsStay
    <2>2. CASE PrintStatus
      <3>1. rxf' = (IF rxf.n > 1 THEN [rxf EXCEPT !.n = @ - 1] ELSE NoBurst)
            /\ UNCHANGED <<txf, frames, sent>>
        BY <2>2 DEF PrintStatus
      <3>2. NoBurst \in [kind : Kinds, n : Nat, id : Int]
        BY DEF NoBurst, Kinds
      <3> QED
        BY <3>1, <3>2 DEF EnvType
    <2> QED
      BY <2>1, <2>2 DEF Configure, SetMode, SetBaudrate
  <1>5. FrameBufType'
    <2>1. CASE UNCHANGED cf
      BY <1>1, <2>1, PartsStay
    <2>2. CASE SetMode
      <3> DEFINE d == ResetData(cf)
      <3>1. <<>> \in Seq(Int) /\ Len(<<>>) = 0
        BY EmptySeq
      <3>2. d \in FrameType /\ d.buf = <<>>
        BY <3>1 DEF ResetData, FrameType, FrameBufType
      <3>3. cf' = [d EXCEPT !.serial = 0, !.missed = 0]
        BY <2>2 DEF SetMode
      <3> HIDE DEF d
      <3>4. cf' \in FrameType /\ cf'.buf = <<>>
        BY <3>2, <3>3 DEF FrameType
      <3> QED
        BY <1>1, <3>1, <3>4 DEF FrameBufType, FrameLength
    <2> QED
      BY <2>1, <2>2 DEF Configure, PrintStatus, SetBaudrate
  <1>6. RingType'
    <2>1. thri' \in ThriStates
      BY DEF Configure, SetMode, PrintStatus, SetBaudrate, RingType, ThriStates
    <2> QED
      BY <1>1, <2>1 DEF RingType
  <1>7. ConfigType'
    BY DEF Configure, SetMode, PrintStatus, SetBaudrate, SetBaud, conf, ConfigType, Bauds
  <1>8. HistType'
    BY <1>1 DEF Configure, SetMode, PrintStatus, SetBaudrate, HistType, Fates
  <1> QED
    BY <1>2, <1>3, <1>4, <1>5, <1>6, <1>7, <1>8 DEF HostOK

LEMMA CallType == TypeOK /\ Call => TypeOK'
  <1> SUFFICES ASSUME TypeOK, Call PROVE TypeOK'
    OBVIOUS
  <1> USE DEF TypeOK
  <1>1. UNCHANGED <<env, cf, cur, bufs, baud, lcr, hist, line, delta, last, just, autobaud, lost>>
    BY DEF Call, env, conf
  <1>2. HostType'
    <2>1. PICK o \in Ops : op' = o /\ pc' = EntryOf(o)
      BY DEF Call
    <2>2. o \in AllOps
      BY ServerAssumption
    <2>3. EntryOf(o) \in PCs
      BY DEF EntryOf, PCs
    <2> QED
      BY <2>1, <2>2, <2>3 DEF Call, HostType
  <1> QED
    BY <1>1, <1>2, PartsStay

LEMMA InterruptType == TypeOK /\ Interrupt => TypeOK'
  <1> SUFFICES ASSUME TypeOK, Interrupt PROVE TypeOK'
    OBVIOUS
  <1> USE DEF TypeOK
  <1> DEFINE rise == line /\ ~last
             end  == delta /\ ~line
             c1   == IF rise THEN StartFrame(cf) ELSE cf
             c2   == IF c1.receiving THEN CollectChars(c1, rxf) ELSE c1
             r2   == IF c1.receiving THEN rx ELSE FillRing(rx, rxf)
             q    == Quality(c2)
             bad  == end /\ q # "ok"
             t3   == Flush(end, tx)
             f3   == IF bad THEN 0 ELSE txf
             load == IF f3 > 0 THEN 0
                     ELSE IF Len(t3) < FifoLen THEN Len(t3) ELSE FifoLen
             t4   == SubSeq(t3, load + 1, Len(t3))
             idle == f3 = 0 /\ t4 = <<>>
  <1>0. HostType /\ lost \in BOOLEAN /\ rxf \in BurstType
    BY DEF FlagType, EnvType, BurstType
  <1>1. UNCHANGED <<line, frames, sent, cur, wakeup, autobaud, pc, op, ret, nrx>>
    BY DEF Interrupt
  <1>2. c1 \in FrameType /\ Len(c1.buf) <= FrameLength
    BY StartFrameType DEF FrameBufType
  <1>3. c2 \in FrameType /\ Len(c2.buf) <= FrameLength
    <2> HIDE DEF c1
    <2> QED
      BY <1>0, <1>2, CollectCharsType
  <1>4. r2 \in Seq(ItemType) /\ Len(r2) < IobufLength
    <2>1. rx \in Seq(ItemType) /\ Len(rx) < IobufLength /\ epoch \in Nat
      BY DEF RingType, HistType, ItemType
    <2> HIDE DEF c1
    <2> QED
      BY <1>0, <2>1, FillRingType
  <1>5. t3 \in Seq(Nat) /\ Len(t3) < IobufLength /\ Len(t3) \in Nat
    <2>1. <<>> \in Seq(Nat) /\ Len(<<>>) = 0
      BY EmptySeq
    <2> QED
      BY <2>1, Constants DEF RingType, Flush
  <1>6. load \in 0 .. Len(t3) /\ f3 \in Nat
    <2>1. txf \in Nat
      BY DEF EnvType
    <2> HIDE DEF t3, bad
    <2> QED
      BY <1>5, <2>1, Constants
  <1>7. t4 \in Seq(Nat) /\ Len(t4) < IobufLength
    <2> HIDE DEF t3, load
    <2>1. t4 \in Seq(Nat) /\ Len(t4) = Len(t3) - load
      BY <1>5, <1>6, RestType
    <2> QED
      BY <1>5, <1>6, <2>1, Constants
  <1>8. /\ cf' = (IF end THEN EndFrame(c2) ELSE c2)
        /\ rx' = Flush(end, r2)
        /\ tx' = t4
        /\ txf' = f3 + load
        /\ thri' = (IF idle THEN "off" ELSE IF load > 0 /\ thri = "read" THEN "armed" ELSE thri)
        /\ lcr' = (IF rxf.n > 0 THEN "std" ELSE lcr)
        /\ baud' = (IF bad /\ SwitchesBaud(q) THEN OtherBaud ELSE baud)
        /\ Wake(end /\ q = "ok", wakeup \in (Len(rx) + 1) .. Len(r2), idle)
        /\ epoch' = (IF end THEN epoch + 1 ELSE epoch)
        /\ fate' = FatesAfter(rise, end, c2)
        /\ rxf' = NoBurst
    BY DEF Interrupt
  <1>9. /\ just' = (IF end THEN bad /\ SwitchesBaud(q) ELSE just)
        /\ lost' = (lost \/ (op \in SendOps /\ ((end /\ tx # <<>>) \/ (bad /\ txf > 0))))
        /\ last' = line /\ delta' = FALSE
    BY DEF Interrupt
  <1> HIDE DEF end, rise, bad, c2, r2, q, t3, t4, f3, load, idle
  <1>10. FlagType'
    <2>1. just' \in BOOLEAN /\ lost' \in BOOLEAN
      <3>1. bad \in BOOLEAN
        BY DEF bad
      <3>2. SwitchesBaud(q) \in BOOLEAN
        BY DEF SwitchesBaud, FlagType
      <3> QED
        BY <1>0, <1>9, <3>1, <3>2 DEF FlagType
    <2>2. line' \in BOOLEAN /\ delta' \in BOOLEAN /\ last' \in BOOLEAN /\ autobaud' \in BOOLEAN
      BY <1>1, <1>9 DEF FlagType
    <2> QED
      BY <2>1, <2>2 DEF FlagType
  <1>11. EnvType'
    <2>1. NoBurst \in [kind : Kinds, n : Nat, id : Int]
      BY DEF NoBurst, Kinds
    <2>2. f3 + load \in Nat
      BY <1>5, <1>6
    <2> QED
      BY <1>1, <1>8, <2>1, <2>2 DEF EnvType
  <1>12. FrameBufType'
    BY <1>1, <1>3, <1>8, EndFrameType DEF FrameBufType
  <1>13. RingType'
    <2>1. <<>> \in Seq(ItemType) /\ Len(<<>>) = 0 /\ 0 < IobufLength
      BY EmptySeq, Constants
    <2>2. rx' \in Seq(ItemType) /\ Len(rx') < IobufLength
      BY <1>4, <1>8, <2>1 DEF Flush
    <2>3. thri' \in ThriStates
      BY <1>8 DEF RingType, ThriStates
    <2> QED
      BY <1>1, <1>7, <1>8, <2>2, <2>3 DEF RingType, ItemType
  <1>14. ConfigType'
    BY <1>8 DEF ConfigType, Bauds, OtherBaud
  <1>15. HostType'
    BY <1>0, <1>1, <1>8 DEF HostType, Wake
  <1>16. HistType'
    <2>1. epoch' \in Nat
      BY <1>8 DEF HistType
    <2>2. fate' \in [1 .. MaxFrames -> Fates]
      <3> DEFINE f1 == [i \in 1 .. MaxFrames |->
                          IF fate[i] = "pending" /\ rise THEN "missed"
                          ELSE IF fate[i] = "pending" /\ end THEN "dropped"
                          ELSE fate[i]]
      <3>1. f1 \in [1 .. MaxFrames -> Fates]
        BY DEF HistType, Fates
      <3>2. fate' = (IF end /\ Quality(c2) = "ok" THEN [f1 EXCEPT ![c2.buf[1]] = "pending"]
                     ELSE f1)
        BY <1>8 DEF FatesAfter
      <3> HIDE DEF f1
      <3> QED
        BY <3>1, <3>2 DEF Fates
    <2> QED
      BY <2>1, <2>2 DEF HistType
  <1> QED
    BY <1>10, <1>11, <1>12, <1>13, <1>14, <1>15, <1>16

\* Every variable keeps its type and neither ring ever holds IOBUF_LENGTH
\* characters, whatever the Atari sends and whichever ioctls are called.
THEOREM TypeCorrect == Spec => []TypeOK
  <1>1. TypeOK /\ [Next]_vars => TypeOK'
    <2> SUFFICES ASSUME TypeOK, [Next]_vars PROVE TypeOK'
      OBVIOUS
    <2>1. CASE Next
      BY <2>1, EnvironmentType, InterruptType, CallType, WaitingType, FetchingType,
         SendingType, ReceivingType, ConfigureType DEF Next, Run
    <2>2. CASE UNCHANGED vars
      BY <2>2, PartsStay DEF vars, TypeOK, env, conf, host, local
    <2> QED
      BY <2>1, <2>2
  <1> QED
    BY InitType, <1>1, PTL DEF Spec

-----------------------------------------------------------------------------
(* No reply and no data survive the end of a command frame.                *)

\* What receive_chars adds to the ring belongs to the current epoch.
LEMMA FillRingEpoch ==
    ASSUME NEW r \in Seq(ItemType), Len(r) < IobufLength, NEW b \in BurstType,
           epoch \in Nat, \A i \in 1 .. Len(r) : r[i].ep = epoch
    PROVE  \A i \in 1 .. Len(FillRing(r, b)) : FillRing(r, b)[i].ep = epoch
  <1> DEFINE room == (IobufLength - 1) - Len(r)
             take == IF b.n < room THEN b.n ELSE room
             item == [id |-> IdOf(b), ep |-> epoch]
             new  == [i \in 1 .. take |-> item]
  <1>1. IobufLength \in Nat /\ Len(r) \in Nat /\ b.n \in Nat
    BY Constants DEF BurstType
  <1>2. take \in Nat
    BY <1>1
  <1>3. item \in ItemType /\ item.ep = epoch
    BY DEF IdOf, BurstType, ItemType
  <1>4. FillRing(r, b) = IF IsOk(b) THEN r \o new ELSE r
    BY DEF FillRing
  <1> HIDE DEF item
  <1>5. new \in Seq(ItemType) /\ Len(new) = take /\ \A i \in 1 .. take : new[i] = item
    BY <1>2, <1>3, CopiesType
  <1> HIDE DEF take, new
  <1>6. /\ Len(r \o new) = Len(r) + take
        /\ \A i \in 1 .. Len(r) + take :
             (r \o new)[i] = IF i <= Len(r) THEN r[i] ELSE new[i - Len(r)]
    BY <1>5, ConcatProperties
  <1>7. \A i \in 1 .. Len(r) + take : (r \o new)[i].ep = epoch
    <2> TAKE i \in 1 .. Len(r) + take
    <2>1. CASE i <= Len(r)
      BY <1>1, <1>2, <1>6, <2>1
    <2>2. CASE ~(i <= Len(r))
      <3>1. i - Len(r) \in 1 .. take
        BY <1>1, <1>2, <2>2
      <3> QED
        BY <1>3, <1>5, <1>6, <2>2, <3>1
    <2> QED
      BY <2>1, <2>2
  <1> QED
    BY <1>4, <1>6, <1>7

LEMMA FlushedOneEpoch ==
    ASSUME TypeOK, OneEpoch, Interrupt
    PROVE  OneEpoch'
  <1> DEFINE rise == line /\ ~last
             end  == delta /\ ~line
             c1   == IF rise THEN StartFrame(cf) ELSE cf
             c2   == IF c1.receiving THEN CollectChars(c1, rxf) ELSE c1
             r2   == IF c1.receiving THEN rx ELSE FillRing(rx, rxf)
             bad  == end /\ Quality(c2) # "ok"
             t3   == Flush(end, tx)
             f3   == IF bad THEN 0 ELSE txf
             load == IF f3 > 0 THEN 0
                     ELSE IF Len(t3) < FifoLen THEN Len(t3) ELSE FifoLen
             t4   == SubSeq(t3, load + 1, Len(t3))
  <1>1. rx' = Flush(end, r2) /\ tx' = t4 /\ epoch' = (IF end THEN epoch + 1 ELSE epoch)
    BY DEF Interrupt
  <1>2. /\ rx \in Seq(ItemType) /\ tx \in Seq(Nat) /\ epoch \in Nat /\ txf \in Nat
        /\ rxf \in BurstType /\ Len(rx) < IobufLength
    BY DEF TypeOK, RingType, HistType, EnvType, ItemType, BurstType
  <1>3. CASE end
    <2>1. rx' = <<>> /\ t3 = <<>>
      BY <1>1, <1>3 DEF Flush
    <2>2. Len(<<>>) = 0
      BY EmptySeq
    <2>3. load = 0
      <3> HIDE DEF bad, t3
      <3> QED
        BY <1>2, <2>1, <2>2, Constants
    <2>4. tx' = <<>>
      <3> HIDE DEF t3, load
      <3>1. tx' = SubSeq(<<>>, 1, 0)
        BY <1>1, <2>1, <2>2, <2>3
      <3> QED
        BY <3>1, SubSeqEmpty
    <2> QED
      BY <2>1, <2>2, <2>4 DEF OneEpoch
  <1>4. CASE ~end
    <2>1. epoch' = epoch /\ t3 = tx /\ rx' = r2
      BY <1>1, <1>4 DEF Flush
    <2>2. \A i \in 1 .. Len(rx') : rx'[i].ep = epoch
      <3>1. CASE r2 = rx
        BY <2>1, <3>1 DEF OneEpoch
      <3>2. CASE r2 = FillRing(rx, rxf)
        BY <1>2, <2>1, <3>2, FillRingEpoch DEF OneEpoch
      <3> QED
        BY <3>1, <3>2
    <2>3. \A i \in 1 .. Len(tx') : tx'[i] = epoch
      <3>1. load \in 0 .. Len(tx) /\ Len(tx) \in Nat
        <4> HIDE DEF bad, t3
        <4> QED
          BY <1>2, <2>1, Constants
      <3>2. tx' = SubSeq(tx, load + 1, Len(tx))
        BY <1>1, <2>1
      <3> HIDE DEF load
      <3>3. /\ Len(tx') = Len(tx) - load
            /\ \A i \in 1 .. Len(tx) - load : tx'[i] = tx[i + load]
        BY <1>2, <3>1, <3>2, RestType
      <3> QED
        BY <3>1, <3>3 DEF OneEpoch
    <2> QED
      BY <2>1, <2>2, <2>3 DEF OneEpoch
  <1> QED
    BY <1>3, <1>4

\* The process stores and removes characters only within an epoch.
LEMMA ProcessOneEpoch ==
    ASSUME TypeOK, OneEpoch, Put \/ Setup \/ GetTake \/ ReceiveWoken \/ ReceiveBlock
    PROVE  OneEpoch'
  <1>0. epoch' = epoch
    BY DEF Put, Setup, GetTake, ReceiveWoken, ReceiveBlock, hist
  <1>1. /\ rx \in Seq(ItemType) /\ tx \in Seq(Nat) /\ epoch \in Nat
        /\ Len(tx) \in Nat /\ Len(rx) \in Nat
    BY DEF TypeOK, RingType, HistType, ItemType
  <1>2. Len(<<>>) = 0
    BY EmptySeq
  <1>3. \A i \in 1 .. Len(tx') : tx'[i] = epoch
    <2>1. CASE Put
      <3>1. tx' = <<>> \/ tx' = Append(tx, epoch)
        BY <2>1 DEF Put
      <3>2. CASE tx' = Append(tx, epoch)
        <4>1. /\ Len(Append(tx, epoch)) = Len(tx) + 1
              /\ \A i \in 1 .. Len(tx) : Append(tx, epoch)[i] = tx[i]
              /\ Append(tx, epoch)[Len(tx) + 1] = epoch
          BY <1>1, AppendProperties
        <4> QED
          BY <1>1, <3>2, <4>1 DEF OneEpoch
      <3> QED
        BY <1>2, <3>1, <3>2
    <2>2. CASE Setup
      <3> DEFINE n == DataLen + (IF op = "raw" THEN 0 ELSE 1)
      <3>1. n \in Nat
        BY Constants
      <3>2. tx' = [i \in 1 .. n |-> epoch]
        BY <2>2 DEF Setup
      <3> HIDE DEF n
      <3>3. Len(tx') = n
        BY <1>1, <3>1, <3>2, CopiesType
      <3> QED
        BY <3>2, <3>3
    <2>3. CASE GetTake
      BY <1>2, <2>3 DEF GetTake
    <2>4. CASE ReceiveWoken \/ ReceiveBlock
      BY <2>4 DEF ReceiveWoken, ReceiveBlock, OneEpoch
    <2> QED
      BY <2>1, <2>2, <2>3, <2>4
  <1>4. \A i \in 1 .. Len(rx') : rx'[i].ep = epoch
    <2>1. CASE rx' = rx
      BY <2>1 DEF OneEpoch
    <2>2. CASE rx' = <<>>
      BY <1>2, <2>2
    <2>3. CASE ReceiveBlock /\ ~(Len(rx) < WantLen)
      <3>1. rx' = SubSeq(rx, WantLen + 1, Len(rx))
        BY <2>3 DEF ReceiveBlock
      <3>2. WantLen \in Nat
        BY Constants DEF WantLen
      <3>3. WantLen \in 0 .. Len(rx)
        BY <1>1, <2>3, <3>2
      <3>4. /\ Len(rx') = Len(rx) - WantLen
            /\ \A i \in 1 .. Len(rx) - WantLen : rx'[i] = rx[i + WantLen]
        BY <1>1, <3>1, <3>3, RestType
      <3>5. \A i \in 1 .. Len(rx) : rx[i].ep = epoch
        BY DEF OneEpoch
      <3> QED
        BY <1>1, <3>2, <3>4, <3>5
    <2> QED
      BY <2>1, <2>2, <2>3 DEF Put, Setup, GetTake, ReceiveWoken, ReceiveBlock
  <1> QED
    BY <1>0, <1>3, <1>4 DEF OneEpoch

\* Nothing in the rings is older than the last command frame: no reply to an
\* aborted command is transmitted after the next command frame, and no data
\* of it are taken for the data frame of the next command.
THEOREM RingsHoldOneEpoch == Spec => []OneEpoch
  <1>1. Init => OneEpoch
    <2> SUFFICES ASSUME Init PROVE OneEpoch
      OBVIOUS
    <2>1. rx = <<>> /\ tx = <<>> /\ Len(<<>>) = 0
      BY EmptySeq DEF Init
    <2> QED
      BY <2>1 DEF OneEpoch
  <1>2. TypeOK /\ OneEpoch /\ [Next]_vars => OneEpoch'
    <2> SUFFICES ASSUME TypeOK, OneEpoch, [Next]_vars PROVE OneEpoch'
      OBVIOUS
    <2>1. CASE Interrupt
      BY <2>1, FlushedOneEpoch
    <2>2. CASE Put \/ Setup \/ GetTake \/ ReceiveWoken \/ ReceiveBlock
      BY <2>2, ProcessOneEpoch
    <2>3. CASE UNCHANGED <<rx, tx, epoch>>
      BY <2>3 DEF OneEpoch
    <2>4. CASE Environment \/ Call \/ Timeout \/ Signal
      BY <2>3, <2>4 DEF Environment, Assert, Deassert, SendBurst, Drain, FrameAges, Call,
                        Timeout, Signal, DeviceUnchanged, bufs, hist
    <2>5. CASE Poll \/ GetSleep \/ GetNone \/ GetExpired \/ Check \/ CheckTime \/ SendSleep
               \/ ReceiveSleep
      BY <2>3, <2>5 DEF Poll, GetSleep, GetNone, GetExpired, Check, CheckTime, SendSleep,
                        ReceiveSleep, DeviceUnchanged, bufs, hist
    <2>6. CASE InitiateSend \/ RestoreLcr \/ SwitchXF551 \/ ReceiveLen \/ Configure
      BY <2>3, <2>6 DEF InitiateSend, RestoreLcr, SwitchXF551, ReceiveLen, Configure,
                        bufs, hist
    <2>7. CASE UNCHANGED vars
      BY <2>3, <2>7 DEF vars, bufs, hist
    <2> QED
      BY <2>1, <2>2, <2>4, <2>5, <2>6, <2>7 DEF Next, Run
  <1> QED
    BY <1>1, <1>2, TypeCorrect, PTL DEF Spec

-----------------------------------------------------------------------------
(* No wake-up is lost, as long as the processor keeps the order of the     *)
(* store of the task state and the test that follows it, and nobody reads  *)
(* the interrupt identification register.                                  *)

InOrder == ~StoreReorder /\ "print" \notin Ops

Usual == pc \notin {"g_store", "ws_store"} /\ thri # "read" /\ op # "print"

\* A process between the test of its condition and its sleep is covered, too.
CoveredReceive == (pc \in RxQueue => wakeup = WantLen) /\ NotifiedReceive
CoveredSend    == (pc \in TxQueue /\ tx # <<>> => thri = "armed") /\ NotifiedSend

WakeInv == Usual /\ NotifiedGet /\ CoveredReceive /\ CoveredSend

LEMMA UsualStep ==
    ASSUME InOrder, TypeOK, Usual, [Next]_vars
    PROVE  Usual'
  <1>1. thri \in ThriStates
    BY DEF TypeOK, RingType
  <1>2. CASE Interrupt
    BY <1>1, <1>2 DEF Interrupt, Usual
  <1>3. CASE Environment
    BY <1>3 DEF Environment, Assert, Deassert, SendBurst, Drain, FrameAges, Usual,
                bufs, host, local
  <1>4. CASE Call
    <2>1. PICK o \in Ops : op' = o /\ pc' = EntryOf(o)
      BY <1>4 DEF Call
    <2>2. EntryOf(o) \notin {"g_store", "ws_store"}
      BY DEF EntryOf
    <2>3. thri' = thri
      BY <1>4 DEF Call, bufs
    <2> QED
      BY <2>1, <2>2, <2>3 DEF Usual, InOrder
  <1>5. CASE Timeout \/ Signal \/ Poll \/ GetSleep \/ GetNone \/ Check \/ CheckTime
             \/ SendSleep \/ ReceiveSleep
    <2>1. thri' = thri
      BY <1>5 DEF Timeout, Signal, Poll, GetSleep, GetNone, Check, CheckTime, SendSleep,
                  ReceiveSleep, DeviceUnchanged, bufs
    <2>2. op' = op \/ op' = "none"
      BY <1>5 DEF Timeout, Signal, Poll, GetSleep, GetNone, Check, CheckTime, SendSleep,
                  ReceiveSleep, Goto, Sleep, Awake, Return, Finish, local
    <2>3. pc' \notin {"g_store", "ws_store"}
      BY <1>5 DEF Timeout, Signal, Poll, GetSleep, GetNone, Check, CheckTime, SendSleep,
                  ReceiveSleep, Goto, Sleep, Awake, Return, Finish, Usual, InOrder
    <2> QED
      BY <2>1, <2>2, <2>3 DEF Usual
  <1>6. CASE GetExpired \/ GetTake \/ Put \/ Setup \/ InitiateSend \/ RestoreLcr \/ SwitchXF551
             \/ ReceiveLen \/ ReceiveWoken \/ ReceiveBlock
    BY <1>1, <1>6
       DEF GetExpired, GetTake, Put, Setup, InitiateSend, RestoreLcr, SwitchXF551, ReceiveLen,
           ReceiveWoken, ReceiveBlock, Goto, Return, local, bufs, Usual, ThriStates
  <1>7. CASE Configure
    <2>1. thri' = thri
      BY <1>7 DEF Configure, SetMode, PrintStatus, SetBaudrate, Usual
    <2> QED
      BY <1>7, <2>1 DEF Configure, Return, Usual
  <1>8. CASE UNCHANGED vars
    BY <1>8 DEF vars, host, local, bufs, Usual
  <1> QED
    BY <1>2, <1>3, <1>4, <1>5, <1>6, <1>7, <1>8 DEF Next, Run

LEMMA NotifiedGetStep ==
    ASSUME InOrder, TypeOK, Usual, NotifiedGet, [Next]_vars
    PROVE  NotifiedGet'
  <1>0. cf \in FrameType /\ rxf \in BurstType
    BY DEF TypeOK, FrameBufType, EnvType, BurstType
  <1>1. CASE Interrupt
    <2> DEFINE rise == line /\ ~last
               end  == delta /\ ~line
               c1   == IF rise THEN StartFrame(cf) ELSE cf
               c2   == IF c1.receiving THEN CollectChars(c1, rxf) ELSE c1
    <2>1. /\ cf' = (IF end THEN EndFrame(c2) ELSE c2)
          /\ tstate' = "S" => tstate = "S" /\ (pc \in CmdQueue => ~(end /\ Quality(c2) = "ok"))
          /\ pc' = pc
      BY <1>1 DEF Interrupt, Wake
    <2> SUFFICES ASSUME pc = "g_sched", tstate' = "S" PROVE ~cf'.valid
      BY <2>1 DEF NotifiedGet
    <2>2. ~cf.valid /\ ~(end /\ Quality(c2) = "ok")
      BY <2>1 DEF NotifiedGet, CmdQueue
    <2>3. CASE end
      <3>1. EndFrame(c2).valid = (Quality(c2) = "ok")
        <4>1. c1 \in FrameType
          BY <1>0, StartFrameType DEF TypeOK, FrameBufType
        <4>2. c2 \in FrameType
          <5> HIDE DEF c1
          <5>1. Len(c1.buf) <= FrameLength
            BY StartFrameType DEF TypeOK, FrameBufType, c1
          <5> QED
            BY <1>0, <4>1, <5>1, CollectCharsType
        <4> HIDE DEF c2
        <4> QED
          BY <4>2 DEF EndFrame, FrameType
      <3> HIDE DEF c2
      <3> QED
        BY <2>1, <2>2, <2>3, <3>1
    <2>4. CASE ~end
      <3>1. cf' = c2
        BY <2>1, <2>4
      <3>2. ~c1.valid
        <4>1. ~StartFrame(cf).valid
          BY <1>0 DEF StartFrame, ResetData, FrameType
        <4> QED
          BY <2>2, <4>1
      <3>3. c2.valid = c1.valid
        <4>1. c1 \in FrameType
          BY <1>0, StartFrameType DEF TypeOK, FrameBufType
        <4> HIDE DEF c1
        <4>2. CollectChars(c1, rxf).valid = c1.valid
          BY <4>1 DEF CollectChars, FrameType
        <4> QED
          BY <4>2
      <3> QED
        BY <3>1, <3>2, <3>3
    <2> QED
      BY <2>3, <2>4
  <1>2. CASE Environment
    <2>1. pc' = pc /\ tstate' = tstate
      BY <1>2 DEF Environment, Assert, Deassert, SendBurst, Drain, FrameAges, host
    <2>2. cf' = cf \/ cf' = [cf EXCEPT !.fresh = FALSE]
      BY <1>2 DEF Environment, Assert, Deassert, SendBurst, Drain, FrameAges
    <2>3. cf'.valid = cf.valid
      BY <1>0, <2>2 DEF FrameType
    <2> QED
      BY <2>1, <2>3 DEF NotifiedGet
  <1>3. CASE GetSleep
    BY <1>3 DEF GetSleep, DeviceUnchanged, NotifiedGet, Goto, Sleep, Awake, InOrder, Usual
  <1>4. CASE pc' # "g_sched"
    BY <1>4 DEF NotifiedGet
  <1>5. CASE Call
    <2>1. PICK o \in Ops : pc' = EntryOf(o)
      BY <1>5 DEF Call
    <2> QED
      BY <1>4, <2>1 DEF EntryOf
  <1>6. CASE Timeout \/ Signal \/ Poll \/ GetNone \/ Check \/ CheckTime \/ SendSleep
             \/ ReceiveSleep
    BY <1>4, <1>6 DEF Timeout, Signal, Poll, GetNone, Check, CheckTime, SendSleep,
                      ReceiveSleep, Goto, Sleep, Awake, Return, Finish
  <1>7. CASE GetExpired \/ GetTake \/ Put \/ Setup \/ InitiateSend \/ RestoreLcr \/ SwitchXF551
             \/ ReceiveLen \/ ReceiveWoken \/ ReceiveBlock \/ Configure
    BY <1>4, <1>7
       DEF GetExpired, GetTake, Put, Setup, InitiateSend, RestoreLcr, SwitchXF551, ReceiveLen,
           ReceiveWoken, ReceiveBlock, Configure, Goto, Return
  <1>8. CASE UNCHANGED vars
    BY <1>8 DEF vars, host, NotifiedGet
  <1> QED
    BY <1>1, <1>2, <1>3, <1>5, <1>6, <1>7, <1>8 DEF Next, Run

LEMMA CoveredReceiveStep ==
    ASSUME InOrder, TypeOK, CoveredReceive, [Next]_vars
    PROVE  CoveredReceive'
  <1> USE DEF RxQueue
  <1>0. WantLen \in Nat
    BY Constants DEF WantLen
  <1>1. CASE Interrupt
    <2> DEFINE c1   == IF line /\ ~last THEN StartFrame(cf) ELSE cf
               r2   == IF c1.receiving THEN rx ELSE FillRing(rx, rxf)
               end  == delta /\ ~line
    <2>1. /\ rx' = Flush(end, r2) /\ UNCHANGED <<wakeup, pc, op>>
          /\ tstate' = "S" => tstate = "S"
                /\ (pc \in RxQueue => wakeup \notin (Len(rx) + 1) .. Len(r2))
      BY <1>1 DEF Interrupt, Wake
    <2>2. WantLen' = WantLen
      BY <2>1 DEF WantLen
    <2>3. ASSUME pc = "rw_sched", tstate' = "S" PROVE Len(rx') < WantLen
      <3>1. Len(rx) < WantLen /\ wakeup = WantLen /\ wakeup \notin (Len(rx) + 1) .. Len(r2)
        BY <2>1, <2>3 DEF CoveredReceive, NotifiedReceive
      <3>2. /\ rx \in Seq(ItemType) /\ Len(rx) < IobufLength /\ epoch \in Nat
            /\ rxf \in BurstType
        BY DEF TypeOK, RingType, EnvType, HistType, ItemType, BurstType
      <3>3. r2 \in Seq(ItemType)
        <4> HIDE DEF c1
        <4> QED
          BY <3>2, FillRingType
      <3>4. Len(r2) < WantLen
        <4>1. Len(r2) \in Nat /\ Len(rx) \in Nat
          BY <3>2, <3>3
        <4> HIDE DEF r2
        <4> QED
          BY <1>0, <3>1, <4>1
      <3>5. Len(<<>>) = 0 /\ 0 < WantLen
        BY EmptySeq, Constants DEF WantLen
      <3> QED
        BY <2>1, <3>4, <3>5 DEF Flush
    <2> QED
      BY <2>1, <2>2, <2>3 DEF CoveredReceive, NotifiedReceive
  <1>2. CASE Environment
    BY <1>2 DEF Environment, Assert, Deassert, SendBurst, Drain, FrameAges, host, local, bufs,
                CoveredReceive, NotifiedReceive, WantLen
  <1>3. CASE ReceiveSleep
    <2>1. Len(rx) \in Nat
      BY DEF TypeOK, RingType
    <2>2. UNCHANGED <<rx, wakeup>> /\ op' = op
      BY <1>3 DEF ReceiveSleep, DeviceUnchanged, bufs, Goto, Sleep, local
    <2>3. WantLen' = WantLen
      BY <2>2 DEF WantLen
    <2>4. pc \in RxQueue /\ (pc' = "rw_sched" => Len(rx) < WantLen)
      BY <1>0, <1>3, <2>1 DEF ReceiveSleep, Goto, Sleep
    <2> QED
      BY <2>2, <2>3, <2>4 DEF CoveredReceive, NotifiedReceive
  <1>4. CASE ReceiveLen
    BY <1>4 DEF ReceiveLen, Goto, local, CoveredReceive, NotifiedReceive, WantLen
  <1>5. CASE pc' \notin RxQueue
    BY <1>5 DEF CoveredReceive, NotifiedReceive
  <1>6. CASE Call
    <2>1. PICK o \in Ops : pc' = EntryOf(o)
      BY <1>6 DEF Call
    <2> QED
      BY <1>5, <2>1 DEF EntryOf
  <1>7. CASE Timeout \/ Signal \/ Poll \/ GetSleep \/ GetNone \/ Check \/ CheckTime \/ SendSleep
    BY <1>5, <1>7 DEF Timeout, Signal, Poll, GetSleep, GetNone, Check, CheckTime, SendSleep,
                      Goto, Sleep, Awake, Return, Finish
  <1>8. CASE GetExpired \/ GetTake \/ Put \/ Setup \/ InitiateSend \/ RestoreLcr \/ SwitchXF551
             \/ ReceiveWoken \/ ReceiveBlock \/ Configure
    BY <1>5, <1>8
       DEF GetExpired, GetTake, Put, Setup, InitiateSend, RestoreLcr, SwitchXF551,
           ReceiveWoken, ReceiveBlock, Configure, Goto, Return
  <1>9. CASE UNCHANGED vars
    BY <1>9 DEF vars, host, local, bufs, CoveredReceive, NotifiedReceive, WantLen
  <1> QED
    BY <1>1, <1>2, <1>3, <1>4, <1>6, <1>7, <1>8, <1>9 DEF Next, Run

LEMMA CoveredSendStep ==
    ASSUME InOrder, TypeOK, Usual, CoveredSend, [Next]_vars
    PROVE  CoveredSend'
  <1> USE DEF TxQueue
  <1>0. thri \in {"off", "armed"}
    BY DEF TypeOK, RingType, ThriStates, Usual
  <1>1. CASE Interrupt
    <2> DEFINE end  == delta /\ ~line
               c1   == IF line /\ ~last THEN StartFrame(cf) ELSE cf
               c2   == IF c1.receiving THEN CollectChars(c1, rxf) ELSE c1
               bad  == end /\ Quality(c2) # "ok"
               t3   == Flush(end, tx)
               f3   == IF bad THEN 0 ELSE txf
               load == IF f3 > 0 THEN 0
                       ELSE IF Len(t3) < FifoLen THEN Len(t3) ELSE FifoLen
               t4   == SubSeq(t3, load + 1, Len(t3))
               idle == f3 = 0 /\ t4 = <<>>
    <2>1. /\ tx' = t4 /\ pc' = pc
          /\ thri' = (IF idle THEN "off" ELSE IF load > 0 /\ thri = "read" THEN "armed" ELSE thri)
          /\ tstate' = "S" => tstate = "S" /\ ~(idle /\ pc \in TxQueue)
      BY <1>1 DEF Interrupt, Wake
    <2>2. t4 # <<>> => tx # <<>>
      <3> SUFFICES ASSUME tx = <<>> PROVE t4 = <<>>
        OBVIOUS
      <3>1. t3 = <<>> /\ Len(<<>>) = 0
        BY EmptySeq DEF Flush
      <3>2. load = 0
        <4>1. txf \in Nat
          BY DEF TypeOK, EnvType
        <4> HIDE DEF bad, t3
        <4> QED
          BY <3>1, <4>1, Constants
      <3> HIDE DEF t3, load
      <3>3. t4 = SubSeq(<<>>, 1, 0)
        BY <3>1, <3>2
      <3>4. 0 \in Int /\ 1 \in Int /\ 0 < 1
        OBVIOUS
      <3>5. SubSeq(<<>>, 1, 0) = <<>>
        BY <3>4, SubSeqEmpty, Zenon
      <3> QED
        BY <3>3, <3>5
    <2>3. tx' # <<>> => tx # <<>> /\ ~idle
      BY <2>1, <2>2
    <2> HIDE DEF idle, load
    <2>4. ~idle => thri' = thri
      BY <1>0, <2>1
    <2> QED
      BY <2>1, <2>3, <2>4 DEF CoveredSend, NotifiedSend
  <1>2. CASE Environment
    <2>1. UNCHANGED <<pc, tx, tstate>> /\ thri' = thri
      BY <1>2 DEF Environment, Assert, Deassert, SendBurst, Drain, FrameAges, host, local, bufs
    <2> QED
      BY <2>1 DEF CoveredSend, NotifiedSend
  <1>3. CASE SendSleep
    <2>1. tx' = tx /\ thri' = thri
      BY <1>3 DEF SendSleep, DeviceUnchanged, bufs
    <2> QED
      BY <1>3, <2>1 DEF SendSleep, Goto, Sleep, Awake, Return, Finish, local, CoveredSend,
                        NotifiedSend, Usual
  <1>4. CASE InitiateSend
    <2>1. pc' = "ws_set" /\ tx' = tx
      BY <1>4 DEF InitiateSend, Goto
    <2>2. tx # <<>> => thri' = "armed"
      BY <1>0, <1>4 DEF InitiateSend
    <2> QED
      BY <2>1, <2>2 DEF CoveredSend, NotifiedSend
  <1>5. CASE pc' \notin TxQueue
    BY <1>5 DEF CoveredSend, NotifiedSend
  <1>6. CASE Call
    <2>1. PICK o \in Ops : pc' = EntryOf(o)
      BY <1>6 DEF Call
    <2> QED
      BY <1>5, <2>1 DEF EntryOf
  <1>7. CASE Timeout \/ Signal \/ Poll \/ GetSleep \/ GetNone \/ Check \/ CheckTime \/ ReceiveSleep
    BY <1>5, <1>7 DEF Timeout, Signal, Poll, GetSleep, GetNone, Check, CheckTime, ReceiveSleep,
                      Goto, Sleep, Awake, Return, Finish
  <1>8. CASE GetExpired \/ GetTake \/ Put \/ Setup \/ RestoreLcr \/ SwitchXF551
             \/ ReceiveLen \/ ReceiveWoken \/ ReceiveBlock \/ Configure
    BY <1>5, <1>8
       DEF GetExpired, GetTake, Put, Setup, RestoreLcr, SwitchXF551, ReceiveLen,
           ReceiveWoken, ReceiveBlock, Configure, Goto, Return
  <1>9. CASE UNCHANGED vars
    BY <1>9 DEF vars, host, local, bufs, CoveredSend, NotifiedSend
  <1> QED
    BY <1>1, <1>2, <1>3, <1>4, <1>6, <1>7, <1>8, <1>9 DEF Next, Run

\* A process that sleeps in one of the three wait loops is never left asleep
\* with its condition true or without the interrupt that makes it true.
THEOREM NoWakeupIsLost == InOrder /\ Spec => []NoLostWakeup
  <1> SUFFICES ASSUME InOrder PROVE Spec => []NoLostWakeup
    OBVIOUS
  <1>1. Init => WakeInv
    BY DEF Init, WakeInv, Usual, NotifiedGet, CoveredReceive, NotifiedReceive, CoveredSend,
           NotifiedSend, RxQueue, TxQueue
  <1>2. TypeOK /\ WakeInv /\ [Next]_vars => WakeInv'
    <2> SUFFICES ASSUME TypeOK, WakeInv, [Next]_vars PROVE WakeInv'
      OBVIOUS
    <2> QED
      BY UsualStep, NotifiedGetStep, CoveredReceiveStep, CoveredSendStep DEF WakeInv
  <1>3. WakeInv => NoLostWakeup
    BY DEF WakeInv, NoLostWakeup, CoveredReceive, CoveredSend
  <1> QED
    BY <1>1, <1>2, <1>3, TypeCorrect, PTL DEF Spec

-----------------------------------------------------------------------------
(* A sending ioctl that succeeds leaves nothing behind.                    *)

\* The ioctl a process is in, where it matters which.
InOps ==
    /\ pc \in CmdQueue \cup {"g_store", "g_lock"} => op = "get"
    /\ pc = "config" => op \in ConfigOps

Drained ==
    /\ pc = "ws_temt" => tx = <<>>
    /\ pc \in {"post", "xf"} /\ ret = "ok" => tx = <<>> /\ txf = 0

LEMMA InOpsStep ==
    ASSUME InOps, [Next]_vars
    PROVE  InOps'
  <1> USE DEF InOps, CmdQueue
  <1>1. CASE Call
    <2>1. PICK o \in Ops : op' = o /\ pc' = EntryOf(o)
      BY <1>1 DEF Call
    <2> QED
      BY <2>1 DEF EntryOf
  <1>2. CASE UNCHANGED <<pc, op>>
    BY <1>2
  <1>3. CASE Environment \/ Interrupt \/ UNCHANGED vars
    BY <1>2, <1>3 DEF Environment, Assert, Deassert, SendBurst, Drain, FrameAges, Interrupt,
                      vars, host, local
  <1>4. CASE Poll \/ GetSleep \/ GetNone \/ GetExpired \/ GetTake
    BY <1>4 DEF Poll, GetSleep, GetNone, GetExpired, GetTake, Goto, Sleep, Awake, Return, local
  <1>5. CASE Check \/ CheckTime \/ Put \/ Setup \/ InitiateSend
    BY <1>5 DEF Check, CheckTime, Put, Setup, InitiateSend, Goto, Return, local
  <1>6. CASE SendSleep \/ RestoreLcr \/ SwitchXF551 \/ Timeout \/ Signal
    BY <1>6 DEF SendSleep, RestoreLcr, SwitchXF551, Timeout, Signal, Goto, Sleep, Awake, Return,
                Finish, local
  <1>7. CASE ReceiveLen \/ ReceiveSleep \/ ReceiveWoken \/ ReceiveBlock \/ Configure
    BY <1>7 DEF ReceiveLen, ReceiveSleep, ReceiveWoken, ReceiveBlock, Configure, Goto, Sleep,
                Return, local
  <1> QED
    BY <1>1, <1>3, <1>4, <1>5, <1>6, <1>7 DEF Next, Run

\* The interrupt adds nothing to an empty ring and an idle transmitter.
LEMMA NothingSent ==
    ASSUME TypeOK, Interrupt, tx = <<>>
    PROVE  tx' = <<>> /\ (txf = 0 => txf' = 0)
  <1> DEFINE rise == line /\ ~last
             end  == delta /\ ~line
             c1   == IF rise THEN StartFrame(cf) ELSE cf
             c2   == IF c1.receiving THEN CollectChars(c1, rxf) ELSE c1
             bad  == end /\ Quality(c2) # "ok"
             t3   == Flush(end, tx)
             f3   == IF bad THEN 0 ELSE txf
             load == IF f3 > 0 THEN 0
                     ELSE IF Len(t3) < FifoLen THEN Len(t3) ELSE FifoLen
  <1>1. tx' = SubSeq(t3, load + 1, Len(t3)) /\ txf' = f3 + load
    BY DEF Interrupt
  <1>2. t3 = <<>> /\ Len(<<>>) = 0 /\ txf \in Nat
    BY EmptySeq DEF Flush, TypeOK, EnvType
  <1> HIDE DEF bad, t3
  <1>3. load = 0 /\ (txf = 0 => f3 = 0)
    BY <1>2, Constants
  <1> HIDE DEF load, f3
  <1>4. tx' = SubSeq(<<>>, 1, 0)
    BY <1>1, <1>2, <1>3
  <1> QED
    BY <1>1, <1>3, <1>4, SubSeqEmpty

LEMMA DrainedStep ==
    ASSUME TypeOK, Drained, [Next]_vars
    PROVE  Drained'
  <1> USE DEF Drained
  <1>1. CASE Interrupt
    <2>1. UNCHANGED <<pc, ret>>
      BY <1>1 DEF Interrupt
    <2> QED
      BY <1>1, <2>1, NothingSent
  <1>2. CASE Call
    BY <1>2 DEF Call, EntryOf
  <1>3. CASE Environment \/ UNCHANGED vars
    BY <1>3 DEF Environment, Assert, Deassert, SendBurst, Drain, FrameAges, vars, env, bufs,
                host, local
  <1>4. CASE Poll \/ GetSleep \/ GetNone \/ GetExpired \/ GetTake
    BY <1>4 DEF Poll, GetSleep, GetNone, GetExpired, GetTake, Goto, Sleep, Awake, Return
  <1>5. CASE Check \/ CheckTime \/ Put \/ Setup \/ InitiateSend
    BY <1>5 DEF Check, CheckTime, Put, Setup, InitiateSend, Goto, Return
  <1>6. CASE SendSleep
    BY <1>6 DEF SendSleep, Goto, Sleep, Awake, Return, Finish, DeviceUnchanged, bufs, env
  <1>7. CASE RestoreLcr \/ SwitchXF551
    BY <1>7 DEF RestoreLcr, SwitchXF551, Goto, Return, local, bufs, env
  <1>8. CASE Timeout \/ Signal
    BY <1>8 DEF Timeout, Signal, Awake, Return, Finish
  <1>9. CASE ReceiveLen \/ ReceiveSleep \/ ReceiveWoken \/ ReceiveBlock \/ Configure
    BY <1>9 DEF ReceiveLen, ReceiveSleep, ReceiveWoken, ReceiveBlock, Configure, Goto, Sleep,
                Return
  <1> QED
    BY <1>1, <1>2, <1>3, <1>4, <1>5, <1>6, <1>7, <1>8, <1>9 DEF Next, Run

LEMMA SuccessStep ==
    ASSUME TypeOK, InOps, Drained, [Next]_vars
    PROVE  [op' = "none" /\ op \in SendOps /\ ret' = "ok" => tx' = <<>> /\ txf' = 0]_vars
  <1> SUFFICES ASSUME Next, op' = "none", op \in SendOps, ret' = "ok"
               PROVE  tx' = <<>> /\ txf' = 0
    OBVIOUS
  <1>0. op \notin {"none", "get", "poll", "recv_raw"} \cup ConfigOps
    BY DEF SendOps, CharOps, AgedOps, BlockOps, ConfigOps
  <1>1. CASE Environment \/ Interrupt
    BY <1>0, <1>1 DEF Environment, Assert, Deassert, SendBurst, Drain, FrameAges, Interrupt,
                host, local
  <1>2. CASE Call
    <2>1. PICK o \in Ops : op' = o
      BY <1>2 DEF Call
    <2>2. o # "none"
      BY ServerAssumption DEF AllOps, GetOps, CharOps, AgedOps, BlockOps, RecvOps, ConfigOps
    <2> QED
      BY <2>1, <2>2
  <1>3. CASE Poll \/ GetSleep \/ GetNone \/ GetExpired \/ GetTake
    BY <1>0, <1>3 DEF InOps, CmdQueue, Poll, GetSleep, GetNone, GetExpired, GetTake, Goto, Sleep,
                      Awake, Return, local
  <1>4. CASE Check \/ CheckTime \/ Put \/ Setup \/ InitiateSend
    BY <1>0, <1>4 DEF Check, CheckTime, Put, Setup, InitiateSend, Goto, Return, local
  <1>5. CASE SendSleep
    <2>1. tx' = tx /\ txf' = txf
      BY <1>5 DEF SendSleep, DeviceUnchanged, bufs, env
    <2>2. pc = "ws_temt" /\ txf = 0
      BY <1>0, <1>5 DEF SendSleep, Goto, Sleep, Awake, Return, Finish, Result, local
    <2> QED
      BY <2>1, <2>2 DEF Drained
  <1>6. CASE RestoreLcr \/ SwitchXF551
    <2>1. tx' = tx /\ txf' = txf /\ pc \in {"post", "xf"}
      BY <1>6 DEF RestoreLcr, SwitchXF551, bufs, env
    <2>2. ret = "ok"
      BY <1>0, <1>6 DEF RestoreLcr, SwitchXF551, Goto, Return, local
    <2> QED
      BY <2>1, <2>2 DEF Drained
  <1>7. CASE Timeout \/ Signal
    BY <1>0, <1>7 DEF Timeout, Signal, Awake, Return, Finish, Result, local
  <1>8. CASE ReceiveLen \/ ReceiveSleep \/ ReceiveWoken \/ ReceiveBlock
    BY <1>0, <1>8 DEF ReceiveLen, ReceiveSleep, ReceiveWoken, ReceiveBlock, Goto, Sleep, Return,
                      local
  <1>9. CASE Configure
    BY <1>0, <1>9 DEF Configure, InOps
  <1> QED
    BY <1>1, <1>2, <1>3, <1>4, <1>5, <1>6, <1>7, <1>8, <1>9 DEF Next, Run

\* An ioctl that sends and returns 0 has left nothing in the ring and nothing in
\* the transmitter: the change of the rate behind the XF551 ioctls and the next
\* reply overtake no character (wait_send, send_block).
THEOREM SuccessIsDrained == Spec => DrainedOnSuccess
  <1>1. Init => InOps /\ Drained
    BY DEF Init, InOps, Drained, CmdQueue
  <1>2. InOps /\ [Next]_vars => InOps'
    BY InOpsStep
  <1>3. TypeOK /\ Drained /\ [Next]_vars => Drained'
    BY DrainedStep
  <1>4. TypeOK /\ InOps /\ Drained /\ [Next]_vars =>
          [op' = "none" /\ op \in SendOps /\ ret' = "ok" => tx' = <<>> /\ txf' = 0]_vars
    BY SuccessStep
  <1> QED
    BY <1>1, <1>2, <1>3, <1>4, TypeCorrect, PTL DEF Spec, DrainedOnSuccess

-----------------------------------------------------------------------------
(* The frame that waits to be fetched.                                     *)

Numbered(c) == \A i \in 1 .. Len(c.buf) : c.buf[i] <= MaxFrames

Intact(c) ==
    c.valid => ~c.receiving /\ SumOK(c) /\ c.ok = FrameLength /\ c.err = 0 /\ c.brk = 0

\* No character names a frame that the Atari has not sent.
NumberInv == Numbered(cf) /\ rxf.id <= MaxFrames

FateInv == \A i \in 1 .. MaxFrames : fate[i] = "pending" <=> cf.valid /\ cf.buf[1] = i

LEMMA CollectKeeps ==
    ASSUME NEW c \in FrameType, Len(c.buf) <= FrameLength, NEW b \in BurstType,
           Numbered(c), b.id <= MaxFrames
    PROVE  LET d == CollectChars(c, b) IN
             /\ d.valid = c.valid /\ d.receiving = c.receiving /\ d.serial = c.serial
             /\ Numbered(d)
  <1> DEFINE room == FrameLength - Len(c.buf)
             take == IF b.n < room THEN b.n ELSE room
             new  == [i \in 1 .. take |-> IdOf(b)]
             d    == CollectChars(c, b)
  <1>1. take \in Nat
    BY DEF FrameType, BurstType, FrameLength
  <1>2. IdOf(b) \in Int /\ IdOf(b) <= MaxFrames
    BY Constants DEF IdOf, BurstType
  <1>3. new \in Seq(Int) /\ Len(new) = take /\ \A i \in 1 .. take : new[i] <= MaxFrames
    BY <1>1, <1>2, CopiesType
  <1>4. c.buf \in Seq(Int) /\ Len(c.buf) \in Nat
    BY DEF FrameType
  <1> HIDE DEF take, new
  <1>5. d = [c EXCEPT
              !.buf = IF IsOk(b) THEN @ \o new ELSE @,
              !.ok  = IF IsOk(b) THEN @ + b.n ELSE @,
              !.err = IF b.kind \in {"framing", "framing+break"} THEN @ + b.n ELSE @,
              !.brk = IF b.kind \in {"break", "framing+break"} THEN @ + b.n ELSE @]
    BY DEF CollectChars, take, new
  <1> HIDE DEF d
  <1>6. /\ d.valid = c.valid /\ d.receiving = c.receiving /\ d.serial = c.serial
        /\ d.buf = IF IsOk(b) THEN c.buf \o new ELSE c.buf
    BY <1>5 DEF FrameType
  <1>7. /\ Len(c.buf \o new) = Len(c.buf) + take
        /\ \A i \in 1 .. Len(c.buf) + take :
             (c.buf \o new)[i] = IF i <= Len(c.buf) THEN c.buf[i] ELSE new[i - Len(c.buf)]
    BY <1>3, <1>4, ConcatProperties
  <1>8. \A i \in 1 .. Len(c.buf) + take : (c.buf \o new)[i] <= MaxFrames
    <2> TAKE i \in 1 .. Len(c.buf) + take
    <2>1. CASE i <= Len(c.buf)
      BY <1>1, <1>4, <1>7, <2>1 DEF Numbered
    <2>2. CASE ~(i <= Len(c.buf))
      <3>1. i - Len(c.buf) \in 1 .. take
        BY <1>1, <1>4, <2>2
      <3> QED
        BY <1>1, <1>3, <1>4, <1>7, <2>2, <3>1
    <2> QED
      BY <2>1, <2>2
  <1>9. Numbered(d)
    BY <1>6, <1>7, <1>8 DEF Numbered
  <1> QED
    BY <1>6, <1>9 DEF d

\* What a pass of the interrupt handler makes of the command frame buffer: c2
\* is the buffer before the trailing edge.
Before ==
    LET c1 == IF line /\ ~last THEN StartFrame(cf) ELSE cf
    IN  IF c1.receiving THEN CollectChars(c1, rxf) ELSE c1

LEMMA BeforeIs ==
    ASSUME TypeOK, NumberInv
    PROVE  /\ Before \in FrameType /\ Len(Before.buf) <= FrameLength /\ Numbered(Before)
           /\ line /\ ~last =>
                ~Before.valid /\ Before.receiving /\ Before.serial = cf.serial + 1
           /\ ~(line /\ ~last) =>
                /\ Before.valid = cf.valid /\ Before.receiving = cf.receiving
                /\ Before.serial = cf.serial
                /\ ~cf.receiving => Before = cf
  <1> DEFINE c1 == IF line /\ ~last THEN StartFrame(cf) ELSE cf
  <1>1. cf \in FrameType /\ Len(cf.buf) <= FrameLength /\ rxf \in BurstType
    BY DEF TypeOK, FrameBufType, EnvType, BurstType
  <1>2. c1 \in FrameType /\ Len(c1.buf) <= FrameLength
    BY <1>1, StartFrameType
  <1>3. LET d == StartFrame(cf) IN
          ~d.valid /\ d.receiving /\ d.serial = cf.serial + 1 /\ d.buf = <<>>
    <2> DEFINE e == ResetData(cf)
    <2>1. e \in [valid : BOOLEAN, receiving : BOOLEAN, fresh : BOOLEAN, buf : {<<>>},
                 ok : Nat, err : Nat, brk : Nat, serial : Nat, missed : Nat]
          /\ ~e.valid
      BY <1>1 DEF ResetData, FrameType
    <2> HIDE DEF e
    <2>2. StartFrame(cf) = [e EXCEPT !.receiving = TRUE,
                                     !.serial = cf.serial + 1,
                                     !.missed = IF cf.valid THEN cf.missed + 1 ELSE cf.missed]
      BY DEF StartFrame, e
    <2> QED
      BY <2>1, <2>2
  <1>4. Numbered(c1)
    <2>1. Len(<<>>) = 0
      BY EmptySeq
    <2> QED
      BY <1>3, <2>1 DEF Numbered, NumberInv
  <1>5. Before = IF c1.receiving THEN CollectChars(c1, rxf) ELSE c1
    BY DEF Before
  <1>6. /\ line /\ ~last => c1 = StartFrame(cf)
        /\ ~(line /\ ~last) => c1 = cf
    OBVIOUS
  <1> HIDE DEF c1
  <1>7. /\ Before \in FrameType /\ Len(Before.buf) <= FrameLength /\ Numbered(Before)
        /\ Before.valid = c1.valid /\ Before.receiving = c1.receiving
        /\ Before.serial = c1.serial
        /\ ~c1.receiving => Before = c1
    <2>1. CASE c1.receiving
      <3>1. rxf.id <= MaxFrames
        BY DEF NumberInv
      <3> QED
        BY <1>1, <1>2, <1>4, <1>5, <2>1, <3>1, CollectCharsType, CollectKeeps
    <2>2. CASE ~c1.receiving
      BY <1>2, <1>4, <1>5, <2>2
    <2> QED
      BY <2>1, <2>2
  <1> QED
    BY <1>3, <1>6, <1>7

\* A frame that is judged good is whole.
LEMMA EndFrameIs ==
    ASSUME NEW c \in FrameType
    PROVE  LET d == EndFrame(c) IN
             /\ d.valid = (Quality(c) = "ok") /\ ~d.receiving
             /\ d.buf = c.buf /\ d.serial = c.serial
             /\ Intact(d)
             /\ Quality(c) = "ok" => c.receiving /\ SumOK(c)
  <1> DEFINE d == EndFrame(c)
  <1>1. /\ d.valid = (Quality(c) = "ok") /\ ~d.receiving
        /\ d.buf = c.buf /\ d.serial = c.serial
        /\ d.ok = c.ok /\ d.err = c.err /\ d.brk = c.brk
    BY DEF EndFrame, FrameType
  <1>2. ASSUME Quality(c) = "ok"
        PROVE  c.receiving /\ SumOK(c) /\ c.ok = FrameLength /\ c.err = 0 /\ c.brk = 0
    BY <1>2 DEF Quality, CheckQuality, FrameType
  <1>3. SumOK(d) <=> SumOK(c)
    BY <1>1 DEF SumOK
  <1> QED
    BY <1>1, <1>2, <1>3 DEF Intact

\* What the process and the environment do to the buffer and its history.
LEMMA FrameMoves ==
    ASSUME TypeOK, [Next]_vars, ~Interrupt
    PROVE  \/ UNCHANGED <<cf, cur, fate>>
           \/ /\ cf' = [cf EXCEPT !.fresh = FALSE] /\ UNCHANGED <<cur, fate>>
           \/ GetExpired
           \/ GetTake
           \/ op = "mode" /\ pc = "config" /\ SetMode /\ cur' = cur
  <1>1. CASE Environment
    BY <1>1 DEF Environment, Assert, Deassert, SendBurst, Drain, FrameAges, hist
  <1>2. CASE Call \/ Timeout \/ Signal \/ UNCHANGED vars
    BY <1>2 DEF Call, Timeout, Signal, DeviceUnchanged, vars, hist
  <1>3. CASE Run
    <2>1. CASE Configure
      BY <2>1 DEF Configure, SetMode, PrintStatus, SetBaudrate
    <2>2. CASE GetExpired \/ GetTake
      BY <2>2
    <2>3. CASE ~(Configure \/ GetExpired \/ GetTake)
      BY <1>3, <2>3 DEF Run, Poll, GetSleep, GetNone, Check, CheckTime, Put, Setup, InitiateSend,
         SendSleep, RestoreLcr, SwitchXF551, ReceiveLen, ReceiveSleep, ReceiveWoken,
         ReceiveBlock, DeviceUnchanged, hist
    <2> QED
      BY <2>1, <2>2, <2>3
  <1> QED
    BY <1>1, <1>2, <1>3 DEF Next

LEMMA SetModeIs ==
    ASSUME TypeOK, SetMode
    PROVE  /\ ~cf'.valid /\ ~cf'.receiving /\ cf'.buf = <<>> /\ cf'.serial = 0
           /\ \A i \in 1 .. MaxFrames : fate'[i] # "pending"
  <1> DEFINE e == ResetData(cf)
  <1>1. e \in [valid : {FALSE}, receiving : {FALSE}, fresh : BOOLEAN, buf : {<<>>},
               ok : Nat, err : Nat, brk : Nat, serial : Nat, missed : Nat]
    BY DEF ResetData, FrameType, TypeOK, FrameBufType
  <1>2. cf' = [e EXCEPT !.serial = 0, !.missed = 0]
    BY DEF SetMode
  <1> HIDE DEF e
  <1>3. \A i \in 1 .. MaxFrames : fate'[i] # "pending"
    BY DEF SetMode
  <1> QED
    BY <1>1, <1>2, <1>3

LEMMA NumberStep ==
    ASSUME TypeOK, NumberInv, [Next]_vars
    PROVE  NumberInv'
  <1>1. rxf \in BurstType /\ frames \in Nat /\ frames <= MaxFrames
    BY Constants DEF TypeOK, EnvType, BurstType
  <1>2. rxf'.id <= MaxFrames
    <2>1. CASE SendBurst
      <3>1. PICK b \in Bursts :
              rxf' = [kind |-> b.kind, n |-> b.n, id |-> IF line THEN frames ELSE -frames]
        BY <2>1 DEF SendBurst
      <3>2. rxf'.id = IF line THEN frames ELSE -frames
        BY <3>1
      <3> QED
        BY <1>1, <3>2, Constants
    <2>2. CASE rxf' = NoBurst
      BY <2>2, Constants DEF NoBurst
    <2>3. CASE rxf' = [rxf EXCEPT !.n = @ - 1]
      BY <1>1, <2>3 DEF BurstType, NumberInv
    <2>4. CASE rxf' = rxf
      BY <2>4 DEF NumberInv
    <2>5. CASE Interrupt
      BY <2>2, <2>5 DEF Interrupt
    <2>6. CASE Environment \/ Call \/ Timeout \/ Signal \/ UNCHANGED vars
      BY <2>1, <2>4, <2>6 DEF Environment, Assert, Deassert, Drain, FrameAges, Call, Timeout,
         Signal, DeviceUnchanged, vars, env
    <2>7. CASE Run
      BY <2>2, <2>3, <2>4, <2>7 DEF Run, Poll, GetSleep, GetNone, GetExpired, GetTake, Check,
         CheckTime, Put, Setup, InitiateSend, SendSleep, RestoreLcr, SwitchXF551, ReceiveLen,
         ReceiveSleep, ReceiveWoken, ReceiveBlock, Configure, SetMode, PrintStatus, SetBaudrate,
         DeviceUnchanged, env
    <2> QED
      BY <2>5, <2>6, <2>7 DEF Next
  <1>3. Numbered(cf')
    <2>1. CASE Interrupt
      <3>1. cf' = IF delta /\ ~line THEN EndFrame(Before) ELSE Before
        BY <2>1 DEF Interrupt, Before
      <3>2. Before \in FrameType /\ Numbered(Before)
        BY BeforeIs
      <3> HIDE DEF Before
      <3>3. EndFrame(Before).buf = Before.buf
        BY <3>2, EndFrameIs
      <3> QED
        BY <3>1, <3>2, <3>3 DEF Numbered
    <2>2. CASE ~Interrupt
      <3>1. cf \in FrameType
        BY DEF TypeOK, FrameBufType
      <3>2. cf'.buf = cf.buf \/ cf'.buf = <<>>
        BY <2>2, <3>1, FrameMoves, SetModeIs DEF GetExpired, GetTake, Taken, FrameType
      <3>3. Len(<<>>) = 0
        BY EmptySeq
      <3> QED
        BY <3>2, <3>3 DEF Numbered, NumberInv
    <2> QED
      BY <2>1, <2>2
  <1> QED
    BY <1>2, <1>3 DEF NumberInv

LEMMA IntactStep ==
    ASSUME TypeOK, NumberInv, Intact(cf), FateInv, [Next]_vars
    PROVE  Intact(cf') /\ FateInv'
  <1>1. cf \in FrameType /\ fate \in [1 .. MaxFrames -> Fates]
    BY DEF TypeOK, FrameBufType, HistType
  <1>2. CASE Interrupt
    <2> DEFINE end  == delta /\ ~line
               rise == line /\ ~last
               f1   == [i \in 1 .. MaxFrames |->
                          IF fate[i] = "pending" /\ rise THEN "missed"
                          ELSE IF fate[i] = "pending" /\ end THEN "dropped"
                          ELSE fate[i]]
    <2>1. /\ cf' = IF end THEN EndFrame(Before) ELSE Before
          /\ fate' = IF end /\ Quality(Before) = "ok"
                     THEN [f1 EXCEPT ![Before.buf[1]] = "pending"] ELSE f1
      BY <1>2 DEF Interrupt, Before, FatesAfter
    <2>2. /\ Before \in FrameType /\ Len(Before.buf) <= FrameLength /\ Numbered(Before)
          /\ rise => ~Before.valid /\ Before.receiving
          /\ ~rise => /\ Before.valid = cf.valid /\ Before.receiving = cf.receiving
                      /\ ~cf.receiving => Before = cf
      BY BeforeIs
    <2> HIDE DEF Before
    <2>3. CASE end
      <3>1. \A i \in 1 .. MaxFrames : f1[i] # "pending"
        BY <1>1, <2>3
      <3>2. /\ cf'.valid = (Quality(Before) = "ok") /\ cf'.buf = Before.buf
            /\ Intact(cf')
            /\ Quality(Before) = "ok" => SumOK(Before)
        BY <2>1, <2>2, <2>3, EndFrameIs
      <3>3. f1 \in [1 .. MaxFrames -> Fates \cup {"missed", "dropped"}]
        BY <1>1
      <3> HIDE DEF f1
      <3>4. CASE Quality(Before) = "ok"
        <4>1. Before.buf[1] \in 1 .. MaxFrames
          <5>1. Before.buf \in Seq(Int) /\ Len(Before.buf) = FrameLength /\ Before.buf[1] > 0
            BY <2>2, <3>2, <3>4 DEF SumOK, FrameType
          <5>2. Before.buf[1] \in Int /\ Before.buf[1] <= MaxFrames
            BY <2>2, <5>1 DEF Numbered, FrameLength
          <5> QED
            BY <5>1, <5>2, Constants
        <4>2. fate' = [f1 EXCEPT ![Before.buf[1]] = "pending"]
          BY <2>1, <2>3, <3>4
        <4>3. \A i \in 1 .. MaxFrames : fate'[i] = "pending" <=> Before.buf[1] = i
          BY <3>1, <3>3, <4>1, <4>2
        <4> QED
          BY <3>2, <3>4, <4>3 DEF FateInv
      <3>5. CASE Quality(Before) # "ok"
        BY <2>1, <3>1, <3>2, <3>5 DEF FateInv
      <3> QED
        BY <3>4, <3>5
    <2>4. CASE ~end /\ rise
      <3>1. \A i \in 1 .. MaxFrames : fate'[i] # "pending"
        BY <1>1, <2>1, <2>4
      <3> QED
        BY <2>1, <2>2, <2>4, <3>1 DEF FateInv, Intact
    <2>5. CASE ~end /\ ~rise
      <3>1. \A i \in 1 .. MaxFrames : fate'[i] = fate[i]
        BY <1>1, <2>1, <2>5
      <3>2. cf' = Before
        BY <2>1, <2>5
      <3>3. CASE cf.valid
        BY <2>2, <2>5, <3>1, <3>2, <3>3 DEF FateInv, Intact
      <3>4. CASE ~cf.valid
        BY <2>2, <2>5, <3>1, <3>2, <3>4 DEF FateInv, Intact
      <3> QED
        BY <3>3, <3>4
    <2> QED
      BY <2>3, <2>4, <2>5
  <1>3. CASE UNCHANGED <<cf, cur, fate>>
    BY <1>3 DEF FateInv
  <1>4. CASE cf' = [cf EXCEPT !.fresh = FALSE] /\ UNCHANGED <<cur, fate>>
    <2>1. /\ cf'.valid = cf.valid /\ cf'.receiving = cf.receiving /\ cf'.buf = cf.buf
          /\ cf'.ok = cf.ok /\ cf'.err = cf.err /\ cf'.brk = cf.brk
      BY <1>1, <1>4 DEF FrameType
    <2> QED
      BY <1>4, <2>1 DEF FateInv, Intact, SumOK
  <1>5. CASE GetExpired
    <2>1. ~cf'.valid /\ cf.valid /\ fate' = [fate EXCEPT ![cf.buf[1]] = "expired"]
      BY <1>1, <1>5 DEF GetExpired, FrameType
    <2>2. \A i \in 1 .. MaxFrames : fate'[i] # "pending"
      BY <1>1, <2>1 DEF FateInv
    <2> QED
      BY <2>1, <2>2 DEF FateInv, Intact
  <1>6. CASE GetTake
    <2>1. ~cf'.valid /\ cf.valid /\ fate' = FatesReported(cf.buf[1])
      BY <1>1, <1>6 DEF GetTake, Taken, FrameType
    <2>2. \A i \in 1 .. MaxFrames : fate'[i] # "pending"
      BY <1>1, <2>1 DEF FateInv, FatesReported
    <2> QED
      BY <2>1, <2>2 DEF FateInv, Intact
  <1>7. CASE SetMode
    BY <1>7, SetModeIs DEF FateInv, Intact
  <1> QED
    BY <1>2, <1>3, <1>4, <1>5, <1>6, <1>7, FrameMoves

\* The frame that waits is whole and is the one whose fate is open: no frame is
\* put together from two, and none is lost without a trace, whatever the Atari
\* sends and however late the interrupts and the process come
\* (check_modem_lines_after_receive, get_command_frame).
THEOREM WaitingIsIntact == Spec => []ValidIntact
  <1>1. Init => NumberInv /\ Intact(cf) /\ FateInv
    <2> SUFFICES ASSUME Init PROVE NumberInv /\ Intact(cf) /\ FateInv
      OBVIOUS
    <2>1. Len(<<>>) = 0
      BY EmptySeq
    <2>2. cf.buf = <<>> /\ ~cf.valid /\ rxf.id = 0 /\ \A i \in 1 .. MaxFrames : fate[i] = "none"
      BY DEF Init, NoBurst
    <2> QED
      BY <2>1, <2>2, Constants DEF NumberInv, Numbered, Intact, FateInv
  <1>2. TypeOK /\ NumberInv /\ [Next]_vars => NumberInv'
    BY NumberStep
  <1>3. TypeOK /\ NumberInv /\ Intact(cf) /\ FateInv /\ [Next]_vars => Intact(cf') /\ FateInv'
    BY IntactStep
  <1>4. Intact(cf) /\ FateInv => ValidIntact
    BY DEF Intact, FateInv, ValidIntact
  <1>5. Intact(cf)' <=> Intact(cf')
    BY DEF Intact, SumOK
  <1> QED
    BY <1>1, <1>2, <1>3, <1>4, <1>5, TypeCorrect, PTL DEF Spec

-----------------------------------------------------------------------------
(* Replies to the last frame are refused while a newer one is there.       *)

\* set_sioserver_mode starts the numbers anew under the frame being answered.
ModeKept == "mode" \notin Ops

NewerInv ==
    /\ op # "mode"
    /\ cur <= cf.serial /\ WaitingIsNewer
    /\ ~(cf.valid /\ cf.receiving)

LEMMA NewerStep ==
    ASSUME ModeKept, TypeOK, NumberInv, NewerInv, [Next]_vars
    PROVE  NewerInv'
  <1>1. cf \in FrameType /\ cur \in Nat
    BY DEF TypeOK, FrameBufType
  <1>2. op' # "mode"
    <2>1. op' = op \/ op' = "none" \/ op' \in Ops
      BY DEF Next, Environment, Assert, Deassert, SendBurst, Drain, FrameAges, Interrupt, Call,
         Run, Poll, GetSleep, GetNone, GetExpired, GetTake, Check, CheckTime, Put, Setup,
         InitiateSend, SendSleep, RestoreLcr, SwitchXF551, ReceiveLen, ReceiveSleep,
         ReceiveWoken, ReceiveBlock, Configure, Timeout, Signal, Goto, Sleep, Awake, Return,
         Finish, vars, host, local
    <2> QED
      BY <2>1 DEF NewerInv, ModeKept
  <1>3. CASE Interrupt
    <2>1. cf' = (IF delta /\ ~line THEN EndFrame(Before) ELSE Before) /\ cur' = cur
      BY <1>3 DEF Interrupt, Before
    <2>2. /\ Before \in FrameType
          /\ line /\ ~last => ~Before.valid /\ Before.receiving /\ Before.serial = cf.serial + 1
          /\ ~(line /\ ~last) => /\ Before.valid = cf.valid /\ Before.receiving = cf.receiving
                                 /\ Before.serial = cf.serial
      BY BeforeIs
    <2> HIDE DEF Before
    <2>3. LET d == EndFrame(Before) IN
            /\ d.valid = (Quality(Before) = "ok") /\ ~d.receiving /\ d.serial = Before.serial
            /\ Quality(Before) = "ok" => Before.receiving
      BY <2>2, EndFrameIs
    <2>4. cf.serial \in Nat
      BY <1>1 DEF FrameType
    <2>5. CASE delta /\ ~line
      <3>1. cf' = EndFrame(Before) /\ Before.serial = cf.serial /\ Before.receiving = cf.receiving
        BY <2>1, <2>2, <2>5
      <3>2. ~cf'.receiving /\ cf'.serial = cf.serial
        BY <2>3, <3>1
      <3>3. cf'.valid => cf.receiving
        BY <2>3, <3>1
      <3> QED
        BY <1>2, <2>1, <3>2, <3>3 DEF NewerInv, WaitingIsNewer
    <2>6. CASE line /\ ~last
      <3>1. cf' = Before
        BY <2>1, <2>6
      <3>2. ~cf'.valid
        BY <2>2, <2>6, <3>1
      <3>3. cf'.serial = cf.serial + 1
        BY <2>2, <2>6, <3>1
      <3>4. cur <= cf.serial
        BY DEF NewerInv
      <3>5. cur' < cf'.serial
        BY <1>1, <2>1, <2>4, <3>3, <3>4
      <3>6. cur' <= cf'.serial
        BY <1>1, <2>1, <2>4, <3>3, <3>4
      <3> QED
        BY <1>2, <3>2, <3>5, <3>6 DEF NewerInv, WaitingIsNewer
    <2>7. CASE ~(delta /\ ~line) /\ ~(line /\ ~last)
      <3>1. /\ cf'.valid = cf.valid /\ cf'.receiving = cf.receiving
            /\ cf'.serial = cf.serial /\ cur' = cur
        BY <2>1, <2>2, <2>7
      <3> QED
        BY <1>2, <3>1 DEF NewerInv, WaitingIsNewer
    <2> QED
      BY <2>5, <2>6, <2>7
  <1>4. CASE ~Interrupt
    <2>1. CASE UNCHANGED <<cf, cur, fate>>
      BY <1>2, <2>1 DEF NewerInv, WaitingIsNewer
    <2>2. CASE \/ cf' = [cf EXCEPT !.fresh = FALSE] /\ cur' = cur
               \/ GetExpired
      <3>1. /\ cf'.serial = cf.serial /\ cf'.receiving = cf.receiving /\ cur' = cur
            /\ cf'.valid => cf.valid
        BY <1>1, <2>2 DEF GetExpired, FrameType
      <3> QED
        BY <1>2, <3>1 DEF NewerInv, WaitingIsNewer
    <2>3. CASE GetTake
      <3>1. /\ cf.valid /\ ~cf'.valid /\ cf'.receiving = cf.receiving
            /\ cf'.serial = cf.serial /\ cur' = cf.serial
        BY <1>1, <2>3 DEF GetTake, Taken, FrameType
      <3>2. cf.serial \in Nat
        BY <1>1 DEF FrameType
      <3> QED
        BY <1>2, <3>1, <3>2 DEF NewerInv, WaitingIsNewer
    <2> QED
      BY <1>4, <2>1, <2>2, <2>3, FrameMoves DEF NewerInv
  <1> QED
    BY <1>3, <1>4

\* While a newer command frame is received or waits, check_new_command_frame
\* refuses every reply to the last one, as long as the process does not set the
\* mode again.
THEOREM OldRepliesAreRefused == ModeKept /\ Spec => []WaitingIsNewer
  <1> SUFFICES ASSUME ModeKept PROVE Spec => []WaitingIsNewer
    OBVIOUS
  <1>1. Init => NumberInv /\ NewerInv
    <2> SUFFICES ASSUME Init PROVE NumberInv /\ NewerInv
      OBVIOUS
    <2>1. Len(<<>>) = 0
      BY EmptySeq
    <2>2. cf.buf = <<>> /\ ~cf.valid /\ ~cf.receiving /\ cf.serial = 0 /\ cur = 0
      BY DEF Init
    <2>3. rxf.id = 0 /\ op = "none"
      BY DEF Init, NoBurst
    <2> QED
      BY <2>1, <2>2, <2>3, Constants DEF NumberInv, Numbered, NewerInv, WaitingIsNewer
  <1>2. TypeOK /\ NumberInv /\ [Next]_vars => NumberInv'
    BY NumberStep
  <1>3. TypeOK /\ NumberInv /\ NewerInv /\ [Next]_vars => NewerInv'
    BY NewerStep
  <1>4. NewerInv => WaitingIsNewer
    BY DEF NewerInv
  <1> QED
    BY <1>1, <1>2, <1>3, <1>4, TypeCorrect, PTL DEF Spec
=============================================================================
