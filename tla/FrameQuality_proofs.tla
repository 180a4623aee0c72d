-------------------------- MODULE FrameQuality_proofs --------------------------
(***************************************************************************)
(* Proofs about the verdict on a command frame: whatever characters come,  *)
(* sound or broken, in whatever number and order, what is accepted is a    *)
(* whole frame whose checksum sees every damage but one.  And about the    *)
(* rings of the driver: they are queues, of any length and wherever their  *)
(* tail is.                                                                *)
(***************************************************************************)
EXTENDS MCFrameQuality, Rings, Induction, SequenceTheorems, TLAPS

-----------------------------------------------------------------------------
(* The checksum.                                                           *)

\* The function calculate_checksum runs through, for any length and any place
\* in the ring.
Sums(f, buffer, start, len, total) ==
    /\ f = [i \in 0 .. len |-> f[i]] /\ f[0] = 0
    /\ \A i \in 1 .. len : f[i] = AddWithCarry(f[i - 1], buffer[(start + i - 1) % total])

LEMMA SumsExist ==
    ASSUME NEW buffer, NEW start, NEW len \in Nat, NEW total
    PROVE  \E f : Sums(f, buffer, start, len, total)
  <1> DEFINE S == {m \in Nat : \E f : Sums(f, buffer, start, m, total)}
  <1>1. 0 \in S
    <2>1. Sums([i \in 0 .. 0 |-> 0], buffer, start, 0, total)
      BY DEF Sums
    <2> QED
      BY <2>1
  <1>2. ASSUME NEW m \in Nat, m \in S PROVE m + 1 \in S
    <2>1. PICK f : Sums(f, buffer, start, m, total)
      BY <1>2
    <2> DEFINE v == AddWithCarry(f[m], buffer[(start + (m + 1) - 1) % total])
               g == [i \in 0 .. m + 1 |-> IF i = m + 1 THEN v ELSE f[i]]
    <2> HIDE DEF v
    <2>2. g = [i \in 0 .. m + 1 |-> g[i]] /\ g[0] = 0
      BY <2>1 DEF Sums
    <2>3. \A i \in 0 .. m : g[i] = f[i]
      OBVIOUS
    <2>4. g[m + 1] = v /\ (m + 1) - 1 = m /\ g[m] = f[m]
      OBVIOUS
    <2> HIDE DEF g
    <2>5. ASSUME NEW i \in 1 .. m + 1
          PROVE  g[i] = AddWithCarry(g[i - 1], buffer[(start + i - 1) % total])
      <3>1. CASE i = m + 1
        BY <2>4, <3>1 DEF v
      <3>2. CASE i # m + 1
        <4>1. i \in 1 .. m /\ i \in 0 .. m /\ i - 1 \in 0 .. m
          BY <3>2
        <4>2. f[i] = AddWithCarry(f[i - 1], buffer[(start + i - 1) % total])
          BY <2>1, <4>1 DEF Sums
        <4> QED
          BY <2>3, <4>1, <4>2
      <3> QED
        BY <3>1, <3>2
    <2>6. Sums(g, buffer, start, m + 1, total)
      BY <2>2, <2>5 DEF Sums
    <2> QED
      BY <2>6
  <1> HIDE DEF S
  <1>3. len \in S
    BY <1>1, <1>2, SetInduction
  <1> QED
    BY <1>3 DEF S

LEMMA ChecksumIs ==
    ASSUME NEW buffer, NEW start, NEW len \in Nat, NEW total
    PROVE  \E f : Sums(f, buffer, start, len, total) /\ Checksum(buffer, start, len, total) = f[len]
  <1> DEFINE sum[i \in 0 .. len] ==
                 IF i = 0 THEN 0
                 ELSE AddWithCarry(sum[i - 1], buffer[(start + i - 1) % total])
  <1>1. Checksum(buffer, start, len, total) = sum[len]
    BY DEF Checksum
  <1>2. PICK f : Sums(f, buffer, start, len, total)
    BY SumsExist
  <1>3. f = [i \in 0 .. len |-> IF i = 0 THEN 0
                                ELSE AddWithCarry(f[i - 1], buffer[(start + i - 1) % total])]
    <2>1. \A i \in 0 .. len : f[i] = IF i = 0 THEN 0
                                     ELSE AddWithCarry(f[i - 1], buffer[(start + i - 1) % total])
      BY <1>2 DEF Sums
    <2> QED
      BY <1>2, <2>1 DEF Sums
  <1>4. sum = [i \in 0 .. len |-> IF i = 0 THEN 0
                                  ELSE AddWithCarry(sum[i - 1], buffer[(start + i - 1) % total])]
    BY <1>3, Zenon
  <1> HIDE DEF sum
  <1>5. /\ sum = [i \in 0 .. len |-> sum[i]] /\ sum[0] = 0
        /\ \A i \in 1 .. len : sum[i] = AddWithCarry(sum[i - 1], buffer[(start + i - 1) % total])
    <2> DEFINE Step(i) == IF i = 0 THEN 0 ELSE AddWithCarry(sum[i - 1], buffer[(start + i - 1) % total])
    <2>1. sum = [i \in 0 .. len |-> Step(i)]
      BY <1>4
    <2> HIDE DEF Step
    <2>2. sum = [i \in 0 .. len |-> sum[i]] /\ \A i \in 0 .. len : sum[i] = Step(i)
      BY <2>1
    <2>3. sum[0] = Step(0) /\ 0 \in 0 .. len
      BY <2>2
    <2>4. ASSUME NEW i \in 1 .. len
          PROVE  sum[i] = AddWithCarry(sum[i - 1], buffer[(start + i - 1) % total])
      <3>1. sum[i] = Step(i) /\ i # 0
        BY <2>2
      <3> QED
        BY <3>1 DEF Step
    <2> QED
      BY <2>2, <2>3, <2>4 DEF Step
  <1> QED
    BY <1>1, <1>5 DEF Sums

Byte == 0 .. 255

\* The sum of n modulo 255, where 0 stands for nothing but zeros.
Folded(n) == IF n = 0 THEN 0 ELSE ((n - 1) % 255) + 1

LEMMA FoldedAdds ==
    ASSUME NEW n \in Nat, NEW b \in Byte
    PROVE  AddWithCarry(Folded(n), b) = Folded(n + b)
  BY DEF AddWithCarry, Folded, Byte

LEMMA FoldedIsByte ==
    ASSUME NEW n \in Nat PROVE Folded(n) \in Byte
  BY DEF Folded, Byte

LEMMA FourFolded ==
    ASSUME NEW w \in Byte, NEW x \in Byte, NEW y \in Byte, NEW z \in Byte
    PROVE  AddWithCarry(AddWithCarry(AddWithCarry(AddWithCarry(0, w), x), y), z) = Folded(w + x + y + z)
  <1>1. 0 \in Nat /\ 0 + w = w /\ Folded(0) = 0
    BY DEF Folded, Byte
  <1>2. AddWithCarry(0, w) = Folded(w)
    BY <1>1, FoldedAdds
  <1>3. w \in Nat /\ w + x \in Nat /\ w + x + y \in Nat
    BY DEF Byte
  <1>4. AddWithCarry(Folded(w), x) = Folded(w + x)
    BY <1>3, FoldedAdds
  <1>5. AddWithCarry(Folded(w + x), y) = Folded(w + x + y)
    BY <1>3, FoldedAdds
  <1>6. AddWithCarry(Folded(w + x + y), z) = Folded(w + x + y + z)
    BY <1>3, FoldedAdds
  <1> QED
    BY <1>2, <1>4, <1>5, <1>6

\* The checksum of a command frame.
Frame(b) == b[0] \in Byte /\ b[1] \in Byte /\ b[2] \in Byte /\ b[3] \in Byte
Total(b) == b[0] + b[1] + b[2] + b[3]

LEMMA TotalIsNat == \A b : Frame(b) => Total(b) \in Nat
  <1>1. \A w, x, y, z \in Byte : w + x + y + z \in Nat
    BY DEF Byte
  <1> QED
    BY <1>1, Zenon DEF Frame, Total

LEMMA FrameSum ==
    ASSUME NEW b, Frame(b)
    PROVE  SumMatches(b) <=> b[4] = Folded(Total(b))
  <1>1. PICK f : /\ Sums(f, b, 0, FrameLength - 1, FrameLength)
                 /\ Checksum(b, 0, FrameLength - 1, FrameLength) = f[FrameLength - 1]
    BY ChecksumIs, FrameLength - 1 \in Nat DEF FrameLength
  <1>2. /\ f[0] = 0 /\ f[1] = AddWithCarry(f[0], b[0]) /\ f[2] = AddWithCarry(f[1], b[1])
        /\ f[3] = AddWithCarry(f[2], b[2]) /\ f[4] = AddWithCarry(f[3], b[3])
    BY <1>1 DEF Sums, FrameLength
  <1>3. PICK w, x, y, z \in Byte : w = b[0] /\ x = b[1] /\ y = b[2] /\ z = b[3]
    BY DEF Frame
  <1>4. f[4] = AddWithCarry(AddWithCarry(AddWithCarry(AddWithCarry(0, w), x), y), z)
    BY <1>2, <1>3, Zenon
  <1>5. f[4] = Folded(Total(b))
    <2>1. f[4] = Folded(w + x + y + z)
      BY <1>4, FourFolded
    <2> QED
      BY <1>3, <2>1, Zenon DEF Total
  <1>6. SumMatches(b) <=> f[4] = b[4]
    BY <1>1 DEF SumMatches, FrameLength
  <1> QED
    BY <1>5, <1>6

\* Two sums that differ by less than a byte have one checksum only if they
\* differ by 255 and neither is 0.
LEMMA FoldedTells ==
    ASSUME NEW m \in Nat, NEW n \in Nat, Folded(m) = Folded(n), m < n, n - m <= 255
    PROVE  n - m = 255 /\ m # 0
  BY DEF Folded

-----------------------------------------------------------------------------
(* The verdict.                                                            *)

\* The counters count: a sound character, a broken one, and of the broken ones
\* the breaks; the sound ones are stored until the frame is full.
CountersInv ==
    /\ chars \in Nat /\ pos \in Nat /\ ok \in Nat /\ err \in Nat /\ brk \in Nat
    /\ buf \in [0 .. FrameLength - 1 -> 0 .. 255]
    /\ started \in BOOLEAN
    /\ started  => chars = ok + err /\ brk <= err /\ pos = IF ok < FrameLength THEN ok ELSE FrameLength
    /\ ~started => ok = 0 /\ err = 0 /\ brk = 0 /\ pos = 0
JudgedInv ==
    verdict # "none" => verdict = CheckQuality(started, ok, err, brk, SumMatches(buf))

VerdictInv == CountersInv /\ JudgedInv

LEMMA VerdictInvInit == Init => VerdictInv
  BY DEF Init, VerdictInv, CountersInv, JudgedInv, FrameLength

LEMMA ReceiveStep ==
    ASSUME VerdictInv, ReceiveChar PROVE VerdictInv'
  <1>1. PICK lsr \in Status, c \in Bytes : Receive(lsr, c)
    BY DEF ReceiveChar
  <1>2. c \in 0 .. 255
    BY FrameAssumption
  <1>3. buf' \in [0 .. FrameLength - 1 -> 0 .. 255]
    BY <1>1, <1>2 DEF Receive, VerdictInv, CountersInv
  <1>4. /\ chars' = chars + 1 /\ started' = started /\ verdict = "none" /\ verdict' = verdict
    BY DEF ReceiveChar
  <1>5. lsr = {} \/ lsr = {"FE"} \/ lsr = {"FE", "BI"}
    BY DEF Status
  <1>6. CASE ~started
    BY <1>1, <1>3, <1>4, <1>6 DEF Receive, VerdictInv, CountersInv, JudgedInv, FrameLength
  <1>7. CASE started /\ lsr = {}
    BY <1>1, <1>3, <1>4, <1>7 DEF Receive, VerdictInv, CountersInv, JudgedInv, FrameLength
  <1>8. CASE started /\ lsr # {}
    BY <1>1, <1>3, <1>4, <1>5, <1>8 DEF Receive, VerdictInv, CountersInv, JudgedInv, FrameLength
  <1> QED
    BY <1>6, <1>7, <1>8 DEF VerdictInv, CountersInv

LEMMA VerdictStep == VerdictInv /\ [Next]_vars => VerdictInv'
  <1> SUFFICES ASSUME VerdictInv, [Next]_vars PROVE VerdictInv'
    OBVIOUS
  <1>1. CASE ReceiveChar
    BY <1>1, ReceiveStep
  <1>2. CASE End
    BY <1>2 DEF End, VerdictInv, CountersInv, JudgedInv
  <1>3. CASE UNCHANGED vars
    BY <1>3 DEF vars, VerdictInv, CountersInv, JudgedInv
  <1> QED
    BY <1>1, <1>2, <1>3 DEF Next

-----------------------------------------------------------------------------
(* What the verdict means.                                                 *)

LEMMA OkMeans ==
    ASSUME VerdictInv, verdict = "ok"
    PROVE  started /\ chars = FrameLength /\ pos = FrameLength /\ SumMatches(buf)
  BY DEF VerdictInv, CountersInv, JudgedInv, CheckQuality, FrameLength, TooMany, TooFew

LEMMA RefusedMeans == VerdictInv => FourToSix
  BY DEF VerdictInv, CountersInv, JudgedInv, CheckQuality, FrameLength, TooMany, TooFew, FourToSix

\* Of four bytes one is another.
LEMMA OneOther ==
    ASSUME NEW b, NEW d, NEW k \in 0 .. 3, Frame(b), Frame(d),
           \A i \in 0 .. 3 : i # k => d[i] = b[i]
    PROVE  Total(d) - Total(b) = d[k] - b[k]
  <1>1. PICK w, x, y, z \in Byte : w = b[0] /\ x = b[1] /\ y = b[2] /\ z = b[3]
    BY DEF Frame
  <1>2. PICK u \in Byte : u = d[k]
    <2>1. k = 0 \/ k = 1 \/ k = 2 \/ k = 3
      OBVIOUS
    <2> QED
      BY <2>1 DEF Frame
  <1>3. Total(b) = w + x + y + z
    BY <1>1, Zenon DEF Total
  <1>4. \/ k = 0 /\ b[k] = w /\ Total(d) = u + x + y + z
        \/ k = 1 /\ b[k] = x /\ Total(d) = w + u + y + z
        \/ k = 2 /\ b[k] = y /\ Total(d) = w + x + u + z
        \/ k = 3 /\ b[k] = z /\ Total(d) = w + x + y + u
    BY <1>1, <1>2 DEF Total
  <1> QED
    BY <1>2, <1>3, <1>4 DEF Byte

\* The greater of two bytes stands in the frame with the greater sum, which only
\* 255 in the place of 0 has the checksum of the other.
Exchanged(b, d, k) == b[k] = 0 /\ d[k] = 255 /\ Total(b) # 0

LEMMA GreaterSeen ==
    ASSUME NEW b, NEW d, NEW k \in 0 .. 3, Frame(b), Frame(d),
           \A i \in 0 .. 3 : i # k => d[i] = b[i],
           b[k] < d[k], Folded(Total(b)) = Folded(Total(d))
    PROVE  Exchanged(b, d, k)
  <1>1. PICK p, q \in Byte : p = b[k] /\ q = d[k]
    <2>1. k = 0 \/ k = 1 \/ k = 2 \/ k = 3
      OBVIOUS
    <2> QED
      BY <2>1 DEF Frame
  <1>2. PICK m, n \in Nat : m = Total(b) /\ n = Total(d)
    BY TotalIsNat
  <1>3. n - m = q - p /\ p < q /\ Folded(m) = Folded(n)
    BY <1>1, <1>2, OneOther
  <1>4. m < n /\ n - m <= 255
    BY <1>3 DEF Byte
  <1>5. n - m = 255 /\ m # 0
    BY <1>3, <1>4, FoldedTells
  <1>6. q = 255 /\ p = 0
    BY <1>3, <1>5 DEF Byte
  <1> QED
    BY <1>1, <1>2, <1>5, <1>6 DEF Exchanged

\* A frame that is not zero has a byte that is not.
SomeByte(b) == \E j \in 0 .. 3 : b[j] # 0

LEMMA NotAllZero == \A b : Total(b) # 0 => SomeByte(b)
  <1>1. 0 + 0 + 0 + 0 = 0 /\ 0 \in 0 .. 3 /\ 1 \in 0 .. 3 /\ 2 \in 0 .. 3 /\ 3 \in 0 .. 3
    OBVIOUS
  <1> QED
    BY <1>1, Zenon DEF Total, SomeByte

LEMMA BufferIsFrame ==
    ASSUME NEW b \in [0 .. FrameLength - 1 -> 0 .. 255]
    PROVE  Frame(b)
  BY DEF Frame, FrameLength, Byte

LEMMA DamageSeen ==
    ASSUME NEW b \in [0 .. FrameLength - 1 -> 0 .. 255], SumMatches(b),
           NEW k \in 0 .. FrameLength - 1, NEW v \in 0 .. 255, v # b[k],
           SumMatches([b EXCEPT ![k] = v])
    PROVE  {v, b[k]} = {0, 255} /\ \E j \in 0 .. FrameLength - 2 : j # k /\ b[j] # 0
  <1> DEFINE d == [b EXCEPT ![k] = v]
  <1>1. d \in [0 .. FrameLength - 1 -> 0 .. 255]
    OBVIOUS
  <1>2. Frame(b) /\ Frame(d)
    BY <1>1, BufferIsFrame
  <1>3. b[4] = Folded(Total(b)) /\ d[4] = Folded(Total(d))
    BY <1>2, FrameSum
  <1>4. d[k] = v /\ \A i \in 0 .. 4 : i # k => d[i] = b[i]
    BY DEF FrameLength
  <1>5. k \in 0 .. 4 /\ b[k] \in Byte /\ v \in Byte
    BY DEF FrameLength, Byte
  <1> HIDE DEF d
  <1>6. k \in 0 .. 3
    <2> SUFFICES ASSUME k = 4 PROVE FALSE
      BY <1>5
    <2>1. \A i \in 0 .. 3 : i \in 0 .. 4 /\ i # k
      OBVIOUS
    <2>2. d[0] = b[0] /\ d[1] = b[1] /\ d[2] = b[2] /\ d[3] = b[3]
      BY <1>4, <2>1
    <2>3. Total(d) = Total(b)
      BY <2>2, Zenon DEF Total
    <2> QED
      BY <1>3, <1>4, <2>3, Zenon
  <1>7. b[4] = d[4] /\ \A i \in 0 .. 3 : i # k => d[i] = b[i]
    BY <1>4, <1>6
  <1>8. b[k] < v \/ v < b[k]
    <2>1. \A p, q \in Byte : p = q \/ p < q \/ q < p
      BY DEF Byte
    <2> QED
      BY <1>5, <2>1, Zenon
  <1>9. 0 .. FrameLength - 2 = 0 .. 3
    BY DEF FrameLength
  <1>10. Folded(Total(b)) = Folded(Total(d)) /\ \A i \in 0 .. 3 : i # k => b[i] = d[i]
    BY <1>3, <1>7
  <1>11. CASE b[k] < v
    <2>1. Exchanged(b, d, k)
      BY <1>2, <1>4, <1>6, <1>7, <1>10, <1>11, GreaterSeen, Zenon
    <2>2. SomeByte(b)
      BY <2>1, NotAllZero, Zenon DEF Exchanged
    <2> QED
      BY <1>4, <1>9, <2>1, <2>2 DEF Exchanged, SomeByte
  <1>12. CASE v < b[k]
    <2>1. Exchanged(d, b, k)
      BY <1>2, <1>4, <1>6, <1>10, <1>12, GreaterSeen, Zenon
    <2>2. SomeByte(d)
      BY <2>1, NotAllZero, Zenon DEF Exchanged
    <2> QED
      BY <1>4, <1>7, <1>9, <2>1, <2>2 DEF Exchanged, SomeByte
  <1> QED
    BY <1>8, <1>11, <1>12

LEMMA VerdictInvMeans == VerdictInv => VerdictTrue
  <1> SUFFICES ASSUME VerdictInv PROVE VerdictTrue
    OBVIOUS
  <1>1. buf \in [0 .. FrameLength - 1 -> 0 .. 255]
    BY DEF VerdictInv, CountersInv
  <1>2. AcceptedSum
    <2> SUFFICES ASSUME verdict = "ok"
                 PROVE  LET sum == buf[0] + buf[1] + buf[2] + buf[3]
                        IN  buf[4] = IF sum = 0 THEN 0 ELSE ((sum - 1) % 255) + 1
      BY DEF AcceptedSum
    <2>1. buf[4] = Folded(Total(buf))
      BY <1>1, OkMeans, BufferIsFrame, FrameSum
    <2> QED
      BY <2>1, Zenon DEF Folded, Total
  <1>3. DamageDetected
    <2> SUFFICES ASSUME verdict = "ok", NEW k \in 0 .. FrameLength - 1,
                        NEW b \in (0 .. 255) \ {buf[k]}, SumMatches([buf EXCEPT ![k] = b])
                 PROVE  /\ {b, buf[k]} = {0, 255}
                        /\ \E j \in 0 .. FrameLength - 2 : j # k /\ buf[j] # 0
      BY DEF DamageDetected
    <2>1. SumMatches(buf)
      BY OkMeans
    <2>2. b \in 0 .. 255 /\ b # buf[k]
      OBVIOUS
    <2> QED
      BY <1>1, <2>1, <2>2, DamageSeen
  <1> QED
    BY <1>2, <1>3, OkMeans, RefusedMeans DEF VerdictTrue, OnlyWholeFrames

(* The verdict on a command frame can be relied on, for any number of      *)
(* characters of any bytes, sound or broken in any order: what is accepted *)
(* is a whole frame with the sum of its bytes, what is refused but looks   *)
(* like a frame has four to six characters, and the checksum sees every    *)
(* damage of one byte but the exchange of 0 and 255.                       *)
THEOREM VerdictIsTrue == Spec => []VerdictTrue
  <1>1. Spec => []VerdictInv
    BY VerdictInvInit, VerdictStep, PTL DEF Spec
  <1> QED
    BY <1>1, VerdictInvMeans, PTL
-----------------------------------------------------------------------------
(* The rings: the cells from a tail on, in the order of their use.         *)

\* The cell n places behind t, and the number of cells from t up to h.
Place(t, n) == IF t + n < IobufLength THEN t + n ELSE t + n - IobufLength
Between(t, h) == IF h >= t THEN h - t ELSE h + IobufLength - t
Segment(b, t, n) == [i \in 1 .. n |-> b[Place(t, i - 1)]]
Array(b) == b \in [Cells -> Uint8]

LEMMA Sizes == IobufLength \in Nat /\ IobufLength > FrameLength /\ FrameLength = 5 /\ 0 \in Cells
  BY RingsAssumption DEF FrameLength, Cells

LEMMA PlaceIs ==
    ASSUME NEW t \in Cells, NEW n \in Nat, n <= IobufLength
    PROVE  Place(t, n) \in Cells /\ (t + n) % IobufLength = Place(t, n)
  <1>1. t + n \in Nat /\ t + n < IobufLength + IobufLength /\ t < IobufLength
    BY Sizes DEF Cells
  <1>2. t \in Nat /\ IobufLength > 0 /\ IobufLength \in Nat
    BY Sizes DEF Cells
  <1>3. (t + n) % IobufLength = IF t + n < IobufLength THEN t + n ELSE t + n - IobufLength
    BY <1>1, <1>2
  <1> QED
    BY <1>1, <1>2, <1>3 DEF Place, Cells

LEMMA PlacesDiffer ==
    ASSUME NEW t \in Cells, NEW m \in Nat, NEW n \in Nat, m < n, n < IobufLength
    PROVE  Place(t, m) # Place(t, n)
  BY Sizes DEF Place, Cells

LEMMA BetweenIs ==
    ASSUME NEW t \in Cells, NEW h \in Cells
    PROVE  /\ Between(t, h) \in Nat /\ Between(t, h) < IobufLength
           /\ (h + IobufLength - t) % IobufLength = Between(t, h)
           /\ Place(t, Between(t, h)) = h
  <1>1. /\ h + IobufLength - t \in Nat /\ h + IobufLength - t < IobufLength + IobufLength
        /\ t < IobufLength /\ h < IobufLength
    BY Sizes DEF Cells
  <1>2. t \in Nat /\ h \in Nat /\ IobufLength > 0 /\ IobufLength \in Nat
    BY Sizes DEF Cells
  <1>3. (h + IobufLength - t) % IobufLength =
          IF h + IobufLength - t < IobufLength THEN h + IobufLength - t ELSE h - t
    BY <1>1, <1>2
  <1> QED
    BY <1>1, <1>2, <1>3 DEF Between, Place, Cells

\* Where the indices are after n characters more, or less.
LEMMA Moves ==
    ASSUME NEW t \in Cells, NEW h \in Cells, NEW n \in Nat
    PROVE  /\ n < IobufLength => Between(t, Place(t, n)) = n
           /\ n <= Between(t, h) => /\ Place(t, n) \in Cells
                                    /\ Between(Place(t, n), h) = Between(t, h) - n
           /\ Place(h, 1) = t => Between(t, h) = IobufLength - 1
           /\ Place(h, 1) # t => Between(t, Place(h, 1)) = Between(t, h) + 1 /\ Between(t, h) < IobufLength - 1
  BY Sizes DEF Between, Place, Cells

LEMMA PlacesAdd ==
    ASSUME NEW t \in Cells, NEW m \in Nat, NEW n \in Nat, m + n < IobufLength
    PROVE  Place(Place(t, m), n) = Place(t, m + n)
  BY Sizes DEF Place, Cells

\* What a segment is, what a character more makes of it, and its two parts.
LEMMA SegmentIs ==
    ASSUME NEW b, Array(b), NEW t \in Cells, NEW n \in Nat, n <= IobufLength,
           NEW s, s = Segment(b, t, n)
    PROVE  /\ s \in Seq(Uint8) /\ Len(s) = n
           /\ \A i \in 1 .. n : Place(t, i - 1) \in Cells /\ s[i] = b[Place(t, i - 1)]
  <1>1. \A i \in 1 .. n : Place(t, i - 1) \in Cells
    <2> TAKE i \in 1 .. n
    <2>1. i - 1 \in Nat /\ i - 1 <= IobufLength
      BY Sizes
    <2> QED
      BY <2>1, PlaceIs
  <1>2. s = [i \in 1 .. n |-> b[Place(t, i - 1)]]
    BY DEF Segment
  <1>3. s \in [1 .. n -> Uint8] /\ \A i \in 1 .. n : s[i] = b[Place(t, i - 1)]
    BY <1>1, <1>2 DEF Array
  <1>4. s \in Seq(Uint8) /\ Len(s) = n
    BY <1>3
  <1> QED
    BY <1>1, <1>3, <1>4, Zenon

LEMMA SegmentItem ==
    ASSUME NEW b, Array(b), NEW t \in Cells, NEW n \in Nat, n <= IobufLength,
           NEW s, s = Segment(b, t, n), NEW i \in Nat, i < n
    PROVE  Place(t, i) \in Cells /\ s[i + 1] = b[Place(t, i)]
  <1>1. PICK k : k = i + 1
    OBVIOUS
  <1>2. k \in 1 .. n /\ k - 1 = i
    BY <1>1
  <1>3. \A j \in 1 .. n : Place(t, j - 1) \in Cells /\ s[j] = b[Place(t, j - 1)]
    BY SegmentIs
  <1> QED
    BY <1>1, <1>2, <1>3

LEMMA SameSequence ==
    ASSUME NEW S, NEW s \in Seq(S), NEW u \in Seq(S), Len(s) = Len(u),
           \A i \in 1 .. Len(u) : s[i] = u[i]
    PROVE  s = u
  OBVIOUS

Stores(b, i, c, d) == d = [b EXCEPT ![i] = c]

LEMMA SegmentAppend ==
    ASSUME NEW b, Array(b), NEW t \in Cells, NEW n \in Nat, n < IobufLength, NEW c \in Uint8,
           NEW d, Stores(b, Place(t, n), c, d)
    PROVE  Array(d) /\ Segment(d, t, n + 1) = Append(Segment(b, t, n), c)
  <1>1. Array(d)
    BY DEF Array, Stores
  <1>0. PICK k : k = n + 1
    OBVIOUS
  <1>2. PICK s, u : s = Segment(b, t, n) /\ u = Segment(d, t, k)
    OBVIOUS
  <1>3. k \in Nat /\ k <= IobufLength /\ n <= IobufLength
    BY <1>0, Sizes
  <1>4. /\ s \in Seq(Uint8) /\ Len(s) = n
        /\ \A i \in 1 .. n : Place(t, i - 1) \in Cells /\ s[i] = b[Place(t, i - 1)]
    BY <1>2, <1>3, SegmentIs
  <1>5. /\ u \in Seq(Uint8) /\ Len(u) = n + 1
        /\ \A i \in 1 .. n + 1 : Place(t, i - 1) \in Cells /\ u[i] = d[Place(t, i - 1)]
    <2>1. /\ u \in Seq(Uint8) /\ Len(u) = k
          /\ \A i \in 1 .. k : Place(t, i - 1) \in Cells /\ u[i] = d[Place(t, i - 1)]
      BY <1>1, <1>2, <1>3, SegmentIs
    <2> QED
      BY <1>0, <2>1
  <1>6. u[n + 1] = c
    <2>1. n + 1 \in 1 .. n + 1 /\ (n + 1) - 1 = n
      OBVIOUS
    <2>2. u[n + 1] = d[Place(t, n)] /\ Place(t, n) \in Cells
      BY <1>5, <2>1
    <2> QED
      BY <2>2 DEF Array, Stores
  <1>7. \A i \in 1 .. n : u[i] = s[i]
    <2> TAKE i \in 1 .. n
    <2>1. i - 1 \in Nat /\ i - 1 < n /\ i \in 1 .. n + 1
      OBVIOUS
    <2>2. Place(t, i - 1) # Place(t, n)
      BY <2>1, PlacesDiffer
    <2>3. u[i] = d[Place(t, i - 1)] /\ s[i] = b[Place(t, i - 1)] /\ Place(t, i - 1) \in Cells
      BY <1>4, <1>5, <2>1
    <2> QED
      BY <2>2, <2>3 DEF Array, Stores
  <1>8. PICK v : v = Append(s, c)
    OBVIOUS
  <1>9. v \in Seq(Uint8) /\ Len(v) = n + 1 /\ \A i \in 1 .. n + 1 : v[i] = IF i <= n THEN s[i] ELSE c
    BY <1>4, <1>8
  <1>10. \A i \in 1 .. n + 1 : u[i] = v[i]
    BY <1>6, <1>7, <1>9
  <1>11. u = v
    BY <1>5, <1>9, <1>10, SameSequence
  <1> QED
    BY <1>0, <1>1, <1>2, <1>8, <1>11

PartOf(v, e, m, n) == \A i \in 1 .. n - m : v[i] = e[m + i]

LEMMA SubIs ==
    ASSUME NEW e \in Seq(Uint8), NEW m \in Nat, NEW n \in Nat, m <= n, n <= Len(e),
           NEW v, v = SubSeq(e, m + 1, n)
    PROVE  v \in Seq(Uint8) /\ Len(v) = n - m /\ PartOf(v, e, m, n)
  <1>1. PICK a : a = m + 1
    OBVIOUS
  <1>2. a \in Int /\ n \in Int /\ \A i \in a .. n : e[i] \in Uint8
    BY <1>1
  <1>3. /\ SubSeq(e, a, n) \in Seq(Uint8)
        /\ Len(SubSeq(e, a, n)) = IF a <= n THEN n - a + 1 ELSE 0
        /\ \A i \in 1 .. n - a + 1 : SubSeq(e, a, n)[i] = e[a + i - 1]
    BY <1>2, SubSeqProperties
  <1>4. v \in Seq(Uint8) /\ Len(v) = n - m /\ \A i \in 1 .. n - m : v[i] = e[m + i]
    BY <1>1, <1>3
  <1> QED
    BY <1>4 DEF PartOf

LEMMA SegmentParts ==
    ASSUME NEW b, Array(b), NEW t \in Cells, NEW n \in Nat, n < IobufLength, NEW m \in Nat, m <= n
    PROVE  /\ Segment(b, t, m) = SubSeq(Segment(b, t, n), 1, m)
           /\ Segment(b, Place(t, m), n - m) = SubSeq(Segment(b, t, n), m + 1, n)
  <1>0. PICK k : k = n - m
    OBVIOUS
  <1>1. PICK s, x, y, p : /\ s = Segment(b, t, n) /\ x = Segment(b, t, m)
                          /\ p = Place(t, m) /\ y = Segment(b, p, k)
    OBVIOUS
  <1>2. n <= IobufLength /\ m <= IobufLength /\ k \in Nat /\ k <= IobufLength /\ p \in Cells
    <2>1. n <= IobufLength /\ m <= IobufLength /\ k \in Nat /\ k <= IobufLength
      BY <1>0, Sizes
    <2> QED
      BY <1>1, <2>1, PlaceIs
  <1>3. s \in Seq(Uint8) /\ Len(s) = n /\ \A i \in 1 .. n : s[i] = b[Place(t, i - 1)]
    BY <1>1, <1>2, SegmentIs
  <1>4. x \in Seq(Uint8) /\ Len(x) = m /\ \A i \in 1 .. m : x[i] = b[Place(t, i - 1)]
    BY <1>1, <1>2, SegmentIs
  <1>5. y \in Seq(Uint8) /\ Len(y) = n - m /\ \A i \in 1 .. n - m : y[i] = b[Place(p, i - 1)]
    <2>1. y \in Seq(Uint8) /\ Len(y) = k /\ \A i \in 1 .. k : y[i] = b[Place(p, i - 1)]
      BY <1>1, <1>2, SegmentIs
    <2> QED
      BY <1>0, <2>1
  <1>6. \A i \in 1 .. n - m : y[i] = s[m + i]
    <2> TAKE i \in 1 .. n - m
    <2>1. PICK j, l : j = i - 1 /\ l = m + i
      OBVIOUS
    <2>2. j \in Nat /\ m + j < IobufLength /\ l \in 1 .. n /\ m + j = l - 1
      BY <2>1, Sizes
    <2>3. Place(p, j) = Place(t, m + j)
      BY <1>1, <2>2, PlacesAdd
    <2>4. y[i] = b[Place(p, j)] /\ s[l] = b[Place(t, l - 1)]
      BY <1>3, <1>5, <2>1, <2>2
    <2> QED
      BY <2>1, <2>2, <2>3, <2>4
  <1>7. x = SubSeq(s, 1, m)
    <2>1. PICK v : v = SubSeq(s, 0 + 1, m)
      OBVIOUS
    <2>2. 0 \in Nat /\ 0 <= m /\ m <= Len(s) /\ m - 0 = m
      BY <1>3
    <2>3. v \in Seq(Uint8) /\ Len(v) = m /\ PartOf(v, s, 0, m)
      BY <1>3, <2>1, <2>2, SubIs
    <2>4. \A i \in 1 .. Len(v) : x[i] = v[i]
      BY <1>3, <1>4, <2>2, <2>3 DEF PartOf
    <2> QED
      BY <1>4, <2>1, <2>3, <2>4, SameSequence
  <1>8. y = SubSeq(s, m + 1, n)
    <2>1. PICK v : v = SubSeq(s, m + 1, n)
      OBVIOUS
    <2>2. v \in Seq(Uint8) /\ Len(v) = n - m /\ PartOf(v, s, m, n)
      <3>1. s \in Seq(Uint8) /\ n <= Len(s)
        BY <1>3
      <3> QED
        BY <2>1, <3>1, SubIs
    <2>3. \A i \in 1 .. Len(v) : y[i] = v[i]
      BY <1>6, <2>2 DEF PartOf
    <2> QED
      BY <1>5, <2>1, <2>2, <2>3, SameSequence
  <1> QED
    BY <1>0, <1>1, <1>7, <1>8

LEMMA ContentsAre ==
    ASSUME NEW r, r.head \in Cells, r.tail \in Cells
    PROVE  /\ Count(r) = Between(r.tail, r.head)
           /\ Queued(r) = Segment(r.buf, r.tail, Between(r.tail, r.head))
  <1>1. PICK n : n = Between(r.tail, r.head)
    OBVIOUS
  <1>2. n \in Nat /\ n < IobufLength /\ Count(r) = n
    BY <1>1, BetweenIs DEF Count
  <1>3. \A i \in 1 .. n : (r.tail + i - 1) % IobufLength = Place(r.tail, i - 1)
    <2> TAKE i \in 1 .. n
    <2>1. i - 1 \in Nat /\ i - 1 <= IobufLength /\ r.tail + i - 1 = r.tail + (i - 1)
      BY <1>2, Sizes DEF Cells
    <2> QED
      BY <2>1, PlaceIs
  <1> QED
    BY <1>1, <1>2, <1>3 DEF Queued, Segment

\* Copying out, in two parts.
LEMMA CopyIs ==
    ASSUME NEW r, Array(r.buf), r.tail \in Cells, NEW n \in Nat, n < IobufLength
    PROVE  CopyToUser(r, n) = Segment(r.buf, r.tail, n)
  <1>1. PICK b, t, len : b = r.buf /\ t = r.tail /\ len = Smaller(IobufLength - t, n)
    OBVIOUS
  <1>2. PICK x, y : x = [i \in 1 .. len |-> b[t + i - 1]] /\ y = [i \in 1 .. n - len |-> b[i - 1]]
    OBVIOUS
  <1>3. t \in Cells /\ Array(b)
    BY <1>1
  <1>4. len \in Nat /\ n - len \in Nat /\ t + len <= IobufLength /\ (len = n \/ t + len = IobufLength)
    BY <1>1, <1>3, Sizes DEF Smaller, Cells
  <1>5. /\ \A i \in 1 .. len : t + i - 1 \in Cells /\ Place(t, i - 1) = t + i - 1
        /\ \A i \in 1 .. n - len : i - 1 \in Cells /\ Place(t, len + i - 1) = i - 1
    <2>1. /\ \A i \in 1 .. len : t + i - 1 \in Cells /\ Place(t, i - 1) = t + i - 1
      BY <1>3, <1>4, Sizes DEF Place, Cells
    <2>2. ASSUME NEW i \in 1 .. n - len PROVE i - 1 \in Cells /\ Place(t, len + i - 1) = i - 1
      BY <1>3, <1>4, Sizes DEF Place, Cells
    <2> QED
      BY <2>1, <2>2
  <1>6. x \in Seq(Uint8) /\ Len(x) = len /\ \A i \in 1 .. len : x[i] = b[Place(t, i - 1)]
    <2>1. x \in [1 .. len -> Uint8] /\ \A i \in 1 .. len : x[i] = b[Place(t, i - 1)]
      BY <1>2, <1>3, <1>5 DEF Array
    <2> QED
      BY <1>4, <2>1
  <1>7. y \in Seq(Uint8) /\ Len(y) = n - len /\ \A i \in 1 .. n - len : y[i] = b[Place(t, len + i - 1)]
    <2>1. y \in [1 .. n - len -> Uint8] /\ \A i \in 1 .. n - len : y[i] = b[Place(t, len + i - 1)]
      BY <1>2, <1>3, <1>5 DEF Array
    <2> QED
      BY <1>4, <2>1
  <1>8. PICK s, z : s = Segment(b, t, n) /\ z = x \o y
    OBVIOUS
  <1>9. s \in Seq(Uint8) /\ Len(s) = n /\ \A i \in 1 .. n : s[i] = b[Place(t, i - 1)]
    <2>1. n <= IobufLength
      BY Sizes
    <2> QED
      BY <1>3, <1>8, <2>1, SegmentIs
  <1>10. z \in Seq(Uint8) /\ Len(z) = n /\ \A i \in 1 .. n : z[i] = IF i <= len THEN x[i] ELSE y[i - len]
    <2>1. x \in Seq(Uint8) /\ y \in Seq(Uint8)
      BY <1>6, <1>7
    <2>2. /\ Len(x \o y) = Len(x) + Len(y)
          /\ \A i \in 1 .. Len(x) + Len(y) : (x \o y)[i] = IF i <= Len(x) THEN x[i] ELSE y[i - Len(x)]
      BY <2>1, ConcatProperties
    <2>3. z \in Seq(Uint8)
      BY <1>8, <2>1
    <2>4. Len(x) + Len(y) = n
      BY <1>4, <1>6, <1>7
    <2> QED
      BY <1>6, <1>8, <2>2, <2>3, <2>4
  <1>11. ASSUME NEW i \in 1 .. n PROVE z[i] = s[i]
    <2>1. CASE i <= len
      <3>1. i \in 1 .. len
        BY <1>4, <2>1
      <3> QED
        BY <1>6, <1>9, <1>10, <2>1, <3>1
    <2>2. CASE ~(i <= len)
      <3>1. PICK j : j = i - len
        OBVIOUS
      <3>2. j \in 1 .. n - len /\ len + j - 1 = i - 1
        BY <1>4, <2>2, <3>1
      <3>3. y[j] = b[Place(t, len + j - 1)]
        BY <1>7, <3>2
      <3> QED
        BY <1>9, <1>10, <2>2, <3>1, <3>2, <3>3
    <2> QED
      BY <2>1, <2>2
  <1>12. z = s
    BY <1>9, <1>10, <1>11, SameSequence
  <1>13. CopyToUser(r, n) = z
    BY <1>1, <1>2, <1>8 DEF CopyToUser
  <1> QED
    BY <1>1, <1>8, <1>12, <1>13

\* The checksum of what lies in a ring is that of the bytes in a row.
LEMMA StepIsOctet ==
    ASSUME NEW m \in Uint8, NEW c \in Uint8 PROVE AddWithCarry(m, c) \in Uint8
  <1>1. m \in Nat /\ m <= 255 /\ c \in Nat /\ c <= 255
    BY DEF Uint8
  <1>2. m + c >= 256 => (m + c) % 256 \in Nat /\ (m + c) % 256 <= 254
    BY <1>1
  <1> QED
    BY <1>1, <1>2 DEF AddWithCarry, Uint8

LEMMA SumIs ==
    ASSUME NEW b, Array(b), NEW t \in Cells, NEW n \in Nat, n > 0, n < IobufLength,
           NEW s, s = Segment(b, t, n)
    PROVE  Checksum(b, t, n, IobufLength) = SumOf(s) /\ SumOf(s) \in Uint8
  <1>0. n <= IobufLength
    BY Sizes
  <1>1. s \in Seq(Uint8) /\ Len(s) = n
        /\ \A i \in 1 .. n : Place(t, i - 1) \in Cells /\ s[i] = b[Place(t, i - 1)]
    BY <1>0, SegmentIs
  <1>2. PICK row : row = [i \in 0 .. n - 1 |-> s[i + 1]]
    OBVIOUS
  <1>3. SumOf(s) = Checksum(row, 0, n, n)
    BY <1>1, <1>2 DEF SumOf
  <1>4. PICK f : Sums(f, b, t, n, IobufLength) /\ Checksum(b, t, n, IobufLength) = f[n]
    BY ChecksumIs
  <1>5. PICK g : Sums(g, row, 0, n, n) /\ Checksum(row, 0, n, n) = g[n]
    BY ChecksumIs
  <1>6. ASSUME NEW i \in 1 .. n
        PROVE  s[i] \in Uint8 /\ f[i] = AddWithCarry(f[i - 1], s[i]) /\ g[i] = AddWithCarry(g[i - 1], s[i])
    <2>1. PICK j : j = i - 1
      OBVIOUS
    <2>2. j \in Nat /\ j <= IobufLength /\ t + i - 1 = t + j /\ 0 + i - 1 = j /\ j < n /\ j \in 0 .. n - 1 /\ j + 1 = i
      BY <1>0, <2>1, Sizes DEF Cells
    <2>3. (t + j) % IobufLength = Place(t, j)
      BY <2>2, PlaceIs
    <2>4. j % n = j
      BY <2>2
    <2>5. f[i] = AddWithCarry(f[i - 1], b[(t + i - 1) % IobufLength])
      BY <1>4 DEF Sums
    <2>6. g[i] = AddWithCarry(g[i - 1], row[(0 + i - 1) % n])
      BY <1>5 DEF Sums
    <2>7. s[i] = b[Place(t, i - 1)] /\ s[i] \in Uint8
      BY <1>1
    <2>8. row[j] = s[i]
      BY <1>2, <2>2
    <2>9. b[(t + i - 1) % IobufLength] = s[i]
      BY <2>1, <2>2, <2>3, <2>7
    <2>10. row[(0 + i - 1) % n] = s[i]
      BY <2>2, <2>4, <2>8
    <2> QED
      BY <2>5, <2>6, <2>7, <2>9, <2>10
  <1> DEFINE S == {i \in Nat : i <= n => f[i] = g[i] /\ f[i] \in Uint8}
  <1>7. 0 \in S
    BY <1>4, <1>5 DEF Sums, Uint8
  <1>8. ASSUME NEW i \in Nat, i \in S PROVE i + 1 \in S
    <2> SUFFICES ASSUME i + 1 <= n PROVE f[i + 1] = g[i + 1] /\ f[i + 1] \in Uint8
      OBVIOUS
    <2>1. PICK k : k = i + 1
      OBVIOUS
    <2>2. k \in 1 .. n /\ k - 1 = i /\ i <= n
      BY <2>1
    <2>3. f[i] = g[i] /\ f[i] \in Uint8
      BY <1>8, <2>2
    <2>4. s[k] \in Uint8 /\ f[k] = AddWithCarry(f[i], s[k]) /\ g[k] = AddWithCarry(g[i], s[k])
      BY <1>6, <2>2
    <2> QED
      BY <2>1, <2>3, <2>4, StepIsOctet
  <1> HIDE DEF S
  <1>9. n \in S
    BY <1>7, <1>8, SetInduction
  <1>10. f[n] = g[n] /\ f[n] \in Uint8
    BY <1>9 DEF S
  <1> QED
    BY <1>3, <1>4, <1>5, <1>10

-----------------------------------------------------------------------------
(* The rings: what every step keeps, and what it does to the queue.        *)

\* A queue of n characters: no more than one less than the cells.
LEMMA QueueIs ==
    ASSUME NEW r, Array(r.buf), r.head \in Cells, r.tail \in Cells,
           NEW n, n = Between(r.tail, r.head), NEW q, q = Queued(r)
    PROVE  /\ n \in Nat /\ n < IobufLength /\ n <= IobufLength - 1 /\ Count(r) = n
           /\ q = Segment(r.buf, r.tail, n) /\ q \in Seq(Uint8) /\ Len(q) = n
  <1>1. n \in Nat /\ n < IobufLength /\ Count(r) = n /\ q = Segment(r.buf, r.tail, n)
    BY ContentsAre, BetweenIs
  <1>2. n <= IobufLength /\ n <= IobufLength - 1
    BY <1>1, Sizes
  <1>3. q \in Seq(Uint8) /\ Len(q) = n
    BY <1>1, <1>2, SegmentIs
  <1> QED
    BY <1>1, <1>2, <1>3

LEMMA NextPlace ==
    ASSUME NEW h \in Cells PROVE (h + 1) % IobufLength = Place(h, 1) /\ Place(h, 1) \in Cells
  <1>1. 1 \in Nat /\ 1 <= IobufLength
    BY Sizes
  <1> QED
    BY <1>1, PlaceIs

\* A character more, in a ring that is not full and in one that is.
LEMMA CharAppended ==
    ASSUME NEW r, Array(r.buf), r.head \in Cells, r.tail \in Cells, NEW c \in Uint8,
           NEW u, Stores(r.buf, r.head, c, u.buf), u.head = (r.head + 1) % IobufLength, u.tail = r.tail
    PROVE  /\ Array(u.buf) /\ u.head \in Cells /\ u.tail \in Cells
           /\ u.head = r.tail <=> Len(Queued(r)) = IobufLength - 1
           /\ u.head = r.tail => Queued(u) = <<>>
           /\ u.head # r.tail => Queued(u) = Append(Queued(r), c) /\ Count(u) = Len(Queued(r)) + 1
  <1>1. PICK n, q, t, h, p, m : /\ n = Between(r.tail, r.head) /\ q = Queued(r) /\ t = r.tail /\ h = r.head
                                /\ p = u.head /\ m = Between(t, p)
    OBVIOUS
  <1>2. t \in Cells /\ h \in Cells /\ p = Place(h, 1) /\ p \in Cells
    BY <1>1, NextPlace
  <1>3. /\ n \in Nat /\ n < IobufLength /\ n <= IobufLength - 1
        /\ q = Segment(r.buf, t, n) /\ Len(q) = n
    BY <1>1, QueueIs
  <1>4. Array(u.buf)
    BY DEF Array, Stores
  <1>5. m \in Nat /\ Count(u) = m /\ Queued(u) = Segment(u.buf, t, m)
    BY <1>1, <1>2, <1>4, QueueIs
  <1>6. CASE p = t
    <2>1. n = IobufLength - 1
      BY <1>1, <1>2, <1>6, Moves
    <2>2. m = 0
      BY <1>1, <1>2, <1>6, Sizes DEF Between, Cells
    <2>3. Queued(u) = <<>>
      BY <1>5, <2>2 DEF Segment
    <2> QED
      BY <1>1, <1>2, <1>3, <1>4, <1>6, <2>1, <2>3
  <1>7. CASE p # t
    <2>1. m = n + 1 /\ n < IobufLength - 1
      BY <1>1, <1>2, <1>7, Moves
    <2>2. h = Place(t, n)
      BY <1>1, <1>2, BetweenIs
    <2>3. Segment(u.buf, t, n + 1) = Append(q, c)
      BY <1>1, <1>2, <1>3, <2>2, SegmentAppend
    <2>4. Queued(u) = Append(q, c) /\ Count(u) = Len(q) + 1
      BY <1>3, <1>5, <2>1, <2>3
    <2> QED
      BY <1>1, <1>2, <1>3, <1>4, <1>7, <2>1, <2>4
  <1> QED
    BY <1>6, <1>7

\* The n oldest taken.
LEMMA CharsTaken ==
    ASSUME NEW r, Array(r.buf), r.head \in Cells, r.tail \in Cells, NEW n \in Nat, n <= Count(r),
           NEW u, u.buf = r.buf, u.head = r.head, u.tail = (r.tail + n) % IobufLength
    PROVE  /\ u.tail \in Cells /\ n <= Len(Queued(r))
           /\ Queued(u) = SubSeq(Queued(r), n + 1, Len(Queued(r)))
           /\ Segment(r.buf, r.tail, n) = SubSeq(Queued(r), 1, n)
  <1>1. PICK k, q, t, h, p, m : /\ k = Between(r.tail, r.head) /\ q = Queued(r) /\ t = r.tail /\ h = r.head
                                /\ p = u.tail /\ m = Between(p, h)
    OBVIOUS
  <1>2. /\ k \in Nat /\ k < IobufLength /\ Count(r) = k
        /\ q = Segment(r.buf, t, k) /\ Len(q) = k
    BY <1>1, QueueIs
  <1>3. n <= k /\ n <= IobufLength
    BY <1>2, Sizes
  <1>4. t \in Cells /\ h \in Cells /\ p \in Cells /\ p = Place(t, n)
    BY <1>1, <1>3, PlaceIs
  <1>5. m = k - n
    BY <1>1, <1>3, <1>4, Moves
  <1>6. Queued(u) = Segment(r.buf, p, m)
    BY <1>1, <1>4, ContentsAre
  <1>7. /\ Segment(r.buf, t, n) = SubSeq(q, 1, n)
        /\ Segment(r.buf, p, k - n) = SubSeq(q, n + 1, k)
    BY <1>2, <1>3, <1>4, SegmentParts
  <1> QED
    BY <1>1, <1>2, <1>3, <1>4, <1>5, <1>6, <1>7

LEMMA NothingLeft ==
    ASSUME NEW r, r.head \in Cells, r.tail = r.head
    PROVE  Queued(r) = <<>> /\ Count(r) = 0
  <1>1. Between(r.tail, r.head) = 0
    BY Sizes DEF Between, Cells
  <1>2. Queued(r) = Segment(r.buf, r.tail, 0) /\ Count(r) = 0
    BY <1>1, ContentsAre
  <1> QED
    BY <1>2 DEF Segment

LEMMA RxShape ==
    ASSUME rx_buf \in RxRings
    PROVE  Array(rx_buf.buf) /\ rx_buf.head \in Cells /\ rx_buf.tail \in Cells /\ rx_buf.wakeup_len \in Int
  BY DEF RxRings, Array

LEMMA TxShape ==
    ASSUME tx_buf \in TxRings
    PROVE  Array(tx_buf.buf) /\ tx_buf.head \in Cells /\ tx_buf.tail \in Cells
  BY DEF TxRings, Array

\* The receive buffer, step by step.
LEMMA StoreCharDoes ==
    ASSUME rx_buf \in RxRings, NEW c \in Uint8, StoreChar(c)
    PROVE  rx_buf' \in RxRings /\ StoreCharIs(c)
  <1>1. Array(rx_buf.buf) /\ rx_buf.head \in Cells /\ rx_buf.tail \in Cells /\ rx_buf.wakeup_len \in Int
    BY RxShape
  <1>2. PICK u : u = [rx_buf EXCEPT !.buf[rx_buf.head] = c, !.head = (rx_buf.head + 1) % IobufLength]
    OBVIOUS
  <1>3. /\ Stores(rx_buf.buf, rx_buf.head, c, u.buf) /\ u.head = (rx_buf.head + 1) % IobufLength
        /\ u.tail = rx_buf.tail /\ u.wakeup_len = rx_buf.wakeup_len
        /\ u = [buf |-> u.buf, head |-> u.head, tail |-> u.tail, wakeup_len |-> u.wakeup_len]
    BY <1>2 DEF RxRings, Stores
  <1>4. /\ Array(u.buf) /\ u.head \in Cells /\ u.tail \in Cells
        /\ u.head = rx_buf.tail <=> Len(Queued(rx_buf)) = IobufLength - 1
        /\ u.head = rx_buf.tail => Queued(u) = <<>>
        /\ u.head # rx_buf.tail => Queued(u) = Append(Queued(rx_buf), c) /\ Count(u) = Len(Queued(rx_buf)) + 1
    BY <1>1, <1>3, CharAppended
  <1>5. u \in RxRings
    BY <1>1, <1>3, <1>4 DEF RxRings, Array
  <1>6. CASE u.head # rx_buf.tail
    <2>1. rx_buf' = u /\ wake' = (Count(u) = rx_buf.wakeup_len)
      BY <1>2, <1>3, <1>6 DEF StoreChar
    <2>2. ~RX!NoRoom
      BY <1>4, <1>6 DEF RX!NoRoom
    <2>3. Queued(rx_buf)' = Append(Queued(rx_buf), c)
      BY <1>4, <1>6, <2>1
    <2> QED
      BY <1>4, <1>5, <1>6, <2>1, <2>2, <2>3 DEF StoreCharIs, RX!Store
  <1>7. CASE u.head = rx_buf.tail
    <2>1. rx_buf' = rx_buf /\ wake' = FALSE
      BY <1>3, <1>7 DEF StoreChar
    <2>2. RX!NoRoom
      BY <1>4, <1>7 DEF RX!NoRoom
    <2> QED
      BY <2>1, <2>2 DEF StoreCharIs, RX!Store
  <1> QED
    BY <1>6, <1>7

LEMMA DiscardDoes ==
    ASSUME rx_buf \in RxRings, DiscardReceived \/ Flush \/ Reset
    PROVE  rx_buf' \in RxRings /\ RX!Empty
  <1>1. rx_buf.head \in Cells /\ rx_buf.tail \in Cells /\ 0 \in Cells
    BY RxShape, Sizes
  <1>2. rx_buf' \in RxRings /\ rx_buf'.tail = rx_buf'.head /\ rx_buf'.head \in Cells
    <2>1. CASE DiscardReceived
      BY <1>1, <2>1 DEF DiscardReceived, RxRings
    <2>2. CASE Flush
      BY <1>1, <2>2 DEF Flush, RxRings
    <2>3. CASE Reset
      <3>1. PICK m : m = -1
        OBVIOUS
      <3>2. rx_buf' = [rx_buf EXCEPT !.head = 0, !.tail = 0, !.wakeup_len = m] /\ m \in Int
        BY <2>3, <3>1 DEF Reset
      <3> QED
        BY <1>1, <3>2 DEF RxRings
    <2> QED
      BY <2>1, <2>2, <2>3
  <1>3. Queued(rx_buf') = <<>>
    BY <1>2, NothingLeft
  <1> QED
    BY <1>2, <1>3 DEF RX!Empty

\* The tail advanced.
LEMMA RxTaken ==
    ASSUME rx_buf \in RxRings, NEW n \in Nat, n <= Count(rx_buf),
           rx_buf' = [rx_buf EXCEPT !.tail = (rx_buf.tail + n) % IobufLength]
    PROVE  /\ rx_buf' \in RxRings /\ RX!Take(n)
           /\ Segment(rx_buf.buf, rx_buf.tail, n) = RX!Front(n)
  <1>1. Array(rx_buf.buf) /\ rx_buf.head \in Cells /\ rx_buf.tail \in Cells
    BY RxShape
  <1>2. PICK u : u = rx_buf'
    OBVIOUS
  <1>3. u.buf = rx_buf.buf /\ u.head = rx_buf.head /\ u.tail = (rx_buf.tail + n) % IobufLength
    BY <1>2 DEF RxRings
  <1>4. /\ u.tail \in Cells /\ n <= Len(Queued(rx_buf))
        /\ Queued(u) = SubSeq(Queued(rx_buf), n + 1, Len(Queued(rx_buf)))
        /\ Segment(rx_buf.buf, rx_buf.tail, n) = SubSeq(Queued(rx_buf), 1, n)
    BY <1>1, <1>3, CharsTaken
  <1>5. rx_buf' \in RxRings
    BY <1>2, <1>3, <1>4 DEF RxRings
  <1> QED
    BY <1>2, <1>4, <1>5 DEF RX!Take, RX!Front

LEMMA FetchCharDoes ==
    ASSUME rx_buf \in RxRings, FetchChar
    PROVE  rx_buf' \in RxRings /\ FetchCharIs
  <1>1. Array(rx_buf.buf) /\ rx_buf.head \in Cells /\ rx_buf.tail \in Cells
    BY RxShape
  <1>2. PICK n, q : n = Count(rx_buf) /\ q = Queued(rx_buf)
    OBVIOUS
  <1>3. n \in Nat /\ q \in Seq(Uint8) /\ Len(q) = n
    BY <1>1, <1>2, QueueIs
  <1>4. CASE n < 1
    <2>1. q = <<>>
      BY <1>3, <1>4
    <2>2. answer' = "timeout" /\ rx_buf' = rx_buf
      BY <1>2, <1>4 DEF FetchChar, Says
    <2> QED
      BY <1>2, <2>1, <2>2 DEF FetchCharIs
  <1>5. CASE ~(n < 1)
    <2>1. 1 <= n /\ 1 \in Nat /\ 1 <= IobufLength
      BY <1>3, <1>5, Sizes
    <2>2. /\ answer' = "ok" /\ handed' = <<rx_buf.buf[rx_buf.tail]>>
          /\ rx_buf' = [rx_buf EXCEPT !.tail = (rx_buf.tail + 1) % IobufLength]
      BY <1>2, <1>5 DEF FetchChar, Says
    <2>3. rx_buf' \in RxRings /\ RX!Take(1) /\ Segment(rx_buf.buf, rx_buf.tail, 1) = RX!Front(1)
      BY <1>2, <2>1, <2>2, RxTaken
    <2>4. Segment(rx_buf.buf, rx_buf.tail, 1) = <<rx_buf.buf[rx_buf.tail]>>
      <3>1. PICK s, b, t : s = Segment(b, t, 1) /\ b = rx_buf.buf /\ t = rx_buf.tail
        OBVIOUS
      <3>2. Array(b) /\ t \in Cells /\ 1 \in Nat /\ 1 <= IobufLength /\ s = Segment(b, t, 1)
        BY <1>1, <2>1, <3>1
      <3>3. s \in Seq(Uint8) /\ Len(s) = 1
        <4>1. PICK k : k = 1
          OBVIOUS
        <4>2. k \in Nat /\ k <= IobufLength /\ s = Segment(b, t, k)
          BY <3>2, <4>1
        <4>3. Len(s) = k /\ s \in Seq(Uint8)
          BY <3>2, <4>2, SegmentIs
        <4> QED
          BY <4>1, <4>3
      <3>4. 0 \in Nat /\ 0 < 1 /\ 0 + 1 = 1
        OBVIOUS
      <3>5. s[0 + 1] = b[Place(t, 0)]
        BY <3>2, <3>4, SegmentItem
      <3>6. Place(t, 0) = t
        BY <3>2, Sizes DEF Place, Cells
      <3>7. s = <<s[1]>>
        BY <3>3
      <3> QED
        BY <3>1, <3>4, <3>5, <3>6, <3>7
    <2> QED
      BY <2>2, <2>3, <2>4 DEF FetchCharIs
  <1> QED
    BY <1>4, <1>5

LEMMA FetchBlockDoes ==
    ASSUME rx_buf \in RxRings, NEW n \in Nat, n > 0, NEW checked \in BOOLEAN, NEW fault \in BOOLEAN,
           FetchBlock(n, checked, fault)
    PROVE  rx_buf' \in RxRings /\ FetchBlockIs(n, checked)
  <1>1. Array(rx_buf.buf) /\ rx_buf.head \in Cells /\ rx_buf.tail \in Cells
    BY RxShape
  <1>2. PICK w, q, b, t : /\ w = n + (IF checked THEN 1 ELSE 0) /\ q = Queued(rx_buf)
                          /\ b = rx_buf.buf /\ t = rx_buf.tail
    OBVIOUS
  <1>3. w \in Nat /\ w = (IF checked THEN n + 1 ELSE n) /\ n <= w
    BY <1>2
  <1>4. PICK m : m = Count(rx_buf)
    OBVIOUS
  <1>5. /\ m \in Nat /\ q = Segment(b, t, m) /\ q \in Seq(Uint8) /\ Len(q) = m
        /\ m < IobufLength /\ m <= IobufLength
    <2>1. PICK k : k = Between(rx_buf.tail, rx_buf.head)
      OBVIOUS
    <2>2. /\ k \in Nat /\ k < IobufLength /\ k <= IobufLength - 1 /\ Count(rx_buf) = k
          /\ q = Segment(rx_buf.buf, rx_buf.tail, k) /\ q \in Seq(Uint8) /\ Len(q) = k
      BY <1>1, <1>2, <2>1, QueueIs
    <2>3. k <= IobufLength
      BY <2>2, Sizes
    <2> QED
      BY <1>2, <1>4, <2>2, <2>3
  <1>6. CASE m < w
    <2>1. answer' = "timeout" /\ rx_buf' = rx_buf
      BY <1>2, <1>4, <1>6 DEF FetchBlock, Says
    <2> QED
      BY <1>2, <1>3, <1>5, <1>6, <2>1 DEF FetchBlockIs
  <1>7. CASE ~(m < w)
    <2>1. w <= m
      BY <1>3, <1>5, <1>7
    <2>2. rx_buf' = [rx_buf EXCEPT !.tail = (rx_buf.tail + w) % IobufLength]
      BY <1>2, <1>4, <1>7 DEF FetchBlock
    <2>3. rx_buf' \in RxRings /\ RX!Take(w)
      BY <1>3, <1>4, <2>1, <2>2, RxTaken
    <2>4. ASSUME answer' \in {"ok", "checksum"}
          PROVE  handed' = RX!Front(n) /\ (answer' = "ok" <=> (checked => q[n + 1] = SumOf(handed')))
      <3>1. /\ handed' = CopyToUser(rx_buf, n)
            /\ answer' = IF checked /\ b[(t + n) % IobufLength] # Checksum(b, t, n, IobufLength)
                         THEN "checksum" ELSE "ok"
        BY <1>2, <1>4, <1>7, <2>4 DEF FetchBlock, Says
      <3>2. n < IobufLength /\ n <= m /\ t \in Cells /\ Array(b) /\ n <= IobufLength
        <4>1. n < IobufLength /\ n <= m /\ n <= IobufLength
          BY <1>3, <1>5, <2>1, Sizes
        <4> QED
          BY <1>1, <1>2, <4>1
      <3>3. PICK s : s = Segment(b, t, n)
        OBVIOUS
      <3>4. handed' = s
        BY <1>2, <3>1, <3>2, <3>3, CopyIs
      <3>5. s = RX!Front(n)
        <4>1. Segment(b, t, n) = SubSeq(Segment(b, t, m), 1, n)
          <5>1. m \in Nat /\ m < IobufLength
            BY <1>5
          <5> QED
            BY <3>2, <5>1, SegmentParts
        <4>2. RX!Front(n) = SubSeq(q, 1, n)
          BY <1>2 DEF RX!Front
        <4> QED
          BY <1>5, <3>3, <4>1, <4>2
      <3>6. Checksum(b, t, n, IobufLength) = SumOf(s)
        BY <3>2, <3>3, SumIs
      <3>7. ASSUME checked PROVE b[(t + n) % IobufLength] = q[n + 1]
        <4>1. n < m
          BY <1>3, <1>5, <2>1, <3>7
        <4>2. q[n + 1] = b[Place(t, n)]
          BY <1>5, <3>2, <4>1, SegmentItem
        <4>3. (t + n) % IobufLength = Place(t, n)
          BY <3>2, PlaceIs
        <4> QED
          BY <4>1, <4>2, <4>3
      <3>8. answer' = "ok" <=> (checked => q[n + 1] = SumOf(s))
        BY <3>1, <3>6, <3>7
      <3> QED
        BY <3>4, <3>5, <3>8
    <2> QED
      BY <1>2, <1>3, <1>5, <1>7, <2>3, <2>4 DEF FetchBlockIs
  <1> QED
    BY <1>6, <1>7

-----------------------------------------------------------------------------
(* The transmit buffer, step by step.                                      *)

\* s lies in d from a cell on, len characters of it; d is as b elsewhere.
Laid(b, at, s, len, d) ==
    \A i \in Cells : d[i] = IF i >= at /\ i < at + len THEN s[i - at + 1] ELSE b[i]

LEMMA OverIs ==
    ASSUME NEW b, Array(b), NEW at \in Nat, NEW s \in Seq(Uint8), NEW len, len = Len(s), at + len <= IobufLength,
           NEW d, d = Over(b, at, s)
    PROVE  Array(d) /\ Laid(b, at, s, len, d)
  <1>1. \A i \in Cells : i \in at .. at + Len(s) - 1 <=> i >= at /\ i < at + Len(s)
    BY Sizes DEF Cells
  <1>2. d = [i \in Cells |-> IF i \in at .. at + Len(s) - 1 THEN s[i - at + 1] ELSE b[i]]
    BY DEF Over
  <1>3. ASSUME NEW i \in Cells, i >= at, i < at + Len(s) PROVE s[i - at + 1] \in Uint8
    <2>1. PICK j : j = i - at + 1
      OBVIOUS
    <2>2. j \in 1 .. Len(s)
      BY <1>3, <2>1 DEF Cells
    <2> QED
      BY <2>1, <2>2
  <1>4. \A i \in Cells : d[i] = IF i >= at /\ i < at + Len(s) THEN s[i - at + 1] ELSE b[i]
    BY <1>1, <1>2
  <1>5. \A i \in Cells : d[i] \in Uint8
    BY <1>3, <1>4 DEF Array
  <1> QED
    BY <1>2, <1>4, <1>5 DEF Array, Laid

\* n characters from t on, of which only len fit before the end of the array.
SplitAt(t, n, len, m) ==
    /\ n < IobufLength /\ len <= n /\ t + len <= IobufLength /\ m = n - len
    /\ len = n \/ t + len = IobufLength

Reads(b, t, n, e) == \A i \in 1 .. n : b[Place(t, i - 1)] = e[i]

LEMMA PartsIn ==
    ASSUME NEW t \in Cells, NEW n \in Nat, NEW len \in Nat, NEW m, SplitAt(t, n, len, m),
           NEW b, NEW e, NEW x, NEW y, NEW one, NEW two,
           PartOf(x, e, 0, len), PartOf(y, e, len, n), Laid(b, t, x, len, one), Laid(one, 0, y, m, two)
    PROVE  Reads(two, t, n, e)
  <1> SUFFICES ASSUME NEW i \in 1 .. n PROVE two[Place(t, i - 1)] = e[i]
    BY DEF Reads
  <1>0. /\ t \in Nat /\ t < IobufLength /\ n < IobufLength /\ len <= n /\ t + len <= IobufLength /\ m = n - len
        /\ len = n \/ t + len = IobufLength
    BY Sizes DEF Cells, SplitAt
  <1>1. PICK p : p = Place(t, i - 1)
    OBVIOUS
  <1>2. CASE i <= len
    <2>1. p = t + i - 1 /\ p \in Cells /\ p >= t /\ p < t + len /\ p - t + 1 = i
      BY <1>0, <1>1, <1>2, Sizes DEF Place, Cells
    <2>2. ~(p < 0 + m)
      BY <1>0, <1>2, <2>1, Sizes DEF Cells
    <2>3. two[p] = one[p]
      BY <2>1, <2>2 DEF Laid
    <2>4. one[p] = x[i]
      BY <2>1 DEF Laid
    <2>5. x[i] = e[0 + i] /\ 0 + i = i
      BY <1>2 DEF PartOf
    <2> QED
      BY <1>1, <2>3, <2>4, <2>5
  <1>3. CASE ~(i <= len)
    <2>1. t + len = IobufLength
      BY <1>0, <1>3
    <2>2. p = i - 1 - len /\ p \in Cells /\ p >= 0 /\ p < 0 + m
      BY <1>0, <1>1, <1>3, <2>1, Sizes DEF Place, Cells
    <2>3. two[p] = y[p - 0 + 1]
      BY <2>2 DEF Laid
    <2>4. PICK j : j = p - 0 + 1
      OBVIOUS
    <2>5. j \in 1 .. n - len /\ len + j = i
      BY <1>0, <1>3, <2>2, <2>4
    <2>6. y[j] = e[i]
      BY <2>5 DEF PartOf
    <2> QED
      BY <1>1, <2>3, <2>4, <2>6
  <1> QED
    BY <1>2, <1>3

\* Copying in, in two parts.
CopiesIn(b, t, e, len, one, two) ==
    /\ len = Smaller(IobufLength - t, Len(e))
    /\ one = Over(b, t, SubSeq(e, 1, len))
    /\ two = Over(one, 0, SubSeq(e, len + 1, Len(e)))

LEMMA CopiedIn ==
    ASSUME NEW b, Array(b), NEW t \in Cells, NEW e \in Seq(Uint8), Len(e) < IobufLength,
           NEW len, NEW one, NEW two, CopiesIn(b, t, e, len, one, two)
    PROVE  Array(one) /\ Array(two) /\ Segment(two, t, Len(e)) = e /\ len <= Len(e)
  <1>0. PICK n : n = Len(e)
    OBVIOUS
  <1>1. /\ n \in Nat /\ n < IobufLength /\ len \in Nat /\ len <= n /\ t + len <= IobufLength /\ t \in Nat
        /\ len = n \/ t + len = IobufLength
    BY <1>0, Sizes DEF Smaller, Cells, CopiesIn
  <1>2. PICK x, y : /\ x = SubSeq(e, 0 + 1, len) /\ y = SubSeq(e, len + 1, n)
    OBVIOUS
  <1>3. x \in Seq(Uint8) /\ Len(x) = len /\ PartOf(x, e, 0, len)
    <2>1. 0 \in Nat /\ 0 <= len /\ len <= Len(e) /\ len \in Nat /\ len - 0 = len
      BY <1>0, <1>1
    <2> QED
      BY <1>2, <2>1, SubIs
  <1>4. PICK m : m = n - len
    OBVIOUS
  <1>5. y \in Seq(Uint8) /\ Len(y) = m /\ PartOf(y, e, len, n)
    <2>1. n <= Len(e) /\ len \in Nat /\ n \in Nat /\ len <= n
      BY <1>0, <1>1
    <2> QED
      BY <1>2, <1>4, <2>1, SubIs
  <1>6. Array(one) /\ Laid(b, t, x, len, one)
    <2>1. one = Over(b, t, x) /\ t \in Nat /\ t + len <= IobufLength
      BY <1>1, <1>2 DEF CopiesIn
    <2> QED
      BY <1>3, <2>1, OverIs
  <1>7. Array(two) /\ Laid(one, 0, y, m, two)
    <2>1. two = Over(one, 0, y)
      BY <1>0, <1>2 DEF CopiesIn
    <2>2. PICK z : z = 0
      OBVIOUS
    <2>3. z \in Nat /\ z + m <= IobufLength /\ two = Over(one, z, y)
      BY <1>1, <1>4, <2>1, <2>2, Sizes
    <2> QED
      BY <1>5, <1>6, <2>2, <2>3, OverIs
  <1>8. PICK s : s = Segment(two, t, n)
    OBVIOUS
  <1>9. s \in Seq(Uint8) /\ Len(s) = n
        /\ \A i \in 1 .. n : Place(t, i - 1) \in Cells /\ s[i] = two[Place(t, i - 1)]
    <2>1. n <= IobufLength /\ n \in Nat /\ Array(two)
      BY <1>1, <1>7, Sizes
    <2> QED
      BY <1>8, <2>1, SegmentIs
  <1>10. \A i \in 1 .. n : s[i] = e[i]
    <2>1. \A i \in 1 .. n : two[Place(t, i - 1)] = e[i]
      <3>1. PartOf(x, e, 0, len) /\ PartOf(y, e, len, n) /\ Laid(b, t, x, len, one) /\ Laid(one, 0, y, m, two)
        BY <1>3, <1>5, <1>6, <1>7
      <3>2. n \in Nat /\ len \in Nat /\ SplitAt(t, n, len, m)
        BY <1>1, <1>4 DEF SplitAt
      <3>3. Reads(two, t, n, e)
        BY <3>1, <3>2, PartsIn
      <3> QED
        BY <3>3 DEF Reads
    <2> QED
      BY <1>9, <2>1
  <1>11. s = e
    <2>1. Len(s) = Len(e) /\ \A i \in 1 .. Len(e) : s[i] = e[i]
      BY <1>0, <1>9, <1>10
    <2> QED
      BY <1>9, <2>1, SameSequence
  <1> QED
    BY <1>0, <1>1, <1>6, <1>7, <1>8, <1>11

\* The head put n places behind the tail.
LEMMA HeadPut ==
    ASSUME NEW u, Array(u.buf), u.tail \in Cells, NEW n \in Nat, n < IobufLength,
           u.head = (u.tail + n) % IobufLength
    PROVE  u.head \in Cells /\ Queued(u) = Segment(u.buf, u.tail, n)
  <1>1. PICK t, h : t = u.tail /\ h = u.head
    OBVIOUS
  <1>2. n <= IobufLength
    BY Sizes
  <1>3. h \in Cells /\ h = Place(t, n)
    BY <1>1, <1>2, PlaceIs
  <1>4. Between(t, h) = n
    BY <1>1, <1>3, Moves
  <1> QED
    BY <1>1, <1>3, <1>4, ContentsAre

LEMMA PutCharDoes ==
    ASSUME tx_buf \in TxRings, NEW c \in Uint8, PutChar(c)
    PROVE  tx_buf' \in TxRings /\ TX!Put(c)
  <1>1. Array(tx_buf.buf) /\ tx_buf.head \in Cells /\ tx_buf.tail \in Cells
    BY TxShape
  <1>2. PICK u : u = tx_buf'
    OBVIOUS
  <1>3. u = [tx_buf EXCEPT !.buf[tx_buf.head] = c, !.head = (tx_buf.head + 1) % IobufLength]
    BY <1>2 DEF PutChar
  <1>4. /\ Stores(tx_buf.buf, tx_buf.head, c, u.buf) /\ u.head = (tx_buf.head + 1) % IobufLength
        /\ u.tail = tx_buf.tail /\ u = [buf |-> u.buf, head |-> u.head, tail |-> u.tail]
    BY <1>3 DEF TxRings, Stores
  <1>5. /\ Array(u.buf) /\ u.head \in Cells /\ u.tail \in Cells
        /\ u.head = tx_buf.tail <=> Len(Queued(tx_buf)) = IobufLength - 1
        /\ u.head = tx_buf.tail => Queued(u) = <<>>
        /\ u.head # tx_buf.tail => Queued(u) = Append(Queued(tx_buf), c)
    BY <1>1, <1>4, CharAppended
  <1>6. tx_buf' \in TxRings
    BY <1>2, <1>4, <1>5 DEF TxRings, Array
  <1> QED
    BY <1>2, <1>5, <1>6 DEF TX!Put, TX!NoRoom

\* setup_send_frame, the copying done.
SetupStep(d, summed, k, n, t, img) ==
    IF n >= IobufLength - 2
    THEN answer' = "einval" /\ tx_buf' = tx_buf
    ELSE IF k < n
    THEN answer' = "fault" /\ tx_buf' = [tx_buf EXCEPT !.buf = img, !.head = t]
    ELSE /\ answer' = "ok"
         /\ tx_buf' = IF summed
                      THEN [tx_buf EXCEPT
                              !.buf  = [img EXCEPT ![(t + n) % IobufLength] = Checksum(img, t, n, IobufLength)],
                              !.head = (t + n + 1) % IobufLength]
                      ELSE [tx_buf EXCEPT !.buf = img, !.head = (t + n) % IobufLength]

LEMMA SetupSendFrameDoes ==
    ASSUME tx_buf \in TxRings, NEW d \in Seq(Uint8), d # <<>>, NEW summed \in BOOLEAN,
           NEW k \in 0 .. Len(d), SetupSendFrame(d, summed, k)
    PROVE  tx_buf' \in TxRings /\ SetupSendFrameIs(d, summed)
  <1>1. Array(tx_buf.buf) /\ tx_buf.head \in Cells /\ tx_buf.tail \in Cells
    BY TxShape
  <1>2. PICK n, t, e, b : /\ n = Len(d) /\ t = tx_buf.tail /\ b = tx_buf.buf
                          /\ e = [i \in 1 .. n |-> IF i <= k THEN d[i] ELSE 0]
    OBVIOUS
  <1>3. n \in Nat /\ n > 0 /\ t \in Cells /\ Array(b) /\ k \in 0 .. n
    BY <1>1, <1>2
  <1>4. e \in Seq(Uint8) /\ Len(e) = n /\ (k = n => e = d)
    <2>1. \A i \in 1 .. n : e[i] = IF i <= k THEN d[i] ELSE 0
      BY <1>2
    <2>2. e \in [1 .. n -> Uint8]
      BY <1>2 DEF Uint8
    <2>3. e \in Seq(Uint8) /\ Len(e) = n
      BY <1>3, <2>2
    <2>4. k = n => \A i \in 1 .. Len(d) : e[i] = d[i]
      BY <1>2, <2>1
    <2> QED
      BY <1>2, <2>3, <2>4, SameSequence
  <1>5. PICK len, one, two : CopiesIn(b, t, e, len, one, two)
    BY DEF CopiesIn
  <1>6. PICK img : img = IF k < len THEN one ELSE two
    OBVIOUS
  <1>7. SetupStep(d, summed, k, n, t, img)
    <2>1. len = Smaller(IobufLength - t, n)
      BY <1>4, <1>5 DEF CopiesIn
    <2>2. one = Over(b, t, SubSeq(e, 1, len)) /\ two = Over(one, 0, SubSeq(e, len + 1, n))
      BY <1>4, <1>5 DEF CopiesIn
    <2>3. img = IF k < len THEN one ELSE Over(one, 0, SubSeq(e, len + 1, n))
      BY <1>6, <2>2
    <2> QED
      BY <1>2, <2>1, <2>2, <2>3 DEF SetupSendFrame, SetupStep, Says
  <1>8. CASE n >= IobufLength - 2
    <2>1. answer' = "einval" /\ tx_buf' = tx_buf
      BY <1>7, <1>8 DEF SetupStep
    <2> QED
      BY <2>1 DEF SetupSendFrameIs
  <1>9. CASE ~(n >= IobufLength - 2)
    <2>1. n < IobufLength /\ n + 1 < IobufLength /\ n <= IobufLength /\ Len(e) < IobufLength
      BY <1>3, <1>4, <1>9, Sizes
    <2>2. Array(one) /\ Array(two) /\ Segment(two, t, n) = e /\ len <= n
      BY <1>3, <1>4, <1>5, <2>1, CopiedIn
    <2>3. Array(img)
      BY <1>6, <2>2
    <2>4. PICK u : u = tx_buf'
      OBVIOUS
    <2>5. len \in Nat
      BY <1>3, <1>4, <1>5, Sizes DEF CopiesIn, Smaller, Cells
    <2>6. CASE k < n
      <3>1. answer' = "fault" /\ u = [tx_buf EXCEPT !.buf = img, !.head = t]
        BY <1>7, <1>9, <2>4, <2>6 DEF SetupStep
      <3>2. u \in TxRings /\ u.head = t /\ u.tail = t
        BY <1>2, <1>3, <2>3, <3>1 DEF TxRings, Array
      <3>3. Queued(u) = <<>>
        BY <1>3, <3>2, NothingLeft
      <3>4. TX!Empty
        BY <2>4, <3>3 DEF TX!Empty
      <3> QED
        BY <2>4, <3>1, <3>2, <3>4 DEF SetupSendFrameIs
    <2>7. CASE ~(k < n)
      <3>1. k = n /\ e = d /\ img = two
        <4>1. k = n
          BY <1>3, <2>7
        <4>2. ~(n < len)
          BY <1>3, <2>2, <2>5
        <4> QED
          BY <1>4, <1>6, <4>1, <4>2
      <3>2. answer' = "ok"
        BY <1>7, <1>9, <2>7 DEF SetupStep
      <3>3. CASE summed
        <4>1. PICK c, p, w, l : /\ c = Checksum(two, t, n, IobufLength) /\ p = (t + n) % IobufLength
                                /\ w = [two EXCEPT ![p] = c] /\ l = n + 1
          OBVIOUS
        <4>2. u = [tx_buf EXCEPT !.buf = w, !.head = (t + n + 1) % IobufLength]
          BY <1>7, <1>9, <2>4, <2>7, <3>1, <3>3, <4>1 DEF SetupStep
        <4>3. c = SumOf(d) /\ c \in Uint8
          BY <1>3, <2>1, <2>2, <3>1, <4>1, SumIs
        <4>4. p = Place(t, n) /\ Stores(two, p, c, w)
          BY <1>3, <2>1, <4>1, PlaceIs DEF Stores
        <4>5. Array(w) /\ Segment(w, t, n + 1) = Append(d, c)
          <5>1. Array(w) /\ Segment(w, t, n + 1) = Append(Segment(two, t, n), c)
            BY <1>3, <2>1, <2>2, <4>3, <4>4, SegmentAppend
          <5> QED
            BY <2>2, <3>1, <5>1
        <4>6. u.buf = w /\ u.tail = t /\ u.head = (t + n + 1) % IobufLength
          BY <1>2, <4>2 DEF TxRings
        <4>7. l \in Nat /\ l < IobufLength /\ t + n + 1 = t + l
          BY <1>3, <2>1, <4>1 DEF Cells
        <4>8. u.head \in Cells /\ Queued(u) = Segment(w, t, l)
          BY <1>3, <4>5, <4>6, <4>7, HeadPut
        <4>9. u \in TxRings
          BY <4>2, <4>5, <4>6, <4>8 DEF TxRings, Array
        <4>10. TX!Load(Append(d, SumOf(d)))
          BY <2>4, <4>1, <4>3, <4>5, <4>8 DEF TX!Load
        <4> QED
          BY <2>4, <3>2, <3>3, <4>9, <4>10 DEF SetupSendFrameIs
      <3>4. CASE ~summed
        <4>1. u = [tx_buf EXCEPT !.buf = two, !.head = (t + n) % IobufLength]
          BY <1>7, <1>9, <2>4, <2>7, <3>1, <3>4 DEF SetupStep
        <4>2. u.buf = two /\ u.tail = t /\ u.head = (t + n) % IobufLength
          BY <1>2, <4>1 DEF TxRings
        <4>3. u.head \in Cells /\ Queued(u) = Segment(two, t, n)
          BY <1>3, <2>1, <2>2, <4>2, HeadPut
        <4>4. u \in TxRings
          BY <2>2, <4>1, <4>2, <4>3 DEF TxRings, Array
        <4>5. TX!Load(d)
          BY <2>2, <2>4, <3>1, <4>3 DEF TX!Load
        <4> QED
          BY <2>4, <3>2, <3>4, <4>4, <4>5 DEF SetupSendFrameIs
      <3> QED
        BY <3>3, <3>4
    <2> QED
      BY <2>6, <2>7
  <1> QED
    BY <1>8, <1>9

LEMMA PutFrameDoes ==
    ASSUME tx_buf \in TxRings, NEW f \in Seq(Uint8), Len(f) = FrameLength, PutFrame(f)
    PROVE  tx_buf' \in TxRings /\ TX!Load(f)
  <1>1. Array(tx_buf.buf) /\ tx_buf.head \in Cells /\ tx_buf.tail \in Cells
    BY TxShape
  <1>2. PICK u, t, b, w, n : /\ u = tx_buf' /\ t = tx_buf.tail /\ b = tx_buf.buf /\ n = FrameLength
                             /\ w = [i \in Cells |->
                                      LET k == (i + IobufLength - t) % IobufLength
                                      IN  IF k < FrameLength THEN f[k + 1] ELSE b[i]]
    OBVIOUS
  <1>3. t \in Cells /\ Array(b) /\ n \in Nat /\ n < IobufLength /\ n <= IobufLength /\ Len(f) = n
    BY <1>1, <1>2, Sizes
  <1>4. u = [tx_buf EXCEPT !.buf = w, !.head = (t + n) % IobufLength]
    BY <1>2 DEF PutFrame
  <1>5. \A i \in Cells : w[i] = IF Between(t, i) < n THEN f[Between(t, i) + 1] ELSE b[i]
    <2> TAKE i \in Cells
    <2>1. (i + IobufLength - t) % IobufLength = Between(t, i)
      BY <1>3, BetweenIs
    <2> QED
      BY <1>2, <2>1
  <1>6. ASSUME NEW i \in Cells PROVE w[i] \in Uint8
    <2>1. PICK k : k = Between(t, i)
      OBVIOUS
    <2>2. k \in Nat
      BY <1>3, <2>1, BetweenIs
    <2>3. w[i] = IF k < n THEN f[k + 1] ELSE b[i]
      BY <1>5, <2>1
    <2>4. k < n => k + 1 \in 1 .. Len(f)
      BY <1>3, <2>2
    <2>5. b[i] \in Uint8
      BY <1>3 DEF Array
    <2> QED
      BY <2>3, <2>4, <2>5
  <1>7. Array(w)
    BY <1>2, <1>6 DEF Array
  <1>8. PICK s : s = Segment(w, t, n)
    OBVIOUS
  <1>9. s \in Seq(Uint8) /\ Len(s) = n
    BY <1>3, <1>7, <1>8, SegmentIs
  <1>10. ASSUME NEW i \in 1 .. n PROVE s[i] = f[i]
    <2>1. PICK j, p : j = i - 1 /\ p = Place(t, j)
      OBVIOUS
    <2>2. j \in Nat /\ j < n /\ j < IobufLength /\ j + 1 = i
      BY <1>3, <2>1, Sizes
    <2>3. s[j + 1] = w[p] /\ p \in Cells
      <3>1. t \in Cells /\ n \in Nat /\ n <= IobufLength /\ j \in Nat /\ j < n
        BY <1>3, <2>2
      <3>2. Place(t, j) \in Cells /\ s[j + 1] = w[Place(t, j)]
        BY <1>7, <1>8, <3>1, SegmentItem
      <3> QED
        BY <2>1, <3>2
    <2>4. Between(t, p) = j
      BY <1>3, <2>1, <2>2, <2>3, Moves
    <2>5. w[p] = f[j + 1]
      BY <1>5, <2>2, <2>3, <2>4
    <2> QED
      BY <2>2, <2>3, <2>5
  <1>11. s = f
    BY <1>3, <1>9, <1>10, SameSequence
  <1>12. u.buf = w /\ u.tail = t /\ u.head = (t + n) % IobufLength
    BY <1>2, <1>4 DEF TxRings
  <1>13. u.head \in Cells /\ Queued(u) = s
    BY <1>3, <1>7, <1>8, <1>12, HeadPut
  <1>14. u \in TxRings
    BY <1>4, <1>7, <1>12, <1>13 DEF TxRings, Array
  <1> QED
    BY <1>2, <1>11, <1>13, <1>14 DEF TX!Load

LEMMA SendCharsDoes ==
    ASSUME tx_buf \in TxRings, SendChars
    PROVE  tx_buf' \in TxRings /\ TX!Take(Len(handed')) /\ handed' = TX!Front(Len(handed'))
  <1>1. Array(tx_buf.buf) /\ tx_buf.head \in Cells /\ tx_buf.tail \in Cells
    BY TxShape
  <1>2. PICK m, k, t, u, q : /\ m = Count(tx_buf) /\ k = Smaller(FifoLen, m) /\ t = tx_buf.tail /\ u = tx_buf'
                             /\ q = Queued(tx_buf)
    OBVIOUS
  <1>3. m \in Nat /\ m < IobufLength
    BY <1>1, <1>2, QueueIs
  <1>4. k \in Nat /\ k <= m /\ k <= IobufLength /\ t \in Cells
    BY <1>1, <1>2, <1>3, RingsAssumption DEF Smaller
  <1>5. handed' = [i \in 1 .. k |-> tx_buf.buf[(t + i - 1) % IobufLength]]
        /\ u = [tx_buf EXCEPT !.tail = (t + k) % IobufLength]
    BY <1>2 DEF SendChars, Says
  <1>6. \A i \in 1 .. k : (t + i - 1) % IobufLength = Place(t, i - 1)
    <2> TAKE i \in 1 .. k
    <2>1. i - 1 \in Nat /\ i - 1 <= IobufLength /\ t + i - 1 = t + (i - 1)
      BY <1>4, Sizes DEF Cells
    <2> QED
      BY <1>4, <2>1, PlaceIs
  <1>7. handed' = Segment(tx_buf.buf, t, k)
    BY <1>5, <1>6 DEF Segment
  <1>8. Len(handed') = k
    BY <1>1, <1>4, <1>7, SegmentIs
  <1>9. u.buf = tx_buf.buf /\ u.head = tx_buf.head /\ u.tail = (t + k) % IobufLength
    BY <1>5 DEF TxRings
  <1>10. /\ u.tail \in Cells /\ k <= Len(q)
         /\ Queued(u) = SubSeq(q, k + 1, Len(q))
         /\ Segment(tx_buf.buf, t, k) = SubSeq(q, 1, k)
    BY <1>1, <1>2, <1>4, <1>9, CharsTaken
  <1>11. tx_buf' \in TxRings
    BY <1>2, <1>5, <1>10 DEF TxRings
  <1> QED
    BY <1>2, <1>7, <1>8, <1>10, <1>11 DEF TX!Take, TX!Front

LEMMA TxDiscardDoes ==
    ASSUME tx_buf \in TxRings, Flush \/ Reset
    PROVE  tx_buf' \in TxRings /\ TX!Empty
  <1>1. tx_buf.head \in Cells /\ tx_buf.tail \in Cells /\ 0 \in Cells
    BY TxShape, Sizes
  <1>2. tx_buf' \in TxRings /\ tx_buf'.tail = tx_buf'.head /\ tx_buf'.head \in Cells
    <2>1. CASE Flush
      BY <1>1, <2>1 DEF Flush, TxRings
    <2>2. CASE Reset
      BY <1>1, <2>2 DEF Reset, TxRings
    <2> QED
      BY <2>1, <2>2
  <1>3. Queued(tx_buf') = <<>>
    BY <1>2, NothingLeft
  <1> QED
    BY <1>2, <1>3 DEF TX!Empty

-----------------------------------------------------------------------------
(* The rings: the theorems.  That both keep their shape is inductive, and  *)
(* of a ring in that shape every step is one of the queue it stands for.   *)

LEMMA RingsInvInit == RingsInit => RingsInv
  <1> SUFFICES ASSUME RingsInit PROVE RingsInv
    OBVIOUS
  <1>1. PICK z : z = [i \in Cells |-> 0]
    OBVIOUS
  <1>2. PICK m : m = -1
    OBVIOUS
  <1>3. z \in [Cells -> Uint8] /\ m \in Int /\ 0 \in Cells
    BY <1>1, <1>2, Sizes DEF Uint8
  <1>4. /\ rx_buf = [buf |-> z, head |-> 0, tail |-> 0, wakeup_len |-> m]
        /\ tx_buf = [buf |-> z, head |-> 0, tail |-> 0]
    BY <1>1, <1>2 DEF RingsInit
  <1> QED
    BY <1>3, <1>4 DEF RingsInv, RxRings, TxRings

LEMMA RxStepIs == RingsInv => RxStep
  <1> SUFFICES ASSUME RingsInv PROVE RxStep
    OBVIOUS
  <1>1. rx_buf \in RxRings
    BY DEF RingsInv
  <1>2. ASSUME NEW c \in Chars, StoreChar(c) PROVE StoreCharIs(c)
    <2>1. c \in Uint8
      BY RingsAssumption
    <2> QED
      BY <1>1, <1>2, <2>1, StoreCharDoes
  <1>3. DiscardReceived \/ Flush \/ Reset => RX!Empty
    BY <1>1, DiscardDoes
  <1>4. FetchChar => FetchCharIs
    BY <1>1, FetchCharDoes
  <1>5. ASSUME NEW n \in Lengths, NEW checked \in BOOLEAN, NEW fault \in BOOLEAN, FetchBlock(n, checked, fault)
        PROVE  FetchBlockIs(n, checked)
    <2>1. n \in Nat /\ n > 0
      BY RingsAssumption
    <2> QED
      BY <1>1, <1>5, <2>1, FetchBlockDoes
  <1> QED
    BY <1>2, <1>3, <1>4, <1>5 DEF RxStep

LEMMA FramesAndBlocks ==
    /\ \A f \in Frames : f \in Seq(Uint8) /\ Len(f) = FrameLength
    /\ \A d \in Blocks : d \in Seq(Uint8) /\ d # <<>>
  BY RingsAssumption

LEMMA TxStepIs == RingsInv => TxStep
  <1> SUFFICES ASSUME RingsInv PROVE TxStep
    OBVIOUS
  <1>1. tx_buf \in TxRings
    BY DEF RingsInv
  <1>2. ASSUME NEW c \in Chars, PutChar(c) PROVE TX!Put(c)
    <2>1. c \in Uint8
      BY RingsAssumption
    <2> QED
      BY <1>1, <1>2, <2>1, PutCharDoes
  <1>3. ASSUME NEW d \in Blocks, NEW summed \in BOOLEAN, NEW k \in 0 .. Len(d), SetupSendFrame(d, summed, k)
        PROVE  SetupSendFrameIs(d, summed)
    <2>1. d \in Seq(Uint8) /\ d # <<>>
      BY FramesAndBlocks
    <2> QED
      BY <1>1, <1>3, <2>1, SetupSendFrameDoes
  <1>4. ASSUME NEW f \in Frames, PutFrame(f) PROVE TX!Load(f)
    <2>1. f \in Seq(Uint8) /\ Len(f) = FrameLength
      BY FramesAndBlocks
    <2> QED
      BY <1>1, <1>4, <2>1, PutFrameDoes
  <1>5. SendChars => TX!Take(Len(handed')) /\ handed' = TX!Front(Len(handed'))
    BY <1>1, SendCharsDoes
  <1>6. Flush \/ Reset => TX!Empty
    BY <1>1, TxDiscardDoes
  <1> QED
    BY <1>2, <1>3, <1>4, <1>5, <1>6 DEF TxStep

LEMMA RingsInvStep == RingsInv /\ [RingsNext]_ringvars => RingsInv'
  <1> SUFFICES ASSUME RingsInv, [RingsNext]_ringvars PROVE RingsInv'
    OBVIOUS
  <1>1. rx_buf \in RxRings /\ tx_buf \in TxRings
    BY DEF RingsInv
  <1> SUFFICES rx_buf' \in RxRings /\ tx_buf' \in TxRings
    BY DEF RingsInv, RxRings, TxRings, Cells, Uint8
  <1>2. ASSUME NEW c \in Chars, StoreChar(c) PROVE rx_buf' \in RxRings /\ tx_buf' \in TxRings
    <2>1. c \in Uint8
      BY RingsAssumption
    <2>2. rx_buf' \in RxRings
      BY <1>1, <1>2, <2>1, StoreCharDoes
    <2> QED
      BY <1>1, <1>2, <2>2 DEF StoreChar
  <1>3. ASSUME NEW n \in Lengths \cup {1, -1}, WaitLen(n) PROVE rx_buf' \in RxRings /\ tx_buf' \in TxRings
    <2>1. n \in Int
      BY RingsAssumption
    <2>2. rx_buf' = [rx_buf EXCEPT !.wakeup_len = n] /\ tx_buf' = tx_buf
      BY <1>3 DEF WaitLen, Quiet
    <2>3. rx_buf' \in RxRings
      BY <1>1, <2>1, <2>2 DEF RxRings
    <2> QED
      BY <1>1, <2>2, <2>3
  <1>4. ASSUME DiscardReceived PROVE rx_buf' \in RxRings /\ tx_buf' \in TxRings
    <2>1. rx_buf' \in RxRings
      BY <1>1, <1>4, DiscardDoes
    <2> QED
      BY <1>1, <1>4, <2>1 DEF DiscardReceived, Quiet
  <1>5. ASSUME FetchChar PROVE rx_buf' \in RxRings /\ tx_buf' \in TxRings
    <2>1. rx_buf' \in RxRings
      BY <1>1, <1>5, FetchCharDoes
    <2> QED
      BY <1>1, <1>5, <2>1 DEF FetchChar, Quiet
  <1>6. ASSUME NEW n \in Lengths, NEW checked \in BOOLEAN, NEW fault \in BOOLEAN, FetchBlock(n, checked, fault)
        PROVE  rx_buf' \in RxRings /\ tx_buf' \in TxRings
    <2>1. n \in Nat /\ n > 0
      BY RingsAssumption
    <2>2. rx_buf' \in RxRings
      BY <1>1, <1>6, <2>1, FetchBlockDoes
    <2> QED
      BY <1>1, <1>6, <2>2 DEF FetchBlock, Quiet
  <1>7. ASSUME NEW c \in Chars, PutChar(c) PROVE rx_buf' \in RxRings /\ tx_buf' \in TxRings
    <2>1. c \in Uint8
      BY RingsAssumption
    <2>2. tx_buf' \in TxRings
      BY <1>1, <1>7, <2>1, PutCharDoes
    <2> QED
      BY <1>1, <1>7, <2>2 DEF PutChar, Still
  <1>8. ASSUME NEW d \in Blocks, NEW summed \in BOOLEAN, NEW k \in 0 .. Len(d), SetupSendFrame(d, summed, k)
        PROVE  rx_buf' \in RxRings /\ tx_buf' \in TxRings
    <2>1. d \in Seq(Uint8) /\ d # <<>>
      BY FramesAndBlocks
    <2>2. tx_buf' \in TxRings
      BY <1>1, <1>8, <2>1, SetupSendFrameDoes
    <2>3. rx_buf' = rx_buf
      BY <1>8 DEF SetupSendFrame, Still
    <2> QED
      BY <1>1, <2>2, <2>3
  <1>9. ASSUME NEW f \in Frames, PutFrame(f) PROVE rx_buf' \in RxRings /\ tx_buf' \in TxRings
    <2>1. f \in Seq(Uint8) /\ Len(f) = FrameLength
      BY FramesAndBlocks
    <2>2. tx_buf' \in TxRings
      BY <1>1, <1>9, <2>1, PutFrameDoes
    <2>3. rx_buf' = rx_buf
      BY <1>9 DEF PutFrame, Still
    <2> QED
      BY <1>1, <2>2, <2>3
  <1>10. ASSUME SendChars PROVE rx_buf' \in RxRings /\ tx_buf' \in TxRings
    <2>1. tx_buf' \in TxRings
      BY <1>1, <1>10, SendCharsDoes
    <2> QED
      BY <1>1, <1>10, <2>1 DEF SendChars, Still
  <1>11. ASSUME Flush \/ Reset PROVE rx_buf' \in RxRings /\ tx_buf' \in TxRings
    BY <1>1, <1>11, DiscardDoes, TxDiscardDoes
  <1>12. ASSUME UNCHANGED ringvars PROVE rx_buf' \in RxRings /\ tx_buf' \in TxRings
    BY <1>1, <1>12 DEF ringvars
  <1>13. CASE RingsNext
    <2>1. CASE Interrupt
      BY <1>2, <1>10, <1>11, <2>1 DEF Interrupt
    <2>2. CASE Receiver
      BY <1>3, <1>4, <1>5, <1>6, <2>2 DEF Receiver
    <2>3. CASE Sender
      BY <1>7, <1>8, <1>9, <2>3 DEF Sender
    <2> QED
      BY <1>11, <1>13, <2>1, <2>2, <2>3 DEF RingsNext
  <1> QED
    BY <1>12, <1>13

\* In whatever order the interrupt, the receiving and the sending process use
\* the two rings, no index leaves its array (driver/atarisio.c:436), for rings
\* of every length a command frame fits in.
THEOREM RingsKeepShape == RingsSpec => []RingsInv
  BY RingsInvInit, RingsInvStep, PTL DEF RingsSpec

\* The rings are queues, wherever they wrap and in however many parts a block is
\* copied: of the receiver (driver/atarisio.c:1377 and :1891 to 2003), where the
\* checksum calculated in the array is that of the bytes the process gets, and of
\* the sender (:1399 and :2006 to 2061), where a block or command frame replaces
\* what was queued and goes out whole, or not at all.
THEOREM RingsStayQueues == RingsSpec => RingsAreQueues
  <1>1. RingsInv => [RxStep /\ TxStep]_ringvars
    BY RxStepIs, TxStepIs
  <1> QED
    BY <1>1, RingsKeepShape, PTL DEF RingsAreQueues
=============================================================================
