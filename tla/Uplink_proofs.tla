---------------------------- MODULE Uplink_proofs ----------------------------
(***************************************************************************)
(* Theorems about the way of a byte from the host to a frame of the        *)
(* kernel, for every size of the ring and of a payload, whatever the host  *)
(* writes and however often; first about the receive ring alone, whose     *)
(* count keeps its promise in spite of the interrupts that cut into the    *)
(* poll.                                                                   *)
(***************************************************************************)
EXTENDS Uplink, Common_proofs

(* What the poll carries between its steps: the count it read was positive
   and did not overstate the ring, and only the handler has changed the ring
   since. *)
PollInv ==
    /\ poll = "store" => 0 < loaded /\ loaded <= Held
    /\ CountNeverOverstates

RingInv == RingTypeOK /\ PollInv

LEMMA Initially == RingInit => RingInv
BY RingAssumption
DEF RingInit, RingInv, RingTypeOK, PollInv, CountNeverOverstates, Held, Positions

LEMMA AfterInRange == ASSUME NEW i \in Positions PROVE After(i) \in Positions
BY RingAssumption DEF After, Positions

LEMMA Preserved == RingInv /\ [RingNext]_ringVars => RingInv'
<1> SUFFICES ASSUME RingInv, [RingNext]_ringVars PROVE RingInv'
    OBVIOUS
<1> USE RingAssumption DEF RingInv, PollInv, CountNeverOverstates, Held, ring, polling
<1>1. ASSUME NEW b \in Byte, Put(b) PROVE RingInv'
  <2>1. After(head) \in Positions
    BY AfterInRange DEF RingTypeOK
  <2>2. Len(accepted') = Len(accepted) + 1 /\ accepted' \in Seq(Byte)
    BY <1>1 DEF Put, RingTypeOK
  <2>3. count' = count + 1 /\ count' \in 0..Capacity
    BY <1>1 DEF Put, FullAt, RingTypeOK
  <2>4. RingTypeOK'
    BY <1>1, <2>1, <2>2, <2>3 DEF Put, RingTypeOK
  <2>5. PollInv'
    BY <1>1, <2>2, <2>3 DEF Put, RingTypeOK
  <2> QED BY <2>4, <2>5
<1>2. CASE LoadCount
  BY <1>2 DEF LoadCount, RingTypeOK
<1>3. CASE StoreCount
  BY <1>3 DEF StoreCount, CountWritten, RingTypeOK
<1>4. CASE TakeByte
  <2>1. After(tail) \in Positions
    BY AfterInRange DEF RingTypeOK
  <2>2. Len(taken') = Len(taken) + 1 /\ taken' \in Seq(Byte)
    BY <1>4 DEF TakeByte, RingTypeOK
  <2>3. RingTypeOK'
    BY <1>4, <2>1, <2>2 DEF TakeByte, RingTypeOK
  <2>4. PollInv'
    BY <1>4, <2>2 DEF TakeByte, RingTypeOK
  <2> QED BY <2>3, <2>4
<1>5. CASE UNCHANGED ringVars
  BY <1>5 DEF ringVars, RingTypeOK
<1> QED BY <1>1, <1>2, <1>3, <1>4, <1>5 DEF RingNext

(* Whatever bytes arrive in the middle of a poll, the count never says more
   than the ring holds, so the poll never returns a byte that did not come. *)
THEOREM CountCorrect == RingSpec => []CountNeverOverstates
<1>1. RingInv => CountNeverOverstates
  BY DEF RingInv, PollInv
<1> QED BY Initially, Preserved, <1>1, PTL DEF RingSpec

(* The ring's indices stay inside it and its count within its capacity. *)
THEOREM RingTypeCorrect == RingSpec => []RingTypeOK
<1>1. RingInv => RingTypeOK
  BY DEF RingInv
<1> QED BY Initially, Preserved, <1>1, PTL DEF RingSpec

-----------------------------------------------------------------------------
(* Counting round the ring. *)
LEMMA DivideBy ==
    ASSUME NEW n \in Nat, NEW c \in Nat \ {0}
    PROVE  /\ n \div c \in Int /\ n % c \in 0..(c - 1)
           /\ n = c * (n \div c) + (n % c)
  OBVIOUS

LEMMA Quotient ==
    ASSUME NEW n \in Nat
    PROVE  /\ n \div Capacity \in Int /\ n % Capacity \in Positions
           /\ n = Capacity * (n \div Capacity) + (n % Capacity)
  BY RingAssumption, DivideBy DEF Positions

LEMMA RoundOnce ==
    ASSUME NEW c \in Nat \ {0}, NEW q \in Int, NEW k \in Int, NEW r \in 0..(c - 1),
           NEW s \in 0..(c - 1), c * q + r + 1 = c * k + s
    PROVE  s = IF r + 1 = c THEN 0 ELSE r + 1
<1>1. c * (k - q) = r + 1 - s
  OBVIOUS
<1> DEFINE d == k - q
<1>2. d \in Int /\ c * d = r + 1 - s
  BY <1>1
<1> HIDE DEF d
<1>3. d < 2
  BY <1>2
<1>4. d > -1
  BY <1>2
<1>5. CASE d = 0
  BY <1>2, <1>5
<1>6. CASE d = 1
  BY <1>2, <1>6
<1> QED
  BY <1>2, <1>3, <1>4, <1>5, <1>6

LEMMA AfterCounts ==
    ASSUME NEW n \in Nat
    PROVE  After(n % Capacity) = (n + 1) % Capacity
<1> DEFINE r == n % Capacity
<1>1. r \in 0..(Capacity - 1) /\ Capacity \in Nat \ {0}
  BY Quotient, RingAssumption DEF Positions
<1>2. (n + 1) % Capacity = IF r + 1 = Capacity THEN 0 ELSE r + 1
  <2> DEFINE q == n \div Capacity
             k == (n + 1) \div Capacity
             s == (n + 1) % Capacity
  <2>1. q \in Int /\ n = Capacity * q + r
    BY Quotient
  <2>2. k \in Int /\ s \in 0..(Capacity - 1) /\ n + 1 = Capacity * k + s
    BY Quotient DEF Positions
  <2> HIDE DEF q, k, s, r
  <2> QED
    BY <1>1, <2>1, <2>2, RoundOnce
<1>3. (r + 1) % Capacity = IF r + 1 = Capacity THEN 0 ELSE r + 1
  <2> HIDE DEF r
  <2>1. CASE r + 1 = Capacity
    <3> DEFINE m == (r + 1) % Capacity
               q == (r + 1) \div Capacity
    <3>1. q \in Int /\ m \in 0..(Capacity - 1) /\ Capacity = Capacity * q + m
      BY <1>1, <2>1
    <3> HIDE DEF m, q
    <3>2. q > 0
      BY <1>1, <3>1
    <3>3. q < 2
      BY <1>1, <3>1
    <3>4. m = 0
      BY <1>1, <3>1, <3>2, <3>3
    <3> QED
      BY <2>1, <3>4 DEF m
  <2>2. CASE r + 1 < Capacity
    BY <1>1, <2>2
  <2> QED
    BY <1>1, <2>1, <2>2
<1> QED
  BY <1>2, <1>3 DEF After

(* Two bytes less than a ring apart lie in different positions. *)
LEMMA Distinct ==
    ASSUME NEW m \in Nat, NEW n \in Nat, m < n, n - m < Capacity
    PROVE  m % Capacity # n % Capacity
<1> SUFFICES ASSUME m % Capacity = n % Capacity PROVE FALSE
    OBVIOUS
<1> DEFINE r == m % Capacity
           j == m \div Capacity
           k == n \div Capacity
<1>1. /\ r \in 0..(Capacity - 1) /\ j \in Int /\ k \in Int
      /\ m = Capacity * j + r /\ n = Capacity * k + r
  BY Quotient DEF Positions
<1>2. Capacity \in Nat \ {0}
  BY RingAssumption
<1> HIDE DEF r, j, k
<1>3. n - m = Capacity * (k - j)
  BY <1>1, <1>2
<1> DEFINE d == k - j
<1>4. d \in Int /\ Capacity * d > 0 /\ Capacity * d < Capacity
  BY <1>1, <1>3
<1> HIDE DEF d
<1>5. d > 0
  BY <1>2, <1>4
<1>6. d < 1
  BY <1>2, <1>4
<1> QED
  BY <1>4, <1>5, <1>6

-----------------------------------------------------------------------------
(* The bytes accepted last, as many as the ring has room for, lie in it in
   order, and the poll reads where the bytes it has taken end. *)
OrderInv ==
    /\ head = Len(accepted) % Capacity
    /\ tail = Len(taken) % Capacity
    /\ \A i \in 1..Len(accepted) :
          Len(accepted) - i < Capacity => data[(i - 1) % Capacity] = accepted[i]

LEMMA OrderStart == RingInit => OrderInv
  BY RingAssumption DEF RingInit, OrderInv

LEMMA OrderStep == RingInv /\ OrderInv /\ [RingNext]_ringVars => OrderInv'
<1> SUFFICES ASSUME RingInv, OrderInv, [RingNext]_ringVars PROVE OrderInv'
    OBVIOUS
<1>a. RingTypeOK /\ Len(accepted) \in Nat /\ Len(taken) \in Nat
  BY DEF RingInv, RingTypeOK
<1>1. ASSUME NEW b \in Byte, Put(b) PROVE OrderInv'
  <2> DEFINE n == Len(accepted)
  <2>1. /\ accepted' = Append(accepted, b) /\ Len(accepted') = n + 1
        /\ accepted'[n + 1] = b
        /\ \A i \in 1..n : accepted'[i] = accepted[i]
    BY <1>1, <1>a DEF Put, RingTypeOK
  <2>2. head' = (n + 1) % Capacity
    BY <1>1, <1>a, AfterCounts DEF Put, OrderInv
  <2>3. tail' = Len(taken') % Capacity
    BY <1>1 DEF Put, OrderInv, polling
  <2>4. head = n % Capacity /\ data' = [data EXCEPT ![head] = b] /\ head \in Positions
    BY <1>1, <1>a DEF Put, OrderInv, RingTypeOK
  <2>5. ASSUME NEW i \in 1..(n + 1), n + 1 - i < Capacity
        PROVE  data'[(i - 1) % Capacity] = accepted'[i]
    <3>1. CASE i = n + 1
      <4>1. (i - 1) % Capacity = head
        BY <2>4, <3>1, <1>a
      <4> QED
        BY <1>a, <2>1, <2>4, <3>1, <4>1 DEF RingTypeOK
    <3>2. CASE i # n + 1
      <4>1. i \in 1..n /\ i - 1 \in Nat /\ i - 1 < n /\ n - (i - 1) < Capacity /\ n - i < Capacity
        BY <1>a, <2>5, <3>2, RingAssumption
      <4>2. (i - 1) % Capacity # head
        BY <1>a, <2>4, <4>1, Distinct
      <4>3. (i - 1) % Capacity \in Positions
        BY <4>1, Quotient
      <4>4. data'[(i - 1) % Capacity] = data[(i - 1) % Capacity]
        BY <1>a, <2>4, <4>2, <4>3 DEF RingTypeOK
      <4> QED
        BY <2>1, <4>1, <4>4 DEF OrderInv
    <3> QED
      BY <3>1, <3>2
  <2> QED
    BY <2>1, <2>2, <2>3, <2>5 DEF OrderInv
<1>2. CASE LoadCount \/ StoreCount
  BY <1>2 DEF LoadCount, StoreCount, ring, OrderInv
<1>3. CASE TakeByte
  <2>1. Len(taken') = Len(taken) + 1
    BY <1>3, <1>a DEF TakeByte, RingTypeOK
  <2>2. tail' = Len(taken') % Capacity
    BY <1>3, <1>a, <2>1, AfterCounts DEF TakeByte, OrderInv
  <2> QED
    BY <1>3, <2>2 DEF TakeByte, OrderInv
<1>4. CASE UNCHANGED ringVars
  BY <1>4 DEF ringVars, ring, polling, OrderInv
<1> QED
  BY <1>1, <1>2, <1>3, <1>4 DEF RingNext

(* Whatever arrives in the middle of a poll, the byte it returns is the next
   one accepted, as long as the ring has room for the bytes it holds. *)
NextInOrder ==
    taken' # taken /\ Held <= Capacity => taken' = Append(taken, accepted[Len(taken) + 1])

LEMMA TakenInOrder == RingInv /\ OrderInv /\ [RingNext]_ringVars => NextInOrder
<1> SUFFICES ASSUME RingInv, OrderInv, [RingNext]_ringVars, taken' # taken, Held <= Capacity
             PROVE  taken' = Append(taken, accepted[Len(taken) + 1])
    BY DEF NextInOrder
<1>1. TakeByte
  BY DEF RingNext, Put, LoadCount, StoreCount, ringVars, polling
<1> DEFINE i == Len(taken) + 1
<1>2. Len(accepted) \in Nat /\ Len(taken) \in Nat /\ count \in Nat /\ Held > 0
  BY <1>1 DEF RingInv, PollInv, CountNeverOverstates, TakeByte, RingTypeOK, Held
<1>3. i \in 1..Len(accepted) /\ Len(accepted) - i < Capacity /\ i - 1 = Len(taken)
  BY <1>2, RingAssumption DEF Held
<1>4. data[tail] = accepted[i]
  BY <1>3 DEF OrderInv
<1> QED
  BY <1>1, <1>4 DEF TakeByte

(* The poll of the UART hands out the bytes in the order in which the handler
   put them in, as long as the ring has room for what it holds. *)
THEOREM FifoCorrect == RingSpec => FifoWhileItFits
<1>1. FifoWhileItFits <=> [][NextInOrder]_ringVars
  BY DEF FifoWhileItFits, NextInOrder
<1> QED
  BY <1>1, Initially, Preserved, OrderStart, OrderStep, TakenInOrder, PTL DEF RingSpec

-----------------------------------------------------------------------------
(* The handler and the poll, seen from the ring: they put bytes into it and
   take bytes out of it, as its own specification has it. *)
HandlerInv ==
    /\ wire \in Seq(Byte) /\ isr \in Seq(Byte) /\ hostTick \in Seq(Byte)
    /\ escape \in {"normal", "escape", "tick"}
    /\ escape = "tick" => Len(hostTick) < TickBytes

LEMMA HandlerStart == Init => RingInit /\ HandlerInv
  BY DEF Init, HandlerInv

LEMMA Split ==
    ASSUME NEW T, NEW s \in Seq(T), s # <<>>
    PROVE  Head(s) \in T /\ Tail(s) \in Seq(T)
  OBVIOUS

LEMMA Pair ==
    ASSUME NEW T, NEW a \in T, NEW b \in T
    PROVE  <<a, b>> \in Seq(T)
  OBVIOUS

LEMMA ForwardedBytes ==
    ASSUME NEW tick \in Seq(Byte), Len(tick) = 3
    PROVE  Forwarded(tick) \in Seq(Byte)
<1>1. Byte = 0..255
  BY UnitsAssumption
<1>2. tick[1] \in Byte /\ tick[2] \in Byte /\ tick[3] \in Byte
  OBVIOUS
<1>3. \A b \in Byte : TimeByte(b) \in Seq(Byte)
  <2> SUFFICES ASSUME NEW b \in Byte PROVE TimeByte(b) \in Seq(Byte)
      OBVIOUS
  <2>1. <<255, 0>> \in Seq(Byte) /\ <<255, 3>> \in Seq(Byte)
    BY <1>1, Pair
  <2>2. <<b>> \in Seq(Byte)
    BY ConcatOne
  <2> QED
    BY <2>1, <2>2 DEF TimeByte
<1>4. <<255, 1>> \in Seq(Byte)
  BY <1>1, Pair
<1> DEFINE x == TimeByte(tick[1])
           y == TimeByte(tick[2])
           z == TimeByte(tick[3])
<1>5. x \in Seq(Byte) /\ y \in Seq(Byte) /\ z \in Seq(Byte)
  BY <1>2, <1>3
<1>6. Forwarded(tick) = IF framed \/ ~UptimeForeground THEN <<>> ELSE <<255, 1>> \o x \o y \o z
  BY DEF Forwarded
<1> HIDE DEF x, y, z
<1>7. <<255, 1>> \o x \in Seq(Byte)
  BY <1>4, <1>5
<1>8. <<255, 1>> \o x \o y \in Seq(Byte)
  BY <1>5, <1>7
<1>9. <<255, 1>> \o x \o y \o z \in Seq(Byte)
  BY <1>5, <1>8
<1> QED
  BY <1>6, <1>9

LEMMA HandlerStep == HandlerInv /\ [Next]_vars => HandlerInv'
<1> SUFFICES ASSUME HandlerInv, [Next]_vars PROVE HandlerInv'
    OBVIOUS
<1> USE DEF HandlerInv
<1>1. ASSUME NEW unit \in Units, Send(unit) PROVE HandlerInv'
  BY <1>1, UnitsAssumption DEF Send, handler
<1>2. CASE Interrupt
  <2> DEFINE b == Head(wire)
  <2>1. b \in Byte /\ wire' \in Seq(Byte) /\ Byte = 0..255
    <3>1. wire \in Seq(Byte) /\ wire # <<>> /\ wire' = Tail(wire)
      BY <1>2 DEF Interrupt
    <3> QED
      BY <3>1, Split, UnitsAssumption
  <2>2. \/ Ordinary(b) \/ EscapeStart(b) \/ TickStart(b)
        \/ Request(b) \/ EscapeOrdinary(b) \/ TickByte(b)
    BY <1>2 DEF Interrupt
  <2> HIDE DEF b
  <2>3. CASE Ordinary(b)
    BY <2>1, <2>3, ConcatOne DEF Ordinary
  <2>4. CASE EscapeStart(b) \/ Request(b)
    BY <2>1, <2>4 DEF EscapeStart, Request
  <2>7. CASE TickStart(b)
    <3>1. hostTick' \in Seq(Byte) /\ Len(hostTick') = 0
      BY <2>7 DEF TickStart
    <3> QED
      BY <2>1, <2>7, <3>1 DEF TickStart, TickBytes
  <2>5. CASE EscapeOrdinary(b)
    <3>1. <<255>> \in Seq(Byte) /\ <<255, b>> \in Seq(Byte)
      BY <2>1, ConcatOne, Pair
    <3> QED
      BY <2>1, <2>5, <3>1 DEF EscapeOrdinary
  <2>6. CASE TickByte(b)
    <3>1. hostTick' \in Seq(Byte) /\ Len(hostTick') = Len(hostTick) + 1 /\ Len(hostTick') <= 3
      BY <2>1, <2>6 DEF TickByte, TickBytes
    <3>2. Len(hostTick') = 3 => Forwarded(hostTick') \in Seq(Byte)
      BY <3>1, ForwardedBytes
    <3> QED
      BY <2>1, <2>6, <3>1, <3>2 DEF TickByte, TickBytes
  <2> QED
    BY <2>2, <2>3, <2>4, <2>5, <2>6, <2>7
<1>3. CASE HandlerPut
  BY <1>3 DEF HandlerPut
<1>4. CASE PollStep \/ PollByte
  BY <1>4 DEF PollStep, PollByte, handler
<1>5. CASE UNCHANGED vars
  BY <1>5 DEF vars, handler
<1> QED
  BY <1>1, <1>2, <1>3, <1>4, <1>5 DEF Next

LEMMA RingSimulated == HandlerInv /\ [Next]_vars => [RingNext]_ringVars
<1> SUFFICES ASSUME HandlerInv, [Next]_vars PROVE [RingNext]_ringVars
    OBVIOUS
<1>1. CASE HandlerPut
  <2>1. Head(isr) \in Byte
    BY <1>1 DEF HandlerPut, HandlerInv
  <2> QED
    BY <1>1, <2>1 DEF HandlerPut, RingNext, Drop
<1>2. CASE PollStep \/ PollByte
  BY <1>2 DEF PollStep, PollByte, RingNext
<1> QED
  BY <1>1, <1>2 DEF Next, Send, Interrupt, vars

(* The link's handler and poll use the ring as RxRing says. *)
THEOREM RingUsed == Spec => RingSpec
BY HandlerStart, HandlerStep, RingSimulated, PTL DEF Spec, RingSpec

(* Whatever bytes come off the wire, escapes, heartbeats and all, the ring's
   count never says more than the ring holds. *)
THEOREM UplinkCountCorrect == Spec => []CountNeverOverstates
BY RingUsed, CountCorrect, PTL

(* The poll hands out the handler's bytes in order. *)
THEOREM UplinkFifoCorrect == Spec => FifoWhileItFits
BY RingUsed, FifoCorrect, PTL

-----------------------------------------------------------------------------
(* What the decoder has read of the frame it is on: the bytes the poll took
   last, from the first A5 on.  The sum covers the body. *)
Stages == {"first", "second", "version", "type", "channel", "lengthLow", "lengthHigh", "payload"}
DecoderTypeOK ==
    /\ rx \in [stage : Stages, type : Byte, channel : Byte, length : Byte,
              sum : Byte, payload : Seq(Byte)]
    /\ frames \in Seq([type : Byte, channel : Byte, payload : Seq(Byte)])

InBody == rx.stage \in Stages \ {"first", "second", "version"}
Body ==
    CASE At("type") -> <<1>>
      [] At("channel") -> <<1, rx.type>>
      [] At("lengthLow") -> <<1, rx.type, rx.channel>>
      [] At("lengthHigh") -> <<1, rx.type, rx.channel, rx.length>>
      [] At("payload") -> <<1, rx.type, rx.channel, rx.length, 0>> \o rx.payload
      [] OTHER -> <<>>
Candidate ==
    CASE At("first") -> <<>> [] At("second") -> <<165>> [] OTHER -> Sync \o Body

(* The candidate is the last that the poll has taken. *)
Begun == \E before \in Seq(Byte) : taken = before \o Candidate

DecoderInv ==
    /\ DecoderTypeOK
    /\ PayloadFits
    /\ At("payload") => Len(rx.payload) <= rx.length /\ rx.length <= MaxPayload
    /\ InBody => rx.sum = Checksum8(Body)
    /\ Begun

LEMMA DecoderStart == DecoderInit /\ taken = <<>> => DecoderInv
<1> SUFFICES ASSUME DecoderInit, taken = <<>> PROVE DecoderInv
    OBVIOUS
<1> USE UnitsAssumption, DecoderAssumption
<1>1. DecoderTypeOK /\ rx.stage = "first" /\ Len(rx.payload) = 0
  BY DEF DecoderInit, Idle, DecoderTypeOK, Stages
<1>2. Candidate = <<>> /\ ~InBody
  BY <1>1 DEF Candidate, At, InBody
<1>3. <<>> \in Seq(Byte) /\ <<>> \o <<>> = <<>>
  BY ConcatEmpty
<1>4. Begun
  BY <1>2, <1>3 DEF Begun
<1> QED
  BY <1>1, <1>2, <1>4 DEF DecoderInv, At, PayloadFits

LEMMA AppendLast ==
    ASSUME NEW s \in Seq(Byte), NEW t \in Seq(Byte), NEW b \in Byte
    PROVE  s \o t \in Seq(Byte) /\ Append(s \o t, b) = s \o Append(t, b)
<1> DEFINE x == Append(s \o t, b)
           y == s \o Append(t, b)
<1>1. s \o t \in Seq(Byte) /\ x \in Seq(Byte) /\ Append(t, b) \in Seq(Byte) /\ y \in Seq(Byte)
  OBVIOUS
<1>2. Len(x) = Len(s) + Len(t) + 1 /\ Len(y) = Len(s) + Len(t) + 1
  OBVIOUS
<1>3. \A i \in 1..Len(x) : x[i] = y[i]
  BY <1>2
<1> HIDE DEF x, y
<1>4. x = y
  BY <1>1, <1>2, <1>3, SeqEqual
<1> QED
  BY <1>1, <1>4 DEF x, y

(* A byte of a body: one more of the candidate, and one more in the sum. *)
LEMMA BodyGrows ==
    ASSUME NEW before \in Seq(Byte), NEW body \in Seq(Byte), NEW b \in Byte
    PROVE  /\ Append(before \o (Sync \o body), b) = before \o (Sync \o Append(body, b))
           /\ Checksum8(Append(body, b)) = AddByte(Checksum8(body), b)
<1>1. Sync \in Seq(Byte)
  BY UnitsAssumption, Pair DEF Sync
<1>2. Sync \o body \in Seq(Byte) /\ Append(Sync \o body, b) = Sync \o Append(body, b)
  BY <1>1, AppendLast
<1>3. Append(before \o (Sync \o body), b) = before \o Append(Sync \o body, b)
  BY <1>2, AppendLast
<1>4. Checksum8(Append(body, b)) = AddByte(Checksum8(body), b)
  BY SumOfMore
<1> QED
  BY <1>2, <1>3, <1>4

LEMMA AddByteRange == ASSUME NEW s \in Byte, NEW b \in Byte PROVE AddByte(s, b) \in Byte
  BY UnitsAssumption DEF AddByte

(* What each byte does to the decoder's fields. *)
LEMMA FieldSteps ==
    ASSUME DecoderTypeOK, NEW b \in Byte
    PROVE  /\ Field("type", "type", b, "channel") =>
                /\ At("type") /\ At("channel")' /\ rx'.type = b
                /\ rx'.payload = rx.payload
           /\ Field("channel", "channel", b, "lengthLow") =>
                /\ At("channel") /\ At("lengthLow")' /\ rx'.type = rx.type /\ rx'.channel = b
                /\ rx'.payload = rx.payload
           /\ Field("lengthLow", "length", b, "lengthHigh") =>
                /\ At("lengthLow") /\ At("lengthHigh")' /\ rx'.type = rx.type
                /\ rx'.channel = rx.channel /\ rx'.length = b /\ rx'.payload = rx.payload
           /\ Field("type", "type", b, "channel") \/ Field("channel", "channel", b, "lengthLow")
              \/ Field("lengthLow", "length", b, "lengthHigh") =>
                /\ DecoderTypeOK' /\ rx'.sum = AddByte(rx.sum, b)
<1> USE AddByteRange DEF Field, DecoderTypeOK, At, Stages
<1>1. CASE Field("type", "type", b, "channel")
  BY <1>1
<1>2. CASE Field("channel", "channel", b, "lengthLow")
  BY <1>2
<1>3. CASE Field("lengthLow", "length", b, "lengthHigh")
  BY <1>3
<1> QED
  BY <1>1, <1>2, <1>3
(* The candidate: nothing of it once the decoder looks for an A5 again, one byte
   more with every byte of a body. *)
LEMMA NothingBegun == ASSUME At("first"), taken \in Seq(Byte) PROVE Begun /\ ~InBody
<1>1. Candidate = <<>>
  BY DEF Candidate, At
<1>2. taken \o <<>> = taken
  BY ConcatEmpty
<1> QED
  BY <1>1, <1>2 DEF Begun, InBody, At

LEMMA BodyCandidate ==
    ASSUME InBody \/ At("version") PROVE Candidate = Sync \o Body
  BY DEF Candidate, At, InBody

LEMMA BodyStep ==
    ASSUME Begun, InBody, Body \in Seq(Byte), rx.sum = Checksum8(Body),
           NEW b \in Byte, taken' = Append(taken, b),
           InBody', Body' = Append(Body, b), rx'.sum = AddByte(rx.sum, b)
    PROVE  Begun' /\ rx'.sum = Checksum8(Body')
<1>1. Candidate = Sync \o Body /\ Candidate' = Sync \o Body'
  <2>1. Candidate = Sync \o Body
    BY BodyCandidate
  <2>2. Candidate' = Sync \o Body'
    BY DEF Candidate, At, InBody
  <2> QED
    BY <2>1, <2>2
<1>2. PICK before \in Seq(Byte) : taken = before \o (Sync \o Body)
  BY <1>1 DEF Begun
<1>3. taken' = before \o (Sync \o Body')
  BY <1>2, BodyGrows
<1>4. Checksum8(Body') = AddByte(Checksum8(Body), b)
  BY BodyGrows
<1> QED
  BY <1>1, <1>3, <1>4 DEF Begun

LEMMA BodyBytes == ASSUME DecoderTypeOK PROVE Body \in Seq(Byte)
<1> DEFINE one == 1
<1>1. /\ one \in Byte /\ 0 \in Byte /\ rx.type \in Byte /\ rx.channel \in Byte
      /\ rx.length \in Byte /\ rx.payload \in Seq(Byte)
  BY UnitsAssumption DEF DecoderTypeOK
<1> HIDE DEF one
<1>2. <<one>> \in Seq(Byte)
  BY <1>1, ConcatOne
<1>3. <<one, rx.type>> \in Seq(Byte)
  BY <1>1, TupleGrows2
<1>4. <<one, rx.type, rx.channel>> \in Seq(Byte)
  BY <1>1, TupleGrows3
<1>5. <<one, rx.type, rx.channel, rx.length>> \in Seq(Byte)
  BY <1>1, TupleGrows4
<1>6. <<one, rx.type, rx.channel, rx.length, 0>> \in Seq(Byte)
  BY <1>1, TupleGrows5
<1>7. <<one, rx.type, rx.channel, rx.length, 0>> \o rx.payload \in Seq(Byte)
  BY <1>1, <1>6, AppendLast
<1>8. <<>> \in Seq(Byte)
  OBVIOUS
<1> QED
  BY <1>2, <1>3, <1>4, <1>5, <1>7, <1>8 DEF Body, one
LEMMA Resync ==
    ASSUME DecoderTypeOK, NEW b \in Byte, First(b) \/ Second(b)
    PROVE  /\ DecoderTypeOK' /\ rx'.payload = rx.payload
           /\ \/ At("first")'
              \/ b = 165 /\ At("second")'
              \/ At("second") /\ b = 90 /\ At("version")'
<1> USE DEF First, Second, Goto, DecoderTypeOK, At, Stages, Sync
<1>1. CASE First(b)
  BY <1>1
<1>2. CASE Second(b)
  BY <1>2
<1> QED
  BY <1>1, <1>2

LEMMA SyncStep ==
    ASSUME DecoderInv, taken \in Seq(Byte), NEW b \in Byte, taken' = Append(taken, b),
           First(b) \/ Second(b)
    PROVE  DecoderInv'
<1>1. DecoderTypeOK' /\ rx'.payload = rx.payload /\ taken' \in Seq(Byte)
  BY Resync DEF DecoderInv
<1>2. ~InBody' /\ ~At("payload")'
  BY Resync DEF DecoderInv, InBody, At
<1>3. Begun'
  <2>1. CASE At("first")'
    <3>1. Candidate' = <<>>
      BY <2>1 DEF Candidate, At
    <3>2. taken' \o <<>> = taken'
      BY <1>1, ConcatEmpty
    <3> QED
      BY <1>1, <3>1, <3>2 DEF Begun
  <2>2. CASE b = 165 /\ At("second")'
    <3>1. Candidate' = <<165>>
      BY <2>2 DEF Candidate, At
    <3>2. taken' = taken \o <<b>>
      BY ConcatOne
    <3> QED
      BY <2>2, <3>1, <3>2 DEF Begun
  <2>3. CASE At("second") /\ b = 90 /\ At("version")'
    <3>1. Candidate = <<165>>
      BY <2>3 DEF Candidate, At
    <3>2. Candidate' = Sync \o <<>>
      BY <2>3 DEF Candidate, Body, At
    <3>3. Sync \in Seq(Byte) /\ Sync = Append(<<165>>, b) /\ <<165>> \in Seq(Byte)
      BY <2>3, UnitsAssumption, TupleGrows2, ConcatOne DEF Sync
    <3>4. Sync \o <<>> = Sync
      BY <3>3, ConcatEmpty
    <3>5. PICK before \in Seq(Byte) : taken = before \o <<165>>
      BY <3>1 DEF Begun, DecoderInv
    <3>6. taken' = before \o Sync
      BY <3>3, <3>5, AppendLast
    <3> QED
      BY <3>2, <3>4, <3>6 DEF Begun
  <2> QED
    BY <2>1, <2>2, <2>3, Resync DEF DecoderInv
<1> QED
  BY <1>1, <1>2, <1>3 DEF DecoderInv, PayloadFits

LEMMA FieldStep ==
    ASSUME DecoderInv, taken \in Seq(Byte), NEW b \in Byte, taken' = Append(taken, b),
           Field("type", "type", b, "channel") \/ Field("channel", "channel", b, "lengthLow")
              \/ Field("lengthLow", "length", b, "lengthHigh")
    PROVE  DecoderInv'
<1>1. DecoderTypeOK' /\ rx'.sum = AddByte(rx.sum, b) /\ rx'.payload = rx.payload
  BY FieldSteps DEF DecoderInv
<1>2. InBody /\ InBody' /\ ~At("payload")'
  BY FieldSteps DEF DecoderInv, InBody, At, Stages
<1>3. Body' = Append(Body, b)
  <2> DEFINE one == 1
  <2>a. one \in Byte /\ rx.type \in Byte /\ rx.channel \in Byte
    BY UnitsAssumption DEF DecoderInv, DecoderTypeOK
  <2>1. CASE Field("type", "type", b, "channel")
    <3>1. At("type") /\ At("channel")' /\ rx'.type = b
      BY <2>1, FieldSteps DEF DecoderInv
    <3>2. Body = <<one>> /\ Body' = <<one, b>>
      BY <3>1 DEF Body, At
    <3> QED
      BY <3>2, <2>a, TupleGrows2
  <2>2. CASE Field("channel", "channel", b, "lengthLow")
    <3>1. At("channel") /\ At("lengthLow")' /\ rx'.type = rx.type /\ rx'.channel = b
      BY <2>2, FieldSteps DEF DecoderInv
    <3>2. Body = <<one, rx.type>> /\ Body' = <<one, rx.type, b>>
      BY <3>1 DEF Body, At
    <3> QED
      BY <3>2, <2>a, TupleGrows3
  <2>3. CASE Field("lengthLow", "length", b, "lengthHigh")
    <3>1. /\ At("lengthLow") /\ At("lengthHigh")' /\ rx'.type = rx.type
          /\ rx'.channel = rx.channel /\ rx'.length = b
      BY <2>3, FieldSteps DEF DecoderInv
    <3>2. Body = <<one, rx.type, rx.channel>> /\ Body' = <<one, rx.type, rx.channel, b>>
      BY <3>1 DEF Body, At
    <3> QED
      BY <3>2, <2>a, TupleGrows4
  <2> QED
    BY <2>1, <2>2, <2>3
<1>4. Begun' /\ rx'.sum = Checksum8(Body')
  BY <1>1, <1>2, <1>3, BodyStep, BodyBytes DEF DecoderInv
<1> QED
  BY <1>1, <1>2, <1>4 DEF DecoderInv, PayloadFits
(* A byte that ends the candidate: the decoder looks for an A5 again. *)
LEMMA GivenUp ==
    ASSUME DecoderInv, taken' \in Seq(Byte), DecoderTypeOK', At("first")',
           rx'.payload = rx.payload
    PROVE  DecoderInv'
<1>1. Candidate' = <<>> /\ ~InBody' /\ ~At("payload")'
  BY DEF Candidate, At, InBody
<1>2. taken' \o <<>> = taken'
  BY ConcatEmpty
<1>3. Begun'
  BY <1>1, <1>2 DEF Begun
<1> QED
  BY <1>1, <1>3 DEF DecoderInv, PayloadFits

LEMMA VersionStep ==
    ASSUME DecoderInv, taken \in Seq(Byte), NEW b \in Byte, taken' = Append(taken, b),
           VersionByte(b)
    PROVE  DecoderInv'
<1> USE DEF At
<1>a. taken' \in Seq(Byte)
  OBVIOUS
<1>1. CASE b # Version
  <2>1. rx' = [rx EXCEPT !.stage = "first"] /\ frames' = frames
    BY <1>1 DEF VersionByte
  <2>2. DecoderTypeOK' /\ At("first")' /\ rx'.payload = rx.payload
    BY <2>1 DEF DecoderInv, DecoderTypeOK, Stages
  <2> QED
    BY <1>a, <2>2, GivenUp
<1>2. CASE b = Version
  <2>1. /\ rx' = [rx EXCEPT !.stage = "type", !.sum = SumStarted(b)] /\ frames' = frames
        /\ At("version")
    BY <1>2 DEF VersionByte
  <2>2. /\ DecoderTypeOK' /\ At("type")' /\ rx'.payload = rx.payload /\ rx'.sum = 1 /\ b = 1
    BY <1>2, <2>1 DEF DecoderInv, DecoderTypeOK, Stages, SumStarted, Version
  <2>3. Candidate = Sync \o <<>>
    BY <2>1 DEF Candidate, Body
  <2>4. Candidate' = Sync \o <<b>>
    BY <2>2 DEF Candidate, Body
  <2>5. <<>> \in Seq(Byte) /\ Append(<<>>, b) = <<b>>
    OBVIOUS
  <2>6. PICK before \in Seq(Byte) : taken = before \o (Sync \o <<>>)
    BY <2>3 DEF DecoderInv, Begun
  <2>7. /\ Append(before \o (Sync \o <<>>), b) = before \o (Sync \o Append(<<>>, b))
        /\ Checksum8(Append(<<>>, b)) = AddByte(Checksum8(<<>>), b)
    BY <2>5, BodyGrows
  <2>8. Begun'
    BY <2>4, <2>5, <2>6, <2>7 DEF Begun
  <2>9. Body' = <<b>> /\ ~At("payload")'
    BY <2>2 DEF Body
  <2>10. rx'.sum = Checksum8(Body')
    BY <2>2, <2>5, <2>7, <2>9, SumOfNothing DEF AddByte
  <2> QED
    BY <2>2, <2>8, <2>9, <2>10 DEF DecoderInv, PayloadFits
<1> QED
  BY <1>1, <1>2

LEMMA ByteIsNat == ASSUME NEW n \in Byte PROVE n \in Nat
  BY RingAssumption

LEMMA PayloadIsNat == MaxPayload \in Nat
  BY DecoderAssumption

LEMMA LengthIsNat == ASSUME DecoderTypeOK PROVE rx.length \in Nat
<1>1. rx.length \in Byte
  BY DEF DecoderTypeOK
<1> QED
  BY <1>1, ByteIsNat

LEMMA LengthHighStep ==
    ASSUME DecoderInv, taken \in Seq(Byte), NEW b \in Byte, taken' = Append(taken, b),
           LengthHigh(b)
    PROVE  DecoderInv'
<1> USE DEF At
<1>a. taken' \in Seq(Byte)
  OBVIOUS
<1>1. CASE b # 0 \/ ~Fits(rx.length)
  <2>1. rx' = [rx EXCEPT !.stage = "first"] /\ frames' = frames
    BY <1>1 DEF LengthHigh
  <2>2. DecoderTypeOK' /\ At("first")' /\ rx'.payload = rx.payload
    BY <2>1 DEF DecoderInv, DecoderTypeOK, Stages
  <2> QED
    BY <1>a, <2>2, GivenUp
<1>2. CASE b = 0 /\ Fits(rx.length)
  <2>1. /\ rx' = [rx EXCEPT !.stage = "payload", !.payload = <<>>, !.sum = AddByte(@, b)]
        /\ frames' = frames /\ At("lengthHigh")
    BY <1>2 DEF LengthHigh
  <2>2. AddByte(rx.sum, b) \in Byte
    BY AddByteRange DEF DecoderInv, DecoderTypeOK
  <2>3. /\ DecoderTypeOK' /\ At("payload")' /\ rx'.sum = AddByte(rx.sum, b)
        /\ rx'.type = rx.type /\ rx'.channel = rx.channel /\ rx'.length = rx.length
        /\ rx'.payload = <<>>
    <3>a. <<>> \in Seq(Byte)
      OBVIOUS
    <3>1. PICK none \in Seq(Byte) : none = <<>>
      BY <3>a
    <3>2. rx' = [rx EXCEPT !.stage = "payload", !.payload = none, !.sum = AddByte(rx.sum, b)]
      BY <2>1, <3>1 DEF DecoderInv, DecoderTypeOK
    <3> QED
      BY <2>1, <2>2, <3>1, <3>2 DEF DecoderInv, DecoderTypeOK, Stages
  <2> DEFINE one == 1
             start == <<one, rx.type, rx.channel, rx.length>>
  <2>4. one \in Byte /\ rx.type \in Byte /\ rx.channel \in Byte /\ rx.length \in Byte
    BY UnitsAssumption DEF DecoderInv, DecoderTypeOK
  <2>5. Body = start
    BY <2>1 DEF Body
  <2>6. Body' = <<one, rx.type, rx.channel, rx.length, b>> \o <<>>
    BY <1>2, <2>3 DEF Body
  <2> HIDE DEF one
  <2>7. Append(start, b) = <<one, rx.type, rx.channel, rx.length, b>>
    BY <2>4, TupleGrows5
  <2>8. <<one, rx.type, rx.channel, rx.length, b>> \in Seq(Byte)
    BY <2>4, TupleGrows5
  <2>9. <<one, rx.type, rx.channel, rx.length, b>> \o <<>>
        = <<one, rx.type, rx.channel, rx.length, b>>
    BY <2>8, ConcatEmpty
  <2>10. Body' = Append(Body, b)
    BY <2>5, <2>6, <2>7, <2>9
  <2>11. InBody /\ InBody'
    BY <2>1, <2>3 DEF InBody, Stages
  <2>12. Begun' /\ rx'.sum = Checksum8(Body')
    BY <2>3, <2>10, <2>11, BodyStep, BodyBytes DEF DecoderInv
  <2>13. /\ Len(rx'.payload) <= rx'.length /\ rx'.length <= MaxPayload
         /\ Len(rx'.payload) <= MaxPayload
    <3>1. Len(rx'.payload) = 0
      BY <2>3
    <3>2. rx.length \in Nat /\ MaxPayload \in Nat
      BY LengthIsNat, PayloadIsNat DEF DecoderInv
    <3>3. rx.length <= MaxPayload
      BY <1>2 DEF Fits
    <3>4. 0 <= rx.length /\ 0 <= MaxPayload
      BY <3>2
    <3> QED
      BY <2>3, <3>1, <3>3, <3>4
  <2> QED
    BY <2>3, <2>12, <2>13 DEF DecoderInv, PayloadFits
<1> QED
  BY <1>1, <1>2

LEMMA PayloadStep ==
    ASSUME DecoderInv, taken \in Seq(Byte), NEW b \in Byte, taken' = Append(taken, b),
           PayloadByte(b)
    PROVE  DecoderInv'
<1> USE DEF At
<1>1. /\ rx' = [rx EXCEPT !.payload = Append(@, b), !.sum = AddByte(@, b)]
      /\ frames' = frames /\ At("payload") /\ Len(rx.payload) < rx.length
  BY DEF PayloadByte
<1>2. AddByte(rx.sum, b) \in Byte /\ rx.payload \in Seq(Byte)
  BY AddByteRange DEF DecoderInv, DecoderTypeOK
<1>3. Append(rx.payload, b) \in Seq(Byte) /\ Len(Append(rx.payload, b)) = Len(rx.payload) + 1
  BY <1>2
<1>4. /\ DecoderTypeOK' /\ At("payload")' /\ rx'.sum = AddByte(rx.sum, b)
      /\ rx'.type = rx.type /\ rx'.channel = rx.channel /\ rx'.length = rx.length
      /\ rx'.payload = Append(rx.payload, b)
  BY <1>1, <1>2, <1>3 DEF DecoderInv, DecoderTypeOK
<1> DEFINE one == 1
           start == <<one, rx.type, rx.channel, rx.length, 0>>
<1>5. /\ one \in Byte /\ rx.type \in Byte /\ rx.channel \in Byte /\ rx.length \in Byte
      /\ 0 \in Byte
  BY UnitsAssumption DEF DecoderInv, DecoderTypeOK
<1>6. Body = start \o rx.payload
  BY <1>1 DEF Body
<1>7. Body' = start \o Append(rx.payload, b)
  BY <1>4 DEF Body
<1> HIDE DEF one
<1>8. start \in Seq(Byte)
  BY <1>5, TupleGrows5
<1> HIDE DEF start
<1>9. Body' = Append(Body, b)
  BY <1>2, <1>6, <1>7, <1>8, AppendLast
<1>10. InBody /\ InBody'
  BY <1>1, <1>4 DEF InBody, Stages
<1>11. Begun' /\ rx'.sum = Checksum8(Body')
  BY <1>4, <1>9, <1>10, BodyStep, BodyBytes DEF DecoderInv
<1>12. Len(rx'.payload) <= rx'.length /\ rx'.length <= MaxPayload /\ Len(rx'.payload) <= MaxPayload
  <2>a. rx.length \in Nat /\ MaxPayload \in Nat
    BY LengthIsNat, PayloadIsNat DEF DecoderInv
  <2>1. rx.length \in Nat /\ rx.length <= MaxPayload /\ MaxPayload \in Nat
    BY <1>1, <2>a DEF DecoderInv
  <2>2. PICK n \in Nat : n = Len(rx.payload)
    BY <1>2
  <2>3. Len(rx'.payload) = n + 1 /\ n < rx.length
    BY <1>1, <1>3, <1>4, <2>2
  <2> QED
    BY <1>4, <2>1, <2>3
<1> QED
  BY <1>4, <1>11, <1>12 DEF DecoderInv, PayloadFits
(* The frame taken is, encoded, the candidate and the byte that ends it. *)
Taken == [type |-> rx.type, channel |-> rx.channel, payload |-> rx.payload]

LEMMA OneByteLength ==
    ASSUME NEW n \in Nat, n <= 255 PROVE n % 256 = n /\ n \div 256 = 0
  OBVIOUS

LEMMA TakenEncoded ==
    ASSUME DecoderInv, At("payload"), Len(rx.payload) = rx.length
    PROVE  Encode(Taken) = Sync \o Body \o <<rx.sum>>
<1>1. rx.length \in Nat /\ rx.length <= 255
  BY LengthIsNat, DecoderAssumption DEF DecoderInv
<1>2. Len(rx.payload) % 256 = rx.length /\ Len(rx.payload) \div 256 = 0
  BY <1>1, OneByteLength
<1>3. Body = <<1, rx.type, rx.channel, rx.length, 0>> \o rx.payload
  BY DEF Body, At
<1>4. rx.sum = Checksum8(Body)
  BY DEF DecoderInv, InBody, At, Stages
<1>5. Taken.type = rx.type /\ Taken.channel = rx.channel /\ Taken.payload = rx.payload
  BY DEF Taken
<1> HIDE DEF Taken
<1>6. Encode(Taken) =
        Sync \o (<<Version, rx.type, rx.channel, Len(rx.payload) % 256, Len(rx.payload) \div 256>>
                 \o rx.payload)
        \o <<Checksum8(<<Version, rx.type, rx.channel, Len(rx.payload) % 256,
                        Len(rx.payload) \div 256>> \o rx.payload)>>
  BY <1>5 DEF Encode
<1> QED
  BY <1>2, <1>3, <1>4, <1>6 DEF Version

LEMMA ChecksumStep ==
    ASSUME DecoderInv, taken \in Seq(Byte), NEW b \in Byte, taken' = Append(taken, b),
           Checksum(b)
    PROVE  /\ DecoderInv'
           /\ frames' # frames =>
                /\ Last(frames') = Taken
                /\ IsSuffix(Encode(Taken), taken')
<1>1. /\ rx' = [rx EXCEPT !.stage = "first"] /\ At("payload") /\ Len(rx.payload) = rx.length
      /\ frames' = frames \/ (b = rx.sum /\ frames' = Append(frames, Taken))
  BY DEF Checksum, SumMatches, Taken
<1>2. Taken \in [type : Byte, channel : Byte, payload : Seq(Byte)]
  BY DEF DecoderInv, DecoderTypeOK, Taken
<1>3. /\ frames' \in Seq([type : Byte, channel : Byte, payload : Seq(Byte)])
      /\ frames' = Append(frames, Taken) => Last(frames') = Taken
  <2> DEFINE T == [type : Byte, channel : Byte, payload : Seq(Byte)]
  <2>1. frames \in Seq(T) /\ Taken \in T
    BY <1>2 DEF DecoderInv, DecoderTypeOK
  <2> HIDE DEF T
  <2>2. Append(frames, Taken) \in Seq(T) /\ Last(Append(frames, Taken)) = Taken
    BY <2>1 DEF Last
  <2>3. frames' \in Seq(T)
    BY <1>1, <2>1, <2>2
  <2> QED
    BY <2>2, <2>3 DEF T
<1>4. taken' \in Seq(Byte)
  OBVIOUS
<1>5. DecoderInv'
  <2>1. DecoderTypeOK' /\ At("first")' /\ rx'.payload = rx.payload
    BY <1>1, <1>3 DEF DecoderInv, DecoderTypeOK, Stages, At
  <2> QED
    BY <1>4, <2>1, GivenUp
<1>6. ASSUME frames' # frames PROVE IsSuffix(Encode(Taken), taken')
  <2>1. b = rx.sum /\ Encode(Taken) = (Sync \o Body) \o <<b>>
    BY <1>1, <1>6, TakenEncoded
  <2>2. Sync \in Seq(Byte) /\ Body \in Seq(Byte)
    BY BodyBytes, UnitsAssumption, Pair DEF DecoderInv, Sync
  <2>3. Sync \o Body \in Seq(Byte)
    BY <2>2, AppendLast
  <2>4. Encode(Taken) = Append(Sync \o Body, b)
    BY <2>1, <2>3, ConcatOne
  <2>5. PICK before \in Seq(Byte) : taken = before \o (Sync \o Body)
    BY <1>1, BodyCandidate DEF DecoderInv, Begun, InBody, At, Stages
  <2>6. taken' = before \o Encode(Taken) /\ Encode(Taken) \in Seq(Byte)
    <3>1. taken' = before \o Append(Sync \o Body, b)
      BY <2>3, <2>5, AppendLast
    <3>2. Append(Sync \o Body, b) \in Seq(Byte)
      BY <2>3
    <3> QED
      BY <2>4, <3>1, <3>2
  <2> QED
    BY <2>6, SuffixOf
<1> QED
  BY <1>1, <1>3, <1>5, <1>6

(* A byte the decoder is not given leaves it looking for an A5. *)
LEMMA SkippedStep ==
    ASSUME DecoderInv, At("first"), UNCHANGED decoder, taken' \in Seq(Byte)
    PROVE  DecoderInv'
<1>1. DecoderTypeOK' /\ At("first")' /\ rx'.payload = rx.payload
  BY DEF DecoderInv, DecoderTypeOK, decoder, At
<1> QED
  BY <1>1, GivenUp

LinkInv == HandlerInv /\ RingInv /\ DecoderInv

(* What FrameSound says of a step. *)
FrameTaken == frames' # frames => IsSuffix(Encode(Last(frames')), taken')

LEMMA LinkStart == Init => LinkInv
<1> SUFFICES ASSUME Init PROVE LinkInv
    OBVIOUS
<1>1. RingInv
  BY Initially DEF Init
<1>2. DecoderInv
  BY DecoderStart DEF Init, RingInit
<1> QED
  BY <1>1, <1>2, HandlerStart DEF LinkInv

LEMMA LinkStep == LinkInv /\ [Next]_vars => LinkInv' /\ FrameTaken
<1> SUFFICES ASSUME LinkInv, [Next]_vars PROVE LinkInv' /\ FrameTaken
    OBVIOUS
<1>1. HandlerInv' /\ RingInv'
  BY HandlerStep, RingSimulated, Preserved DEF LinkInv
<1>2. DecoderInv /\ taken \in Seq(Byte) /\ taken' \in Seq(Byte)
  BY <1>1 DEF LinkInv, RingInv, RingTypeOK
<1>3. CASE PollByte
  <2> DEFINE b == data[tail]
  <2>1. b \in Byte /\ taken' = Append(taken, b)
    BY <1>3 DEF PollByte, TakeByte, LinkInv, RingInv, RingTypeOK
  <2>2. (~ForDecoder(b) /\ UNCHANGED decoder) \/ Consume(b)
    BY <1>3 DEF PollByte
  <2> HIDE DEF b
  <2>3. CASE ~ForDecoder(b) /\ UNCHANGED decoder
    <3>1. At("first")
      BY <2>3 DEF ForDecoder
    <3> QED
      BY <1>1, <1>2, <2>3, <3>1, SkippedStep DEF LinkInv, FrameTaken, decoder
  <2>4. CASE First(b) \/ Second(b)
    <3>1. DecoderInv' /\ frames' = frames
      BY <1>2, <2>1, <2>4, SyncStep DEF First, Second, Goto
    <3> QED
      BY <1>1, <3>1 DEF LinkInv, FrameTaken
  <2>5. CASE VersionByte(b)
    BY <1>1, <1>2, <2>1, <2>5, VersionStep DEF LinkInv, FrameTaken, VersionByte
  <2>6. CASE \/ Field("type", "type", b, "channel") \/ Field("channel", "channel", b, "lengthLow")
             \/ Field("lengthLow", "length", b, "lengthHigh")
    <3>1. DecoderInv' /\ frames' = frames
      BY <1>2, <2>1, <2>6, FieldStep DEF Field
    <3> QED
      BY <1>1, <3>1 DEF LinkInv, FrameTaken
  <2>7. CASE LengthHigh(b)
    BY <1>1, <1>2, <2>1, <2>7, LengthHighStep DEF LinkInv, FrameTaken, LengthHigh
  <2>8. CASE PayloadByte(b)
    BY <1>1, <1>2, <2>1, <2>8, PayloadStep DEF LinkInv, FrameTaken, PayloadByte
  <2>9. CASE Checksum(b)
    BY <1>1, <1>2, <2>1, <2>9, ChecksumStep DEF LinkInv, FrameTaken
  <2> QED
    BY <2>2, <2>3, <2>4, <2>5, <2>6, <2>7, <2>8, <2>9 DEF Consume
<1>4. CASE ~PollByte
  <2>1. UNCHANGED decoder /\ taken' = taken
    BY <1>4 DEF Next, Send, Interrupt, HandlerPut, Put, Drop, PollStep, LoadCount, StoreCount,
                vars, ringVars, polling, ring
  <2>2. DecoderInv'
    BY <1>2, <2>1 DEF DecoderInv, DecoderTypeOK, PayloadFits, At, InBody, Body, Begun,
                      Candidate, decoder
  <2> QED
    BY <1>1, <2>1, <2>2 DEF LinkInv, FrameTaken, decoder
<1> QED
  BY <1>3, <1>4

(* However a header lies about its length, no byte is stored past the end of
   the payload buffer. *)
THEOREM PayloadFitsCorrect == Spec => []PayloadFits
<1>1. LinkInv => PayloadFits
  BY DEF LinkInv, DecoderInv
<1> QED
  BY LinkStart, LinkStep, <1>1, PTL DEF Spec

(* A frame the kernel is handed is, encoded, what came out of the ring last:
   whatever noise, loss or overrun precedes it, no frame is made up of bytes
   that do not follow each other. *)
THEOREM FrameSoundCorrect == Spec => FrameSound
<1>1. FrameSound <=> [][FrameTaken]_vars
  BY DEF FrameSound, FrameTaken
<1> QED
  BY <1>1, LinkStart, LinkStep, PTL DEF Spec
-----------------------------------------------------------------------------
(* What the host has asked for, unit by unit: f is what is wanted after the
   first n. *)
ChosenNext(before, unit, kind) ==
    IF unit.kind = kind THEN Append(before, unit.what) ELSE before
Chosen(f, units, kind, n) ==
    f = [i \in 0..n |-> IF i = 0 THEN <<>> ELSE ChosenNext(f[i - 1], units[i], kind)]

LEMMA ChosenGrows ==
    ASSUME NEW units, NEW kind, NEW n \in Nat, NEW f, Chosen(f, units, kind, n)
    PROVE  \E g : Chosen(g, units, kind, n + 1) /\ g[n + 1] = ChosenNext(f[n], units[n + 1], kind)
<1> DEFINE next == ChosenNext(f[n], units[n + 1], kind)
           g == [i \in 0..(n + 1) |-> IF i <= n THEN f[i] ELSE next]
           h == [i \in 0..(n + 1) |-> IF i = 0 THEN <<>> ELSE ChosenNext(g[i - 1], units[i], kind)]
<1>1. g[n + 1] = next
  OBVIOUS
<1>2. ASSUME NEW i \in 0..(n + 1) PROVE g[i] = h[i]
  <2>1. CASE i = n + 1
    <3>1. i # 0 /\ i - 1 = n /\ g[n] = f[n]
      BY <2>1
    <3> QED
      BY <1>1, <2>1, <3>1
  <2>2. CASE i <= n
    <3>1. i \in 0..n /\ g[i] = f[i] /\ (i # 0 => i - 1 \in 0..(n + 1) /\ g[i - 1] = f[i - 1])
      BY <2>2
    <3>2. f[i] = IF i = 0 THEN <<>> ELSE ChosenNext(f[i - 1], units[i], kind)
      BY <3>1 DEF Chosen
    <3> QED
      BY <3>1, <3>2
  <2> QED
    BY <2>1, <2>2
<1>3. g = h
  BY <1>2
<1> QED
  BY <1>1, <1>3 DEF Chosen

LEMMA ChosenExists ==
    ASSUME NEW units, NEW kind PROVE \A n \in Nat : \E f : Chosen(f, units, kind, n)
<1> DEFINE S == {n \in Nat : \E f : Chosen(f, units, kind, n)}
<1>1. 0 \in S
  <2>1. Chosen([i \in 0..0 |-> <<>>], units, kind, 0)
    BY DEF Chosen
  <2> QED
    BY <2>1
<1>2. \A n \in S : n + 1 \in S
  BY ChosenGrows
<1>3. S \subseteq Nat
  OBVIOUS
<1> HIDE DEF S
<1>4. S = Nat
  BY <1>1, <1>2, <1>3, SetInduction
<1> QED
  BY <1>4 DEF S

LEMMA ChosenUnique ==
    ASSUME NEW units, NEW kind, NEW n \in Nat, NEW f, NEW g,
           Chosen(f, units, kind, n), Chosen(g, units, kind, n)
    PROVE  f[n] = g[n]
<1> DEFINE S == {i \in Nat : i <= n => f[i] = g[i]}
<1>1. 0 \in S
  BY DEF Chosen
<1>2. ASSUME NEW i \in S PROVE i + 1 \in S
  <2> SUFFICES ASSUME i + 1 <= n PROVE f[i + 1] = g[i + 1]
      OBVIOUS
  <2>1. i \in Nat /\ f[i] = g[i] /\ i + 1 \in 0..n /\ i + 1 # 0 /\ (i + 1) - 1 = i
    OBVIOUS
  <2>2. /\ f[i + 1] = ChosenNext(f[i], units[i + 1], kind)
        /\ g[i + 1] = ChosenNext(g[i], units[i + 1], kind)
    BY <2>1 DEF Chosen
  <2> QED
    BY <2>1, <2>2
<1>3. S \subseteq Nat
  OBVIOUS
<1> HIDE DEF S
<1>4. S = Nat
  BY <1>1, <1>2, <1>3, SetInduction
<1> QED
  BY <1>4 DEF S

LEMMA ChosenValue ==
    ASSUME NEW units, NEW kind, Len(units) \in Nat, NEW f, Chosen(f, units, kind, Len(units))
    PROVE  WantedOf(units, kind) = f[Len(units)]
<1> DEFINE F == CHOOSE g : g = [n \in 0..Len(units) |->
                IF n = 0 THEN <<>>
                ELSE IF units[n].kind = kind THEN Append(g[n - 1], units[n].what)
                ELSE g[n - 1]]
<1>1. WantedOf(units, kind) = F[Len(units)]
  BY DEF WantedOf
<1>2. F = [n \in 0..Len(units) |->
                IF n = 0 THEN <<>>
                ELSE IF units[n].kind = kind THEN Append(F[n - 1], units[n].what)
                ELSE F[n - 1]]
  BY DEF Chosen, ChosenNext
<1> HIDE DEF F
<1>3. Chosen(F, units, kind, Len(units))
  BY <1>2 DEF Chosen, ChosenNext
<1> QED
  BY <1>1, <1>3, ChosenUnique

LEMMA WantedAtFirst == ASSUME NEW kind PROVE WantedOf(<<>>, kind) = <<>>
<1>1. PICK f : Chosen(f, <<>>, kind, 0)
  BY ChosenExists
<1> QED
  BY <1>1, ChosenValue DEF Chosen

LEMMA WantedThen ==
    ASSUME NEW T, NEW units \in Seq(T), NEW unit \in T, NEW kind
    PROVE  WantedOf(Append(units, unit), kind)
             = IF unit.kind = kind THEN Append(WantedOf(units, kind), unit.what)
               ELSE WantedOf(units, kind)
<1> DEFINE n == Len(units)
           more == Append(units, unit)
<1>1. /\ n \in Nat /\ Len(more) = n + 1 /\ more[n + 1] = unit
      /\ \A i \in 1..n : more[i] = units[i]
  OBVIOUS
<1> HIDE DEF n, more
<1>2. PICK f : Chosen(f, units, kind, n)
  BY <1>1, ChosenExists
<1>3. Chosen(f, more, kind, n)
  <2>1. \A i \in 0..n : (IF i = 0 THEN <<>> ELSE ChosenNext(f[i - 1], units[i], kind))
                       = (IF i = 0 THEN <<>> ELSE ChosenNext(f[i - 1], more[i], kind))
    BY <1>1
  <2> QED
    BY <1>2, <2>1 DEF Chosen
<1>4. PICK g : Chosen(g, more, kind, n + 1) /\ g[n + 1] = ChosenNext(f[n], more[n + 1], kind)
  BY <1>1, <1>3, ChosenGrows
<1>5. WantedOf(units, kind) = f[n]
  BY <1>1, <1>2, ChosenValue DEF n
<1>6. WantedOf(more, kind) = g[n + 1]
  BY <1>1, <1>4, ChosenValue
<1> QED
  BY <1>1, <1>4, <1>5, <1>6 DEF more, ChosenNext


-----------------------------------------------------------------------------
(* Where the handler stands in what the host is writing: the first k bytes of
   the unit are handled, and the controls are those of the units before it, and
   its own once its request has been read. *)
Whats == {unit.what : unit \in Units}
Asked == Wanted("control")

Rest(bytes, k) ==
    /\ k <= Len(bytes) /\ Len(wire) = Len(bytes) - k
    /\ \A i \in 1..Len(wire) : wire[i] = bytes[k + i]

Between == escape = "normal" /\ controls = Asked
InOther(bytes, k) ==
    /\ controls = Asked
    /\ escape # "normal" => escape = "escape" /\ 1 <= k /\ bytes[k] = 255
InControl(bytes, k, p, earlier) ==
    \/ k <= p /\ escape = "normal" /\ controls = earlier
    \/ k = p + 1 /\ escape = "escape" /\ controls = earlier
    \/ /\ bytes[p + 2] = 1 /\ p + 2 <= k /\ k < p + 2 + HostTickBytes
       /\ escape = "tick" /\ controls = earlier
       /\ Len(hostTick) = k - (p + 2)
       /\ \A i \in 1..Len(hostTick) : hostTick[i] = bytes[p + 2 + i]
    \/ AskedBy(bytes, p) <= k /\ Between

NoEscape(bytes, p) ==
    \A i \in 1..Len(bytes) : i <= p \/ AskedBy(bytes, p) < i => bytes[i] # 255
Harmless(bytes) ==
    \A i \in 1..Len(bytes) :
        bytes[i] = 255 => i < Len(bytes) /\ bytes[i + 1] \notin {1, 4, 5}

(* A unit that is not a control, and one that is. *)
Other(bytes, k) == Harmless(bytes) /\ Rest(bytes, k) /\ InOther(bytes, k)
Control(bytes, k, p, earlier, what) ==
    /\ Asks(bytes, p, what) /\ NoEscape(bytes, p)
    /\ Asked = Append(earlier, what)
    /\ Rest(bytes, k) /\ InControl(bytes, k, p, earlier)

Writing ==
    \/ wire = <<>> /\ Between
    \/ \E bytes \in Seq(Byte), k \in Nat : Other(bytes, k)
    \/ \E bytes \in Seq(Byte), k \in Nat, p \in Nat, earlier \in Seq(Whats), what \in Whats :
          Control(bytes, k, p, earlier, what)

ControlInv == sent \in Seq(Units) /\ Asked \in Seq(Whats) /\ Writing

(* The handler reads byte k + 1 of the unit. *)
LEMMA NextByte ==
    ASSUME NEW bytes \in Seq(Byte), NEW k \in Nat, Rest(bytes, k), wire \in Seq(Byte),
           wire # <<>>, wire' = Tail(wire)
    PROVE  /\ Rest(bytes, k + 1)' /\ k + 1 \in 1..Len(bytes) /\ Head(wire) = bytes[k + 1]
<1>1. /\ Len(bytes) \in Nat /\ Len(wire) \in Nat /\ Len(wire) >= 1 /\ Head(wire) = wire[1]
      /\ Len(wire') = Len(wire) - 1 /\ \A i \in 1..Len(wire') : wire'[i] = wire[i + 1]
  OBVIOUS
<1>2. wire[1] = bytes[k + 1]
  BY <1>1 DEF Rest
<1>3. ASSUME NEW i \in 1..Len(wire') PROVE wire'[i] = bytes[(k + 1) + i]
  <2>1. i + 1 \in 1..Len(wire) /\ k + (i + 1) = (k + 1) + i
    BY <1>1
  <2>2. wire[i + 1] = bytes[k + (i + 1)]
    BY <2>1 DEF Rest
  <2> QED
    BY <1>1, <2>1, <2>2
<1> QED
  BY <1>1, <1>2, <1>3 DEF Rest

Handled(b) ==
    \/ Ordinary(b) \/ EscapeStart(b) \/ TickStart(b)
    \/ Request(b) \/ EscapeOrdinary(b) \/ TickByte(b)

(* Nothing but a request makes a control, and nothing but an FF an escape. *)
LEMMA OtherByte ==
    ASSUME NEW bytes \in Seq(Byte), NEW k \in Nat, Other(bytes, k), Asked' = Asked,
           wire \in Seq(Byte), wire # <<>>, wire' = Tail(wire), Handled(Head(wire))
    PROVE  Other(bytes, k + 1)'
<1> DEFINE b == Head(wire)
<1>1. Rest(bytes, k + 1)' /\ k + 1 \in 1..Len(bytes) /\ b = bytes[k + 1]
  BY NextByte DEF Other
<1>2. Handled(b)
  OBVIOUS
<1> HIDE DEF b
<1>3. CASE escape = "normal"
  <2>1. Ordinary(b) \/ EscapeStart(b)
    BY <1>2, <1>3 DEF Handled, TickStart, Request, EscapeOrdinary, TickByte
  <2>2. controls' = controls /\ (escape' # "normal" => escape' = "escape" /\ b = 255)
    BY <1>3, <2>1 DEF Ordinary, EscapeStart
  <2> QED
    BY <1>1, <2>2 DEF Other, InOther, Harmless
<1>4. CASE escape = "escape"
  <2>1. k \in 1..Len(bytes) /\ bytes[k] = 255
    BY <1>1, <1>4 DEF Other, InOther, Rest
  <2>2. b \notin {1, 4, 5}
    BY <1>1, <2>1 DEF Other, Harmless
  <2>3. EscapeOrdinary(b)
    BY <1>2, <1>4, <2>2 DEF Handled, Ordinary, EscapeStart, TickStart, Request, TickByte
  <2> QED
    BY <1>1, <2>3 DEF Other, InOther, Harmless, EscapeOrdinary
<1> QED
  BY <1>3, <1>4 DEF Other, InOther

(* The last byte of a tick. *)
LEMMA TickRead ==
    ASSUME NEW bytes \in Seq(Byte), NEW p \in Nat, p + 2 + HostTickBytes <= Len(bytes),
           NEW tick \in Seq(Byte), Len(tick) = TickBytes,
           \A i \in 1..Len(tick) : tick[i] = bytes[p + 2 + i]
    PROVE  tick = SubSeq(bytes, p + 3, p + 2 + HostTickBytes)
<1> DEFINE m == p + 3
           n == p + 2 + HostTickBytes
           s == SubSeq(bytes, m, n)
<1>1. m \in 1..(Len(bytes) + 1) /\ n \in (m - 1)..Len(bytes) /\ (n - m) + 1 = 3
  BY DEF TickBytes, HostTickBytes
<1>2. s \in Seq(Byte) /\ Len(s) = (n - m) + 1 /\ \A i \in 1..((n - m) + 1) : s[i] = bytes[m + i - 1]
  <2> HIDE DEF m, n
  <2> QED
    BY <1>1, Parted DEF PartOf
<1>3. \A i \in 1..3 : s[i] = bytes[p + 2 + i]
  <2>1. \A i \in 1..3 : m + i - 1 = p + 2 + i
    OBVIOUS
  <2> HIDE DEF s, m, n
  <2> QED
    BY <1>1, <1>2, <2>1
<1> HIDE DEF s, m, n
<1>4. Len(s) = 3 /\ Len(tick) = 3 /\ \A i \in 1..3 : tick[i] = s[i]
  BY <1>1, <1>2, <1>3 DEF TickBytes, HostTickBytes
<1>5. tick = s
  BY <1>2, <1>4, SeqEqual
<1> QED
  BY <1>5 DEF s, m, n

(* A request is read in its place, and nothing else in its unit is one. *)
LEMMA ControlByte ==
    ASSUME NEW bytes \in Seq(Byte), NEW k \in Nat, NEW p \in Nat, NEW earlier, NEW what,
           Control(bytes, k, p, earlier, what), Asked' = Asked, hostTick \in Seq(Byte),
           wire \in Seq(Byte), wire # <<>>, wire' = Tail(wire), Handled(Head(wire))
    PROVE  Control(bytes, k + 1, p, earlier, what)'
<1> DEFINE b == Head(wire)
<1>1. Rest(bytes, k + 1)' /\ k + 1 \in 1..Len(bytes) /\ b = bytes[k + 1] /\ Len(bytes) \in Nat
  BY NextByte DEF Control
<1>2. Handled(b)
  OBVIOUS
<1>3. b \in Byte
  BY <1>1
<1> HIDE DEF b
<1>4. /\ Asks(bytes, p, what) /\ NoEscape(bytes, p) /\ Asked = Append(earlier, what)
      /\ InControl(bytes, k, p, earlier) /\ p + 2 <= Len(bytes)
  BY DEF Control, Asks
<1>5. SUFFICES InControl(bytes, k + 1, p, earlier)'
  BY <1>1, <1>4 DEF Control
<1>6. ASSUME escape = "normal", bytes[k + 1] # 255
      PROVE  escape' = "normal" /\ controls' = controls
  <2>1. Ordinary(b)
    BY <1>1, <1>2, <1>6 DEF Handled, EscapeStart, TickStart, Request, EscapeOrdinary, TickByte
  <2> QED
    BY <1>6, <2>1 DEF Ordinary
<1>7. CASE k <= p /\ escape = "normal" /\ controls = earlier
  <2>1. CASE k + 1 <= p
    <3>1. bytes[k + 1] # 255
      BY <1>1, <1>4, <2>1 DEF NoEscape
    <3> QED
      BY <1>6, <1>7, <2>1, <3>1 DEF InControl
  <2>2. CASE k = p
    <3>1. b = 255
      BY <1>1, <1>4, <2>2 DEF Asks
    <3>2. EscapeStart(b)
      BY <1>2, <1>7, <3>1 DEF Handled, Ordinary, TickStart, Request, EscapeOrdinary, TickByte
    <3> QED
      BY <1>7, <2>2, <3>2 DEF InControl, EscapeStart
  <2> QED
    BY <1>7, <2>1, <2>2
<1>8. CASE k = p + 1 /\ escape = "escape" /\ controls = earlier
  <2>1. b = bytes[p + 2] /\ k + 1 = p + 2
    BY <1>1, <1>8
  <2>2. CASE b = 1
    <3>1. TickStart(b)
      BY <1>2, <1>8, <2>2 DEF Handled, Ordinary, EscapeStart, Request, EscapeOrdinary, TickByte
    <3>2. hostTick' = <<>> /\ Len(hostTick') = 0 /\ escape' = "tick" /\ controls' = controls
      BY <3>1 DEF TickStart
    <3> QED
      BY <1>8, <2>1, <2>2, <3>2 DEF InControl, TickBytes, HostTickBytes
  <2>3. CASE b # 1
    <3>1. b \in {4, 5} /\ what = IF b = 4 THEN <<"restart">> ELSE <<"reboot">>
      BY <1>4, <2>1, <2>3 DEF Asks
    <3>2. Request(b)
      BY <1>2, <1>8, <3>1 DEF Handled, Ordinary, EscapeStart, TickStart, EscapeOrdinary, TickByte
    <3>3. escape' = "normal" /\ controls' = Append(earlier, what)
      BY <1>8, <3>1, <3>2 DEF Request
    <3>4. AskedBy(bytes, p) = p + 2
      BY <2>1, <2>3 DEF AskedBy
    <3> QED
      BY <1>4, <2>1, <3>3, <3>4 DEF InControl, Between, AskedBy
  <2> QED
    BY <2>2, <2>3
<1>9. CASE /\ bytes[p + 2] = 1 /\ p + 2 <= k /\ k < p + 2 + HostTickBytes
           /\ escape = "tick" /\ controls = earlier
           /\ Len(hostTick) = k - (p + 2)
           /\ \A i \in 1..Len(hostTick) : hostTick[i] = bytes[p + 2 + i]
  <2>1. TickByte(b)
    BY <1>2, <1>9 DEF Handled, Ordinary, EscapeStart, TickStart, Request, EscapeOrdinary
  <2>2. hostTick' = Append(hostTick, b)
    BY <2>1 DEF TickByte
  <2>3. hostTick' \in Seq(Byte) /\ Len(hostTick') = (k + 1) - (p + 2)
    <3>1. hostTick' \in Seq(Byte) /\ Len(hostTick') = Len(hostTick) + 1
      BY <1>3, <2>2
    <3> QED
      BY <1>9, <3>1
  <2>4. ASSUME NEW i \in 1..Len(hostTick') PROVE hostTick'[i] = bytes[p + 2 + i]
    <3>1. CASE i \in 1..Len(hostTick)
      BY <1>9, <2>2, <3>1
    <3>2. CASE i = Len(hostTick) + 1
      <4>1. hostTick'[i] = b /\ p + 2 + i = k + 1
        BY <1>9, <2>2, <3>2
      <4> QED
        BY <1>1, <4>1
    <3> QED
      BY <1>9, <2>3, <3>1, <3>2
  <2>5. CASE Len(hostTick') < TickBytes
    <3>1. escape' = "tick" /\ controls' = controls
      BY <1>9, <2>1, <2>5 DEF TickByte
    <3>2. k + 1 < p + 2 + HostTickBytes /\ p + 2 <= k + 1
      BY <1>9, <2>3, <2>5 DEF TickBytes, HostTickBytes
    <3> QED
      BY <1>9, <2>3, <2>4, <3>1, <3>2 DEF InControl
  <2>6. CASE ~(Len(hostTick') < TickBytes)
    <3>1. escape' = "normal" /\ controls' = Append(earlier, hostTick')
      BY <1>9, <2>1, <2>6 DEF TickByte
    <3>2. Len(hostTick') = TickBytes /\ k + 1 = p + 2 + HostTickBytes
      BY <1>9, <2>3, <2>6 DEF TickBytes, HostTickBytes
    <3>3. p + 2 + HostTickBytes <= Len(bytes) /\ what = SubSeq(bytes, p + 3, p + 2 + HostTickBytes)
      BY <1>4, <1>9 DEF Asks
    <3>4. hostTick' = what
      BY <2>3, <2>4, <3>2, <3>3, TickRead
    <3>5. AskedBy(bytes, p) = p + 2 + HostTickBytes
      BY <1>9 DEF AskedBy
    <3> QED
      BY <1>4, <3>1, <3>2, <3>4, <3>5 DEF InControl, Between, AskedBy, TickBytes, HostTickBytes
  <2> QED
    BY <2>5, <2>6
<1>10. CASE AskedBy(bytes, p) <= k /\ Between
  <2>1. AskedBy(bytes, p) \in Nat
    BY DEF AskedBy, TickBytes, HostTickBytes
  <2>2. bytes[k + 1] # 255 /\ AskedBy(bytes, p) <= k + 1
    <3> HIDE DEF AskedBy
    <3>1. AskedBy(bytes, p) < k + 1
      BY <1>10, <2>1
    <3> QED
      BY <1>1, <1>4, <2>1, <3>1 DEF NoEscape
  <2>3. Between'
    BY <1>6, <1>10, <2>2 DEF Between
  <2> QED
    BY <2>2, <2>3 DEF InControl, AskedBy
<1> QED
  BY <1>4, <1>7, <1>8, <1>9, <1>10 DEF InControl

-----------------------------------------------------------------------------
LEMMA ControlStart == Init => ControlInv
<1> SUFFICES ASSUME Init PROVE ControlInv
    OBVIOUS
<1>1. sent = <<>> /\ wire = <<>> /\ escape = "normal" /\ controls = <<>>
  BY DEF Init
<1>2. Asked = <<>>
  BY <1>1, WantedAtFirst DEF Asked, Wanted
<1> QED
  BY <1>1, <1>2 DEF ControlInv, Writing, Between

(* When all of a unit is handled, so is its request. *)
LEMMA AllHandled == ASSUME Writing, wire = <<>> PROVE Between
<1>1. ASSUME NEW bytes \in Seq(Byte), NEW k \in Nat, Other(bytes, k) PROVE Between
  <2>1. k = Len(bytes)
    BY <1>1 DEF Other, Rest
  <2>2. escape = "normal"
    BY <1>1, <2>1 DEF Other, InOther, Harmless
  <2> QED
    BY <1>1, <2>2 DEF Other, InOther, Between
<1>2. ASSUME NEW bytes \in Seq(Byte), NEW k \in Nat, NEW p \in Nat,
             NEW earlier \in Seq(Whats), NEW what \in Whats, Control(bytes, k, p, earlier, what)
      PROVE  Between
  <2>1. k = Len(bytes) /\ p + 2 <= Len(bytes)
    BY <1>2 DEF Control, Rest, Asks
  <2>2. bytes[p + 2] = 1 => p + 2 + HostTickBytes <= Len(bytes)
    BY <1>2 DEF Control, Asks
  <2> QED
    BY <1>2, <2>1, <2>2 DEF Control, InControl, TickBytes, HostTickBytes
<1> QED
  BY <1>1, <1>2 DEF Writing

LEMMA SendStep ==
    ASSUME UnitsUnmistakable, ControlInv, NEW unit \in Units, Send(unit) PROVE ControlInv'
<1>1. Between /\ sent' = Append(sent, unit) /\ wire' = unit.bytes /\ sent \in Seq(Units)
  BY AllHandled DEF Send, ControlInv
<1>2. escape' = escape /\ hostTick' = hostTick /\ controls' = controls
  BY DEF Send, handler
<1>3. Asked' = IF unit.kind = "control" THEN Append(Asked, unit.what) ELSE Asked
  BY <1>1, WantedThen DEF Asked, Wanted
<1>4. unit.bytes \in Seq(Byte) /\ unit.what \in Whats /\ Unmistakable(unit)
  BY UnitsAssumption DEF Whats, UnitsUnmistakable
<1>5. sent' \in Seq(Units) /\ Asked' \in Seq(Whats) /\ Asked \in Seq(Whats)
  BY <1>1, <1>3, <1>4 DEF ControlInv
<1>6. Rest(unit.bytes, 0)'
  BY <1>1, <1>4 DEF Rest
<1>7. CASE unit.kind # "control"
  <2>1. Harmless(unit.bytes) /\ Asked' = Asked
    BY <1>3, <1>4, <1>7 DEF Harmless, Unmistakable
  <2>2. Other(unit.bytes, 0)'
    BY <1>1, <1>2, <1>6, <2>1 DEF Other, InOther, Between, Harmless
  <2> QED
    BY <1>4, <1>5, <2>2 DEF ControlInv, Writing
<1>8. CASE unit.kind = "control"
  <2>1. PICK p \in 0..Len(unit.bytes) : Asks(unit.bytes, p, unit.what) /\ NoEscape(unit.bytes, p)
    BY <1>4, <1>8 DEF Unmistakable, NoEscape
  <2>2. p \in Nat /\ 0 <= p
    BY <1>4, <2>1
  <2>3. PICK earlier \in Seq(Whats) : earlier = Asked
    BY <1>5
  <2>4. InControl(unit.bytes, 0, p, earlier)'
    BY <1>1, <1>2, <2>2, <2>3 DEF InControl, Between
  <2>5. Control(unit.bytes, 0, p, earlier, unit.what)'
    <3>1. Asked' = Append(earlier, unit.what)
      BY <1>3, <1>8, <2>3
    <3> QED
      BY <1>6, <2>1, <2>4, <3>1 DEF Control, NoEscape, Asks, AskedBy
  <2> QED
    BY <1>4, <1>5, <2>2, <2>5 DEF ControlInv, Writing
<1> QED
  BY <1>7, <1>8

LEMMA InterruptControls ==
    ASSUME HandlerInv, ControlInv, Interrupt PROVE ControlInv'
<1>1. /\ wire \in Seq(Byte) /\ hostTick \in Seq(Byte) /\ wire # <<>> /\ wire' = Tail(wire)
      /\ Handled(Head(wire)) /\ sent' = sent
  BY DEF HandlerInv, Interrupt, Handled
<1>2. Asked' = Asked
  BY <1>1 DEF Asked, Wanted
<1>3. ASSUME NEW bytes \in Seq(Byte), NEW k \in Nat, Other(bytes, k) PROVE Writing'
  <2>1. Other(bytes, k + 1)' /\ k + 1 \in Nat
    BY <1>1, <1>2, <1>3, OtherByte
  <2> QED
    BY <2>1 DEF Writing
<1>4. ASSUME NEW bytes \in Seq(Byte), NEW k \in Nat, NEW p \in Nat,
             NEW earlier \in Seq(Whats), NEW what \in Whats, Control(bytes, k, p, earlier, what)
      PROVE  Writing'
  <2>1. Control(bytes, k + 1, p, earlier, what)' /\ k + 1 \in Nat
    BY <1>1, <1>2, <1>4, ControlByte
  <2> QED
    BY <2>1 DEF Writing
<1> QED
  BY <1>1, <1>2, <1>3, <1>4 DEF ControlInv, Writing

LEMMA ControlStep ==
    ASSUME UnitsUnmistakable, HandlerInv, ControlInv, [Next]_vars PROVE ControlInv'
<1>1. CASE \E unit \in Units : Send(unit)
  BY <1>1, SendStep
<1>2. CASE Interrupt
  BY <1>2, InterruptControls
<1>3. CASE HandlerPut \/ PollStep \/ PollByte \/ UNCHANGED vars
  <2>1. UNCHANGED <<wire, sent, escape, hostTick, controls>>
    BY <1>3 DEF HandlerPut, PollStep, PollByte, vars, handler
  <2>2. Asked' = Asked /\ (Between' <=> Between)
    BY <2>1 DEF Asked, Wanted, Between
  <2>3. ASSUME NEW bytes \in Seq(Byte), NEW k \in Nat
        PROVE  Other(bytes, k) => Other(bytes, k)'
    BY <2>1, <2>2 DEF Other, Rest, InOther
  <2>4. ASSUME NEW bytes \in Seq(Byte), NEW k \in Nat, NEW p \in Nat,
               NEW earlier \in Seq(Whats), NEW what \in Whats
        PROVE  Control(bytes, k, p, earlier, what) => Control(bytes, k, p, earlier, what)'
    BY <2>1, <2>2 DEF Control, Rest, InControl
  <2> QED
    BY <2>1, <2>2, <2>3, <2>4 DEF ControlInv, Writing
<1> QED
  BY <1>1, <1>2, <1>3 DEF Next

LEMMA PrefixOfMore ==
    ASSUME NEW T, NEW s \in Seq(T), NEW x \in T
    PROVE  IsPrefix(s, s) /\ IsPrefix(s, Append(s, x))
  BY DEF IsPrefix

LEMMA ControlsFollow == ASSUME ControlInv PROVE ControlsExact
<1>1. wire = <<>> => controls = Asked
  BY AllHandled DEF ControlInv, Between
<1>2. IsPrefix(controls, Asked)
  <2>1. CASE controls = Asked
    BY <2>1, PrefixOfMore DEF ControlInv
  <2>2. ASSUME NEW bytes \in Seq(Byte), NEW k \in Nat, NEW p \in Nat,
               NEW earlier \in Seq(Whats), NEW what \in Whats,
               Control(bytes, k, p, earlier, what), controls # Asked
        PROVE  IsPrefix(controls, Asked)
    <3>1. controls = earlier /\ Asked = Append(earlier, what)
      BY <2>2 DEF Control, InControl, Between
    <3> QED
      BY <3>1, PrefixOfMore
  <2> QED
    BY <2>1, <2>2 DEF ControlInv, Writing, Between, Other, InOther
<1> QED
  BY <1>1, <1>2 DEF ControlsExact, Asked

-----------------------------------------------------------------------------
(* The handler acts on the heartbeats, restarts and reboots the host asks for
   and on no others, each with the last byte of its request, for every
   sequence of units in which an FF stands for itself. *)
THEOREM ControlsCorrect == UnitsUnmistakable => (Spec => []ControlsExact)
<1> SUFFICES ASSUME UnitsUnmistakable PROVE Spec => []ControlsExact
    OBVIOUS
<1>1. HandlerInv /\ ControlInv /\ [Next]_vars => HandlerInv' /\ ControlInv'
  BY HandlerStep, ControlStep
<1>2. Init => HandlerInv /\ ControlInv
  BY HandlerStart, ControlStart
<1>3. ControlInv => ControlsExact
  BY ControlsFollow
<1> QED
  BY <1>1, <1>2, <1>3, PTL DEF Spec
=============================================================================
