--------------------------- MODULE Debugging_proofs ---------------------------
(***************************************************************************)
(* Theorems about a debugging session, for any commands, any debug map and *)
(* reads of any length.                                                    *)
(***************************************************************************)
EXTENDS Debugging, Common_proofs

-----------------------------------------------------------------------------
(* The adapter's decoder.  What a turn of its loop does depends on the bytes
   alone: on the candidate at the first beginning of a frame or a heartbeat,
   or on the last byte. *)
Loop == [rest : Seq(Octet), units : Seq(FrameSet), waiting : BOOLEAN]

Starts(B) == FirstAt(B, Sync) \cup FirstAt(B, Tick)
Candidate(B) == From(B, Min(Starts(B)))

Effect(rest, units, waiting) == [rest |-> rest, units |-> units, waiting |-> waiting]
Judged(b) ==
    IF b[1] = Tick[1]
    THEN IF Len(b) < 5 THEN Effect(b, <<>>, TRUE)
         ELSE Effect(From(b, 6), <<Raw(SubSeq(b, 1, 5))>>, FALSE)
    ELSE IF Len(b) < 8 \/ Len(b) < FrameLength(b) THEN Effect(b, <<>>, TRUE)
    ELSE Effect(From(b, FrameLength(b) + 1), IF Good(b) THEN <<Parsed(b)>> ELSE <<>>, FALSE)
Step(B) == IF Starts(B) = {} THEN Effect(Trailing(B), <<>>, TRUE) ELSE Judged(Candidate(B))

After(d, e) == Effect(e.rest, d.units \o e.units, e.waiting)

LEMMA PatternsAre ==
    /\ Sync \in Seq(Octet) /\ Len(Sync) = 2 /\ Sync[1] = 165 /\ Sync[2] = 90 /\ Len(Sync) > 0
    /\ Tick \in Seq(Octet) /\ Len(Tick) = 2 /\ Tick[1] = 255 /\ Tick[2] = 1 /\ Len(Tick) > 0
  BY DEF Sync, Tick, Octet

Begins(first, second) == (first = 165 /\ second = 90) \/ (first = 255 /\ second = 1)

LEMMA PairAt ==
    ASSUME NEW B \in Seq(Octet), NEW i \in Nat, NEW p \in Seq(Octet), Len(p) = 2
    PROVE  i \in FirstAt(B, p) <=> i >= 1 /\ i + 1 <= Len(B) /\ B[i] = p[1] /\ B[i + 1] = p[2]
<1>0. Len(p) > 0
  OBVIOUS
<1>1. i \in FirstAt(B, p) <=> Place(B, p, i)
  BY <1>0, FirstAtIs
<1>2. Len(B) \in Nat
  OBVIOUS
<1>3. Place(B, p, i) <=> i >= 1 /\ i + 2 - 1 <= Len(B) /\ \A k \in 1..2 : B[i + k - 1] = p[k]
  BY DEF Place
<1>4. (\A k \in 1..2 : B[i + k - 1] = p[k]) <=> B[i + 1 - 1] = p[1] /\ B[i + 2 - 1] = p[2]
  <2>1. 1..2 = {1, 2}
    OBVIOUS
  <2> QED
    BY <2>1
<1>5. i + 1 - 1 = i /\ i + 2 - 1 = i + 1
  OBVIOUS
<1> QED
  BY <1>1, <1>3, <1>4, <1>5

LEMMA StartAt ==
    ASSUME NEW B \in Seq(Octet), NEW i \in Nat
    PROVE  i \in Starts(B) <=> i >= 1 /\ i + 1 <= Len(B) /\ Begins(B[i], B[i + 1])
<1>1. i \in FirstAt(B, Sync) <=> i >= 1 /\ i + 1 <= Len(B) /\ B[i] = 165 /\ B[i + 1] = 90
  BY PairAt, PatternsAre
<1>2. i \in FirstAt(B, Tick) <=> i >= 1 /\ i + 1 <= Len(B) /\ B[i] = 255 /\ B[i + 1] = 1
  BY PairAt, PatternsAre
<1> QED
  BY <1>1, <1>2 DEF Starts, Begins

LEMMA StartsRange == ASSUME NEW B \in Seq(Octet) PROVE Starts(B) \subseteq Nat
  BY PatternsAre, FirstAtRange DEF Starts

LEMMA CandidateIs ==
    ASSUME NEW B \in Seq(Octet), Starts(B) # {}
    PROVE  LET m == Min(Starts(B)) IN
           /\ m \in Starts(B) /\ m \in Nat /\ m >= 1 /\ m + 1 <= Len(B)
           /\ \A i \in Starts(B) : m <= i
           /\ Candidate(B) \in Seq(Octet) /\ Len(Candidate(B)) = Len(B) - m + 1
           /\ Len(Candidate(B)) >= 2
           /\ Begins(Candidate(B)[1], Candidate(B)[2])
<1> DEFINE m == Min(Starts(B))
<1>1. m \in Starts(B) /\ \A i \in Starts(B) : m <= i
  BY StartsRange, MinOf
<1>2. m \in Nat
  BY <1>1, StartsRange
<1>3. m >= 1 /\ m + 1 <= Len(B) /\ Begins(B[m], B[m + 1])
  BY <1>1, <1>2, StartAt
<1> HIDE DEF m
<1>4. m \in 1..(Len(B) + 1) /\ Len(B) \in Nat
  BY <1>2, <1>3
<1> DEFINE b == From(B, m)
<1>5. /\ b \in Seq(Octet) /\ Len(b) = Len(B) - m + 1
      /\ \A k \in 1..(Len(B) - m + 1) : b[k] = B[m + k - 1]
  BY <1>4, FromIs
<1>6. 1 \in 1..(Len(B) - m + 1) /\ 2 \in 1..(Len(B) - m + 1) /\ m + 1 - 1 = m /\ m + 2 - 1 = m + 1
  BY <1>2, <1>3, <1>4
<1> HIDE DEF b
<1>7. Begins(b[1], b[2]) /\ Len(b) >= 2
  <2>1. b[1] = B[m + 1 - 1] /\ b[2] = B[m + 2 - 1]
    BY <1>5, <1>6
  <2>2. b[1] = B[m] /\ b[2] = B[m + 1]
    BY <1>6, <2>1
  <2> QED
    BY <1>2, <1>3, <1>4, <1>5, <2>2
<1>8. Candidate(B) = b
  BY DEF Candidate, m, b
<1>9. /\ m \in Starts(B) /\ m \in Nat /\ m >= 1 /\ m + 1 <= Len(B)
      /\ \A i \in Starts(B) : m <= i
      /\ Candidate(B) \in Seq(Octet) /\ Len(Candidate(B)) = Len(B) - m + 1
      /\ Len(Candidate(B)) >= 2
      /\ Begins(Candidate(B)[1], Candidate(B)[2])
  BY <1>1, <1>2, <1>3, <1>5, <1>7, <1>8
<1> QED
  BY <1>9, Zenon DEF m

(* The last byte is kept when it may be the first of a beginning. *)
Kept(B) == Len(B) > 0 /\ (B[Len(B)] = 165 \/ B[Len(B)] = 255)

LEMMA TrailingIs ==
    ASSUME NEW B \in Seq(Octet)
    PROVE  /\ Trailing(B) \in Seq(Octet)
           /\ Trailing(B) = IF Kept(B) THEN <<B[Len(B)]>> ELSE <<>>
<1>1. B # <<>> <=> Len(B) > 0
  OBVIOUS
<1>2. Trailing(B) = IF Kept(B) THEN <<B[Len(B)]>> ELSE <<>>
  BY <1>1, PatternsAre DEF Trailing, Last, Beginnings, Kept
<1>3. Kept(B) => <<B[Len(B)]>> \in Seq(Octet)
  <2>1. Kept(B) => B[Len(B)] \in Octet
    BY DEF Kept, Octet
  <2> QED
    BY <2>1
<1> QED
  BY <1>2, <1>3

LEMMA HeartbeatIs ==
    ASSUME NEW b \in Seq(Octet), Len(b) >= 5
    PROVE  /\ Raw(SubSeq(b, 1, 5)) \in FrameSet
           /\ From(b, 6) \in Seq(Octet) /\ Len(From(b, 6)) = Len(b) - 5
<1>1. Len(b) \in Nat /\ 5 \in 0..Len(b) /\ 6 \in 1..(Len(b) + 1) /\ Len(b) - 6 + 1 = Len(b) - 5
  OBVIOUS
<1>2. SubSeq(b, 1, 5) \in Seq(Octet) /\ Len(SubSeq(b, 1, 5)) = 5
  BY <1>1, FrontIs
<1>3. From(b, 6) \in Seq(Octet) /\ Len(From(b, 6)) = Len(b) - 5
  BY <1>1, FromIs
<1>4. RAW_UART \in Octet /\ 0 \in Octet
  BY DEF RAW_UART, Octet
<1> HIDE DEF Octet
<1>5. Raw(SubSeq(b, 1, 5)) \in FrameSet
  <2> DEFINE p == SubSeq(b, 1, 5)
  <2>1. p \in Seq(Octet) /\ Len(p) < 65536
    BY <1>2
  <2> HIDE DEF p
  <2>2. [type |-> RAW_UART, channel |-> 0, payload |-> p] \in FrameSet
    BY <1>4, <2>1, FrameIs
  <2> QED
    BY <2>2 DEF Raw, p
<1> QED
  BY <1>3, <1>5

JudgedFine(b, j) ==
    /\ j \in Loop
    /\ j.waiting => j.rest = b /\ j.units = <<>>
    /\ ~j.waiting => Len(j.rest) < Len(b)

LEMMA JudgedType ==
    ASSUME NEW b \in Seq(Octet), Len(b) >= 2
    PROVE  JudgedFine(b, Judged(b))
<1>1. <<>> \in Seq(FrameSet) /\ Len(b) \in Nat
  OBVIOUS
<1>2. CASE b[1] = Tick[1] /\ Len(b) < 5
  <2>1. Judged(b) = Effect(b, <<>>, TRUE)
    BY <1>2 DEF Judged
  <2> QED
    BY <1>1, <2>1 DEF JudgedFine, Effect, Loop
<1>3. CASE b[1] = Tick[1] /\ ~(Len(b) < 5)
  <2> DEFINE u == Raw(SubSeq(b, 1, 5))
             r == From(b, 6)
  <2>1. Judged(b) = Effect(r, <<u>>, FALSE)
    BY <1>3 DEF Judged
  <2>2. Len(b) >= 5
    BY <1>1, <1>3
  <2>3. u \in FrameSet /\ r \in Seq(Octet) /\ Len(r) = Len(b) - 5
    BY <2>2, HeartbeatIs
  <2> HIDE DEF u, r
  <2>4. <<u>> \in Seq(FrameSet) /\ Len(r) < Len(b)
    BY <1>1, <2>3
  <2> QED
    BY <2>1, <2>3, <2>4 DEF JudgedFine, Effect, Loop
<1>4. CASE b[1] # Tick[1] /\ (Len(b) < 8 \/ Len(b) < FrameLength(b))
  <2>1. Judged(b) = Effect(b, <<>>, TRUE)
    BY <1>4 DEF Judged
  <2> QED
    BY <1>1, <2>1 DEF JudgedFine, Effect, Loop
<1>5. CASE b[1] # Tick[1] /\ ~(Len(b) < 8 \/ Len(b) < FrameLength(b))
  <2> DEFINE rest == From(b, FrameLength(b) + 1)
             units == IF Good(b) THEN <<Parsed(b)>> ELSE <<>>
  <2>1. FrameLength(b) \in Nat /\ FrameLength(b) >= 8
    BY <1>1, <1>5, AnnouncedLength
  <2>2. Len(b) >= 7 /\ Len(b) >= FrameLength(b)
    BY <1>1, <1>5, <2>1
  <2>3. Parsed(b) \in FrameSet /\ rest \in Seq(Octet) /\ Len(rest) = Len(b) - FrameLength(b)
    BY <2>2, ParsedIs
  <2>4. units \in Seq(FrameSet)
    <3> DEFINE f == Parsed(b)
    <3> HIDE DEF f
    <3>1. f \in FrameSet => <<f>> \in Seq(FrameSet)
      OBVIOUS
    <3> QED
      BY <1>1, <2>3, <3>1 DEF f
  <2>5. Judged(b) = Effect(rest, units, FALSE)
    BY <1>5, Zenon DEF Judged
  <2> HIDE DEF rest, units
  <2>6. Len(rest) < Len(b)
    BY <1>1, <2>1, <2>3
  <2> QED
    BY <2>3, <2>4, <2>5, <2>6 DEF JudgedFine, Effect, Loop
<1> QED
  BY <1>2, <1>3, <1>4, <1>5

LEMMA StepType ==
    ASSUME NEW B \in Seq(Octet)
    PROVE  /\ Step(B) \in Loop
           /\ Step(B).waiting => Step(B).units = <<>>
           /\ ~Step(B).waiting => Len(Step(B).rest) < Len(B)
<1>1. CASE Starts(B) = {}
  <2>1. Trailing(B) \in Seq(Octet) /\ <<>> \in Seq(FrameSet)
    BY TrailingIs
  <2> QED
    BY <1>1, <2>1 DEF Step, Effect, Loop
<1>2. CASE Starts(B) # {}
  <2> DEFINE b == Candidate(B)
             m == Min(Starts(B))
  <2>1. b \in Seq(Octet) /\ Len(b) >= 2 /\ m \in Nat /\ m >= 1 /\ Len(b) = Len(B) - m + 1
    BY <1>2, CandidateIs
  <2>2. Step(B) = Judged(b)
    BY <1>2 DEF Step
  <2> HIDE DEF b, m
  <2>3. JudgedFine(b, Judged(b))
    BY <2>1, JudgedType
  <2>4. Len(b) <= Len(B)
    BY <2>1
  <2>5. ~Judged(b).waiting => Len(Judged(b).rest) < Len(B)
    <3>1. Judged(b).rest \in Seq(Octet)
      BY <2>3 DEF JudgedFine, Loop
    <3> QED
      BY <2>1, <2>3, <2>4, <3>1 DEF JudgedFine
  <2> QED
    BY <2>2, <2>3, <2>5 DEF JudgedFine
<1> QED
  BY <1>1, <1>2

(* Two fields of the loop's state changed at once. *)
LEMMA RestSet ==
    ASSUME NEW e, NEW R, NEW U, NEW W, NEW x, e = Effect(R, U, W)
    PROVE  [e EXCEPT !.rest = x] = Effect(x, U, W)
<1>1. [Effect(R, U, W) EXCEPT !.rest = x] = Effect(x, U, W)
  BY DEF Effect
<1> QED
  BY <1>1
LEMMA WaitingSet ==
    ASSUME NEW e, NEW R, NEW U, NEW W, NEW x, e = Effect(R, U, W)
    PROVE  [e EXCEPT !.waiting = x] = Effect(R, U, x)
<1>1. [Effect(R, U, W) EXCEPT !.waiting = x] = Effect(R, U, x)
  BY DEF Effect
<1> QED
  BY <1>1
LEMMA UnitsSet ==
    ASSUME NEW e, NEW R, NEW U, NEW W, NEW x, e = Effect(R, U, W)
    PROVE  [e EXCEPT !.units = x] = Effect(R, x, W)
<1>1. [Effect(R, U, W) EXCEPT !.units = x] = Effect(R, x, W)
  BY DEF Effect
<1> QED
  BY <1>1
LEMMA WaitingTwice ==
    ASSUME NEW e, NEW g, NEW h, NEW x, NEW y, [e EXCEPT !.rest = x] = g, [g EXCEPT !.waiting = y] = h
    PROVE  [e EXCEPT !.rest = x, !.waiting = y] = h
<1>1. [e EXCEPT !.rest = x, !.waiting = y] = [[e EXCEPT !.rest = x] EXCEPT !.waiting = y]
  OBVIOUS
<1>2. [[e EXCEPT !.rest = x] EXCEPT !.waiting = y] = [g EXCEPT !.waiting = y]
  OBVIOUS
<1> QED
  BY <1>1, <1>2
LEMMA UnitsTwice ==
    ASSUME NEW e, NEW g, NEW h, NEW x, NEW y, [e EXCEPT !.rest = x] = g, [g EXCEPT !.units = y] = h
    PROVE  [e EXCEPT !.rest = x, !.units = y] = h
<1>1. [e EXCEPT !.rest = x, !.units = y] = [[e EXCEPT !.rest = x] EXCEPT !.units = y]
  OBVIOUS
<1>2. [[e EXCEPT !.rest = x] EXCEPT !.units = y] = [g EXCEPT !.units = y]
  OBVIOUS
<1> QED
  BY <1>1, <1>2
Held(rest, units) == Effect(rest, units, TRUE)
Waited(d, x) == [d EXCEPT !.rest = x, !.waiting = TRUE]
Gained(d, x, u) == [d EXCEPT !.rest = x, !.units = u]
LEMMA WaitedIs ==
    ASSUME NEW d, NEW R, NEW U, NEW W, d = Effect(R, U, W), NEW x
    PROVE  Waited(d, x) = Held(x, U)
<1> DEFINE g == Effect(x, U, W)
           y == TRUE
<1>1. [d EXCEPT !.rest = x] = g
  BY RestSet
<1>2. [g EXCEPT !.waiting = y] = Effect(x, U, y)
  <2> HIDE DEF y
  <2> QED
    BY WaitingSet
<1> HIDE DEF g
<1>4. [d EXCEPT !.rest = x, !.waiting = y] = Effect(x, U, y)
  BY <1>1, <1>2, WaitingTwice
<1> QED
  BY <1>4 DEF Waited, Held
LEMMA GainedIs ==
    ASSUME NEW d, NEW R, NEW U, NEW W, d = Effect(R, U, W), NEW x, NEW u
    PROVE  Gained(d, x, u) = Effect(x, u, W)
<1> DEFINE g == Effect(x, U, W)
<1>1. [d EXCEPT !.rest = x] = g
  BY RestSet
<1>2. [g EXCEPT !.units = u] = Effect(x, u, W)
  BY UnitsSet
<1> HIDE DEF g
<1>4. [d EXCEPT !.rest = x, !.units = u] = Effect(x, u, W)
  BY <1>1, <1>2, UnitsTwice
<1> QED
  BY <1>4 DEF Gained

LEMMA TurnIs ==
    ASSUME NEW d \in Loop
    PROVE  Turn(d) = IF d.waiting THEN d ELSE After(d, Step(d.rest))
<1>1. CASE d.waiting
  BY <1>1 DEF Turn
<1>2. CASE ~d.waiting
  <2> DEFINE B == d.rest
             b == Candidate(B)
             one == Raw(SubSeq(b, 1, 5))
             r == From(b, 6)
             rest == From(b, FrameLength(b) + 1)
             units == IF Good(b) THEN Append(d.units, Parsed(b)) ELSE d.units
  <2>0. d = Effect(B, d.units, d.waiting) /\ d.units \in Seq(FrameSet) /\ B \in Seq(Octet)
    BY DEF Effect, Loop
  <2>1. d.units \o <<>> = d.units
    BY <2>0
  <2>2. Turn(d) =
          IF Starts(B) = {} THEN Effect(Trailing(B), d.units, TRUE)
          ELSE IF b[1] = Tick[1]
          THEN IF Len(b) < 5 THEN Effect(b, d.units, TRUE)
               ELSE Effect(r, Append(d.units, one), FALSE)
          ELSE IF Len(b) < 8 \/ Len(b) < FrameLength(b) THEN Effect(b, d.units, TRUE)
          ELSE Effect(rest, units, FALSE)
    <3>1. Turn(d) =
            IF Starts(B) = {} THEN Waited(d, Trailing(B))
            ELSE IF b[1] = Tick[1]
            THEN IF Len(b) < 5 THEN Waited(d, b)
                 ELSE Gained(d, r, Append(d.units, one))
            ELSE IF Len(b) < 8 \/ Len(b) < FrameLength(b) THEN Waited(d, b)
            ELSE Gained(d, rest, units)
      BY <1>2, Zenon DEF Turn, Starts, Candidate, Waited, Gained
    <3> DEFINE U == d.units
               W == FALSE
    <3>2. d = Effect(B, U, W)
      BY <1>2, <2>0 DEF Loop
    <3> HIDE DEF U, W
    <3>3. ASSUME NEW x PROVE Waited(d, x) = Held(x, U)
      BY <3>2, WaitedIs
    <3>4. ASSUME NEW x, NEW u PROVE Gained(d, x, u) = Effect(x, u, W)
      BY <3>2, GainedIs
    <3> HIDE DEF B, b, one, r, rest, units
    <3> QED
      BY <3>1, <3>3, <3>4, Zenon DEF U, W, Held
  <2>3. CASE Starts(B) = {}
    BY <1>2, <2>1, <2>2, <2>3 DEF Step, After, Effect
  <2>4. CASE Starts(B) # {}
    <3>1. Step(B) = Judged(b)
      BY <2>4 DEF Step
    <3>2. Append(d.units, one) = d.units \o <<one>>
      <4> HIDE DEF one
      <4> QED
        BY <2>0
    <3>3. units = d.units \o (IF Good(b) THEN <<Parsed(b)>> ELSE <<>>)
      <4> DEFINE f == Parsed(b)
      <4>1. Append(d.units, f) = d.units \o <<f>>
        <5> HIDE DEF f
        <5> QED
          BY <2>0
      <4> QED
        BY <2>1, <4>1
    <3> HIDE DEF b, units
    <3>4. Turn(d) = After(d, Judged(b))
      <4>2. CASE b[1] = Tick[1] /\ Len(b) < 5
        <5>1. Judged(b) = Effect(b, <<>>, TRUE) /\ Turn(d) = Effect(b, d.units, TRUE)
          BY <2>2, <2>4, <4>2, Zenon DEF Judged
        <5> QED
          BY <2>1, <5>1 DEF After, Effect
      <4>3. CASE b[1] = Tick[1] /\ ~(Len(b) < 5)
        <5>1. Judged(b) = Effect(r, <<one>>, FALSE) /\ Turn(d) = Effect(r, d.units \o <<one>>, FALSE)
          BY <2>2, <2>4, <3>2, <4>3, Zenon DEF Judged
        <5> HIDE DEF r, one
        <5> QED
          BY <5>1 DEF After, Effect
      <4>4. CASE b[1] # Tick[1] /\ (Len(b) < 8 \/ Len(b) < FrameLength(b))
        <5>1. Judged(b) = Effect(b, <<>>, TRUE) /\ Turn(d) = Effect(b, d.units, TRUE)
          BY <2>2, <2>4, <4>4, Zenon DEF Judged
        <5> QED
          BY <2>1, <5>1 DEF After, Effect
      <4>5. CASE b[1] # Tick[1] /\ ~(Len(b) < 8 \/ Len(b) < FrameLength(b))
        <5> DEFINE g == IF Good(b) THEN <<Parsed(b)>> ELSE <<>>
        <5>1. Judged(b) = Effect(rest, g, FALSE) /\ Turn(d) = Effect(rest, d.units \o g, FALSE)
          BY <2>2, <2>4, <3>3, <4>5, Zenon DEF Judged
        <5> HIDE DEF rest, g
        <5> QED
          BY <5>1 DEF After, Effect
      <4> QED
        BY <4>2, <4>3, <4>4, <4>5
    <3> QED
      BY <1>2, <3>1, <3>4
  <2> QED
    BY <2>3, <2>4
<1> QED
  BY <1>1, <1>2

-----------------------------------------------------------------------------
(* More bytes behind a candidate change nothing that has been decided. *)
LEMMA GoodMore ==
    ASSUME NEW b \in Seq(Octet), NEW y \in Seq(Octet), Len(b) >= 7, Len(b) >= FrameLength(b)
    PROVE  /\ FrameLength(b \o y) = FrameLength(b) /\ FrameLength(b) \in Nat
           /\ Good(b \o y) <=> Good(b)
           /\ Parsed(b \o y) = Parsed(b)
           /\ From(b \o y, FrameLength(b) + 1) = From(b, FrameLength(b) + 1) \o y
<1> DEFINE c == b \o y
           n == FrameLength(b)
<1>1. HeadSame(b, c)
  BY HeadMore
<1>2. n \in Nat /\ n >= 8 /\ FrameLength(c) = n /\ Len(b) >= n /\ Len(b) \in Nat /\ Len(y) \in Nat
      /\ c[3] = b[3] /\ c[4] = b[4] /\ c[5] = b[5]
  BY <1>1 DEF HeadSame
<1> HIDE DEF n
<1>3. Len(c) = Len(b) + Len(y) /\ \A k \in 1..Len(b) : c[k] = b[k]
  BY JoinIs
<1>4. c[n] = b[n]
  BY <1>2, <1>3
<1>5. SubSeq(c, 3, n - 1) = SubSeq(b, 3, n - 1)
  <2>1. 3 \in 1..(Len(b) + 1) /\ n - 1 \in (3 - 1)..Len(b)
    BY <1>2
  <2> QED
    BY <2>1, PartJoined
<1>6. SubSeq(c, 8, n - 1) = SubSeq(b, 8, n - 1)
  <2>1. 8 \in 1..(Len(b) + 1) /\ n - 1 \in (8 - 1)..Len(b)
    BY <1>2
  <2> QED
    BY <2>1, PartJoined
<1>7. From(c, n + 1) = From(b, n + 1) \o y
  <2>1. n + 1 \in 1..(Len(b) + 1)
    BY <1>2
  <2> QED
    BY <2>1, FromJoined
<1> HIDE DEF c
<1>8. Good(c) <=> Good(b)
  BY <1>2, <1>4, <1>5, Zenon DEF Good, n
<1>9. Parsed(c) = Parsed(b)
  BY <1>2, <1>6, Zenon DEF Parsed, n
<1> QED
  BY <1>2, <1>7, <1>8, <1>9 DEF c, n

LEMMA JudgedMore ==
    ASSUME NEW b \in Seq(Octet), NEW y \in Seq(Octet), Len(b) >= 2, ~Judged(b).waiting
    PROVE  Judged(b \o y) = Effect(Judged(b).rest \o y, Judged(b).units, FALSE)
<1> DEFINE c == b \o y
<1>1. Len(b) \in Nat /\ Len(y) \in Nat /\ c \in Seq(Octet) /\ Len(c) = Len(b) + Len(y)
      /\ \A k \in 1..Len(b) : c[k] = b[k]
  BY JoinIs
<1> HIDE DEF c
<1>2. c[1] = b[1]
  <2>1. 1 \in 1..Len(b)
    BY <1>1
  <2> QED
    BY <1>1, <2>1
<1>3. CASE b[1] = Tick[1]
  <2> DEFINE r == From(b, 6)
             u == Raw(SubSeq(b, 1, 5))
  <2>1. ~(Len(b) < 5)
    BY <1>3 DEF Judged, Effect
  <2>2. ~(Len(c) < 5) /\ 6 \in 1..(Len(b) + 1) /\ 5 \in 0..Len(b)
    BY <1>1, <2>1
  <2>3. From(c, 6) = r \o y
    BY <2>2, FromJoined DEF c
  <2>4. SubSeq(c, 1, 5) = SubSeq(b, 1, 5)
    BY <2>2, FrontJoined DEF c
  <2>5. Judged(c) = Effect(r \o y, <<u>>, FALSE)
    BY <1>2, <1>3, <2>2, <2>3, <2>4, Zenon DEF Judged
  <2>6. Judged(b) = Effect(r, <<u>>, FALSE)
    BY <1>3, <2>1, Zenon DEF Judged
  <2> HIDE DEF r, u
  <2> QED
    BY <2>5, <2>6 DEF Effect, c
<1>4. CASE b[1] # Tick[1]
  <2> DEFINE n == FrameLength(b)
             r == From(b, n + 1)
             u == IF Good(b) THEN <<Parsed(b)>> ELSE <<>>
  <2>1. ~(Len(b) < 8 \/ Len(b) < n)
    BY <1>4 DEF Judged, Effect
  <2>2. Len(b) >= 7
    BY <1>1, <2>1
  <2>3. n \in Nat
    BY <2>2, AnnouncedLength
  <2>4. Len(b) >= n
    BY <1>1, <2>1, <2>3
  <2>5. FrameLength(c) = n /\ (Good(c) <=> Good(b)) /\ Parsed(c) = Parsed(b)
        /\ From(c, n + 1) = r \o y
    BY <2>2, <2>4, GoodMore DEF c
  <2>6. ~(Len(c) < 8 \/ Len(c) < n)
    <3> HIDE DEF n
    <3> QED
      BY <1>1, <2>1, <2>3
  <2>7. Judged(c) = Effect(r \o y, u, FALSE)
    <3>1. Judged(c) = Effect(From(c, FrameLength(c) + 1), IF Good(c) THEN <<Parsed(c)>> ELSE <<>>, FALSE)
      BY <1>2, <1>4, <2>5, <2>6, Zenon DEF Judged
    <3>2. (IF Good(c) THEN <<Parsed(c)>> ELSE <<>>) = u
      BY <2>5
    <3> QED
      BY <2>5, <3>1, <3>2, Zenon
  <2>8. Judged(b) = Effect(r, u, FALSE)
    BY <1>4, <2>1, Zenon DEF Judged
  <2> HIDE DEF r, u
  <2> QED
    BY <2>7, <2>8 DEF Effect, c
<1> QED
  BY <1>3, <1>4

LEMMA StartsMore ==
    ASSUME NEW B \in Seq(Octet), NEW y \in Seq(Octet)
    PROVE  \A i \in Nat : i + 2 - 1 <= Len(B) => (i \in Starts(B \o y) <=> i \in Starts(B))
<1>1. \A i \in Nat : i + 2 - 1 <= Len(B) => (i \in FirstAt(B \o y, Sync) <=> i \in FirstAt(B, Sync))
  BY PatternsAre, FirstAtJoined, Zenon
<1>2. \A i \in Nat : i + 2 - 1 <= Len(B) => (i \in FirstAt(B \o y, Tick) <=> i \in FirstAt(B, Tick))
  BY PatternsAre, FirstAtJoined, Zenon
<1> QED
  BY <1>1, <1>2, Zenon DEF Starts

LEMMA StartsBehind ==
    ASSUME NEW x \in Seq(Octet), NEW w \in Seq(Octet)
    PROVE  \A j \in Nat : j >= 1 => (Len(x) + j \in Starts(x \o w) <=> j \in Starts(w))
<1>1. \A j \in Nat : j >= 1 => (Len(x) + j \in FirstAt(x \o w, Sync) <=> j \in FirstAt(w, Sync))
  BY PatternsAre, FirstAtJoined, Zenon
<1>2. \A j \in Nat : j >= 1 => (Len(x) + j \in FirstAt(x \o w, Tick) <=> j \in FirstAt(w, Tick))
  BY PatternsAre, FirstAtJoined, Zenon
<1> QED
  BY <1>1, <1>2, Zenon DEF Starts

(* The candidate is the same one with more bytes behind it. *)
LEMMA CandidateMore ==
    ASSUME NEW B \in Seq(Octet), NEW y \in Seq(Octet), Starts(B) # {}
    PROVE  Starts(B \o y) # {} /\ Candidate(B \o y) = Candidate(B) \o y
<1> DEFINE m == Min(Starts(B))
           C == B \o y
<1>1. m \in Starts(B) /\ m \in Nat /\ m >= 1 /\ m + 1 <= Len(B) /\ \A i \in Starts(B) : m <= i
  BY CandidateIs
<1>2. \A i \in Nat : i + 2 - 1 <= Len(B) => (i \in Starts(C) <=> i \in Starts(B))
  BY StartsMore
<1>3. C \in Seq(Octet) /\ Len(B) \in Nat
  BY JoinIs
<1>4. Starts(C) \subseteq Nat
  BY <1>3, StartsRange
<1> HIDE DEF m, C
<1>5. m \in Starts(C)
  <2>1. m + 2 - 1 <= Len(B)
    BY <1>1, <1>3
  <2> QED
    BY <1>1, <1>2, <2>1
<1>6. ASSUME NEW i \in Starts(C) PROVE m <= i
  <2>1. CASE i + 2 - 1 <= Len(B)
    BY <1>1, <1>2, <1>4, <2>1
  <2>2. CASE ~(i + 2 - 1 <= Len(B))
    BY <1>1, <1>3, <1>4, <2>2
  <2> QED
    BY <2>1, <2>2
<1>7. Min(Starts(C)) = m
  BY <1>4, <1>5, <1>6, FirstOf
<1>8. From(C, m) = From(B, m) \o y
  <2>1. m \in 1..(Len(B) + 1)
    BY <1>1, <1>3
  <2> QED
    BY <2>1, FromJoined DEF C
<1> QED
  BY <1>5, <1>7, <1>8 DEF Candidate, m, C

(* Bytes in front in which no candidate begins are passed by. *)
LEMMA StepPasses ==
    ASSUME NEW x \in Seq(Octet), NEW w \in Seq(Octet),
           \A i \in Starts(x \o w) : i > Len(x),
           w = <<>> => Trailing(x) = <<>>
    PROVE  Step(x \o w) = Step(w)
<1> DEFINE C == x \o w
<1>1. /\ C \in Seq(Octet) /\ Len(C) = Len(x) + Len(w) /\ Len(x) \in Nat /\ Len(w) \in Nat
      /\ \A k \in 1..Len(w) : C[Len(x) + k] = w[k]
  BY JoinIs
<1>2. \A j \in Nat : j >= 1 => (Len(x) + j \in Starts(C) <=> j \in Starts(w))
  BY StartsBehind
<1>3. Starts(C) \subseteq Nat /\ Starts(w) \subseteq Nat
  BY <1>1, StartsRange
<1>4. \A i \in Starts(C) : i > Len(x)
  OBVIOUS
<1>5. CASE Starts(w) = {}
  <2>1. Starts(C) = {}
    <3>1. ASSUME NEW i \in Starts(C) PROVE FALSE
      <4> HIDE DEF C
      <4>1. i \in Nat /\ i > Len(x)
        BY <1>3, <1>4
      <4>2. i - Len(x) \in Nat /\ i - Len(x) >= 1 /\ Len(x) + (i - Len(x)) = i
        BY <1>1, <4>1
      <4> QED
        BY <1>2, <1>5, <4>2
    <3> QED
      BY <3>1
  <2>2. Trailing(C) = Trailing(w)
    <3>1. CASE w = <<>>
      <4>1. C = x
        BY <3>1, ConcatEmpty
      <4>2. Trailing(w) = <<>>
        BY <3>1 DEF Trailing
      <4> QED
        BY <3>1, <4>1, <4>2
    <3>2. CASE w # <<>>
      <4>1. Len(w) > 0 /\ Len(w) \in 1..Len(w)
        BY <3>2
      <4> HIDE DEF C
      <4>2. C[Len(C)] = w[Len(w)] /\ Len(C) > 0
        BY <1>1, <4>1
      <4>3. Trailing(C) = IF Kept(C) THEN <<C[Len(C)]>> ELSE <<>>
        BY <1>1, TrailingIs
      <4>4. Trailing(w) = IF Kept(w) THEN <<w[Len(w)]>> ELSE <<>>
        BY TrailingIs
      <4>5. Kept(C) <=> Kept(w)
        BY <4>1, <4>2 DEF Kept
      <4> QED
        BY <4>2, <4>3, <4>4, <4>5
    <3> QED
      BY <3>1, <3>2
  <2> HIDE DEF C
  <2>3. Step(C) = Step(w)
    BY <1>5, <2>1, <2>2 DEF Step
  <2> QED
    BY <2>3 DEF C
<1>6. CASE Starts(w) # {}
  <2> DEFINE m == Min(Starts(w))
  <2>1. m \in Starts(w) /\ m \in Nat /\ m >= 1 /\ m + 1 <= Len(w) /\ \A i \in Starts(w) : m <= i
    BY <1>6, CandidateIs
  <2> HIDE DEF m, C
  <2>2. Len(x) + m \in Starts(C)
    BY <1>2, <2>1
  <2>3. ASSUME NEW i \in Starts(C) PROVE Len(x) + m <= i
    <3>1. i \in Nat /\ i > Len(x)
      BY <1>3, <1>4 DEF C
    <3>2. i - Len(x) \in Nat /\ i - Len(x) >= 1 /\ Len(x) + (i - Len(x)) = i
      BY <1>1, <3>1
    <3>3. i - Len(x) \in Starts(w)
      BY <1>2, <3>2
    <3> QED
      BY <1>1, <2>1, <3>1, <3>3
  <2>4. Min(Starts(C)) = Len(x) + m
    BY <1>3, <2>2, <2>3, FirstOf
  <2>5. From(C, Len(x) + m) = From(w, m)
    <3>1. m \in 1..(Len(w) + 1)
      BY <1>1, <2>1
    <3> QED
      BY <3>1, FromBeyond DEF C
  <2>6. Candidate(C) = Candidate(w)
    BY <2>4, <2>5 DEF Candidate, m
  <2>7. Step(C) = Step(w)
    BY <1>6, <2>2, <2>6 DEF Step
  <2> QED
    BY <2>7 DEF C
<1> QED
  BY <1>5, <1>6

(* A turn that does not wait is the same with more bytes behind, and one that
   waits leaves what decides the next turn. *)
LEMMA StepMore ==
    ASSUME NEW B \in Seq(Octet), NEW y \in Seq(Octet), ~Step(B).waiting
    PROVE  Step(B \o y) = Effect(Step(B).rest \o y, Step(B).units, FALSE)
<1> DEFINE b == Candidate(B)
<1>1. Starts(B) # {}
  BY DEF Step, Effect
<1>2. Step(B) = Judged(b)
  BY <1>1 DEF Step
<1>3. b \in Seq(Octet) /\ Len(b) >= 2
  BY <1>1, CandidateIs
<1>4. Step(B \o y) = Judged(b \o y)
  BY <1>1, CandidateMore DEF Step
<1> HIDE DEF b
<1> QED
  BY <1>2, <1>3, <1>4, JudgedMore

LEMMA StepSettled ==
    ASSUME NEW B \in Seq(Octet), NEW y \in Seq(Octet), Step(B).waiting
    PROVE  Step(Step(B).rest \o y) = Step(B \o y)
<1>1. CASE Starts(B) = {}
  <2> DEFINE t == Trailing(B)
             n == Len(B) - Len(t)
             x == SubSeq(B, 1, n)
             w == t \o y
  <2>1. Step(B).rest = t
    BY <1>1 DEF Step, Effect
  <2>2. t \in Seq(Octet) /\ t = IF Kept(B) THEN <<B[Len(B)]>> ELSE <<>>
    BY TrailingIs
  <2>3. Len(t) \in Nat /\ Len(B) \in Nat /\ n \in 0..Len(B) /\ Len(t) <= 1
        /\ (Len(t) = 1 => Len(B) > 0 /\ t[1] = B[Len(B)])
    <3> HIDE DEF t
    <3>1. CASE Kept(B)
      <4> DEFINE last == B[Len(B)]
      <4>1. t = <<last>> /\ Len(B) > 0
        BY <2>2, <3>1 DEF Kept
      <4> HIDE DEF last
      <4>2. Len(t) = 1 /\ t[1] = last
        BY <4>1
      <4> QED
        BY <4>1, <4>2 DEF last
    <3>2. CASE ~Kept(B)
      <4>1. t = <<>> /\ Len(t) = 0
        BY <2>2, <3>2
      <4> QED
        BY <4>1
    <3> QED
      BY <3>1, <3>2
  <2> HIDE DEF t
  <2>4. x \in Seq(Octet) /\ Len(x) = n /\ \A k \in 1..n : x[k] = B[k]
    BY <2>3, FrontIs
  <2>5. B = x \o t
    <3> DEFINE z == From(B, n + 1)
    <3>1. B = x \o z
      BY <2>3, CutJoined
    <3>2. n + 1 \in 1..(Len(B) + 1)
      BY <2>3
    <3>3. z \in Seq(Octet) /\ Len(z) = Len(B) - (n + 1) + 1
          /\ \A k \in 1..(Len(B) - (n + 1) + 1) : z[k] = B[n + 1 + k - 1]
      BY <3>2, FromIs
    <3> HIDE DEF x, z
    <3>4. Len(z) = Len(t)
      BY <2>3, <3>3
    <3>5. ASSUME NEW k \in 1..Len(z) PROVE z[k] = t[k]
      <4>1. k = 1 /\ Len(t) = 1
        BY <2>3, <3>4
      <4>2. z[1] = B[n + 1 + 1 - 1] /\ n + 1 + 1 - 1 = Len(B)
        BY <2>3, <3>3, <3>4, <4>1
      <4> QED
        BY <2>3, <4>1, <4>2
    <3>6. z = t
      BY <2>2, <3>3, <3>4, <3>5, SeqEqual
    <3> QED
      BY <3>1, <3>6
  <2>6. w \in Seq(Octet) /\ B \o y = x \o w
    <3> HIDE DEF x
    <3>0. t \in Seq(Octet) /\ x \in Seq(Octet) /\ y \in Seq(Octet)
      BY <2>2, <2>4
    <3>1. Associated(x, t, y)
      BY <3>0, Associates
    <3> QED
      BY <2>2, <2>5, <3>1, JoinIs DEF Associated
  <2>7. ASSUME NEW i \in Starts(x \o w) PROVE i > Len(x)
    <3> DEFINE C == B \o y
    <3>1. C \in Seq(Octet) /\ \A k \in 1..Len(B) : C[k] = B[k]
      BY JoinIs
    <3>2. i \in Starts(C) /\ i \in Nat
      BY <2>6, <3>1, StartsRange
    <3>3. \A k \in Nat : k + 2 - 1 <= Len(B) => (k \in Starts(C) <=> k \in Starts(B))
      BY StartsMore
    <3> HIDE DEF C
    <3>4. i >= 1 /\ (C[i] = 165 \/ C[i] = 255)
      BY <3>1, <3>2, StartAt DEF Begins
    <3>5. ~(i + 2 - 1 <= Len(B))
      BY <1>1, <3>2, <3>3
    <3>6. i >= Len(B)
      BY <2>3, <3>2, <3>5
    <3>7. SUFFICES ASSUME i <= n PROVE FALSE
      BY <2>3, <2>4, <3>2
    <3>8. i = Len(B) /\ Len(t) = 0
      BY <2>3, <3>2, <3>6, <3>7
    <3>9. i \in 1..Len(B)
      BY <2>3, <3>2, <3>4, <3>8
    <3>10. Kept(B)
      BY <2>3, <3>1, <3>4, <3>8, <3>9 DEF Kept
    <3> QED
      BY <2>2, <3>8, <3>10
  <2>8. ASSUME w = <<>> PROVE Trailing(x) = <<>>
    <3>1. Len(w) = Len(t) + Len(y) /\ Len(y) \in Nat
      BY <2>2, JoinIs
    <3>2. Len(t) = 0
      <4> HIDE DEF w
      <4> QED
        BY <2>3, <2>8, <3>1
    <3>3. n = Len(B) /\ Trailing(x) = IF Kept(x) THEN <<x[Len(x)]>> ELSE <<>>
      <4> HIDE DEF x
      <4> QED
        BY <2>3, <2>4, <3>2, TrailingIs
    <3> HIDE DEF x
    <3>4. Len(x) > 0 => x[Len(x)] = B[Len(B)]
      BY <2>3, <2>4, <3>3
    <3>5. ~Kept(B)
      BY <2>2, <3>2
    <3>6. ~Kept(x)
      BY <2>3, <2>4, <3>3, <3>4, <3>5 DEF Kept
    <3> QED
      BY <3>3, <3>6
  <2> HIDE DEF x, w
  <2>9. Step(x \o w) = Step(w)
    BY <2>4, <2>6, <2>7, <2>8, StepPasses
  <2> QED
    BY <2>1, <2>6, <2>9 DEF w
<1>2. CASE Starts(B) # {}
  <2> DEFINE b == Candidate(B)
  <2>1. Step(B) = Judged(b)
    BY <1>2 DEF Step
  <2>2. b \in Seq(Octet) /\ Len(b) >= 2 /\ Begins(b[1], b[2])
    BY <1>2, CandidateIs
  <2>3. Step(B).rest = b
    <3> HIDE DEF b
    <3>1. Judged(b).waiting
      BY <2>1
    <3> QED
      BY <2>1, <2>2, <3>1, JudgedType DEF JudgedFine
  <2>4. Step(B \o y) = Judged(b \o y)
    BY <1>2, CandidateMore DEF Step
  <2> HIDE DEF b
  <2>5. 1 \in Starts(b)
    BY <2>2, StartAt
  <2>6. Candidate(b) = b
    <3>1. Starts(b) \subseteq Nat
      BY <2>2, StartsRange
    <3>2. ASSUME NEW i \in Starts(b) PROVE 1 <= i
      BY <2>2, <3>1, StartAt
    <3>3. Min(Starts(b)) = 1
      BY <2>5, <3>1, <3>2, FirstOf
    <3>4. From(b, 1) = b
      BY <2>2, FromFirst
    <3> QED
      BY <3>3, <3>4 DEF Candidate
  <2>7. Step(b \o y) = Judged(b \o y)
    <3>1. Starts(b) # {}
      BY <2>5
    <3>2. Starts(b \o y) # {} /\ Candidate(b \o y) = b \o y
      BY <2>2, <2>6, <3>1, CandidateMore
    <3> QED
      BY <3>2 DEF Step
  <2> QED
    BY <2>3, <2>4, <2>7
<1> QED
  BY <1>1, <1>2
-----------------------------------------------------------------------------
(* The whole loop from any state of it: Decode is what it makes of bytes with
   no units before. *)
Scan(d) ==
    LET turns == Len(d.rest) + 1
        after[n \in 0..turns] == IF n = 0 THEN d ELSE Turn(after[n - 1])
    IN  after[turns]
turn == [d \in Loop |-> Turn(d)]
size == [d \in Loop |-> Len(d.rest)]
Still == {d \in Loop : d.waiting}

LEMMA AfterType ==
    ASSUME NEW d \in Loop, NEW e \in Loop
    PROVE  /\ After(d, e) \in Loop /\ After(d, e).rest = e.rest
           /\ After(d, e).waiting = e.waiting
<1>1. d.units \o e.units \in Seq(FrameSet)
  BY DEF Loop
<1> QED
  BY <1>1 DEF After, Effect, Loop

LEMMA TurnType ==
    ASSUME NEW d \in Loop
    PROVE  Turn(d) \in Loop /\ (Turn(d).waiting \/ Len(Turn(d).rest) < Len(d.rest))
<1>1. CASE d.waiting
  BY <1>1, TurnIs
<1>2. CASE ~d.waiting
  <2> DEFINE s == Step(d.rest)
  <2>1. d.rest \in Seq(Octet)
    BY DEF Loop
  <2>2. s \in Loop /\ (~s.waiting => Len(s.rest) < Len(d.rest))
    BY <2>1, StepType
  <2>3. Turn(d) = After(d, s)
    BY <1>2, TurnIs
  <2> HIDE DEF s
  <2>4. /\ After(d, s) \in Loop /\ After(d, s).rest = s.rest
        /\ After(d, s).waiting = s.waiting
    BY <2>2, AfterType
  <2> QED
    BY <2>2, <2>3, <2>4
<1> QED
  BY <1>1, <1>2

LEMMA LoopEnds == Ending(Loop, Still, turn, size)
<1>1. turn \in [Loop -> Loop]
  BY TurnType DEF turn
<1>2. size \in [Loop -> Nat]
  BY DEF size, Loop
<1>3. Still \subseteq Loop
  BY DEF Still
<1>4. ASSUME NEW e \in Still PROVE turn[e] = e
  BY TurnIs DEF turn, Still
<1>5. ASSUME NEW e \in Loop PROVE turn[e] \in Still \/ size[turn[e]] < size[e]
  <2>1. turn[e] = Turn(e) /\ turn[e] \in Loop
    BY <1>1 DEF turn
  <2>2. size[turn[e]] = Len(Turn(e).rest) /\ size[e] = Len(e.rest)
    BY <2>1 DEF size
  <2> QED
    BY <2>1, <2>2, TurnType DEF Still
<1> QED
  BY <1>1, <1>2, <1>3, <1>4, <1>5 DEF Ending

Turns(f, d, n) == f = [i \in 0..n |-> IF i = 0 THEN d ELSE Turn(f[i - 1])]

LEMMA OrbitTurns ==
    ASSUME NEW d \in Loop, NEW n \in Nat, NEW f, Orbit(Loop, turn, d, n, f)
    PROVE  Turns(f, d, n)
<1>1. /\ f \in [0..n -> Loop] /\ f[0] = d
      /\ \A i \in 0..(n - 1) : f[i + 1] = turn[f[i]]
  BY DEF Orbit
<1> DEFINE h == [i \in 0..n |-> IF i = 0 THEN d ELSE Turn(f[i - 1])]
<1>2. ASSUME NEW i \in 0..n PROVE f[i] = h[i]
  <2>1. CASE i = 0
    BY <1>1, <2>1
  <2>2. CASE i # 0
    <3>1. i - 1 \in 0..(n - 1) /\ i - 1 \in 0..n /\ (i - 1) + 1 = i
      BY <2>2
    <3>2. f[i] = turn[f[i - 1]] /\ f[i - 1] \in Loop
      BY <1>1, <3>1
    <3>3. f[i] = Turn(f[i - 1])
      BY <3>2 DEF turn
    <3> QED
      BY <2>2, <3>3
  <2> QED
    BY <2>1, <2>2
<1>3. DOMAIN f = 0..n /\ DOMAIN h = 0..n
  BY <1>1
<1>4. f = h
  <2>1. f = [i \in 0..n |-> f[i]]
    BY <1>1
  <2>2. h = [i \in 0..n |-> h[i]]
    OBVIOUS
  <2> HIDE DEF h
  <2> QED
    BY <1>2, <2>1, <2>2
<1> QED
  BY <1>4 DEF Turns

LEMMA TurnsOrbit ==
    ASSUME NEW d \in Loop, NEW n \in Nat, NEW f, Turns(f, d, n)
    PROVE  Orbit(Loop, turn, d, n, f)
<1> DEFINE S == {i \in Nat : i <= n => f[i] \in Loop}
<1>1. \A i \in 0..n : f[i] = IF i = 0 THEN d ELSE Turn(f[i - 1])
  <2> DEFINE h == [i \in 0..n |-> IF i = 0 THEN d ELSE Turn(f[i - 1])]
  <2>1. \A i \in 0..n : h[i] = IF i = 0 THEN d ELSE Turn(f[i - 1])
    OBVIOUS
  <2>2. f = h
    BY DEF Turns
  <2> HIDE DEF h
  <2> QED
    BY <2>1, <2>2
<1>2. 0 \in S
  BY <1>1
<1>3. ASSUME NEW i \in S PROVE i + 1 \in S
  <2>1. SUFFICES ASSUME i + 1 <= n PROVE f[i + 1] \in Loop
    OBVIOUS
  <2>2. i + 1 \in 0..n /\ i + 1 # 0 /\ (i + 1) - 1 = i /\ i <= n
    BY <2>1
  <2>3. f[i + 1] = Turn(f[i])
    BY <1>1, <2>2
  <2>4. f[i] \in Loop
    BY <2>2
  <2> QED
    BY <2>3, <2>4, TurnType
<1>4. S \subseteq Nat
  OBVIOUS
<1> HIDE DEF S
<1>5. S = Nat
  BY <1>2, <1>3, <1>4, SetInduction
<1>6. \A i \in 0..n : f[i] \in Loop
  BY <1>5 DEF S
<1>7. f \in [0..n -> Loop]
  <2>1. f = [i \in 0..n |-> IF i = 0 THEN d ELSE Turn(f[i - 1])]
    BY DEF Turns
  <2>2. f = [i \in 0..n |-> f[i]]
    BY <2>1
  <2> QED
    BY <1>6, <2>2
<1>8. ASSUME NEW i \in 0..(n - 1) PROVE f[i + 1] = turn[f[i]]
  <2>1. i + 1 \in 0..n /\ i + 1 # 0 /\ (i + 1) - 1 = i /\ i \in 0..n
    OBVIOUS
  <2>2. f[i + 1] = Turn(f[i])
    BY <1>1, <2>1
  <2> QED
    BY <1>6, <2>1, <2>2 DEF turn
<1>9. f[0] = d
  BY <1>1
<1> QED
  BY <1>7, <1>8, <1>9 DEF Orbit

LEMMA ScanIs ==
    ASSUME NEW d \in Loop
    PROVE  \E f : Orbit(Loop, turn, d, size[d] + 1, f) /\ Scan(d) = f[size[d] + 1]
<1> DEFINE n == Len(d.rest) + 1
           F == CHOOSE g : g = [i \in 0..n |-> IF i = 0 THEN d ELSE Turn(g[i - 1])]
<1>1. Scan(d) = F[n]
  BY DEF Scan
<1>2. n \in Nat /\ size[d] + 1 = n
  BY DEF size, Loop
<1>3. \E g : Turns(g, d, n)
  <2>1. turn \in [Loop -> Loop]
    BY LoopEnds DEF Ending
  <2> HIDE DEF n
  <2>2. \E g : Orbit(Loop, turn, d, n, g)
    BY <1>2, <2>1, OrbitExists
  <2> QED
    BY <1>2, <2>2, OrbitTurns
<1> HIDE DEF n
<1>4. F = [i \in 0..n |-> IF i = 0 THEN d ELSE Turn(F[i - 1])]
  BY <1>3 DEF Turns
<1> HIDE DEF F
<1>5. Turns(F, d, n)
  BY <1>4 DEF Turns
<1>6. Orbit(Loop, turn, d, n, F)
  BY <1>2, <1>5, TurnsOrbit
<1> QED
  BY <1>1, <1>2, <1>6

(* What the loop does: it ends waiting, does nothing when it waits, and may be
   looked at one turn later. *)
LEMMA ScanTurns ==
    ASSUME NEW d \in Loop
    PROVE  /\ Scan(d) \in Loop /\ Scan(d).waiting
           /\ d.waiting => Scan(d) = d
           /\ Scan(Turn(d)) = Scan(d)
<1>1. PICK f : Orbit(Loop, turn, d, size[d] + 1, f) /\ Scan(d) = f[size[d] + 1]
  BY ScanIs
<1>2. turn[d] \in Loop /\ turn[d] = Turn(d)
  BY TurnType DEF turn
<1>3. PICK g : Orbit(Loop, turn, turn[d], size[turn[d]] + 1, g)
               /\ Scan(turn[d]) = g[size[turn[d]] + 1]
  BY <1>2, ScanIs
<1>4. turn \in [Loop -> Loop]
  BY LoopEnds DEF Ending
<1>5. f[size[d] + 1] \in Still
  BY <1>1, <1>4, LoopEnds, OrbitSettles
<1>6. /\ f[size[d] + 1] = g[size[turn[d]] + 1]
      /\ d \in Still => f[size[d] + 1] = d
  BY <1>1, <1>3, LoopEnds, OrbitEnds
<1> QED
  BY <1>1, <1>2, <1>3, <1>5, <1>6 DEF Still

(* What was made out before goes in front of what the loop makes out. *)
Plus(U, d) == Effect(d.rest, U \o d.units, d.waiting)

LEMMA PlusType ==
    ASSUME NEW U \in Seq(FrameSet), NEW d \in Loop
    PROVE  /\ Plus(U, d) \in Loop /\ Plus(U, d).rest = d.rest
           /\ Plus(U, d).waiting = d.waiting
           /\ Plus(U, d).units = U \o d.units
<1>1. U \o d.units \in Seq(FrameSet)
  BY DEF Loop
<1> QED
  BY <1>1 DEF Plus, Effect, Loop

LEMMA TurnPlus ==
    ASSUME NEW U \in Seq(FrameSet), NEW d \in Loop
    PROVE  Turn(Plus(U, d)) = Plus(U, Turn(d))
<1> DEFINE p == Plus(U, d)
<1>1. /\ p \in Loop /\ p.rest = d.rest /\ p.waiting = d.waiting
      /\ p.units = U \o d.units
  BY PlusType
<1> HIDE DEF p
<1>2. CASE d.waiting
  BY <1>1, <1>2, TurnIs DEF p
<1>3. CASE ~d.waiting
  <2> DEFINE s == Step(d.rest)
  <2>1. s \in Loop /\ d.units \in Seq(FrameSet)
    BY StepType DEF Loop
  <2>2. Turn(p) = After(p, s) /\ Turn(d) = After(d, s)
    BY <1>1, <1>3, TurnIs
  <2> HIDE DEF s
  <2>3. s.units \in Seq(FrameSet)
    BY <2>1 DEF Loop
  <2>4. Associated(U, d.units, s.units)
    BY <2>1, <2>3, Associates
  <2> DEFINE g == U \o (d.units \o s.units)
  <2>6. After(p, s) = Effect(s.rest, g, s.waiting)
    BY <1>1, <2>4 DEF After, Associated
  <2>7. Plus(U, After(d, s)) = Effect(s.rest, g, s.waiting)
    <3> DEFINE a == After(d, s)
    <3>1. a.rest = s.rest /\ a.units = d.units \o s.units
          /\ a.waiting = s.waiting
      BY DEF After, Effect
    <3> HIDE DEF a
    <3>2. Plus(U, a) = Effect(s.rest, g, s.waiting)
      BY <3>1 DEF Plus
    <3> QED
      BY <3>2 DEF a
  <2> QED
    BY <2>2, <2>6, <2>7 DEF p
<1> QED
  BY <1>2, <1>3

LEMMA ScanPlus ==
    ASSUME NEW U \in Seq(FrameSet)
    PROVE  \A d \in Loop : Scan(Plus(U, d)) = Plus(U, Scan(d))
<1> DEFINE S == {d \in Loop : Scan(Plus(U, d)) = Plus(U, Scan(d))}
<1>1. size \in [Loop -> Nat]
  BY DEF size, Loop
<1>2. ASSUME NEW d \in Loop, \A e \in Loop : size[e] < size[d] => e \in S
      PROVE  d \in S
  <2> DEFINE t == Turn(d)
             p == Plus(U, d)
             q == Plus(U, t)
  <2>1. t \in Loop /\ (t.waiting \/ Len(t.rest) < Len(d.rest))
    BY TurnType
  <2>2. p \in Loop /\ Turn(p) = q
    BY PlusType, TurnPlus
  <2>3. Scan(p) = Scan(q) /\ Scan(d) = Scan(t)
    BY <2>2, ScanTurns
  <2> HIDE DEF t, p, q
  <2>4. CASE t.waiting
    <3>1. q \in Loop /\ q.waiting
      BY <2>1, <2>4, PlusType DEF q
    <3>2. Scan(q) = q /\ Scan(t) = t
      BY <2>1, <2>4, <3>1, ScanTurns
    <3> QED
      BY <2>3, <3>2 DEF p, q
  <2>5. CASE ~t.waiting
    <3>1. size[t] < size[d]
      BY <2>1, <2>5 DEF size
    <3>2. t \in S
      BY <1>2, <2>1, <3>1
    <3> QED
      BY <2>3, <3>2 DEF p, q
  <2> QED
    BY <2>4, <2>5
<1>3. S \subseteq Loop
  OBVIOUS
<1> HIDE DEF S
<1>4. S = Loop
  BY <1>1, <1>2, <1>3, SizeInduction
<1> QED
  BY <1>4 DEF S

(* The loop's bytes may come in two parts. *)
Resume(e, y) == Effect(e.rest \o y, e.units, FALSE)

LEMMA ResumeType ==
    ASSUME NEW d \in Loop, NEW y \in Seq(Octet)
    PROVE  /\ Resume(d, y) \in Loop /\ Resume(d, y).rest = d.rest \o y
           /\ ~Resume(d, y).waiting
           /\ Resume(d, y).units = d.units
<1>1. d.rest \o y \in Seq(Octet)
  BY JoinIs DEF Loop
<1> QED
  BY <1>1 DEF Resume, Effect, Loop

LEMMA ScanAppend ==
    ASSUME NEW y \in Seq(Octet)
    PROVE  \A d \in Loop : ~d.waiting => Scan(Resume(d, y)) = Scan(Resume(Scan(d), y))
<1> DEFINE S == {d \in Loop : ~d.waiting => Scan(Resume(d, y)) = Scan(Resume(Scan(d), y))}
<1>1. size \in [Loop -> Nat]
  BY DEF size, Loop
<1>2. ASSUME NEW d \in Loop, \A e \in Loop : size[e] < size[d] => e \in S
      PROVE  d \in S
  <2>1. SUFFICES ASSUME ~d.waiting PROVE Scan(Resume(d, y)) = Scan(Resume(Scan(d), y))
    OBVIOUS
  <2> DEFINE t == Turn(d)
             s == Step(d.rest)
             r == Resume(d, y)
             u == Resume(t, y)
  <2>2. d.rest \in Seq(Octet) /\ d.units \in Seq(FrameSet)
    BY DEF Loop
  <2>3. t \in Loop /\ (t.waiting \/ Len(t.rest) < Len(d.rest)) /\ t = After(d, s)
    BY <2>1, TurnIs, TurnType
  <2>4. /\ r \in Loop /\ r.rest = d.rest \o y /\ ~r.waiting
        /\ r.units = d.units
    BY ResumeType
  <2>5. Scan(d) = Scan(t) /\ Scan(r) = Scan(Turn(r)) /\ Turn(r) = After(r, Step(d.rest \o y))
    BY <2>4, ScanTurns, TurnIs
  <2> HIDE DEF t, r
  <2>6. /\ u \in Loop /\ u.rest = t.rest \o y /\ ~u.waiting
        /\ u.units = t.units
    BY <2>3, ResumeType
  <2> HIDE DEF s, u
  <2>7. s \in Loop
    BY <2>2, StepType DEF s
  <2>8. t.rest = s.rest /\ t.waiting = s.waiting
        /\ t.units = d.units \o s.units
    BY <2>3 DEF After, Effect
  <2>9. CASE s.waiting
    <3>1. s.units = <<>>
      BY <2>2, <2>9, StepType DEF s
    <3>2. t.units = d.units
      BY <2>2, <2>8, <3>1, ConcatEmpty
    <3>3. Step(s.rest \o y) = Step(d.rest \o y)
      BY <2>2, <2>9, StepSettled DEF s
    <3>4. Turn(u) = After(u, Step(s.rest \o y))
      BY <2>6, <2>8, TurnIs
    <3>5. Turn(u) = Turn(r)
      BY <2>4, <2>5, <2>6, <3>2, <3>3, <3>4 DEF After
    <3>6. Scan(u) = Scan(r)
      BY <2>5, <2>6, <3>5, ScanTurns
    <3>7. Scan(t) = t
      BY <2>3, <2>8, <2>9, ScanTurns
    <3> QED
      BY <2>5, <3>6, <3>7 DEF u, r
  <2>10. CASE ~s.waiting
    <3>1. Step(d.rest \o y) = Effect(s.rest \o y, s.units, FALSE)
      BY <2>2, <2>10, StepMore DEF s
    <3>2. Turn(r) = u
      BY <2>4, <2>5, <2>8, <3>1 DEF After, Effect, u, Resume
    <3>3. t \in S
      <4>1. size[t] < size[d]
        BY <2>3, <2>8, <2>10 DEF size
      <4> QED
        BY <1>2, <2>3, <4>1
    <3>4. Scan(u) = Scan(Resume(Scan(t), y))
      BY <2>8, <2>10, <3>3 DEF u
    <3> QED
      BY <2>5, <3>2, <3>4 DEF r
  <2> QED
    BY <2>9, <2>10
<1>3. S \subseteq Loop
  OBVIOUS
<1> HIDE DEF S
<1>4. S = Loop
  BY <1>1, <1>2, <1>3, SizeInduction
<1> QED
  BY <1>4 DEF S

-----------------------------------------------------------------------------
(* The adapter's bytes may come in two parts. *)
Started(B) == Effect(B, <<>>, FALSE)

LEMMA StartedType ==
    ASSUME NEW B \in Seq(Octet)
    PROVE  /\ Started(B) \in Loop /\ Started(B).rest = B /\ ~Started(B).waiting
           /\ Started(B).units = <<>>
<1>1. <<>> \in Seq(FrameSet)
  OBVIOUS
<1> QED
  BY <1>1 DEF Started, Effect, Loop

LEMMA DecodeIs == ASSUME NEW B \in Seq(Octet) PROVE Decode(B) = Scan(Started(B))
<1> DEFINE d == Started(B)
<1>1. d.rest = B /\ d = [rest |-> B, units |-> <<>>, waiting |-> FALSE]
  BY DEF Started, Effect
<1> HIDE DEF d
<1>2. Scan(d) = Decode(B)
  BY <1>1, Zenon DEF Scan, Decode
<1> QED
  BY <1>2 DEF d

LEMMA StartedCut ==
    ASSUME NEW B \in Seq(Octet), NEW y \in Seq(Octet)
    PROVE  LET d == Scan(Started(B))
               e == Scan(Started(d.rest \o y))
           IN  Scan(Started(B \o y)) = Plus(d.units, e)
<1> DEFINE b == Started(B)
           d == Scan(b)
           r == Started(d.rest \o y)
<1>1. b \in Loop /\ ~b.waiting /\ b.rest = B /\ b.units = <<>>
  BY StartedType
<1> HIDE DEF b
<1>2. d \in Loop
  BY <1>1, ScanTurns
<1>3. d.rest \in Seq(Octet) /\ d.units \in Seq(FrameSet)
  BY <1>2 DEF Loop
<1>4. Scan(Resume(b, y)) = Scan(Resume(d, y))
  BY <1>1, ScanAppend
<1>5. Resume(b, y) = Started(B \o y)
  BY <1>1 DEF Resume, Started
<1> HIDE DEF d
<1>6. r \in Loop /\ r.rest = d.rest \o y /\ ~r.waiting /\ r.units = <<>>
  BY <1>3, StartedType, JoinIs
<1>7. Resume(d, y) = Plus(d.units, r)
  <2>1. d.units \o <<>> = d.units
    BY <1>3, ConcatEmpty
  <2>2. r.waiting = FALSE
    BY <1>6 DEF Loop
  <2> HIDE DEF r
  <2> QED
    BY <1>6, <2>1, <2>2 DEF Resume, Plus
<1> HIDE DEF r
<1>8. Scan(Plus(d.units, r)) = Plus(d.units, Scan(r))
  BY <1>3, <1>6, ScanPlus
<1> QED
  BY <1>4, <1>5, <1>7, <1>8 DEF b, d, r

(* What the decoder makes of bytes does not depend on where reads cut them. *)
LEMMA DecodeAppend ==
    ASSUME NEW x \in Seq(Octet), NEW y \in Seq(Octet)
    PROVE  LET d == Decode(x)
               e == Decode(d.rest \o y)
           IN  /\ Decode(x \o y).units = d.units \o e.units /\ Decode(x \o y).rest = e.rest
               /\ d.rest \in Seq(Octet) /\ d.units \in Seq(FrameSet)
               /\ e.rest \in Seq(Octet) /\ e.units \in Seq(FrameSet)
<1> DEFINE d == Decode(x)
           e == Decode(d.rest \o y)
<1>1. d = Scan(Started(x))
  BY DecodeIs
<1>2. d \in Loop
  <2>1. Started(x) \in Loop
    BY StartedType
  <2> QED
    BY <1>1, <2>1, ScanTurns
<1> HIDE DEF d
<1>3. d.rest \in Seq(Octet) /\ d.units \in Seq(FrameSet)
  BY <1>2 DEF Loop
<1>4. x \o y \in Seq(Octet) /\ d.rest \o y \in Seq(Octet)
  BY <1>3, JoinIs
<1>5. e = Scan(Started(d.rest \o y)) /\ Decode(x \o y) = Scan(Started(x \o y))
  BY <1>4, DecodeIs
<1>6. e \in Loop
  <2>1. Started(d.rest \o y) \in Loop
    BY <1>4, StartedType
  <2> QED
    BY <1>5, <2>1, ScanTurns
<1>7. Decode(x \o y) = Plus(d.units, e)
  BY <1>1, <1>5, StartedCut
<1> HIDE DEF e
<1>8. Plus(d.units, e).rest = e.rest /\ Plus(d.units, e).units = d.units \o e.units
  BY <1>3, <1>6, PlusType
<1>9. e.rest \in Seq(Octet) /\ e.units \in Seq(FrameSet)
  BY <1>6 DEF Loop
<1> QED
  BY <1>3, <1>7, <1>8, <1>9 DEF d, e

-----------------------------------------------------------------------------
(* Whatever is written is read back. *)
LEMMA NothingStarts == Step(<<>>) = Effect(<<>>, <<>>, TRUE) /\ Trailing(<<>>) = <<>>
<1> DEFINE B == <<>>
<1>1. B \in Seq(Octet) /\ Len(B) = 0
  OBVIOUS
<1> HIDE DEF B
<1>2. Starts(B) = {}
  <2>1. ASSUME NEW i \in Starts(B) PROVE FALSE
    <3>1. i \in Nat
      BY <1>1, StartsRange
    <3>2. i \in Starts(B) => i >= 1 /\ i + 1 <= Len(B)
      BY <1>1, <3>1, StartAt
    <3>3. i + 1 <= 0
      BY <1>1, <2>1, <3>2
    <3> QED
      BY <3>1, <3>3
  <2> QED
    BY <2>1
<1>3. Trailing(B) = <<>>
  BY DEF Trailing, B
<1>4. Step(B) = Effect(<<>>, <<>>, TRUE)
  BY <1>2, <1>3 DEF Step
<1> QED
  BY <1>3, <1>4 DEF B

LEMMA NothingDecoded == Decode(<<>>).units = <<>> /\ Decode(<<>>).rest = <<>>
<1> DEFINE B == <<>>
           d == Started(B)
           e == Effect(B, B, TRUE)
<1>0. B \in Seq(Octet) /\ B \in Seq(FrameSet) /\ B \o B = B
  OBVIOUS
<1>1. Step(B) = e
  BY NothingStarts
<1>2. e \in Loop /\ e.rest = B /\ e.units = B /\ e.waiting
  BY <1>0 DEF Effect, Loop
<1>3. d.units = B
  BY DEF Started, Effect
<1> HIDE DEF B
<1>4. d \in Loop /\ d.rest = B /\ ~d.waiting
  BY <1>0, StartedType
<1>5. Decode(B) = Scan(d)
  BY <1>0, DecodeIs
<1> HIDE DEF d
<1>6. Turn(d) = e
  <2>1. Turn(d) = After(d, e)
    BY <1>1, <1>4, TurnIs
  <2>2. After(d, e) = e
    BY <1>0, <1>2, <1>3 DEF After, Effect, e
  <2> QED
    BY <2>1, <2>2
<1> HIDE DEF e
<1>7. Scan(d) = e
  BY <1>2, <1>4, <1>6, ScanTurns
<1>8. Decode(B).units = B /\ Decode(B).rest = B
  BY <1>2, <1>5, <1>7
<1> QED
  BY <1>8 DEF B

LEMMA OneUnit ==
    ASSUME NEW B \in Seq(Octet), Len(B) >= 2, Begins(B[1], B[2]), NEW unit \in FrameSet,
           Judged(B) = Effect(<<>>, <<unit>>, FALSE)
    PROVE  Decode(B).units = <<unit>> /\ Decode(B).rest = <<>>
<1> DEFINE d == Started(B)
           e == Effect(<<>>, <<unit>>, FALSE)
           f == Effect(<<>>, <<unit>>, TRUE)
<1>1. d \in Loop /\ d.rest = B /\ ~d.waiting /\ d.units = <<>>
  BY StartedType
<1> HIDE DEF d
<1>2. Step(B) = Judged(B)
  <2>1. Starts(B) \subseteq Nat
    BY StartsRange
  <2>2. 1 \in Starts(B)
    BY StartAt
  <2>3. ASSUME NEW i \in Starts(B) PROVE 1 <= i
    BY <2>1, <2>3, StartAt
  <2>4. Min(Starts(B)) = 1
    BY <2>1, <2>2, <2>3, FirstOf
  <2>5. Candidate(B) = B
    BY <2>4, FromFirst DEF Candidate
  <2> QED
    BY <2>2, <2>5 DEF Step
<1>3. <<unit>> \in Seq(FrameSet) /\ <<>> \o <<unit>> = <<unit>> /\ <<unit>> \o <<>> = <<unit>>
  OBVIOUS
<1>4. Turn(d) = e
  <2>1. Turn(d) = After(d, e)
    BY <1>1, <1>2, TurnIs
  <2>2. After(d, e) = e
    BY <1>1, <1>3 DEF After, Effect
  <2> QED
    BY <2>1, <2>2
<1>5. e \in Loop /\ e.rest = <<>> /\ e.units = <<unit>> /\ ~e.waiting
  BY <1>3 DEF Effect, Loop
<1> HIDE DEF e
<1>6. Turn(e) = f
  <2>1. Turn(e) = After(e, Effect(<<>>, <<>>, TRUE))
    BY <1>5, TurnIs, NothingStarts
  <2> QED
    BY <1>3, <1>5, <2>1 DEF After, Effect
<1>7. f \in Loop /\ f.rest = <<>> /\ f.units = <<unit>> /\ f.waiting
  BY <1>3 DEF Effect, Loop
<1> HIDE DEF f
<1>8. Scan(d) = Scan(e) /\ Scan(e) = Scan(f) /\ Scan(f) = f
  BY <1>1, <1>4, <1>5, <1>6, <1>7, ScanTurns
<1>9. Decode(B) = Scan(d)
  BY DecodeIs DEF d
<1> QED
  BY <1>7, <1>8, <1>9

LEMMA EncodedRead ==
    ASSUME NEW unit \in FrameSet
    PROVE  /\ Encode(unit) \in Seq(Octet)
           /\ Decode(Encode(unit)).units = <<unit>> /\ Decode(Encode(unit)).rest = <<>>
<1> DEFINE e == Encode(unit)
           z == <<>>
<1>1. e \in Seq(Octet)
  BY EncodeIs DEF EncodedAs
<1>2. ReadAs(unit, e \o z, z)
  <2>1. z \in Seq(Octet)
    OBVIOUS
  <2> HIDE DEF z
  <2> QED
    BY <2>1, FrameRead
<1> HIDE DEF e
<1>3. e \o z = e
  BY <1>1, ConcatEmpty
<1>4. /\ Len(e) = FrameLength(e) + Len(z) /\ e[1] = 165 /\ e[2] = 90 /\ e[3] = Version
      /\ e[FrameLength(e)] = Checksum8(SubSeq(e, 3, FrameLength(e) - 1))
      /\ Parsed(e) = unit /\ From(e, FrameLength(e) + 1) = z
      /\ FrameLength(e) = 8 + Len(unit.payload)
  BY <1>2, <1>3 DEF ReadAs
<1>5. Len(unit.payload) \in Nat
  BY DEF FrameSet
<1>6. Len(e) = FrameLength(e) /\ ~(Len(e) < 8) /\ ~(Len(e) < FrameLength(e)) /\ Len(e) >= 2
  BY <1>4, <1>5
<1>7. Good(e)
  BY <1>4 DEF Good
<1>8. e[1] # Tick[1]
  BY <1>4, PatternsAre
<1>9. Judged(e) = Effect(<<>>, <<unit>>, FALSE)
  BY <1>4, <1>6, <1>7, <1>8, Zenon DEF Judged, z
<1>10. Begins(e[1], e[2])
  BY <1>4 DEF Begins
<1> QED
  BY <1>1, <1>6, <1>9, <1>10, OneUnit DEF e

Beat == <<255, 1, 165, 90, 0>>
LEMMA BeatRead ==
    /\ Beat \in Seq(Octet) /\ Len(Beat) = 5 /\ Raw(Beat) \in FrameSet
    /\ Decode(Beat).units = <<Raw(Beat)>> /\ Decode(Beat).rest = <<>>
<1>1. Beat \in Seq(Octet) /\ Len(Beat) = 5 /\ Beat[1] = 255 /\ Beat[2] = 1
  <2> DEFINE a == 255
             b == 1
             c == 165
             d == 90
             e == 0
  <2>1. a \in Octet /\ b \in Octet /\ c \in Octet /\ d \in Octet /\ e \in Octet
    BY DEF Octet
  <2>2. <<a, b, c, d, e>> \in Seq(Octet)
    <3> HIDE DEF a, b, c, d, e
    <3> QED
      BY <2>1, TupleGrows5
  <2>3. Beat = <<a, b, c, d, e>>
    BY DEF Beat
  <2> QED
    BY <2>2, <2>3 DEF Beat
<1> HIDE DEF Beat
<1>a. Len(Beat) >= 5
  BY <1>1
<1>2. SubSeq(Beat, 1, 5) = Beat
  <2>1. 5 \in 0..Len(Beat)
    BY <1>1
  <2>2. SubSeq(Beat, 1, 5) \in Seq(Octet) /\ Len(SubSeq(Beat, 1, 5)) = 5
        /\ \A k \in 1..5 : SubSeq(Beat, 1, 5)[k] = Beat[k]
    BY <1>1, <2>1, FrontIs
  <2> QED
    BY <1>1, <2>2, SeqEqual
<1>3. Raw(Beat) \in FrameSet
  BY <1>1, <1>a, <1>2, HeartbeatIs
<1>4. From(Beat, 6) = <<>>
  <2>0. From(Beat, 6) \in Seq(Octet) /\ Len(From(Beat, 6)) = Len(Beat) - 5
    BY <1>1, <1>a, HeartbeatIs
  <2>1. From(Beat, 6) \in Seq(Octet) /\ Len(From(Beat, 6)) = 0
    BY <1>1, <2>0
  <2> QED
    BY <2>1
<1>5. Judged(Beat) = Effect(<<>>, <<Raw(Beat)>>, FALSE)
  <2>1. Beat[1] = Tick[1] /\ ~(Len(Beat) < 5)
    BY <1>1, PatternsAre
  <2> QED
    BY <1>2, <1>4, <2>1, Zenon DEF Judged
<1>6. Begins(Beat[1], Beat[2]) /\ Len(Beat) >= 2
  BY <1>1 DEF Begins
<1> QED
  BY <1>1, <1>3, <1>5, <1>6, OneUnit

-----------------------------------------------------------------------------
(* What the console asks for. *)
Requests == {r \in Seq(Octet) : /\ Len(r) \in 1..5
                                /\ r[1] \in {2, 13} => Len(r) = 2
                                /\ r[1] = 3 => Len(r) = 5}
ConsoleOf(c, map) ==
    c = [map |-> map, identity |-> c.identity, pending |-> c.pending, next |-> c.next]

(* A command leaves the map, asks for something or nothing, and waits for a
   memory reply only when it has asked for one. *)
Sends(c, cmd, map, o) ==
    /\ ConsoleOf(o.console, map)
    /\ o.request = <<>> \/ o.request \in Requests
    /\ \/ o.console.pending = c.pending
       \/ cmd.verb = "dis" /\ o.request # <<>> /\ o.console.pending \in Seq(Octet)
    /\ cmd.verb = "dis" /\ o.request # <<>> => o.console.pending \in Seq(Octet)

LEMMA BytesAre ==
    ASSUME NEW a \in Addresses
    PROVE  Bytes24(a) \in Seq(Octet) /\ Len(Bytes24(a)) = 3
<1> DEFINE x == a % 256
           y == (a \div 256) % 256
           z == a \div 65536
<1>1. x \in Octet /\ y \in Octet /\ z \in Octet
  <2>0. a \in Nat
    BY SMT DEF Addresses
  <2>1. a \in Nat /\ a \div 256 \in Nat
    BY <2>0, SMT
  <2>2. x \in Octet /\ y \in Octet
    BY <2>1, ByteOf
  <2>3. z \in Octet
    BY SMT DEF Octet, Addresses
  <2> QED
    BY <2>2, <2>3
<1> HIDE DEF x, y, z
<1>2. <<x, y, z>> \in Seq(Octet) /\ Len(<<x, y, z>>) = 3
  BY <1>1, TupleGrows3
<1>3. Bytes24(a) = <<x, y, z>>
  BY DEF Bytes24, x, y, z
<1> QED
  BY <1>2, <1>3

LEMMA OneByteRequest ==
    ASSUME NEW op \in Octet, op \notin {2, 3, 13}
    PROVE  <<op>> \in Requests
  BY DEF Requests

LEMMA TwoByteRequest ==
    ASSUME NEW op \in Octet, NEW n \in Octet, op # 3
    PROVE  <<op, n>> \in Requests
<1>1. <<op, n>> \in Seq(Octet) /\ Len(<<op, n>>) = 2 /\ <<op, n>>[1] = op
  BY TupleGrows2
<1> QED
  BY <1>1 DEF Requests

LEMMA PointRequest ==
    ASSUME NEW op \in Octet, op \notin {2, 3, 13}, NEW a \in Addresses
    PROVE  <<op>> \o Bytes24(a) \in Requests
<1> DEFINE b == Bytes24(a)
           x == <<op>>
           r == x \o b
<1>1. b \in Seq(Octet) /\ Len(b) = 3
  BY BytesAre
<1>2. x \in Seq(Octet) /\ Len(x) = 1 /\ x[1] = op
  OBVIOUS
<1> HIDE DEF b, x
<1>3. JoinOf(Octet, x, b, r)
  BY <1>1, <1>2, JoinParts
<1> HIDE DEF r
<1>4. r \in Seq(Octet) /\ Len(r) = 4 /\ r[1] = op
  BY <1>1, <1>2, <1>3 DEF JoinOf
<1>5. r \in Requests
  <2>1. ~(r[1] \in {2, 13}) /\ r[1] # 3 /\ Len(r) \in 1..5
    BY <1>4
  <2> QED
    BY <1>4, <2>1 DEF Requests
<1> QED
  BY <1>5 DEF r, b, x

LEMMA MemoryAsked ==
    ASSUME NEW a \in Addresses, NEW n \in Octet
    PROVE  MemoryRequest(a, n) \in Requests /\ MemoryRequest(a, n) # <<>>
<1> DEFINE b == Bytes24(a)
           x == <<3>>
           y == <<n>>
           r == (x \o b) \o y
<1>1. b \in Seq(Octet) /\ Len(b) = 3
  BY BytesAre
<1>2. x \in Seq(Octet) /\ Len(x) = 1 /\ x[1] = 3 /\ y \in Seq(Octet) /\ Len(y) = 1
  BY DEF Octet
<1>a. MemoryRequest(a, n) = r
  BY DEF MemoryRequest
<1> HIDE DEF b, x, y
<1> DEFINE z == x \o b
<1>3. JoinOf(Octet, x, b, z)
  BY <1>1, <1>2, JoinParts
<1> HIDE DEF z
<1>4. z \in Seq(Octet) /\ Len(z) = 4 /\ z[1] = 3
  BY <1>1, <1>2, <1>3 DEF JoinOf
<1>5. JoinOf(Octet, z, y, z \o y)
  BY <1>2, <1>4, JoinParts
<1>b. r = z \o y
  BY DEF z
<1> HIDE DEF r
<1>c. JoinOf(Octet, z, y, r)
  BY <1>5, <1>b
<1>6. r \in Seq(Octet) /\ Len(r) = 5 /\ r[1] = 3
  BY <1>2, <1>4, <1>c DEF JoinOf
<1>7. r \in Requests
  <2>1. ~(r[1] \in {2, 13}) /\ Len(r) \in 1..5
    BY <1>6
  <2> QED
    BY <1>6, <2>1 DEF Requests
<1>8. r # <<>>
  <2>1. Len(<<>>) = 0
    OBVIOUS
  <2> QED
    BY ONLY <1>6, <2>1
<1> QED
  BY ONLY <1>a, <1>7, <1>8

LEMMA ResolvedIs ==
    ASSUME DebuggingAssumption, NEW s \in Sessions, NEW c, c.map = s.map, NEW at, Location(at)
    PROVE  Resolved(c, at) \subseteq Addresses
<1>1. /\ \A i \in Instructions(s.map) : i.address \in Addresses
      /\ \A name \in DOMAIN s.map.symbols : s.map.symbols[name] \in Addresses
  BY DEF DebuggingAssumption
<1>2. CASE at[1] = "number"
  BY <1>2 DEF Resolved, Location
<1>3. CASE at[1] = "symbol"
  BY <1>1, <1>3 DEF Resolved
<1>4. CASE at[1] = "line"
  <2> DEFINE S == {j \in Instructions(c.map) : j.source = at[2] /\ j.line = at[3]}
  <2>1. Resolved(c, at) = IF Matched(c) THEN {i.address : i \in LowestOf(S)} ELSE {}
    BY <1>4 DEF Resolved
  <2>2. LowestOf(S) \subseteq Instructions(s.map)
    BY DEF LowestOf
  <2> HIDE DEF S
  <2> QED
    BY <1>1, <2>1, <2>2
<1> QED
  BY <1>2, <1>3, <1>4 DEF Location

LEMMA LocalSends ==
    ASSUME NEW c, NEW map, ConsoleOf(c, map), NEW cmd
    PROVE  Sends(c, cmd, map, Local(c))
  BY DEF Sends, Local, Outcome

LEMMA OutcomeSends ==
    ASSUME NEW c, NEW map, ConsoleOf(c, map), NEW cmd, NEW r \in Requests, NEW lines, cmd.verb # "dis"
    PROVE  Sends(c, cmd, map, Outcome(c, r, lines))
  BY DEF Sends, Outcome

LEMMA ListedSends ==
    ASSUME NEW c, NEW map, ConsoleOf(c, map), NEW cmd, NEW i, NEW wanted
    PROVE  Sends(c, cmd, map, Listed(c, i, wanted))
<1>1. ASSUME NEW n, NEW lines PROVE Sends(c, cmd, map, Outcome([c EXCEPT !.next = n], <<>>, lines))
  <2> DEFINE e == [c EXCEPT !.next = n]
  <2>1. ConsoleOf(e, map) /\ e.pending = c.pending
    <3>1. e = [map |-> map, identity |-> c.identity, pending |-> c.pending, next |-> n]
      BY DEF ConsoleOf
    <3> HIDE DEF e
    <3> QED
      BY <3>1 DEF ConsoleOf
  <2> HIDE DEF e
  <2>2. Sends(c, cmd, map, Outcome(e, <<>>, lines))
    BY <2>1 DEF Sends, Outcome
  <2> QED
    BY <2>2 DEF e
<1> QED
  BY <1>1, Zenon DEF Listed

LEMMA ListSends ==
    ASSUME NEW c, NEW map, ConsoleOf(c, map), NEW cmd, NEW addresses, NEW count
    PROVE  Sends(c, cmd, map, ListCommand(c, addresses, count))
  BY LocalSends, ListedSends, Zenon DEF ListCommand

LEMMA DisSends ==
    ASSUME DebuggingAssumption, NEW s \in Sessions, NEW c, ConsoleOf(c, s.map), c.map = s.map,
           NEW cmd \in s.commands, cmd.verb = "dis"
    PROVE  Sends(c, cmd, s.map, DisCommand(c, cmd.at, cmd.count))
<1> DEFINE R == Resolved(c, cmd.at)
           a == CHOOSE x \in R : TRUE
           p == Bytes24(a)
           r == MemoryRequest(a, Window)
           e == [c EXCEPT !.pending = p]
           o == DisCommand(c, cmd.at, cmd.count)
<1>1. R \subseteq Addresses
  <2>1. Location(cmd.at)
    BY DEF DebuggingAssumption
  <2> QED
    BY <2>1, ResolvedIs
<1>2. o = Local(c) \/ (R # {} /\ o = Outcome(e, r, {}))
  BY Zenon DEF DisCommand
<1> HIDE DEF R, o
<1>3. CASE R # {} /\ o = Outcome(e, r, {})
  <2>1. a \in Addresses
    BY <1>1, <1>3
  <2>2. Window \in Octet
    BY DEF DebuggingAssumption, Octet
  <2> HIDE DEF a
  <2>3. p \in Seq(Octet) /\ r \in Requests /\ r # <<>>
    BY <2>1, <2>2, BytesAre, MemoryAsked
  <2> HIDE DEF p, r
  <2>4. e = [map |-> s.map, identity |-> c.identity, pending |-> p, next |-> c.next]
    BY DEF ConsoleOf
  <2> HIDE DEF e
  <2>5. ConsoleOf(e, s.map) /\ e.pending = p
    BY <2>4 DEF ConsoleOf
  <2> QED
    BY <1>3, <2>3, <2>5 DEF Sends, Outcome, o
<1>4. CASE o = Local(c)
  BY <1>4, LocalSends DEF o
<1> QED
  BY <1>2, <1>3, <1>4

LEMMA PointSends ==
    ASSUME DebuggingAssumption, NEW s \in Sessions, NEW c, ConsoleOf(c, s.map), c.map = s.map,
           NEW cmd \in s.commands, cmd.verb # "dis", NEW op \in Octet, op \notin {2, 3, 13}
    PROVE  Sends(c, cmd, s.map, PointCommand(c, cmd.at, op))
<1> DEFINE R == Resolved(c, cmd.at)
           a == CHOOSE x \in R : TRUE
           r == <<op>> \o Bytes24(a)
<1>1. R \subseteq Addresses
  <2>1. Location(cmd.at)
    BY DEF DebuggingAssumption
  <2> QED
    BY <2>1, ResolvedIs
<1>2. PointCommand(c, cmd.at, op) = IF R = {} THEN Local(c) ELSE Outcome(c, r, {})
  BY Zenon DEF PointCommand
<1>3. R # {} => a \in Addresses
  BY <1>1
<1> HIDE DEF a, R
<1>4. R # {} => r \in Requests
  BY <1>3, PointRequest
<1> HIDE DEF r
<1> QED
  BY <1>2, <1>4, LocalSends, OutcomeSends

LEMMA CommandSends ==
    ASSUME DebuggingAssumption, NEW s \in Sessions, NEW c, ConsoleOf(c, s.map),
           NEW cmd \in s.commands
    PROVE  Sends(c, cmd, s.map, Command(c, cmd))
<1> DEFINE map == s.map
<1>1. c.map = map
  BY DEF ConsoleOf
<1>2. /\ Location(cmd.at) /\ (cmd.verb = "regs" => cmd.count \in Octet)
      /\ cmd.verb = "x" => cmd.at[2] \in Addresses
  BY DEF DebuggingAssumption, Location, Octet
<1>3. CASE cmd.verb \in DOMAIN Opcodes
  <2> DEFINE op == Opcodes[cmd.verb]
  <2>1. op \in {4, 5, 8, 9, 10, 11, 12} /\ cmd.verb # "dis"
    BY <1>3 DEF Opcodes
  <2>2. Command(c, cmd) = Outcome(c, <<op>>, {})
    BY <1>3, SMT DEF Command, Opcodes
  <2> HIDE DEF op
  <2>3. op \in Octet /\ op \notin {2, 3, 13}
    BY <2>1 DEF Octet
  <2>4. <<op>> \in Requests
    BY <2>3, OneByteRequest
  <2> QED
    BY <2>1, <2>2, <2>4, OutcomeSends
<1>4. CASE cmd.verb = "regs"
  <2>1. Command(c, cmd) = Outcome(c, <<2, cmd.count>>, {})
    BY <1>4 DEF Command, Opcodes
  <2> DEFINE n == cmd.count
             op == 2
  <2>2. n \in Octet /\ op \in Octet /\ op # 3
    BY <1>2, <1>4 DEF Octet
  <2> HIDE DEF n, op
  <2>3. <<op, n>> \in Requests
    BY <2>2, TwoByteRequest
  <2>4. <<2, cmd.count>> \in Requests
    BY <2>3 DEF op, n
  <2>5. cmd.verb # "dis"
    BY <1>4
  <2> QED
    BY <2>1, <2>4, <2>5, OutcomeSends
<1>5. CASE cmd.verb = "x"
  <2> DEFINE a == cmd.at[2]
             n == cmd.count
             r == MemoryRequest(a, n)
  <2>1. Command(c, cmd) = IF n \in 1..12 THEN Outcome(c, r, {}) ELSE Local(c)
    BY <1>5 DEF Command, Opcodes
  <2>2. a \in Addresses /\ (n \in 1..12 => n \in Octet)
    BY <1>2, <1>5 DEF Octet
  <2> HIDE DEF a, n
  <2>3. n \in 1..12 => r \in Requests
    BY <2>2, MemoryAsked
  <2>4. cmd.verb # "dis"
    BY <1>5
  <2> HIDE DEF r
  <2> QED
    BY <2>1, <2>3, <2>4, LocalSends, OutcomeSends
<1>6. CASE cmd.verb \in {"break", "delete"}
  <2> DEFINE op == IF cmd.verb = "break" THEN 6 ELSE 7
  <2>1. Command(c, cmd) = PointCommand(c, cmd.at, op)
    BY <1>6 DEF Command, Opcodes
  <2>2. op \in Octet /\ op \notin {2, 3, 13} /\ cmd.verb # "dis"
    BY <1>6 DEF Octet
  <2> HIDE DEF op
  <2> QED
    BY <1>1, <2>1, <2>2, PointSends
<1>7. CASE cmd.verb = "dis"
  <2>1. Command(c, cmd) = DisCommand(c, cmd.at, cmd.count)
    BY <1>7 DEF Command, Opcodes
  <2> QED
    BY <1>1, <1>7, <2>1, DisSends
<1>8. CASE cmd.verb = "list"
  <2>1. Command(c, cmd) = ListCommand(c, Resolved(c, cmd.at), cmd.count)
    BY <1>8 DEF Command, Opcodes
  <2> QED
    BY <2>1, ListSends
<1>9. CASE cmd.verb = "more"
  <2>1. Command(c, cmd) = ListCommand(c, {c.next} \ {None}, Default)
    BY <1>9 DEF Command, Opcodes
  <2> QED
    BY <2>1, ListSends
<1>10. CASE cmd.verb \notin DOMAIN Opcodes \cup {"regs", "x", "break", "delete", "dis", "list", "more"}
  <2>1. Command(c, cmd) = Local(c)
    BY <1>10 DEF Command
  <2> QED
    BY <2>1, LocalSends
<1> QED
  BY <1>3, <1>4, <1>5, <1>6, <1>7, <1>8, <1>9, <1>10

-----------------------------------------------------------------------------
(* The link.  What the host writes is made out one for one, and what the
   adapter has read but not handled was written. *)
Sendable == {Raw(Beat), Raw(<<255, 4>>)} \cup {DebugFrame(r) : r \in Requests}
Code(unit) ==
    IF unit.type = RAW_UART /\ unit.payload[1] = Tick[1] /\ Len(unit.payload) = 5
    THEN unit.payload ELSE Encode(unit)
Coded(unit, code) ==
    /\ unit \in FrameSet /\ code \in Seq(Octet)
    /\ Decode(code).units = <<unit>> /\ Decode(code).rest = <<>>

LEMMA RestartIs == Raw(<<255, 4>>) \in FrameSet /\ Len(<<255, 4>>) = 2
<1> DEFINE t == RAW_UART
           c == 0
           a == 255
           b == 4
           p == <<a, b>>
<1>1. t \in Octet /\ c \in Octet /\ a \in Octet /\ b \in Octet
  BY DEF Octet, RAW_UART
<1> HIDE DEF t, c, a, b
<1>2. p \in Seq(Octet) /\ Len(p) = 2
  BY <1>1, TupleGrows2
<1> HIDE DEF p
<1>3. [type |-> t, channel |-> c, payload |-> p] \in FrameSet
  <2>1. t \in Octet /\ c \in Octet /\ p \in Seq(Octet) /\ Len(p) < 65536
    BY ONLY <1>1, <1>2
  <2> QED
    BY ONLY <2>1, FrameIs
<1> QED
  BY <1>2, <1>3 DEF Raw, t, c, a, b, p

LEMMA DebugFrameIs ==
    ASSUME NEW r \in Requests
    PROVE  /\ DebugFrame(r) \in FrameSet /\ DebugFrame(r).type = DEBUG_REQUEST
           /\ DebugFrame(r).payload = r
<1> DEFINE t == DEBUG_REQUEST
           c == 0
<1>1. t \in Octet /\ c \in Octet
  BY DEF Octet, DEBUG_REQUEST
<1>2. DebugFrame(r) = [type |-> t, channel |-> c, payload |-> r]
  BY DEF DebugFrame
<1> HIDE DEF t, c
<1>a. r \in Seq(Octet) /\ Len(r) \in 1..5
  BY Zenon DEF Requests
<1> DEFINE n == Len(r)
<1>b. n \in 1..5
  BY <1>a
<1> HIDE DEF n
<1>c. n < 65536
  BY ONLY <1>b
<1>3. r \in Seq(Octet) /\ Len(r) < 65536
  BY ONLY <1>a, <1>c, SMT DEF n
<1>4. [type |-> t, channel |-> c, payload |-> r] \in FrameSet
  BY <1>1, <1>3, FrameIs
<1> QED
  BY <1>2, <1>4 DEF t

LEMMA CodeIs ==
    ASSUME NEW unit \in Sendable
    PROVE  Coded(unit, Code(unit))
<1>1. CASE unit = Raw(Beat)
  <2>1. Code(unit) = Beat
    <3>1. unit.type = RAW_UART /\ unit.payload = Beat
      BY <1>1 DEF Raw
    <3>2. Beat[1] = Tick[1] /\ Len(Beat) = 5
      BY BeatRead, PatternsAre DEF Beat
    <3> QED
      BY <3>1, <3>2 DEF Code
  <2> QED
    BY <1>1, <2>1, BeatRead DEF Coded
<1>2. CASE unit = Raw(<<255, 4>>)
  <2>1. unit \in FrameSet /\ Len(unit.payload) # 5
    BY <1>2, RestartIs DEF Raw
  <2>2. Code(unit) = Encode(unit)
    BY <2>1, Zenon DEF Code
  <2> QED
    BY <2>1, <2>2, EncodedRead DEF Coded
<1>3. CASE unit \in {DebugFrame(r) : r \in Requests}
  <2>1. PICK r \in Requests : unit = DebugFrame(r)
    BY <1>3
  <2>2. unit \in FrameSet /\ unit.type = DEBUG_REQUEST
    BY <2>1, DebugFrameIs
  <2>3. DEBUG_REQUEST # RAW_UART
    BY DEF DEBUG_REQUEST, RAW_UART
  <2>4. Code(unit) = Encode(unit)
    BY <2>2, <2>3, Zenon DEF Code
  <2> QED
    BY <2>2, <2>4, EncodedRead DEF Coded
<1> QED
  BY <1>1, <1>2, <1>3 DEF Sendable

LEMMA SendableFrames == Sendable \subseteq FrameSet
  BY CodeIs DEF Coded

LEMMA PartsOf ==
    ASSUME NEW S, NEW T, NEW a \in Seq(S), NEW b \in Seq(S), a \o b \in Seq(T)
    PROVE  a \in Seq(T) /\ b \in Seq(T)
<1> DEFINE c == a \o b
<1>1. JoinOf(S, a, b, c)
  BY JoinParts
<1>2. Len(a) \in Nat /\ Len(b) \in Nat
  OBVIOUS
<1>3. c \in Seq(T)
  OBVIOUS
<1> HIDE DEF c
<1>4. Len(c) = Len(a) + Len(b)
  BY <1>1 DEF JoinOf
<1>5. ASSUME NEW i \in 1..Len(a) PROVE a[i] \in T
  BY <1>1, <1>2, <1>3, <1>4 DEF JoinOf
<1>6. ASSUME NEW i \in 1..Len(b) PROVE b[i] \in T
  <2>1. Len(a) + i \in 1..Len(c) /\ c[Len(a) + i] = b[i]
    BY <1>1, <1>2, <1>4 DEF JoinOf
  <2> QED
    BY <1>3, <2>1
<1> QED
  BY <1>5, <1>6

LinkTyped ==
    /\ session \in Sessions /\ ConsoleOf(console, session.map)
    /\ wire \in Seq(Octet) /\ buffer \in Seq(Octet)
    /\ sent \in Seq(Sendable) /\ taken \in Seq(Sendable) /\ inbox \in Seq(Sendable)
    /\ UnitsExact

(* One more thing written is one more made out. *)
LEMMA WrittenExact ==
    ASSUME LinkTyped, NEW unit \in Sendable
    PROVE  LET more == wire \o Code(unit)
               d == Decode(buffer \o more)
           IN  /\ more \in Seq(Octet) /\ Append(sent, unit) \in Seq(Sendable)
               /\ taken \o d.units = Append(sent, unit) /\ d.rest = <<>>
<1> DEFINE code == Code(unit)
           d == Decode(buffer \o wire)
           x == buffer \o wire
           u == <<unit>>
<1>1. /\ code \in Seq(Octet) /\ unit \in FrameSet
      /\ Decode(code).units = <<unit>> /\ Decode(code).rest = <<>>
  BY CodeIs DEF Coded
<1>2. /\ wire \in Seq(Octet) /\ buffer \in Seq(Octet) /\ taken \in Seq(FrameSet)
      /\ sent \in Seq(Sendable) /\ taken \o Decode(x).units = sent /\ Decode(x).rest = <<>>
  BY SendableFrames DEF LinkTyped, UnitsExact
<1> HIDE DEF code, d
<1>3. x \in Seq(Octet) /\ wire \o code \in Seq(Octet)
  BY <1>1, <1>2, JoinIs
<1>4. buffer \o (wire \o code) = x \o code
  <2>1. Associated(buffer, wire, code)
    BY <1>1, <1>2, Associates
  <2> QED
    BY <2>1 DEF Associated, x
<1> HIDE DEF x
<1>5. <<>> \o code = code /\ u \in Seq(FrameSet)
  BY <1>1
<1>6. /\ Decode(x \o code).units = Decode(x).units \o u /\ Decode(x \o code).rest = <<>>
      /\ Decode(x).units \in Seq(FrameSet)
  <2> DEFINE f == Decode(x)
             e == Decode(f.rest \o code)
  <2>1. /\ Decode(x \o code).units = f.units \o e.units /\ Decode(x \o code).rest = e.rest
        /\ f.units \in Seq(FrameSet)
    BY <1>1, <1>3, DecodeAppend
  <2>2. f.rest = <<>>
    BY <1>2
  <2> HIDE DEF f
  <2>3. e = Decode(code)
    BY <1>5, <2>2
  <2> QED
    BY <1>1, <2>1, <2>3 DEF f
<1> HIDE DEF u
<1>7. taken \o (Decode(x).units \o u) = sent \o u
  <2> DEFINE v == Decode(x).units
  <2>1. v \in Seq(FrameSet)
    BY <1>6
  <2> HIDE DEF v
  <2>2. Associated(taken, v, u)
    BY <1>2, <1>5, <2>1, Associates
  <2> QED
    BY <1>2, <2>2 DEF Associated, v
<1>8. sent \o u = Append(sent, unit) /\ Append(sent, unit) \in Seq(Sendable)
  BY <1>2, ConcatOne DEF u
<1> QED
  BY <1>3, <1>4, <1>6, <1>7, <1>8 DEF code

(* A read hands on what it makes out, and what is left is made out later. *)
LEMMA ReadExact ==
    ASSUME LinkTyped, NEW n \in 1..Len(wire)
    PROVE  LET d == Decode(buffer \o SubSeq(wire, 1, n))
               e == Decode(d.rest \o From(wire, n + 1))
           IN  /\ From(wire, n + 1) \in Seq(Octet) /\ d.rest \in Seq(Octet)
               /\ d.units \in Seq(Sendable) /\ taken \o d.units \in Seq(Sendable)
               /\ (taken \o d.units) \o e.units = sent /\ e.rest = <<>>
<1> DEFINE a == SubSeq(wire, 1, n)
           b == From(wire, n + 1)
           x == buffer \o a
           d == Decode(x)
           e == Decode(d.rest \o b)
           made == taken \o d.units
<1>1. /\ wire \in Seq(Octet) /\ buffer \in Seq(Octet) /\ taken \in Seq(FrameSet)
      /\ sent \in Seq(Sendable) /\ taken \o Decode(buffer \o wire).units = sent
      /\ Decode(buffer \o wire).rest = <<>>
  BY SendableFrames DEF LinkTyped, UnitsExact
<1>2. n \in 0..Len(wire)
  BY <1>1
<1>3. a \in Seq(Octet) /\ b \in Seq(Octet) /\ wire = a \o b
  <2>1. a \in Seq(Octet) /\ wire = a \o b
    BY <1>1, <1>2, FrontIs, CutJoined
  <2>2. n + 1 \in 1..(Len(wire) + 1)
    BY <1>2
  <2> QED
    BY <1>1, <2>1, <2>2, FromIs
<1> HIDE DEF a, b
<1>4. x \in Seq(Octet) /\ buffer \o wire = x \o b
  <2>1. Associated(buffer, a, b) /\ buffer \o a \in Seq(Octet)
    BY <1>1, <1>3, Associates, JoinIs
  <2> QED
    BY <1>3, <2>1 DEF Associated
<1> HIDE DEF x
<1>5. /\ Decode(x \o b).units = d.units \o e.units /\ Decode(x \o b).rest = e.rest
      /\ d.rest \in Seq(Octet) /\ d.units \in Seq(FrameSet) /\ e.units \in Seq(FrameSet)
  BY <1>3, <1>4, DecodeAppend
<1> HIDE DEF d, e
<1>6. made \o e.units = sent /\ made \in Seq(FrameSet)
  <2>1. taken \o (d.units \o e.units) = sent
    BY <1>1, <1>4, <1>5
  <2> DEFINE v == d.units
             w == e.units
  <2>2. v \in Seq(FrameSet) /\ w \in Seq(FrameSet)
    BY <1>5
  <2> HIDE DEF v, w
  <2>3. Associated(taken, v, w) /\ taken \o v \in Seq(FrameSet)
    BY <1>1, <2>2, Associates, JoinIs
  <2> QED
    BY <2>1, <2>3 DEF Associated, v, w
<1>7. made \in Seq(Sendable)
  <2> DEFINE w == e.units
  <2>1. made \in Seq(FrameSet) /\ w \in Seq(FrameSet) /\ made \o w \in Seq(Sendable)
    BY <1>1, <1>5, <1>6
  <2> HIDE DEF made, w
  <2> QED
    BY <2>1, PartsOf
<1>8. d.units \in Seq(Sendable)
  BY <1>1, <1>5, <1>7, PartsOf
<1> QED
  BY <1>1, <1>3, <1>4, <1>5, <1>6, <1>7, <1>8 DEF d, e, x, a, b

LEMMA FreshIs ==
    ASSUME NEW map, NEW x
    PROVE  ConsoleOf([Fresh(map) EXCEPT !.identity = x], map)
<1>1. [Fresh(map) EXCEPT !.identity = x]
      = [map |-> map, identity |-> x, pending |-> None, next |-> None]
  BY DEF Fresh
<1> QED
  BY <1>1 DEF ConsoleOf

LEMMA LinkInit == Init => LinkTyped
<1> SUFFICES ASSUME Init PROVE LinkTyped
    OBVIOUS
<1> DEFINE z == <<>>
<1>1. /\ buffer = z /\ inbox = z /\ wire = z /\ sent = z /\ taken = z /\ session \in Sessions
  BY DEF Init, AdapterInit
<1>2. ConsoleOf(console, session.map)
  BY FreshIs DEF Init
<1>3. z \in Seq(Octet) /\ z \in Seq(Sendable) /\ z \o z = z
  OBVIOUS
<1>4. Decode(z).units = z /\ Decode(z).rest = z
  BY NothingDecoded
<1>5. UnitsExact
  <2> HIDE DEF z
  <2>1. Decode(buffer \o wire).units = z /\ Decode(buffer \o wire).rest = z
    BY <1>1, <1>3, <1>4
  <2>2. taken \o z = sent
    BY <1>1, <1>3
  <2> QED
    BY <2>1, <2>2 DEF UnitsExact, z
<1> HIDE DEF z
<1> QED
  BY <1>1, <1>2, <1>3, <1>5 DEF LinkTyped

LEMMA LinkWrites ==
    ASSUME LinkTyped, NEW unit \in Sendable, Write(unit), AdapterIdle, UNCHANGED session,
           ConsoleOf(console', session.map)
    PROVE  LinkTyped'
<1> DEFINE more == wire \o Code(unit)
<1>1. wire' = more /\ sent' = Append(sent, unit)
  BY DEF Write, Code
<1>2. /\ more \in Seq(Octet) /\ Append(sent, unit) \in Seq(Sendable)
      /\ taken \o Decode(buffer \o more).units = Append(sent, unit)
      /\ Decode(buffer \o more).rest = <<>>
  BY WrittenExact
<1> HIDE DEF more
<1>3. buffer' = buffer /\ inbox' = inbox /\ taken' = taken
  BY DEF AdapterIdle, adapterVars
<1>4. UnitsExact'
  <2>1. Decode(buffer' \o wire') = Decode(buffer \o more)
    BY <1>1, <1>3
  <2> QED
    BY <1>1, <1>2, <1>3, <2>1 DEF UnitsExact
<1> QED
  BY <1>1, <1>2, <1>3, <1>4 DEF LinkTyped

LEMMA LinkRead ==
    ASSUME LinkTyped, NEW n \in 1..Len(wire), AdapterRead(n)
    PROVE  LinkTyped'
<1> DEFINE a == SubSeq(wire, 1, n)
           b == From(wire, n + 1)
           d == Decode(buffer \o a)
           e == Decode(d.rest \o b)
<1>1. /\ buffer' = d.rest /\ inbox' = d.units /\ wire' = b /\ taken' = taken \o d.units
      /\ sent' = sent /\ session' = session /\ console' = console
  BY DEF AdapterRead, Accept, HostIdle
<1>2. /\ b \in Seq(Octet) /\ d.rest \in Seq(Octet)
      /\ d.units \in Seq(Sendable) /\ taken \o d.units \in Seq(Sendable)
      /\ (taken \o d.units) \o e.units = sent /\ e.rest = <<>>
  BY ReadExact
<1> HIDE DEF a, b, d
<1>3. Decode(buffer' \o wire') = e
  BY <1>1
<1> HIDE DEF e
<1>4. UnitsExact'
  BY <1>1, <1>2, <1>3 DEF UnitsExact
<1> QED
  BY <1>1, <1>2, <1>4 DEF LinkTyped

LEMMA ResponseIs ==
    ASSUME NEW map, NEW c, ConsoleOf(c, map), NEW reply
    PROVE  /\ ConsoleOf(Response(c, reply), map)
           /\ Response(c, reply).pending = IF reply.kind = "memory" THEN None ELSE c.pending
           /\ Response(c, reply).next = c.next
<1>1. ASSUME NEW x PROVE /\ ConsoleOf([c EXCEPT !.identity = x], map)
                         /\ [c EXCEPT !.identity = x].pending = c.pending
                         /\ [c EXCEPT !.identity = x].next = c.next
  <2>1. [c EXCEPT !.identity = x] = [map |-> map, identity |-> x, pending |-> c.pending, next |-> c.next]
    BY DEF ConsoleOf
  <2> QED
    BY <2>1 DEF ConsoleOf
<1>2. /\ ConsoleOf([c EXCEPT !.pending = None], map) /\ [c EXCEPT !.pending = None].pending = None
      /\ [c EXCEPT !.pending = None].next = c.next
  <2>1. [c EXCEPT !.pending = None]
        = [map |-> map, identity |-> c.identity, pending |-> None, next |-> c.next]
    BY DEF ConsoleOf
  <2> QED
    BY <2>1 DEF ConsoleOf
<1>3. CASE reply.kind = "identity"
  <2>1. Response(c, reply) = [c EXCEPT !.identity = reply.value]
    BY <1>3 DEF Response
  <2> QED
    BY <1>1, <1>3, <2>1
<1>4. CASE reply.kind = "memory"
  <2>1. Response(c, reply) = [c EXCEPT !.pending = None]
    BY <1>4 DEF Response, PendingTaken
  <2> QED
    BY <1>2, <1>4, <2>1
<1>5. CASE reply.kind \notin {"identity", "memory"}
  <2>1. Response(c, reply) = c
    BY <1>5 DEF Response
  <2> QED
    BY <1>5, <2>1
<1> QED
  BY <1>3, <1>4, <1>5

(* Everything but writing and reading leaves the link alone. *)
LEMMA LinkKeeps ==
    ASSUME LinkTyped, UNCHANGED <<buffer, session, wire, sent, taken>>, inbox' \in Seq(Sendable),
           ConsoleOf(console', session.map)
    PROVE  LinkTyped'
  BY DEF LinkTyped, UnitsExact

LEMMA IdentityAsked == DebugFrame(<<1>>) \in Sendable
<1> DEFINE op == 1
<1>1. op \in Octet /\ op \notin {2, 3, 13}
  BY DEF Octet
<1> HIDE DEF op
<1>2. <<op>> \in Requests
  BY <1>1, OneByteRequest
<1> QED
  BY <1>2 DEF Sendable, op

LEMMA LinkStep ==
    ASSUME DebuggingAssumption, LinkTyped, [Next]_vars
    PROVE  LinkTyped'
<1>0. ConsoleOf(console, session.map) /\ inbox \in Seq(Sendable) /\ session \in Sessions
  BY DEF LinkTyped
<1>1. CASE IdentityRequest
  <2>1. Write(DebugFrame(<<1>>)) /\ AdapterIdle /\ session' = session /\ console' = console
    BY <1>1 DEF IdentityRequest
  <2> QED
    BY <1>0, <2>1, IdentityAsked, LinkWrites
<1>2. ASSUME NEW cmd \in session.commands, DebuggerLine(cmd) PROVE LinkTyped'
  <2> DEFINE o == Command(console, cmd)
  <2>1. /\ console' = o.console /\ AdapterIdle /\ session' = session
        /\ IF o.request = <<>> THEN UNCHANGED <<wire, sent>> ELSE Write(DebugFrame(o.request))
    BY <1>2 DEF DebuggerLine
  <2>2. ConsoleOf(o.console, session.map) /\ (o.request = <<>> \/ o.request \in Requests)
    BY <1>0, <1>2, CommandSends DEF Sends
  <2> HIDE DEF o
  <2>3. CASE o.request = <<>>
    <3>1. UNCHANGED <<buffer, inbox, taken, wire, sent, session>>
      BY <2>1, <2>3 DEF AdapterIdle, adapterVars
    <3> QED
      BY <1>0, <2>1, <2>2, <3>1, LinkKeeps
  <2>4. CASE o.request # <<>>
    <3>1. DebugFrame(o.request) \in Sendable /\ Write(DebugFrame(o.request))
      BY <2>1, <2>2, <2>4 DEF Sendable
    <3> QED
      BY <2>1, <2>2, <3>1, LinkWrites
  <2> QED
    BY <2>3, <2>4
<1>3. CASE Heartbeat
  <2>1. Write(Raw(Beat)) /\ AdapterIdle /\ session' = session /\ console' = console
    BY <1>3 DEF Heartbeat, HostIdle, Beat
  <2>2. Raw(Beat) \in Sendable
    BY DEF Sendable
  <2> QED
    BY <1>0, <2>1, <2>2, LinkWrites
<1>4. CASE Restart
  <2>1. Write(Raw(<<255, 4>>)) /\ AdapterIdle /\ session' = session /\ console' = console
    BY <1>4 DEF Restart, HostIdle
  <2>2. Raw(<<255, 4>>) \in Sendable
    BY DEF Sendable
  <2> QED
    BY <1>0, <2>1, <2>2, LinkWrites
<1>5. ASSUME NEW n \in 1..Len(wire), AdapterRead(n) PROVE LinkTyped'
  BY <1>5, LinkRead
<1>6. CASE Handle
  <2>1. UNCHANGED <<buffer, session, wire, sent, taken, console>> /\ inbox' = Tail(inbox) /\ inbox # <<>>
    BY <1>6 DEF Handle, HandleFrame, HostIdle
  <2>2. Tail(inbox) \in Seq(Sendable)
    BY <1>0, <2>1
  <2> QED
    BY <1>0, <2>1, <2>2, LinkKeeps
<1>7. CASE Batch
  <2>1. UNCHANGED <<buffer, session, wire, sent, taken, console, inbox>>
    BY <1>7 DEF Batch, RunBatch, HostIdle
  <2> QED
    BY <1>0, <2>1, LinkKeeps
<1>8. CASE Deliver
  <2>1. /\ UNCHANGED <<buffer, session, wire, sent, taken, inbox>>
        /\ console' = Response(console, Head(adapter.replies))
    BY <1>8 DEF Deliver
  <2>2. ConsoleOf(console', session.map)
    BY <1>0, <2>1, ResponseIs
  <2> QED
    BY <1>0, <2>1, <2>2, LinkKeeps
<1>9. CASE GiveUp
  <2>1. UNCHANGED <<buffer, session, wire, sent, taken, console, inbox>>
    BY <1>9 DEF GiveUp, HostIdle
  <2> QED
    BY <1>0, <2>1, LinkKeeps
<1>10. CASE UNCHANGED vars
  <2>1. UNCHANGED <<buffer, session, wire, sent, taken, console, inbox>>
    BY <1>10 DEF vars, adapterVars
  <2> QED
    BY <1>0, <2>1, LinkKeeps
<1> QED
  BY <1>1, <1>2, <1>3, <1>4, <1>5, <1>6, <1>7, <1>8, <1>9, <1>10 DEF Next

(* Frames and heartbeats reach the emulator's side as they were written, each
   once and in order, wherever the reads cut them and whatever bytes of the
   one look like the other: for any commands, any debug map, and any number of
   heartbeats and restart requests among them. *)
THEOREM UnitsExactAlways == Spec => []UnitsExact
<1>1. Init => LinkTyped
  BY DebuggingAssumption, LinkInit
<1>2. LinkTyped /\ [Next]_vars => LinkTyped'
  BY DebuggingAssumption, LinkStep
<1>3. LinkTyped => UnitsExact
  BY DEF LinkTyped
<1> QED
  BY <1>1, <1>2, <1>3, PTL DEF Spec

-----------------------------------------------------------------------------
(* What the pane will show of a kind once all replies are delivered: the value
   of the last of that kind, or what it shows already. *)
Behind(q, kind, i) == \A j \in 1..Len(q) : j > i => q[j].kind # kind
LastIs(q, kind, shown, V) ==
    /\ \A i \in 1..Len(q) : q[i].kind = kind /\ Behind(q, kind, i) => q[i].value \in V
    /\ (\A i \in 1..Len(q) : q[i].kind # kind) => shown \in V

LEMMA LastOfNone ==
    ASSUME NEW kind, NEW V, NEW shown \in V
    PROVE  LastIs(<<>>, kind, shown, V)
  BY DEF LastIs

LEMMA LastShown ==
    ASSUME NEW kind, NEW V, NEW shown, LastIs(<<>>, kind, shown, V)
    PROVE  shown \in V
  BY DEF LastIs

LEMMA LastWider ==
    ASSUME NEW q, NEW kind, NEW V, NEW W, V \subseteq W, NEW shown, LastIs(q, kind, shown, V)
    PROVE  LastIs(q, kind, shown, W)
  BY DEF LastIs

LEMMA LastNew ==
    ASSUME NEW S, NEW q \in Seq(S), NEW r \in S, NEW V, r.value \in V, NEW shown
    PROVE  LastIs(Append(q, r), r.kind, shown, V)
<1> DEFINE p == Append(q, r)
           n == Len(q)
           k == r.kind
<1>1. n \in Nat /\ Len(p) = n + 1 /\ p[n + 1] = r
  OBVIOUS
<1> HIDE DEF p, n
<1>2. ASSUME NEW i \in 1..Len(p), Behind(p, k, i) PROVE p[i].value \in V
  <2>1. CASE i = n + 1
    BY <1>1, <2>1
  <2>2. CASE i # n + 1
    <3>1. n + 1 > i /\ n + 1 \in 1..Len(p)
      BY <1>1, <2>2
    <3>2. p[n + 1].kind # k
      BY <1>2, <3>1 DEF Behind
    <3> QED
      BY <1>1, <3>2
  <2> QED
    BY <2>1, <2>2
<1>3. n + 1 \in 1..Len(p) /\ p[n + 1].kind = k
  BY <1>1
<1> QED
  BY <1>2, <1>3 DEF LastIs, p

LEMMA LastOther ==
    ASSUME NEW S, NEW q \in Seq(S), NEW r \in S, NEW kind, r.kind # kind, NEW V, NEW shown,
           LastIs(q, kind, shown, V)
    PROVE  LastIs(Append(q, r), kind, shown, V)
<1> DEFINE p == Append(q, r)
           n == Len(q)
<1>1. n \in Nat /\ Len(p) = n + 1 /\ p[n + 1] = r /\ \A i \in 1..n : p[i] = q[i]
  OBVIOUS
<1> HIDE DEF p
<1>2. ASSUME NEW i \in 1..Len(p), p[i].kind = kind, Behind(p, kind, i) PROVE p[i].value \in V
  <2>1. i \in 1..n /\ p[i] = q[i]
    BY <1>1, <1>2
  <2>2. Behind(q, kind, i)
    BY <1>1, <1>2 DEF Behind
  <2> QED
    BY <1>2, <2>1, <2>2 DEF LastIs
<1>3. ASSUME \A i \in 1..Len(p) : p[i].kind # kind PROVE shown \in V
  <2>1. \A i \in 1..n : q[i].kind # kind
    BY <1>1, <1>3
  <2> QED
    BY <2>1 DEF LastIs
<1> QED
  BY <1>2, <1>3 DEF LastIs, p

LEMMA LastFront ==
    ASSUME NEW S, NEW q \in Seq(S), q # <<>>, NEW kind, Last(q).kind # kind, NEW V, NEW shown,
           LastIs(q, kind, shown, V)
    PROVE  Front(q) \in Seq(S) /\ LastIs(Front(q), kind, shown, V)
<1> DEFINE p == Front(q)
           n == Len(q)
<1>1. /\ n \in Nat /\ n >= 1 /\ p \in Seq(S) /\ Len(p) = n - 1 /\ \A i \in 1..(n - 1) : p[i] = q[i]
      /\ q[n].kind # kind
  <2>1. n \in Nat /\ n >= 1 /\ n - 1 \in 0..n
    OBVIOUS
  <2>2. p = SubSeq(q, 1, n - 1) /\ Last(q) = q[n]
    BY DEF Front, Last
  <2>3. q[n].kind # kind
    BY <2>2
  <2> HIDE DEF p
  <2> QED
    BY <2>1, <2>2, <2>3, FrontIs
<1> HIDE DEF p
<1>2. ASSUME NEW i \in 1..Len(p), p[i].kind = kind, Behind(p, kind, i) PROVE p[i].value \in V
  <2>1. i \in 1..n /\ p[i] = q[i]
    BY <1>1
  <2>2. Behind(q, kind, i)
    BY <1>1, <1>2 DEF Behind
  <2> QED
    BY <1>2, <2>1, <2>2 DEF LastIs
<1>3. ASSUME \A i \in 1..Len(p) : p[i].kind # kind PROVE shown \in V
  <2>1. \A i \in 1..n : q[i].kind # kind
    BY <1>1, <1>3
  <2> QED
    BY <2>1 DEF LastIs
<1> QED
  BY <1>1, <1>2, <1>3 DEF LastIs, p

LEMMA LastTail ==
    ASSUME NEW S, NEW q \in Seq(S), q # <<>>, NEW kind, NEW V, NEW shown,
           LastIs(q, kind, shown, V)
    PROVE  /\ Tail(q) \in Seq(S)
           /\ LastIs(Tail(q), kind, IF Head(q).kind = kind THEN Head(q).value ELSE shown, V)
<1> DEFINE p == Tail(q)
           n == Len(q)
           next == IF Head(q).kind = kind THEN Head(q).value ELSE shown
<1>1. /\ n \in Nat /\ n >= 1 /\ p \in Seq(S) /\ Len(p) = n - 1 /\ \A i \in 1..(n - 1) : p[i] = q[i + 1]
      /\ Head(q) = q[1]
  OBVIOUS
<1> HIDE DEF p
<1>2. ASSUME NEW i \in 1..Len(p), p[i].kind = kind, Behind(p, kind, i) PROVE p[i].value \in V
  <2>1. i + 1 \in 1..n /\ p[i] = q[i + 1]
    BY <1>1
  <2>2. ASSUME NEW j \in 1..n, j > i + 1 PROVE q[j].kind # kind
    <3>1. j - 1 \in 1..Len(p) /\ j - 1 > i /\ p[j - 1] = q[j]
      BY <1>1, <2>2
    <3> QED
      BY <1>2, <3>1 DEF Behind
  <2>3. Behind(q, kind, i + 1)
    BY <2>2 DEF Behind
  <2> QED
    BY <1>2, <2>1, <2>3 DEF LastIs
<1>3. ASSUME \A i \in 1..Len(p) : p[i].kind # kind PROVE next \in V
  <2>1. ASSUME NEW j \in 1..n, j > 1 PROVE q[j].kind # kind
    <3>1. j - 1 \in 1..Len(p) /\ p[j - 1] = q[j]
      BY <1>1, <2>1
    <3> QED
      BY <1>3, <3>1
  <2>2. CASE q[1].kind = kind
    <3>1. Behind(q, kind, 1) /\ 1 \in 1..n
      BY <1>1, <2>1 DEF Behind
    <3> QED
      BY <1>1, <2>2, <3>1 DEF LastIs
  <2>3. CASE q[1].kind # kind
    <3>1. ASSUME NEW j \in 1..n PROVE q[j].kind # kind
      <4>1. j = 1 \/ j > 1
        BY <1>1
      <4> QED
        BY <2>1, <2>3, <4>1
    <3> QED
      BY <1>1, <2>3, <3>1 DEF LastIs
  <2> QED
    BY <2>2, <2>3
<1> HIDE DEF next
<1> QED
  BY <1>1, <1>2, <1>3 DEF LastIs, p, next

-----------------------------------------------------------------------------
(* The emulator as its fields, and what holds of them and of the replies under
   way whatever the adapter does: the last breakpoints told are the ones there
   are, and the last report of an emulator that stands still is not that it
   runs. *)
Emulator(alive, running, stepped, points, todo, torn, replies) ==
    [alive |-> alive, running |-> running, stepped |-> stepped, points |-> points,
     todo |-> todo, torn |-> torn, replies |-> replies]
Whole(a) == a = Emulator(a.alive, a.running, a.stepped, a.points, a.todo, a.torn, a.replies)

Stops == {"paused", "halted", "breakpoint"}
Kinds == {"identity", "registers", "memory", "kill", "half", "rest", "notice", "points",
          "backtrace", "detached", "invalid"}
Values == Octet \cup Seq(Octet) \cup Stops \cup {"running"} \cup SUBSET Seq(Octet)
ReplySet == {r \in [kind : Kinds, value : Values] : r.kind = "memory" => r.value \in Seq(Octet)}
Asked == {r \in Requests : r[1] \in {1, 2, 3, 13}}
Notices(running, stepped) == IF ~running /\ ~stepped THEN Stops ELSE Stops \cup {"running"}

HeldOf(running, stepped, points, todo, replies, notice, shown) ==
    /\ points \subseteq Seq(Octet) /\ todo \in Seq(Asked) /\ replies \in Seq(ReplySet)
    /\ LastIs(replies, "points", shown, {points})
    /\ LastIs(replies, "notice", notice, Notices(running, stepped))
Fine(a, notice, shown) ==
    Whole(a) /\ HeldOf(a.running, a.stepped, a.points, a.todo, a.replies, notice, shown)

LEMMA FineIs ==
    ASSUME NEW alive, NEW running, NEW stepped, NEW points, NEW todo, NEW torn, NEW replies,
           NEW notice, NEW shown,
           HeldOf(running, stepped, points, todo, replies, notice, shown)
    PROVE  Fine(Emulator(alive, running, stepped, points, todo, torn, replies), notice, shown)
<1> DEFINE a == Emulator(alive, running, stepped, points, todo, torn, replies)
<1>1. /\ a.alive = alive /\ a.running = running /\ a.stepped = stepped /\ a.points = points
      /\ a.todo = todo /\ a.torn = torn /\ a.replies = replies
  BY DEF Emulator
<1> HIDE DEF a
<1>2. Whole(a)
  <2>1. a = Emulator(alive, running, stepped, points, todo, torn, replies)
    BY DEF a
  <2> QED
    BY <1>1, <2>1, Zenon DEF Whole
<1>3. HeldOf(a.running, a.stepped, a.points, a.todo, a.replies, notice, shown)
  BY <1>1, Zenon
<1> QED
  BY <1>2, <1>3 DEF Fine, a

LEMMA ReplyIs ==
    ASSUME NEW k \in Kinds, NEW v \in Values, k = "memory" => v \in Seq(Octet)
    PROVE  Reply(k, v) \in ReplySet /\ Reply(k, v).kind = k /\ Reply(k, v).value = v
  BY DEF Reply, ReplySet

LEMMA ValuesAre ==
    Octet \subseteq Values /\ Seq(Octet) \subseteq Values /\ Stops \cup {"running"} \subseteq Values
    /\ SUBSET Seq(Octet) \subseteq Values
  BY DEF Values

(* Any other reply, a report, the breakpoints, and an emulator that runs. *)
LEMMA HeldOther ==
    ASSUME NEW ru, NEW st, NEW po, NEW to, NEW re, NEW n, NEW p, HeldOf(ru, st, po, to, re, n, p),
           NEW r \in ReplySet, r.kind \notin {"points", "notice"}
    PROVE  HeldOf(ru, st, po, to, Append(re, r), n, p)
<1>1. re \in Seq(ReplySet) /\ LastIs(re, "points", p, {po}) /\ LastIs(re, "notice", n, Notices(ru, st))
  BY DEF HeldOf
<1>2. Append(re, r) \in Seq(ReplySet)
  BY <1>1
<1>3. r.kind # "points" /\ r.kind # "notice"
  OBVIOUS
<1>4. LastIs(Append(re, r), "points", p, {po}) /\ LastIs(Append(re, r), "notice", n, Notices(ru, st))
  BY <1>1, <1>3, LastOther
<1> QED
  BY <1>2, <1>4 DEF HeldOf

LEMMA HeldNotice ==
    ASSUME NEW ru, NEW st, NEW po, NEW to, NEW re, NEW n, NEW p, HeldOf(ru, st, po, to, re, n, p),
           NEW running, NEW stepped, NEW v \in Notices(running, stepped)
    PROVE  HeldOf(running, stepped, po, to, Append(re, Reply("notice", v)), n, p)
<1> DEFINE r == Reply("notice", v)
           k == "notice"
           V == Notices(running, stepped)
<1>1. re \in Seq(ReplySet) /\ LastIs(re, "points", p, {po})
  BY DEF HeldOf
<1>2. v \in Values
  <2>1. v \in Stops \cup {"running"}
    BY DEF Notices
  <2> QED
    BY <2>1, ValuesAre
<1>a. k \in Kinds /\ k # "points" /\ k # "memory" /\ k = "notice"
  BY DEF Kinds
<1>b. r = Reply(k, v)
  OBVIOUS
<1> HIDE DEF k, r
<1>3. r \in ReplySet /\ r.kind = k /\ r.value = v /\ k # "points" /\ k = "notice"
  BY <1>2, <1>a, <1>b, ReplyIs
<1>4. v \in V
  OBVIOUS
<1> HIDE DEF r, k, V
<1>5. Append(re, r) \in Seq(ReplySet)
  BY <1>1, <1>3
<1>6. LastIs(Append(re, r), "points", p, {po})
  BY <1>1, <1>3, LastOther
<1>7. LastIs(Append(re, r), r.kind, n, V)
  BY <1>1, <1>3, <1>4, LastNew
<1>8. LastIs(Append(re, r), "notice", n, V)
  BY <1>3, <1>7
<1> QED
  BY <1>5, <1>6, <1>8 DEF HeldOf, r, V

LEMMA HeldPoints ==
    ASSUME NEW ru, NEW st, NEW po, NEW to, NEW re, NEW n, NEW p, HeldOf(ru, st, po, to, re, n, p),
           NEW points, points \subseteq Seq(Octet)
    PROVE  HeldOf(ru, st, points, to, Append(re, Reply("points", points)), n, p)
<1> DEFINE r == Reply("points", points)
           k == "points"
           V == {points}
<1>1. re \in Seq(ReplySet) /\ LastIs(re, "notice", n, Notices(ru, st))
  BY DEF HeldOf
<1>2. points \in Values
  BY ValuesAre
<1>a. k \in Kinds /\ k # "notice" /\ k # "memory" /\ k = "points"
  BY DEF Kinds
<1>b. r = Reply(k, points)
  OBVIOUS
<1> HIDE DEF k, r
<1>3. r \in ReplySet /\ r.kind = k /\ r.value = points /\ k # "notice" /\ k = "points"
  BY <1>2, <1>a, <1>b, ReplyIs
<1>4. points \in V
  OBVIOUS
<1> HIDE DEF r, k, V
<1>5. Append(re, r) \in Seq(ReplySet)
  BY <1>1, <1>3
<1>6. LastIs(Append(re, r), "notice", n, Notices(ru, st))
  BY <1>1, <1>3, LastOther
<1>7. LastIs(Append(re, r), r.kind, p, V)
  BY <1>1, <1>3, <1>4, LastNew
<1>8. LastIs(Append(re, r), "points", p, V)
  BY <1>3, <1>7
<1> QED
  BY <1>5, <1>6, <1>8 DEF HeldOf, r, V

LEMMA HeldRuns ==
    ASSUME NEW ru, NEW st, NEW po, NEW to, NEW re, NEW n, NEW p, HeldOf(ru, st, po, to, re, n, p),
           NEW running, NEW stepped, running \/ stepped
    PROVE  HeldOf(running, stepped, po, to, re, n, p)
<1>1. Notices(ru, st) \subseteq Notices(running, stepped)
  BY DEF Notices
<1>2. LastIs(re, "notice", n, Notices(running, stepped))
  BY <1>1, LastWider DEF HeldOf
<1> QED
  BY <1>2 DEF HeldOf

(* A field replaced. *)
WithAlive(e, x) == [e EXCEPT !.alive = x]
WithRunning(e, x) == [e EXCEPT !.running = x]
WithStepped(e, x) == [e EXCEPT !.stepped = x]
WithPoints(e, x) == [e EXCEPT !.points = x]
WithTodo(e, x) == [e EXCEPT !.todo = x]
WithTorn(e, x) == [e EXCEPT !.torn = x]
WithReplies(e, x) == [e EXCEPT !.replies = x]

LEMMA FieldsSet ==
    ASSUME NEW al, NEW ru, NEW st, NEW po, NEW to, NEW tn, NEW re,
           NEW e, e = Emulator(al, ru, st, po, to, tn, re), NEW x
    PROVE  /\ WithAlive(e, x) = Emulator(x, ru, st, po, to, tn, re)
           /\ WithRunning(e, x) = Emulator(al, x, st, po, to, tn, re)
           /\ WithStepped(e, x) = Emulator(al, ru, x, po, to, tn, re)
           /\ WithPoints(e, x) = Emulator(al, ru, st, x, to, tn, re)
           /\ WithTodo(e, x) = Emulator(al, ru, st, po, x, tn, re)
           /\ WithTorn(e, x) = Emulator(al, ru, st, po, to, x, re)
           /\ WithReplies(e, x) = Emulator(al, ru, st, po, to, tn, x)
<1> DEFINE E == Emulator(al, ru, st, po, to, tn, re)
<1>1. WithAlive(E, x) = Emulator(x, ru, st, po, to, tn, re)
  BY DEF Emulator, WithAlive
<1>2. WithRunning(E, x) = Emulator(al, x, st, po, to, tn, re)
  BY DEF Emulator, WithRunning
<1>3. WithStepped(E, x) = Emulator(al, ru, x, po, to, tn, re)
  BY DEF Emulator, WithStepped
<1>4. WithPoints(E, x) = Emulator(al, ru, st, x, to, tn, re)
  BY DEF Emulator, WithPoints
<1>5. WithTodo(E, x) = Emulator(al, ru, st, po, x, tn, re)
  BY DEF Emulator, WithTodo
<1>6. WithTorn(E, x) = Emulator(al, ru, st, po, to, x, re)
  BY DEF Emulator, WithTorn
<1>7. WithReplies(E, x) = Emulator(al, ru, st, po, to, tn, x)
  BY DEF Emulator, WithReplies
<1> QED
  BY <1>1, <1>2, <1>3, <1>4, <1>5, <1>6, <1>7

LEMMA FieldsAre ==
    ASSUME NEW al, NEW ru, NEW st, NEW po, NEW to, NEW tn, NEW re
    PROVE  LET e == Emulator(al, ru, st, po, to, tn, re) IN
           /\ e.alive = al /\ e.running = ru /\ e.stepped = st /\ e.points = po
           /\ e.todo = to /\ e.torn = tn /\ e.replies = re
  BY DEF Emulator

LEMMA ToldIs ==
    ASSUME NEW al, NEW ru, NEW st, NEW po, NEW to, NEW tn, NEW re,
           NEW e, e = Emulator(al, ru, st, po, to, tn, re), NEW k, NEW v
    PROVE  Told(e, k, v) = Emulator(al, ru, st, po, to, tn, Append(re, Reply(k, v)))
<1> DEFINE E == Emulator(al, ru, st, po, to, tn, re)
<1>1. Told(E, k, v) = Emulator(al, ru, st, po, to, tn, Append(re, Reply(k, v)))
  BY DEF Told, Emulator
<1> QED
  BY <1>1

(* Fields replaced one after the other. *)
Moved(e, x, y) == [e EXCEPT !.running = x, !.stepped = y]
Begun(e, x, y) == [e EXCEPT !.torn = x, !.replies = y]
Ended(e, x, y, z) == [e EXCEPT !.todo = x, !.torn = y, !.replies = z]

LEMMA OneByOne ==
    ASSUME NEW e, NEW x, NEW y, NEW z
    PROVE  /\ Moved(e, x, y) = WithStepped(WithRunning(e, x), y)
           /\ Begun(e, x, y) = WithReplies(WithTorn(e, x), y)
           /\ Ended(e, x, y, z) = WithReplies(WithTorn(WithTodo(e, x), y), z)
  BY DEF Moved, Begun, Ended, WithRunning, WithStepped, WithTodo, WithTorn, WithReplies

LEMMA FieldsMoved ==
    ASSUME NEW al, NEW ru, NEW st, NEW po, NEW to, NEW tn, NEW re,
           NEW e, e = Emulator(al, ru, st, po, to, tn, re), NEW x, NEW y
    PROVE  /\ Moved(e, x, y) = Emulator(al, x, y, po, to, tn, re)
           /\ Begun(e, x, y) = Emulator(al, ru, st, po, to, x, y)
<1>1. Moved(e, x, y) = Emulator(al, x, y, po, to, tn, re)
  <2> DEFINE f == WithRunning(e, x)
  <2>1. f = Emulator(al, x, st, po, to, tn, re)
    BY FieldsSet
  <2>2. Moved(e, x, y) = WithStepped(f, y)
    BY OneByOne
  <2> HIDE DEF f
  <2> QED
    BY <2>1, <2>2, FieldsSet
<1>2. Begun(e, x, y) = Emulator(al, ru, st, po, to, x, y)
  <2> DEFINE f == WithTorn(e, x)
  <2>1. f = Emulator(al, ru, st, po, to, x, re)
    BY FieldsSet
  <2>2. Begun(e, x, y) = WithReplies(f, y)
    BY OneByOne
  <2> HIDE DEF f
  <2> QED
    BY <2>1, <2>2, FieldsSet
<1> QED
  BY <1>1, <1>2

LEMMA FieldsEnded ==
    ASSUME NEW al, NEW ru, NEW st, NEW po, NEW to, NEW tn, NEW re,
           NEW e, e = Emulator(al, ru, st, po, to, tn, re), NEW x, NEW y, NEW z
    PROVE  Ended(e, x, y, z) = Emulator(al, ru, st, po, x, y, z)
<1> DEFINE f == WithTodo(e, x)
           g == WithTorn(f, y)
<1>1. f = Emulator(al, ru, st, po, x, tn, re)
  BY FieldsSet
<1>2. Ended(e, x, y, z) = WithReplies(g, z)
  BY OneByOne
<1> HIDE DEF f
<1>3. g = Emulator(al, ru, st, po, x, y, re)
  BY <1>1, FieldsSet
<1> HIDE DEF g
<1> QED
  BY <1>2, <1>3, FieldsSet

LEMMA HalvedIs ==
    ASSUME NEW a
    PROVE  Halved(a) = Begun(a, TRUE, Append(a.replies, Reply("half", 0)))
  BY Zenon DEF Halved, Begun

AnsweredReplies(to, tn, re) ==
    IF ~tn THEN Append(re, Answer(Head(to)))
    ELSE IF re # <<>> /\ Last(re).kind = "half" THEN Append(Front(re), Answer(Head(to)))
    ELSE Append(re, Reply("rest", 0))
LEMMA AnsweredIs ==
    ASSUME NEW a
    PROVE  Answered(a)
           = Ended(a, Tail(a.todo), FALSE, AnsweredReplies(a.todo, a.torn, a.replies))
  BY Zenon DEF Answered, AnsweredReplies, Ended

(* What the adapter does keeps all that. *)
LEMMA TellsFine ==
    ASSUME NEW a, NEW n, NEW p, Fine(a, n, p), NEW k \in Kinds, k \notin {"points", "notice"},
           NEW v \in Values, k = "memory" => v \in Seq(Octet)
    PROVE  Fine(Told(a, k, v), n, p)
<1> DEFINE al == a.alive
           ru == a.running
           st == a.stepped
           po == a.points
           to == a.todo
           tn == a.torn
           re == a.replies
<1>0. a = Emulator(al, ru, st, po, to, tn, re) /\ HeldOf(ru, st, po, to, re, n, p)
  BY Zenon DEF Fine, Whole
<1> HIDE DEF al, ru, st, po, to, tn, re
<1>1. Told(a, k, v) = Emulator(al, ru, st, po, to, tn, Append(re, Reply(k, v)))
  BY <1>0, ToldIs
<1>2. Reply(k, v) \in ReplySet /\ Reply(k, v).kind \notin {"points", "notice"}
  BY ReplyIs
<1>3. HeldOf(ru, st, po, to, Append(re, Reply(k, v)), n, p)
  BY <1>0, <1>2, HeldOther
<1> QED
  BY <1>1, <1>3, FineIs

LEMMA ReportsFine ==
    ASSUME NEW a, NEW n, NEW p, Fine(a, n, p), NEW running, NEW stepped,
           NEW v \in Notices(running, stepped)
    PROVE  Fine(Told(Moved(a, running, stepped), "notice", v), n, p)
<1> DEFINE al == a.alive
           ru == a.running
           st == a.stepped
           po == a.points
           to == a.todo
           tn == a.torn
           re == a.replies
<1>0. a = Emulator(al, ru, st, po, to, tn, re) /\ HeldOf(ru, st, po, to, re, n, p)
  BY Zenon DEF Fine, Whole
<1> HIDE DEF al, ru, st, po, to, tn, re
<1> DEFINE b == Moved(a, running, stepped)
<1>1. b = Emulator(al, running, stepped, po, to, tn, re)
  BY <1>0, FieldsMoved
<1> HIDE DEF b
<1>2. Told(b, "notice", v) = Emulator(al, running, stepped, po, to, tn, Append(re, Reply("notice", v)))
  BY <1>1, ToldIs
<1>3. HeldOf(running, stepped, po, to, Append(re, Reply("notice", v)), n, p)
  BY <1>0, HeldNotice
<1> QED
  BY <1>2, <1>3, FineIs DEF b

LEMMA PointsFine ==
    ASSUME NEW a, NEW n, NEW p, Fine(a, n, p), NEW points, points \subseteq Seq(Octet)
    PROVE  Fine(Points(WithPoints(a, points)), n, p)
<1> DEFINE al == a.alive
           ru == a.running
           st == a.stepped
           po == a.points
           to == a.todo
           tn == a.torn
           re == a.replies
<1>0. a = Emulator(al, ru, st, po, to, tn, re) /\ HeldOf(ru, st, po, to, re, n, p)
  BY Zenon DEF Fine, Whole
<1> HIDE DEF al, ru, st, po, to, tn, re
<1> DEFINE b == WithPoints(a, points)
<1>1. b = Emulator(al, ru, st, points, to, tn, re)
  BY <1>0, FieldsSet
<1> HIDE DEF b
<1>2. b.points = points
  BY <1>1, FieldsAre
<1>3. Points(b) = Emulator(al, ru, st, points, to, tn, Append(re, Reply("points", points)))
  BY <1>1, <1>2, ToldIs DEF Points
<1>4. HeldOf(ru, st, points, to, Append(re, Reply("points", points)), n, p)
  BY <1>0, HeldPoints
<1> QED
  BY <1>3, <1>4, FineIs DEF b

LEMMA MovesFine ==
    ASSUME NEW a, NEW n, NEW p, Fine(a, n, p), NEW x, NEW y, x \/ y
    PROVE  Fine(Moved(a, x, y), n, p)
<1> DEFINE al == a.alive
           ru == a.running
           st == a.stepped
           po == a.points
           to == a.todo
           tn == a.torn
           re == a.replies
<1>0. a = Emulator(al, ru, st, po, to, tn, re) /\ HeldOf(ru, st, po, to, re, n, p)
  BY Zenon DEF Fine, Whole
<1> HIDE DEF al, ru, st, po, to, tn, re
<1>1. Moved(a, x, y) = Emulator(al, x, y, po, to, tn, re)
  BY ONLY <1>0, FieldsMoved
<1>2. HeldOf(x, y, po, to, re, n, p)
  BY <1>0, HeldRuns
<1> QED
  BY ONLY <1>1, <1>2, FineIs

LEMMA ResumesFine ==
    ASSUME NEW a, NEW n, NEW p, Fine(a, n, p)
    PROVE  Fine(Resumed(a), n, p)
<1> DEFINE x == TRUE
           y == FALSE
<1>1. Resumed(a) = Moved(a, x, y) /\ (x \/ y)
  BY Zenon DEF Resumed, Moved
<1> HIDE DEF x, y
<1> QED
  BY <1>1, MovesFine

LEMMA StopFine ==
    ASSUME NEW a, NEW n, NEW p, Fine(a, n, p), NEW x, NEW v \in Notices(x, a.stepped)
    PROVE  Fine(Told(WithRunning(a, x), "notice", v), n, p)
<1> DEFINE al == a.alive
           ru == a.running
           st == a.stepped
           po == a.points
           to == a.todo
           tn == a.torn
           re == a.replies
<1>0. a = Emulator(al, ru, st, po, to, tn, re) /\ HeldOf(ru, st, po, to, re, n, p)
  BY Zenon DEF Fine, Whole
<1>a. v \in Notices(x, st)
  OBVIOUS
<1> HIDE DEF al, ru, st, po, to, tn, re
<1> DEFINE b == WithRunning(a, x)
<1>1. b = Emulator(al, x, st, po, to, tn, re)
  BY <1>0, FieldsSet
<1> HIDE DEF b
<1>2. Told(b, "notice", v) = Emulator(al, x, st, po, to, tn, Append(re, Reply("notice", v)))
  BY <1>1, ToldIs
<1>3. HeldOf(x, st, po, to, Append(re, Reply("notice", v)), n, p)
  BY <1>0, <1>a, HeldNotice
<1> QED
  BY <1>2, <1>3, FineIs DEF b

LEMMA StopsFine ==
    ASSUME NEW a, NEW n, NEW p, Fine(a, n, p), NEW b \in Stopped(a)
    PROVE  Fine(b, n, p)
<1> DEFINE x == FALSE
<1>1. PICK reason \in StopReasons(a) : b = StopTold(a, reason)
  BY DEF Stopped
<1>2. StopTold(a, reason) = Told(WithRunning(a, x), "notice", reason)
  BY Zenon DEF StopTold, WithRunning
<1>3. reason \in Notices(x, a.stepped)
  BY <1>1 DEF StopReasons, Notices, Stops
<1> HIDE DEF x
<1> QED
  BY <1>1, <1>2, <1>3, StopFine

LEMMA AnswerIs ==
    ASSUME NEW r \in Asked
    PROVE  Answer(r) \in ReplySet /\ Answer(r).kind \notin {"points", "notice", "half"}
<1>1. /\ r \in Seq(Octet) /\ r[1] \in {1, 2, 3, 13}
      /\ (r[1] \in {2, 13} => Len(r) = 2) /\ (r[1] = 3 => Len(r) = 5)
  BY Zenon DEF Asked, Requests
<1>2. Len(r) = 2 => r[2] \in Octet
  <2>1. ASSUME NEW s \in Seq(Octet), Len(s) = 2 PROVE s[2] \in Octet
    BY <2>1
  <2> QED
    BY <1>1, <2>1
<1>3. CASE r[1] = 1
  <2>1. Answer(r) = Reply("identity", TargetBuild)
    BY <1>3 DEF Answer
  <2>2. TargetBuild \in Values /\ "identity" \in Kinds
    BY ValuesAre DEF TargetBuild, Octet, Kinds
  <2> QED
    BY <2>1, <2>2, ReplyIs
<1>4. CASE r[1] = 2
  <2>1. Answer(r) = Reply("registers", r[2])
    BY <1>4 DEF Answer
  <2>2. r[2] \in Values /\ "registers" \in Kinds
    BY <1>1, <1>2, <1>4, ValuesAre DEF Kinds
  <2> QED
    BY <2>1, <2>2, ReplyIs
<1>5. CASE r[1] = 13
  <2>1. Answer(r) = Reply("kill", r[2])
    BY <1>5 DEF Answer
  <2>2. r[2] \in Values /\ "kill" \in Kinds
    BY <1>1, <1>2, <1>5, ValuesAre DEF Kinds
  <2> QED
    BY <2>1, <2>2, ReplyIs
<1>6. CASE r[1] = 3
  <2>1. Answer(r) = Reply("memory", SubSeq(r, 2, 4))
    BY <1>6 DEF Answer
  <2>0. Len(r) = 5 /\ 2 \in 1..(Len(r) + 1) /\ 4 \in (2 - 1)..Len(r)
    BY <1>1, <1>6
  <2>2. SubSeq(r, 2, 4) \in Seq(Octet)
    BY <1>1, <2>0, Parted DEF PartOf
  <2>3. SubSeq(r, 2, 4) \in Values /\ "memory" \in Kinds
    BY <2>2, ValuesAre DEF Kinds
  <2> QED
    BY <2>1, <2>2, <2>3, ReplyIs
<1> QED
  BY <1>1, <1>3, <1>4, <1>5, <1>6

LEMMA HeldTodo ==
    ASSUME NEW ru, NEW st, NEW po, NEW to, NEW re, NEW n, NEW p, HeldOf(ru, st, po, to, re, n, p),
           NEW x \in Seq(Asked)
    PROVE  HeldOf(ru, st, po, x, re, n, p)
  BY Zenon DEF HeldOf

LEMMA HeldFront ==
    ASSUME NEW ru, NEW st, NEW po, NEW to, NEW re, NEW n, NEW p, HeldOf(ru, st, po, to, re, n, p),
           re # <<>>, Last(re).kind = "half"
    PROVE  HeldOf(ru, st, po, to, Front(re), n, p)
<1>1. re \in Seq(ReplySet) /\ LastIs(re, "points", p, {po}) /\ LastIs(re, "notice", n, Notices(ru, st))
  BY DEF HeldOf
<1>2. Last(re).kind # "points" /\ Last(re).kind # "notice"
  OBVIOUS
<1>3. /\ Front(re) \in Seq(ReplySet) /\ LastIs(Front(re), "points", p, {po})
      /\ LastIs(Front(re), "notice", n, Notices(ru, st))
  BY <1>1, <1>2, LastFront
<1> QED
  BY <1>3, Zenon DEF HeldOf

LEMMA AliveFine ==
    ASSUME NEW a, NEW n, NEW p, Fine(a, n, p), NEW x
    PROVE  Fine(WithAlive(a, x), n, p)
<1> DEFINE al == a.alive
           ru == a.running
           st == a.stepped
           po == a.points
           to == a.todo
           tn == a.torn
           re == a.replies
<1>0. a = Emulator(al, ru, st, po, to, tn, re) /\ HeldOf(ru, st, po, to, re, n, p)
  BY Zenon DEF Fine, Whole
<1> HIDE DEF al, ru, st, po, to, tn, re
<1>1. WithAlive(a, x) = Emulator(x, ru, st, po, to, tn, re)
  BY <1>0, FieldsSet
<1> QED
  BY <1>0, <1>1, FineIs

LEMMA TodoFine ==
    ASSUME NEW a, NEW n, NEW p, Fine(a, n, p), NEW x \in Seq(Asked)
    PROVE  Fine(WithTodo(a, x), n, p)
<1> DEFINE al == a.alive
           ru == a.running
           st == a.stepped
           po == a.points
           to == a.todo
           tn == a.torn
           re == a.replies
<1>0. a = Emulator(al, ru, st, po, to, tn, re) /\ HeldOf(ru, st, po, to, re, n, p)
  BY Zenon DEF Fine, Whole
<1> HIDE DEF al, ru, st, po, to, tn, re
<1>1. WithTodo(a, x) = Emulator(al, ru, st, po, x, tn, re)
  BY <1>0, FieldsSet
<1>2. HeldOf(ru, st, po, x, re, n, p)
  BY <1>0, HeldTodo
<1> QED
  BY <1>1, <1>2, FineIs

LEMMA SteppedFine ==
    ASSUME NEW a, NEW n, NEW p, Fine(a, n, p), NEW x, x \/ a.running
    PROVE  Fine(WithStepped(a, x), n, p) /\ WithStepped(a, x).stepped = x
           /\ WithStepped(a, x).running = a.running
<1> DEFINE al == a.alive
           ru == a.running
           st == a.stepped
           po == a.points
           to == a.todo
           tn == a.torn
           re == a.replies
<1>0. a = Emulator(al, ru, st, po, to, tn, re) /\ HeldOf(ru, st, po, to, re, n, p)
  BY Zenon DEF Fine, Whole
<1>1. x \/ ru
  OBVIOUS
<1> HIDE DEF al, ru, st, po, to, tn, re
<1>2. WithStepped(a, x) = Emulator(al, ru, x, po, to, tn, re) /\ a.running = ru
  BY ONLY <1>0, FieldsSet, FieldsAre
<1>3. HeldOf(ru, x, po, to, re, n, p)
  BY <1>0, <1>1, HeldRuns
<1>4. Fine(WithStepped(a, x), n, p)
  BY ONLY <1>2, <1>3, FineIs
<1> QED
  BY ONLY <1>2, <1>4, FieldsAre

LEMMA NoticeFine ==
    ASSUME NEW a, NEW n, NEW p, Fine(a, n, p), NEW v \in Notices(a.running, a.stepped)
    PROVE  Fine(Told(a, "notice", v), n, p)
<1> DEFINE al == a.alive
           ru == a.running
           st == a.stepped
           po == a.points
           to == a.todo
           tn == a.torn
           re == a.replies
<1>0. a = Emulator(al, ru, st, po, to, tn, re) /\ HeldOf(ru, st, po, to, re, n, p)
  BY Zenon DEF Fine, Whole
<1>1. v \in Notices(ru, st)
  OBVIOUS
<1> HIDE DEF al, ru, st, po, to, tn, re
<1>2. Told(a, "notice", v) = Emulator(al, ru, st, po, to, tn, Append(re, Reply("notice", v)))
  BY <1>0, ToldIs
<1>3. HeldOf(ru, st, po, to, Append(re, Reply("notice", v)), n, p)
  BY <1>0, <1>1, HeldNotice
<1> QED
  BY <1>2, <1>3, FineIs

LEMMA ListFine ==
    ASSUME NEW a, NEW n, NEW p, Fine(a, n, p)
    PROVE  Fine(Points(a), n, p)
<1> DEFINE al == a.alive
           ru == a.running
           st == a.stepped
           po == a.points
           to == a.todo
           tn == a.torn
           re == a.replies
<1>0. a = Emulator(al, ru, st, po, to, tn, re) /\ HeldOf(ru, st, po, to, re, n, p)
  BY Zenon DEF Fine, Whole
<1>a. Points(a) = Told(a, "points", po)
  BY Zenon DEF Points
<1> HIDE DEF al, ru, st, po, to, tn, re
<1>1. Points(a) = Emulator(al, ru, st, po, to, tn, Append(re, Reply("points", po)))
  BY <1>0, <1>a, ToldIs
<1>2. po \subseteq Seq(Octet)
  BY <1>0 DEF HeldOf
<1>3. HeldOf(ru, st, po, to, Append(re, Reply("points", po)), n, p)
  BY <1>0, <1>2, HeldPoints
<1> QED
  BY <1>1, <1>3, FineIs

LEMMA AnsweredFine ==
    ASSUME NEW a, NEW n, NEW p, Fine(a, n, p), a.todo # <<>>
    PROVE  Fine(Answered(a), n, p)
<1> DEFINE al == a.alive
           ru == a.running
           st == a.stepped
           po == a.points
           to == a.todo
           tn == a.torn
           re == a.replies
<1>0. a = Emulator(al, ru, st, po, to, tn, re) /\ HeldOf(ru, st, po, to, re, n, p)
  BY Zenon DEF Fine, Whole
<1>a. to # <<>>
  OBVIOUS
<1> DEFINE x == Tail(to)
           y == FALSE
           z == AnsweredReplies(to, tn, re)
           r == Answer(Head(to))
<1>b. Answered(a) = Ended(a, x, y, z)
  BY AnsweredIs
<1> HIDE DEF al, ru, st, po, to, tn, re
<1>2. to \in Seq(Asked)
  BY <1>0 DEF HeldOf
<1>3. x \in Seq(Asked) /\ Head(to) \in Asked
  BY <1>a, <1>2
<1>4. r \in ReplySet /\ r.kind \notin {"points", "notice"}
  BY <1>3, AnswerIs
<1> HIDE DEF r
<1>5. HeldOf(ru, st, po, to, z, n, p)
  <2>1. CASE ~tn
    <3>1. z = Append(re, r)
      BY <2>1 DEF AnsweredReplies, r
    <3> HIDE DEF z
    <3> QED
      BY <1>0, <1>4, <3>1, HeldOther
  <2>2. CASE tn /\ re # <<>> /\ Last(re).kind = "half"
    <3>1. z = Append(Front(re), r)
      BY <2>2 DEF AnsweredReplies, r
    <3> HIDE DEF z
    <3>2. HeldOf(ru, st, po, to, Front(re), n, p)
      BY <1>0, <2>2, HeldFront
    <3> QED
      BY <1>4, <3>1, <3>2, HeldOther
  <2>3. CASE tn /\ ~(re # <<>> /\ Last(re).kind = "half")
    <3> DEFINE s == Reply("rest", 0)
    <3>1. z = Append(re, s)
      BY <2>3, Zenon DEF AnsweredReplies
    <3>2. 0 \in Values /\ "rest" \in Kinds
      BY ValuesAre DEF Octet, Kinds
    <3>3. s \in ReplySet /\ s.kind \notin {"points", "notice"}
      BY <3>2, ReplyIs
    <3> HIDE DEF z, s
    <3> QED
      BY <1>0, <3>1, <3>3, HeldOther
  <2> QED
    BY <2>1, <2>2, <2>3
<1> HIDE DEF x, y, z
<1>1. Answered(a) = Emulator(al, ru, st, po, x, y, z)
  BY <1>0, <1>b, FieldsEnded
<1>6. HeldOf(ru, st, po, x, z, n, p)
  BY <1>3, <1>5, HeldTodo
<1> QED
  BY <1>1, <1>6, FineIs

LEMMA HalvedFine ==
    ASSUME NEW a, NEW n, NEW p, Fine(a, n, p)
    PROVE  Fine(Halved(a), n, p)
<1> DEFINE al == a.alive
           ru == a.running
           st == a.stepped
           po == a.points
           to == a.todo
           tn == a.torn
           re == a.replies
<1>0. a = Emulator(al, ru, st, po, to, tn, re) /\ HeldOf(ru, st, po, to, re, n, p)
  BY Zenon DEF Fine, Whole
<1> DEFINE x == TRUE
           s == Reply("half", 0)
<1>b. Halved(a) = Begun(a, x, Append(re, s))
  BY HalvedIs
<1> HIDE DEF al, ru, st, po, to, tn, re
<1>2. 0 \in Values /\ "half" \in Kinds
  BY ValuesAre DEF Octet, Kinds
<1>3. s \in ReplySet /\ s.kind \notin {"points", "notice"}
  BY <1>2, ReplyIs
<1> HIDE DEF x, s
<1>1. Halved(a) = Emulator(al, ru, st, po, to, x, Append(re, s))
  BY <1>0, <1>b, FieldsMoved
<1>4. HeldOf(ru, st, po, to, Append(re, s), n, p)
  BY <1>0, <1>3, HeldOther
<1> QED
  BY <1>1, <1>4, FineIs

LEMMA FlushesFine ==
    ASSUME NEW a, NEW n, NEW p, Fine(a, n, p), NEW b \in Flushed(a)
    PROVE  Fine(b, n, p)
<1>1. b = a \/ (a.todo # <<>> /\ b = Answered(a)) \/ b = Halved(a)
  BY DEF Flushed
<1> QED
  BY <1>1, AnsweredFine, HalvedFine

LEMMA FedFine ==
    ASSUME NEW a, NEW n, NEW p, Fine(a, n, p), NEW b \in Fed(a)
    PROVE  Fine(b, n, p)
<1> DEFINE ran == {Resumed(a)}
           once == ran \cup Stopped(Resumed(a))
           ends == once \cup UNION {{Resumed(c)} \cup Stopped(Resumed(c)) : c \in once}
<1>1. \A c \in once : Fine(c, n, p)
  BY ResumesFine, StopsFine
<1> HIDE DEF once
<1>2. \A e \in ends : Fine(e, n, p)
  BY <1>1, ResumesFine, StopsFine
<1>3. PICK e \in ends : b \in Flushed(e)
  BY DEF Fed, once
<1> QED
  BY <1>2, <1>3, FlushesFine

LEMMA FedRequestFine ==
    ASSUME NEW a, NEW n, NEW p, Fine(a, n, p), NEW r \in Asked, NEW b \in FedRequest(a, r)
    PROVE  Fine(b, n, p)
<1> DEFINE x == Append(a.todo, r)
<1>1. b \in Fed(WithTodo(a, x))
  BY Zenon DEF FedRequest, WithTodo
<1>2. a.todo \in Seq(Asked)
  BY DEF Fine, HeldOf
<1>3. x \in Seq(Asked)
  BY <1>2
<1> HIDE DEF x
<1> QED
  BY <1>1, <1>3, TodoFine, FedFine

LEMMA SingleFine ==
    ASSUME NEW a, NEW n, NEW p, Fine(a, n, p), NEW b \in Single(a)
    PROVE  Fine(b, n, p)
<1> DEFINE y == TRUE
<1>1. \/ b = Told(WithStepped(a, y), "notice", "running")
      \/ \E reason \in StopReasons(a) : b = WithStepped(StopTold(a, reason), y)
  BY Zenon DEF Single, WithStepped
<1>2. y
  OBVIOUS
<1>3. CASE b = Told(WithStepped(a, y), "notice", "running")
  <2> DEFINE c == WithStepped(a, y)
  <2>1. "running" \in Notices(c.running, y)
    BY DEF Notices
  <2> HIDE DEF y
  <2>2. Fine(c, n, p) /\ c.stepped = y
    BY <1>2, SteppedFine
  <2>3. "running" \in Notices(c.running, c.stepped)
    BY <2>1, <2>2
  <2> HIDE DEF c
  <2>4. Fine(Told(c, "notice", "running"), n, p)
    BY <2>2, <2>3, NoticeFine
  <2> QED
    BY <1>3, <2>4 DEF c
<1>4. ASSUME NEW reason \in StopReasons(a), b = WithStepped(StopTold(a, reason), y)
      PROVE  Fine(b, n, p)
  <2>1. StopTold(a, reason) \in Stopped(a)
    BY DEF Stopped
  <2>2. Fine(StopTold(a, reason), n, p)
    BY <2>1, StopsFine
  <2> HIDE DEF y
  <2> QED
    BY <1>2, <1>4, <2>2, SteppedFine
<1> QED
  BY <1>1, <1>3, <1>4

LEMMA DebugHandledFine ==
    ASSUME NEW a, NEW n, NEW p, Fine(a, n, p), NEW r \in Requests, NEW b \in DebugHandled(a, r)
    PROVE  Fine(b, n, p)
<1>0. r \in Seq(Octet) /\ r # <<>>
  <2>1. r \in Seq(Octet) /\ Len(r) \in 1..5
    BY Zenon DEF Requests
  <2> QED
    BY <2>1
<1>a. r[1] \in {1, 2, 3, 13} => r \in Asked
  BY DEF Asked
<1>b. a.points \subseteq Seq(Octet)
  BY DEF Fine, HeldOf
<1>c. Tail(r) \in Seq(Octet)
  BY <1>0
<1>d. 0 \in Values
  BY ValuesAre DEF Octet
<1>1. CASE r[1] \in {1, 13}
  BY <1>1, <1>a, FedRequestFine DEF DebugHandled
<1>2. CASE r[1] \in {2, 3} /\ a.running
  <2>1. b \in FedRequest(a, r)
    BY <1>2 DEF DebugHandled
  <2> QED
    BY <1>2, <1>a, <2>1, FedRequestFine
<1>3. CASE r[1] \in {2, 3} /\ ~a.running
  <2> DEFINE answer == Answer(r)
  <2>1. b = Told(a, answer.kind, answer.value)
    BY <1>3 DEF DebugHandled
  <2>2. answer \in ReplySet /\ answer.kind \notin {"points", "notice"}
    BY <1>3, <1>a, AnswerIs
  <2> HIDE DEF answer
  <2>3. answer.kind \in Kinds /\ answer.value \in Values
        /\ (answer.kind = "memory" => answer.value \in Seq(Octet))
    BY <2>2 DEF ReplySet
  <2> QED
    BY <2>1, <2>2, <2>3, TellsFine
<1>4. CASE r[1] = 4
  <2> DEFINE x == FALSE
  <2>1. b = Told(Moved(a, x, x), "notice", "paused")
    BY <1>4 DEF DebugHandled, Moved
  <2>2. "paused" \in Notices(x, x)
    BY DEF Notices, Stops
  <2> HIDE DEF x
  <2> QED
    BY <2>1, <2>2, ReportsFine
<1>5. CASE r[1] = 5
  <2> DEFINE x == TRUE
             y == FALSE
  <2>1. b = Told(Moved(a, x, y), "notice", "running")
    BY <1>5 DEF DebugHandled, Moved, Resumed
  <2>2. "running" \in Notices(x, y)
    BY DEF Notices
  <2> HIDE DEF x, y
  <2> QED
    BY <2>1, <2>2, ReportsFine
<1>6. CASE r[1] = 6
  <2> DEFINE x == a.points \cup {Tail(r)}
  <2>1. b = Points(WithPoints(a, x))
    BY <1>6 DEF DebugHandled, WithPoints
  <2>2. x \subseteq Seq(Octet)
    BY <1>b, <1>c
  <2> HIDE DEF x
  <2> QED
    BY <2>1, <2>2, PointsFine
<1>7. CASE r[1] = 7
  <2> DEFINE x == a.points \ {Tail(r)}
  <2>1. b = Points(WithPoints(a, x))
    BY <1>7 DEF DebugHandled, WithPoints
  <2>2. x \subseteq Seq(Octet)
    BY <1>b
  <2> HIDE DEF x
  <2> QED
    BY <2>1, <2>2, PointsFine
<1>8. CASE r[1] = 8
  <2>1. b = Points(a)
    BY <1>8 DEF DebugHandled
  <2> QED
    BY <2>1, ListFine
<1>9. CASE r[1] \in {9, 10}
  <2>1. b \in Single(a)
    BY <1>9 DEF DebugHandled
  <2> QED
    BY <2>1, SingleFine
<1>10. CASE r[1] = 11
  <2>1. b = Told(a, "backtrace", 0)
    BY <1>10 DEF DebugHandled
  <2>2. "backtrace" \in Kinds
    BY DEF Kinds
  <2> QED
    BY <1>d, <2>1, <2>2, TellsFine
<1>11. CASE r[1] = 12
  <2> DEFINE x == FALSE
  <2>1. b = WithAlive(Told(a, "detached", 0), x)
    BY <1>11 DEF DebugHandled, WithAlive
  <2> HIDE DEF x
  <2>2. "detached" \in Kinds
    BY DEF Kinds
  <2>3. Fine(Told(a, "detached", 0), n, p)
    BY <1>d, <2>2, TellsFine
  <2> QED
    BY <2>1, <2>3, AliveFine
<1>12. CASE r[1] \notin {1, 2, 3, 4, 5, 6, 7, 8, 9, 10, 11, 12, 13}
  <2>1. b = Told(a, "invalid", 0)
    BY <1>12 DEF DebugHandled
  <2>2. "invalid" \in Kinds
    BY DEF Kinds
  <2> QED
    BY <1>d, <2>1, <2>2, TellsFine
<1> QED
  BY <1>1, <1>2, <1>3, <1>4, <1>5, <1>6, <1>7, <1>8, <1>9, <1>10, <1>11, <1>12

LEMMA HandledFine ==
    ASSUME NEW a, NEW n, NEW p, Fine(a, n, p), NEW unit \in Sendable, NEW b \in Handled(a, unit)
    PROVE  Fine(b, n, p)
<1>1. unit.type = DEBUG_REQUEST => unit.payload \in Requests
  <2>1. ASSUME NEW r \in Requests, unit = DebugFrame(r) PROVE unit.payload \in Requests
    BY <2>1, DebugFrameIs
  <2>2. unit \in {Raw(Beat), Raw(<<255, 4>>)} => unit.type # DEBUG_REQUEST
    BY DEF Raw, RAW_UART, DEBUG_REQUEST
  <2> QED
    BY <2>1, <2>2 DEF Sendable
<1>2. \/ b \in Fed(a)
      \/ unit.type = DEBUG_REQUEST /\ b \in DebugHandled(a, unit.payload)
      \/ b = Told(a, "invalid", 0)
  BY Zenon DEF Handled
<1>3. 0 \in Values /\ "invalid" \in Kinds
  BY ValuesAre DEF Octet, Kinds
<1> QED
  BY <1>1, <1>2, <1>3, FedFine, DebugHandledFine, TellsFine

-----------------------------------------------------------------------------
(* The pane as its fields. *)
Pane(notice, points, decoded, asked, lines, ended, due) ==
    [notice |-> notice, points |-> points, decoded |-> decoded, asked |-> asked,
     lines |-> lines, ended |-> ended, due |-> due]
PaneOf(s) == s = Pane(s.notice, s.points, s.decoded, s.asked, s.lines, s.ended, s.due)

PutNotice(s, x) == [s EXCEPT !.notice = x]
PutPoints(s, x) == [s EXCEPT !.points = x]
PutDecoded(s, x) == [s EXCEPT !.decoded = x]
PutAsked(s, x) == [s EXCEPT !.asked = x]
PutLines(s, x) == [s EXCEPT !.lines = x]
PutEnded(s, x) == [s EXCEPT !.ended = x]
Due(s, x) == [s EXCEPT !.due = x]
Listing(s, x, y, z) == [s EXCEPT !.asked = x, !.lines = y, !.ended = z]
Shows(s, x, y, z) == [s EXCEPT !.notice = x, !.points = y, !.decoded = z]

LEMMA PaneParts ==
    ASSUME NEW n, NEW p, NEW d, NEW a, NEW l, NEW e, NEW u, NEW s, s = Pane(n, p, d, a, l, e, u)
    PROVE  /\ PaneOf(s) /\ s.notice = n /\ s.points = p /\ s.decoded = d /\ s.asked = a
           /\ s.lines = l /\ s.ended = e /\ s.due = u
<1>1. /\ s.notice = n /\ s.points = p /\ s.decoded = d /\ s.asked = a
      /\ s.lines = l /\ s.ended = e /\ s.due = u
  BY DEF Pane
<1>2. PaneOf(s)
  BY <1>1, Zenon DEF PaneOf
<1> QED
  BY <1>1, <1>2

LEMMA PaneSet ==
    ASSUME NEW n, NEW p, NEW d, NEW a, NEW l, NEW e, NEW u, NEW s, s = Pane(n, p, d, a, l, e, u), NEW x
    PROVE  /\ PutNotice(s, x) = Pane(x, p, d, a, l, e, u)
           /\ PutPoints(s, x) = Pane(n, x, d, a, l, e, u)
           /\ PutDecoded(s, x) = Pane(n, p, x, a, l, e, u)
           /\ PutAsked(s, x) = Pane(n, p, d, x, l, e, u)
           /\ PutLines(s, x) = Pane(n, p, d, a, x, e, u)
           /\ PutEnded(s, x) = Pane(n, p, d, a, l, x, u)
           /\ Due(s, x) = Pane(n, p, d, a, l, e, x)
<1> DEFINE S == Pane(n, p, d, a, l, e, u)
<1>1. PutNotice(S, x) = Pane(x, p, d, a, l, e, u)
  BY DEF Pane, PutNotice
<1>2. PutPoints(S, x) = Pane(n, x, d, a, l, e, u)
  BY DEF Pane, PutPoints
<1>3. PutDecoded(S, x) = Pane(n, p, x, a, l, e, u)
  BY DEF Pane, PutDecoded
<1>4. PutAsked(S, x) = Pane(n, p, d, x, l, e, u)
  BY DEF Pane, PutAsked
<1>5. PutLines(S, x) = Pane(n, p, d, a, x, e, u)
  BY DEF Pane, PutLines
<1>6. PutEnded(S, x) = Pane(n, p, d, a, l, x, u)
  BY DEF Pane, PutEnded
<1>7. Due(S, x) = Pane(n, p, d, a, l, e, x)
  BY DEF Pane, Due
<1> QED
  BY <1>1, <1>2, <1>3, <1>4, <1>5, <1>6, <1>7

LEMMA PaneOneByOne ==
    ASSUME NEW s, NEW x, NEW y, NEW z
    PROVE  /\ Listing(s, x, y, z) = PutEnded(PutLines(PutAsked(s, x), y), z)
           /\ Shows(s, x, y, z) = PutDecoded(PutPoints(PutNotice(s, x), y), z)
  BY DEF Listing, Shows, PutEnded, PutLines, PutAsked, PutDecoded, PutPoints, PutNotice

LEMMA PaneMoved ==
    ASSUME NEW n, NEW p, NEW d, NEW a, NEW l, NEW e, NEW u, NEW s, s = Pane(n, p, d, a, l, e, u),
           NEW x, NEW y, NEW z
    PROVE  /\ Listing(s, x, y, z) = Pane(n, p, d, x, y, z, u)
           /\ Shows(s, x, y, z) = Pane(x, y, z, a, l, e, u)
<1>1. Listing(s, x, y, z) = Pane(n, p, d, x, y, z, u)
  <2> DEFINE f == PutAsked(s, x)
             g == PutLines(f, y)
  <2>1. f = Pane(n, p, d, x, l, e, u)
    BY PaneSet
  <2>2. Listing(s, x, y, z) = PutEnded(g, z)
    BY PaneOneByOne
  <2> HIDE DEF f
  <2>3. g = Pane(n, p, d, x, y, e, u)
    BY <2>1, PaneSet
  <2> HIDE DEF g
  <2> QED
    BY <2>2, <2>3, PaneSet
<1>2. Shows(s, x, y, z) = Pane(x, y, z, a, l, e, u)
  <2> DEFINE f == PutNotice(s, x)
             g == PutPoints(f, y)
  <2>1. f = Pane(x, p, d, a, l, e, u)
    BY PaneSet
  <2>2. Shows(s, x, y, z) = PutDecoded(g, z)
    BY PaneOneByOne
  <2> HIDE DEF f
  <2>3. g = Pane(x, y, d, a, l, e, u)
    BY <2>1, PaneSet
  <2> HIDE DEF g
  <2> QED
    BY <2>2, <2>3, PaneSet
<1> QED
  BY <1>1, <1>2

LEMMA ListingIs ==
    ASSUME NEW s, PaneOf(s), NEW x, NEW y, NEW z
    PROVE  LET t == Listing(s, x, y, z) IN
           /\ PaneOf(t) /\ t.notice = s.notice /\ t.points = s.points
           /\ t.decoded = s.decoded /\ t.asked = x /\ t.lines = y /\ t.ended = z
<1> DEFINE n == s.notice
           p == s.points
           d == s.decoded
           a == s.asked
           l == s.lines
           e == s.ended
           u == s.due
<1> DEFINE t == Listing(s, x, y, z)
<1>0. s = Pane(n, p, d, a, l, e, u)
  BY Zenon DEF PaneOf
<1> HIDE DEF n, p, d, a, l, e, u
<1>1. t = Pane(n, p, d, x, y, z, u)
  BY <1>0, PaneMoved, PaneSet
<1> HIDE DEF t
<1> QED
  BY <1>0, <1>1, PaneParts DEF n, p, d, a, t

LEMMA ShowsIs ==
    ASSUME NEW s, PaneOf(s), NEW x, NEW y, NEW z
    PROVE  LET t == Shows(s, x, y, z) IN
           /\ PaneOf(t) /\ t.notice = x /\ t.points = y
           /\ t.decoded = z /\ t.asked = s.asked
           /\ t.lines = s.lines /\ t.ended = s.ended
<1> DEFINE n == s.notice
           p == s.points
           d == s.decoded
           a == s.asked
           l == s.lines
           e == s.ended
           u == s.due
<1> DEFINE t == Shows(s, x, y, z)
<1>0. s = Pane(n, p, d, a, l, e, u)
  BY Zenon DEF PaneOf
<1> HIDE DEF n, p, d, a, l, e, u
<1>1. t = Pane(x, y, z, a, l, e, u)
  BY <1>0, PaneMoved, PaneSet
<1> HIDE DEF t
<1> QED
  BY <1>0, <1>1, PaneParts DEF n, p, d, a, l, e, t

LEMMA DueIs ==
    ASSUME NEW s, PaneOf(s), NEW x
    PROVE  LET t == Due(s, x) IN
           /\ PaneOf(t) /\ t.notice = s.notice /\ t.points = s.points
           /\ t.decoded = s.decoded /\ t.asked = s.asked
           /\ t.lines = s.lines /\ t.ended = s.ended
<1> DEFINE n == s.notice
           p == s.points
           d == s.decoded
           a == s.asked
           l == s.lines
           e == s.ended
           u == s.due
<1> DEFINE t == Due(s, x)
<1>0. s = Pane(n, p, d, a, l, e, u)
  BY Zenon DEF PaneOf
<1> HIDE DEF n, p, d, a, l, e, u
<1>1. t = Pane(n, p, d, a, l, e, x)
  BY <1>0, PaneMoved, PaneSet
<1> HIDE DEF t
<1> QED
  BY <1>0, <1>1, PaneParts DEF n, p, d, a, l, e, t

(* A reply delivered, or given up. *)
LEMMA DeliverFine ==
    ASSUME NEW a, NEW n, NEW p, Fine(a, n, p), a.replies # <<>>
    PROVE  LET r == Head(a.replies) IN
           /\ Fine(WithReplies(a, Tail(a.replies)), IF r.kind = "notice" THEN r.value ELSE n,
                   IF r.kind = "points" THEN r.value ELSE p)
           /\ r \in ReplySet
<1> DEFINE al == a.alive
           ru == a.running
           st == a.stepped
           po == a.points
           to == a.todo
           tn == a.torn
           re == a.replies
           r == Head(re)
           x == Tail(re)
           m == IF r.kind = "notice" THEN r.value ELSE n
           q == IF r.kind = "points" THEN r.value ELSE p
           V == {po}
           W == Notices(ru, st)
<1>0. a = Emulator(al, ru, st, po, to, tn, re) /\ HeldOf(ru, st, po, to, re, n, p)
  BY Zenon DEF Fine, Whole
<1>1. re # <<>>
  OBVIOUS
<1> HIDE DEF al, ru, st, po, to, tn, re
<1>2. /\ re \in Seq(ReplySet) /\ LastIs(re, "points", p, V) /\ LastIs(re, "notice", n, W)
      /\ po \subseteq Seq(Octet) /\ to \in Seq(Asked)
  BY <1>0 DEF HeldOf
<1> HIDE DEF V, W
<1>3. x \in Seq(ReplySet) /\ r \in ReplySet
  BY <1>1, <1>2
<1>4. LastIs(x, "points", q, V) /\ LastIs(x, "notice", m, W)
  BY <1>1, <1>2, LastTail
<1> HIDE DEF x, m, q
<1>5. HeldOf(ru, st, po, to, x, m, q)
  BY <1>2, <1>3, <1>4, Zenon DEF HeldOf, V, W
<1>6. WithReplies(a, x) = Emulator(al, ru, st, po, to, tn, x)
  BY <1>0, FieldsSet
<1>7. Fine(WithReplies(a, x), m, q)
  BY <1>5, <1>6, FineIs
<1> QED
  BY <1>3, <1>7 DEF x, m, q, r, re

View == LinkTyped /\ PaneOf(screen) /\ Fine(adapter, screen.notice, screen.points)

LEMMA ViewInit == Init => View
<1> SUFFICES ASSUME Init PROVE View
    OBVIOUS
<1> DEFINE z == <<>>
           e == {}
           yes == TRUE
           no == FALSE
           run == "running"
           due == ~session.known
<1>1. /\ adapter = Emulator(yes, yes, no, e, z, no, z)
      /\ screen = Pane(run, e, z, e, e, no, due)
  BY DEF Init, AdapterInit, Emulator, Pane
<1>2. /\ e \subseteq Seq(Octet) /\ z \in Seq(Asked) /\ z \in Seq(ReplySet)
      /\ e \in {e} /\ run \in Notices(yes, no)
  BY DEF Notices
<1>3. LastIs(z, "points", e, {e}) /\ LastIs(z, "notice", run, Notices(yes, no))
  BY <1>2, LastOfNone
<1> HIDE DEF z, e, yes, no, run, due
<1>4. HeldOf(yes, no, e, z, z, run, e)
  BY <1>2, <1>3 DEF HeldOf
<1>5. Fine(adapter, run, e)
  BY <1>1, <1>4, FineIs
<1>6. PaneOf(screen) /\ screen.notice = run /\ screen.points = e
  BY <1>1, PaneParts
<1> QED
  BY <1>5, <1>6, LinkInit DEF View

LEMMA ShownPane ==
    ASSUME PaneOf(screen), NEW cmd, NEW o
    PROVE  LET t == Shown(cmd, o) IN
           /\ PaneOf(t) /\ t.notice = screen.notice /\ t.points = screen.points
           /\ t.decoded = screen.decoded
           /\ t.asked = IF cmd.verb = "dis" /\ o.request # <<>>
                        THEN screen.asked \cup {<<Len(sent), o.console.pending>>}
                        ELSE screen.asked
<1> DEFINE x == IF cmd.verb = "dis" /\ o.request # <<>>
                THEN screen.asked \cup {<<Len(sent), o.console.pending>>} ELSE screen.asked
           y == IF cmd.verb = "list" /\ o.lines # {} THEN o.lines ELSE screen.lines \cup o.lines
           z == o.lines # {} /\ o.console.next = None
<1>1. Shown(cmd, o) = Listing(screen, x, y, z)
  BY Zenon DEF Shown, Listing
<1> HIDE DEF x, y, z
<1>2. LET t == Listing(screen, x, y, z) IN
      /\ PaneOf(t) /\ t.notice = screen.notice /\ t.points = screen.points
      /\ t.decoded = screen.decoded /\ t.asked = x
  BY ListingIs
<1> QED
  BY <1>1, <1>2 DEF x

LEMMA ShownLines ==
    ASSUME PaneOf(screen), NEW cmd, NEW o
    PROVE  LET t == Shown(cmd, o) IN
           /\ t.lines = IF cmd.verb = "list" /\ o.lines # {} THEN o.lines ELSE screen.lines \cup o.lines
           /\ t.ended = (o.lines # {} /\ o.console.next = None)
<1> DEFINE x == IF cmd.verb = "dis" /\ o.request # <<>>
                THEN screen.asked \cup {<<Len(sent), o.console.pending>>} ELSE screen.asked
           y == IF cmd.verb = "list" /\ o.lines # {} THEN o.lines ELSE screen.lines \cup o.lines
           z == o.lines # {} /\ o.console.next = None
<1>1. Shown(cmd, o) = Listing(screen, x, y, z)
  BY Zenon DEF Shown, Listing
<1> HIDE DEF x, y, z
<1>2. LET t == Listing(screen, x, y, z) IN t.lines = y /\ t.ended = z
  BY ListingIs
<1> QED
  BY <1>1, <1>2 DEF y, z

LEMMA DeliverPane ==
    ASSUME PaneOf(screen), Deliver
    PROVE  LET r == Head(adapter.replies) IN
           /\ PaneOf(screen')
           /\ screen'.notice = IF r.kind = "notice" THEN r.value ELSE screen.notice
           /\ screen'.points = IF r.kind = "points" THEN r.value ELSE screen.points
           /\ screen'.decoded = IF r.kind = "memory" /\ console.pending = r.value
                                THEN Append(screen.decoded, r.value) ELSE screen.decoded
           /\ screen'.asked = screen.asked /\ screen'.lines = screen.lines /\ screen'.ended = screen.ended
           /\ adapter' = WithReplies(adapter, Tail(adapter.replies)) /\ adapter.replies # <<>>
<1> DEFINE r == Head(adapter.replies)
           x == IF r.kind = "notice" THEN r.value ELSE screen.notice
           y == IF r.kind = "points" THEN r.value ELSE screen.points
           z == IF r.kind = "memory" /\ console.pending = r.value
                THEN Append(screen.decoded, r.value) ELSE screen.decoded
<1>1. screen' = Shows(screen, x, y, z)
  BY Zenon DEF Deliver, Shows, Decodes
<1>2. adapter' = WithReplies(adapter, Tail(adapter.replies)) /\ adapter.replies # <<>>
  BY Zenon DEF Deliver, WithReplies
<1> HIDE DEF x, y, z
<1>3. LET t == Shows(screen, x, y, z) IN
      /\ PaneOf(t) /\ t.notice = x /\ t.points = y /\ t.decoded = z /\ t.asked = screen.asked
      /\ t.lines = screen.lines /\ t.ended = screen.ended
  BY ShowsIs
<1> QED
  BY <1>1, <1>2, <1>3 DEF x, y, z, r

LEMMA ViewStep ==
    ASSUME DebuggingAssumption, View, [Next]_vars
    PROVE  View'
<1>0. LinkTyped /\ PaneOf(screen) /\ Fine(adapter, screen.notice, screen.points)
  BY DEF View
<1>1. LinkTyped'
  BY <1>0, LinkStep
<1> SUFFICES PaneOf(screen') /\ Fine(adapter', screen'.notice, screen'.points)
  BY <1>1 DEF View
<1>2. CASE IdentityRequest
  <2> DEFINE x == FALSE
  <2>1. screen' = Due(screen, x) /\ adapter' = adapter
    BY <1>2, Zenon DEF IdentityRequest, AdapterIdle, adapterVars, Due
  <2> HIDE DEF x
  <2>2. LET t == Due(screen, x) IN PaneOf(t) /\ t.notice = screen.notice /\ t.points = screen.points
    BY <1>0, DueIs
  <2> QED
    BY <1>0, <2>1, <2>2
<1>3. ASSUME NEW cmd \in session.commands, DebuggerLine(cmd)
      PROVE  PaneOf(screen') /\ Fine(adapter', screen'.notice, screen'.points)
  <2> DEFINE o == Command(console, cmd)
  <2>1. screen' = Shown(cmd, o) /\ adapter' = adapter
    BY <1>3 DEF DebuggerLine, AdapterIdle, adapterVars
  <2> HIDE DEF o
  <2>2. LET t == Shown(cmd, o) IN PaneOf(t) /\ t.notice = screen.notice /\ t.points = screen.points
    BY <1>0, ShownPane
  <2> QED
    BY <1>0, <2>1, <2>2
<1>4. CASE UNCHANGED <<screen, adapter>>
  BY <1>0, <1>4
<1>5. CASE Heartbeat \/ Restart
  <2>1. UNCHANGED <<screen, adapter>>
    BY <1>5 DEF Heartbeat, Restart, HostIdle, AdapterIdle, adapterVars
  <2> QED
    BY <1>4, <2>1
<1>6. ASSUME NEW n \in 1..Len(wire), AdapterRead(n)
      PROVE  PaneOf(screen') /\ Fine(adapter', screen'.notice, screen'.points)
  <2>1. UNCHANGED <<screen, adapter>>
    BY <1>6 DEF AdapterRead, Accept, HostIdle
  <2> QED
    BY <1>4, <2>1
<1>7. CASE Handle
  <2>1. adapter' \in Handled(adapter, Head(inbox)) /\ screen' = screen /\ inbox # <<>>
    BY <1>7 DEF Handle, HandleFrame, HostIdle
  <2>2. inbox \in Seq(Sendable)
    BY <1>0 DEF LinkTyped
  <2>3. Head(inbox) \in Sendable
    BY <2>1, <2>2
  <2> QED
    BY <1>0, <2>1, <2>3, HandledFine
<1>8. CASE Batch
  <2> DEFINE x == FALSE
             b == WithStepped(adapter, x)
  <2>1. PICK a \in Flushed(b) : adapter' \in {a} \cup Stopped(a)
    BY <1>8 DEF Batch, RunBatch, WithStepped
  <2>2. adapter.running /\ screen' = screen
    BY <1>8 DEF Batch, RunBatch, HostIdle
  <2> HIDE DEF x
  <2>3. Fine(b, screen.notice, screen.points)
    BY <1>0, <2>2, SteppedFine
  <2> HIDE DEF b
  <2>4. Fine(a, screen.notice, screen.points)
    BY <2>1, <2>3, FlushesFine
  <2> QED
    BY <1>0, <2>1, <2>2, <2>4, StopsFine
<1>9. CASE Deliver
  <2> DEFINE r == Head(adapter.replies)
             x == Tail(adapter.replies)
  <2>1. /\ PaneOf(screen')
        /\ screen'.notice = IF r.kind = "notice" THEN r.value ELSE screen.notice
        /\ screen'.points = IF r.kind = "points" THEN r.value ELSE screen.points
        /\ adapter' = WithReplies(adapter, x) /\ adapter.replies # <<>>
    BY <1>0, <1>9, DeliverPane
  <2>2. Fine(WithReplies(adapter, x), IF r.kind = "notice" THEN r.value ELSE screen.notice,
             IF r.kind = "points" THEN r.value ELSE screen.points)
    BY <1>0, <2>1, DeliverFine
  <2> HIDE DEF r, x
  <2> QED
    BY <2>1, <2>2
<1>10. CASE GiveUp
  <2> DEFINE r == Head(adapter.replies)
             x == Tail(adapter.replies)
  <2>1. adapter' = WithReplies(adapter, x) /\ screen' = screen /\ r.kind = "half"
    BY <1>10, Zenon DEF GiveUp, HostIdle, WithReplies
  <2>2. adapter.replies # <<>>
    BY <1>10 DEF GiveUp
  <2>3. Fine(WithReplies(adapter, x), IF r.kind = "notice" THEN r.value ELSE screen.notice,
             IF r.kind = "points" THEN r.value ELSE screen.points)
    BY <1>0, <2>2, DeliverFine
  <2> HIDE DEF r, x
  <2>4. Fine(WithReplies(adapter, x), screen.notice, screen.points)
    BY <2>1, <2>3
  <2> QED
    BY <1>0, <2>1, <2>4
<1>11. CASE UNCHANGED vars
  BY <1>4, <1>11 DEF vars, adapterVars
<1> QED
  BY <1>2, <1>3, <1>5, <1>6, <1>7, <1>8, <1>9, <1>10, <1>11 DEF Next

(* With nothing under way the pane shows the breakpoints the adapter has, and
   never calls an emulator running that a stop has ended: whatever the target
   answers between the adapter's own replies, in halves or whole. *)
THEOREM ViewCurrentAlways == Spec => []ViewCurrent
<1>1. Init => View
  BY DebuggingAssumption, ViewInit
<1>2. View /\ [Next]_vars => View'
  BY DebuggingAssumption, ViewStep
<1>3. View => ViewCurrent
  <2> SUFFICES ASSUME View, Quiet
               PROVE  /\ screen.points = adapter.points
                      /\ ~adapter.running /\ ~adapter.stepped => screen.notice # "running"
    BY DEF ViewCurrent
  <2>1. /\ LastIs(adapter.replies, "points", screen.points, {adapter.points})
        /\ LastIs(adapter.replies, "notice", screen.notice, Notices(adapter.running, adapter.stepped))
        /\ adapter.replies = <<>>
    BY DEF View, Fine, HeldOf, Quiet
  <2>2. screen.points \in {adapter.points}
    BY <2>1, LastShown
  <2>3. screen.notice \in Notices(adapter.running, adapter.stepped)
    BY <2>1, LastShown
  <2> QED
    BY <2>2, <2>3 DEF Notices, Stops
<1> QED
  BY <1>1, <1>2, <1>3, PTL DEF Spec

-----------------------------------------------------------------------------
(* Instructions shown and instructions asked for, at every address. *)
ShownAt(decoded, p) == {i \in 1..Len(decoded) : decoded[i] = p}
AskedAt(asked, p) == {a \in asked : a[2] = p}
Expected(pending, p) == IF pending = p THEN 1 ELSE 0
Counted(decoded, pending, asked) ==
    \A p \in Seq(Octet) :
        Cardinality(ShownAt(decoded, p)) + Expected(pending, p) <= Cardinality(AskedAt(asked, p))

LEMMA ShownFinite ==
    ASSUME NEW S, NEW d \in Seq(S), NEW p
    PROVE  IsFiniteSet(ShownAt(d, p)) /\ Cardinality(ShownAt(d, p)) \in Nat
<1>1. 1 \in Int /\ Len(d) \in Int
  OBVIOUS
<1>2. IsFiniteSet(1..Len(d))
  BY <1>1, FS_Interval
<1>3. ShownAt(d, p) \subseteq 1..Len(d)
  BY DEF ShownAt
<1>4. IsFiniteSet(ShownAt(d, p))
  BY <1>2, <1>3, FS_Subset
<1> QED
  BY <1>4, FS_CardinalityType

LEMMA AskedFinite ==
    ASSUME NEW A, IsFiniteSet(A), NEW p
    PROVE  IsFiniteSet(AskedAt(A, p)) /\ Cardinality(AskedAt(A, p)) \in Nat
<1>1. AskedAt(A, p) \subseteq A
  BY DEF AskedAt
<1>2. IsFiniteSet(AskedAt(A, p))
  BY <1>1, FS_Subset
<1> QED
  BY <1>2, FS_CardinalityType

(* One more asked for, one more shown, and one given up. *)
LEMMA CountedAsked ==
    ASSUME NEW S, NEW d \in Seq(S), NEW q, NEW A, IsFiniteSet(A), Counted(d, q, A),
           NEW x, x \notin A, x[2] \in Seq(Octet)
    PROVE  Counted(d, x[2], A \cup {x})
<1> DEFINE B == A \cup {x}
<1> SUFFICES ASSUME NEW p \in Seq(Octet)
             PROVE  Cardinality(ShownAt(d, p)) + Expected(x[2], p) <= Cardinality(AskedAt(B, p))
  BY DEF Counted
<1>1. /\ Cardinality(ShownAt(d, p)) \in Nat /\ Cardinality(AskedAt(A, p)) \in Nat
      /\ IsFiniteSet(AskedAt(A, p))
  BY ShownFinite, AskedFinite
<1>2. Cardinality(ShownAt(d, p)) + Expected(q, p) <= Cardinality(AskedAt(A, p))
  BY DEF Counted
<1>3. Expected(q, p) \in {0, 1}
  BY DEF Expected
<1>4. Cardinality(ShownAt(d, p)) <= Cardinality(AskedAt(A, p))
  BY <1>1, <1>2, <1>3
<1>5. CASE x[2] = p
  <2>1. AskedAt(B, p) = AskedAt(A, p) \cup {x} /\ x \notin AskedAt(A, p)
    BY <1>5 DEF AskedAt
  <2>2. Cardinality(AskedAt(B, p)) = Cardinality(AskedAt(A, p)) + 1
    BY <1>1, <2>1, FS_AddElement
  <2>3. Expected(x[2], p) = 1
    BY <1>5 DEF Expected
  <2> QED
    BY <1>1, <1>4, <2>2, <2>3
<1>6. CASE x[2] # p
  <2>1. AskedAt(B, p) = AskedAt(A, p)
    BY <1>6 DEF AskedAt
  <2>2. Expected(x[2], p) = 0
    BY <1>6 DEF Expected
  <2> QED
    BY <1>1, <1>4, <2>1, <2>2
<1> QED
  BY <1>5, <1>6

LEMMA CountedDropped ==
    ASSUME NEW S, NEW d \in Seq(S), NEW q, NEW A, IsFiniteSet(A), Counted(d, q, A),
           NEW none, none \notin Seq(Octet)
    PROVE  Counted(d, none, A)
<1> SUFFICES ASSUME NEW p \in Seq(Octet)
             PROVE  Cardinality(ShownAt(d, p)) + Expected(none, p) <= Cardinality(AskedAt(A, p))
  BY DEF Counted
<1>1. Cardinality(ShownAt(d, p)) \in Nat /\ Cardinality(AskedAt(A, p)) \in Nat
  BY ShownFinite, AskedFinite
<1>2. Cardinality(ShownAt(d, p)) + Expected(q, p) <= Cardinality(AskedAt(A, p))
  BY DEF Counted
<1>3. Expected(q, p) \in {0, 1} /\ Expected(none, p) = 0
  BY DEF Expected
<1> QED
  BY <1>1, <1>2, <1>3

LEMMA CountedShown ==
    ASSUME NEW S, NEW d \in Seq(S), NEW q \in S, NEW A, IsFiniteSet(A), Counted(d, q, A),
           NEW none, none \notin Seq(Octet)
    PROVE  Counted(Append(d, q), none, A)
<1> DEFINE e == Append(d, q)
           n == Len(d)
<1> SUFFICES ASSUME NEW p \in Seq(Octet)
             PROVE  Cardinality(ShownAt(e, p)) + Expected(none, p) <= Cardinality(AskedAt(A, p))
  BY DEF Counted
<1>1. /\ Cardinality(ShownAt(d, p)) \in Nat /\ Cardinality(AskedAt(A, p)) \in Nat
      /\ IsFiniteSet(ShownAt(d, p))
  BY ShownFinite, AskedFinite
<1>2. Cardinality(ShownAt(d, p)) + Expected(q, p) <= Cardinality(AskedAt(A, p))
  BY DEF Counted
<1>3. Expected(none, p) = 0
  BY DEF Expected
<1>4. n \in Nat /\ Len(e) = n + 1 /\ e[n + 1] = q /\ \A i \in 1..n : e[i] = d[i]
  OBVIOUS
<1> HIDE DEF e
<1>5. CASE q = p
  <2>1. ShownAt(e, p) = ShownAt(d, p) \cup {n + 1}
    BY <1>4, <1>5 DEF ShownAt
  <2>2. n + 1 \notin ShownAt(d, p)
    BY <1>4 DEF ShownAt
  <2>3. Cardinality(ShownAt(e, p)) = Cardinality(ShownAt(d, p)) + 1
    BY <1>1, <2>1, <2>2, FS_AddElement
  <2>4. Expected(q, p) = 1
    BY <1>5 DEF Expected
  <2> QED
    BY <1>1, <1>2, <1>3, <2>3, <2>4
<1>6. CASE q # p
  <2>1. ShownAt(e, p) = ShownAt(d, p)
    BY <1>4, <1>6 DEF ShownAt
  <2>2. Expected(q, p) = 0
    BY <1>6 DEF Expected
  <2> QED
    BY <1>1, <1>2, <1>3, <2>1, <2>2
<1> QED
  BY <1>5, <1>6 DEF e

(* A memory reply that dis waits for is one it has asked for, once for every
   time it was asked. *)
Windows ==
    /\ screen.decoded \in Seq(Seq(Octet))
    /\ IsFiniteSet(screen.asked)
    /\ \A a \in screen.asked : a[1] \in Nat /\ a[1] < Len(sent)
    /\ console.pending = None \/ console.pending \in Seq(Octet)
    /\ Counted(screen.decoded, console.pending, screen.asked)

LEMMA NoneIs == ASSUME DebuggingAssumption PROVE None \notin Seq(Octet)
  BY DEF DebuggingAssumption, Octet

LEMMA WindowsInit == ASSUME DebuggingAssumption, Init PROVE Windows
<1> DEFINE z == <<>>
           e == {}
<1>1. screen.decoded = z /\ screen.asked = e
  BY DEF Init
<1>2. console.pending = None
  <2>1. console = [Fresh(session.map) EXCEPT !.identity = IF session.known THEN TargetBuild ELSE None]
    BY DEF Init
  <2> DEFINE x == IF session.known THEN TargetBuild ELSE None
  <2>2. console = [Fresh(session.map) EXCEPT !.identity = x]
    BY <2>1
  <2> HIDE DEF x
  <2> QED
    BY <2>2 DEF Fresh
<1>3. z \in Seq(Seq(Octet)) /\ IsFiniteSet(e) /\ Cardinality(e) = 0
  BY FS_EmptySet
<1>4. None \notin Seq(Octet)
  BY NoneIs
<1>5. ASSUME NEW p \in Seq(Octet)
      PROVE  Cardinality(ShownAt(z, p)) + Expected(None, p) <= Cardinality(AskedAt(e, p))
  <2>1. ShownAt(z, p) = e /\ AskedAt(e, p) = e
    BY DEF ShownAt, AskedAt
  <2>2. Expected(None, p) = 0
    BY <1>4 DEF Expected
  <2> HIDE DEF z, e
  <2> QED
    BY <1>3, <2>1, <2>2
<1>6. \A a \in e : a[1] \in Nat /\ a[1] < Len(sent)
  OBVIOUS
<1> HIDE DEF z, e
<1>7. Counted(z, None, e)
  BY <1>5 DEF Counted
<1> QED
  BY <1>1, <1>2, <1>3, <1>6, <1>7 DEF Windows

LEMMA WindowsKept ==
    ASSUME Windows, screen'.decoded = screen.decoded, screen'.asked = screen.asked,
           console'.pending = console.pending, sent \in Seq(Sendable),
           sent' = sent \/ \E unit : sent' = Append(sent, unit)
    PROVE  Windows'
<1>1. Len(sent) \in Nat /\ Len(sent') \in Nat /\ Len(sent) <= Len(sent')
  OBVIOUS
<1>2. \A a \in screen'.asked : a[1] \in Nat /\ a[1] < Len(sent')
  BY <1>1 DEF Windows
<1> QED
  BY <1>2 DEF Windows

LEMMA WindowsLine ==
    ASSUME DebuggingAssumption, View, Windows, NEW cmd \in session.commands, DebuggerLine(cmd)
    PROVE  Windows'
<1> DEFINE o == Command(console, cmd)
           p == o.console.pending
           x == <<Len(sent), p>>
<1>1. /\ screen' = Shown(cmd, o) /\ console' = o.console
      /\ IF o.request = <<>> THEN UNCHANGED <<wire, sent>> ELSE Write(DebugFrame(o.request))
  BY DEF DebuggerLine
<1>2. /\ o.console.pending = console.pending \/ (cmd.verb = "dis" /\ o.request # <<>>)
      /\ cmd.verb = "dis" /\ o.request # <<>> => p \in Seq(Octet)
  BY CommandSends DEF Sends, View, LinkTyped
<1> HIDE DEF o
<1>3. LET t == Shown(cmd, o) IN
      /\ t.decoded = screen.decoded
      /\ t.asked = IF cmd.verb = "dis" /\ o.request # <<>>
                   THEN screen.asked \cup {<<Len(sent), o.console.pending>>} ELSE screen.asked
  BY ShownPane DEF View
<1>4. sent \in Seq(Sendable)
  BY DEF View, LinkTyped
<1>5. sent' = sent \/ sent' = Append(sent, DebugFrame(o.request))
  BY <1>1, Zenon DEF Write
<1>6. CASE cmd.verb = "dis" /\ o.request # <<>>
  <2>1. sent' = Append(sent, DebugFrame(o.request)) /\ console'.pending = p /\ p \in Seq(Octet)
    BY <1>1, <1>2, <1>6 DEF Write
  <2>2. screen'.decoded = screen.decoded /\ screen'.asked = screen.asked \cup {x}
    BY <1>1, <1>3, <1>6
  <2>3. Len(sent) \in Nat /\ Len(sent') = Len(sent) + 1
    BY <1>4, <2>1
  <2> HIDE DEF p
  <2>4. x[1] = Len(sent) /\ x[2] = p
    OBVIOUS
  <2> HIDE DEF x
  <2>5. /\ screen.decoded \in Seq(Seq(Octet)) /\ IsFiniteSet(screen.asked)
        /\ \A a \in screen.asked : a[1] \in Nat /\ a[1] < Len(sent)
        /\ Counted(screen.decoded, console.pending, screen.asked)
    BY DEF Windows
  <2>6. x \notin screen.asked
    BY <2>3, <2>4, <2>5
  <2>7. Counted(screen.decoded, x[2], screen.asked \cup {x})
    BY <2>1, <2>4, <2>5, <2>6, CountedAsked
  <2>8. IsFiniteSet(screen.asked \cup {x})
    BY <2>5, FS_AddElement
  <2>9. \A a \in screen.asked \cup {x} : a[1] \in Nat /\ a[1] < Len(sent')
    BY <2>3, <2>4, <2>5
  <2> QED
    BY <2>1, <2>2, <2>4, <2>5, <2>7, <2>8, <2>9 DEF Windows
<1>7. CASE ~(cmd.verb = "dis" /\ o.request # <<>>)
  <2>1. /\ screen'.decoded = screen.decoded /\ screen'.asked = screen.asked
        /\ console'.pending = console.pending
    BY <1>1, <1>2, <1>3, <1>7
  <2> QED
    BY <1>4, <1>5, <2>1, WindowsKept
<1> QED
  BY <1>6, <1>7

LEMMA WindowsDeliver ==
    ASSUME DebuggingAssumption, View, Windows, Deliver
    PROVE  Windows'
<1> DEFINE r == Head(adapter.replies)
<1>1. /\ screen'.decoded = IF r.kind = "memory" /\ console.pending = r.value
                           THEN Append(screen.decoded, r.value) ELSE screen.decoded
      /\ screen'.asked = screen.asked /\ adapter.replies # <<>>
  BY DeliverPane DEF View
<1>2. r \in ReplySet
  BY <1>1, DeliverFine DEF View
<1>3. console'.pending = IF r.kind = "memory" THEN None ELSE console.pending
  <2>1. console' = Response(console, r) /\ ConsoleOf(console, session.map)
    BY DEF Deliver, View, LinkTyped
  <2> HIDE DEF r
  <2> QED
    BY <2>1, ResponseIs
<1>4. sent' = sent /\ sent \in Seq(Sendable) /\ None \notin Seq(Octet)
  BY NoneIs DEF Deliver, View, LinkTyped
<1> HIDE DEF r
<1>5. /\ screen.decoded \in Seq(Seq(Octet)) /\ IsFiniteSet(screen.asked)
      /\ \A a \in screen.asked : a[1] \in Nat /\ a[1] < Len(sent)
      /\ Counted(screen.decoded, console.pending, screen.asked)
  BY DEF Windows
<1>6. CASE r.kind = "memory" /\ console.pending = r.value
  <2> DEFINE q == r.value
  <2>1. q \in Seq(Octet)
    BY <1>2, <1>6 DEF ReplySet
  <2>2. screen'.decoded = Append(screen.decoded, q) /\ console'.pending = None
        /\ Counted(screen.decoded, q, screen.asked)
    BY <1>1, <1>3, <1>5, <1>6
  <2> HIDE DEF q
  <2>3. Counted(Append(screen.decoded, q), None, screen.asked)
    BY <1>4, <1>5, <2>1, <2>2, CountedShown
  <2>4. Append(screen.decoded, q) \in Seq(Seq(Octet))
    BY <1>5, <2>1
  <2> QED
    BY <1>1, <1>4, <1>5, <2>2, <2>3, <2>4 DEF Windows
<1>7. CASE r.kind = "memory" /\ console.pending # r.value
  <2>1. screen'.decoded = screen.decoded /\ console'.pending = None
    BY <1>1, <1>3, <1>7
  <2>2. Counted(screen.decoded, None, screen.asked)
    BY <1>4, <1>5, CountedDropped
  <2> QED
    BY <1>1, <1>4, <1>5, <2>1, <2>2 DEF Windows
<1>8. CASE r.kind # "memory"
  <2>1. screen'.decoded = screen.decoded /\ console'.pending = console.pending
    BY <1>1, <1>3, <1>8
  <2> QED
    BY <1>1, <1>4, <2>1, WindowsKept
<1> QED
  BY <1>6, <1>7, <1>8

LEMMA WindowsStep ==
    ASSUME DebuggingAssumption, View, Windows, [Next]_vars
    PROVE  Windows'
<1>0. sent \in Seq(Sendable)
  BY DEF View, LinkTyped
<1>1. CASE IdentityRequest
  <2> DEFINE x == FALSE
  <2>1. screen' = Due(screen, x) /\ console' = console /\ sent' = Append(sent, DebugFrame(<<1>>))
    BY <1>1, Zenon DEF IdentityRequest, Write, Due
  <2> HIDE DEF x
  <2>2. LET t == Due(screen, x) IN t.decoded = screen.decoded /\ t.asked = screen.asked
    BY DueIs DEF View
  <2> QED
    BY <1>0, <2>1, <2>2, WindowsKept
<1>2. ASSUME NEW cmd \in session.commands, DebuggerLine(cmd) PROVE Windows'
  BY <1>2, WindowsLine
<1>3. CASE Heartbeat \/ Restart
  <2>1. screen' = screen /\ console' = console /\ \E unit : sent' = Append(sent, unit)
    BY <1>3, Zenon DEF Heartbeat, Restart, HostIdle, Write
  <2> QED
    BY <1>0, <2>1, WindowsKept
<1>4. CASE UNCHANGED <<screen, console, sent>>
  BY <1>0, <1>4, WindowsKept
<1>5. ASSUME NEW n \in 1..Len(wire), AdapterRead(n) PROVE Windows'
  <2>1. UNCHANGED <<screen, console, sent>>
    BY <1>5 DEF AdapterRead, HostIdle
  <2> QED
    BY <1>4, <2>1
<1>6. CASE Handle \/ Batch \/ GiveUp
  <2>1. UNCHANGED <<screen, console, sent>>
    BY <1>6 DEF Handle, Batch, GiveUp, HostIdle
  <2> QED
    BY <1>4, <2>1
<1>7. CASE Deliver
  BY <1>7, WindowsDeliver
<1>8. CASE UNCHANGED vars
  BY <1>4, <1>8 DEF vars
<1> QED
  BY <1>1, <1>2, <1>3, <1>5, <1>6, <1>7, <1>8 DEF Next

(* No memory reply is shown as instructions more often than dis asked for
   instructions at its address: for any commands, however many of them read
   the same memory. *)
THEOREM DecodedOnceAlways == Spec => []DecodedOnce
<1> DEFINE I == View /\ Windows
<1>1. Init => I
  BY DebuggingAssumption, ViewInit, WindowsInit
<1>2. I /\ [Next]_vars => I'
  BY DebuggingAssumption, ViewStep, WindowsStep
<1>3. I => DecodedOnce
  <2> SUFFICES ASSUME Windows, NEW p \in ToSet(screen.decoded)
               PROVE  Cardinality({i \in 1..Len(screen.decoded) : screen.decoded[i] = p})
                          <= Cardinality({a \in screen.asked : a[2] = p})
    BY DEF DecodedOnce
  <2> DEFINE d == screen.decoded
             A == screen.asked
  <2>1. d \in Seq(Seq(Octet)) /\ IsFiniteSet(A) /\ Counted(d, console.pending, A)
    BY DEF Windows
  <2>2. p \in Seq(Octet)
    BY <2>1 DEF ToSet
  <2>3. Cardinality(ShownAt(d, p)) + Expected(console.pending, p) <= Cardinality(AskedAt(A, p))
    BY <2>1, <2>2 DEF Counted
  <2>4. Cardinality(ShownAt(d, p)) \in Nat /\ Cardinality(AskedAt(A, p)) \in Nat
    BY <2>1, ShownFinite, AskedFinite
  <2>5. Expected(console.pending, p) \in {0, 1}
    BY DEF Expected
  <2>6. Cardinality(ShownAt(d, p)) <= Cardinality(AskedAt(A, p))
    BY <2>3, <2>4, <2>5
  <2> QED
    BY <2>6 DEF ShownAt, AskedAt
<1> QED
  BY <1>1, <1>2, <1>3, PTL DEF Spec

-----------------------------------------------------------------------------
(* Listings.  What holds of the maps they are read from. *)
Laid(map) == InOrder(map) /\ \A i \in Instructions(map) : i.address \in Nat

(* What has been shown when a listing goes on with the instruction at an
   address: of a file it has shown a line of, every instruction below that
   address from that line on, and no line behind an instruction that is not. *)
Through(map, L, at) ==
    /\ \A i \in Instructions(map), m \in Nat :
         <<i.source, m>> \in L /\ m <= i.line /\ i.address < at => <<i.source, i.line>> \in L
    /\ \A i \in Instructions(map), n \in Nat :
         i.address >= at /\ <<i.source, n>> \in L => n <= i.line
    /\ \A l \in L : \E j \in Instructions(map) : j.source = l[1] /\ j.address < at
Aligned(map, at) == \A j \in Instructions(map) : j.address < at => j.address + j.size <= at

(* And when it has come to the end of a file. *)
ShownOut(map, L) ==
    \A i \in Instructions(map), m \in Nat :
        <<i.source, m>> \in L /\ m <= i.line => <<i.source, i.line>> \in L

ListedSoFar(map, L, next) ==
    /\ \A l \in L : l = <<l[1], l[2]>> /\ l[2] \in Nat
    /\ IF next = None THEN ShownOut(map, L)
       ELSE next \in Nat /\ Through(map, L, next) /\ Aligned(map, next)

LEMMA LaidIs ==
    ASSUME NEW map, Laid(map), NEW i \in Instructions(map), NEW j \in Instructions(map)
    PROVE  /\ i.address \in Nat /\ i.size \in Nat /\ i.size > 0 /\ i.line \in Nat /\ i.line > 0
           /\ i.address = j.address => i = j
           /\ i.address < j.address => i.address + i.size <= j.address
           /\ i.address < j.address /\ i.source = j.source => i.line <= j.line
           /\ \A k \in Instructions(map) :
                i.address < j.address /\ j.address < k.address /\ i.source = k.source
                    => j.source = k.source
  BY DEF Laid, InOrder

LEMMA InstructionAligned ==
    ASSUME NEW map, Laid(map), NEW i \in Instructions(map)
    PROVE  Aligned(map, i.address) /\ Aligned(map, i.address + i.size)
<1>1. Aligned(map, i.address)
  BY LaidIs DEF Aligned
<1>2. ASSUME NEW j \in Instructions(map), j.address < i.address + i.size
      PROVE  j.address + j.size <= i.address + i.size
  <2>1. /\ i.address \in Nat /\ i.size \in Nat /\ j.address \in Nat /\ j.size \in Nat
        /\ j.address = i.address => j = i
        /\ j.address < i.address => j.address + j.size <= i.address
        /\ i.address < j.address => i.address + i.size <= j.address
    BY LaidIs
  <2>2. CASE j.address = i.address
    BY <2>1, <2>2
  <2>3. CASE j.address < i.address
    BY <2>1, <2>3
  <2> QED
    BY <1>2, <2>1, <2>2, <2>3
<1> QED
  BY <1>1, <1>2 DEF Aligned

(* The instruction a listing goes on with is the first from there on. *)
LEMMA FoundNext ==
    ASSUME NEW map, Laid(map), NEW at \in Nat, Aligned(map, at), NEW j \in Found(map, at)
    PROVE  /\ j \in Instructions(map) /\ j.address >= at
           /\ \A i \in Instructions(map) : i.address >= at => i.address >= j.address
<1>1. CASE SourceAt(map, at) # {}
  <2>1. j \in Instructions(map) /\ j.address <= at /\ at < j.address + j.size
    BY <1>1 DEF Found, SourceAt
  <2>2. j.address \in Nat /\ (j.address < at => j.address + j.size <= at) /\ j.size \in Nat
    BY <2>1, LaidIs DEF Aligned
  <2>3. j.address = at
    BY <2>1, <2>2
  <2> QED
    BY <2>1, <2>3, LaidIs
<1>2. CASE SourceAt(map, at) = {}
  BY <1>2 DEF Found, LowestOf, Above
<1> QED
  BY <1>1, <1>2

LEMMA FoundSome ==
    ASSUME NEW map, NEW at, NEW j \in Found(map, at)
    PROVE  j \in Instructions(map)
  BY DEF Found, SourceAt, LowestOf, Above

LEMMA GoesOn ==
    ASSUME NEW map, Laid(map), NEW at \in Nat, NEW L, Through(map, L, at),
           NEW j \in Instructions(map), j.address >= at,
           \A i \in Instructions(map) : i.address >= at => i.address >= j.address
    PROVE  Through(map, L, j.address)
<1>1. \A i \in Instructions(map) : i.address \in Nat
  BY DEF Laid
<1>2. \A i \in Instructions(map) : i.address < j.address => i.address < at
  BY <1>1
<1>3. \A i \in Instructions(map) : i.address >= j.address => i.address >= at
  BY <1>1
<1>4. \A i \in Instructions(map) : i.address < at => i.address < j.address
  BY <1>1
<1> QED
  BY <1>2, <1>3, <1>4 DEF Through

LEMMA Afresh == ASSUME NEW map, NEW at PROVE Through(map, {}, at)
  BY DEF Through

(* A page has the instruction's line and all lines from its first to its last. *)
LEMMA PageIs ==
    ASSUME NEW map, Laid(map), NEW j \in Instructions(map), NEW wanted \in Nat \ {0},
           PageOf(map, j, wanted) # {}
    PROVE  \E first \in Nat : \E last \in Nat :
             /\ first <= j.line /\ j.line <= last /\ last = Max(PageOf(map, j, wanted))
             /\ PageOf(map, j, wanted) = first..last
<1> DEFINE P == PageOf(map, j, wanted)
           half == wanted \div 2
           first == Clamp(j.line - half, 1, j.line)
           end == map.lines[j.source]
<1>1. j.line \in Nat /\ j.line > 0 /\ end \in Nat /\ (end = 0 \/ j.line <= end)
  BY DEF Laid, InOrder
<1>2. half \in Nat /\ half < wanted
  OBVIOUS
<1>3. P = {n \in first..(first + wanted - 1) : n <= end}
  BY DEF PageOf
<1> HIDE DEF half, end, P
<1>4. first \in Nat /\ 1 <= first /\ first <= j.line /\ j.line <= first + wanted - 1
  BY <1>1, <1>2 DEF Clamp
<1> HIDE DEF first
<1>5. P # {}
  BY DEF P
<1>6. end # 0
  BY <1>1, <1>3, <1>4, <1>5
<1> DEFINE last == IF first + wanted - 1 <= end THEN first + wanted - 1 ELSE end
<1>7. last \in Nat /\ P = first..last /\ j.line <= last
  BY <1>1, <1>3, <1>4, <1>6
<1> HIDE DEF last
<1>8. P \subseteq 1..last
  BY <1>4, <1>7
<1>9. Max(P) \in P /\ \A x \in P : x <= Max(P)
  BY <1>5, <1>7, <1>8, MaxOf
<1>10. last = Max(P)
  <2>1. last \in P
    BY <1>1, <1>4, <1>7
  <2> QED
    BY <1>7, <1>9, <2>1
<1> QED
  BY <1>1, <1>4, <1>7, <1>10 DEF P

LinesOf(source, first, last) == {<<source, n>> : n \in first..last}

LEMMA LineIn ==
    ASSUME NEW source, NEW first \in Nat, NEW last \in Nat, NEW s, NEW n
    PROVE  <<s, n>> \in LinesOf(source, first, last) <=> s = source /\ n \in first..last
  BY DEF LinesOf

(* An instruction of the file up to the end of a page is shown with it. *)
LEMMA ShownUpTo ==
    ASSUME NEW map, Laid(map), NEW j \in Instructions(map), NEW L, Through(map, L, j.address),
           NEW first \in Nat, NEW last \in Nat, first <= j.line, j.line <= last,
           NEW i \in Instructions(map), i.source = j.source, i.line <= last,
           NEW m \in Nat, <<i.source, m>> \in L \cup LinesOf(j.source, first, last), m <= i.line
    PROVE  <<i.source, i.line>> \in L \cup LinesOf(j.source, first, last)
<1> DEFINE N == LinesOf(j.source, first, last)
<1>1. /\ i.line \in Nat /\ j.line \in Nat /\ i.address \in Nat /\ j.address \in Nat
      /\ (i.address = j.address => i = j)
      /\ (j.address < i.address => j.line <= i.line)
  BY LaidIs
<1>2. CASE i.line >= first
  <2>1. i.line \in first..last
    BY <1>1, <1>2
  <2> QED
    BY <2>1, LineIn
<1>3. CASE i.line < first
  <2>1. i.address < j.address
    BY <1>1, <1>3
  <2>2. ~(m \in first..last)
    BY <1>1, <1>3
  <2>3. <<i.source, m>> \in L
    BY <2>2, LineIn
  <2> QED
    BY <2>1, <2>3 DEF Through
<1> QED
  BY <1>1, <1>2, <1>3

(* Of another file that a line has been shown of: none of its instructions is
   behind this one, so all are shown from that line on. *)
LEMMA ShownElsewhere ==
    ASSUME NEW map, Laid(map), NEW j \in Instructions(map), NEW L, Through(map, L, j.address),
           \A l \in L : l = <<l[1], l[2]>>,
           NEW i \in Instructions(map), i.source # j.source,
           NEW m \in Nat, <<i.source, m>> \in L, m <= i.line
    PROVE  <<i.source, i.line>> \in L /\ i.address < j.address
<1>1. PICK k \in Instructions(map) : k.source = i.source /\ k.address < j.address
  BY DEF Through
<1>2. ~(j.address < i.address)
  BY <1>1, LaidIs
<1>3. i.address < j.address
  BY <1>2, LaidIs
<1> QED
  BY <1>3 DEF Through

LEMMA PageEnds ==
    ASSUME NEW map, Laid(map), NEW j \in Instructions(map), NEW L, Through(map, L, j.address),
           \A l \in L : l = <<l[1], l[2]>>,
           NEW first \in Nat, NEW last \in Nat, first <= j.line, j.line <= last,
           \A k \in Instructions(map) : k.source = j.source => ~(k.line > last)
    PROVE  ShownOut(map, L \cup LinesOf(j.source, first, last))
<1> DEFINE N == LinesOf(j.source, first, last)
<1> SUFFICES ASSUME NEW i \in Instructions(map), NEW m \in Nat, <<i.source, m>> \in L \cup N, m <= i.line
             PROVE  <<i.source, i.line>> \in L \cup N
  BY DEF ShownOut
<1>1. CASE i.source = j.source
  <2>1. i.line <= last
    BY <1>1, LaidIs
  <2> QED
    BY <1>1, <2>1, ShownUpTo
<1>2. CASE i.source # j.source
  <2>1. <<i.source, m>> \in L
    BY <1>2, LineIn
  <2> QED
    BY <1>2, <2>1, ShownElsewhere
<1> QED
  BY <1>1, <1>2

LEMMA PageGoesOn ==
    ASSUME NEW map, Laid(map), NEW j \in Instructions(map), NEW L, Through(map, L, j.address),
           \A l \in L : l = <<l[1], l[2]>>,
           NEW first \in Nat, NEW last \in Nat, first <= j.line, j.line <= last,
           NEW k \in Instructions(map), k.source = j.source, k.line > last,
           \A i \in Instructions(map) : i.source = j.source /\ i.line > last => k.address <= i.address
    PROVE  Through(map, L \cup LinesOf(j.source, first, last), k.address)
<1> DEFINE N == LinesOf(j.source, first, last)
<1>0. j.address < k.address
  BY LaidIs
<1>1. ASSUME NEW i \in Instructions(map), NEW m \in Nat, <<i.source, m>> \in L \cup N, m <= i.line,
             i.address < k.address
      PROVE  <<i.source, i.line>> \in L \cup N
  <2>1. CASE i.source = j.source
    <3>1. i.line <= last
      <4>1. ~(i.line > last)
        <5>1. i.address \in Nat /\ k.address \in Nat
          BY LaidIs
        <5> QED
          BY <1>1, <2>1, <5>1
      <4> QED
        BY <4>1, LaidIs
    <3> QED
      BY <1>1, <2>1, <3>1, ShownUpTo
  <2>2. CASE i.source # j.source
    <3>1. <<i.source, m>> \in L
      BY <1>1, <2>2, LineIn
    <3> QED
      BY <1>1, <2>2, <3>1, ShownElsewhere
  <2> QED
    BY <2>1, <2>2
<1>2. ASSUME NEW i \in Instructions(map), NEW n \in Nat, i.address >= k.address, <<i.source, n>> \in L \cup N
      PROVE  n <= i.line
  <2>1. CASE <<i.source, n>> \in L
    <3>1. i.address >= j.address
      BY <1>0, <1>2, LaidIs
    <3> QED
      BY <2>1, <3>1 DEF Through
  <2>2. CASE <<i.source, n>> \in N
    <3>1. i.source = k.source /\ n <= last
      BY <2>2, LineIn
    <3>2. k.line <= i.line /\ k.line \in Nat /\ i.line \in Nat
      BY <1>2, <3>1, LaidIs
    <3> QED
      BY <3>1, <3>2
  <2> QED
    BY <1>2, <2>1, <2>2
<1>3. ASSUME NEW l \in L \cup N PROVE \E i \in Instructions(map) : i.source = l[1] /\ i.address < k.address
  <2>1. CASE l \in L
    <3>1. PICK i \in Instructions(map) : i.source = l[1] /\ i.address < j.address
      BY <2>1 DEF Through
    <3>2. i.address < k.address
      BY <1>0, <3>1, LaidIs
    <3> QED
      BY <3>1, <3>2
  <2>2. CASE l \in N
    <3>1. l[1] = j.source
      BY <2>2 DEF LinesOf
    <3> QED
      BY <1>0, <3>1
  <2> QED
    BY <1>3, <2>1, <2>2
<1> HIDE DEF N
<1>4. Through(map, L \cup N, k.address)
  BY <1>1, <1>2, <1>3 DEF Through
<1> QED
  BY <1>4 DEF N

(* The one line that is known of a file that is not beside the map. *)
LEMMA LineGoesOn ==
    ASSUME NEW map, Laid(map), NEW j \in Instructions(map), NEW L, Through(map, L, j.address)
    PROVE  Through(map, L \cup {<<j.source, j.line>>}, j.address + j.size)
<1> DEFINE N == {<<j.source, j.line>>}
           at == j.address + j.size
<1>1. ASSUME NEW i \in Instructions(map)
      PROVE  /\ i.address < at => i = j \/ i.address < j.address
             /\ i.address < j.address => i.address < at
             /\ i.address >= at => i.address > j.address
             /\ i.line \in Nat /\ j.line \in Nat /\ i.address \in Nat /\ j.address \in Nat /\ at \in Nat
             /\ i.address > j.address /\ i.source = j.source => j.line <= i.line
             /\ i.address < j.address /\ i.source = j.source => i.line <= j.line
  BY LaidIs
<1> HIDE DEF at
<1>2. ASSUME NEW i \in Instructions(map), NEW m \in Nat, <<i.source, m>> \in L \cup N, m <= i.line,
             i.address < at
      PROVE  <<i.source, i.line>> \in L \cup N
  <2>1. CASE i = j
    BY <2>1
  <2>2. CASE i.address < j.address /\ <<i.source, m>> \in L
    BY <1>2, <2>2 DEF Through
  <2>3. CASE i.address < j.address /\ <<i.source, m>> \in N
    <3>1. i.source = j.source /\ m = j.line
      BY <2>3
    <3>2. i.line = m
      BY <1>1, <1>2, <2>3, <3>1
    <3> QED
      BY <1>2, <3>2
  <2> QED
    BY <1>1, <1>2, <2>1, <2>2, <2>3
<1>3. ASSUME NEW i \in Instructions(map), NEW n \in Nat, i.address >= at, <<i.source, n>> \in L \cup N
      PROVE  n <= i.line
  <2>1. i.address > j.address
    BY <1>1, <1>3
  <2>2. CASE <<i.source, n>> \in L
    <3>1. i.address >= j.address
      BY <1>1, <2>1
    <3> QED
      BY <2>2, <3>1 DEF Through
  <2>3. CASE <<i.source, n>> \in N
    BY <1>1, <2>1, <2>3
  <2> QED
    BY <1>3, <2>2, <2>3
<1>4. ASSUME NEW l \in L \cup N PROVE \E i \in Instructions(map) : i.source = l[1] /\ i.address < at
  <2>1. CASE l \in L
    BY <1>1, <2>1 DEF Through
  <2>2. CASE l \in N
    <3>1. j.address < at
      BY LaidIs DEF at
    <3> QED
      BY <2>2, <3>1
  <2> QED
    BY <1>4, <2>1, <2>2
<1> HIDE DEF N
<1>5. Through(map, L \cup N, at)
  BY <1>2, <1>3, <1>4 DEF Through
<1> QED
  BY <1>5 DEF N, at

(* A listing shows something, and what it shows with what was shown before is
   shown as far as the instruction it will go on with. *)
LEMMA ListedIs ==
    ASSUME None \notin Nat, NEW map, Laid(map), NEW c, ConsoleOf(c, map), NEW j \in Instructions(map),
           NEW wanted \in Nat \ {0}, NEW L, Through(map, L, j.address),
           \A l \in L : l = <<l[1], l[2]>> /\ l[2] \in Nat
    PROVE  /\ Listed(c, j, wanted).lines # {}
           /\ ListedSoFar(map, L \cup Listed(c, j, wanted).lines, Listed(c, j, wanted).console.next)
<1> DEFINE P == PageOf(map, j, wanted)
           page == {<<j.source, n>> : n \in P}
           K == {k \in Instructions(map) : k.source = j.source /\ k.line > Max(P)}
           next == AddressOrNone(K)
           o == Listed(c, j, wanted)
<1>1. c.map = map /\ \A n : [c EXCEPT !.next = n].next = n
  <2>1. c = [map |-> map, identity |-> c.identity, pending |-> c.pending, next |-> c.next]
    BY DEF ConsoleOf
  <2> QED
    BY <2>1
<1>2. o = IF P # {} THEN Outcome([c EXCEPT !.next = next], <<>>, page)
          ELSE Outcome([c EXCEPT !.next = j.address + j.size], <<>>, {<<j.source, j.line>>})
  BY <1>1, Zenon DEF Listed, NextBelow
<1> HIDE DEF o
<1>3. CASE P # {}
  <2>1. PICK first \in Nat, last \in Nat :
             /\ first <= j.line /\ j.line <= last /\ last = Max(P) /\ P = first..last
    BY <1>3, PageIs
  <2>2. o.lines = page /\ o.console.next = next
    BY <1>1, <1>2, <1>3 DEF Outcome
  <2>3. page = LinesOf(j.source, first, last)
    BY <2>1 DEF LinesOf
  <2> HIDE DEF P
  <2>4. <<j.source, j.line>> \in page
    <3>1. j.line \in first..last
      BY <2>1, LaidIs
    <3> QED
      BY <2>3, <3>1, LineIn
  <2>5. \A l \in L \cup page : l = <<l[1], l[2]>> /\ l[2] \in Nat
    <3>1. \A l \in page : l = <<l[1], l[2]>> /\ l[2] \in Nat
      BY <2>3 DEF LinesOf
    <3> QED
      BY <3>1
  <2>6. CASE K = {}
    <3>1. next = None
      BY <2>6 DEF AddressOrNone
    <3>2. ShownOut(map, L \cup page)
      BY <2>1, <2>3, <2>6, PageEnds
    <3> QED
      BY <2>2, <2>4, <2>5, <3>1, <3>2 DEF ListedSoFar, o
  <2>7. CASE K # {}
    <3> DEFINE A == {k.address : k \in K}
    <3>1. next = Min(A)
      BY <2>7 DEF AddressOrNone
    <3>2. A \subseteq Nat /\ A # {}
      BY <2>7 DEF Laid
    <3>3. next \in A /\ \A x \in A : next <= x
      BY <3>1, <3>2, MinOf
    <3> HIDE DEF next
    <3>4. PICK k \in K : next = k.address
      BY <3>3
    <3>5. \A i \in Instructions(map) : i.source = j.source /\ i.line > last => k.address <= i.address
      BY <2>1, <3>3, <3>4
    <3>6. k \in Instructions(map) /\ k.source = j.source /\ k.line > last
      BY <2>1
    <3> HIDE DEF K, A, page
    <3>7. Through(map, L \cup page, next)
      BY <2>1, <2>3, <3>4, <3>5, <3>6, PageGoesOn
    <3>8. Aligned(map, next) /\ next \in Nat
      BY <3>2, <3>3, <3>4, <3>6, InstructionAligned
    <3> QED
      BY <2>2, <2>4, <2>5, <3>7, <3>8 DEF ListedSoFar, o
  <2> QED
    BY <2>6, <2>7
<1>4. CASE P = {}
  <2> DEFINE N == {<<j.source, j.line>>}
             at == j.address + j.size
  <2>1. o.lines = N /\ o.console.next = at
    BY <1>1, <1>2, <1>4 DEF Outcome
  <2>2. Through(map, L \cup N, at) /\ Aligned(map, at)
    BY LineGoesOn, InstructionAligned
  <2>3. at \in Nat /\ j.line \in Nat
    BY LaidIs
  <2>4. \A l \in L \cup N : l = <<l[1], l[2]>> /\ l[2] \in Nat
    BY <2>3
  <2>5. N # {}
    OBVIOUS
  <2> HIDE DEF N, at
  <2> QED
    BY <2>1, <2>2, <2>3, <2>4, <2>5 DEF ListedSoFar, o
<1> QED
  BY <1>3, <1>4

(* A command leaves the listing where it is, or begins one, or goes on. *)
Lists(map, L, c, verb, o) ==
    \/ o.lines = {} /\ o.console.next = c.next
    \/ /\ verb = "list" /\ o.lines # {}
       /\ ListedSoFar(map, o.lines, o.console.next)
    \/ /\ verb = "more" /\ o.lines # {}
       /\ ListedSoFar(map, L \cup o.lines, o.console.next)

LEMMA LocalLists ==
    ASSUME NEW map, NEW L, NEW c, NEW verb
    PROVE  Lists(map, L, c, verb, Local(c))
  BY DEF Lists, Local, Outcome

LEMMA OutcomeLists ==
    ASSUME NEW map, NEW L, NEW c, NEW verb, NEW r
    PROVE  Lists(map, L, c, verb, Outcome(c, r, {}))
  BY DEF Lists, Outcome

LEMMA ListBegins ==
    ASSUME None \notin Nat, NEW map, Laid(map), NEW c, ConsoleOf(c, map), NEW L,
           NEW addresses, NEW count \in Nat
    PROVE  Lists(map, L, c, "list", ListCommand(c, addresses, count))
<1> DEFINE found == Found(map, CHOOSE a \in addresses : TRUE)
           j == CHOOSE i \in found : TRUE
           wanted == Clamp(count, 1, Most)
           o == ListCommand(c, addresses, count)
<1>1. c.map = map
  BY DEF ConsoleOf
<1>2. o = Local(c) \/ (found # {} /\ o = Listed(c, j, wanted))
  BY <1>1, Zenon DEF ListCommand
<1>3. wanted \in Nat \ {0}
  BY DebugConsoleAssumption DEF Clamp
<1> HIDE DEF o, wanted
<1>4. CASE found # {} /\ o = Listed(c, j, wanted)
  <2>1. j \in Instructions(map)
    BY <1>4, FoundSome
  <2> HIDE DEF j
  <2> DEFINE none == {}
  <2>2. Through(map, none, j.address) /\ \A l \in none : l = <<l[1], l[2]>> /\ l[2] \in Nat
    BY Afresh
  <2>3. none \cup o.lines = o.lines
    OBVIOUS
  <2> HIDE DEF none
  <2>4. o.lines # {} /\ ListedSoFar(map, none \cup o.lines, o.console.next)
    BY <1>3, <1>4, <2>1, <2>2, ListedIs
  <2>5. Lists(map, L, c, "list", o)
    BY <2>3, <2>4 DEF Lists
  <2> QED
    BY <2>5 DEF o
<1>5. CASE o = Local(c)
  BY <1>5, LocalLists DEF o
<1> QED
  BY <1>2, <1>4, <1>5

LEMMA ListGoesOn ==
    ASSUME None \notin Nat, NEW map, Laid(map), NEW c, ConsoleOf(c, map), NEW L,
           ListedSoFar(map, L, c.next)
    PROVE  Lists(map, L, c, "more", ListCommand(c, {c.next} \ {None}, Default))
<1> DEFINE addresses == {c.next} \ {None}
           at == CHOOSE a \in addresses : TRUE
           found == Found(map, at)
           j == CHOOSE i \in found : TRUE
           wanted == Clamp(Default, 1, Most)
           o == ListCommand(c, addresses, Default)
<1>1. c.map = map
  BY DEF ConsoleOf
<1>2. o = Local(c) \/ (addresses # {} /\ found # {} /\ o = Listed(c, j, wanted))
  BY <1>1, Zenon DEF ListCommand
<1>3. wanted \in Nat \ {0}
  BY DebugConsoleAssumption DEF Clamp
<1> HIDE DEF o, wanted
<1>4. CASE addresses # {} /\ found # {} /\ o = Listed(c, j, wanted)
  <2>1. at = c.next /\ c.next # None
    BY <1>4
  <2>2. at \in Nat /\ Through(map, L, at) /\ Aligned(map, at)
    BY <2>1 DEF ListedSoFar
  <2> HIDE DEF at
  <2>3. j \in found
    BY <1>4
  <2> HIDE DEF j
  <2>4. /\ j \in Instructions(map) /\ j.address >= at
        /\ \A i \in Instructions(map) : i.address >= at => i.address >= j.address
    BY <2>2, <2>3, FoundNext
  <2>5. Through(map, L, j.address)
    BY <2>2, <2>4, GoesOn
  <2>6. \A l \in L : l = <<l[1], l[2]>> /\ l[2] \in Nat
    BY DEF ListedSoFar
  <2>7. o.lines # {} /\ ListedSoFar(map, L \cup o.lines, o.console.next)
    BY <1>3, <1>4, <2>4, <2>5, <2>6, ListedIs
  <2>8. Lists(map, L, c, "more", o)
    BY <2>7 DEF Lists
  <2> QED
    BY <2>8 DEF o
<1>5. CASE o = Local(c)
  BY <1>5, LocalLists DEF o
<1> QED
  BY <1>2, <1>4, <1>5

LEMMA CommandLists ==
    ASSUME DebuggingAssumption, NEW s \in Sessions, Laid(s.map), NEW c, ConsoleOf(c, s.map), NEW L,
           ListedSoFar(s.map, L, c.next), NEW cmd \in s.commands
    PROVE  Lists(s.map, L, c, cmd.verb, Command(c, cmd))
<1> DEFINE map == s.map
<1>1. cmd.count \in Nat /\ None \notin Nat
  BY DEF DebuggingAssumption
<1>2. CASE cmd.verb \in DOMAIN Opcodes
  <2>1. Command(c, cmd) = Outcome(c, <<Opcodes[cmd.verb]>>, {})
    BY <1>2, SMT DEF Command, Opcodes
  <2> QED
    BY <2>1, OutcomeLists
<1>3. CASE cmd.verb = "regs"
  <2>1. Command(c, cmd) = Outcome(c, <<2, cmd.count>>, {})
    BY <1>3 DEF Command, Opcodes
  <2> QED
    BY <2>1, OutcomeLists
<1>4. CASE cmd.verb = "x"
  <2>1. Command(c, cmd) = IF cmd.count \in 1..12
                          THEN Outcome(c, MemoryRequest(cmd.at[2], cmd.count), {}) ELSE Local(c)
    BY <1>4 DEF Command, Opcodes
  <2> QED
    BY <2>1, OutcomeLists, LocalLists
<1>5. CASE cmd.verb \in {"break", "delete"}
  <2> DEFINE op == IF cmd.verb = "break" THEN 6 ELSE 7
             r == <<op>> \o Bytes24(CHOOSE a \in Resolved(c, cmd.at) : TRUE)
  <2>1. Command(c, cmd) = PointCommand(c, cmd.at, op)
    BY <1>5 DEF Command, Opcodes
  <2>2. Command(c, cmd) = Local(c) \/ Command(c, cmd) = Outcome(c, r, {})
    BY <2>1, Zenon DEF PointCommand
  <2> HIDE DEF r
  <2> QED
    BY <2>2, OutcomeLists, LocalLists
<1>6. CASE cmd.verb = "dis"
  <2>1. Command(c, cmd) = DisCommand(c, cmd.at, cmd.count)
    BY <1>6 DEF Command, Opcodes
  <2>2. ASSUME NEW p, NEW r PROVE Lists(map, L, c, cmd.verb, Outcome([c EXCEPT !.pending = p], r, {}))
    <3>1. [c EXCEPT !.pending = p] = [map |-> map, identity |-> c.identity, pending |-> p, next |-> c.next]
      BY DEF ConsoleOf
    <3> DEFINE e == [c EXCEPT !.pending = p]
    <3>2. e.next = c.next
      BY <3>1
    <3> HIDE DEF e
    <3>3. Lists(map, L, c, cmd.verb, Outcome(e, r, {}))
      BY <3>2 DEF Lists, Outcome
    <3> QED
      BY <3>3 DEF e
  <2>3. Lists(map, L, c, cmd.verb, DisCommand(c, cmd.at, cmd.count))
    BY <2>2, LocalLists, Zenon DEF DisCommand
  <2> QED
    BY <2>1, <2>3
<1>7. CASE cmd.verb = "list"
  <2>1. Command(c, cmd) = ListCommand(c, Resolved(c, cmd.at), cmd.count)
    BY <1>7 DEF Command, Opcodes
  <2> QED
    BY <1>1, <1>7, <2>1, ListBegins
<1>8. CASE cmd.verb = "more"
  <2>1. Command(c, cmd) = ListCommand(c, {c.next} \ {None}, Default)
    BY <1>8 DEF Command, Opcodes
  <2> QED
    BY <1>1, <1>8, <2>1, ListGoesOn
<1>9. CASE cmd.verb \notin DOMAIN Opcodes \cup {"regs", "x", "break", "delete", "dis", "list", "more"}
  <2>1. Command(c, cmd) = Local(c)
    BY <1>9 DEF Command
  <2> QED
    BY <2>1, LocalLists
<1> QED
  BY <1>2, <1>3, <1>4, <1>5, <1>6, <1>7, <1>8, <1>9

(* What the pane shows of the sources is as far as the console will go on. *)
Listings ==
    /\ ListedSoFar(session.map, screen.lines, console.next)
    /\ screen.ended => console.next = None

LEMMA ListingsInit == Init => Listings
<1> SUFFICES ASSUME Init PROVE Listings
    OBVIOUS
<1> DEFINE x == IF session.known THEN TargetBuild ELSE None
           e == {}
<1>1. console = [Fresh(session.map) EXCEPT !.identity = x] /\ screen.lines = e /\ screen.ended = FALSE
  BY DEF Init
<1> HIDE DEF x
<1>2. console.next = None
  BY <1>1 DEF Fresh
<1>3. ListedSoFar(session.map, e, None)
  BY DEF ListedSoFar, ShownOut
<1> HIDE DEF e
<1> QED
  BY <1>1, <1>2, <1>3 DEF Listings

LEMMA ListingsKept ==
    ASSUME Listings, screen'.lines = screen.lines, screen'.ended = screen.ended,
           console'.next = console.next, session' = session
    PROVE  Listings'
  BY DEF Listings, ListedSoFar, ShownOut, Through, Aligned

LEMMA ListingsIs ==
    ASSUME ListedSoFar(session.map, screen'.lines, console'.next), session' = session,
           screen'.ended => console'.next = None
    PROVE  Listings'
  BY DEF Listings, ListedSoFar, ShownOut, Through, Aligned

LEMMA ListingsLine ==
    ASSUME DebuggingAssumption, MapsInOrder, View, Listings, NEW cmd \in session.commands, DebuggerLine(cmd)
    PROVE  Listings'
<1> DEFINE o == Command(console, cmd)
           map == session.map
           L == screen.lines
<1>1. screen' = Shown(cmd, o) /\ console' = o.console /\ session' = session
  BY DEF DebuggerLine
<1>2. PaneOf(screen) /\ session \in Sessions /\ ConsoleOf(console, map)
  BY DEF View, LinkTyped
<1>3. Laid(map)
  <2>1. \A i \in Instructions(map) : i.address \in Nat
    BY <1>2 DEF DebuggingAssumption, Addresses
  <2> QED
    BY <1>2, <2>1 DEF MapsInOrder, Laid
<1>4. Lists(map, L, console, cmd.verb, o)
  BY <1>2, <1>3, CommandLists DEF Listings
<1> HIDE DEF o
<1>5. /\ screen'.lines = IF cmd.verb = "list" /\ o.lines # {} THEN o.lines ELSE L \cup o.lines
      /\ screen'.ended = (o.lines # {} /\ o.console.next = None)
  BY <1>1, <1>2, ShownLines
<1>6. CASE o.lines = {} /\ o.console.next = console.next
  <2>1. screen'.lines = L /\ ~screen'.ended /\ console'.next = console.next
    BY <1>1, <1>5, <1>6
  <2>2. ListedSoFar(map, L, console.next)
    BY DEF Listings
  <2> HIDE DEF map, L
  <2>3. ListedSoFar(map, screen'.lines, console'.next)
    BY <2>1, <2>2
  <2> QED
    BY <1>1, <2>1, <2>3, ListingsIs DEF map
<1>7. CASE o.lines # {} /\ ListedSoFar(map, screen'.lines, o.console.next)
  BY <1>1, <1>5, <1>7, ListingsIs
<1> QED
  BY <1>4, <1>5, <1>6, <1>7 DEF Lists

LEMMA MaxBelow ==
    ASSUME NEW n \in Nat, NEW S, S \subseteq 0..n, S # {}
    PROVE  Max(S) \in S
<1>1. CASE S \cap 1..n = {}
  <2>1. \A x \in S : x = 0
    <3>1. \A x \in S : x \in 0..n /\ x \notin 1..n
      BY <1>1
    <3> QED
      BY <3>1
  <2>2. S = {0}
    BY <2>1
  <2> QED
    BY <2>2 DEF Max
<1>2. CASE S \cap 1..n # {}
  <2> DEFINE U == S \cap 1..n
  <2>1. Max(U) \in U /\ \A x \in U : x <= Max(U)
    BY <1>2, MaxOf
  <2>2. \A x \in S : x <= Max(U)
    BY <2>1
  <2>3. \E x \in S : \A y \in S : x >= y
    BY <2>1, <2>2
  <2> QED
    BY <2>3 DEF Max
<1> QED
  BY <1>1, <1>2

LEMMA ListingsFollow ==
    ASSUME DebuggingAssumption, MapsInOrder, View, Listings
    PROVE  InstructionsListed
<1> DEFINE map == session.map
           L == screen.lines
<1>1. console.map = map /\ session \in Sessions
  BY DEF View, LinkTyped, ConsoleOf
<1>2. \A i \in Instructions(map) : i.address \in Nat /\ i.line \in Nat
  BY <1>1 DEF DebuggingAssumption, Addresses, MapsInOrder, InOrder
<1>3. ListedSoFar(map, L, console.next) /\ (screen.ended => console.next = None)
  BY DEF Listings
<1> HIDE DEF map, L
<1>4. \A l \in L : l = <<l[1], l[2]>> /\ l[2] \in Nat
  BY <1>3 DEF ListedSoFar
<1> SUFFICES ASSUME NEW i \in Instructions(map),
                    NEW S, S = {line[2] : line \in {l \in L : l[1] = i.source}},
                    S # {}, i.line >= Min(S), i.line <= Max(S) \/ screen.ended
             PROVE  i.line \in S
  BY <1>1 DEF InstructionsListed, L
<1>5. S \subseteq Nat /\ \A n \in Nat : n \in S <=> <<i.source, n>> \in L
  BY <1>4
<1>6. Min(S) \in S /\ Min(S) \in Nat
  BY <1>5, MinOf
<1> DEFINE m == Min(S)
<1>7. m \in Nat /\ m <= i.line /\ <<i.source, m>> \in L
  BY <1>5, <1>6
<1> HIDE DEF m
<1>8. CASE console.next = None
  <2>1. <<i.source, i.line>> \in L
    BY <1>3, <1>7, <1>8 DEF ListedSoFar, ShownOut
  <2> QED
    BY <1>2, <1>5, <2>1
<1>9. CASE console.next # None
  <2> DEFINE next == console.next
  <2>1. next \in Nat /\ Through(map, L, next) /\ i.line <= Max(S)
    BY <1>3, <1>9 DEF ListedSoFar
  <2> HIDE DEF next
  <2>2. CASE i.address < next
    <3>1. <<i.source, i.line>> \in L
      BY <1>7, <2>1, <2>2 DEF Through
    <3> QED
      BY <1>2, <1>5, <3>1
  <2>3. CASE i.address >= next
    <3>1. \A n \in S : n <= i.line
      BY <1>5, <2>1, <2>3 DEF Through
    <3>2. S \subseteq 0..i.line
      BY <1>2, <1>5, <3>1
    <3>3. Max(S) \in S
      BY <1>2, <3>2, MaxBelow
    <3> DEFINE M == Max(S)
    <3>4. M \in S /\ M \in Nat /\ M <= i.line /\ i.line <= M /\ i.line \in Nat
      BY <1>2, <1>5, <2>1, <3>1, <3>3
    <3> HIDE DEF M
    <3>5. i.line = M
      BY <3>4
    <3> QED
      BY <3>4, <3>5
  <2> QED
    BY <1>2, <2>1, <2>2, <2>3
<1> QED
  BY <1>8, <1>9

LEMMA ListingsStep ==
    ASSUME DebuggingAssumption, MapsInOrder, View, Listings, [Next]_vars
    PROVE  Listings'
<1>1. CASE IdentityRequest
  <2> DEFINE x == FALSE
  <2>1. screen' = Due(screen, x) /\ console' = console /\ session' = session
    BY <1>1, Zenon DEF IdentityRequest, Due
  <2> HIDE DEF x
  <2>2. LET t == Due(screen, x) IN t.lines = screen.lines /\ t.ended = screen.ended
    BY DueIs DEF View
  <2> QED
    BY <2>1, <2>2, ListingsKept
<1>2. ASSUME NEW cmd \in session.commands, DebuggerLine(cmd) PROVE Listings'
  BY <1>2, ListingsLine
<1>3. CASE UNCHANGED <<screen, console, session>>
  BY <1>3, ListingsKept
<1>4. CASE Heartbeat \/ Restart \/ Handle \/ Batch \/ GiveUp \/ UNCHANGED vars
  <2>1. UNCHANGED <<screen, console, session>>
    BY <1>4 DEF Heartbeat, Restart, Handle, Batch, GiveUp, HostIdle, vars
  <2> QED
    BY <1>3, <2>1
<1>5. ASSUME NEW n \in 1..Len(wire), AdapterRead(n) PROVE Listings'
  <2>1. UNCHANGED <<screen, console, session>>
    BY <1>5 DEF AdapterRead, HostIdle
  <2> QED
    BY <1>3, <2>1
<1>6. CASE Deliver
  <2>1. screen'.lines = screen.lines /\ screen'.ended = screen.ended
    BY <1>6, DeliverPane DEF View
  <2>2. session' = session /\ console' = Response(console, Head(adapter.replies))
        /\ ConsoleOf(console, session.map)
    BY <1>6 DEF Deliver, View, LinkTyped
  <2>3. console'.next = console.next
    BY <2>2, ResponseIs
  <2> QED
    BY <2>1, <2>2, <2>3, ListingsKept
<1> QED
  BY <1>1, <1>2, <1>4, <1>5, <1>6 DEF Next

(* Between two lines it has shown of a file a listing passes no instruction
   by, and none below once it has come to the file's end: for any pages and any
   commands in between, on maps that are in the order they are made in. *)
THEOREM InstructionsListedAlways == MapsInOrder => (Spec => []InstructionsListed)
<1> SUFFICES ASSUME MapsInOrder PROVE Spec => []InstructionsListed
    OBVIOUS
<1> DEFINE I == View /\ Listings
<1>1. Init => I
  BY DebuggingAssumption, ViewInit, ListingsInit
<1>2. I /\ [Next]_vars => I'
  BY DebuggingAssumption, ViewStep, ListingsStep
<1>3. I => InstructionsListed
  BY DebuggingAssumption, ListingsFollow
<1> QED
  BY <1>1, <1>2, <1>3, PTL DEF Spec
=============================================================================
