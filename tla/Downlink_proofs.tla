--------------------------- MODULE Downlink_proofs ---------------------------
(***************************************************************************)
(* Theorems about the way of a byte from the target to the host, for every *)
(* number of processes, any text, reads of any length and any losses.      *)
(***************************************************************************)
EXTENDS Downlink, Common_proofs

-----------------------------------------------------------------------------
(* The decoder's loop.  A state of it holds bytes, the frames and errors so
   far, and whether it waits.  What a turn does depends on the bytes alone:
   on the candidate at the first sync pair, or on the last byte. *)
Loop == [buffer : Seq(Octet), frames : Seq(FrameSet), errors : Nat, waiting : BOOLEAN]

Syncs(B) == FirstAt(B, Sync)
Candidate(B) == From(B, Min(Syncs(B)))

Effect(buffer, frames, bad, waiting) ==
    [buffer |-> buffer, frames |-> frames, errors |-> bad, waiting |-> waiting]
Judged(b) ==
    IF Len(b) < 7 THEN Effect(b, <<>>, 0, TRUE)
    ELSE IF Malformed(b) THEN Effect(Rejected(b), <<>>, 1, FALSE)
    ELSE IF Len(b) < FrameLength(b) THEN Effect(b, <<>>, 0, TRUE)
    ELSE IF b[4] \in KnownTypes
         THEN Effect(From(b, FrameLength(b) + 1), <<Parsed(b)>>, 0, FALSE)
         ELSE Effect(From(b, FrameLength(b) + 1), <<>>, 1, FALSE)
Step(B) == IF Syncs(B) = {} THEN Effect(Trailing(B), <<>>, 0, TRUE) ELSE Judged(Candidate(B))

After(d, e) ==
    Effect(e.buffer, d.frames \o e.frames, d.errors + e.errors, e.waiting)

LEMMA SyncIs ==
    /\ Sync \in Seq(Octet) /\ Len(Sync) = 2 /\ Sync[1] = 165 /\ Sync[2] = 90 /\ Len(Sync) > 0
    /\ <<Sync[1]>> \in Seq(Octet) /\ Len(<<Sync[1]>>) = 1 /\ <<Sync[1]>>[1] = 165
  BY DEF Sync, Octet

LEMMA SyncAt ==
    ASSUME NEW B \in Seq(Octet), NEW i \in Nat
    PROVE  i \in Syncs(B) <=> i >= 1 /\ i + 1 <= Len(B) /\ B[i] = 165 /\ B[i + 1] = 90
<1>1. i \in Syncs(B) <=> Place(B, Sync, i)
  BY SyncIs, FirstAtIs DEF Syncs
<1>2. Len(B) \in Nat
  OBVIOUS
<1>3. Place(B, Sync, i) <=> i >= 1 /\ i + 2 - 1 <= Len(B) /\ \A k \in 1..2 : B[i + k - 1] = Sync[k]
  BY SyncIs DEF Place
<1>4. (\A k \in 1..2 : B[i + k - 1] = Sync[k]) <=> B[i + 1 - 1] = Sync[1] /\ B[i + 2 - 1] = Sync[2]
  <2>1. 1..2 = {1, 2}
    OBVIOUS
  <2> QED
    BY <2>1
<1>5. i + 1 - 1 = i /\ i + 2 - 1 = i + 1
  OBVIOUS
<1> QED
  BY <1>1, <1>3, <1>4, <1>5, SyncIs

LEMMA SyncsRange == ASSUME NEW B \in Seq(Octet) PROVE Syncs(B) \subseteq Nat
  BY SyncIs, FirstAtRange DEF Syncs

LEMMA CandidateIs ==
    ASSUME NEW B \in Seq(Octet), Syncs(B) # {}
    PROVE  LET m == Min(Syncs(B)) IN
           /\ m \in Syncs(B) /\ m \in Nat /\ m >= 1 /\ m + 1 <= Len(B)
           /\ \A i \in Syncs(B) : m <= i
           /\ Candidate(B) \in Seq(Octet) /\ Len(Candidate(B)) = Len(B) - m + 1
           /\ Len(Candidate(B)) >= 2
           /\ Candidate(B)[1] = 165 /\ Candidate(B)[2] = 90
<1> DEFINE m == Min(Syncs(B))
<1>1. m \in Syncs(B) /\ \A i \in Syncs(B) : m <= i
  BY SyncsRange, MinOf
<1>2. m \in Nat
  BY <1>1, SyncsRange
<1>3. m >= 1 /\ m + 1 <= Len(B) /\ B[m] = 165 /\ B[m + 1] = 90
  BY <1>1, <1>2, SyncAt
<1> HIDE DEF m
<1>4. m \in 1..(Len(B) + 1) /\ Len(B) \in Nat
  BY <1>2, <1>3
<1> DEFINE b == From(B, m)
<1>5. /\ b \in Seq(Octet) /\ Len(b) = Len(B) - m + 1
      /\ \A k \in 1..(Len(B) - m + 1) : b[k] = B[m + k - 1]
  BY <1>4, FromIs
<1>6. 1 \in 1..(Len(B) - m + 1) /\ 2 \in 1..(Len(B) - m + 1) /\ m + 1 - 1 = m /\ m + 2 - 1 = m + 1
  BY <1>2, <1>3, <1>4
<1> HIDE DEF b
<1>7. b[1] = 165 /\ b[2] = 90 /\ Len(b) >= 2
  <2>1. b[1] = B[m + 1 - 1] /\ b[2] = B[m + 2 - 1]
    BY <1>5, <1>6
  <2>2. b[1] = 165 /\ b[2] = 90
    BY <1>3, <1>6, <2>1
  <2> QED
    BY <1>2, <1>3, <1>4, <1>5, <2>2
<1>8. Candidate(B) = b
  BY DEF Candidate, m, b
<1>9. /\ m \in Syncs(B) /\ m \in Nat /\ m >= 1 /\ m + 1 <= Len(B)
      /\ \A i \in Syncs(B) : m <= i
      /\ Candidate(B) \in Seq(Octet) /\ Len(Candidate(B)) = Len(B) - m + 1
      /\ Len(Candidate(B)) >= 2
      /\ Candidate(B)[1] = 165 /\ Candidate(B)[2] = 90
  BY <1>1, <1>2, <1>3, <1>5, <1>7, <1>8
<1> QED
  BY <1>9, Zenon DEF m

LEMMA TrailingIs ==
    ASSUME NEW B \in Seq(Octet)
    PROVE  /\ Trailing(B) \in Seq(Octet)
           /\ Trailing(B) = IF Len(B) > 0 /\ B[Len(B)] = 165 THEN <<165>> ELSE <<>>
<1>1. B # <<>> <=> Len(B) > 0
  OBVIOUS
<1>2. Trailing(B) = IF Len(B) > 0 /\ B[Len(B)] = 165 THEN <<165>> ELSE <<>>
  BY <1>1, SyncIs DEF Trailing, Last
<1>3. <<165>> \in Seq(Octet) /\ <<>> \in Seq(Octet)
  BY DEF Octet
<1> QED
  BY <1>2, <1>3

LEMMA JudgedType ==
    ASSUME NEW b \in Seq(Octet), Len(b) >= 2
    PROVE  /\ Judged(b) \in Loop
           /\ Judged(b).waiting => Judged(b).buffer = b /\ Judged(b).frames = <<>> /\ Judged(b).errors = 0
           /\ ~Judged(b).waiting => Len(Judged(b).buffer) < Len(b)
<1>1. <<>> \in Seq(FrameSet) /\ Len(b) \in Nat
  OBVIOUS
<1>2. CASE Len(b) < 7
  BY <1>1, <1>2 DEF Judged, Effect, Loop
<1>3. CASE Len(b) >= 7 /\ Malformed(b)
  <2>1. Tail(b) \in Seq(Octet) /\ Len(Tail(b)) < Len(b)
    BY <1>3
  <2> QED
    BY <1>1, <1>3, <2>1 DEF Judged, Effect, Loop, Rejected
<1>4. CASE Len(b) >= 7 /\ ~Malformed(b) /\ Len(b) < FrameLength(b)
  BY <1>1, <1>4 DEF Judged, Effect, Loop
<1>5. CASE Len(b) >= 7 /\ ~Malformed(b) /\ ~(Len(b) < FrameLength(b))
  <2> DEFINE rest == From(b, FrameLength(b) + 1)
             frame == Parsed(b)
  <2>1. FrameLength(b) \in Nat /\ FrameLength(b) >= 8
    BY <1>5, AnnouncedLength
  <2>2. frame \in FrameSet /\ rest \in Seq(Octet) /\ Len(rest) < Len(b)
    <3>1. Len(b) >= FrameLength(b)
      BY <1>1, <1>5, <2>1
    <3>2. frame \in FrameSet /\ rest \in Seq(Octet) /\ Len(rest) = Len(b) - FrameLength(b)
      BY <1>5, <3>1, ParsedIs
    <3> QED
      BY <1>1, <2>1, <3>2
  <2>3. Judged(b) = IF b[4] \in KnownTypes THEN Effect(rest, <<frame>>, 0, FALSE)
                    ELSE Effect(rest, <<>>, 1, FALSE)
    <3>1. ~(Len(b) < 7)
      BY <1>1, <1>5
    <3> QED
      BY <1>5, <3>1, Zenon DEF Judged
  <2> HIDE DEF rest, frame
  <2>4. <<frame>> \in Seq(FrameSet)
    BY <2>2
  <2> QED
    BY <1>1, <2>2, <2>3, <2>4 DEF Effect, Loop
<1> QED
  BY <1>1, <1>2, <1>3, <1>4, <1>5

LEMMA StepType ==
    ASSUME NEW B \in Seq(Octet)
    PROVE  /\ Step(B) \in Loop
           /\ Step(B).waiting => Step(B).frames = <<>> /\ Step(B).errors = 0
           /\ ~Step(B).waiting => Len(Step(B).buffer) < Len(B)
<1>1. CASE Syncs(B) = {}
  <2>1. Trailing(B) \in Seq(Octet) /\ <<>> \in Seq(FrameSet)
    BY TrailingIs
  <2> QED
    BY <1>1, <2>1 DEF Step, Effect, Loop
<1>2. CASE Syncs(B) # {}
  <2> DEFINE b == Candidate(B)
             m == Min(Syncs(B))
  <2>1. b \in Seq(Octet) /\ Len(b) >= 2 /\ m \in Nat /\ m >= 1 /\ Len(b) = Len(B) - m + 1
    BY <1>2, CandidateIs
  <2>2. Step(B) = Judged(b)
    BY <1>2 DEF Step
  <2> HIDE DEF b, m
  <2>3. /\ Judged(b) \in Loop
        /\ Judged(b).waiting => Judged(b).frames = <<>> /\ Judged(b).errors = 0
        /\ ~Judged(b).waiting => Len(Judged(b).buffer) < Len(b)
    BY <2>1, JudgedType
  <2>4. Len(b) <= Len(B)
    BY <2>1
  <2>5. ~Judged(b).waiting => Len(Judged(b).buffer) < Len(B)
    <3>1. Judged(b).buffer \in Seq(Octet)
      BY <2>3 DEF Loop
    <3> QED
      BY <2>1, <2>3, <2>4, <3>1
  <2> QED
    BY <2>2, <2>3, <2>5
<1> QED
  BY <1>1, <1>2

(* Two fields of the loop's state changed at once. *)
LEMMA BufferSet ==
    ASSUME NEW e, NEW B, NEW F, NEW E, NEW W, NEW x, e = Effect(B, F, E, W)
    PROVE  [e EXCEPT !.buffer = x] = Effect(x, F, E, W)
<1>1. [Effect(B, F, E, W) EXCEPT !.buffer = x] = Effect(x, F, E, W)
  BY DEF Effect
<1> QED
  BY <1>1
LEMMA WaitingSet ==
    ASSUME NEW e, NEW B, NEW F, NEW E, NEW W, NEW x, e = Effect(B, F, E, W)
    PROVE  [e EXCEPT !.waiting = x] = Effect(B, F, E, x)
<1>1. [Effect(B, F, E, W) EXCEPT !.waiting = x] = Effect(B, F, E, x)
  BY DEF Effect
<1> QED
  BY <1>1
LEMMA ErrorsSet ==
    ASSUME NEW e, NEW B, NEW F, NEW E, NEW W, NEW x, e = Effect(B, F, E, W)
    PROVE  [e EXCEPT !.errors = x] = Effect(B, F, x, W)
<1>1. [Effect(B, F, E, W) EXCEPT !.errors = x] = Effect(B, F, x, W)
  BY DEF Effect
<1> QED
  BY <1>1
LEMMA FramesSet ==
    ASSUME NEW e, NEW B, NEW F, NEW E, NEW W, NEW x, e = Effect(B, F, E, W)
    PROVE  [e EXCEPT !.frames = x] = Effect(B, x, E, W)
<1>1. [Effect(B, F, E, W) EXCEPT !.frames = x] = Effect(B, x, E, W)
  BY DEF Effect
<1> QED
  BY <1>1
LEMMA WaitingTwice ==
    ASSUME NEW e, NEW g, NEW h, NEW x, NEW y, [e EXCEPT !.buffer = x] = g, [g EXCEPT !.waiting = y] = h
    PROVE  [e EXCEPT !.buffer = x, !.waiting = y] = h
<1>1. [e EXCEPT !.buffer = x, !.waiting = y] = [[e EXCEPT !.buffer = x] EXCEPT !.waiting = y]
  OBVIOUS
<1>2. [[e EXCEPT !.buffer = x] EXCEPT !.waiting = y] = [g EXCEPT !.waiting = y]
  OBVIOUS
<1> QED
  BY <1>1, <1>2
LEMMA ErrorsTwice ==
    ASSUME NEW e, NEW g, NEW h, NEW x, NEW y, [e EXCEPT !.buffer = x] = g, [g EXCEPT !.errors = y] = h
    PROVE  [e EXCEPT !.buffer = x, !.errors = y] = h
<1>1. [e EXCEPT !.buffer = x, !.errors = y] = [[e EXCEPT !.buffer = x] EXCEPT !.errors = y]
  OBVIOUS
<1>2. [[e EXCEPT !.buffer = x] EXCEPT !.errors = y] = [g EXCEPT !.errors = y]
  OBVIOUS
<1> QED
  BY <1>1, <1>2
LEMMA FramesTwice ==
    ASSUME NEW e, NEW g, NEW h, NEW x, NEW y, [e EXCEPT !.buffer = x] = g, [g EXCEPT !.frames = y] = h
    PROVE  [e EXCEPT !.buffer = x, !.frames = y] = h
<1>1. [e EXCEPT !.buffer = x, !.frames = y] = [[e EXCEPT !.buffer = x] EXCEPT !.frames = y]
  OBVIOUS
<1>2. [[e EXCEPT !.buffer = x] EXCEPT !.frames = y] = [g EXCEPT !.frames = y]
  OBVIOUS
<1> QED
  BY <1>1, <1>2
Held(buffer, frames, bad) == Effect(buffer, frames, bad, TRUE)
Waited(d, x) == [d EXCEPT !.buffer = x, !.waiting = TRUE]
Erred(d, x) == [d EXCEPT !.buffer = x, !.errors = @ + 1]
Gained(d, x, f) == [d EXCEPT !.buffer = x, !.frames = Append(@, f)]
LEMMA WaitedIs ==
    ASSUME NEW d, NEW B, NEW F, NEW E, NEW W, d = Effect(B, F, E, W), NEW x
    PROVE  Waited(d, x) = Held(x, F, E)
<1> DEFINE g == Effect(x, F, E, W)
           y == TRUE
<1>1. [d EXCEPT !.buffer = x] = g
  BY BufferSet
<1>2. [g EXCEPT !.waiting = y] = Effect(x, F, E, y)
  <2> HIDE DEF y
  <2> QED
    BY WaitingSet
<1> HIDE DEF g
<1>4. [d EXCEPT !.buffer = x, !.waiting = y] = Effect(x, F, E, y)
  BY <1>1, <1>2, WaitingTwice
<1> QED
  BY <1>4 DEF Waited, Held
LEMMA ErredIs ==
    ASSUME NEW d, NEW B, NEW F, NEW E, NEW W, d = Effect(B, F, E, W), NEW x
    PROVE  Erred(d, x) = Effect(x, F, E + 1, W)
<1> DEFINE g == Effect(x, F, E, W)
           y == E + 1
<1>1. [d EXCEPT !.buffer = x] = g
  BY BufferSet
<1>2. [g EXCEPT !.errors = y] = Effect(x, F, y, W)
  BY ErrorsSet
<1>3. d.errors = E
  BY DEF Effect
<1> HIDE DEF g
<1>4. [d EXCEPT !.buffer = x, !.errors = y] = Effect(x, F, y, W)
  BY <1>1, <1>2, ErrorsTwice
<1> QED
  BY <1>3, <1>4 DEF Erred
LEMMA GainedIs ==
    ASSUME NEW d, NEW B, NEW F, NEW E, NEW W, d = Effect(B, F, E, W), NEW x, NEW f
    PROVE  Gained(d, x, f) = Effect(x, Append(F, f), E, W)
<1> DEFINE g == Effect(x, F, E, W)
           y == Append(F, f)
<1>1. [d EXCEPT !.buffer = x] = g
  BY BufferSet
<1>2. [g EXCEPT !.frames = y] = Effect(x, y, E, W)
  <2> HIDE DEF y
  <2> QED
    BY FramesSet
<1>3. d.frames = F
  BY DEF Effect
<1> HIDE DEF g
<1>4. [d EXCEPT !.buffer = x, !.frames = y] = Effect(x, y, E, W)
  BY <1>1, <1>2, FramesTwice
<1> QED
  BY <1>3, <1>4 DEF Gained

LEMMA TurnIs ==
    ASSUME NEW d \in Loop
    PROVE  Turn(d) = IF d.waiting THEN d ELSE After(d, Step(d.buffer))
<1>1. CASE d.waiting
  BY <1>1 DEF Turn
<1>2. CASE ~d.waiting
  <2> DEFINE B == d.buffer
             b == Candidate(B)
             rest == From(b, FrameLength(b) + 1)
  <2>0. d = Effect(B, d.frames, d.errors, d.waiting) /\ d.frames \in Seq(FrameSet) /\ d.errors \in Nat
        /\ B \in Seq(Octet)
    BY DEF Effect, Loop
  <2>1. d.frames \o <<>> = d.frames /\ d.errors + 0 = d.errors
    BY <2>0
  <2>2. Turn(d) =
          IF Syncs(B) = {} THEN Effect(Trailing(B), d.frames, d.errors, TRUE)
          ELSE IF Len(b) < 7 THEN Effect(b, d.frames, d.errors, TRUE)
          ELSE IF Malformed(b) THEN Effect(Rejected(b), d.frames, d.errors + 1, FALSE)
          ELSE IF Len(b) < FrameLength(b) THEN Effect(b, d.frames, d.errors, TRUE)
          ELSE IF b[4] \in KnownTypes
               THEN Effect(rest, Append(d.frames, Parsed(b)), d.errors, FALSE)
               ELSE Effect(rest, d.frames, d.errors + 1, FALSE)
    <3>1. Turn(d) =
            IF Syncs(B) = {} THEN Waited(d, Trailing(B))
            ELSE IF Len(b) < 7 THEN Waited(d, b)
            ELSE IF Malformed(b) THEN Erred(d, Rejected(b))
            ELSE IF Len(b) < FrameLength(b) THEN Waited(d, b)
            ELSE IF b[4] \in KnownTypes THEN Gained(d, rest, Parsed(b)) ELSE Erred(d, rest)
      BY <1>2, Zenon DEF Turn, Syncs, Candidate, Waited, Erred, Gained
    <3> DEFINE F == d.frames
               E == d.errors
               W == FALSE
    <3>2. d = Effect(B, F, E, W)
      BY <1>2, <2>0 DEF Loop
    <3> HIDE DEF F, E, W
    <3>3. ASSUME NEW x PROVE Waited(d, x) = Held(x, F, E)
      BY <3>2, WaitedIs
    <3>4. ASSUME NEW x PROVE Erred(d, x) = Effect(x, F, E + 1, W)
      BY <3>2, ErredIs
    <3>5. ASSUME NEW x, NEW f PROVE Gained(d, x, f) = Effect(x, Append(F, f), E, W)
      BY <3>2, GainedIs
    <3> HIDE DEF B, b, rest
    <3> QED
      BY <3>1, <3>3, <3>4, <3>5, Zenon DEF F, E, W, Held
  <2>3. CASE Syncs(B) = {}
    BY <1>2, <2>1, <2>2, <2>3 DEF Step, After, Effect
  <2>4. CASE Syncs(B) # {}
    <3>1. Step(B) = Judged(b)
      BY <2>4 DEF Step
    <3>2. Append(d.frames, Parsed(b)) = d.frames \o <<Parsed(b)>>
      BY <2>0
    <3> HIDE DEF b, rest
    <3>3. Turn(d) = After(d, Judged(b))
      <4>1. rest = From(b, FrameLength(b) + 1)
        BY DEF rest
      <4>2. CASE Len(b) < 7
        BY <2>1, <2>2, <2>4, <4>2 DEF Judged, After, Effect
      <4>3. CASE ~(Len(b) < 7) /\ Malformed(b)
        BY <2>1, <2>2, <2>4, <4>3 DEF Judged, After, Effect
      <4>4. CASE ~(Len(b) < 7) /\ ~Malformed(b) /\ Len(b) < FrameLength(b)
        BY <2>1, <2>2, <2>4, <4>4 DEF Judged, After, Effect
      <4>5. CASE ~(Len(b) < 7) /\ ~Malformed(b) /\ ~(Len(b) < FrameLength(b))
        BY <2>1, <2>2, <2>4, <3>2, <4>1, <4>5 DEF Judged, After, Effect
      <4> QED
        BY <4>2, <4>3, <4>4, <4>5
    <3> QED
      BY <1>2, <3>1, <3>3
  <2> QED
    BY <2>3, <2>4
<1> QED
  BY <1>1, <1>2

-----------------------------------------------------------------------------
(* More bytes behind a candidate change nothing that has been decided. *)
BodySame(b, c, y) ==
    /\ Malformed(c) <=> Malformed(b)
    /\ Parsed(c) = Parsed(b) /\ From(c, FrameLength(c) + 1) = From(b, FrameLength(b) + 1) \o y
    /\ From(b, FrameLength(b) + 1) \in Seq(Octet)

LEMMA BodyMore ==
    ASSUME NEW b \in Seq(Octet), NEW y \in Seq(Octet), Len(b) >= 7, Len(b) >= FrameLength(b)
    PROVE  BodySame(b, b \o y, y)
<1> DEFINE c == b \o y
           n == FrameLength(b)
<1>1. HeadSame(b, c)
  BY HeadMore
<1>2. n \in Nat /\ n >= 8 /\ FrameLength(c) = n /\ Len(b) >= n /\ Len(b) \in Nat /\ Len(y) \in Nat
      /\ c[3] = b[3] /\ c[4] = b[4] /\ c[5] = b[5]
  BY <1>1 DEF HeadSame
<1> HIDE DEF n
<1>3. Len(c) = Len(b) + Len(y) /\ \A k \in 1..Len(b) : c[k] = b[k]
  BY JoinIs
<1>4. c[n] = b[n]
  BY <1>2, <1>3
<1>5. SubSeq(c, 3, n - 1) = SubSeq(b, 3, n - 1)
  <2>1. 3 \in 1..(Len(b) + 1) /\ n - 1 \in (3 - 1)..Len(b)
    BY <1>2
  <2> QED
    BY <2>1, PartJoined
<1>6. SubSeq(c, 8, n - 1) = SubSeq(b, 8, n - 1)
  <2>1. 8 \in 1..(Len(b) + 1) /\ n - 1 \in (8 - 1)..Len(b)
    BY <1>2
  <2> QED
    BY <2>1, PartJoined
<1>7. From(c, n + 1) = From(b, n + 1) \o y /\ From(b, n + 1) \in Seq(Octet)
  <2>1. n + 1 \in 1..(Len(b) + 1)
    BY <1>2
  <2> QED
    BY <2>1, FromJoined, FromIs
<1> HIDE DEF c
<1>8. SumMatches(c) <=> SumMatches(b)
  BY <1>2, <1>4, <1>5, Zenon DEF SumMatches, n
<1>9. Len(c) >= n
  BY <1>2, <1>3
<1>10. Malformed(c) <=> Malformed(b)
  <2>1. Malformed(c) <=> c[3] # Version \/ n > 8 + HostMaxPayload \/ ~SumMatches(c)
    BY <1>2, <1>9, Zenon DEF Malformed
  <2>2. Malformed(b) <=> b[3] # Version \/ n > 8 + HostMaxPayload \/ ~SumMatches(b)
    BY <1>2, Zenon DEF Malformed, n
  <2> QED
    BY <1>2, <1>8, <2>1, <2>2
<1>11. Parsed(c) = Parsed(b)
  BY <1>2, <1>6, Zenon DEF Parsed, n
<1> QED
  BY <1>2, <1>7, <1>10, <1>11 DEF BodySame, c, n

LEMMA MalformedMore ==
    ASSUME NEW b \in Seq(Octet), NEW y \in Seq(Octet), Len(b) >= 7, Malformed(b)
    PROVE  Malformed(b \o y)
<1> DEFINE c == b \o y
           n == FrameLength(b)
<1>1. HeadSame(b, c)
  BY HeadMore
<1>2. n \in Nat /\ FrameLength(c) = n /\ c[3] = b[3]
  BY <1>1 DEF HeadSame
<1>3. CASE Len(b) >= n
  <2>1. BodySame(b, c, y)
    BY <1>3, BodyMore
  <2> QED
    BY <2>1 DEF BodySame
<1>4. CASE ~(Len(b) >= n)
  <2>1. b[3] # Version \/ n > 8 + HostMaxPayload
    BY <1>4 DEF Malformed
  <2> HIDE DEF c, n
  <2>2. Malformed(c)
    BY <1>2, <2>1 DEF Malformed
  <2> QED
    BY <2>2 DEF c
<1> QED
  BY <1>3, <1>4

LEMMA JudgedMore ==
    ASSUME NEW b \in Seq(Octet), NEW y \in Seq(Octet), Len(b) >= 2, ~Judged(b).waiting
    PROVE  Judged(b \o y)
             = Effect(Judged(b).buffer \o y, Judged(b).frames, Judged(b).errors, FALSE)
<1> DEFINE c == b \o y
           rest == From(b, FrameLength(b) + 1)
<1>1. Len(b) \in Nat /\ Len(y) \in Nat /\ c \in Seq(Octet) /\ Len(c) = Len(b) + Len(y)
  BY JoinIs
<1>2. ~(Len(b) < 7)
  BY DEF Judged, Effect
<1>3. ~(Len(c) < 7) /\ Len(b) >= 7
  BY <1>1, <1>2
<1>4. CASE Malformed(b)
  <2>1. Malformed(c)
    BY <1>3, <1>4, MalformedMore
  <2>2. Judged(c) = Effect(Tail(c), <<>>, 1, FALSE)
    BY <1>3, <2>1 DEF Judged, Rejected
  <2>3. Judged(b) = Effect(Tail(b), <<>>, 1, FALSE)
    BY <1>2, <1>4 DEF Judged, Rejected
  <2>4. Tail(c) = Tail(b) \o y
    <3>1. Tail(b) = From(b, 2) /\ Tail(c) = From(c, 2)
      <4>1. b # <<>> /\ c # <<>>
        BY <1>1, <1>3
      <4> HIDE DEF c
      <4> QED
        BY <1>1, <4>1, TailIs
    <3>2. 2 \in 1..(Len(b) + 1)
      BY <1>1, <1>3
    <3> QED
      BY <3>1, <3>2, FromJoined
  <2>5. Judged(b).buffer = Tail(b) /\ Judged(b).frames = <<>> /\ Judged(b).errors = 1
    BY <2>3 DEF Effect
  <2> QED
    BY <2>2, <2>4, <2>5
<1>5. CASE ~Malformed(b)
  <2>1. ~(Len(b) < FrameLength(b))
    BY <1>2, <1>5 DEF Judged, Effect
  <2>2. HeadSame(b, c)
    BY <1>3, HeadMore
  <2>3. FrameLength(b) \in Nat /\ FrameLength(c) = FrameLength(b) /\ c[4] = b[4]
    BY <2>2 DEF HeadSame
  <2>4. Len(b) >= FrameLength(b) /\ ~(Len(c) < FrameLength(c))
    BY <1>1, <2>1, <2>3
  <2>5. BodySame(b, c, y)
    BY <1>3, <2>4, BodyMore
  <2>6. ~Malformed(c) /\ Parsed(c) = Parsed(b) /\ From(c, FrameLength(c) + 1) = rest \o y
    BY <1>5, <2>5 DEF BodySame
  <2>7. Judged(c) = IF c[4] \in KnownTypes
                    THEN Effect(From(c, FrameLength(c) + 1), <<Parsed(c)>>, 0, FALSE)
                    ELSE Effect(From(c, FrameLength(c) + 1), <<>>, 1, FALSE)
    BY <1>3, <2>4, <2>6, Zenon DEF Judged
  <2>8. Judged(b) = IF b[4] \in KnownTypes THEN Effect(rest, <<Parsed(b)>>, 0, FALSE)
                    ELSE Effect(rest, <<>>, 1, FALSE)
    BY <1>2, <1>5, <2>1, Zenon DEF Judged
  <2>9. CASE b[4] \in KnownTypes
    <3>1. Judged(c) = Effect(rest \o y, <<Parsed(b)>>, 0, FALSE)
      BY <2>3, <2>6, <2>7, <2>9
    <3>2. Judged(b) = Effect(rest, <<Parsed(b)>>, 0, FALSE)
      BY <2>8, <2>9
    <3> HIDE DEF c, rest
    <3> QED
      BY <3>1, <3>2 DEF Effect, c
  <2>10. CASE b[4] \notin KnownTypes
    <3>1. Judged(c) = Effect(rest \o y, <<>>, 1, FALSE)
      BY <2>3, <2>6, <2>7, <2>10
    <3>2. Judged(b) = Effect(rest, <<>>, 1, FALSE)
      BY <2>8, <2>10
    <3> HIDE DEF c, rest
    <3> QED
      BY <3>1, <3>2 DEF Effect, c
  <2> QED
    BY <2>9, <2>10
<1> QED
  BY <1>4, <1>5

LEMMA SyncsMore ==
    ASSUME NEW B \in Seq(Octet), NEW y \in Seq(Octet)
    PROVE  \A i \in Nat : i + 2 - 1 <= Len(B) => (i \in Syncs(B \o y) <=> i \in Syncs(B))
  BY SyncIs, FirstAtJoined, Zenon DEF Syncs

(* The candidate is the same one with more bytes behind it. *)
LEMMA CandidateMore ==
    ASSUME NEW B \in Seq(Octet), NEW y \in Seq(Octet), Syncs(B) # {}
    PROVE  Syncs(B \o y) # {} /\ Candidate(B \o y) = Candidate(B) \o y
<1> DEFINE m == Min(Syncs(B))
           C == B \o y
<1>1. m \in Syncs(B) /\ m \in Nat /\ m >= 1 /\ m + 1 <= Len(B) /\ \A i \in Syncs(B) : m <= i
  BY CandidateIs
<1>2. \A i \in Nat : i + 2 - 1 <= Len(B) => (i \in Syncs(C) <=> i \in Syncs(B))
  BY SyncIs, FirstAtJoined, Zenon DEF Syncs
<1>3. C \in Seq(Octet) /\ Len(B) \in Nat
  BY JoinIs
<1>4. Syncs(C) \subseteq Nat
  BY <1>3, SyncsRange
<1> HIDE DEF m, C
<1>5. m \in Syncs(C)
  <2>1. m + 2 - 1 <= Len(B)
    BY <1>1, <1>3
  <2> QED
    BY <1>1, <1>2, <2>1
<1>6. ASSUME NEW i \in Syncs(C) PROVE m <= i
  <2>1. CASE i + 2 - 1 <= Len(B)
    BY <1>1, <1>2, <1>4, <2>1
  <2>2. CASE ~(i + 2 - 1 <= Len(B))
    BY <1>1, <1>3, <1>4, <2>2
  <2> QED
    BY <2>1, <2>2
<1>7. Min(Syncs(C)) = m
  BY <1>4, <1>5, <1>6, FirstOf
<1>8. From(C, m) = From(B, m) \o y
  <2>1. m \in 1..(Len(B) + 1)
    BY <1>1, <1>3
  <2> QED
    BY <2>1, FromJoined DEF C
<1> QED
  BY <1>5, <1>7, <1>8 DEF Candidate, m, C

(* Bytes in front in which no candidate begins are passed by. *)
LEMMA StepPasses ==
    ASSUME NEW x \in Seq(Octet), NEW w \in Seq(Octet),
           \A i \in Syncs(x \o w) : i > Len(x),
           w = <<>> => Trailing(x) = <<>>
    PROVE  Step(x \o w) = Step(w)
<1> DEFINE C == x \o w
<1>1. /\ C \in Seq(Octet) /\ Len(C) = Len(x) + Len(w) /\ Len(x) \in Nat /\ Len(w) \in Nat
      /\ \A k \in 1..Len(w) : C[Len(x) + k] = w[k]
  BY JoinIs
<1>2. \A j \in Nat : j >= 1 => (Len(x) + j \in Syncs(C) <=> j \in Syncs(w))
  BY SyncIs, FirstAtJoined, Zenon DEF Syncs
<1>3. Syncs(C) \subseteq Nat /\ Syncs(w) \subseteq Nat
  BY <1>1, SyncsRange
<1>4. \A i \in Syncs(C) : i > Len(x)
  OBVIOUS
<1>5. CASE Syncs(w) = {}
  <2>1. Syncs(C) = {}
    <3>1. ASSUME NEW i \in Syncs(C) PROVE FALSE
      <4> HIDE DEF C
      <4>1. i \in Nat /\ i > Len(x)
        BY <1>3, <1>4
      <4>2. i - Len(x) \in Nat /\ i - Len(x) >= 1 /\ Len(x) + (i - Len(x)) = i
        BY <1>1, <4>1
      <4> QED
        BY <1>2, <1>5, <4>2
    <3> QED
      BY <3>1
  <2>2. Trailing(C) = Trailing(w)
    <3>1. CASE w = <<>>
      <4>1. C = x
        BY <3>1, ConcatEmpty
      <4>2. Trailing(w) = <<>>
        BY <3>1 DEF Trailing
      <4> QED
        BY <3>1, <4>1, <4>2
    <3>2. CASE w # <<>>
      <4>1. Len(w) > 0 /\ Len(w) \in 1..Len(w)
        BY <3>2
      <4> HIDE DEF C
      <4>2. C[Len(C)] = w[Len(w)] /\ Len(C) > 0
        BY <1>1, <4>1
      <4>3. Trailing(C) = IF Len(C) > 0 /\ C[Len(C)] = 165 THEN <<165>> ELSE <<>>
        BY <1>1, TrailingIs
      <4>4. Trailing(w) = IF Len(w) > 0 /\ w[Len(w)] = 165 THEN <<165>> ELSE <<>>
        BY TrailingIs
      <4> QED
        BY <4>1, <4>2, <4>3, <4>4
    <3> QED
      BY <3>1, <3>2
  <2> HIDE DEF C
  <2>3. Step(C) = Step(w)
    BY <1>5, <2>1, <2>2 DEF Step
  <2> QED
    BY <2>3 DEF C
<1>6. CASE Syncs(w) # {}
  <2> DEFINE m == Min(Syncs(w))
  <2>1. m \in Syncs(w) /\ m \in Nat /\ m >= 1 /\ m + 1 <= Len(w) /\ \A i \in Syncs(w) : m <= i
    BY <1>6, CandidateIs
  <2> HIDE DEF m, C
  <2>2. Len(x) + m \in Syncs(C)
    BY <1>2, <2>1
  <2>3. ASSUME NEW i \in Syncs(C) PROVE Len(x) + m <= i
    <3>1. i \in Nat /\ i > Len(x)
      BY <1>3, <1>4 DEF C
    <3>2. i - Len(x) \in Nat /\ i - Len(x) >= 1 /\ Len(x) + (i - Len(x)) = i
      BY <1>1, <3>1
    <3>3. i - Len(x) \in Syncs(w)
      BY <1>2, <3>2
    <3> QED
      BY <1>1, <2>1, <3>1, <3>3
  <2>4. Min(Syncs(C)) = Len(x) + m
    BY <1>3, <2>2, <2>3, FirstOf
  <2>5. From(C, Len(x) + m) = From(w, m)
    <3>1. m \in 1..(Len(w) + 1)
      BY <1>1, <2>1
    <3> QED
      BY <3>1, FromBeyond DEF C
  <2>6. Candidate(C) = Candidate(w)
    BY <2>4, <2>5 DEF Candidate, m
  <2>7. Step(C) = Step(w)
    BY <1>6, <2>2, <2>6 DEF Step
  <2> QED
    BY <2>7 DEF C
<1> QED
  BY <1>5, <1>6

(* A turn that does not wait is the same with more bytes behind, and one that
   waits leaves what decides the next turn. *)
LEMMA StepMore ==
    ASSUME NEW B \in Seq(Octet), NEW y \in Seq(Octet), ~Step(B).waiting
    PROVE  Step(B \o y) = Effect(Step(B).buffer \o y, Step(B).frames, Step(B).errors, FALSE)
<1> DEFINE b == Candidate(B)
<1>1. Syncs(B) # {}
  BY DEF Step, Effect
<1>2. Step(B) = Judged(b)
  BY <1>1 DEF Step
<1>3. b \in Seq(Octet) /\ Len(b) >= 2
  BY <1>1, CandidateIs
<1>4. Step(B \o y) = Judged(b \o y)
  BY <1>1, CandidateMore DEF Step
<1> HIDE DEF b
<1> QED
  BY <1>2, <1>3, <1>4, JudgedMore

LEMMA StepSettled ==
    ASSUME NEW B \in Seq(Octet), NEW y \in Seq(Octet), Step(B).waiting
    PROVE  Step(Step(B).buffer \o y) = Step(B \o y)
<1>1. CASE Syncs(B) = {}
  <2> DEFINE t == Trailing(B)
             n == Len(B) - Len(t)
             x == SubSeq(B, 1, n)
             w == t \o y
  <2>1. Step(B).buffer = t
    BY <1>1 DEF Step, Effect
  <2>2. t \in Seq(Octet) /\ t = IF Len(B) > 0 /\ B[Len(B)] = 165 THEN <<165>> ELSE <<>>
    BY TrailingIs
  <2>3. Len(t) \in Nat /\ Len(B) \in Nat /\ n \in 0..Len(B) /\ Len(t) <= 1
        /\ (Len(t) = 1 => Len(B) > 0 /\ t[1] = B[Len(B)])
    <3> HIDE DEF t
    <3>1. CASE Len(B) > 0 /\ B[Len(B)] = 165
      <4>1. t = <<165>> /\ Len(t) = 1 /\ t[1] = 165
        BY <2>2, <3>1
      <4> QED
        BY <3>1, <4>1
    <3>2. CASE ~(Len(B) > 0 /\ B[Len(B)] = 165)
      <4>1. t = <<>> /\ Len(t) = 0
        BY <2>2, <3>2
      <4> QED
        BY <4>1
    <3> QED
      BY <3>1, <3>2
  <2> HIDE DEF t
  <2>4. x \in Seq(Octet) /\ Len(x) = n /\ \A k \in 1..n : x[k] = B[k]
    BY <2>3, FrontIs
  <2>5. B = x \o t
    <3> DEFINE z == From(B, n + 1)
    <3>1. B = x \o z
      BY <2>3, CutJoined
    <3>2. n + 1 \in 1..(Len(B) + 1)
      BY <2>3
    <3>3. z \in Seq(Octet) /\ Len(z) = Len(B) - (n + 1) + 1
          /\ \A k \in 1..(Len(B) - (n + 1) + 1) : z[k] = B[n + 1 + k - 1]
      BY <3>2, FromIs
    <3> HIDE DEF x, z
    <3>4. Len(z) = Len(t)
      BY <2>3, <3>3
    <3>5. ASSUME NEW k \in 1..Len(z) PROVE z[k] = t[k]
      <4>1. k = 1 /\ Len(t) = 1
        BY <2>3, <3>4
      <4>2. z[1] = B[n + 1 + 1 - 1] /\ n + 1 + 1 - 1 = Len(B)
        BY <2>3, <3>3, <3>4, <4>1
      <4> QED
        BY <2>3, <4>1, <4>2
    <3>6. z = t
      BY <2>2, <3>3, <3>4, <3>5, SeqEqual
    <3> QED
      BY <3>1, <3>6
  <2>6. w \in Seq(Octet) /\ B \o y = x \o w
    <3> HIDE DEF x
    <3>0. t \in Seq(Octet) /\ x \in Seq(Octet) /\ y \in Seq(Octet)
      BY <2>2, <2>4
    <3>1. Associated(x, t, y)
      BY <3>0, Associates
    <3> QED
      BY <2>2, <2>5, <3>1, JoinIs DEF Associated
  <2>7. ASSUME NEW i \in Syncs(x \o w) PROVE i > Len(x)
    <3> DEFINE C == B \o y
    <3>1. C \in Seq(Octet) /\ \A k \in 1..Len(B) : C[k] = B[k]
      BY JoinIs
    <3>2. i \in Syncs(C) /\ i \in Nat
      BY <2>6, <3>1, SyncsRange
    <3>3. \A k \in Nat : k + 2 - 1 <= Len(B) => (k \in Syncs(C) <=> k \in Syncs(B))
      BY SyncsMore
    <3> HIDE DEF C
    <3>4. i >= 1 /\ C[i] = 165
      BY <3>1, <3>2, SyncAt
    <3>5. ~(i + 2 - 1 <= Len(B))
      BY <1>1, <3>2, <3>3
    <3>6. i >= Len(B)
      BY <2>3, <3>2, <3>5
    <3>7. SUFFICES ASSUME i <= n PROVE FALSE
      BY <2>3, <2>4, <3>2
    <3>8. i = Len(B) /\ Len(t) = 0
      BY <2>3, <3>2, <3>6, <3>7
    <3>9. i \in 1..Len(B)
      BY <2>3, <3>2, <3>4, <3>8
    <3>10. B[Len(B)] = 165 /\ Len(B) > 0
      BY <3>1, <3>4, <3>8, <3>9
    <3> QED
      BY <2>2, <3>8, <3>10
  <2>8. ASSUME w = <<>> PROVE Trailing(x) = <<>>
    <3>1. Len(w) = Len(t) + Len(y) /\ Len(y) \in Nat
      BY <2>2, JoinIs
    <3>2. Len(t) = 0
      <4> HIDE DEF w
      <4> QED
        BY <2>3, <2>8, <3>1
    <3>3. n = Len(B) /\ Trailing(x) = IF Len(x) > 0 /\ x[Len(x)] = 165 THEN <<165>> ELSE <<>>
      <4> HIDE DEF x
      <4> QED
        BY <2>3, <2>4, <3>2, TrailingIs
    <3> HIDE DEF x
    <3>4. Len(x) > 0 => x[Len(x)] = B[Len(B)]
      BY <2>3, <2>4, <3>3
    <3>5. ~(Len(B) > 0 /\ B[Len(B)] = 165)
      BY <2>2, <3>2
    <3> QED
      BY <2>3, <2>4, <3>3, <3>4, <3>5
  <2> HIDE DEF x, w
  <2>9. Step(x \o w) = Step(w)
    BY <2>4, <2>6, <2>7, <2>8, StepPasses
  <2> QED
    BY <2>1, <2>6, <2>9 DEF w
<1>2. CASE Syncs(B) # {}
  <2> DEFINE b == Candidate(B)
  <2>1. Step(B) = Judged(b)
    BY <1>2 DEF Step
  <2>2. b \in Seq(Octet) /\ Len(b) >= 2 /\ b[1] = 165 /\ b[2] = 90
    BY <1>2, CandidateIs
  <2>3. Step(B).buffer = b
    <3> HIDE DEF b
    <3>1. Judged(b).waiting
      BY <2>1
    <3> QED
      BY <2>1, <2>2, <3>1, JudgedType
  <2>4. Step(B \o y) = Judged(b \o y)
    BY <1>2, CandidateMore DEF Step
  <2> HIDE DEF b
  <2>5. 1 \in Syncs(b)
    BY <2>2, SyncAt
  <2>6. Candidate(b) = b
    <3>1. Syncs(b) \subseteq Nat
      BY <2>2, SyncsRange
    <3>2. ASSUME NEW i \in Syncs(b) PROVE 1 <= i
      BY <2>2, <3>1, SyncAt
    <3>3. Min(Syncs(b)) = 1
      BY <2>5, <3>1, <3>2, FirstOf
    <3>4. From(b, 1) = b
      BY <2>2, FromFirst
    <3> QED
      BY <3>3, <3>4 DEF Candidate
  <2>7. Step(b \o y) = Judged(b \o y)
    <3>1. Syncs(b) # {}
      BY <2>5
    <3>2. Syncs(b \o y) # {} /\ Candidate(b \o y) = b \o y
      BY <2>2, <2>6, <3>1, CandidateMore
    <3> QED
      BY <3>2 DEF Step
  <2> QED
    BY <2>3, <2>4, <2>7
<1> QED
  BY <1>1, <1>2

-----------------------------------------------------------------------------
(* The whole loop: Scan is where the turns end. *)
turn == [d \in Loop |-> Turn(d)]
size == [d \in Loop |-> Len(d.buffer)]
Still == {d \in Loop : d.waiting}

LEMMA AfterType ==
    ASSUME NEW d \in Loop, NEW e \in Loop
    PROVE  /\ After(d, e) \in Loop /\ After(d, e).buffer = e.buffer
           /\ After(d, e).waiting = e.waiting
<1>1. d.frames \o e.frames \in Seq(FrameSet) /\ d.errors + e.errors \in Nat
  BY DEF Loop
<1> QED
  BY <1>1 DEF After, Effect, Loop

LEMMA TurnType ==
    ASSUME NEW d \in Loop
    PROVE  Turn(d) \in Loop /\ (Turn(d).waiting \/ Len(Turn(d).buffer) < Len(d.buffer))
<1>1. CASE d.waiting
  BY <1>1, TurnIs
<1>2. CASE ~d.waiting
  <2> DEFINE s == Step(d.buffer)
  <2>1. d.buffer \in Seq(Octet)
    BY DEF Loop
  <2>2. s \in Loop /\ (~s.waiting => Len(s.buffer) < Len(d.buffer))
    BY <2>1, StepType
  <2>3. Turn(d) = After(d, s)
    BY <1>2, TurnIs
  <2> HIDE DEF s
  <2>4. /\ After(d, s) \in Loop /\ After(d, s).buffer = s.buffer
        /\ After(d, s).waiting = s.waiting
    BY <2>2, AfterType
  <2> QED
    BY <2>2, <2>3, <2>4
<1> QED
  BY <1>1, <1>2

LEMMA LoopEnds == Ending(Loop, Still, turn, size)
<1>1. turn \in [Loop -> Loop]
  BY TurnType DEF turn
<1>2. size \in [Loop -> Nat]
  BY DEF size, Loop
<1>3. Still \subseteq Loop
  BY DEF Still
<1>4. ASSUME NEW e \in Still PROVE turn[e] = e
  BY TurnIs DEF turn, Still
<1>5. ASSUME NEW e \in Loop PROVE turn[e] \in Still \/ size[turn[e]] < size[e]
  <2>1. turn[e] = Turn(e) /\ turn[e] \in Loop
    BY <1>1 DEF turn
  <2>2. size[turn[e]] = Len(Turn(e).buffer) /\ size[e] = Len(e.buffer)
    BY <2>1 DEF size
  <2> QED
    BY <2>1, <2>2, TurnType DEF Still
<1> QED
  BY <1>1, <1>2, <1>3, <1>4, <1>5 DEF Ending

Turns(f, d, n) == f = [i \in 0..n |-> IF i = 0 THEN d ELSE Turn(f[i - 1])]

LEMMA OrbitTurns ==
    ASSUME NEW d \in Loop, NEW n \in Nat, NEW f, Orbit(Loop, turn, d, n, f)
    PROVE  Turns(f, d, n)
<1>1. /\ f \in [0..n -> Loop] /\ f[0] = d
      /\ \A i \in 0..(n - 1) : f[i + 1] = turn[f[i]]
  BY DEF Orbit
<1> DEFINE h == [i \in 0..n |-> IF i = 0 THEN d ELSE Turn(f[i - 1])]
<1>2. ASSUME NEW i \in 0..n PROVE f[i] = h[i]
  <2>1. CASE i = 0
    BY <1>1, <2>1
  <2>2. CASE i # 0
    <3>1. i - 1 \in 0..(n - 1) /\ i - 1 \in 0..n /\ (i - 1) + 1 = i
      BY <2>2
    <3>2. f[i] = turn[f[i - 1]] /\ f[i - 1] \in Loop
      BY <1>1, <3>1
    <3>3. f[i] = Turn(f[i - 1])
      BY <3>2 DEF turn
    <3> QED
      BY <2>2, <3>3
  <2> QED
    BY <2>1, <2>2
<1>3. DOMAIN f = 0..n /\ DOMAIN h = 0..n
  BY <1>1
<1>4. f = h
  <2>1. f = [i \in 0..n |-> f[i]]
    BY <1>1
  <2>2. h = [i \in 0..n |-> h[i]]
    OBVIOUS
  <2> HIDE DEF h
  <2> QED
    BY <1>2, <2>1, <2>2
<1> QED
  BY <1>4 DEF Turns

LEMMA TurnsOrbit ==
    ASSUME NEW d \in Loop, NEW n \in Nat, NEW f, Turns(f, d, n)
    PROVE  Orbit(Loop, turn, d, n, f)
<1> DEFINE S == {i \in Nat : i <= n => f[i] \in Loop}
<1>1. \A i \in 0..n : f[i] = IF i = 0 THEN d ELSE Turn(f[i - 1])
  <2> DEFINE h == [i \in 0..n |-> IF i = 0 THEN d ELSE Turn(f[i - 1])]
  <2>1. \A i \in 0..n : h[i] = IF i = 0 THEN d ELSE Turn(f[i - 1])
    OBVIOUS
  <2>2. f = h
    BY DEF Turns
  <2> HIDE DEF h
  <2> QED
    BY <2>1, <2>2
<1>2. 0 \in S
  BY <1>1
<1>3. ASSUME NEW i \in S PROVE i + 1 \in S
  <2>1. SUFFICES ASSUME i + 1 <= n PROVE f[i + 1] \in Loop
    OBVIOUS
  <2>2. i + 1 \in 0..n /\ i + 1 # 0 /\ (i + 1) - 1 = i /\ i <= n
    BY <2>1
  <2>3. f[i + 1] = Turn(f[i])
    BY <1>1, <2>2
  <2>4. f[i] \in Loop
    BY <2>2
  <2> QED
    BY <2>3, <2>4, TurnType
<1>4. S \subseteq Nat
  OBVIOUS
<1> HIDE DEF S
<1>5. S = Nat
  BY <1>2, <1>3, <1>4, SetInduction
<1>6. \A i \in 0..n : f[i] \in Loop
  BY <1>5 DEF S
<1>7. f \in [0..n -> Loop]
  <2>1. f = [i \in 0..n |-> IF i = 0 THEN d ELSE Turn(f[i - 1])]
    BY DEF Turns
  <2>2. f = [i \in 0..n |-> f[i]]
    BY <2>1
  <2> QED
    BY <1>6, <2>2
<1>8. ASSUME NEW i \in 0..(n - 1) PROVE f[i + 1] = turn[f[i]]
  <2>1. i + 1 \in 0..n /\ i + 1 # 0 /\ (i + 1) - 1 = i /\ i \in 0..n
    OBVIOUS
  <2>2. f[i + 1] = Turn(f[i])
    BY <1>1, <2>1
  <2> QED
    BY <1>6, <2>1, <2>2 DEF turn
<1>9. f[0] = d
  BY <1>1
<1> QED
  BY <1>7, <1>8, <1>9 DEF Orbit

LEMMA ScanIs ==
    ASSUME NEW d \in Loop
    PROVE  \E f : Orbit(Loop, turn, d, size[d] + 1, f) /\ Scan(d) = f[size[d] + 1]
<1> DEFINE n == Len(d.buffer) + 1
           F == CHOOSE g : g = [i \in 0..n |-> IF i = 0 THEN d ELSE Turn(g[i - 1])]
<1>1. Scan(d) = F[n]
  BY DEF Scan
<1>2. n \in Nat /\ size[d] + 1 = n
  BY DEF size, Loop
<1>3. \E g : Turns(g, d, n)
  <2>1. turn \in [Loop -> Loop]
    BY LoopEnds DEF Ending
  <2> HIDE DEF n
  <2>2. \E g : Orbit(Loop, turn, d, n, g)
    BY <1>2, <2>1, OrbitExists
  <2> QED
    BY <1>2, <2>2, OrbitTurns
<1> HIDE DEF n
<1>4. F = [i \in 0..n |-> IF i = 0 THEN d ELSE Turn(F[i - 1])]
  BY <1>3 DEF Turns
<1> HIDE DEF F
<1>5. Turns(F, d, n)
  BY <1>4 DEF Turns
<1>6. Orbit(Loop, turn, d, n, F)
  BY <1>2, <1>5, TurnsOrbit
<1> QED
  BY <1>1, <1>2, <1>6

(* What the loop does: it ends waiting, does nothing when it waits, and may be
   looked at one turn later. *)
LEMMA ScanTurns ==
    ASSUME NEW d \in Loop
    PROVE  /\ Scan(d) \in Loop /\ Scan(d).waiting
           /\ d.waiting => Scan(d) = d
           /\ Scan(Turn(d)) = Scan(d)
<1>1. PICK f : Orbit(Loop, turn, d, size[d] + 1, f) /\ Scan(d) = f[size[d] + 1]
  BY ScanIs
<1>2. turn[d] \in Loop /\ turn[d] = Turn(d)
  BY TurnType DEF turn
<1>3. PICK g : Orbit(Loop, turn, turn[d], size[turn[d]] + 1, g)
               /\ Scan(turn[d]) = g[size[turn[d]] + 1]
  BY <1>2, ScanIs
<1>4. turn \in [Loop -> Loop]
  BY LoopEnds DEF Ending
<1>5. f[size[d] + 1] \in Still
  BY <1>1, <1>4, LoopEnds, OrbitSettles
<1>6. /\ f[size[d] + 1] = g[size[turn[d]] + 1]
      /\ d \in Still => f[size[d] + 1] = d
  BY <1>1, <1>3, LoopEnds, OrbitEnds
<1> QED
  BY <1>1, <1>2, <1>3, <1>5, <1>6 DEF Still

(* What was made out before goes in front of what the loop makes out. *)
Plus(F, E, d) == Effect(d.buffer, F \o d.frames, E + d.errors, d.waiting)

LEMMA PlusType ==
    ASSUME NEW F \in Seq(FrameSet), NEW E \in Nat, NEW d \in Loop
    PROVE  /\ Plus(F, E, d) \in Loop /\ Plus(F, E, d).buffer = d.buffer
           /\ Plus(F, E, d).waiting = d.waiting
           /\ Plus(F, E, d).frames = F \o d.frames /\ Plus(F, E, d).errors = E + d.errors
<1>1. F \o d.frames \in Seq(FrameSet) /\ E + d.errors \in Nat
  BY DEF Loop
<1> QED
  BY <1>1 DEF Plus, Effect, Loop

LEMMA TurnPlus ==
    ASSUME NEW F \in Seq(FrameSet), NEW E \in Nat, NEW d \in Loop
    PROVE  Turn(Plus(F, E, d)) = Plus(F, E, Turn(d))
<1> DEFINE p == Plus(F, E, d)
<1>1. /\ p \in Loop /\ p.buffer = d.buffer /\ p.waiting = d.waiting
      /\ p.frames = F \o d.frames /\ p.errors = E + d.errors
  BY PlusType
<1> HIDE DEF p
<1>2. CASE d.waiting
  BY <1>1, <1>2, TurnIs DEF p
<1>3. CASE ~d.waiting
  <2> DEFINE s == Step(d.buffer)
  <2>1. s \in Loop /\ d.frames \in Seq(FrameSet) /\ d.errors \in Nat
    BY StepType DEF Loop
  <2>2. Turn(p) = After(p, s) /\ Turn(d) = After(d, s)
    BY <1>1, <1>3, TurnIs
  <2> HIDE DEF s
  <2>3. s.frames \in Seq(FrameSet) /\ s.errors \in Nat
    BY <2>1 DEF Loop
  <2>4. Associated(F, d.frames, s.frames)
    BY <2>1, <2>3, Associates
  <2>5. (E + d.errors) + s.errors = E + (d.errors + s.errors)
    BY <2>1, <2>3
  <2> DEFINE g == F \o (d.frames \o s.frames)
             m == E + (d.errors + s.errors)
  <2>6. After(p, s) = Effect(s.buffer, g, m, s.waiting)
    BY <1>1, <2>4, <2>5 DEF After, Associated
  <2>7. Plus(F, E, After(d, s)) = Effect(s.buffer, g, m, s.waiting)
    <3> DEFINE a == After(d, s)
    <3>1. a.buffer = s.buffer /\ a.frames = d.frames \o s.frames /\ a.errors = d.errors + s.errors
          /\ a.waiting = s.waiting
      BY DEF After, Effect
    <3> HIDE DEF a
    <3>2. Plus(F, E, a) = Effect(s.buffer, g, m, s.waiting)
      BY <3>1 DEF Plus
    <3> QED
      BY <3>2 DEF a
  <2> QED
    BY <2>2, <2>6, <2>7 DEF p
<1> QED
  BY <1>2, <1>3

LEMMA ScanPlus ==
    ASSUME NEW F \in Seq(FrameSet), NEW E \in Nat
    PROVE  \A d \in Loop : Scan(Plus(F, E, d)) = Plus(F, E, Scan(d))
<1> DEFINE S == {d \in Loop : Scan(Plus(F, E, d)) = Plus(F, E, Scan(d))}
<1>1. size \in [Loop -> Nat]
  BY DEF size, Loop
<1>2. ASSUME NEW d \in Loop, \A e \in Loop : size[e] < size[d] => e \in S
      PROVE  d \in S
  <2> DEFINE t == Turn(d)
             p == Plus(F, E, d)
             q == Plus(F, E, t)
  <2>1. t \in Loop /\ (t.waiting \/ Len(t.buffer) < Len(d.buffer))
    BY TurnType
  <2>2. p \in Loop /\ Turn(p) = q
    BY PlusType, TurnPlus
  <2>3. Scan(p) = Scan(q) /\ Scan(d) = Scan(t)
    BY <2>2, ScanTurns
  <2> HIDE DEF t, p, q
  <2>4. CASE t.waiting
    <3>1. q \in Loop /\ q.waiting
      BY <2>1, <2>4, PlusType DEF q
    <3>2. Scan(q) = q /\ Scan(t) = t
      BY <2>1, <2>4, <3>1, ScanTurns
    <3> QED
      BY <2>3, <3>2 DEF p, q
  <2>5. CASE ~t.waiting
    <3>1. size[t] < size[d]
      BY <2>1, <2>5 DEF size
    <3>2. t \in S
      BY <1>2, <2>1, <3>1
    <3> QED
      BY <2>3, <3>2 DEF p, q
  <2> QED
    BY <2>4, <2>5
<1>3. S \subseteq Loop
  OBVIOUS
<1> HIDE DEF S
<1>4. S = Loop
  BY <1>1, <1>2, <1>3, SizeInduction
<1> QED
  BY <1>4 DEF S

(* The loop's bytes may come in two parts. *)
Resume(e, y) == Effect(e.buffer \o y, e.frames, e.errors, FALSE)

LEMMA ResumeType ==
    ASSUME NEW d \in Loop, NEW y \in Seq(Octet)
    PROVE  /\ Resume(d, y) \in Loop /\ Resume(d, y).buffer = d.buffer \o y
           /\ ~Resume(d, y).waiting
           /\ Resume(d, y).frames = d.frames /\ Resume(d, y).errors = d.errors
<1>1. d.buffer \o y \in Seq(Octet)
  BY JoinIs DEF Loop
<1> QED
  BY <1>1 DEF Resume, Effect, Loop

LEMMA ScanAppend ==
    ASSUME NEW y \in Seq(Octet)
    PROVE  \A d \in Loop : ~d.waiting => Scan(Resume(d, y)) = Scan(Resume(Scan(d), y))
<1> DEFINE S == {d \in Loop : ~d.waiting => Scan(Resume(d, y)) = Scan(Resume(Scan(d), y))}
<1>1. size \in [Loop -> Nat]
  BY DEF size, Loop
<1>2. ASSUME NEW d \in Loop, \A e \in Loop : size[e] < size[d] => e \in S
      PROVE  d \in S
  <2>1. SUFFICES ASSUME ~d.waiting PROVE Scan(Resume(d, y)) = Scan(Resume(Scan(d), y))
    OBVIOUS
  <2> DEFINE t == Turn(d)
             s == Step(d.buffer)
             r == Resume(d, y)
             u == Resume(t, y)
  <2>2. d.buffer \in Seq(Octet) /\ d.frames \in Seq(FrameSet) /\ d.errors \in Nat
    BY DEF Loop
  <2>3. t \in Loop /\ (t.waiting \/ Len(t.buffer) < Len(d.buffer)) /\ t = After(d, s)
    BY <2>1, TurnIs, TurnType
  <2>4. /\ r \in Loop /\ r.buffer = d.buffer \o y /\ ~r.waiting
        /\ r.frames = d.frames /\ r.errors = d.errors
    BY ResumeType
  <2>5. Scan(d) = Scan(t) /\ Scan(r) = Scan(Turn(r)) /\ Turn(r) = After(r, Step(d.buffer \o y))
    BY <2>4, ScanTurns, TurnIs
  <2> HIDE DEF t, r
  <2>6. /\ u \in Loop /\ u.buffer = t.buffer \o y /\ ~u.waiting
        /\ u.frames = t.frames /\ u.errors = t.errors
    BY <2>3, ResumeType
  <2> HIDE DEF s, u
  <2>7. s \in Loop
    BY <2>2, StepType DEF s
  <2>8. t.buffer = s.buffer /\ t.waiting = s.waiting
        /\ t.frames = d.frames \o s.frames /\ t.errors = d.errors + s.errors
    BY <2>3 DEF After, Effect
  <2>9. CASE s.waiting
    <3>1. s.frames = <<>> /\ s.errors = 0
      BY <2>2, <2>9, StepType DEF s
    <3>2. t.frames = d.frames /\ t.errors = d.errors
      BY <2>2, <2>8, <3>1, ConcatEmpty
    <3>3. Step(s.buffer \o y) = Step(d.buffer \o y)
      BY <2>2, <2>9, StepSettled DEF s
    <3>4. Turn(u) = After(u, Step(s.buffer \o y))
      BY <2>6, <2>8, TurnIs
    <3>5. Turn(u) = Turn(r)
      BY <2>4, <2>5, <2>6, <3>2, <3>3, <3>4 DEF After
    <3>6. Scan(u) = Scan(r)
      BY <2>5, <2>6, <3>5, ScanTurns
    <3>7. Scan(t) = t
      BY <2>3, <2>8, <2>9, ScanTurns
    <3> QED
      BY <2>5, <3>6, <3>7 DEF u, r
  <2>10. CASE ~s.waiting
    <3>1. Step(d.buffer \o y) = Effect(s.buffer \o y, s.frames, s.errors, FALSE)
      BY <2>2, <2>10, StepMore DEF s
    <3>2. Turn(r) = u
      BY <2>4, <2>5, <2>8, <3>1 DEF After, Effect, u, Resume
    <3>3. t \in S
      <4>1. size[t] < size[d]
        BY <2>3, <2>8, <2>10 DEF size
      <4> QED
        BY <1>2, <2>3, <4>1
    <3>4. Scan(u) = Scan(Resume(Scan(t), y))
      BY <2>8, <2>10, <3>3 DEF u
    <3> QED
      BY <2>5, <3>2, <3>4 DEF r
  <2> QED
    BY <2>9, <2>10
<1>3. S \subseteq Loop
  OBVIOUS
<1> HIDE DEF S
<1>4. S = Loop
  BY <1>1, <1>2, <1>3, SizeInduction
<1> QED
  BY <1>4 DEF S

-----------------------------------------------------------------------------
(* A framed read may come in two parts. *)
Started(B) == Effect(B, <<>>, 0, FALSE)
Hosts == [mode : {"plain", "framed"}, pending : Seq(Octet), buffer : Seq(Octet)]

LEMMA StartedType ==
    ASSUME NEW B \in Seq(Octet)
    PROVE  /\ Started(B) \in Loop /\ Started(B).buffer = B /\ ~Started(B).waiting
           /\ Started(B).frames = <<>> /\ Started(B).errors = 0
<1>1. <<>> \in Seq(FrameSet)
  OBVIOUS
<1> QED
  BY <1>1 DEF Started, Effect, Loop

LEMMA StartedCut ==
    ASSUME NEW B \in Seq(Octet), NEW y \in Seq(Octet)
    PROVE  LET d == Scan(Started(B))
               e == Scan(Started(d.buffer \o y))
           IN  Scan(Started(B \o y)) = Plus(d.frames, d.errors, e)
<1> DEFINE b == Started(B)
           d == Scan(b)
           r == Started(d.buffer \o y)
<1>1. b \in Loop /\ ~b.waiting /\ b.buffer = B /\ b.frames = <<>> /\ b.errors = 0
  BY StartedType
<1> HIDE DEF b
<1>2. d \in Loop
  BY <1>1, ScanTurns
<1>3. d.buffer \in Seq(Octet) /\ d.frames \in Seq(FrameSet) /\ d.errors \in Nat
  BY <1>2 DEF Loop
<1>4. Scan(Resume(b, y)) = Scan(Resume(d, y))
  BY <1>1, ScanAppend
<1>5. Resume(b, y) = Started(B \o y)
  BY <1>1 DEF Resume, Started
<1> HIDE DEF d
<1>6. r \in Loop /\ r.buffer = d.buffer \o y /\ ~r.waiting /\ r.frames = <<>> /\ r.errors = 0
  BY <1>3, StartedType, JoinIs
<1>7. Resume(d, y) = Plus(d.frames, d.errors, r)
  <2>1. d.frames \o <<>> = d.frames /\ d.errors + 0 = d.errors
    BY <1>3, ConcatEmpty
  <2>2. r.waiting = FALSE
    BY <1>6 DEF Loop
  <2> HIDE DEF r
  <2> QED
    BY <1>6, <2>1, <2>2 DEF Resume, Plus
<1> HIDE DEF r
<1>8. Scan(Plus(d.frames, d.errors, r)) = Plus(d.frames, d.errors, Scan(r))
  BY <1>3, <1>6, ScanPlus
<1> QED
  BY <1>4, <1>5, <1>7, <1>8 DEF b, d, r

(* What a read makes of the host, its text, its frames and its errors. *)
Made(h, t, f, e) == [host |-> h, text |-> t, frames |-> f, errors |-> e]
Buffered(h, b) == [h EXCEPT !.buffer = b]

LEMMA FramedIs ==
    ASSUME NEW h, NEW x
    PROVE  LET d == Scan(Started(h.buffer \o x))
           IN  PushFramed(h, x) = Made(Buffered(h, d.buffer), <<>>, d.frames, d.errors)
  BY Zenon DEF PushFramed, Started, Effect, Made, Buffered

LEMMA BufferedTwice ==
    ASSUME NEW h \in Hosts, NEW a, NEW b
    PROVE  /\ Buffered(Buffered(h, a), b) = Buffered(h, b)
           /\ Buffered(h, a).buffer = a /\ Buffered(h, a).mode = h.mode
           /\ Buffered(h, a).pending = h.pending
           /\ a \in Seq(Octet) => Buffered(h, a) \in Hosts
  BY DEF Buffered, Hosts

LEMMA BufferedType ==
    ASSUME NEW h \in Hosts, NEW b \in Seq(Octet)
    PROVE  Buffered(h, b) \in Hosts
  BY DEF Buffered, Hosts

LEMMA JoinedMade ==
    ASSUME NEW h, NEW t, NEW f, NEW e, NEW i, NEW u, NEW g, NEW n
    PROVE  Joined(Made(h, t, f, e), Made(i, u, g, n)) = Made(i, t \o u, f \o g, e + n)
  BY DEF Joined, Made

LEMMA FramedType ==
    ASSUME NEW h \in Hosts, NEW x \in Seq(Octet)
    PROVE  LET d == Scan(Started(h.buffer \o x))
           IN  /\ d \in Loop /\ d.buffer \in Seq(Octet)
               /\ d.frames \in Seq(FrameSet) /\ d.errors \in Nat
<1> DEFINE B == h.buffer \o x
<1>1. B \in Seq(Octet)
  BY JoinIs DEF Hosts
<1> HIDE DEF B
<1>2. Scan(Started(B)) \in Loop
  BY <1>1, StartedType, ScanTurns
<1> QED
  BY <1>2 DEF B, Loop

LEMMA FramedCut ==
    ASSUME NEW h \in Hosts, NEW x \in Seq(Octet), NEW y \in Seq(Octet)
    PROVE  PushFramed(h, x \o y) = Joined(PushFramed(h, x), PushFramed(PushFramed(h, x).host, y))
<1> DEFINE B == h.buffer \o x
           d == Scan(Started(B))
           e == Scan(Started(d.buffer \o y))
           g == Buffered(h, d.buffer)
<1>1. h.buffer \in Seq(Octet) /\ B \in Seq(Octet)
  BY JoinIs DEF Hosts
<1>2. B \o y = h.buffer \o (x \o y)
  <2>1. Associated(h.buffer, x, y)
    BY <1>1, Associates
  <2> QED
    BY <2>1 DEF Associated
<1>3. Scan(Started(B \o y)) = Plus(d.frames, d.errors, e)
  BY <1>1, StartedCut
<1>4. d.buffer \in Seq(Octet) /\ d.frames \in Seq(FrameSet) /\ d.errors \in Nat
  BY FramedType
<1>5. PushFramed(h, x) = Made(g, <<>>, d.frames, d.errors)
  BY FramedIs
<1>6. PushFramed(h, x).host = g /\ g.buffer = d.buffer
  BY <1>5, BufferedTwice DEF Made
<1> DEFINE p == Plus(d.frames, d.errors, e)
<1>7. PushFramed(h, x \o y) = Made(Buffered(h, p.buffer), <<>>, p.frames, p.errors)
  <2>1. PushFramed(h, x \o y)
          = LET c == Scan(Started(h.buffer \o (x \o y)))
            IN  Made(Buffered(h, c.buffer), <<>>, c.frames, c.errors)
    BY FramedIs
  <2> HIDE DEF B, d, e, g
  <2> QED
    BY <1>2, <1>3, <2>1
<1> HIDE DEF g
<1>8. PushFramed(g, y) = Made(Buffered(g, e.buffer), <<>>, e.frames, e.errors)
  BY <1>6, FramedIs
<1>9. Buffered(g, e.buffer) = Buffered(h, e.buffer)
  BY BufferedTwice DEF g
<1> HIDE DEF d, e
<1>10. p.buffer = e.buffer /\ p.frames = d.frames \o e.frames /\ p.errors = d.errors + e.errors
  BY DEF Plus, Effect
<1> HIDE DEF p
<1>11. <<>> \o <<>> = <<>>
  BY ConcatEmpty
<1>12. Joined(Made(g, <<>>, d.frames, d.errors), Made(Buffered(h, e.buffer), <<>>, e.frames, e.errors))
         = Made(Buffered(h, e.buffer), <<>>, d.frames \o e.frames, d.errors + e.errors)
  <2> DEFINE nothing == <<>>
  <2> HIDE DEF nothing
  <2>1. Joined(Made(g, nothing, d.frames, d.errors),
               Made(Buffered(h, e.buffer), nothing, e.frames, e.errors))
          = Made(Buffered(h, e.buffer), nothing \o nothing, d.frames \o e.frames, d.errors + e.errors)
    BY JoinedMade
  <2> QED
    BY <1>11, <2>1 DEF nothing
<1> QED
  BY <1>5, <1>6, <1>7, <1>8, <1>9, <1>10, <1>12

-----------------------------------------------------------------------------
(* What a plain read keeps back: the longest end of the bytes that an ACK may
   begin with. *)
Begins(B, n) ==
    /\ n \in Nat /\ n >= 1 /\ n < Len(Ack) /\ n <= Len(B)
    /\ \A k \in 1..n : B[Len(B) - n + k] = Ack[k]

LEMMA AckIs ==
    /\ HelloAck \in FrameSet /\ Ack \in Seq(Octet) /\ Len(Ack) = 12
    /\ Ack[1] = 165
<1>1. NegotiationPayload \in Seq(Octet) /\ Len(NegotiationPayload) = 4
  <2>1. 83 \in Octet /\ 87 \in Octet /\ 84 \in Octet /\ 49 \in Octet
    BY DEF Octet
  <2>2. <<83, 87, 84, 49>> \in Seq(Octet)
    BY <2>1, TupleGrows4
  <2> QED
    BY <2>2 DEF NegotiationPayload
<1>2. HelloAck \in FrameSet
  <2> DEFINE t == 13
             c == 0
             p == NegotiationPayload
  <2>1. t \in Octet /\ c \in Octet
    BY DEF Octet
  <2>2. p \in Seq(Octet) /\ Len(p) < 65536
    BY <1>1, SMT
  <2> HIDE DEF t, c, p
  <2>3. [type |-> t, channel |-> c, payload |-> p] \in FrameSet
    BY <2>1, <2>2, FrameIs, SMT
  <2> QED
    BY <2>3, SMT DEF HelloAck, t, c, p
<1>3. EncodedAs(HelloAck, Ack)
  BY <1>2, EncodeIs DEF Ack
<1>4. Len(HelloAck.payload) = 4
  BY <1>1 DEF HelloAck
<1> QED
  BY <1>2, <1>3, <1>4 DEF EncodedAs

LEMMA RetainedIs ==
    ASSUME NEW B \in Seq(Octet)
    PROVE  /\ Retained(B) \in Nat /\ Retained(B) <= Len(B) /\ Retained(B) < Len(Ack)
           /\ Retained(B) = 0 \/ Begins(B, Retained(B))
           /\ \A n : Begins(B, n) => n <= Retained(B)
<1> DEFINE limit == IF Len(B) < Len(Ack) THEN Len(B) ELSE Len(Ack) - 1
           fits == {n \in 1..limit : IsSuffix(SubSeq(Ack, 1, n), B)}
<1>1. Len(B) \in Nat /\ Len(Ack) = 12 /\ Ack \in Seq(Octet)
  BY AckIs
<1>2. limit \in Nat /\ limit <= Len(B) /\ limit < Len(Ack)
      /\ \A n \in Nat : n <= Len(B) /\ n < Len(Ack) => n <= limit
  BY <1>1
<1>3. Retained(B) = IF fits = {} THEN 0 ELSE Max(fits)
  BY DEF Retained
<1>4. ASSUME NEW n PROVE n \in fits <=> Begins(B, n)
  <2> HIDE DEF limit
  <2>1. n \in 1..limit <=> n \in Nat /\ n >= 1 /\ n <= Len(B) /\ n < Len(Ack)
    BY <1>1, <1>2
  <2>2. ASSUME n \in 1..limit
        PROVE  IsSuffix(SubSeq(Ack, 1, n), B) <=> \A k \in 1..n : B[Len(B) - n + k] = Ack[k]
    <3> DEFINE p == SubSeq(Ack, 1, n)
    <3>1. n \in 0..Len(Ack) /\ n \in Nat /\ n <= Len(B)
      BY <1>1, <2>1, <2>2
    <3>2. p \in Seq(Octet) /\ Len(p) = n /\ \A k \in 1..n : p[k] = Ack[k]
      BY <1>1, <3>1, FrontIs
    <3> HIDE DEF p
    <3>3. IsSuffix(p, B) <=> Ends(p, B)
      BY <3>2, SuffixIs
    <3>4. Ends(p, B) <=> \A k \in 1..n : B[Len(B) - n + k] = Ack[k]
      BY <3>1, <3>2 DEF Ends
    <3> QED
      BY <3>3, <3>4 DEF p
  <2> QED
    BY <2>1, <2>2 DEF Begins
<1>5. CASE fits = {}
  <2>1. \A n : ~Begins(B, n)
    BY <1>4, <1>5
  <2> QED
    BY <1>1, <1>3, <1>5, <2>1
<1>6. CASE fits # {}
  <2>1. fits \subseteq 1..limit
    OBVIOUS
  <2> HIDE DEF fits, limit
  <2>2. Max(fits) \in fits /\ \A x \in fits : x <= Max(fits)
    BY <1>2, <1>6, <2>1, MaxOf
  <2>3. Retained(B) = Max(fits)
    BY <1>3, <1>6
  <2>4. Begins(B, Retained(B))
    BY <1>4, <2>2, <2>3
  <2>5. Retained(B) \in Nat /\ Retained(B) <= Len(B) /\ Retained(B) < Len(Ack)
    BY <2>4 DEF Begins
  <2>6. \A n : Begins(B, n) => n <= Retained(B)
    BY <1>4, <2>2, <2>3
  <2> QED
    BY <2>4, <2>5, <2>6
<1> QED
  BY <1>5, <1>6

-----------------------------------------------------------------------------
(* A plain read: what it leaves when there is no ACK, and when there is. *)
Acks(B) == FirstAt(B, Ack)
HostOf(mode, pending, b) == [mode |-> mode, pending |-> pending, buffer |-> b]
Pending(h, p) == [h EXCEPT !.pending = p]
Framed(h) == [h EXCEPT !.mode = "framed", !.pending = <<>>]
Acked(f, t) == [f EXCEPT !.text = t, !.frames = <<HelloAck>> \o @]

LEMMA HostIs ==
    ASSUME NEW h \in Hosts
    PROVE  h = HostOf(h.mode, h.pending, h.buffer)
  BY DEF Hosts, HostOf

LEMMA PendingIs ==
    ASSUME NEW h, NEW m, NEW p, NEW b, h = HostOf(m, p, b), NEW q
    PROVE  Pending(h, q) = HostOf(m, q, b)
<1>1. [HostOf(m, p, b) EXCEPT !.pending = q] = HostOf(m, q, b)
  BY DEF HostOf
<1> QED
  BY <1>1 DEF Pending

LEMMA ModeSet ==
    ASSUME NEW h, NEW m, NEW p, NEW b, h = HostOf(m, p, b), NEW q
    PROVE  [h EXCEPT !.mode = q] = HostOf(q, p, b)
<1>1. [HostOf(m, p, b) EXCEPT !.mode = q] = HostOf(q, p, b)
  BY DEF HostOf
<1> QED
  BY <1>1

LEMMA PendingTwice ==
    ASSUME NEW e, NEW g, NEW h, NEW x, NEW y, [e EXCEPT !.mode = x] = g, [g EXCEPT !.pending = y] = h
    PROVE  [e EXCEPT !.mode = x, !.pending = y] = h
<1>1. [e EXCEPT !.mode = x, !.pending = y] = [[e EXCEPT !.mode = x] EXCEPT !.pending = y]
  OBVIOUS
<1>2. [[e EXCEPT !.mode = x] EXCEPT !.pending = y] = [g EXCEPT !.pending = y]
  OBVIOUS
<1> QED
  BY <1>1, <1>2

LEMMA FramedHost ==
    ASSUME NEW h, NEW m, NEW p, NEW b, h = HostOf(m, p, b)
    PROVE  Framed(h) = HostOf("framed", <<>>, b)
<1> DEFINE x == "framed"
           y == <<>>
           g == HostOf(x, p, b)
<1>1. [h EXCEPT !.mode = x] = g
  <2> HIDE DEF x
  <2> QED
    BY ModeSet
<1>2. [g EXCEPT !.pending = y] = HostOf(x, y, b)
  <2> HIDE DEF x, y
  <2> QED
    BY PendingIs DEF Pending
<1> HIDE DEF g
<1>3. [h EXCEPT !.mode = x, !.pending = y] = HostOf(x, y, b)
  <2> HIDE DEF x, y
  <2> QED
    BY <1>1, <1>2, PendingTwice
<1> QED
  BY <1>3 DEF Framed

LEMMA AckedIs ==
    ASSUME NEW f, NEW h, NEW t, NEW F, NEW e, f = Made(h, t, F, e), NEW u
    PROVE  Acked(f, u) = Made(h, u, <<HelloAck>> \o F, e)
<1> DEFINE y == <<HelloAck>> \o F
           g == Made(h, u, F, e)
<1>1. [f EXCEPT !.text = u] = g
  <2>1. [Made(h, t, F, e) EXCEPT !.text = u] = Made(h, u, F, e)
    BY DEF Made
  <2> QED
    BY <2>1
<1>2. [g EXCEPT !.frames = y] = Made(h, u, y, e)
  <2> HIDE DEF y
  <2>1. [Made(h, u, F, e) EXCEPT !.frames = y] = Made(h, u, y, e)
    BY DEF Made
  <2> QED
    BY <2>1
<1>3. f.frames = F
  BY DEF Made
<1> HIDE DEF g
<1>4. [f EXCEPT !.text = u, !.frames = y] = Made(h, u, y, e)
  <2> HIDE DEF y
  <2>1. [f EXCEPT !.text = u, !.frames = y] = [[f EXCEPT !.text = u] EXCEPT !.frames = y]
    OBVIOUS
  <2>2. [[f EXCEPT !.text = u] EXCEPT !.frames = y] = [g EXCEPT !.frames = y]
    BY <1>1
  <2> QED
    BY <1>2, <2>1, <2>2
<1> QED
  BY <1>3, <1>4 DEF Acked

PlainKeeps(h, B) ==
    LET keep == Len(B) - Retained(B)
    IN  Made(Pending(h, From(B, keep + 1)), SubSeq(B, 1, keep), <<>>, 0)
PlainAcked(h, B) ==
    Acked(PushFramed(Framed(h), From(B, Min(Acks(B)) + Len(Ack))), SubSeq(B, 1, Min(Acks(B)) - 1))

LEMMA PlainIs ==
    ASSUME NEW h, NEW x
    PROVE  LET B == h.pending \o x
           IN  PushPlain(h, x) = IF Acks(B) = {} THEN PlainKeeps(h, B) ELSE PlainAcked(h, B)
  BY Zenon DEF PushPlain, Acks, PlainKeeps, PlainAcked, Made, Pending, Framed, Acked, AfterAck

LEMMA AckAt ==
    ASSUME NEW B \in Seq(Octet), NEW i
    PROVE  i \in Acks(B) <=> Place(B, Ack, i)
<1>1. Ack \in Seq(Octet) /\ Len(Ack) > 0
  BY AckIs
<1> QED
  BY <1>1, FirstAtIs, Zenon DEF Acks

LEMMA AcksMore ==
    ASSUME NEW x \in Seq(Octet), NEW y \in Seq(Octet)
    PROVE  /\ \A i \in Nat : i + 12 - 1 <= Len(x) => (i \in Acks(x \o y) <=> i \in Acks(x))
           /\ \A j \in Nat : j >= 1 => (Len(x) + j \in Acks(x \o y) <=> j \in Acks(y))
<1>1. Ack \in Seq(Octet) /\ Len(Ack) = 12 /\ Len(Ack) > 0
  BY AckIs
<1>2. /\ \A i \in Nat : i + Len(Ack) - 1 <= Len(x) => (i \in Acks(x \o y) <=> i \in Acks(x))
      /\ \A j \in Nat : j >= 1 => (Len(x) + j \in Acks(x \o y) <=> j \in Acks(y))
  BY <1>1, FirstAtJoined, Zenon DEF Acks
<1> QED
  BY <1>1, <1>2

LEMMA AcksRange ==
    ASSUME NEW B \in Seq(Octet)
    PROVE  Acks(B) \subseteq Nat /\ \A i \in Acks(B) : i >= 1 /\ i + 12 - 1 <= Len(B)
<1>1. Ack \in Seq(Octet) /\ Len(Ack) = 12
  BY AckIs
<1>2. ASSUME NEW i \in Acks(B) PROVE i \in Nat /\ i >= 1 /\ i + 12 - 1 <= Len(B)
  BY <1>1, AckAt DEF Place
<1> QED
  BY <1>2

(* What is kept back is all that decides what comes next. *)
LEMMA KeptEnds ==
    ASSUME NEW K \in Seq(Octet), NEW R \in Seq(Octet), NEW y \in Seq(Octet),
           Retained(K \o R) <= Len(R), NEW n, Begins((K \o R) \o y, n)
    PROVE  n <= Len(R) + Len(y)
<1> DEFINE B1 == K \o R
           B == B1 \o y
           j == n - Len(y)
<1>1. Len(Ack) = 12
  BY AckIs
<1>2. B1 \in Seq(Octet) /\ Len(B1) = Len(K) + Len(R) /\ Len(K) \in Nat /\ Len(R) \in Nat /\ Len(y) \in Nat
  BY JoinIs
<1> HIDE DEF B1
<1>3. B \in Seq(Octet) /\ Len(B) = Len(B1) + Len(y) /\ \A k \in 1..Len(B1) : B[k] = B1[k]
  <2>1. JoinOf(Octet, B1, y, B)
    BY <1>2, JoinParts
  <2> HIDE DEF B
  <2> QED
    BY <2>1 DEF JoinOf
<1>4. /\ n \in Nat /\ n >= 1 /\ n < Len(Ack) /\ n <= Len(B)
      /\ \A k \in 1..n : B[Len(B) - n + k] = Ack[k]
  BY DEF Begins, B1
<1> HIDE DEF B
<1>5. SUFFICES ASSUME n > Len(R) + Len(y) PROVE FALSE
  BY <1>2, <1>4
<1>6. j \in Nat /\ j > Len(R) /\ j >= 1 /\ j <= n /\ j <= Len(B1) /\ j < Len(Ack)
  BY <1>1, <1>2, <1>3, <1>4, <1>5
<1>7. ASSUME NEW k \in 1..j PROVE B1[Len(B1) - j + k] = Ack[k]
  <2>1. k \in 1..n /\ Len(B) - n + k = Len(B1) - j + k /\ Len(B1) - j + k \in 1..Len(B1)
    <3>1. /\ Len(B1) \in Nat /\ Len(y) \in Nat /\ Len(B) = Len(B1) + Len(y) /\ n \in Nat
          /\ j \in Nat /\ j <= n /\ j <= Len(B1) /\ j = n - Len(y)
      BY <1>2, <1>3, <1>4, <1>6
    <3> HIDE DEF j
    <3> QED
      BY <3>1
  <2>2. B[Len(B) - n + k] = Ack[k]
    BY <1>4, <2>1
  <2>3. B[Len(B1) - j + k] = B1[Len(B1) - j + k]
    BY <1>3, <2>1
  <2> QED
    BY <2>1, <2>2, <2>3
<1> HIDE DEF j
<1>8. Begins(B1, j)
  BY <1>6, <1>7 DEF Begins
<1>9. j <= Retained(B1) /\ Retained(B1) \in Nat
  BY <1>2, <1>8, RetainedIs
<1> QED
  BY <1>2, <1>6, <1>9 DEF B1

LEMMA BeginsShift ==
    ASSUME NEW K \in Seq(Octet), NEW w \in Seq(Octet), NEW n, n <= Len(w)
    PROVE  Begins(K \o w, n) <=> Begins(w, n)
<1> DEFINE B == K \o w
<1>1. /\ B \in Seq(Octet) /\ Len(B) = Len(K) + Len(w) /\ Len(K) \in Nat /\ Len(w) \in Nat
      /\ \A k \in 1..Len(w) : B[Len(K) + k] = w[k]
  BY JoinIs
<1> HIDE DEF B
<1>2. ASSUME n \in Nat, NEW k \in 1..n PROVE B[Len(B) - n + k] = w[Len(w) - n + k]
  <2>1. Len(w) - n + k \in 1..Len(w) /\ Len(B) - n + k = Len(K) + (Len(w) - n + k)
    BY <1>1, <1>2
  <2> QED
    BY <1>1, <2>1
<1>3. Begins(B, n) => Begins(w, n)
  BY <1>2 DEF Begins
<1>4. Begins(w, n) => Begins(B, n)
  <2>1. SUFFICES ASSUME Begins(w, n) PROVE Begins(B, n)
    OBVIOUS
  <2>2. /\ n \in Nat /\ n >= 1 /\ n < Len(Ack) /\ n <= Len(w)
        /\ \A k \in 1..n : w[Len(w) - n + k] = Ack[k]
    BY <2>1 DEF Begins
  <2>3. n <= Len(B)
    BY <1>1, <2>2
  <2>4. \A k \in 1..n : B[Len(B) - n + k] = Ack[k]
    BY <1>2, <2>2
  <2> QED
    BY <2>2, <2>3, <2>4 DEF Begins
<1> QED
  BY <1>3, <1>4 DEF B

LEMMA RetainedCut ==
    ASSUME NEW K \in Seq(Octet), NEW R \in Seq(Octet), NEW y \in Seq(Octet),
           Retained(K \o R) <= Len(R)
    PROVE  Retained(K \o (R \o y)) = Retained(R \o y)
<1> DEFINE w == R \o y
           B == K \o w
           r == Retained(w)
           s == Retained(B)
<1>1. w \in Seq(Octet) /\ Len(w) = Len(R) + Len(y)
  BY JoinIs
<1>2. B = (K \o R) \o y
  <2>1. Associated(K, R, y)
    BY Associates
  <2> QED
    BY <2>1 DEF Associated
<1>3. \A n : Begins(B, n) => n <= Len(w)
  BY <1>1, <1>2, KeptEnds
<1> HIDE DEF w
<1>4. \A n : n <= Len(w) => (Begins(B, n) <=> Begins(w, n))
  BY <1>1, BeginsShift
<1>5. B \in Seq(Octet)
  BY <1>1, JoinIs
<1> HIDE DEF B
<1>6. /\ r \in Nat /\ r <= Len(w) /\ (r = 0 \/ Begins(w, r)) /\ \A n : Begins(w, n) => n <= r
      /\ s \in Nat /\ (s = 0 \/ Begins(B, s)) /\ \A n : Begins(B, n) => n <= s
  BY <1>1, <1>5, RetainedIs
<1> HIDE DEF r, s
<1>7. s <= r
  BY <1>3, <1>4, <1>6
<1>8. r <= s
  BY <1>4, <1>6
<1>9. r = s
  BY <1>6, <1>7, <1>8
<1> QED
  BY <1>9 DEF r, s, B, w

LEMMA AckBeyond ==
    ASSUME NEW K \in Seq(Octet), NEW R \in Seq(Octet), NEW y \in Seq(Octet),
           Retained(K \o R) <= Len(R), Acks(K \o R) = {}, NEW i \in Acks((K \o R) \o y)
    PROVE  i > Len(K)
<1> DEFINE B1 == K \o R
           B == B1 \o y
           j == Len(B1) - i + 1
<1>1. Len(Ack) = 12
  BY AckIs
<1>2. B1 \in Seq(Octet) /\ Len(B1) = Len(K) + Len(R) /\ Len(K) \in Nat /\ Len(R) \in Nat /\ Len(y) \in Nat
  BY JoinIs
<1> HIDE DEF B1
<1>3. B \in Seq(Octet) /\ Len(B) = Len(B1) + Len(y) /\ \A k \in 1..Len(B1) : B[k] = B1[k]
  <2>1. JoinOf(Octet, B1, y, B)
    BY <1>2, JoinParts
  <2> HIDE DEF B
  <2> QED
    BY <2>1 DEF JoinOf
<1>4. \A k \in Nat : k + 12 - 1 <= Len(B1) => (k \in Acks(B) <=> k \in Acks(B1))
  BY <1>2, AcksMore
<1>5. i \in Acks(B) /\ Acks(B1) = {}
  BY DEF B1
<1> HIDE DEF B
<1>6. Place(B, Ack, i)
  BY <1>3, <1>5, AckAt
<1>7. i \in Nat /\ i >= 1 /\ \A k \in 1..12 : B[i + k - 1] = Ack[k]
  BY <1>1, <1>6 DEF Place
<1>8. ~(i + 12 - 1 <= Len(B1))
  BY <1>4, <1>5, <1>7
<1>9. SUFFICES ASSUME i <= Len(K) PROVE FALSE
  BY <1>2, <1>7
<1>a. Len(B1) \in Nat /\ i \in Nat
  BY <1>2, <1>7
<1>10. j \in Nat /\ j >= 1 /\ j < 12 /\ j <= Len(B1) /\ j > Len(R) /\ j = Len(B1) - i + 1
  <2> DEFINE m == Len(B1)
  <2> HIDE DEF m
  <2>1. m \in Nat /\ i \in Nat /\ i >= 1 /\ ~(i + 12 - 1 <= m) /\ i <= Len(K) /\ m = Len(K) + Len(R)
        /\ Len(K) \in Nat /\ Len(R) \in Nat
    BY <1>2, <1>7, <1>8, <1>9 DEF m
  <2>2. /\ (m - i) + 1 \in Nat /\ (m - i) + 1 >= 1 /\ (m - i) + 1 < 12 /\ (m - i) + 1 <= m
        /\ (m - i) + 1 > Len(R)
    BY <2>1
  <2> QED
    BY <2>2 DEF m
<1>11. ASSUME NEW k \in 1..j PROVE B1[Len(B1) - j + k] = Ack[k]
  <2>1. k \in 1..12 /\ Len(B1) - j + k = i + k - 1 /\ i + k - 1 \in 1..Len(B1)
    <3> DEFINE m == Len(B1)
    <3> HIDE DEF j, m
    <3>1. i \in Nat /\ i >= 1 /\ m \in Nat /\ j \in Nat /\ j < 12 /\ j <= m /\ j = m - i + 1
      BY <1>a, <1>7, <1>10 DEF m
    <3>2. k \in 1..12 /\ m - j + k = i + k - 1 /\ i + k - 1 \in 1..m
      BY <3>1
    <3> QED
      BY <3>2 DEF m
  <2> QED
    BY <1>3, <1>7, <2>1
<1> HIDE DEF j
<1>12. Begins(B1, j)
  BY <1>1, <1>10, <1>11 DEF Begins
<1>13. j <= Retained(B1) /\ Retained(B1) \in Nat
  BY <1>2, <1>12, RetainedIs
<1> QED
  BY <1>2, <1>10, <1>13 DEF B1

LEMMA FirstAck ==
    ASSUME NEW B \in Seq(Octet), Acks(B) # {}
    PROVE  LET m == Min(Acks(B)) IN
           m \in Acks(B) /\ m \in Nat /\ m >= 1 /\ m + 12 - 1 <= Len(B) /\ \A i \in Acks(B) : m <= i
<1>1. Acks(B) \subseteq Nat /\ \A i \in Acks(B) : i >= 1 /\ i + 12 - 1 <= Len(B)
  BY AcksRange
<1>2. Min(Acks(B)) \in Acks(B) /\ \A i \in Acks(B) : Min(Acks(B)) <= i
  BY <1>1, MinOf
<1> DEFINE m == Min(Acks(B))
<1> HIDE DEF m
<1>3. m \in Acks(B) /\ \A i \in Acks(B) : m <= i
  BY <1>2 DEF m
<1>4. m \in Nat /\ m >= 1 /\ m + 12 - 1 <= Len(B)
  BY <1>1, <1>3
<1> QED
  BY <1>3, <1>4 DEF m

LEMMA FirstAckStays ==
    ASSUME NEW B \in Seq(Octet), NEW y \in Seq(Octet), Acks(B) # {}
    PROVE  Acks(B \o y) # {} /\ Min(Acks(B \o y)) = Min(Acks(B))
<1> DEFINE m == Min(Acks(B))
           C == B \o y
<1>1. m \in Acks(B) /\ m \in Nat /\ m >= 1 /\ m + 12 - 1 <= Len(B) /\ \A i \in Acks(B) : m <= i
  BY FirstAck
<1>2. \A i \in Nat : i + 12 - 1 <= Len(B) => (i \in Acks(C) <=> i \in Acks(B))
  BY AcksMore
<1>3. C \in Seq(Octet) /\ Len(B) \in Nat
  BY JoinIs
<1> HIDE DEF m, C
<1>4. Acks(C) \subseteq Nat
  BY <1>3, AcksRange
<1>5. m \in Acks(C)
  BY <1>1, <1>2
<1>6. ASSUME NEW i \in Acks(C) PROVE m <= i
  <2>1. CASE i + 12 - 1 <= Len(B)
    BY <1>1, <1>2, <1>4, <2>1
  <2>2. CASE ~(i + 12 - 1 <= Len(B))
    BY <1>1, <1>3, <1>4, <2>2
  <2> QED
    BY <2>1, <2>2
<1>7. Min(Acks(C)) = m
  BY <1>4, <1>5, <1>6, FirstOf
<1> QED
  BY <1>5, <1>7 DEF m, C

LEMMA FirstAckShifts ==
    ASSUME NEW K \in Seq(Octet), NEW w \in Seq(Octet), \A i \in Acks(K \o w) : i > Len(K)
    PROVE  /\ Acks(K \o w) = {} <=> Acks(w) = {}
           /\ Acks(w) # {} => Min(Acks(K \o w)) = Len(K) + Min(Acks(w))
<1> DEFINE C == K \o w
<1>1. C \in Seq(Octet) /\ Len(K) \in Nat
  BY JoinIs
<1>2. \A j \in Nat : j >= 1 => (Len(K) + j \in Acks(C) <=> j \in Acks(w))
  BY AcksMore
<1>3. \A i \in Acks(C) : i > Len(K)
  OBVIOUS
<1> HIDE DEF C
<1>4. Acks(C) \subseteq Nat /\ Acks(w) \subseteq Nat /\ \A i \in Acks(w) : i >= 1
  BY <1>1, AcksRange
<1>5. ASSUME NEW i \in Acks(C)
      PROVE  i - Len(K) \in Acks(w) /\ i - Len(K) \in Nat /\ Len(K) + (i - Len(K)) = i /\ i \in Nat
  <2>1. i - Len(K) \in Nat /\ i - Len(K) >= 1 /\ Len(K) + (i - Len(K)) = i /\ i \in Nat
    BY <1>1, <1>3, <1>4
  <2> QED
    BY <1>2, <2>1
<1>6. ASSUME NEW j \in Acks(w) PROVE Len(K) + j \in Acks(C)
  BY <1>2, <1>4
<1>7. ASSUME Acks(w) # {} PROVE Min(Acks(C)) = Len(K) + Min(Acks(w))
  <2> DEFINE j == Min(Acks(w))
  <2>1. j \in Acks(w) /\ \A i \in Acks(w) : j <= i
    BY <1>4, <1>7, MinOf
  <2> HIDE DEF j
  <2>2. j \in Nat /\ Len(K) + j \in Acks(C)
    BY <1>4, <1>6, <2>1
  <2>3. ASSUME NEW i \in Acks(C) PROVE Len(K) + j <= i
    <3>1. j <= i - Len(K) /\ i \in Nat
      BY <1>5, <2>1
    <3> QED
      BY <1>1, <2>2, <3>1
  <2>4. Min(Acks(C)) = Len(K) + j
    BY <1>4, <2>2, <2>3, FirstOf
  <2> QED
    BY <2>4 DEF j
<1> QED
  BY <1>5, <1>6, <1>7 DEF C

(* A plain read in two parts: an ACK in the first one, in what follows, or
   nowhere. *)
LEMMA FramedInHosts ==
    ASSUME NEW h \in Hosts
    PROVE  /\ Framed(h) \in Hosts /\ Framed(h).mode = "framed" /\ Framed(h).buffer = h.buffer
           /\ Framed(h).pending = <<>>
<1>1. Framed(h) = HostOf("framed", <<>>, h.buffer)
  BY HostIs, FramedHost
<1>2. <<>> \in Seq(Octet) /\ h.buffer \in Seq(Octet)
  BY DEF Hosts
<1> QED
  BY <1>1, <1>2 DEF HostOf, Hosts

LEMMA PendingInHosts ==
    ASSUME NEW h \in Hosts, NEW q \in Seq(Octet)
    PROVE  /\ Pending(h, q) \in Hosts /\ Pending(h, q).mode = h.mode
           /\ Pending(h, q).pending = q /\ Framed(Pending(h, q)) = Framed(h)
           /\ \A u : Pending(Pending(h, q), u) = Pending(h, u)
<1>1. Pending(h, q) = HostOf(h.mode, q, h.buffer)
  BY HostIs, PendingIs
<1>2. Framed(Pending(h, q)) = HostOf("framed", <<>>, h.buffer)
  BY <1>1, FramedHost
<1>3. Framed(h) = HostOf("framed", <<>>, h.buffer)
  BY HostIs, FramedHost
<1>4. ASSUME NEW u PROVE Pending(Pending(h, q), u) = Pending(h, u)
  <2>1. Pending(h, u) = HostOf(h.mode, u, h.buffer)
    BY HostIs, PendingIs
  <2>2. Pending(Pending(h, q), u) = HostOf(h.mode, u, h.buffer)
    BY <1>1, PendingIs
  <2> QED
    BY <2>1, <2>2
<1>5. h.mode \in {"plain", "framed"} /\ h.buffer \in Seq(Octet)
  BY DEF Hosts
<1>6. HostOf(h.mode, q, h.buffer) \in Hosts
  BY <1>5 DEF HostOf, Hosts
<1>7. HostOf(h.mode, q, h.buffer).mode = h.mode /\ HostOf(h.mode, q, h.buffer).pending = q
  BY DEF HostOf
<1> QED
  BY <1>1, <1>2, <1>3, <1>4, <1>6, <1>7

LEMMA FramedMade ==
    ASSUME NEW h \in Hosts, NEW x \in Seq(Octet)
    PROVE  \E b \in Seq(Octet), f \in Seq(FrameSet), e \in Nat :
              PushFramed(h, x) = Made(Buffered(h, b), <<>>, f, e)
<1> DEFINE d == Scan(Started(h.buffer \o x))
<1>1. d.buffer \in Seq(Octet) /\ d.frames \in Seq(FrameSet) /\ d.errors \in Nat
  BY FramedType
<1>2. PushFramed(h, x) = Made(Buffered(h, d.buffer), <<>>, d.frames, d.errors)
  BY FramedIs
<1> HIDE DEF d
<1> QED
  BY <1>1, <1>2

LEMMA JoinedEmpty ==
    ASSUME NEW g, NEW h, NEW t \in Seq(Octet), NEW f, NEW e, NEW i, NEW n
    PROVE  Joined(Made(h, t, f, e), Made(g, <<>>, i, n)) = Made(g, t, f \o i, e + n)
<1> DEFINE nothing == <<>>
<1>1. t \o nothing = t
  BY ConcatEmpty
<1> HIDE DEF nothing
<1>2. Joined(Made(h, t, f, e), Made(g, nothing, i, n)) = Made(g, t \o nothing, f \o i, e + n)
  BY JoinedMade
<1> QED
  BY <1>1, <1>2 DEF nothing

LEMMA AckedJoined ==
    ASSUME NEW f, NEW h, NEW F, NEW G, NEW e, NEW n, f = Made(h, <<>>, F \o G, e + n), NEW t
    PROVE  Acked(f, t) = Made(h, t, <<HelloAck>> \o (F \o G), e + n)
<1> DEFINE nothing == <<>>
           G1 == F \o G
           n1 == e + n
<1>1. f = Made(h, nothing, G1, n1)
  OBVIOUS
<1> HIDE DEF nothing, G1, n1
<1>2. Acked(f, t) = Made(h, t, <<HelloAck>> \o G1, n1)
  BY <1>1, AckedIs
<1> QED
  BY <1>2 DEF G1, n1

LEMMA PlainCutFound ==
    ASSUME NEW h \in Hosts, NEW x \in Seq(Octet), NEW y \in Seq(Octet), Acks(h.pending \o x) # {}
    PROVE  PushPlain(h, x \o y) = Joined(PushPlain(h, x), Push(PushPlain(h, x).host, y))
<1> DEFINE B1 == h.pending \o x
           B == h.pending \o (x \o y)
           m == Min(Acks(B1))
           g == Framed(h)
           z == From(B1, m + Len(Ack))
           t == SubSeq(B1, 1, m - 1)
<1>1. h.pending \in Seq(Octet) /\ B1 \in Seq(Octet) /\ Len(Ack) = 12 /\ HelloAck \in FrameSet
  BY JoinIs, AckIs DEF Hosts
<1>2. B = B1 \o y
  <2>1. Associated(h.pending, x, y)
    BY <1>1, Associates
  <2> QED
    BY <2>1 DEF Associated
<1>3. g \in Hosts /\ g.mode = "framed"
  BY FramedInHosts
<1>4. PushPlain(h, x) = Acked(PushFramed(g, z), t)
  BY PlainIs DEF PlainAcked
<1>5. PushPlain(h, x \o y)
        = Acked(PushFramed(g, From(B, Min(Acks(B)) + Len(Ack))), SubSeq(B, 1, Min(Acks(B)) - 1))
        /\ Min(Acks(B)) = m
  <2>1. Acks(B) # {} /\ Min(Acks(B)) = m
    BY <1>1, <1>2, FirstAckStays
  <2>2. PushPlain(h, x \o y) = IF Acks(B) = {} THEN PlainKeeps(h, B) ELSE PlainAcked(h, B)
    BY PlainIs
  <2> HIDE DEF B, B1
  <2> QED
    BY <2>1, <2>2 DEF PlainAcked
<1>6. m \in Nat /\ m >= 1 /\ m + 12 - 1 <= Len(B1)
  BY <1>1, FirstAck
<1> HIDE DEF B, B1, m, g
<1>7. Len(B1) \in Nat /\ m + 12 \in 1..(Len(B1) + 1) /\ m - 1 \in 0..Len(B1)
  BY <1>1, <1>6
<1>8. From(B, m + 12) = z \o y /\ z \in Seq(Octet)
  BY <1>1, <1>2, <1>7, FromJoined, FromIs
<1>9. SubSeq(B, 1, m - 1) = t /\ t \in Seq(Octet)
  BY <1>1, <1>2, <1>7, FrontJoined, FrontIs
<1> HIDE DEF z, t
<1>10. PushPlain(h, x \o y) = Acked(PushFramed(g, z \o y), t)
  BY <1>1, <1>5, <1>8, <1>9
<1>11. PICK b \in Seq(Octet), F \in Seq(FrameSet), e \in Nat :
         PushFramed(g, z) = Made(Buffered(g, b), <<>>, F, e)
  BY <1>3, <1>8, FramedMade
<1> DEFINE g1 == Buffered(g, b)
<1>12. g1 \in Hosts /\ g1.mode = "framed"
  BY <1>3, BufferedTwice
<1> HIDE DEF g1
<1>13. PICK c \in Seq(Octet), G \in Seq(FrameSet), n \in Nat :
         PushFramed(g1, y) = Made(Buffered(g1, c), <<>>, G, n)
  BY <1>12, FramedMade
<1> DEFINE g2 == Buffered(g1, c)
<1> HIDE DEF g2
<1>14. PushFramed(g, z \o y) = Joined(PushFramed(g, z), PushFramed(PushFramed(g, z).host, y))
  BY <1>3, <1>8, FramedCut
<1>15. PushFramed(g, z) = Made(g1, <<>>, F, e) /\ PushFramed(g1, y) = Made(g2, <<>>, G, n)
  BY <1>11, <1>13 DEF g1, g2
<1>16. PushFramed(g, z).host = g1
  BY <1>15 DEF Made
<1>17. PushFramed(g, z \o y) = Made(g2, <<>>, F \o G, e + n)
  <2>1. Joined(Made(g1, <<>>, F, e), Made(g2, <<>>, G, n)) = Made(g2, <<>>, F \o G, e + n)
    <3> DEFINE s == <<>>
    <3>1. s \in Seq(Octet)
      OBVIOUS
    <3> HIDE DEF s
    <3>2. Joined(Made(g1, s, F, e), Made(g2, <<>>, G, n)) = Made(g2, s, F \o G, e + n)
      BY <3>1, JoinedEmpty
    <3> QED
      BY <3>2 DEF s
  <2> QED
    BY <1>14, <1>15, <1>16, <2>1
<1> DEFINE A == <<HelloAck>>
<1>18. PushPlain(h, x) = Made(g1, t, A \o F, e)
  BY <1>4, <1>15, AckedIs
<1>19. PushPlain(h, x \o y) = Made(g2, t, A \o (F \o G), e + n)
  <2>1. Acked(PushFramed(g, z \o y), t) = Made(g2, t, A \o (F \o G), e + n)
    <3> DEFINE p == PushFramed(g, z \o y)
               k == e + n
               P == F \o G
               R == <<HelloAck>> \o P
    <3>1. p = Made(g2, <<>>, P, k)
      BY <1>17
    <3> HIDE DEF p, P, k
    <3>2. \A q : q = Made(g2, <<>>, P, k) => Acked(q, t) = Made(g2, t, <<HelloAck>> \o P, k)
      BY ONLY AckedIs
    <3>3. Acked(p, t) = Made(g2, t, <<HelloAck>> \o P, k)
      BY ONLY <3>1, <3>2, Zenon
    <3> QED
      BY <3>3 DEF p, P, k
  <2> QED
    BY <1>10, <2>1
<1>20. PushPlain(h, x).host = g1
  BY <1>18 DEF Made
<1>21. Push(g1, y) = Made(g2, <<>>, G, n)
  BY <1>12, <1>15 DEF Push
<1>22. (A \o F) \o G = A \o (F \o G)
  <2>1. A \in Seq(FrameSet)
    BY <1>1
  <2> HIDE DEF A
  <2>2. Associated(A, F, G)
    BY <2>1, Associates
  <2> QED
    BY <2>2 DEF Associated
<1> HIDE DEF A
<1>23. Joined(Made(g1, t, A \o F, e), Made(g2, <<>>, G, n)) = Made(g2, t, (A \o F) \o G, e + n)
  <2> DEFINE f == A \o F
  <2> HIDE DEF f
  <2>1. Joined(Made(g1, t, f, e), Made(g2, <<>>, G, n)) = Made(g2, t, f \o G, e + n)
    BY <1>9, JoinedEmpty
  <2> QED
    BY <2>1 DEF f
<1> QED
  BY <1>18, <1>19, <1>20, <1>21, <1>22, <1>23

LEMMA PlainCutKept ==
    ASSUME NEW h \in Hosts, h.mode = "plain", NEW x \in Seq(Octet), NEW y \in Seq(Octet),
           Acks(h.pending \o x) = {}
    PROVE  PushPlain(h, x \o y) = Joined(PushPlain(h, x), Push(PushPlain(h, x).host, y))
<1> DEFINE B1 == h.pending \o x
           B == h.pending \o (x \o y)
           keep == Len(B1) - Retained(B1)
           K == SubSeq(B1, 1, keep)
           R == From(B1, keep + 1)
           w == R \o y
           g == Pending(h, R)
<1>1. h.pending \in Seq(Octet) /\ B1 \in Seq(Octet) /\ Len(Ack) = 12 /\ HelloAck \in FrameSet
  BY JoinIs, AckIs DEF Hosts
<1>2. B = B1 \o y
  <2>1. Associated(h.pending, x, y)
    BY <1>1, Associates
  <2> QED
    BY <2>1 DEF Associated
<1>3. PushPlain(h, x) = Made(g, K, <<>>, 0)
  BY PlainIs DEF PlainKeeps
<1>4. PushPlain(h, x \o y) = IF Acks(B) = {} THEN PlainKeeps(h, B) ELSE PlainAcked(h, B)
  BY PlainIs
<1>a. Acks(B1) = {}
  OBVIOUS
<1> HIDE DEF B, B1
<1>5. keep \in 0..Len(B1) /\ keep + 1 \in 1..(Len(B1) + 1) /\ Len(B1) \in Nat
      /\ Retained(B1) \in Nat /\ Len(B1) - (keep + 1) + 1 = Retained(B1)
  BY <1>1, RetainedIs
<1>6. B1 = K \o R
  BY <1>1, <1>5, CutJoined
<1>7. K \in Seq(Octet) /\ R \in Seq(Octet) /\ Len(K) = keep /\ Len(R) = Retained(B1)
  BY <1>1, <1>5, FrontIs, FromIs
<1>8. Retained(K \o R) <= Len(R) /\ Acks(K \o R) = {}
  <2>1. Acks(K \o R) = {} /\ Retained(K \o R) = Retained(B1)
    BY <1>a, <1>6
  <2> HIDE DEF K, R
  <2> QED
    BY <1>5, <1>7, <2>1
<1> HIDE DEF K, R, keep
<1>9. B = K \o w
  <2>1. Associated(K, R, y)
    BY <1>7, Associates
  <2> QED
    BY <1>2, <1>6, <2>1 DEF Associated
<1>10. w \in Seq(Octet) /\ B \in Seq(Octet)
  BY <1>1, <1>2, <1>7, JoinIs
<1>11. Retained(B) = Retained(w)
  BY <1>7, <1>8, <1>9, RetainedCut
<1>12. \A i \in Acks(K \o w) : i > Len(K)
  BY <1>2, <1>6, <1>7, <1>8, <1>9, AckBeyond
<1>13. /\ g \in Hosts /\ g.mode = "plain" /\ g.pending = R /\ Framed(g) = Framed(h)
       /\ \A u : Pending(g, u) = Pending(h, u)
  BY <1>7, PendingInHosts
<1> HIDE DEF g
<1>14. PushPlain(h, x).host = g
  BY <1>3 DEF Made
<1>15. Push(g, y) = IF Acks(w) = {} THEN PlainKeeps(g, w) ELSE PlainAcked(g, w)
  <2>1. Push(g, y) = PushPlain(g, y)
    BY <1>13 DEF Push
  <2>2. PushPlain(g, y) = LET C == g.pending \o y
                          IN  IF Acks(C) = {} THEN PlainKeeps(g, C) ELSE PlainAcked(g, C)
    BY PlainIs
  <2> QED
    BY <1>13, <2>1, <2>2
<1> HIDE DEF w
<1>16. CASE Acks(w) = {}
  <2> DEFINE k == Len(w) - Retained(w)
             u == From(w, k + 1)
             s == SubSeq(w, 1, k)
  <2>1. Acks(B) = {}
    BY <1>7, <1>9, <1>10, <1>12, <1>16, FirstAckShifts
  <2>2. k \in Nat /\ k \in 0..Len(w) /\ k + 1 \in 1..(Len(w) + 1)
    BY <1>10, RetainedIs
  <2>3. Len(B) = Len(K) + Len(w) /\ Len(K) \in Nat /\ Len(w) \in Nat
    <3>1. JoinOf(Octet, K, w, K \o w)
      BY <1>7, <1>10, JoinParts
    <3>2. JoinOf(Octet, K, w, B)
      BY <1>9, <3>1
    <3> QED
      BY <1>7, <1>10, <3>2 DEF JoinOf
  <2>4. Len(B) - Retained(B) = Len(K) + k /\ (Len(K) + k) + 1 = Len(K) + (k + 1)
    <3>1. Retained(w) \in Nat
      BY <1>10, RetainedIs
    <3> QED
      BY <1>11, <2>3, <3>1
  <2> HIDE DEF k
  <2>5. From(B, Len(K) + (k + 1)) = u
    BY <1>7, <1>9, <1>10, <2>2, FromBeyond
  <2>6. SubSeq(B, 1, Len(K) + k) = K \o s /\ s \in Seq(Octet)
    BY <1>7, <1>9, <1>10, <2>2, FrontBeyond, FrontIs
  <2> HIDE DEF u, s
  <2>7. PlainKeeps(h, B) = Made(Pending(h, u), K \o s, <<>>, 0)
    BY <2>4, <2>5, <2>6 DEF PlainKeeps
  <2>8. PlainKeeps(g, w) = Made(Pending(h, u), s, <<>>, 0)
    BY <1>13 DEF PlainKeeps, k, u, s
  <2>9. Joined(Made(g, K, <<>>, 0), Made(Pending(h, u), s, <<>>, 0))
          = Made(Pending(h, u), K \o s, <<>>, 0)
    <3> DEFINE nothing == <<>>
               none == 0
    <3>1. nothing \o nothing = nothing /\ none + none = none
      BY ConcatEmpty
    <3> HIDE DEF nothing, none
    <3>2. Joined(Made(g, K, nothing, none), Made(Pending(h, u), s, nothing, none))
            = Made(Pending(h, u), K \o s, nothing \o nothing, none + none)
      BY JoinedMade
    <3> QED
      BY <3>1, <3>2 DEF nothing, none
  <2> QED
    BY <1>3, <1>4, <1>14, <1>15, <1>16, <2>1, <2>7, <2>8, <2>9
<1>17. CASE Acks(w) # {}
  <2> DEFINE j == Min(Acks(w))
             u == From(w, j + Len(Ack))
             s == SubSeq(w, 1, j - 1)
  <2>1. Acks(B) # {} /\ Min(Acks(B)) = Len(K) + j
    BY <1>7, <1>9, <1>10, <1>12, <1>17, FirstAckShifts
  <2>2. j \in Nat /\ j >= 1 /\ j + 12 - 1 <= Len(w)
    BY <1>10, <1>17, FirstAck
  <2> HIDE DEF j
  <2>3. Len(K) \in Nat /\ Len(w) \in Nat
    BY <1>7, <1>10
  <2>4. /\ j + 12 \in 1..(Len(w) + 1) /\ j - 1 \in 0..Len(w)
        /\ (Len(K) + j) + 12 = Len(K) + (j + 12) /\ (Len(K) + j) - 1 = Len(K) + (j - 1)
    BY <2>2, <2>3
  <2>5. From(B, Len(K) + (j + 12)) = From(w, j + 12) /\ From(w, j + 12) \in Seq(Octet)
    <3> DEFINE a == j + 12
    <3> HIDE DEF a
    <3>1. a \in 1..(Len(w) + 1)
      BY <2>4 DEF a
    <3>2. From(K \o w, Len(K) + a) = From(w, a)
      BY ONLY <1>7, <1>10, <3>1, FromBeyond
    <3>3. From(w, a) \in Seq(Octet)
      BY ONLY <1>10, <3>1, FromIs
    <3> QED
      BY <1>9, <3>2, <3>3 DEF a
  <2>6. SubSeq(B, 1, Len(K) + (j - 1)) = K \o s /\ s \in Seq(Octet)
    <3> DEFINE k == j - 1
    <3>1. k \in 0..Len(w)
      BY <2>4
    <3> HIDE DEF k
    <3>2. SubSeq(K \o w, 1, Len(K) + k) = K \o SubSeq(w, 1, k)
      BY <1>7, <1>10, <3>1, FrontBeyond
    <3>3. SubSeq(w, 1, k) \in Seq(Octet)
      BY <1>10, <3>1, FrontIs
    <3> QED
      BY <1>9, <3>2, <3>3 DEF k
  <2>7. u = From(w, j + 12) /\ u \in Seq(Octet)
    BY <1>1, <2>5
  <2> HIDE DEF u, s
  <2>8. PlainAcked(h, B) = Acked(PushFramed(Framed(h), u), K \o s)
    BY <1>1, <2>1, <2>4, <2>5, <2>6, <2>7 DEF PlainAcked
  <2>9. PlainAcked(g, w) = Acked(PushFramed(Framed(h), u), s)
    BY <1>13 DEF PlainAcked, j, u, s
  <2>10. Framed(h) \in Hosts
    BY FramedInHosts
  <2> DEFINE f == Framed(h)
  <2> HIDE DEF f
  <2>11. PICK b \in Seq(Octet), F \in Seq(FrameSet), e \in Nat :
           PushFramed(f, u) = Made(Buffered(f, b), <<>>, F, e)
    BY <2>7, <2>10, FramedMade DEF f
  <2> DEFINE g2 == Buffered(f, b)
             A == <<HelloAck>>
  <2> HIDE DEF g2
  <2>12. PushFramed(f, u) = Made(g2, <<>>, F, e)
    BY <2>11 DEF g2
  <2>13. Acked(PushFramed(f, u), K \o s) = Made(g2, K \o s, A \o F, e)
    <3> DEFINE t == K \o s
    <3> HIDE DEF t
    <3>1. Acked(PushFramed(f, u), t) = Made(g2, t, A \o F, e)
      BY <2>12, AckedIs
    <3> QED
      BY <3>1 DEF t
  <2>14. Acked(PushFramed(f, u), s) = Made(g2, s, A \o F, e)
    BY <2>12, AckedIs
  <2>15. Joined(Made(g, K, <<>>, 0), Made(g2, s, A \o F, e)) = Made(g2, K \o s, A \o F, e)
    <3> DEFINE nothing == <<>>
               none == 0
               more == A \o F
    <3>1. more \in Seq(FrameSet)
      BY <1>1
    <3>2. none + e = e
      OBVIOUS
    <3> HIDE DEF more
    <3>3. nothing \o more = more
      BY <3>1
    <3> HIDE DEF nothing, none
    <3>4. Joined(Made(g, K, nothing, none), Made(g2, s, more, e))
            = Made(g2, K \o s, nothing \o more, none + e)
      BY JoinedMade
    <3> QED
      BY <3>2, <3>3, <3>4 DEF nothing, none, more
  <2> QED
    BY <1>3, <1>4, <1>14, <1>15, <1>17, <2>1, <2>8, <2>9, <2>13, <2>14, <2>15 DEF f
<1> QED
  BY <1>16, <1>17
-----------------------------------------------------------------------------
(* Any read may come in two parts. *)
LEMMA PushCut ==
    ASSUME NEW h \in Hosts, NEW x \in Seq(Octet), NEW y \in Seq(Octet)
    PROVE  Push(h, x \o y) = Joined(Push(h, x), Push(Push(h, x).host, y))
<1>1. CASE h.mode = "framed"
  <2>1. Push(h, x) = PushFramed(h, x) /\ Push(h, x \o y) = PushFramed(h, x \o y)
    BY <1>1 DEF Push
  <2> DEFINE d == Scan(Started(h.buffer \o x))
             g == PushFramed(h, x).host
  <2>2. PushFramed(h, x) = Made(Buffered(h, d.buffer), <<>>, d.frames, d.errors)
    BY FramedIs
  <2>3. g = Buffered(h, d.buffer)
    BY <2>2 DEF Made
  <2> HIDE DEF g, d
  <2>4. g.mode = "framed"
    BY <1>1, <2>3, BufferedTwice
  <2>5. Push(g, y) = PushFramed(g, y)
    BY <2>4 DEF Push
  <2>6. PushFramed(h, x \o y) = Joined(PushFramed(h, x), PushFramed(g, y))
    BY FramedCut DEF g
  <2> QED
    BY <2>1, <2>5, <2>6 DEF g
<1>2. CASE h.mode # "framed"
  <2>1. h.mode = "plain"
    BY <1>2 DEF Hosts
  <2>2. Push(h, x) = PushPlain(h, x) /\ Push(h, x \o y) = PushPlain(h, x \o y)
    BY <1>2 DEF Push
  <2>3. PushPlain(h, x \o y) = Joined(PushPlain(h, x), Push(PushPlain(h, x).host, y))
    <3>1. CASE Acks(h.pending \o x) = {}
      BY <2>1, <3>1, PlainCutKept
    <3>2. CASE Acks(h.pending \o x) # {}
      BY <3>2, PlainCutFound
    <3> QED
      BY <3>1, <3>2
  <2> QED
    BY <2>2, <2>3
<1> QED
  BY <1>1, <1>2

(* What a read makes of the host, in each of its three ways. *)
LEMMA PushType ==
    ASSUME NEW h \in Hosts, NEW x \in Seq(Octet)
    PROVE  \E g \in Hosts, t \in Seq(Octet), f \in Seq(FrameSet), e \in Nat : Push(h, x) = Made(g, t, f, e)
<1>1. CASE h.mode = "framed"
  <2>1. PICK b \in Seq(Octet), f \in Seq(FrameSet), e \in Nat :
          PushFramed(h, x) = Made(Buffered(h, b), <<>>, f, e)
    BY <1>1, FramedMade
  <2>2. Buffered(h, b) \in Hosts /\ <<>> \in Seq(Octet)
    BY BufferedType
  <2>3. Push(h, x) = PushFramed(h, x)
    BY <1>1 DEF Push
  <2> QED
    BY <2>1, <2>2, <2>3
<1>2. CASE h.mode # "framed"
  <2> DEFINE B == h.pending \o x
  <2>1. B \in Seq(Octet) /\ Len(Ack) = 12 /\ HelloAck \in FrameSet
    BY JoinIs, AckIs DEF Hosts
  <2>2. Push(h, x) = IF Acks(B) = {} THEN PlainKeeps(h, B) ELSE PlainAcked(h, B)
    BY <1>2, PlainIs DEF Push
  <2> HIDE DEF B
  <2>3. CASE Acks(B) = {}
    <3> DEFINE keep == Len(B) - Retained(B)
               R == From(B, keep + 1)
    <3>1. keep \in 0..Len(B) /\ keep + 1 \in 1..(Len(B) + 1)
      <4>1. Retained(B) \in Nat /\ Retained(B) <= Len(B) /\ Len(B) \in Nat
        BY <2>1, RetainedIs
      <4> QED
        BY <4>1
    <3> HIDE DEF keep
    <3>2. SubSeq(B, 1, keep) \in Seq(Octet) /\ R \in Seq(Octet)
      BY <2>1, <3>1, FrontIs, FromIs
    <3> HIDE DEF R
    <3>3. Pending(h, R) \in Hosts
      <4> h.mode = "plain"
        BY <1>2 DEF Hosts
      <4> QED
        BY <3>2, PendingInHosts
    <3>4. Push(h, x) = Made(Pending(h, R), SubSeq(B, 1, keep), <<>>, 0)
      BY <2>2, <2>3 DEF PlainKeeps, keep, R
    <3>5. <<>> \in Seq(FrameSet) /\ 0 \in Nat
      OBVIOUS
    <3> QED
      BY <3>2, <3>3, <3>4, <3>5
  <2>4. CASE Acks(B) # {}
    <3> DEFINE g == Framed(h)
               m == Min(Acks(B))
               z == From(B, m + Len(Ack))
               t == SubSeq(B, 1, m - 1)
    <3>1. m \in Nat /\ m >= 1 /\ m + 12 - 1 <= Len(B) /\ Len(B) \in Nat
      BY <2>1, <2>4, FirstAck
    <3> HIDE DEF m
    <3>2. m + 12 \in 1..(Len(B) + 1) /\ m - 1 \in 0..Len(B)
      BY <3>1
    <3>3. z \in Seq(Octet) /\ t \in Seq(Octet)
      BY <2>1, <3>2, FrontIs, FromIs
    <3> HIDE DEF z, t
    <3>4. g \in Hosts
      BY FramedInHosts
    <3> HIDE DEF g
    <3>5. PICK b \in Seq(Octet), F \in Seq(FrameSet), e \in Nat :
            PushFramed(g, z) = Made(Buffered(g, b), <<>>, F, e)
      BY <3>3, <3>4, FramedMade
    <3> DEFINE g1 == Buffered(g, b)
    <3>6. g1 \in Hosts
      BY <3>4, BufferedType
    <3>7. PushFramed(g, z) = Made(g1, <<>>, F, e)
      BY <3>5
    <3> HIDE DEF g1
    <3>8. Acked(PushFramed(g, z), t) = Made(g1, t, <<HelloAck>> \o F, e)
      BY <3>7, AckedIs
    <3>9. Push(h, x) = Acked(PushFramed(g, z), t)
      BY <2>2, <2>4 DEF PlainAcked, g, m, z, t
    <3>10. <<HelloAck>> \o F \in Seq(FrameSet)
      BY <2>1
    <3> QED
      BY <3>3, <3>6, <3>8, <3>9, <3>10
  <2> QED
    BY <2>3, <2>4
<1> QED
  BY <1>1, <1>2
-----------------------------------------------------------------------------
(* What is sent is bytes. *)
LEMMA SmallFrame ==
    ASSUME NEW type \in Octet, NEW body \in Seq(Octet), Len(body) <= 4
    PROVE  Encode([type |-> type, channel |-> 0, payload |-> body]) \in Seq(Octet)
<1> DEFINE frame == [type |-> type, channel |-> 0, payload |-> body]
<1>1. 0 \in Octet /\ Len(body) \in Nat
  BY DEF Octet
<1>2. Len(body) < 65536
  BY <1>1
<1> DEFINE payloads == {p \in Seq(Octet) : Len(p) < 65536}
<1>3. body \in payloads
  BY <1>2
<1> HIDE DEF payloads
<1>4. frame \in FrameSet
  BY <1>1, <1>3 DEF FrameSet, payloads
<1> HIDE DEF frame
<1>5. EncodedAs(frame, Encode(frame))
  BY <1>4, EncodeIs
<1> QED
  BY <1>5 DEF EncodedAs, frame

LEMMA RecordType ==
    ASSUME NEW body \in Seq(Octet), Len(body) <= 4
    PROVE  ResourceRecord(body) \in Seq(Octet)
<1>1. 8 \in Octet
  BY DEF Octet
<1> QED
  BY <1>1, SmallFrame DEF ResourceRecord

LEMMA OutputType ==
    ASSUME NEW b \in Octet
    PROVE  Output(b) \in Seq(Octet)
<1> DEFINE body == <<b>>
           type == 2
<1>1. type \in Octet /\ body \in Seq(Octet) /\ Len(body) <= 4
  BY DEF Octet
<1> HIDE DEF body, type
<1>2. Encode([type |-> type, channel |-> 0, payload |-> body]) \in Seq(Octet)
  BY <1>1, SmallFrame
<1> QED
  BY <1>1, <1>2 DEF Output, type, body

LEMMA ProcessRecordType ==
    ASSUME NEW kind \in Octet, NEW generation \in Octet, NEW endpoint \in Octet
    PROVE  ResourceRecord(<<kind, generation, endpoint, generation>>) \in Seq(Octet)
<1> DEFINE body == <<kind, generation, endpoint, generation>>
<1>1. body \in Seq(Octet) /\ Len(body) <= 4
  BY TupleGrows4
<1> HIDE DEF body
<1>2. ResourceRecord(body) \in Seq(Octet)
  BY <1>1, RecordType
<1> QED
  BY <1>2 DEF body

LEMMA ProcessType ==
    ASSUME NEW generation \in Octet, NEW endpoint \in Octet
    PROVE  ProcessRecords(generation, endpoint) \in Seq(Octet)
<1> DEFINE kinds == <<PROCESS, PROCESS_IO, PREEMPTION>>
           record(i) == ResourceRecord(<<kinds[i], generation, endpoint, generation>>)
           records == [i \in 1..3 |-> record(i)]
           three == 3
<1>1. \A i \in 1..three : kinds[i] \in Octet
  BY DEF Octet, PROCESS, PROCESS_IO, PREEMPTION
<1> HIDE DEF kinds
<1>2. ASSUME NEW i \in 1..three PROVE record(i) \in Seq(Octet)
  BY <1>1, ProcessRecordType
<1> HIDE DEF record
<1>3. Len(records) = three /\ three \in Nat /\ three >= 1 /\ \A i \in 1..three : records[i] \in Seq(Octet)
  BY <1>2
<1> HIDE DEF records, three
<1>4. FlattenSeq(records) \in Seq(Octet)
  BY <1>3, FlattenType
<1> QED
  BY <1>4, Zenon DEF ProcessRecords, records, record, kinds, three

LEMMA UpTo == ASSUME NEW n \in Nat PROVE IsFiniteSet(1..n) /\ Cardinality(1..n) = n
  BY FS_Interval

LEMMA LiveIs ==
    ASSUME DownlinkAssumption, NEW live \in SUBSET Endpoints, 1 \in live
    PROVE  /\ live \subseteq 1..16 /\ Cardinality(live) \in Octet
           /\ Max(live) \in Nat /\ Max(live) >= 1
<1> DEFINE most == 16
<1>1. live \subseteq 1..most /\ most \in Nat /\ live # {}
  BY DEF DownlinkAssumption
<1> HIDE DEF most
<1>2. Max(live) \in live
  BY <1>1, MaxOf
<1>3. IsFiniteSet(1..most) /\ Cardinality(1..most) = most
  BY <1>1, UpTo
<1>4. IsFiniteSet(live) /\ Cardinality(live) <= Cardinality(1..most)
  BY <1>1, <1>3, FS_Subset
<1>5. Cardinality(live) \in Nat
  BY <1>4, FS_CardinalityType
<1> QED
  <2>1. Max(live) \in 1..16
    BY <1>1, <1>2 DEF most
  <2>2. Cardinality(live) <= most
    BY <1>3, <1>4
  <2>3. Cardinality(live) <= 16
    BY <2>2 DEF most
  <2> QED
    BY <1>1, <1>5, <2>1, <2>3 DEF Octet, most

LEMMA ReportType ==
    ASSUME DownlinkAssumption, NEW generation \in Octet, NEW live \in SUBSET Endpoints, 1 \in live
    PROVE  Report(generation, live) \in Seq(Octet)
<1> DEFINE most == Max(live)
           each == [endpoint \in 1..most |->
                      IF endpoint \in live THEN ProcessRecords(generation, endpoint) ELSE <<>>]
           heads == Cardinality(live)
<1>1. live \subseteq 1..16
  BY LiveIs
<1>2. most \in Nat /\ most >= 1
  BY LiveIs
<1>3. heads \in Octet
  BY LiveIs
<1>4. ASSUME NEW endpoint \in 1..most PROVE each[endpoint] \in Seq(Octet)
  <2>1. CASE endpoint \in live
    <3>1. endpoint \in Octet
      BY <1>1, <2>1 DEF Octet
    <3> QED
      BY <2>1, <3>1, ProcessType
  <2>2. CASE endpoint \notin live
    BY <2>2
  <2> QED
    BY <2>1, <2>2
<1>5. Len(each) = most
  BY <1>2
<1> HIDE DEF each, most, heads
<1>6. FlattenSeq(each) \in Seq(Octet)
  BY <1>2, <1>4, <1>5, FlattenType
<1> DEFINE b1 == <<BEGIN, generation>>
           b2 == <<MEMORY, generation, heads>>
           b3 == <<END, generation, generation>>
<1>7. b1 \in Seq(Octet) /\ b2 \in Seq(Octet) /\ b3 \in Seq(Octet) 
      /\ Len(b1) <= 4 /\ Len(b2) <= 4 /\ Len(b3) <= 4
  <2> BEGIN \in Octet /\ MEMORY \in Octet /\ END \in Octet
    BY DEF BEGIN, MEMORY, END, Octet
  <2> QED
    BY <1>3, TupleGrows2, TupleGrows3
<1> HIDE DEF b1, b2, b3
<1>8. ResourceRecord(b1) \in Seq(Octet) /\ ResourceRecord(b2) \in Seq(Octet) /\ ResourceRecord(b3) \in Seq(Octet)
  BY <1>7, RecordType
<1>9. Report(generation, live) = ResourceRecord(b1) \o ResourceRecord(b2) \o FlattenSeq(each) \o ResourceRecord(b3)
  BY DEF Report, b1, b2, b3, each, most, heads
<1> QED
  BY <1>6, <1>8, <1>9

-----------------------------------------------------------------------------
(* Bytes stay bytes and frames frames, whatever the link loses. *)
Counts == [units : Nat, faults : Nat, lost : Nat, reconnects : Nat]
DownlinkTyped ==
    /\ host \in Hosts /\ text \in Seq(Octet) /\ received \in Seq(FrameSet)
    /\ air \in Seq(Octet)
    /\ target \in [framed : BOOLEAN, generation : Octet]
    /\ count \in Counts

Dropped(h) == [h EXCEPT !.pending = <<>>, !.buffer = <<>>]
LEMMA DroppedType ==
    ASSUME NEW h \in Hosts
    PROVE  Dropped(h) \in Hosts /\ Dropped(h).mode = h.mode /\ Dropped(h).buffer = <<>>
<1> DEFINE nothing == <<>>
<1>1. nothing \in Seq(Octet)
  OBVIOUS
<1> HIDE DEF nothing
<1>2. [h EXCEPT !.pending = nothing] \in Hosts /\ [h EXCEPT !.pending = nothing].mode = h.mode
  BY <1>1 DEF Hosts
<1>3. \A g \in Hosts : [g EXCEPT !.buffer = nothing] \in Hosts /\ [g EXCEPT !.buffer = nothing].mode = g.mode
                       /\ [g EXCEPT !.buffer = nothing].buffer = nothing
  BY <1>1 DEF Hosts
<1>4. [h EXCEPT !.pending = nothing, !.buffer = nothing]
        = [[h EXCEPT !.pending = nothing] EXCEPT !.buffer = nothing]
  OBVIOUS
<1>5. /\ [[h EXCEPT !.pending = nothing] EXCEPT !.buffer = nothing] \in Hosts
      /\ [[h EXCEPT !.pending = nothing] EXCEPT !.buffer = nothing].mode = h.mode
      /\ [[h EXCEPT !.pending = nothing] EXCEPT !.buffer = nothing].buffer = nothing
  BY <1>2, <1>3, Zenon
<1> QED
  BY <1>4, <1>5, Zenon DEF Dropped, nothing

LEMMA ReadType ==
    ASSUME host \in Hosts, text \in Seq(Octet), received \in Seq(FrameSet),
           NEW x \in Seq(Octet), Read(x)
    PROVE  host' \in Hosts /\ text' \in Seq(Octet) /\ received' \in Seq(FrameSet)
<1>1. PICK g \in Hosts, t \in Seq(Octet), f \in Seq(FrameSet), e \in Nat : Push(host, x) = Made(g, t, f, e)
  BY PushType
<1> DEFINE p == Push(host, x)
<1>2. p.host = g /\ p.text = t /\ p.frames = f
  BY <1>1 DEF Made
<1>3. host' = p.host /\ text' = text \o p.text /\ received' = received \o p.frames
  BY Zenon DEF Read
<1> HIDE DEF p
<1> QED
  BY <1>2, <1>3

Unit(c) == [c EXCEPT !.units = @ + 1]
Fault(c) == [c EXCEPT !.faults = @ + 1]
Losses(c, n) == [c EXCEPT !.faults = @ + 1, !.lost = @ + n]
Reconnected(c, n) == [c EXCEPT !.faults = @ + 1, !.reconnects = @ + 1, !.lost = @ + n]

LEMMA UnitType == ASSUME NEW c \in Counts PROVE Unit(c) \in Counts /\ Unit(c).reconnects = c.reconnects
  BY DEF Counts, Unit
LEMMA FaultType == ASSUME NEW c \in Counts PROVE Fault(c) \in Counts /\ Fault(c).reconnects = c.reconnects
  BY DEF Counts, Fault
LEMMA LossesType ==
    ASSUME NEW c \in Counts, NEW n \in Nat
    PROVE  Losses(c, n) \in Counts /\ Losses(c, n).reconnects = c.reconnects
<1>1. c.faults + 1 \in Nat /\ c.lost + n \in Nat
  BY DEF Counts
<1> QED
  BY <1>1 DEF Counts, Losses
LEMMA ReconnectedType ==
    ASSUME NEW c \in Counts, NEW n \in Nat
    PROVE  Reconnected(c, n) \in Counts /\ Reconnected(c, n).reconnects # 0
<1>1. c.faults + 1 \in Nat /\ c.lost + n \in Nat /\ c.reconnects + 1 \in Nat /\ c.reconnects + 1 # 0
  BY DEF Counts
<1> QED
  BY <1>1 DEF Counts, Reconnected

LEMMA TypedInit == DownlinkAssumption /\ Init => DownlinkTyped
  BY DEF Init, HostInit, DownlinkTyped, Hosts, Octet, Counts

LEMMA EmitType ==
    ASSUME air \in Seq(Octet), NEW x \in Seq(Octet), Emit(x)
    PROVE  air' \in Seq(Octet)
  BY DEF Emit

LEMMA TypedStep ==
    ASSUME DownlinkAssumption, DownlinkTyped, [Next]_vars
    PROVE  DownlinkTyped'
<1> USE DEF DownlinkTyped
<1>1. ASSUME NEW b \in Typed, PutByte(b) PROVE DownlinkTyped'
  <2>1. Output(b) \in Seq(Octet)
    BY OutputType DEF DownlinkAssumption, Octet
  <2>2. air' \in Seq(Octet)
    BY <1>1, <2>1, EmitType DEF PutByte
  <2> QED
    BY <1>1, <2>2, UnitType DEF PutByte, HostIdle, hostVars, Unit
<1>2. CASE AnswerHello
  <2>1. air' \in Seq(Octet)
    BY <1>2, AckIs, EmitType DEF AnswerHello
  <2> QED
    BY <1>2, <2>1 DEF AnswerHello, HostIdle, hostVars
<1>3. ASSUME NEW live \in SUBSET Endpoints, AnswerResources(live) PROVE DownlinkTyped'
  <2> DEFINE generation == (target.generation + 1) % 256
  <2>1. generation \in Octet
    <3>0. target.generation \in Octet
      OBVIOUS
    <3>1. target.generation + 1 \in Nat
      BY ONLY <3>0 DEF Octet
    <3> QED
      BY <3>1, ByteOf
  <2> HIDE DEF generation
  <2>2. CASE target.framed
    <3>1. Report(generation, live) \in Seq(Octet)
      BY <1>3, <2>1, ReportType DEF AnswerResources
    <3>2. Emit(Report(generation, live)) /\ target' = [target EXCEPT !.generation = generation]
      BY <1>3, <2>2 DEF AnswerResources, generation
    <3>3. air' \in Seq(Octet)
      BY <3>1, <3>2, EmitType
    <3> QED
      BY <1>3, <2>1, <3>2, <3>3 DEF AnswerResources, HostIdle, hostVars
  <2>3. CASE ~target.framed
    BY <1>3, <2>3 DEF AnswerResources, HostIdle, hostVars
  <2> QED
    BY <2>2, <2>3
<1>4. ASSUME NEW n \in Bursts, Lose(n) PROVE DownlinkTyped'
  <2>1. n \in Nat /\ Len(air) \in Nat /\ n <= Len(air) /\ air' = From(air, n + 1)
    BY <1>4 DEF Lose, DownlinkAssumption
  <2>2. n + 1 \in 1..(Len(air) + 1)
    BY <2>1
  <2>3. air' \in Seq(Octet)
    BY <2>1, <2>2, FromIs
  <2>4. count' = [count EXCEPT !.faults = @ + 1, !.lost = @ + n]
    BY <1>4 DEF Lose
  <2>5. count' \in Counts
    <3>1. count' = Losses(count, n)
      BY <2>4, Zenon DEF Losses
    <3> QED
      BY <2>1, <3>1, LossesType
  <2> QED
    BY <1>4, <2>3, <2>5 DEF Lose, HostIdle, hostVars
<1>5. CASE LoseRequest
  BY <1>5, FaultType DEF LoseRequest, HostIdle, hostVars, Fault
<1>6. CASE Attach
  <2>1. host' \in Hosts /\ text' \in Seq(Octet) /\ received' \in Seq(FrameSet)
    BY <1>6, ReadType DEF Attach
  <2>2. air' = <<>> /\ UNCHANGED <<target, count>>
    BY <1>6 DEF Attach, TargetIdle
  <2> QED
    BY <2>1, <2>2
<1>7. CASE HelloRetry
  BY <1>7 DEF HelloRetry, TargetIdle, hostVars
<1>8. CASE ResourceRequest
  BY <1>8, UnitType DEF ResourceRequest, TargetIdle, hostVars, Unit
<1>9. CASE Reconnect
  <2>1. host' \in Hosts /\ UNCHANGED <<text, received>>
    <3>1. CASE host.mode = "plain"
      <4>1. host' = [host EXCEPT !.pending = <<>>, !.buffer = <<>>] /\ UNCHANGED <<text, received>>
        BY <1>9, <3>1 DEF Reconnect, Resynchronize
      <4>2. [host EXCEPT !.pending = <<>>, !.buffer = <<>>] \in Hosts
        <5>1. Dropped(host) \in Hosts
          BY DroppedType
        <5> QED
          BY <5>1, Zenon DEF Dropped
      <4> QED
        BY <4>1, <4>2
    <3>2. CASE host.mode # "plain"
      BY <1>9, <3>2 DEF Reconnect, hostVars
    <3> QED
      BY <3>1, <3>2
  <2>2. UNCHANGED <<target, air>>
    BY <1>9 DEF Reconnect, TargetIdle
  <2>3. count' \in Counts
    <3>1. Len(host.pending) \in Nat
      BY DEF Hosts
    <3>2. count' = [count EXCEPT !.faults = @ + 1, !.reconnects = @ + 1, !.lost = @ + Len(host.pending)]
      BY <1>9 DEF Reconnect
    <3> QED
      <4> DEFINE k == Len(host.pending)
      <4>1. count' = Reconnected(count, k)
        BY <3>2, Zenon DEF Reconnected
      <4> HIDE DEF k
      <4>2. k \in Nat
        BY <3>1 DEF k
      <4> QED
        BY <4>1, <4>2, ReconnectedType
  <2> QED
    BY <2>1, <2>2, <2>3
<1>10. ASSUME NEW n \in 1..Len(air), ReadSome(n) PROVE DownlinkTyped'
  <2>1. Len(air) \in Nat /\ n \in 0..Len(air) /\ n + 1 \in 1..(Len(air) + 1)
    BY <1>10
  <2>2. SubSeq(air, 1, n) \in Seq(Octet) /\ From(air, n + 1) \in Seq(Octet)
    BY <2>1, FrontIs, FromIs
  <2>3. Read(SubSeq(air, 1, n)) /\ air' = From(air, n + 1) /\ UNCHANGED <<target, count>>
    BY <1>10 DEF ReadSome, TargetIdle
  <2>4. host' \in Hosts /\ text' \in Seq(Octet) /\ received' \in Seq(FrameSet)
    BY <2>2, <2>3, ReadType
  <2> QED
    BY <2>2, <2>3, <2>4
<1>11. CASE UNCHANGED vars
  BY <1>11 DEF vars, hostVars
<1> QED
  BY <1>1, <1>2, <1>3, <1>4, <1>5, <1>6, <1>7, <1>8, <1>9, <1>10, <1>11 DEF Next
-----------------------------------------------------------------------------
(* It makes no difference where the operating system cuts the stream: whatever
   is under way and wherever a read ends, two reads leave the decoder and hand
   on text, frames and errors as one would. *)
LEMMA CutEverywhere ==
    ASSUME host \in Hosts, NEW input \in Seq(Octet), NEW cuts
    PROVE  CutAt(input, cuts)
<1> SUFFICES ASSUME NEW k \in cuts \cap 1..(Len(input) - 1)
             PROVE  LET p == Push(host, SubSeq(input, 1, k))
                    IN  Push(host, input) = Joined(p, Push(p.host, From(input, k + 1)))
    BY DEF CutAt
<1> DEFINE x == SubSeq(input, 1, k)
           y == From(input, k + 1)
<1>1. Len(input) \in Nat /\ k \in 0..Len(input) /\ k + 1 \in 1..(Len(input) + 1)
  OBVIOUS
<1>2. x \in Seq(Octet) /\ y \in Seq(Octet) /\ input = x \o y
  BY <1>1, FrontIs, FromIs, CutJoined
<1> HIDE DEF x, y
<1>3. Push(host, x \o y) = Joined(Push(host, x), Push(Push(host, x).host, y))
  BY <1>2, PushCut
<1> QED
  BY <1>2, <1>3 DEF x, y

THEOREM ReadsEquivalentAlways == Spec => []ReadsEquivalent
<1>1. Init => DownlinkTyped
  BY DownlinkAssumption, TypedInit
<1>2. DownlinkTyped /\ [Next]_vars => DownlinkTyped'
  BY DownlinkAssumption, TypedStep
<1>3. DownlinkTyped => ReadsEquivalent
  <2> SUFFICES ASSUME DownlinkTyped PROVE ReadsEquivalent
      OBVIOUS
  <2> DEFINE n == Min({Len(air), 2 * Len(Ack)})
             input == SubSeq(air, 1, n)
  <2>1. host \in Hosts /\ air \in Seq(Octet) /\ Len(air) \in Nat /\ 2 * Len(Ack) \in Nat
    BY AckIs DEF DownlinkTyped
  <2>2. n \in 0..Len(air)
    <3> DEFINE a == Len(air)
               b == 2 * Len(Ack)
    <3> HIDE DEF a, b
    <3>1. a \in Nat /\ b \in Nat
      BY <2>1 DEF a, b
    <3>2. Min({a, b}) \in 0..a
      BY <3>1, MinOfTwo
    <3> QED
      BY <3>2 DEF a, b
  <2> HIDE DEF n
  <2>3. input \in Seq(Octet)
    BY <2>1, <2>2, FrontIs
  <2> HIDE DEF input
  <2>4. CutAt(input, 1..Len(Ack))
    BY <2>1, <2>3, CutEverywhere
  <2> QED
    BY <2>4 DEF ReadsEquivalent, input, n
<1> QED
  BY <1>1, <1>2, <1>3, PTL DEF Spec
-----------------------------------------------------------------------------
(* What a plain read hands on and keeps, when it holds no ACK and when it
   holds one. *)
LEMMA KeepsIs ==
    ASSUME NEW h \in Hosts, h.mode = "plain", NEW x \in Seq(Octet), Acks(h.pending \o x) = {}
    PROVE  \E K \in Seq(Octet), R \in Seq(Octet) :
              /\ h.pending \o x = K \o R /\ Len(R) = Retained(h.pending \o x)
              /\ Push(h, x) = Made(Pending(h, R), K, <<>>, 0)
<1> DEFINE B == h.pending \o x
           keep == Len(B) - Retained(B)
           K == SubSeq(B, 1, keep)
           R == From(B, keep + 1)
<1>1. B \in Seq(Octet)
  BY JoinIs DEF Hosts
<1>2. Push(h, x) = PushPlain(h, x)
  BY DEF Push
<1>3. Push(h, x) = Made(Pending(h, R), K, <<>>, 0)
  <2>1. PushPlain(h, x) = PlainKeeps(h, B)
    BY PlainIs
  <2> QED
    BY <1>2, <2>1 DEF PlainKeeps
<1> HIDE DEF B
<1>4. keep \in 0..Len(B) /\ keep + 1 \in 1..(Len(B) + 1) /\ Len(B) - (keep + 1) + 1 = Retained(B)
  <2> DEFINE r == Retained(B)
             l == Len(B)
  <2>1. r \in Nat /\ r <= l /\ l \in Nat
    BY <1>1, RetainedIs
  <2> HIDE DEF r, l
  <2>2. l - r \in 0..l /\ (l - r) + 1 \in 1..(l + 1) /\ l - ((l - r) + 1) + 1 = r
    BY <2>1
  <2> QED
    BY <2>2 DEF r, l
<1> HIDE DEF keep
<1>5. B = K \o R /\ K \in Seq(Octet) /\ R \in Seq(Octet) /\ Len(R) = Retained(B)
  <2>1. K \in Seq(Octet) /\ B = K \o R
    BY <1>1, <1>4, CutJoined, FrontIs
  <2>2. R \in Seq(Octet) /\ Len(R) = Len(B) - (keep + 1) + 1
    BY <1>1, <1>4, FromIs
  <2> QED
    BY <1>4, <2>1, <2>2
<1> HIDE DEF K, R
<1> QED
  BY <1>3, <1>5 DEF B

LEMMA FindsIs ==
    ASSUME NEW h \in Hosts, h.mode = "plain", NEW x \in Seq(Octet), Acks(h.pending \o x) # {}
    PROVE  \E K \in Seq(Octet), z \in Seq(Octet) :
              /\ h.pending \o x = K \o (Ack \o z)
              /\ LET d == Scan(Started(h.buffer \o z)) IN
                 Push(h, x) = Made(Buffered(Framed(h), d.buffer), K, <<HelloAck>> \o d.frames, d.errors)
<1> DEFINE B == h.pending \o x
           m == Min(Acks(B))
           K == SubSeq(B, 1, m - 1)
           w == From(B, m)
           z == From(B, m + 12)
<1>1. B \in Seq(Octet) /\ Ack \in Seq(Octet) /\ Len(Ack) = 12
  BY JoinIs, AckIs DEF Hosts
<1>2. Push(h, x) = Acked(PushFramed(Framed(h), z), K)
  <2>1. PushPlain(h, x) = PlainAcked(h, B)
    BY PlainIs
  <2>2. Push(h, x) = PushPlain(h, x)
    BY DEF Push
  <2> QED
    BY <1>1, <2>1, <2>2 DEF PlainAcked
<1>a. Acks(B) # {}
  OBVIOUS
<1> HIDE DEF B
<1>3. m \in Acks(B) /\ m \in Nat /\ m >= 1 /\ m + 12 - 1 <= Len(B) /\ Len(B) \in Nat
  BY <1>1, <1>a, FirstAck
<1>4. Place(B, Ack, m)
  BY <1>1, <1>3, AckAt
<1> HIDE DEF m
<1>5. /\ m - 1 \in 0..Len(B) /\ (m - 1) + 1 = m /\ m \in 1..(Len(B) + 1)
      /\ m + 12 \in 1..(Len(B) + 1)
      /\ Len(B) - m + 1 \in Nat /\ Len(B) - m + 1 >= 12
  BY <1>3
<1>6. K \in Seq(Octet) /\ w \in Seq(Octet) /\ z \in Seq(Octet) /\ B = K \o w
  <2> DEFINE k == m - 1
  <2>1. k \in 0..Len(B) /\ k + 1 = m
    BY <1>5
  <2> HIDE DEF k
  <2>2. SubSeq(B, 1, k) \in Seq(Octet) /\ B = SubSeq(B, 1, k) \o From(B, k + 1)
    BY <1>1, <2>1, CutJoined, FrontIs
  <2>3. K \in Seq(Octet) /\ B = K \o w
    BY <2>1, <2>2 DEF k
  <2>4. w \in Seq(Octet) /\ z \in Seq(Octet)
    BY <1>1, <1>5, FromIs
  <2> QED
    BY <2>3, <2>4
<1>7. w = Ack \o z
  <2>1. From(B, m) = Ack \o From(B, m + Len(Ack))
    BY <1>1, <1>3, <1>4, PlaceCut
  <2> QED
    BY <1>1, <2>1
<1> HIDE DEF K, z, w
<1> DEFINE g == Framed(h)
           d == Scan(Started(g.buffer \o z))
<1>8. PushFramed(g, z) = Made(Buffered(g, d.buffer), <<>>, d.frames, d.errors)
  BY FramedIs
<1>9. g.buffer = h.buffer
  BY FramedInHosts
<1> DEFINE F == d.frames
           e == d.errors
           g2 == Buffered(g, d.buffer)
<1>10. PushFramed(g, z) = Made(g2, <<>>, F, e)
  BY <1>8
<1> HIDE DEF F, e, g2
<1>11. Acked(PushFramed(g, z), K) = Made(g2, K, <<HelloAck>> \o F, e)
  BY <1>10, AckedIs
<1>12. Push(h, x) = Made(Buffered(Framed(h), d.buffer), K, <<HelloAck>> \o d.frames, d.errors)
  BY <1>2, <1>11 DEF F, e, g2
<1> HIDE DEF d, g
<1>13. d = Scan(Started(h.buffer \o z))
  BY <1>9 DEF d
<1> QED
  BY <1>6, <1>7, <1>12, <1>13 DEF B
-----------------------------------------------------------------------------
(* The inductive invariant of the negotiation.  In plain text nothing the host
   has taken or keeps holds a whole ACK, and what it keeps is all an ACK may
   still begin with: so one that reads cut anywhere is found. *)
Clear(T, P) == Acks(T \o P) = {} /\ Retained(T \o P) = Len(P)
Kept(P, x, K, R) == P \o x = K \o R /\ Len(R) = Retained(P \o x) /\ Acks(P \o x) = {}
Sought ==
    /\ host.mode = "framed" => received # <<>> /\ received[1] = HelloAck /\ host.pending = <<>>
    /\ host.mode = "plain" => received = <<>> /\ host.buffer = <<>>
    /\ host.mode = "plain" /\ count.reconnects = 0 => Clear(text, host.pending)

(* What a read makes of the text and what is kept, as long as there is no ACK. *)
LEMMA KeepsSought ==
    ASSUME NEW T \in Seq(Octet), NEW P \in Seq(Octet), NEW x \in Seq(Octet),
           NEW K \in Seq(Octet), NEW R \in Seq(Octet),
           Kept(P, x, K, R), Clear(T, P)
    PROVE  Clear(T \o K, R)
<1> USE DEF Kept, Clear
<1> DEFINE w == P \o x
<1>1. (T \o P) \o x = T \o w
  <2>1. Associated(T, P, x)
    BY Associates
  <2> QED
    BY <2>1 DEF Associated
<1>2. (T \o K) \o R = T \o w
  <2>1. Associated(T, K, R)
    BY Associates
  <2> QED
    BY <2>1 DEF Associated
<1>3. w \in Seq(Octet)
  BY JoinIs
<1>4. Retained(T \o w) = Retained(w)
  <2>1. Retained(T \o P) <= Len(P)
    OBVIOUS
  <2> QED
    BY <2>1, RetainedCut
<1>5. ASSUME NEW i \in Acks(T \o w) PROVE i > Len(T)
  <2>1. Retained(T \o P) <= Len(P)
    OBVIOUS
  <2>2. i \in Acks((T \o P) \o x)
    BY <1>1, <1>5
  <2> QED
    BY <2>1, <2>2, AckBeyond
<1>6. Len(R) = Retained(w) /\ Acks(w) = {}
  OBVIOUS
<1> HIDE DEF w
<1>7. Acks(T \o w) = {}
  BY <1>3, <1>5, <1>6, FirstAckShifts
<1> QED
  BY <1>2, <1>4, <1>6, <1>7

LEMMA NothingSought == Acks(<<>>) = {} /\ Retained(<<>>) = 0
<1> DEFINE B == <<>>
<1>1. B \in Seq(Octet) /\ Len(B) = 0
  OBVIOUS
<1> HIDE DEF B
<1>2. Retained(B) = 0
  <2>1. Retained(B) \in Nat /\ Retained(B) <= Len(B)
    BY <1>1, RetainedIs
  <2> QED
    BY <1>1, <2>1
<1>3. Acks(B) = {}
  <2> SUFFICES ASSUME Acks(B) # {} PROVE FALSE
      OBVIOUS
  <2> DEFINE m == Min(Acks(B))
  <2>1. m \in Nat /\ m >= 1 /\ m + 12 - 1 <= Len(B)
    BY <1>1, FirstAck
  <2> HIDE DEF m
  <2> QED
    BY <1>1, <2>1
<1> QED
  BY <1>2, <1>3 DEF B

LEMMA SoughtInit == Init => Sought
<1> SUFFICES ASSUME Init PROVE Sought
    OBVIOUS
<1>1. /\ host = [mode |-> "plain", pending |-> <<>>, buffer |-> <<>>]
      /\ text = <<>> /\ received = <<>>
  BY DEF Init, HostInit
<1>2. /\ host.mode = "plain" /\ "plain" # "framed" /\ host.pending = <<>> /\ host.buffer = <<>>
      /\ Len(host.pending) = 0
  BY <1>1
<1>3. text \o host.pending = <<>>
  BY <1>1, <1>2, ConcatEmpty
<1> QED
  BY <1>1, <1>2, <1>3, NothingSought DEF Sought, Clear

LEMMA SoughtRead ==
    ASSUME DownlinkTyped, Sought, NEW x \in Seq(Octet), Read(x), UNCHANGED count
    PROVE  Sought'
<1> DEFINE p == Push(host, x)
<1>1. host \in Hosts /\ text \in Seq(Octet) /\ received \in Seq(FrameSet)
  BY DEF DownlinkTyped
<1>2. host' = p.host /\ text' = text \o p.text /\ received' = received \o p.frames
  BY Zenon DEF Read
<1>3. CASE host.mode = "framed"
  <2>1. PICK b \in Seq(Octet), f \in Seq(FrameSet), e \in Nat :
          PushFramed(host, x) = Made(Buffered(host, b), <<>>, f, e)
    BY <1>1, FramedMade
  <2>2. p = PushFramed(host, x)
    BY <1>3 DEF Push
  <2>3. p.host = Buffered(host, b) /\ p.frames = f
    BY <2>1, <2>2 DEF Made
  <2>4. Buffered(host, b).mode = host.mode /\ Buffered(host, b).pending = host.pending
    BY <1>1, BufferedTwice
  <2> HIDE DEF p
  <2>5. host'.mode = "framed" /\ host'.pending = <<>> /\ "framed" # "plain"
    BY <1>2, <1>3, <2>3, <2>4 DEF Sought
  <2>6. received' # <<>> /\ received'[1] = HelloAck
    <3>1. received # <<>> /\ received[1] = HelloAck
      BY <1>3 DEF Sought
    <3>2. Len(received) \in Nat /\ Len(received) >= 1
      BY <1>1, <3>1
    <3> DEFINE q == received \o f
    <3>3. Len(q) = Len(received) + Len(f) /\ Len(f) \in Nat /\ \A k \in 1..Len(received) : q[k] = received[k]
      BY <1>1
    <3>4. Len(q) >= 1 /\ q[1] = received[1]
      BY <3>2, <3>3
    <3>5. q # <<>>
      BY <3>4
    <3> HIDE DEF q
    <3>6. received' = q
      BY <1>2, <2>3 DEF q
    <3> QED
      BY <3>1, <3>4, <3>5, <3>6
  <2> QED
    BY <2>5, <2>6 DEF Sought
<1>4. CASE host.mode # "framed"
  <2> DEFINE P == host.pending
  <2>1. host.mode = "plain" /\ received = <<>> /\ host.buffer = <<>> /\ P \in Seq(Octet)
    BY <1>1, <1>4 DEF Sought, Hosts
  <2>2. CASE Acks(P \o x) = {}
    <3>1. PICK K \in Seq(Octet), R \in Seq(Octet) :
            /\ P \o x = K \o R /\ Len(R) = Retained(P \o x)
            /\ p = Made(Pending(host, R), K, <<>>, 0)
      BY <1>1, <2>1, <2>2, KeepsIs
    <3> HIDE DEF P, p
    <3>2. p.host = Pending(host, R) /\ p.text = K /\ p.frames = <<>>
      BY <3>1 DEF Made
    <3>3. host' = Pending(host, R) /\ text' = text \o K /\ received' = <<>>
      BY <1>2, <2>1, <3>2, ConcatEmpty
    <3>4. /\ Pending(host, R).mode = host.mode /\ Pending(host, R).pending = R
          /\ Pending(host, R).buffer = host.buffer
      <4>1. /\ Pending(host, R).mode = host.mode /\ Pending(host, R).pending = R
        BY <1>1, PendingInHosts
      <4>2. Pending(host, R).buffer = host.buffer
        BY <1>1 DEF Pending, Hosts
      <4> QED
        BY <4>1, <4>2
    <3>5. host'.mode = "plain" /\ "plain" # "framed" /\ host'.pending = R /\ host'.buffer = <<>>
      BY <2>1, <3>3, <3>4
    <3>6. ASSUME count.reconnects = 0 PROVE Clear(text \o K, R)
      <4>1. Clear(text, P)
        BY <2>1, <3>6 DEF Sought, P
      <4>2. Kept(P, x, K, R)
        BY <2>2, <3>1 DEF Kept
      <4> QED
        BY <1>1, <2>1, <4>1, <4>2, KeepsSought
    <3> QED
      BY <3>3, <3>5, <3>6 DEF Sought
  <2>3. CASE Acks(P \o x) # {}
    <3>1. PICK K \in Seq(Octet), z \in Seq(Octet) :
            LET d == Scan(Started(host.buffer \o z)) IN
            p = Made(Buffered(Framed(host), d.buffer), K, <<HelloAck>> \o d.frames, d.errors)
      BY <1>1, <2>1, <2>3, FindsIs
    <3> DEFINE d == Scan(Started(host.buffer \o z))
               g == Buffered(Framed(host), d.buffer)
               F == d.frames
    <3>2. F \in Seq(FrameSet) /\ HelloAck \in FrameSet
      BY <1>1, FramedType, AckIs
    <3>3. g.mode = "framed" /\ g.pending = <<>>
      <4>1. Framed(host) \in Hosts /\ Framed(host).mode = "framed" /\ Framed(host).pending = <<>>
        BY <1>1, FramedInHosts
      <4> QED
        BY <4>1, BufferedTwice
    <3> HIDE DEF d
    <3>4. p = Made(g, K, <<HelloAck>> \o F, d.errors)
      BY <3>1 DEF d
    <3> HIDE DEF g, F, p
    <3>5. p.host = g /\ p.frames = <<HelloAck>> \o F
      BY <3>4 DEF Made
    <3> DEFINE q == <<HelloAck>> \o F
    <3>6. q \in Seq(FrameSet) /\ Len(q) >= 1 /\ q[1] = HelloAck
      BY <3>2
    <3> HIDE DEF q
    <3>7. received' = q
      <4>1. <<>> \o q = q
        BY <3>6, ConcatEmpty
      <4> QED
        BY <1>2, <2>1, <3>5, <4>1 DEF q
    <3>8. host'.mode = "framed" /\ "framed" # "plain" /\ host'.pending = <<>>
      BY <1>2, <3>3, <3>5
    <3>9. q # <<>>
      BY <3>6
    <3> QED
      BY <3>6, <3>7, <3>8, <3>9 DEF Sought
  <2> QED
    BY <2>2, <2>3
<1> QED
  BY <1>3, <1>4
LEMMA SoughtStep ==
    ASSUME DownlinkAssumption, DownlinkTyped, Sought, [Next]_vars
    PROVE  Sought'
<1>1. ASSUME UNCHANGED <<host, text, received>>, count'.reconnects = count.reconnects PROVE Sought'
  BY <1>1 DEF Sought
<1>2. count \in Counts /\ host \in Hosts /\ air \in Seq(Octet)
  BY DEF DownlinkTyped
<1>3. ASSUME NEW b \in Typed, PutByte(b) PROVE Sought'
  <2>1. count' = Unit(count) /\ UNCHANGED <<host, text, received>>
    BY <1>3, Zenon DEF PutByte, Unit, HostIdle, hostVars
  <2> QED
    BY <1>1, <1>2, <2>1, UnitType
<1>4. CASE AnswerHello
  BY <1>1, <1>4 DEF AnswerHello, HostIdle, hostVars
<1>5. ASSUME NEW live \in SUBSET Endpoints, AnswerResources(live) PROVE Sought'
  BY <1>1, <1>5 DEF AnswerResources, HostIdle, hostVars
<1>6. ASSUME NEW n \in Bursts, Lose(n) PROVE Sought'
  <2>1. count' = Losses(count, n) /\ UNCHANGED <<host, text, received>> /\ n \in Nat
    BY <1>6, Zenon DEF Lose, Losses, HostIdle, hostVars, DownlinkAssumption
  <2> QED
    BY <1>1, <1>2, <2>1, LossesType
<1>7. CASE LoseRequest
  <2>1. count' = Fault(count) /\ UNCHANGED <<host, text, received>>
    BY <1>7, Zenon DEF LoseRequest, Fault, HostIdle, hostVars
  <2> QED
    BY <1>1, <1>2, <2>1, FaultType
<1>8. CASE Attach
  <2>1. Read(air) /\ UNCHANGED count
    BY <1>8 DEF Attach
  <2> QED
    BY <1>2, <2>1, SoughtRead
<1>9. CASE HelloRetry
  BY <1>1, <1>9 DEF HelloRetry, TargetIdle, hostVars
<1>10. CASE ResourceRequest
  <2>1. count' = Unit(count) /\ UNCHANGED <<host, text, received>>
    BY <1>10, Zenon DEF ResourceRequest, Unit, hostVars
  <2> QED
    BY <1>1, <1>2, <2>1, UnitType
<1>11. CASE Reconnect
  <2> DEFINE k == Len(host.pending)
  <2>1. k \in Nat /\ count' = Reconnected(count, k)
    <3>1. host.pending \in Seq(Octet)
      BY <1>2 DEF Hosts
    <3>2. k \in Nat
      BY <3>1
    <3>3. count' = Reconnected(count, k)
      BY <1>11, Zenon DEF Reconnect, Reconnected
    <3> QED
      BY <3>2, <3>3
  <2>2. count'.reconnects # 0
    BY <1>2, <2>1, ReconnectedType
  <2>3. CASE host.mode = "plain"
    <3>1. host' = Dropped(host) /\ UNCHANGED <<text, received>>
      BY <1>11, <2>3, Zenon DEF Reconnect, Resynchronize, Dropped
    <3>2. Dropped(host).mode = host.mode /\ Dropped(host).buffer = <<>>
      BY <1>2, DroppedType
    <3>3. host'.mode = "plain" /\ host'.buffer = <<>> /\ received' = <<>> /\ "plain" # "framed"
      BY <2>3, <3>1, <3>2 DEF Sought
    <3> QED
      BY <2>2, <3>3 DEF Sought
  <2>4. CASE host.mode # "plain"
    <3>1. UNCHANGED <<host, text, received>>
      BY <1>11, <2>4 DEF Reconnect, hostVars
    <3> QED
      BY <2>2, <3>1 DEF Sought
  <2> QED
    BY <2>3, <2>4
<1>12. ASSUME NEW n \in 1..Len(air), ReadSome(n) PROVE Sought'
  <2>1. Read(SubSeq(air, 1, n)) /\ UNCHANGED count
    BY <1>12 DEF ReadSome
  <2>2. SubSeq(air, 1, n) \in Seq(Octet)
    <3>1. n \in 0..Len(air)
      BY <1>2
    <3> QED
      BY <1>2, <3>1, FrontIs
  <2> QED
    BY <2>1, <2>2, SoughtRead
<1>13. CASE UNCHANGED vars
  BY <1>1, <1>13 DEF vars, hostVars
<1> QED
  BY <1>3, <1>4, <1>5, <1>6, <1>7, <1>8, <1>9, <1>10, <1>11, <1>12, <1>13 DEF Next

(* The first whole ACK ends plain text, however reads cut it and whatever else
   the link has carried and lost: a host that still takes bytes for text has
   not been sent one, and the first frame of a host that does not is the ACK. *)
THEOREM AckNeverMissed == Spec => []AckNotMissed
<1> DEFINE I == DownlinkTyped /\ Sought
<1>1. Init => I
  BY DownlinkAssumption, TypedInit, SoughtInit
<1>2. I /\ [Next]_vars => I'
  BY DownlinkAssumption, TypedStep, SoughtStep
<1>3. I => AckNotMissed
  <2> SUFFICES ASSUME DownlinkTyped, Sought PROVE AckNotMissed
      OBVIOUS
  <2>1. host.mode \in {"plain", "framed"}
    BY DEF DownlinkTyped, Hosts
  <2> QED
    BY <2>1 DEF AckNotMissed, Sought, Clear, Acks
<1> QED
  BY <1>1, <1>2, <1>3, PTL DEF Spec
-----------------------------------------------------------------------------
(* What a decoder hands on is in what it has read: a candidate that passes the
   checks is, byte for byte, the encoding of the frame made of it. *)
LEMMA LowHigh ==
    ASSUME NEW x \in Octet, NEW y \in Octet
    PROVE  (x + 256 * y) % 256 = x /\ (x + 256 * y) \div 256 = y
  BY DEF Octet

LEMMA RecodeIs ==
    ASSUME NEW b \in Seq(Octet), Len(b) >= 7, Len(b) >= FrameLength(b),
           b[1] = 165, b[2] = 90, b[3] = Version, SumMatches(b)
    PROVE  Encode(Parsed(b)) = SubSeq(b, 1, FrameLength(b))
<1> DEFINE l == FrameLength(b)
           n == b[6] + 256 * b[7]
           frame == Parsed(b)
           p == frame.payload
           e == Encode(frame)
           f == SubSeq(b, 1, l)
<1>1. /\ l \in Nat /\ l >= 8 /\ b[4] \in Octet /\ b[5] \in Octet /\ b[6] \in Octet /\ b[7] \in Octet
      /\ Len(b) >= l /\ Len(b) \in Nat
  BY AnnouncedLength
<1>2. n \in Nat /\ l = 8 + n /\ n % 256 = b[6] /\ n \div 256 = b[7]
  <2> DEFINE x == b[6]
             y == b[7]
  <2>1. x \in Octet /\ y \in Octet
    BY <1>1
  <2>2. l = 8 + x + 256 * y
    BY DEF FrameLength
  <2> HIDE DEF x, y, l
  <2>3. (x + 256 * y) % 256 = x /\ (x + 256 * y) \div 256 = y
    BY <2>1, LowHigh
  <2>4. x + 256 * y \in Nat /\ 8 + x + 256 * y = 8 + (x + 256 * y)
    BY <2>1 DEF Octet
  <2> QED
    BY <2>2, <2>3, <2>4 DEF x, y
<1>3. frame \in FrameSet
  BY ParsedIs
<1>4. frame.type = b[4] /\ frame.channel = b[5] /\ p = SubSeq(b, 8, l - 1)
  BY DEF Parsed
<1>5. EncodedAs(frame, e)
  BY <1>3, EncodeIs
<1> HIDE DEF frame, e, p
<1>a. b[l] = Checksum8(SubSeq(b, 3, l - 1))
  BY DEF SumMatches
<1> HIDE DEF l, n
<1>6. PartOf(Octet, b, 8, l - 1, p)
  <2>1. 8 \in 1..(Len(b) + 1) /\ l - 1 \in (8 - 1)..Len(b)
    BY <1>1
  <2> QED
    BY <1>4, <2>1, Parted
<1>7. Len(p) = n /\ \A i \in 1..n : p[i] = b[7 + i]
  <2>1. Len(p) = (l - 1) - 8 + 1 /\ \A i \in 1..((l - 1) - 8 + 1) : p[i] = b[8 + i - 1]
    BY <1>6 DEF PartOf
  <2>2. (l - 1) - 8 + 1 = n
    BY <1>1, <1>2
  <2>3. \A i \in 1..n : 8 + i - 1 = 7 + i
    BY <1>2
  <2> QED
    BY <2>1, <2>2, <2>3
<1>8. /\ e \in Seq(Octet) /\ Len(e) = 8 + n
      /\ e[1] = b[1] /\ e[2] = b[2] /\ e[3] = b[3] /\ e[4] = b[4] /\ e[5] = b[5]
      /\ e[6] = b[6] /\ e[7] = b[7]
      /\ \A i \in 1..n : e[7 + i] = b[7 + i]
      /\ e[8 + n] = Checksum8(SubSeq(e, 3, 7 + n))
  <2>1. /\ e \in Seq(Octet) /\ Len(e) = 8 + Len(p)
        /\ e[1] = 165 /\ e[2] = 90 /\ e[3] = 1 /\ e[4] = frame.type /\ e[5] = frame.channel
        /\ e[6] = Len(p) % 256 /\ e[7] = Len(p) \div 256
        /\ \A i \in 1..Len(p) : e[7 + i] = p[i]
        /\ e[8 + Len(p)] = Checksum8(SubSeq(e, 3, 7 + Len(p)))
    BY <1>5, Zenon DEF EncodedAs, p
  <2>2. Version = 1
    BY DEF Version
  <2>3. ASSUME NEW i \in 1..n PROVE e[7 + i] = b[7 + i]
    <3>1. i \in 1..Len(p)
      BY <1>7
    <3>2. p[i] = b[7 + i]
      BY <1>7, Zenon
    <3>3. e[7 + i] = p[i]
      BY <2>1, <3>1, Zenon
    <3> QED
      BY <3>2, <3>3
  <2>4. e[6] = b[6] /\ e[7] = b[7] /\ e[4] = b[4] /\ e[5] = b[5]
    <3>1. e[6] = n % 256 /\ e[7] = n \div 256
      BY <1>7, <2>1, Zenon
    <3>2. n % 256 = b[6] /\ n \div 256 = b[7]
      BY <1>2
    <3>3. e[6] = b[6] /\ e[7] = b[7]
      BY <3>1, <3>2, Zenon
    <3>4. e[4] = b[4] /\ e[5] = b[5]
      BY <1>4, <2>1, Zenon
    <3> QED
      BY <3>3, <3>4
  <2>5. Len(e) = 8 + n /\ e[8 + n] = Checksum8(SubSeq(e, 3, 7 + n))
    BY <1>7, <2>1, Zenon
  <2> QED
    BY <2>1, <2>2, <2>3, <2>4, <2>5
<1>9. ASSUME NEW i \in 1..(7 + n) PROVE e[i] = b[i]
  <2>1. CASE i > 7
    <3>1. i - 7 \in 1..n /\ 7 + (i - 7) = i
      BY <1>2, <2>1
    <3> QED
      BY <1>8, <3>1
  <2>2. CASE ~(i > 7)
    <3>1. i \in {1, 2, 3, 4, 5, 6, 7}
      BY <1>2, <2>2
    <3> QED
      BY <1>8, <3>1
  <2> QED
    BY <2>1, <2>2
<1>10. SubSeq(e, 3, 7 + n) = SubSeq(b, 3, 7 + n)
  <2> DEFINE m == 7 + n
             u == SubSeq(e, 3, m)
             v == SubSeq(b, 3, m)
  <2>1. 3 \in 1..(Len(e) + 1) /\ 3 \in 1..(Len(b) + 1) /\ m \in (3 - 1)..Len(e) /\ m \in (3 - 1)..Len(b)
        /\ m \in Nat
    BY <1>1, <1>2, <1>8
  <2> HIDE DEF m
  <2>2. PartOf(Octet, e, 3, m, u) /\ PartOf(Octet, b, 3, m, v)
    BY <1>8, <2>1, Parted
  <2> HIDE DEF u, v
  <2>3. u \in Seq(Octet) /\ v \in Seq(Octet) /\ Len(u) = m - 3 + 1 /\ Len(v) = m - 3 + 1
    BY <2>2 DEF PartOf
  <2>4. ASSUME NEW i \in 1..(m - 3 + 1) PROVE u[i] = v[i]
    <3>1. u[i] = e[3 + i - 1] /\ v[i] = b[3 + i - 1]
      BY <2>2 DEF PartOf
    <3>2. 3 + i - 1 \in 1..m
      BY <2>1
    <3> QED
      BY <1>9, <3>1, <3>2 DEF m
  <2>5. u = v
    BY <2>3, <2>4, SeqEqual
  <2> QED
    BY <2>5, Zenon DEF u, v, m
<1>11. e[8 + n] = b[8 + n]
  <2>1. l - 1 = 7 + n
    BY <1>2
  <2> QED
    BY <1>2, <1>8, <1>10, <1>a, <2>1
<1>12. f \in Seq(Octet) /\ Len(f) = l /\ \A i \in 1..l : f[i] = b[i]
  <2>1. l \in 0..Len(b)
    BY <1>1
  <2> QED
    BY <2>1, FrontIs
<1> HIDE DEF f
<1>13. ASSUME NEW i \in 1..(8 + n) PROVE e[i] = b[i]
  <2>1. i \in 1..(7 + n) \/ i = 8 + n
    BY <1>2
  <2> QED
    BY <1>9, <1>11, <2>1
<1>14. e = f
  <2>1. \A i \in 1..l : e[i] = f[i]
    BY <1>2, <1>12, <1>13
  <2> QED
    BY <1>2, <1>8, <1>12, <2>1, SeqEqual
<1> QED
  BY <1>14 DEF e, f, frame, l

(* c is somewhere in B. *)
Inside(c, B) == \E u \in Seq(Octet), v \in Seq(Octet) : B = u \o (c \o v)
Coded(F, B) == \A i \in 1..Len(F) : Inside(Encode(F[i]), B)

LEMMA InsideMore ==
    ASSUME NEW c \in Seq(Octet), NEW x \in Seq(Octet), NEW B \in Seq(Octet), NEW y \in Seq(Octet),
           Inside(c, B)
    PROVE  Inside(c, x \o B) /\ Inside(c, B \o y)
<1>1. PICK u \in Seq(Octet), v \in Seq(Octet) : B = u \o (c \o v)
  BY DEF Inside
<1>2. c \o v \in Seq(Octet) /\ v \o y \in Seq(Octet) /\ x \o u \in Seq(Octet)
  OBVIOUS
<1>3. x \o B = (x \o u) \o (c \o v)
  <2> DEFINE w == c \o v
  <2> HIDE DEF w
  <2>1. Associated(x, u, w)
    BY <1>2, Associates DEF w
  <2> QED
    BY <1>1, <2>1 DEF Associated, w
<1>4. B \o y = u \o (c \o (v \o y))
  <2> DEFINE w == c \o v
  <2>1. w \o y = c \o (v \o y)
    <3>1. Associated(c, v, y)
      BY Associates
    <3> QED
      BY <3>1 DEF Associated
  <2> HIDE DEF w
  <2>2. Associated(u, w, y)
    BY <1>2, Associates DEF w
  <2> QED
    BY <1>1, <2>1, <2>2 DEF Associated, w
<1> QED
  BY <1>2, <1>3, <1>4 DEF Inside

LEMMA InsideFound ==
    ASSUME NEW c \in Seq(Octet), Len(c) > 0, NEW B \in Seq(Octet), Inside(c, B)
    PROVE  FirstAt(B, c) # {}
<1>1. PICK u \in Seq(Octet), v \in Seq(Octet) : B = u \o (c \o v)
  BY DEF Inside
<1> DEFINE w == c \o v
           i == Len(u) + 1
<1>2. JoinOf(Octet, c, v, w)
  BY JoinParts
<1>3. w \in Seq(Octet)
  BY <1>2 DEF JoinOf
<1> HIDE DEF w
<1>4. JoinOf(Octet, u, w, u \o w)
  BY <1>3, JoinParts
<1>5. JoinOf(Octet, u, w, B)
  BY <1>1, <1>4 DEF w
<1>6. Len(u) \in Nat /\ Len(c) \in Nat /\ Len(v) \in Nat
  OBVIOUS
<1>7. Len(w) = Len(c) + Len(v) /\ Len(B) = Len(u) + Len(w)
  BY <1>2, <1>5 DEF JoinOf
<1>8. ASSUME NEW k \in 1..Len(c) PROVE B[i + k - 1] = c[k]
  <2>1. k \in 1..Len(w) /\ i + k - 1 = Len(u) + k
    BY <1>6, <1>7
  <2>2. B[Len(u) + k] = w[k]
    BY <1>5, <2>1 DEF JoinOf
  <2>3. w[k] = c[k]
    BY <1>2 DEF JoinOf
  <2> QED
    BY <2>1, <2>2, <2>3
<1>9. i \in Nat /\ i >= 1 /\ i + Len(c) - 1 <= Len(B)
  BY <1>6, <1>7
<1>10. Place(B, c, i)
  BY <1>8, <1>9 DEF Place
<1>11. i \in FirstAt(B, c)
  BY <1>9, <1>10, FirstAtIs
<1> QED
  BY <1>11
LEMMA NothingCoded == ASSUME NEW B PROVE Coded(<<>>, B)
  BY DEF Coded

LEMMA CodedMore ==
    ASSUME NEW F \in Seq(FrameSet), NEW x \in Seq(Octet), NEW B \in Seq(Octet), NEW y \in Seq(Octet),
           Coded(F, B)
    PROVE  Coded(F, x \o B) /\ Coded(F, B \o y)
<1>1. ASSUME NEW i \in 1..Len(F)
      PROVE  Inside(Encode(F[i]), x \o B) /\ Inside(Encode(F[i]), B \o y)
  <2> DEFINE c == Encode(F[i])
  <2>1. F[i] \in FrameSet
    OBVIOUS
  <2>2. c \in Seq(Octet)
    BY <2>1, EncodeIs DEF EncodedAs
  <2>3. Inside(c, B)
    BY DEF Coded
  <2> HIDE DEF c
  <2>4. Inside(c, x \o B) /\ Inside(c, B \o y)
    BY <2>2, <2>3, InsideMore
  <2> QED
    BY <2>4 DEF c
<1> QED
  BY <1>1 DEF Coded

LEMMA CodedAfter ==
    ASSUME NEW F \in Seq(FrameSet), NEW B \in Seq(Octet), NEW y \in Seq(Octet), Coded(F, B)
    PROVE  Coded(F, B \o y)
<1>1. <<>> \in Seq(Octet)
  OBVIOUS
<1> QED
  BY <1>1, CodedMore

LEMMA CodedJoined ==
    ASSUME NEW F \in Seq(FrameSet), NEW G \in Seq(FrameSet), NEW B, Coded(F, B), Coded(G, B)
    PROVE  Coded(F \o G, B)
<1> DEFINE H == F \o G
<1>1. JoinOf(FrameSet, F, G, H)
  BY JoinParts
<1>2. Len(F) \in Nat /\ Len(G) \in Nat
  OBVIOUS
<1> HIDE DEF H
<1>3. ASSUME NEW i \in 1..Len(H) PROVE Inside(Encode(H[i]), B)
  <2>1. Len(H) = Len(F) + Len(G)
    BY <1>1 DEF JoinOf
  <2>2. CASE i <= Len(F)
    <3>1. i \in 1..Len(F)
      BY <1>2, <2>1, <2>2
    <3>2. H[i] = F[i]
      BY <1>1, <3>1 DEF JoinOf
    <3> QED
      BY <3>1, <3>2 DEF Coded
  <2>3. CASE i > Len(F)
    <3> DEFINE k == i - Len(F)
    <3>1. k \in 1..Len(G) /\ i = Len(F) + k
      BY <1>2, <2>1, <2>3
    <3> HIDE DEF k
    <3>2. H[i] = G[k]
      BY <1>1, <3>1 DEF JoinOf
    <3> QED
      BY <3>1, <3>2 DEF Coded
  <2> QED
    BY <1>2, <2>1, <2>2, <2>3
<1> QED
  BY <1>3 DEF Coded, H

LEMMA JudgedSound ==
    ASSUME NEW b \in Seq(Octet), Len(b) >= 2, b[1] = 165, b[2] = 90
    PROVE  /\ Coded(Judged(b).frames, b)
           /\ ~Judged(b).waiting => \E u \in Seq(Octet) : b = u \o Judged(b).buffer
<1>1. CASE Len(b) < 7 \/ (Len(b) >= 7 /\ ~Malformed(b) /\ Len(b) < FrameLength(b))
  <2>1. Judged(b) = Effect(b, <<>>, 0, TRUE)
    BY <1>1 DEF Judged
  <2> QED
    BY <2>1, NothingCoded DEF Effect
<1>2. CASE Len(b) >= 7 /\ Malformed(b)
  <2>1. Judged(b) = Effect(Rejected(b), <<>>, 1, FALSE)
    <3>1. ~(Len(b) < 7)
      BY <1>2
    <3> QED
      BY <1>2, <3>1, Zenon DEF Judged
  <2> DEFINE u == SubSeq(b, 1, 1)
             r == From(b, 2)
  <2>2. Rejected(b) = r
    BY TailIs DEF Rejected
  <2>3. b = u \o r /\ u \in Seq(Octet)
    <3> DEFINE k == 1
    <3>1. k \in 0..Len(b) /\ k + 1 = 2
      OBVIOUS
    <3> HIDE DEF k
    <3>2. b = SubSeq(b, 1, k) \o From(b, k + 1) /\ SubSeq(b, 1, k) \in Seq(Octet)
      BY <3>1, CutJoined, FrontIs
    <3> QED
      BY <3>1, <3>2 DEF k
  <2> HIDE DEF u, r
  <2> QED
    <3>1. Judged(b).frames = <<>> /\ Judged(b).buffer = r
      BY <2>1, <2>2 DEF Effect
    <3> QED
      BY <2>3, <3>1, NothingCoded
<1>3. CASE Len(b) >= 7 /\ ~Malformed(b) /\ ~(Len(b) < FrameLength(b))
  <2> DEFINE l == FrameLength(b)
             rest == From(b, l + 1)
             u == SubSeq(b, 1, l)
             frame == Parsed(b)
  <2>1. l \in Nat /\ l >= 8 /\ Len(b) >= l /\ Len(b) \in Nat
    BY <1>3, AnnouncedLength
  <2>2. b[3] = Version /\ SumMatches(b)
    BY <1>3, <2>1 DEF Malformed
  <2>3. Encode(frame) = u /\ frame \in FrameSet
    BY <1>3, <2>1, <2>2, RecodeIs, ParsedIs
  <2>4. Judged(b) = IF b[4] \in KnownTypes THEN Effect(rest, <<frame>>, 0, FALSE) ELSE Effect(rest, <<>>, 1, FALSE)
    <3>1. ~(Len(b) < 7)
      BY <1>3
    <3> QED
      BY <1>3, <3>1, Zenon DEF Judged
  <2> HIDE DEF l, frame
  <2>5. b = u \o rest /\ u \in Seq(Octet) /\ rest \in Seq(Octet)
    <3>1. l \in 0..Len(b) /\ l + 1 \in 1..(Len(b) + 1)
      BY <2>1
    <3> QED
      BY <3>1, CutJoined, FrontIs, FromIs
  <2> HIDE DEF u, rest
  <2>6. Inside(u, b)
    <3>1. <<>> \o (u \o rest) = u \o rest /\ <<>> \in Seq(Octet)
      <4>1. u \o rest \in Seq(Octet)
        BY <2>5
      <4> QED
        BY <4>1, ConcatEmpty
    <3> QED
      BY <2>5, <3>1 DEF Inside
  <2>7. Coded(<<frame>>, b)
    BY <2>3, <2>6 DEF Coded
  <2>8. Judged(b).buffer = rest /\ Coded(Judged(b).frames, b)
    BY <2>4, <2>7, NothingCoded DEF Effect
  <2> QED
    BY <2>5, <2>8
<1> QED
  BY <1>1, <1>2, <1>3

LEMMA StepSound ==
    ASSUME NEW B \in Seq(Octet)
    PROVE  /\ Coded(Step(B).frames, B)
           /\ ~Step(B).waiting => \E u \in Seq(Octet) : B = u \o Step(B).buffer
<1>1. CASE Syncs(B) = {}
  <2>1. Step(B) = Effect(Trailing(B), <<>>, 0, TRUE)
    BY <1>1 DEF Step
  <2> QED
    BY <2>1, NothingCoded DEF Effect
<1>2. CASE Syncs(B) # {}
  <2> DEFINE b == Candidate(B)
             m == Min(Syncs(B))
             x == SubSeq(B, 1, m - 1)
             s == Judged(b)
  <2>1. /\ m \in Nat /\ m >= 1 /\ m + 1 <= Len(B) /\ b \in Seq(Octet) /\ Len(b) >= 2
        /\ b[1] = 165 /\ b[2] = 90 /\ Len(B) \in Nat
    BY <1>2, CandidateIs
  <2>2. Step(B) = s
    BY <1>2 DEF Step
  <2>3. b = From(B, m)
    BY DEF Candidate
  <2> HIDE DEF m, b
  <2>4. Coded(s.frames, b) /\ (~s.waiting => \E u \in Seq(Octet) : b = u \o s.buffer)
    BY <2>1, JudgedSound
  <2>5. s \in Loop
    BY <2>1, JudgedType
  <2>6. B = x \o b /\ x \in Seq(Octet)
    <3> DEFINE k == m - 1
    <3>1. k \in 0..Len(B) /\ k + 1 = m
      BY <2>1
    <3> HIDE DEF k
    <3>2. B = SubSeq(B, 1, k) \o From(B, k + 1) /\ SubSeq(B, 1, k) \in Seq(Octet)
      BY <3>1, CutJoined, FrontIs
    <3> QED
      BY <2>3, <3>1, <3>2 DEF k
  <2> HIDE DEF x, s
  <2>7. Coded(s.frames, B)
    <3>1. s.frames \in Seq(FrameSet) /\ <<>> \in Seq(Octet)
      BY <2>5 DEF Loop
    <3> QED
      BY <2>1, <2>4, <2>6, <3>1, CodedMore
  <2>8. ASSUME ~s.waiting PROVE \E u \in Seq(Octet) : B = u \o s.buffer
    <3>1. PICK u \in Seq(Octet) : b = u \o s.buffer
      BY <2>4, <2>8
    <3>2. s.buffer \in Seq(Octet)
      BY <2>5 DEF Loop
    <3> DEFINE t == s.buffer
    <3> HIDE DEF t
    <3>3. Associated(x, u, t)
      BY <2>6, <3>2, Associates DEF t
    <3>4. B = (x \o u) \o t /\ x \o u \in Seq(Octet)
      BY <2>6, <3>1, <3>3 DEF Associated, t
    <3> QED
      BY <3>4 DEF t
  <2> QED
    BY <2>2, <2>7, <2>8
<1> QED
  BY <1>1, <1>2
(* All frames a scan hands on are in the bytes it began with. *)
Sound(d) == \E F \in Seq(FrameSet) : Scan(d).frames = d.frames \o F /\ Coded(F, d.buffer)

LEMMA ScanSound == \A d \in Loop : Sound(d)
<1> DEFINE S == {d \in Loop : Sound(d)}
<1>1. size \in [Loop -> Nat]
  BY DEF size, Loop
<1>2. ASSUME NEW d \in Loop, \A e \in Loop : size[e] < size[d] => e \in S
      PROVE  d \in S
  <2>1. d.buffer \in Seq(Octet) /\ d.frames \in Seq(FrameSet)
    BY DEF Loop
  <2>2. CASE d.waiting
    <3> DEFINE F == <<>>
    <3>1. F \in Seq(FrameSet) /\ d.frames \o F = d.frames /\ Coded(F, d.buffer)
      BY <2>1, ConcatEmpty, NothingCoded
    <3>2. Scan(d) = d
      BY <2>2, ScanTurns
    <3> HIDE DEF F
    <3>3. Sound(d)
      BY <3>1, <3>2 DEF Sound
    <3> QED
      BY <3>3
  <2>3. CASE ~d.waiting
    <3> DEFINE t == Turn(d)
               s == Step(d.buffer)
    <3>1. t \in Loop /\ (t.waiting \/ Len(t.buffer) < Len(d.buffer)) /\ t = After(d, s)
      BY <2>3, TurnIs, TurnType
    <3>2. Scan(d) = Scan(t)
      BY ScanTurns
    <3> HIDE DEF t
    <3>3. s \in Loop
      BY <2>1, StepType
    <3>4. Coded(s.frames, d.buffer) /\ (~s.waiting => \E u \in Seq(Octet) : d.buffer = u \o s.buffer)
      BY <2>1, StepSound
    <3> HIDE DEF s
    <3>5. t.buffer = s.buffer /\ t.waiting = s.waiting /\ t.frames = d.frames \o s.frames
      BY <3>1 DEF After, Effect
    <3>6. s.frames \in Seq(FrameSet) /\ s.buffer \in Seq(Octet)
      BY <3>3 DEF Loop
    <3>7. CASE s.waiting
      <4>1. Scan(t) = t
        BY <3>1, <3>5, <3>7, ScanTurns
      <4>2. Scan(d).frames = d.frames \o s.frames
        BY <3>2, <3>5, <4>1
      <4>3. Sound(d)
        BY <3>4, <3>6, <4>2 DEF Sound
      <4> QED
        BY <4>3
    <3>8. CASE ~s.waiting
      <4>1. size[t] < size[d]
        BY <3>1, <3>5, <3>8 DEF size
      <4>2. Sound(t)
        BY <1>2, <3>1, <4>1
      <4>3. PICK G \in Seq(FrameSet) : Scan(t).frames = t.frames \o G /\ Coded(G, t.buffer)
        BY <4>2 DEF Sound
      <4>4. PICK u \in Seq(Octet) : d.buffer = u \o s.buffer
        BY <3>4, <3>8
      <4>5. Coded(G, d.buffer)
        <5>1. Coded(G, s.buffer) /\ <<>> \in Seq(Octet)
          BY <3>5, <4>3
        <5>2. Coded(G, u \o s.buffer)
          BY <3>6, <5>1, CodedMore
        <5> QED
          BY <4>4, <5>2
      <4> DEFINE F == s.frames \o G
      <4>6. F \in Seq(FrameSet) /\ Coded(F, d.buffer)
        <5>1. F \in Seq(FrameSet)
          BY <3>6
        <5>2. Coded(F, d.buffer)
          <6> DEFINE q == s.frames
          <6>1. q \in Seq(FrameSet) /\ Coded(q, d.buffer)
            BY <3>4, <3>6
          <6> HIDE DEF q
          <6>2. Coded(q \o G, d.buffer)
            BY <4>5, <6>1, CodedJoined
          <6> QED
            BY <6>2 DEF q
        <5> QED
          BY <5>1, <5>2
      <4>7. Scan(d).frames = d.frames \o F
        <5> DEFINE p == d.frames
                   q == s.frames
        <5>1. p \in Seq(FrameSet) /\ q \in Seq(FrameSet)
          BY <2>1, <3>6
        <5>2. Scan(d).frames = (p \o q) \o G
          BY <3>2, <3>5, <4>3
        <5> HIDE DEF p, q
        <5>3. Associated(p, q, G)
          BY <5>1, Associates
        <5>4. (p \o q) \o G = p \o (q \o G)
          BY <5>3 DEF Associated
        <5> QED
          BY <5>2, <5>4 DEF p, q
      <4> HIDE DEF F
      <4>8. Sound(d)
        BY <4>6, <4>7 DEF Sound
      <4> QED
        BY <4>8
    <3> QED
      BY <3>7, <3>8
  <2> QED
    BY <2>2, <2>3
<1>3. S \subseteq Loop
  OBVIOUS
<1> HIDE DEF S
<1>4. S = Loop
  BY <1>1, <1>2, <1>3, SizeInduction
<1> QED
  BY <1>4 DEF S

LEMMA StartedSound ==
    ASSUME NEW B \in Seq(Octet)
    PROVE  Scan(Started(B)).frames \in Seq(FrameSet) /\ Coded(Scan(Started(B)).frames, B)
<1> DEFINE d == Started(B)
<1>1. d \in Loop /\ d.buffer = B /\ d.frames = <<>>
  BY StartedType
<1> HIDE DEF d
<1>2. PICK F \in Seq(FrameSet) : Scan(d).frames = d.frames \o F /\ Coded(F, d.buffer)
  BY <1>1, ScanSound DEF Sound
<1>3. Scan(d).frames = F
  BY <1>1, <1>2, ConcatEmpty
<1> QED
  BY <1>1, <1>2, <1>3 DEF d

(* Pushed in either mode, the frames are in what the decoder held and was
   given. *)
Holding(h, x) == (h.pending \o h.buffer) \o x

LEMMA PushSound ==
    ASSUME NEW h \in Hosts, NEW x \in Seq(Octet),
           h.mode = "framed" => h.pending = <<>>, h.mode = "plain" => h.buffer = <<>>
    PROVE  /\ Push(h, x).frames \in Seq(FrameSet)
           /\ Coded(Push(h, x).frames, Holding(h, x))
<1>0. h.mode \in {"plain", "framed"} /\ h.pending \in Seq(Octet) /\ h.buffer \in Seq(Octet)
  BY DEF Hosts
<1>1. CASE h.mode = "framed"
  <2> DEFINE B == h.buffer \o x
  <2>1. B \in Seq(Octet)
    BY <1>0
  <2>2. Holding(h, x) = B
    <3>1. h.pending = <<>> /\ <<>> \o h.buffer = h.buffer
      BY <1>0, <1>1, ConcatEmpty
    <3> QED
      BY <3>1 DEF Holding
  <2>3. Push(h, x) = PushFramed(h, x)
    BY <1>1 DEF Push
  <2>4. PushFramed(h, x).frames = Scan(Started(B)).frames
    BY FramedIs DEF Made
  <2> HIDE DEF B
  <2>5. Scan(Started(B)).frames \in Seq(FrameSet) /\ Coded(Scan(Started(B)).frames, B)
    BY <2>1, StartedSound
  <2> QED
    BY <2>2, <2>3, <2>4, <2>5
<1>2. CASE h.mode = "plain"
  <2> DEFINE B == h.pending \o x
  <2>1. Holding(h, x) = B /\ B \in Seq(Octet)
    <3>1. h.buffer = <<>> /\ h.pending \o <<>> = h.pending
      BY <1>0, <1>2, ConcatEmpty
    <3>2. h.pending \o h.buffer = h.pending
      BY <3>1
    <3>3. Holding(h, x) = B
      BY <3>2, Zenon DEF Holding
    <3> QED
      BY <1>0, <3>3, JoinIs
  <2>2. CASE Acks(B) = {}
    <3>1. PICK K \in Seq(Octet), R \in Seq(Octet) : Push(h, x) = Made(Pending(h, R), K, <<>>, 0)
      BY <1>2, <2>2, KeepsIs
    <3>2. Push(h, x).frames = <<>> /\ <<>> \in Seq(FrameSet)
      BY <3>1 DEF Made
    <3> QED
      BY <3>2, NothingCoded
  <2>3. CASE Acks(B) # {}
    <3>1. PICK K \in Seq(Octet), z \in Seq(Octet) :
             /\ h.pending \o x = K \o (Ack \o z)
             /\ LET d == Scan(Started(h.buffer \o z)) IN
                Push(h, x) = Made(Buffered(Framed(h), d.buffer), K, <<HelloAck>> \o d.frames, d.errors)
      BY <1>2, <2>3, FindsIs
    <3>2. h.buffer \o z = z
      BY <1>2, ConcatEmpty
    <3> DEFINE d == Scan(Started(z))
               F == d.frames
    <3>3. F \in Seq(FrameSet) /\ Coded(F, z)
      BY StartedSound
    <3>4. Push(h, x).frames = <<HelloAck>> \o F
      <4>1. Push(h, x) = Made(Buffered(Framed(h), d.buffer), K, <<HelloAck>> \o d.frames, d.errors)
        BY <3>1, <3>2, Zenon
      <4> DEFINE g == Buffered(Framed(h), d.buffer)
                 e == d.errors
                 G == <<HelloAck>> \o d.frames
      <4>2. Push(h, x) = Made(g, K, G, e)
        BY <4>1
      <4> HIDE DEF d, F, g, e, G
      <4>3. Push(h, x).frames = G
        BY <4>2 DEF Made
      <4> QED
        BY <4>3 DEF G, F
    <3> HIDE DEF d, F
    <3>5. HelloAck \in FrameSet /\ Ack \in Seq(Octet) /\ <<HelloAck>> \in Seq(FrameSet)
      BY AckIs
    <3> DEFINE w == Ack \o z
    <3>6. w \in Seq(Octet) /\ B = K \o w
      BY <3>1, <3>5
    <3>7. Coded(F, w)
      BY <3>3, <3>5, CodedMore
    <3>8. Coded(<<HelloAck>>, B)
      <4>1. Inside(Ack, B)
        BY <3>1 DEF Inside
      <4> QED
        BY <4>1 DEF Coded, Ack
    <3> HIDE DEF w, B
    <3>9. Coded(F, B)
      <4>1. Coded(F, K \o w)
        BY <3>3, <3>6, <3>7, CodedMore
      <4> QED
        BY <3>6, <4>1
    <3> DEFINE A == <<HelloAck>>
    <3>10. A \in Seq(FrameSet) /\ Coded(A, B)
      BY <3>5, <3>8
    <3> HIDE DEF A
    <3>11. Coded(A \o F, B) /\ A \o F \in Seq(FrameSet)
      BY <3>3, <3>9, <3>10, CodedJoined
    <3> QED
      BY <2>1, <3>4, <3>11 DEF A
  <2> QED
    BY <2>2, <2>3
<1> QED
  BY <1>0, <1>1, <1>2
(* Every frame handed on is in what the read added to. *)
FoundIn(F, B) == \A code \in {Encode(frame) : frame \in ToSet(F)} : FirstAt(B, code) # {}
Bytes == host.pending \o host.buffer \o air
SoundRead == \A bytes \in {host.pending \o host.buffer \o air} :
                \A code \in {Encode(frame) : frame \in NewFrames} : FirstAt(bytes, code) # {}

LEMMA CodedFound ==
    ASSUME NEW F \in Seq(FrameSet), NEW B \in Seq(Octet), Coded(F, B)
    PROVE  FoundIn(F, B)
<1> SUFFICES ASSUME NEW code \in {Encode(frame) : frame \in ToSet(F)} PROVE FirstAt(B, code) # {}
    BY DEF FoundIn
<1>1. PICK frame \in ToSet(F) : code = Encode(frame)
  OBVIOUS
<1>2. PICK i \in 1..Len(F) : frame = F[i]
  BY DEF ToSet
<1>3. Inside(code, B)
  BY <1>1, <1>2 DEF Coded
<1>4. code \in Seq(Octet) /\ Len(code) > 0
  <2>1. frame \in FrameSet
    BY <1>2
  <2>2. EncodedAs(frame, code)
    BY <1>1, <2>1, EncodeIs
  <2>3. code \in Seq(Octet) /\ Len(code) = 8 + Len(frame.payload)
    BY <2>2 DEF EncodedAs
  <2>4. Len(frame.payload) \in Nat
    BY <2>1 DEF FrameSet
  <2> QED
    BY <2>3, <2>4
<1> QED
  BY <1>3, <1>4, InsideFound

LEMMA ReadSound ==
    ASSUME DownlinkTyped, Sought, NEW x \in Seq(Octet), NEW y \in Seq(Octet), air = x \o y, Read(x)
    PROVE  SoundRead
<1> DEFINE p == Push(host, x)
           f == p.frames
           B == Holding(host, x)
           u == host.pending \o host.buffer
<1>1. host \in Hosts /\ received \in Seq(FrameSet) /\ air \in Seq(Octet)
  BY DEF DownlinkTyped
<1>2. u \in Seq(Octet)
  BY <1>1 DEF Hosts
<1>3. f \in Seq(FrameSet) /\ Coded(f, B)
  <2>1. host.mode = "framed" => host.pending = <<>>
    BY DEF Sought
  <2>2. host.mode = "plain" => host.buffer = <<>>
    BY DEF Sought
  <2> QED
    BY <1>1, <2>1, <2>2, PushSound
<1>4. received' = received \o f
  BY Zenon DEF Read
<1> HIDE DEF f, p
<1>5. B = u \o x
  BY DEF Holding
<1> HIDE DEF u, B
<1>6. B \in Seq(Octet) /\ B \o y = u \o air
  <2>1. Associated(u, x, y)
    BY <1>2, Associates
  <2>2. (u \o x) \o y = u \o (x \o y)
    BY <2>1 DEF Associated
  <2> QED
    BY <1>2, <1>5, <2>2
<1>7. Bytes = B \o y
  BY <1>6 DEF Bytes, u
<1>8. FoundIn(f, Bytes)
  <2>1. Coded(f, B \o y) /\ B \o y \in Seq(Octet)
    <3>1. Coded(f, B \o y)
      BY <1>3, <1>6, CodedAfter
    <3>2. B \o y \in Seq(Octet)
      <4>1. B \in Seq(Octet)
        BY <1>6
      <4> QED
        BY ONLY <4>1, y \in Seq(Octet), JoinIs
    <3> QED
      BY <3>1, <3>2
  <2> QED
    BY <1>3, <1>7, <2>1, CodedFound
<1>9. SubSeq(received', Len(received) + 1, Len(received')) = f
  <2> DEFINE r == received
  <2>1. r \in Seq(FrameSet)
    BY <1>1
  <2> HIDE DEF r
  <2>2. From(r \o f, Len(r) + 1) = From(f, 1)
    <3>1. 1 \in 1..(Len(f) + 1)
      BY <1>3
    <3> QED
      BY <1>3, <2>1, <3>1, FromBeyond
  <2>3. From(f, 1) = f
    BY <1>3, FromFirst
  <2>4. From(r \o f, Len(r) + 1) = f
    BY <2>2, <2>3
  <2> QED
    BY <1>4, <2>4 DEF From, r
<1>10. NewFrames = ToSet(f)
  BY <1>9 DEF NewFrames
<1> QED
  BY <1>8, <1>10 DEF SoundRead, FoundIn, Bytes

LEMMA SoundStep ==
    ASSUME DownlinkTyped, Sought, [Next]_vars
    PROVE  [SoundRead]_received
<1>1. air \in Seq(Octet)
  BY DEF DownlinkTyped
<1>2. CASE Attach
  <2> DEFINE nothing == <<>>
  <2>1. nothing \in Seq(Octet) /\ air = air \o nothing /\ Read(air)
    BY <1>1, <1>2, ConcatEmpty DEF Attach
  <2> HIDE DEF nothing
  <2>2. SoundRead
    BY <1>1, <2>1, ReadSound
  <2> QED
    BY <2>2
<1>3. ASSUME NEW n \in 1..Len(air), ReadSome(n) PROVE SoundRead
  <2> DEFINE x == SubSeq(air, 1, n)
             y == From(air, n + 1)
  <2>1. n \in 0..Len(air) /\ n + 1 \in 1..(Len(air) + 1)
    BY <1>1
  <2>2. x \in Seq(Octet) /\ y \in Seq(Octet) /\ air = x \o y
    BY <1>1, <2>1, FrontIs, FromIs, CutJoined
  <2>3. Read(x)
    BY <1>3 DEF ReadSome
  <2> HIDE DEF x, y
  <2> QED
    BY <2>2, <2>3, ReadSound
<1>4. CASE \/ \E b \in Typed : PutByte(b)
           \/ AnswerHello
           \/ \E live \in SUBSET Endpoints : AnswerResources(live)
           \/ \E n \in Bursts : Lose(n)
           \/ LoseRequest \/ HelloRetry \/ ResourceRequest \/ UNCHANGED vars
  <2>1. UNCHANGED received
    <3>1. CASE (\E b \in Typed : PutByte(b)) \/ AnswerHello \/ LoseRequest \/ \E n \in Bursts : Lose(n)
      <4>1. HostIdle
        BY <3>1, Zenon DEF PutByte, AnswerHello, Lose, LoseRequest
      <4> QED
        BY <4>1 DEF HostIdle, hostVars
    <3>2. CASE \E live \in SUBSET Endpoints : AnswerResources(live)
      BY <3>2 DEF AnswerResources, HostIdle, hostVars
    <3>3. CASE HelloRetry \/ ResourceRequest
      BY <3>3 DEF HelloRetry, ResourceRequest, hostVars
    <3>4. CASE UNCHANGED vars
      BY <3>4 DEF hostVars, vars
    <3> QED
      BY <1>4, <3>1, <3>2, <3>3, <3>4
  <2> QED
    BY <2>1
<1>5. CASE Reconnect
  <2>1. UNCHANGED received
    <3>1. CASE host.mode = "plain"
      BY <1>5, <3>1 DEF Reconnect, Resynchronize
    <3>2. CASE host.mode # "plain"
      BY <1>5, <3>2 DEF Reconnect, hostVars
    <3> QED
      BY <3>1, <3>2
  <2> QED
    BY <2>1
<1> QED
  BY <1>2, <1>3, <1>4, <1>5 DEF Next

(* Every frame the host hands on is, byte for byte, in what it had kept and
   what was under way: no frame is made of bytes nobody sent in that order. *)
THEOREM FramesSound == Spec => FrameSoundHost
<1> DEFINE I == DownlinkTyped /\ Sought
<1>1. Init => I
  BY DownlinkAssumption, TypedInit, SoughtInit
<1>2. I /\ [Next]_vars => I'
  BY DownlinkAssumption, TypedStep, SoughtStep
<1>3. I /\ [Next]_vars => [SoundRead]_received
  BY SoundStep
<1>4. Spec => [][SoundRead]_received
  BY <1>1, <1>2, <1>3, PTL DEF Spec
<1> QED
  BY <1>4 DEF FrameSoundHost, SoundRead

-----------------------------------------------------------------------------
(* The bytes of frames one behind another. *)
CodesOf(fs) == [i \in 1..Len(fs) |-> Encode(fs[i])]
Coding(fs) == FlattenSeq(CodesOf(fs))

LEMMA EncodeType ==
    ASSUME NEW f \in FrameSet
    PROVE  /\ Encode(f) \in Seq(Octet) /\ Len(Encode(f)) = 8 + Len(f.payload)
           /\ Len(f.payload) \in Nat
           /\ Encode(f)[1] = 165 /\ Encode(f)[2] = 90 /\ Encode(f)[4] = f.type
<1>1. EncodedAs(f, Encode(f))
  BY EncodeIs
<1>2. Len(f.payload) \in Nat /\ Len(f.payload) < 65536
  BY DEF FrameSet
<1> QED
  BY <1>1, <1>2 DEF EncodedAs

LEMMA CodesOfType ==
    ASSUME NEW fs \in Seq(FrameSet)
    PROVE  CodesOf(fs) \in Seq(Seq(Octet)) /\ Len(CodesOf(fs)) = Len(fs)
<1>1. \A i \in 1..Len(fs) : Encode(fs[i]) \in Seq(Octet)
  BY EncodeType
<1> QED
  BY <1>1 DEF CodesOf

LEMMA CodesOfAppend ==
    ASSUME NEW fs \in Seq(FrameSet), NEW f \in FrameSet
    PROVE  CodesOf(Append(fs, f)) = Append(CodesOf(fs), Encode(f))
<1> DEFINE T == Seq(Octet)
           a == CodesOf(fs)
           b == CodesOf(Append(fs, f))
           e == Encode(f)
<1>1. Append(fs, f) \in Seq(FrameSet) /\ Len(Append(fs, f)) = Len(fs) + 1
  OBVIOUS
<1>2. a \in Seq(T) /\ Len(a) = Len(fs) /\ b \in Seq(T) /\ Len(b) = Len(fs) + 1 /\ e \in T
  <2>1. CodesOf(fs) \in Seq(Seq(Octet)) /\ Len(CodesOf(fs)) = Len(fs)
    BY CodesOfType
  <2>2. /\ CodesOf(Append(fs, f)) \in Seq(Seq(Octet))
        /\ Len(CodesOf(Append(fs, f))) = Len(Append(fs, f))
    BY <1>1, CodesOfType
  <2>3. Encode(f) \in Seq(Octet)
    BY EncodeType
  <2> QED
    BY <1>1, <2>1, <2>2, <2>3, Zenon
<1>3. b[Len(fs) + 1] = e /\ \A i \in 1..Len(fs) : b[i] = a[i]
  <2>1. \A i \in 1..(Len(fs) + 1) : b[i] = Encode(Append(fs, f)[i])
    BY <1>1 DEF CodesOf
  <2>2. \A i \in 1..Len(fs) : a[i] = Encode(fs[i])
    BY DEF CodesOf
  <2> HIDE DEF a, b
  <2> QED
    BY <2>1, <2>2
<1> HIDE DEF a, b, e, T
<1>4. Append(a, e) \in Seq(T) /\ Len(Append(a, e)) = Len(fs) + 1
  BY <1>2
<1>5. \A i \in 1..Len(b) : b[i] = Append(a, e)[i]
  BY <1>2, <1>3
<1>6. b = Append(a, e)
  <2>1. Len(b) = Len(Append(a, e))
    BY <1>2, <1>4
  <2> QED
    BY <1>2, <1>4, <1>5, <2>1, SeqEqual
<1> QED
  BY <1>6 DEF a, b, e

LEMMA CodingEmpty == Coding(<<>>) = <<>>
<1>1. CodesOf(<<>>) = <<>>
  BY DEF CodesOf
<1> QED
  BY <1>1, FlattenEmpty DEF Coding

LEMMA CodingAppend ==
    ASSUME NEW fs \in Seq(FrameSet), NEW f \in FrameSet
    PROVE  Coding(Append(fs, f)) = Coding(fs) \o Encode(f)
<1>1. CodesOf(fs) \in Seq(Seq(Octet)) /\ Encode(f) \in Seq(Octet)
  BY CodesOfType, EncodeType
<1>2. FlattenSeq(Append(CodesOf(fs), Encode(f))) = FlattenSeq(CodesOf(fs)) \o Encode(f)
  BY <1>1, FlattenAppend
<1> QED
  BY <1>2, CodesOfAppend DEF Coding

LEMMA CodingType ==
    ASSUME NEW fs \in Seq(FrameSet)
    PROVE  Coding(fs) \in Seq(Octet)
<1> DEFINE n == Len(fs)
           codes == CodesOf(fs)
<1>1. n \in Nat /\ Len(codes) = n
  BY CodesOfType
<1>2. codes = <<>> \/ n >= 1
  <2>1. CASE n = 0
    <3>1. fs = <<>>
      BY <2>1
    <3> QED
      BY <3>1 DEF CodesOf
  <2> QED
    BY <1>1, <2>1
<1>3. \A i \in 1..n : codes[i] \in Seq(Octet)
  BY EncodeType DEF CodesOf
<1> HIDE DEF n, codes
<1>4. FlattenSeq(codes) \in Seq(Octet)
  BY <1>1, <1>2, <1>3, FlattenType
<1> QED
  BY <1>4 DEF Coding, codes

LEMMA CodingJoin ==
    ASSUME NEW fs \in Seq(FrameSet)
    PROVE  \A gs \in Seq(FrameSet) : Coding(fs \o gs) = Coding(fs) \o Coding(gs)
<1> DEFINE S == {n \in Nat : \A gs \in Seq(FrameSet) :
                    Len(gs) = n => Coding(fs \o gs) = Coding(fs) \o Coding(gs)}
<1>1. 0 \in S
  <2> SUFFICES ASSUME NEW gs \in Seq(FrameSet), Len(gs) = 0
               PROVE  Coding(fs \o gs) = Coding(fs) \o Coding(gs)
      OBVIOUS
  <2>1. gs = <<>>
    OBVIOUS
  <2>2. fs \o <<>> = fs /\ Coding(fs) \o <<>> = Coding(fs)
    BY CodingType, ConcatEmpty
  <2> QED
    BY <2>1, <2>2, CodingEmpty
<1>2. ASSUME NEW n \in S PROVE n + 1 \in S
  <2> SUFFICES ASSUME NEW gs \in Seq(FrameSet), Len(gs) = n + 1
               PROVE  Coding(fs \o gs) = Coding(fs) \o Coding(gs)
      OBVIOUS
  <2>1. n \in Nat
    OBVIOUS
  <2>2. PICK hs \in Seq(FrameSet), h \in FrameSet : gs = Append(hs, h) /\ Len(hs) = n
    BY <2>1, Unappend
  <2>3. Coding(fs \o hs) = Coding(fs) \o Coding(hs) /\ fs \o hs \in Seq(FrameSet)
    BY <2>2
  <2>4. Coding(gs) = Coding(hs) \o Encode(h)
    BY <2>2, CodingAppend
  <2>5. fs \o gs = Append(fs \o hs, h)
    BY <2>2, JoinAppend
  <2>6. Coding(fs \o gs) = (Coding(fs) \o Coding(hs)) \o Encode(h)
    BY <2>3, <2>5, CodingAppend
  <2>7. Associated(Coding(fs), Coding(hs), Encode(h))
    BY CodingType, EncodeType, Associates
  <2> QED
    BY <2>4, <2>6, <2>7 DEF Associated
<1>3. S \subseteq Nat
  OBVIOUS
<1> HIDE DEF S
<1>4. S = Nat
  BY <1>1, <1>2, <1>3, SetInduction
<1> QED
  BY <1>4 DEF S

LEMMA CodingOne ==
    ASSUME NEW f \in FrameSet
    PROVE  Coding(<<f>>) = Encode(f) /\ <<f>> \in Seq(FrameSet)
<1>1. <<f>> = Append(<<>>, f) /\ <<>> \in Seq(FrameSet)
  OBVIOUS
<1>2. Coding(<<f>>) = Coding(<<>>) \o Encode(f)
  BY <1>1, CodingAppend
<1>3. <<>> \o Encode(f) = Encode(f)
  BY EncodeType
<1>4. Coding(<<>>) \o Encode(f) = Encode(f)
  BY <1>3, CodingEmpty, Zenon
<1>5. Coding(<<f>>) = Encode(f)
  BY <1>2, <1>4, Zenon
<1> QED
  BY <1>1, <1>5

LEMMA CodingFirst ==
    ASSUME NEW f \in FrameSet, NEW fs \in Seq(FrameSet)
    PROVE  Coding(<<f>> \o fs) = Encode(f) \o Coding(fs)
  BY CodingOne, CodingJoin

(* A decoder that is given frames the host accepts, and nothing else, hands on
   those and keeps what it has of the next one. *)
Good == {f \in FrameSet : f.type \in KnownTypes /\ Len(f.payload) <= HostMaxPayload}

LEMMA CandidateFirst ==
    ASSUME NEW B \in Seq(Octet), Len(B) >= 2, B[1] = 165, B[2] = 90
    PROVE  Step(B) = Judged(B)
<1>1. 1 \in Syncs(B)
  BY SyncAt
<1>2. Syncs(B) \subseteq Nat /\ \A i \in Syncs(B) : 1 <= i
  <2>1. Syncs(B) \subseteq Nat
    BY SyncsRange
  <2> QED
    BY <2>1, SyncAt
<1>3. Min(Syncs(B)) = 1
  BY <1>1, <1>2, FirstOf
<1>4. Candidate(B) = B
  BY <1>3, FromFirst DEF Candidate
<1> QED
  BY <1>1, <1>4 DEF Step

LEMMA StepWhole ==
    ASSUME NEW f \in Good, NEW z \in Seq(Octet)
    PROVE  Step(Encode(f) \o z) = Effect(z, <<f>>, 0, FALSE)
<1> DEFINE B == Encode(f) \o z
<1>1. f \in FrameSet /\ f.type \in KnownTypes /\ Len(f.payload) <= HostMaxPayload
  BY DEF Good
<1>2. ReadAs(f, B, z)
  BY <1>1, FrameRead
<1> HIDE DEF B
<1>3. Len(f.payload) \in Nat /\ Len(z) \in Nat
  BY <1>1, EncodeType
<1>4. /\ B \in Seq(Octet) /\ B[1] = 165 /\ B[2] = 90 /\ Len(B) >= 7 /\ Len(B) >= FrameLength(B)
      /\ FrameLength(B) <= 8 + HostMaxPayload /\ B[3] = Version /\ B[4] = f.type
      /\ Parsed(B) = f /\ From(B, FrameLength(B) + 1) = z
      /\ SumMatches(B)
  BY <1>1, <1>2, <1>3, HostDecoderAssumption DEF ReadAs, SumMatches
<1>5. ~Malformed(B)
  <2>1. FrameLength(B) \in Nat
    BY <1>4, AnnouncedLength
  <2> QED
    BY <1>4, <2>1, HostDecoderAssumption DEF Malformed
<1>6. Step(B) = Judged(B)
  BY <1>4, CandidateFirst
<1>7. Judged(B) = Effect(z, <<f>>, 0, FALSE)
  <2>1. FrameLength(B) \in Nat /\ Len(B) \in Nat
    BY <1>4, AnnouncedLength
  <2>2. ~(Len(B) < 7) /\ ~(Len(B) < FrameLength(B)) /\ B[4] \in KnownTypes
    BY <1>1, <1>4, <2>1
  <2>3. Judged(B) = Effect(From(B, FrameLength(B) + 1), <<Parsed(B)>>, 0, FALSE)
    BY <1>5, <2>2, Zenon DEF Judged
  <2> QED
    BY <1>4, <2>3, Zenon
<1> QED
  BY <1>6, <1>7 DEF B

BegunBy(f, B, w) == Encode(f) = B \o w /\ Len(w) > 0

LEMMA StepPart ==
    ASSUME NEW f \in Good, NEW B \in Seq(Octet), NEW w \in Seq(Octet), BegunBy(f, B, w)
    PROVE  Step(B) = Effect(B, <<>>, 0, TRUE)
<1> DEFINE e == Encode(f)
           n == Len(f.payload)
<1>1. f \in FrameSet /\ n <= HostMaxPayload /\ n \in Nat
  BY EncodeType DEF Good
<1>2. EncodedAs(f, e)
  BY <1>1, EncodeIs
<1>3. e \in Seq(Octet) /\ Len(e) = 8 + n /\ e[1] = 165 /\ e[2] = 90 /\ e[3] = Version
  BY <1>2 DEF EncodedAs, Version
<1>4. /\ Len(B) < Len(e) /\ Len(B) \in Nat /\ Len(e) = Len(B) + Len(w)
      /\ \A k \in 1..Len(B) : e[k] = B[k]
  <2>1. Len(w) > 0 /\ Len(w) \in Nat /\ Len(B) \in Nat
    BY DEF BegunBy
  <2>2. Len(e) = Len(B) + Len(w) /\ \A k \in 1..Len(B) : e[k] = B[k]
    BY JoinIs DEF BegunBy
  <2> QED
    BY <1>1, <1>3, <2>1, <2>2
<1>0. e = B \o w
  BY DEF BegunBy
<1> HIDE DEF e
<1>5. CASE Len(B) < 2
  <2>1. Syncs(B) = {}
    <3>1. ASSUME NEW i \in Syncs(B) PROVE FALSE
      <4>1. i \in Nat
        BY SyncsRange
      <4> QED
        BY <1>4, <1>5, <4>1, SyncAt
    <3> QED
      BY <3>1
  <2>2. Trailing(B) = B
    <3>1. Trailing(B) = IF Len(B) > 0 /\ B[Len(B)] = 165 THEN <<165>> ELSE <<>>
      BY TrailingIs
    <3>2. CASE Len(B) = 0
      <4>1. B = <<>>
        BY <3>2
      <4>2. Trailing(B) = <<>>
        BY <3>1, <3>2
      <4> QED
        BY <4>1, <4>2
    <3>3. CASE Len(B) = 1
      <4>1. B[1] = 165
        BY <1>3, <1>4, <3>3
      <4>2. Trailing(B) = <<165>>
        BY <3>1, <3>3, <4>1
      <4>3. <<165>> \in Seq(Octet) /\ Len(<<165>>) = 1 /\ <<165>>[1] = 165
        BY DEF Octet
      <4>4. <<165>> = B
        BY <3>3, <4>1, <4>3, SeqEqual
      <4> QED
        BY <4>2, <4>4
    <3>4. Len(B) = 0 \/ Len(B) = 1
      <4>1. Len(B) \in Nat
        BY <1>4
      <4>2. \A k \in Nat : k < 2 => k = 0 \/ k = 1
        OBVIOUS
      <4> QED
        BY ONLY <1>5, <4>1, <4>2, Zenon
    <3> QED
      BY <3>2, <3>3, <3>4
  <2> QED
    BY <2>1, <2>2 DEF Step
<1>6. CASE ~(Len(B) < 2)
  <2>1. Len(B) >= 2 /\ B[1] = 165 /\ B[2] = 90
    <3>1. Len(B) >= 2
      BY <1>4, <1>6
    <3>2. 1 \in 1..Len(B) /\ 2 \in 1..Len(B)
      BY <1>4, <3>1
    <3>3. e[1] = B[1] /\ e[2] = B[2]
      BY <1>4, <3>2
    <3> QED
      BY <1>3, <3>1, <3>3
  <2>2. Step(B) = Judged(B)
    BY <2>1, CandidateFirst
  <2>3. CASE Len(B) < 7
    BY <2>2, <2>3 DEF Judged
  <2>4. CASE ~(Len(B) < 7)
    <3>1. Len(B) >= 7
      BY <1>4, <2>4
    <3>2. HeadSame(B, e)
      BY <1>0, <3>1, HeadMore
    <3>3. FrameLength(B) = FrameLength(e) /\ B[3] = e[3]
      BY <3>2 DEF HeadSame
    <3>4. FrameLength(e) = 8 + n
      <4> DEFINE none == <<>>
      <4>1. none \in Seq(Octet) /\ Encode(f) \o none = Encode(f)
        BY <1>1, EncodeType, ConcatEmpty
      <4> HIDE DEF none
      <4>2. ReadAs(f, Encode(f) \o none, none)
        BY <1>1, <4>1, FrameRead
      <4>3. ReadAs(f, e, none)
        BY <4>1, <4>2 DEF e
      <4> QED
        BY <4>3 DEF ReadAs
    <3>5. ~Malformed(B) /\ Len(B) < FrameLength(B)
      <4>1. FrameLength(B) = 8 + n /\ B[3] = Version
        BY <1>3, <3>3, <3>4
      <4> HIDE DEF n
      <4> QED
        BY <1>1, <1>3, <1>4, <4>1, HostDecoderAssumption DEF Malformed
    <3>6. Judged(B) = Effect(B, <<>>, 0, TRUE)
      BY <2>4, <3>5, Zenon DEF Judged
    <3> QED
      BY <2>2, <3>6
  <2> QED
    BY <2>3, <2>4
<1> QED
  BY <1>5, <1>6

(* What comes behind the bytes a decoder has, y, completes the frames it is
   given, fs: F of them are handed on, G are not yet. *)
Split(d, y, fs, F, G) ==
    /\ F \in Seq(Good) /\ G \in Seq(Good) /\ fs = F \o G
    /\ Scan(d).frames = d.frames \o F /\ Scan(d).buffer \o y = Coding(G)
Splits(d) ==
    \A y \in Seq(Octet), fs \in Seq(Good) :
        d.buffer \o y = Coding(fs) => \E F, G : Split(d, y, fs, F, G)

LEMMA GoodFrames ==
    ASSUME NEW fs \in Seq(Good)
    PROVE  fs \in Seq(FrameSet) /\ Coding(fs) \in Seq(Octet)
<1>1. fs \in Seq(FrameSet)
  BY DEF Good
<1> QED
  BY <1>1, CodingType

LEMMA ScanWaits ==
    ASSUME NEW d \in Loop, ~d.waiting, Step(d.buffer) = Effect(d.buffer, <<>>, 0, TRUE)
    PROVE  Scan(d).frames = d.frames /\ Scan(d).buffer = d.buffer
<1>1. Turn(d) = After(d, Effect(d.buffer, <<>>, 0, TRUE))
  BY TurnIs
<1>2. /\ Turn(d).buffer = d.buffer /\ Turn(d).waiting
      /\ Turn(d).frames = d.frames \o <<>>
  BY <1>1 DEF After, Effect
<1>3. d.frames \o <<>> = d.frames
  BY ConcatEmpty DEF Loop
<1>4. Turn(d) \in Loop
  BY TurnType
<1>5. Scan(d) = Turn(d)
  BY <1>2, <1>4, ScanTurns
<1> QED
  BY <1>2, <1>3, <1>5

LEMMA ScanSplits == \A d \in Loop : ~d.waiting => Splits(d)
<1> DEFINE S == {d \in Loop : ~d.waiting => Splits(d)}
<1>1. size \in [Loop -> Nat]
  BY DEF size, Loop
<1>2. ASSUME NEW d \in Loop, \A e \in Loop : size[e] < size[d] => e \in S
      PROVE  d \in S
  <2> SUFFICES ASSUME ~d.waiting, NEW y \in Seq(Octet), NEW fs \in Seq(Good),
                      d.buffer \o y = Coding(fs)
               PROVE  \E F, G : Split(d, y, fs, F, G)
      BY DEF Splits
  <2> DEFINE B == d.buffer
  <2>1. B \in Seq(Octet) /\ d.frames \in Seq(FrameSet)
    BY DEF Loop
  <2>2. fs \in Seq(FrameSet) /\ Coding(fs) \in Seq(Octet)
    BY GoodFrames
  <2>3. ASSUME Step(B) = Effect(B, <<>>, 0, TRUE) PROVE \E F, G : Split(d, y, fs, F, G)
    <3>1. Scan(d).frames = d.frames /\ Scan(d).buffer = B
      BY <2>3, ScanWaits
    <3>2. d.frames \o <<>> = d.frames /\ <<>> \o fs = fs /\ <<>> \in Seq(Good)
      BY <2>1, ConcatEmpty
    <3>3. Split(d, y, fs, <<>>, fs)
      BY <3>1, <3>2 DEF Split
    <3> QED
      BY <3>3
  <2>4. CASE fs = <<>>
    <3>1. B \o y = <<>>
      BY <2>4, CodingEmpty
    <3>2. B = <<>>
      <4>1. Len(B \o y) = Len(B) + Len(y) /\ Len(B) \in Nat /\ Len(y) \in Nat
        BY <2>1, JoinIs
      <4>2. Len(B) = 0
        BY <3>1, <4>1
      <4> QED
        BY <2>1, <4>2
    <3>3. Step(<<>>) = Effect(<<>>, <<>>, 0, TRUE)
      <4>1. Syncs(<<>>) = {}
        <5> DEFINE none == <<>>
        <5>1. none \in Seq(Octet) /\ Len(none) = 0
          OBVIOUS
        <5> HIDE DEF none
        <5>2. Syncs(none) \subseteq Nat
          BY <5>1, SyncsRange
        <5>3. ASSUME NEW i \in Syncs(none) PROVE FALSE
          <6>1. i \in Nat
            BY <5>2
          <6>2. i >= 1 /\ i + 1 <= Len(none)
            BY <5>1, <6>1, SyncAt
          <6> QED
            BY <5>1, <6>1, <6>2
        <5>4. Syncs(none) = {}
          BY <5>3
        <5> QED
          BY <5>4 DEF none
      <4>2. Trailing(<<>>) = <<>>
        BY DEF Trailing
      <4> QED
        BY <4>1, <4>2 DEF Step
    <3> QED
      BY <2>3, <3>2, <3>3
  <2>5. CASE fs # <<>>
    <3>1. PICK f \in Good, gs \in Seq(Good) : fs = <<f>> \o gs
      <4>1. fs \in Seq(Good) /\ fs # <<>>
        BY <2>5
      <4> HIDE DEF B
      <4> QED
        BY ONLY <4>1, Uncons
    <3>2. f \in FrameSet /\ gs \in Seq(FrameSet) /\ Coding(gs) \in Seq(Octet) /\ Encode(f) \in Seq(Octet)
      BY GoodFrames, EncodeType DEF Good
    <3>3. Coding(fs) = Encode(f) \o Coding(gs)
      BY <3>1, <3>2, CodingFirst
    <3> DEFINE e == Encode(f)
               c == Coding(gs)
    <3>4. B \o y = e \o c /\ e \in Seq(Octet) /\ c \in Seq(Octet)
      BY <3>2, <3>3
    <3> HIDE DEF e, c, B
    <3>5. CASE Len(B) < Len(e)
      <4> DEFINE w == From(e, Len(B) + 1)
      <4>1. e = B \o w /\ w \in Seq(Octet)
        <5>1. Len(B) <= Len(e)
          BY <2>1, <3>4, <3>5
        <5>2. B \in Seq(Octet) /\ y \in Seq(Octet)
          BY <2>1
        <5> HIDE DEF w
        <5>3. /\ e = B \o From(e, Len(B) + 1) /\ y = From(e, Len(B) + 1) \o c
              /\ From(e, Len(B) + 1) \in Seq(Octet)
          BY ONLY <3>4, <5>1, <5>2, JoinSplits, Zenon
        <5> QED
          BY ONLY <5>3 DEF w
      <4> HIDE DEF w
      <4>2. Len(w) > 0
        <5>1. Len(B \o w) = Len(B) + Len(w) /\ Len(B) \in Nat /\ Len(w) \in Nat
          BY <2>1, <4>1, JoinIs
        <5> QED
          BY <3>5, <4>1, <5>1
      <4>3. BegunBy(f, B, w)
        BY <4>1, <4>2 DEF BegunBy, e
      <4>4. Step(B) = Effect(B, <<>>, 0, TRUE)
        BY <2>1, <4>1, <4>3, StepPart
      <4> QED
        BY <2>3, <4>4 DEF B
    <3>6. CASE ~(Len(B) < Len(e))
      <4> DEFINE z == From(B, Len(e) + 1)
      <4>1. B = e \o z /\ c = z \o y /\ z \in Seq(Octet)
        <5>1. Len(e) <= Len(B)
          BY <2>1, <3>4, <3>6
        <5> QED
          BY <2>1, <3>4, <5>1, JoinSplits
      <4> HIDE DEF z
      <4> DEFINE t == Turn(d)
                 one == <<f>>
      <4>2. Step(B) = Effect(z, one, 0, FALSE)
        BY <4>1, StepWhole DEF e
      <4>3. t = After(d, Effect(z, one, 0, FALSE))
        BY <4>2, TurnIs DEF B
      <4>4. t.buffer = z /\ ~t.waiting /\ t.frames = d.frames \o one
        <5> HIDE DEF one, t
        <5> QED
          BY <4>3 DEF After, Effect
      <4>5. t \in Loop /\ Scan(d) = Scan(t)
        BY TurnType, ScanTurns
      <4>6. Len(z) < Len(B)
        <5>1. Len(B) = Len(e) + Len(z) /\ Len(e) >= 8 /\ Len(z) \in Nat /\ Len(e) \in Nat
          <6>1. Len(e) = 8 + Len(f.payload) /\ Len(f.payload) \in Nat
            BY <3>2, EncodeType DEF e
          <6>2. Len(e \o z) = Len(e) + Len(z) /\ Len(z) \in Nat
            BY <3>4, <4>1, JoinIs
          <6> QED
            BY <4>1, <6>1, <6>2
        <5> QED
          BY <5>1
      <4> HIDE DEF t, one
      <4>7. Splits(t)
        <5>1. size[t] < size[d]
          BY <4>4, <4>5, <4>6 DEF size, B
        <5>2. t \in S
          BY <1>2, <4>5, <5>1
        <5> QED
          BY <4>4, <5>2
      <4>8. t.buffer \o y = Coding(gs)
        BY <4>1, <4>4 DEF c
      <4>9. PICK F, G : Split(t, y, gs, F, G)
        BY <3>1, <4>7, <4>8 DEF Splits
      <4>10. /\ F \in Seq(Good) /\ G \in Seq(Good) /\ gs = F \o G
             /\ Scan(t).frames = t.frames \o F /\ Scan(t).buffer \o y = Coding(G)
        BY <4>9 DEF Split
      <4>11. one \in Seq(Good) /\ one \in Seq(FrameSet) /\ fs = one \o gs
        BY <3>1, <3>2 DEF one
      <4>12. one \o F \in Seq(Good) /\ fs = (one \o F) \o G
        <5>1. Associated(one, F, G)
          BY <4>10, <4>11, Associates
        <5> QED
          BY <4>10, <4>11, <5>1, JoinIs DEF Associated
      <4>13. Scan(d).frames = d.frames \o (one \o F)
        <5>1. F \in Seq(FrameSet)
          BY <4>10, GoodFrames
        <5>2. Associated(d.frames, one, F)
          BY <2>1, <4>11, <5>1, Associates
        <5> QED
          BY <4>4, <4>5, <4>10, <5>2 DEF Associated
      <4>14. Split(d, y, fs, one \o F, G)
        BY <4>5, <4>10, <4>12, <4>13 DEF Split
      <4> QED
        BY <4>14
    <3> QED
      BY <3>5, <3>6
  <2> QED
    BY <2>4, <2>5
<1>3. S \subseteq Loop
  OBVIOUS
<1> HIDE DEF S
<1>4. S = Loop
  BY <1>1, <1>2, <1>3, SizeInduction
<1> QED
  BY <1>4 DEF S

(* What the target sends to a host that is not framed yet: text, which does
   not contain both sync bytes, and frames of one byte and of an answer. *)
OutputFrame(b) == [type |-> 2, channel |-> 0, payload |-> <<b>>]
PlainFrames == {HelloAck} \cup {OutputFrame(b) : b \in Typed}

LEMMA SmallFrameIs ==
    ASSUME NEW type \in Octet, NEW body \in Seq(Octet), Len(body) <= 4
    PROVE  [type |-> type, channel |-> 0, payload |-> body] \in FrameSet
<1> DEFINE frame == [type |-> type, channel |-> 0, payload |-> body]
<1>1. 0 \in Octet /\ Len(body) \in Nat
  BY DEF Octet
<1>2. Len(body) < 65536
  BY <1>1
<1> DEFINE payloads == {p \in Seq(Octet) : Len(p) < 65536}
<1>3. body \in payloads
  BY <1>2
<1> HIDE DEF payloads
<1> QED
  BY <1>1, <1>3 DEF FrameSet, payloads

LEMMA OutputFrameIs ==
    ASSUME NEW b \in Octet
    PROVE  /\ OutputFrame(b) \in FrameSet /\ OutputFrame(b).type = 2
           /\ OutputFrame(b).payload = <<b>> /\ Len(OutputFrame(b).payload) = 1
<1> DEFINE p == <<b>>
<1>1. p \in Seq(Octet) /\ Len(p) = 1
  OBVIOUS
<1> HIDE DEF p
<1> DEFINE t == 2
<1>2. t \in Octet /\ Len(p) <= 4
  BY <1>1 DEF Octet
<1> HIDE DEF t
<1>3. [type |-> t, channel |-> 0, payload |-> p] \in FrameSet
  BY <1>1, <1>2, SmallFrameIs
<1>4. OutputFrame(b) = [type |-> 2, channel |-> 0, payload |-> p]
  BY DEF OutputFrame, p
<1>5. OutputFrame(b).type = 2 /\ OutputFrame(b).payload = p
  BY <1>4
<1> QED
  BY <1>1, <1>3, <1>4, <1>5 DEF p, t

LEMMA AckFrameIs ==
    /\ HelloAck \in FrameSet /\ HelloAck.type = 13
    /\ HelloAck.payload = <<83, 87, 84, 49>> /\ Len(HelloAck.payload) = 4
<1>1. HelloAck.type = 13 /\ HelloAck.payload = NegotiationPayload
  BY DEF HelloAck
<1> QED
  BY <1>1, AckIs DEF NegotiationPayload

LEMMA PlainFramesGood ==
    ASSUME DownlinkAssumption
    PROVE  /\ PlainFrames \subseteq Good
           /\ \A f \in PlainFrames : f.type = 13 => f = HelloAck
<1> SUFFICES ASSUME NEW f \in PlainFrames
             PROVE  f \in Good /\ (f.type = 13 => f = HelloAck)
    OBVIOUS
<1>1. HostMaxPayload \in Nat /\ HostMaxPayload >= 4
  BY HostDecoderAssumption DEF DownlinkAssumption
<1>2. CASE f = HelloAck
  <2>1. f \in FrameSet /\ f.type = 13 /\ Len(f.payload) = 4
    BY <1>2, AckFrameIs
  <2>2. f.type \in KnownTypes
    BY <2>1 DEF KnownTypes
  <2> QED
    BY <1>1, <1>2, <2>1, <2>2 DEF Good
<1>3. CASE f # HelloAck
  <2>1. PICK b \in Typed : f = OutputFrame(b)
    BY <1>3 DEF PlainFrames
  <2>2. b \in Octet
    BY DEF DownlinkAssumption, Octet
  <2>3. f \in FrameSet /\ f.type = 2 /\ Len(f.payload) = 1
    BY <2>1, <2>2, OutputFrameIs
  <2>4. f.type \in KnownTypes
    BY <2>3 DEF KnownTypes
  <2>5. Len(f.payload) <= HostMaxPayload /\ f.type # 13
    BY <1>1, <2>3
  <2> QED
    BY <2>3, <2>4, <2>5 DEF Good
<1> QED
  BY <1>2, <1>3

LEMMA SumRuns ==
    ASSUME NEW s \in Seq(Octet)
    PROVE  \E f : Sums(f, s, Len(s)) /\ Checksum8(s) = f[Len(s)]
<1>1. Len(s) \in Nat
  OBVIOUS
<1>2. PICK f : Sums(f, s, Len(s))
  BY <1>1, SumExists
<1> QED
  BY <1>1, <1>2, SumValue

LEMMA OutputSum ==
    ASSUME NEW s \in Seq(Octet), Len(s) = 6, s[1] = 1, s[2] = 2, s[3] = 0, s[4] = 1, s[5] = 0,
           s[6] = 165
    PROVE  Checksum8(s) = 169
<1>1. PICK f : Sums(f, s, Len(s)) /\ Checksum8(s) = f[Len(s)]
  BY SumRuns
<1>2. Sums(f, s, 6) /\ Checksum8(s) = f[6]
  BY <1>1
<1>3. \A i \in 0..6 : f[i] = IF i = 0 THEN 0 ELSE AddByte(f[i - 1], s[i])
  BY <1>2 DEF Sums
<1>4. f[0] = 0
  BY <1>3
<1>5. f[1] = 1
  BY <1>3, <1>4 DEF AddByte
<1>6. f[2] = 3
  BY <1>3, <1>5 DEF AddByte
<1>7. f[3] = 3
  BY <1>3, <1>6 DEF AddByte
<1>8. f[4] = 4
  BY <1>3, <1>7 DEF AddByte
<1>9. f[5] = 4
  BY <1>3, <1>8 DEF AddByte
<1>10. f[6] = 169
  BY <1>3, <1>9 DEF AddByte
<1> QED
  BY <1>2, <1>10

LEMMA NoSyncInside ==
    ASSUME DownlinkAssumption, NEW f \in PlainFrames, NEW k \in Nat, k >= 1, k + 1 <= Len(Encode(f)),
           Encode(f)[k] = 165, Encode(f)[k + 1] = 90
    PROVE  k = 1
<1> DEFINE e == Encode(f)
<1>1. f \in FrameSet
  BY PlainFramesGood DEF Good
<1>2. EncodedAs(f, e)
  BY <1>1, EncodeIs
<1>3. k + 1 <= Len(e) /\ e[k] = 165 /\ e[k + 1] = 90
  OBVIOUS
<1> HIDE DEF e
<1>4. CASE f = HelloAck
  <2> DEFINE p == f.payload
  <2>1. f.type = 13 /\ f.channel = 0 /\ Len(p) = 4 /\ p[1] = 83 /\ p[2] = 87 /\ p[3] = 84 /\ p[4] = 49
    <3>1. f.channel = 0
      BY <1>4 DEF HelloAck
    <3> QED
      BY <1>4, <3>1, AckFrameIs
  <2>2. /\ e \in Seq(Octet) /\ Len(e) = 12 /\ e[2] = 90 /\ e[3] = 1 /\ e[4] = 13 /\ e[5] = 0 /\ e[6] = 4 /\ e[7] = 0
        /\ e[8] = 83 /\ e[9] = 87 /\ e[10] = 84 /\ e[11] = 49
    <3> HIDE DEF p
    <3>1. Len(f.payload) = 4 /\ f.payload[1] = 83 /\ f.payload[2] = 87 /\ f.payload[3] = 84 /\ f.payload[4] = 49
      BY <2>1 DEF p
    <3>2. \A i \in 1..4 : e[7 + i] = f.payload[i]
      BY <1>2, <3>1 DEF EncodedAs
    <3>3. e[8] = 83 /\ e[9] = 87 /\ e[10] = 84 /\ e[11] = 49
      <4>1. e[7 + 1] = 83 /\ e[7 + 2] = 87 /\ e[7 + 3] = 84 /\ e[7 + 4] = 49
        BY ONLY <3>1, <3>2
      <4> QED
        BY <4>1
    <3> QED
      BY <1>2, <2>1, <3>1, <3>3 DEF EncodedAs
  <2>3. \A i \in 2..6 : e[i] # 165
    <3>1. \A i \in 2..6 : i = 2 \/ i = 3 \/ i = 4 \/ i = 5 \/ i = 6
      OBVIOUS
    <3> QED
      BY ONLY <2>2, <3>1
  <2>4. \A i \in 7..11 : e[i] # 165
    <3>1. \A i \in 7..11 : i = 7 \/ i = 8 \/ i = 9 \/ i = 10 \/ i = 11
      OBVIOUS
    <3> QED
      BY ONLY <2>2, <3>1
  <2>5. k = 1 \/ k \in 2..6 \/ k \in 7..11
    BY <1>3, <2>2
  <2> QED
    BY ONLY <1>3, <2>3, <2>4, <2>5
<1>5. CASE f # HelloAck
  <2>1. PICK b \in Typed : f = OutputFrame(b)
    BY <1>5 DEF PlainFrames
  <2>2. b \in Octet
    BY DEF DownlinkAssumption, Octet
  <2>3. f.type = 2 /\ f.channel = 0 /\ Len(f.payload) = 1 /\ f.payload[1] = b
    <3>1. f.channel = 0
      BY <2>1 DEF OutputFrame
    <3> QED
      BY <2>1, <2>2, <3>1, OutputFrameIs
  <2>4. /\ e \in Seq(Octet) /\ Len(e) = 9 /\ e[2] = 90 /\ e[3] = 1 /\ e[4] = 2 /\ e[5] = 0 /\ e[6] = 1
        /\ e[7] = 0 /\ e[8] = b /\ e[9] = Checksum8(SubSeq(e, 3, 8))
    BY <1>2, <2>3 DEF EncodedAs
  <2>5. k = 1 \/ (k = 8 /\ b = 165)
    <3>1. \/ k = 1 \/ k = 2 \/ k = 3 \/ k = 4 \/ k = 5 \/ k = 6 \/ k = 7 \/ k = 8
      BY <1>3, <2>4
    <3> QED
      BY ONLY <1>3, <2>4, <3>1
  <2>6. CASE b = 165
    <3> DEFINE s == SubSeq(e, 3, 8)
    <3>1. 3 \in 1..(Len(e) + 1) /\ 8 \in (3 - 1)..Len(e)
      BY <2>4
    <3>2. PartOf(Octet, e, 3, 8, s)
      <4> DEFINE m == 3
                 n == 8
      <4>1. m \in 1..(Len(e) + 1) /\ n \in (m - 1)..Len(e) /\ e \in Seq(Octet)
        BY <2>4, <3>1
      <4> HIDE DEF m, n, s
      <4>2. PartOf(Octet, e, m, n, SubSeq(e, m, n))
        BY ONLY <4>1, Parted
      <4> QED
        BY <4>2 DEF m, n, s
    <3> HIDE DEF s
    <3>3. s \in Seq(Octet) /\ Len(s) = 6 /\ \A i \in 1..6 : s[i] = e[3 + i - 1]
      BY <3>2 DEF PartOf
    <3>4. s[1] = 1 /\ s[2] = 2 /\ s[3] = 0 /\ s[4] = 1 /\ s[5] = 0 /\ s[6] = 165
      BY ONLY <2>4, <2>6, <3>3
    <3>5. e[9] = 169
      <4>1. e[9] = Checksum8(s)
        BY <2>4 DEF s
      <4>2. Checksum8(s) = 169
        BY ONLY <3>3, <3>4, OutputSum
      <4> QED
        BY ONLY <4>1, <4>2
    <3> QED
      BY <1>3, <2>5, <3>5
  <2> QED
    BY <2>5, <2>6
<1> QED
  BY <1>4, <1>5

(* Every sync pair in such frames begins one of them. *)
FramesFrom(C, i, gs) == gs \in Seq(PlainFrames) /\ From(C, i) = Coding(gs)

LEMMA PlainFramesAre ==
    ASSUME DownlinkAssumption, NEW fs \in Seq(PlainFrames)
    PROVE  fs \in Seq(Good) /\ fs \in Seq(FrameSet) /\ Coding(fs) \in Seq(Octet)
<1>1. fs \in Seq(Good)
  BY PlainFramesGood
<1> QED
  BY <1>1, GoodFrames

LEMMA CodingBegins ==
    ASSUME NEW fs \in Seq(FrameSet), fs # <<>>
    PROVE  Len(Coding(fs)) >= 8 /\ Coding(fs)[1] = 165 /\ Coding(fs)[2] = 90
<1>1. PICK f \in FrameSet, gs \in Seq(FrameSet) : fs = <<f>> \o gs
  BY Uncons
<1> DEFINE e == Encode(f)
           c == Coding(gs)
<1>2. e \in Seq(Octet) /\ Len(e) >= 8 /\ e[1] = 165 /\ e[2] = 90
  <2>1. Len(e) = 8 + Len(f.payload) /\ Len(f.payload) \in Nat
    BY EncodeType
  <2>2. e \in Seq(Octet) /\ e[1] = 165 /\ e[2] = 90
    BY EncodeType
  <2> HIDE DEF e
  <2> QED
    BY <2>1, <2>2
<1>3. c \in Seq(Octet)
  BY CodingType
<1>4. Coding(fs) = e \o c
  BY <1>1, CodingFirst
<1> HIDE DEF e, c
<1>5. /\ Len(e \o c) = Len(e) + Len(c) /\ Len(e) \in Nat /\ Len(c) \in Nat
      /\ \A k \in 1..Len(e) : (e \o c)[k] = e[k]
  BY <1>2, <1>3, JoinIs
<1>6. 1 \in 1..Len(e) /\ 2 \in 1..Len(e)
  BY <1>2, <1>5
<1> QED
  BY <1>2, <1>4, <1>5, <1>6

LEMMA SyncsAtFrames ==
    ASSUME DownlinkAssumption
    PROVE  \A fs \in Seq(PlainFrames) : \A i \in Syncs(Coding(fs)) : \E gs : FramesFrom(Coding(fs), i, gs)
<1> DEFINE S == {n \in Nat : \A fs \in Seq(PlainFrames) : Len(fs) = n =>
                    \A i \in Syncs(Coding(fs)) : \E gs : FramesFrom(Coding(fs), i, gs)}
<1>1. 0 \in S
  <2> SUFFICES ASSUME NEW fs \in Seq(PlainFrames), Len(fs) = 0, NEW i \in Syncs(Coding(fs))
               PROVE  FALSE
      OBVIOUS
  <2> DEFINE C == Coding(fs)
  <2>1. C \in Seq(Octet) /\ Len(C) = 0
    <3>1. fs = <<>>
      OBVIOUS
    <3>2. Coding(fs) = <<>>
      BY <3>1, CodingEmpty, Zenon
    <3> QED
      BY <3>2
  <2> HIDE DEF C
  <2>2. i \in Syncs(C)
    BY DEF C
  <2>3. i \in Nat
    BY <2>1, <2>2, SyncsRange
  <2>4. i >= 1 /\ i + 1 <= Len(C)
    BY <2>1, <2>2, <2>3, SyncAt
  <2> QED
    BY <2>1, <2>3, <2>4
<1>2. ASSUME NEW n \in S PROVE n + 1 \in S
  <2> SUFFICES ASSUME NEW fs \in Seq(PlainFrames), Len(fs) = n + 1, NEW i \in Syncs(Coding(fs))
               PROVE  \E gs : FramesFrom(Coding(fs), i, gs)
      OBVIOUS
  <2>1. n \in Nat /\ fs # <<>>
    OBVIOUS
  <2>2. PICK f \in PlainFrames, rest \in Seq(PlainFrames) : fs = <<f>> \o rest
    BY <2>1, Uncons
  <2>3. Len(rest) = n
    <3>1. <<f>> \in Seq(PlainFrames) /\ Len(<<f>>) = 1
      OBVIOUS
    <3>2. Len(fs) = Len(<<f>>) + Len(rest) /\ Len(rest) \in Nat
      BY <2>2, <3>1, JoinIs
    <3> QED
      BY <2>1, <3>1, <3>2
  <2>4. \A j \in Syncs(Coding(rest)) : \E gs : FramesFrom(Coding(rest), j, gs)
    BY <2>3
  <2> DEFINE e == Encode(f)
             c == Coding(rest)
             C == Coding(fs)
  <2>5. f \in FrameSet /\ rest \in Seq(FrameSet) /\ c \in Seq(Octet) /\ e \in Seq(Octet) /\ C \in Seq(Octet)
    <3>1. f \in FrameSet
      BY PlainFramesGood DEF Good
    <3> QED
      BY <3>1, PlainFramesAre, EncodeType
  <2>6. C = e \o c
    BY <2>2, <2>5, CodingFirst
  <2>7. i \in Syncs(C)
    OBVIOUS
  <2> HIDE DEF S
  <2>8. ASSUME NEW k \in Nat, k >= 1, k + 1 <= Len(e), e[k] = 165, e[k + 1] = 90 PROVE k = 1
    BY <2>8, NoSyncInside
  <2>9. rest # <<>> => Len(c) >= 8 /\ c[1] = 165
    BY <2>5, CodingBegins
  <2>10. rest = <<>> => Len(c) = 0
    BY CodingEmpty
  <2> HIDE DEF e, c, C
  <2>11. i \in Nat /\ i >= 1 /\ i + 1 <= Len(C) /\ C[i] = 165 /\ C[i + 1] = 90
    <3>1. i \in Nat
      BY <2>5, <2>7, SyncsRange
    <3> QED
      BY <2>5, <2>7, <3>1, SyncAt
  <2>12. /\ Len(C) = Len(e) + Len(c) /\ Len(e) \in Nat /\ Len(c) \in Nat
         /\ \A k \in 1..Len(e) : C[k] = e[k]
         /\ \A k \in 1..Len(c) : C[Len(e) + k] = c[k]
    BY <2>5, <2>6, JoinIs
  <2>13. CASE i + 1 <= Len(e)
    <3>1. i \in 1..Len(e) /\ i + 1 \in 1..Len(e)
      BY <2>11, <2>12, <2>13
    <3>2. e[i] = 165 /\ e[i + 1] = 90
      BY <2>11, <2>12, <3>1
    <3>3. i = 1
      BY <2>8, <2>11, <2>13, <3>2
    <3>4. From(C, i) = C
      BY <2>5, <3>3, FromFirst
    <3>5. FramesFrom(C, i, fs)
      BY <3>4 DEF FramesFrom, C
    <3> QED
      BY <3>5 DEF C
  <2>14. CASE i = Len(e)
    <3>1. Len(c) >= 1
      BY <2>11, <2>12, <2>14
    <3>2. c[1] = 165
      BY <2>9, <2>10, <3>1
    <3>3. 1 \in 1..Len(c)
      BY <2>12, <3>1
    <3>4. C[Len(e) + 1] = c[1]
      BY <2>12, <3>3
    <3> QED
      BY <2>11, <2>14, <3>2, <3>4
  <2>15. CASE i > Len(e)
    <3> DEFINE j == i - Len(e)
    <3>1. j \in Nat /\ j >= 1 /\ i = Len(e) + j /\ j + 1 <= Len(c)
      BY <2>11, <2>12, <2>15
    <3> HIDE DEF j
    <3>2. j \in 1..Len(c) /\ j + 1 \in 1..Len(c) /\ Len(e) + (j + 1) = i + 1
      BY <2>11, <2>12, <3>1
    <3>3. c[j] = 165 /\ c[j + 1] = 90
      <4>1. C[Len(e) + j] = c[j] /\ C[Len(e) + (j + 1)] = c[j + 1]
        BY <2>12, <3>2
      <4> QED
        BY ONLY <2>11, <3>1, <3>2, <4>1
    <3>4. j \in Syncs(c)
      BY <2>5, <3>1, <3>3, SyncAt
    <3>5. PICK gs : FramesFrom(c, j, gs)
      BY <2>4, <3>4 DEF c
    <3>6. From(C, i) = From(c, j)
      <4>1. j \in 1..(Len(c) + 1)
        BY <2>12, <3>2
      <4>2. From(e \o c, Len(e) + j) = From(c, j)
        BY <2>5, <4>1, FromBeyond
      <4> QED
        BY <2>6, <3>1, <4>2
    <3>7. FramesFrom(C, i, gs)
      BY <3>5, <3>6 DEF FramesFrom
    <3> QED
      BY <3>7 DEF C
  <2> QED
    BY <2>11, <2>12, <2>13, <2>14, <2>15
<1>3. S \subseteq Nat
  OBVIOUS
<1> HIDE DEF S
<1>4. S = Nat
  BY <1>1, <1>2, <1>3, SetInduction
<1>5. \A fs \in Seq(PlainFrames) : Len(fs) \in S
  BY <1>4
<1> QED
  BY <1>5 DEF S

(* So an answer among text and frames is one the target sent as a whole, and
   what is behind it is frames. *)
Sent(S, A, fs) == A \in Seq(Typed) /\ fs \in Seq(PlainFrames) /\ S = A \o Coding(fs)
Answered(S, T, z) == S = T \o (Ack \o z)

AckFirst(gs, z) == Coding(gs) = Ack \o z

LEMMA AckBytes == Ack \in Seq(Octet) /\ Len(Ack) = 12 /\ Ack[1] = 165 /\ Ack[2] = 90 /\ Ack[4] = 13
<1>1. Ack[2] = 90 /\ Ack[4] = HelloAck.type
  BY AckFrameIs, EncodeType DEF Ack
<1> QED
  BY <1>1, AckIs, AckFrameIs

LEMMA AckJoined ==
    ASSUME NEW z \in Seq(Octet)
    PROVE  /\ Ack \o z \in Seq(Octet) /\ Len(Ack \o z) = 12 + Len(z) /\ Len(z) \in Nat
           /\ (Ack \o z)[1] = 165 /\ (Ack \o z)[2] = 90 /\ (Ack \o z)[4] = 13
<1> DEFINE a == Ack
<1>1. a \in Seq(Octet) /\ Len(a) = 12 /\ a[1] = 165 /\ a[2] = 90 /\ a[4] = 13
  BY AckBytes
<1> HIDE DEF a
<1>2. a \in Seq(Octet)
  BY <1>1
<1>3. /\ a \o z \in Seq(Octet) /\ Len(a \o z) = Len(a) + Len(z) /\ Len(z) \in Nat
      /\ \A k \in 1..Len(a) : (a \o z)[k] = a[k]
  BY <1>2, JoinIs
<1>4. 1 \in 1..Len(a) /\ 2 \in 1..Len(a) /\ 4 \in 1..Len(a)
  BY <1>1
<1>5. (a \o z)[1] = a[1] /\ (a \o z)[2] = a[2] /\ (a \o z)[4] = a[4]
  BY <1>3, <1>4
<1> QED
  BY <1>1, <1>3, <1>5 DEF a

LEMMA AckOfFrame ==
    ASSUME DownlinkAssumption, NEW gs \in Seq(PlainFrames), NEW z \in Seq(Octet), AckFirst(gs, z)
    PROVE  \E hs \in Seq(PlainFrames) : z = Coding(hs)
<1>1. Coding(gs) = Ack \o z
  BY DEF AckFirst
<1>2. gs # <<>>
  <2>1. CASE gs = <<>>
    <3>1. Ack \o z = <<>>
      BY <1>1, <2>1, CodingEmpty, Zenon
    <3>2. Len(Ack \o z) = 12 + Len(z) /\ Len(z) \in Nat
      BY AckJoined
    <3> QED
      BY <3>1, <3>2
  <2> QED
    BY <2>1
<1>3. PICK g \in PlainFrames, hs \in Seq(PlainFrames) : gs = <<g>> \o hs
  BY <1>2, Uncons
<1>4. g \in FrameSet /\ hs \in Seq(FrameSet) /\ Coding(hs) \in Seq(Octet)
  BY PlainFramesGood, PlainFramesAre DEF Good
<1> DEFINE e == Encode(g)
           c == Coding(hs)
<1>5. e \in Seq(Octet) /\ c \in Seq(Octet) /\ Len(e) >= 8 /\ e[4] = g.type
  <2>1. Len(e) = 8 + Len(g.payload) /\ Len(g.payload) \in Nat
    BY <1>4, EncodeType
  <2>2. e \in Seq(Octet) /\ e[4] = g.type
    BY <1>4, EncodeType
  <2> HIDE DEF e
  <2> QED
    BY <1>4, <2>1, <2>2
<1>6. e \o c = Ack \o z
  <2>1. Coding(gs) = e \o c
    BY <1>3, <1>4, CodingFirst
  <2> QED
    BY <1>1, <2>1
<1> HIDE DEF e, c
<1>7. (e \o c)[4] = e[4]
  <2>1. 4 \in 1..Len(e)
    BY <1>5
  <2> QED
    BY <1>5, <2>1, JoinIs
<1>8. (Ack \o z)[4] = 13
  BY AckJoined
<1>9. g = HelloAck
  BY <1>5, <1>6, <1>7, <1>8, PlainFramesGood
<1>10. e = Ack
  BY <1>9 DEF e, Ack
<1>11. c = z
  BY <1>5, <1>6, <1>10, JoinCancels
<1> QED
  BY <1>3, <1>11 DEF c

LEMMA AckAtFrame ==
    ASSUME DownlinkAssumption, TextPlain, NEW S \in Seq(Octet), NEW A, NEW fs, Sent(S, A, fs),
           NEW T \in Seq(Octet), NEW z \in Seq(Octet), Answered(S, T, z)
    PROVE  fs # <<>> /\ \E hs \in Seq(PlainFrames) : z = Coding(hs)
<1> DEFINE C == Coding(fs)
           i == Len(T) + 1
           w == Ack \o z
<1>1. /\ A \in Seq(Typed) /\ A \in Seq(Octet) /\ fs \in Seq(PlainFrames) /\ fs \in Seq(FrameSet)
      /\ C \in Seq(Octet) /\ S = A \o C
  <2>1. A \in Seq(Typed) /\ fs \in Seq(PlainFrames) /\ S = A \o C
    BY DEF Sent
  <2>2. A \in Seq(Octet)
    BY <2>1 DEF DownlinkAssumption, Octet
  <2> QED
    BY <2>1, <2>2, PlainFramesAre
<1>2. w \in Seq(Octet) /\ Len(w) >= 12 /\ w[1] = 165 /\ w[2] = 90
  <2>1. /\ Ack \o z \in Seq(Octet) /\ Len(Ack \o z) = 12 + Len(z) /\ Len(z) \in Nat
        /\ (Ack \o z)[1] = 165 /\ (Ack \o z)[2] = 90
    BY AckJoined
  <2> QED
    BY <2>1
<1>3. S = T \o w
  BY DEF Answered
<1>4. fs # <<>> => Len(C) >= 8 /\ C[1] = 165
  BY <1>1, CodingBegins
<1>5. fs = <<>> => Len(C) = 0
  BY CodingEmpty
<1> HIDE DEF C, w
<1>6. /\ Len(S) = Len(T) + Len(w) /\ Len(T) \in Nat /\ Len(w) \in Nat
      /\ \A k \in 1..Len(w) : S[Len(T) + k] = w[k]
  BY <1>2, <1>3, JoinIs
<1>7. /\ Len(S) = Len(A) + Len(C) /\ Len(A) \in Nat /\ Len(C) \in Nat
      /\ \A k \in 1..Len(A) : S[k] = A[k]
      /\ \A k \in 1..Len(C) : S[Len(A) + k] = C[k]
  BY <1>1, JoinIs
<1>8. i \in Nat /\ i >= 1 /\ i + 1 <= Len(S) /\ S[i] = 165 /\ S[i + 1] = 90
  <2>1. 1 \in 1..Len(w) /\ 2 \in 1..Len(w)
    BY <1>2, <1>6
  <2>2. S[Len(T) + 1] = 165 /\ S[Len(T) + 2] = 90 /\ (Len(T) + 1) + 1 = Len(T) + 2
    BY ONLY <1>2, <1>6, <2>1
  <2> QED
    BY <1>2, <1>6, <2>2
<1>9. From(S, i) = w
  <2>1. 1 \in 1..(Len(w) + 1)
    BY <1>6
  <2>2. From(T \o w, Len(T) + 1) = From(w, 1)
    BY <1>2, <2>1, FromBeyond
  <2>3. From(w, 1) = w
    BY <1>2, FromFirst
  <2> QED
    BY <1>3, <2>2, <2>3
<1> HIDE DEF i
<1>10. CASE i + 1 <= Len(A)
  <2>1. i \in 1..Len(A) /\ i + 1 \in 1..Len(A)
    BY <1>7, <1>8, <1>10
  <2>2. A[i] = 165 /\ A[i + 1] = 90 /\ A[i] \in Typed /\ A[i + 1] \in Typed
    BY <1>1, <1>7, <1>8, <2>1
  <2> QED
    BY <2>2, SyncIs DEF TextPlain
<1>11. CASE i = Len(A)
  <2>1. Len(C) >= 1
    BY <1>7, <1>8, <1>11
  <2>2. C[1] = 165 /\ 1 \in 1..Len(C)
    BY <1>4, <1>5, <1>7, <2>1
  <2>3. S[Len(A) + 1] = 165
    BY <1>7, <2>2
  <2> QED
    BY <1>8, <1>11, <2>3
<1>12. CASE i > Len(A)
  <2> DEFINE j == i - Len(A)
  <2>1. j \in Nat /\ j >= 1 /\ i = Len(A) + j /\ j + 1 <= Len(C)
    BY <1>7, <1>8, <1>12
  <2> HIDE DEF j
  <2>2. j \in 1..Len(C) /\ j + 1 \in 1..Len(C) /\ Len(A) + (j + 1) = i + 1
    BY <1>7, <1>8, <2>1
  <2>3. C[j] = 165 /\ C[j + 1] = 90
    <3>1. S[Len(A) + j] = C[j] /\ S[Len(A) + (j + 1)] = C[j + 1]
      BY <1>7, <2>2
    <3> QED
      <4>1. S[i] = C[j]
        BY <2>1, <3>1
      <4>2. S[i + 1] = C[j + 1]
        BY <2>2, <3>1
      <4> QED
        BY <1>8, <4>1, <4>2
  <2>4. j \in Syncs(C)
    BY <1>1, <2>1, <2>3, SyncAt
  <2>5. PICK gs : FramesFrom(C, j, gs)
    BY <1>1, <2>4, SyncsAtFrames DEF C
  <2>6. From(S, i) = From(C, j)
    <3>1. j \in 1..(Len(C) + 1)
      BY <1>7, <2>2
    <3>2. From(A \o C, Len(A) + j) = From(C, j)
      BY <1>1, <3>1, FromBeyond
    <3> QED
      BY <1>1, <2>1, <3>2
  <2>7. gs \in Seq(PlainFrames) /\ Coding(gs) = Ack \o z
    BY <1>9, <2>5, <2>6 DEF FramesFrom, w
  <2>8. \E hs \in Seq(PlainFrames) : z = Coding(hs)
    BY <1>1, <2>7, AckOfFrame DEF AckFirst
  <2>9. fs # <<>>
    BY <1>5, <1>7, <2>2
  <2> QED
    BY <2>8, <2>9
<1> QED
  BY <1>7, <1>8, <1>10, <1>11, <1>12

(* A report is records one behind another, each of which the host accepts. *)
Records == {Coding(fs) : fs \in Seq(Good)}

LEMMA RecordsType ==
    ASSUME NEW a \in Records
    PROVE  a \in Seq(Octet)
<1>1. PICK fs \in Seq(Good) : a = Coding(fs)
  BY DEF Records
<1> QED
  BY <1>1, GoodFrames

LEMMA RecordsJoined ==
    ASSUME NEW a \in Records, NEW b \in Records
    PROVE  a \o b \in Records
<1>1. PICK fs \in Seq(Good) : a = Coding(fs)
  BY DEF Records
<1>2. PICK gs \in Seq(Good) : b = Coding(gs)
  BY DEF Records
<1>3. fs \in Seq(FrameSet) /\ gs \in Seq(FrameSet) /\ fs \o gs \in Seq(Good)
  BY GoodFrames, JoinIs
<1>4. Coding(fs \o gs) = a \o b
  BY <1>1, <1>2, <1>3, CodingJoin
<1> QED
  BY <1>3, <1>4 DEF Records

LEMMA NoRecord == <<>> \in Records
<1>1. <<>> \in Seq(Good)
  OBVIOUS
<1> QED
  BY <1>1, CodingEmpty DEF Records

LEMMA RecordIsGood ==
    ASSUME DownlinkAssumption, NEW body \in Seq(Octet), Len(body) <= 4
    PROVE  ResourceRecord(body) \in Records
<1> DEFINE t == 8
           f == [type |-> t, channel |-> 0, payload |-> body]
<1>1. t \in Octet /\ t \in KnownTypes
  BY DEF Octet, KnownTypes
<1>2. HostMaxPayload \in Nat /\ HostMaxPayload >= 4 /\ Len(body) \in Nat
  BY HostDecoderAssumption DEF DownlinkAssumption
<1>3. ResourceRecord(body) = Encode(f)
  BY DEF ResourceRecord
<1> HIDE DEF t
<1>4. f \in FrameSet
  BY <1>1, SmallFrameIs
<1>5. f.type = t /\ Len(f.payload) <= HostMaxPayload
  BY <1>2
<1> HIDE DEF f
<1>6. f \in Good
  BY <1>1, <1>4, <1>5 DEF Good
<1>7. Coding(<<f>>) = Encode(f) /\ <<f>> \in Seq(Good)
  BY <1>4, <1>6, CodingOne
<1> QED
  BY <1>3, <1>7 DEF Records

LEMMA FlattenRecords ==
    ASSUME NEW n \in Nat, n >= 1, NEW seqs, Len(seqs) = n, \A i \in 1..n : seqs[i] \in Records
    PROVE  FlattenSeq(seqs) \in Records
<1>1. PICK f : Flat(f, seqs, n) /\ FlattenSeq(seqs) = f[n]
  BY FlattenIs
<1> DEFINE S == {i \in Nat : i \in 1..n => f[i] \in Records}
<1>2. 0 \in S
  OBVIOUS
<1>3. ASSUME NEW i \in S PROVE i + 1 \in S
  <2> SUFFICES ASSUME i + 1 \in 1..n PROVE f[i + 1] \in Records
      OBVIOUS
  <2>1. f[i + 1] = IF i + 1 = 1 THEN seqs[i + 1] ELSE f[(i + 1) - 1] \o seqs[i + 1]
    BY <1>1 DEF Flat
  <2>2. CASE i = 0
    BY <2>1, <2>2
  <2>3. CASE i # 0
    <3>1. i \in Nat /\ i \in 1..n /\ i + 1 # 1 /\ (i + 1) - 1 = i
      BY <2>3
    <3>2. f[i] \in Records /\ seqs[i + 1] \in Records
      BY <3>1
    <3>3. f[i] \o seqs[i + 1] \in Records
      BY <3>2, RecordsJoined
    <3> QED
      BY <2>1, <3>1, <3>3
  <2> QED
    BY <2>2, <2>3
<1>4. S \subseteq Nat
  OBVIOUS
<1> HIDE DEF S
<1>5. S = Nat
  BY <1>2, <1>3, <1>4, SetInduction
<1>6. n \in 1..n
  OBVIOUS
<1> QED
  BY <1>1, <1>5, <1>6 DEF S

LEMMA ProcessIsGood ==
    ASSUME DownlinkAssumption, NEW generation \in Octet, NEW endpoint \in Octet
    PROVE  ProcessRecords(generation, endpoint) \in Records
<1> DEFINE kinds == <<PROCESS, PROCESS_IO, PREEMPTION>>
           body(i) == <<kinds[i], generation, endpoint, generation>>
           record(i) == ResourceRecord(body(i))
           records == [i \in 1..3 |-> record(i)]
           three == 3
<1>1. \A i \in 1..three : kinds[i] \in Octet
  BY DEF Octet, PROCESS, PROCESS_IO, PREEMPTION
<1> HIDE DEF kinds
<1>2. ASSUME NEW i \in 1..three PROVE record(i) \in Records
  <2>1. body(i) \in Seq(Octet) /\ Len(body(i)) <= 4
    BY <1>1, TupleGrows4
  <2> HIDE DEF body
  <2> QED
    BY <2>1, RecordIsGood
<1> HIDE DEF record
<1>3. Len(records) = three /\ three \in Nat /\ three >= 1 /\ \A i \in 1..three : records[i] \in Records
  BY <1>2
<1> HIDE DEF records, three
<1>4. FlattenSeq(records) \in Records
  BY <1>3, FlattenRecords
<1> QED
  BY <1>4, Zenon DEF ProcessRecords, records, record, body, kinds, three

LEMMA ReportIsGood ==
    ASSUME DownlinkAssumption, NEW generation \in Octet, NEW live \in SUBSET Endpoints, 1 \in live
    PROVE  Report(generation, live) \in Records
<1> DEFINE most == Max(live)
           each == [endpoint \in 1..most |->
                      IF endpoint \in live THEN ProcessRecords(generation, endpoint) ELSE <<>>]
           heads == Cardinality(live)
<1>1. live \subseteq 1..16
  BY LiveIs
<1>2. most \in Nat /\ most >= 1
  BY LiveIs
<1>3. heads \in Octet
  BY LiveIs
<1>4. ASSUME NEW endpoint \in 1..most PROVE each[endpoint] \in Records
  <2>1. CASE endpoint \in live
    <3>1. endpoint \in Octet
      BY <1>1, <2>1 DEF Octet
    <3> QED
      BY <2>1, <3>1, ProcessIsGood
  <2>2. CASE endpoint \notin live
    BY <2>2, NoRecord
  <2> QED
    BY <2>1, <2>2
<1>5. Len(each) = most
  BY <1>2
<1> HIDE DEF each, most, heads
<1>6. FlattenSeq(each) \in Records
  BY <1>2, <1>4, <1>5, FlattenRecords
<1> DEFINE b1 == <<BEGIN, generation>>
           b2 == <<MEMORY, generation, heads>>
           b3 == <<END, generation, generation>>
<1>7. b1 \in Seq(Octet) /\ b2 \in Seq(Octet) /\ b3 \in Seq(Octet)
      /\ Len(b1) <= 4 /\ Len(b2) <= 4 /\ Len(b3) <= 4
  <2> BEGIN \in Octet /\ MEMORY \in Octet /\ END \in Octet
    BY DEF BEGIN, MEMORY, END, Octet
  <2> QED
    BY <1>3, TupleGrows2, TupleGrows3
<1> HIDE DEF b1, b2, b3
<1>8. ResourceRecord(b1) \in Records /\ ResourceRecord(b2) \in Records /\ ResourceRecord(b3) \in Records
  BY <1>7, RecordIsGood
<1>9. Report(generation, live) = ResourceRecord(b1) \o ResourceRecord(b2) \o FlattenSeq(each) \o ResourceRecord(b3)
  BY DEF Report, b1, b2, b3, each, most, heads
<1>10. ResourceRecord(b1) \o ResourceRecord(b2) \in Records
  BY <1>8, RecordsJoined
<1>11. ResourceRecord(b1) \o ResourceRecord(b2) \o FlattenSeq(each) \in Records
  BY <1>6, <1>10, RecordsJoined
<1> QED
  BY <1>8, <1>9, <1>11, RecordsJoined

(* The inductive invariant of the flow: as long as nothing has been lost, the
   host's text, frames and remainders and the bytes under way are what the
   target has sent; in plain text that is text and behind it frames, and a
   framed host is in the middle of frames. *)
PlainFlow ==
    /\ out = (text \o host.pending) \o air
    /\ \E A, fs : Sent(out, A, fs) /\ (~target.framed => fs = <<>>)
FramedFlow ==
    /\ target.framed
    /\ out = ((text \o Coding(received)) \o host.buffer) \o air
    /\ host.buffer \o air \in Records
Flow == count.lost = 0 => IF host.mode = "plain" THEN PlainFlow ELSE FramedFlow
Asked == host.mode = "plain" => up \in Seq({"hello"})

LEMMA MoreSent ==
    ASSUME NEW S, NEW A, NEW fs, Sent(S, A, fs), DownlinkAssumption, NEW gs \in Seq(PlainFrames)
    PROVE  Sent(S \o Coding(gs), A, fs \o gs)
<1>1. A \in Seq(Typed) /\ fs \in Seq(PlainFrames) /\ S = A \o Coding(fs)
  BY DEF Sent
<1>2. A \in Seq(Octet)
  <2>1. A \in Seq(Typed)
    BY <1>1
  <2>2. Typed \subseteq Octet
    BY DEF DownlinkAssumption, Octet
  <2> QED
    BY ONLY <2>1, <2>2
<1>3. /\ fs \in Seq(FrameSet) /\ Coding(fs) \in Seq(Octet)
      /\ gs \in Seq(FrameSet) /\ Coding(gs) \in Seq(Octet)
  BY <1>1, PlainFramesAre
<1>4. Associated(A, Coding(fs), Coding(gs))
  BY <1>2, <1>3, Associates
<1>5. Coding(fs \o gs) = Coding(fs) \o Coding(gs)
  BY <1>3, CodingJoin
<1>6. fs \o gs \in Seq(PlainFrames)
  BY <1>1, JoinIs
<1> QED
  BY <1>1, <1>4, <1>5, <1>6 DEF Sent, Associated

LEMMA MoreTyped ==
    ASSUME NEW S, NEW A, Sent(S, A, <<>>), DownlinkAssumption, NEW b \in Typed
    PROVE  Sent(S \o <<b>>, A \o <<b>>, <<>>)
<1> DEFINE B == <<b>>
<1>1. B \in Seq(Typed) /\ <<>> \in Seq(PlainFrames)
  OBVIOUS
<1>2. A \in Seq(Typed) /\ S = A \o Coding(<<>>)
  BY DEF Sent
<1> HIDE DEF B
<1>3. A \o B \in Seq(Typed)
  BY <1>1, <1>2, JoinIs
<1>4. S = A
  <2>1. A \o <<>> = A
    BY <1>2, ConcatEmpty
  <2> QED
    BY <1>2, <2>1, CodingEmpty
<1>5. (A \o B) \o Coding(<<>>) = A \o B
  <2>1. (A \o B) \o <<>> = A \o B
    BY <1>3, ConcatEmpty
  <2> QED
    BY <2>1, CodingEmpty
<1>6. Sent(S \o B, A \o B, <<>>)
  BY <1>1, <1>3, <1>4, <1>5 DEF Sent
<1> QED
  BY <1>6 DEF B

LEMMA FlowType ==
    ASSUME DownlinkTyped
    PROVE  /\ text \in Seq(Octet) /\ host.pending \in Seq(Octet) /\ host.buffer \in Seq(Octet)
           /\ air \in Seq(Octet) /\ Coding(received) \in Seq(Octet)
           /\ text \o host.pending \in Seq(Octet)
           /\ text \o Coding(received) \in Seq(Octet)
           /\ (text \o Coding(received)) \o host.buffer \in Seq(Octet)
<1>1. /\ text \in Seq(Octet) /\ host.pending \in Seq(Octet) /\ host.buffer \in Seq(Octet)
      /\ air \in Seq(Octet) /\ received \in Seq(FrameSet)
  BY DEF DownlinkTyped, Hosts
<1>2. Coding(received) \in Seq(Octet)
  BY <1>1, CodingType
<1>3. text \o host.pending \in Seq(Octet) /\ text \o Coding(received) \in Seq(Octet)
  BY <1>1, <1>2, JoinIs
<1>4. (text \o Coding(received)) \o host.buffer \in Seq(Octet)
  BY <1>1, <1>3, JoinIs
<1> QED
  BY <1>1, <1>2, <1>3, <1>4

(* What the target sends is added at both ends. *)
HostKept == UNCHANGED <<host, text, received>> /\ count'.lost = count.lost

LEMMA FlowFrames ==
    ASSUME DownlinkAssumption, DownlinkTyped, Flow, HostKept, target'.framed, NEW gs \in Seq(Good),
           host.mode = "plain" => gs \in Seq(PlainFrames), Emit(Coding(gs))
    PROVE  Flow'
<1> DEFINE x == Coding(gs)
<1>1. x \in Seq(Octet) /\ air' = air \o x /\ out' = out \o x /\ x \in Records
  BY GoodFrames DEF Emit, Records
<1>2. host' = host /\ text' = text /\ received' = received /\ count'.lost = count.lost
  BY DEF HostKept
<1> SUFFICES ASSUME count.lost = 0
             PROVE  IF host.mode = "plain" THEN PlainFlow' ELSE FramedFlow'
    BY <1>2 DEF Flow
<1> HIDE DEF x
<1>3. CASE host.mode = "plain"
  <2>1. PlainFlow /\ gs \in Seq(PlainFrames)
    BY <1>3 DEF Flow
  <2>2. PICK A, fs : Sent(out, A, fs)
    BY <2>1 DEF PlainFlow
  <2>3. Sent(out', A, fs \o gs)
    BY <1>1, <2>1, <2>2, MoreSent DEF x
  <2>4. out' = (text' \o host'.pending) \o air'
    <3>1. Associated(text \o host.pending, air, x)
      BY <1>1, FlowType, Associates
    <3>2. out = (text \o host.pending) \o air
      BY <2>1 DEF PlainFlow
    <3> QED
      BY <1>1, <1>2, <3>1, <3>2 DEF Associated
  <2> QED
    BY <1>3, <2>3, <2>4 DEF PlainFlow
<1>4. CASE host.mode # "plain"
  <2>1. FramedFlow
    BY <1>4 DEF Flow
  <2>2. out' = ((text' \o Coding(received')) \o host'.buffer) \o air'
    <3>1. Associated((text \o Coding(received)) \o host.buffer, air, x)
      BY <1>1, FlowType, Associates
    <3>2. out = ((text \o Coding(received)) \o host.buffer) \o air
      BY <2>1 DEF FramedFlow
    <3> QED
      BY <1>1, <1>2, <3>1, <3>2 DEF Associated
  <2>3. host'.buffer \o air' \in Records
    <3>1. Associated(host.buffer, air, x)
      BY <1>1, FlowType, Associates
    <3>2. (host.buffer \o air) \o x \in Records
      BY <1>1, <2>1, RecordsJoined DEF FramedFlow
    <3> QED
      BY <1>1, <1>2, <3>1, <3>2 DEF Associated
  <2> QED
    BY <1>4, <2>2, <2>3 DEF FramedFlow
<1> QED
  BY <1>3, <1>4

LEMMA FlowText ==
    ASSUME DownlinkAssumption, DownlinkTyped, Flow, HostKept, UNCHANGED target, ~target.framed,
           NEW b \in Typed, Emit(<<b>>)
    PROVE  Flow'
<1> DEFINE x == <<b>>
<1>1. x \in Seq(Octet) /\ air' = air \o x /\ out' = out \o x
  BY DEF Emit, DownlinkAssumption, Octet
<1>2. host' = host /\ text' = text /\ received' = received /\ count'.lost = count.lost
  BY DEF HostKept
<1> HIDE DEF x
<1> SUFFICES ASSUME count.lost = 0
             PROVE  IF host.mode = "plain" THEN PlainFlow' ELSE FramedFlow'
    BY <1>2 DEF Flow
<1>3. host.mode = "plain" /\ PlainFlow
  BY DEF Flow, FramedFlow
<1>4. PICK A : Sent(out, A, <<>>)
  BY <1>3 DEF PlainFlow
<1>5. Sent(out', A \o x, <<>>)
  BY <1>1, <1>4, MoreTyped DEF x
<1>6. out' = (text' \o host'.pending) \o air'
  <2>1. Associated(text \o host.pending, air, x)
    BY <1>1, FlowType, Associates
  <2>2. out = (text \o host.pending) \o air
    BY <1>3 DEF PlainFlow
  <2> QED
    BY <1>1, <1>2, <2>1, <2>2 DEF Associated
<1> QED
  BY <1>3, <1>5, <1>6 DEF PlainFlow

(* What a read moves from under way to the text, the frames and what is kept. *)
Moved(P, x, K, R) == P \o x = K \o R
MovedOn(T, P, x, y, K, R) == (T \o P) \o (x \o y) = (T \o K) \o (R \o y)
LEMMA TextMoves ==
    ASSUME NEW T \in Seq(Octet), NEW P \in Seq(Octet), NEW x \in Seq(Octet), NEW y \in Seq(Octet),
           NEW K \in Seq(Octet), NEW R \in Seq(Octet), Moved(P, x, K, R)
    PROVE  MovedOn(T, P, x, y, K, R)
<1>1. Associated(T, P, x \o y) /\ Associated(P, x, y) /\ Associated(K, R, y) /\ Associated(T, K, R \o y)
  BY JoinIs, Associates
<1>2. (T \o P) \o (x \o y) = T \o (P \o (x \o y))
  BY <1>1 DEF Associated
<1>3. P \o (x \o y) = K \o (R \o y)
  BY <1>1 DEF Associated, Moved
<1>4. T \o (K \o (R \o y)) = (T \o K) \o (R \o y)
  BY <1>1 DEF Associated
<1> QED
  BY <1>2, <1>3, <1>4 DEF MovedOn

LEMMA FramesMove ==
    ASSUME NEW X \in Seq(Octet), NEW c \in Seq(Octet), NEW D \in Seq(Octet), NEW y \in Seq(Octet)
    PROVE  X \o (c \o (D \o y)) = ((X \o c) \o D) \o y
<1>1. Associated(X, c, D \o y) /\ Associated(X \o c, D, y)
  BY JoinIs, Associates
<1> QED
  BY <1>1 DEF Associated

Parts(B, y, fs) == B \o y = Coding(fs)
Divided(d, y, fs, F, G) == fs = F \o G /\ d.frames = F /\ d.buffer \o y = Coding(G)
LEMMA StartedSplits ==
    ASSUME NEW B \in Seq(Octet), NEW y \in Seq(Octet), NEW fs \in Seq(Good), Parts(B, y, fs)
    PROVE  \E F \in Seq(Good), G \in Seq(Good) : Divided(Scan(Started(B)), y, fs, F, G)
<1> DEFINE d == Started(B)
<1>1. d \in Loop /\ d.buffer = B /\ ~d.waiting /\ d.frames = <<>>
  BY StartedType
<1> HIDE DEF d
<1>2. Splits(d)
  BY <1>1, ScanSplits
<1>3. PICK F, G : Split(d, y, fs, F, G)
  BY <1>1, <1>2 DEF Splits, Parts
<1>4. /\ F \in Seq(Good) /\ G \in Seq(Good) /\ fs = F \o G
      /\ Scan(d).frames = d.frames \o F /\ Scan(d).buffer \o y = Coding(G)
  BY <1>3 DEF Split
<1>5. d.frames \o F = F
  BY <1>1, <1>4, ConcatEmpty
<1>6. Divided(Scan(d), y, fs, F, G)
  BY <1>4, <1>5 DEF Divided
<1> QED
  BY <1>4, <1>6 DEF d

(* A read in the middle of frames, and the one that ends plain text. *)
LEMMA FramesRead ==
    ASSUME NEW M \in Seq(Octet), NEW B \in Seq(Octet), NEW y \in Seq(Octet), B \o y \in Records
    PROVE  LET d == Scan(Started(B)) IN
           /\ d.frames \in Seq(FrameSet) /\ d.buffer \in Seq(Octet)
           /\ M \o (B \o y) = ((M \o Coding(d.frames)) \o d.buffer) \o y
           /\ d.buffer \o y \in Records
<1> DEFINE d == Scan(Started(B))
<1>1. PICK fs \in Seq(Good) : Parts(B, y, fs)
  BY DEF Records, Parts
<1>2. d \in Loop
  BY StartedType, ScanTurns
<1>3. PICK F \in Seq(Good), G \in Seq(Good) : Divided(d, y, fs, F, G)
  BY <1>1, StartedSplits
<1> HIDE DEF d
<1> DEFINE D == d.buffer
<1>4. D \in Seq(Octet)
  BY <1>2 DEF Loop
<1>5. F \in Seq(FrameSet) /\ G \in Seq(FrameSet) /\ Coding(F) \in Seq(Octet)
  BY GoodFrames
<1>6. D \o y = Coding(G) /\ fs = F \o G /\ d.frames = F
  BY <1>3 DEF Divided
<1>7. Coding(fs) = Coding(F) \o Coding(G)
  BY <1>5, <1>6, CodingJoin
<1>8. B \o y = Coding(F) \o (D \o y)
  BY <1>1, <1>6, <1>7, Zenon DEF Parts
<1> HIDE DEF D
<1>9. M \o (Coding(F) \o (D \o y)) = ((M \o Coding(F)) \o D) \o y
  <2> DEFINE c == Coding(F)
  <2>1. c \in Seq(Octet)
    BY <1>5
  <2> HIDE DEF c
  <2>2. M \o (c \o (D \o y)) = ((M \o c) \o D) \o y
    <3>1. Associated(M, c, D \o y) /\ Associated(M \o c, D, y)
      BY <1>4, <2>1, JoinIs, Associates
    <3> QED
      BY <3>1 DEF Associated
  <2> QED
    BY <2>2, Zenon DEF c
<1>10. M \o (B \o y) = ((M \o Coding(F)) \o D) \o y
  BY <1>8, <1>9, Zenon
<1>11. D \o y \in Records
  BY <1>6, Zenon DEF Records
<1> QED
  BY <1>4, <1>5, <1>6, <1>10, <1>11, Zenon DEF d, D

(* What a read in each of its three ways leaves of the flow. *)
Arrived(x, y) == air = x \o y /\ air' = y
PushGives(x, g, t, f, e) == Push(host, x) = Made(g, t, f, e)

LEMMA ReadMakes ==
    ASSUME NEW x, Read(x), NEW g, NEW t, NEW f, NEW e, PushGives(x, g, t, f, e)
    PROVE  host' = g /\ text' = text \o t /\ received' = received \o f
BY DEF Read, PushGives, Made

LEMMA ReadText ==
    ASSUME DownlinkTyped, PlainFlow, host.mode = "plain", NEW x \in Seq(Octet), NEW y \in Seq(Octet),
           Arrived(x, y), Read(x), UNCHANGED <<target, out>>, Acks(host.pending \o x) = {}
    PROVE  host'.mode = "plain" /\ PlainFlow'
<1> DEFINE T == text
           P == host.pending
<1>1. host \in Hosts /\ T \in Seq(Octet) /\ P \in Seq(Octet)
  BY DEF DownlinkTyped, Hosts
<1>2. PICK K \in Seq(Octet), R \in Seq(Octet) :
         P \o x = K \o R /\ PushGives(x, Pending(host, R), K, <<>>, 0)
  BY <1>1, KeepsIs DEF PushGives
<1>3. host' = Pending(host, R) /\ text' = T \o K
  BY <1>2, ReadMakes
<1>4. host'.mode = "plain" /\ host'.pending = R
  BY <1>1, <1>3, PendingInHosts
<1>5. out = (T \o P) \o (x \o y)
  BY DEF PlainFlow, Arrived
<1> HIDE DEF T, P
<1>6. (T \o P) \o (x \o y) = (T \o K) \o (R \o y)
  <2>1. Moved(P, x, K, R)
    BY <1>2 DEF Moved
  <2>2. MovedOn(T, P, x, y, K, R)
    BY <1>1, <2>1, TextMoves
  <2> QED
    BY <2>2 DEF MovedOn
<1>7. Associated(T \o K, R, y)
  BY <1>1, JoinIs, Associates
<1>8. out = ((T \o K) \o R) \o y
  BY <1>5, <1>6, <1>7 DEF Associated
<1>9. out' = (text' \o host'.pending) \o air'
  BY <1>3, <1>4, <1>8 DEF Arrived
<1>10. \E A, fs : Sent(out', A, fs) /\ (~target'.framed => fs = <<>>)
  BY DEF PlainFlow
<1> QED
  BY <1>4, <1>9, <1>10 DEF PlainFlow

AnsweredAt(T, P, x, y, K, z) ==
    /\ Answered((T \o P) \o (x \o y), T \o K, z \o y)
    /\ (T \o P) \o (x \o y) = ((T \o K) \o Ack) \o (z \o y)
LEMMA AnswerIs ==
    ASSUME NEW T \in Seq(Octet), NEW P \in Seq(Octet), NEW x \in Seq(Octet), NEW y \in Seq(Octet),
           NEW K \in Seq(Octet), NEW z \in Seq(Octet), Moved(P, x, K, Ack \o z)
    PROVE  AnsweredAt(T, P, x, y, K, z)
<1> DEFINE R == Ack \o z
           U == T \o K
<1>1. Ack \in Seq(Octet) /\ R \in Seq(Octet) /\ U \in Seq(Octet) /\ z \o y \in Seq(Octet)
  BY AckBytes, JoinIs
<1>2. Associated(Ack, z, y) /\ Associated(U, Ack, z \o y)
  BY <1>1, Associates
<1>3. Moved(P, x, K, R)
  OBVIOUS
<1> HIDE DEF R
<1>4. (T \o P) \o (x \o y) = U \o (R \o y)
  <2>1. MovedOn(T, P, x, y, K, R)
    BY <1>1, <1>3, TextMoves
  <2> QED
    BY <2>1 DEF MovedOn
<1>5. R \o y = Ack \o (z \o y)
  BY <1>2 DEF Associated, R
<1> HIDE DEF U
<1>6. (T \o P) \o (x \o y) = U \o (Ack \o (z \o y))
  BY <1>4, <1>5
<1>7. U \o (Ack \o (z \o y)) = (U \o Ack) \o (z \o y)
  BY <1>2 DEF Associated
<1> QED
  BY <1>6, <1>7 DEF Answered, AnsweredAt, U

(* The frames a scan makes out, as FramesRead says of them. *)
Framing(M, B, y, d) ==
    /\ d.frames \in Seq(FrameSet) /\ d.buffer \in Seq(Octet)
    /\ M \o (B \o y) = ((M \o Coding(d.frames)) \o d.buffer) \o y
    /\ d.buffer \o y \in Records
LEMMA FramingIs ==
    ASSUME NEW M \in Seq(Octet), NEW B \in Seq(Octet), NEW y \in Seq(Octet), B \o y \in Records
    PROVE  Framing(M, B, y, Scan(Started(B)))
BY FramesRead DEF Framing

LEMMA BufferedFramed ==
    ASSUME NEW h \in Hosts, NEW b
    PROVE  Buffered(Framed(h), b).mode = "framed" /\ Buffered(Framed(h), b).buffer = b
<1>1. \A a : \A g \in Hosts : Buffered(g, a).buffer = a /\ Buffered(g, a).mode = g.mode
  BY BufferedTwice, Zenon
<1>2. Framed(h) \in Hosts /\ Framed(h).mode = "framed"
  BY FramedInHosts
<1> QED
  BY <1>1, <1>2, Zenon

LEMMA ReadAnswer ==
    ASSUME DownlinkAssumption, TextPlain, DownlinkTyped, PlainFlow, host.mode = "plain",
           received = <<>>, host.buffer = <<>>, NEW x \in Seq(Octet), NEW y \in Seq(Octet),
           Arrived(x, y), Read(x), UNCHANGED <<target, out>>, Acks(host.pending \o x) # {}
    PROVE  host'.mode = "framed" /\ FramedFlow'
<1> DEFINE T == text
           P == host.pending
<1>1. host \in Hosts /\ T \in Seq(Octet) /\ P \in Seq(Octet)
  BY DEF DownlinkTyped, Hosts
<1>2. PICK K \in Seq(Octet), z \in Seq(Octet) :
         /\ Moved(P, x, K, Ack \o z)
         /\ LET d == Scan(Started(host.buffer \o z)) IN
            PushGives(x, Buffered(Framed(host), d.buffer), K, <<HelloAck>> \o d.frames, d.errors)
  BY <1>1, FindsIs DEF PushGives, Moved
<1> DEFINE d == Scan(Started(z))
           F == d.frames
           D == d.buffer
           U == T \o K
<1>3. PushGives(x, Buffered(Framed(host), D), K, <<HelloAck>> \o F, d.errors)
  <2>1. host.buffer \o z = z
    OBVIOUS
  <2> QED
    BY <1>2, <2>1
<1>4. host' = Buffered(Framed(host), D) /\ text' = U /\ received' = <<>> \o (<<HelloAck>> \o F)
  BY <1>3, ReadMakes
<1>5. host'.mode = "framed" /\ host'.buffer = D
  BY <1>1, <1>4, BufferedFramed
<1>6. PICK A, fs : Sent(out, A, fs) /\ (~target.framed => fs = <<>>)
  BY DEF PlainFlow
<1>7. out = (T \o P) \o (x \o y) /\ air' = y
  BY DEF PlainFlow, Arrived
<1> HIDE DEF T, P, d
<1>8. U \in Seq(Octet) /\ z \o y \in Seq(Octet) /\ Ack \in Seq(Octet) /\ U \o Ack \in Seq(Octet)
  BY <1>1, AckBytes, JoinIs
<1>9. Answered(out, U, z \o y) /\ out = (U \o Ack) \o (z \o y)
  <2>1. Answered((T \o P) \o (x \o y), U, z \o y) /\ (T \o P) \o (x \o y) = (U \o Ack) \o (z \o y)
    <3>1. Moved(P, x, K, Ack \o z)
      BY <1>2
    <3>2. AnsweredAt(T, P, x, y, K, z)
      BY <1>1, <3>1, AnswerIs
    <3> QED
      BY <3>2 DEF AnsweredAt, U
  <2> QED
    BY <1>7, <2>1
<1> HIDE DEF U
<1>10. fs # <<>> /\ z \o y \in Records
  <2>1. out \in Seq(Octet)
    BY <1>8, <1>9, JoinIs
  <2>2. PICK hs \in Seq(PlainFrames) : fs # <<>> /\ z \o y = Coding(hs)
    BY <1>6, <1>8, <1>9, <2>1, AckAtFrame
  <2>3. hs \in Seq(Good)
    BY PlainFramesAre
  <2> QED
    BY <2>2, <2>3, Zenon DEF Records
<1>11. Framing(U \o Ack, z, y, d)
  BY <1>8, <1>10, FramingIs DEF d
<1>12. F \in Seq(FrameSet) /\ D \in Seq(Octet) /\ D \o y \in Records
       /\ (U \o Ack) \o (z \o y) = (((U \o Ack) \o Coding(F)) \o D) \o y
  BY <1>11, Zenon DEF Framing
<1> HIDE DEF F, D
<1>13. Coding(received') = Ack \o Coding(F)
  <2> DEFINE G == <<HelloAck>> \o F
  <2>1. G \in Seq(FrameSet)
    BY <1>12, AckFrameIs, CodingOne, JoinIs
  <2> HIDE DEF G
  <2>2. received' = G
    BY <1>4, <2>1 DEF G
  <2>3. Coding(G) = Ack \o Coding(F)
    BY <1>12, AckFrameIs, CodingFirst DEF G, Ack
  <2> QED
    BY <2>2, <2>3
<1>14. (U \o Ack) \o Coding(F) = U \o Coding(received')
  <2>1. Associated(U, Ack, Coding(F))
    BY <1>8, <1>12, CodingType, Associates
  <2> QED
    BY <1>13, <2>1 DEF Associated
<1>15. out' = ((text' \o Coding(received')) \o host'.buffer) \o air'
  BY <1>4, <1>5, <1>7, <1>9, <1>12, <1>14, Zenon
<1>16. host'.buffer \o air' \in Records
  BY <1>5, <1>7, <1>12, Zenon
<1>17. target'.framed
  BY <1>6, <1>10 DEF DownlinkTyped
<1> QED
  BY <1>5, <1>15, <1>16, <1>17 DEF FramedFlow

LEMMA ReadFrames ==
    ASSUME DownlinkTyped, FramedFlow, host.mode = "framed", NEW x \in Seq(Octet), NEW y \in Seq(Octet),
           Arrived(x, y), Read(x), UNCHANGED <<target, out>>
    PROVE  host'.mode = "framed" /\ FramedFlow'
<1> DEFINE B == host.buffer
           d == Scan(Started(B \o x))
           F == d.frames
           D == d.buffer
           C == Coding(received)
           M == text \o C
<1>1. /\ host \in Hosts /\ B \in Seq(Octet) /\ text \in Seq(Octet) /\ C \in Seq(Octet)
      /\ M \in Seq(Octet) /\ received \in Seq(FrameSet)
  BY FlowType DEF DownlinkTyped
<1>2. PushGives(x, Buffered(host, D), <<>>, F, d.errors)
  BY FramedIs DEF PushGives, Push
<1>3. host' = Buffered(host, D) /\ text' = text \o <<>> /\ received' = received \o F
  BY <1>2, ReadMakes
<1>4. host'.mode = "framed" /\ host'.buffer = D /\ text' = text
  BY <1>1, <1>3, BufferedTwice, ConcatEmpty
<1>5. out = (M \o B) \o (x \o y) /\ air' = y /\ B \o (x \o y) \in Records /\ target'.framed
  BY DEF FramedFlow, Arrived
<1> HIDE DEF M, B, d
<1>6. Associated(B, x, y) /\ Associated(M, B, x \o y) /\ B \o x \in Seq(Octet)
  BY <1>1, JoinIs, Associates
<1>7. (B \o x) \o y \in Records /\ out = M \o ((B \o x) \o y)
  BY <1>5, <1>6 DEF Associated
<1>8. Framing(M, B \o x, y, d)
  BY <1>1, <1>6, <1>7, FramingIs DEF d
<1>9. F \in Seq(FrameSet) /\ D \in Seq(Octet) /\ D \o y \in Records
      /\ M \o ((B \o x) \o y) = ((M \o Coding(F)) \o D) \o y
  BY <1>8, Zenon DEF Framing
<1> HIDE DEF F, D
<1>10. M \o Coding(F) = text \o Coding(received')
  <2>1. Coding(received') = C \o Coding(F)
    BY <1>1, <1>3, <1>9, CodingJoin
  <2>2. Associated(text, C, Coding(F))
    BY <1>1, <1>9, CodingType, Associates
  <2> QED
    BY <2>1, <2>2 DEF Associated, M
<1>11. out' = ((text' \o Coding(received')) \o host'.buffer) \o air'
  BY <1>4, <1>5, <1>7, <1>9, <1>10, Zenon
<1>12. host'.buffer \o air' \in Records
  BY <1>4, <1>5, <1>9, Zenon
<1> QED
  BY <1>4, <1>5, <1>11, <1>12 DEF FramedFlow

LEMMA FlowRead ==
    ASSUME DownlinkAssumption, TextPlain, DownlinkTyped, Sought, Flow,
           NEW x \in Seq(Octet), NEW y \in Seq(Octet), Arrived(x, y), Read(x),
           UNCHANGED <<target, out>>, count'.lost = count.lost
    PROVE  Flow'
<1> SUFFICES ASSUME count.lost = 0
             PROVE  IF host'.mode = "plain" THEN PlainFlow' ELSE FramedFlow'
    BY DEF Flow
<1>1. host.mode \in {"plain", "framed"} /\ "plain" # "framed"
  BY DEF DownlinkTyped, Hosts
<1>2. CASE host.mode = "plain"
  <2>1. PlainFlow /\ received = <<>> /\ host.buffer = <<>>
    BY <1>2 DEF Flow, Sought
  <2>2. CASE Acks(host.pending \o x) = {}
    BY <1>2, <2>1, <2>2, ReadText
  <2>3. CASE Acks(host.pending \o x) # {}
    BY <1>1, <1>2, <2>1, <2>3, ReadAnswer
  <2> QED
    BY <2>2, <2>3
<1>3. CASE host.mode = "framed"
  BY <1>1, <1>3, ReadFrames DEF Flow
<1> QED
  BY <1>1, <1>2, <1>3

LEMMA FlowSame ==
    ASSUME Flow, HostKept, UNCHANGED <<target, air, out>>
    PROVE  Flow'
BY DEF Flow, HostKept, PlainFlow, FramedFlow

(* What is lost is counted. *)
LEMMA LostIs ==
    ASSUME NEW c \in Counts, NEW n \in Nat
    PROVE  /\ c.lost \in Nat /\ Unit(c).lost = c.lost /\ Fault(c).lost = c.lost
           /\ Losses(c, n).lost = c.lost + n /\ Reconnected(c, n).lost = c.lost + n
BY DEF Counts, Unit, Fault, Losses, Reconnected

LEMMA FlowOutput ==
    ASSUME DownlinkAssumption, DownlinkTyped, Flow, NEW b \in Typed, PutByte(b)
    PROVE  Flow'
<1>1. count \in Counts
  BY DEF DownlinkTyped
<1>2. count' = Unit(count) /\ UNCHANGED <<host, text, received, target>> /\ Emit(Output(b))
  BY Zenon DEF PutByte, Unit, HostIdle, hostVars
<1>3. HostKept
  BY <1>1, <1>2, LostIs DEF HostKept
<1>4. CASE target.framed
  <2> DEFINE gs == <<OutputFrame(b)>>
  <2>1. OutputFrame(b) \in PlainFrames /\ OutputFrame(b) \in Good /\ OutputFrame(b) \in FrameSet
    BY PlainFramesGood DEF PlainFrames, Good
  <2>2. Output(b) = Coding(gs)
    BY <1>4, <2>1, CodingOne DEF Output, OutputFrame
  <2>3. gs \in Seq(PlainFrames) /\ gs \in Seq(Good)
    BY <2>1
  <2> HIDE DEF gs
  <2> QED
    BY <1>2, <1>3, <1>4, <2>2, <2>3, FlowFrames
<1>5. CASE ~target.framed
  <2>1. Output(b) = <<b>>
    BY <1>5 DEF Output
  <2> QED
    BY <1>2, <1>3, <1>5, <2>1, FlowText
<1> QED
  BY <1>4, <1>5

LEMMA FlowAnswer ==
    ASSUME DownlinkAssumption, DownlinkTyped, Flow, AnswerHello
    PROVE  Flow'
<1> DEFINE gs == <<HelloAck>>
<1>1. HelloAck \in PlainFrames /\ HelloAck \in Good /\ HelloAck \in FrameSet
  BY PlainFramesGood DEF PlainFrames, Good
<1>2. Ack = Coding(gs) /\ gs \in Seq(PlainFrames) /\ gs \in Seq(Good)
  BY <1>1, CodingOne DEF Ack
<1> HIDE DEF gs
<1>3. HostKept /\ Emit(Ack) /\ target'.framed
  BY DEF AnswerHello, HostIdle, hostVars, HostKept, DownlinkTyped
<1>4. Emit(Coding(gs))
  BY <1>2, <1>3
<1> QED
  BY <1>2, <1>3, <1>4, FlowFrames

LEMMA FlowReport ==
    ASSUME DownlinkAssumption, DownlinkTyped, Flow, Asked,
           NEW live \in SUBSET Endpoints, AnswerResources(live)
    PROVE  Flow'
<1> DEFINE generation == (target.generation + 1) % 256
<1>1. HostKept
  BY DEF AnswerResources, HostIdle, hostVars, HostKept
<1>2. target.framed \in BOOLEAN /\ generation \in Octet
  <2>1. target.generation + 1 \in Nat
    <3>1. target.generation \in Octet
      BY DEF DownlinkTyped
    <3> QED
      BY <3>1 DEF Octet
  <2> QED
    BY <2>1, ByteOf DEF DownlinkTyped
<1>3. CASE target.framed
  <2>1. target'.framed /\ Emit(Report(generation, live)) /\ 1 \in live
    BY <1>3 DEF AnswerResources, DownlinkTyped
  <2> HIDE DEF generation
  <2>2. Report(generation, live) \in Records
    BY <1>2, <2>1, ReportIsGood
  <2>3. PICK gs \in Seq(Good) : Report(generation, live) = Coding(gs)
    BY <2>2 DEF Records
  <2>4. host.mode # "plain"
    <3>1. up # <<>> /\ Head(up) = "resources"
      BY DEF AnswerResources
    <3>2. up \in Seq({"hello"}) => Head(up) = "hello"
      BY <3>1
    <3> QED
      BY <3>1, <3>2 DEF Asked
  <2>5. Emit(Coding(gs))
    BY <2>1, <2>3
  <2> QED
    BY <1>1, <2>1, <2>4, <2>5, FlowFrames
<1>4. CASE ~target.framed
  <2>1. UNCHANGED <<target, air, out>>
    BY <1>4 DEF AnswerResources
  <2> QED
    BY <1>1, <2>1, FlowSame
<1> QED
  BY <1>2, <1>3, <1>4

LEMMA FlowLoss ==
    ASSUME DownlinkAssumption, DownlinkTyped, Flow, NEW n \in Bursts, Lose(n)
    PROVE  Flow'
<1>1. /\ count' = Losses(count, n) /\ UNCHANGED <<host, text, received, target, out>> /\ n \in Nat
      /\ air' = From(air, n + 1) /\ count \in Counts /\ air \in Seq(Octet)
  BY Zenon DEF Lose, Losses, HostIdle, hostVars, DownlinkAssumption, DownlinkTyped
<1>2. count.lost \in Nat /\ count'.lost = count.lost + n
  BY <1>1, LostIs
<1>3. CASE n = 0
  <2>1. air' = air
    BY <1>1, <1>3, FromFirst
  <2> QED
    BY <1>1, <1>2, <1>3, <2>1, FlowSame DEF HostKept
<1>4. CASE n # 0
  BY <1>1, <1>2, <1>4 DEF Flow
<1> QED
  BY <1>3, <1>4

LEMMA DroppedPending ==
    ASSUME NEW h \in Hosts
    PROVE  Dropped(h).pending = <<>>
BY DEF Dropped, Hosts

LEMMA FlowReconnect ==
    ASSUME DownlinkTyped, Sought, Flow, Reconnect
    PROVE  Flow'
<1> DEFINE k == Len(host.pending)
<1>1. host \in Hosts /\ host.pending \in Seq(Octet) /\ count \in Counts /\ k \in Nat
  BY DEF DownlinkTyped, Hosts
<1>2. count' = Reconnected(count, k) /\ UNCHANGED <<text, received, target, air, out>>
  BY Zenon DEF Reconnect, Reconnected, Resynchronize, TargetIdle, hostVars
<1>3. count.lost \in Nat /\ count'.lost = count.lost + k
  BY <1>1, <1>2, LostIs
<1> HIDE DEF k
<1>4. CASE host.mode = "plain"
  <2>1. host' = Dropped(host)
    BY <1>4, Zenon DEF Reconnect, Resynchronize, Dropped
  <2>2. host'.mode = "plain" /\ host'.pending = <<>>
    BY <1>1, <1>4, <2>1, DroppedType, DroppedPending
  <2> SUFFICES ASSUME count'.lost = 0 PROVE PlainFlow'
    BY <2>2 DEF Flow
  <2>3. count.lost = 0 /\ host.pending = <<>>
    <3>1. k = 0 /\ count.lost = 0
      BY <1>1, <1>3
    <3> QED
      BY <1>1, <3>1 DEF k
  <2> QED
    BY <1>2, <1>4, <2>2, <2>3 DEF Flow, PlainFlow
<1>5. CASE host.mode # "plain"
  <2>1. host' = host
    BY <1>5 DEF Reconnect, hostVars
  <2> SUFFICES ASSUME count'.lost = 0 PROVE FramedFlow'
    BY <1>5, <2>1 DEF Flow
  <2>2. count.lost = 0
    BY <1>1, <1>3
  <2> QED
    BY <1>2, <1>5, <2>1, <2>2 DEF Flow, FramedFlow
<1> QED
  BY <1>4, <1>5

LEMMA FlowStep ==
    ASSUME DownlinkAssumption, TextPlain, DownlinkTyped, Sought, Flow, Asked, [Next]_vars
    PROVE  Flow'
<1>1. count \in Counts /\ air \in Seq(Octet)
  BY DEF DownlinkTyped
<1>2. CASE LoseRequest
  <2>1. count' = Fault(count) /\ UNCHANGED <<host, text, received, target, air, out>>
    BY <1>2, Zenon DEF LoseRequest, Fault, HostIdle, hostVars
  <2> QED
    BY <1>1, <2>1, LostIs, FlowSame DEF HostKept
<1>3. CASE Attach
  <2> DEFINE nothing == <<>>
  <2>1. Read(air) /\ UNCHANGED <<count, target, out>> /\ air' = nothing
    BY <1>3 DEF Attach, TargetIdle
  <2>2. nothing \in Seq(Octet) /\ air = air \o nothing
    BY <1>1, ConcatEmpty
  <2>3. Arrived(air, nothing)
    BY <2>1, <2>2 DEF Arrived
  <2> HIDE DEF nothing
  <2> QED
    BY <1>1, <2>1, <2>2, <2>3, FlowRead
<1>4. CASE HelloRetry
  <2>1. UNCHANGED <<host, text, received, target, air, out, count>>
    BY <1>4 DEF HelloRetry, TargetIdle, hostVars
  <2> QED
    BY <2>1, FlowSame DEF HostKept
<1>5. CASE ResourceRequest
  <2>1. count' = Unit(count) /\ UNCHANGED <<host, text, received, target, air, out>>
    BY <1>5, Zenon DEF ResourceRequest, Unit, TargetIdle, hostVars
  <2> QED
    BY <1>1, <2>1, LostIs, FlowSame DEF HostKept
<1>6. ASSUME NEW n \in 1..Len(air), ReadSome(n) PROVE Flow'
  <2> DEFINE x == SubSeq(air, 1, n)
             y == From(air, n + 1)
  <2>1. n \in 0..Len(air) /\ n + 1 \in 1..(Len(air) + 1)
    BY <1>1
  <2>2. x \in Seq(Octet) /\ y \in Seq(Octet)
    BY <1>1, <2>1, FrontIs, FromIs
  <2>3. x \in Seq(Octet) /\ y \in Seq(Octet) /\ air = x \o y
    BY <1>1, <2>1, <2>2, CutJoined
  <2>4. Read(x) /\ air' = y /\ UNCHANGED <<count, target, out>>
    BY <1>6 DEF ReadSome, TargetIdle
  <2> HIDE DEF x, y
  <2>5. Arrived(x, y)
    BY <2>3, <2>4 DEF Arrived
  <2> QED
    BY <2>3, <2>4, <2>5, FlowRead
<1>7. CASE UNCHANGED vars
  <2>1. UNCHANGED <<host, text, received, target, air, out, count>>
    BY <1>7 DEF vars, hostVars
  <2> QED
    BY <2>1, FlowSame DEF HostKept
<1>8. ASSUME NEW b \in Typed, PutByte(b) PROVE Flow'
  BY <1>8, FlowOutput
<1>9. CASE AnswerHello
  BY <1>9, FlowAnswer
<1>10. ASSUME NEW live \in SUBSET Endpoints, AnswerResources(live) PROVE Flow'
  BY <1>10, FlowReport
<1>11. ASSUME NEW n \in Bursts, Lose(n) PROVE Flow'
  BY <1>11, FlowLoss
<1>12. CASE Reconnect
  BY <1>12, FlowReconnect
<1> QED
  BY <1>2, <1>3, <1>4, <1>5, <1>6, <1>7, <1>8, <1>9, <1>10, <1>11, <1>12 DEF Next

(* A host in plain text has asked for nothing but HELLO, and one that is
   framed stays so. *)
LEMMA ModeStays ==
    ASSUME DownlinkTyped, NEW x, Read(x), host.mode = "framed"
    PROVE  host'.mode = "framed"
<1> DEFINE d == Scan(Started(host.buffer \o x))
<1>1. PushGives(x, Buffered(host, d.buffer), <<>>, d.frames, d.errors)
  BY FramedIs DEF PushGives, Push
<1>2. host' = Buffered(host, d.buffer)
  BY <1>1, ReadMakes
<1> HIDE DEF d
<1> QED
  BY <1>2, BufferedTwice DEF DownlinkTyped

LEMMA AskedStep ==
    ASSUME DownlinkTyped, Asked, [Next]_vars
    PROVE  Asked'
<1> DEFINE Q == Seq({"hello"})
<1>1. host.mode \in {"plain", "framed"} /\ host \in Hosts
  BY DEF DownlinkTyped, Hosts
<1>2. \A q \in Q : (q # <<>> => Tail(q) \in Q) /\ Append(q, "hello") \in Q
  OBVIOUS
<1> HIDE DEF Q
<1>3. host.mode = "plain" => up \in Q
  BY DEF Asked, Q
<1>4. ASSUME host' = host, up' = up \/ (up # <<>> /\ up' = Tail(up)) \/ up' = Append(up, "hello")
      PROVE  Asked'
  BY <1>2, <1>3, <1>4 DEF Asked, Q
<1>5. ASSUME NEW x, Read(x), up' = up \/ up' = Append(up, "hello") PROVE Asked'
  <2>1. host'.mode = "plain" => host.mode = "plain"
    BY <1>1, <1>5, ModeStays
  <2> QED
    BY <1>2, <1>3, <1>5, <2>1 DEF Asked, Q
<1>6. CASE Attach
  BY <1>5, <1>6 DEF Attach
<1>7. ASSUME NEW n \in 1..Len(air), ReadSome(n) PROVE Asked'
  BY <1>5, <1>7 DEF ReadSome
<1>8. CASE Reconnect
  <2>1. CASE host.mode = "plain"
    <3>1. up' = Append(up, "hello")
      BY <1>8, <2>1 DEF Reconnect
    <3> QED
      BY <1>2, <1>3, <2>1, <3>1 DEF Asked, Q
  <2>2. CASE host.mode # "plain"
    <3>1. host' = host /\ up' = up
      BY <1>8, <2>2 DEF Reconnect, hostVars
    <3> QED
      BY <3>1 DEF Asked
  <2> QED
    BY <2>1, <2>2
<1>9. CASE ResourceRequest
  BY <1>1, <1>9 DEF ResourceRequest, hostVars, Asked
<1>10. ASSUME NEW b \in Typed, PutByte(b) PROVE Asked'
  <2>1. host' = host /\ up' = up
    BY <1>10 DEF PutByte, HostIdle, hostVars
  <2> QED
    BY <2>1 DEF Asked
<1>11. CASE AnswerHello
  BY <1>4, <1>11 DEF AnswerHello, HostIdle, hostVars
<1>12. ASSUME NEW live \in SUBSET Endpoints, AnswerResources(live) PROVE Asked'
  BY <1>4, <1>12 DEF AnswerResources, HostIdle, hostVars
<1>13. ASSUME NEW n \in Bursts, Lose(n) PROVE Asked'
  <2>1. host' = host /\ up' = up
    BY <1>13 DEF Lose, HostIdle, hostVars
  <2> QED
    BY <2>1 DEF Asked
<1>14. CASE LoseRequest
  BY <1>4, <1>14 DEF LoseRequest, HostIdle, hostVars
<1>15. CASE HelloRetry
  BY <1>4, <1>15 DEF HelloRetry, hostVars
<1>16. CASE UNCHANGED vars
  <2>1. host' = host /\ up' = up
    BY <1>16 DEF vars, hostVars
  <2> QED
    BY <2>1 DEF Asked
<1> QED
  BY <1>6, <1>7, <1>8, <1>9, <1>10, <1>11, <1>12, <1>13, <1>14, <1>15, <1>16 DEF Next

LEMMA FlowInit == Init => Flow /\ Asked
<1> SUFFICES ASSUME Init PROVE PlainFlow /\ host.mode = "plain" /\ up \in Seq({"hello"})
    BY DEF Flow, Asked
<1>1. host.mode = "plain" /\ host.pending = <<>> /\ text = <<>> /\ air = <<>> /\ out = <<>> /\ up = <<>>
  BY DEF Init, HostInit
<1> DEFINE nothing == <<>>
<1>2. nothing \in Seq(Typed) /\ nothing \in Seq(PlainFrames) /\ nothing \o nothing = nothing
  OBVIOUS
<1>3. Coding(nothing) = nothing
  BY CodingEmpty
<1> HIDE DEF nothing
<1>4. out = nothing /\ text = nothing /\ air = nothing /\ host.pending = nothing
  BY <1>1 DEF nothing
<1>5. Sent(out, nothing, nothing)
  BY <1>2, <1>3, <1>4 DEF Sent
<1>6. PlainFlow
  BY <1>2, <1>4, <1>5 DEF PlainFlow, nothing
<1> QED
  BY <1>1, <1>6

LEMMA FlowConserves ==
    ASSUME DownlinkTyped, Sought, Flow
    PROVE  Conservation
<1> SUFFICES ASSUME count.lost = 0
             PROVE  out = text \o host.pending \o Coding(received) \o host.buffer \o air
    BY DEF Conservation, Coding, CodesOf
<1>1. host.mode \in {"plain", "framed"} /\ "plain" # "framed"
  BY DEF DownlinkTyped, Hosts
<1>2. /\ text \in Seq(Octet) /\ text \o host.pending \in Seq(Octet)
  BY FlowType
<1> DEFINE M == text \o host.pending
<1>3. CASE host.mode = "plain"
  <2>1. out = M \o air
    BY <1>3 DEF Flow, PlainFlow
  <2>2. Coding(received) = <<>> /\ host.buffer = <<>>
    BY <1>3, CodingEmpty DEF Sought
  <2> HIDE DEF M
  <2>3. M \o <<>> = M
    BY <1>2, ConcatEmpty DEF M
  <2>4. ((M \o Coding(received)) \o host.buffer) \o air = M \o air
    BY <2>2, <2>3
  <2> QED
    BY <2>1, <2>4 DEF M
<1>4. CASE host.mode = "framed"
  <2>1. out = ((text \o Coding(received)) \o host.buffer) \o air
    BY <1>1, <1>4 DEF Flow, FramedFlow
  <2>2. text \o host.pending = text
    BY <1>2, <1>4, ConcatEmpty DEF Sought
  <2> QED
    BY <2>1, <2>2
<1> QED
  BY <1>1, <1>3, <1>4

(* While nothing is lost, nothing the target sends is lost, doubled or put out
   of order on its way through plain text, the answer to a HELLO that may come
   anywhere in a read, and frames: provided the text programs print does not
   have both sync bytes in it, as ASCII does not. *)
THEOREM ConservationAlways == TextPlain => (Spec => []Conservation)
<1> DEFINE I == DownlinkTyped /\ Sought /\ Flow /\ Asked
<1> SUFFICES ASSUME TextPlain PROVE Spec => []Conservation
    OBVIOUS
<1>1. Init => I
  BY DownlinkAssumption, TypedInit, SoughtInit, FlowInit
<1>2. I /\ [Next]_vars => I'
  BY DownlinkAssumption, TypedStep, SoughtStep, FlowStep, AskedStep
<1>3. I => Conservation
  BY FlowConserves
<1> QED
  BY <1>1, <1>2, <1>3, PTL DEF Spec
=============================================================================
