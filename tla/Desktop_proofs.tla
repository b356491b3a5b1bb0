--------------------------- MODULE Desktop_proofs ---------------------------
(***************************************************************************)
(* What the operations on a desktop keep of it, for every number of panes, *)
(* every size of them and every text: its soundness, which panes may count *)
(* as absent afterwards, and whose the keyboard is.                        *)
(***************************************************************************)
EXTENDS Desktop, Common_proofs

-----------------------------------------------------------------------------
(* Retained: the panes that stay, each once, in their order. *)
RetainedUpto(f, panes, stay, m) ==
    f = [n \in 0..m |-> IF n = 0 THEN <<>>
                        ELSE IF n \in stay THEN Append(f[n - 1], panes[n]) ELSE f[n - 1]]

LEMMA RetainedExists ==
    ASSUME NEW panes, NEW stay
    PROVE  \A m \in Nat : \E f : RetainedUpto(f, panes, stay, m)
<1> DEFINE N == {m \in Nat : \E f : RetainedUpto(f, panes, stay, m)}
<1>1. 0 \in N
  <2>1. RetainedUpto([n \in 0..0 |-> <<>>], panes, stay, 0)
    BY DEF RetainedUpto
  <2> QED
    BY <2>1
<1>2. ASSUME NEW m \in N PROVE m + 1 \in N
  <2>1. PICK f : RetainedUpto(f, panes, stay, m)
    OBVIOUS
  <2> DEFINE next == IF m + 1 \in stay THEN Append(f[m], panes[m + 1]) ELSE f[m]
             g == [n \in 0..(m + 1) |-> IF n <= m THEN f[n] ELSE next]
             h == [n \in 0..(m + 1) |-> IF n = 0 THEN <<>>
                     ELSE IF n \in stay THEN Append(g[n - 1], panes[n]) ELSE g[n - 1]]
  <2>2. ASSUME NEW n \in 0..(m + 1) PROVE g[n] = h[n]
    <3>1. CASE n = m + 1
      <4>1. n # 0 /\ n - 1 = m /\ m \in 0..(m + 1) /\ m <= m
        BY <3>1
      <4>2. g[n] = next /\ g[n - 1] = f[m]
        BY <3>1, <4>1
      <4> QED
        BY <3>1, <4>1, <4>2
    <3>2. CASE n <= m
      <4>1. n \in 0..m /\ g[n] = f[n] /\ (n # 0 => n - 1 \in 0..(m + 1) /\ g[n - 1] = f[n - 1])
        BY <3>2
      <4>2. f[n] = IF n = 0 THEN <<>>
                   ELSE IF n \in stay THEN Append(f[n - 1], panes[n]) ELSE f[n - 1]
        BY <2>1, <4>1 DEF RetainedUpto
      <4>3. h[n] = IF n = 0 THEN <<>>
                   ELSE IF n \in stay THEN Append(g[n - 1], panes[n]) ELSE g[n - 1]
        OBVIOUS
      <4> HIDE DEF g, h
      <4> QED
        BY <4>1, <4>2, <4>3
    <3> QED
      BY <3>1, <3>2
  <2>3. DOMAIN g = 0..(m + 1) /\ DOMAIN h = 0..(m + 1) /\ g = [n \in DOMAIN g |-> g[n]]
        /\ h = [n \in DOMAIN h |-> h[n]]
    OBVIOUS
  <2>4. g = h
    BY <2>2, <2>3
  <2>5. RetainedUpto(g, panes, stay, m + 1)
    BY <2>4 DEF RetainedUpto
  <2> QED
    BY <2>5
<1>3. N \subseteq Nat
  OBVIOUS
<1> HIDE DEF N
<1>4. N = Nat
  BY <1>1, <1>2, <1>3, SetInduction
<1> QED
  BY <1>4 DEF N

Picks(kept, at, panes, stay, n) ==
    /\ at \in [1..Len(kept) -> 1..n]
    /\ \A i \in 1..Len(kept) : at[i] \in stay /\ kept[i] = panes[at[i]]
    /\ \A i, j \in 1..Len(kept) : i < j => at[i] < at[j]
    /\ \A k \in 1..n : k \in stay => \E i \in 1..Len(kept) : at[i] = k

LEMMA PicksMore ==
    ASSUME NEW T, NEW panes \in Seq(T), NEW stay, NEW n \in Nat, n + 1 <= Len(panes),
           NEW kept \in Seq(T), NEW at, Picks(kept, at, panes, stay, n),
           NEW more \in Seq(T), more = IF n + 1 \in stay THEN Append(kept, panes[n + 1]) ELSE kept
    PROVE  \E b : Picks(more, b, panes, stay, n + 1)
<1>1. Len(kept) \in Nat
  OBVIOUS
<1>2. CASE n + 1 \notin stay
  <2>1. Picks(more, at, panes, stay, n + 1)
    BY <1>1, <1>2 DEF Picks
  <2> QED
    BY <2>1
<1>3. CASE n + 1 \in stay
  <2> DEFINE l == Len(kept)
             b == [i \in 1..(l + 1) |-> IF i = l + 1 THEN n + 1 ELSE at[i]]
  <2>1. /\ Len(more) = l + 1 /\ more[l + 1] = panes[n + 1]
        /\ \A i \in 1..l : more[i] = kept[i]
    BY <1>3
  <2>2. b \in [1..(l + 1) -> 1..(n + 1)]
    BY <1>1 DEF Picks
  <2>3. \A i \in 1..(l + 1) : b[i] \in stay /\ more[i] = panes[b[i]]
    BY <1>1, <1>3, <2>1 DEF Picks
  <2>4. ASSUME NEW i \in 1..(l + 1), NEW j \in 1..(l + 1), i < j PROVE b[i] < b[j]
    <3>1. i \in 1..l /\ b[i] = at[i] /\ at[i] \in 1..n
      BY <1>1, <2>4 DEF Picks
    <3>2. CASE j = l + 1
      <4>1. b[j] = n + 1
        BY <2>4, <3>2
      <4> QED
        BY <3>1, <4>1
    <3>3. CASE j # l + 1
      <4>1. j \in 1..l /\ b[j] = at[j]
        BY <1>1, <3>3
      <4> QED
        BY <2>4, <3>1, <4>1 DEF Picks
    <3> QED
      BY <3>2, <3>3
  <2>5. \A k \in 1..(n + 1) : k \in stay => \E i \in 1..(l + 1) : b[i] = k
    <3> SUFFICES ASSUME NEW k \in 1..(n + 1), k \in stay PROVE \E i \in 1..(l + 1) : b[i] = k
        OBVIOUS
    <3>1. CASE k = n + 1
      BY <1>1, <3>1
    <3>2. CASE k \in 1..n
      <4>1. PICK i \in 1..l : at[i] = k
        BY <3>2 DEF Picks
      <4> QED
        BY <1>1, <4>1
    <3> QED
      BY <3>1, <3>2
  <2> HIDE DEF b
  <2>6. Picks(more, b, panes, stay, n + 1)
    BY <2>1, <2>2, <2>3, <2>4, <2>5 DEF Picks
  <2> QED
    BY <2>6
<1> QED
  BY <1>2, <1>3

LEMMA RetainedPicks ==
    ASSUME NEW T, NEW panes \in Seq(T), NEW stay
    PROVE  /\ Retained(panes, stay) \in Seq(T)
           /\ \E at : Picks(Retained(panes, stay), at, panes, stay, Len(panes))
<1> DEFINE F == CHOOSE f : f = [n \in 0..Len(panes) |-> IF n = 0 THEN <<>>
                        ELSE IF n \in stay THEN Append(f[n - 1], panes[n]) ELSE f[n - 1]]
<1>1. Retained(panes, stay) = F[Len(panes)]
  BY DEF Retained
<1>2. Len(panes) \in Nat
  OBVIOUS
<1>3. F = [n \in 0..Len(panes) |-> IF n = 0 THEN <<>>
             ELSE IF n \in stay THEN Append(F[n - 1], panes[n]) ELSE F[n - 1]]
  <2>1. \E f : RetainedUpto(f, panes, stay, Len(panes))
    BY <1>2, RetainedExists
  <2>2. \E f : f = [n \in 0..Len(panes) |-> IF n = 0 THEN <<>>
                     ELSE IF n \in stay THEN Append(f[n - 1], panes[n]) ELSE f[n - 1]]
    BY <2>1 DEF RetainedUpto
  <2> QED
    BY <2>2
<1> HIDE DEF F
<1> DEFINE N == {n \in Nat : n <= Len(panes) =>
                   F[n] \in Seq(T) /\ \E at : Picks(F[n], at, panes, stay, n)}
<1>4. 0 \in N
  <2>1. F[0] = <<>>
    BY <1>2, <1>3
  <2>2. <<>> \in Seq(T) /\ Len(<<>>) = 0 /\ 1..0 = {}
    OBVIOUS
  <2>3. Picks(<<>>, [i \in 1..0 |-> 0], panes, stay, 0)
    BY <2>2 DEF Picks
  <2> QED
    BY <2>1, <2>2, <2>3
<1>5. ASSUME NEW n \in N PROVE n + 1 \in N
  <2> SUFFICES ASSUME n + 1 <= Len(panes)
               PROVE  F[n + 1] \in Seq(T) /\ \E at : Picks(F[n + 1], at, panes, stay, n + 1)
      OBVIOUS
  <2>1. n \in Nat /\ F[n] \in Seq(T)
    BY <1>2
  <2>2. PICK at : Picks(F[n], at, panes, stay, n)
    BY <1>2
  <2>3. F[n + 1] = IF n + 1 \in stay THEN Append(F[n], panes[n + 1]) ELSE F[n]
    <3>1. n + 1 \in 0..Len(panes) /\ n + 1 # 0 /\ (n + 1) - 1 = n
      BY <1>2, <2>1
    <3> QED
      BY <1>3, <3>1
  <2>4. panes[n + 1] \in T
    BY <2>1
  <2>5. F[n + 1] \in Seq(T)
    BY <2>1, <2>3, <2>4
  <2> QED
    BY <2>1, <2>2, <2>3, <2>5, PicksMore
<1>6. N \subseteq Nat
  OBVIOUS
<1> HIDE DEF N
<1>7. N = Nat
  BY <1>4, <1>5, <1>6, SetInduction
<1>8. Len(panes) \in N /\ Len(panes) <= Len(panes)
  BY <1>2, <1>7
<1> QED
  BY <1>1, <1>8 DEF N

-----------------------------------------------------------------------------
(* What a pane and a desktop hold beyond their types.  Only an application's
   pane is ever counted absent, and only after its process has run; no two
   panes have one channel, but for the shell's. *)
PaneSet ==
    {p \in PaneTypes :
        /\ p.scroll <= p.lines
        /\ p.ended => p.absent = 2
        /\ p.absent > 0 => p.ran /\ p.kind = "application"
        /\ p.kind = "shell" => p.channel = 0
        /\ p.kind = "debugger" => p.channel = 254
        /\ p.kind = "application" => p.channel <= MaxChannel}

Apart(panes) ==
    \A i, j \in DOMAIN panes :
        panes[i].channel = panes[j].channel => i = j \/ panes[i].channel = 0

Desks ==
    [panes : {p \in Seq(PaneSet) : Apart(p)}, focus : Nat \ {0}, zoomed : BOOLEAN,
     help : BOOLEAN, copy : BOOLEAN, broadcast : BOOLEAN, armed : BOOLEAN]
FocusOn(d) == d.focus = 1 \/ d.focus <= Len(d.panes)
Sound(d) == d \in Desks /\ FocusOn(d)

(* No pane of the later desktop is counted absent but one that was, as often
   and on the same channel, on the earlier. *)
Follows(panes, later) ==
    \A i \in DOMAIN later :
        \/ later[i].absent = 0
        \/ \E j \in DOMAIN panes : /\ panes[j].channel = later[i].channel
                                   /\ panes[j].absent = later[i].absent
Becomes(d, e) ==
    Sound(e) /\ Follows(d.panes, e.panes) /\ (d.panes # <<>> => e.panes # <<>>)

LEMMA BecomesItself == ASSUME NEW d, Sound(d) PROVE Becomes(d, d)
  BY DEF Becomes, Follows

LEMMA BecomesNext ==
    ASSUME NEW d, NEW e, NEW f, Becomes(d, e), Becomes(e, f) PROVE Becomes(d, f)
<1>1. Follows(d.panes, f.panes)
  BY DEF Becomes, Follows
<1> QED
  BY <1>1 DEF Becomes

LEMMA DeskParts ==
    ASSUME NEW d \in Desks
    PROVE  /\ d.panes \in Seq(PaneSet) /\ Apart(d.panes) /\ d.focus \in Nat /\ d.focus >= 1
           /\ DOMAIN d.panes = 1..Len(d.panes) /\ Len(d.panes) \in Nat
           /\ \A i \in DOMAIN d.panes : d.panes[i] \in PaneSet
           /\ d.zoomed \in BOOLEAN /\ d.help \in BOOLEAN /\ d.copy \in BOOLEAN
           /\ d.broadcast \in BOOLEAN /\ d.armed \in BOOLEAN
<1>1. d.panes \in Seq(PaneSet) /\ Apart(d.panes) /\ d.focus \in Nat /\ d.focus >= 1
  BY DEF Desks
<1>2. /\ d.zoomed \in BOOLEAN /\ d.help \in BOOLEAN /\ d.copy \in BOOLEAN
      /\ d.broadcast \in BOOLEAN /\ d.armed \in BOOLEAN
  BY DEF Desks
<1> HIDE DEF Desks
<1>3. DOMAIN d.panes = 1..Len(d.panes) /\ Len(d.panes) \in Nat
  BY <1>1
<1> QED
  BY <1>1, <1>2, <1>3

LEMMA OtherPanes ==
    ASSUME NEW d \in Desks, NEW panes \in Seq(PaneSet), Apart(panes)
    PROVE  /\ [d EXCEPT !.panes = panes] \in Desks
           /\ [d EXCEPT !.panes = panes].panes = panes
           /\ [d EXCEPT !.panes = panes].focus = d.focus
  BY DEF Desks

LEMMA OtherFocus ==
    ASSUME NEW d \in Desks, NEW focus \in Nat \ {0}
    PROVE  /\ [d EXCEPT !.focus = focus] \in Desks
           /\ [d EXCEPT !.focus = focus].panes = d.panes
           /\ [d EXCEPT !.focus = focus].focus = focus
  BY DEF Desks

(* Some panes changed, but not their channels, nor who is counted absent
   except for being so no longer. *)
LEMMA EmptyIsZero ==
    ASSUME NEW T, NEW seq \in Seq(T)
    PROVE  seq = <<>> <=> Len(seq) = 0
  OBVIOUS

LEMMA FunctionSeq ==
    ASSUME NEW T, NEW n \in Nat, NEW f \in [1..n -> T]
    PROVE  f \in Seq(T) /\ Len(f) = n /\ DOMAIN f = 1..n
  OBVIOUS

LEMMA PanesChanged ==
    ASSUME NEW d, Sound(d), NEW panes \in [DOMAIN d.panes -> PaneSet],
           \A i \in DOMAIN d.panes :
              /\ panes[i].channel = d.panes[i].channel
              /\ panes[i].absent = 0 \/ panes[i].absent = d.panes[i].absent
    PROVE  Becomes(d, [d EXCEPT !.panes = panes])
<1>1. /\ d \in Desks /\ DOMAIN d.panes = 1..Len(d.panes) /\ Len(d.panes) \in Nat
      /\ d.panes \in Seq(PaneSet) /\ Apart(d.panes)
  BY DeskParts DEF Sound
<1>2. panes \in Seq(PaneSet) /\ Len(panes) = Len(d.panes) /\ DOMAIN panes = DOMAIN d.panes
  BY <1>1
<1>3. Apart(panes)
  BY <1>1, <1>2 DEF Apart
<1>4. Follows(d.panes, panes)
  <2> SUFFICES ASSUME NEW i \in DOMAIN panes, panes[i].absent # 0
               PROVE  \E j \in DOMAIN d.panes : /\ d.panes[j].channel = panes[i].channel
                                               /\ d.panes[j].absent = panes[i].absent
      BY DEF Follows
  <2> QED
    BY <1>2
<1>5. d.panes # <<>> => panes # <<>>
  BY <1>1, <1>2, EmptyIsZero
<1> QED
  BY <1>1, <1>2, <1>3, <1>4, <1>5, OtherPanes DEF Becomes, Sound, FocusOn

LEMMA PaneChanged ==
    ASSUME NEW d, Sound(d), NEW i \in DOMAIN d.panes, NEW pane \in PaneSet,
           pane.channel = d.panes[i].channel,
           pane.absent = 0 \/ pane.absent = d.panes[i].absent
    PROVE  Becomes(d, [d EXCEPT !.panes[i] = pane])
<1> DEFINE panes == [d.panes EXCEPT ![i] = pane]
<1>1. d \in Desks /\ DOMAIN d.panes = 1..Len(d.panes) /\ d.panes \in Seq(PaneSet)
      /\ \A j \in DOMAIN d.panes : d.panes[j] \in PaneSet
  BY DeskParts DEF Sound
<1>2. /\ panes \in [DOMAIN d.panes -> PaneSet]
      /\ \A j \in DOMAIN d.panes : panes[j] = IF j = i THEN pane ELSE d.panes[j]
  BY <1>1
<1>3. [d EXCEPT !.panes[i] = pane] = [d EXCEPT !.panes = panes]
  BY <1>1 DEF Desks
<1> HIDE DEF panes
<1>4. Becomes(d, [d EXCEPT !.panes = panes])
  BY <1>1, <1>2, PanesChanged
<1> QED
  BY <1>3, <1>4

-----------------------------------------------------------------------------
(* Text. *)
TextOf(pane) ==
    {q \in PaneSet :
        /\ q.kind = pane.kind /\ q.channel = pane.channel /\ q.title = pane.title
        /\ q.ran = pane.ran /\ q.ended = pane.ended /\ q.absent = pane.absent}

LEMMA Sizes == /\ Scrollback \in Nat /\ Scrollback >= 1 /\ MaxLine \in Nat /\ MaxLine >= 1
               /\ MaxChannel \in Nat /\ MaxChannel >= 1 /\ MaxChannel < 254
               /\ {"Shell", "Application", "Debugger", "TTY"} \subseteq Names
  BY DesktopAssumption

LEMMA PaneParts ==
    ASSUME NEW p \in PaneSet
    PROVE  /\ p.lines \in 0..Scrollback /\ p.current \in 0..(MaxLine - 1)
           /\ p.scroll \in 0..Scrollback /\ p.scroll <= p.lines
  BY DEF PaneSet, PaneTypes

WithAmounts(p, lines, current, scroll) ==
    [p EXCEPT !.lines = lines, !.current = current, !.scroll = scroll]

LEMMA AmountsChanged ==
    ASSUME NEW p \in PaneSet, NEW lines \in 0..Scrollback, NEW current \in 0..(MaxLine - 1),
           NEW scroll \in 0..Scrollback, scroll <= lines
    PROVE  WithAmounts(p, lines, current, scroll) \in TextOf(p)
<1> DEFINE q == [p EXCEPT !.lines = lines, !.current = current, !.scroll = scroll]
<1>1. q \in PaneTypes
  BY DEF PaneSet, PaneTypes
<1>2. /\ q.kind = p.kind /\ q.channel = p.channel /\ q.title = p.title /\ q.ran = p.ran
      /\ q.ended = p.ended /\ q.absent = p.absent /\ q.lines = lines /\ q.scroll = scroll
  BY DEF PaneSet, PaneTypes
<1> HIDE DEF q
<1>3. q \in TextOf(p)
  BY <1>1, <1>2 DEF PaneSet, TextOf
<1> QED
  BY <1>3 DEF q, WithAmounts

LEMMA FinishedKeeps == ASSUME NEW p \in PaneSet PROVE FinishedLine(p) \in TextOf(p)
<1> DEFINE lines == IF p.lines + 1 <= Scrollback THEN p.lines + 1 ELSE Scrollback
<1>1. Min({p.lines + 1, Scrollback}) = lines
  <2>1. p.lines + 1 \in Int /\ Scrollback \in Int
    BY PaneParts, Sizes
  <2> QED
    BY <2>1, MinOfTwo
<1>2. lines \in 0..Scrollback /\ p.scroll <= lines /\ 0 \in 0..(MaxLine - 1)
  BY PaneParts, Sizes
<1>3. FinishedLine(p) = WithAmounts(p, lines, 0, p.scroll)
  BY <1>1 DEF FinishedLine, WithAmounts, PaneSet, PaneTypes
<1> HIDE DEF lines
<1> QED
  BY <1>2, <1>3, PaneParts, AmountsChanged

LEMMA EmptiedKeeps == ASSUME NEW p \in PaneSet PROVE Emptied(p) \in TextOf(p)
<1>1. 0 \in 0..Scrollback /\ 0 \in 0..(MaxLine - 1)
  BY Sizes
<1>2. Emptied(p) = WithAmounts(p, 0, 0, 0)
  BY DEF Emptied, WithAmounts
<1> QED
  BY <1>1, <1>2, AmountsChanged

LEMMA PushedByteKeeps ==
    ASSUME NEW pane \in PaneSet, NEW p \in TextOf(pane), NEW byte
    PROVE  PushedByte(p, byte) \in TextOf(pane)
<1>1. p \in PaneSet /\ TextOf(p) = TextOf(pane)
  BY DEF TextOf
<1>2. ASSUME NEW c \in 0..(MaxLine - 1) PROVE [p EXCEPT !.current = c] \in TextOf(p)
  <2>1. [p EXCEPT !.current = c] = WithAmounts(p, p.lines, c, p.scroll)
    BY <1>1 DEF WithAmounts, PaneSet, PaneTypes
  <2> QED
    BY <1>1, <2>1, PaneParts, AmountsChanged
<1>3. Max({p.current - 1, 0}) \in 0..(MaxLine - 1) /\ 0 \in 0..(MaxLine - 1)
  <2>1. p.current - 1 \in Int /\ p.current \in 0..(MaxLine - 1)
    BY <1>1, PaneParts, Sizes
  <2> QED
    BY <2>1, MaxOfTwo, Sizes
<1>4. p.current + 1 < MaxLine => p.current + 1 \in 0..(MaxLine - 1)
  BY <1>1, PaneParts, Sizes
<1>5. p.current + 1 >= MaxLine \/ p.current + 1 < MaxLine
  BY <1>1, PaneParts, Sizes
<1> QED
  BY <1>1, <1>2, <1>3, <1>4, <1>5, FinishedKeeps, EmptiedKeeps DEF PushedByte, FormFed

LEMMA PushedKeeps ==
    ASSUME NEW pane \in PaneSet, NEW T, NEW bytes \in Seq(T)
    PROVE  Pushed(pane, bytes) \in TextOf(pane)
<1> DEFINE S == DOMAIN bytes
           V == TextOf(pane)
           F == CHOOSE f : f = [s \in SUBSET S |-> IF s = {} THEN pane
                                  ELSE PushedByte(f[s \ {Max(s)}], bytes[Max(s)])]
           pick == [s \in SUBSET S |-> Max(s)]
           step == [x \in S |-> [v \in V |-> PushedByte(v, bytes[x])]]
<1>1. Pushed(pane, bytes) = F[S]
  BY DEF Pushed, FoldLeft, MapThenFoldSet
<1>2. S = 1..Len(bytes) /\ Len(bytes) \in Nat /\ IsFiniteSet(S)
  BY SequenceDomain
<1>3. \A s \in SUBSET S : s # {} => Max(s) \in s
  BY <1>2, MaxOf
<1>4. pane \in V /\ \A x \in S : \A v \in V : PushedByte(v, bytes[x]) \in V
  <2>1. pane \in V
    BY DEF TextOf
  <2> QED
    BY <2>1, PushedByteKeeps
<1>5. Foldable(S, V, pane, pick, step)
  <2>1. \A s \in SUBSET S : s # {} => pick[s] \in s
    BY <1>3
  <2>2. \A x \in S : \A v \in V : step[x][v] \in V
    BY <1>4
  <2> HIDE DEF S, V, pick, step
  <2> QED
    BY <1>2, <1>4, <2>1, <2>2, FoldExists
<1>6. PICK f \in [SUBSET S -> V] :
         \A s \in SUBSET S : f[s] = IF s = {} THEN pane ELSE PushedByte(f[s \ {Max(s)}], bytes[Max(s)])
  <2>1. PICK f \in [SUBSET S -> V] : \A s \in SUBSET S : f[s] = FoldStep(f, pane, pick, step, s)
    BY <1>5 DEF Foldable
  <2>2. ASSUME NEW s \in SUBSET S
        PROVE  f[s] = IF s = {} THEN pane ELSE PushedByte(f[s \ {Max(s)}], bytes[Max(s)])
    <3>1. CASE s = {}
      BY <2>1, <3>1 DEF FoldStep
    <3>2. CASE s # {}
      <4>1. Max(s) \in S /\ f[s \ {Max(s)}] \in V /\ pick[s] = Max(s)
        BY <1>3, <3>2
      <4>2. f[s] = step[pick[s]][f[s \ {pick[s]}]]
        BY <2>1, <3>2 DEF FoldStep
      <4> QED
        BY <3>2, <4>1, <4>2
    <3> QED
      BY <3>1, <3>2
  <2> HIDE DEF S, V
  <2> QED
    BY <2>2
<1>7. \E g : g = [s \in SUBSET S |-> IF s = {} THEN pane
                     ELSE PushedByte(g[s \ {Max(s)}], bytes[Max(s)])]
  <2> HIDE DEF S, V
  <2> QED
    BY <1>6
<1>8. \A s \in SUBSET S : F[s] = IF s = {} THEN pane
                                 ELSE PushedByte(F[s \ {Max(s)}], bytes[Max(s)])
  <2>1. F = [s \in SUBSET S |-> IF s = {} THEN pane
                     ELSE PushedByte(F[s \ {Max(s)}], bytes[Max(s)])]
    BY <1>7
  <2> HIDE DEF F, S
  <2> QED
    BY <2>1
<1> HIDE DEF F, S, V
<1>9. F[{}] \in V
  BY <1>4, <1>8
<1>10. ASSUME NEW s \in SUBSET S, s # {}, F[s \ {Max(s)}] \in V PROVE F[s] \in V
  <2>1. F[s] = PushedByte(F[s \ {Max(s)}], bytes[Max(s)])
    BY <1>8, <1>10
  <2> QED
    BY <1>10, <2>1, PushedByteKeeps DEF V
<1>11. F[S] \in V
  <2>1. \A s \in SUBSET S : s # {} => \E x \in s : F[s \ {x}] \in V => F[s] \in V
    BY <1>3, <1>10
  <2> QED
    BY <1>2, <1>9, <2>1, FoldStays
<1> QED
  BY <1>1, <1>11 DEF V

-----------------------------------------------------------------------------
(* What is done to one pane. *)
LEMMA HoldingIn ==
    ASSUME NEW d \in Desks, NEW channel
    PROVE  /\ Holding(d, channel) \subseteq DOMAIN d.panes
           /\ \A i \in Holding(d, channel) : d.panes[i].channel = channel
           /\ Holding(d, channel) # {} => Min(Holding(d, channel)) \in Holding(d, channel)
<1>1. Holding(d, channel) \subseteq DOMAIN d.panes
      /\ \A i \in Holding(d, channel) : d.panes[i].channel = channel
  BY DEF Holding
<1>2. DOMAIN d.panes \subseteq Nat
  BY DeskParts
<1> QED
  BY <1>1, <1>2, MinOf

WithMarks(p, ran, alert) == [p EXCEPT !.ran = ran, !.alert = alert]

LEMMA Marked ==
    ASSUME NEW p \in PaneSet, NEW ran \in BOOLEAN, p.ran => ran, NEW alert \in BOOLEAN
    PROVE  /\ WithMarks(p, ran, alert) \in PaneSet
           /\ WithMarks(p, ran, alert).channel = p.channel
           /\ WithMarks(p, ran, alert).absent = p.absent
<1> DEFINE q == [p EXCEPT !.ran = ran, !.alert = alert]
<1>1. q \in PaneTypes
  BY DEF PaneSet, PaneTypes
<1>2. /\ q.kind = p.kind /\ q.channel = p.channel /\ q.ran = ran /\ q.ended = p.ended
      /\ q.absent = p.absent /\ q.lines = p.lines /\ q.scroll = p.scroll
  BY DEF PaneSet, PaneTypes
<1> HIDE DEF q
<1>3. q \in PaneSet
  BY <1>1, <1>2 DEF PaneSet
<1> QED
  BY <1>2, <1>3 DEF q, WithMarks

LEMMA Titled ==
    ASSUME NEW p \in PaneSet, NEW title \in Names
    PROVE  /\ [p EXCEPT !.title = title] \in PaneSet
           /\ [p EXCEPT !.title = title].channel = p.channel
           /\ [p EXCEPT !.title = title].absent = p.absent
  BY DEF PaneSet, PaneTypes

LEMMA Scrolled ==
    ASSUME NEW p \in PaneSet, NEW scroll \in 0..p.lines
    PROVE  /\ [p EXCEPT !.scroll = scroll] \in PaneSet
           /\ [p EXCEPT !.scroll = scroll].channel = p.channel
           /\ [p EXCEPT !.scroll = scroll].absent = p.absent
<1>1. p.lines \in 0..Scrollback /\ Scrollback \in Nat
  BY Sizes, PaneParts
<1> QED
  BY <1>1 DEF PaneSet, PaneTypes

LEMMA Pushes ==
    ASSUME NEW d, Sound(d), NEW channel, NEW T, NEW bytes \in Seq(T)
    PROVE  Becomes(d, PushChannel(d, channel, bytes))
<1>1. CASE Holding(d, channel) = {}
  BY <1>1, BecomesItself DEF PushChannel
<1>2. CASE Holding(d, channel) # {}
  <2> DEFINE i == Min(Holding(d, channel))
             p == d.panes[i]
             q == Pushed(p, bytes)
             ran == q.ran \/ q.kind = "application"
             alert == q.alert \/ i # d.focus
             r == WithMarks(q, ran, alert)
  <2>1. d \in Desks /\ i \in DOMAIN d.panes /\ p \in PaneSet
    BY <1>2, HoldingIn, DeskParts DEF Sound
  <2>2. q \in PaneSet /\ q.channel = p.channel /\ q.absent = p.absent
    BY <2>1, PushedKeeps DEF TextOf
  <2>3. q.ran \in BOOLEAN /\ q.alert \in BOOLEAN
    BY <2>2 DEF PaneSet, PaneTypes
  <2>4. ran \in BOOLEAN /\ alert \in BOOLEAN /\ (q.ran => ran)
    BY <2>3
  <2>5. r \in PaneSet /\ r.channel = p.channel /\ r.absent = p.absent
    <3> HIDE DEF ran, alert, q, p
    <3> QED
      BY <2>2, <2>4, Marked
  <2>6. PushChannel(d, channel, bytes) = [d EXCEPT !.panes[i] = r]
    BY <1>2, Zenon DEF PushChannel, WithMarks
  <2> HIDE DEF i, p, r
  <2> QED
    BY <2>1, <2>5, <2>6, PaneChanged DEF p
<1> QED
  BY <1>1, <1>2

LEMMA TitlesPane ==
    ASSUME NEW d, Sound(d), NEW i \in DOMAIN d.panes, NEW title \in Names
    PROVE  Becomes(d, [d EXCEPT !.panes[i].title = title])
<1>1. d \in Desks /\ d.panes[i] \in PaneSet
  BY DeskParts DEF Sound
<1> DEFINE r == [d.panes[i] EXCEPT !.title = title]
<1>2. r \in PaneSet /\ r.channel = d.panes[i].channel /\ r.absent = d.panes[i].absent
  BY <1>1, Titled
<1>3. [d EXCEPT !.panes[i].title = title] = [d EXCEPT !.panes[i] = r]
  BY <1>1 DEF Desks
<1> HIDE DEF r
<1> QED
  BY <1>2, <1>3, PaneChanged

LEMMA SetsTitle ==
    ASSUME NEW d, Sound(d), NEW channel, NEW title \in Names
    PROVE  Becomes(d, SetChannelTitle(d, channel, title))
<1>1. CASE Holding(d, channel) = {}
  BY <1>1, BecomesItself DEF SetChannelTitle
<1>2. CASE Holding(d, channel) # {}
  <2>1. Min(Holding(d, channel)) \in DOMAIN d.panes
    BY <1>2, HoldingIn DEF Sound
  <2> QED
    BY <1>2, <2>1, TitlesPane DEF SetChannelTitle
<1> QED
  BY <1>1, <1>2

LEMMA Clears ==
    ASSUME NEW d, Sound(d), NEW i \in DOMAIN d.panes
    PROVE  Becomes(d, Cleared(d, i))
<1> DEFINE q == Emptied(d.panes[i])
           r == [q EXCEPT !.alert = FALSE]
<1>1. d \in Desks /\ d.panes[i] \in PaneSet
  BY DeskParts DEF Sound
<1>2. q \in PaneSet /\ q.channel = d.panes[i].channel /\ q.absent = d.panes[i].absent
  BY <1>1, EmptiedKeeps DEF TextOf
<1>3. r \in PaneSet /\ r.channel = q.channel /\ r.absent = q.absent
  <2> HIDE DEF q
  <2>1. q.ran \in BOOLEAN /\ r = WithMarks(q, q.ran, FALSE)
    BY <1>2 DEF PaneSet, PaneTypes, WithMarks
  <2> HIDE DEF r
  <2> QED
    BY <1>2, <2>1, Marked
<1>4. Cleared(d, i) = [d EXCEPT !.panes[i] = r]
  BY <1>1 DEF Cleared, Desks
<1> HIDE DEF q, r
<1> QED
  BY <1>2, <1>3, <1>4, PaneChanged

LEMMA ClearsChannel ==
    ASSUME NEW d, Sound(d), NEW channel
    PROVE  Becomes(d, ClearChannel(d, channel))
<1>1. CASE Holding(d, channel) = {}
  BY <1>1, BecomesItself DEF ClearChannel
<1>2. CASE Holding(d, channel) # {}
  <2>1. Min(Holding(d, channel)) \in DOMAIN d.panes
    BY <1>2, HoldingIn DEF Sound
  <2> QED
    BY <1>2, <2>1, Clears DEF ClearChannel
<1> QED
  BY <1>1, <1>2

LEMMA ScrollsPane ==
    ASSUME NEW d, Sound(d), d.panes # <<>>, NEW by \in Int
    PROVE  Becomes(d, CopyMove(d, by))
<1> DEFINE i == d.focus
           p == d.panes[i]
           back == Max({p.scroll + by, 0})
           scroll == Min({back, p.lines})
           r == [p EXCEPT !.scroll = scroll]
<1>1. d \in Desks /\ i \in DOMAIN d.panes
  BY DeskParts, EmptyIsZero DEF Sound, FocusOn
<1>2. p \in PaneSet
  BY <1>1, DeskParts
<1>3. scroll \in 0..p.lines
  <2>1. p.scroll + by \in Int /\ p.lines \in Nat
    BY <1>2, PaneParts, Sizes
  <2>2. back \in Nat
    BY <2>1, MaxOfTwo
  <2>3. back \in Int /\ p.lines \in Int
    BY <2>1, <2>2
  <2> HIDE DEF p, back
  <2>4. scroll = IF back <= p.lines THEN back ELSE p.lines
    BY <2>3, MinOfTwo
  <2> QED
    BY <2>1, <2>2, <2>4
<1>4. r \in PaneSet /\ r.channel = p.channel /\ r.absent = p.absent
  <2> HIDE DEF p, scroll
  <2> QED
    BY <1>2, <1>3, Scrolled
<1>5. CopyMove(d, by) = [d EXCEPT !.panes[i] = r]
  BY <1>1 DEF CopyMove, Desks
<1> HIDE DEF i, r
<1> QED
  BY <1>1, <1>4, <1>5, PaneChanged

-----------------------------------------------------------------------------
(* Panes that are new. *)
LEMMA SystemNames == ToSet(SystemKinds) = {"shell", "application", "debugger"}
  BY DEF ToSet, SystemKinds

LEMMA NewPaneFits ==
    ASSUME NEW c \in 0..MaxChannel, NEW title \in Names
    PROVE  /\ NewPane("application", c, title) \in PaneSet
           /\ NewPane("application", c, title).channel = c
           /\ NewPane("application", c, title).absent = 0
<1>1. ToSet(SystemKinds) = {"shell", "application", "debugger"}
  BY SystemNames
<1>2. 0 \in 0..Scrollback /\ 0 \in 0..(MaxLine - 1) /\ c \in 0..254 /\ c <= MaxChannel
  BY Sizes
<1> QED
  BY <1>1, <1>2 DEF NewPane, PaneSet, PaneTypes

LEMMA SystemPaneFits ==
    ASSUME NEW kind \in {"shell", "application", "debugger"}
    PROVE  /\ SystemPane(kind) \in PaneSet /\ SystemPane(kind).kind = kind
           /\ SystemPane(kind).absent = 0
           /\ SystemPane(kind).channel = IF kind = "shell" THEN 0
                                         ELSE IF kind = "application" THEN 1 ELSE 254
<1>1. ToSet(SystemKinds) = {"shell", "application", "debugger"}
  BY SystemNames
<1>2. 0 \in 0..Scrollback /\ 0 \in 0..(MaxLine - 1) /\ 1 <= MaxChannel
  BY Sizes
<1> DEFINE c == IF kind = "shell" THEN 0 ELSE IF kind = "application" THEN 1 ELSE 254
           title == Default[kind].title
<1>3. Default[kind].channel = c /\ c \in 0..254 /\ title \in Names
  <2>1. CASE kind = "shell"
    <3>1. Default[kind] = [channel |-> 0, title |-> "Shell"]
      BY <2>1 DEF Default
    <3>2. Default[kind].channel = 0 /\ title = "Shell"
      BY <3>1
    <3>3. c = 0 /\ 0 \in 0..254 /\ "Shell" \in Names
      BY <2>1, Sizes
    <3> QED
      BY <3>2, <3>3
  <2>2. CASE kind = "application"
    <3>1. Default[kind] = [channel |-> 1, title |-> "Application"]
      BY <2>2 DEF Default
    <3>2. Default[kind].channel = 1 /\ title = "Application"
      BY <3>1
    <3>3. c = 1 /\ 1 \in 0..254 /\ "Application" \in Names
      BY <2>2, Sizes
    <3> QED
      BY <3>2, <3>3
  <2>3. CASE kind = "debugger"
    <3>1. Default[kind] = [channel |-> 254, title |-> "Debugger"]
      BY <2>3 DEF Default
    <3>2. Default[kind].channel = 254 /\ title = "Debugger"
      BY <3>1
    <3>3. c = 254 /\ 254 \in 0..254 /\ "Debugger" \in Names
      BY <2>3, Sizes
    <3> QED
      BY <3>2, <3>3
  <2> QED
    BY <2>1, <2>2, <2>3
<1>4. SystemPane(kind) = NewPane(kind, c, title)
  BY <1>3 DEF SystemPane
<1> HIDE DEF c, title
<1>5. NewPane(kind, c, title) \in PaneTypes
  BY <1>1, <1>2, <1>3 DEF NewPane, PaneTypes
<1>6. NewPane(kind, c, title) \in PaneSet
  BY <1>2, <1>5 DEF NewPane, PaneSet, c
<1> QED
  BY <1>4, <1>6 DEF NewPane, c

LEMMA Adds ==
    ASSUME NEW d, Sound(d), NEW pane \in PaneSet, pane.absent = 0,
           Holding(d, pane.channel) = {}
    PROVE  Becomes(d, Added(d, pane))
<1> DEFINE n == Len(d.panes)
           panes == Append(d.panes, pane)
<1>1. d \in Desks /\ d.panes \in Seq(PaneSet) /\ n \in Nat /\ Apart(d.panes)
      /\ DOMAIN d.panes = 1..n /\ d.focus \in Nat
  BY DeskParts DEF Sound
<1>2. /\ panes \in Seq(PaneSet) /\ Len(panes) = n + 1 /\ DOMAIN panes = 1..(n + 1)
      /\ panes[n + 1] = pane /\ \A i \in 1..n : panes[i] = d.panes[i]
  BY <1>1
<1> HIDE DEF panes
<1>3. \A i \in 1..n : d.panes[i].channel # pane.channel
  BY <1>1 DEF Holding
<1>4. Apart(panes)
  <2> SUFFICES ASSUME NEW i \in 1..(n + 1), NEW j \in 1..(n + 1),
                      panes[i].channel = panes[j].channel
               PROVE  i = j \/ panes[i].channel = 0
      BY <1>2 DEF Apart
  <2>1. CASE i = n + 1 /\ j = n + 1
    BY <2>1
  <2>2. CASE i = n + 1 /\ j # n + 1
    <3>1. j \in 1..n
      BY <1>1, <2>2
    <3> QED
      BY <1>2, <1>3, <2>2, <3>1
  <2>3. CASE i # n + 1 /\ j = n + 1
    <3>1. i \in 1..n
      BY <1>1, <2>3
    <3> QED
      BY <1>2, <1>3, <2>3, <3>1
  <2>4. CASE i # n + 1 /\ j # n + 1
    <3>1. i \in 1..n /\ j \in 1..n
      BY <1>1, <2>4
    <3> QED
      BY <1>1, <1>2, <3>1 DEF Apart
  <2> QED
    BY <2>1, <2>2, <2>3, <2>4
<1>5. Follows(d.panes, panes)
  <2> SUFFICES ASSUME NEW i \in 1..(n + 1), panes[i].absent # 0
               PROVE  \E j \in 1..n : /\ d.panes[j].channel = panes[i].channel
                                      /\ d.panes[j].absent = panes[i].absent
      BY <1>1, <1>2 DEF Follows
  <2>1. i \in 1..n
    BY <1>1, <1>2
  <2> QED
    BY <1>2, <2>1
<1>6. panes # <<>>
  BY <1>1, <1>2, EmptyIsZero
<1>7. Added(d, pane) = [d EXCEPT !.panes = panes]
  BY DEF Added, panes
<1>8. FocusOn([d EXCEPT !.panes = panes])
  <2>1. /\ [d EXCEPT !.panes = panes].panes = panes
        /\ [d EXCEPT !.panes = panes].focus = d.focus
    BY <1>1, <1>2, <1>4, OtherPanes
  <2>2. d.focus = 1 \/ d.focus <= n + 1
    BY <1>1 DEF Sound, FocusOn
  <2> QED
    BY <1>2, <2>1, <2>2 DEF FocusOn
<1> QED
  BY <1>1, <1>2, <1>4, <1>5, <1>6, <1>7, <1>8, OtherPanes DEF Becomes, Sound

LEMMA AddsApplication ==
    ASSUME NEW d, Sound(d), NEW channel \in 0..MaxChannel, NEW title \in Names
    PROVE  Becomes(d, AddApplication(d, channel, title))
<1>1. CASE Holding(d, channel) # {}
  BY <1>1, SetsTitle DEF AddApplication
<1>2. CASE Holding(d, channel) = {}
  BY <1>2, NewPaneFits, Adds DEF AddApplication
<1> QED
  BY <1>1, <1>2

LEMMA UnusedLeast ==
    ASSUME NEW d, NEW low \in Nat, Unused(d, low..MaxChannel) # {}
    PROVE  /\ Min(Unused(d, low..MaxChannel)) \in low..MaxChannel
           /\ Holding(d, Min(Unused(d, low..MaxChannel))) = {}
<1> DEFINE free == Unused(d, low..MaxChannel)
<1>1. free \subseteq low..MaxChannel /\ \A c \in free : Holding(d, c) = {}
  BY DEF Unused
<1> HIDE DEF free
<1>2. Min(free) \in free
  <2>1. free \subseteq Nat /\ free # {}
    BY <1>1, Sizes DEF free
  <2> QED
    BY <2>1, MinOf
<1> QED
  BY <1>1, <1>2 DEF free

LEMMA Claims ==
    ASSUME NEW d, Sound(d), NEW title \in Names
    PROVE  Becomes(d, ClaimApplication(d, title))
<1> DEFINE fresh == {i \in OfKind(d, "application") : d.panes[i].title = "Application"}
           free == Unused(d, 1..MaxChannel)
<1>1. CASE fresh # {}
  <2>1. fresh \subseteq DOMAIN d.panes /\ DOMAIN d.panes \subseteq Nat
    BY DeskParts DEF OfKind, Sound
  <2> HIDE DEF fresh
  <2>2. Min(fresh) \in DOMAIN d.panes
    BY <1>1, <2>1, MinOf
  <2>3. ClaimApplication(d, title) = [d EXCEPT !.panes[Min(fresh)].title = title]
    BY <1>1 DEF ClaimApplication, fresh
  <2> QED
    BY <2>2, <2>3, TitlesPane
<1>2. CASE fresh = {} /\ free # {}
  <2>1. Min(free) \in 0..MaxChannel /\ Holding(d, Min(free)) = {}
    BY <1>2, UnusedLeast, Sizes
  <2>2. ClaimApplication(d, title) = Added(d, NewPane("application", Min(free), title))
    BY <1>2 DEF ClaimApplication, ClaimUnused
  <2> HIDE DEF free
  <2> QED
    BY <2>1, <2>2, NewPaneFits, Adds
<1>3. CASE fresh = {} /\ free = {}
  <2>1. ClaimApplication(d, title) = d
    BY <1>3 DEF ClaimApplication, ClaimUnused
  <2> QED
    BY <2>1, BecomesItself
<1> QED
  BY <1>1, <1>2, <1>3

LEMMA Assigns ==
    ASSUME NEW d, Sound(d), d.panes # <<>>, NEW c \in 1..MaxChannel, Holding(d, c) = {}
    PROVE  /\ Sound(AssignFocused(d, c)) /\ AssignFocused(d, c).panes # <<>>
           /\ \A i \in DOMAIN AssignFocused(d, c).panes :
                 \/ AssignFocused(d, c).panes[i].channel = c
                 \/ i \in DOMAIN d.panes /\ AssignFocused(d, c).panes[i] = d.panes[i]
<1> DEFINE k == d.focus
           p == d.panes[k]
           r == [p EXCEPT !.channel = c, !.title = "TTY", !.kind = "application"]
           panes == [d.panes EXCEPT ![k] = r]
<1>1. /\ d \in Desks /\ d.panes \in Seq(PaneSet) /\ Apart(d.panes) /\ Len(d.panes) \in Nat
      /\ DOMAIN d.panes = 1..Len(d.panes) /\ k \in DOMAIN d.panes /\ p \in PaneSet
  BY DeskParts, EmptyIsZero DEF Sound, FocusOn
<1>2. r \in PaneSet /\ r.channel = c
  <2>1. /\ c \in 0..254 /\ c <= MaxChannel /\ "TTY" \in Names
        /\ ToSet(SystemKinds) = {"shell", "application", "debugger"}
    BY Sizes, SystemNames
  <2>2. r \in PaneTypes
    <3>1. p \in PaneTypes
      BY <1>1 DEF PaneSet
    <3> HIDE DEF p
    <3> QED
      BY <2>1, <3>1 DEF PaneTypes
  <2>3. /\ r.kind = "application" /\ r.channel = c /\ r.ran = p.ran /\ r.ended = p.ended
        /\ r.absent = p.absent /\ r.lines = p.lines /\ r.scroll = p.scroll
    BY <1>1 DEF PaneSet, PaneTypes
  <2> HIDE DEF p, r
  <2> QED
    BY <1>1, <2>1, <2>2, <2>3 DEF PaneSet
<1>3. /\ panes \in Seq(PaneSet) /\ Len(panes) = Len(d.panes) /\ DOMAIN panes = DOMAIN d.panes
      /\ panes[k] = r /\ \A i \in DOMAIN d.panes : i # k => panes[i] = d.panes[i]
  <2> HIDE DEF r
  <2> QED
    BY <1>1, <1>2
<1>4. AssignFocused(d, c) = [d EXCEPT !.panes = panes]
  BY <1>1 DEF AssignFocused, Desks
<1> HIDE DEF r, panes
<1>5. Apart(panes)
  BY <1>1, <1>2, <1>3 DEF Apart, Holding
<1>6. panes # <<>>
  BY <1>1, <1>3, EmptyIsZero
<1> QED
  BY <1>1, <1>2, <1>3, <1>4, <1>5, <1>6, OtherPanes DEF Sound, FocusOn

-----------------------------------------------------------------------------
(* Panes that go. *)
LEMMA RetainedKeeps ==
    ASSUME NEW d \in Desks, NEW stay
    PROVE  /\ Retained(d.panes, stay) \in Seq(PaneSet) /\ Apart(Retained(d.panes, stay))
           /\ Follows(d.panes, Retained(d.panes, stay))
<1> DEFINE panes == d.panes
           kept == Retained(panes, stay)
           n == Len(panes)
<1>1. panes \in Seq(PaneSet) /\ Apart(panes) /\ n \in Nat /\ DOMAIN panes = 1..n
  BY DeskParts
<1> HIDE DEF panes, kept
<1>2. kept \in Seq(PaneSet) /\ \E at : Picks(kept, at, panes, stay, n)
  BY <1>1, RetainedPicks DEF kept
<1>3. PICK at : Picks(kept, at, panes, stay, n)
  BY <1>2
<1>4. DOMAIN kept = 1..Len(kept) /\ Len(kept) \in Nat
  BY <1>2
<1>5. /\ \A i \in 1..Len(kept) : at[i] \in 1..n /\ kept[i] = panes[at[i]]
      /\ \A i, j \in 1..Len(kept) : i < j => at[i] < at[j]
  BY <1>3 DEF Picks
<1>6. Apart(kept)
  <2> SUFFICES ASSUME NEW i \in 1..Len(kept), NEW j \in 1..Len(kept),
                      kept[i].channel = kept[j].channel
               PROVE  i = j \/ kept[i].channel = 0
      BY <1>4 DEF Apart
  <2>1. at[i] = at[j] \/ panes[at[i]].channel = 0
    BY <1>1, <1>5 DEF Apart
  <2>2. at[i] = at[j] => i = j
    <3>1. (i < j => at[i] < at[j]) /\ (j < i => at[j] < at[i]) /\ at[i] \in Nat /\ at[j] \in Nat
      BY <1>1, <1>5
    <3>2. i \in Nat /\ j \in Nat
      BY <1>4
    <3> QED
      BY <3>1, <3>2
  <2> QED
    BY <1>5, <2>1, <2>2
<1>7. Follows(panes, kept)
  <2> SUFFICES ASSUME NEW i \in 1..Len(kept)
               PROVE  \E j \in DOMAIN panes : /\ panes[j].channel = kept[i].channel
                                              /\ panes[j].absent = kept[i].absent
      BY <1>4 DEF Follows
  <2> QED
    BY <1>1, <1>5
<1> QED
  BY <1>2, <1>6, <1>7 DEF panes, kept

LEMMA Releases ==
    ASSUME NEW d, Sound(d), NEW channel
    PROVE  Sound(ReleaseChannel(d, channel)) /\ Follows(d.panes, ReleaseChannel(d, channel).panes)
<1> DEFINE stay == DOMAIN d.panes \ (Holding(d, channel) \cap OfKind(d, "application"))
           panes == Retained(d.panes, stay)
           focus == Clamped(d.focus, panes)
           less == [d EXCEPT !.panes = panes]
           e == [less EXCEPT !.focus = focus]
<1>1. d \in Desks /\ d.focus \in Nat /\ d.focus >= 1
  BY DeskParts DEF Sound
<1>2. panes \in Seq(PaneSet) /\ Apart(panes) /\ Follows(d.panes, panes) /\ Len(panes) \in Nat
  BY <1>1, RetainedKeeps
<1>3. focus \in Nat \ {0} /\ (focus = 1 \/ focus <= Len(panes))
  <2> HIDE DEF panes
  <2> DEFINE most == Max({Len(panes), 1})
  <2>1. most = IF Len(panes) >= 1 THEN Len(panes) ELSE 1
    BY <1>2, MaxOfTwo
  <2>2. most \in Int /\ d.focus \in Int
    BY <1>1, <1>2, <2>1
  <2>3. focus = IF d.focus <= most THEN d.focus ELSE most
    BY <2>2, MinOfTwo DEF Clamped
  <2> HIDE DEF most, focus, panes
  <2> QED
    BY <1>1, <1>2, <2>1, <2>3
<1>4. ReleaseChannel(d, channel) = e
  BY <1>1 DEF ReleaseChannel, Desks
<1> HIDE DEF stay, panes, focus
<1>5. less \in Desks /\ less.panes = panes
  BY <1>1, <1>2, OtherPanes
<1> HIDE DEF less
<1>6. e \in Desks /\ e.panes = panes /\ e.focus = focus
  BY <1>3, <1>5, OtherFocus
<1> QED
  BY <1>2, <1>3, <1>4, <1>6 DEF Sound, FocusOn

Without(T, seq, k, c) ==
    /\ c \in Seq(T) /\ Len(c) = Len(seq) - 1
    /\ \A i \in 1..(Len(seq) - 1) : c[i] = seq[IF i < k THEN i ELSE i + 1]

LEMMA RemovedElements ==
    ASSUME NEW T, NEW seq \in Seq(T), NEW k \in 1..Len(seq)
    PROVE  Without(T, seq, k, RemoveAt(seq, k))
<1>1. Len(seq) \in Nat /\ DOMAIN seq = 1..Len(seq)
  OBVIOUS
<1> DEFINE a == SubSeq(seq, 1, k - 1)
           b == SubSeq(seq, k + 1, Len(seq))
           c == a \o b
<1>2. a \in Seq(T) /\ Len(a) = k - 1 /\ \A i \in 1..(k - 1) : a[i] = seq[i]
  <2>1. PartOf(T, seq, 1, k - 1, a)
    BY <1>1, Parted
  <2> HIDE DEF a
  <2> QED
    BY <1>1, <2>1 DEF PartOf
<1>3. /\ b \in Seq(T) /\ Len(b) = Len(seq) - k
      /\ \A i \in 1..(Len(seq) - k) : b[i] = seq[k + i]
  <2>1. PartOf(T, seq, k + 1, Len(seq), b)
    BY <1>1, Parted
  <2> HIDE DEF b
  <2> QED
    BY <1>1, <2>1 DEF PartOf
<1>4. JoinOf(T, a, b, c)
  BY <1>2, <1>3, JoinParts
<1> HIDE DEF a, b, c
<1>5. ASSUME NEW i \in 1..(Len(seq) - 1)
      PROVE  c[i] = seq[IF i < k THEN i ELSE i + 1]
  <2>2. CASE i < k
    BY <1>1, <1>2, <1>4, <2>2 DEF JoinOf
  <2>3. CASE i >= k
    <3>1. /\ i - (k - 1) \in 1..(Len(seq) - k) /\ k + (i - (k - 1)) = i + 1
          /\ (k - 1) + (i - (k - 1)) = i /\ ~(i < k)
      BY <1>1, <2>3
    <3>2. c[(k - 1) + (i - (k - 1))] = b[i - (k - 1)]
      BY <1>2, <1>3, <1>4, <3>1 DEF JoinOf
    <3> QED
      BY <1>3, <3>1, <3>2
  <2> QED
    BY <1>1, <2>2, <2>3
<1>6. RemoveAt(seq, k) = c
  BY DEF RemoveAt, a, b, c
<1>7. c \in Seq(T) /\ Len(c) = Len(seq) - 1
  BY <1>1, <1>2, <1>3, <1>4 DEF JoinOf
<1> QED
  BY <1>5, <1>6, <1>7 DEF Without

LEMMA ClosesFocused ==
    ASSUME NEW d, Sound(d), d.panes # <<>>
    PROVE  Becomes(d, CloseFocused(d))
<1> DEFINE n == Len(d.panes)
           panes == RemoveAt(d.panes, d.focus)
           focus == Min({d.focus, n - 1})
           less == [d EXCEPT !.panes = panes]
           e == [less EXCEPT !.focus = focus]
<1>1. /\ d \in Desks /\ d.panes \in Seq(PaneSet) /\ n \in Nat /\ n # 0 /\ Apart(d.panes)
      /\ DOMAIN d.panes = 1..n /\ d.focus \in 1..n
  BY DeskParts, EmptyIsZero DEF Sound, FocusOn
<1>2. CASE n = 1
  BY <1>2, BecomesItself DEF CloseFocused
<1>3. CASE n # 1
  <2>1. /\ panes \in Seq(PaneSet) /\ Len(panes) = n - 1 /\ DOMAIN panes = 1..(n - 1)
        /\ \A i \in 1..(n - 1) : panes[i] = d.panes[IF i < d.focus THEN i ELSE i + 1]
    <3>1. Without(PaneSet, d.panes, d.focus, panes)
      BY <1>1, RemovedElements
    <3> HIDE DEF panes
    <3> QED
      BY <1>1, <3>1 DEF Without
  <2>2. focus \in Nat \ {0} /\ focus <= n - 1
    <3>1. focus = IF d.focus <= n - 1 THEN d.focus ELSE n - 1
      BY <1>1, MinOfTwo
    <3> HIDE DEF focus
    <3> QED
      BY <1>1, <1>3, <3>1
  <2>3. CloseFocused(d) = e
    BY <1>1, <1>3 DEF CloseFocused, Desks
  <2> HIDE DEF panes, focus
  <2> DEFINE at == [i \in 1..(n - 1) |-> IF i < d.focus THEN i ELSE i + 1]
  <2>a. \A i \in 1..(n - 1) : at[i] = IF i < d.focus THEN i ELSE i + 1
    OBVIOUS
  <2> HIDE DEF at
  <2>4. ASSUME NEW i \in 1..(n - 1)
        PROVE  at[i] \in 1..n /\ panes[i] = d.panes[at[i]]
    <3>1. at[i] = IF i < d.focus THEN i ELSE i + 1
      BY <2>a
    <3>2. panes[i] = d.panes[IF i < d.focus THEN i ELSE i + 1]
      BY <2>1
    <3>3. at[i] \in 1..n
      BY <1>1, <3>1
    <3> QED
      BY <3>1, <3>2, <3>3
  <2>5. ASSUME NEW i \in 1..(n - 1), NEW j \in 1..(n - 1), at[i] = at[j] PROVE i = j
    BY <1>1, <2>5, <2>a
  <2> HIDE DEF at
  <2>6. Apart(panes)
    <3> SUFFICES ASSUME NEW i \in 1..(n - 1), NEW j \in 1..(n - 1),
                        panes[i].channel = panes[j].channel
                 PROVE  i = j \/ panes[i].channel = 0
        BY <2>1 DEF Apart
    <3>1. at[i] = at[j] \/ d.panes[at[i]].channel = 0
      BY <1>1, <2>4 DEF Apart
    <3> QED
      BY <2>4, <2>5, <3>1
  <2>7. Follows(d.panes, panes)
    BY <1>1, <2>1, <2>4 DEF Follows
  <2>8. panes # <<>>
    <3>1. Len(panes) # 0
      BY <1>1, <1>3, <2>1
    <3> QED
      BY <2>1, <3>1, EmptyIsZero
  <2>9. less \in Desks /\ less.panes = panes
    BY <1>1, <2>1, <2>6, OtherPanes
  <2> HIDE DEF less
  <2>10. e \in Desks /\ e.panes = panes /\ e.focus = focus
    BY <2>2, <2>9, OtherFocus
  <2> QED
    BY <2>1, <2>2, <2>3, <2>7, <2>8, <2>10 DEF Becomes, Sound, FocusOn
<1> QED
  BY <1>2, <1>3

-----------------------------------------------------------------------------
(* System panes that return. *)
WithIn(T, seq, k, x, c) ==
    /\ c \in Seq(T) /\ Len(c) = Len(seq) + 1 /\ c[k] = x
    /\ \A i \in 1..Len(seq) : c[IF i < k THEN i ELSE i + 1] = seq[i]

LEMMA InsertedElements ==
    ASSUME NEW T, NEW seq \in Seq(T), NEW k \in 1..(Len(seq) + 1), NEW x \in T
    PROVE  WithIn(T, seq, k, x, InsertAt(seq, k, x))
<1>1. Len(seq) \in Nat /\ DOMAIN seq = 1..Len(seq)
  OBVIOUS
<1> DEFINE a == SubSeq(seq, 1, k - 1)
           b == SubSeq(seq, k, Len(seq))
           ax == a \o <<x>>
           c == ax \o b
<1>2. a \in Seq(T) /\ Len(a) = k - 1 /\ \A i \in 1..(k - 1) : a[i] = seq[i]
  <2>1. PartOf(T, seq, 1, k - 1, a)
    BY <1>1, Parted
  <2> HIDE DEF a
  <2> QED
    BY <1>1, <2>1 DEF PartOf
<1>3. /\ b \in Seq(T) /\ Len(b) = (Len(seq) - k) + 1
      /\ \A i \in 1..((Len(seq) - k) + 1) : b[i] = seq[k + i - 1]
  <2>1. PartOf(T, seq, k, Len(seq), b)
    BY <1>1, Parted
  <2> HIDE DEF b
  <2> QED
    BY <1>1, <2>1 DEF PartOf
<1>4. <<x>> \in Seq(T) /\ Len(<<x>>) = 1 /\ <<x>>[1] = x
  OBVIOUS
<1>5. JoinOf(T, a, <<x>>, ax)
  BY <1>2, <1>4, JoinParts
<1> HIDE DEF a, b, ax
<1>6. ax \in Seq(T) /\ Len(ax) = k /\ ax[k] = x /\ \A i \in 1..(k - 1) : ax[i] = seq[i]
  <2>1. ax[(k - 1) + 1] = <<x>>[1]
    BY <1>2, <1>4, <1>5 DEF JoinOf
  <2>2. (k - 1) + 1 = k
    BY <1>1
  <2>3. ax \in Seq(T) /\ Len(ax) = (k - 1) + 1 /\ \A i \in 1..(k - 1) : ax[i] = a[i]
    BY <1>2, <1>4, <1>5 DEF JoinOf
  <2> QED
    BY <1>2, <1>4, <2>1, <2>2, <2>3
<1>7. JoinOf(T, ax, b, c)
  BY <1>3, <1>6, JoinParts
<1> HIDE DEF c
<1>8. c \in Seq(T) /\ Len(c) = Len(seq) + 1 /\ c[k] = x
  <2>1. c \in Seq(T) /\ Len(c) = k + ((Len(seq) - k) + 1) /\ \A i \in 1..k : c[i] = ax[i]
    BY <1>3, <1>6, <1>7 DEF JoinOf
  <2>2. k \in 1..k /\ k + ((Len(seq) - k) + 1) = Len(seq) + 1
    BY <1>1
  <2> QED
    BY <1>6, <2>1, <2>2
<1>9. ASSUME NEW i \in 1..Len(seq) PROVE c[IF i < k THEN i ELSE i + 1] = seq[i]
  <2>1. CASE i < k
    <3>1. i \in 1..k /\ i \in 1..(k - 1)
      BY <1>1, <2>1
    <3> QED
      BY <1>6, <1>7, <2>1, <3>1 DEF JoinOf
  <2>2. CASE ~(i < k)
    <3>1. /\ (i - k) + 1 \in 1..((Len(seq) - k) + 1) /\ k + ((i - k) + 1) = i + 1
          /\ k + ((i - k) + 1) - 1 = i
      BY <1>1, <2>2
    <3>2. c[k + ((i - k) + 1)] = b[(i - k) + 1]
      BY <1>3, <1>6, <1>7, <3>1 DEF JoinOf
    <3>3. b[(i - k) + 1] = seq[k + ((i - k) + 1) - 1]
      BY <1>3, <3>1
    <3> QED
      BY <2>2, <3>1, <3>2, <3>3
  <2> QED
    BY <2>1, <2>2
<1>10. InsertAt(seq, k, x) = c
  BY DEF InsertAt, a, b, ax, c
<1> QED
  BY <1>8, <1>9, <1>10 DEF WithIn

(* A pane put in among the others moves those after it by one. *)
Shifted(i, at) == IF i < at THEN i ELSE i + 1

LEMMA Restores ==
    ASSUME NEW d \in Desks, NEW position \in 1..3
    PROVE  /\ RestoredAt(d, position) \in Desks
           /\ RestoredAt(d, position).panes # <<>>
           /\ Follows(d.panes, RestoredAt(d, position).panes)
           /\ d.focus \in DOMAIN d.panes =>
                 /\ RestoredAt(d, position).focus \in DOMAIN RestoredAt(d, position).panes
                 /\ Focused(RestoredAt(d, position)) = Focused(d)
<1> DEFINE kind == SystemKinds[position]
           pane == SystemPane(kind)
           n == Len(d.panes)
           at == Min({position, n + 1})
           panes == InsertAt(d.panes, at, pane)
           focus == FocusMoves(d, at)
           more == [d EXCEPT !.panes = panes]
           e == [more EXCEPT !.focus = focus]
<1>1. /\ d.panes \in Seq(PaneSet) /\ n \in Nat /\ Apart(d.panes) /\ DOMAIN d.panes = 1..n
      /\ d.focus \in Nat /\ d.focus >= 1 /\ \A i \in 1..n : d.panes[i] \in PaneSet
  BY DeskParts
<1>2. CASE OfKind(d, kind) # {}
  <2>1. RestoredAt(d, position) = d
    BY <1>2 DEF RestoredAt
  <2>2. d.panes # <<>>
    BY <1>1, <1>2, EmptyIsZero DEF OfKind
  <2> QED
    BY <2>1, <2>2 DEF Follows
<1>3. CASE OfKind(d, kind) = {}
  <2>1. kind \in {"shell", "application", "debugger"}
    BY DEF SystemKinds
  <2>2. /\ pane \in PaneSet /\ pane.absent = 0
        /\ pane.channel = IF kind = "shell" THEN 0 ELSE IF kind = "application" THEN 1 ELSE 254
    BY <2>1, SystemPaneFits
  <2>3. at \in 1..(n + 1)
    <3>1. at = IF position <= n + 1 THEN position ELSE n + 1
      BY <1>1, MinOfTwo
    <3> QED
      BY <1>1, <3>1
  <2>4. RestoredAt(d, position) = e
    BY <1>1, <1>3 DEF RestoredAt, Desks
  <2>5. focus \in Nat \ {0} /\ focus = Shifted(d.focus, at)
    BY <1>1, <2>3 DEF FocusMoves, Shifted
  <2> HIDE DEF kind, pane, at, focus
  <2>6. WithIn(PaneSet, d.panes, at, pane, panes)
    BY <1>1, <2>2, <2>3, InsertedElements
  <2> HIDE DEF panes
  <2>7. /\ panes \in Seq(PaneSet) /\ Len(panes) = n + 1 /\ DOMAIN panes = 1..(n + 1)
        /\ panes[at] = pane /\ \A i \in 1..n : panes[Shifted(i, at)] = d.panes[i]
    BY <1>1, <2>6 DEF WithIn, Shifted
  <2>8. \A i \in 1..(n + 1) : i # at => \E j \in 1..n : i = Shifted(j, at)
    <3> SUFFICES ASSUME NEW i \in 1..(n + 1), i # at PROVE \E j \in 1..n : i = Shifted(j, at)
        OBVIOUS
    <3>1. CASE i < at
      BY <1>1, <2>3, <3>1 DEF Shifted
    <3>2. CASE i > at
      <4>1. i - 1 \in 1..n /\ Shifted(i - 1, at) = i
        BY <1>1, <2>3, <3>2 DEF Shifted
      <4> QED
        BY <4>1
    <3> QED
      BY <1>1, <2>3, <3>1, <3>2
  <2>9. \A i \in 1..n : d.panes[i].channel = pane.channel => pane.channel = 0
    <3> SUFFICES ASSUME NEW i \in 1..n, d.panes[i].channel = pane.channel
                 PROVE  pane.channel = 0
        OBVIOUS
    <3>1. d.panes[i].kind # kind
      BY <1>1, <1>3 DEF OfKind
    <3>2. d.panes[i].kind \in {"shell", "application", "debugger"}
      BY <1>1, SystemNames DEF PaneSet, PaneTypes
    <3> QED
      BY <1>1, <2>1, <2>2, <3>1, <3>2, Sizes DEF PaneSet
  <2>10. Apart(panes)
    <3> SUFFICES ASSUME NEW i \in 1..(n + 1), NEW j \in 1..(n + 1),
                        panes[i].channel = panes[j].channel
                 PROVE  i = j \/ panes[i].channel = 0
        BY <2>7 DEF Apart
    <3>1. CASE i = at /\ j = at
      BY <3>1
    <3>2. CASE i = at /\ j # at
      <4>1. PICK k \in 1..n : j = Shifted(k, at)
        BY <2>8, <3>2
      <4> QED
        BY <2>7, <2>9, <3>2, <4>1
    <3>3. CASE i # at /\ j = at
      <4>1. PICK k \in 1..n : i = Shifted(k, at)
        BY <2>8, <3>3
      <4> QED
        BY <2>7, <2>9, <3>3, <4>1
    <3>4. CASE i # at /\ j # at
      <4>1. PICK k \in 1..n : i = Shifted(k, at)
        BY <2>8, <3>4
      <4>2. PICK l \in 1..n : j = Shifted(l, at)
        BY <2>8, <3>4
      <4>3. k = l \/ d.panes[k].channel = 0
        BY <1>1, <2>7, <4>1, <4>2 DEF Apart
      <4> QED
        BY <2>7, <4>1, <4>2, <4>3
    <3> QED
      BY <3>1, <3>2, <3>3, <3>4
  <2>11. Follows(d.panes, panes)
    <3> SUFFICES ASSUME NEW i \in 1..(n + 1), panes[i].absent # 0
                 PROVE  \E j \in 1..n : /\ d.panes[j].channel = panes[i].channel
                                        /\ d.panes[j].absent = panes[i].absent
        BY <1>1, <2>7 DEF Follows
    <3>1. i # at
      BY <2>2, <2>7
    <3>2. PICK k \in 1..n : i = Shifted(k, at)
      BY <2>8, <3>1
    <3> QED
      BY <2>7, <3>2
  <2>12. panes # <<>>
    <3>1. Len(panes) # 0
      BY <1>1, <2>7
    <3> QED
      BY <2>7, <3>1, EmptyIsZero
  <2>13. more \in Desks /\ more.panes = panes
    BY <2>7, <2>10, OtherPanes
  <2> HIDE DEF more
  <2>14. e \in Desks /\ e.panes = panes /\ e.focus = focus
    BY <2>5, <2>13, OtherFocus
  <2> HIDE DEF e
  <2>15. ASSUME d.focus \in 1..n
         PROVE  e.focus \in DOMAIN e.panes /\ Focused(e) = Focused(d)
    <3>1. focus \in 1..(n + 1) /\ panes[focus] = d.panes[d.focus]
      <4>1. panes[Shifted(d.focus, at)] = d.panes[d.focus]
        BY <2>7, <2>15
      <4>2. Shifted(d.focus, at) \in 1..(n + 1)
        BY <1>1, <2>15 DEF Shifted
      <4> QED
        BY <2>5, <4>1, <4>2
    <3> QED
      BY <2>7, <2>14, <3>1 DEF Focused
  <2> QED
    BY <1>1, <2>4, <2>11, <2>12, <2>14, <2>15
<1> QED
  BY <1>2, <1>3

LEMMA RestoresAll ==
    ASSUME NEW d \in Desks
    PROVE  /\ RestoreSystemPanes(d) \in Desks /\ RestoreSystemPanes(d).panes # <<>>
           /\ Follows(d.panes, RestoreSystemPanes(d).panes)
           /\ d.focus \in DOMAIN d.panes =>
                 /\ RestoreSystemPanes(d).focus \in DOMAIN RestoreSystemPanes(d).panes
                 /\ Focused(RestoreSystemPanes(d)) = Focused(d)
<1> DEFINE e == RestoredAt(d, 1)
           f == RestoredAt(e, 2)
           g == RestoredAt(f, 3)
<1>1. /\ e \in Desks /\ Follows(d.panes, e.panes)
      /\ d.focus \in DOMAIN d.panes => e.focus \in DOMAIN e.panes /\ Focused(e) = Focused(d)
  BY Restores
<1> HIDE DEF e
<1>2. /\ f \in Desks /\ Follows(e.panes, f.panes)
      /\ e.focus \in DOMAIN e.panes => f.focus \in DOMAIN f.panes /\ Focused(f) = Focused(e)
  BY <1>1, Restores
<1> HIDE DEF f
<1>3. /\ g \in Desks /\ Follows(f.panes, g.panes) /\ g.panes # <<>>
      /\ f.focus \in DOMAIN f.panes => g.focus \in DOMAIN g.panes /\ Focused(g) = Focused(f)
  BY <1>2, Restores
<1> HIDE DEF g
<1>4. RestoreSystemPanes(d) = g
  BY DEF RestoreSystemPanes, e, f, g
<1>5. Follows(d.panes, g.panes)
  BY <1>1, <1>2, <1>3 DEF Follows
<1> QED
  BY <1>1, <1>2, <1>3, <1>4, <1>5

LEMMA FocusIn ==
    ASSUME NEW d, Sound(d), d.panes # <<>>
    PROVE  d \in Desks /\ d.focus \in DOMAIN d.panes /\ DOMAIN d.panes = 1..Len(d.panes)
           /\ Len(d.panes) \in Nat /\ d.panes[d.focus] \in PaneSet
  BY DeskParts, EmptyIsZero DEF Sound, FocusOn

LEMMA OnFocus ==
    ASSUME NEW d \in Desks, d.focus \in DOMAIN d.panes PROVE Sound(d)
  BY DeskParts DEF Sound, FocusOn

LEMMA RestoresSystem ==
    ASSUME NEW d, Sound(d), d.panes # <<>>
    PROVE  Becomes(d, RestoreSystemPanes(d)) /\ Focused(RestoreSystemPanes(d)) = Focused(d)
  BY FocusIn, RestoresAll, OnFocus DEF Becomes

LEMMA ClosesEnded ==
    ASSUME NEW d, Sound(d)
    PROVE  Becomes(d, CloseEnded(d))
<1> DEFINE stay == {i \in DOMAIN d.panes : ~d.panes[i].ended}
           panes == Retained(d.panes, stay)
           kept == [d EXCEPT !.panes = panes]
           left == IF panes = <<>> THEN RestoreSystemPanes(kept) ELSE kept
           same == Holding(left, Focused(d).channel)
           focus == IF same = {} THEN 1 ELSE Min(same)
           e == [left EXCEPT !.focus = focus]
<1>1. d \in Desks
  BY DEF Sound
<1>2. panes \in Seq(PaneSet) /\ Apart(panes) /\ Follows(d.panes, panes)
  BY <1>1, RetainedKeeps
<1>3. CloseEnded(d) = e
  <2>1. kept.panes = panes
    BY <1>1 DEF Desks
  <2> QED
    BY <1>1, <2>1 DEF CloseEnded, Desks
<1> HIDE DEF stay, panes
<1>4. kept \in Desks /\ kept.panes = panes
  BY <1>1, <1>2, OtherPanes
<1> HIDE DEF kept
<1>5. left \in Desks /\ left.panes # <<>> /\ Follows(d.panes, left.panes)
  <2>1. CASE panes = <<>>
    <3>1. left \in Desks /\ left.panes # <<>> /\ Follows(kept.panes, left.panes)
      BY <1>4, <2>1, RestoresAll
    <3> HIDE DEF left
    <3> QED
      BY <1>2, <1>4, <3>1 DEF Follows
  <2>2. CASE panes # <<>>
    BY <1>2, <1>4, <2>2
  <2> QED
    BY <2>1, <2>2
<1> HIDE DEF left
<1>6. left.panes \in Seq(PaneSet) /\ DOMAIN left.panes = 1..Len(left.panes) /\ Len(left.panes) \in Nat
  BY <1>5, DeskParts
<1>7. focus \in Nat \ {0} /\ (focus = 1 \/ focus <= Len(left.panes))
  <2>1. same # {} => Min(same) \in 1..Len(left.panes)
    BY <1>5, <1>6, HoldingIn
  <2> HIDE DEF same
  <2> QED
    BY <1>6, <2>1
<1> HIDE DEF focus
<1>8. e \in Desks /\ e.panes = left.panes /\ e.focus = focus
  BY <1>5, <1>7, OtherFocus
<1> QED
  BY <1>3, <1>5, <1>7, <1>8 DEF Becomes, Sound, FocusOn

-----------------------------------------------------------------------------
(* The session file. *)
LayoutPanes(layout) ==
    [i \in DOMAIN layout |-> NewPane(layout[i][1], layout[i][2], layout[i][3])]
LayoutFits(layout) ==
    /\ LayoutPanes(layout) \in Seq(PaneSet) /\ LayoutPanes(layout) # <<>>
    /\ Apart(LayoutPanes(layout))

LEMMA BlankFits ==
    ASSUME NEW p \in PaneSet
    PROVE  /\ NewPane(p.kind, p.channel, p.title) \in PaneSet
           /\ NewPane(p.kind, p.channel, p.title).channel = p.channel
<1> DEFINE q == NewPane(p.kind, p.channel, p.title)
<1>1. p \in PaneTypes /\ 0 \in 0..Scrollback /\ 0 \in 0..(MaxLine - 1)
  BY Sizes DEF PaneSet
<1>2. q \in PaneTypes
  BY <1>1 DEF NewPane, PaneTypes
<1>3. /\ q.kind = p.kind /\ q.channel = p.channel /\ q.ended = FALSE /\ q.absent = 0
      /\ q.lines = 0 /\ q.scroll = 0
  BY DEF NewPane
<1> HIDE DEF q
<1>4. q \in PaneSet
  BY <1>2, <1>3 DEF PaneSet
<1> QED
  BY <1>3, <1>4 DEF q

LEMMA LayoutIsFit ==
    ASSUME NEW d, Sound(d), d.panes # <<>> PROVE LayoutFits(Layout(d))
<1> DEFINE n == Len(d.panes)
           panes == LayoutPanes(Layout(d))
<1>1. /\ d.panes \in Seq(PaneSet) /\ n \in Nat /\ n # 0 /\ DOMAIN d.panes = 1..n /\ Apart(d.panes)
      /\ \A i \in 1..n : d.panes[i] \in PaneSet
  BY DeskParts, EmptyIsZero DEF Sound
<1>2. panes = [i \in 1..n |-> NewPane(d.panes[i].kind, d.panes[i].channel, d.panes[i].title)]
  BY <1>1 DEF LayoutPanes, Layout
<1>3. \A i \in 1..n : panes[i] \in PaneSet /\ panes[i].channel = d.panes[i].channel
  BY <1>1, <1>2, BlankFits
<1>4. DOMAIN panes = 1..n /\ panes = [i \in 1..n |-> panes[i]]
  BY <1>2
<1> HIDE DEF panes
<1>5. panes \in Seq(PaneSet) /\ Len(panes) = n
  <2>1. panes \in [1..n -> PaneSet]
    BY <1>3, <1>4
  <2> HIDE DEF n
  <2> QED
    BY <1>1, <2>1, FunctionSeq
<1>6. Apart(panes)
  BY <1>1, <1>3, <1>4 DEF Apart
<1>7. panes # <<>>
  BY <1>1, <1>5, EmptyIsZero
<1> QED
  BY <1>5, <1>6, <1>7 DEF LayoutFits, panes

LEMMA RestoresLayout ==
    ASSUME NEW d, Sound(d), NEW layout, LayoutFits(layout)
    PROVE  Becomes(d, RestoreLayout(d, layout))
<1> DEFINE panes == LayoutPanes(layout)
           more == [d EXCEPT !.panes = panes]
           e == [more EXCEPT !.focus = 1]
<1>1. CASE layout = <<>>
  BY <1>1, BecomesItself DEF RestoreLayout
<1>2. CASE layout # <<>>
  <2>1. d \in Desks /\ panes \in Seq(PaneSet) /\ Apart(panes) /\ panes # <<>>
    BY DEF Sound, LayoutFits
  <2>2. RestoreLayout(d, layout) = e
    BY <1>2, <2>1 DEF RestoreLayout, LayoutPanes, Desks
  <2>3. \A i \in DOMAIN panes : panes[i].absent = 0
    BY DEF LayoutPanes, NewPane
  <2> HIDE DEF panes
  <2>4. more \in Desks /\ more.panes = panes
    BY <2>1, OtherPanes
  <2> HIDE DEF more
  <2>5. e \in Desks /\ e.panes = panes /\ e.focus = 1
    BY <2>4, OtherFocus
  <2>6. Follows(d.panes, panes)
    BY <2>3 DEF Follows
  <2> QED
    BY <2>1, <2>2, <2>5, <2>6 DEF Becomes, Sound, FocusOn
<1> QED
  BY <1>1, <1>2

-----------------------------------------------------------------------------
(* The commands that follow the prefix. *)
LEMMA FocusSet ==
    ASSUME NEW d, Sound(d), d.panes # <<>>, NEW k \in 1..Len(d.panes)
    PROVE  Becomes(d, [d EXCEPT !.focus = k])
<1> DEFINE e == [d EXCEPT !.focus = k]
<1>1. d \in Desks /\ k \in Nat \ {0}
  BY DeskParts DEF Sound
<1>2. e \in Desks /\ e.panes = d.panes /\ e.focus = k
  BY <1>1, OtherFocus
<1> HIDE DEF e
<1>3. Becomes(d, e)
  BY <1>2 DEF Becomes, Sound, FocusOn, Follows
<1> QED
  BY <1>3 DEF e

WithFlags(d, zoomed, help, copy, broadcast, armed) ==
    [d EXCEPT !.zoomed = zoomed, !.help = help, !.copy = copy, !.broadcast = broadcast,
              !.armed = armed]

LEMMA FlagsSet ==
    ASSUME NEW d, Sound(d), NEW z \in BOOLEAN, NEW h \in BOOLEAN, NEW c \in BOOLEAN,
           NEW b \in BOOLEAN, NEW a \in BOOLEAN
    PROVE  Becomes(d, WithFlags(d, z, h, c, b, a))
<1> DEFINE e == WithFlags(d, z, h, c, b, a)
<1>1. e \in Desks /\ e.panes = d.panes /\ e.focus = d.focus
  BY DEF Sound, Desks, WithFlags
<1> HIDE DEF e
<1>2. Becomes(d, e)
  BY <1>1 DEF Becomes, Sound, FocusOn, Follows
<1> QED
  BY <1>2 DEF e

LEMMA AlertOff ==
    ASSUME NEW d, Sound(d), d.panes # <<>>
    PROVE  Becomes(d, [d EXCEPT !.panes[d.focus].alert = FALSE])
<1> DEFINE k == d.focus
           p == d.panes[k]
           q == WithMarks(p, p.ran, FALSE)
<1>1. d \in Desks /\ k \in DOMAIN d.panes /\ p \in PaneSet
  BY FocusIn
<1>2. p.ran \in BOOLEAN
  BY <1>1 DEF PaneSet, PaneTypes
<1>3. q \in PaneSet /\ q.channel = p.channel /\ q.absent = p.absent
  <2> HIDE DEF p
  <2> QED
    BY <1>1, <1>2, Marked
<1>4. [d EXCEPT !.panes[k].alert = FALSE] = [d EXCEPT !.panes[k] = q]
  <2>1. q = [p EXCEPT !.alert = FALSE]
    <3> HIDE DEF p
    <3> QED
      BY <1>1 DEF WithMarks, PaneSet, PaneTypes
  <2> HIDE DEF q
  <2> QED
    BY <1>1, <2>1 DEF Desks
<1> HIDE DEF q
<1>5. Becomes(d, [d EXCEPT !.panes[k] = q])
  BY <1>1, <1>3, PaneChanged
<1> QED
  BY <1>4, <1>5

LEMMA NextFocus ==
    ASSUME NEW n \in Nat, NEW k \in 1..n
    PROVE  (k % n) + 1 \in 1..n /\ ((k + n - 2) % n) + 1 \in 1..n
<1>1. n >= 1 /\ k + n - 2 \in Int /\ k \in Int
  OBVIOUS
<1>2. k % n \in 0..(n - 1)
  BY <1>1
<1>3. (k + n - 2) % n \in 0..(n - 1)
  BY <1>1
<1> QED
  BY <1>1, <1>2, <1>3

LEMMA Commands ==
    ASSUME NEW desktop, Sound(desktop), desktop.panes # <<>>, NEW byte
    PROVE  Becomes(desktop, Command(desktop, byte))
<1> DEFINE d == IF byte = "b" THEN desktop ELSE [desktop EXCEPT !.armed = FALSE]
           n == Len(d.panes)
           digits == {Digits[i] : i \in 1..n \cap DOMAIN Digits}
           after ==
            CASE byte \in digits ->
                    [d EXCEPT !.focus = CHOOSE i \in 1..n \cap DOMAIN Digits : Digits[i] = byte]
              [] byte = "n" -> [d EXCEPT !.focus = (@ % n) + 1]
              [] byte = "p" -> [d EXCEPT !.focus = ((@ + n - 2) % n) + 1]
              [] byte = "z" -> [d EXCEPT !.help = FALSE, !.zoomed = ~@]
              [] byte = "x" -> CloseFocused(d)
              [] byte = "l" -> Cleared(d, d.focus)
              [] byte = "S" -> RestoreSystemPanes(d)
              [] byte = "c" -> CloseEnded(d)
              [] byte = "y" -> [d EXCEPT !.copy = ~@]
              [] byte = "b" -> IF d.armed THEN [d EXCEPT !.broadcast = ~@, !.armed = FALSE]
                               ELSE [d EXCEPT !.armed = TRUE]
              [] byte \in {"esc", "q"} /\ d.help -> [d EXCEPT !.help = FALSE]
              [] byte = "esc" /\ ~d.help ->
                    [d EXCEPT !.armed = FALSE, !.broadcast = FALSE, !.copy = FALSE]
              [] byte = "?" -> [d EXCEPT !.help = ~@]
              [] OTHER -> d
<1>1. Becomes(desktop, d)
  <2>1. CASE byte = "b"
    BY <2>1, BecomesItself
  <2>2. CASE byte # "b"
    <3>1. desktop.zoomed \in BOOLEAN /\ desktop.help \in BOOLEAN /\ desktop.copy \in BOOLEAN
          /\ desktop.broadcast \in BOOLEAN
      BY DeskParts DEF Sound
    <3>2. d = WithFlags(desktop, desktop.zoomed, desktop.help, desktop.copy, desktop.broadcast, FALSE)
      BY <2>2 DEF WithFlags, Sound, Desks
    <3> HIDE DEF d
    <3> QED
      BY <3>1, <3>2, FlagsSet
  <2> QED
    BY <2>1, <2>2
<1>2. Command(desktop, byte) =
         IF byte = "w" THEN d ELSE [after EXCEPT !.panes[after.focus].alert = FALSE]
  BY Zenon DEF Command
<1> HIDE DEF d
<1>3. Sound(d) /\ d.panes # <<>> /\ d \in Desks /\ n \in Nat /\ d.focus \in 1..n
  <2>1. Sound(d) /\ d.panes # <<>>
    BY <1>1 DEF Becomes
  <2> QED
    BY <2>1, FocusIn
<1>4. /\ d.zoomed \in BOOLEAN /\ d.help \in BOOLEAN /\ d.copy \in BOOLEAN
      /\ d.broadcast \in BOOLEAN /\ d.armed \in BOOLEAN
  BY <1>3, DeskParts
<1>5. ASSUME NEW z \in BOOLEAN, NEW h \in BOOLEAN, NEW c \in BOOLEAN, NEW b \in BOOLEAN,
             NEW a \in BOOLEAN, after = WithFlags(d, z, h, c, b, a)
      PROVE  Becomes(d, after)
  <2> HIDE DEF after
  <2> QED
    BY <1>3, <1>5, FlagsSet
<1>6. ASSUME NEW k \in 1..n, after = [d EXCEPT !.focus = k]
      PROVE  Becomes(d, after)
  <2> HIDE DEF after
  <2> QED
    BY <1>3, <1>6, FocusSet
<1>7. Becomes(d, after)
  <2>1. CASE byte \in digits
    <3> DEFINE k == CHOOSE i \in 1..n \cap DOMAIN Digits : Digits[i] = byte
    <3>1. k \in 1..n
      BY <2>1
    <3>2. after = [d EXCEPT !.focus = k]
      <4>1. byte \in {"1", "2", "3", "4", "5", "6", "7", "8", "9"}
        <5>1. PICK i \in 1..9 : byte = Digits[i]
          BY <2>1 DEF Digits
        <5>2. i \in {1, 2, 3, 4, 5, 6, 7, 8, 9}
          OBVIOUS
        <5> QED
          BY <5>1, <5>2 DEF Digits
      <4> HIDE DEF k, digits
      <4> QED
        BY <2>1, <4>1 DEF k
    <3> HIDE DEF k, after
    <3> QED
      BY <1>6, <3>1, <3>2
  <2>2. CASE byte \notin digits /\ byte \in {"n", "p"}
    <3>1. (d.focus % n) + 1 \in 1..n /\ ((d.focus + n - 2) % n) + 1 \in 1..n
      BY <1>3, NextFocus
    <3>2. \/ after = [d EXCEPT !.focus = (d.focus % n) + 1]
          \/ after = [d EXCEPT !.focus = ((d.focus + n - 2) % n) + 1]
      BY <2>2
    <3> HIDE DEF after, n
    <3> QED
      BY <1>6, <3>1, <3>2
  <2>3. CASE byte \notin digits /\ byte \in {"x", "l", "S", "c"}
    <3>1. \/ after = CloseFocused(d) \/ after = Cleared(d, d.focus)
          \/ after = RestoreSystemPanes(d) \/ after = CloseEnded(d)
      BY <2>3
    <3>2. d.focus \in DOMAIN d.panes
      BY <1>3, FocusIn
    <3> HIDE DEF after
    <3> QED
      BY <1>3, <3>1, <3>2, ClosesFocused, Clears, RestoresSystem, ClosesEnded
  <2>4. CASE byte \notin digits /\ byte \notin {"n", "p", "x", "l", "S", "c"}
    <3>1. \/ after = [d EXCEPT !.help = FALSE, !.zoomed = ~@] \/ after = [d EXCEPT !.copy = ~@]
          \/ after = [d EXCEPT !.broadcast = ~@, !.armed = FALSE]
          \/ after = [d EXCEPT !.armed = TRUE] \/ after = [d EXCEPT !.help = FALSE]
          \/ after = [d EXCEPT !.armed = FALSE, !.broadcast = FALSE, !.copy = FALSE]
          \/ after = [d EXCEPT !.help = ~@] \/ after = d
      BY <2>4
    <3> HIDE DEF after
    <3>2. d \in Desks
      BY <1>3
    <3>3. CASE after = [d EXCEPT !.help = FALSE, !.zoomed = ~@]
      <4>1. after = WithFlags(d, ~d.zoomed, FALSE, d.copy, d.broadcast, d.armed)
        BY <3>2, <3>3 DEF WithFlags, Desks
      <4> QED
        BY <1>4, <1>5, <4>1
    <3>4. CASE after = [d EXCEPT !.copy = ~@]
      <4>1. after = WithFlags(d, d.zoomed, d.help, ~d.copy, d.broadcast, d.armed)
        BY <3>2, <3>4 DEF WithFlags, Desks
      <4> QED
        BY <1>4, <1>5, <4>1
    <3>5. CASE after = [d EXCEPT !.broadcast = ~@, !.armed = FALSE]
      <4>1. after = WithFlags(d, d.zoomed, d.help, d.copy, ~d.broadcast, FALSE)
        BY <3>2, <3>5 DEF WithFlags, Desks
      <4> QED
        BY <1>4, <1>5, <4>1
    <3>6. CASE after = [d EXCEPT !.armed = TRUE]
      <4>1. after = WithFlags(d, d.zoomed, d.help, d.copy, d.broadcast, TRUE)
        BY <3>2, <3>6 DEF WithFlags, Desks
      <4> QED
        BY <1>4, <1>5, <4>1
    <3>7. CASE after = [d EXCEPT !.help = FALSE]
      <4>1. after = WithFlags(d, d.zoomed, FALSE, d.copy, d.broadcast, d.armed)
        BY <3>2, <3>7 DEF WithFlags, Desks
      <4> QED
        BY <1>4, <1>5, <4>1
    <3>8. CASE after = [d EXCEPT !.armed = FALSE, !.broadcast = FALSE, !.copy = FALSE]
      <4>1. after = WithFlags(d, d.zoomed, d.help, FALSE, FALSE, FALSE)
        BY <3>2, <3>8 DEF WithFlags, Desks
      <4> QED
        BY <1>4, <1>5, <4>1
    <3>9. CASE after = [d EXCEPT !.help = ~@]
      <4>1. after = WithFlags(d, d.zoomed, ~d.help, d.copy, d.broadcast, d.armed)
        BY <3>2, <3>9 DEF WithFlags, Desks
      <4> QED
        BY <1>4, <1>5, <4>1
    <3>10. CASE after = d
      BY <1>3, <3>10, BecomesItself
    <3> QED
      BY <3>1, <3>3, <3>4, <3>5, <3>6, <3>7, <3>8, <3>9, <3>10
  <2> QED
    BY <2>1, <2>2, <2>3, <2>4
<1> HIDE DEF after
<1>8. Becomes(after, [after EXCEPT !.panes[after.focus].alert = FALSE])
  BY <1>3, <1>7, AlertOff DEF Becomes
<1> QED
  BY <1>1, <1>2, <1>7, <1>8, BecomesNext

-----------------------------------------------------------------------------
(* Snapshots: the names of the processes, and which of them there are. *)
WithCount(p, title, ran, ended, absent) ==
    [p EXCEPT !.title = title, !.ran = ran, !.ended = ended, !.absent = absent]

LEMMA CountSet ==
    ASSUME NEW p \in PaneSet, NEW title \in Names, NEW ran \in BOOLEAN, NEW ended \in BOOLEAN,
           NEW absent \in 0..2, ended => absent = 2, absent > 0 => ran /\ p.kind = "application"
    PROVE  /\ WithCount(p, title, ran, ended, absent) \in PaneSet
           /\ WithCount(p, title, ran, ended, absent).channel = p.channel
           /\ WithCount(p, title, ran, ended, absent).absent = absent
<1> DEFINE q == [p EXCEPT !.title = title, !.ran = ran, !.ended = ended, !.absent = absent]
<1>1. p \in PaneTypes
  BY DEF PaneSet
<1>2. q \in PaneTypes
  BY <1>1 DEF PaneTypes
<1>3. /\ q.kind = p.kind /\ q.channel = p.channel /\ q.ran = ran /\ q.ended = ended
      /\ q.absent = absent /\ q.lines = p.lines /\ q.scroll = p.scroll
  BY <1>1 DEF PaneTypes
<1> HIDE DEF q
<1>4. q \in PaneSet
  BY <1>2, <1>3 DEF PaneSet
<1> QED
  BY <1>3, <1>4 DEF q, WithCount

LEMMA CountParts ==
    ASSUME NEW p \in PaneSet
    PROVE  /\ p.absent \in 0..2 /\ p.ran \in BOOLEAN /\ p.ended \in BOOLEAN
           /\ p.title \in Names /\ (p.absent > 0 => p.ran /\ p.kind = "application")
  BY DEF PaneSet, PaneTypes

LEMMA NamesChannel ==
    ASSUME NEW d, Sound(d), NEW channel, NEW title \in Names
    PROVE  Becomes(d, NameChannel(d, channel, title))
<1> DEFINE Fits(p) == p.channel = channel /\ p.kind = "application" /\ p.title # title
           panes == [i \in DOMAIN d.panes |->
                        IF Fits(d.panes[i])
                        THEN [d.panes[i] EXCEPT !.title = title, !.ended = FALSE, !.absent = 0]
                        ELSE d.panes[i]]
<1>1. d \in Desks /\ \A i \in DOMAIN d.panes : d.panes[i] \in PaneSet
  BY DeskParts DEF Sound
<1>2. title # "" => NameChannel(d, channel, title) = [d EXCEPT !.panes = panes]
  BY <1>1 DEF NameChannel, Desks
<1>3. ASSUME NEW p \in PaneSet
      PROVE  LET q == [p EXCEPT !.title = title, !.ended = FALSE, !.absent = 0]
             IN  q \in PaneSet /\ q.channel = p.channel /\ q.absent = 0
  <2> DEFINE q == [p EXCEPT !.title = title, !.ended = FALSE, !.absent = 0]
  <2>1. q = WithCount(p, title, p.ran, FALSE, 0)
    BY DEF WithCount, PaneSet, PaneTypes
  <2> HIDE DEF q
  <2>2. q \in PaneSet /\ q.channel = p.channel /\ q.absent = 0
    <3>1. PICK yes \in BOOLEAN, no \in BOOLEAN : yes = TRUE /\ no = FALSE
      OBVIOUS
    <3>2. q = WithCount(p, title, p.ran, no, 0)
      BY <2>1, <3>1
    <3>3. p.ran \in BOOLEAN /\ 0 \in 0..2 /\ ~(0 > 0)
      BY CountParts
    <3>4. (no => 0 = 2) /\ (0 > 0 => p.ran /\ p.kind = "application")
      BY <3>1, <3>3
    <3> HIDE DEF q
    <3> QED
      BY <3>2, <3>3, <3>4, CountSet
  <2> QED
    BY <2>2 DEF q
<1>4. ASSUME NEW i \in DOMAIN d.panes
      PROVE  /\ panes[i] \in PaneSet /\ panes[i].channel = d.panes[i].channel
             /\ panes[i].absent = 0 \/ panes[i].absent = d.panes[i].absent
  BY <1>1, <1>3
<1>5. panes \in [DOMAIN d.panes -> PaneSet]
  BY <1>4
<1> HIDE DEF panes
<1>6. Becomes(d, [d EXCEPT !.panes = panes])
  BY <1>4, <1>5, PanesChanged
<1>7. CASE title = ""
  <2>1. NameChannel(d, channel, title) = d
    BY <1>7 DEF NameChannel
  <2> QED
    BY <2>1, BecomesItself
<1> QED
  BY <1>2, <1>6, <1>7

(* What marking leaves of being counted absent. *)
Counted(p, q, live) ==
    \/ q.absent = 0
    \/ q.absent = 1 /\ q.channel + 1 \notin live
    \/ q.absent = 2 /\ q.channel + 1 \notin live /\ p.absent >= 1

LEMMA MarksPane ==
    ASSUME NEW p \in PaneSet, NEW live
    PROVE  LET q == MarkedPane(p, p.channel + 1 \in live)
           IN  q \in PaneSet /\ q.channel = p.channel /\ Counted(p, q, live)
<1> DEFINE q == MarkedPane(p, p.channel + 1 \in live)
<1>1. p.absent \in 0..2 /\ p.ran \in BOOLEAN /\ p.ended \in BOOLEAN /\ p \in PaneTypes
  BY DEF PaneSet, PaneTypes
<1>2. CASE p.kind # "application"
  <2>1. q = p
    BY <1>2 DEF MarkedPane
  <2>2. p.absent = 0
    BY <1>1, <1>2 DEF PaneSet
  <2> QED
    BY <2>1, <2>2 DEF Counted
<1>3. CASE p.kind = "application" /\ p.channel + 1 \in live
  <2>1. q = WithCount(p, p.title, TRUE, FALSE, 0)
    BY <1>1, <1>3 DEF MarkedPane, WithCount, PaneTypes
  <2> HIDE DEF q
  <2>2. q \in PaneSet /\ q.channel = p.channel /\ q.absent = 0
    <3>1. PICK yes \in BOOLEAN, no \in BOOLEAN : yes = TRUE /\ no = FALSE
      OBVIOUS
    <3>2. q = WithCount(p, p.title, yes, no, 0)
      BY <2>1, <3>1
    <3>3. p.title \in Names /\ 0 \in 0..2 /\ ~(0 > 0)
      BY CountParts
    <3>4. (no => 0 = 2) /\ (0 > 0 => yes /\ p.kind = "application")
      BY <3>1, <3>3
    <3> QED
      BY <3>2, <3>3, <3>4, CountSet
  <2> QED
    BY <2>2 DEF Counted, q
<1>4. CASE p.kind = "application" /\ p.channel + 1 \notin live /\ p.ran
  <2> DEFINE absent == Min({p.absent + 1, 2})
             ended == p.absent + 1 >= 2
  <2>1. q = WithCount(p, p.title, TRUE, ended, absent)
    <3>1. q = [p EXCEPT !.absent = absent, !.ended = ended]
      BY <1>4 DEF MarkedPane, AbsentEnough, AbsentTwice
    <3> HIDE DEF q, absent, ended
    <3> QED
      BY <1>1, <1>4, <3>1 DEF WithCount, PaneTypes
  <2>2. absent \in 1..2 /\ (absent = 2 <=> p.absent >= 1)
    <3>1. absent = IF p.absent + 1 <= 2 THEN p.absent + 1 ELSE 2
      BY <1>1, MinOfTwo
    <3> QED
      BY <1>1, <3>1
  <2>3. ended \in BOOLEAN /\ (ended => absent = 2)
    BY <1>1, <2>2
  <2> HIDE DEF q, absent, ended
  <2>4. q \in PaneSet /\ q.channel = p.channel /\ q.absent = absent
    <3>1. PICK yes \in BOOLEAN : yes = TRUE
      OBVIOUS
    <3>2. q = WithCount(p, p.title, yes, ended, absent)
      BY <2>1, <3>1
    <3>3. p.title \in Names /\ absent \in 0..2
      BY <2>2, CountParts
    <3>4. (ended => absent = 2) /\ (absent > 0 => yes /\ p.kind = "application")
      BY <1>4, <2>3, <3>1
    <3> QED
      BY <2>3, <3>2, <3>3, <3>4, CountSet
  <2>5. Counted(p, q, live)
    BY <1>4, <2>2, <2>4 DEF Counted
  <2> QED
    BY <2>4, <2>5 DEF q
<1>5. CASE p.kind = "application" /\ p.channel + 1 \notin live /\ ~p.ran
  <2>1. q = p
    BY <1>5 DEF MarkedPane
  <2>2. p.absent = 0
    BY <1>1, <1>5 DEF PaneSet
  <2> QED
    BY <2>1, <2>2 DEF Counted
<1> QED
  BY <1>2, <1>3, <1>4, <1>5

LEMMA MarksLive ==
    ASSUME NEW d, Sound(d), NEW live
    PROVE  LET e == MarkLive(d, live)
           IN  /\ Sound(e) /\ (d.panes # <<>> => e.panes # <<>>)
               /\ \A i \in DOMAIN e.panes :
                     /\ i \in DOMAIN d.panes /\ e.panes[i].channel = d.panes[i].channel
                     /\ Counted(d.panes[i], e.panes[i], live)
<1> DEFINE n == Len(d.panes)
           panes == [i \in DOMAIN d.panes |-> MarkedPane(d.panes[i], d.panes[i].channel + 1 \in live)]
           e == MarkLive(d, live)
<1>1. /\ d \in Desks /\ d.panes \in Seq(PaneSet) /\ n \in Nat /\ DOMAIN d.panes = 1..n
      /\ Apart(d.panes) /\ \A i \in 1..n : d.panes[i] \in PaneSet
  BY DeskParts DEF Sound
<1>2. e = [d EXCEPT !.panes = panes]
  BY <1>1 DEF MarkLive, Desks
<1>3. ASSUME NEW i \in 1..n
      PROVE  /\ panes[i] \in PaneSet /\ panes[i].channel = d.panes[i].channel
             /\ Counted(d.panes[i], panes[i], live)
  BY <1>1, MarksPane
<1>4. panes \in [1..n -> PaneSet]
  BY <1>1, <1>3
<1> HIDE DEF panes, e
<1>5. panes \in Seq(PaneSet) /\ Len(panes) = n /\ DOMAIN panes = 1..n
  <2> HIDE DEF n
  <2> QED
    BY <1>1, <1>4, FunctionSeq
<1>6. Apart(panes)
  BY <1>1, <1>3, <1>5 DEF Apart
<1>7. d.panes # <<>> => panes # <<>>
  BY <1>1, <1>5, EmptyIsZero
<1>8. e \in Desks /\ e.panes = panes /\ e.focus = d.focus
  BY <1>1, <1>2, <1>5, <1>6, OtherPanes
<1>9. Sound(e)
  BY <1>5, <1>8 DEF Sound, FocusOn
<1> QED
  BY <1>1, <1>3, <1>5, <1>7, <1>8, <1>9 DEF e

-----------------------------------------------------------------------------
(* The names of a whole snapshot, and the echo of a key in several panes. *)
NamedIn(process, d) == NameChannel(d, process[1] - 1, process[2])
AllNamed(d, processes) == FoldSet(NamedIn, d, processes)

LEMMA NamesChannels ==
    ASSUME NEW d, Sound(d), NEW S, IsFiniteSet(S), \A process \in S : process[2] \in Names
    PROVE  Becomes(d, AllNamed(d, S))
<1> DEFINE V == {e \in Desks : Becomes(d, e)}
           F == CHOOSE f : f = [s \in SUBSET S |-> IF s = {} THEN d
                                  ELSE NamedIn(CHOOSE x \in s : TRUE, f[s \ {CHOOSE x \in s : TRUE}])]
           pick == [s \in SUBSET S |-> CHOOSE x \in s : TRUE]
           step == [x \in S |-> [v \in V |-> NamedIn(x, v)]]
<1>1. AllNamed(d, S) = F[S]
  BY DEF AllNamed, FoldSet, MapThenFoldSet
<1>2. d \in V /\ \A x \in S : \A v \in V : NamedIn(x, v) \in V
  <2>1. d \in V
    BY BecomesItself DEF Sound
  <2>2. ASSUME NEW x \in S, NEW v \in V PROVE NamedIn(x, v) \in V
    <3>1. Sound(v) /\ x[2] \in Names
      BY DEF Becomes
    <3>2. Becomes(v, NamedIn(x, v))
      BY <3>1, NamesChannel DEF NamedIn
    <3>3. Becomes(d, NamedIn(x, v))
      BY <3>2, BecomesNext
    <3> QED
      BY <3>3 DEF Becomes, Sound
  <2> QED
    BY <2>1, <2>2
<1>3. \A s \in SUBSET S : s # {} => pick[s] \in s /\ pick[s] \in S
  <2> SUFFICES ASSUME NEW s \in SUBSET S, s # {} PROVE pick[s] \in s
      OBVIOUS
  <2>1. pick[s] = CHOOSE x \in s : TRUE
    OBVIOUS
  <2> QED
    BY <2>1
<1>4. Foldable(S, V, d, pick, step)
  <2>1. \A x \in S : \A v \in V : step[x][v] \in V
    BY <1>2
  <2> HIDE DEF V, pick, step
  <2> QED
    BY <1>2, <1>3, <2>1, FoldExists
<1>5. \E f : f = [s \in SUBSET S |-> IF s = {} THEN d
                     ELSE NamedIn(CHOOSE x \in s : TRUE, f[s \ {CHOOSE x \in s : TRUE}])]
  <2>1. PICK f \in [SUBSET S -> V] : \A s \in SUBSET S : f[s] = FoldStep(f, d, pick, step, s)
    BY <1>4 DEF Foldable
  <2>2. ASSUME NEW s \in SUBSET S
        PROVE  f[s] = IF s = {} THEN d
                      ELSE NamedIn(CHOOSE x \in s : TRUE, f[s \ {CHOOSE x \in s : TRUE}])
    <3>1. CASE s = {}
      BY <2>1, <3>1 DEF FoldStep
    <3>2. CASE s # {}
      <4>1. pick[s] = (CHOOSE x \in s : TRUE) /\ pick[s] \in S /\ f[s \ {pick[s]}] \in V
        BY <1>3, <3>2
      <4>2. f[s] = step[pick[s]][f[s \ {pick[s]}]]
        BY <2>1, <3>2 DEF FoldStep
      <4>3. f[s] = NamedIn(pick[s], f[s \ {pick[s]}])
        <5> HIDE DEF pick, V
        <5> QED
          BY <4>1, <4>2
      <4> HIDE DEF pick
      <4> QED
        BY <3>2, <4>1, <4>3
    <3> QED
      BY <3>1, <3>2
  <2> HIDE DEF V
  <2> QED
    BY <2>2
<1>6. \A s \in SUBSET S : F[s] = IF s = {} THEN d
                                 ELSE NamedIn(pick[s], F[s \ {pick[s]}])
  <2>1. F = [s \in SUBSET S |-> IF s = {} THEN d
                ELSE NamedIn(CHOOSE x \in s : TRUE, F[s \ {CHOOSE x \in s : TRUE}])]
    BY <1>5
  <2>2. \A s \in SUBSET S : pick[s] = CHOOSE x \in s : TRUE
    OBVIOUS
  <2> HIDE DEF F, pick
  <2> QED
    BY <2>1, <2>2
<1> HIDE DEF F, V, pick
<1>7. F[{}] \in V
  BY <1>2, <1>6
<1>8. \A s \in SUBSET S : s # {} => \E x \in s : F[s \ {x}] \in V => F[s] \in V
  <2> SUFFICES ASSUME NEW s \in SUBSET S, s # {} PROVE F[s \ {pick[s]}] \in V => F[s] \in V
      BY <1>3
  <2> QED
    BY <1>2, <1>3, <1>6
<1>9. F[S] \in V
  BY <1>7, <1>8, FoldStays
<1> QED
  BY <1>1, <1>9 DEF V

AllEchoed(d, byte, channels) ==
    FoldLeft(LAMBDA e, channel : PushChannel(e, channel, <<byte>>), d, channels)

LEMMA Echoes ==
    ASSUME NEW d, Sound(d), NEW byte, NEW T, NEW channels \in Seq(T)
    PROVE  Becomes(d, AllEchoed(d, byte, channels))
<1> DEFINE S == DOMAIN channels
           V == {e \in Desks : Becomes(d, e)}
           F == CHOOSE f : f = [s \in SUBSET S |-> IF s = {} THEN d
                                  ELSE PushChannel(f[s \ {Max(s)}], channels[Max(s)], <<byte>>)]
           pick == [s \in SUBSET S |-> Max(s)]
           step == [x \in S |-> [v \in V |-> PushChannel(v, channels[x], <<byte>>)]]
<1>1. AllEchoed(d, byte, channels) = F[S]
  BY DEF AllEchoed, FoldLeft, MapThenFoldSet
<1>2. S = 1..Len(channels) /\ Len(channels) \in Nat /\ IsFiniteSet(S)
  BY SequenceDomain
<1>3. \A s \in SUBSET S : s # {} => Max(s) \in s /\ Max(s) \in S
  BY <1>2, MaxOf
<1>4. d \in V /\ \A x \in S : \A v \in V : PushChannel(v, channels[x], <<byte>>) \in V
  <2>1. d \in V
    BY BecomesItself DEF Sound
  <2>2. ASSUME NEW x \in S, NEW v \in V PROVE PushChannel(v, channels[x], <<byte>>) \in V
    <3>1. Sound(v) /\ <<byte>> \in Seq({byte})
      BY DEF Becomes
    <3>2. Becomes(v, PushChannel(v, channels[x], <<byte>>))
      BY <3>1, Pushes
    <3>3. Becomes(d, PushChannel(v, channels[x], <<byte>>))
      BY <3>2, BecomesNext
    <3> QED
      BY <3>3 DEF Becomes, Sound
  <2> QED
    BY <2>1, <2>2
<1>5. Foldable(S, V, d, pick, step)
  <2>1. \A s \in SUBSET S : s # {} => pick[s] \in s
    BY <1>3
  <2>2. \A x \in S : \A v \in V : step[x][v] \in V
    BY <1>4
  <2> HIDE DEF S, V, pick, step
  <2> QED
    BY <1>2, <1>4, <2>1, <2>2, FoldExists
<1>6. \E f : f = [s \in SUBSET S |-> IF s = {} THEN d
                     ELSE PushChannel(f[s \ {Max(s)}], channels[Max(s)], <<byte>>)]
  <2>1. PICK f \in [SUBSET S -> V] : \A s \in SUBSET S : f[s] = FoldStep(f, d, pick, step, s)
    BY <1>5 DEF Foldable
  <2>2. ASSUME NEW s \in SUBSET S
        PROVE  f[s] = IF s = {} THEN d
                      ELSE PushChannel(f[s \ {Max(s)}], channels[Max(s)], <<byte>>)
    <3>1. CASE s = {}
      BY <2>1, <3>1 DEF FoldStep
    <3>2. CASE s # {}
      <4>1. Max(s) \in S /\ f[s \ {Max(s)}] \in V /\ pick[s] = Max(s)
        BY <1>3, <3>2
      <4>2. f[s] = step[pick[s]][f[s \ {pick[s]}]]
        BY <2>1, <3>2 DEF FoldStep
      <4> HIDE DEF S, V
      <4> QED
        BY <3>2, <4>1, <4>2
    <3> QED
      BY <3>1, <3>2
  <2> HIDE DEF S, V
  <2> QED
    BY <2>2
<1>7. \A s \in SUBSET S : F[s] = IF s = {} THEN d
                                 ELSE PushChannel(F[s \ {Max(s)}], channels[Max(s)], <<byte>>)
  <2>1. F = [s \in SUBSET S |-> IF s = {} THEN d
                ELSE PushChannel(F[s \ {Max(s)}], channels[Max(s)], <<byte>>)]
    BY <1>6
  <2> HIDE DEF F, S
  <2> QED
    BY <2>1
<1> HIDE DEF F, S, V
<1>8. F[{}] \in V
  BY <1>4, <1>7
<1>9. \A s \in SUBSET S : s # {} => \E x \in s : F[s \ {x}] \in V => F[s] \in V
  <2> SUFFICES ASSUME NEW s \in SUBSET S, s # {} PROVE F[s \ {Max(s)}] \in V => F[s] \in V
      BY <1>3
  <2> QED
    BY <1>3, <1>4, <1>7
<1>10. F[S] \in V
  BY <1>2, <1>8, <1>9, FoldStays
<1> QED
  BY <1>1, <1>10 DEF V

-----------------------------------------------------------------------------
(* Who has the keyboard. *)
LEMMA OneElement ==
    ASSUME NEW S, IsFiniteSet(S), Cardinality(S) = 1, NEW x \in S PROVE S = {x}
<1>1. IsFiniteSet(S \ {x}) /\ Cardinality(S \ {x}) = 0
  BY FS_RemoveElement
<1>2. S \ {x} = {}
  BY <1>1, FS_EmptySet
<1> QED
  BY <1>2

LEMMA TitleKeepsFocus ==
    ASSUME NEW d, Sound(d), d.panes # <<>>, NEW i \in DOMAIN d.panes, NEW title,
           NEW e, e = [d EXCEPT !.panes[i].title = title]
    PROVE  SamePane(d, e)
<1> DEFINE panes == [d.panes EXCEPT ![i].title = title]
<1>1. /\ d \in Desks /\ d.focus \in DOMAIN d.panes /\ d.panes[i] \in PaneSet
      /\ d.panes[d.focus] \in PaneSet
  BY FocusIn, DeskParts
<1>2. panes[d.focus].kind = d.panes[d.focus].kind /\ panes[d.focus].channel = d.panes[d.focus].channel
  BY <1>1 DEF PaneSet, PaneTypes
<1>3. e.panes = panes /\ e.focus = d.focus
  BY <1>1 DEF Desks
<1> QED
  BY <1>2, <1>3 DEF SamePane, Focused

LEMMA AddingKeepsFocus ==
    ASSUME NEW d, Sound(d), d.panes # <<>>, NEW pane \in PaneSet
    PROVE  SamePane(d, Added(d, pane))
<1>1. /\ d \in Desks /\ d.focus \in DOMAIN d.panes /\ d.panes \in Seq(PaneSet)
      /\ DOMAIN d.panes = 1..Len(d.panes)
  BY FocusIn, DeskParts
<1>2. Append(d.panes, pane)[d.focus] = d.panes[d.focus]
  BY <1>1
<1>3. Added(d, pane).panes = Append(d.panes, pane) /\ Added(d, pane).focus = d.focus
  BY <1>1 DEF Added, Desks
<1> QED
  BY <1>2, <1>3 DEF SamePane, Focused

LEMMA AddApplicationKeepsFocus ==
    ASSUME NEW d, Sound(d), d.panes # <<>>, NEW channel \in 0..MaxChannel, NEW title \in Names
    PROVE  SamePane(d, AddApplication(d, channel, title))
<1>1. CASE Holding(d, channel) # {}
  <2>1. Min(Holding(d, channel)) \in DOMAIN d.panes
    BY <1>1, HoldingIn DEF Sound
  <2> QED
    BY <1>1, <2>1, TitleKeepsFocus DEF AddApplication, SetChannelTitle
<1>2. CASE Holding(d, channel) = {}
  BY <1>2, NewPaneFits, AddingKeepsFocus DEF AddApplication
<1> QED
  BY <1>1, <1>2

LEMMA ClaimKeepsFocus ==
    ASSUME NEW d, Sound(d), d.panes # <<>>, NEW title \in Names
    PROVE  SamePane(d, ClaimApplication(d, title))
<1> DEFINE fresh == {i \in OfKind(d, "application") : d.panes[i].title = "Application"}
           free == Unused(d, 1..MaxChannel)
<1>1. CASE fresh # {}
  <2>1. fresh \subseteq DOMAIN d.panes /\ DOMAIN d.panes \subseteq Nat
    BY DeskParts DEF OfKind, Sound
  <2> HIDE DEF fresh
  <2>2. Min(fresh) \in DOMAIN d.panes
    BY <1>1, <2>1, MinOf
  <2>3. ClaimApplication(d, title) = [d EXCEPT !.panes[Min(fresh)].title = title]
    BY <1>1 DEF ClaimApplication, fresh
  <2> QED
    BY <2>2, <2>3, TitleKeepsFocus
<1>2. CASE fresh = {} /\ free # {}
  <2>1. Min(free) \in 0..MaxChannel
    BY <1>2, UnusedLeast
  <2>2. ClaimApplication(d, title) = Added(d, NewPane("application", Min(free), title))
    BY <1>2 DEF ClaimApplication, ClaimUnused
  <2> HIDE DEF free
  <2> QED
    BY <2>1, <2>2, NewPaneFits, AddingKeepsFocus
<1>3. CASE fresh = {} /\ free = {}
  BY <1>3 DEF ClaimApplication, ClaimUnused, SamePane
<1> QED
  BY <1>1, <1>2, <1>3

(* The pane that has not ended stays, and is found again by its channel: no
   other pane has it. *)
LEMMA CloseKeepsFocus ==
    ASSUME NEW d, Sound(d), d.panes # <<>>, ~Focused(d).ended, Unambiguous(d)
    PROVE  SamePane(d, CloseEnded(d))
<1> DEFINE stay == {i \in DOMAIN d.panes : ~d.panes[i].ended}
           panes == Retained(d.panes, stay)
           kept == [d EXCEPT !.panes = panes]
           channel == Focused(d).channel
           same == Holding(kept, channel)
           n == Len(d.panes)
<1>1. /\ d \in Desks /\ d.focus \in DOMAIN d.panes /\ DOMAIN d.panes = 1..n /\ n \in Nat
      /\ d.panes \in Seq(PaneSet) /\ d.panes[d.focus] \in PaneSet /\ d.focus \in stay
  BY FocusIn, DeskParts DEF Focused
<1>2. panes \in Seq(PaneSet) /\ Apart(panes) /\ \E at : Picks(panes, at, d.panes, stay, n)
  <2> HIDE DEF stay
  <2> QED
    BY <1>1, RetainedKeeps, RetainedPicks
<1>3. PICK at : Picks(panes, at, d.panes, stay, n)
  BY <1>2
<1>4. Holding(d, channel) = {d.focus}
  <2>1. d.focus \in Holding(d, channel) /\ Holding(d, channel) \subseteq 1..n
    BY <1>1 DEF Holding, Focused
  <2>2. IsFiniteSet(Holding(d, channel)) /\ Cardinality(Holding(d, channel)) = 1
    <3>1. IsFiniteSet(1..n)
      BY <1>1, FS_Interval
    <3> QED
      BY <2>1, <3>1, FS_Subset DEF Unambiguous
  <2> QED
    BY <2>1, <2>2, OneElement
<1> HIDE DEF stay
<1>5. kept \in Desks /\ kept.panes = panes
  BY <1>1, <1>2, OtherPanes
<1>6. DOMAIN panes = 1..Len(panes) /\ Len(panes) \in Nat
  BY <1>2
<1>7. ASSUME NEW i \in same PROVE i \in DOMAIN panes /\ panes[i] = Focused(d)
  <2>1. i \in 1..Len(panes) /\ panes[i].channel = channel
    BY <1>5, <1>6 DEF Holding
  <2>2. at[i] \in 1..n /\ panes[i] = d.panes[at[i]]
    BY <1>3, <2>1 DEF Picks
  <2>3. at[i] \in Holding(d, channel)
    BY <1>1, <2>1, <2>2 DEF Holding
  <2> QED
    BY <1>4, <1>6, <2>1, <2>2, <2>3 DEF Focused
<1>8. same # {}
  <2>1. PICK i \in 1..Len(panes) : at[i] = d.focus
    BY <1>1, <1>3 DEF Picks
  <2>2. panes[i] = d.panes[d.focus]
    BY <1>3, <2>1 DEF Picks
  <2>3. i \in same
    BY <1>5, <1>6, <2>1, <2>2 DEF Holding, Focused
  <2> QED
    BY <2>3
<1>9. Min(same) \in same
  BY <1>5, <1>8, HoldingIn
<1>10. panes # <<>>
  BY <1>7, <1>8
<1>11. CloseEnded(d) = [kept EXCEPT !.focus = Min(same)]
  BY <1>5, <1>8, <1>10 DEF CloseEnded, stay
<1>12. CloseEnded(d).panes = panes /\ CloseEnded(d).focus = Min(same)
  <2>1. Min(same) \in Nat \ {0}
    BY <1>6, <1>7, <1>9
  <2> HIDE DEF kept, same
  <2> QED
    BY <1>5, <1>11, <2>1, OtherFocus
<1> QED
  BY <1>7, <1>9, <1>12 DEF SamePane, Focused

LEMMA KeepsFocus ==
    ASSUME NEW d, Sound(d), d.panes # <<>> PROVE FocusKeptBy(d)
<1>1. SamePane(d, RestoreSystemPanes(d))
  BY RestoresSystem DEF SamePane
<1>2. "TTY" \in Names
  BY Sizes
<1> QED
  BY <1>1, <1>2, AddApplicationKeepsFocus, ClaimKeepsFocus, CloseKeepsFocus DEF FocusKeptBy
=============================================================================
