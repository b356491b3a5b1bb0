--------------------------- MODULE Windows_proofs ---------------------------
(***************************************************************************)
(* Theorems about the windowed frontend, for every size of its backlog and *)
(* of its panes, whatever the target sends and whatever is typed.          *)
(***************************************************************************)
EXTENDS Windows, Desktop_proofs

-----------------------------------------------------------------------------
(* The backlog: frames go into it until it is full, and one is dropped only
   when it is. *)
Grown(queue, n) == IF Len(queue) + n <= Backlog THEN Len(queue) + n ELSE Backlog

QueuedOnto(queue, frames) == FoldLeft(QueueSerial, queue, frames)

LEMMA QueueSerialType ==
    ASSUME NEW T, NEW queue \in Seq(T), NEW frame \in T, Len(queue) <= Backlog
    PROVE  /\ QueueSerial(queue, frame) \in Seq(T)
           /\ Len(QueueSerial(queue, frame)) = Grown(queue, 1)
           /\ Len(QueueSerial(queue, frame)) <= Backlog
<1>1. Backlog \in Nat /\ Len(queue) \in Nat
  BY WindowsAssumption
<1>2. CASE Len(queue) + 1 > Backlog
  BY <1>1, <1>2 DEF QueueSerial, Grown
<1>3. CASE Len(queue) + 1 <= Backlog
  BY <1>1, <1>3 DEF QueueSerial, Grown
<1> QED
  BY <1>1, <1>2, <1>3

LEMMA QueueGrows ==
    ASSUME NEW T, NEW queue \in Seq(T), Len(queue) <= Backlog, NEW frames \in Seq(T)
    PROVE  /\ QueuedOnto(queue, frames) \in Seq(T)
           /\ Len(QueuedOnto(queue, frames)) = Grown(queue, Len(frames))
<1> DEFINE S == DOMAIN frames
           V == {q \in Seq(T) : Len(q) <= Backlog}
           F == CHOOSE f : f = [s \in SUBSET S |-> IF s = {} THEN queue
                                  ELSE QueueSerial(f[s \ {Max(s)}], frames[Max(s)])]
           pick == [s \in SUBSET S |-> Max(s)]
           step == [x \in S |-> [v \in V |-> QueueSerial(v, frames[x])]]
<1>1. QueuedOnto(queue, frames) = F[S]
  BY DEF QueuedOnto, FoldLeft, MapThenFoldSet
<1>2. S = 1..Len(frames) /\ Len(frames) \in Nat /\ IsFiniteSet(S) /\ Cardinality(S) = Len(frames)
  BY SequenceDomain
<1>3. \A s \in SUBSET S : s # {} => Max(s) \in s
  BY <1>2, MaxOf
<1>4. queue \in V /\ \A x \in S : \A v \in V : QueueSerial(v, frames[x]) \in V
  <2> SUFFICES ASSUME NEW x \in S, NEW v \in V PROVE QueueSerial(v, frames[x]) \in V
      OBVIOUS
  <2>1. frames[x] \in T
    OBVIOUS
  <2> QED
    BY <2>1, QueueSerialType
<1>5. Foldable(S, V, queue, pick, step)
  <2>1. \A s \in SUBSET S : s # {} => pick[s] \in s
    BY <1>3
  <2>2. \A x \in S : \A v \in V : step[x][v] \in V
    BY <1>4
  <2>3. IsFiniteSet(S) /\ queue \in V
    BY <1>2, <1>4
  <2> HIDE DEF S, V, pick, step
  <2> QED
    BY <2>1, <2>2, <2>3, FoldExists
<1>6. \E f : f = [s \in SUBSET S |-> IF s = {} THEN queue
                                     ELSE QueueSerial(f[s \ {Max(s)}], frames[Max(s)])]
  <2>1. PICK f \in [SUBSET S -> V] : \A s \in SUBSET S : f[s] = FoldStep(f, queue, pick, step, s)
    BY <1>5 DEF Foldable
  <2>2. ASSUME NEW s \in SUBSET S
        PROVE  f[s] = IF s = {} THEN queue ELSE QueueSerial(f[s \ {Max(s)}], frames[Max(s)])
    <3>1. CASE s = {}
      BY <2>1, <3>1 DEF FoldStep
    <3>2. CASE s # {}
      <4>1. Max(s) \in S /\ f[s \ {Max(s)}] \in V /\ pick[s] = Max(s)
        BY <1>3, <3>2
      <4>2. f[s] = step[pick[s]][f[s \ {pick[s]}]]
        BY <2>1, <3>2 DEF FoldStep
      <4> QED
        BY <3>2, <4>1, <4>2
    <3> QED
      BY <3>1, <3>2
  <2> HIDE DEF S, V
  <2> QED
    BY <2>2
<1>7. \A s \in SUBSET S : F[s] = IF s = {} THEN queue
                                 ELSE QueueSerial(F[s \ {Max(s)}], frames[Max(s)])
  <2>1. F = [s \in SUBSET S |-> IF s = {} THEN queue
                                ELSE QueueSerial(F[s \ {Max(s)}], frames[Max(s)])]
    BY <1>6
  <2> HIDE DEF F, S
  <2> QED
    BY <2>1
<1> HIDE DEF F
<1> DEFINE R == {pair \in (SUBSET S) \X V : Len(pair[2]) = Grown(queue, Cardinality(pair[1]))}
<1>8. <<{}, F[{}]>> \in R
  <2>1. F[{}] = queue /\ Cardinality({}) = 0
    BY <1>7, FS_EmptySet
  <2>2. Grown(queue, 0) = Len(queue)
    BY WindowsAssumption DEF Grown
  <2> QED
    BY <1>4, <2>1, <2>2
<1>9. ASSUME NEW s \in SUBSET S, s # {}, <<s \ {Max(s)}, F[s \ {Max(s)}]>> \in R
      PROVE  <<s, F[s]>> \in R
  <2> DEFINE x == Max(s)
             less == s \ {x}
             q == F[less]
  <2>1. x \in s /\ x \in S /\ F[s] = QueueSerial(q, frames[x])
    BY <1>3, <1>7, <1>9
  <2>2. q \in V /\ Len(q) = Grown(queue, Cardinality(less))
    BY <1>9
  <2>3. Cardinality(less) \in Nat /\ Cardinality(s) = Cardinality(less) + 1
    <3> HIDE DEF x, S
    <3>1. /\ Cardinality(s) \in Nat /\ Cardinality(less) \in Nat
          /\ Cardinality(less) = Cardinality(s) - 1
      BY <1>2, <2>1, LessOne
    <3> QED
      BY <3>1
  <2>4. F[s] \in V /\ Len(F[s]) = Grown(q, 1)
    <3>1. frames[x] \in T
      BY <2>1
    <3> HIDE DEF x, q
    <3> QED
      BY <2>1, <2>2, <3>1, QueueSerialType
  <2>5. Grown(q, 1) = Grown(queue, Cardinality(s))
    <3> HIDE DEF less, q
    <3>1. Backlog \in Nat /\ Len(queue) \in Nat /\ Len(q) \in Nat
      BY <2>2, WindowsAssumption
    <3> QED
      BY <2>2, <2>3, <3>1 DEF Grown
  <2> QED
    BY <2>4, <2>5
<1>10. <<S, F[S]>> \in R
  <2>1. \A s \in SUBSET S : s # {} =>
           \E x \in s : <<s \ {x}, F[s \ {x}]>> \in R => <<s, F[s]>> \in R
    BY <1>3, <1>9
  <2> HIDE DEF R, S
  <2> QED
    BY <1>2, <1>8, <2>1, FoldKeeps
<1> QED
  BY <1>1, <1>2, <1>10
-----------------------------------------------------------------------------
(* What the variables besides the desktop hold. *)
HistoryType ==
    [live : (SUBSET Nat) \X (SUBSET Nat), assigned : SUBSET Nat,
     fresh : BOOLEAN, dropping : BOOLEAN, dropped : BOOLEAN]

TimesOK == history \in HistoryType /\ DOMAIN times = {"modes", "channels"}

LEMMA TimesStart == Init => TimesOK /\ TimeModesExact
<1> SUFFICES ASSUME Init PROVE TimesOK /\ TimeModesExact
    OBVIOUS
<1>1. history \in HistoryType
  BY DEF Init, HistoryType
<1>2. /\ DOMAIN times = {"modes", "channels"} /\ times.modes = {} /\ snapshot = None
      /\ times.channels = [c \in {} |-> None]
  BY DEF Init
<1>3. ActiveTimeModes(snapshot, times.channels) = {}
  BY <1>2 DEF ActiveTimeModes
<1> QED
  BY <1>1, <1>2, <1>3 DEF TimesOK, TimeModesExact

(* A step leaves what is known of the programs alone, or works out from it
   which time frames they wait for, or forgets it. *)
TimesKept == UNCHANGED <<times, snapshot>> /\ history'.fresh = history.fresh
TimesWorkedOut ==
    /\ times'.modes = ActiveTimeModes(snapshot', times'.channels)
    /\ DOMAIN times' = {"modes", "channels"}
TimesForgotten == times' = times /\ history'.fresh = FALSE

LEMMA NotifiedStep ==
    ASSUME TimesOK, NEW c, NEW title, Notified(c, title)
    PROVE  history' \in HistoryType /\ TimesWorkedOut
  BY DEF TimesOK, Notified, Retimed, HistoryType, TimesWorkedOut

LEMMA DroppingKept ==
    ASSUME history \in HistoryType, NEW d \in BOOLEAN,
           history' = [history EXCEPT !.dropping = d]
    PROVE  /\ history' \in HistoryType /\ history'.fresh = history.fresh
           /\ history'.dropping = d /\ history'.dropped = history.dropped
  BY DEF HistoryType

LEMMA DroppingIsBoolean ==
    ASSUME history \in HistoryType, NEW frames PROVE Dropping(frames) \in BOOLEAN
  BY DEF Dropping

LEMMA QueueKept ==
    ASSUME history \in HistoryType, NEW frames, Queue(frames)
    PROVE  /\ history' \in HistoryType /\ history'.fresh = history.fresh
           /\ history'.dropping = Dropping(frames) /\ history'.dropped = history.dropped
  BY DroppingIsBoolean, DroppingKept DEF Queue
LEMMA SerialSteps ==
    ASSUME Serial
    PROVE  \/ UNCHANGED <<history, times, snapshot>>
           \/ \E c, title : Notified(c, title) /\ UNCHANGED snapshot
           \/ \E lost : ResourceSnapshot(lost)
<1>1. CASE \/ \E c \in Channels : Process(c)
           \/ \E bytes \in session.bytes : PlainText(bytes)
           \/ \E c \in Channels, bytes \in session.bytes : TtyOutput(c, bytes)
           \/ Negotiated \/ DebugResponse \/ ProtocolError \/ DecodeError
           \/ FlowControl \/ LineLost
  BY <1>1 DEF Process, PlainText, TtyOutput, Negotiated, DebugResponse, ProtocolError,
              DecodeError, FlowControl, LineLost
<1>2. CASE \E c \in Channels, title \in Titles : ChannelOpen(c, title) \/ ChannelTitle(c, title)
  BY <1>2 DEF ChannelOpen, ChannelTitle, Notified
<1>3. CASE \E c \in Channels : ChannelClose(c)
  BY <1>3 DEF ChannelClose, Notified
<1>4. CASE \E lost \in SUBSET Records : ResourceSnapshot(lost)
  BY <1>4
<1> QED
  BY <1>1, <1>2, <1>3, <1>4 DEF Serial

LEMMA KeyboardSteps ==
    ASSUME Keyboard
    PROVE  \/ UNCHANGED <<history, times, snapshot>>
           \/ (\E frames : Queue(frames)) /\ UNCHANGED <<times, snapshot>>
           \/ Assign \/ Reconnect
<1>1. CASE Prefix \/ Split \/ LoadSession \/ Detach
  BY <1>1 DEF Prefix, Split, LoadSession, Detach
<1>2. CASE Request("k", "restart") \/ Request("B", "reboot") \/ EscapeFocused
  BY <1>2 DEF Request, EscapeFocused
<1>3. ASSUME NEW key, DeskCommand(key) \/ HelpKey(key) \/ CopyKey(key) \/ FramedKey(key)
                      \/ PlainKey(key)
      PROVE  \/ UNCHANGED <<history, times, snapshot>>
             \/ (\E frames : Queue(frames)) /\ UNCHANGED <<times, snapshot>>
  BY <1>3 DEF DeskCommand, HelpKey, CopyKey, FramedKey, PlainKey, ForPane
<1>4. ASSUME NEW key, NEW asks, DebuggerKey(key, asks)
      PROVE  \/ UNCHANGED <<history, times, snapshot>>
             \/ (\E frames : Queue(frames)) /\ UNCHANGED <<times, snapshot>>
  BY <1>4 DEF DebuggerKey, ForPane, DebuggerLine
<1> QED
  BY <1>1, <1>2, <1>3, <1>4 DEF Keyboard

LEMMA ChannelNumbers == Channels \subseteq 0..MaxChannel /\ MaxChannel \in Nat /\ MaxChannel < 254
  BY WindowsAssumption, DesktopAssumption DEF Channels

LEMMA SnapshotHistory ==
    ASSUME history \in HistoryType, NEW lost, ResourceSnapshot(lost)
    PROVE  /\ history' \in HistoryType /\ history'.fresh = TRUE
           /\ history'.live = <<Endpoints(snapshot'), history.live[1]>>
           /\ history'.assigned = history.assigned
           /\ history'.dropping = history.dropping /\ history'.dropped = history.dropped
<1>1. Endpoints(snapshot') \subseteq Nat
  <2> SUFFICES ASSUME NEW p \in snapshot' PROVE p[1] \in Nat
      BY DEF Endpoints, Running
  <2>1. PICK c \in Channels : p = Reported(c, lost)
    BY DEF ResourceSnapshot
  <2>2. p[1] = c + 1
    BY <2>1 DEF Reported
  <2> QED
    BY <2>2, ChannelNumbers
<1> DEFINE live == <<Endpoints(snapshot'), history.live[1]>>
<1>2. live \in (SUBSET Nat) \X (SUBSET Nat)
  BY <1>1 DEF HistoryType
<1>3. history' = [history EXCEPT !.fresh = TRUE, !.live = live]
  BY DEF ResourceSnapshot
<1> HIDE DEF live
<1>4. /\ history' \in HistoryType /\ history'.fresh = TRUE /\ history'.live = live
      /\ history'.assigned = history.assigned
      /\ history'.dropping = history.dropping /\ history'.dropped = history.dropped
  BY <1>2, <1>3 DEF HistoryType
<1> QED
  BY <1>4 DEF live

LEMMA AssignHistory ==
    ASSUME history \in HistoryType, Assign
    PROVE  /\ history' \in HistoryType /\ history'.fresh = history.fresh
           /\ history'.live = history.live
           /\ history'.dropping = history.dropping /\ history'.dropped = history.dropped
<1> DEFINE free == Unused(desk, 1..MaxChannel)
<1>1. CASE free = {}
  BY <1>1 DEF Assign
<1>2. CASE free # {}
  <2>1. Min(free) \in Nat
    BY <1>2, UnusedLeast, ChannelNumbers
  <2>2. history' = [history EXCEPT !.assigned = @ \cup {Min(free)}]
    BY <1>2 DEF Assign
  <2> HIDE DEF free
  <2> QED
    BY <2>1, <2>2 DEF HistoryType
<1> QED
  BY <1>1, <1>2

LEMMA TimesStep ==
    ASSUME TimesOK, [Next]_vars
    PROVE  history' \in HistoryType /\ (TimesKept \/ TimesWorkedOut \/ TimesForgotten)
<1>1. CASE UNCHANGED <<history, times, snapshot>>
  BY <1>1 DEF TimesOK, TimesKept
<1>2. ASSUME NEW c, NEW title, Notified(c, title)
      PROVE  history' \in HistoryType /\ TimesWorkedOut
  BY <1>2, NotifiedStep
<1>3. ASSUME NEW lost, ResourceSnapshot(lost)
      PROVE  history' \in HistoryType /\ TimesWorkedOut
  BY <1>3, SnapshotHistory DEF ResourceSnapshot, TimesOK, TimesWorkedOut
<1>4. ASSUME NEW frames, Queue(frames), UNCHANGED <<times, snapshot>>
      PROVE  history' \in HistoryType /\ TimesKept
  BY <1>4, QueueKept DEF TimesOK, TimesKept
<1>5. CASE Assign
  BY <1>5, AssignHistory DEF Assign, TimesOK, TimesKept
<1>6. CASE Reconnect
  BY <1>6, DroppingIsBoolean DEF Reconnect, TimesOK, HistoryType, TimesForgotten
<1>7. ASSUME NEW due, EndOfPass(due) PROVE history' \in HistoryType /\ TimesKept
  BY <1>7, DroppingIsBoolean DEF EndOfPass, TimesOK, HistoryType, TimesKept
<1> QED
  BY <1>1, <1>2, <1>3, <1>4, <1>5, <1>6, <1>7, SerialSteps, KeyboardSteps DEF Next, vars

LEMMA TimesPreserved ==
    TimesOK /\ TimeModesExact /\ [Next]_vars => TimesOK' /\ TimeModesExact'
<1> SUFFICES ASSUME TimesOK, TimeModesExact, [Next]_vars PROVE TimesOK' /\ TimeModesExact'
    OBVIOUS
<1>1. history' \in HistoryType /\ (TimesKept \/ TimesWorkedOut \/ TimesForgotten)
  BY TimesStep
<1>2. TimesOK'
  BY <1>1 DEF TimesOK, TimesKept, TimesWorkedOut, TimesForgotten
<1>3. TimeModesExact'
  BY <1>1 DEF TimesKept, TimesWorkedOut, TimesForgotten, TimeModesExact
<1> QED
  BY <1>2, <1>3

(* Whatever notifications and snapshots come, in whatever order, the host sends
   the time frames that the programs it knows of wait for, and no others. *)
THEOREM TimeModesCorrect == Spec => []TimeModesExact
BY TimesStart, TimesPreserved, PTL DEF Spec

-----------------------------------------------------------------------------
(* The desktop, the session file and the processes' names. *)
DeskOK ==
    /\ Sound(desk) /\ session \in Sessions
    /\ desk.panes = <<>> => "close" \in session.frames
    /\ saved # None => LayoutFits(saved)
    /\ slots \in [Channels -> Names \cup {None}]

LEMMA PushesBytes ==
    ASSUME NEW d, Sound(d), NEW channel, NEW a, NEW b
    PROVE  /\ Becomes(d, PushChannel(d, channel, <<>>))
           /\ Becomes(d, PushChannel(d, channel, <<a>>))
           /\ Becomes(d, PushChannel(d, channel, <<a, b>>))
<1>1. <<>> \in Seq({a, b}) /\ <<a>> \in Seq({a, b}) /\ <<a, b>> \in Seq({a, b})
  OBVIOUS
<1> QED
  BY <1>1, Pushes

LEMMA NameSets ==
    /\ Titles \subseteq Names /\ "TTY" \in Names /\ "shel" \in Names /\ "app" \in Names
    /\ \A c \in Channels : Programs[c] \subseteq Names
    /\ \A s \in Sessions : s.bytes \subseteq Seq(STRING)
<1>1. {"shel", "app"} \cup Titles \cup UNION {Programs[c] : c \in DOMAIN Programs} \subseteq Names
      /\ \A s \in Sessions : s.bytes \subseteq Seq(STRING)
  BY WindowsAssumption
<1> QED
  BY <1>1, Sizes DEF Channels

(* How a step changes the desktop: the panes are changed one way or another
   and never all taken away, unless by a close; or a snapshot marks them; or
   the focused one is given another channel. *)
Marks ==
    \E d : /\ Becomes(desk, d) /\ desk' = MarkLive(d, Endpoints(snapshot'))
           /\ \E lost : ResourceSnapshot(lost)
Assigned ==
    \E c \in 1..MaxChannel :
        /\ Holding(desk, c) = {} /\ desk' = AssignFocused(desk, c) /\ desk.panes # <<>>
        /\ history' = [history EXCEPT !.assigned = @ \cup {c}]
Released ==
    /\ Sound(desk') /\ Follows(desk.panes, desk'.panes) /\ "close" \in session.frames
DeskMoves == Becomes(desk, desk') \/ Released \/ Marks \/ Assigned

LEMMA SnapshotDesk ==
    ASSUME DeskOK, NEW lost, ResourceSnapshot(lost)
    PROVE  Marks
<1> DEFINE there == {c \in Channels : slots[c] # None}
           report == {Reported(c, lost) : c \in there}
<1>1. snapshot' = report
  BY DEF ResourceSnapshot
<1>2. IsFiniteSet(there)
  <2>1. there \subseteq Channels /\ Channels \subseteq 0..MaxChannel
    BY ChannelNumbers
  <2>2. IsFiniteSet(0..MaxChannel)
    <3>1. 0 \in Int /\ MaxChannel \in Int
      BY ChannelNumbers
    <3> QED
      BY <3>1, FS_Interval
  <2> QED
    BY <2>1, <2>2, FS_Subset
<1>3. \A process \in report : process[2] \in Names
  <2> SUFFICES ASSUME NEW c \in there PROVE Reported(c, lost)[2] \in Names
      OBVIOUS
  <2>1. slots[c] \in Names /\ "" \in Titles
    BY DEF DeskOK, Titles
  <2> QED
    BY <2>1, NameSets DEF Reported
<1>4. IsFiniteSet(report)
  <2> DEFINE reported == [c \in there |-> Reported(c, lost)]
  <2>1. report = {reported[c] : c \in there}
    OBVIOUS
  <2> HIDE DEF there
  <2>2. reported \in Surjection(there, report)
    BY <2>1 DEF Surjection
  <2> HIDE DEF reported, report
  <2> QED
    BY <1>2, <2>2, FS_Surjection DEF ExistsSurjection
<1> HIDE DEF report
<1>5. IsFiniteSet(Running(report)) /\ \A process \in Running(report) : process[2] \in Names
  <2>1. Running(report) \subseteq report
    BY DEF Running
  <2> QED
    BY <1>3, <1>4, <2>1, FS_Subset
<1>6. Becomes(desk, AllNamed(desk, Running(report)))
  BY <1>5, NamesChannels DEF DeskOK
<1>7. desk' = MarkLive(AllNamed(desk, Running(report)), Endpoints(snapshot'))
  <2>1. AllNamed(desk, Running(report)) = FoldSet(Named, desk, Running(report))
    BY DEF AllNamed, FoldSet, MapThenFoldSet, Named, NamedIn
  <2>2. desk' = MarkLive(FoldSet(Named, desk, Running(snapshot')), Endpoints(snapshot'))
    BY DEF ResourceSnapshot
  <2> QED
    BY <1>1, <2>1, <2>2
<1> QED
  BY <1>6, <1>7 DEF Marks

LEMMA SerialDesk == ASSUME DeskOK, Serial PROVE DeskMoves
<1>1. Sound(desk)
  BY DEF DeskOK
<1>2. CASE \/ \E c \in Channels : Process(c)
           \/ Negotiated \/ ProtocolError \/ DecodeError \/ FlowControl \/ LineLost
  <2>1. desk' = desk
    BY <1>2 DEF Process, Negotiated, ProtocolError, DecodeError, FlowControl, LineLost
  <2> QED
    BY <1>1, <2>1, BecomesItself DEF DeskMoves
<1>3. ASSUME NEW bytes \in session.bytes, PlainText(bytes) PROVE DeskMoves
  <2>1. bytes \in Seq(STRING)
    BY NameSets DEF DeskOK
  <2>2. Becomes(desk, PushChannel(desk, 0, bytes))
    BY <1>1, <2>1, Pushes
  <2> QED
    BY <1>3, <2>2 DEF PlainText, DeskMoves
<1>4. ASSUME NEW c \in Channels, NEW bytes \in session.bytes, TtyOutput(c, bytes) PROVE DeskMoves
  <2> DEFINE first == IF Holding(desk, c) # {} THEN desk ELSE AddApplication(desk, c, "TTY")
             shown == PushChannel(first, c, bytes)
  <2>1. bytes \in Seq(STRING) /\ c \in 0..MaxChannel
    BY NameSets, ChannelNumbers DEF DeskOK
  <2>2. Becomes(desk, first)
    BY <1>1, <2>1, BecomesItself, AddsApplication, NameSets
  <2> HIDE DEF first
  <2>3. Becomes(first, shown)
    BY <2>1, <2>2, Pushes DEF Becomes
  <2>4. Becomes(shown, DebuggerHelp(shown))
    <3>1. Sound(shown)
      BY <2>3 DEF Becomes
    <3> HIDE DEF shown
    <3>2. Becomes(shown, PushChannel(shown, 254, <<"newline", "char">>))
      BY <3>1, PushesBytes
    <3> QED
      BY <3>2 DEF DebuggerHelp
  <2>5. desk' = shown \/ desk' = DebuggerHelp(shown)
    BY <1>4 DEF TtyOutput, first
  <2> HIDE DEF shown
  <2>6. Becomes(desk, desk')
    BY <2>2, <2>3, <2>4, <2>5, BecomesNext
  <2> QED
    BY <2>6 DEF DeskMoves
<1>5. ASSUME NEW c \in Channels, NEW title \in Titles, ChannelOpen(c, title) PROVE DeskMoves
  <2> DEFINE name == IF title = "" THEN "TTY" ELSE title
  <2>1. c \in 0..MaxChannel /\ name \in Names
    BY NameSets, ChannelNumbers
  <2>2. Becomes(desk, ClearChannel(desk, c))
    BY <1>1, ClearsChannel
  <2>3. Becomes(ClearChannel(desk, c), AddApplication(ClearChannel(desk, c), c, name))
    <3> HIDE DEF name
    <3> QED
      BY <2>1, <2>2, AddsApplication DEF Becomes
  <2>4. Becomes(desk, AddApplication(ClearChannel(desk, c), c, name))
    <3> HIDE DEF name
    <3> QED
      BY <2>2, <2>3, BecomesNext
  <2> QED
    BY <1>5, <2>4 DEF ChannelOpen, DeskMoves
<1>6. ASSUME NEW c \in Channels, NEW title \in Titles, ChannelTitle(c, title) PROVE DeskMoves
  BY <1>1, <1>6, SetsTitle, NameSets DEF ChannelTitle, DeskMoves
<1>7. ASSUME NEW c \in Channels, ChannelClose(c) PROVE DeskMoves
  <2>1. "close" \in session.frames /\ desk' = ReleaseChannel(desk, c)
    BY <1>7 DEF ChannelClose, Frame, Arrived
  <2> QED
    BY <1>1, <2>1, Releases DEF DeskMoves, Released
<1>8. CASE DebugResponse
  BY <1>1, <1>8, PushesBytes DEF DebugResponse, DeskMoves
<1>9. CASE \E lost \in SUBSET Records : ResourceSnapshot(lost)
  BY <1>9, SnapshotDesk DEF DeskMoves
<1> QED
  BY <1>2, <1>3, <1>4, <1>5, <1>6, <1>7, <1>8, <1>9 DEF Serial

(* The kinds of panes that take input, and the channels a key goes to. *)
LEMMA InputSeq ==
    ASSUME NEW d, Sound(d)
    PROVE  InputChannels(d) \in Seq(0..254)
           \/ \E T : InputChannels(d) \in Seq(T)
<1>1. CASE d.broadcast
  <2> DEFINE readers == Retained(d.panes, {i \in DOMAIN d.panes : TakesInput(d.panes[i])})
  <2>1. readers \in Seq(PaneSet)
    BY RetainedKeeps DEF Sound
  <2>2. InputChannels(d) = [i \in DOMAIN readers |-> readers[i].channel]
    BY <1>1 DEF InputChannels
  <2> HIDE DEF readers
  <2>3. /\ DOMAIN readers = 1..Len(readers) /\ Len(readers) \in Nat
        /\ \A i \in DOMAIN readers : readers[i].channel \in 0..254
    BY <2>1 DEF PaneSet, PaneTypes
  <2>4. [i \in DOMAIN readers |-> readers[i].channel] \in [1..Len(readers) -> 0..254]
    BY <2>3
  <2> QED
    BY <2>2, <2>3, <2>4, FunctionSeq
<1>2. CASE ~d.broadcast
  <2>1. InputChannels(d) \in Seq({Focused(d).channel})
    BY <1>2 DEF InputChannels
  <2> QED
    BY <2>1
<1> QED
  BY <1>1, <1>2

LEMMA AssignDesk == ASSUME Assign PROVE Assigned \/ UNCHANGED <<desk, history>>
<1> DEFINE free == Unused(desk, 1..MaxChannel)
           c == Min(free)
<1>1. CASE free = {}
  BY <1>1 DEF Assign
<1>2. CASE free # {}
  <2>1. c \in 1..MaxChannel /\ Holding(desk, c) = {}
    BY <1>2, UnusedLeast
  <2>2. /\ desk' = AssignFocused(desk, c) /\ desk.panes # <<>>
        /\ history' = [history EXCEPT !.assigned = @ \cup {c}]
    BY <1>2 DEF Assign, Commanded, Pressed, Press
  <2> HIDE DEF c
  <2> QED
    BY <2>1, <2>2 DEF Assigned
<1> QED
  BY <1>1, <1>2

LEMMA CommandKeysDesk ==
    ASSUME DeskOK, \/ Split \/ Assign \/ LoadSession \/ Reconnect
                   \/ Request("k", "restart") \/ Request("B", "reboot") \/ EscapeFocused
    PROVE  DeskMoves
<1>1. Sound(desk)
  BY DEF DeskOK
<1>2. CASE Split
  <2> DEFINE free == Unused(desk, 2..MaxChannel)
  <2>1. desk' = IF free = {} THEN desk ELSE AddApplication(desk, Min(free), "TTY")
    BY <1>2 DEF Split
  <2>2. free # {} => Min(free) \in 0..MaxChannel
    <3>1. free # {} => Min(free) \in 2..MaxChannel
      BY UnusedLeast
    <3> HIDE DEF free
    <3> QED
      BY <3>1, ChannelNumbers
  <2> HIDE DEF free
  <2> QED
    BY <1>1, <2>1, <2>2, BecomesItself, AddsApplication, NameSets DEF DeskMoves
<1>3. CASE Assign
  BY <1>1, <1>3, AssignDesk, BecomesItself DEF DeskMoves
<1>4. CASE LoadSession
  BY <1>1, <1>4, BecomesItself, RestoresLayout DEF LoadSession, DeskOK, DeskMoves
<1>5. CASE Reconnect
  BY <1>1, <1>5, PushesBytes DEF Reconnect, DeskMoves
<1>6. CASE Request("k", "restart") \/ Request("B", "reboot")
  BY <1>1, <1>6, PushesBytes DEF Request, DeskMoves
<1>7. CASE EscapeFocused
  <2>1. desk' = desk \/ desk' = PushChannel(desk, Focused(desk).channel, <<"char">>)
    BY <1>7 DEF EscapeFocused
  <2> QED
    BY <1>1, <2>1, BecomesItself, PushesBytes DEF DeskMoves
<1> QED
  BY <1>2, <1>3, <1>4, <1>5, <1>6, <1>7

LEMMA Moves == \A key \in DOMAIN CopyMoves : CopyMoves[key] \in Int
  BY Sizes DEF CopyMoves

LEMMA Claimed ==
    ASSUME DeskOK, NEW key
    PROVE  Becomes(desk, Claiming(key))
<1>1. Sound(desk) /\ "app" \in Names
  BY NameSets DEF DeskOK
<1> QED
  BY <1>1, BecomesItself, Claims DEF Claiming

LEMMA KeysDesk ==
    ASSUME DeskOK, NEW key, \/ DeskCommand(key) \/ HelpKey(key) \/ CopyKey(key)
                            \/ FramedKey(key) \/ PlainKey(key)
    PROVE  DeskMoves
<1>1. Sound(desk) /\ desk.panes # <<>>
  BY DEF DeskOK, DeskCommand, HelpKey, CopyKey, FramedKey, PlainKey, ForPane, Typed, Commanded,
         Pressed, Press
<1>2. CASE DeskCommand(key) \/ HelpKey(key)
  BY <1>1, <1>2, Commands DEF DeskCommand, HelpKey, DeskMoves
<1>3. CASE CopyKey(key)
  <2>1. \/ desk' = desk \/ desk' = Command(desk, "y")
        \/ key \in DOMAIN CopyMoves /\ desk' = CopyMove(desk, CopyMoves[key])
    <3>1. {"A", "B"} \subseteq DOMAIN CopyMoves
      BY DEF CopyMoves
    <3> QED
      BY <1>3, <3>1 DEF CopyKey
  <2> QED
    BY <1>1, <2>1, BecomesItself, Commands, ScrollsPane, Moves DEF DeskMoves
<1>4. CASE FramedKey(key)
  <2> DEFINE claimed == Claiming(key)
             channels == InputChannels(claimed)
             echo == CASE key = "enter" -> "newline" [] key = "erase" -> "erase" [] OTHER -> "char"
  <2>1. desk' = AllEchoed(claimed, echo, channels)
    BY <1>4 DEF FramedKey, AllEchoed, FoldLeft, MapThenFoldSet
  <2>2. Becomes(desk, claimed)
    BY Claimed
  <2> HIDE DEF claimed
  <2>3. PICK T : channels \in Seq(T)
    BY <2>2, InputSeq DEF Becomes
  <2> HIDE DEF channels, echo
  <2>4. Becomes(claimed, AllEchoed(claimed, echo, channels))
    BY <2>2, <2>3, Echoes DEF Becomes
  <2>5. Becomes(desk, desk')
    BY <2>1, <2>2, <2>4, BecomesNext
  <2> QED
    BY <2>5 DEF DeskMoves
<1>5. CASE PlainKey(key)
  BY <1>1, <1>5, BecomesItself DEF PlainKey, DeskMoves
<1> QED
  BY <1>2, <1>3, <1>4, <1>5

LEMMA DebuggerDesk ==
    ASSUME DeskOK, NEW key, NEW asks, DebuggerKey(key, asks) PROVE DeskMoves
<1>1. Sound(desk)
  BY DEF DeskOK
<1> DEFINE T == {"newline", "char", "erase"}
           bytes == CASE key = "enter" -> IF asks THEN <<"newline">> ELSE <<"newline", "char">>
                      [] key = "erase" /\ keyboard.debug # <<>> -> <<"erase">>
                      [] Printable(key) -> <<"char">>
                      [] OTHER -> <<>>
<1>2. desk' = PushChannel(desk, 254, bytes)
  BY DEF DebuggerKey
<1>3. bytes \in Seq(T)
  <2>1. /\ <<"newline">> \in Seq(T) /\ <<"newline", "char">> \in Seq(T) /\ <<"erase">> \in Seq(T)
        /\ <<"char">> \in Seq(T) /\ <<>> \in Seq(T)
    OBVIOUS
  <2> HIDE DEF T
  <2>2. CASE key = "enter"
    BY <2>1, <2>2 DEF Printable
  <2>3. CASE key = "erase" /\ keyboard.debug # <<>>
    BY <2>1, <2>3 DEF Printable
  <2>4. CASE Printable(key)
    BY <2>1, <2>4 DEF Printable
  <2>5. CASE key # "enter" /\ ~(key = "erase" /\ keyboard.debug # <<>>) /\ ~Printable(key)
    BY <2>1, <2>5
  <2> QED
    BY <2>2, <2>3, <2>4, <2>5
<1> HIDE DEF bytes, T
<1> QED
  BY <1>1, <1>2, <1>3, Pushes DEF DeskMoves

LEMMA DeskSteps == ASSUME DeskOK, [Next]_vars PROVE DeskMoves
<1>1. Sound(desk)
  BY DEF DeskOK
<1>2. CASE UNCHANGED vars
  BY <1>1, <1>2, BecomesItself DEF vars, DeskMoves
<1>3. CASE Serial
  BY <1>3, SerialDesk
<1>4. CASE Prefix \/ Detach
  <2>1. desk' = desk
    BY <1>4 DEF Prefix, Detach
  <2> QED
    BY <1>1, <2>1, BecomesItself DEF DeskMoves
<1>5. CASE Keyboard
  BY <1>4, <1>5, CommandKeysDesk, KeysDesk, DebuggerDesk DEF Keyboard
<1>6. ASSUME NEW due, EndOfPass(due) PROVE DeskMoves
  <2>1. desk' = desk \/ desk' = PushChannel(desk, 254, <<"char">>)
    BY <1>6 DEF EndOfPass
  <2> QED
    BY <1>1, <2>1, BecomesItself, PushesBytes DEF DeskMoves
<1> QED
  BY <1>2, <1>3, <1>5, <1>6 DEF Next

LEMMA SavedSteps ==
    ASSUME DeskOK, [Next]_vars
    PROVE  session' = session /\ (saved' # None => LayoutFits(saved'))
           /\ slots' \in [Channels -> Names \cup {None}]
<1>1. /\ saved # None => LayoutFits(saved)
      /\ slots \in [Channels -> Names \cup {None}]
  BY DEF DeskOK
<1>2. CASE UNCHANGED <<session, saved, slots>>
  BY <1>1, <1>2
<1>3. ASSUME NEW c \in Channels, Process(c) PROVE UNCHANGED <<session, saved>>
                                                  /\ slots' \in [Channels -> Names \cup {None}]
  <2>1. PICK name \in Programs[c] \cup {None} : slots' = [slots EXCEPT ![c] = name]
    BY <1>3 DEF Process
  <2>2. name \in Names \cup {None}
    BY NameSets
  <2> QED
    BY <1>1, <1>3, <2>1, <2>2 DEF Process
<1>4. ASSUME Serial, ~(\E c \in Channels : Process(c)) PROVE UNCHANGED <<session, saved, slots>>
  BY <1>4 DEF Serial, PlainText, TtyOutput, ChannelOpen, ChannelTitle, ChannelClose,
              ResourceSnapshot, Negotiated, DebugResponse, ProtocolError, DecodeError, FlowControl,
              LineLost, Frame, Arrived, Item
<1>5. ASSUME NEW key, DeskCommand(key)
      PROVE  UNCHANGED <<session, slots>> /\ (saved' # None => LayoutFits(saved'))
  <2>1. Sound(desk) /\ desk.panes # <<>>
    BY <1>5 DEF DeskOK, DeskCommand, Commanded, Pressed, Press
  <2>2. saved' = Layout(desk) \/ saved' = saved
    BY <1>5 DEF DeskCommand
  <2> QED
    BY <1>1, <1>5, <2>1, <2>2, LayoutIsFit DEF DeskCommand, Commanded, Pressed, Press
<1>6. ASSUME NEW key, \/ HelpKey(key) \/ CopyKey(key) \/ FramedKey(key) \/ PlainKey(key)
                      \/ \E asks \in BOOLEAN : DebuggerKey(key, asks)
      PROVE  UNCHANGED <<session, saved, slots>>
  BY <1>6 DEF HelpKey, CopyKey, FramedKey, PlainKey, DebuggerKey, ForPane, Typed, Pressed, Press
<1>7. ASSUME \/ Prefix \/ Split \/ Assign \/ LoadSession \/ Reconnect
             \/ Request("k", "restart") \/ Request("B", "reboot") \/ EscapeFocused \/ Detach
      PROVE  UNCHANGED <<session, saved, slots>>
  BY <1>7 DEF Prefix, Split, Assign, LoadSession, Reconnect, Request, EscapeFocused, Detach,
              Commanded, Typed, Pressed, Press
<1>8. ASSUME NEW due, EndOfPass(due) PROVE UNCHANGED <<session, saved, slots>>
  BY <1>8 DEF EndOfPass
<1>9. UNCHANGED vars => UNCHANGED <<session, saved, slots>>
  BY DEF vars
<1> DEFINE Kept == UNCHANGED <<session, saved, slots>>
           Goal == /\ session' = session /\ (saved' # None => LayoutFits(saved'))
                   /\ slots' \in [Channels -> Names \cup {None}]
<1>10. Kept => Goal
  BY <1>1
<1>11. Keyboard => Goal
  <2>1. ASSUME NEW key, DeskCommand(key) PROVE Goal
    BY <1>1, <1>5, <2>1
  <2> HIDE DEF Goal
  <2> QED
    BY <1>6, <1>7, <1>10, <2>1 DEF Keyboard
<1>12. Serial => Goal
  <2>1. ASSUME NEW c \in Channels, Process(c) PROVE Goal
    BY <1>1, <1>3, <2>1
  <2> HIDE DEF Goal
  <2> QED
    BY <1>4, <1>10, <2>1
<1>13. Goal
  <2> HIDE DEF Goal
  <2> QED
    BY <1>8, <1>9, <1>10, <1>11, <1>12 DEF Next
<1> QED
  BY <1>13

LEMMA DeskStart == Init => DeskOK
<1> SUFFICES ASSUME Init PROVE DeskOK
    OBVIOUS
<1> DEFINE panes == [i \in 1..3 |-> SystemPane(SystemKinds[i])]
<1>1. /\ panes[1] = SystemPane("shell") /\ panes[2] = SystemPane("application")
      /\ panes[3] = SystemPane("debugger")
  BY DEF SystemKinds
<1>2. /\ \A i \in 1..3 : panes[i] \in PaneSet
      /\ panes[1].channel = 0 /\ panes[2].channel = 1 /\ panes[3].channel = 254
  BY <1>1, SystemPaneFits
<1>3. panes \in [1..3 -> PaneSet] /\ DOMAIN panes = 1..3
  BY <1>2
<1> HIDE DEF panes
<1>4. panes \in Seq(PaneSet) /\ Len(panes) = 3
  BY <1>3, FunctionSeq
<1>5. Apart(panes)
  <2> SUFFICES ASSUME NEW i \in 1..3, NEW j \in 1..3, panes[i].channel = panes[j].channel
               PROVE  i = j
      BY <1>3 DEF Apart
  <2> QED
    BY <1>2
<1>6. NewDesktop.panes = panes /\ NewDesktop.focus = 1 /\ NewDesktop \in Desks
  BY <1>4, <1>5 DEF NewDesktop, Desks, panes
<1>7. Sound(NewDesktop) /\ NewDesktop.panes # <<>>
  <2>1. panes # <<>>
    BY <1>4, EmptyIsZero
  <2> QED
    BY <1>6, <2>1 DEF Sound, FocusOn
<1>8. Sound(desk) /\ desk.panes # <<>>
  <2>1. Becomes(NewDesktop, PushChannel(NewDesktop, 254, <<"newline", "char">>))
    BY <1>7, PushesBytes
  <2>2. desk = PushChannel(NewDesktop, 254, <<"newline", "char">>)
    BY DEF Init
  <2> QED
    BY <1>7, <2>1, <2>2 DEF Becomes
<1>9. slots \in [Channels -> Names \cup {None}]
  BY NameSets DEF Init
<1> QED
  BY <1>8, <1>9 DEF Init, DeskOK

LEMMA DeskPreserved == DeskOK /\ [Next]_vars => DeskOK'
<1> SUFFICES ASSUME DeskOK, [Next]_vars PROVE DeskOK'
    OBVIOUS
<1>1. DeskMoves
  BY DeskSteps
<1>2. CASE Becomes(desk, desk')
  BY <1>2, SavedSteps DEF Becomes, DeskOK
<1>3. CASE Released
  BY <1>3, SavedSteps DEF Released, DeskOK
<1>4. CASE Marks
  <2>1. PICK d : Becomes(desk, d) /\ desk' = MarkLive(d, Endpoints(snapshot'))
    BY <1>4 DEF Marks
  <2>2. Sound(desk') /\ (desk.panes # <<>> => desk'.panes # <<>>)
    BY <2>1, MarksLive DEF Becomes
  <2> QED
    BY <2>2, SavedSteps DEF DeskOK
<1>5. CASE Assigned
  <2>1. PICK c \in 1..MaxChannel : Holding(desk, c) = {} /\ desk' = AssignFocused(desk, c)
                                   /\ desk.panes # <<>>
    BY <1>5 DEF Assigned
  <2>2. Sound(desk') /\ desk'.panes # <<>>
    BY <2>1, Assigns DEF DeskOK
  <2> QED
    BY <2>2, SavedSteps DEF DeskOK
<1> QED
  BY <1>1, <1>2, <1>3, <1>4, <1>5 DEF DeskMoves

LEMMA DeskInvariant == Spec => []DeskOK
BY DeskStart, DeskPreserved, PTL DEF Spec

(* A key is echoed in one pane: no two have one channel, but for the shell's. *)
THEOREM OneReaderCorrect == Spec => []OneReader
<1>1. DeskOK => OneReader
  BY DEF DeskOK, Sound, Desks, Apart, OneReader
<1> QED
  BY <1>1, DeskInvariant, PTL

(* Whatever arrives while a pane is in copy mode, and wherever it is cleared or
   released, a pane is scrolled to text it has. *)
THEOREM ScrollCorrect == Spec => []ScrollOnText
<1>1. DeskOK => ScrollOnText
  BY DeskParts, PaneParts DEF DeskOK, Sound, ScrollOnText
<1> QED
  BY <1>1, DeskInvariant, PTL

(* Restoring panes, claiming one for a program and closing those that have
   ended leave the keyboard with the pane it was on. *)
THEOREM FocusKeptCorrect == Spec => []FocusKept
<1>1. DeskOK => FocusKept
  BY KeepsFocus DEF DeskOK, FocusKept
<1> QED
  BY <1>1, DeskInvariant, PTL

-----------------------------------------------------------------------------
(* What is counted absent: a pane missed once is missing from the last
   snapshot, one missed twice from the last two. *)
AbsentSound ==
    \A i \in DOMAIN desk.panes :
        LET pane == desk.panes[i]
        IN  pane.channel \notin history.assigned =>
                /\ pane.absent >= 1 => pane.channel + 1 \notin history.live[1]
                /\ pane.absent = 2 => pane.channel + 1 \notin history.live[2]

LEMMA AbsenceSteps ==
    ASSUME TimesOK, [Next]_vars
    PROVE  \/ history'.live = history.live /\ history'.assigned = history.assigned
           \/ Assign \/ \E lost : ResourceSnapshot(lost)
<1>1. UNCHANGED history => history'.live = history.live /\ history'.assigned = history.assigned
  OBVIOUS
<1>2. ASSUME NEW c, NEW title, Notified(c, title)
      PROVE  history'.live = history.live /\ history'.assigned = history.assigned
  BY <1>2 DEF Notified, TimesOK, HistoryType
<1>3. ASSUME NEW frames, Queue(frames)
      PROVE  history'.live = history.live /\ history'.assigned = history.assigned
  BY <1>3 DEF Queue, TimesOK, HistoryType
<1>4. Reconnect => history'.live = history.live /\ history'.assigned = history.assigned
  BY DEF Reconnect, TimesOK, HistoryType
<1>5. ASSUME NEW due, EndOfPass(due)
      PROVE  history'.live = history.live /\ history'.assigned = history.assigned
  BY <1>5 DEF EndOfPass, TimesOK, HistoryType
<1> QED
  BY <1>1, <1>2, <1>3, <1>4, <1>5, SerialSteps, KeyboardSteps DEF Next, vars

LEMMA AbsentStart == Init => AbsentSound
<1> SUFFICES ASSUME Init PROVE AbsentSound
    OBVIOUS
<1>1. history.live[1] = {} /\ history.live[2] = {}
  BY DEF Init
<1> QED
  BY <1>1 DEF AbsentSound

(* A pane that follows one of the earlier desktop is as absent as it. *)
LEMMA AbsentFollows ==
    ASSUME DeskOK, AbsentSound, NEW panes, Follows(desk.panes, panes),
           NEW i \in DOMAIN panes, panes[i].channel \notin history.assigned
    PROVE  /\ panes[i].absent \in 1..2 => panes[i].channel + 1 \notin history.live[1]
           /\ panes[i].absent = 2 => panes[i].channel + 1 \notin history.live[2]
<1>1. CASE panes[i].absent = 0
  BY <1>1
<1>2. CASE panes[i].absent # 0
  <2>1. PICK j \in DOMAIN desk.panes : /\ desk.panes[j].channel = panes[i].channel
                                       /\ desk.panes[j].absent = panes[i].absent
    BY <1>2 DEF Follows
  <2> QED
    BY <2>1 DEF AbsentSound
<1> QED
  BY <1>1, <1>2

LEMMA AbsentPreserved ==
    DeskOK /\ TimesOK /\ AbsentSound /\ [Next]_vars => AbsentSound'
<1> SUFFICES ASSUME DeskOK, TimesOK, AbsentSound, [Next]_vars PROVE AbsentSound'
    OBVIOUS
<1> DEFINE Same == history'.live = history.live /\ history'.assigned = history.assigned
<1>1. DeskOK' /\ \A i \in DOMAIN desk'.panes : desk'.panes[i].absent \in 0..2
  <2>1. DeskOK'
    BY DeskPreserved
  <2>2. \A i \in DOMAIN desk'.panes : desk'.panes[i] \in PaneSet
    BY <2>1, DeskParts DEF DeskOK, Sound
  <2> QED
    BY <2>1, <2>2, CountParts
<1>2. CASE Follows(desk.panes, desk'.panes) /\ Same
  <2> SUFFICES ASSUME NEW i \in DOMAIN desk'.panes,
                      desk'.panes[i].channel \notin history.assigned
               PROVE  /\ desk'.panes[i].absent >= 1 =>
                            desk'.panes[i].channel + 1 \notin history.live[1]
                      /\ desk'.panes[i].absent = 2 =>
                            desk'.panes[i].channel + 1 \notin history.live[2]
      BY <1>2 DEF AbsentSound
  <2>1. desk'.panes[i].absent >= 1 => desk'.panes[i].absent \in 1..2
    BY <1>1
  <2> QED
    BY <1>2, <2>1, AbsentFollows
<1>3. ASSUME NEW lost, ResourceSnapshot(lost) PROVE AbsentSound'
  <2> DEFINE live == Endpoints(snapshot')
  <2>1. PICK d : Becomes(desk, d) /\ desk' = MarkLive(d, live)
    BY <1>3, SnapshotDesk DEF Marks
  <2>2. /\ history'.live[1] = live /\ history'.live[2] = history.live[1]
        /\ history'.assigned = history.assigned
    <3>1. /\ history'.live = <<live, history.live[1]>>
          /\ history'.assigned = history.assigned
      BY <1>3, SnapshotHistory DEF TimesOK
    <3> QED
      BY <3>1
  <2> HIDE DEF live
  <2>3. \A i \in DOMAIN desk'.panes : /\ i \in DOMAIN d.panes
                                      /\ desk'.panes[i].channel = d.panes[i].channel
                                      /\ Counted(d.panes[i], desk'.panes[i], live)
    BY <2>1, MarksLive DEF Becomes
  <2>4. \A i \in DOMAIN d.panes : d.panes[i].absent \in 0..2
    BY <2>1, DeskParts, CountParts DEF Becomes, Sound
  <2> SUFFICES ASSUME NEW i \in DOMAIN desk'.panes,
                      desk'.panes[i].channel \notin history.assigned
               PROVE  /\ desk'.panes[i].absent >= 1 => desk'.panes[i].channel + 1 \notin live
                      /\ desk'.panes[i].absent = 2 =>
                            desk'.panes[i].channel + 1 \notin history.live[1]
      BY <2>2 DEF AbsentSound
  <2>5. desk'.panes[i].absent >= 1 => desk'.panes[i].channel + 1 \notin live
    BY <1>1, <2>3 DEF Counted
  <2>6. CASE desk'.panes[i].absent = 2
    <3>1. d.panes[i].absent \in 1..2
      BY <2>3, <2>4, <2>6 DEF Counted
    <3>2. d.panes[i].channel = desk'.panes[i].channel /\ Follows(desk.panes, d.panes)
      BY <2>1, <2>3 DEF Becomes
    <3>3. d.panes[i].channel + 1 \notin history.live[1]
      BY <2>3, <3>1, <3>2, AbsentFollows
    <3> QED
      BY <2>5, <3>2, <3>3
  <2> QED
    BY <2>5, <2>6
<1>4. CASE Assigned
  <2>1. PICK c \in 1..MaxChannel :
           /\ Holding(desk, c) = {} /\ desk' = AssignFocused(desk, c) /\ desk.panes # <<>>
           /\ history' = [history EXCEPT !.assigned = @ \cup {c}]
    BY <1>4 DEF Assigned
  <2>2. history'.assigned = history.assigned \cup {c} /\ history'.live = history.live
    BY <2>1 DEF TimesOK, HistoryType
  <2>3. \A i \in DOMAIN desk'.panes : \/ desk'.panes[i].channel = c
                                      \/ i \in DOMAIN desk.panes /\ desk'.panes[i] = desk.panes[i]
    BY <2>1, Assigns DEF DeskOK
  <2> QED
    BY <2>2, <2>3 DEF AbsentSound
<1>5. Becomes(desk, desk') => Follows(desk.panes, desk'.panes)
  BY DEF Becomes
<1>6. CASE Same
  BY <1>2, <1>3, <1>4, <1>5, <1>6, DeskSteps DEF DeskMoves, Released, Marks
<1>7. CASE Assign
  <2>1. CASE UNCHANGED <<desk, history>>
    BY <2>1 DEF AbsentSound
  <2> QED
    BY <1>4, <1>7, <2>1, AssignDesk
<1> QED
  BY <1>3, <1>6, <1>7, AbsenceSteps

LEMMA AbsentInvariant == Spec => [](DeskOK /\ AbsentSound)
<1>1. Init => DeskOK /\ TimesOK /\ TimeModesExact /\ AbsentSound
  BY DeskStart, TimesStart, AbsentStart
<1>2. /\ DeskOK /\ TimesOK /\ TimeModesExact /\ AbsentSound /\ [Next]_vars
      => DeskOK' /\ TimesOK' /\ TimeModesExact' /\ AbsentSound'
  BY DeskPreserved, TimesPreserved, AbsentPreserved
<1> QED
  BY <1>1, <1>2, PTL DEF Spec

(* A pane that says (ended) belongs to a process that neither of the last two
   snapshots has listed, whatever was claimed, closed, renamed or restored since
   and whichever records were lost. *)
THEOREM EndedCorrect == Spec => []EndedSound
<1>1. DeskOK /\ AbsentSound => EndedSound
  <2> SUFFICES ASSUME DeskOK, AbsentSound, NEW i \in OfKind(desk, "application"),
                      desk.panes[i].ended, desk.panes[i].channel \notin history.assigned
               PROVE  desk.panes[i].channel + 1 \notin history.live[1] \cup history.live[2]
      BY DEF EndedSound
  <2>1. i \in DOMAIN desk.panes /\ desk.panes[i] \in PaneSet
    BY DeskParts DEF OfKind, DeskOK, Sound
  <2>2. desk.panes[i].absent = 2
    BY <2>1 DEF PaneSet
  <2> QED
    BY <2>1, <2>2 DEF AbsentSound
<1> QED
  BY <1>1, AbsentInvariant, PTL

-----------------------------------------------------------------------------
(* The backlog and the status line. *)
QueueOK ==
    /\ (\E T : output \in Seq(T)) /\ Len(output) <= Backlog
    /\ history.dropping => Len(output) = Backlog
    /\ DOMAIN status = {"error", "decode"}
ModesOK ==
    running \in {"running", "detached", "lost", "panicked"} /\ mode \in {"plain", "framed"}

(* The frames a step puts into the queue, if any. *)
Frames(frames) == \E T : frames \in Seq(T)
Queues(frames) ==
    /\ Frames(frames) /\ output' = Queued(frames)
    /\ history'.dropping = Dropping(frames)

LEMMA QueuedLength ==
    ASSUME QueueOK, NEW frames, Frames(frames)
    PROVE  /\ \E T : Queued(frames) \in Seq(T)
           /\ Len(Queued(frames)) <= Backlog
           /\ Dropping(frames) => Len(Queued(frames)) = Backlog
<1>1. PICK T : output \in Seq(T)
  BY DEF QueueOK
<1>2. PICK U : frames \in Seq(U)
  BY DEF Frames
<1> DEFINE V == T \cup U
<1>3. output \in Seq(V) /\ frames \in Seq(V)
  BY <1>1, <1>2
<1>4. /\ Backlog \in Nat /\ Len(output) \in Nat /\ Len(output) <= Backlog /\ Len(frames) \in Nat
      /\ history.dropping => Len(output) = Backlog
  BY <1>1, <1>2, WindowsAssumption DEF QueueOK
<1> HIDE DEF V
<1>5. Queued(frames) \in Seq(V) /\ Len(Queued(frames)) = Grown(output, Len(frames))
  <2>1. Queued(frames) = QueuedOnto(output, frames)
    BY DEF Queued, QueuedOnto
  <2> QED
    BY <1>3, <1>4, <2>1, QueueGrows
<1>6. Dropping(frames) <=>
         history.dropping \/ Len(Queued(frames)) < Len(output) + Len(frames)
  BY DEF Dropping
<1>7. Grown(output, Len(frames)) <= Backlog
  BY <1>4 DEF Grown
<1>8. Dropping(frames) => Grown(output, Len(frames)) = Backlog
  BY <1>4, <1>5, <1>6 DEF Grown
<1> QED
  BY <1>5, <1>7, <1>8

LEMMA OneFrame == ASSUME NEW a PROVE Frames(<<a>>)
<1>1. <<a>> \in Seq({a})
  OBVIOUS
<1> QED
  BY <1>1 DEF Frames

LEMMA ThreeFrames == ASSUME NEW a, NEW b, NEW c PROVE Frames(<<a, b, c>>)
<1>1. <<a, b, c>> \in Seq({a, b, c})
  OBVIOUS
<1> QED
  BY <1>1 DEF Frames

LEMMA NoFrames == Frames(<<>>)
<1>1. <<>> \in Seq({})
  OBVIOUS
<1> QED
  BY <1>1 DEF Frames

LEMMA MoreFrames ==
    ASSUME NEW a, NEW b, Frames(a), Frames(b) PROVE Frames(a \o b)
<1>1. PICK T : a \in Seq(T)
  BY DEF Frames
<1>2. PICK U : b \in Seq(U)
  BY DEF Frames
<1>3. a \o b \in Seq(T \cup U)
  <2>1. a \in Seq(T \cup U) /\ b \in Seq(T \cup U)
    BY <1>1, <1>2
  <2> QED
    BY <2>1
<1> QED
  BY <1>3 DEF Frames

LEMMA TimedFrames == ASSUME NEW due PROVE Frames(Timed(due))
<1> DEFINE When(wanted, frame) == IF wanted THEN <<frame>> ELSE <<>>
           a == When("resources" \in due, <<"resources">>)
           b == When("heartbeat" \in due, <<"heartbeat">>)
           c == When("hello" \in due, <<"hello">>)
           d == When("time" \in due /\ "uptime" \in times.modes, <<"time", "uptime">>)
           e == When("time" \in due /\ "clock" \in times.modes, <<"time", "clock">>)
           f == IF mode = "framed" /\ owed.injected # <<>>
                THEN <<<<"tty", 0, Head(owed.injected)>>>> ELSE <<>>
           g == When(mode = "framed" /\ owed.identity, <<"debug">>)
<1>1. Timed(due) = a \o b \o c \o d \o e \o f \o g
  BY DEF Timed
<1>2. /\ Frames(a) /\ Frames(b) /\ Frames(c) /\ Frames(d) /\ Frames(e) /\ Frames(f)
      /\ Frames(g)
  BY OneFrame, NoFrames
<1> HIDE DEF a, b, c, d, e, f, g
<1>3. Frames(a \o b)
  BY <1>2, MoreFrames
<1>4. Frames(a \o b \o c)
  BY <1>2, <1>3, MoreFrames
<1>5. Frames(a \o b \o c \o d)
  BY <1>2, <1>4, MoreFrames
<1>6. Frames(a \o b \o c \o d \o e)
  BY <1>2, <1>5, MoreFrames
<1>7. Frames(a \o b \o c \o d \o e \o f)
  BY <1>2, <1>6, MoreFrames
<1> QED
  BY <1>1, <1>2, <1>7, MoreFrames

LEMMA TypedFrames ==
    ASSUME NEW channels, Frames(channels), NEW key
    PROVE  Frames([i \in DOMAIN channels |-> <<"tty", channels[i], key>>])
<1>1. PICK T : channels \in Seq(T)
  BY DEF Frames
<1> DEFINE n == Len(channels)
           frames == [i \in DOMAIN channels |-> <<"tty", channels[i], key>>]
           U == {frames[i] : i \in 1..n}
<1>2. n \in Nat /\ DOMAIN channels = 1..n
  BY <1>1
<1>3. DOMAIN frames = 1..n /\ frames = [i \in 1..n |-> frames[i]]
  BY <1>2
<1> HIDE DEF frames, n
<1>4. frames \in [1..n -> U]
  BY <1>3
<1> HIDE DEF U
<1>5. frames \in Seq(U)
  BY <1>2, <1>4, FunctionSeq
<1> QED
  BY <1>5 DEF Frames, frames

LEMMA KeyboardQueue ==
    ASSUME DeskOK, TimesOK, Keyboard
    PROVE  \/ output' = output /\ history'.dropping = history.dropping
           \/ \E frames : Queues(frames)
<1>1. ASSUME NEW frames, Frames(frames), Queue(frames) PROVE Queues(frames)
  BY <1>1, QueueKept DEF Queue, Queues, TimesOK
<1>2. CASE UNCHANGED <<output, history>>
  BY <1>2
<1>3. Prefix \/ Split \/ LoadSession \/ Detach => UNCHANGED <<output, history>>
  BY DEF Prefix, Split, LoadSession, Detach
<1>4. CASE Assign
  BY <1>4, AssignHistory DEF TimesOK, Assign
<1>5. CASE Reconnect
  <2> DEFINE frames == <<<<"heartbeat">>, <<"heartbeat">>, <<"hello">>>>
  <2>1. Frames(frames) /\ Dropping(frames) \in BOOLEAN
    BY ThreeFrames, DroppingIsBoolean DEF TimesOK
  <2> HIDE DEF frames
  <2>2. \/ output' = Queued(frames)
           /\ history' = [history EXCEPT !.fresh = FALSE, !.dropping = Dropping(frames)]
        \/ output' = output /\ history' = [history EXCEPT !.fresh = FALSE]
    BY <1>5 DEF Reconnect, frames
  <2> QED
    BY <2>1, <2>2 DEF TimesOK, HistoryType, Queues
<1>6. ASSUME NEW key, NEW request, Request(key, request) PROVE \E frames : Queues(frames)
  BY <1>1, <1>6, OneFrame DEF Request
<1>7. CASE EscapeFocused
  BY <1>1, <1>7, OneFrame DEF EscapeFocused
<1>8. ASSUME NEW key, DeskCommand(key) \/ HelpKey(key) \/ CopyKey(key)
      PROVE  UNCHANGED <<output, history>>
  BY <1>8 DEF DeskCommand, HelpKey, CopyKey
<1>9. ASSUME NEW key, FramedKey(key) PROVE \E frames : Queues(frames)
  <2> DEFINE channels == InputChannels(Claiming(key))
             frames == [i \in DOMAIN channels |-> <<"tty", channels[i], key>>]
  <2>1. Frames(channels)
    BY Claimed, InputSeq DEF Becomes, Frames
  <2>2. Queue(frames)
    BY <1>9 DEF FramedKey
  <2> HIDE DEF channels
  <2>3. Frames(frames)
    BY <2>1, TypedFrames
  <2> HIDE DEF frames
  <2> QED
    BY <1>1, <2>2, <2>3
<1>10. ASSUME NEW key, PlainKey(key) PROVE \E frames : Queues(frames)
  BY <1>1, <1>10, OneFrame DEF PlainKey
<1>11. ASSUME NEW key, NEW asks, DebuggerKey(key, asks)
       PROVE  UNCHANGED <<output, history>> \/ \E frames : Queues(frames)
  <2>1. \/ UNCHANGED <<output, history>>
        \/ Queue(<<<<"restart", mode>>>>) \/ Queue(<<<<"debug">>>>)
    BY <1>11 DEF DebuggerKey, DebuggerLine
  <2> QED
    BY <1>1, <2>1, OneFrame
<1> QED
  BY <1>2, <1>3, <1>4, <1>5, <1>6, <1>7, <1>8, <1>9, <1>10, <1>11 DEF Keyboard

LEMMA SerialQueue ==
    ASSUME TimesOK, Serial
    PROVE  output' = output /\ history'.dropping = history.dropping
<1>1. output' = output
  BY DEF Serial, Process, PlainText, TtyOutput, ChannelOpen, ChannelTitle, ChannelClose,
         ResourceSnapshot, Negotiated, DebugResponse, ProtocolError, DecodeError, FlowControl,
         LineLost, Frame, Arrived, Item
<1>2. ASSUME NEW c, NEW title, Notified(c, title) PROVE history'.dropping = history.dropping
  BY <1>2 DEF Notified, TimesOK, HistoryType
<1>3. ASSUME NEW lost, ResourceSnapshot(lost) PROVE history'.dropping = history.dropping
  BY <1>3, SnapshotHistory DEF TimesOK
<1> QED
  BY <1>1, <1>2, <1>3, SerialSteps

LEMMA StatusKept ==
    ASSUME DOMAIN status = {"error", "decode"}, [Next]_vars
    PROVE  DOMAIN status' = {"error", "decode"}
<1>1. /\ DOMAIN ErrorCleared = {"error", "decode"}
      /\ \A e : DOMAIN [status EXCEPT !.error = e] = {"error", "decode"}
      /\ \A e, d : DOMAIN [error |-> e, decode |-> d] = {"error", "decode"}
  BY DEF ErrorCleared
<1>2. CASE UNCHANGED status
  BY <1>2
<1>3. ASSUME NEW c, NEW title, Notified(c, title) PROVE status' = ErrorCleared
  BY <1>3 DEF Notified
<1>4. Serial => \/ status' = ErrorCleared \/ status' = status
                \/ \E e : status' = [status EXCEPT !.error = e]
                \/ \E e, d : status' = [error |-> e, decode |-> d]
  BY <1>3 DEF Serial, Process, PlainText, TtyOutput, ChannelOpen, ChannelTitle, ChannelClose,
              ResourceSnapshot, Negotiated, DebugResponse, ProtocolError, DecodeError,
              FlowControl, LineLost
<1>5. Keyboard => \/ status' = status
                  \/ \E e : status' = [status EXCEPT !.error = e]
                  \/ \E e, d : status' = [error |-> e, decode |-> d]
  BY DEF Keyboard, Prefix, Split, Assign, LoadSession, Reconnect, Request, EscapeFocused, Detach,
         DeskCommand, HelpKey, CopyKey, FramedKey, PlainKey, DebuggerKey, ForPane
<1>6. ASSUME NEW due, EndOfPass(due) PROVE \E e : status' = [status EXCEPT !.error = e]
  BY <1>6 DEF EndOfPass
<1> QED
  BY <1>1, <1>2, <1>4, <1>5, <1>6 DEF Next, vars

LEMMA PassQueue ==
    ASSUME QueueOK, history \in HistoryType, NEW due, EndOfPass(due)
    PROVE  /\ (\E T : output' \in Seq(T)) /\ Len(output') <= Backlog
           /\ ~history'.dropping
           /\ history'.dropped => status'.error = "stalled"
<1> DEFINE queue == Queued(Timed(due))
<1>1. /\ \E T : queue \in Seq(T)
      /\ Len(queue) <= Backlog
      /\ Dropping(Timed(due)) => Len(queue) = Backlog
  BY TimedFrames, QueuedLength
<1>2. /\ status' = [status EXCEPT !.error = IF StallSeen(queue) THEN "stalled" ELSE @]
      /\ output' = IF cts THEN <<>> ELSE queue
      /\ history' = [history EXCEPT !.dropping = FALSE, !.dropped = Dropping(Timed(due))]
  BY DEF EndOfPass
<1>3. ~history'.dropping /\ history'.dropped = Dropping(Timed(due))
  BY <1>2 DEF HistoryType
<1> HIDE DEF queue
<1>4. (\E T : output' \in Seq(T)) /\ Len(output') <= Backlog
  <2>1. CASE cts
    <3>1. output' = <<>> /\ <<>> \in Seq({}) /\ Len(<<>>) = 0
      BY <1>2, <2>1
    <3> QED
      BY <3>1, WindowsAssumption
  <2>2. CASE ~cts
    BY <1>1, <1>2, <2>2
  <2> QED
    BY <2>1, <2>2
<1>5. Dropping(Timed(due)) => status'.error = "stalled"
  <2>1. Dropping(Timed(due)) => StallSeen(queue)
    BY <1>1, WindowsAssumption DEF StallSeen
  <2> QED
    BY <1>2, <2>1 DEF QueueOK
<1> QED
  BY <1>3, <1>4, <1>5

LEMMA QueuePreserved ==
    QueueOK /\ DeskOK /\ TimesOK /\ [Next]_vars => QueueOK'
<1> SUFFICES ASSUME QueueOK, DeskOK, TimesOK, [Next]_vars PROVE QueueOK'
    OBVIOUS
<1> DEFINE Goal == /\ (\E T : output' \in Seq(T)) /\ Len(output') <= Backlog
                   /\ history'.dropping => Len(output') = Backlog
<1>1. CASE output' = output /\ history'.dropping = history.dropping
  BY <1>1, StatusKept DEF QueueOK
<1>2. ASSUME NEW frames, Queues(frames) PROVE QueueOK'
  <2>1. /\ \E T : output' \in Seq(T)
        /\ Len(output') <= Backlog
        /\ history'.dropping => Len(output') = Backlog
    BY <1>2, QueuedLength DEF Queues
  <2> QED
    BY <2>1, StatusKept DEF QueueOK
<1>3. ASSUME NEW due, EndOfPass(due) PROVE QueueOK'
  BY <1>3, PassQueue, StatusKept DEF QueueOK, TimesOK
<1>4. UNCHANGED vars => output' = output /\ history'.dropping = history.dropping
  BY DEF vars
<1> QED
  BY <1>1, <1>2, <1>3, <1>4, SerialQueue, KeyboardQueue DEF Next

LEMMA ModesPreserved == ModesOK /\ [Next]_vars => ModesOK'
<1> SUFFICES ASSUME ModesOK, [Next]_vars PROVE ModesOK'
    OBVIOUS
<1>1. CASE UNCHANGED <<running, mode>>
  BY <1>1 DEF ModesOK
<1>2. Serial => ModesOK'
  BY DEF ModesOK, Serial, Process, PlainText, TtyOutput, ChannelOpen, ChannelTitle, ChannelClose,
         ResourceSnapshot, Negotiated, DebugResponse, ProtocolError, DecodeError, FlowControl,
         LineLost, Frame, Arrived, Item
<1>3. Keyboard => ModesOK'
  BY DEF ModesOK, Keyboard, Prefix, Split, Assign, LoadSession, Reconnect, Request, EscapeFocused,
         Detach, DeskCommand, HelpKey, CopyKey, FramedKey, PlainKey, DebuggerKey, ForPane,
         Commanded, Typed, Pressed, Press
<1>4. ASSUME NEW due, EndOfPass(due) PROVE ModesOK'
  BY <1>4 DEF EndOfPass, ModesOK
<1> QED
  BY <1>1, <1>2, <1>3, <1>4 DEF Next, vars

LEMMA QueueStart == Init => QueueOK /\ ModesOK
<1> SUFFICES ASSUME Init PROVE QueueOK /\ ModesOK
    OBVIOUS
<1>1. output = <<<<"hello">>>> /\ output \in Seq({<<"hello">>}) /\ Len(output) = 1
  BY DEF Init
<1>2. DOMAIN status = {"error", "decode"} /\ ~history.dropping
  BY DEF Init
<1>3. ModesOK
  BY DEF Init, ModesOK
<1>4. \E T : output \in Seq(T)
  BY <1>1
<1>5. Len(output) <= Backlog
  BY <1>1, WindowsAssumption
<1> QED
  BY <1>2, <1>3, <1>4, <1>5 DEF QueueOK

LEMMA QueueInvariant == Spec => [](DeskOK /\ TimesOK /\ QueueOK /\ ModesOK)
<1>1. Init => DeskOK /\ TimesOK /\ TimeModesExact /\ QueueOK /\ ModesOK
  BY DeskStart, TimesStart, QueueStart
<1>2. /\ DeskOK /\ TimesOK /\ TimeModesExact /\ QueueOK /\ ModesOK /\ [Next]_vars
      => DeskOK' /\ TimesOK' /\ TimeModesExact' /\ QueueOK' /\ ModesOK'
  BY DeskPreserved, TimesPreserved, QueuePreserved, ModesPreserved
<1> QED
  BY <1>1, <1>2, PTL DEF Spec

(* The panes and the focus are what they should be, the desktop is without panes
   only where one was closed by the target, and the backlog is never overrun. *)
THEOREM WindowsTypeCorrect == Spec => []WindowsTypeOK
<1>1. DeskOK /\ QueueOK /\ ModesOK => WindowsTypeOK
  <2> SUFFICES ASSUME DeskOK, QueueOK, ModesOK PROVE WindowsTypeOK
      OBVIOUS
  <2>1. \A i \in DOMAIN desk.panes : desk.panes[i] \in PaneTypes
    BY DeskParts DEF DeskOK, Sound, PaneSet
  <2>2. desk.panes # <<>> => desk.focus \in DOMAIN desk.panes
    BY FocusIn DEF DeskOK
  <2> QED
    BY <2>1, <2>2 DEF WindowsTypeOK, DeskOK, QueueOK, ModesOK
<1> QED
  BY <1>1, QueueInvariant, PTL

LEMMA DroppedSteps ==
    ASSUME TimesOK, [Next]_vars
    PROVE  history'.dropped = history.dropped \/ \E due : EndOfPass(due)
<1>1. UNCHANGED history => history'.dropped = history.dropped
  OBVIOUS
<1>2. ASSUME NEW c, NEW title, Notified(c, title) PROVE history'.dropped = history.dropped
  BY <1>2 DEF Notified, TimesOK, HistoryType
<1>3. ASSUME NEW lost, ResourceSnapshot(lost) PROVE history'.dropped = history.dropped
  BY <1>3, SnapshotHistory DEF TimesOK
<1>4. ASSUME NEW frames, Queue(frames) PROVE history'.dropped = history.dropped
  BY <1>4, QueueKept DEF TimesOK
<1>5. Assign => history'.dropped = history.dropped
  BY AssignHistory DEF TimesOK
<1>6. Reconnect => history'.dropped = history.dropped
  BY DEF Reconnect, TimesOK, HistoryType
<1> QED
  BY <1>1, <1>2, <1>3, <1>4, <1>5, <1>6, SerialSteps, KeyboardSteps DEF Next, vars

(* A frame there was no room for is told of: the pass that dropped it ends with
   the stall on the status line. *)
THEOREM DropsCorrect == Spec => DropsAnnounced
<1>1. ASSUME QueueOK, TimesOK, [Next]_vars
      PROVE  history'.dropped /\ ~history.dropped => status'.error = "stalled"
  <2> SUFFICES ASSUME history'.dropped, ~history.dropped PROVE status'.error = "stalled"
      OBVIOUS
  <2>1. PICK due : EndOfPass(due)
    BY <1>1, DroppedSteps
  <2> QED
    BY <1>1, <2>1, PassQueue DEF TimesOK
<1>2. QueueOK /\ TimesOK /\ [Next]_vars =>
         [history'.dropped /\ ~history.dropped => status'.error = "stalled"]_vars
  BY <1>1
<1> QED
  BY <1>2, QueueInvariant, PTL DEF Spec, DropsAnnounced
=============================================================================
