------------------------------ MODULE Desktop ------------------------------
(***************************************************************************)
(* The panes of the host's windowed terminal (te-rs ui.rs).  Everything    *)
(* here is a function of a desktop d, a record of the panes in their       *)
(* order, the focus and the modes.  Of a pane's text only amounts are      *)
(* kept: complete lines, and characters in the line being assembled.       *)
(***************************************************************************)
EXTENDS Integers, SequencesExt, FiniteSetsExt

CONSTANTS
    Scrollback,     \* complete lines a pane keeps (1000)
    MaxLine,        \* length at which a line is broken (4096)
    MaxChannel,     \* last channel an application may be given (253)
    Names           \* the titles a pane may have

ASSUME DesktopAssumption ==
    /\ {Scrollback, MaxLine, MaxChannel} \subseteq Nat \ {0} /\ MaxChannel < 254
    /\ {"Shell", "Application", "Debugger", "TTY"} \subseteq Names

SystemKinds == <<"shell", "application", "debugger">>
Default == [shell       |-> [channel |-> 0, title |-> "Shell"],
            application |-> [channel |-> 1, title |-> "Application"],
            debugger    |-> [channel |-> 254, title |-> "Debugger"]]

NewPane(kind, channel, title) ==
    [kind |-> kind, channel |-> channel, title |-> title, lines |-> 0, current |-> 0,
     alert |-> FALSE, ran |-> FALSE, ended |-> FALSE, absent |-> 0, scroll |-> 0]
SystemPane(kind) == NewPane(kind, Default[kind].channel, Default[kind].title)

NewDesktop ==
    [panes |-> [i \in 1..3 |-> SystemPane(SystemKinds[i])], focus |-> 1,
     zoomed |-> FALSE, help |-> FALSE, copy |-> FALSE, broadcast |-> FALSE, armed |-> FALSE]

-----------------------------------------------------------------------------
(* Text. *)
Emptied(pane) == [pane EXCEPT !.lines = 0, !.current = 0, !.scroll = 0]
FinishedLine(pane) == [pane EXCEPT !.lines = Min({@ + 1, Scrollback}), !.current = 0]

ScrollKept(pane) == [pane EXCEPT !.lines = 0, !.current = 0]
FormFed(pane) == Emptied(pane)

PushedByte(pane, byte) ==
    CASE byte = "newline" -> FinishedLine(pane)
      [] byte = "return" -> [pane EXCEPT !.current = 0]
      [] byte = "formfeed" -> FormFed(pane)
      [] byte = "erase" -> [pane EXCEPT !.current = Max({@ - 1, 0})]
      [] OTHER -> IF pane.current + 1 >= MaxLine THEN FinishedLine(pane)
                  ELSE [pane EXCEPT !.current = @ + 1]
Pushed(pane, bytes) == FoldLeft(PushedByte, pane, bytes)

-----------------------------------------------------------------------------
(* Which pane. *)
Focused(d) == d.panes[d.focus]
Holding(d, channel) == {i \in DOMAIN d.panes : d.panes[i].channel = channel}
OfKind(d, kind) == {i \in DOMAIN d.panes : d.panes[i].kind = kind}
Unused(d, channels) == {c \in channels : Holding(d, c) = {}}

(* Vec::retain: the panes at the positions in stay, in their order. *)
Retained(panes, stay) ==
    LET retained[n \in 0..Len(panes)] ==
            IF n = 0 THEN <<>>
            ELSE IF n \in stay THEN Append(retained[n - 1], panes[n]) ELSE retained[n - 1]
    IN  retained[Len(panes)]

TakesInput(pane) == pane.kind \in {"shell", "application"}
InputChannels(d) ==
    IF d.broadcast
    THEN LET readers == Retained(d.panes, {i \in DOMAIN d.panes : TakesInput(d.panes[i])})
         IN  [i \in DOMAIN readers |-> readers[i].channel]
    ELSE <<Focused(d).channel>>

-----------------------------------------------------------------------------
(* What the target's frames do to it. *)
PushChannel(d, channel, bytes) ==
    IF Holding(d, channel) = {} THEN d
    ELSE LET i == Min(Holding(d, channel))
             pane == Pushed(d.panes[i], bytes)
         IN  [d EXCEPT !.panes[i] = [pane EXCEPT !.ran = @ \/ pane.kind = "application",
                                                 !.alert = @ \/ i # d.focus]]

AbsentOnce == 1
AbsentTwice == 2
AbsentEnough == AbsentTwice

(* absent counts on to 255; only whether it has reached 2 is ever asked. *)
MarkedPane(pane, running) ==
    CASE pane.kind # "application" -> pane
      [] pane.kind = "application" /\ running ->
            [pane EXCEPT !.ran = TRUE, !.ended = FALSE, !.absent = 0]
      [] pane.kind = "application" /\ ~running /\ pane.ran ->
            [pane EXCEPT !.absent = Min({@ + 1, 2}), !.ended = pane.absent + 1 >= AbsentEnough]
      [] OTHER -> pane
MarkLive(d, live) ==
    [d EXCEPT !.panes = [i \in DOMAIN @ |-> MarkedPane(@[i], @[i].channel + 1 \in live)]]

NameChannel(d, channel, title) ==
    IF title = "" THEN d
    ELSE [d EXCEPT !.panes =
            [i \in DOMAIN @ |->
                IF @[i].channel = channel /\ @[i].kind = "application" /\ @[i].title # title
                THEN [@[i] EXCEPT !.title = title, !.ended = FALSE, !.absent = 0]
                ELSE @[i]]]

Added(d, pane) == [d EXCEPT !.panes = Append(@, pane)]

SetChannelTitle(d, channel, title) ==
    IF Holding(d, channel) = {} THEN d
    ELSE [d EXCEPT !.panes[Min(Holding(d, channel))].title = title]

AddApplication(d, channel, title) ==
    IF Holding(d, channel) # {} THEN SetChannelTitle(d, channel, title)
    ELSE Added(d, NewPane("application", channel, title))

Cleared(d, i) == [d EXCEPT !.panes[i] = [Emptied(@) EXCEPT !.alert = FALSE]]
ClearChannel(d, channel) ==
    IF Holding(d, channel) = {} THEN d ELSE Cleared(d, Min(Holding(d, channel)))

(* The focus is an index: it stays, unless it is past the end. *)
Unclamped(focus, panes) == focus
Clamped(focus, panes) == Min({focus, Max({Len(panes), 1})})
ReleaseChannel(d, channel) ==
    LET stay == DOMAIN d.panes \ (Holding(d, channel) \cap OfKind(d, "application"))
        panes == Retained(d.panes, stay)
    IN  [d EXCEPT !.panes = panes, !.focus = Clamped(@, panes)]

-----------------------------------------------------------------------------
(* What the person's commands do to it. *)
ClaimAny(d) == 1..MaxChannel
ClaimUnused(d) == Unused(d, 1..MaxChannel)

ClaimApplication(d, title) ==
    LET fresh == {i \in OfKind(d, "application") : d.panes[i].title = "Application"}
        free == ClaimUnused(d)
    IN  CASE fresh # {} -> [d EXCEPT !.panes[Min(fresh)].title = title]
          [] fresh = {} /\ free # {} -> Added(d, NewPane("application", Min(free), title))
          [] OTHER -> d

AssignFocused(d, channel) ==
    [d EXCEPT !.panes[d.focus].channel = channel, !.panes[d.focus].title = "TTY",
              !.panes[d.focus].kind = "application"]

(* A missing system pane returns at its own place, and the focus moves with
   the pane it is on. *)
FocusStays(d, at) == d.focus
FocusMoves(d, at) == IF d.focus >= at THEN d.focus + 1 ELSE d.focus
RestoredAt(d, position) ==
    LET at == Min({position, Len(d.panes) + 1})
    IN  IF OfKind(d, SystemKinds[position]) # {} THEN d
        ELSE [d EXCEPT !.panes = InsertAt(@, at, SystemPane(SystemKinds[position])),
                       !.focus = FocusMoves(d, at)]
RestoreSystemPanes(d) == RestoredAt(RestoredAt(RestoredAt(d, 1), 2), 3)

CloseEnded(d) ==
    LET kept == [d EXCEPT !.panes = Retained(@, {i \in DOMAIN @ : ~@[i].ended})]
        left == IF kept.panes = <<>> THEN RestoreSystemPanes(kept) ELSE kept
        same == Holding(left, Focused(d).channel)
    IN  [left EXCEPT !.focus = IF same = {} THEN 1 ELSE Min(same)]

CloseFocused(d) ==
    IF Len(d.panes) = 1 THEN d
    ELSE [d EXCEPT !.panes = RemoveAt(@, d.focus), !.focus = Min({@, Len(d.panes) - 1})]

Layout(d) ==
    [i \in DOMAIN d.panes |->
        <<d.panes[i].kind, d.panes[i].channel, d.panes[i].title>>]
RestoreLayout(d, layout) ==
    IF layout = <<>> THEN d
    ELSE [d EXCEPT !.panes = [i \in DOMAIN layout |->
                                 NewPane(layout[i][1], layout[i][2], layout[i][3])],
                   !.focus = 1]

Digits == <<"1", "2", "3", "4", "5", "6", "7", "8", "9">>

(* Desktop::command; "detach" and "w" are their callers' business. *)
Command(desktop, byte) ==
    LET d == IF byte = "b" THEN desktop ELSE [desktop EXCEPT !.armed = FALSE]
        n == Len(d.panes)
        after ==
            CASE byte \in {Digits[i] : i \in 1..n \cap DOMAIN Digits} ->
                    [d EXCEPT !.focus = CHOOSE i \in 1..n \cap DOMAIN Digits : Digits[i] = byte]
              [] byte = "n" -> [d EXCEPT !.focus = (@ % n) + 1]
              [] byte = "p" -> [d EXCEPT !.focus = ((@ + n - 2) % n) + 1]
              [] byte = "z" -> [d EXCEPT !.help = FALSE, !.zoomed = ~@]
              [] byte = "x" -> CloseFocused(d)
              [] byte = "l" -> Cleared(d, d.focus)
              [] byte = "S" -> RestoreSystemPanes(d)
              [] byte = "c" -> CloseEnded(d)
              [] byte = "y" -> [d EXCEPT !.copy = ~@]
              [] byte = "b" -> IF d.armed THEN [d EXCEPT !.broadcast = ~@, !.armed = FALSE]
                               ELSE [d EXCEPT !.armed = TRUE]
              [] byte \in {"esc", "q"} /\ d.help -> [d EXCEPT !.help = FALSE]
              [] byte = "esc" /\ ~d.help ->
                    [d EXCEPT !.armed = FALSE, !.broadcast = FALSE, !.copy = FALSE]
              [] byte = "?" -> [d EXCEPT !.help = ~@]
              [] OTHER -> d
    IN  IF byte = "w" THEN d ELSE [after EXCEPT !.panes[after.focus].alert = FALSE]

(* Copy mode: scrolling back as far as there are lines. *)
CopyMove(d, by) ==
    LET i == d.focus
    IN  [d EXCEPT !.panes[i].scroll = Min({Max({@ + by, 0}), d.panes[i].lines})]

-----------------------------------------------------------------------------
(* What must be true of a desktop. *)
PaneTypes ==
    [kind : ToSet(SystemKinds), channel : 0..254, title : Names, lines : 0..Scrollback,
     current : 0..(MaxLine - 1), alert : BOOLEAN, ran : BOOLEAN, ended : BOOLEAN,
     absent : 0..2, scroll : 0..Scrollback]

(* The pane a person is typing into stays under the keyboard: nothing done in
   the background takes the focus off it. *)
SamePane(d, e) ==
    <<Focused(d).kind, Focused(d).channel>> = <<Focused(e).kind, Focused(e).channel>>
Unambiguous(d) == Cardinality(Holding(d, Focused(d).channel)) = 1
FocusKeptBy(d) ==
    /\ SamePane(d, RestoreSystemPanes(d))
    /\ \A c \in 0..MaxChannel : SamePane(d, AddApplication(d, c, "TTY"))
    /\ SamePane(d, ClaimApplication(d, "TTY"))
    /\ ~Focused(d).ended /\ Unambiguous(d) => SamePane(d, CloseEnded(d))
=============================================================================
