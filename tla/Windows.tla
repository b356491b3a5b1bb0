------------------------------ MODULE Windows ------------------------------
(***************************************************************************)
(* The windowed frontend (te-rs main.rs, run_windows): one thread that     *)
(* turns a loop.  A pass reads from the serial line, then from the         *)
(* keyboard, then serves the timers that are due, and writes what it can.  *)
(* Here the items of a read and the keys of a read are steps of their own, *)
(* and EndOfPass is the rest.  The link's decoding is HostDecoder's, the   *)
(* assembly of snapshots Snapshot's, the debugger's answers DebugConsole's.*)
(***************************************************************************)
EXTENDS Desktop

CONSTANTS
    None,
    Programs,       \* names of the programs each channel's process may have
    Backlog,        \* MAX_WINDOWS_SERIAL_BACKLOG, counted in frames
    Stalled,        \* three quarters of it
    Sessions,       \* bound of the model: what a session may meet
    MaxLost         \* bound of the model: records lost

(* The titles the frames of the models' sessions carry. *)
Titles == {"", "mon", "cloc"}

ASSUME WindowsAssumption ==
    /\ Backlog \in Nat \ {0} /\ Stalled \in 0..Backlog
    /\ DOMAIN Programs \subseteq 0..MaxChannel
    /\ {"shel", "app"} \cup Titles \cup UNION {Programs[c] : c \in DOMAIN Programs} \subseteq Names
    /\ \A s \in Sessions : s.bytes \subseteq Seq(STRING)

VARIABLES
    running,        \* "running", or how the frontend ended
    mode,           \* of the link: "plain" or "framed"
    desk,           \* the Desktop
    saved,          \* the session file: None or a layout
    snapshot,       \* the published snapshot: None or a set of <<endpoint, name, state>>
    times,          \* time_modes, and channel_time_modes
    keyboard,       \* prefix_pending, copy_escape_state, shell_input, debug_input
    owed,           \* injected, debugger_prompt_due, debug_identity_sent
    status,         \* the error shown, and transport_decode_error
    output,         \* serial_output: the frames queued
    cts,            \* the target takes what is written
    slots,          \* environment: the name each of its channels' process has, or None
    history,        \* what the properties compare with
    session, count  \* the bounds: which session, how much of it is left

vars == <<running, mode, desk, saved, snapshot, times, keyboard, owed, status,
          output, cts, slots, history, session, count>>

Channels == DOMAIN Programs

(* time_mode_for_title, active_time_modes *)
TimeModeOf(title) ==
    CASE title \in {"mon", "upti"} -> "uptime" [] title = "cloc" -> "clock" [] OTHER -> None
ActiveTimeModes(s, channels) ==
    ({TimeModeOf(process[2]) : process \in IF s = None THEN {} ELSE s}
     \cup {channels[c] : c \in DOMAIN channels}) \ {None}

Init ==
    /\ running = "running" /\ mode = "plain"
    /\ session \in Sessions /\ count = [events |-> 0, lost |-> 0]
    /\ saved = None /\ snapshot = None
    /\ desk = PushChannel(NewDesktop, 254, <<"newline", "char">>)
    /\ times = [modes |-> {}, channels |-> [c \in {} |-> None]]
    /\ keyboard = [prefix |-> FALSE, escape |-> 0, shell |-> <<>>, debug |-> <<>>]
    /\ owed = [injected |-> <<>>, prompt |-> FALSE, identity |-> TRUE]
    /\ status = [error |-> None, decode |-> FALSE]
    /\ output = <<<<"hello">>>> /\ cts = TRUE
    /\ slots = [c \in Channels |-> IF c = 0 THEN "shel" ELSE None]
    /\ history = [live |-> <<{}, {}>>, assigned |-> {}, fresh |-> TRUE,
                  dropping |-> FALSE, dropped |-> FALSE]

-----------------------------------------------------------------------------
(* The backlog.  A frame goes into it whole or not at all. *)
QueueSerial(queue, frame) ==
    IF Len(queue) + 1 > Backlog THEN queue ELSE Append(queue, frame)
Queued(frames) == FoldLeft(QueueSerial, output, frames)
Dropping(frames) == history.dropping \/ Len(Queued(frames)) < Len(output) + Len(frames)

Queue(frames) ==
    /\ output' = Queued(frames)
    /\ history' = [history EXCEPT !.dropping = Dropping(frames)]

-----------------------------------------------------------------------------
(* The target's processes come and go. *)
Process(c) ==
    /\ c # 0 /\ "process" \in session.frames /\ count.events < session.events
    /\ count' = [count EXCEPT !.events = @ + 1]
    /\ \E name \in (Programs[c] \cup {None}) \ {slots[c]} : slots' = [slots EXCEPT ![c] = name]
    /\ UNCHANGED <<running, mode, desk, saved, snapshot, times, keyboard, owed,
                   status, output, cts, history, session>>

(* What is queued goes out at the end of its pass if the target takes it: the
   next item or key finds the backlog empty or the target refusing. *)
Turn == running = "running" /\ (cts => output = <<>>)

(* The serial line: the items of a read, and what they leave alone. *)
Item ==
    /\ Turn
    /\ UNCHANGED <<running, saved, keyboard, output, cts, slots, session>>
Arrived(type) ==
    /\ type \in session.frames /\ count.events < session.events
    /\ count' = [count EXCEPT !.events = @ + 1]
    /\ Item
Frame(type) == Arrived(type) /\ mode = "framed" /\ UNCHANGED mode

(* A frame takes the message of a decode error off the status line. *)
ErrorCleared == IF status.decode THEN [error |-> None, decode |-> FALSE] ELSE status

PlainText(bytes) ==
    /\ Arrived("text") /\ mode = "plain"
    /\ desk' = PushChannel(desk, 0, bytes)
    /\ UNCHANGED <<mode, snapshot, times, owed, status, history>>

(* HELLO_ACK, the frame that turns the decoder over. *)
Negotiated ==
    /\ Item /\ mode = "plain" /\ mode' = "framed" /\ status' = ErrorCleared
    /\ UNCHANGED <<count, desk, snapshot, times, owed, history>>

DebuggerHelp(d) == PushChannel(d, 254, <<"newline", "char">>)

TtyOutput(channel, bytes) ==
    /\ Frame("output") /\ slots[channel] # None
    /\ LET shown == PushChannel(IF Holding(desk, channel) # {} THEN desk
                                ELSE AddApplication(desk, channel, "TTY"), channel, bytes)
       IN  desk' = IF channel = 0 /\ "banner" \in ToSet(bytes) THEN DebuggerHelp(shown)
                   ELSE shown
    /\ status' = ErrorCleared
    /\ UNCHANGED <<snapshot, times, owed, history>>

(* Notifications of a channel: which time service its program wants. *)
WithMode(channels, channel, title) ==
    [c \in (DOMAIN channels \ {channel})
           \cup (IF TimeModeOf(title) = None THEN {} ELSE {channel}) |->
        IF c = channel THEN TimeModeOf(title) ELSE channels[c]]
NotRetimed(channels) == [times EXCEPT !.channels = channels]
Retimed(channels) == [modes |-> ActiveTimeModes(snapshot, channels), channels |-> channels]
Notified(channel, title) ==
    /\ times' = Retimed(WithMode(times.channels, channel, title))
    /\ status' = ErrorCleared
    /\ history' = [history EXCEPT !.fresh = TRUE]
    /\ UNCHANGED <<snapshot, owed>>

ChannelOpen(channel, title) ==
    /\ Frame("open") /\ Notified(channel, title)
    /\ desk' = AddApplication(ClearChannel(desk, channel), channel,
                              IF title = "" THEN "TTY" ELSE title)

ChannelTitle(channel, title) ==
    /\ Frame("title") /\ Notified(channel, title)
    /\ desk' = SetChannelTitle(desk, channel, title)

ChannelClose(channel) ==
    /\ Frame("close") /\ Notified(channel, "")
    /\ desk' = ReleaseChannel(desk, channel)

(* The record that publishes a snapshot (the others change nothing here).
   The report has two records of each process there is, its state and its name.
   A process is <<endpoint, name, state>>: without the first record its state
   reads as 0 and it is not live, without the second its name is empty. *)
Records == Channels \X {"process", "io"}
Reported(c, lost) ==
    <<c + 1, IF <<c, "io">> \in lost THEN "" ELSE slots[c],
      IF <<c, "process">> \in lost THEN 0 ELSE 1>>
Running(processes) == {process \in processes : process[3] # 0}
Endpoints(processes) == {process[1] : process \in Running(processes)}
Named(process, d) == NameChannel(d, process[1] - 1, process[2])

ResourceSnapshot(lost) ==
    /\ "resources" \in session.frames /\ count.events < session.events
    /\ count.lost + Cardinality(lost) <= MaxLost /\ \A record \in lost : slots[record[1]] # None
    /\ count' = [count EXCEPT !.events = @ + 1, !.lost = @ + Cardinality(lost)]
    /\ Item /\ mode = "framed" /\ UNCHANGED mode
    /\ snapshot' = {Reported(c, lost) : c \in {c \in Channels : slots[c] # None}}
    /\ times' = [times EXCEPT !.modes = ActiveTimeModes(snapshot', times.channels)]
    /\ desk' = MarkLive(FoldSet(Named, desk, Running(snapshot')), Endpoints(snapshot'))
    /\ status' = ErrorCleared
    /\ history' = [history EXCEPT !.fresh = TRUE, !.live = <<Endpoints(snapshot'), @[1]>>]
    /\ UNCHANGED owed

DebugResponse ==
    /\ Frame("debug")
    /\ desk' = PushChannel(desk, 254, <<"newline">>)
    /\ owed' = [owed EXCEPT !.prompt = TRUE]
    /\ status' = ErrorCleared
    /\ UNCHANGED <<snapshot, times, history>>

ProtocolError ==
    /\ Frame("error")
    /\ status' = [error |-> "target", decode |-> FALSE]
    /\ UNCHANGED <<desk, snapshot, times, owed, history>>

DecodeError ==
    /\ Frame("error")
    /\ status' = [error |-> "decode", decode |-> TRUE]
    /\ UNCHANGED <<desk, snapshot, times, owed, history>>

-----------------------------------------------------------------------------
(* The keyboard. *)
Press(key) ==
    /\ Turn /\ key \in session.keys
    \* a desktop without panes is not painted again: see EndOfPass
    /\ desk.panes # <<>>
    /\ session.plain \/ mode = "framed"
    /\ UNCHANGED <<mode, cts, slots, session>>
Pressed(key) ==
    /\ count.events < session.events /\ count' = [count EXCEPT !.events = @ + 1]
    /\ Press(key)

Prefix ==
    /\ Press("prefix") /\ ~keyboard.prefix
    /\ keyboard' = [keyboard EXCEPT !.prefix = TRUE]
    /\ UNCHANGED <<running, desk, saved, snapshot, times, owed, status, output, history, count>>

(* The key after the prefix, whatever else is going on. *)
Commanded(key) ==
    /\ Pressed(key) /\ keyboard.prefix
    /\ keyboard' = [keyboard EXCEPT !.prefix = FALSE]

Split ==
    /\ Commanded("s")
    /\ desk' = LET free == Unused(desk, 2..MaxChannel)
               IN  IF free = {} THEN desk ELSE AddApplication(desk, Min(free), "TTY")
    /\ UNCHANGED <<running, saved, snapshot, times, owed, status, output, history>>

Assign ==
    /\ Commanded("a")
    /\ LET free == Unused(desk, 1..MaxChannel)
       IN  IF free = {} THEN UNCHANGED <<desk, history>>
           ELSE /\ desk' = AssignFocused(desk, Min(free))
                /\ history' = [history EXCEPT !.assigned = @ \cup {Min(free)}]
    /\ UNCHANGED <<running, saved, snapshot, times, owed, status, output>>

LoadSession ==
    /\ Commanded("R")
    /\ IF saved = None
       THEN status' = [status EXCEPT !.error = "session"] /\ UNCHANGED desk
       ELSE desk' = RestoreLayout(desk, saved) /\ UNCHANGED status
    /\ UNCHANGED <<running, saved, snapshot, times, owed, output, history>>

Reconnect ==
    /\ Commanded("r")
    /\ IF mode = "plain"
       THEN /\ output' = Queued(<<<<"heartbeat">>, <<"heartbeat">>, <<"hello">>>>)
            /\ history' = [history EXCEPT !.fresh = FALSE,
                              !.dropping = Dropping(<<<<"heartbeat">>, <<"heartbeat">>, <<"hello">>>>)]
       ELSE history' = [history EXCEPT !.fresh = FALSE] /\ UNCHANGED output
    /\ snapshot' = None
    /\ owed' = [owed EXCEPT !.identity = TRUE]
    /\ status' = [error |-> None, decode |-> FALSE]
    /\ desk' = PushChannel(desk, 254, <<"newline">>)
    /\ UNCHANGED <<running, saved, times>>

(* k and B: the requests for the target's interrupt handler. *)
Request(key, request) ==
    /\ Commanded(key)
    /\ Queue(<<<<request, mode>>>>)
    /\ desk' = PushChannel(desk, 254, <<"newline">>)
    /\ UNCHANGED <<running, saved, snapshot, times, owed, status>>

EscapeFocused ==
    /\ Commanded("e")
    /\ IF Focused(desk).kind \in {"shell", "application"}
       THEN /\ Queue(<<<<"tty", Focused(desk).channel, "esc">>>>)
            /\ desk' = PushChannel(desk, Focused(desk).channel, <<"char">>)
       ELSE UNCHANGED <<output, history, desk>>
    /\ UNCHANGED <<running, saved, snapshot, times, owed, status>>

DeskCommand(key) ==
    /\ Commanded(key) /\ key \notin {"s", "a", "R", "r", "k", "B", "e"}
    /\ running' = IF key = "d" THEN "detached" ELSE running
    /\ saved' = IF key = "w" THEN Layout(desk) ELSE saved
    /\ desk' = Command(desk, key)
    /\ UNCHANGED <<snapshot, times, owed, status, output, history>>

(* Keys without the prefix. *)
Typed(key) == Pressed(key) /\ ~keyboard.prefix
Detach ==
    /\ Typed("ctrl-c") /\ running' = "detached"
    /\ UNCHANGED <<desk, saved, snapshot, times, keyboard, owed, status, output, history>>

ClosesHelp(key) == desk.help /\ key \in {"q", "?", "esc"}
HelpKey(key) ==
    /\ Typed(key) /\ ClosesHelp(key)
    /\ desk' = Command(desk, key)
    /\ UNCHANGED <<running, saved, snapshot, times, keyboard, owed, status, output, history>>

(* handle_copy_input *)
CopyMoves == [k |-> 1, j |-> -1, u |-> 10, d |-> -10, g |-> Scrollback, G |-> -Scrollback,
              A |-> 1, B |-> -1]
CopyKey(key) ==
    /\ Typed(key) /\ ~ClosesHelp(key) /\ key # "ctrl-c" /\ desk.copy
    /\ LET escape == keyboard.escape
           moves == key \in (IF escape = 2 THEN {"A", "B"} ELSE DOMAIN CopyMoves \ {"A", "B"})
       IN  /\ keyboard' = [keyboard EXCEPT !.escape =
                              CASE escape = 0 /\ key = "esc" -> 1
                                [] escape = 1 /\ key = "[" -> 2
                                [] OTHER -> 0]
           /\ desk' = CASE escape \in {0, 2} /\ moves -> CopyMove(desk, CopyMoves[key])
                        [] escape = 0 /\ key = "q" -> Command(desk, "y")
                        [] OTHER -> desk
    /\ UNCHANGED <<running, saved, snapshot, times, owed, status, output, history>>

ForPane(key) ==
    /\ Typed(key) /\ ~ClosesHelp(key) /\ key # "ctrl-c" /\ ~desk.copy
    /\ UNCHANGED <<running, saved, snapshot, times, status>>

Printable(key) == key \notin {"enter", "erase", "esc"}
Edited(line, key) ==
    CASE key = "enter" -> <<>>
      [] key = "erase" -> IF line = <<>> THEN line ELSE Front(line)
      [] key = "esc" -> line
      [] OTHER -> Append(line, key)

(* The Debugger pane: a line of it is a command of the debugger, of the shell,
   or a request to restart the shell.  Whether the debugger has a request for
   the target is DebugConsole's. *)
ForShell(line) == line # <<>> /\ Head(line) \in {"!ps", "!kill 1"}
DebuggerLine(line, asks) ==
    CASE line = <<"!kill 1">> ->
            Queue(<<<<"restart", mode>>>>) /\ UNCHANGED owed
      [] ForShell(line) /\ line # <<"!kill 1">> ->
            /\ owed' = [owed EXCEPT !.injected = Append(line, "enter")]
            /\ UNCHANGED <<output, history>>
      [] OTHER ->
            IF asks THEN Queue(<<<<"debug">>>>) /\ owed' = [owed EXCEPT !.prompt = FALSE]
            ELSE UNCHANGED <<owed, output, history>>

DebuggerKey(key, asks) ==
    /\ ForPane(key) /\ Focused(desk).kind = "debugger"
    /\ asks => key = "enter" /\ keyboard.debug # <<>> /\ ~ForShell(keyboard.debug)
    /\ keyboard' = [keyboard EXCEPT !.debug = Edited(@, key)]
    /\ IF key = "enter" THEN DebuggerLine(keyboard.debug, asks)
       ELSE UNCHANGED <<owed, output, history>>
    /\ desk' = PushChannel(desk, 254,
                   CASE key = "enter" -> IF asks THEN <<"newline">> ELSE <<"newline", "char">>
                     [] key = "erase" /\ keyboard.debug # <<>> -> <<"erase">>
                     [] Printable(key) -> <<"char">>
                     [] OTHER -> <<>>)

(* A line typed at the shell that starts a program takes a pane for it. *)
Claiming(key) ==
    IF Focused(desk).kind = "shell" /\ key = "enter" /\ keyboard.shell = <<"run app">>
    THEN ClaimApplication(desk, "app") ELSE desk

FramedKey(key) ==
    /\ ForPane(key) /\ Focused(desk).kind # "debugger" /\ mode = "framed"
    /\ keyboard' = [keyboard EXCEPT !.shell =
                       IF Focused(desk).kind = "shell" THEN Edited(@, key) ELSE @]
    /\ LET claimed == Claiming(key)
           channels == InputChannels(claimed)
           echo == CASE key = "enter" -> "newline" [] key = "erase" -> "erase" [] OTHER -> "char"
           Echoed(d, channel) == PushChannel(d, channel, <<echo>>)
       IN  /\ desk' = FoldLeft(Echoed, claimed, channels)
           /\ Queue([i \in DOMAIN channels |-> <<"tty", channels[i], key>>])
    /\ UNCHANGED owed

PlainKey(key) ==
    /\ ForPane(key) /\ Focused(desk).kind # "debugger" /\ mode = "plain"
    /\ Queue(<<<<"raw", key>>>>)
    /\ UNCHANGED <<desk, keyboard, owed>>

-----------------------------------------------------------------------------
(* The end of a pass: the timers that are due, in the code's order, and one
   character of what is typed on the shell's behalf. *)
Timers == {"prompt", "resources", "heartbeat", "hello", "time"}
Applicable ==
    {"heartbeat"} \cup (IF mode = "plain" THEN {"hello"} ELSE {"resources"})
    \cup (IF owed.prompt THEN {"prompt"} ELSE {})
    \cup (IF mode = "framed" /\ times.modes # {} THEN {"time"} ELSE {})

Timed(due) ==
    LET When(wanted, frame) == IF wanted THEN <<frame>> ELSE <<>>
    IN  When("resources" \in due, <<"resources">>) \o When("heartbeat" \in due, <<"heartbeat">>)
        \o When("hello" \in due, <<"hello">>)
        \o When("time" \in due /\ "uptime" \in times.modes, <<"time", "uptime">>)
        \o When("time" \in due /\ "clock" \in times.modes, <<"time", "clock">>)
        \o (IF mode = "framed" /\ owed.injected # <<>>
            THEN <<<<"tty", 0, Head(owed.injected)>>>> ELSE <<>>)
        \o When(mode = "framed" /\ owed.identity, <<"debug">>)

StallIgnored(queue) == Len(queue) > Backlog
StallSeen(queue) == Len(queue) >= Stalled

EndOfPass(due) ==
    /\ running = "running"
    /\ owed' = [injected |-> IF mode = "framed" /\ owed.injected # <<>>
                             THEN Tail(owed.injected) ELSE owed.injected,
                prompt |-> owed.prompt /\ "prompt" \notin due,
                identity |-> owed.identity /\ mode = "plain"]
    /\ desk' = IF "prompt" \in due THEN PushChannel(desk, 254, <<"char">>) ELSE desk
    /\ LET queue == Queued(Timed(due))
       IN  /\ status' = [status EXCEPT !.error = IF StallSeen(queue) THEN "stalled" ELSE @]
           /\ output' = IF cts THEN <<>> ELSE queue
    /\ history' = [history EXCEPT !.dropping = FALSE, !.dropped = Dropping(Timed(due))]
    \* the status line names the focused pane: without panes, painting panics
    /\ running' = IF desk.panes = <<>> THEN "panicked" ELSE running
    /\ UNCHANGED <<mode, saved, snapshot, times, keyboard, cts, slots, session, count>>

(* The target's flow control, and the end of the line. *)
FlowControl ==
    /\ session.faulty /\ running = "running" /\ cts' = ~cts
    /\ UNCHANGED <<running, mode, desk, saved, snapshot, times, keyboard, owed,
                   status, output, slots, history, session, count>>

LineLost ==
    /\ session.faulty /\ running = "running" /\ running' = "lost"
    /\ status' = [status EXCEPT !.error = "lost"]
    /\ UNCHANGED <<mode, desk, saved, snapshot, times, keyboard, owed,
                   output, cts, slots, history, session, count>>

Serial ==
    \/ \E c \in Channels : Process(c)
    \/ \E bytes \in session.bytes : PlainText(bytes)
    \/ \E c \in Channels, bytes \in session.bytes : TtyOutput(c, bytes)
    \/ \E c \in Channels, title \in Titles : ChannelOpen(c, title) \/ ChannelTitle(c, title)
    \/ \E c \in Channels : ChannelClose(c)
    \/ \E lost \in SUBSET Records : ResourceSnapshot(lost)
    \/ Negotiated \/ DebugResponse \/ ProtocolError \/ DecodeError
    \/ FlowControl \/ LineLost
Keyboard ==
    \/ Prefix \/ Split \/ Assign \/ LoadSession \/ Reconnect
    \/ Request("k", "restart") \/ Request("B", "reboot")
    \/ EscapeFocused \/ Detach
    \/ \E key \in session.keys :
        \/ DeskCommand(key) \/ HelpKey(key) \/ CopyKey(key) \/ FramedKey(key) \/ PlainKey(key)
        \/ \E asks \in BOOLEAN : DebuggerKey(key, asks)
(* A bound of the model: on a line that takes everything, what is due makes no
   difference but to the prompt, and all of it is due or nothing. *)
Due == IF session.faulty THEN SUBSET Applicable ELSE {{}, Applicable}
Next == Serial \/ Keyboard \/ \E due \in Due : EndOfPass(due)
Spec == Init /\ [][Next]_vars

-----------------------------------------------------------------------------
WindowsTypeOK ==
    /\ running \in {"running", "detached", "lost", "panicked"} /\ mode \in {"plain", "framed"}
    /\ \A i \in DOMAIN desk.panes : desk.panes[i] \in PaneTypes
    /\ desk.panes # <<>> => desk.focus \in DOMAIN desk.panes
    /\ desk.panes = <<>> => "close" \in session.frames
    /\ Len(output) <= Backlog

(* What is done in the background, and the restoring of panes, leave the
   keyboard with the pane it was on. *)
FocusKept == desk.panes # <<>> => FocusKeptBy(desk)

(* A pane that says (ended) belongs to a process that two snapshots in a row
   have not listed: the first to miss it may have lost its record, or have come
   before it.  (A pane moved to another channel takes its state along.) *)
EndedSound ==
    \A i \in OfKind(desk, "application") :
        LET pane == desk.panes[i]
        IN  pane.ended /\ pane.channel \notin history.assigned =>
                pane.channel + 1 \notin history.live[1] \cup history.live[2]

(* A key typed to a channel is sent to it once, and its output goes to the pane
   it is typed in, even when input is broadcast: a channel has one pane.  (The
   shell's has a second after x, output, S.) *)
OneReader ==
    \A i, j \in DOMAIN desk.panes :
        desk.panes[i].channel = desk.panes[j].channel => i = j \/ desk.panes[i].channel = 0

(* The time frames sent are those the known programs wait for, unless a
   reconnect has just forgotten the snapshot they were known from. *)
TimeModesExact == history.fresh => times.modes = ActiveTimeModes(snapshot, times.channels)

(* A frame dropped for want of room is never dropped silently: the pass that
   dropped it ends with the stall on the status line. *)
DropsAnnounced ==
    [][history'.dropped /\ ~history.dropped => status'.error = "stalled"]_vars

(* A pane in copy mode is scrolled to text it has. *)
ScrollOnText == \A i \in DOMAIN desk.panes : desk.panes[i].scroll <= desk.panes[i].lines
=============================================================================
