------------------------------ MODULE Debugging ------------------------------
(***************************************************************************)
(* A debugging session: the console in te-rs, the pseudo-terminal, the     *)
(* adapter and the emulated target.  The pseudo-terminal loses nothing and *)
(* the adapter reads it in pieces of any length; heartbeats and restart    *)
(* requests share it with the debugger's requests.                         *)
(***************************************************************************)
EXTENDS Adapter, DebugConsole

CONSTANTS
    Sessions,       \* each: a map, the commands typed, how many, heartbeats,
                    \* whether the target's identity is known already
    Reads           \* lengths a read may have besides all there is

(* The target's addresses have 24 bits: parse_address and memory_request refuse
   more, and a debug map is made from an image of that size.  Its endpoints and
   the lengths of a memory request have 8. *)
Addresses == {a \in Nat : a \div 65536 \in 0..255}
Location(at) ==
    /\ at[1] \in {"number", "symbol", "line"}
    /\ at[1] = "number" => at[2] \in Addresses

ASSUME DebuggingAssumption ==
    /\ Reads \subseteq Nat \ {0}
    /\ Window \in 0..255 /\ None \notin Nat /\ None \notin Seq(0..255)
    /\ \A s \in Sessions :
         /\ \A i \in Instructions(s.map) : i.address \in Addresses
         /\ \A name \in DOMAIN s.map.symbols : s.map.symbols[name] \in Addresses
         /\ \A c \in s.commands :
              /\ Location(c.at) /\ c.count \in Nat
              /\ c.verb = "regs" => c.count \in 0..255
              /\ c.verb = "x" => c.at[1] = "number"

VARIABLES
    session,
    wire,       \* bytes on their way to the adapter
    sent,       \* history: the frames and heartbeats written to it
    taken,      \* history: those its decoder has made out
    screen      \* history: what the pane shows: the last report and breakpoints,
                \* decoded and asked-for windows, the lines since the last LOC

vars == <<adapterVars, console, session, wire, sent, taken, screen>>

(* The host's side of a debug link that is framed already. *)
Init ==
    /\ AdapterInit
    /\ session \in Sessions
    /\ console = [Fresh(session.map) EXCEPT !.identity = IF session.known THEN TargetBuild ELSE None]
    /\ wire = <<>> /\ sent = <<>> /\ taken = <<>>
    /\ screen = [notice |-> "running", points |-> {}, decoded |-> <<>>, asked |-> {},
                 lines |-> {}, ended |-> FALSE, due |-> ~session.known]

-----------------------------------------------------------------------------
HostIdle == UNCHANGED <<console, session, screen>>
AdapterIdle == UNCHANGED <<adapterVars, taken>>

(* queue_serial of a frame or a heartbeat. *)
Write(unit) ==
    /\ sent' = Append(sent, unit)
    /\ wire' = wire \o (IF unit.type = RAW_UART /\ unit.payload[1] = Tick[1]
                           /\ Len(unit.payload) = 5
                        THEN unit.payload ELSE Encode(unit))
DebugFrame(request) == [type |-> DEBUG_REQUEST, channel |-> 0, payload |-> request]

(* Once the link is framed, and never again: debug_identity_sent. *)
IdentityRequest ==
    /\ screen.due /\ screen' = [screen EXCEPT !.due = FALSE]
    /\ Write(DebugFrame(<<1>>))
    /\ AdapterIdle /\ UNCHANGED <<console, session>>

(* A command line in the debugger's pane.  Asking by location begins another
   listing. *)
Shown(cmd, outcome) ==
    [screen EXCEPT
        !.asked = IF cmd.verb = "dis" /\ outcome.request # <<>>
                  THEN @ \cup {<<Len(sent), outcome.console.pending>>} ELSE @,
        !.lines = IF cmd.verb = "list" /\ outcome.lines # {} THEN outcome.lines
                  ELSE @ \cup outcome.lines,
        !.ended = outcome.lines # {} /\ outcome.console.next = None]

DebuggerLine(cmd) ==
    /\ Len(sent) < session.bound
    /\ \A outcome \in {Command(console, cmd)} :
         /\ console' = outcome.console
         /\ screen' = Shown(cmd, outcome)
         /\ IF outcome.request = <<>> THEN UNCHANGED <<wire, sent>>
            ELSE Write(DebugFrame(outcome.request))
    /\ AdapterIdle /\ UNCHANGED session

(* The scheduler's tick of the main loop, and the restart key. *)
Heartbeat ==
    /\ session.beats /\ Len(sent) < session.bound
    /\ Write(Raw(<<255, 1, 165, 90, 0>>))
    /\ HostIdle /\ AdapterIdle

Restart ==
    /\ session.beats /\ Len(sent) < session.bound
    /\ Write(Raw(<<255, 4>>))
    /\ HostIdle /\ AdapterIdle

(* A read of the adapter's, before its batch. *)
AdapterRead(n) ==
    /\ wire # <<>> /\ n \in Reads \cup {Len(wire)} /\ n <= Len(wire)
    /\ Accept(SubSeq(wire, 1, n))
    /\ wire' = From(wire, n + 1)
    /\ taken' = taken \o inbox'
    /\ HostIdle /\ UNCHANGED sent

Handle == HandleFrame /\ HostIdle /\ UNCHANGED <<wire, sent, taken>>
Batch == RunBatch /\ HostIdle /\ UNCHANGED <<wire, sent, taken>>

(* The host's decoder waits for the rest of a halved answer, and gives it up
   when what follows does not fit. *)
Deliver ==
    /\ adapter.replies # <<>> /\ Head(adapter.replies).kind # "half"
    /\ \A reply \in {Head(adapter.replies)} :
         /\ console' = Response(console, reply)
         /\ screen' = [screen EXCEPT
                !.notice = IF reply.kind = "notice" THEN reply.value ELSE @,
                !.points = IF reply.kind = "points" THEN reply.value ELSE @,
                !.decoded = IF reply.kind = "memory" /\ Decodes(console, reply.value)
                            THEN Append(@, reply.value) ELSE @]
    /\ adapter' = [adapter EXCEPT !.replies = Tail(@)]
    /\ UNCHANGED <<buffer, inbox, session, wire, sent, taken>>

GiveUp ==
    /\ Len(adapter.replies) > 1 /\ Head(adapter.replies).kind = "half"
    /\ adapter' = [adapter EXCEPT !.replies = Tail(@)]
    /\ HostIdle /\ UNCHANGED <<buffer, inbox, wire, sent, taken>>

Next ==
    \/ IdentityRequest
    \/ \E cmd \in session.commands : DebuggerLine(cmd)
    \/ Heartbeat \/ Restart
    \/ \E n \in 1..Len(wire) : AdapterRead(n)
    \/ Handle \/ Batch \/ Deliver \/ GiveUp

Spec == Init /\ [][Next]_vars

-----------------------------------------------------------------------------
(* Frames and heartbeats reach the emulator's side as they were written, each
   once and in order, wherever the reads cut them and whatever bytes of the
   one look like the other. *)
UnitsExact ==
    LET d == Decode(buffer \o wire)
    IN  taken \o d.units = sent /\ d.rest = <<>>

(* With nothing under way the pane shows the breakpoints there are, and never
   calls an emulator running that a stop has ended. *)
Quiet == wire = <<>> /\ buffer = <<>> /\ inbox = <<>> /\ adapter.replies = <<>>
ViewCurrent ==
    Quiet =>
        /\ screen.points = adapter.points
        /\ ~adapter.running /\ ~adapter.stepped => screen.notice # "running"

(* No memory reply is shown as instructions more often than dis asked for
   instructions at its address. *)
DecodedOnce ==
    \A address \in ToSet(screen.decoded) :
        Cardinality({i \in 1..Len(screen.decoded) : screen.decoded[i] = address})
            <= Cardinality({a \in screen.asked : a[2] = address})

(* Reading on with a bare list passes no instruction by: between the first
   line shown and the last every instruction's line was shown, and when the
   listing ends there is none left below. *)
InstructionsListed ==
    \A i \in Instructions(console.map) :
        LET shown == {line[2] : line \in {l \in screen.lines : l[1] = i.source}}
        IN  shown # {} /\ i.line >= Min(shown) /\ (i.line <= Max(shown) \/ screen.ended)
                => i.line \in shown

(* What that takes of the maps. *)
MapsInOrder == \A s \in Sessions : InOrder(s.map)

(* The manual on pause: it stops the emulator, and continue resumes it.  An
   emulator the pane has shown as paused is resumed by nothing else. *)
PauseHolds ==
    [][screen.notice = "paused" /\ ~adapter.running /\ adapter'.running =>
        Head(inbox).type = DEBUG_REQUEST /\ Head(inbox).payload = <<5>>]_vars

(* The manual on a bare list: it carries on from where the last one stopped. *)
ListingContinues ==
    [][\A line \in screen'.lines \ screen.lines :
         LET shown == {l[2] : l \in {m \in screen'.lines : m[1] = line[1]}}
         IN  \A n \in Min(shown)..Max(shown) : n \in shown]_screen
=============================================================================
