------------------------------- MODULE Uplink -------------------------------
(***************************************************************************)
(* The way of a byte from the host to a frame of the kernel: the host      *)
(* writes frames and control escapes (te-rs main.rs), the UART interrupt   *)
(* handler (preemption.s) takes the escapes out and puts the rest in the   *)
(* receive ring, and the scheduler's poll (catalog-spawn.s) feeds the      *)
(* frame decoder from the ring.  The ring and the decoder are modules of   *)
(* their own; here they meet the handler.                                  *)
(***************************************************************************)
EXTENDS RxRing, FrameDecoder

CONSTANTS
    Units,              \* what the host may write: see the units below
    MaxUnits,           \* bound of the model: units the host writes
    UptimeForeground    \* the foreground program is the legacy uptime

ASSUME UnitsAssumption ==
    /\ MaxUnits \in Nat /\ UptimeForeground \in BOOLEAN
    /\ Byte = 0..255 /\ \A unit \in Units : unit.bytes \in Seq(Byte)

VARIABLES
    wire,       \* bytes of the current unit the UART has yet to deliver
    sent,       \* history: the units the host has written
    escape,     \* _preemption_frame_state
    hostTick,   \* the tick bytes read so far
    isr,        \* bytes the running handler still has to enqueue
    framed,     \* _protocol_framed_mode
    controls,   \* history: heartbeats and requests the handler has seen
    lost        \* history: bytes the ring had no room for

handler == <<escape, hostTick, isr, controls>>
vars == <<ringVars, decoder, wire, sent, handler, framed, lost>>

(* Units.  A frame's bytes are written as they are. *)
FrameUnit(frame) == [kind |-> "frame", what |-> frame, bytes |-> Encode(frame)]
Heartbeat(tick) == [kind |-> "control", what |-> tick, bytes |-> <<255, 1>> \o tick]
Restart == [kind |-> "control", what |-> <<"restart">>, bytes |-> <<255, 4>>]
Reboot == [kind |-> "control", what |-> <<"reboot">>, bytes |-> <<255, 5>>]

(* passthrough_frame: once the link is framed a request is written inside a
   frame of a type that only the debug adapter knows. *)
PassthroughType == 254
Passthrough(request) ==
    [kind |-> "control", what |-> request.what,
     bytes |-> Encode([type |-> PassthroughType, channel |-> 0,
                       payload |-> request.bytes])]
Wrapped(unit) == unit.kind = "control" /\ Len(unit.bytes) > Len(Heartbeat(<<0, 0, 0>>).bytes)

Noise(bytes) == [kind |-> "noise", what |-> <<>>, bytes |-> bytes]

(* The session starts plain, or is under way. *)
Init ==
    /\ RingInit /\ DecoderInit
    /\ wire = <<>> /\ sent = <<>>
    /\ escape = "normal" /\ hostTick = <<>> /\ isr = <<>>
    /\ framed \in BOOLEAN /\ controls = <<>> /\ lost = 0

(* The host writes frames other than HELLO, and wraps its requests, once the
   target has acknowledged a HELLO. *)
Send(unit) ==
    /\ unit.kind = "frame" => framed \/ unit.what = Hello
    /\ Wrapped(unit) => framed
    /\ wire = <<>> /\ Len(sent) < MaxUnits
    /\ wire' = unit.bytes
    /\ sent' = Append(sent, unit)
    /\ UNCHANGED <<ringVars, decoder, handler, framed, lost>>

-----------------------------------------------------------------------------
(* _preemption_uart_isr on byte b. *)
Ordinary(b) ==
    /\ escape = "normal" /\ b # 255
    /\ isr' = <<b>>
    /\ UNCHANGED <<escape, hostTick, controls>>

EscapeStart(b) ==
    /\ escape = "normal" /\ b = 255
    /\ escape' = "escape"
    /\ UNCHANGED <<hostTick, isr, controls>>

TickStart(b) ==
    /\ escape = "escape" /\ b = 1
    /\ escape' = "tick" /\ hostTick' = <<>>
    /\ UNCHANGED <<isr, controls>>

Request(b) ==
    /\ escape = "escape" /\ b \in {4, 5}
    /\ escape' = "normal"
    /\ controls' = Append(controls, IF b = 4 THEN <<"restart">> ELSE <<"reboot">>)
    /\ UNCHANGED <<hostTick, isr>>

(* FF 00 is a literal FF; other malformed escapes keep both bytes. *)
EscapeOrdinary(b) ==
    /\ escape = "escape" /\ b \notin {1, 4, 5}
    /\ escape' = "normal"
    /\ isr' = IF b = 0 THEN <<255>> ELSE <<255, b>>
    /\ UNCHANGED <<hostTick, controls>>

(* The legacy uptime program gets the heartbeat as terminal input, with FF and
   1D escaped for it. *)
TimeByte(b) == IF b = 255 THEN <<255, 0>> ELSE IF b = 29 THEN <<255, 3>> ELSE <<b>>
Forwarded(tick) ==
    IF framed \/ ~UptimeForeground THEN <<>>
    ELSE <<255, 1>> \o TimeByte(tick[1]) \o TimeByte(tick[2]) \o TimeByte(tick[3])

TickBytesLong == 4
TickBytes == 3

TickByte(b) ==
    /\ escape = "tick"
    /\ hostTick' = Append(hostTick, b)
    /\ IF Len(hostTick') < TickBytes
       THEN UNCHANGED <<escape, isr, controls>>
       ELSE /\ escape' = "normal"
            /\ controls' = Append(controls, hostTick')
            /\ isr' = Forwarded(hostTick')

Interrupt ==
    /\ wire # <<>> /\ isr = <<>>
    /\ wire' = Tail(wire)
    /\ LET b == Head(wire) IN
        \/ Ordinary(b) \/ EscapeStart(b) \/ TickStart(b)
        \/ Request(b) \/ EscapeOrdinary(b) \/ TickByte(b)
    /\ UNCHANGED <<ringVars, decoder, sent, framed, lost>>

(* The handler enqueues what the byte amounts to before it returns. *)
HandlerPut ==
    /\ isr # <<>>
    /\ isr' = Tail(isr)
    /\ \/ Put(Head(isr)) /\ lost' = IF Held' > Capacity THEN lost + 1 ELSE lost
       \/ Drop /\ lost' = lost + 1
    /\ UNCHANGED <<decoder, wire, sent, escape, hostTick, controls, framed>>

-----------------------------------------------------------------------------
(* _tty_poll_uart.  Before negotiation only a candidate frame goes to the
   decoder; other bytes are the foreground's input. *)
ForDecoder(b) == framed \/ ~At("first") \/ b = Sync[1]

PollStep ==
    /\ isr = <<>>
    /\ LoadCount \/ StoreCount
    /\ UNCHANGED <<decoder, wire, sent, handler, framed, lost>>

(* The callback of a valid HELLO enters framed mode. *)
PollByte ==
    /\ isr = <<>>
    /\ TakeByte
    /\ IF ForDecoder(data[tail]) THEN Consume(data[tail]) ELSE UNCHANGED decoder
    /\ framed' = (framed \/ (frames' # frames /\ Last(frames') = Hello))
    /\ UNCHANGED <<wire, sent, handler, lost>>

Next ==
    \/ \E unit \in Units : Send(unit)
    \/ Interrupt
    \/ HandlerPut
    \/ PollStep
    \/ PollByte

Spec == Init /\ [][Next]_vars

-----------------------------------------------------------------------------
(* A frame the kernel is handed is, byte for byte, what last came out of the
   ring: whatever noise, loss or overrun precedes it. *)
FrameSound ==
    [][frames' # frames => IsSuffix(Encode(Last(frames')), taken')]_vars

WantedOf(units, kind) ==
    LET wanted[n \in 0..Len(units)] ==
            IF n = 0 THEN <<>>
            ELSE IF units[n].kind = kind THEN Append(wanted[n - 1], units[n].what)
            ELSE wanted[n - 1]
    IN  wanted[Len(units)]
Wanted(kind) == WantedOf(sent, kind)

(* As long as the ring has had room, the kernel is handed the frames the host
   has written, in order, each once; all of them when the ring is drained.
   Heartbeats, requests and rejected frames between them change nothing.  A
   wrapped request does: the handler takes its two bytes out of the frame. *)
Drained == wire = <<>> /\ isr = <<>> /\ Held = 0
FramesExact == lost = 0 /\ ~(\E i \in 1..Len(sent) : Wrapped(sent[i])) =>
    /\ IsPrefix(frames, Wanted("frame"))
    /\ Drained => frames = Wanted("frame")

(* The heartbeats, restarts and reboots the handler acts on are those the host
   has asked for, each as soon as its last byte is in, whatever bytes the ticks
   and frames are made of. *)
ControlsExact ==
    /\ IsPrefix(controls, Wanted("control"))
    /\ wire = <<>> => controls = Wanted("control")

(* The bytes of a tick, as the host writes them. *)
HostTickBytes == 3

(* What that takes of the bytes the host writes: a control has its request in
   one place and no FF elsewhere, and in anything else no FF can be taken for
   a request, nor leaves the handler within an escape. *)
Asks(bytes, p, what) ==
    /\ p + 2 <= Len(bytes) /\ bytes[p + 1] = 255
    /\ \/ bytes[p + 2] = 4 /\ what = <<"restart">>
       \/ bytes[p + 2] = 5 /\ what = <<"reboot">>
       \/ /\ bytes[p + 2] = 1 /\ p + 2 + HostTickBytes <= Len(bytes)
          /\ what = SubSeq(bytes, p + 3, p + 2 + HostTickBytes)
AskedBy(bytes, p) == IF bytes[p + 2] = 1 THEN p + 2 + HostTickBytes ELSE p + 2
Unmistakable(unit) ==
    LET bytes == unit.bytes
    IN  IF unit.kind = "control"
        THEN \E p \in 0..Len(bytes) :
                /\ Asks(bytes, p, unit.what)
                /\ \A i \in 1..Len(bytes) : i <= p \/ AskedBy(bytes, p) < i => bytes[i] # 255
        ELSE \A i \in 1..Len(bytes) :
                bytes[i] = 255 => i < Len(bytes) /\ bytes[i + 1] \notin {1, 4, 5}
UnitsUnmistakable == \A unit \in Units : Unmistakable(unit)
=============================================================================
