------------------------------ MODULE Downlink ------------------------------
(***************************************************************************)
(* The way of a byte from the target to the host.  The target              *)
(* (catalog-spawn.s) prints as text or as frames and answers HELLO and     *)
(* resource requests; the link may lose bytes and delivers the others in   *)
(* reads of any size; the host (te-rs main.rs) attaches, repeats HELLO     *)
(* until it is answered, and asks for snapshots.                           *)
(***************************************************************************)
EXTENDS HostDecoder, Snapshot

CONSTANTS
    Endpoints,      \* processes the target may have, endpoint 1 always
    Typed,          \* the bytes programs print
    Reads,          \* lengths a read may have besides all there is
    MaxUnits,       \* bound of the model: bytes printed and snapshots asked for
    MaxAir,         \* bound of the model: bytes under way when the target waits for CTS
    Bursts,         \* numbers of bytes the link may lose at once
    MaxFaults       \* bound of the model: losses either way and reconnects

ASSUME DownlinkAssumption ==
    /\ Endpoints \subseteq 1..16 /\ 1 \in Endpoints
    /\ Typed \subseteq 0..255 /\ Bursts \subseteq Nat /\ HostMaxPayload >= 4
    /\ {MaxUnits, MaxAir, MaxFaults} \subseteq Nat

(* Text in ASCII does not have the first sync byte in it: ConservationAlways
   asks for no more than that one of the two is missing. *)
TextPlain == ~({Sync[1], Sync[2]} \subseteq Typed)

VARIABLES
    target,     \* framed mode, and the generation of the last report
    up,         \* requests on their way to the target
    air,        \* bytes on their way to the host
    attached,   \* the startup of the host is over
    out,        \* history: the bytes the target has sent
    reports,    \* history: the live endpoints of each report
    count       \* how often each bounded thing has happened

vars == <<hostVars, assembler, target, up, air, attached, out, reports, count>>

Init ==
    /\ HostInit /\ assembler = Empty
    /\ target \in [framed : BOOLEAN, generation : {0}]
    /\ up = <<>> /\ air = <<>> /\ attached = FALSE /\ out = <<>> /\ reports = <<>>
    /\ count = [units |-> 0, faults |-> 0, lost |-> 0, reconnects |-> 0]

-----------------------------------------------------------------------------
(* The target. *)
Emit(bytes) == Len(air) < MaxAir /\ air' = air \o bytes /\ out' = out \o bytes
HostIdle == UNCHANGED <<hostVars, assembler, attached>>

(* _putchar: a byte as it is, or in a frame of its own. *)
Output(b) ==
    IF target.framed THEN Encode([type |-> 2, channel |-> 0, payload |-> <<b>>]) ELSE <<b>>

PutByte(b) ==
    /\ count.units < MaxUnits
    /\ count' = [count EXCEPT !.units = @ + 1]
    /\ Emit(Output(b))
    /\ HostIdle /\ UNCHANGED <<target, up, reports>>

(* _PROTOCOL_FRAME on an exact HELLO, framed or not.  (The newline it leaves
   for the shell is input of Kernel's.) *)
AnswerHello ==
    /\ up # <<>> /\ Head(up) = "hello"
    /\ up' = Tail(up)
    /\ target' = [target EXCEPT !.framed = TRUE]
    /\ Emit(Ack)
    /\ HostIdle /\ UNCHANGED <<reports, count>>

(* The records of a report.  Counters have moved on since the last one: their
   value here is the number of the report. *)
ResourceRecord(body) == Encode([type |-> 8, channel |-> 0, payload |-> body])
ProcessRecords(generation, endpoint) ==
    FlattenSeq([i \in 1..3 |->
        ResourceRecord(<<<<PROCESS, PROCESS_IO, PREEMPTION>>[i], generation, endpoint, generation>>)])
Report(generation, live) ==
    ResourceRecord(<<BEGIN, generation>>)
    \o ResourceRecord(<<MEMORY, generation, Cardinality(live)>>)
    \o FlattenSeq([endpoint \in 1..Max(live) |->
           IF endpoint \in live THEN ProcessRecords(generation, endpoint) ELSE <<>>])
    \o ResourceRecord(<<END, generation, generation>>)

(* _protocol_frame_resource: the kernel sends all records before it goes on,
   so they are of one moment; processes start and end between two reports. *)
AnswerResources(live) ==
    /\ up # <<>> /\ Head(up) = "resources" /\ 1 \in live
    /\ up' = Tail(up)
    /\ IF target.framed
       THEN LET generation == (target.generation + 1) % 256
            IN  /\ target' = [target EXCEPT !.generation = generation]
                /\ reports' = Append(reports, live)
                /\ Emit(Report(generation, live))
       ELSE UNCHANGED <<target, reports, air, out>>
    /\ HostIdle /\ UNCHANGED count

-----------------------------------------------------------------------------
(* The link. *)
Lose(n) ==
    /\ n <= Len(air) /\ count.faults < MaxFaults
    /\ air' = From(air, n + 1)
    /\ count' = [count EXCEPT !.faults = @ + 1, !.lost = @ + n]
    /\ HostIdle /\ UNCHANGED <<target, up, out, reports>>

LoseRequest ==
    /\ up # <<>> /\ count.faults < MaxFaults
    /\ up' = Tail(up)
    /\ count' = [count EXCEPT !.faults = @ + 1]
    /\ HostIdle /\ UNCHANGED <<target, air, out, reports>>

-----------------------------------------------------------------------------
(* The host. *)
TargetIdle == UNCHANGED <<target, out, reports>>

(* Startup: what the heartbeat realignment has read is pushed before HELLO is
   written, and only its Plain items are looked at. *)
Attach ==
    /\ ~attached /\ attached' = TRUE
    /\ Read(air) /\ air' = <<>>
    /\ up' = Append(up, "hello")
    /\ TargetIdle /\ UNCHANGED <<assembler, count>>

Payloads(frames) ==
    LET OfResources(frame) == frame.type = 8
        chosen == SelectSeq(frames, OfResources)
    IN  [i \in 1..Len(chosen) |-> chosen[i].payload]

ReadSome(n) ==
    /\ attached /\ air # <<>>
    /\ n \in Reads \cup {Len(air)} /\ n <= Len(air)
    /\ Read(SubSeq(air, 1, n))
    /\ air' = From(air, n + 1)
    /\ Assemble(Payloads(Push(host, SubSeq(air, 1, n)).frames))
    /\ TargetIdle /\ UNCHANGED <<up, attached, count>>

(* The timers of the main loop.  A timer that fires while its last request is
   still on the way adds nothing a later one does not. *)
RetryNever == FALSE
RetryDue == attached /\ host.mode = "plain"

HelloRetry ==
    /\ RetryDue /\ up = <<>>
    /\ up' = Append(up, "hello")
    /\ TargetIdle /\ UNCHANGED <<hostVars, assembler, attached, air, count>>

ResourceRequest ==
    /\ attached /\ host.mode = "framed" /\ up = <<>> /\ count.units < MaxUnits
    /\ up' = Append(up, "resources")
    /\ count' = [count EXCEPT !.units = @ + 1]
    /\ TargetIdle /\ UNCHANGED <<hostVars, assembler, attached, air>>

(* The reconnect key renegotiates a plain link; on a framed one it only drops
   the snapshots. *)
Reconnect ==
    /\ attached /\ count.faults < MaxFaults
    /\ count' = [count EXCEPT !.faults = @ + 1, !.reconnects = @ + 1, !.lost = @ + Len(host.pending)]
    /\ Discard
    /\ IF host.mode = "plain" THEN Resynchronize /\ up' = Append(up, "hello")
       ELSE UNCHANGED <<hostVars, up>>
    /\ TargetIdle /\ UNCHANGED <<attached, air>>

Next ==
    \/ \E b \in Typed : PutByte(b)
    \/ AnswerHello
    \/ \E live \in SUBSET Endpoints : AnswerResources(live)
    \/ \E n \in Bursts : Lose(n)
    \/ LoseRequest
    \/ Attach \/ HelloRetry \/ ResourceRequest \/ Reconnect
    \/ \E n \in 1..Len(air) : ReadSome(n)

(* The kernel polls its decoder, the host's loop turns and its timers fire.
   Reads are enabled when there is something to read: with that written out,
   the last two conjuncts are weak fairness of Attach and of the reads. *)
Fairness ==
    /\ WF_vars(AnswerHello) /\ WF_vars(\E live \in SUBSET Endpoints : AnswerResources(live))
    /\ WF_vars(HelloRetry)
    /\ []<>attached
    /\ []<>(air = <<>>) \/ []<><<\E n \in 1..Len(air) : ReadSome(n)>>_vars

Spec == Init /\ [][Next]_vars /\ Fairness

-----------------------------------------------------------------------------
(* While nothing is lost, what the host has taken for text, what it has taken
   for frames and what it still holds are the target's bytes, in order. *)
Conservation ==
    count.lost = 0 =>
        out = text \o host.pending \o FlattenSeq([i \in 1..Len(received) |-> Encode(received[i])])
              \o host.buffer \o air

(* The first whole ACK ends plain text, however reads cut it; nothing before
   it does.  (A reconnect in the middle of an ACK drops its beginning.) *)
AckNotMissed ==
    IF host.mode = "framed" THEN received # <<>> /\ received[1] = HelloAck
    ELSE count.reconnects = 0 => FirstAt(text \o host.pending, Ack) = {}

(* A read does what two shorter ones would have done: no frame, text or error
   depends on where the operating system cuts the stream. *)
ReadsEquivalent == CutAt(SubSeq(air, 1, Min({Len(air), 2 * Len(Ack)})), 1..Len(Ack))

(* Every frame handed on is, byte for byte, in what the read added to. *)
NewFrames == ToSet(SubSeq(received', Len(received) + 1, Len(received')))
FrameSoundHost ==
    [][\A bytes \in {host.pending \o host.buffer \o air} :
        \A code \in {Encode(frame) : frame \in NewFrames} : FirstAt(bytes, code) # {}]_received

(* A lost byte costs one frame at most: bad candidates never take good frames
   with them. *)
WholeAt(bytes, p) ==
    LET b == From(bytes, p)
    IN  Len(b) >= 8 /\ ~Malformed(b) /\ Len(b) >= FrameLength(b) /\ b[4] \in KnownTypes
Within(bytes) == Cardinality({p \in FirstAt(bytes, Sync) : WholeAt(bytes, p)})
Frames == Len(received) + Within(host.buffer \o air)
LossCostsOneFrame ==
    [][host.mode = "framed" => Frames' >= Frames - (count.lost' - count.lost)]_vars

(* A published snapshot says of one report what that report said, and of no
   other; all of it when nothing was lost. *)
SnapshotTrue ==
    LET s == assembler.current IN
    s # None =>
        /\ s.generation \in 1..Len(reports)
        /\ s.errors = s.generation
        /\ s.memory \in {0, Cardinality(reports[s.generation])}
        /\ DOMAIN s.processes \subseteq reports[s.generation]
        /\ \A e \in DOMAIN s.processes :
             {s.processes[e][f] : f \in DOMAIN Fresh} \subseteq {0, s.generation}
        /\ count.lost = 0 =>
             /\ s.memory # 0 /\ DOMAIN s.processes = reports[s.generation]
             /\ \A e \in DOMAIN s.processes : \A f \in DOMAIN Fresh : s.processes[e][f] # 0

(* What docs/protocol.md asks of hosts: a generation with records missing is
   discarded, so a process that is alive is never left out of a snapshot. *)
PublishedComplete ==
    assembler.current # None =>
        DOMAIN assembler.current.processes = reports[assembler.current.generation]

(* As long as HELLO is repeated, both ends end up framed, whichever messages
   are lost and whatever state the target was left in. *)
Negotiated == <>[](host.mode = "framed" /\ target.framed)

(* The startup comment's promise: frames of an earlier connection are not
   rendered as text. *)
NoFrameRendered == Within(text) = 0
=============================================================================
