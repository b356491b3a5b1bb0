------------------------------ MODULE Adapter ------------------------------
(***************************************************************************)
(* The debug adapter (cor24-debug-adapter): it takes the host's bytes from *)
(* a pseudo-terminal, answers debug requests about the emulator itself,    *)
(* gives everything else to the emulated UART, and sends the host what the *)
(* target prints between its own answers.  The emulator and the target in  *)
(* it are external: a batch ends in any way the adapter has a case for.    *)
(***************************************************************************)
EXTENDS Wire, FiniteSetsExt

VARIABLES
    buffer,     \* Decoder.bytes
    inbox,      \* frames of the last read that are not handled yet
    adapter     \* the emulator and what the adapter has written

adapterVars == <<buffer, inbox, adapter>>

DEBUG_REQUEST == 9
RAW_UART == 254
TARGET_KINDS == {1, 6, 7, 8}
TargetBuild == 0            \* the identity of the image the target runs
Tick == <<255, 1>>

(* alive: the process runs.  stepped: a single step was the last to run.
   todo: requests the target has and will answer; torn: half of the first
   answer is out. *)
AdapterInit ==
    /\ buffer = <<>> /\ inbox = <<>>
    /\ adapter = [alive |-> TRUE, running |-> TRUE, stepped |-> FALSE, points |-> {},
                  todo |-> <<>>, torn |-> FALSE, replies |-> <<>>]

-----------------------------------------------------------------------------
(* Decoder::push: frames, and heartbeats as frames of the kind RAW_UART. *)
Beginnings == {Sync[1], Tick[1]}
TrailingSync(bytes) ==
    IF bytes # <<>> /\ Last(bytes) = Sync[1] THEN <<Last(bytes)>> ELSE <<>>
Trailing(bytes) ==
    IF bytes # <<>> /\ Last(bytes) \in Beginnings THEN <<Last(bytes)>> ELSE <<>>

Raw(bytes) == [type |-> RAW_UART, channel |-> 0, payload |-> bytes]
Good(b) == b[FrameLength(b)] = Checksum8(SubSeq(b, 3, FrameLength(b) - 1)) /\ b[3] = Version

(* One turn of the loop, which ends waiting for more bytes. *)
Turn(d) ==
    LET starts == FirstAt(d.rest, Sync) \cup FirstAt(d.rest, Tick)
        b == From(d.rest, Min(starts))
    IN  IF d.waiting THEN d
        ELSE IF starts = {} THEN [d EXCEPT !.rest = Trailing(@), !.waiting = TRUE]
        ELSE IF b[1] = Tick[1]
        THEN IF Len(b) < 5 THEN [d EXCEPT !.rest = b, !.waiting = TRUE]
             ELSE [d EXCEPT !.rest = From(b, 6), !.units = Append(@, Raw(SubSeq(b, 1, 5)))]
        ELSE IF Len(b) < 8 \/ Len(b) < FrameLength(b) THEN [d EXCEPT !.rest = b, !.waiting = TRUE]
        ELSE [d EXCEPT !.rest = From(b, FrameLength(b) + 1),
                       !.units = IF Good(b) THEN Append(@, Parsed(b)) ELSE @]

(* The whole loop: every turn but the last costs a byte at least. *)
Decode(bytes) ==
    LET turns == Len(bytes) + 1
        after[n \in 0..turns] ==
            IF n = 0 THEN [rest |-> bytes, units |-> <<>>, waiting |-> FALSE] ELSE Turn(after[n - 1])
    IN  after[turns]

Accept(input) ==
    /\ adapter.alive /\ inbox = <<>>
    /\ \A d \in {Decode(buffer \o input)} : buffer' = d.rest /\ inbox' = d.units
    /\ UNCHANGED adapter

-----------------------------------------------------------------------------
(* What goes to the host.  The adapter writes without asking whether the
   target is in the middle of an answer. *)
Reply(kind, value) == [kind |-> kind, value |-> value]
Told(a, kind, value) == [a EXCEPT !.replies = Append(@, Reply(kind, value))]

(* The target's answer to its first request is out; its second half completes
   the first, or is noise behind what the adapter has written in between. *)
Answer(request) ==
    CASE request[1] = 1 -> Reply("identity", TargetBuild)
      [] request[1] = 2 -> Reply("registers", request[2])
      [] request[1] = 3 -> Reply("memory", SubSeq(request, 2, 4))
      [] request[1] = 13 -> Reply("kill", request[2])
Answered(a) ==
    [a EXCEPT !.todo = Tail(@), !.torn = FALSE,
              !.replies = IF ~a.torn THEN Append(@, Answer(Head(a.todo)))
                          ELSE IF @ # <<>> /\ Last(@).kind = "half"
                          THEN Append(Front(@), Answer(Head(a.todo)))
                          ELSE Append(@, Reply("rest", 0))]
Halved(a) == [a EXCEPT !.torn = TRUE, !.replies = Append(@, Reply("half", 0))]

(* flush_uart: what the target has printed since the last time. *)
Flushed(a) ==
    {a} \cup (IF a.todo # <<>> THEN {Answered(a)} ELSE {})
        \cup (IF a.todo # <<>> /\ ~a.torn THEN {Halved(a)} ELSE {})

StopReasons(a) == {"halted"} \cup (IF a.points # {} THEN {"breakpoint"} ELSE {})

(* stop_payload, whenever a batch has not ended at its cycle limit. *)
StopUntold(a, reason) == [a EXCEPT !.running = FALSE]
StopTold(a, reason) == Told([a EXCEPT !.running = FALSE], "notice", reason)
Stopped(a) == {StopTold(a, reason) : reason \in StopReasons(a)}

(* feed_uart_bytes: every byte resumes the emulator.  What any byte but the
   last has stopped, the next resumes. *)
Resumed(a) == [a EXCEPT !.running = TRUE, !.stepped = FALSE]
Fed(a) ==
    LET ran == {Resumed(a)}
        once == ran \cup Stopped(Resumed(a))
        ends == once \cup UNION {{Resumed(b)} \cup Stopped(Resumed(b)) : b \in once}
    IN  UNION {Flushed(b) : b \in ends}

(* feed_target_frame: the kernel answers these debug requests. *)
FedRequest(a, request) == Fed([a EXCEPT !.todo = Append(@, request)])

(* step and step_over: one report, whatever the reason; a running emulator
   that gets through it is running still. *)
Single(a) ==
    {Told([a EXCEPT !.stepped = TRUE], "notice", "running")}
    \cup {[StopTold(a, reason) EXCEPT !.stepped = TRUE] : reason \in StopReasons(a)}

(* handle_frame: the states it may leave. *)
Points(a) == Told(a, "points", a.points)
DebugHandled(a, p) ==
    CASE p[1] \in {1, 13} -> FedRequest(a, p)
      [] p[1] \in {2, 3} /\ a.running -> FedRequest(a, p)
      [] p[1] \in {2, 3} /\ ~a.running ->
            LET answer == Answer(p) IN {Told(a, answer.kind, answer.value)}
      [] p[1] = 4 -> {Told([a EXCEPT !.running = FALSE, !.stepped = FALSE], "notice", "paused")}
      [] p[1] = 5 -> {Told(Resumed(a), "notice", "running")}
      [] p[1] = 6 -> {Points([a EXCEPT !.points = @ \cup {Tail(p)}])}
      [] p[1] = 7 -> {Points([a EXCEPT !.points = @ \ {Tail(p)}])}
      [] p[1] = 8 -> {Points(a)}
      [] p[1] \in {9, 10} -> Single(a)
      [] p[1] = 11 -> {Told(a, "backtrace", 0)}
      [] p[1] = 12 -> {[Told(a, "detached", 0) EXCEPT !.alive = FALSE]}
      [] OTHER -> {Told(a, "invalid", 0)}
Handled(a, unit) ==
    IF unit.type \in {RAW_UART} \cup TARGET_KINDS \/ unit = Hello THEN Fed(a)
    ELSE IF unit.type = DEBUG_REQUEST THEN DebugHandled(a, unit.payload)
    ELSE {Told(a, "invalid", 0)}

HandleFrame ==
    /\ adapter.alive /\ inbox # <<>>
    /\ adapter' \in Handled(adapter, Head(inbox))
    /\ inbox' = Tail(inbox)
    /\ UNCHANGED buffer

(* The rest of the loop: a batch, its output, and the reason it stopped. *)
RunBatch ==
    /\ adapter.alive /\ inbox = <<>> /\ adapter.running
    /\ \E a \in Flushed([adapter EXCEPT !.stepped = FALSE]) : adapter' \in {a} \cup Stopped(a)
    /\ UNCHANGED <<buffer, inbox>>
=============================================================================
