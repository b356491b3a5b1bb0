---------------------------- MODULE HostDecoder ----------------------------
(***************************************************************************)
(* The host's decoder (te-rs protocol.rs): plain text until the target     *)
(* acknowledges a HELLO, frames from then on.  A read delivers any number  *)
(* of bytes, and one push takes in all of them.                            *)
(***************************************************************************)
EXTENDS Wire, FiniteSetsExt

CONSTANT HostMaxPayload     \* MAX_PAYLOAD: the longest payload accepted

ASSUME HostDecoderAssumption == HostMaxPayload \in Nat

VARIABLES
    host,       \* ConnectionDecoder: mode, pending (plain), buffer (framed)
    text,       \* the Plain items handed on, joined
    received,   \* the Frame items handed on
    errors      \* how many Error items were

hostVars == <<host, text, received, errors>>

HostInit ==
    /\ host = [mode |-> "plain", pending |-> <<>>, buffer |-> <<>>]
    /\ text = <<>> /\ received = <<>> /\ errors = 0

(* What is left when a read ends without a sync pair. *)
TrailingDropped(bytes) == <<>>
Trailing(bytes) == IF bytes # <<>> /\ Last(bytes) = Sync[1] THEN <<Sync[1]>> ELSE <<>>

(* The checks on a candidate b, in the order the code makes them. *)
SumUnread(b) == TRUE
SumMatches(b) == b[FrameLength(b)] = Checksum8(SubSeq(b, 3, FrameLength(b) - 1))
Malformed(b) ==
    \/ b[3] # Version
    \/ FrameLength(b) > 8 + HostMaxPayload
    \/ Len(b) >= FrameLength(b) /\ ~SumMatches(b)

(* A candidate that fails costs its first byte: the rest is scanned again. *)
RejectedWhole(b) == <<>>
Rejected(b) == Tail(b)

(* Decoder::push: one turn of its loop, which ends waiting for more bytes. *)
Turn(d) ==
    LET syncs == FirstAt(d.buffer, Sync)
        b == From(d.buffer, Min(syncs))
        rest == From(b, FrameLength(b) + 1)
    IN  IF d.waiting THEN d
        ELSE IF syncs = {} THEN [d EXCEPT !.buffer = Trailing(@), !.waiting = TRUE]
        ELSE IF Len(b) < 7 THEN [d EXCEPT !.buffer = b, !.waiting = TRUE]
        ELSE IF Malformed(b) THEN [d EXCEPT !.buffer = Rejected(b), !.errors = @ + 1]
        ELSE IF Len(b) < FrameLength(b) THEN [d EXCEPT !.buffer = b, !.waiting = TRUE]
        ELSE IF b[4] \in KnownTypes
             THEN [d EXCEPT !.buffer = rest, !.frames = Append(@, Parsed(b))]
             ELSE [d EXCEPT !.buffer = rest, !.errors = @ + 1]

(* The whole loop: every turn but the last costs the buffer a byte at least. *)
Scan(d) ==
    LET turns == Len(d.buffer) + 1
        after[n \in 0..turns] == IF n = 0 THEN d ELSE Turn(after[n - 1])
    IN  after[turns]

Ack == Encode(HelloAck)

(* longest_suffix_prefix: the end of the bytes that may begin an ACK. *)
RetainedNone(bytes) == 0
Retained(bytes) ==
    LET limit == IF Len(bytes) < Len(Ack) THEN Len(bytes) ELSE Len(Ack) - 1
        fits == {n \in 1..limit : IsSuffix(SubSeq(Ack, 1, n), bytes)}
    IN  IF fits = {} THEN 0 ELSE Max(fits)

(* ConnectionDecoder::push: the decoder and its output after a read. *)
PushFramed(h, input) ==
    LET d == Scan([buffer |-> h.buffer \o input, frames |-> <<>>, errors |-> 0, waiting |-> FALSE])
    IN  [host |-> [h EXCEPT !.buffer = d.buffer],
         text |-> <<>>, frames |-> d.frames, errors |-> d.errors]

(* What follows the ACK in the same read is framed already. *)
AfterAckDropped(bytes, position) == <<>>
AfterAck(bytes, position) == From(bytes, position + Len(Ack))

PushPlain(h, input) ==
    LET bytes == h.pending \o input
        acks == FirstAt(bytes, Ack)
        keep == Len(bytes) - Retained(bytes)
        framed == PushFramed([h EXCEPT !.mode = "framed", !.pending = <<>>],
                             AfterAck(bytes, Min(acks)))
    IN  IF acks = {}
        THEN [host |-> [h EXCEPT !.pending = From(bytes, keep + 1)],
              text |-> SubSeq(bytes, 1, keep), frames |-> <<>>, errors |-> 0]
        ELSE [framed EXCEPT !.text = SubSeq(bytes, 1, Min(acks) - 1),
                            !.frames = <<HelloAck>> \o @]

Push(h, input) == IF h.mode = "framed" THEN PushFramed(h, input) ELSE PushPlain(h, input)

Read(input) ==
    LET p == Push(host, input)
    IN  /\ host' = p.host
        /\ text' = text \o p.text
        /\ received' = received \o p.frames
        /\ errors' = errors + p.errors

(* resynchronize: partial input goes, the mode stays. *)
Resynchronize ==
    /\ host' = [host EXCEPT !.pending = <<>>, !.buffer = <<>>]
    /\ UNCHANGED <<text, received, errors>>

-----------------------------------------------------------------------------
(* It makes no difference where the reads cut the stream: what a read has done
   is what it would have done in two. *)
Joined(p, q) == [host |-> q.host, text |-> p.text \o q.text,
                 frames |-> p.frames \o q.frames, errors |-> p.errors + q.errors]
CutAt(input, cuts) ==
    \A k \in cuts \cap 1..(Len(input) - 1) :
        LET p == Push(host, SubSeq(input, 1, k))
        IN  Push(host, input) = Joined(p, Push(p.host, From(input, k + 1)))
=============================================================================
