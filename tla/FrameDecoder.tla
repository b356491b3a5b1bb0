---------------------------- MODULE FrameDecoder ----------------------------
(***************************************************************************)
(* The target's frame decoder (protocol-v1.s), one byte at a time.  The    *)
(* callback that takes a valid frame is the append to "frames".            *)
(***************************************************************************)
EXTENDS Wire

CONSTANT MaxPayload     \* bytes a payload may have (16 on the target)

ASSUME DecoderAssumption == MaxPayload \in 0..255

VARIABLES
    rx,         \* the decoder: its state, the fields read so far, the sum
    frames      \* the frames handed to _PROTOCOL_FRAME

decoder == <<rx, frames>>

Idle == [stage |-> "first", type |-> 0, channel |-> 0, length |-> 0,
         sum |-> 0, payload |-> <<>>]

DecoderInit == rx = Idle /\ frames = <<>>

At(stage) == rx.stage = stage
Goto(stage) == rx' = [rx EXCEPT !.stage = stage] /\ UNCHANGED frames

(* A5, and then 5A; an A5 in its place is the new candidate. *)
First(b) == At("first") /\ Goto(IF b = Sync[1] THEN "second" ELSE "first")
Second(b) ==
    /\ At("second")
    /\ Goto(IF b = Sync[2] THEN "version" ELSE IF b = Sync[1] THEN "second" ELSE "first")

(* The sum starts with the version byte. *)
SumCarried(b) == AddByte(rx.sum, b)
SumStarted(b) == b

VersionByte(b) ==
    /\ At("version")
    /\ \/ b = Version /\ rx' = [rx EXCEPT !.stage = "type", !.sum = SumStarted(b)]
       \/ b # Version /\ rx' = [rx EXCEPT !.stage = "first"]
    /\ UNCHANGED frames

(* A header field: its name, its value and the state after it. *)
Field(stage, field, b, next) ==
    /\ At(stage)
    /\ rx' = [rx EXCEPT !.stage = next, ![field] = b, !.sum = AddByte(@, b)]
    /\ UNCHANGED frames

FitsLate(length) == length <= MaxPayload + 1
Fits(length) == length <= MaxPayload

LengthHigh(b) ==
    /\ At("lengthHigh")
    /\ \/ b = 0 /\ Fits(rx.length)
          /\ rx' = [rx EXCEPT !.stage = "payload", !.payload = <<>>, !.sum = AddByte(@, b)]
       \/ (b # 0 \/ ~Fits(rx.length)) /\ rx' = [rx EXCEPT !.stage = "first"]
    /\ UNCHANGED frames

PayloadByte(b) ==
    /\ At("payload") /\ Len(rx.payload) < rx.length
    /\ rx' = [rx EXCEPT !.payload = Append(@, b), !.sum = AddByte(@, b)]
    /\ UNCHANGED frames

SumUnread(b) == TRUE
SumMatches(b) == b = rx.sum

Checksum(b) ==
    /\ At("payload") /\ Len(rx.payload) = rx.length
    /\ rx' = [rx EXCEPT !.stage = "first"]
    /\ frames' = IF SumMatches(b) /\ rx.type \in KnownTypes
                 THEN Append(frames, [type |-> rx.type, channel |-> rx.channel,
                                      payload |-> rx.payload])
                 ELSE frames

(* _PROTOCOL_CONSUME *)
Consume(b) ==
    \/ First(b) \/ Second(b) \/ VersionByte(b)
    \/ Field("type", "type", b, "channel")
    \/ Field("channel", "channel", b, "lengthLow")
    \/ Field("lengthLow", "length", b, "lengthHigh")
    \/ LengthHigh(b) \/ PayloadByte(b) \/ Checksum(b)

-----------------------------------------------------------------------------
(* The payload buffer has room for every byte that is stored. *)
PayloadFits == Len(rx.payload) <= MaxPayload
=============================================================================
