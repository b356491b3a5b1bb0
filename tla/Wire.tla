-------------------------------- MODULE Wire --------------------------------
(***************************************************************************)
(* The frames both ends of the link exchange (te-rs protocol.rs).          *)
(***************************************************************************)
EXTENDS Integers, Sequences, SequencesExt

From(bytes, i) == SubSeq(bytes, i, Len(bytes))
FirstAt(bytes, pattern) ==
    {i \in 1..(Len(bytes) - Len(pattern) + 1) :
        bytes[i] = pattern[1] /\ SubSeq(bytes, i, i + Len(pattern) - 1) = pattern}

Sync == <<165, 90>>
Version == 1
KnownTypes == 1..13

AddByte(sum, b) == (sum + b) % 256
Checksum8(bytes) ==
    LET sum[n \in 0..Len(bytes)] == IF n = 0 THEN 0 ELSE AddByte(sum[n - 1], bytes[n])
    IN  sum[Len(bytes)]

(* Frame::encode: the sum is that of every byte from the version on. *)
Encode(frame) ==
    LET body == <<Version, frame.type, frame.channel,
                  Len(frame.payload) % 256, Len(frame.payload) \div 256>>
                \o frame.payload
    IN  Sync \o body \o <<Checksum8(body)>>

(* What a header announces, and the frame it begins. *)
FrameLength(b) == 8 + b[6] + 256 * b[7]
Parsed(b) == [type |-> b[4], channel |-> b[5], payload |-> SubSeq(b, 8, FrameLength(b) - 1)]

NegotiationPayload == <<83, 87, 84, 49>>
Hello == [type |-> 12, channel |-> 0, payload |-> NegotiationPayload]
HelloAck == [type |-> 13, channel |-> 0, payload |-> NegotiationPayload]
=============================================================================
