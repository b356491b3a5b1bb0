------------------------------ MODULE MCUplink ------------------------------
(* Small instances of Uplink: frames of up to four bytes, one good frame of
   each shape that matters and one bad frame of each kind. *)
EXTENDS Uplink

MCByte == 0..255

Key == [type |-> 1, channel |-> 0, payload |-> <<97>>]
LiteralSync == [type |-> 1, channel |-> 1, payload |-> <<165, 90>>]
Empty == [type |-> 8, channel |-> 0, payload |-> <<>>]

Corrupt(frame) == [Encode(frame) EXCEPT ![8] = @ + 1]
TooLong == [type |-> 1, channel |-> 0, payload |-> <<97, 97, 97, 97, 97>>]
Unknown == [type |-> 14, channel |-> 0, payload |-> <<>>]

MCUnits ==
    {FrameUnit(f) : f \in {Hello, Key, LiteralSync, Empty}}
    \union {Heartbeat(<<255, 29, 165>>), Restart, Reboot, Passthrough(Restart)}
    \union {Noise(Corrupt(Empty)), Noise(Encode(TooLong)), Noise(Encode(Unknown)),
            Noise(<<255, 0>>)}

(* Bounds of the search: bytes lost to a full ring, and bytes the count has
   fallen behind by. *)
MaxLost == 1
MaxBehind == 2
FewLosses == lost <= MaxLost /\ Held - count <= MaxBehind

(* A time frame of centisecond 1535, 15.35 s after the session began. *)
Clock == [type |-> 6, channel |-> 0, payload |-> <<255, 5, 0>>]
MCUnescaped == {FrameUnit(Hello), FrameUnit(Clock)}

(* The units of the first are of the kind ControlsExact speaks of; Clock is not. *)
ASSUME MCUnitsAssumption ==
    /\ \A unit \in MCUnits : Unmistakable(unit)
    /\ ~Unmistakable(FrameUnit(Clock))
=============================================================================
