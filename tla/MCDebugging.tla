---------------------------- MODULE MCDebugging ----------------------------
EXTENDS Debugging, TLC

Instruction(address, size, source, line) ==
    [address |-> address, size |-> size, source |-> source, line |-> line]

(* Two assembly files with lines that carry no instruction, the second not
   beside the map; the gaps are below, at and above a page. *)
MCMap == [build |-> 0, symbols |-> "start" :> 16 @@ "other" :> 23,
          lines |-> "app" :> 14 @@ "lib" :> 0,
          instructions |-> <<
            Instruction(16, 2, "app", 3), Instruction(18, 1, "app", 4),
            Instruction(19, 1, "app", 6), Instruction(20, 2, "app", 7),
            Instruction(22, 1, "app", 12),
            Instruction(23, 1, "lib", 2), Instruction(24, 4, "lib", 3)>>]
MCOther == [MCMap EXCEPT !.build = 1]

Cmd(verb, at, count) == [verb |-> verb, at |-> at, count |-> count]
Do(verb) == Cmd(verb, <<"number", 0>>, 1)
At(n) == <<"number", n>>

(* Unmapped addresses whose bytes look like the beginnings of a frame and of
   a heartbeat. *)
SyncLike == At(23205)
TickLike == At(511)
MCReads == {2}

MCSessions == {
    [map |-> MCMap, beats |-> FALSE, known |-> FALSE, bound |-> 2,
     commands |-> {Cmd("list", at, n) : at \in {At(17), At(20), At(40), <<"symbol", "other">>,
                                                <<"line", "app", 12>>}, n \in {1, 4, 99}}
                  \cup {Do("more")}],
    [map |-> MCMap, beats |-> FALSE, known |-> TRUE, bound |-> 3,
     commands |-> {Cmd("dis", SyncLike, 8), Cmd("x", SyncLike, 4), Do("pause")}],
    [map |-> MCMap, beats |-> TRUE, known |-> TRUE, bound |-> 3,
     commands |-> {Do("continue"), Do("pause"), Cmd("x", TickLike, 12), Do("step")}],
    [map |-> MCOther, beats |-> FALSE, known |-> FALSE, bound |-> 3,
     commands |-> {Cmd("break", at, 1) : at \in {TickLike, <<"symbol", "start">>}}
                  \cup {Cmd("delete", TickLike, 1), Do("bl"), Do("regs"), Do("detach")}]}

(* The maps of the run are of the kind the proof about listings needs. *)
ASSUME MapsInOrder
=============================================================================
