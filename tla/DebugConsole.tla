---------------------------- MODULE DebugConsole ----------------------------
(***************************************************************************)
(* The debugger of the host (te-rs debug.rs): commands become requests or  *)
(* are answered from the build's debug map, and replies become lines.      *)
(***************************************************************************)
EXTENDS Integers, SequencesExt, FiniteSetsExt

CONSTANTS
    None,
    Default,        \* DEFAULT and MOST: the lines of a listing
    Most,
    Window          \* WINDOW: the bytes one memory request reads

ASSUME DebugConsoleAssumption ==
    {Default, Most, Window} \subseteq Nat \ {0}

(* A debug map: its build, its symbols, its instructions in the order of their
   addresses, and the number of lines of each assembly file beside it, 0 for a
   file that is not there. *)
VARIABLE
    console     \* DebugConsole: map, identity, pending (disassembly), next (listing)

Fresh(map) == [map |-> map, identity |-> None, pending |-> None, next |-> None]

Bytes24(address) == <<address % 256, (address \div 256) % 256, address \div 65536>>
Instructions(map) == ToSet(map.instructions)

(* How a map is made (generate-debug-info.py): its instructions lie side by
   side, those of a file together and in the order of their lines, and a file
   beside the map is the one that was assembled. *)
InOrder(map) ==
    /\ \A i \in Instructions(map) :
         /\ i.size \in Nat \ {0} /\ i.line \in Nat \ {0} /\ map.lines[i.source] \in Nat
         /\ map.lines[i.source] = 0 \/ i.line <= map.lines[i.source]
    /\ \A i, j \in Instructions(map) :
         /\ i.address = j.address => i = j
         /\ i.address < j.address =>
              /\ i.address + i.size <= j.address
              /\ i.source = j.source => i.line <= j.line
              /\ \A k \in Instructions(map) :
                   j.address < k.address /\ i.source = k.source => j.source = k.source

(* matched_map: no map is used before the target has told it is the map's. *)
Matched(c) == c.identity # None /\ c.identity = c.map.build

(* source_at, or the next instruction up. *)
SourceAt(map, address) ==
    {i \in Instructions(map) : i.address <= address /\ address < i.address + i.size}
Above(map, address) == {i \in Instructions(map) : i.address >= address}
LowestOf(instructions) ==
    {i \in instructions : \A j \in instructions : i.address <= j.address}
Found(map, address) ==
    IF SourceAt(map, address) # {} THEN SourceAt(map, address)
    ELSE LowestOf(Above(map, address))

(* address: what may be read as a number is one, then a symbol, then a line. *)
Resolved(c, location) ==
    CASE location[1] = "number" -> {location[2]}
      [] location[1] = "symbol" ->
            IF Matched(c) /\ location[2] \in DOMAIN c.map.symbols
            THEN {c.map.symbols[location[2]]} ELSE {}
      [] location[1] = "line" ->
            IF Matched(c)
            THEN {i.address : i \in LowestOf({j \in Instructions(c.map) :
                    j.source = location[2] /\ j.line = location[3]})}
            ELSE {}

(* A command's outcome: the console, the request to send or <<>>, and the
   source lines printed. *)
Outcome(c, request, lines) == [console |-> c, request |-> request, lines |-> lines]
Local(c) == Outcome(c, <<>>, {})
Clamp(n, low, high) == IF n < low THEN low ELSE IF n > high THEN high ELSE n

-----------------------------------------------------------------------------
(* list_command: a page around the instruction, or the one line the map has of
   it; a bare list goes on with the first instruction below the page. *)
PageOf(map, i, wanted) ==
    LET first == Clamp(i.line - wanted \div 2, 1, i.line)
    IN  {n \in first..(first + wanted - 1) : n <= map.lines[i.source]}

NextSkipping(map, i, shown, wanted) ==
    {j \in Instructions(map) : j.source = i.source /\ j.line > shown + wanted \div 2}
NextBelow(map, i, shown, wanted) ==
    {j \in Instructions(map) : j.source = i.source /\ j.line > shown}

AddressOrNone(instructions) ==
    IF instructions = {} THEN None ELSE Min({j.address : j \in instructions})

Listed(c, i, wanted) ==
    LET page == PageOf(c.map, i, wanted)
    IN  IF page # {}
        THEN Outcome([c EXCEPT !.next = AddressOrNone(NextBelow(c.map, i, Max(page), wanted))],
                     <<>>, {<<i.source, n>> : n \in page})
        ELSE Outcome([c EXCEPT !.next = i.address + i.size], <<>>, {<<i.source, i.line>>})

ListCommand(c, addresses, count) ==
    IF addresses = {} \/ ~Matched(c) THEN Local(c)
    ELSE LET found == Found(c.map, CHOOSE a \in addresses : TRUE)
         IN  IF found = {} THEN Local(c)
             ELSE Listed(c, CHOOSE i \in found : TRUE, Clamp(count, 1, Most))

(* disassemble_command: from the map, or else a read whose reply is decoded. *)
MemoryRequest(address, length) == <<3>> \o Bytes24(address) \o <<length>>
DisCommand(c, location, count) ==
    LET address == CHOOSE a \in Resolved(c, location) : TRUE
    IN  IF Resolved(c, location) = {} \/ ~Matched(c) THEN Local(c)
        ELSE IF count > 0 /\ Above(c.map, address) # {} THEN Local(c)
        ELSE Outcome([c EXCEPT !.pending = Bytes24(address)],
                     MemoryRequest(address, Window), {})

PointCommand(c, location, opcode) ==
    IF Resolved(c, location) = {} THEN Local(c)
    ELSE Outcome(c, <<opcode>> \o Bytes24(CHOOSE a \in Resolved(c, location) : TRUE), {})

(* command *)
Opcodes == [pause |-> 4, continue |-> 5, bl |-> 8, step |-> 9, next |-> 10, bt |-> 11,
            detach |-> 12]
Command(c, cmd) ==
    CASE cmd.verb \in DOMAIN Opcodes -> Outcome(c, <<Opcodes[cmd.verb]>>, {})
      [] cmd.verb = "regs" -> Outcome(c, <<2, cmd.count>>, {})
      [] cmd.verb = "x" ->
            IF cmd.count \in 1..12 THEN Outcome(c, MemoryRequest(cmd.at[2], cmd.count), {})
            ELSE Local(c)
      [] cmd.verb = "break" -> PointCommand(c, cmd.at, 6)
      [] cmd.verb = "delete" -> PointCommand(c, cmd.at, 7)
      [] cmd.verb = "dis" -> DisCommand(c, cmd.at, cmd.count)
      [] cmd.verb = "list" -> ListCommand(c, Resolved(c, cmd.at), cmd.count)
      [] cmd.verb = "more" -> ListCommand(c, {c.next} \ {None}, Default)
      [] OTHER -> Local(c)

-----------------------------------------------------------------------------
(* response: a memory reply answers what dis is waiting for, if anything. *)
PendingKept(c) == c.pending
PendingTaken(c) == None
Decodes(c, address) == c.pending = address
Response(c, reply) ==
    CASE reply.kind = "identity" -> [c EXCEPT !.identity = reply.value]
      [] reply.kind = "memory" -> [c EXCEPT !.pending = PendingTaken(c)]
      [] OTHER -> c
=============================================================================
