------------------------------- MODULE Runway -------------------------------
(***************************************************************************)
(* The forced switch at the grain of a leaf's instructions (preemption.s   *)
(* and the dispatch of catalog-spawn.s): Kernel's ForceSwitch, ForceExit   *)
(* and Resumed seen from below.  The interrupted PC cannot be read.  So    *)
(* the handler saves the leaf's image in its shadow, fills the image with  *)
(* ADD and puts a jump behind it; the CPU counts its own way to that jump, *)
(* and what it has counted is the PC.                                      *)
(***************************************************************************)
EXTENDS Integers, Sequences

CONSTANTS
    Leaves,         \* the slots that hold leaves
    Base,           \* Base[l]: the address of l's image
    Code,           \* the instructions they are loaded with
    Words,          \* the numbers a register can hold: 2^24
    Quantum,        \* the ticks a dispatch gives a leaf
    Other           \* the shell, and all that is never forced

(* The live image: the instructions, and one cell of data behind them. *)
Size == Len(Code) + 1
Loaded == Append(Code, 0)
Landing(l) == Base[l] + Size
Instructions == {"load", "add", "flip", "back"}

ASSUME RunwayAssumption ==
    /\ Code \in Seq(Instructions) /\ Code # <<>> /\ Code[Len(Code)] = "back"
    /\ Words \in Nat /\ Quantum \in Nat \ {0} /\ Other \notin Leaves
    /\ Base \in [Leaves -> Nat] /\ \A l \in Leaves : Landing(l) < Words

VARIABLES
    cpu,        \* at: what it executes; a leaf's pc and registers; beat: a
                \* heartbeat has come since the kernel's last step
    uart,       \* the UART's interrupt is enabled
    current,    \* _current_proc
    memory,     \* memory[l]: image and shadow
    sidecar,    \* sidecar[l]: quantum, saved (the interrupt context), kill
    parked,     \* parked[l]: the frame on its stack, and the PC in PROC_DESC
    stub,       \* the target of the jump that resumes a leaf, shared by all
    alive,      \* the leaves that are spawned and not released
    asked,      \* history: those of them that a kill has been asked for
    astray      \* history: the handler has forced what was not a leaf

vars == <<cpu, uart, current, memory, sidecar, parked, stub, alive, asked, astray>>

Registers == [r0 |-> 0, r1 |-> 0, rest |-> 0]
Cleared == [quantum |-> 0, saved |-> FALSE, kill |-> FALSE]

Init ==
    /\ cpu = [at |-> "other", pc |-> 0, regs |-> Registers, beat |-> FALSE]
    /\ uart = TRUE /\ current = Other /\ stub = 0
    /\ memory = [l \in Leaves |-> [image |-> Loaded, shadow |-> Loaded]]
    /\ sidecar = [l \in Leaves |-> Cleared]
    /\ parked = [l \in Leaves |-> [frame |-> Registers, pc |-> 0]]
    /\ alive = {} /\ asked = {} /\ astray = FALSE

-----------------------------------------------------------------------------
(* What a leaf's instructions do to it: r0 becomes the data and r1 one; r0
   becomes their sum; the data changes, and the other registers; and back to
   the beginning. *)
Stepped(l, leaf) ==
    LET op == leaf.image[leaf.pc - Base[l] + 1]
    IN  CASE op = "load" -> [leaf EXCEPT !.pc = @ + 1, !.regs.r0 = leaf.image[Size], !.regs.r1 = 1]
          [] op = "add" -> [leaf EXCEPT !.pc = @ + 1, !.regs.r0 = (@ + leaf.regs.r1) % Words]
          [] op = "flip" -> [leaf EXCEPT !.pc = @ + 1, !.regs.rest = leaf.regs.r0,
                                         !.image[Size] = 1 - @]
          [] op = "back" -> [leaf EXCEPT !.pc = Base[l]]

(* The CPU executes what is in memory, the leaf's code or the handler's, until
   it comes to the jump the handler has put behind the image. *)
Executing == [pc |-> cpu.pc, regs |-> cpu.regs, image |-> memory[current].image]
Execute ==
    /\ cpu.at \in {"leaf", "runway"} /\ cpu.pc # Landing(current)
    /\ \A leaf \in {Stepped(current, Executing)} :
         /\ cpu' = [cpu EXCEPT !.pc = leaf.pc, !.regs = leaf.regs]
         /\ memory' = [memory EXCEPT ![current].image = leaf.image]
    /\ UNCHANGED <<uart, current, sidecar, parked, stub, alive, asked, astray>>

-----------------------------------------------------------------------------
(* _preemption_clock_tick, for an eligible process: it is forced when its
   frame is not saved and its quantum is used up or a kill is due.  What the
   handler has interrupted it does not ask. *)
Overdue(l) == sidecar[l].kill \/ sidecar[l].quantum = 0
Heartbeat ==
    /\ uart /\ ~cpu.beat
    /\ current \in alive /\ ~sidecar[current].saved

(* Heartbeats are 10 ms apart: the kernel has long taken its next step when
   the next one comes. *)
Tick ==
    /\ Heartbeat /\ ~Overdue(current)
    /\ sidecar' = [sidecar EXCEPT ![current].quantum = @ - 1]
    /\ cpu' = [cpu EXCEPT !.beat = cpu.at # "leaf"]
    /\ UNCHANGED <<uart, current, memory, parked, stub, alive, asked, astray>>

(* _preemption_force: the registers are on the stack, the image goes to the
   shadow, and the carpet is laid. *)
Carpet == [i \in 1..Size |-> "add"]
ForceLeaf ==
    /\ Heartbeat /\ Overdue(current) /\ cpu.at = "leaf"
    /\ uart' = FALSE
    /\ parked' = [parked EXCEPT ![current].frame = cpu.regs]
    /\ memory' = [memory EXCEPT ![current] = [image |-> Carpet, shadow |-> @.image]]
    /\ cpu' = [cpu EXCEPT !.at = "runway",
                          !.regs = [r0 |-> Landing(current), r1 |-> Words - 1, rest |-> 0]]
    /\ UNCHANGED <<current, sidecar, stub, alive, asked, astray>>

(* The same on kernel code: it goes on with two registers overwritten, and
   nothing more is said of it. *)
ForceKernel ==
    /\ Heartbeat /\ Overdue(current) /\ cpu.at # "leaf"
    /\ astray' = TRUE /\ uart' = FALSE
    /\ cpu' = [cpu EXCEPT !.at = "lost"]
    /\ UNCHANGED <<current, memory, sidecar, parked, stub, alive, asked>>

(* _preemption_landing: r0 is the interrupted PC. *)
RestoredShort(l) == [memory[l].image EXCEPT ![1] = memory[l].shadow[1]]
Restored(l) == memory[l].shadow
UartLeftMasked == uart
UartAfterLanding == TRUE

Land ==
    /\ cpu.at = "runway" /\ cpu.pc = Landing(current)
    /\ parked' = [parked EXCEPT ![current].pc = cpu.regs.r0]
    /\ memory' = [memory EXCEPT ![current].image = Restored(current)]
    /\ sidecar' = [sidecar EXCEPT ![current].saved = TRUE, ![current].kill = FALSE]
    /\ cpu' = [cpu EXCEPT !.at = IF sidecar[current].kill THEN "exit" ELSE "scan"]
    /\ uart' = UartAfterLanding
    /\ UNCHANGED <<current, stub, alive, asked, astray>>

-----------------------------------------------------------------------------
(* The kernel, with interrupts enabled.  Kernel has all of it; here is what
   concerns a leaf's context. *)
KernelGoesTo(at) == cpu' = [cpu EXCEPT !.at = at, !.beat = FALSE]
Idle == UNCHANGED <<uart, memory, parked, asked, astray>>

(* TASK_EXIT of a leaf that has landed.  The sweep over its sidecar takes its
   eligibility before its saved flag: no heartbeat finds it in between. *)
Exit ==
    /\ cpu.at = "exit" /\ KernelGoesTo("other")
    /\ alive' = alive \ {current} /\ current' = Other
    /\ sidecar' = [sidecar EXCEPT ![current] = Cleared]
    /\ UNCHANGED stub /\ Idle

(* _select_context: the process is current before its sidecar is prepared. *)
Select ==
    /\ cpu.at = "scan" /\ KernelGoesTo("selected")
    /\ current' \in alive \cup {Other}
    /\ UNCHANGED <<sidecar, stub, alive>> /\ Idle

(* _preemption_prepare_dispatch *)
Prepare ==
    /\ cpu.at = "selected"
    /\ IF current = Other THEN KernelGoesTo("other") /\ UNCHANGED sidecar
       ELSE /\ KernelGoesTo(IF sidecar[current].saved THEN "restore" ELSE "launch")
            /\ sidecar' = [sidecar EXCEPT ![current].quantum = Quantum]
    /\ UNCHANGED <<current, stub, alive>> /\ Idle

(* _restore_context and _embedded_loader_trampoline, for a new leaf. *)
Launch ==
    /\ cpu.at = "launch"
    /\ cpu' = [at |-> "leaf", pc |-> Base[current], regs |-> Registers, beat |-> FALSE]
    /\ UNCHANGED <<current, sidecar, stub, alive>> /\ Idle

(* _preemption_restore_interrupt, up to the clearing of the saved flag. *)
StubKept(l) == stub
Patched(l) == parked[l].pc

RestoreInterrupt ==
    /\ cpu.at = "restore" /\ KernelGoesTo("resume")
    /\ stub' = Patched(current)
    /\ sidecar' = [sidecar EXCEPT ![current].saved = FALSE]
    /\ uart' = TRUE
    /\ UNCHANGED <<current, memory, parked, alive, asked, astray>>

(* The pops, and the patched jump. *)
Resume ==
    /\ cpu.at = "resume"
    /\ cpu' = [at |-> "leaf", pc |-> stub, regs |-> parked[current].frame, beat |-> FALSE]
    /\ UNCHANGED <<current, sidecar, stub, alive>> /\ Idle

(* TASK_SPAWN of a leaf: the loader sets the sidecar's words but the quantum,
   which the last release has left at zero. *)
Spawn(l) ==
    /\ cpu.at = "other" /\ l \notin alive
    /\ alive' = alive \cup {l} /\ asked' = asked \ {l}
    /\ memory' = [memory EXCEPT ![l].image = Loaded]
    /\ sidecar' = [sidecar EXCEPT ![l].saved = FALSE, ![l].kill = FALSE]
    /\ UNCHANGED <<cpu, uart, current, parked, stub, astray>>

(* _kill_endpoint: by the shell, or by a debug request in the scan's poll. *)
Kill(l) ==
    /\ cpu.at \in {"other", "scan"} /\ l \in alive
    /\ sidecar' = [sidecar EXCEPT ![l].kill = TRUE]
    /\ asked' = asked \cup {l}
    /\ UNCHANGED <<cpu, uart, current, memory, parked, stub, alive, astray>>

OtherYields ==
    /\ cpu.at = "other" /\ KernelGoesTo("scan")
    /\ UNCHANGED <<current, sidecar, stub, alive>> /\ Idle

Next ==
    \/ Execute \/ Tick \/ ForceLeaf \/ ForceKernel \/ Land
    \/ Exit \/ Select \/ Prepare \/ Launch \/ RestoreInterrupt \/ Resume
    \/ OtherYields
    \/ \E l \in Leaves : Spawn(l) \/ Kill(l)

(* The CPU executes what it is given. *)
Fairness == WF_vars(Execute) /\ WF_vars(Land)
Spec == Init /\ [][Next]_vars /\ Fairness

-----------------------------------------------------------------------------
(* The leaf as its own program sees it: its registers and its image, wherever
   they are kept, and on the runway the PC that is still being counted. *)
Fresh(l) == [pc |-> Base[l], regs |-> Registers, image |-> Loaded]
OnRunway(l) ==
    [pc |-> cpu.regs.r0 - (Landing(l) - cpu.pc),
     regs |-> parked[l].frame, image |-> memory[l].shadow]
Parked(l) == [pc |-> parked[l].pc, regs |-> parked[l].frame, image |-> memory[l].image]
View(l) ==
    IF current = l /\ cpu.at = "leaf" THEN Executing
    ELSE IF current = l /\ cpu.at = "runway" THEN OnRunway(l)
    ELSE IF current = l /\ cpu.at = "resume" THEN [Parked(l) EXCEPT !.pc = stub]
    ELSE IF sidecar[l].saved THEN Parked(l)
    ELSE [Fresh(l) EXCEPT !.image = memory[l].image]

(* What docs/preemptive-multitasking.md promises of a forced switch: from its
   spawn on, whatever is done to its registers, its image and the shared jump,
   a leaf only ever takes the steps of its own program, one at a time, and it
   ends only when a kill was asked for. *)
OwnStep(l) ==
    /\ l \in alive /\ l \in alive' =>
          \/ View(l)' = View(l)
          \/ current = l /\ cpu.at = "leaf" /\ View(l)' = Stepped(l, View(l))
    /\ l \in alive /\ l \notin alive' => l \in asked
    /\ l \notin alive /\ l \in alive' => View(l)' = Fresh(l)
Transparent == [][~astray' => \A l \in Leaves : OwnStep(l)]_vars

(* The interrupt a forced switch masks comes back: without it there would be
   no input and no clock ever again. *)
InterruptsReturn == []<>(uart \/ astray)

(* What the handler's own comment says: it never mistakes shared code that
   runs for a leaf for the leaf. *)
NeverAstray == ~astray
=============================================================================
