------------------------------- MODULE Kernel -------------------------------
(***************************************************************************)
(* The process kernel of hal/cor24/catalog-spawn.s with the parts of       *)
(* preemption.s that act on its tables: the process table, the allocation  *)
(* generation, the scheduler, the blocking terminal read, join, the        *)
(* synchronous run, kill, restart and reboot.                              *)
(*                                                                         *)
(* There is one CPU.  A kernel routine runs to completion, except that the *)
(* UART interrupt handler (the Request* and ForceTick actions) may run     *)
(* between two of its instructions.  A routine is one action unless what   *)
(* the handler writes in its middle would change its outcome; it is then   *)
(* split at that point, and "cpu" says where it stands.                    *)
(***************************************************************************)
EXTENDS Integers, FiniteSets

CONSTANTS
    NSlots,         \* slots of the process table (16 on the target)
    Programs,       \* catalog programs
    Embedded,       \* nonresident programs: an image is loaded for each child
    Leaf,           \* embedded programs flagged preemptible_leaf
    ShellProgram,   \* the program of slot 1
    NoProgram,      \* the zero descriptor pointer
    Demand,         \* words a program asks for: [state, live, stack]
    ShellDemand,    \* the same for the shell
    StackTop,       \* first address above the process stacks
    StackLimit,     \* lowest address of the process-stack region
    HeapBase,       \* end of the linked image
    HeapTop,        \* the heap may not grow past this address
    TtyCapacity,    \* bytes one virtual TTY ring holds (64 on the target)
    SyncStateWords, \* capacity of the scratch state of a synchronous run
    ShellCalls,     \* kernel calls the shell makes
    ChildCalls,     \* kernel calls a resident program makes
    Faults,         \* ways loading an image may fail
    Requests,       \* UART control escapes the operator sends
    Frames          \* input the scheduler's poll may decode

AllShellCalls == {"yield", "getchar", "spawn", "sync", "join", "joinAll",
                  "claim", "kill", "reboot"}
AllChildCalls == {"yield", "getchar", "exit"}
Words == [state : Nat, live : Nat, stack : Nat]

ASSUME SlotsAssumption == NSlots \in 2..255
ASSUME ProgramsAssumption ==
    /\ Leaf \subseteq Embedded /\ Embedded \subseteq Programs
    /\ ShellProgram \notin Programs /\ NoProgram \notin Programs
    /\ ShellProgram # NoProgram
ASSUME MemoryAssumption ==
    /\ Demand \in [Programs -> Words] /\ ShellDemand \in Words
    /\ {StackTop, StackLimit, HeapBase, HeapTop, SyncStateWords} \subseteq Nat
    /\ 0 < StackLimit /\ StackLimit + ShellDemand.stack <= StackTop
    /\ 0 < HeapBase /\ HeapBase + ShellDemand.state <= HeapTop
ASSUME TtyAssumption == TtyCapacity \in Nat \ {0}
ASSUME EnvironmentAssumption ==
    /\ ShellCalls \subseteq AllShellCalls /\ ChildCalls \subseteq AllChildCalls
    /\ Faults \subseteq {"header", "payload"}
    /\ Requests \subseteq {"restart", "reboot"}
    /\ Frames \subseteq {"plain", "hello", "tty", "kill"}

Shell == 1
Slots == 1..NSlots
Children == 2..NSlots

(* PROC_STATE values of the descriptor. *)
Free == "FREE"
Runnable == "RUNNABLE"
BlockedTty == "BLOCKED_TTY"

(* The preemption sidecar: certified for the runway, an interrupt frame is
   saved on the stack, and an asynchronous kill is queued. *)
Sidecar == [eligible : BOOLEAN, saved : BOOLEAN, kill : BOOLEAN]
ClearSidecar == [eligible |-> FALSE, saved |-> FALSE, kill |-> FALSE]

VARIABLES
    state,          \* PROC_STATE of every slot
    program,        \* the program a slot was given (its descriptor word)
    snapshot,       \* the two descriptor cells embedded descriptors go to
    pc,             \* the kernel loop a slot resumes in, or "user"
    joinTarget,     \* the endpoint of the shell's TASK_JOIN_ENDPOINT
    tty,            \* bytes queued in every slot's virtual TTY
    preempt,        \* preemption sidecar of every slot
    stackTop,       \* _proc_stack_top
    heapBase,       \* the private state pointer of every slot
    current,        \* _current_proc
    foreground,     \* _tty_foreground_proc
    cpu,            \* what the CPU is executing
    cursor,         \* slot the scheduler's scan has reached
    childCount,     \* _child_count, one byte
    arena,          \* _stack_next and _heap_next
    mark,           \* _spawn_arena_mark and _spawn_heap_mark
    framed,         \* _protocol_framed_mode
    syncActive,     \* _sync_active
    restartPending, \* _shell_restart_pending
    rebootPending   \* _system_reboot_pending

table == <<state, program, pc, tty, preempt>>
memory == <<stackTop, heapBase, arena, mark>>
control == <<joinTarget, framed, syncActive>>
pending == <<restartPending, rebootPending>>
vars == <<table, memory, control, pending, snapshot, current, foreground,
          cpu, cursor, childCount>>

LiveChildren == {s \in Children : state[s] # Free}
FreeSlots == {s \in Children : state[s] = Free}
FirstFree(s) == s \in FreeSlots /\ \A t \in FreeSlots : s <= t

(* Only the first two child slots have a descriptor cell by name: every slot
   that is not B uses C's. *)
Cell(s) == IF s = 2 THEN "B" ELSE "C"
(* What a descriptor pointer of slot s reads as. *)
Descriptor(s) == IF program[s] \in Embedded THEN snapshot[Cell(s)] ELSE program[s]

BootArena == [stack |-> StackTop - ShellDemand.stack,
              heap |-> HeapBase + ShellDemand.state]

Init ==
    /\ state = [s \in Slots |-> IF s = Shell THEN Runnable ELSE Free]
    /\ program = [s \in Slots |-> IF s = Shell THEN ShellProgram ELSE NoProgram]
    /\ snapshot = [c \in {"B", "C"} |-> NoProgram]
    /\ pc = [s \in Slots |-> "user"]
    /\ joinTarget = Shell
    /\ tty = [s \in Slots |-> 0]
    /\ preempt = [s \in Slots |-> ClearSidecar]
    /\ stackTop = [s \in Slots |-> IF s = Shell THEN StackTop ELSE 0]
    /\ heapBase = [s \in Slots |-> IF s = Shell THEN HeapBase ELSE 0]
    /\ current = Shell /\ foreground = Shell
    /\ cpu = "run" /\ cursor = Shell
    /\ childCount = 0
    /\ arena = BootArena
    /\ mark = [stack |-> 0, heap |-> 0]
    /\ framed = FALSE /\ syncActive = FALSE
    /\ restartPending = FALSE /\ rebootPending = FALSE

-----------------------------------------------------------------------------
(* Who may do what: the calls the code of slot s makes.  A leaf makes none
   and never returns; another embedded program returns, which its trampoline
   turns into TASK_EXIT. *)
CallsOf(s) ==
    IF s = Shell /\ ~syncActive THEN ShellCalls
    ELSE IF program[s] \in Leaf THEN {}
    ELSE IF program[s] \in Embedded THEN {"exit"}
    ELSE ChildCalls

User(call) == cpu = "run" /\ pc[current] = "user" /\ call \in CallsOf(current)

(* _shell_restart_check acts only on the shell's behalf. *)
CheckFires == current = Shell /\ (restartPending \/ rebootPending)

ToScan == cpu' = "scan" /\ cursor' = current

-----------------------------------------------------------------------------
(* The two arenas.  The heap grows up, the stacks grow down, and a failed or
   finished generation puts both back to its mark. *)
HeapFitsUnbounded(words) == TRUE
HeapFits(words) == arena.heap + words <= HeapTop
StackFits(words) == StackTop - arena.stack + words <= StackTop - StackLimit

ImageWords(p) == IF p \in Embedded THEN 2 * Demand[p].live + 2 ELSE 0

StateAllocated(p) == HeapFits(Demand[p].state)
ImageAllocated(p, fault) ==
    /\ StateAllocated(p)
    /\ fault # "header"
    /\ HeapFits(Demand[p].state + ImageWords(p))
SpawnSucceeds(p, fault) ==
    /\ ImageAllocated(p, fault)
    /\ fault # "payload"
    /\ StackFits(Demand[p].stack)

(* The marks are taken again whenever no child is alive. *)
TakeMark == mark' = IF childCount = 0 THEN arena ELSE mark

(* Back to the mark: after a failed spawn, and when the last child goes. *)
RollBack == arena' = mark'
ReclaimAlways == arena' = mark
ReclaimBeforeCount == arena' = IF childCount = 0 THEN mark ELSE arena
ReclaimGeneration == arena' = IF childCount' = 0 THEN mark ELSE arena

CountUp(n) == (n + 1) % 256
CountDown(n) == (n + 255) % 256

-----------------------------------------------------------------------------
(* TASK_SPAWN: the first free slot gets program p.  The descriptor snapshot
   and the preemption sidecar are written on the way, whether or not the
   spawn succeeds; the TTY of the slot is left as it was. *)
FocusUnmoved(s) == UNCHANGED foreground
FocusChild(s) == foreground' = s

(* A private image is not enough to enter the runway: only the flag is. *)
CertifiedByKind(p) == p \in Embedded
Certified(p) == p \in Leaf

SpawnInto(s, p, fault) ==
    /\ snapshot' = IF p \in Embedded
                   THEN [snapshot EXCEPT ![Cell(s)] = p] ELSE snapshot
    /\ preempt' = IF p \in Embedded /\ ImageAllocated(p, fault)
                  THEN [preempt EXCEPT ![s] = [ClearSidecar EXCEPT !.eligible = Certified(p)]]
                  ELSE preempt
    /\ heapBase' = IF StateAllocated(p)
                   THEN [heapBase EXCEPT ![s] = arena.heap] ELSE heapBase
    /\ IF SpawnSucceeds(p, fault)
       THEN /\ state' = [state EXCEPT ![s] = Runnable]
            /\ program' = [program EXCEPT ![s] = p]
            /\ stackTop' = [stackTop EXCEPT ![s] = arena.stack]
            /\ arena' = [stack |-> arena.stack - Demand[p].stack,
                         heap |-> arena.heap + Demand[p].state + ImageWords(p)]
            /\ FocusChild(s)
            /\ childCount' = CountUp(childCount)
       ELSE /\ RollBack
            /\ UNCHANGED <<state, program, stackTop, foreground, childCount>>

TaskSpawn(p, fault) ==
    /\ User("spawn")
    /\ TakeMark
    /\ \/ \E s \in Children : FirstFree(s) /\ SpawnInto(s, p, fault)
       \/ /\ FreeSlots = {}
          /\ UNCHANGED <<state, program, preempt, stackTop, heapBase, arena,
                         snapshot, foreground, childCount>>
    /\ UNCHANGED <<pc, tty, control, pending, current, cpu, cursor>>

-----------------------------------------------------------------------------
(* _release_slot.  The private state pointer keeps its old value. *)
ReleaseSlot(s) ==
    /\ state' = [state EXCEPT ![s] = Free]
    /\ program' = [program EXCEPT ![s] = NoProgram]
    /\ pc' = [pc EXCEPT ![s] = "user"]
    /\ tty' = [tty EXCEPT ![s] = 0]
    /\ preempt' = [preempt EXCEPT ![s] = ClearSidecar]
    /\ stackTop' = [stackTop EXCEPT ![s] = 0]
    /\ UNCHANGED <<heapBase, mark>>

(* Input focus goes back to the prompt only if the process that went away
   held it. *)
FocusKept(s) == UNCHANGED foreground
FocusAfter(s) == foreground' = IF foreground = s THEN Shell ELSE foreground

(* TASK_EXIT of a child, which resumes the shell directly. *)
ExitProcess ==
    /\ ReleaseSlot(current)
    /\ childCount' = CountDown(childCount)
    /\ ReclaimGeneration
    /\ FocusAfter(current)
    /\ current' = Shell
    /\ cpu' = "run"
    /\ UNCHANGED <<control, pending, snapshot, cursor>>

TaskExit ==
    /\ User("exit")
    /\ current # Shell
    /\ ExitProcess

(* A request wakes the shell: blocked for input, it would not look at it. *)
ShellLeftBlocked == UNCHANGED state
ShellWoken == state' = [state EXCEPT ![Shell] = Runnable]

RequestShellRestart == restartPending' = TRUE /\ ShellWoken

(* _kill_endpoint: restart the shell, queue the kill of a process the
   interrupt handler has to unwind, or release the slot here. *)
KillShell ==
    /\ RequestShellRestart
    /\ UNCHANGED <<program, pc, tty, preempt, memory, current, foreground, childCount>>

KillQueued(e) ==
    /\ state[e] # Free
    /\ preempt[e].eligible \/ preempt[e].saved
    /\ preempt' = [preempt EXCEPT ![e].kill = TRUE]
    /\ UNCHANGED <<state, program, pc, tty, memory, current, foreground,
                   childCount, restartPending>>

CountKept(n) == n
CountAfterKill(n) == IF n = 0 THEN 0 ELSE CountDown(n)

KillReleased(e) ==
    /\ state[e] # Free
    /\ ~preempt[e].eligible /\ ~preempt[e].saved
    /\ ReleaseSlot(e)
    /\ childCount' = CountAfterKill(childCount)
    /\ IF childCount = 0 THEN UNCHANGED arena ELSE ReclaimGeneration
    /\ FocusAfter(e)
    /\ current' = IF current = e THEN Shell ELSE current
    /\ UNCHANGED restartPending

KillEndpoint(e) ==
    /\ \/ e = Shell /\ KillShell
       \/ e \in Children /\ KillQueued(e)
       \/ e \in Children /\ KillReleased(e)
    /\ UNCHANGED <<control, rebootPending, snapshot, cpu, cursor>>

TaskKill(e) == User("kill") /\ KillEndpoint(e)

-----------------------------------------------------------------------------
(* Virtual TTY.  A full ring drops the byte. *)
TtyUnbounded(n) == n + 1
TtyAfter(n) == IF n = TtyCapacity THEN n ELSE n + 1

StateUntouched(s) == state[s]
StateAfterInput(s) ==
    IF tty[s] # TtyCapacity /\ state[s] = BlockedTty THEN Runnable ELSE state[s]

Enqueue(s) ==
    /\ tty' = [tty EXCEPT ![s] = TtyAfter(@)]
    /\ state' = [state EXCEPT ![s] = StateAfterInput(s)]

(* TASK_GETCHAR, up to the decision; blocking is a separate step because a
   request interrupt may come in between. *)
AtGetchar == User("getchar") \/ (cpu = "run" /\ pc[current] = "getchar")

GetcharCheck ==
    /\ AtGetchar /\ ~CheckFires
    /\ IF tty[current] > 0
       THEN /\ tty' = [tty EXCEPT ![current] = @ - 1]
            /\ pc' = [pc EXCEPT ![current] = "user"]
            /\ UNCHANGED cpu
       ELSE /\ pc' = [pc EXCEPT ![current] = "getchar"]
            /\ cpu' = "block"
            /\ UNCHANGED tty
    /\ UNCHANGED <<state, program, preempt, memory, control, pending, snapshot,
                   current, foreground, cursor, childCount>>

GetcharBlock ==
    /\ cpu = "block"
    /\ state' = [state EXCEPT ![current] = BlockedTty]
    /\ ToScan
    /\ UNCHANGED <<program, pc, tty, preempt, memory, control, pending,
                   snapshot, current, foreground, childCount>>

TaskYield ==
    /\ User("yield") /\ ~CheckFires
    /\ ToScan
    /\ UNCHANGED <<table, memory, control, pending, snapshot, current,
                   foreground, childCount>>

(* TASK_JOIN_ENDPOINT and TASK_JOIN go round _yield itself, not TASK_YIELD:
   their loops make no restart check. *)
WaitFor(done, loop) ==
    /\ pc' = [pc EXCEPT ![current] = IF done THEN "user" ELSE loop]
    /\ IF done THEN UNCHANGED <<cpu, cursor>> ELSE ToScan
    /\ UNCHANGED <<state, program, tty, preempt, memory, framed, syncActive,
                   pending, snapshot, current, foreground, childCount>>

JoinEndpoint(e) ==
    /\ User("join")
    /\ joinTarget' = e
    /\ WaitFor(state[e] = Free, "join")

JoinEndpointWait ==
    /\ cpu = "run" /\ pc[current] = "join"
    /\ UNCHANGED joinTarget
    /\ WaitFor(state[joinTarget] = Free, "join")

JoinAll ==
    /\ User("joinAll") \/ (cpu = "run" /\ pc[current] = "joinAll")
    /\ UNCHANGED joinTarget
    /\ WaitFor(childCount = 0, "joinAll")

(* TASK_CLAIM_FOREGROUND *)
ClaimForeground ==
    /\ User("claim")
    /\ foreground' = current
    /\ UNCHANGED <<table, memory, control, pending, snapshot, current, cpu,
                   cursor, childCount>>

(* TASK_RUN_SYNC: the shell becomes the program, in its own slot, until the
   program returns or calls TASK_EXIT. *)
RunSync(p) ==
    /\ User("sync")
    /\ p \notin Embedded /\ Demand[p].state <= SyncStateWords
    /\ syncActive' = TRUE
    /\ program' = [program EXCEPT ![Shell] = p]
    /\ UNCHANGED <<state, pc, tty, preempt, memory, joinTarget, framed, pending,
                   snapshot, current, foreground, cpu, cursor, childCount>>

SyncReturn ==
    /\ User("exit") /\ current = Shell /\ syncActive
    /\ syncActive' = FALSE
    /\ program' = [program EXCEPT ![Shell] = ShellProgram]
    /\ UNCHANGED <<state, pc, tty, preempt, memory, joinTarget, framed, pending,
                   snapshot, current, foreground, cpu, cursor, childCount>>

-----------------------------------------------------------------------------
(* Restart and reboot.  A restart rewinds the shell at the stack top and with
   the private state it has; its banner is printed through _putchar, which
   makes the restart check again. *)
ProgramKept == UNCHANGED program
ProgramRestored == program' = [program EXCEPT ![Shell] = ShellProgram]
MemoryMoved ==
    stackTop' = [stackTop EXCEPT ![Shell] = arena.stack] /\ UNCHANGED <<heapBase, arena, mark>>
MemoryKept == UNCHANGED memory

RestartShell ==
    /\ restartPending' = FALSE
    /\ syncActive' = FALSE
    /\ ProgramRestored
    /\ MemoryKept
    /\ tty' = [tty EXCEPT ![Shell] = 0]
    /\ pc' = [pc EXCEPT ![Shell] = "user"]
    /\ state' = [state EXCEPT ![Shell] = Runnable]
    /\ current' = Shell /\ foreground' = Shell
    /\ cpu' = "restartBanner"
    /\ UNCHANGED <<preempt, joinTarget, framed, rebootPending, snapshot,
                   cursor, childCount>>

(* _warm_reboot up to its banner: the request is cleared first. *)
BeginReboot ==
    /\ rebootPending' = FALSE
    /\ cpu' = "rebootBanner"
    /\ UNCHANGED <<table, memory, control, restartPending, snapshot, current,
                   foreground, cursor, childCount>>

TaskReboot == User("reboot") /\ BeginReboot

(* _shell_restart_check finds a request: in TASK_YIELD, TASK_GETCHAR or the
   printing of a character, the banners' included. *)
AtCheck ==
    \/ cpu = "run" /\ pc[current] \in {"user", "getchar"}
    \/ cpu \in {"rebootBanner", "restartBanner"}

ServeRequest ==
    /\ AtCheck /\ CheckFires
    /\ IF rebootPending THEN BeginReboot ELSE RestartShell

BannerPrinted ==
    /\ cpu \in {"rebootBanner", "restartBanner"} /\ ~CheckFires
    /\ cpu' = IF cpu = "rebootBanner" THEN "clear" ELSE "run"
    /\ UNCHANGED <<table, memory, control, pending, snapshot, current,
                   foreground, cursor, childCount>>

(* The rest of _warm_reboot zeroes every child record; _proc_stack_top is not
   part of a record. *)
Cleared(f, value) == [s \in Slots |-> IF s = Shell THEN f[s] ELSE value]

ClearChildren ==
    /\ cpu = "clear"
    /\ state' = Cleared(state, Free)
    /\ program' = Cleared(program, NoProgram)
    /\ pc' = Cleared(pc, "user")
    /\ tty' = Cleared(tty, 0)
    /\ preempt' = Cleared(preempt, ClearSidecar)
    /\ heapBase' = Cleared(heapBase, 0)
    /\ childCount' = 0
    /\ arena' = mark
    /\ cpu' = "rewind"
    /\ UNCHANGED <<stackTop, mark, control, pending, snapshot, current,
                   foreground, cursor>>

RewindShell == cpu = "rewind" /\ RestartShell

-----------------------------------------------------------------------------
(* The scheduler: between two slots of its scan it decodes UART input, and it
   runs the first RUNNABLE slot it comes to. *)
Scanning(frame) == cpu = "scan" /\ frame \in Frames

(* A bare byte is taken only for a blocked foreground process. *)
PlainInput ==
    /\ Scanning("plain") /\ ~framed
    /\ state[foreground] = BlockedTty
    /\ Enqueue(foreground)
    /\ UNCHANGED <<program, pc, preempt, memory, control, pending, snapshot,
                   current, foreground, cpu, cursor, childCount>>

(* TTY_INPUT goes to the slot its channel names, whatever that slot holds. *)
TtyInput(s) ==
    /\ Scanning("tty") /\ framed
    /\ Enqueue(s)
    /\ UNCHANGED <<program, pc, preempt, memory, control, pending, snapshot,
                   current, foreground, cpu, cursor, childCount>>

(* HELLO enters framed mode and wakes the shell with a newline.  Before that
   its bytes too are taken only for a blocked foreground process. *)
Hello ==
    /\ Scanning("hello")
    /\ framed \/ state[foreground] = BlockedTty
    /\ framed' = TRUE
    /\ Enqueue(Shell)
    /\ UNCHANGED <<program, pc, preempt, memory, joinTarget, syncActive, pending,
                   snapshot, current, foreground, cpu, cursor, childCount>>

DebugKill(e) == Scanning("kill") /\ framed /\ KillEndpoint(e)

NextSlotButLast == IF cursor >= NSlots - 1 THEN Shell ELSE cursor + 1
NextSlot == IF cursor = NSlots THEN Shell ELSE cursor + 1

ScanBlocked ==
    /\ cpu = "scan" /\ state[NextSlot] # Runnable
    /\ cursor' = NextSlot
    /\ UNCHANGED <<table, memory, control, pending, snapshot, current,
                   foreground, cpu, childCount>>

(* Resuming a saved interrupt frame ends its protection from the heartbeat. *)
StillMarked(s) == preempt' = preempt
Resumed(s) == preempt' = [preempt EXCEPT ![s].saved = FALSE]

Dispatch ==
    /\ cpu = "scan" /\ state[NextSlot] = Runnable
    /\ cursor' = NextSlot /\ current' = NextSlot
    /\ cpu' = "run"
    /\ Resumed(NextSlot)
    /\ UNCHANGED <<state, program, pc, tty, memory, control, pending, snapshot,
                   foreground, childCount>>

-----------------------------------------------------------------------------
(* The UART interrupt handler. *)
RequestRestart ==
    /\ "restart" \in Requests
    /\ RequestShellRestart
    /\ UNCHANGED <<program, pc, tty, preempt, memory, control, rebootPending,
                   snapshot, current, foreground, cpu, cursor, childCount>>

RequestReboot ==
    /\ "reboot" \in Requests
    /\ rebootPending' = TRUE
    /\ ShellWoken
    /\ UNCHANGED <<program, pc, tty, preempt, memory, control, restartPending,
                   snapshot, current, foreground, cpu, cursor, childCount>>

(* A heartbeat that finds the quantum used up, or a kill queued, forces the
   current leaf out of its image.  The landing handler then exits it or saves
   its frame for a later dispatch. *)
Forced ==
    /\ cpu = "run" /\ pc[current] = "user"
    /\ program[current] \in Leaf
    /\ preempt[current].eligible /\ ~preempt[current].saved

ForceSwitch ==
    /\ Forced /\ ~preempt[current].kill
    /\ preempt' = [preempt EXCEPT ![current].saved = TRUE]
    /\ ToScan
    /\ UNCHANGED <<state, program, pc, tty, memory, control, pending, snapshot,
                   current, foreground, childCount>>

ForceExit == Forced /\ preempt[current].kill /\ ExitProcess

-----------------------------------------------------------------------------
FaultsOf(p) == IF p \in Embedded THEN Faults \union {"none"} ELSE {"none"}

ProcessStep ==
    \/ \E p \in Programs : \E fault \in FaultsOf(p) : TaskSpawn(p, fault)
    \/ TaskExit
    \/ \E e \in Slots : TaskKill(e)
    \/ GetcharCheck
    \/ GetcharBlock
    \/ TaskYield
    \/ \E e \in Children : JoinEndpoint(e)
    \/ JoinEndpointWait
    \/ JoinAll
    \/ ClaimForeground
    \/ \E p \in Programs : RunSync(p)
    \/ SyncReturn
    \/ TaskReboot
    \/ ServeRequest
    \/ BannerPrinted
    \/ ClearChildren
    \/ RewindShell

SchedulerStep ==
    \/ PlainInput
    \/ \E s \in Slots : TtyInput(s)
    \/ Hello
    \/ \E e \in Slots : DebugKill(e)
    \/ ScanBlocked
    \/ Dispatch

InterruptStep ==
    \/ RequestRestart
    \/ RequestReboot
    \/ ForceSwitch
    \/ ForceExit

Next == ProcessStep \/ SchedulerStep \/ InterruptStep

Spec == Init /\ [][Next]_vars

(* The shell is in the loop of a join. *)
Joining == pc[Shell] \in {"join", "joinAll"}

(* The CPU never stops executing kernel code; a process gives the CPU back by
   a yield, a read or a join, and the shell does not go from one join to the
   next for ever without printing or reading in between; the heartbeat keeps
   coming.  Nothing is assumed about operators, spawns, kills or exits. *)
Fairness ==
    /\ WF_vars(GetcharBlock) /\ WF_vars(BannerPrinted)
    /\ WF_vars(ClearChildren) /\ WF_vars(RewindShell)
    /\ WF_vars(ScanBlocked \/ Dispatch)
    /\ SF_vars(ServeRequest)
    /\ WF_vars(GetcharCheck \/ TaskYield)
    /\ WF_vars(JoinEndpointWait) /\ WF_vars(Joining /\ JoinAll)
    /\ WF_vars(ForceSwitch \/ ForceExit)

FairSpec == Spec /\ Fairness

-----------------------------------------------------------------------------
(* Every variable holds a value its storage can hold. *)
TableType ==
    /\ state \in [Slots -> {Free, Runnable, BlockedTty}]
    /\ program \in [Slots -> Programs \union {ShellProgram, NoProgram}]
    /\ pc \in [Slots -> {"user", "getchar", "join", "joinAll"}]
    /\ tty \in [Slots -> 0..TtyCapacity]
    /\ preempt \in [Slots -> Sidecar]
MemoryType ==
    /\ stackTop \in [Slots -> Nat] /\ heapBase \in [Slots -> Nat]
    /\ arena \in [stack : Nat, heap : Nat] /\ mark \in [stack : Nat, heap : Nat]
ControlType ==
    /\ snapshot \in [{"B", "C"} -> Programs \union {NoProgram}]
    /\ current \in Slots /\ foreground \in Slots /\ cursor \in Slots
    /\ cpu \in {"run", "block", "scan", "rebootBanner", "restartBanner",
                "clear", "rewind"}
    /\ childCount \in 0..255 /\ joinTarget \in Slots
    /\ framed \in BOOLEAN /\ syncActive \in BOOLEAN
    /\ restartPending \in BOOLEAN /\ rebootPending \in BOOLEAN
TypeOK == TableType /\ MemoryType /\ ControlType

(* _child_count, kept by spawn, exit, two kinds of kill and reboot, is the
   number of live child slots: it decides when a generation is reclaimed and
   when TASK_JOIN returns. *)
ChildCountExact == childCount = Cardinality(LiveChildren)

(* "Neither input focus nor the current-process pointer may be left aimed at
   a slot that no longer holds a process" (comment of _kill_endpoint_focus),
   whichever way the slot was given up; and the shell's slot never is.  A
   reboot mends the focus a moment after it has cleared the table. *)
FocusAlive ==
    /\ state[current] # Free /\ state[Shell] # Free
    /\ cpu # "rewind" => state[foreground] # Free

(* A process is never left blocked in TASK_GETCHAR with input in its ring:
   only a byte that arrives would wake it. *)
NoLostKeystroke == \A s \in Slots : state[s] = BlockedTty => tty[s] = 0

(* The shell's slot names another program exactly while it runs one, however
   that run ends: by returning, by TASK_EXIT or by a restart. *)
SyncDescriptorExact == syncActive <=> program[Shell] # ShellProgram

(* A request to restart or reboot leaves the shell runnable until it is
   served ("runnable is what it now is", _request_shell_restart). *)
RequestKeepsShellRunnable ==
    restartPending \/ rebootPending => state[Shell] = Runnable

(* The heap pointer is not below the image the linker placed under it. *)
HeapAboveImage == arena.heap >= HeapBase

(* With no child alive both arenas are back where boot left them: nothing is
   leaked by any sequence of spawns, failures, kills, exits and reboots. *)
NoLeak == HeapAboveImage /\ LiveChildren = {} => arena = BootArena

(* The memory of live processes: no two of them share a word of stack or of
   heap, and none reaches into what the allocator would hand out next. *)
StackWords(s) == IF s = Shell THEN ShellDemand.stack ELSE Demand[program[s]].stack
HeapWords(s) ==
    IF s = Shell THEN ShellDemand.state
    ELSE Demand[program[s]].state + ImageWords(program[s])
Live == {s \in Slots : state[s] # Free}
ArenaSound == HeapAboveImage =>
    /\ \A s \in Live :
        /\ arena.stack <= stackTop[s] - StackWords(s)
        /\ heapBase[s] + HeapWords(s) <= arena.heap
    /\ \A s, t \in Live : s # t =>
        /\ \/ stackTop[s] - StackWords(s) >= stackTop[t]
           \/ stackTop[t] - StackWords(t) >= stackTop[s]
        /\ \/ heapBase[s] + HeapWords(s) <= heapBase[t]
           \/ heapBase[t] + HeapWords(t) <= heapBase[s]
    /\ arena.stack >= StackLimit /\ arena.heap <= HeapTop

(* What a live slot's descriptor reads as is the program it was given. *)
DescriptorStable == \A s \in Live : Descriptor(s) = program[s]

(* A live slot is certified for the runway only if its program is a leaf: an
   accepted kill is queued exactly for a process a heartbeat can force. *)
EligibleIsLeaf == \A s \in Live : preempt[s].eligible <=> program[s] \in Leaf

(* A process keeps its stack and private state for as long as it lives, the
   shell through every restart and reboot included. *)
MemoryStable ==
    [][\A s \in Slots : state[s] # Free /\ state'[s] # Free =>
         stackTop'[s] = stackTop[s] /\ heapBase'[s] = heapBase[s]]_vars

-----------------------------------------------------------------------------
(* What a request is lost through: the shell has made its check and stores
   BLOCKED_TTY over the wakeup; it stays in a join for good, whose loop makes no
   check; or a restart is served in the banner of a reboot, in the place of the
   rest of the reboot. *)
Overwritten == cpu = "block" /\ CheckFires
Replaced == cpu = "rebootBanner" /\ restartPending

(* A restart that was asked for happens, wherever the shell computes, yields
   or is blocked for input, once no more reboots are asked for: a reboot's
   banner serves the next reboot first. *)
RestartServed ==
    \/ []<><<RequestReboot>>_vars
    \/ <>Overwritten \/ <>[]Joining
    \/ restartPending ~> ~restartPending

(* A reboot that was asked for ends every child, wherever it meets the shell,
   once the operator stops asking again, or a restart takes its place. *)
RebootServed ==
    \/ []<><<RequestReboot>>_vars
    \/ <>Overwritten \/ <>[]Joining
    \/ rebootPending ~> (LiveChildren = {} \/ Replaced)

(* A kill that was accepted and queued ends its process, once no more spawns,
   kills, restarts and reboots are asked for: the heartbeat forces the leaf in
   its turn. *)
Commanded ==
    \/ \E p \in Programs : \E fault \in FaultsOf(p) : TaskSpawn(p, fault)
    \/ \E e \in Slots : TaskKill(e) \/ DebugKill(e)
    \/ RequestRestart \/ RequestReboot \/ TaskReboot
KillServed ==
    \/ []<><<Commanded>>_vars
    \/ \A s \in Children : preempt[s].kill ~> ~preempt[s].kill

(* A runnable process gets the CPU, unless others exit or the shell is
   restarted again and again: those hand the CPU to the shell at once. *)
ShellResumed == TaskExit \/ ForceExit \/ TaskReboot \/ ServeRequest
RunnableDispatched ==
    \/ []<><<ShellResumed>>_vars
    \/ \A s \in Slots : state[s] = Runnable ~> (current = s \/ state[s] # Runnable)

-----------------------------------------------------------------------------
(* The process table a user of the kernel sees.  While a reboot stands between
   clearing the table and rewinding the shell, focus counts as the shell's. *)
Focus == IF cpu = "rewind" THEN Shell ELSE foreground
Table == INSTANCE ProcessTable WITH owner <- program, focus <- Focus

(* Every behaviour of the kernel is one of the process table. *)
ImplementsTable == Table!Spec
=============================================================================
