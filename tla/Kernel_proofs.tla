--------------------------- MODULE Kernel_proofs ---------------------------
(***************************************************************************)
(* Theorems about Kernel for every number of slots, every catalog and      *)
(* every memory size: its types, its safety invariants, that it implements *)
(* the table of processes, and the two promises that hold until a certain  *)
(* failure: the memory of live processes is disjoint, and exactly the live *)
(* leaves are certified for the runway.                                    *)
(***************************************************************************)
EXTENDS KernelHistory, FiniteSetTheorems, TLAPS

-----------------------------------------------------------------------------
(* What the assumptions say about the numbers, in the form the steps use. *)
LEMMA Numbers ==
    /\ NSlots \in Nat /\ 2 <= NSlots /\ NSlots <= 255
    /\ StackTop \in Nat /\ StackLimit \in Nat /\ HeapBase \in Nat /\ HeapTop \in Nat
    /\ ShellDemand.stack \in Nat /\ ShellDemand.state \in Nat
    /\ StackLimit + ShellDemand.stack <= StackTop
    /\ TtyCapacity \in Nat /\ 1 <= TtyCapacity
  BY SlotsAssumption, MemoryAssumption, TtyAssumption DEF Words

LEMMA Asked ==
    ASSUME NEW p \in Programs
    PROVE  /\ Demand[p].state \in Nat /\ Demand[p].stack \in Nat
           /\ ImageWords(p) \in Nat
<1>1. Demand[p] \in Words
  BY MemoryAssumption
<1>2. Demand[p].state \in Nat /\ Demand[p].stack \in Nat /\ Demand[p].live \in Nat
  BY <1>1 DEF Words
<1>3. QED
  BY <1>2 DEF ImageWords

LEMMA ShellSlot == Shell \in Slots /\ Children \subseteq Slots /\ Shell \notin Children
  BY Numbers DEF Shell, Slots, Children

LEMMA Counting ==
    /\ \A n \in 0..255 : CountUp(n) \in 0..255 /\ CountDown(n) \in 0..255
    /\ \A n \in 0..254 : CountUp(n) = n + 1
    /\ \A n \in 1..255 : CountDown(n) = n - 1
  BY DEF CountUp, CountDown

-----------------------------------------------------------------------------
(* The kernel state is well typed in every reachable state: in particular the
   arena pointers never go below zero and no ring holds more than it can. *)
LEMMA TypeInit == Init => TypeOK
<1> SUFFICES ASSUME Init PROVE TypeOK
    OBVIOUS
<1>1. BootArena \in [stack : Nat, heap : Nat]
  BY Numbers DEF BootArena
<1>2. ClearSidecar \in Sidecar
  BY DEF ClearSidecar, Sidecar
<1>3. TableType
  BY <1>2, Numbers DEF TableType, Init
<1>4. MemoryType
  BY <1>1, Numbers DEF MemoryType, Init
<1>5. ControlType
  <2>1. snapshot \in [{"B", "C"} -> Programs \union {NoProgram}]
    BY DEF Init
  <2>2. current \in Slots /\ foreground \in Slots /\ cursor \in Slots /\ joinTarget \in Slots
    BY ShellSlot DEF Init
  <2>3. childCount \in 0..255
    BY DEF Init
  <2>4. framed \in BOOLEAN /\ syncActive \in BOOLEAN
    BY DEF Init
  <2>5. restartPending \in BOOLEAN /\ rebootPending \in BOOLEAN
    BY DEF Init
  <2>6. cpu = "run"
    BY DEF Init
  <2> QED
    BY <2>1, <2>2, <2>3, <2>4, <2>5, <2>6 DEF ControlType
<1> QED
  BY <1>3, <1>4, <1>5 DEF TypeOK


USE DEF table, memory, control, pending

LEMMA NextSlotType == ASSUME cursor \in Slots PROVE NextSlot \in Slots
  BY Numbers DEF NextSlot, Slots, Shell

LEMMA ReleaseType ==
    ASSUME TypeOK, NEW s \in Slots, ReleaseSlot(s)
    PROVE  /\ TableType'
           /\ stackTop' \in [Slots -> Nat]
           /\ heapBase' \in [Slots -> Nat]
           /\ mark' \in [stack : Nat, heap : Nat]
<1>1. ClearSidecar \in Sidecar
  BY DEF ClearSidecar, Sidecar
<1>2. /\ stackTop' \in [Slots -> Nat] /\ heapBase' \in [Slots -> Nat]
      /\ mark' \in [stack : Nat, heap : Nat]
  BY DEF ReleaseSlot, TypeOK, MemoryType
<1>3. TableType'
  BY <1>1, Numbers DEF ReleaseSlot, TypeOK, TableType, Free
<1> QED
  BY <1>2, <1>3

LEMMA EnqueueType ==
    ASSUME TypeOK, NEW s \in Slots, Enqueue(s)
    PROVE  /\ tty' \in [Slots -> 0..TtyCapacity]
           /\ state' \in [Slots -> {Free, Runnable, BlockedTty}]
<1>1. TtyAfter(tty[s]) \in 0..TtyCapacity
  BY Numbers DEF TtyAfter, TypeOK, TableType
<1>2. StateAfterInput(s) \in {Free, Runnable, BlockedTty}
  BY DEF StateAfterInput, TypeOK, TableType
<1> QED
  BY <1>1, <1>2 DEF Enqueue, TypeOK, TableType

LEMMA YieldType ==
    ASSUME TypeOK, TaskYield
    PROVE  TypeOK'
<1>1. TableType'
  BY Numbers DEF TypeOK, TableType, Free, Runnable, BlockedTty, TaskYield,
     ToScan
<1>2. MemoryType'
  BY DEF TypeOK, MemoryType, TaskYield, ToScan
<1>3. ControlType'
  BY ShellSlot DEF TypeOK, ControlType, TaskYield, ToScan
<1> QED
  BY <1>1, <1>2, <1>3 DEF TypeOK

LEMMA GetcharCheckType ==
    ASSUME TypeOK, GetcharCheck
    PROVE  TypeOK'
<1>1. TableType'
  BY Numbers DEF TypeOK, TableType, Free, Runnable, BlockedTty, GetcharCheck
<1>2. MemoryType'
  BY DEF TypeOK, MemoryType, GetcharCheck
<1>3. ControlType'
  BY ShellSlot DEF TypeOK, ControlType, GetcharCheck
<1> QED
  BY <1>1, <1>2, <1>3 DEF TypeOK

LEMMA GetcharBlockType ==
    ASSUME TypeOK, GetcharBlock
    PROVE  TypeOK'
<1>1. TableType'
  BY Numbers DEF TypeOK, TableType, Free, Runnable, BlockedTty,
     GetcharBlock, ToScan
<1>2. MemoryType'
  BY DEF TypeOK, MemoryType, GetcharBlock, ToScan
<1>3. ControlType'
  BY ShellSlot DEF TypeOK, ControlType, GetcharBlock, ToScan
<1> QED
  BY <1>1, <1>2, <1>3 DEF TypeOK

LEMMA WaitType ==
    ASSUME TypeOK, NEW done, NEW loop \in {"join", "joinAll"},
           joinTarget' \in Slots, WaitFor(done, loop)
    PROVE  TypeOK'
<1>1. TableType'
  BY Numbers DEF TypeOK, TableType, Free, Runnable, BlockedTty, WaitFor,
     ToScan
<1>2. MemoryType'
  BY DEF TypeOK, MemoryType, WaitFor, ToScan
<1>3. ControlType'
  BY ShellSlot DEF TypeOK, ControlType, WaitFor, ToScan
<1> QED
  BY <1>1, <1>2, <1>3 DEF TypeOK

LEMMA ClaimType ==
    ASSUME TypeOK, ClaimForeground
    PROVE  TypeOK'
<1>1. TableType'
  BY Numbers DEF TypeOK, TableType, Free, Runnable, BlockedTty,
     ClaimForeground
<1>2. MemoryType'
  BY DEF TypeOK, MemoryType, ClaimForeground
<1>3. ControlType'
  BY ShellSlot DEF TypeOK, ControlType, ClaimForeground
<1> QED
  BY <1>1, <1>2, <1>3 DEF TypeOK

LEMMA RunSyncType ==
    ASSUME TypeOK, NEW p \in Programs, RunSync(p)
    PROVE  TypeOK'
<1>1. TableType'
  BY Numbers DEF TypeOK, TableType, Free, Runnable, BlockedTty, RunSync
<1>2. MemoryType'
  BY DEF TypeOK, MemoryType, RunSync
<1>3. ControlType'
  BY ShellSlot DEF TypeOK, ControlType, RunSync
<1> QED
  BY <1>1, <1>2, <1>3 DEF TypeOK

LEMMA SyncReturnType ==
    ASSUME TypeOK, SyncReturn
    PROVE  TypeOK'
<1>1. TableType'
  BY Numbers DEF TypeOK, TableType, Free, Runnable, BlockedTty, SyncReturn
<1>2. MemoryType'
  BY DEF TypeOK, MemoryType, SyncReturn
<1>3. ControlType'
  BY ShellSlot DEF TypeOK, ControlType, SyncReturn
<1> QED
  BY <1>1, <1>2, <1>3 DEF TypeOK

LEMMA RestartShellType ==
    ASSUME TypeOK, RestartShell
    PROVE  TypeOK'
<1>1. TableType'
  <2>1. /\ state' \in [Slots -> {Free, Runnable, BlockedTty}]
        /\ pc' \in [Slots -> {"user", "getchar", "join", "joinAll"}]
    BY ShellSlot DEF RestartShell, TypeOK, TableType
  <2>2. program' \in [Slots -> Programs \union {ShellProgram, NoProgram}]
    BY ShellSlot DEF RestartShell, ProgramRestored, TypeOK, TableType
  <2>3. tty' \in [Slots -> 0..TtyCapacity] /\ preempt' \in [Slots -> Sidecar]
    BY ShellSlot, Numbers DEF RestartShell, TypeOK, TableType
  <2> QED
    BY <2>1, <2>2, <2>3 DEF TableType
<1>2. MemoryType'
  BY DEF RestartShell, MemoryKept, TypeOK, MemoryType
<1>3. ControlType'
  BY ShellSlot DEF RestartShell, TypeOK, ControlType
<1> QED
  BY <1>1, <1>2, <1>3 DEF TypeOK

LEMMA BeginRebootType ==
    ASSUME TypeOK, BeginReboot
    PROVE  TypeOK'
<1>1. TableType'
  BY Numbers DEF TypeOK, TableType, Free, Runnable, BlockedTty, BeginReboot
<1>2. MemoryType'
  BY DEF TypeOK, MemoryType, BeginReboot
<1>3. ControlType'
  BY ShellSlot DEF TypeOK, ControlType, BeginReboot
<1> QED
  BY <1>1, <1>2, <1>3 DEF TypeOK

LEMMA BannerType ==
    ASSUME TypeOK, BannerPrinted
    PROVE  TypeOK'
<1>1. TableType'
  BY Numbers DEF TypeOK, TableType, Free, Runnable, BlockedTty,
     BannerPrinted
<1>2. MemoryType'
  BY DEF TypeOK, MemoryType, BannerPrinted
<1>3. ControlType'
  BY ShellSlot DEF TypeOK, ControlType, BannerPrinted
<1> QED
  BY <1>1, <1>2, <1>3 DEF TypeOK

LEMMA ClearType ==
    ASSUME TypeOK, ClearChildren
    PROVE  TypeOK'
<1>1. TableType'
  BY Numbers DEF TypeOK, TableType, Free, Runnable, BlockedTty,
     ClearChildren, Cleared, ClearSidecar, Sidecar
<1>2. MemoryType'
  BY DEF TypeOK, MemoryType, ClearChildren, Cleared, ClearSidecar, Sidecar
<1>3. ControlType'
  BY ShellSlot DEF TypeOK, ControlType, ClearChildren, Cleared,
     ClearSidecar, Sidecar
<1> QED
  BY <1>1, <1>2, <1>3 DEF TypeOK

LEMMA PlainInputType ==
    ASSUME TypeOK, PlainInput
    PROVE  TypeOK'
<1>1. Enqueue(foreground) /\ foreground \in Slots
  BY ShellSlot DEF PlainInput, TypeOK, ControlType
<1>2. TableType'
  BY <1>1, EnqueueType DEF PlainInput, TypeOK, TableType
<1>3. MemoryType' /\ ControlType'
  BY DEF PlainInput, TypeOK, MemoryType, ControlType
<1> QED
  BY <1>2, <1>3 DEF TypeOK

LEMMA TtyInputType ==
    ASSUME TypeOK, NEW s \in Slots, TtyInput(s)
    PROVE  TypeOK'
<1>1. Enqueue(s) /\ s \in Slots
  BY ShellSlot DEF TtyInput, TypeOK, ControlType
<1>2. TableType'
  BY <1>1, EnqueueType DEF TtyInput, TypeOK, TableType
<1>3. MemoryType' /\ ControlType'
  BY DEF TtyInput, TypeOK, MemoryType, ControlType
<1> QED
  BY <1>2, <1>3 DEF TypeOK

LEMMA HelloType ==
    ASSUME TypeOK, Hello
    PROVE  TypeOK'
<1>1. Enqueue(Shell) /\ Shell \in Slots
  BY ShellSlot DEF Hello, TypeOK, ControlType
<1>2. TableType'
  BY <1>1, EnqueueType DEF Hello, TypeOK, TableType
<1>3. MemoryType' /\ ControlType'
  BY DEF Hello, TypeOK, MemoryType, ControlType
<1> QED
  BY <1>2, <1>3 DEF TypeOK

LEMMA BlockedType ==
    ASSUME TypeOK, ScanBlocked
    PROVE  TypeOK'
<1>1. TableType'
  BY Numbers DEF TypeOK, TableType, Free, Runnable, BlockedTty, ScanBlocked
<1>2. MemoryType'
  BY DEF TypeOK, MemoryType, ScanBlocked
<1>3. ControlType'
  BY NextSlotType DEF TypeOK, ControlType, ScanBlocked
<1> QED
  BY <1>1, <1>2, <1>3 DEF TypeOK

LEMMA DispatchType ==
    ASSUME TypeOK, Dispatch
    PROVE  TypeOK'
<1>1. NextSlot \in Slots
  BY NextSlotType DEF TypeOK, ControlType
<1>2. preempt' \in [Slots -> Sidecar]
  BY <1>1 DEF Dispatch, Resumed, Sidecar, TypeOK, TableType
<1>3. TableType'
  BY <1>2 DEF Dispatch, TypeOK, TableType
<1>4. MemoryType' /\ ControlType'
  BY <1>1 DEF Dispatch, TypeOK, MemoryType, ControlType
<1> QED
  BY <1>3, <1>4 DEF TypeOK

LEMMA RequestRestartType ==
    ASSUME TypeOK, RequestRestart
    PROVE  TypeOK'
<1>1. TableType'
  BY Numbers DEF TypeOK, TableType, Free, Runnable, BlockedTty,
     RequestRestart, RequestShellRestart, ShellWoken
<1>2. MemoryType'
  BY DEF TypeOK, MemoryType, RequestRestart, RequestShellRestart, ShellWoken
<1>3. ControlType'
  BY ShellSlot DEF TypeOK, ControlType, RequestRestart, RequestShellRestart, ShellWoken
<1> QED
  BY <1>1, <1>2, <1>3 DEF TypeOK

LEMMA RequestRebootType ==
    ASSUME TypeOK, RequestReboot
    PROVE  TypeOK'
<1>1. TableType'
  BY Numbers DEF TypeOK, TableType, Free, Runnable, BlockedTty,
     RequestReboot, ShellWoken
<1>2. MemoryType'
  BY DEF TypeOK, MemoryType, RequestReboot
<1>3. ControlType'
  BY ShellSlot DEF TypeOK, ControlType, RequestReboot, ShellWoken
<1> QED
  BY <1>1, <1>2, <1>3 DEF TypeOK

LEMMA ForceSwitchType ==
    ASSUME TypeOK, ForceSwitch
    PROVE  TypeOK'
<1>1. TableType'
  BY Numbers DEF TypeOK, TableType, Free, Runnable, BlockedTty, ForceSwitch,
     ToScan, Sidecar
<1>2. MemoryType'
  BY DEF TypeOK, MemoryType, ForceSwitch, ToScan, Sidecar
<1>3. ControlType'
  BY ShellSlot DEF TypeOK, ControlType, ForceSwitch, ToScan, Sidecar
<1> QED
  BY <1>1, <1>2, <1>3 DEF TypeOK

LEMMA ExitType ==
    ASSUME TypeOK, ExitProcess
    PROVE  TypeOK'
<1>1. current \in Slots /\ ReleaseSlot(current)
  BY DEF ExitProcess, TypeOK, ControlType
<1>2. arena' \in [stack : Nat, heap : Nat]
  BY DEF ExitProcess, ReclaimGeneration, TypeOK, MemoryType
<1>3. MemoryType'
  BY <1>1, <1>2, ReleaseType DEF MemoryType
<1>4. childCount' \in 0..255
  BY Counting DEF ExitProcess, TypeOK, ControlType
<1>5. ControlType'
  BY <1>4, ShellSlot DEF ExitProcess, FocusAfter, TypeOK, ControlType
<1> QED
  BY <1>1, <1>3, <1>5, ReleaseType DEF TypeOK

LEMMA KillType ==
    ASSUME TypeOK, NEW e \in Slots, KillEndpoint(e)
    PROVE  TypeOK'
<1>1. CASE e = Shell /\ KillShell
  <2>1. TableType'
    BY <1>1, ShellSlot DEF KillShell, RequestShellRestart, ShellWoken, TypeOK, TableType
  <2>2. MemoryType' /\ ControlType'
    BY <1>1 DEF KillShell, KillEndpoint, RequestShellRestart, ShellWoken, TypeOK,
                MemoryType, ControlType
  <2> QED
    BY <2>1, <2>2 DEF TypeOK
<1>2. CASE KillQueued(e)
  <2>1. TableType'
    BY <1>2 DEF KillQueued, Sidecar, TypeOK, TableType
  <2>2. MemoryType' /\ ControlType'
    BY <1>2 DEF KillQueued, KillEndpoint, TypeOK, MemoryType, ControlType
  <2> QED
    BY <2>1, <2>2 DEF TypeOK
<1>3. CASE KillReleased(e)
  <2>1. TableType'
    BY <1>3, ReleaseType DEF KillReleased
  <2>2. arena' \in [stack : Nat, heap : Nat]
    BY <1>3 DEF KillReleased, ReleaseSlot, ReclaimGeneration, TypeOK, MemoryType
  <2>3. MemoryType'
    BY <1>3, <2>2, ReleaseType DEF KillReleased, MemoryType
  <2>4. childCount' \in 0..255
    BY <1>3, Counting DEF KillReleased, CountAfterKill, TypeOK, ControlType
  <2>5. ControlType'
    BY <1>3, <2>4, ShellSlot
    DEF KillReleased, KillEndpoint, FocusAfter, TypeOK, ControlType
  <2> QED
    BY <2>1, <2>3, <2>5 DEF TypeOK
<1> QED
  BY <1>1, <1>2, <1>3 DEF KillEndpoint

LEMMA SpawnType ==
    ASSUME TypeOK, NEW p \in Programs, NEW fault, TaskSpawn(p, fault)
    PROVE  TypeOK'
<1>1. mark' \in [stack : Nat, heap : Nat]
  BY DEF TaskSpawn, TakeMark, TypeOK, MemoryType
<1>2. CASE UNCHANGED <<state, program, preempt, stackTop, heapBase, arena,
                       snapshot, foreground, childCount>>
  <2>1. TableType'
    BY <1>2 DEF TaskSpawn, TypeOK, TableType
  <2>2. MemoryType'
    BY <1>1, <1>2 DEF TypeOK, MemoryType
  <2>3. ControlType'
    BY <1>2 DEF TaskSpawn, TypeOK, ControlType
  <2> QED
    BY <2>1, <2>2, <2>3 DEF TypeOK
<1>3. ASSUME NEW s \in Children, SpawnInto(s, p, fault)
      PROVE  TypeOK'
  <2>1. s \in Slots
    BY ShellSlot
  <2>2. /\ arena.stack \in Nat /\ arena.heap \in Nat
        /\ state' \in [Slots -> {Free, Runnable, BlockedTty}]
    BY <1>3, <2>1 DEF SpawnInto, TypeOK, MemoryType, TableType
  <2>3. program' \in [Slots -> Programs \union {ShellProgram, NoProgram}]
    BY <1>3, <2>1 DEF SpawnInto, TypeOK, TableType
  <2>4. preempt' \in [Slots -> Sidecar]
    <3>1. [ClearSidecar EXCEPT !.eligible = Certified(p)] \in Sidecar
      <4>1. \A b \in BOOLEAN : [ClearSidecar EXCEPT !.eligible = b] \in Sidecar
        BY DEF ClearSidecar, Sidecar
      <4>2. Certified(p) \in BOOLEAN
        BY DEF Certified
      <4> QED
        BY <4>1, <4>2
    <3> QED
      BY <1>3, <2>1, <3>1 DEF SpawnInto, TypeOK, TableType
  <2>5. TableType'
    BY <2>2, <2>3, <2>4 DEF TaskSpawn, TypeOK, TableType
  <2>6. stackTop' \in [Slots -> Nat] /\ heapBase' \in [Slots -> Nat]
    BY <1>3, <2>1, <2>2 DEF SpawnInto, TypeOK, MemoryType
  <2>7. arena' \in [stack : Nat, heap : Nat]
    <3>1. CASE SpawnSucceeds(p, fault)
      <4>1. arena.stack - Demand[p].stack \in Nat
        BY <2>2, <3>1, Numbers, Asked DEF SpawnSucceeds, StackFits
      <4>2. arena.heap + Demand[p].state + ImageWords(p) \in Nat
        BY <2>2, Asked
      <4> QED
        BY <1>3, <3>1, <4>1, <4>2 DEF SpawnInto
    <3>2. CASE ~SpawnSucceeds(p, fault)
      BY <1>1, <1>3, <3>2 DEF SpawnInto, RollBack
    <3> QED
      BY <3>1, <3>2
  <2>8. MemoryType'
    BY <1>1, <2>6, <2>7 DEF MemoryType
  <2>9. childCount' \in 0..255
    BY <1>3, Counting DEF SpawnInto, TypeOK, ControlType
  <2>10. snapshot' \in [{"B", "C"} -> Programs \union {NoProgram}]
    BY <1>3 DEF SpawnInto, TypeOK, ControlType
  <2>11. ControlType'
    BY <1>3, <2>1, <2>9, <2>10 DEF TaskSpawn, SpawnInto, FocusChild, TypeOK, ControlType
  <2> QED
    BY <2>5, <2>8, <2>11 DEF TypeOK
<1> QED
  BY <1>2, <1>3 DEF TaskSpawn

(* Every step of the kernel keeps the types. *)
LEMMA TypeStep == TypeOK /\ [Next]_vars => TypeOK'
<1> SUFFICES ASSUME TypeOK, [Next]_vars PROVE TypeOK'
    OBVIOUS
<1>1. CASE ProcessStep
  <2>1. ASSUME NEW p \in Programs, NEW fault, TaskSpawn(p, fault) PROVE TypeOK'
    BY <2>1, SpawnType
  <2>2. CASE TaskExit
    BY <2>2, ExitType DEF TaskExit
  <2>3. ASSUME NEW e \in Slots, TaskKill(e) PROVE TypeOK'
    BY <2>3, KillType DEF TaskKill
  <2>4. CASE GetcharCheck \/ GetcharBlock \/ TaskYield
    BY <2>4, GetcharCheckType, GetcharBlockType, YieldType
  <2>5. ASSUME NEW e \in Children, JoinEndpoint(e) PROVE TypeOK'
    BY <2>5, WaitType, ShellSlot DEF JoinEndpoint
  <2>6. CASE JoinEndpointWait \/ JoinAll
    BY <2>6, WaitType DEF JoinEndpointWait, JoinAll, TypeOK, ControlType
  <2>7. CASE ClaimForeground \/ SyncReturn \/ \E p \in Programs : RunSync(p)
    BY <2>7, ClaimType, SyncReturnType, RunSyncType
  <2>8. CASE TaskReboot \/ ServeRequest \/ RewindShell
    BY <2>8, BeginRebootType, RestartShellType DEF TaskReboot, ServeRequest, RewindShell
  <2>9. CASE BannerPrinted \/ ClearChildren
    BY <2>9, BannerType, ClearType
  <2> QED
    BY <1>1, <2>1, <2>2, <2>3, <2>4, <2>5, <2>6, <2>7, <2>8, <2>9 DEF ProcessStep
<1>2. CASE SchedulerStep
  <2>1. ASSUME NEW e \in Slots, DebugKill(e) PROVE TypeOK'
    BY <2>1, KillType DEF DebugKill
  <2> QED
    BY <1>2, <2>1, PlainInputType, TtyInputType, HelloType, BlockedType, DispatchType
    DEF SchedulerStep
<1>3. CASE InterruptStep
  BY <1>3, RequestRestartType, RequestRebootType, ForceSwitchType, ExitType
  DEF InterruptStep, ForceExit
<1>4. CASE UNCHANGED vars
  BY <1>4 DEF vars, TypeOK, TableType, MemoryType, ControlType
<1> QED
  BY <1>1, <1>2, <1>3, <1>4 DEF Next

(* The kernel state is well typed in every reachable state. *)
THEOREM TypeCorrect == Spec => []TypeOK
  BY TypeInit, TypeStep, PTL DEF Spec

-----------------------------------------------------------------------------
(* Safety.  The inductive invariant is SafetyInv; each of its parts is
   preserved with the help of those before it, one lemma a part, one step an
   action. *)
(* The shell's slot never runs a private image, so the heartbeat never forces
   it; and only the shell prints a banner or stands inside a reboot. *)
ShellSide ==
    /\ program[Shell] \notin Embedded
    /\ cpu \in {"rebootBanner", "restartBanner", "clear", "rewind"} => current = Shell

(* The ring that TASK_GETCHAR found empty is still empty when it blocks. *)
InputInv ==
    /\ NoLostKeystroke
    /\ cpu = "block" => tty[current] = 0

-----------------------------------------------------------------------------
LEMMA ShellCallsOnly ==
    /\ ~User("reboot") \/ current = Shell
    /\ ~User("spawn") \/ current = Shell
  BY EnvironmentAssumption DEF User, CallsOf, AllChildCalls

(* Which program a slot was given changes in four ways. *)
LEMMA ProgramsNotImages ==
    ASSUME NEW p \in Programs, TypeOK, RunSync(p)
    PROVE  program'[Shell] = p /\ p \notin Embedded /\ p # ShellProgram
  BY ProgramsAssumption, ShellSlot DEF RunSync, TypeOK, TableType

LEMMA ShellNamed == ShellProgram \notin Embedded
  BY ProgramsAssumption

LEMMA ShellSideStep == TypeOK /\ ShellSide /\ FocusAlive /\ [Next]_vars => ShellSide'
<1> SUFFICES ASSUME TypeOK, ShellSide, FocusAlive, [Next]_vars PROVE ShellSide'
    OBVIOUS
<1> USE DEF ShellSide
<1>a. CASE program'[Shell] = program[Shell] /\ cpu' \in {"run", "scan", "block"}
  BY <1>a
<1>b. current \in Slots /\ Shell \in Slots /\ Shell \notin Children
  BY ShellSlot DEF TypeOK, ControlType
<1>1. ASSUME NEW p \in Programs, NEW fault, TaskSpawn(p, fault) PROVE ShellSide'
  <2>1. program'[Shell] = program[Shell]
    BY <1>1, <1>b DEF TaskSpawn, SpawnInto, TypeOK, TableType
  <2> QED
    BY <2>1, <1>1 DEF TaskSpawn, User
<1>2. CASE TaskExit
  BY <1>2, <1>b, <1>a DEF TaskExit, ExitProcess, ReleaseSlot, TypeOK, TableType
<1>3. ASSUME NEW e \in Slots, KillEndpoint(e), cpu \in {"run", "scan"} PROVE ShellSide'
  <2>1. program'[Shell] = program[Shell]
    BY <1>3, <1>b DEF KillEndpoint, KillShell, KillQueued, KillReleased, ReleaseSlot,
                      TypeOK, TableType
  <2> QED
    BY <2>1, <1>3 DEF KillEndpoint
<1>4. CASE GetcharCheck \/ GetcharBlock \/ TaskYield
  BY <1>4, <1>a DEF GetcharCheck, GetcharBlock, TaskYield, ToScan, AtGetchar, User
<1>5. ASSUME NEW done, NEW loop, WaitFor(done, loop), cpu = "run" PROVE ShellSide'
  BY <1>5, <1>a DEF WaitFor, ToScan
<1>6. CASE ClaimForeground
  BY <1>6 DEF ClaimForeground
<1>7. ASSUME NEW p \in Programs, RunSync(p) PROVE ShellSide'
  BY <1>7, ProgramsNotImages DEF RunSync, User
<1>8. CASE SyncReturn
  BY <1>8, <1>b, ShellNamed DEF SyncReturn, User, TypeOK, TableType
<1>9. ASSUME BeginReboot, current = Shell PROVE ShellSide'
  BY <1>9 DEF BeginReboot
<1>10. CASE TaskReboot
  BY <1>10, <1>9, ShellCallsOnly DEF TaskReboot
<1>11. CASE RestartShell
  BY <1>11, <1>b, ShellNamed DEF RestartShell, ProgramRestored, TypeOK, TableType
<1>12. CASE ServeRequest \/ RewindShell
  BY <1>12, <1>9, <1>11 DEF ServeRequest, CheckFires, RewindShell
<1>13. CASE BannerPrinted
  BY <1>13 DEF BannerPrinted
<1>14. CASE ClearChildren
  BY <1>14, <1>b DEF ClearChildren, Cleared
<1>15. ASSUME NEW s \in Slots, PlainInput \/ TtyInput(s) \/ Hello PROVE ShellSide'
  BY <1>15 DEF PlainInput, TtyInput, Hello
<1>16. CASE ScanBlocked \/ Dispatch
  BY <1>16, <1>a DEF ScanBlocked, Dispatch
<1>17. CASE RequestRestart \/ RequestReboot
  BY <1>17 DEF RequestRestart, RequestReboot
<1>18. CASE ForceSwitch
  BY <1>18, <1>a DEF ForceSwitch, ToScan
<1>19. CASE ForceExit
  <2>1. current # Shell
    BY <1>19, ProgramsAssumption DEF ForceExit, Forced
  <2> QED
    BY <2>1, <1>19, <1>b, <1>a DEF ForceExit, ExitProcess, ReleaseSlot, TypeOK, TableType
<1>20. CASE UNCHANGED vars
  BY <1>20 DEF vars
<1> QED
  <2>1. CASE ProcessStep
    BY <2>1, <1>1, <1>2, <1>3, <1>4, <1>5, <1>6, <1>7, <1>8, <1>10, <1>12, <1>13, <1>14
    DEF ProcessStep, TaskKill, User, JoinEndpoint, JoinEndpointWait, JoinAll
  <2>2. CASE SchedulerStep
    BY <2>2, <1>3, <1>15, <1>16, <1>b DEF SchedulerStep, DebugKill, Scanning
  <2>3. CASE InterruptStep
    BY <2>3, <1>17, <1>18, <1>19 DEF InterruptStep
  <2> QED
    BY <2>1, <2>2, <2>3, <1>20 DEF Next

-----------------------------------------------------------------------------
(* Focus and the current process stay on live slots. *)
LEMMA SpawnedSlot ==
    ASSUME TypeOK, NEW s \in Children, NEW p \in Programs, NEW fault, SpawnInto(s, p, fault)
    PROVE  /\ \A t \in Slots : t # s => state'[t] = state[t] /\ program'[t] = program[t]
           /\ foreground' \in {foreground, s}
           /\ foreground' = s => state'[s] = Runnable \/ foreground = s
           /\ state'[s] \in {state[s], Runnable}
  BY ShellSlot DEF SpawnInto, FocusChild, TypeOK, TableType

LEMMA ReleasedSlot ==
    ASSUME TypeOK, NEW s \in Slots, ReleaseSlot(s)
    PROVE  /\ \A t \in Slots : t # s => /\ state'[t] = state[t] /\ program'[t] = program[t]
                                       /\ tty'[t] = tty[t]
           /\ state'[s] = Free /\ tty'[s] = 0 /\ program'[s] = NoProgram
  BY DEF ReleaseSlot, TypeOK, TableType

LEMMA FocusAliveStep == TypeOK /\ ShellSide /\ FocusAlive /\ [Next]_vars => FocusAlive'
<1> SUFFICES ASSUME TypeOK, ShellSide, FocusAlive, [Next]_vars PROVE FocusAlive'
    OBVIOUS
<1> USE DEF FocusAlive
<1>b. /\ current \in Slots /\ foreground \in Slots /\ Shell \in Slots
      /\ Shell \notin Children /\ Children \subseteq Slots /\ NextSlot \in Slots
  BY ShellSlot, NextSlotType DEF TypeOK, ControlType
<1>c. ASSUME UNCHANGED current, UNCHANGED foreground, cpu # "rewind",
             \A s \in Slots : state[s] # Free => state'[s] # Free
      PROVE  FocusAlive'
  BY <1>b, <1>c
<1>d. Free # Runnable /\ Free # BlockedTty /\ state \in [Slots -> {Free, Runnable, BlockedTty}]
  BY DEF Free, Runnable, BlockedTty, TypeOK, TableType
<1>e. ASSUME NEW s \in Slots, s # Shell, ReleaseSlot(s), FocusAfter(s),
             current' = Shell \/ (current' = current /\ s # current), cpu # "rewind"
      PROVE  FocusAlive'
  BY <1>b, <1>e, ReleasedSlot DEF FocusAfter
<1>1. ASSUME NEW p \in Programs, NEW fault, TaskSpawn(p, fault) PROVE FocusAlive'
  <2>1. CASE UNCHANGED <<state, foreground>>
    BY <1>1, <2>1, <1>c DEF TaskSpawn, User
  <2>2. ASSUME NEW s \in Children, FirstFree(s), SpawnInto(s, p, fault) PROVE FocusAlive'
    <3>1. s # current /\ s # foreground /\ s # Shell /\ state[s] = Free
      BY <1>1, <1>b, <2>2 DEF FirstFree, FreeSlots, TaskSpawn, User
    <3> QED
      BY <1>1, <1>b, <1>d, <2>2, <3>1, SpawnedSlot DEF TaskSpawn, User
  <2> QED
    BY <1>1, <2>1, <2>2 DEF TaskSpawn
<1>2. CASE TaskExit
  BY <1>2, <1>b, <1>e DEF TaskExit, User, ExitProcess
<1>3. ASSUME NEW e \in Slots, KillEndpoint(e), cpu \in {"run", "scan"} PROVE FocusAlive'
  <2>1. CASE e = Shell /\ KillShell
    BY <1>3, <2>1, <1>c, <1>d DEF KillShell, RequestShellRestart, ShellWoken
  <2>2. CASE e \in Children /\ KillQueued(e)
    BY <1>3, <2>2, <1>c DEF KillQueued
  <2>3. CASE e \in Children /\ KillReleased(e)
    BY <1>3, <1>b, <2>3, <1>e DEF KillReleased
  <2> QED
    BY <1>3, <2>1, <2>2, <2>3 DEF KillEndpoint
<1>4. CASE GetcharCheck \/ GetcharBlock \/ TaskYield
  BY <1>4, <1>c, <1>d DEF GetcharCheck, GetcharBlock, TaskYield, AtGetchar, User
<1>5. ASSUME NEW done, NEW loop, WaitFor(done, loop), cpu = "run" PROVE FocusAlive'
  BY <1>5, <1>c DEF WaitFor
<1>6. CASE ClaimForeground
  BY <1>6 DEF ClaimForeground
<1>7. CASE SyncReturn \/ \E p \in Programs : RunSync(p)
  BY <1>7, <1>c DEF RunSync, SyncReturn, User
<1>8. CASE BeginReboot /\ cpu # "rewind"
  BY <1>8, <1>c DEF BeginReboot
<1>9. CASE RestartShell
  BY <1>9, <1>b, <1>d DEF RestartShell
<1>10. CASE TaskReboot \/ ServeRequest \/ RewindShell
  BY <1>10, <1>8, <1>9 DEF TaskReboot, User, ServeRequest, AtCheck, RewindShell
<1>11. CASE BannerPrinted
  BY <1>11, <1>c DEF BannerPrinted
<1>12. CASE ClearChildren
  BY <1>12, <1>b DEF ClearChildren, Cleared, ShellSide
<1>13. ASSUME NEW s \in Slots, Enqueue(s), cpu = "scan", UNCHANGED <<current, foreground>>
       PROVE  FocusAlive'
  BY <1>13, <1>c, <1>d DEF Enqueue, StateAfterInput
<1>14. CASE PlainInput \/ (\E s \in Slots : TtyInput(s)) \/ Hello
  BY <1>14, <1>13, <1>b DEF PlainInput, TtyInput, Hello, Scanning
<1>15. CASE ScanBlocked \/ Dispatch
  BY <1>15, <1>b, <1>d DEF ScanBlocked, Dispatch
<1>16. CASE RequestRestart \/ RequestReboot
  BY <1>16, <1>b, <1>d DEF RequestRestart, RequestShellRestart, ShellWoken, RequestReboot
<1>17. CASE ForceSwitch
  BY <1>17, <1>c DEF ForceSwitch, Forced
<1>18. CASE ForceExit
  <2>1. current # Shell
    BY <1>18, ProgramsAssumption DEF ForceExit, Forced, ShellSide
  <2> QED
    BY <2>1, <1>18, <1>b, <1>e DEF ForceExit, Forced, ExitProcess
<1>19. CASE UNCHANGED vars
  BY <1>19 DEF vars
<1> QED
  <2>1. CASE ProcessStep
    BY <2>1, <1>1, <1>2, <1>3, <1>4, <1>5, <1>6, <1>7, <1>10, <1>11, <1>12
    DEF ProcessStep, TaskKill, User, JoinEndpoint, JoinEndpointWait, JoinAll
  <2>2. CASE SchedulerStep
    BY <2>2, <1>3, <1>14, <1>15 DEF SchedulerStep, DebugKill, Scanning
  <2>3. CASE InterruptStep
    BY <2>3, <1>16, <1>17, <1>18 DEF InterruptStep
  <2> QED
    BY <2>1, <2>2, <2>3, <1>19 DEF Next

-----------------------------------------------------------------------------
(* A blocked reader's ring is empty. *)
LEMMA InputInvStep == TypeOK /\ ShellSide /\ FocusAlive /\ InputInv /\ [Next]_vars => InputInv'
<1> SUFFICES ASSUME TypeOK, ShellSide, FocusAlive, InputInv, [Next]_vars PROVE InputInv'
    OBVIOUS
<1> USE DEF InputInv, NoLostKeystroke
<1>b. /\ current \in Slots /\ foreground \in Slots /\ Shell \in Slots
      /\ Children \subseteq Slots
  BY ShellSlot DEF TypeOK, ControlType
<1>d. Free # BlockedTty /\ Runnable # BlockedTty
  BY DEF Free, Runnable, BlockedTty
<1>c. ASSUME cpu' # "block", UNCHANGED tty,
             \A s \in Slots : state'[s] = BlockedTty => state[s] = BlockedTty
      PROVE  InputInv'
  BY <1>c
<1>e. ASSUME NEW s \in Slots, ReleaseSlot(s), cpu' # "block" PROVE InputInv'
  BY <1>e, <1>d, ReleasedSlot
<1>f. ASSUME NEW s \in Slots, Enqueue(s), cpu' # "block" PROVE InputInv'
  <2>1. state'[s] # BlockedTty
    BY <1>f, <1>d, Numbers DEF Enqueue, StateAfterInput, TypeOK, TableType
  <2>2. \A t \in Slots : t # s => state'[t] = state[t] /\ tty'[t] = tty[t]
    BY <1>f DEF Enqueue, TypeOK, TableType
  <2> QED
    BY <1>f, <2>1, <2>2
<1>1. ASSUME NEW p \in Programs, NEW fault, TaskSpawn(p, fault) PROVE InputInv'
  <2>1. CASE UNCHANGED state
    BY <1>1, <2>1 DEF TaskSpawn, User
  <2>2. ASSUME NEW s \in Children, FirstFree(s), SpawnInto(s, p, fault) PROVE InputInv'
    BY <1>1, <1>b, <1>d, <1>c, <2>2, SpawnedSlot DEF TaskSpawn, User
  <2> QED
    BY <1>1, <2>1, <2>2 DEF TaskSpawn
<1>2. CASE TaskExit
  BY <1>2, <1>b, <1>e DEF TaskExit, ExitProcess
<1>3. ASSUME NEW e \in Slots, KillEndpoint(e), cpu \in {"run", "scan"} PROVE InputInv'
  <2>1. CASE KillShell
    BY <1>3, <2>1, <1>b, <1>c, <1>d DEF KillEndpoint, KillShell, RequestShellRestart, ShellWoken,
                                  TypeOK, TableType
  <2>2. CASE KillQueued(e)
    BY <1>3, <2>2, <1>c DEF KillEndpoint, KillQueued
  <2>3. CASE KillReleased(e)
    BY <1>3, <2>3, <1>e DEF KillEndpoint, KillReleased
  <2> QED
    BY <1>3, <2>1, <2>2, <2>3 DEF KillEndpoint
<1>4. CASE GetcharCheck
  <2>1. CASE tty[current] > 0
    <3>1. state[current] # BlockedTty
      BY <1>b, <2>1
    <3>2. \A t \in Slots : t # current => tty'[t] = tty[t]
      BY <1>4, <1>b, <2>1 DEF GetcharCheck, TypeOK, TableType
    <3> QED
      BY <1>4, <2>1, <3>1, <3>2 DEF GetcharCheck, AtGetchar, User
  <2>2. CASE ~(tty[current] > 0)
    <3>1. tty[current] = 0
      BY <1>b, <2>2, Numbers DEF TypeOK, TableType
    <3> QED
      BY <1>4, <2>2, <3>1 DEF GetcharCheck
  <2> QED
    BY <2>1, <2>2
<1>5. CASE GetcharBlock
  BY <1>5, <1>b DEF GetcharBlock, ToScan, TypeOK, TableType
<1>6. CASE TaskYield
  BY <1>6, <1>c DEF TaskYield, ToScan
<1>7. ASSUME NEW done, NEW loop, WaitFor(done, loop), cpu = "run" PROVE InputInv'
  BY <1>7, <1>c DEF WaitFor, ToScan
<1>8. CASE ClaimForeground \/ SyncReturn \/ \E p \in Programs : RunSync(p)
  BY <1>8 DEF ClaimForeground, RunSync, SyncReturn
<1>9. CASE BeginReboot
  BY <1>9, <1>c DEF BeginReboot
<1>10. CASE RestartShell
  BY <1>10, <1>b, <1>d DEF RestartShell, TypeOK, TableType
<1>11. CASE TaskReboot \/ ServeRequest \/ RewindShell
  BY <1>11, <1>9, <1>10 DEF TaskReboot, ServeRequest, RewindShell
<1>12. CASE BannerPrinted
  BY <1>12, <1>c DEF BannerPrinted
<1>13. CASE ClearChildren
  BY <1>13, <1>d DEF ClearChildren, Cleared
<1>14. CASE PlainInput \/ (\E s \in Slots : TtyInput(s)) \/ Hello
  BY <1>14, <1>f, <1>b DEF PlainInput, TtyInput, Hello, Scanning
<1>15. CASE ScanBlocked \/ Dispatch
  BY <1>15, <1>c DEF ScanBlocked, Dispatch
<1>16. CASE RequestRestart \/ RequestReboot
  BY <1>16, <1>b, <1>d DEF RequestRestart, RequestShellRestart, ShellWoken, RequestReboot,
                           TypeOK, TableType
<1>17. CASE ForceSwitch
  BY <1>17, <1>c DEF ForceSwitch, ToScan
<1>18. CASE ForceExit
  BY <1>18, <1>b, <1>e DEF ForceExit, ExitProcess
<1>19. CASE UNCHANGED vars
  BY <1>19 DEF vars
<1> QED
  <2>1. CASE ProcessStep
    BY <2>1, <1>1, <1>2, <1>3, <1>4, <1>5, <1>6, <1>7, <1>8, <1>11, <1>12, <1>13
    DEF ProcessStep, TaskKill, User, JoinEndpoint, JoinEndpointWait, JoinAll
  <2>2. CASE SchedulerStep
    BY <2>2, <1>3, <1>14, <1>15 DEF SchedulerStep, DebugKill, Scanning
  <2>3. CASE InterruptStep
    BY <2>3, <1>16, <1>17, <1>18 DEF InterruptStep
  <2> QED
    BY <2>1, <2>2, <2>3, <1>19 DEF Next

-----------------------------------------------------------------------------
(* The shell's descriptor names another program exactly while it runs one. *)
LEMMA SyncStep ==
    TypeOK /\ ShellSide /\ SyncDescriptorExact /\ [Next]_vars => SyncDescriptorExact'
<1> SUFFICES ASSUME TypeOK, ShellSide, SyncDescriptorExact, [Next]_vars
             PROVE  SyncDescriptorExact'
    OBVIOUS
<1> USE DEF SyncDescriptorExact
<1>b. current \in Slots /\ Shell \in Slots /\ Shell \notin Children /\ Children \subseteq Slots
  BY ShellSlot DEF TypeOK, ControlType
<1>c. ASSUME UNCHANGED syncActive, program'[Shell] = program[Shell]
      PROVE  SyncDescriptorExact'
  BY <1>c
<1>e. ASSUME NEW s \in Slots, s # Shell, ReleaseSlot(s), UNCHANGED syncActive
      PROVE  SyncDescriptorExact'
  BY <1>b, <1>c, <1>e, ReleasedSlot
<1>1. ASSUME NEW p \in Programs, NEW fault, TaskSpawn(p, fault) PROVE SyncDescriptorExact'
  BY <1>1, <1>b, <1>c, SpawnedSlot DEF TaskSpawn
<1>2. CASE TaskExit
  BY <1>2, <1>b, <1>e DEF TaskExit, ExitProcess
<1>3. ASSUME NEW e \in Slots, KillEndpoint(e) PROVE SyncDescriptorExact'
  <2>1. CASE KillShell \/ KillQueued(e)
    BY <1>3, <2>1, <1>c DEF KillEndpoint, KillShell, KillQueued
  <2>2. CASE e \in Children /\ KillReleased(e)
    BY <1>3, <1>b, <2>2, <1>e DEF KillEndpoint, KillReleased
  <2> QED
    BY <1>3, <2>1, <2>2 DEF KillEndpoint
<1>4. CASE GetcharCheck \/ GetcharBlock \/ TaskYield \/ ClaimForeground
  BY <1>4, <1>c DEF GetcharCheck, GetcharBlock, TaskYield, ClaimForeground
<1>5. ASSUME NEW done, NEW loop, WaitFor(done, loop) PROVE SyncDescriptorExact'
  BY <1>5, <1>c DEF WaitFor
<1>6. ASSUME NEW p \in Programs, RunSync(p) PROVE SyncDescriptorExact'
  BY <1>6, ProgramsNotImages DEF RunSync
<1>7. CASE SyncReturn
  BY <1>7, <1>b DEF SyncReturn, TypeOK, TableType
<1>8. CASE BeginReboot \/ BannerPrinted
  BY <1>8, <1>c DEF BeginReboot, BannerPrinted
<1>9. CASE RestartShell
  BY <1>9, <1>b DEF RestartShell, ProgramRestored, TypeOK, TableType
<1>10. CASE TaskReboot \/ ServeRequest \/ RewindShell
  BY <1>10, <1>8, <1>9 DEF TaskReboot, ServeRequest, RewindShell
<1>11. CASE ClearChildren
  BY <1>11, <1>b, <1>c DEF ClearChildren, Cleared
<1>12. CASE PlainInput \/ (\E s \in Slots : TtyInput(s)) \/ Hello
  BY <1>12, <1>c DEF PlainInput, TtyInput, Hello
<1>13. CASE ScanBlocked \/ Dispatch \/ RequestRestart \/ RequestReboot \/ ForceSwitch
  BY <1>13, <1>c DEF ScanBlocked, Dispatch, RequestRestart, RequestReboot, ForceSwitch
<1>14. CASE ForceExit
  <2>1. current # Shell
    BY <1>14, ProgramsAssumption DEF ForceExit, Forced, ShellSide
  <2> QED
    BY <2>1, <1>14, <1>b, <1>e DEF ForceExit, ExitProcess
<1>15. CASE UNCHANGED vars
  BY <1>15, <1>c DEF vars
<1> QED
  <2>1. CASE ProcessStep
    BY <2>1, <1>1, <1>2, <1>3, <1>4, <1>5, <1>6, <1>7, <1>8, <1>10, <1>11
    DEF ProcessStep, TaskKill, JoinEndpoint, JoinEndpointWait, JoinAll
  <2>2. CASE SchedulerStep
    BY <2>2, <1>3, <1>12, <1>13 DEF SchedulerStep, DebugKill
  <2>3. CASE InterruptStep
    BY <2>3, <1>13, <1>14 DEF InterruptStep
  <2> QED
    BY <2>1, <2>2, <2>3, <1>15 DEF Next

-----------------------------------------------------------------------------
(* _child_count counts.  At most NSlots - 1 <= 254 children are alive, so the
   byte never wraps. *)
LEMMA ChildrenFinite ==
    /\ IsFiniteSet(Children) /\ Cardinality(Children) = NSlots - 1
<1>1. 2 \in Int /\ NSlots \in Int /\ ~(2 > NSlots) /\ NSlots - 2 + 1 = NSlots - 1
  BY Numbers
<1>2. /\ IsFiniteSet(2..NSlots)
      /\ Cardinality(2..NSlots) = IF 2 > NSlots THEN 0 ELSE NSlots - 2 + 1
  BY <1>1, FS_Interval, Zenon
<1> QED
  BY <1>1, <1>2, Zenon DEF Children

LEMMA LiveFinite ==
    /\ IsFiniteSet(LiveChildren)
    /\ Cardinality(LiveChildren) \in Nat /\ Cardinality(LiveChildren) <= NSlots - 1
<1>1. LiveChildren \subseteq Children
  BY DEF LiveChildren
<1> QED
  BY <1>1, ChildrenFinite, FS_Subset, FS_CardinalityType

LEMMA CountGrows ==
    ASSUME ChildCountExact, NEW s \in Children, state[s] = Free,
           LiveChildren' = LiveChildren \union {s}, childCount' = CountUp(childCount)
    PROVE  ChildCountExact' /\ childCount' = childCount + 1
<1>1. s \notin LiveChildren
  BY DEF LiveChildren
<1> DEFINE n == Cardinality(LiveChildren)
           m == Cardinality(LiveChildren \union {s})
<1>2. m = n + 1
  BY <1>1, LiveFinite, FS_AddElement
<1>3. m <= NSlots - 1
  <2>1. LiveChildren \union {s} \subseteq Children
    BY DEF LiveChildren
  <2> QED
    BY <2>1, ChildrenFinite, FS_Subset
<1>4. n \in Nat /\ childCount = n /\ (ChildCountExact' <=> childCount' = m)
  BY LiveFinite DEF ChildCountExact
<1> HIDE DEF n, m
<1>5. n \in 0..254
  BY <1>2, <1>3, <1>4, Numbers
<1> QED
  BY <1>2, <1>4, <1>5, Counting

LEMMA CountShrinks ==
    ASSUME ChildCountExact, NEW s \in Children, state[s] # Free,
           LiveChildren' = LiveChildren \ {s}
    PROVE  /\ childCount \in 1..254
           /\ childCount' = CountDown(childCount) => ChildCountExact'
<1>1. s \in LiveChildren
  BY DEF LiveChildren
<1> DEFINE n == Cardinality(LiveChildren)
           m == Cardinality(LiveChildren \ {s})
<1>2. m = n - 1
  BY <1>1, LiveFinite, FS_RemoveElement
<1>3. m \in Nat
  BY LiveFinite, FS_RemoveElement, FS_CardinalityType
<1>4. n \in Nat /\ n <= NSlots - 1 /\ childCount = n /\ (ChildCountExact' <=> childCount' = m)
  BY LiveFinite DEF ChildCountExact
<1> HIDE DEF n, m
<1>5. n \in 1..254
  BY <1>2, <1>3, <1>4, Numbers
<1>6. CountDown(n) = n - 1
  BY <1>5 DEF CountDown
<1> QED
  BY <1>2, <1>4, <1>5, <1>6

(* Releasing a child's slot takes one from the live children. *)
LEMMA ReleasedLive ==
    ASSUME TypeOK, NEW s \in Children, ReleaseSlot(s)
    PROVE  LiveChildren' = LiveChildren \ {s}
  BY ReleasedSlot, ShellSlot DEF LiveChildren

LEMMA SpawnedLive ==
    ASSUME TypeOK, NEW s \in Children, NEW p \in Programs, NEW fault, SpawnInto(s, p, fault)
    PROVE  IF SpawnSucceeds(p, fault)
           THEN LiveChildren' = LiveChildren \union {s} ELSE LiveChildren' = LiveChildren
<1>1. CASE SpawnSucceeds(p, fault)
  <2>1. state' = [state EXCEPT ![s] = Runnable]
    BY <1>1 DEF SpawnInto
  <2> QED
    BY <1>1, <2>1, ShellSlot DEF LiveChildren, TypeOK, TableType, Runnable, Free
<1>2. CASE ~SpawnSucceeds(p, fault)
  <2>1. UNCHANGED state
    BY <1>2 DEF SpawnInto
  <2> QED
    BY <1>2, <2>1 DEF LiveChildren
<1> QED
  BY <1>1, <1>2

LEMMA ChildCountStep ==
    TypeOK /\ ShellSide /\ FocusAlive /\ ChildCountExact /\ [Next]_vars => ChildCountExact'
<1> SUFFICES ASSUME TypeOK, ShellSide, FocusAlive, ChildCountExact, [Next]_vars
             PROVE  ChildCountExact'
    OBVIOUS
<1>b. /\ current \in Slots /\ foreground \in Slots /\ Shell \in Slots
      /\ Shell \notin Children /\ Children \subseteq Slots
      /\ \A s \in Slots : s # Shell => s \in Children
  BY ShellSlot DEF TypeOK, ControlType, Slots, Children, Shell
<1>d. Free # Runnable /\ Free # BlockedTty
  BY DEF Free, Runnable, BlockedTty
<1>c. ASSUME UNCHANGED childCount,
             \A s \in Children : state'[s] = Free <=> state[s] = Free
      PROVE  ChildCountExact'
  <2>1. LiveChildren' = LiveChildren
    BY <1>c DEF LiveChildren
  <2> QED
    BY <2>1, <1>c DEF ChildCountExact
<1>e. CASE ExitProcess /\ current # Shell
  BY <1>e, <1>b, ReleasedLive, CountShrinks DEF ExitProcess, FocusAlive
<1>1. ASSUME NEW p \in Programs, NEW fault, TaskSpawn(p, fault) PROVE ChildCountExact'
  <2>1. CASE UNCHANGED <<state, childCount>>
    BY <1>1, <2>1, <1>c DEF TaskSpawn
  <2>2. ASSUME NEW s \in Children, FirstFree(s), SpawnInto(s, p, fault) PROVE ChildCountExact'
    <3>1. state[s] = Free
      BY <2>2 DEF FirstFree, FreeSlots
    <3>2. CASE SpawnSucceeds(p, fault)
      BY <2>2, <3>1, <3>2, SpawnedLive, CountGrows DEF SpawnInto
    <3>3. CASE ~SpawnSucceeds(p, fault)
      BY <2>2, <3>3, SpawnedLive DEF SpawnInto, ChildCountExact
    <3> QED
      BY <3>2, <3>3
  <2> QED
    BY <1>1, <2>1, <2>2 DEF TaskSpawn
<1>2. CASE TaskExit
  BY <1>2, <1>e DEF TaskExit
<1>3. ASSUME NEW e \in Slots, KillEndpoint(e) PROVE ChildCountExact'
  <2>1. CASE KillShell
    BY <1>3, <2>1, <1>b, <1>c DEF KillEndpoint, KillShell, RequestShellRestart, ShellWoken, TypeOK, TableType
  <2>2. CASE KillQueued(e)
    BY <1>3, <2>2, <1>c DEF KillQueued
  <2>3. CASE e \in Children /\ KillReleased(e)
    <3>1. LiveChildren' = LiveChildren \ {e} /\ state[e] # Free
      BY <2>3, ReleasedLive DEF KillReleased
    <3>2. childCount \in 1..254
      BY <2>3, <3>1, CountShrinks
    <3> QED
      BY <2>3, <3>1, <3>2, CountShrinks DEF KillReleased, CountAfterKill
  <2> QED
    BY <1>3, <2>1, <2>2, <2>3 DEF KillEndpoint
<1>4. CASE GetcharCheck \/ TaskYield \/ ClaimForeground
  BY <1>4, <1>c DEF GetcharCheck, TaskYield, ClaimForeground
<1>5. CASE GetcharBlock
  <2>1. \A s \in Children : state'[s] = Free <=> state[s] = Free
    BY <1>5, <1>b, <1>d DEF GetcharBlock, FocusAlive, TypeOK, TableType
  <2> QED
    BY <1>5, <2>1, <1>c DEF GetcharBlock
<1>6. ASSUME NEW done, NEW loop, WaitFor(done, loop) PROVE ChildCountExact'
  BY <1>6, <1>c DEF WaitFor
<1>7. CASE SyncReturn \/ \E p \in Programs : RunSync(p)
  BY <1>7, <1>c DEF RunSync, SyncReturn
<1>8. CASE BeginReboot \/ BannerPrinted
  BY <1>8, <1>c DEF BeginReboot, BannerPrinted
<1>9. CASE RestartShell
  BY <1>9, <1>b, <1>c DEF RestartShell, TypeOK, TableType
<1>10. CASE TaskReboot \/ ServeRequest \/ RewindShell
  BY <1>10, <1>8, <1>9 DEF TaskReboot, ServeRequest, RewindShell
<1>11. CASE ClearChildren
  <2>1. LiveChildren' = {}
    BY <1>11, <1>b DEF ClearChildren, Cleared, LiveChildren
  <2> QED
    BY <1>11, <2>1, FS_EmptySet DEF ClearChildren, ChildCountExact
<1>12. ASSUME NEW s \in Slots, Enqueue(s), UNCHANGED childCount PROVE ChildCountExact'
  <2>1. \A t \in Children : state'[t] = Free <=> state[t] = Free
    BY <1>12, <1>b, <1>d DEF Enqueue, StateAfterInput, TypeOK, TableType
  <2> QED
    BY <1>12, <2>1, <1>c
<1>13. CASE PlainInput \/ (\E s \in Slots : TtyInput(s)) \/ Hello
  BY <1>13, <1>12, <1>b DEF PlainInput, TtyInput, Hello
<1>14. CASE ScanBlocked \/ Dispatch \/ ForceSwitch
  BY <1>14, <1>c DEF ScanBlocked, Dispatch, ForceSwitch
<1>15. CASE RequestRestart \/ RequestReboot
  BY <1>15, <1>b, <1>c DEF RequestRestart, RequestShellRestart, ShellWoken, RequestReboot,
                           TypeOK, TableType
<1>16. CASE ForceExit
  <2>1. current # Shell
    BY <1>16, ProgramsAssumption DEF ForceExit, Forced, ShellSide
  <2> QED
    BY <2>1, <1>16, <1>e DEF ForceExit
<1>17. CASE UNCHANGED vars
  BY <1>17, <1>c DEF vars
<1> QED
  <2>1. CASE ProcessStep
    BY <2>1, <1>1, <1>2, <1>3, <1>4, <1>5, <1>6, <1>7, <1>8, <1>10, <1>11
    DEF ProcessStep, TaskKill, JoinEndpoint, JoinEndpointWait, JoinAll
  <2>2. CASE SchedulerStep
    BY <2>2, <1>3, <1>13, <1>14 DEF SchedulerStep, DebugKill
  <2>3. CASE InterruptStep
    BY <2>3, <1>14, <1>15, <1>16 DEF InterruptStep
  <2> QED
    BY <2>1, <2>2, <2>3, <1>17 DEF Next

-----------------------------------------------------------------------------
(* The two arenas.  mark is zero until the first spawn; a reboot before it
   leaves both pointers at zero, where every later spawn fails for lack of
   stack.  In every other history an empty table means the boot-time arena,
   because the mark of a generation is the arena it began with. *)
NoArena == [stack |-> 0, heap |-> 0]
Generation ==
    /\ mark \in {BootArena, NoArena}
    /\ childCount = 0 => arena \in {BootArena, NoArena}
    /\ childCount # 0 => mark = BootArena

LEMMA NoArenaNoSpawn ==
    ASSUME NEW p \in Programs, NEW fault, arena = NoArena
    PROVE  ~SpawnSucceeds(p, fault)
  BY Numbers, Asked, MemoryAssumption DEF SpawnSucceeds, StackFits, NoArena

LEMMA GenerationStep ==
    TypeOK /\ ShellSide /\ FocusAlive /\ ChildCountExact /\ Generation /\ [Next]_vars
    => Generation'
<1> SUFFICES ASSUME TypeOK, ShellSide, FocusAlive, ChildCountExact, Generation, [Next]_vars
             PROVE  Generation'
    OBVIOUS
<1> USE DEF Generation
<1>b. /\ current \in Slots /\ foreground \in Slots /\ Shell \in Slots
      /\ Shell \notin Children /\ Children \subseteq Slots
      /\ \A s \in Slots : s # Shell => s \in Children
  BY ShellSlot DEF TypeOK, ControlType, Slots, Children, Shell
<1>c. ASSUME UNCHANGED <<arena, mark, childCount>> PROVE Generation'
  <2>1. BootArena' = BootArena /\ NoArena' = NoArena
    BY DEF BootArena, NoArena
  <2> QED
    BY <1>c, <2>1
<1>d. BootArena' = BootArena /\ NoArena' = NoArena
  BY DEF BootArena, NoArena
<1>e. ASSUME NEW s \in Children, state[s] # Free, ReleaseSlot(s), ReclaimGeneration,
             childCount' = CountDown(childCount)
      PROVE  Generation'
  <2>1. childCount \in 1..254
    BY <1>e, ReleasedLive, CountShrinks
  <2>2. mark = BootArena /\ mark' = mark
    BY <1>e, <2>1 DEF ReleaseSlot
  <2> QED
    BY <1>d, <1>e, <2>2 DEF ReclaimGeneration
<1>f. CASE ExitProcess /\ current # Shell
  BY <1>f, <1>b, <1>e DEF ExitProcess, FocusAlive
<1>1. ASSUME NEW p \in Programs, NEW fault, TaskSpawn(p, fault) PROVE Generation'
  <2>1. /\ mark' \in {BootArena, NoArena}
        /\ childCount # 0 => mark' = BootArena
        /\ childCount = 0 => mark' = arena
    BY <1>1 DEF TaskSpawn, TakeMark
  <2>2. CASE UNCHANGED <<arena, childCount>>
    BY <2>1, <2>2, <1>d
  <2>3. ASSUME NEW s \in Children, FirstFree(s), SpawnInto(s, p, fault) PROVE Generation'
    <3>1. CASE SpawnSucceeds(p, fault)
      <4>1. state[s] = Free
        BY <2>3 DEF FirstFree, FreeSlots
      <4>2. childCount' = childCount + 1
        BY <2>3, <3>1, <4>1, SpawnedLive, CountGrows DEF SpawnInto
      <4>3. childCount \in Nat
        BY DEF TypeOK, ControlType
      <4>4. childCount' # 0
        BY <4>2, <4>3
      <4>5. mark' = BootArena
        BY <2>1, <3>1, NoArenaNoSpawn
      <4> QED
        BY <4>4, <4>5, <1>d
    <3>2. CASE ~SpawnSucceeds(p, fault)
      BY <2>1, <2>3, <3>2, <1>d DEF SpawnInto, RollBack
    <3> QED
      BY <3>1, <3>2
  <2> QED
    BY <1>1, <2>2, <2>3 DEF TaskSpawn
<1>2. CASE TaskExit
  BY <1>2, <1>f DEF TaskExit
<1>3. ASSUME NEW e \in Slots, KillEndpoint(e) PROVE Generation'
  <2>1. CASE KillShell \/ KillQueued(e)
    BY <1>3, <2>1, <1>c DEF KillShell, KillQueued
  <2>2. CASE e \in Children /\ KillReleased(e)
    <3>1. state[e] # Free /\ ReleaseSlot(e)
      BY <2>2 DEF KillReleased
    <3>2. childCount \in 1..254
      BY <2>2, <3>1, ReleasedLive, CountShrinks
    <3> QED
      BY <2>2, <3>1, <3>2, <1>e DEF KillReleased, CountAfterKill
  <2> QED
    BY <1>3, <2>1, <2>2 DEF KillEndpoint
<1>4. CASE GetcharCheck \/ GetcharBlock \/ TaskYield \/ ClaimForeground
  BY <1>4, <1>c DEF GetcharCheck, GetcharBlock, TaskYield, ClaimForeground
<1>5. ASSUME NEW done, NEW loop, WaitFor(done, loop) PROVE Generation'
  BY <1>5, <1>c DEF WaitFor
<1>6. CASE SyncReturn \/ \E p \in Programs : RunSync(p)
  BY <1>6, <1>c DEF RunSync, SyncReturn
<1>7. CASE BeginReboot \/ BannerPrinted
  BY <1>7, <1>c DEF BeginReboot, BannerPrinted
<1>8. CASE RestartShell
  BY <1>8, <1>c DEF RestartShell, MemoryKept
<1>9. CASE TaskReboot \/ ServeRequest \/ RewindShell
  BY <1>9, <1>7, <1>8 DEF TaskReboot, ServeRequest, RewindShell
<1>10. CASE ClearChildren
  BY <1>10, <1>d DEF ClearChildren
<1>11. CASE PlainInput \/ (\E s \in Slots : TtyInput(s)) \/ Hello
  BY <1>11, <1>c DEF PlainInput, TtyInput, Hello
<1>12. CASE ScanBlocked \/ Dispatch \/ ForceSwitch \/ RequestRestart \/ RequestReboot
  BY <1>12, <1>c DEF ScanBlocked, Dispatch, ForceSwitch, RequestRestart, RequestReboot
<1>13. CASE ForceExit
  <2>1. current # Shell
    BY <1>13, ProgramsAssumption DEF ForceExit, Forced, ShellSide
  <2> QED
    BY <2>1, <1>13, <1>f DEF ForceExit
<1>14. CASE UNCHANGED vars
  BY <1>14, <1>c DEF vars
<1> QED
  <2>1. CASE ProcessStep
    BY <2>1, <1>1, <1>2, <1>3, <1>4, <1>5, <1>6, <1>7, <1>9, <1>10
    DEF ProcessStep, TaskKill, JoinEndpoint, JoinEndpointWait, JoinAll
  <2>2. CASE SchedulerStep
    BY <2>2, <1>3, <1>11, <1>12 DEF SchedulerStep, DebugKill
  <2>3. CASE InterruptStep
    BY <2>3, <1>12, <1>13 DEF InterruptStep
  <2> QED
    BY <2>1, <2>2, <2>3, <1>14 DEF Next
-----------------------------------------------------------------------------
(* The inductive invariant, and the theorems it gives. *)
SafetyInv ==
    /\ TypeOK
    /\ ShellSide
    /\ FocusAlive
    /\ InputInv
    /\ SyncDescriptorExact
    /\ ChildCountExact
    /\ Generation

LEMMA SafetyInit == Init => SafetyInv
<1> SUFFICES ASSUME Init PROVE SafetyInv
    OBVIOUS
<1>1. Free # Runnable /\ Free # BlockedTty /\ Runnable # BlockedTty
  BY DEF Free, Runnable, BlockedTty
<1>2. ShellSide /\ SyncDescriptorExact
  BY ShellNamed, ShellSlot DEF Init, ShellSide, SyncDescriptorExact
<1>3. FocusAlive /\ InputInv
  BY <1>1, ShellSlot DEF Init, FocusAlive, InputInv, NoLostKeystroke
<1>4. ChildCountExact
  <2>1. LiveChildren = {}
    BY ShellSlot DEF Init, LiveChildren
  <2> QED
    BY <2>1, FS_EmptySet DEF Init, ChildCountExact
<1>5. Generation
  BY DEF Init, Generation, NoArena
<1> QED
  BY <1>2, <1>3, <1>4, <1>5, TypeInit DEF SafetyInv

LEMMA SafetyStep == SafetyInv /\ [Next]_vars => SafetyInv'
  BY TypeStep, ShellSideStep, FocusAliveStep, InputInvStep, SyncStep, ChildCountStep,
     GenerationStep DEF SafetyInv

(* The inductive invariant of Kernel: what its properties need of each other
   across spawns, exits, kills, forces, restarts and reboots. *)
THEOREM SafetyCorrect == Spec => []SafetyInv
  BY SafetyInit, SafetyStep, PTL DEF Spec

(* _child_count is the number of live children: the reclaiming of a
   generation and the return of TASK_JOIN rest on it. *)
THEOREM ChildCountCorrect == Spec => []ChildCountExact
<1>1. SafetyInv => ChildCountExact
  BY DEF SafetyInv
<1> QED
  BY <1>1, SafetyCorrect, PTL

(* The current process and the focus are never left on a dead slot
   (_kill_endpoint_focus, TASK_EXIT, the restart and the reboot). *)
THEOREM FocusCorrect == Spec => []FocusAlive
<1>1. SafetyInv => FocusAlive
  BY DEF SafetyInv
<1> QED
  BY <1>1, SafetyCorrect, PTL

(* No process stays blocked in TASK_GETCHAR over a byte it could read. *)
THEOREM InputCorrect == Spec => []NoLostKeystroke
<1>1. SafetyInv => NoLostKeystroke
  BY DEF SafetyInv, InputInv
<1> QED
  BY <1>1, SafetyCorrect, PTL

(* The shell gets its own descriptor back however a synchronous run ends. *)
THEOREM SyncCorrect == Spec => []SyncDescriptorExact
<1>1. SafetyInv => SyncDescriptorExact
  BY DEF SafetyInv
<1> QED
  BY <1>1, SafetyCorrect, PTL

(* With no child alive, all the memory of earlier generations is back. *)
THEOREM NoLeakCorrect == Spec => []NoLeak
<1>1. SafetyInv => NoLeak
  <2> SUFFICES ASSUME SafetyInv, HeapAboveImage, LiveChildren = {}
               PROVE  arena = BootArena
      BY DEF NoLeak
  <2>1. childCount = 0
    BY FS_EmptySet DEF SafetyInv, ChildCountExact
  <2>2. arena # NoArena
    BY MemoryAssumption DEF HeapAboveImage, NoArena
  <2> QED
    BY <2>1, <2>2 DEF SafetyInv, Generation
<1> QED
  BY <1>1, SafetyCorrect, PTL

-----------------------------------------------------------------------------
(* A process that stays alive keeps its stack and its private state: a slot's
   memory changes only in a step that fills or frees the slot. *)
MemoryStep ==
    \A s \in Slots : state[s] # Free /\ state'[s] # Free =>
        stackTop'[s] = stackTop[s] /\ heapBase'[s] = heapBase[s]

LEMMA MemoryStableStep == SafetyInv /\ [Next]_vars => [MemoryStep]_vars
<1> SUFFICES ASSUME SafetyInv, [Next]_vars PROVE MemoryStep
    OBVIOUS
<1> USE DEF MemoryStep
<1>b. TypeOK /\ current \in Slots /\ Children \subseteq Slots /\ Shell \in Slots
  BY ShellSlot DEF SafetyInv, TypeOK, ControlType
<1>c. ASSUME UNCHANGED <<stackTop, heapBase>> PROVE MemoryStep
  BY <1>c
<1>e. ASSUME NEW s \in Slots, ReleaseSlot(s) PROVE MemoryStep
  BY <1>b, <1>e DEF ReleaseSlot, TypeOK, TableType, MemoryType
<1>1. ASSUME NEW p \in Programs, NEW fault, TaskSpawn(p, fault) PROVE MemoryStep
  <2>1. ASSUME NEW s \in Children, FirstFree(s), SpawnInto(s, p, fault) PROVE MemoryStep
    <3>1. state[s] = Free
      BY <2>1 DEF FirstFree, FreeSlots
    <3>2. \A t \in Slots : t # s => stackTop'[t] = stackTop[t] /\ heapBase'[t] = heapBase[t]
      BY <1>b, <2>1 DEF SpawnInto, TypeOK, MemoryType
    <3> QED
      BY <3>1, <3>2
  <2> QED
    BY <1>1, <2>1, <1>c DEF TaskSpawn
<1>2. CASE ExitProcess
  BY <1>2, <1>b, <1>e DEF ExitProcess
<1>3. ASSUME NEW e \in Slots, KillEndpoint(e) PROVE MemoryStep
  BY <1>3, <1>b, <1>c, <1>e DEF KillEndpoint, KillShell, KillQueued, KillReleased
<1>4. CASE GetcharCheck \/ GetcharBlock \/ TaskYield \/ ClaimForeground
  BY <1>4, <1>c DEF GetcharCheck, GetcharBlock, TaskYield, ClaimForeground
<1>5. ASSUME NEW done, NEW loop, WaitFor(done, loop) PROVE MemoryStep
  BY <1>5, <1>c DEF WaitFor
<1>6. CASE SyncReturn \/ \E p \in Programs : RunSync(p)
  BY <1>6, <1>c DEF RunSync, SyncReturn
<1>7. CASE BeginReboot \/ BannerPrinted
  BY <1>7, <1>c DEF BeginReboot, BannerPrinted
<1>8. CASE RestartShell
  BY <1>8, <1>c DEF RestartShell, MemoryKept
<1>9. CASE TaskReboot \/ ServeRequest \/ RewindShell
  BY <1>9, <1>7, <1>8 DEF TaskReboot, ServeRequest, RewindShell
<1>10. CASE ClearChildren
  BY <1>10 DEF ClearChildren, Cleared
<1>11. CASE PlainInput \/ (\E s \in Slots : TtyInput(s)) \/ Hello
  BY <1>11, <1>c DEF PlainInput, TtyInput, Hello
<1>12. CASE ScanBlocked \/ Dispatch \/ ForceSwitch \/ RequestRestart \/ RequestReboot
  BY <1>12, <1>c DEF ScanBlocked, Dispatch, ForceSwitch, RequestRestart, RequestReboot
<1>13. CASE UNCHANGED vars
  BY <1>13, <1>c DEF vars
<1> QED
  <2>1. CASE ProcessStep
    BY <2>1, <1>1, <1>2, <1>3, <1>4, <1>5, <1>6, <1>7, <1>9, <1>10
    DEF ProcessStep, TaskKill, TaskExit, JoinEndpoint, JoinEndpointWait, JoinAll
  <2>2. CASE SchedulerStep
    BY <2>2, <1>3, <1>11, <1>12 DEF SchedulerStep, DebugKill
  <2>3. CASE InterruptStep
    BY <2>3, <1>2, <1>12 DEF InterruptStep, ForceExit
  <2> QED
    BY <2>1, <2>2, <2>3, <1>13 DEF Next

(* A process keeps its stack and its private state for as long as it lives, the
   shell through every restart, reboot and synchronous run. *)
THEOREM MemoryStableCorrect == Spec => MemoryStable
<1>1. MemoryStable <=> [][MemoryStep]_vars
  BY DEF MemoryStable, MemoryStep
<1> QED
  BY <1>1, SafetyCorrect, MemoryStableStep, PTL DEF Spec

-----------------------------------------------------------------------------
(* Kernel implements ProcessTable: which program owns a slot and which slot has
   the keyboard change only as the abstract table allows. *)
(* A slot has a program exactly while it is not FREE, and the shell's slot
   holds the shell or a resident program. *)
OwnerInv ==
    /\ \A s \in Slots : state[s] = Free <=> program[s] = NoProgram
    /\ program[Shell] \in Programs \union {ShellProgram}

TableInv == SafetyInv /\ OwnerInv

LEMMA TableFacts ==
    ASSUME TableInv
    PROVE  /\ TypeOK /\ ShellSide /\ FocusAlive /\ SyncDescriptorExact /\ OwnerInv
           /\ current \in Slots /\ foreground \in Slots /\ Shell \in Slots
           /\ Shell \notin Children /\ Children \subseteq Slots
           /\ \A s \in Slots : s # Shell => s \in Children
  BY ShellSlot DEF TableInv, SafetyInv, TypeOK, ControlType, Slots, Children, Shell

LEMMA SlotsAgree == Table!Slots = Slots /\ Table!Children = Children /\ Table!Shell = Shell
  BY DEF Table!Slots, Table!Children, Table!Shell, Slots, Children, Shell

LEMMA StatesDiffer == Free # Runnable /\ Free # BlockedTty
  BY DEF Free, Runnable, BlockedTty

-----------------------------------------------------------------------------
(* Each lemma says what one kind of kernel step does to the owners and the
   focus, and that it keeps OwnerInv. *)
LEMMA UnseenStep ==
    ASSUME TableInv, UNCHANGED <<program, foreground>>, cpu # "rewind", cpu' # "rewind"
    PROVE  UNCHANGED Table!tvars
  BY DEF Table!tvars, Focus

LEMMA UnseenOwner ==
    ASSUME TableInv, UNCHANGED program,
           \A s \in Slots : state'[s] = Free <=> state[s] = Free
    PROVE  OwnerInv'
  BY DEF TableInv, OwnerInv

LEMMA FinishStep ==
    ASSUME TableInv, NEW s \in Children, state[s] # Free, ReleaseSlot(s), FocusAfter(s),
           cpu # "rewind", cpu' # "rewind"
    PROVE  Table!Finish(s) /\ OwnerInv'
<1>1. OwnerInv /\ s \in Slots /\ s # Shell /\ TypeOK /\ Shell \in Slots
  BY TableFacts
<1>2. program[s] # NoProgram
  BY <1>1 DEF OwnerInv
<1>3. program' = [program EXCEPT ![s] = NoProgram]
  BY DEF ReleaseSlot
<1>4. Focus = foreground /\ Focus' = foreground'
  BY DEF Focus
<1>5. Table!Finish(s)
  BY <1>2, <1>3, <1>4, SlotsAgree DEF Table!Finish, FocusAfter
<1>6. OwnerInv'
  BY <1>1, ReleasedSlot DEF OwnerInv
<1> QED
  BY <1>5, <1>6

LEMMA SpawnStep ==
    ASSUME TableInv, NEW p \in Programs, NEW fault, TaskSpawn(p, fault)
    PROVE  (Table!Next \/ UNCHANGED Table!tvars) /\ OwnerInv'
<1>1. cpu = "run" /\ cpu' = "run"
  BY DEF TaskSpawn, User
<1>2. CASE UNCHANGED <<state, program, foreground>>
  BY <1>1, <1>2, UnseenStep, UnseenOwner
<1>3. ASSUME NEW s \in Children, FirstFree(s), SpawnInto(s, p, fault)
      PROVE  (Table!Next \/ UNCHANGED Table!tvars) /\ OwnerInv'
  <2>1. OwnerInv /\ s \in Slots /\ s # Shell /\ TypeOK /\ Shell \in Slots
        /\ Children \subseteq Slots
    BY TableFacts
  <2>2. CASE SpawnSucceeds(p, fault)
    <3>1. /\ program' = [program EXCEPT ![s] = p] /\ foreground' = s
          /\ state' = [state EXCEPT ![s] = Runnable]
      BY <1>3, <2>2 DEF SpawnInto, FocusChild
    <3>2. Focus' = s
      BY <1>1, <3>1 DEF Focus
    <3>3. state[s] = Free /\ \A t \in Children : t < s => state[t] # Free
      BY <1>3, <2>1 DEF FirstFree, FreeSlots, Children
    <3>4. program[s] = NoProgram /\ \A t \in Children : t < s => program[t] # NoProgram
      BY <2>1, <3>3 DEF OwnerInv
    <3>5. Table!Start(s, p)
      BY <3>1, <3>2, <3>4, SlotsAgree DEF Table!Start
    <3>6. p # NoProgram
      BY ProgramsAssumption
    <3>7. OwnerInv'
      BY <2>1, <3>1, <3>6, StatesDiffer DEF OwnerInv, TypeOK, TableType
    <3> QED
      BY <3>5, <3>7, SlotsAgree DEF Table!Next
  <2>3. CASE ~SpawnSucceeds(p, fault)
    BY <1>1, <1>3, <2>3, UnseenStep, UnseenOwner DEF SpawnInto
  <2> QED
    BY <2>2, <2>3
<1> QED
  BY <1>2, <1>3 DEF TaskSpawn

LEMMA KillStep ==
    ASSUME TableInv, NEW e \in Slots, KillEndpoint(e), cpu \in {"run", "scan"}
    PROVE  (Table!Next \/ UNCHANGED Table!tvars) /\ OwnerInv'
<1>1. cpu # "rewind" /\ cpu' # "rewind"
  BY DEF KillEndpoint
<1>2. CASE KillShell
  <2>1. \A s \in Slots : state'[s] = Free <=> state[s] = Free
    BY <1>2, TableFacts, StatesDiffer DEF KillShell, RequestShellRestart, ShellWoken, FocusAlive,
                                          TypeOK, TableType
  <2> QED
    BY <1>1, <1>2, <2>1, UnseenStep, UnseenOwner DEF KillShell
<1>3. CASE KillQueued(e)
  BY <1>1, <1>3, UnseenStep, UnseenOwner DEF KillQueued
<1>4. CASE e \in Children /\ KillReleased(e)
  BY <1>1, <1>4, FinishStep, SlotsAgree DEF KillReleased, Table!Next
<1> QED
  BY <1>2, <1>3, <1>4 DEF KillEndpoint

LEMMA RestartStep ==
    ASSUME TableInv, RestartShell
    PROVE  Table!BecomeShell /\ OwnerInv'
<1>1. TypeOK /\ OwnerInv /\ FocusAlive /\ Shell \in Slots
  BY TableFacts
<1>2. program' = [program EXCEPT ![Shell] = ShellProgram]
  BY DEF RestartShell, ProgramRestored
<1>3. Focus' = Shell
  BY DEF Focus, RestartShell
<1>4. Table!BecomeShell
  BY <1>2, <1>3, SlotsAgree DEF Table!BecomeShell
<1>5. state' = [state EXCEPT ![Shell] = Runnable]
  BY DEF RestartShell
<1>6. OwnerInv'
  BY <1>1, <1>2, <1>5, StatesDiffer, ProgramsAssumption DEF OwnerInv, TypeOK, TableType
<1> QED
  BY <1>4, <1>6

LEMMA ClearStep ==
    ASSUME TableInv, ClearChildren
    PROVE  Table!FinishAll /\ OwnerInv'
<1>1. TypeOK /\ OwnerInv /\ Shell \in Slots
  BY TableFacts
<1>2. Focus' = Shell
  BY DEF ClearChildren, Focus
<1>3. program' = [s \in Slots |-> IF s = Shell THEN program[s] ELSE NoProgram]
  BY DEF ClearChildren, Cleared
<1>4. Table!FinishAll
  BY <1>2, <1>3, SlotsAgree DEF Table!FinishAll
<1>5. OwnerInv'
  BY <1>1, <1>3 DEF OwnerInv, ClearChildren, Cleared
<1> QED
  BY <1>4, <1>5

LEMMA SyncSteps ==
    ASSUME TableInv, SyncReturn \/ \E p \in Programs : RunSync(p)
    PROVE  Table!Next /\ OwnerInv'
<1>1. TypeOK /\ OwnerInv /\ FocusAlive /\ SyncDescriptorExact /\ Shell \in Slots
  BY TableFacts
<1>2. Focus = foreground /\ UNCHANGED foreground /\ Focus' = foreground'
  BY DEF Focus, SyncReturn, RunSync, User
<1>3. CASE SyncReturn
  <2>1. Table!BecomeShell
    BY <1>2, <1>3, SlotsAgree DEF SyncReturn, Table!BecomeShell
  <2>2. OwnerInv'
    BY <1>1, <1>3, ProgramsAssumption DEF SyncReturn, OwnerInv, FocusAlive, TypeOK, TableType
  <2> QED
    BY <2>1, <2>2 DEF Table!Next
<1>4. ASSUME NEW p \in Programs, RunSync(p) PROVE Table!Next /\ OwnerInv'
  <2>1. ~syncActive
    BY <1>4, EnvironmentAssumption DEF RunSync, User, CallsOf, AllChildCalls
  <2>2. Table!Become(p)
    BY <1>1, <1>2, <1>4, <2>1, SlotsAgree DEF RunSync, SyncDescriptorExact, Table!Become
  <2>3. OwnerInv'
    BY <1>1, <1>4, ProgramsAssumption DEF RunSync, OwnerInv, FocusAlive, TypeOK, TableType
  <2> QED
    BY <2>2, <2>3 DEF Table!Next
<1> QED
  BY <1>3, <1>4

(* A step that gives no slot away and leaves the focus alone. *)
LEMMA QuietStep ==
    ASSUME TableInv, UNCHANGED <<program, foreground>>, cpu # "rewind", cpu' # "rewind",
           \A s \in Slots : state'[s] = Free <=> state[s] = Free
    PROVE  UNCHANGED Table!tvars /\ OwnerInv'
  BY UnseenStep, UnseenOwner

-----------------------------------------------------------------------------
LEMMA TableStep == TableInv /\ [Next]_vars => [Table!Next]_(Table!tvars) /\ OwnerInv'
<1> SUFFICES ASSUME TableInv, [Next]_vars
             PROVE  (Table!Next \/ UNCHANGED Table!tvars) /\ OwnerInv'
    OBVIOUS
<1> DEFINE Goal == (Table!Next \/ UNCHANGED Table!tvars) /\ OwnerInv'
<1>a. /\ TypeOK /\ ShellSide /\ FocusAlive
      /\ current \in Slots /\ foreground \in Slots /\ Shell \in Slots
      /\ \A s \in Slots : s # Shell => s \in Children
      /\ state \in [Slots -> {Free, Runnable, BlockedTty}]
  BY TableFacts DEF TypeOK, TableType
<1>e. CASE ExitProcess /\ current # Shell /\ cpu = "run"
  BY <1>e, <1>a, FinishStep, SlotsAgree DEF ExitProcess, FocusAlive, Table!Next
<1>1. CASE TaskExit
  BY <1>1, <1>e DEF TaskExit, User
<1>2. CASE GetcharCheck \/ TaskYield
  BY <1>2, QuietStep DEF GetcharCheck, AtGetchar, User, TaskYield, ToScan
<1>3. CASE GetcharBlock
  <2>1. \A s \in Slots : state'[s] = Free <=> state[s] = Free
    BY <1>3, <1>a, StatesDiffer DEF GetcharBlock, FocusAlive
  <2> QED
    BY <1>3, <2>1, QuietStep DEF GetcharBlock, ToScan
<1>4. ASSUME NEW done, NEW loop, WaitFor(done, loop), cpu = "run" PROVE Goal
  BY <1>4, QuietStep DEF WaitFor, ToScan
<1>5. CASE ClaimForeground
  <2>1. current = Shell /\ cpu = "run" /\ cpu' = "run" /\ UNCHANGED <<program, state>>
    BY <1>5, EnvironmentAssumption DEF ClaimForeground, User, CallsOf, AllChildCalls
  <2>2. Table!ClaimFocus
    BY <1>5, <2>1, SlotsAgree DEF ClaimForeground, Focus, Table!ClaimFocus
  <2> QED
    BY <2>1, <2>2, UnseenOwner DEF Table!Next
<1>6. CASE BeginReboot /\ cpu # "rewind"
  BY <1>6, QuietStep DEF BeginReboot
<1>7. CASE RestartShell
  BY <1>7, RestartStep DEF Table!Next
<1>8. CASE TaskReboot \/ ServeRequest \/ RewindShell
  BY <1>8, <1>6, <1>7 DEF TaskReboot, User, ServeRequest, AtCheck, RewindShell
<1>9. CASE BannerPrinted
  BY <1>9, QuietStep DEF BannerPrinted
<1>10. CASE ClearChildren
  BY <1>10, ClearStep DEF Table!Next
<1>11. ASSUME NEW s \in Slots, Enqueue(s), UNCHANGED <<program, foreground, cpu>>, cpu = "scan"
       PROVE  Goal
  <2>1. \A t \in Slots : state'[t] = Free <=> state[t] = Free
    BY <1>11, <1>a, StatesDiffer DEF Enqueue, StateAfterInput
  <2> QED
    BY <1>11, <2>1, QuietStep
<1>12. CASE PlainInput \/ (\E s \in Slots : TtyInput(s)) \/ Hello
  BY <1>12, <1>11, <1>a DEF PlainInput, TtyInput, Hello, Scanning
<1>13. CASE ScanBlocked \/ Dispatch \/ ForceSwitch
  BY <1>13, QuietStep DEF ScanBlocked, Dispatch, ForceSwitch, Forced, ToScan
<1>14. CASE RequestRestart \/ RequestReboot
  <2>1. \A s \in Slots : state'[s] = Free <=> state[s] = Free
    BY <1>14, <1>a, StatesDiffer DEF RequestRestart, RequestShellRestart, ShellWoken, RequestReboot,
                                     FocusAlive
  <2>2. UNCHANGED <<program, foreground, cpu>>
    BY <1>14 DEF RequestRestart, RequestReboot
  <2> QED
    BY <2>1, <2>2, UnseenOwner DEF Table!tvars, Focus
<1>15. CASE ForceExit
  <2>1. current # Shell
    BY <1>15, <1>a, ProgramsAssumption DEF ForceExit, Forced, ShellSide
  <2> QED
    BY <2>1, <1>15, <1>e DEF ForceExit, Forced
<1>16. CASE UNCHANGED vars
  BY <1>16, UnseenOwner DEF vars, Table!tvars, Focus
<1> QED
  <2>1. CASE ProcessStep
    BY <2>1, SpawnStep, <1>1, KillStep, <1>2, <1>3, <1>4, <1>5, SyncSteps, <1>8, <1>9, <1>10
    DEF ProcessStep, TaskKill, User, JoinEndpoint, JoinEndpointWait, JoinAll
  <2>2. CASE SchedulerStep
    BY <2>2, KillStep, <1>12, <1>13 DEF SchedulerStep, DebugKill, Scanning
  <2>3. CASE InterruptStep
    BY <2>3, <1>13, <1>14, <1>15 DEF InterruptStep
  <2> QED
    BY <2>1, <2>2, <2>3, <1>16 DEF Next

LEMMA TableStart == Init => Table!Init /\ OwnerInv
<1> SUFFICES ASSUME Init PROVE Table!Init /\ OwnerInv
    OBVIOUS
<1>1. Table!Init
  BY SlotsAgree DEF Init, Table!Init, Focus
<1>2. OwnerInv
  BY ShellSlot, StatesDiffer, ProgramsAssumption DEF Init, OwnerInv
<1> QED
  BY <1>1, <1>2

(* Every behaviour of the kernel, whatever the requests, failures and
   interrupts, is a behaviour of the process table it promises. *)
THEOREM TableImplemented == Spec => ImplementsTable
<1>1. Init => Table!Init /\ TableInv
  BY TableStart, SafetyInit DEF TableInv
<1>2. TableInv /\ [Next]_vars => TableInv' /\ [Table!Next]_(Table!tvars)
  BY TableStep, SafetyStep DEF TableInv
<1> QED
  BY <1>1, <1>2, PTL DEF Spec, Table!Spec, ImplementsTable

-----------------------------------------------------------------------------
(* The two promises that hold until a failure spoils them. *)
USE DEF table, memory, control, pending

(* No child is given the shell's own program. *)
ChildrenPrograms == \A s \in Children : program[s] # ShellProgram

(* The shell's stack and private state are those of boot. *)
ShellMemory == stackTop[Shell] = StackTop /\ heapBase[Shell] = HeapBase

(* ArenaSound in parts.  s lies below what the allocator hands out next; s
   and t share no word. *)
Below(s) ==
    /\ arena.stack <= stackTop[s] - StackWords(s)
    /\ heapBase[s] + HeapWords(s) <= arena.heap
Apart(s, t) ==
    /\ \/ stackTop[s] - StackWords(s) >= stackTop[t]
       \/ stackTop[t] - StackWords(t) >= stackTop[s]
    /\ \/ heapBase[s] + HeapWords(s) <= heapBase[t]
       \/ heapBase[t] + HeapWords(t) <= heapBase[s]
Laid ==
    /\ \A s \in Live : Below(s)
    /\ \A s, t \in Live : s # t => Apart(s, t)
    /\ arena.stack >= StackLimit /\ arena.heap <= HeapTop

LEMMA MemoryFacts ==
    ASSUME TableInv
    PROVE  /\ SafetyInv /\ TypeOK /\ ShellSide /\ FocusAlive /\ ChildCountExact /\ Generation
           /\ current \in Slots /\ foreground \in Slots /\ Shell \in Slots
           /\ Shell \notin Children /\ Children \subseteq Slots
           /\ \A s \in Slots : s # Shell => s \in Children
           /\ \A s \in Children : s # Shell
           /\ state[Shell] # Free
  BY TableFacts DEF TableInv, SafetyInv, FocusAlive

(* What a live slot holds is a number of words. *)
LEMMA WordsKnown ==
    ASSUME TableInv, ChildrenPrograms, NEW s \in Live
    PROVE  /\ StackWords(s) \in Nat /\ HeapWords(s) \in Nat
           /\ stackTop[s] \in Nat /\ heapBase[s] \in Nat
           /\ s # Shell => program[s] \in Programs
<1>1. s \in Slots /\ TypeOK /\ (s # Shell => s \in Children) /\ state[s] # Free /\ OwnerInv
  BY MemoryFacts, TableFacts DEF Live
<1>2. s # Shell => program[s] \in Programs
  BY <1>1 DEF OwnerInv, TypeOK, TableType, ChildrenPrograms
<1>3. StackWords(s) \in Nat /\ HeapWords(s) \in Nat
  <2>1. CASE s = Shell
    BY <2>1, Numbers DEF StackWords, HeapWords
  <2>2. CASE s # Shell
    <3> DEFINE p == program[s]
    <3>1. Demand[p].state \in Nat /\ Demand[p].stack \in Nat /\ ImageWords(p) \in Nat
      BY <1>2, <2>2, Asked
    <3>2. StackWords(s) = Demand[p].stack /\ HeapWords(s) = Demand[p].state + ImageWords(p)
      BY <2>2 DEF StackWords, HeapWords
    <3> HIDE DEF p
    <3> QED
      BY <3>1, <3>2
  <2> QED
    BY <2>1, <2>2
<1> QED
  BY <1>1, <1>2, <1>3 DEF TypeOK, MemoryType

-----------------------------------------------------------------------------
(* A slot that stays as it was needs the words it needed. *)
LEMMA SameWords ==
    ASSUME NEW s, s = Shell \/ program'[s] = program[s],
           stackTop'[s] = stackTop[s], heapBase'[s] = heapBase[s]
    PROVE  /\ StackWords(s)' = StackWords(s) /\ HeapWords(s)' = HeapWords(s)
           /\ UNCHANGED arena => (Below(s)' <=> Below(s))
<1>1. CASE s = Shell
  BY <1>1 DEF StackWords, HeapWords, Below
<1>2. CASE s # Shell
  BY <1>2 DEF StackWords, HeapWords, ImageWords, Below
<1> QED
  BY <1>1, <1>2

(* Slots may go, and the rest stay as they are. *)
LEMMA LaidKept ==
    ASSUME Laid, Live' \subseteq Live, UNCHANGED arena,
           \A s \in Live' : /\ s = Shell \/ program'[s] = program[s]
                            /\ stackTop'[s] = stackTop[s] /\ heapBase'[s] = heapBase[s]
    PROVE  Laid'
<1>1. \A s \in Live' : Below(s)' /\ StackWords(s)' = StackWords(s)
                       /\ HeapWords(s)' = HeapWords(s)
  BY SameWords DEF Laid
<1>2. ASSUME NEW s \in Live', NEW t \in Live', s # t PROVE Apart(s, t)'
  BY <1>1, <1>2 DEF Laid, Apart
<1> QED
  BY <1>1, <1>2 DEF Laid

(* The boot-time arena is right for a shell on its own. *)
LEMMA LaidAlone ==
    ASSUME LiveChildren' = {}, arena' = BootArena,
           stackTop'[Shell] = StackTop, heapBase'[Shell] = HeapBase
    PROVE  Laid'
<1>1. \A s \in Live' : s = Shell
  BY DEF LiveChildren, Live, Slots, Children, Shell
<1>2. Below(Shell)'
  BY Numbers DEF Below, BootArena, StackWords, HeapWords
<1>3. arena'.stack >= StackLimit /\ arena'.heap <= HeapTop
  BY Numbers, MemoryAssumption DEF BootArena
<1> QED
  BY <1>1, <1>2, <1>3 DEF Laid

LEMMA ArenasDiffer == BootArena # NoArena
  BY Numbers, MemoryAssumption DEF BootArena, NoArena

(* Below what has been allocated so far, and so apart from what is allocated
   next. *)
LEMMA GrowthArithmetic ==
    ASSUME NEW low \in Nat, NEW high \in Nat, NEW words \in Nat, NEW more \in Nat,
           NEW top \in Nat, NEW need \in Nat, NEW base \in Nat, NEW held \in Nat,
           low <= top - need, base + held <= high
    PROVE  /\ low - words <= top - need /\ base + held <= high + more
           /\ top - need >= low /\ base + held <= high
  OBVIOUS

LEMMA LaidSpawned ==
    ASSUME TableInv, ChildrenPrograms, Laid,
           NEW s \in Children, NEW p \in Programs, NEW fault,
           state[s] = Free, SpawnInto(s, p, fault), SpawnSucceeds(p, fault)
    PROVE  Laid'
<1> DEFINE words == Demand[p].stack
           more == Demand[p].state + ImageWords(p)
<1>1. words \in Nat /\ more \in Nat /\ ImageWords(p) \in Nat /\ Demand[p].state \in Nat
  BY Asked
<1>2. s # Shell /\ s \in Slots /\ TypeOK
  BY MemoryFacts
<1>3. arena.stack \in Nat /\ arena.heap \in Nat
  BY <1>2 DEF TypeOK, MemoryType
<1>4. /\ arena'.stack = arena.stack - words /\ arena'.heap = arena.heap + more
      /\ stackTop' = [stackTop EXCEPT ![s] = arena.stack]
      /\ heapBase' = [heapBase EXCEPT ![s] = arena.heap]
      /\ program' = [program EXCEPT ![s] = p] /\ state' = [state EXCEPT ![s] = Runnable]
  BY <1>1, <1>3 DEF SpawnInto, SpawnSucceeds, ImageAllocated
<1>5. stackTop'[s] = arena.stack /\ heapBase'[s] = arena.heap /\ program'[s] = p
  BY <1>2, <1>4 DEF TypeOK, MemoryType, TableType
<1>6. StackWords(s)' = words /\ HeapWords(s)' = more
  BY <1>2, <1>5 DEF StackWords, HeapWords, ImageWords
<1>7. ASSUME NEW t \in Live', t # s
      PROVE  /\ t \in Live /\ stackTop'[t] = stackTop[t] /\ heapBase'[t] = heapBase[t]
             /\ StackWords(t)' = StackWords(t) /\ HeapWords(t)' = HeapWords(t)
             /\ StackWords(t) \in Nat /\ HeapWords(t) \in Nat
             /\ stackTop[t] \in Nat /\ heapBase[t] \in Nat
             /\ arena.stack <= stackTop[t] - StackWords(t)
             /\ heapBase[t] + HeapWords(t) <= arena.heap
  <2>1. /\ t \in Live /\ stackTop'[t] = stackTop[t] /\ heapBase'[t] = heapBase[t]
        /\ program'[t] = program[t]
    BY <1>2, <1>4, <1>7 DEF Live, TypeOK, MemoryType, TableType
  <2>2. Below(t)
    BY <2>1 DEF Laid
  <2> QED
    BY <2>1, <2>2, SameWords, WordsKnown DEF Below
<1>8. arena.stack - words >= StackLimit /\ arena.heap + more <= HeapTop
  <2>1. StackTop - arena.stack + words <= StackTop - StackLimit
    BY DEF SpawnSucceeds, StackFits
  <2>2. arena.heap + more <= HeapTop
    BY DEF SpawnSucceeds, ImageAllocated, HeapFits
  <2> HIDE DEF words, more
  <2> QED
    BY <1>1, <1>3, <2>1, <2>2, Numbers
<1> HIDE DEF words, more
<1>9. ASSUME NEW t \in Live', t # s PROVE Below(t)' /\ Apart(s, t)' /\ Apart(t, s)'
  BY <1>1, <1>3, <1>4, <1>5, <1>6, <1>7, <1>9, GrowthArithmetic DEF Below, Apart
<1>10. Below(s)'
  BY <1>1, <1>3, <1>4, <1>5, <1>6 DEF Below
<1>11. ASSUME NEW t \in Live', NEW u \in Live', t # s, u # s, t # u PROVE Apart(t, u)'
  <2>1. Apart(t, u)
    BY <1>7, <1>11 DEF Laid
  <2> QED
    BY <1>7, <1>11, <2>1 DEF Apart
<1> QED
  BY <1>4, <1>8, <1>9, <1>10, <1>11 DEF Laid

-----------------------------------------------------------------------------
(* The steps by what they do to memory. *)
(* An arena that lost its pointers to a reboot before the first spawn never
   holds a child again. *)
KernelInv ==
    /\ TableInv /\ ChildrenPrograms /\ ShellMemory
    /\ LiveChildren # {} => arena # NoArena

Sound == arena # NoArena => Laid
Outcome ==
    /\ LiveChildren' # {} => arena' # NoArena
    /\ Sound /\ ~SiblingFailure => Sound'

LEMMA MemoryQuiet ==
    ASSUME KernelInv, UNCHANGED arena, Live' \subseteq Live,
           \A s \in Live' : /\ s = Shell \/ program'[s] = program[s]
                            /\ stackTop'[s] = stackTop[s] /\ heapBase'[s] = heapBase[s]
    PROVE  Outcome
<1>1. LiveChildren' \subseteq LiveChildren
  BY DEF Live, LiveChildren, Slots, Children
<1>2. NoArena' = NoArena
  BY DEF NoArena
<1> QED
  BY <1>1, <1>2, LaidKept DEF Outcome, KernelInv, Sound

LEMMA MemoryUntouched ==
    ASSUME KernelInv, UNCHANGED <<program, arena, stackTop, heapBase>>,
           \A s \in Slots : state'[s] = Free <=> state[s] = Free
    PROVE  Outcome
<1>1. Live' = Live
  BY DEF Live, Slots
<1> QED
  BY <1>1, MemoryQuiet

LEMMA MemoryReclaimed ==
    ASSUME KernelInv, LiveChildren' = {}, arena' \in {BootArena, NoArena}, ShellMemory'
    PROVE  Outcome
<1>1. NoArena' = NoArena /\ ShellMemory' => stackTop'[Shell] = StackTop /\ heapBase'[Shell] = HeapBase
  BY DEF NoArena, ShellMemory
<1> QED
  BY <1>1, LaidAlone DEF Outcome, Sound

(* A child's slot is released: the arena goes back to its mark with the last
   child, and stays otherwise. *)
LEMMA MemoryReleased ==
    ASSUME KernelInv, ShellMemory', NEW s \in Children, state[s] # Free, ReleaseSlot(s),
           childCount' = CountDown(childCount), ReclaimGeneration
    PROVE  Outcome
<1>1. /\ TypeOK /\ ChildCountExact /\ Generation /\ s \in Slots
      /\ \A t \in Slots : t # Shell => t \in Children
  BY MemoryFacts DEF KernelInv
<1>2. LiveChildren' = LiveChildren \ {s}
  BY <1>1, ReleasedLive
<1>3. childCount \in 1..254 /\ ChildCountExact'
  BY <1>1, <1>2, CountShrinks
<1>4. mark = BootArena
  BY <1>3 DEF Generation, KernelInv, TableInv, SafetyInv
<1>5. CASE childCount' = 0
  <2>1. LiveChildren' = {}
    BY <1>2, <1>3, <1>5, LiveFinite, FS_EmptySet, FS_RemoveElement DEF ChildCountExact
  <2> QED
    BY <1>4, <1>5, <2>1, MemoryReclaimed DEF ReclaimGeneration
<1>6. CASE childCount' # 0
  <2>1. \A t \in Slots : t # s => /\ state'[t] = state[t] /\ program'[t] = program[t]
                                  /\ stackTop'[t] = stackTop[t] /\ heapBase'[t] = heapBase[t]
    BY <1>1, ReleasedSlot DEF ReleaseSlot, TypeOK, MemoryType
  <2>2. state'[s] = Free
    BY <1>1, ReleasedSlot
  <2>3. Live' \subseteq Live /\ s \notin Live'
    BY <2>1, <2>2 DEF Live, Slots
  <2>4. UNCHANGED arena
    BY <1>6 DEF ReclaimGeneration
  <2> QED
    BY <2>1, <2>3, <2>4, MemoryQuiet DEF Live
<1> QED
  BY <1>5, <1>6

LEMMA MemorySpawn ==
    ASSUME KernelInv, ShellMemory', NEW p \in Programs, NEW fault, TaskSpawn(p, fault)
    PROVE  Outcome
<1>a. /\ TypeOK /\ ChildCountExact /\ Generation /\ Children \subseteq Slots
      /\ \A s \in Children : s # Shell
  BY MemoryFacts DEF KernelInv
<1>b. NoArena' = NoArena
  BY DEF NoArena
<1>1. CASE UNCHANGED <<state, program, stackTop, heapBase, arena>>
  BY <1>1, MemoryUntouched
<1>2. ASSUME NEW s \in Children, FirstFree(s), SpawnInto(s, p, fault) PROVE Outcome
  <2>1. state[s] = Free /\ s \in Slots
    BY <1>2, <1>a DEF FirstFree, FreeSlots
  <2>2. CASE SpawnSucceeds(p, fault)
    <3>1. arena # NoArena
      BY <2>2, NoArenaNoSpawn
    <3>2. arena'.stack >= StackLimit => arena' # NoArena
      BY Numbers, MemoryAssumption DEF NoArena
    <3>3. arena'.stack >= StackLimit
      <4>1. arena'.stack = arena.stack - Demand[p].stack
        BY <1>2, <2>2 DEF SpawnInto
      <4>2. arena.stack \in Nat /\ Demand[p].stack \in Nat
        BY <1>a, Asked DEF TypeOK, MemoryType
      <4>3. StackTop - arena.stack + Demand[p].stack <= StackTop - StackLimit
        BY <2>2 DEF SpawnSucceeds, StackFits
      <4> QED
        BY <4>1, <4>2, <4>3, Numbers
    <3> QED
      BY <1>2, <1>b, <2>1, <2>2, <3>1, <3>2, <3>3, LaidSpawned DEF Outcome, Sound, KernelInv
  <2>3. CASE ~SpawnSucceeds(p, fault)
    <3>1. /\ UNCHANGED <<state, program, stackTop>> /\ arena' = mark'
          /\ \A t \in Slots : t # s => heapBase'[t] = heapBase[t]
      BY <1>2, <1>a, <2>3 DEF SpawnInto, RollBack, TypeOK, MemoryType
    <3>2. Live' = Live /\ LiveChildren' = LiveChildren /\ s \notin Live
      BY <2>1, <3>1 DEF Live, LiveChildren, Slots, Children
    <3>3. CASE UNCHANGED arena
      BY <3>1, <3>2, <3>3, MemoryQuiet DEF Live
    <3>4. CASE childCount = 0
      <4>1. mark' = arena
        BY <1>2, <3>4 DEF TaskSpawn, TakeMark
      <4> QED
        BY <3>1, <3>3, <4>1
    <3>5. CASE childCount # 0 /\ arena' # arena
      <4>1. mark = BootArena /\ mark' = mark /\ arena' = mark /\ arena # mark
        BY <1>a, <3>1, <3>5 DEF TaskSpawn, TakeMark, Generation
      <4>2. LiveChildren # {}
        BY <3>5, <1>a, FS_EmptySet DEF ChildCountExact
      <4>3. SiblingFailure
        BY <3>2, <4>1, <4>2 DEF SiblingFailure
      <4> QED
        BY <1>b, <4>1, <4>3, ArenasDiffer DEF Outcome
    <3> QED
      BY <3>3, <3>4, <3>5
  <2> QED
    BY <2>2, <2>3
<1> QED
  BY <1>1, <1>2 DEF TaskSpawn

LEMMA MemoryKill ==
    ASSUME KernelInv, ShellMemory', NEW e \in Slots, KillEndpoint(e)
    PROVE  Outcome
<1>a. TypeOK /\ FocusAlive /\ ChildCountExact /\ Shell \in Slots
  BY MemoryFacts DEF KernelInv
<1>1. CASE KillShell
  <2>1. \A s \in Slots : state'[s] = Free <=> state[s] = Free
    BY <1>1, <1>a, StatesDiffer DEF KillShell, RequestShellRestart, ShellWoken, FocusAlive,
                                    TypeOK, TableType
  <2> QED
    BY <1>1, <2>1, MemoryUntouched DEF KillShell
<1>2. CASE KillQueued(e)
  BY <1>2, MemoryUntouched DEF KillQueued
<1>3. CASE e \in Children /\ KillReleased(e)
  <2>1. state[e] # Free /\ ReleaseSlot(e)
    BY <1>3 DEF KillReleased
  <2>2. childCount \in 1..254
    BY <1>a, <1>3, <2>1, ReleasedLive, CountShrinks
  <2> QED
    BY <1>3, <2>1, <2>2, MemoryReleased DEF KillReleased, CountAfterKill
<1> QED
  BY <1>1, <1>2, <1>3 DEF KillEndpoint

LEMMA OutcomeStep == KernelInv /\ [Next]_vars /\ ShellMemory' => Outcome
<1> SUFFICES ASSUME KernelInv, [Next]_vars, ShellMemory' PROVE Outcome
    OBVIOUS
<1>a. /\ TypeOK /\ ShellSide /\ FocusAlive /\ Generation
      /\ current \in Slots /\ foreground \in Slots /\ Shell \in Slots
      /\ \A s \in Slots : s # Shell => s \in Children
      /\ state \in [Slots -> {Free, Runnable, BlockedTty}]
      /\ program \in [Slots -> Programs \union {ShellProgram, NoProgram}]
  BY MemoryFacts DEF KernelInv, TypeOK, TableType
<1>c. ASSUME UNCHANGED <<program, arena, stackTop, heapBase, state>> PROVE Outcome
  BY <1>c, MemoryUntouched
<1>e. CASE ExitProcess /\ current # Shell
  BY <1>e, <1>a, MemoryReleased DEF ExitProcess, FocusAlive
<1>1. CASE TaskExit
  BY <1>1, <1>e DEF TaskExit
<1>2. CASE GetcharCheck \/ TaskYield \/ ClaimForeground
  BY <1>2, <1>c DEF GetcharCheck, TaskYield, ClaimForeground
<1>3. CASE GetcharBlock
  <2>1. \A s \in Slots : state'[s] = Free <=> state[s] = Free
    BY <1>3, <1>a, StatesDiffer DEF GetcharBlock, FocusAlive
  <2> QED
    BY <1>3, <2>1, MemoryUntouched DEF GetcharBlock
<1>4. ASSUME NEW done, NEW loop, WaitFor(done, loop) PROVE Outcome
  BY <1>4, <1>c DEF WaitFor
<1>s. ASSUME UNCHANGED <<arena, stackTop, heapBase>>,
             \A s \in Slots : s # Shell => program'[s] = program[s],
             \A s \in Slots : state'[s] = Free <=> state[s] = Free
      PROVE  Outcome
  <2>1. Live' = Live /\ Live \subseteq Slots
    BY <1>s DEF Live, Slots
  <2> QED
    BY <1>s, <2>1, MemoryQuiet
<1>5. CASE SyncReturn \/ \E p \in Programs : RunSync(p)
  <2>1. \A s \in Slots : s # Shell => program'[s] = program[s]
    BY <1>5, <1>a DEF SyncReturn, RunSync
  <2> QED
    BY <1>5, <2>1, <1>s DEF SyncReturn, RunSync
<1>6. CASE BeginReboot \/ BannerPrinted
  BY <1>6, <1>c DEF BeginReboot, BannerPrinted
<1>7. CASE RestartShell
  <2>1. /\ \A s \in Slots : s # Shell => program'[s] = program[s]
        /\ \A s \in Slots : state'[s] = Free <=> state[s] = Free
    BY <1>7, <1>a, StatesDiffer DEF RestartShell, ProgramRestored, FocusAlive
  <2> QED
    BY <1>7, <2>1, <1>s DEF RestartShell, MemoryKept
<1>8. CASE TaskReboot \/ ServeRequest \/ RewindShell
  BY <1>8, <1>6, <1>7 DEF TaskReboot, ServeRequest, RewindShell
<1>9. CASE ClearChildren
  <2>1. LiveChildren' = {}
    BY <1>9, <1>a, ShellSlot DEF ClearChildren, Cleared, LiveChildren
  <2>2. arena' \in {BootArena, NoArena}
    BY <1>9, <1>a DEF ClearChildren, Generation
  <2> QED
    BY <2>1, <2>2, MemoryReclaimed
<1>10. ASSUME NEW s \in Slots, Enqueue(s), UNCHANGED <<program, arena, stackTop, heapBase>>
       PROVE  Outcome
  <2>1. \A t \in Slots : state'[t] = Free <=> state[t] = Free
    BY <1>10, <1>a, StatesDiffer DEF Enqueue, StateAfterInput
  <2> QED
    BY <1>10, <2>1, MemoryUntouched
<1>11. CASE PlainInput \/ (\E s \in Slots : TtyInput(s)) \/ Hello
  BY <1>11, <1>10, <1>a DEF PlainInput, TtyInput, Hello
<1>12. CASE ScanBlocked \/ Dispatch \/ ForceSwitch
  BY <1>12, <1>c DEF ScanBlocked, Dispatch, ForceSwitch
<1>13. CASE RequestRestart \/ RequestReboot
  <2>1. \A s \in Slots : state'[s] = Free <=> state[s] = Free
    BY <1>13, <1>a, StatesDiffer DEF RequestRestart, RequestShellRestart, ShellWoken, RequestReboot,
                                     FocusAlive
  <2> QED
    BY <1>13, <2>1, MemoryUntouched DEF RequestRestart, RequestReboot
<1>14. CASE ForceExit
  <2>1. current # Shell
    BY <1>14, <1>a, ProgramsAssumption DEF ForceExit, Forced, ShellSide
  <2> QED
    BY <2>1, <1>14, <1>e DEF ForceExit
<1>15. CASE UNCHANGED vars
  BY <1>15, <1>c DEF vars
<1> QED
  <2>1. CASE ProcessStep
    BY <2>1, MemorySpawn, MemoryKill, <1>1, <1>2, <1>3, <1>4, <1>5, <1>6, <1>8, <1>9
    DEF ProcessStep, TaskKill, JoinEndpoint, JoinEndpointWait, JoinAll
  <2>2. CASE SchedulerStep
    BY <2>2, MemoryKill, <1>11, <1>12 DEF SchedulerStep, DebugKill
  <2>3. CASE InterruptStep
    BY <2>3, <1>12, <1>13, <1>14 DEF InterruptStep
  <2> QED
    BY <2>1, <2>2, <2>3, <1>15 DEF Next

(* Nothing moves the shell. *)
LEMMA ShellMemoryStep == TableInv /\ ShellMemory /\ [Next]_vars => ShellMemory'
<1> SUFFICES ASSUME TableInv, ShellMemory, [Next]_vars PROVE ShellMemory'
    OBVIOUS
<1>1. SafetyInv /\ state[Shell] # Free /\ Shell \in Slots
  BY MemoryFacts
<1>2. state'[Shell] # Free
  BY <1>1, SafetyStep DEF SafetyInv, FocusAlive
<1>3. MemoryStep \/ UNCHANGED vars
  BY <1>1, MemoryStableStep
<1> QED
  BY <1>1, <1>2, <1>3 DEF MemoryStep, ShellMemory, vars

(* Only a spawn gives a child a program, and it gives it one of the catalog. *)
LEMMA ChildrenProgramsStep ==
    TableInv /\ ChildrenPrograms /\ [Next]_vars => ChildrenPrograms'
<1> SUFFICES ASSUME TableInv, ChildrenPrograms, [Next]_vars PROVE ChildrenPrograms'
    OBVIOUS
<1>a. /\ ShellProgram \notin Programs /\ NoProgram # ShellProgram
      /\ Children \subseteq Slots /\ \A s \in Children : s # Shell
      /\ program \in [Slots -> Programs \union {ShellProgram, NoProgram}]
  BY MemoryFacts, ProgramsAssumption DEF TypeOK, TableType
<1>1. Table!Next \/ UNCHANGED Table!tvars
  BY TableStep
<1>2. ASSUME NEW s \in Children, NEW p \in Programs, Table!Start(s, p) PROVE ChildrenPrograms'
  BY <1>2, <1>a DEF Table!Start, ChildrenPrograms
<1>3. ASSUME NEW s \in Children, Table!Finish(s) PROVE ChildrenPrograms'
  BY <1>3, <1>a DEF Table!Finish, ChildrenPrograms
<1>4. CASE Table!BecomeShell \/ \E p \in Programs : Table!Become(p)
  BY <1>4, <1>a, SlotsAgree DEF Table!Become, Table!BecomeShell, ChildrenPrograms
<1>5. CASE Table!ClaimFocus \/ UNCHANGED Table!tvars
  BY <1>5 DEF Table!ClaimFocus, Table!tvars, ChildrenPrograms
<1>6. CASE Table!FinishAll
  BY <1>6, <1>a, SlotsAgree DEF Table!FinishAll, ChildrenPrograms
<1> QED
  BY <1>1, <1>2, <1>3, <1>4, <1>5, <1>6, SlotsAgree DEF Table!Next

LEMMA KernelInvStep == KernelInv /\ [Next]_vars => KernelInv'
<1> SUFFICES ASSUME KernelInv, [Next]_vars PROVE KernelInv'
    OBVIOUS
<1>1. TableInv' /\ ChildrenPrograms' /\ ShellMemory'
  BY TableStep, SafetyStep, ChildrenProgramsStep, ShellMemoryStep DEF KernelInv, TableInv
<1> QED
  BY <1>1, OutcomeStep DEF KernelInv, Outcome

LEMMA KernelInvInit == Init => KernelInv /\ Laid
<1> SUFFICES ASSUME Init PROVE KernelInv /\ Laid
    OBVIOUS
<1>1. TableInv
  BY TableStart, SafetyInit DEF TableInv
<1>2. ChildrenPrograms
  BY ProgramsAssumption, ShellSlot DEF Init, ChildrenPrograms
<1>3. ShellMemory
  BY ShellSlot DEF Init, ShellMemory
<1>4. LiveChildren = {}
  BY ShellSlot DEF Init, LiveChildren
<1>5. Laid
  <2>1. \A s \in Live : s = Shell
    BY <1>4 DEF LiveChildren, Live, Slots, Children, Shell
  <2>2. arena = BootArena
    BY DEF Init
  <2>3. Below(Shell)
    BY <1>3, <2>2, Numbers DEF Below, BootArena, StackWords, HeapWords, ShellMemory
  <2>4. arena.stack >= StackLimit /\ arena.heap <= HeapTop
    BY <2>2, Numbers, MemoryAssumption DEF BootArena
  <2> QED
    BY <2>1, <2>3, <2>4 DEF Laid
<1> QED
  BY <1>1, <1>2, <1>3, <1>4, <1>5 DEF KernelInv

-----------------------------------------------------------------------------
(* Certificates.  A slot is set up clear: a certificate in a free slot would
   pass to a program that was never certified. *)
Uncertified == \A s \in Children : state[s] = Free => ~preempt[s].eligible
CertInv == Uncertified /\ EligibleIsLeaf

(* Two of the sidecar's fields say nothing of its certificate. *)
LEMMA CertificateKept ==
    ASSUME NEW f \in [Slots -> Sidecar], NEW g, NEW s \in Slots, NEW b \in BOOLEAN,
           g = [f EXCEPT ![s].saved = b] \/ g = [f EXCEPT ![s].kill = b]
    PROVE  \A t \in Slots : g[t].eligible = f[t].eligible
<1> DEFINE x == [f[s] EXCEPT !.saved = b]
           y == [f[s] EXCEPT !.kill = b]
<1>1. x.eligible = f[s].eligible /\ y.eligible = f[s].eligible
  BY DEF Sidecar
<1>2. g = [f EXCEPT ![s] = x] \/ g = [f EXCEPT ![s] = y]
  OBVIOUS
<1> HIDE DEF x, y
<1> QED
  BY <1>1, <1>2

LEMMA ClearFacts == ClearSidecar \in Sidecar /\ ~ClearSidecar.eligible
  BY DEF ClearSidecar, Sidecar

(* Nothing but a spawn changes what a live slot is certified for. *)
LEMMA CertificatesKept ==
    ASSUME TableInv, CertInv, ShellSide', ~LateFailure,
           \A s \in Slots : state'[s] # Free =>
               /\ state[s] # Free /\ preempt'[s].eligible = preempt[s].eligible
               /\ s = Shell \/ program'[s] = program[s]
    PROVE  CertInv'
<1>1. Uncertified'
  BY DEF LateFailure, Uncertified
<1>2. EligibleIsLeaf'
  <2> SUFFICES ASSUME NEW s \in Slots, state'[s] # Free
               PROVE  preempt'[s].eligible <=> program'[s] \in Leaf
      BY DEF EligibleIsLeaf, Live, Slots
  <2>1. preempt[s].eligible <=> program[s] \in Leaf
    BY DEF CertInv, EligibleIsLeaf, Live
  <2>2. CASE s = Shell
    <3>1. program[Shell] \notin Leaf /\ program'[Shell] \notin Leaf
      BY MemoryFacts, ProgramsAssumption DEF ShellSide
    <3> QED
      BY <2>1, <2>2, <3>1
  <2>3. CASE s # Shell
    BY <2>1, <2>3
  <2> QED
    BY <2>2, <2>3
<1> QED
  BY <1>1, <1>2 DEF CertInv

LEMMA CertificateSpawned ==
    ASSUME TableInv, CertInv, ~LateFailure, NEW p \in Programs, NEW fault, NEW s \in Children,
           state[s] = Free, SpawnInto(s, p, fault), SpawnSucceeds(p, fault)
    PROVE  CertInv'
<1>a. TypeOK /\ s \in Slots
  BY MemoryFacts
<1>b. preempt \in [Slots -> Sidecar]
  BY <1>a DEF TypeOK, TableType
<1>1. Uncertified'
  BY DEF LateFailure, Uncertified
<1>2. /\ program'[s] = p
      /\ \A t \in Slots : t # s => program'[t] = program[t] /\ state'[t] = state[t]
  BY <1>a DEF SpawnInto, TypeOK, TableType
<1>3. /\ preempt'[s].eligible <=> p \in Leaf
      /\ \A t \in Slots : t # s => preempt'[t] = preempt[t]
  <2>1. CASE p \in Embedded
    <3> DEFINE x == [ClearSidecar EXCEPT !.eligible = Certified(p)]
    <3>1. preempt' = [preempt EXCEPT ![s] = x]
      BY <2>1 DEF SpawnInto, SpawnSucceeds
    <3>2. x.eligible <=> p \in Leaf
      BY DEF ClearSidecar, Certified
    <3> HIDE DEF x
    <3> QED
      BY <1>a, <1>b, <3>1, <3>2
  <2>2. CASE p \notin Embedded
    <3>1. preempt' = preempt
      BY <2>2 DEF SpawnInto
    <3>2. ~preempt[s].eligible
      BY DEF CertInv, Uncertified
    <3> QED
      BY <2>2, <3>1, <3>2, ProgramsAssumption
  <2> QED
    BY <2>1, <2>2
<1>4. \A t \in Live' : t # s => t \in Live
  BY <1>2 DEF Live, Slots
<1>5. EligibleIsLeaf'
  <2> SUFFICES ASSUME NEW t \in Live'
               PROVE  preempt'[t].eligible <=> program'[t] \in Leaf
      BY DEF EligibleIsLeaf
  <2>1. CASE t = s
    BY <1>2, <1>3, <2>1
  <2>2. CASE t # s
    <3>1. t \in Slots /\ t \in Live
      BY <1>4, <2>2 DEF Live
    <3>2. preempt[t].eligible <=> program[t] \in Leaf
      BY <3>1 DEF CertInv, EligibleIsLeaf
    <3>3. preempt'[t] = preempt[t] /\ program'[t] = program[t]
      BY <1>2, <1>3, <2>2, <3>1
    <3> QED
      BY <3>2, <3>3
  <2> QED
    BY <2>1, <2>2
<1> QED
  BY <1>1, <1>5 DEF CertInv

LEMMA CertificateReleased ==
    ASSUME TableInv, CertInv, ShellSide', ~LateFailure, NEW s \in Slots, ReleaseSlot(s)
    PROVE  CertInv'
<1>1. /\ \A t \in Slots : t # s => /\ state'[t] = state[t] /\ program'[t] = program[t]
                                  /\ preempt'[t] = preempt[t]
      /\ state'[s] = Free
  BY MemoryFacts, ReleasedSlot DEF ReleaseSlot, TypeOK, TableType
<1> QED
  BY <1>1, CertificatesKept

LEMMA CertificateSpawn ==
    ASSUME TableInv, CertInv, ShellSide', ~LateFailure,
           NEW p \in Programs, NEW fault, TaskSpawn(p, fault)
    PROVE  CertInv'
<1>1. CASE UNCHANGED <<state, program, preempt>>
  BY <1>1, CertificatesKept
<1>2. ASSUME NEW s \in Children, FirstFree(s), SpawnInto(s, p, fault) PROVE CertInv'
  <2>1. state[s] = Free /\ s \in Slots /\ TypeOK
    BY <1>2, MemoryFacts DEF FirstFree, FreeSlots
  <2>2. CASE SpawnSucceeds(p, fault)
    BY <1>2, <2>1, <2>2, CertificateSpawned
  <2>3. CASE ~SpawnSucceeds(p, fault)
    <3>1. UNCHANGED <<state, program>> /\ \A t \in Slots : t # s => preempt'[t] = preempt[t]
      BY <1>2, <2>1, <2>3 DEF SpawnInto, TypeOK, TableType
    <3> QED
      BY <2>1, <3>1, CertificatesKept
  <2> QED
    BY <2>2, <2>3
<1> QED
  BY <1>1, <1>2 DEF TaskSpawn

LEMMA CertificateKill ==
    ASSUME TableInv, CertInv, ShellSide', ~LateFailure, NEW e \in Slots, KillEndpoint(e)
    PROVE  CertInv'
<1>a. TypeOK /\ Shell \in Slots /\ state[Shell] # Free
  BY MemoryFacts
<1>1. CASE KillShell
  BY <1>1, <1>a, CertificatesKept DEF KillShell, RequestShellRestart, ShellWoken, TypeOK, TableType
<1>2. CASE KillQueued(e)
  <2>1. \A t \in Slots : preempt'[t].eligible = preempt[t].eligible
    BY <1>2, <1>a, CertificateKept DEF KillQueued, TypeOK, TableType
  <2> QED
    BY <1>2, <2>1, CertificatesKept DEF KillQueued
<1>3. CASE KillReleased(e)
  BY <1>3, CertificateReleased DEF KillReleased
<1> QED
  BY <1>1, <1>2, <1>3 DEF KillEndpoint

LEMMA CertificateStep ==
    TableInv /\ CertInv /\ ~LateFailure /\ [Next]_vars => CertInv'
<1> SUFFICES ASSUME TableInv, CertInv, ~LateFailure, [Next]_vars PROVE CertInv'
    OBVIOUS
<1>a. /\ TypeOK /\ ShellSide /\ FocusAlive
      /\ current \in Slots /\ foreground \in Slots /\ Shell \in Slots /\ NextSlot \in Slots
      /\ state \in [Slots -> {Free, Runnable, BlockedTty}]
      /\ program \in [Slots -> Programs \union {ShellProgram, NoProgram}]
      /\ preempt \in [Slots -> Sidecar]
  BY MemoryFacts, NextSlotType DEF TypeOK, TableType, ControlType
<1>b. ShellSide'
  BY SafetyStep DEF TableInv, SafetyInv
<1>c. ASSUME UNCHANGED preempt, \A s \in Slots : s = Shell \/ program'[s] = program[s],
             \A s \in Slots : state'[s] # Free => state[s] # Free
      PROVE  CertInv'
  BY <1>c, <1>b, CertificatesKept
<1>d. ASSUME UNCHANGED <<state, program>>,
             \A s \in Slots : preempt'[s].eligible = preempt[s].eligible
      PROVE  CertInv'
  BY <1>d, <1>b, CertificatesKept
<1>1. CASE ExitProcess
  BY <1>1, <1>a, <1>b, CertificateReleased DEF ExitProcess
<1>2. CASE GetcharCheck \/ TaskYield \/ ClaimForeground
  BY <1>2, <1>c DEF GetcharCheck, TaskYield, ClaimForeground
<1>3. CASE GetcharBlock
  BY <1>3, <1>a, <1>c, StatesDiffer DEF GetcharBlock, FocusAlive
<1>4. ASSUME NEW done, NEW loop, WaitFor(done, loop) PROVE CertInv'
  BY <1>4, <1>c DEF WaitFor
<1>5. CASE SyncReturn \/ \E p \in Programs : RunSync(p)
  BY <1>5, <1>a, <1>c DEF SyncReturn, RunSync
<1>6. CASE BeginReboot \/ BannerPrinted
  BY <1>6, <1>c DEF BeginReboot, BannerPrinted
<1>7. CASE RestartShell
  BY <1>7, <1>a, <1>c, StatesDiffer DEF RestartShell, ProgramRestored, FocusAlive
<1>8. CASE TaskReboot \/ ServeRequest \/ RewindShell
  BY <1>8, <1>6, <1>7 DEF TaskReboot, ServeRequest, RewindShell
<1>9. CASE ClearChildren
  <2>1. \A s \in Slots : IF s = Shell THEN state'[s] = state[s] /\ preempt'[s] = preempt[s]
                        ELSE state'[s] = Free
    BY <1>9, <1>a DEF ClearChildren, Cleared
  <2> QED
    BY <1>b, <2>1, CertificatesKept
<1>10. ASSUME NEW s \in Slots, Enqueue(s), UNCHANGED <<program, preempt>> PROVE CertInv'
  BY <1>10, <1>a, <1>c, StatesDiffer DEF Enqueue, StateAfterInput
<1>11. CASE PlainInput \/ (\E s \in Slots : TtyInput(s)) \/ Hello
  BY <1>11, <1>10, <1>a DEF PlainInput, TtyInput, Hello
<1>12. CASE ScanBlocked
  BY <1>12, <1>c DEF ScanBlocked
<1>13. CASE Dispatch \/ ForceSwitch
  <2>1. ASSUME NEW s \in Slots, NEW b \in BOOLEAN, preempt' = [preempt EXCEPT ![s].saved = b]
        PROVE  \A t \in Slots : preempt'[t].eligible = preempt[t].eligible
    BY <2>1, <1>a, CertificateKept
  <2>2. \A t \in Slots : preempt'[t].eligible = preempt[t].eligible
    BY <1>13, <1>a, <2>1 DEF Dispatch, Resumed, ForceSwitch
  <2> QED
    BY <1>13, <2>2, <1>d DEF Dispatch, ForceSwitch
<1>14. CASE RequestRestart \/ RequestReboot
  BY <1>14, <1>a, <1>c, StatesDiffer DEF RequestRestart, RequestShellRestart, ShellWoken, RequestReboot,
                                         FocusAlive
<1>15. CASE UNCHANGED vars
  BY <1>15, <1>c DEF vars
<1> QED
  <2>1. CASE ProcessStep
    BY <2>1, <1>b, CertificateSpawn, CertificateKill, <1>1, <1>2, <1>3, <1>4, <1>5, <1>6,
       <1>8, <1>9
    DEF ProcessStep, TaskExit, TaskKill, JoinEndpoint, JoinEndpointWait, JoinAll
  <2>2. CASE SchedulerStep
    BY <2>2, <1>b, CertificateKill, <1>11, <1>12, <1>13 DEF SchedulerStep, DebugKill
  <2>3. CASE InterruptStep
    BY <2>3, <1>1, <1>13, <1>14 DEF InterruptStep, ForceExit
  <2> QED
    BY <2>1, <2>2, <2>3, <1>15 DEF Next

-----------------------------------------------------------------------------
(* The invariant of Kernel with its history. *)
HistoryInv ==
    /\ KernelInv
    /\ "beside" \notin spoiled => Sound
    /\ "late" \notin spoiled => CertInv

LEMMA HistoryStart == HistoryInit => HistoryInv
<1> SUFFICES ASSUME HistoryInit PROVE HistoryInv
    OBVIOUS
<1>1. Init
  BY DEF HistoryInit
<1>2. KernelInv /\ Laid
  BY <1>1, KernelInvInit
<1>3. CertInv
  <2>1. \A s \in Slots : ~preempt[s].eligible
    BY <1>1 DEF Init, ClearSidecar
  <2>2. \A s \in Live : s = Shell
    BY <1>1, StatesDiffer DEF Init, Live
  <2>3. program[Shell] \notin Leaf
    BY <1>1, ShellSlot, ProgramsAssumption DEF Init
  <2> QED
    BY <2>1, <2>2, <2>3, ShellSlot DEF CertInv, Uncertified, EligibleIsLeaf
<1> QED
  BY <1>2, <1>3 DEF HistoryInv, Sound

LEMMA HistoryStep == HistoryInv /\ [HistoryNext]_<<vars, spoiled>> => HistoryInv'
<1> SUFFICES ASSUME HistoryInv, [HistoryNext]_<<vars, spoiled>> PROVE HistoryInv'
    OBVIOUS
<1>1. [Next]_vars
  BY DEF HistoryNext
<1>2. "beside" \notin spoiled' => "beside" \notin spoiled /\ (~SiblingFailure \/ UNCHANGED arena)
  BY DEF HistoryNext, vars
<1>3. "late" \notin spoiled' => "late" \notin spoiled /\ (~LateFailure \/ UNCHANGED vars)
  BY DEF HistoryNext
<1>4. KernelInv'
  BY <1>1, KernelInvStep DEF HistoryInv
<1>5. "beside" \notin spoiled' => Sound'
  <2> SUFFICES ASSUME "beside" \notin spoiled' PROVE Sound'
      OBVIOUS
  <2>1. Sound /\ ~SiblingFailure
    BY <1>2 DEF HistoryInv, SiblingFailure
  <2> QED
    BY <1>1, <1>4, <2>1, OutcomeStep DEF HistoryInv, KernelInv, Outcome
<1>6. "late" \notin spoiled' => CertInv'
  <2> SUFFICES ASSUME "late" \notin spoiled' PROVE CertInv'
      OBVIOUS
  <2>1. CertInv
    BY <1>3 DEF HistoryInv
  <2>2. TableInv
    BY DEF HistoryInv, KernelInv
  <2>3. ~LateFailure
    <3> SUFFICES ASSUME UNCHANGED vars PROVE ~LateFailure
        BY <1>3
    <3> QED
      BY <2>1 DEF vars, LateFailure, CertInv, Uncertified
  <2> QED
    BY <1>1, <2>1, <2>2, <2>3, CertificateStep
<1> QED
  BY <1>4, <1>5, <1>6 DEF HistoryInv

(* Whatever is spawned, killed, forced or reset, the invariant of the kernel
   holds, and with it the layout of memory and the certificates of the leaves
   until the failure that spoils each. *)
THEOREM HistoryCorrect == SpecWithHistory => []HistoryInv
  BY HistoryStart, HistoryStep, PTL DEF SpecWithHistory

(* Until a spawn fails beside a living child, no two live processes share a
   word of stack or heap, and none reaches into what _stack_next and
   _heap_next would hand out next, whatever is spawned, killed or reset. *)
THEOREM ArenaCorrect == SpecWithHistory => []ArenaSoundUnspoiled
<1>1. HistoryInv => ArenaSoundUnspoiled
  <2> SUFFICES ASSUME HistoryInv, "beside" \notin spoiled, HeapAboveImage PROVE Laid
      BY DEF ArenaSoundUnspoiled, ArenaSound, Laid, Below, Apart
  <2>1. arena # NoArena
    BY MemoryAssumption DEF HeapAboveImage, NoArena
  <2> QED
    BY <2>1 DEF HistoryInv, Sound
<1> QED
  BY <1>1, HistoryCorrect, PTL

(* Until an image is loaded in vain, a process is certified for the runway
   exactly if it runs a leaf: KILL of a leaf is queued and of another process
   is done at once, whoever had the slot before. *)
THEOREM EligibleCorrect == SpecWithHistory => []EligibleUnspoiled
<1>1. HistoryInv => EligibleUnspoiled
  BY DEF HistoryInv, CertInv, EligibleUnspoiled
<1> QED
  BY <1>1, HistoryCorrect, PTL
=============================================================================
