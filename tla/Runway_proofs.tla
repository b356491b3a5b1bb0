--------------------------- MODULE Runway_proofs ---------------------------
(***************************************************************************)
(* A forced switch is transparent, for any number of leaves, any code, any *)
(* addresses and any quantum.                                              *)
(***************************************************************************)
EXTENDS Runway, SequenceTheorems, TLAPS

Places == {"other", "scan", "selected", "restore", "resume", "launch", "exit",
           "leaf", "runway", "lost"}
Cells == Instructions \cup {0, 1}
Regs == [r0 : Int, r1 : Int, rest : Int]

(* A leaf in its own code: only its data has changed since it was loaded. *)
Images ==
    {image \in [1..Size -> Cells] :
        /\ \A i \in 1..Len(Code) : image[i] = Code[i]
        /\ image[Size] \in {0, 1}}
LeafStates(l) == [pc : Base[l]..(Base[l] + Len(Code) - 1), regs : Regs, image : Images]

Cpu == [at : Places, pc : Int, regs : Regs, beat : BOOLEAN]
Sidecar == [quantum : Int, saved : BOOLEAN, kill : BOOLEAN]
RunwayTypeOK ==
    /\ cpu \in Cpu
    /\ alive \subseteq Leaves /\ current \in alive \cup {Other}
    /\ cpu.at \in {"leaf", "runway", "exit", "launch", "restore", "resume"} => current \in alive
    /\ memory \in [Leaves -> [image : [1..Size -> Cells], shadow : [1..Size -> Cells]]]
    /\ sidecar \in [Leaves -> Sidecar]
    /\ parked \in [Leaves -> [frame : Regs, pc : Int]]
    /\ stub \in Int

(* Where the context of a living leaf is, and that it is one: in the CPU, on
   the runway, in its frame, or not begun. *)
OnCpu(l) == current = l /\ cpu.at \in {"leaf", "runway", "resume"}
ContextOK(l) ==
    /\ View(l) \in LeafStates(l)
    /\ sidecar[l].saved => ~OnCpu(l) /\ ~(current = l /\ cpu.at = "launch")
    /\ current = l /\ cpu.at \in {"restore", "exit"} => sidecar[l].saved
    /\ ~sidecar[l].saved /\ ~OnCpu(l) => memory[l].image = Loaded

(* On the runway r0 and the place on it add up to the interrupted PC. *)
CarpetOK(l) ==
    current = l /\ cpu.at = "runway" =>
        /\ memory[l].image = Carpet
        /\ cpu.pc \in Base[l]..Landing(l)
        /\ cpu.regs.r1 = Words - 1 /\ cpu.regs.r0 <= Landing(l)

KillOK(l) ==
    /\ sidecar[l].kill => l \in asked
    /\ current = l /\ cpu.at = "exit" => l \in asked

RunwayInv == RunwayTypeOK /\ \A l \in alive : ContextOK(l) /\ CarpetOK(l) /\ KillOK(l)

-----------------------------------------------------------------------------
(* Adding the word -1 takes one away. *)
LEMMA MinusOne ==
    ASSUME NEW w \in Nat, NEW r \in 1..(w - 1)
    PROVE  (r + (w - 1)) % w = r - 1
<1> DEFINE q == (r + (w - 1)) \div w
           m == (r + (w - 1)) % w
<1>1. q \in Int /\ m \in 0..(w - 1) /\ r + (w - 1) = w * q + m
  OBVIOUS
<1>2. q < 2
  BY <1>1
<1>3. q > 0
  BY <1>1
<1>4. q = 1
  BY <1>1, <1>2, <1>3
<1> QED
  BY <1>1, <1>4

(* What a leaf is loaded as, and what the handler lays over it. *)
LEMMA LoadedOK == Loaded \in Images /\ Carpet \in [1..Size -> Cells] /\ Size \in Nat \ {0}
<1>1. Len(Code) \in Nat /\ Code \in [1..Len(Code) -> Instructions]
  BY RunwayAssumption
<1>2. Size \in Nat \ {0} /\ Carpet \in [1..Size -> Cells]
  BY <1>1 DEF Size, Carpet, Cells, Instructions
<1>3. 0 \in Cells /\ Code \in Seq(Cells)
  BY <1>1, RunwayAssumption DEF Cells
<1>4. /\ Loaded \in Seq(Cells) /\ Len(Loaded) = Size /\ Loaded[Size] = 0
      /\ \A i \in 1..Len(Code) : Loaded[i] = Code[i]
  BY <1>3, AppendProperties DEF Loaded, Size
<1>5. Loaded \in [1..Size -> Cells]
  BY <1>4
<1> QED
  BY <1>2, <1>4, <1>5 DEF Images

LEMMA FreshOK == ASSUME NEW l \in Leaves PROVE Fresh(l) \in LeafStates(l)
<1>1. Len(Code) \in Nat \ {0} /\ Base[l] \in Nat
  BY RunwayAssumption
<1> QED
  BY <1>1, LoadedOK DEF Fresh, LeafStates, Registers, Regs

(* A leaf in its own code stays there. *)
LEMMA SteppedOK ==
    ASSUME NEW l \in Leaves, NEW s \in LeafStates(l)
    PROVE  Stepped(l, s) \in LeafStates(l)
<1> DEFINE i == s.pc - Base[l] + 1
<1>1. /\ Len(Code) \in Nat \ {0} /\ Size = Len(Code) + 1 /\ Base[l] \in Nat /\ Words \in Nat \ {0}
      /\ \A j \in 1..Len(Code) : Code[j] \in Instructions
      /\ Code[Len(Code)] = "back"
  BY RunwayAssumption DEF Size, Landing
<1>2. /\ s.pc \in Base[l]..(Base[l] + Len(Code) - 1)
      /\ s.regs \in Regs /\ s.image \in Images
      /\ s = [pc |-> s.pc, regs |-> s.regs, image |-> s.image]
  BY DEF LeafStates
<1>3. i \in 1..Len(Code) /\ s.image[i] = Code[i] /\ s.image[Size] \in {0, 1}
  <2>1. i \in 1..Len(Code)
    BY <1>1, <1>2
  <2> QED
    BY <2>1, <1>2 DEF Images
<1>4. s.image[i] # "back" => s.pc + 1 \in Base[l]..(Base[l] + Len(Code) - 1)
  BY <1>1, <1>2, <1>3
<1>5. (s.regs.r0 + s.regs.r1) % Words \in Int
  BY <1>1, <1>2 DEF Regs
<1>6. [s.image EXCEPT ![Size] = 1 - @] \in Images
  <2>1. [s.image EXCEPT ![Size] = 1 - @] \in [1..Size -> Cells]
    BY <1>1, <1>2, <1>3 DEF Images, Cells
  <2> QED
    BY <2>1, <1>1, <1>2, <1>3 DEF Images
<1>7. CASE s.image[i] = "load"
  <2>1. Stepped(l, s) = [s EXCEPT !.pc = s.pc + 1, !.regs.r0 = s.image[Size], !.regs.r1 = 1]
    BY <1>7 DEF Stepped
  <2>2. Stepped(l, s) = [pc |-> s.pc + 1, image |-> s.image,
                         regs |-> [r0 |-> s.image[Size], r1 |-> 1, rest |-> s.regs.rest]]
    BY <1>2, <2>1 DEF Regs
  <2> QED
    BY <1>2, <1>3, <1>4, <1>7, <2>2 DEF LeafStates, Regs
<1>8. CASE s.image[i] = "add"
  <2>1. Stepped(l, s) = [s EXCEPT !.pc = s.pc + 1, !.regs.r0 = (s.regs.r0 + s.regs.r1) % Words]
    BY <1>8 DEF Stepped
  <2>2. Stepped(l, s) = [pc |-> s.pc + 1, image |-> s.image,
                         regs |-> [r0 |-> (s.regs.r0 + s.regs.r1) % Words,
                                   r1 |-> s.regs.r1, rest |-> s.regs.rest]]
    BY <1>2, <2>1 DEF Regs
  <2> QED
    BY <1>2, <1>4, <1>5, <1>8, <2>2 DEF LeafStates, Regs
<1>9. CASE s.image[i] = "flip"
  <2>1. Stepped(l, s) = [s EXCEPT !.pc = s.pc + 1, !.regs.rest = s.regs.r0,
                                  !.image[Size] = 1 - s.image[Size]]
    BY <1>9 DEF Stepped
  <2>2. Stepped(l, s) = [pc |-> s.pc + 1, image |-> [s.image EXCEPT ![Size] = 1 - @],
                         regs |-> [r0 |-> s.regs.r0, r1 |-> s.regs.r1, rest |-> s.regs.r0]]
    BY <1>2, <2>1 DEF Regs
  <2> QED
    BY <1>2, <1>4, <1>6, <1>9, <2>2 DEF LeafStates, Regs
<1>10. CASE s.image[i] = "back"
  <2>1. Stepped(l, s) = [pc |-> Base[l], image |-> s.image, regs |-> s.regs]
    BY <1>2, <1>10 DEF Stepped
  <2> QED
    BY <1>1, <1>2, <2>1 DEF LeafStates
<1> QED
  BY <1>1, <1>3, <1>7, <1>8, <1>9, <1>10 DEF Instructions

-----------------------------------------------------------------------------
(* Each action keeps every leaf's context. *)
Kept == RunwayInv' /\ \A l \in Leaves : OwnStep(l)

(* Setting words of one sidecar: the others stay as they are. *)
LEMMA SidecarSet ==
    ASSUME NEW s \in [Leaves -> Sidecar], NEW c \in Leaves, NEW x \in Sidecar
    PROVE  /\ [s EXCEPT ![c] = x] \in [Leaves -> Sidecar]
           /\ [s EXCEPT ![c] = x][c] = x
           /\ \A l \in Leaves : l # c => [s EXCEPT ![c] = x][l] = s[l]
OBVIOUS

LEMMA TickOK == ASSUME RunwayInv, Tick PROVE Kept
<1> DEFINE x == [sidecar[current] EXCEPT !.quantum = @ - 1]
<1>1. /\ cpu' = [cpu EXCEPT !.beat = cpu.at # "leaf"]
      /\ cpu'.at = cpu.at /\ cpu'.pc = cpu.pc /\ cpu'.regs = cpu.regs
      /\ cpu' \in Cpu
  BY DEF Tick, RunwayInv, RunwayTypeOK, Cpu
<1>2. /\ sidecar \in [Leaves -> Sidecar] /\ current \in Leaves
      /\ x \in Sidecar /\ x.saved = sidecar[current].saved /\ x.kill = sidecar[current].kill
      /\ sidecar' = [sidecar EXCEPT ![current] = x]
  <2>1. sidecar \in [Leaves -> Sidecar] /\ current \in Leaves
    BY DEF Tick, Heartbeat, RunwayInv, RunwayTypeOK
  <2>2. x \in Sidecar /\ x.saved = sidecar[current].saved /\ x.kill = sidecar[current].kill
    BY <2>1 DEF Sidecar
  <2>3. sidecar' = [sidecar EXCEPT ![current] = x]
    BY <2>1 DEF Tick
  <2> QED
    BY <2>1, <2>2, <2>3
<1>3. /\ sidecar' \in [Leaves -> Sidecar]
      /\ \A l \in Leaves : sidecar'[l].saved = sidecar[l].saved /\ sidecar'[l].kill = sidecar[l].kill
  <2> HIDE DEF x
  <2> QED BY <1>2, SidecarSet
<1>4. UNCHANGED <<uart, current, memory, parked, stub, alive, asked, astray>>
  BY DEF Tick
<1>5. RunwayTypeOK'
  BY <1>1, <1>3, <1>4 DEF RunwayInv, RunwayTypeOK
<1>6. ASSUME NEW l \in alive PROVE View(l)' = View(l)
  BY <1>1, <1>3, <1>4 DEF View, Parked, Fresh, OnRunway, Executing, RunwayInv, RunwayTypeOK
<1>7. ASSUME NEW l \in alive PROVE ContextOK(l)' /\ CarpetOK(l)' /\ KillOK(l)'
  <2>1. l \in Leaves /\ ContextOK(l) /\ CarpetOK(l) /\ KillOK(l)
    BY DEF RunwayInv, RunwayTypeOK
  <2>2. ContextOK(l)'
    BY <1>1, <1>3, <1>4, <1>6, <2>1 DEF ContextOK, OnCpu
  <2>3. CarpetOK(l)'
    BY <1>1, <1>4, <2>1 DEF CarpetOK
  <2>4. KillOK(l)'
    BY <1>1, <1>3, <1>4, <2>1 DEF KillOK
  <2> QED
    BY <2>2, <2>3, <2>4
<1> QED
  BY <1>4, <1>5, <1>6, <1>7 DEF Kept, RunwayInv, OwnStep, RunwayTypeOK

LEMMA OtherYieldsOK == ASSUME RunwayInv, OtherYields PROVE Kept
<1>1. cpu.at = "other" /\ cpu'.at = "scan" /\ cpu' \in Cpu
  BY DEF OtherYields, KernelGoesTo, RunwayInv, RunwayTypeOK, Cpu, Places
<1>2. UNCHANGED <<uart, current, memory, sidecar, parked, stub, alive, asked, astray>>
  BY DEF OtherYields, Idle
<1>3. RunwayTypeOK'
  BY <1>1, <1>2 DEF RunwayInv, RunwayTypeOK
<1>4. ASSUME NEW l \in alive PROVE View(l)' = View(l)
  BY <1>1, <1>2 DEF View, Parked, Fresh, OnRunway, Executing, RunwayInv, RunwayTypeOK, ContextOK, OnCpu
<1>5. ASSUME NEW l \in alive PROVE ContextOK(l)' /\ CarpetOK(l)' /\ KillOK(l)'
  <2>1. l \in Leaves /\ ContextOK(l) /\ CarpetOK(l) /\ KillOK(l)
    BY DEF RunwayInv, RunwayTypeOK
  <2>2. ContextOK(l)'
    BY <1>1, <1>2, <1>4, <2>1 DEF ContextOK, OnCpu
  <2>3. CarpetOK(l)'
    BY <1>1, <1>2, <1>4, <2>1 DEF CarpetOK
  <2>4. KillOK(l)'
    BY <1>1, <1>2, <1>4, <2>1 DEF KillOK
  <2> QED
    BY <2>2, <2>3, <2>4
<1> QED
  BY <1>2, <1>3, <1>4, <1>5 DEF Kept, RunwayInv, OwnStep, RunwayTypeOK

LEMMA SelectOK == ASSUME RunwayInv, Select PROVE Kept
<1>1. /\ cpu.at = "scan" /\ cpu'.at = "selected" /\ cpu' \in Cpu
      /\ current' \in alive \cup {Other}
  BY DEF Select, KernelGoesTo, RunwayInv, RunwayTypeOK, Cpu, Places
<1>2. UNCHANGED <<uart, memory, sidecar, parked, stub, alive, asked, astray>>
  BY DEF Select, Idle
<1>3. RunwayTypeOK'
  BY <1>1, <1>2 DEF RunwayInv, RunwayTypeOK
<1>4. ASSUME NEW l \in alive PROVE View(l)' = View(l)
  BY <1>1, <1>2 DEF View, Parked, Fresh, OnRunway, Executing, RunwayInv, RunwayTypeOK, ContextOK, OnCpu
<1>5. ASSUME NEW l \in alive PROVE ContextOK(l)' /\ CarpetOK(l)' /\ KillOK(l)'
  <2>1. l \in Leaves /\ ContextOK(l) /\ CarpetOK(l) /\ KillOK(l)
    BY DEF RunwayInv, RunwayTypeOK
  <2>2. ContextOK(l)'
    BY <1>1, <1>2, <1>4, <2>1 DEF ContextOK, OnCpu
  <2>3. CarpetOK(l)'
    BY <1>1, <1>2, <1>4, <2>1 DEF CarpetOK
  <2>4. KillOK(l)'
    BY <1>1, <1>2, <1>4, <2>1 DEF KillOK
  <2> QED
    BY <2>2, <2>3, <2>4
<1> QED
  BY <1>2, <1>3, <1>4, <1>5 DEF Kept, RunwayInv, OwnStep, RunwayTypeOK

LEMMA LaunchOK == ASSUME RunwayInv, Launch PROVE Kept
<1>1. /\ cpu.at = "launch" /\ cpu'.at = "leaf" /\ cpu'.pc = Base[current]
      /\ cpu'.regs = Registers /\ cpu' \in Cpu
  BY RunwayAssumption DEF Launch, Registers, Regs, RunwayInv, RunwayTypeOK, Cpu, Places
<1>2. UNCHANGED <<uart, current, memory, sidecar, parked, stub, alive, asked, astray>>
  BY DEF Launch, Idle
<1>3. RunwayTypeOK'
  BY <1>1, <1>2 DEF RunwayInv, RunwayTypeOK
<1>4. ASSUME NEW l \in alive PROVE View(l)' = View(l)
  BY <1>1, <1>2 DEF View, Parked, Fresh, OnRunway, Executing, RunwayInv, RunwayTypeOK, ContextOK, OnCpu
<1>5. ASSUME NEW l \in alive PROVE ContextOK(l)' /\ CarpetOK(l)' /\ KillOK(l)'
  <2>1. l \in Leaves /\ ContextOK(l) /\ CarpetOK(l) /\ KillOK(l)
    BY DEF RunwayInv, RunwayTypeOK
  <2>2. ContextOK(l)'
    BY <1>1, <1>2, <1>4, <2>1 DEF ContextOK, OnCpu
  <2>3. CarpetOK(l)'
    BY <1>1, <1>2, <1>4, <2>1 DEF CarpetOK
  <2>4. KillOK(l)'
    BY <1>1, <1>2, <1>4, <2>1 DEF KillOK
  <2> QED
    BY <2>2, <2>3, <2>4
<1> QED
  BY <1>2, <1>3, <1>4, <1>5 DEF Kept, RunwayInv, OwnStep, RunwayTypeOK

LEMMA ResumeOK == ASSUME RunwayInv, Resume PROVE Kept
<1>1. /\ cpu.at = "resume" /\ cpu'.at = "leaf" /\ cpu'.pc = stub
      /\ cpu'.regs = parked[current].frame /\ cpu' \in Cpu
  BY DEF Resume, RunwayInv, RunwayTypeOK, Cpu, Places
<1>2. UNCHANGED <<uart, current, memory, sidecar, parked, stub, alive, asked, astray>>
  BY DEF Resume, Idle
<1>3. RunwayTypeOK'
  BY <1>1, <1>2 DEF RunwayInv, RunwayTypeOK
<1>4. ASSUME NEW l \in alive PROVE View(l)' = View(l)
  BY <1>1, <1>2 DEF View, Parked, Fresh, OnRunway, Executing, RunwayInv, RunwayTypeOK, ContextOK, OnCpu
<1>5. ASSUME NEW l \in alive PROVE ContextOK(l)' /\ CarpetOK(l)' /\ KillOK(l)'
  <2>1. l \in Leaves /\ ContextOK(l) /\ CarpetOK(l) /\ KillOK(l)
    BY DEF RunwayInv, RunwayTypeOK
  <2>2. ContextOK(l)'
    BY <1>1, <1>2, <1>4, <2>1 DEF ContextOK, OnCpu
  <2>3. CarpetOK(l)'
    BY <1>1, <1>2, <1>4, <2>1 DEF CarpetOK
  <2>4. KillOK(l)'
    BY <1>1, <1>2, <1>4, <2>1 DEF KillOK
  <2> QED
    BY <2>2, <2>3, <2>4
<1> QED
  BY <1>2, <1>3, <1>4, <1>5 DEF Kept, RunwayInv, OwnStep, RunwayTypeOK

LEMMA PrepareOK == ASSUME RunwayInv, Prepare PROVE Kept
<1>1. /\ cpu.at = "selected" /\ cpu' \in Cpu
      /\ cpu'.at \in {"other", "launch", "restore"}
      /\ current = Other => cpu'.at = "other"
      /\ cpu'.at = "restore" => sidecar[current].saved
      /\ cpu'.at = "launch" => ~sidecar[current].saved
      /\ cpu'.at # "other" => current \in alive
  BY DEF Prepare, KernelGoesTo, RunwayInv, RunwayTypeOK, Cpu, Places
<1>2. UNCHANGED <<uart, current, memory, parked, stub, alive, asked, astray>>
  BY DEF Prepare, Idle
<1>3. /\ sidecar' \in [Leaves -> Sidecar]
      /\ \A l \in Leaves : sidecar'[l].saved = sidecar[l].saved /\ sidecar'[l].kill = sidecar[l].kill
  <2>1. CASE current = Other
    <3>1. sidecar' = sidecar
      BY <2>1 DEF Prepare
    <3> QED
      BY <3>1 DEF RunwayInv, RunwayTypeOK
  <2>2. CASE current # Other
    <3> DEFINE x == [sidecar[current] EXCEPT !.quantum = Quantum]
    <3>1. sidecar \in [Leaves -> Sidecar] /\ current \in Leaves
      BY <2>2 DEF RunwayInv, RunwayTypeOK
    <3>2. Quantum \in Int
      BY RunwayAssumption
    <3>3. x \in Sidecar /\ x.saved = sidecar[current].saved /\ x.kill = sidecar[current].kill
      BY <3>1, <3>2 DEF Sidecar
    <3>4. sidecar' = [sidecar EXCEPT ![current] = x]
      BY <2>2, <3>1 DEF Prepare
    <3> HIDE DEF x
    <3> QED
      BY <3>1, <3>3, <3>4, SidecarSet
  <2> QED
    BY <2>1, <2>2
<1>4. RunwayTypeOK'
  BY <1>1, <1>2, <1>3 DEF RunwayInv, RunwayTypeOK
<1>5. ASSUME NEW l \in alive PROVE View(l)' = View(l)
  BY <1>1, <1>2, <1>3 DEF View, Parked, Fresh, OnRunway, Executing, RunwayInv, RunwayTypeOK
<1>6. ASSUME NEW l \in alive PROVE ContextOK(l)' /\ CarpetOK(l)' /\ KillOK(l)'
  <2>1. l \in Leaves /\ ContextOK(l) /\ CarpetOK(l) /\ KillOK(l)
    BY DEF RunwayInv, RunwayTypeOK
  <2>2. ContextOK(l)'
    BY <1>1, <1>2, <1>3, <1>5, <2>1 DEF ContextOK, OnCpu
  <2>3. CarpetOK(l)'
    BY <1>1 DEF CarpetOK
  <2>4. KillOK(l)'
    BY <1>1, <1>2, <1>3, <2>1 DEF KillOK
  <2> QED
    BY <2>2, <2>3, <2>4
<1> QED
  BY <1>2, <1>4, <1>5, <1>6 DEF Kept, RunwayInv, OwnStep, RunwayTypeOK

LEMMA RestoreInterruptOK == ASSUME RunwayInv, RestoreInterrupt PROVE Kept
<1> DEFINE x == [sidecar[current] EXCEPT !.saved = FALSE]
<1>1. /\ cpu.at = "restore" /\ cpu'.at = "resume" /\ cpu' \in Cpu
      /\ current \in alive /\ current \in Leaves /\ stub' = parked[current].pc
      /\ sidecar[current].saved
  BY DEF RestoreInterrupt, Patched, KernelGoesTo, RunwayInv, RunwayTypeOK, ContextOK, Cpu, Places
<1>2. UNCHANGED <<current, memory, parked, alive, asked, astray>>
  BY DEF RestoreInterrupt
<1>3. /\ sidecar' \in [Leaves -> Sidecar] /\ ~sidecar'[current].saved
      /\ sidecar'[current].kill = sidecar[current].kill
      /\ \A l \in Leaves : l # current => sidecar'[l] = sidecar[l]
  <2>1. sidecar \in [Leaves -> Sidecar]
    BY DEF RunwayInv, RunwayTypeOK
  <2>2. x \in Sidecar /\ ~x.saved /\ x.kill = sidecar[current].kill
    BY <1>1, <2>1 DEF Sidecar
  <2>3. sidecar' = [sidecar EXCEPT ![current] = x]
    BY <1>1, <2>1 DEF RestoreInterrupt
  <2> HIDE DEF x
  <2> QED
    BY <1>1, <2>1, <2>2, <2>3, SidecarSet
<1>4. RunwayTypeOK'
  BY <1>1, <1>2, <1>3 DEF RunwayInv, RunwayTypeOK
<1>5. ASSUME NEW l \in alive PROVE View(l)' = View(l)
  <2>1. CASE l = current
    <3>1. View(l) = Parked(l) /\ View(l)' = [Parked(l)' EXCEPT !.pc = stub']
      BY <1>1, <1>2, <2>1 DEF View
    <3> QED
      BY <1>1, <1>2, <2>1, <3>1 DEF Parked
  <2>2. CASE l # current
    BY <1>1, <1>2, <1>3, <2>2 DEF View, Parked, Fresh, RunwayInv, RunwayTypeOK
  <2> QED
    BY <2>1, <2>2
<1>6. ASSUME NEW l \in alive PROVE ContextOK(l)' /\ CarpetOK(l)' /\ KillOK(l)'
  <2>1. l \in Leaves /\ ContextOK(l) /\ CarpetOK(l) /\ KillOK(l)
    BY DEF RunwayInv, RunwayTypeOK
  <2>2. ContextOK(l)'
    BY <1>1, <1>2, <1>3, <1>5, <2>1 DEF ContextOK, OnCpu
  <2>3. CarpetOK(l)'
    BY <1>1 DEF CarpetOK
  <2>4. KillOK(l)'
    BY <1>1, <1>2, <1>3, <2>1 DEF KillOK
  <2> QED
    BY <2>2, <2>3, <2>4
<1> QED
  BY <1>2, <1>4, <1>5, <1>6 DEF Kept, RunwayInv, OwnStep, RunwayTypeOK

LEMMA ExitOK == ASSUME RunwayInv, Exit PROVE Kept
<1>1. /\ cpu.at = "exit" /\ cpu'.at = "other" /\ cpu' \in Cpu
      /\ current \in alive /\ current \in Leaves /\ current \in asked
      /\ current' = Other /\ alive' = alive \ {current}
  BY DEF Exit, KernelGoesTo, RunwayInv, RunwayTypeOK, KillOK, Cpu, Places
<1>2. UNCHANGED <<uart, memory, parked, stub, asked, astray>>
  BY DEF Exit, Idle
<1>3. /\ sidecar' \in [Leaves -> Sidecar]
      /\ \A l \in Leaves : l # current => sidecar'[l] = sidecar[l]
  <2>1. sidecar \in [Leaves -> Sidecar] /\ Cleared \in Sidecar
    BY DEF RunwayInv, RunwayTypeOK, Cleared, Sidecar
  <2>2. sidecar' = [sidecar EXCEPT ![current] = Cleared]
    BY DEF Exit
  <2> QED
    BY <1>1, <2>1, <2>2, SidecarSet
<1>4. RunwayTypeOK'
  BY <1>1, <1>2, <1>3 DEF RunwayInv, RunwayTypeOK
<1>5. ASSUME NEW l \in alive' PROVE l \in alive /\ l \in Leaves /\ l # current /\ l # Other
  BY <1>1, RunwayAssumption DEF RunwayInv, RunwayTypeOK
<1>6. ASSUME NEW l \in alive' PROVE View(l)' = View(l)
  BY <1>1, <1>2, <1>3, <1>5 DEF View, Parked, Fresh
<1>7. ASSUME NEW l \in alive' PROVE ContextOK(l)' /\ CarpetOK(l)' /\ KillOK(l)'
  <2>1. ContextOK(l) /\ CarpetOK(l) /\ KillOK(l)
    BY <1>5 DEF RunwayInv
  <2>2. ContextOK(l)'
    BY <1>1, <1>2, <1>3, <1>5, <1>6, <2>1 DEF ContextOK, OnCpu
  <2>3. CarpetOK(l)' /\ KillOK(l)'
    BY <1>1, <1>2, <1>3, <1>5, <2>1 DEF CarpetOK, KillOK
  <2> QED
    BY <2>2, <2>3
<1> QED
  BY <1>1, <1>4, <1>6, <1>7 DEF Kept, RunwayInv, OwnStep

LEMMA SpawnOK == ASSUME RunwayInv, NEW n \in Leaves, Spawn(n) PROVE Kept
<1> DEFINE x == [sidecar[n] EXCEPT !.saved = FALSE, !.kill = FALSE]
           m == [memory[n] EXCEPT !.image = Loaded]
<1>1. /\ cpu.at = "other" /\ n \notin alive /\ alive' = alive \cup {n} /\ asked' = asked \ {n}
      /\ n # current
  BY RunwayAssumption DEF Spawn, RunwayInv, RunwayTypeOK
<1>2. UNCHANGED <<cpu, uart, current, parked, stub, astray>>
  BY DEF Spawn
<1>3. /\ sidecar' \in [Leaves -> Sidecar] /\ ~sidecar'[n].saved /\ ~sidecar'[n].kill
      /\ \A l \in Leaves : l # n => sidecar'[l] = sidecar[l]
  <2>1. sidecar \in [Leaves -> Sidecar]
    BY DEF RunwayInv, RunwayTypeOK
  <2>2. x \in Sidecar /\ ~x.saved /\ ~x.kill
    BY <2>1 DEF Sidecar
  <2>3. sidecar' = [sidecar EXCEPT ![n] = x]
    BY <2>1 DEF Spawn, Sidecar
  <2> HIDE DEF x
  <2> QED
    BY <2>1, <2>2, <2>3, SidecarSet
<1>4. /\ memory' \in [Leaves -> [image : [1..Size -> Cells], shadow : [1..Size -> Cells]]]
      /\ memory'[n].image = Loaded
      /\ \A l \in Leaves : l # n => memory'[l] = memory[l]
  <2>1. memory \in [Leaves -> [image : [1..Size -> Cells], shadow : [1..Size -> Cells]]]
    BY DEF RunwayInv, RunwayTypeOK
  <2>2. m \in [image : [1..Size -> Cells], shadow : [1..Size -> Cells]] /\ m.image = Loaded
    BY <2>1, LoadedOK DEF Images
  <2>3. memory' = [memory EXCEPT ![n] = m]
    BY <2>1 DEF Spawn
  <2> HIDE DEF m
  <2> QED
    BY <2>1, <2>2, <2>3
<1>5. RunwayTypeOK'
  BY <1>1, <1>2, <1>3, <1>4 DEF RunwayInv, RunwayTypeOK
<1>6. View(n)' = Fresh(n)
  BY <1>1, <1>2, <1>3, <1>4 DEF View, Fresh
<1>7. ASSUME NEW l \in alive PROVE l \in Leaves /\ l # n /\ View(l)' = View(l)
  BY <1>1, <1>2, <1>3, <1>4 DEF View, Parked, Fresh, OnRunway, Executing, RunwayInv, RunwayTypeOK
<1>8. ASSUME NEW l \in alive' PROVE ContextOK(l)' /\ CarpetOK(l)' /\ KillOK(l)'
  <2>1. CASE l = n
    <3>1. ContextOK(l)'
      BY <1>1, <1>2, <1>3, <1>4, <1>6, <2>1, FreshOK DEF ContextOK, OnCpu
    <3> QED
      BY <1>1, <1>2, <1>3, <2>1, <3>1 DEF CarpetOK, KillOK
  <2>2. CASE l # n
    <3>1. l \in alive /\ l \in Leaves /\ ContextOK(l) /\ CarpetOK(l) /\ KillOK(l)
      BY <1>1, <2>2 DEF RunwayInv, RunwayTypeOK
    <3>2. ContextOK(l)'
      BY <1>1, <1>2, <1>3, <1>4, <1>7, <3>1 DEF ContextOK, OnCpu
    <3> QED
      BY <1>1, <1>2, <1>3, <1>7, <3>1, <3>2 DEF CarpetOK, KillOK
  <2> QED
    BY <2>1, <2>2
<1> QED
  BY <1>1, <1>5, <1>6, <1>7, <1>8 DEF Kept, RunwayInv, OwnStep

LEMMA KillLeafOK == ASSUME RunwayInv, NEW k \in Leaves, Kill(k) PROVE Kept
<1> DEFINE x == [sidecar[k] EXCEPT !.kill = TRUE]
<1>1. cpu.at \in {"other", "scan"} /\ asked' = asked \cup {k}
  BY DEF Kill
<1>2. UNCHANGED <<cpu, uart, current, memory, parked, stub, alive, astray>>
  BY DEF Kill
<1>3. /\ sidecar' \in [Leaves -> Sidecar]
      /\ \A l \in Leaves : sidecar'[l].saved = sidecar[l].saved
      /\ \A l \in Leaves : l # k => sidecar'[l] = sidecar[l]
  <2>1. sidecar \in [Leaves -> Sidecar]
    BY DEF RunwayInv, RunwayTypeOK
  <2>2. x \in Sidecar /\ x.saved = sidecar[k].saved
    BY <2>1 DEF Sidecar
  <2>3. sidecar' = [sidecar EXCEPT ![k] = x]
    BY <2>1 DEF Kill
  <2> HIDE DEF x
  <2> QED
    BY <2>1, <2>2, <2>3, SidecarSet
<1>4. RunwayTypeOK'
  BY <1>1, <1>2, <1>3 DEF RunwayInv, RunwayTypeOK
<1>5. ASSUME NEW l \in alive PROVE View(l)' = View(l)
  BY <1>1, <1>2, <1>3 DEF View, Parked, Fresh, OnRunway, Executing, RunwayInv, RunwayTypeOK
<1>6. ASSUME NEW l \in alive PROVE ContextOK(l)' /\ CarpetOK(l)' /\ KillOK(l)'
  <2>1. l \in Leaves /\ ContextOK(l) /\ CarpetOK(l) /\ KillOK(l)
    BY DEF RunwayInv, RunwayTypeOK
  <2>2. ContextOK(l)'
    BY <1>1, <1>2, <1>3, <1>5, <2>1 DEF ContextOK, OnCpu
  <2>3. CarpetOK(l)' /\ KillOK(l)'
    BY <1>1, <1>2, <1>3, <2>1 DEF CarpetOK, KillOK
  <2> QED
    BY <2>2, <2>3
<1> QED
  BY <1>2, <1>4, <1>5, <1>6 DEF Kept, RunwayInv, OwnStep, RunwayTypeOK

LEMMA ForceLeafOK == ASSUME RunwayInv, ForceLeaf PROVE Kept
<1> DEFINE frame == [parked[current] EXCEPT !.frame = cpu.regs]
           both == [image |-> Carpet, shadow |-> memory[current].image]
<1>1. /\ cpu.at = "leaf" /\ current \in alive /\ current \in Leaves
      /\ ~sidecar[current].saved /\ cpu \in Cpu
      /\ View(current) \in LeafStates(current)
      /\ View(current) = Executing
  BY DEF ForceLeaf, Heartbeat, RunwayInv, RunwayTypeOK, ContextOK, View
<1>2. Landing(current) \in Nat /\ Base[current] \in Nat /\ Len(Code) \in Nat /\ Size = Len(Code) + 1
      /\ Landing(current) = Base[current] + Size /\ Words \in Int
  BY <1>1, RunwayAssumption DEF Landing, Size
<1>3. cpu.pc \in Base[current]..Landing(current)
  BY <1>1, <1>2 DEF Executing, LeafStates
<1>4. /\ cpu'.at = "runway" /\ cpu'.pc = cpu.pc /\ cpu' \in Cpu
      /\ cpu'.regs = [r0 |-> Landing(current), r1 |-> Words - 1, rest |-> 0]
  <2>1. [r0 |-> Landing(current), r1 |-> Words - 1, rest |-> 0] \in Regs
    BY <1>2 DEF Regs
  <2>2. /\ cpu'.at = "runway" /\ cpu'.pc = cpu.pc /\ cpu'.beat = cpu.beat
        /\ cpu'.regs = [r0 |-> Landing(current), r1 |-> Words - 1, rest |-> 0]
        /\ cpu' = [at |-> cpu'.at, pc |-> cpu'.pc, regs |-> cpu'.regs, beat |-> cpu'.beat]
    BY <1>1 DEF ForceLeaf, Cpu
  <2> QED
    BY <1>1, <2>1, <2>2 DEF Cpu, Places
<1>5. /\ parked' \in [Leaves -> [frame : Regs, pc : Int]]
      /\ parked'[current].frame = cpu.regs
      /\ \A l \in Leaves : l # current => parked'[l] = parked[l]
  <2>1. parked \in [Leaves -> [frame : Regs, pc : Int]]
    BY DEF RunwayInv, RunwayTypeOK
  <2>2. frame \in [frame : Regs, pc : Int] /\ frame.frame = cpu.regs
    BY <1>1, <2>1 DEF Cpu
  <2>3. parked' = [parked EXCEPT ![current] = frame]
    BY <1>1, <2>1 DEF ForceLeaf
  <2> HIDE DEF frame
  <2> QED
    BY <1>1, <2>1, <2>2, <2>3
<1>6. /\ memory' \in [Leaves -> [image : [1..Size -> Cells], shadow : [1..Size -> Cells]]]
      /\ memory'[current] = both
      /\ \A l \in Leaves : l # current => memory'[l] = memory[l]
  <2>1. memory \in [Leaves -> [image : [1..Size -> Cells], shadow : [1..Size -> Cells]]]
    BY DEF RunwayInv, RunwayTypeOK
  <2>2. both \in [image : [1..Size -> Cells], shadow : [1..Size -> Cells]]
    BY <1>1, <2>1, LoadedOK
  <2>3. memory' = [memory EXCEPT ![current] = both]
    BY <1>1, <2>1 DEF ForceLeaf
  <2> HIDE DEF both
  <2> QED
    BY <1>1, <2>1, <2>2, <2>3
<1>7. UNCHANGED <<current, sidecar, stub, alive, asked, astray>>
  BY DEF ForceLeaf
<1>8. RunwayTypeOK'
  BY <1>1, <1>4, <1>5, <1>6, <1>7 DEF RunwayInv, RunwayTypeOK
<1>9. ASSUME NEW l \in alive PROVE l \in Leaves /\ View(l)' = View(l)
  <2>1. l \in Leaves
    BY DEF RunwayInv, RunwayTypeOK
  <2>2. CASE l = current
    <3>1. View(l)' = OnRunway(l)'
      BY <1>4, <1>7, <2>2 DEF View
    <3>2. cpu'.regs.r0 - (Landing(l) - cpu'.pc) = cpu.pc
      BY <1>2, <1>3, <1>4, <2>2
    <3>3. OnRunway(l)' = Executing
      BY <1>4, <1>5, <1>6, <2>2, <3>2 DEF OnRunway, Executing, Landing
    <3> QED
      BY <1>1, <2>2, <3>1, <3>3
  <2>3. CASE l # current
    BY <1>5, <1>6, <1>7, <2>1, <2>3 DEF View, Parked, Fresh
  <2> QED
    BY <2>1, <2>2, <2>3
<1>10. ASSUME NEW l \in alive PROVE ContextOK(l)' /\ CarpetOK(l)' /\ KillOK(l)'
  <2>1. l \in Leaves /\ ContextOK(l) /\ CarpetOK(l) /\ KillOK(l)
    BY DEF RunwayInv, RunwayTypeOK
  <2>2. ContextOK(l)'
    BY <1>1, <1>4, <1>6, <1>7, <1>9, <2>1 DEF ContextOK, OnCpu
  <2>3. CarpetOK(l)'
    BY <1>2, <1>3, <1>4, <1>6, <1>7 DEF CarpetOK, Landing, Carpet
  <2>4. KillOK(l)'
    BY <1>4, <1>7, <2>1 DEF KillOK
  <2> QED
    BY <2>2, <2>3, <2>4
<1> QED
  BY <1>7, <1>8, <1>9, <1>10 DEF Kept, RunwayInv, OwnStep

LEMMA LandOK == ASSUME RunwayInv, Land PROVE Kept
<1> DEFINE frame == [parked[current] EXCEPT !.pc = cpu.regs.r0]
           both == [memory[current] EXCEPT !.image = memory[current].shadow]
           x == [sidecar[current] EXCEPT !.saved = TRUE, !.kill = FALSE]
<1>1. /\ cpu.at = "runway" /\ cpu.pc = Landing(current)
      /\ current \in alive /\ current \in Leaves /\ cpu \in Cpu
      /\ Landing(current) \in Nat
  <2>1. current \in Leaves
    BY DEF Land, RunwayInv, RunwayTypeOK
  <2>2. Landing(current) \in Nat
    BY <2>1, RunwayAssumption DEF Landing, Size
  <2> QED
    BY <2>1, <2>2 DEF Land, RunwayInv, RunwayTypeOK
<1>2. /\ cpu'.at \in {"exit", "scan"} /\ cpu' \in Cpu
      /\ cpu'.at = "exit" => sidecar[current].kill
  BY <1>1 DEF Land, Cpu, Places
<1>3. /\ parked' \in [Leaves -> [frame : Regs, pc : Int]]
      /\ parked'[current].frame = parked[current].frame /\ parked'[current].pc = cpu.regs.r0
      /\ \A l \in Leaves : l # current => parked'[l] = parked[l]
  <2>1. parked \in [Leaves -> [frame : Regs, pc : Int]]
    BY DEF RunwayInv, RunwayTypeOK
  <2>2. /\ frame \in [frame : Regs, pc : Int]
        /\ frame.frame = parked[current].frame /\ frame.pc = cpu.regs.r0
    BY <1>1, <2>1 DEF Cpu, Regs
  <2>3. parked' = [parked EXCEPT ![current] = frame]
    BY <1>1, <2>1 DEF Land
  <2> HIDE DEF frame
  <2> QED
    BY <1>1, <2>1, <2>2, <2>3
<1>4. /\ memory' \in [Leaves -> [image : [1..Size -> Cells], shadow : [1..Size -> Cells]]]
      /\ memory'[current].image = memory[current].shadow
      /\ \A l \in Leaves : l # current => memory'[l] = memory[l]
  <2>1. memory \in [Leaves -> [image : [1..Size -> Cells], shadow : [1..Size -> Cells]]]
    BY DEF RunwayInv, RunwayTypeOK
  <2>2. /\ both \in [image : [1..Size -> Cells], shadow : [1..Size -> Cells]]
        /\ both.image = memory[current].shadow
    BY <1>1, <2>1
  <2>3. memory' = [memory EXCEPT ![current] = both]
    BY <1>1, <2>1 DEF Land, Restored
  <2> HIDE DEF both
  <2> QED
    BY <1>1, <2>1, <2>2, <2>3
<1>5. /\ sidecar' \in [Leaves -> Sidecar] /\ sidecar'[current].saved /\ ~sidecar'[current].kill
      /\ \A l \in Leaves : l # current => sidecar'[l] = sidecar[l]
  <2>1. sidecar \in [Leaves -> Sidecar]
    BY DEF RunwayInv, RunwayTypeOK
  <2>2. x \in Sidecar /\ x.saved /\ ~x.kill
    BY <1>1, <2>1 DEF Sidecar
  <2>3. sidecar' = [sidecar EXCEPT ![current] = x]
    BY <1>1, <2>1 DEF Land, Sidecar
  <2> HIDE DEF x
  <2> QED
    BY <1>1, <2>1, <2>2, <2>3, SidecarSet
<1>6. UNCHANGED <<current, stub, alive, asked, astray>>
  BY DEF Land
<1>7. RunwayTypeOK'
  BY <1>1, <1>2, <1>3, <1>4, <1>5, <1>6 DEF RunwayInv, RunwayTypeOK
<1>8. ASSUME NEW l \in alive PROVE l \in Leaves /\ View(l)' = View(l)
  <2>1. l \in Leaves
    BY DEF RunwayInv, RunwayTypeOK
  <2>2. CASE l = current
    <3>1. View(l) = OnRunway(l) /\ View(l)' = Parked(l)'
      BY <1>1, <1>2, <1>5, <1>6, <2>2 DEF View
    <3>2. cpu.regs.r0 - (Landing(l) - cpu.pc) = cpu.regs.r0
      BY <1>1, <2>2 DEF Cpu, Regs
    <3>3. OnRunway(l) = [pc |-> cpu.regs.r0, regs |-> parked[l].frame, image |-> memory[l].shadow]
      BY <3>2 DEF OnRunway
    <3>4. Parked(l)' = [pc |-> cpu.regs.r0, regs |-> parked[l].frame, image |-> memory[l].shadow]
      BY <1>3, <1>4, <2>2 DEF Parked
    <3> QED
      BY <2>1, <3>1, <3>3, <3>4
  <2>3. CASE l # current
    BY <1>3, <1>4, <1>5, <1>6, <2>1, <2>3 DEF View, Parked, Fresh
  <2> QED
    BY <2>1, <2>2, <2>3
<1>9. ASSUME NEW l \in alive PROVE ContextOK(l)' /\ CarpetOK(l)' /\ KillOK(l)'
  <2>1. l \in Leaves /\ ContextOK(l) /\ CarpetOK(l) /\ KillOK(l)
    BY DEF RunwayInv, RunwayTypeOK
  <2>2. ContextOK(l)'
    BY <1>1, <1>2, <1>4, <1>5, <1>6, <1>8, <2>1 DEF ContextOK, OnCpu
  <2>3. CarpetOK(l)' /\ KillOK(l)'
    BY <1>1, <1>2, <1>5, <1>6, <2>1 DEF CarpetOK, KillOK
  <2> QED
    BY <2>2, <2>3
<1> QED
  BY <1>6, <1>7, <1>8, <1>9 DEF Kept, RunwayInv, OwnStep

(* A place on the carpet that is not its end, and what is still to be counted. *)
LEMMA OnCarpet ==
    ASSUME NEW base \in Nat, NEW size \in Nat, NEW pc \in base..(base + size), NEW r \in Int,
           pc # base + size, r - ((base + size) - pc) >= base
    PROVE  pc \in Int /\ pc - base + 1 \in 1..size /\ pc + 1 \in base..(base + size) /\ r >= 1
OBVIOUS

LEMMA CountAlong ==
    ASSUME NEW r \in Int, NEW pc \in Int, NEW end \in Int
    PROVE  (r - 1) - (end - (pc + 1)) = r - (end - pc)
OBVIOUS

(* In its own code a leaf takes its own steps; on the runway only the PC is
   counted, and r0 with it. *)
LEMMA ExecuteOK == ASSUME RunwayInv, Execute PROVE Kept
<1> DEFINE here == Executing
           next == Stepped(current, here)
           both == [memory[current] EXCEPT !.image = next.image]
<1>1. /\ cpu.at \in {"leaf", "runway"} /\ cpu.pc # Landing(current)
      /\ current \in alive /\ current \in Leaves /\ cpu \in Cpu
      /\ memory \in [Leaves -> [image : [1..Size -> Cells], shadow : [1..Size -> Cells]]]
      /\ ContextOK(current) /\ CarpetOK(current)
      /\ ~sidecar[current].saved
  BY DEF Execute, RunwayInv, RunwayTypeOK, ContextOK, OnCpu
<1>2. /\ cpu' = [cpu EXCEPT !.pc = next.pc, !.regs = next.regs]
      /\ memory' = [memory EXCEPT ![current].image = next.image]
  BY DEF Execute
<1>3. UNCHANGED <<uart, current, sidecar, parked, stub, alive, asked, astray>>
  BY DEF Execute
<1>4. /\ here.pc = cpu.pc /\ here.regs = cpu.regs /\ here.image = memory[current].image
      /\ here = [pc |-> cpu.pc, regs |-> cpu.regs, image |-> memory[current].image]
  BY DEF Executing
<1>5. CASE cpu.at = "leaf"
  <2>1. View(current) = here
    BY <1>5 DEF View
  <2>2. here \in LeafStates(current)
    BY <1>1, <2>1 DEF ContextOK
  <2>3. next \in LeafStates(current)
    BY <1>1, <2>2, SteppedOK
  <2>4. /\ next.pc \in Int /\ next.regs \in Regs /\ next.image \in [1..Size -> Cells]
        /\ next = [pc |-> next.pc, regs |-> next.regs, image |-> next.image]
    <3>1. Base[current] \in Int /\ Len(Code) \in Int
      BY <1>1, RunwayAssumption
    <3> HIDE DEF next
    <3> QED
      BY <2>3, <3>1 DEF LeafStates, Images
  <2> HIDE DEF next
  <2>5. /\ cpu' \in Cpu /\ cpu'.at = "leaf" /\ cpu'.pc = next.pc /\ cpu'.regs = next.regs
    BY <1>1, <1>2, <1>5, <2>4 DEF Cpu
  <2>6. both \in [image : [1..Size -> Cells], shadow : [1..Size -> Cells]] /\ both.image = next.image
    BY <1>1, <2>4
  <2>7. memory' = [memory EXCEPT ![current] = both]
    BY <1>1, <1>2
  <2> HIDE DEF both
  <2>8. /\ memory' \in [Leaves -> [image : [1..Size -> Cells], shadow : [1..Size -> Cells]]]
        /\ memory'[current].image = next.image
        /\ \A l \in Leaves : l # current => memory'[l] = memory[l]
    BY <1>1, <2>6, <2>7
  <2>9. RunwayTypeOK'
    BY <1>1, <1>3, <2>5, <2>8 DEF RunwayInv, RunwayTypeOK
  <2>10. ASSUME NEW l \in alive, l = current PROVE View(l) = here /\ View(l)' = next
    <3>1. View(l) = here /\ View(l)' = Executing'
      BY <1>3, <1>5, <2>5, <2>10 DEF View
    <3>2. Executing' = [pc |-> next.pc, regs |-> next.regs, image |-> next.image]
      BY <1>3, <2>5, <2>8 DEF Executing
    <3> QED
      BY <2>4, <3>1, <3>2
  <2>11. ASSUME NEW l \in alive, l # current PROVE l \in Leaves /\ View(l)' = View(l)
    BY <1>3, <2>8, <2>11 DEF View, Parked, Fresh, RunwayInv, RunwayTypeOK
  <2>12. ASSUME NEW l \in alive PROVE ContextOK(l)' /\ CarpetOK(l)' /\ KillOK(l)'
    <3>1. l \in Leaves /\ ContextOK(l) /\ KillOK(l)
      BY DEF RunwayInv, RunwayTypeOK
    <3>2. CASE l = current
      BY <1>1, <1>3, <1>5, <2>3, <2>5, <2>10, <3>1, <3>2 DEF ContextOK, OnCpu, CarpetOK, KillOK
    <3>3. CASE l # current
      BY <1>3, <2>5, <2>8, <2>11, <3>1, <3>3 DEF ContextOK, OnCpu, CarpetOK, KillOK
    <3> QED
      BY <3>2, <3>3
  <2>13. \A l \in alive : View(l)' = View(l) \/ (l = current /\ View(l)' = Stepped(l, View(l)))
    <3> SUFFICES ASSUME NEW l \in alive
                 PROVE  View(l)' = View(l) \/ (l = current /\ View(l)' = Stepped(l, View(l)))
      OBVIOUS
    <3>1. CASE l = current
      BY <2>10, <3>1 DEF next
    <3>2. CASE l # current
      BY <2>11, <3>2
    <3> QED
      BY <3>1, <3>2
  <2> QED
    BY <1>3, <1>5, <2>9, <2>12, <2>13 DEF Kept, RunwayInv, OwnStep
<1>6. CASE cpu.at = "runway"
  <2> DEFINE i == cpu.pc - Base[current] + 1
  <2>1. /\ Base[current] \in Nat /\ Size \in Nat /\ Landing(current) = Base[current] + Size
        /\ Landing(current) < Words /\ Words \in Nat /\ Len(Code) \in Nat
    BY <1>1, RunwayAssumption, LoadedOK DEF Landing
  <2>2. /\ memory[current].image = Carpet /\ cpu.pc \in Base[current]..Landing(current)
        /\ cpu.regs.r1 = Words - 1 /\ cpu.regs.r0 <= Landing(current)
    BY <1>1, <1>6 DEF CarpetOK
  <2>3. cpu.regs.r0 \in Int /\ cpu.regs.r0 - (Landing(current) - cpu.pc) >= Base[current]
    <3>1. View(current) = OnRunway(current)
      BY <1>6 DEF View
    <3>2. View(current).pc \in Base[current]..(Base[current] + Len(Code) - 1)
      BY <1>1 DEF ContextOK, LeafStates
    <3>3. cpu.regs.r0 \in Int
      BY <1>1 DEF Cpu, Regs
    <3> QED
      BY <2>1, <3>1, <3>2, <3>3 DEF OnRunway
  <2>4. /\ cpu.pc \in Int /\ cpu.pc + 1 \in Base[current]..Landing(current)
        /\ i \in 1..Size /\ cpu.regs.r0 >= 1
    <3>1. cpu.pc # Landing(current)
      BY <1>1
    <3> QED
      BY <2>1, <2>2, <2>3, <3>1, OnCarpet
  <2>5. cpu.regs.r0 \in 1..(Words - 1) /\ memory[current].image[i] = "add"
    BY <2>1, <2>2, <2>3, <2>4 DEF Carpet
  <2>6. (cpu.regs.r0 + cpu.regs.r1) % Words = cpu.regs.r0 - 1
    BY <2>1, <2>2, <2>5, MinusOne
  <2>7. next = [here EXCEPT !.pc = cpu.pc + 1, !.regs.r0 = cpu.regs.r0 - 1]
    BY <1>4, <2>5, <2>6 DEF Stepped
  <2>8. /\ next.pc = cpu.pc + 1 /\ next.image = memory[current].image
        /\ next.regs = [cpu.regs EXCEPT !.r0 = cpu.regs.r0 - 1]
    BY <1>4, <2>7
  <2> HIDE DEF next, here
  <2>9. /\ cpu' \in Cpu /\ cpu'.at = "runway" /\ cpu'.pc = cpu.pc + 1
        /\ cpu'.regs.r0 = cpu.regs.r0 - 1 /\ cpu'.regs.r1 = cpu.regs.r1
    <3>1. cpu.regs \in Regs /\ cpu.pc + 1 \in Int
      BY <1>1 DEF Cpu
    <3>2. next.regs \in Regs /\ next.regs.r0 = cpu.regs.r0 - 1 /\ next.regs.r1 = cpu.regs.r1
      BY <2>3, <2>8, <3>1 DEF Regs
    <3> QED
      BY <1>1, <1>2, <1>6, <2>8, <3>1, <3>2 DEF Cpu
  <2>10. memory' = memory
    BY <1>1, <1>2, <2>8
  <2>11. RunwayTypeOK'
    BY <1>1, <1>3, <2>9, <2>10 DEF RunwayInv, RunwayTypeOK
  <2>12. ASSUME NEW l \in alive PROVE l \in Leaves /\ View(l)' = View(l)
    <3>1. l \in Leaves
      BY DEF RunwayInv, RunwayTypeOK
    <3>2. CASE l = current
      <4>1. View(l) = OnRunway(l) /\ View(l)' = OnRunway(l)'
        BY <1>3, <1>6, <2>9, <3>2 DEF View
      <4>2. /\ cpu.pc \in Int /\ Landing(l) \in Int
            /\ cpu'.regs.r0 - (Landing(l) - cpu'.pc) = cpu.regs.r0 - (Landing(l) - cpu.pc)
        <5>1. cpu.pc \in Int /\ cpu.regs.r0 \in Int /\ Landing(l) \in Int
          BY <2>1, <2>3, <2>4, <3>2
        <5>2. cpu'.regs.r0 = cpu.regs.r0 - 1 /\ cpu'.pc = cpu.pc + 1
          BY <2>9
        <5> QED
          BY <5>1, <5>2, CountAlong
      <4>3. OnRunway(l)' = OnRunway(l)
        BY <1>3, <2>10, <4>2 DEF OnRunway, Landing, Size
      <4> QED
        BY <3>1, <4>1, <4>3
    <3>3. CASE l # current
      BY <1>3, <2>9, <2>10, <3>1, <3>3 DEF View, Parked, Fresh
    <3> QED
      BY <3>2, <3>3
  <2>13. ASSUME NEW l \in alive PROVE ContextOK(l)' /\ CarpetOK(l)' /\ KillOK(l)'
    <3>1. l \in Leaves /\ ContextOK(l) /\ CarpetOK(l) /\ KillOK(l)
      BY DEF RunwayInv, RunwayTypeOK
    <3>2. ContextOK(l)'
      BY <1>3, <1>6, <2>9, <2>10, <2>12, <3>1 DEF ContextOK, OnCpu
    <3>3. CarpetOK(l)'
      <4> SUFFICES ASSUME l = current PROVE CarpetOK(l)'
        BY <1>3 DEF CarpetOK
      <4> QED
        BY <1>3, <2>1, <2>2, <2>3, <2>4, <2>9, <2>10 DEF CarpetOK, Landing, Carpet, Size
    <3>4. KillOK(l)'
      BY <1>3, <2>9, <3>1 DEF KillOK
    <3> QED
      BY <3>2, <3>3, <3>4
  <2> QED
    BY <1>3, <2>11, <2>12, <2>13 DEF Kept, RunwayInv, OwnStep
<1> QED
  BY <1>1, <1>5, <1>6

LEMMA InitOK == ASSUME Init PROVE RunwayInv
<1>1. memory \in [Leaves -> [image : [1..Size -> Cells], shadow : [1..Size -> Cells]]]
  BY LoadedOK DEF Init, Images
<1>2. sidecar \in [Leaves -> Sidecar]
  BY DEF Init, Sidecar, Cleared
<1>3. parked \in [Leaves -> [frame : Regs, pc : Int]]
  BY DEF Init, Regs, Registers
<1>4. cpu \in Cpu /\ cpu.at = "other" /\ stub \in Int /\ alive = {} /\ current = Other
  BY DEF Init, Cpu, Regs, Registers, Places
<1> QED
  BY <1>1, <1>2, <1>3, <1>4 DEF RunwayInv, RunwayTypeOK

(* Every step but the handler's mistake keeps the contexts, and after that
   mistake nothing is claimed. *)
LEMMA StepOK == ASSUME RunwayInv, Next, ~astray' PROVE Kept
<1>1. CASE Execute
  BY <1>1, ExecuteOK
<1>2. CASE Tick
  BY <1>2, TickOK
<1>3. CASE ForceLeaf
  BY <1>3, ForceLeafOK
<1>4. CASE ForceKernel
  BY <1>4 DEF ForceKernel
<1>5. CASE Land
  BY <1>5, LandOK
<1>6. CASE Exit
  BY <1>6, ExitOK
<1>7. CASE Select
  BY <1>7, SelectOK
<1>8. CASE Prepare
  BY <1>8, PrepareOK
<1>9. CASE Launch
  BY <1>9, LaunchOK
<1>10. CASE RestoreInterrupt
  BY <1>10, RestoreInterruptOK
<1>11. CASE Resume
  BY <1>11, ResumeOK
<1>12. CASE OtherYields
  BY <1>12, OtherYieldsOK
<1>13. CASE \E l \in Leaves : Spawn(l) \/ Kill(l)
  BY <1>13, SpawnOK, KillLeafOK
<1> QED
  BY <1>1, <1>2, <1>3, <1>4, <1>5, <1>6, <1>7, <1>8, <1>9, <1>10, <1>11, <1>12, <1>13 DEF Next

LEMMA StutterOK == ASSUME RunwayInv, UNCHANGED vars PROVE RunwayInv'
BY DEF vars, RunwayInv, RunwayTypeOK, ContextOK, CarpetOK, KillOK, OnCpu, View, Parked,
       OnRunway, Executing

(* The mistake is never taken back. *)
LEMMA AstrayStays == ASSUME [Next]_vars, astray PROVE astray'
BY DEF Next, vars, Execute, Tick, ForceLeaf, ForceKernel, Land, Exit, Select, Prepare,
       Launch, RestoreInterrupt, Resume, OtherYields, Spawn, Kill, Idle

(* Until the handler has forced what is no leaf, every living leaf has exactly
   one context, and it is a state of its own program: in the CPU, on the
   runway of _preemption_force, in its saved frame, or not begun. *)
THEOREM ContextsKept == Spec => [](~astray => RunwayInv)
<1>1. Init => (~astray => RunwayInv)
  BY InitOK
<1>2. (~astray => RunwayInv) /\ [Next]_vars => (~astray => RunwayInv)'
  BY StepOK, StutterOK, AstrayStays DEF Kept, vars
<1> QED
  BY <1>1, <1>2, PTL DEF Spec

(* The forced switch is transparent, as docs/preemptive-multitasking.md
   promises of _preemption_force, the runway and _preemption_landing: a leaf
   only takes the steps of its own program, and ends only when it is killed. *)
THEOREM TransparentCorrect == Spec => Transparent
<1>1. (~astray => RunwayInv) /\ [Next]_vars => [~astray' => \A l \in Leaves : OwnStep(l)]_vars
  BY StepOK, AstrayStays DEF Kept
<1> QED
  BY <1>1, ContextsKept, PTL DEF Spec, Transparent

=============================================================================
