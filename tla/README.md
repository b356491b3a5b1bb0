# SWTOS in TLA+

SWTOS is a small multitasking system for the COR24, a 24-bit microcontroller
with one CPU and one UART. Its kernel is assembly (`hal/cor24`), its programs
are written in PL/SW, and a Rust frontend on the host (`tools/te-rs`) talks to
it over the UART with framed messages, heartbeats and control escapes; for an
emulated target a debug adapter (`tools/cor24-debug-adapter`) sits in between.
This directory holds TLA+ models of the kernel, of the bytes that go up and
down between kernel and host, of the windowed frontend and of the debugger,
the TLC configurations that check them, and TLAPS proofs about them.

Paths below are relative to the repository's root; `catalog-spawn.s`,
`preemption.s` and `protocol-v1.s` are in `hal/cor24`; `main.rs`,
`protocol.rs`, `resource.rs`, `ui.rs` and `debug.rs` without a directory are
in `tools/te-rs/src`.

## 1. Inventory

| Component | State it keeps | Operations | Status |
|---|---|---|---|
| Process kernel (`catalog-spawn.s`) | 16 slot records (state, descriptor, stack, sidecar, TTY), `_child_count`, two arena pointers and their marks, two descriptor cells, focus, current process, pending requests | `TASK_SPAWN`, `TASK_EXIT`, `TASK_KILL`, `TASK_YIELD`, `TASK_GETCHAR`, two joins, `TASK_CLAIM_FOREGROUND`, `TASK_RUN_SYNC`, restart, reboot | modelled: `Kernel` |
| Scheduler, virtual TTYs | scan position, rings | scan, dispatch, input routing, wakeup | `Kernel` (ring contents abstracted to a count; time records not yet) |
| UART interrupt handler (`preemption.s`) | escape state, host tick, quantum and kill flag of the sidecar | take out escapes, enqueue, raise requests, force a leaf off the CPU | escapes: `Uplink`; requests: `Kernel`; ticks and forces: `Runway` |
| Forced switch (`preemption.s` 306-530) | image and shadow of each leaf, sidecar, saved frame, shared jump | shadow, carpet, landing, restore, resume | modelled: `Runway` |
| Receive ring (`preemption.s`) | 512 bytes, head, tail, count | enqueue (handler), dequeue (poll) | modelled: `RxRing` |
| Frame decoder (`protocol-v1.s`) | state, fields, sum, payload buffer | consume a byte | modelled: `FrameDecoder` |
| Host decoder, negotiation, session (`protocol.rs`, `main.rs`) | mode, retained ACK prefix, buffer | push, resynchronize, HELLO and its retry, reconnect | `HostDecoder`, `Downlink`, `Windows` |
| Resource snapshot (`catalog-spawn.s` 4336-4677, `resource.rs`) | generation; pending and published snapshot | request, send records, assemble, publish, discard | `Snapshot`, `Downlink`, `Windows` |
| Host frontend (`main.rs` `run_windows`, `ui.rs`) | panes, focus, layout, copy mode, time modes, session file, write backlog, what is owed | every key, frame, timer and write of its loop | `Desktop`, `Windows` |
| Debugger (`debug.rs`, adapter, `catalog-spawn.s` 4678-4990) | console: identity, pending disassembly, listing; adapter: buffer, breakpoints, run state; kernel: queued kill | commands, replies, requests, batches, stops | `DebugConsole`, `Adapter`, `Debugging`; kill: `Kernel`, `Runway` |
| Catalog, loader, image providers | provider status, sector cache, checksum state | validate, read, load | outcomes only, in `Kernel` |
| Time broadcast, target side (`catalog-spawn.s` 5330-5500) | private time words, records in an application's ring | accept, forward | not modelled |
| `context-switch.s` | two processes, message pointers | SEND, RECEIVE, SENDREC | not modelled |
| Line terminal and upload (`main.rs`), session report and disassembler, drivers (`spi.s`, `i2c.s`), scripts, generated files | none that outlives a call, one sequential loop, or presentation | | not modelled |

**How they interact.** The CPU runs one process at a time. A kernel call runs
on the caller's stack to its end; the scheduler runs when a call gives the CPU
up, and between two slots of its scan it polls the ring, feeds the decoder and
lets the decoder's callback change process state or send an answer. The one
thing that runs concurrently with all of this is the UART interrupt handler:
it may cut in between any two instructions, it writes the ring, the pending
requests and the shell's state, and it may force a *leaf* (a program certified
never to call the kernel) off the CPU. The host is one thread turning a loop:
serial input, keyboard, timers, a write of what the line takes. It knows the
target's processes only by what the target last said of them. The adapter is
one thread too; it stands between the two and shares both directions of the
stream with the target.

**What is hard here.**

- the handler cutting into kernel code that has read what it is about to write
  (the ring's count, the shell's state, a request being served), or forcing
  what is not a leaf;
- a forced switch that overwrites the code it interrupts, to find out where
  that was;
- four paths (exit, two kinds of kill, reboot) that must each repair the same
  pointers, flags and counter;
- an allocator that can only go back to one mark, shared by all children;
- a shell that can be rewound at any moment, in the middle of being another
  program or of a reboot;
- processes that never yield, and processes that sleep until a byte comes;
- one byte stream shared by frames, ticks, escapes and keystrokes, that loses
  bytes when its ring is full, and that the host reads in arbitrary pieces;
- a snapshot assembled from records any of which may be lost;
- panes that open, close, move and end by keys, frames and snapshots, none of
  which waits for the others;
- two writers, target and adapter, on one stream of answers, and requests for
  memory whose answers carry no name of who asked.

The properties these call for are in section 4; `PROJECT.json` lists the
hazards with their lines.

## 2. Modules

| Module | What it is |
|---|---|
| `ProcessTable` | abstract specification: which program owns which slot and where input focus is; start, finish, become, claim, reboot |
| `Kernel` | the process kernel, scheduler and the handler's effect on them; `ImplementsTable` states that it implements `ProcessTable` |
| `KernelHistory` | `Kernel` with a history of the two failures that spoil memory and certificates |
| `MCKernel`, `MCKernelHistory` | programs and memory sizes for TLC, of `Kernel` and of `KernelHistory` |
| `Kernel_proofs` | TLAPS: types, the inductive invariant and its safety theorems, the refinement of `ProcessTable`; memory of live processes is disjoint, and the leaves are the certified, until a failure spoils it |
| `Runway`, `MCRunway` | the forced switch at the grain of a leaf's instructions |
| `Runway_proofs` | TLAPS: the forced switch is transparent |
| `RxRing` | the receive ring at the grain of its memory accesses |
| `Wire` | the frames both ends exchange |
| `FrameDecoder` | the target's decoder, with real byte values |
| `Uplink`, `MCUplink` | composes host writer, handler, `RxRing` and `FrameDecoder` |
| `Uplink_proofs` | TLAPS: the ring; that the composition uses it as specified; what the decoder promises of every stream |
| `HostDecoder` | the host's decoder: plain until an ACK, frames from then on |
| `Snapshot` | the host's assembly of resource snapshots |
| `Downlink`, `MCDownlink` | composes the target's output, a link that loses bytes, `HostDecoder` and `Snapshot` |
| `Downlink_proofs` | TLAPS: what the host's decoder makes of every stream, however it is cut |
| `Desktop` | the frontend's panes, as operators on a desktop |
| `Windows`, `MCWindows` | the frontend's loop around `Desktop` |
| `Desktop_proofs`, `Windows_proofs` | TLAPS: what the operations on a desktop keep of it; the loop's invariants |
| `Common_proofs` | TLAPS: induction over numbers and finite sets, folds, and the operators on byte strings and frames |
| `Adapter` | the debug adapter around an emulator |
| `DebugConsole` | the host's debugger: commands, listings, replies |
| `Debugging`, `MCDebugging` | composes `DebugConsole`, the pseudo-terminal and `Adapter` |
| `Debugging_proofs` | TLAPS: the stream to the adapter, what the debugger's pane shows, and the replies it decodes |

### Kernel and the code

`state`, `program`, `pc`, `tty`, `preempt`, `stackTop`, `heapBase` are the
fields of a slot record; `current`, `foreground`, `childCount`, `arena`,
`mark`, `framed`, `syncActive`, `restartPending` and `rebootPending` are the
kernel's globals, `snapshot` the two descriptor cells. `cpu` and `pc` have no
word in memory: `cpu` is where the kernel code in execution stands, `pc` the
kernel loop a slot's saved stack resumes in.

A kernel routine is one action, because nothing interleaves with it, except
where a request from the handler in its middle would change the outcome. There
it is cut: `TASK_GETCHAR` between the restart check and the store of
`BLOCKED_TTY` (`GetcharCheck`, `GetcharBlock`), a restart and a reboot while
their banners are printed (`_putchar` makes the restart check again), and the
reboot between clearing the table and rewinding the shell. The scheduler's
scan is one step per slot.

Abstractions: a ring is the number of bytes in it; an image is its number of
words; a program is one of four kinds (the shell, a resident program, a
nonresident one, a leaf); loading fails at the header or in the payload; the
quantum is not counted, so a heartbeat may force a leaf whenever the code
would allow one with the quantum used up; a leaf is forced in its own code
only, and what else may happen is `Runway`'s.

### Runway and the code

A leaf is an image of cells: instructions that read and change its registers
and its data, and the data, which is part of the image as in the loader's
layout. `Execute` is the CPU on whatever the image holds, so the carpet of
`ADD`s is run and not assumed. `Tick`, `ForceLeaf` and `ForceKernel` are the
handler on a heartbeat, the last when kernel code is running for a leaf;
`Land` is the landing handler; `Select`, `Prepare`, `Launch`,
`RestoreInterrupt` and `Resume` are the dispatch, cut wherever a heartbeat
could change something. Registers are `r0`, `r1` and `rest` (the other
registers and the condition); the order of the scan, reboots and the memory of
the allocator are `Kernel`'s. A second heartbeat does not come before the
kernel's next step: they are 10 ms apart, and these steps take microseconds.

### Uplink and the code

The host writes *units*: an encoded frame, a heartbeat, a restart or reboot
escape, or noise. `Interrupt` is the handler on one byte, `HandlerPut` its
calls of `_preemption_enqueue`, which finish before anything else runs.
`PollStep` and `PollByte` are `_tty_poll_uart`, cut as in `RxRing`. A session
starts plain or already framed; the host writes frames other than HELLO only
once the target is framed. `accepted`, `taken`, `sent`, `controls` and `lost`
are history variables.

### Downlink and the code

`HostDecoder`'s `Push` is `ConnectionDecoder::push` byte for byte: the ACK
looked for in plain text, the suffix of a read that may begin one retained,
what follows it in its own read decoded as frames, and a bad candidate given
up for one byte and scanned again. `Snapshot`'s `Pushed` is
`SnapshotAssembler::push`. In `Downlink` the target prints a byte (`PutByte`,
as text or in a frame), answers HELLO (`AnswerHello`) and reports
(`AnswerResources`: the kernel sends all records of a report before it does
anything else, so they are one step, in their order). The host attaches, reads
pieces, repeats HELLO, asks and reconnects.

Abstractions: a record is its kind, generation, endpoint and one value (the
number of the report, since counters move on in between), where the code has
several figures; only the current record lengths are accepted, where the code
also takes older, shorter ones. `disconnect` and `Negotiator` are called by
tests only.

### Windows and the code

`Desktop` holds what `ui.rs` does to panes; each operator is one of its
functions. `Windows` is the loop of `run_windows`. The items of one read of the
line and the keys of one read of the keyboard are steps of their own, in any
order; `EndOfPass` is the rest of a pass: what timers are due, one character of
what is typed on the shell's behalf, and the write. Every key the loop knows is
in `Keyboard`, every frame in `Serial`.

Abstractions: a line of text is a length, and a pane its number of lines; a
search, and how a pane is painted, are left out, except that painting panics
when there is no pane; the backlog counts frames, where the code counts bytes;
the target's processes come and go in `Process`, with the names `Programs` may
give them, and any record of a snapshot may be lost: without its `PROCESS`
record a process has state 0 and does not count as running, without its
`PROCESS_IO` record it has no name. `Names` is all the titles a pane can have.
The page keys of copy mode are one (`CopyKey`), and of the keys read at once,
up to 256 in the code, one at most is taken that has something to queue
(`Turn`). A *session* (`MCWindows`) is a set
of keys, frames and texts with a bound on how many events there are.

### Debugging and the code

`Adapter` has the adapter's `Decoder::push`, `handle_frame` and the batch loop.
The emulator and the target in it are external: a batch ends in any way the
adapter has a case for, and the target answers its requests in order, each
answer whole or in two halves. `DebugConsole` is `DebugConsole` of `debug.rs`:
commands with their addresses resolved as number, symbol or line, listings,
disassembly from the map or from memory. A batch that ends at an invalid
instruction or at a stack's bound has halted (`StopReasons`): the adapter treats
these alike but for the text. `Debugging` puts the pseudo-terminal
between them, which loses nothing and is read in pieces, with heartbeats and
restart requests on it.

Abstractions: what the target puts into its records, the frames of a
backtrace, the map's views and the mnemonics are left out. A halved answer is
given up by the host's decoder when something else comes in between
(`GiveUp`), where the code waits for the length it claims.

## 3. Plan

Done: the kernel with its table specification and proofs, the forced switch
with its proof, the ring, both decoders, the way up, the way down with
snapshots, the frontend, the debugger, and proofs of all but liveness for the
most part (section 5). To come:

1. time records in the scheduler's input routing (`catalog-spawn.s` 5330-5500),
   which needs a TTY ring with contents;
2. `Ipc` for `context-switch.s`, and the line terminal's loop;
3. a composition of `Runway` and `Kernel`, with `ForceSwitch` as its image;
4. proofs: `FramesExact`, `SnapshotTrue` and `LossCostsOneFrame` under the
   conditions section 5 gives for them.

## 4. Runs

| Run | Bounds | Shows |
|---|---|---|
| `KernelTable` | 3 slots, one program of each kind, both load faults, 10 stack and 9 heap words | `ChildCountExact`, `NoLeak`, `ArenaSoundUnspoiled`, `EligibleUnspoiled`, `MemoryStable` |
| `KernelControl` | 3 slots, one resident program, all input, both requests, joins, synchronous runs | `TypeOK`, `NoLostKeystroke`, `FocusAlive`, `SyncDescriptorExact`, `ImplementsTable` |
| `KernelLive` | 3 slots, a resident program that reads and yields and a leaf; a shell that reads, spawns, kills and joins; plain input, both requests, fairness | `RestartServed`, `RebootServed`, `KillServed`, `RunnableDispatched` |
| `Runway` | two leaves with images of 5 cells, 16 addresses, a quantum of 1, any kills and spawns | `Transparent`, `InterruptsReturn` |
| `Uplink` | ring of 6, frames of up to 4 bytes, 2 units, at most 1 byte lost, count behind by at most 2 | `CountNeverOverstates`, `FifoWhileItFits`, `PayloadFits`, `FrameSound`, `FramesExact`, `ControlsExact` |
| `Downlink` | 2 processes, 2 bytes printed or reports asked for, 13 bytes under way, one fault: a loss of 1 or 21 bytes, of a request, or a reconnect | `Conservation`, `AckNotMissed`, `ReadsEquivalent`, `FrameSoundHost`, `LossCostsOneFrame`, `SnapshotTrue`, `Negotiated` |
| `Windows` | 7 sessions of 2 to 5 events, 4 channels, scrollback of 2, backlog of 3 frames, two records lost | `WindowsTypeOK`, `FocusKept`, `EndedSound`, `OneReader`, `TimeModesExact`, `ScrollOnText`, `DropsAnnounced` |
| `Debugging` | 4 sessions of 2 or 3 requests, pages of 4 and 6 lines, reads of 2 bytes or all there is | `UnitsExact`, `ViewCurrent`, `DecodedOnce`, `InstructionsListed` |

Why the bounds are enough.

*Kernel.* Three slots are two children: the least number for one to fail, exit
or be killed while another lives, and for the second descriptor cell to be
used by its own slot only. The memory of `KernelTable` is a few words short of
what two children of any kind need, so allocation fails at each of its stages,
and it holds several children one after the other in a generation. A TTY ring
of one byte is empty, or full. `KernelLive` has the two ways a process waits,
for input and in a join: the shell reads, which is where it usually stands when
a request comes, and it joins all children, a loop of the same form as the join
of one, whose target would only multiply the states. It never calls
`TASK_YIELD`, as the shell's program does not. Input is plain, since framed
input does to a process what plain input does to the one in focus; and programs
need no memory but an image of two words, enough for a spawn to fail beside a
living leaf, because what memory a process has decides nothing about when it
runs.

*Runway.* Two leaves share the jump and the handler's variables, and three
would do nothing two do not. The image has an instruction of each kind the
argument tells apart: one that reads data, one that is the carpet's own `ADD`,
one that changes the image, and a jump back; it is interrupted at each.

*Uplink.* The ring of six wraps within a frame, is full while the poll is
slow, and loses a byte in the header, the payload and the sum of every frame;
the bounds on loss and lag cut the search, not the properties: the state that
crosses a bound is still checked.

*Downlink.* A report of two processes is nine records, more than 13 bytes: the
bound is the one at which the target stops *before* it sends, as it waits for
CTS, so a report is still under way as a whole. Reads of nine bytes cut every
record (10 to 12 bytes) at another place from one read to the next, and
`ReadsEquivalent` compares each read with every cut of it besides. One byte
lost shortens a frame; 21 are the end of one report and the beginning of the
next. The retry makes any number of losses before it the same as one.

*Windows.* Each session asks for another part of the frontend, and together
they have every key and every frame. Five events are enough to open a pane,
turn to it, lose it, and have a snapshot say so twice; four channels are the
shell's, two with programs and one more to move to. A backlog of three frames
is stalled at two and full at three.

*Debugging.* Addresses are chosen whose bytes look like the beginnings of a
frame and of a heartbeat, the gaps between instructions' lines are below, at
and above a page, and three requests are enough for a memory reply to meet
another `dis`.

Fairness. In `KernelLive` it is what the hardware gives: the CPU does not stop
in kernel code (weak fairness of each kernel step, the turns of the join loops
among them), a resident program comes back to a yield or a read
(`GetcharCheck \/ TaskYield`: the catalog's programs are loops around one), and
heartbeats keep coming (`ForceSwitch \/ ForceExit`). The shell's is strong where
it prints or reads (`ServeRequest`): it does so between any two commands, so it
does not go from one join to the next for ever without having done either.
In `Runway` the CPU executes what it is given (`Execute`, `Land`). In
`Downlink` the kernel polls its decoder and answers (weak fairness of both
answers), the host's loop attaches and reads, and its HELLO timer fires
(`HelloRetry`, `main.rs` 1544-1550); a read is enabled while bytes are under
way, and its fairness is written out so, which saves TLC the `ENABLED` of a
decoder. Nothing is assumed of operators, spawns, kills, exits or losses. Each
liveness property of the kernel names what may defeat it for good: the
operator asking for reboots again and again, children exiting again and again,
and the cases in which the code loses a request, which are next.

### Where the code does not do what it says

Each run checks one statement of the repository's documentation or comments
that the model of the code violates; the finding in `PROJECT.json` quotes it.

| Run | Violated | In short |
|---|---|---|
| `V_Rollback` | `ArenaSound` | a spawn that fails beside a living child rolls the arena back to the generation's mark: the arena then counts words of the living child as free |
| `V_ForcedKernel` | `NeverAstray` | a heartbeat between the selection of a new leaf and the setting of its quantum, which is zero until then, forces the kernel's code; a queued kill does the same just before a leaf's resume |
| `V_RestartWakeup` | `RequestKeepsShellRunnable` | a request between the shell's check and its blocking is overwritten |
| `V_UnescapedFF` | `ControlsExact` | frames are not escaped, so `FF 05` in a time frame reboots the system |

Some passing runs state what holds until then. `ArenaSoundUnspoiled` and
`EligibleUnspoiled` speak of runs in which no spawn has failed beside a living
child, and none after its image was allocated; `Transparent` of steps that do
not force the kernel; `FramesExact` is stated while no byte is lost, and
`Uplink`'s frames contain no `FF`.

`RestartServed` and `RebootServed` leave out what a request is lost through,
case by case; each case is needed, for without any one of them TLC finds a
request that is never served.

- `Overwritten`: the store of `BLOCKED_TTY` over the wakeup
  (`V_RestartWakeup`). A shell that *is* blocked for input when the request
  comes is within the properties.
- `<>[]Joining`: the shell stays in a join for good. The loops of `TASK_JOIN`
  and `TASK_JOIN_ENDPOINT` make no restart check, so the escape does not reach
  it there; one that leaves its join is served.
- `Replaced`, for the reboot only: a restart asked for while the reboot's
  banner prints is served in its place (`catalog-spawn.s` 311-317,
  `docs/protocol.md:23-26`).
- `[]<><<RequestReboot>>_vars`: the next reboot is served in the banner of the
  last, before it has cleared the table.

Six more statements of promises are in the modules, fail in the same way, and
have no run of their own:

- `PublishedComplete` (`Downlink`): `docs/protocol.md:60-61` has hosts discard
  partial generations; `resource.rs` 136-143 publishes what it has at the end
  record. A process whose records are lost is missing from a snapshot; two
  such snapshots mark it as ended.
- `PauseHolds` (`Debugging`): `docs/debugger-manual.md:171-172` has `pause`
  stop the emulator and `continue` resume it; the adapter resumes it for every
  byte it feeds (376-379), and a heartbeat is fed every 10 ms.
- `ListingContinues` (`Debugging`): a bare `list` goes on at the next
  *instruction* below the page, so comment lines in a gap of more than half a
  page are never shown (`debug.rs` 610-617, `docs/debugger-manual.md:99`).
- `NoFrameRendered` (`Downlink`): bytes of an earlier framed connection that
  wait when the frontend attaches are pushed as plain text, frames included.
- `DescriptorStable` (`Kernel`) and `NothingStranded` (`RxRing`): all slots but
  the second share one descriptor cell, so a third embedded child rewrites the
  second's (`catalog-spawn.s` 383-387); the poll's update of the ring's count
  loses the handler's, and bytes wait until others follow (`preemption.s`
  40-44).

Other behaviour met while modelling, not stated as properties.

In the kernel:

- A nonresident spawn that fails late (payload, stack) leaves its eligibility
  flag in the free slot (`catalog-spawn.s` 2169). A resident program that gets
  the slot inherits it, `_kill_endpoint` queues its kill, and no heartbeat can
  serve it, because it is not in a leaf's image. `KillServed` is checked
  without late failures.
- `docs/preemptive-multitasking.md` says interrupts remain masked while the
  shared resume jump is modified; `_preemption_landing_schedule` has enabled
  them, and the resume path runs with them on. It is harmless but for the
  window of `V_ForcedKernel`.
- A reboot before any spawn restores marks nobody has taken: both are zero
  (346-350). `NoLeak` and `ArenaSound` have `HeapAboveImage` as their premise.
- Framed input for a free slot is kept (5213-5258) and read by the slot's next
  tenant: `TASK_SPAWN` leaves the ring as it is.
- The decoder's error path resets it without looking at the consumed bytes
  again, so a frame whose sync bytes fall inside a bad one is lost;
  `docs/protocol.md:36-38` says it is recovered. The host's decoder does
  rescan, except after an unknown type.
- At a full receive ring the count is lowered before the byte is read
  (`preemption.s` 44-49), so a byte arriving in between replaces the oldest.
- `docs/protocol.md:44-45` gives a TTY ring 16 bytes; the code has 64. Frame
  types 3, 4 and 5 are decoded by the host and sent by nothing.

In the frontend:

- Releasing the last pane (an application's, after the system panes were
  closed) leaves none, and painting indexes the focused pane: it panics
  (`ui.rs` near 605). `ChannelClose` of an earlier pane can move the focus to
  another; `FocusKept` speaks of the other ways panes change.
- `x` on the shell's pane, output, and `S` give two panes channel 0; `a` keeps
  the marks of the pane it reassigns, and a channel opened again keeps
  `(ended)`.
- The broadcast confirmation stays armed through `s`, `a`, `R`, `r`, `k`, `B`
  and `e`, where `docs/windows.md:290-291` has any other key disarm it.
- A second `!` command replaces what is left of the first; a restart request
  dropped for want of room is still announced.
- `r` on a framed link neither clears the partial frame nor negotiates again
  (`docs/protocol.md:37`), and keeps the target's build; Ctrl-C after the
  prefix is swallowed; an escape sequence begun in copy mode survives its end.

In the debugger:

- The target's identity is asked for once (`main.rs` 1565); when the answer is
  lost every symbolic command is refused from then on.
- `dis A` followed by `dis B` decodes neither reply as A; an `x` at the address
  of a `dis` whose reply was lost is shown as instructions. A symbol whose name
  reads as a hexadecimal number is taken for an address.
- The adapter's answers may come between the bytes of the target's, which
  tears them, and overtake them; a notice of a stop behind a torn answer is
  held until more comes. Its decoder has no bound on a length (adapter
  `main.rs` 338): a bad length makes it wait for up to 64 KB.
- `step` on a running emulator may report "running".

## 5. Theorems

The kernel's proofs are for every number of slots (2 to 255), every set of
programs, every memory layout and every choice of calls, faults, requests and
input; all proofs are for every value of the constants that satisfies the
`ASSUME`s of the modules, and rest on no other facts.

- `Kernel_proofs`: `TypeCorrect`. The one hard part is that the arenas stay in
  range: a mark is an arena value that was in range when it was taken.
- `Kernel_proofs`, further: `SafetyInv` is inductive (`SafetyCorrect`). It
  strengthens the properties by what they need of each other: only the shell
  can stand in a restart or a reboot (so what they rewind is the shell); a
  blocked reader has `pc = "getchar"` or stands before its block; the count is
  the cardinality of the live children, which makes "zero" mean "none" for the
  reclaiming of a generation; and with no child the arena is the mark or the
  mark is about to be taken. From it: `ChildCountCorrect`, `FocusCorrect`,
  `InputCorrect`, `SyncCorrect`, `NoLeakCorrect`, and the action property
  `MemoryStableCorrect`.
- `Kernel_proofs`, refinement: `TableImplemented`. Each kernel action maps to one
  action of `ProcessTable` or to a stutter; the focus is mapped to the shell
  while a reboot stands between clearing the table and rewinding.
- `Kernel_proofs`, on memory: `ArenaCorrect`, `EligibleCorrect`, for any number of
  children, demands and memory. `HistoryInv` adds to the kernel's invariant
  that the live processes lie apart from each other and below the next
  allocation, as long as no spawn has failed beside a living child (`Laid`);
  and that a free slot carries no certificate, as long as none has failed
  late. Each allocation is cut from an arena that every live process lies
  outside of, and the arenas go back to the mark only when no child lives, or
  in the failure that is excluded. Both are promises of the code up to the
  failure that breaks them (`V_Rollback`; a late spawn failure, in section 4),
  and the theorems say so through the history variable.
- `Uplink_proofs`, the ring: `CountCorrect`, `RingTypeCorrect`, `FifoCorrect`. The poll's
  loaded count cannot exceed what is held, because only the poll takes bytes
  out. For the order, `OrderInv` says where each of the bytes accepted last
  lies modulo the capacity, which is symbolic: two indices less than a
  capacity apart never share a place.
- `Uplink_proofs`, the composition: `RingUsed` shows that every step of `Uplink` is a step of
  `RxRing` or leaves the ring alone, so that `RxRing`'s theorems hold of it
  (`UplinkCountCorrect`, `UplinkFifoCorrect`). `PayloadFitsCorrect` and
  `FrameSoundCorrect` are about every byte stream the handler lets through,
  noise included, for every payload buffer up to 255 bytes: `DecoderInv` says
  that the bytes the decoder is in the middle of are the last the poll has
  taken (`Begun`), and that its sum is theirs. That units are made of bytes is
  all these assume of the host (`UnitsAssumption`). `ControlsCorrect` needs
  more, and has it as its premise: `UnitsUnmistakable`, that an FF in a frame
  cannot be taken for an escape, which the code does not see to
  (`V_UnescapedFF`). `MCUplink` has TLC check that the run's units meet it, a
  wrapped request included, and that a time frame with `FF 05` does not.
  `ControlInv` says how far the handler is in the unit's bytes.
- `Desktop_proofs`, `Windows_proofs`: all seven properties of the run `Windows`,
  for every backlog, scrollback, set of sessions and set of names, any number
  of losses and any sequence of keys and frames. The invariant is in four
  parts. `Sound(desk)`: no two panes but the shell's have one channel, the
  focus is on a pane, no pane is scrolled above its text, an ended pane has
  been absent twice, and one that is absent has had a process. `AbsentSound`:
  a pane that was absent once is missing from the last snapshot, one absent
  twice from the last two, unless its channel was reassigned by hand; this is
  what `EndedSound` rests on and what makes it more than its own statement,
  since panes are renamed, moved, closed and claimed in between. `QueueOK`: a
  frame is being dropped only while the backlog is full. `TimesOK`: the shape of
  the time modes and of the history. `Becomes` carries the first two through
  the operations of `Desktop`, and `FocusKeptCorrect` is a statement about
  each operation in every sound desktop.
- `Downlink_proofs`: `ReadsEquivalentAlways`, `AckNeverMissed`, `FramesSound`,
  for every stream, payload limit from four bytes up, and number of losses, late
  or repeated answers and reconnects; `ConservationAlways` besides, for text
  without one of the two sync bytes (`TextPlain`, which ASCII meets). The host's
  decoder goes over its input in loops, and a read of `x \o y` is not one loop
  after another: `ScanAppend` shows that scanning `x`, keeping what may begin a
  frame or an ACK, and scanning on with `y` is scanning both (`PushCut`); from
  that, how a stream is cut makes no difference. `Sought` says that what a plain
  host keeps is a true beginning of an ACK and that nothing before it is one.
  `RecodeIs` is that a frame the decoder hands on, encoded again, is the bytes
  it was read from, its checksum included. For conservation `Flow` says
  what the target has sent: text and behind it frames (`Sent`), which the host
  has taken, keeps or has yet to read. An ACK the host finds in that begins one
  of the frames (`AckAtFrame`), so what it took for text was text, and what it
  decodes from there on are the frames that follow (`ScanSplits`).
- `Debugging_proofs`: `UnitsExactAlways`, `ViewCurrentAlways`,
  `DecodedOnceAlways`, for any memory, windows of a listing, numbers of requests
  and cuts of the pseudo-terminal's stream; and `InstructionsListedAlways`, for
  maps whose lines are in the order of their addresses (`MapsInOrder`, the
  order they are made in). The invariant has `LinkTyped`, `UnitsExact` with
  the types: what the adapter's side has taken and what it will make of the bytes
  it keeps and those under way are the units as they were written, and nothing is
  left over. `View` adds what holds of the replies under way (`Fine`): the last
  breakpoints told are the ones there are, and an emulator that stands still was
  not last reported to run. `Counted` has no more instructions decoded at an
  address than were asked for there. `Listings` says that what a listing has
  shown of a file reaches to where it will go on, with no instruction left out.
- `Common_proofs`: what the others rest on. A set of numbers with 0 and each
  successor is all of them, from the well-foundedness of the numbers; from that,
  for a fold over a finite set, that it has a value, that the value stays in a
  set its steps stay in, and that it keeps a relation its steps keep; that a loop
  which takes something off a finite store ends, and where (`Orbit`); the cutting
  and joining of byte strings, the flattening of sequences of them, and what
  `Encode` makes of a frame and a reader of it. The sums of the decoders, the
  texts pushed to panes, the renaming from a snapshot and the queueing of frames
  are folds; the two host-side decoders are loops.
- `Runway_proofs`: `ContextsKept`, `TransparentCorrect`, for any number of
  leaves, any code that ends in its jump back, any addresses, word size and
  quantum. `RunwayInv` says where a living leaf's context is (in the CPU, on
  the runway, in its frame, or not begun) and that it is a state of its own
  program. On the runway it needs one equation, `OnRunway`'s: what r0 has left
  to count is the way the CPU has left to the jump, so that at the landing r0
  is the PC. Each `ADD` of the word -1 takes one from both (`MinusOne`), and
  never wraps: before the landing r0 is the interrupted PC and the way left,
  which is at least one. The invariant holds until the handler forces the kernel
  (`V_ForcedKernel`), and both theorems say so.

What is assumed of the constants is what the code has: 2 to 255 slots, memory
that holds the shell, a ring of at least one byte that can hold 0, a payload
buffer of at most 255 bytes (the decoder refuses a length above), a host's
payload limit of at least four, addresses of 24 bits, fields and text of bytes,
endpoints from 1 to 16, a backlog of at least one frame whose threshold is
within it, names that include those the frontend itself gives, and that the
value that stands for no number is none.

Model-checked only:

- everything temporal (`KernelLive`, `InterruptsReturn`, `Negotiated`): it
  rests on fairness, which the prover does not reach;
- `ArenaSound` and `EligibleIsLeaf` without their conditions, which the code does
  not keep;
- `FramesExact`, which follows every unit through the handler, the ring and
  both modes of the decoder, and compares all that was sent with all that came
  out;
- `SnapshotTrue`: the generation that tells reports apart is a byte, so two
  reports 256 apart have the same, and what a loss leaves of two records can
  read as one. It holds within the run's one fault, and for every value of the
  constants it would need that neither happens;
- `LossCostsOneFrame`: a frame spliced from two has the right checksum once in
  256 times, and then costs more.

## 6. Not modelled

- The time broadcast on the target: the private time words, and the escaped
  records put into an application's ring byte by byte. `Windows` has which
  time frames are sent.
- `context-switch.s`: the first milestone's kernel, apart from the catalog's.
- The catalog's contents and its checks, the loader's checksum and relocation
  and the SD provider's cache (only their outcomes appear), the drivers, the
  statistics counters and their high-water marks.
- The PL/SW programs beyond the calls they make.
- te-rs without `--windows`: one sequential loop over the same decoders; the
  upload, in which the operator's monitor echoes each line.
- The disassembler, the session report and the offline scripts: functions of
  their input, without state.
- A physical reset, and a target without interrupts, are outside every model.
