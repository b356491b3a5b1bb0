------------------------------- MODULE RxRing -------------------------------
(***************************************************************************)
(* The receive ring between the UART interrupt handler and the scheduler's *)
(* poll (preemption.s).  _preemption_enqueue runs inside the handler and   *)
(* cannot be interrupted; _preemption_rx_dequeue runs with interrupts on,  *)
(* so a byte may arrive between any two of its instructions.  It is split  *)
(* where that matters: after it has read the count, and after it has       *)
(* written it.                                                             *)
(***************************************************************************)
EXTENDS Integers, Sequences

CONSTANTS
    Capacity,   \* bytes the ring holds (512 on the target)
    Byte        \* bytes the UART may deliver

ASSUME RingAssumption == Capacity \in Nat \ {0} /\ Byte \subseteq Nat /\ 0 \in Byte

Positions == 0..Capacity - 1

VARIABLES
    count,      \* _preemption_rx_count
    head,       \* _preemption_rx_head, where the handler writes
    tail,       \* _preemption_rx_tail, where the poll reads
    data,       \* _preemption_rx_data
    poll,       \* where _preemption_rx_dequeue stands
    loaded,     \* the count it read, in r0
    accepted,   \* history: the bytes the handler put in the ring
    taken       \* history: the bytes the poll returned

ring == <<count, head, tail, data, accepted>>
polling == <<poll, loaded, taken>>
ringVars == <<ring, polling>>

RingInit ==
    /\ count = 0 /\ head = 0 /\ tail = 0
    /\ data = [i \in Positions |-> 0]
    /\ poll = "idle" /\ loaded = 0
    /\ accepted = <<>> /\ taken = <<>>

(* head and tail are masked to the ring. *)
AfterShort(i) == (i + 1) % (Capacity - 1)
After(i) == (i + 1) % Capacity

(* _preemption_enqueue: a full ring drops the byte. *)
FullAt == Capacity

Put(b) ==
    /\ count # FullAt
    /\ count' = count + 1
    /\ data' = [data EXCEPT ![head] = b]
    /\ head' = After(head)
    /\ accepted' = Append(accepted, b)
    /\ UNCHANGED <<tail, polling>>

Drop == count = FullAt /\ UNCHANGED ringVars

(* _preemption_rx_dequeue: nothing to do at zero; otherwise the count that was
   read, less one, is written back, and then the byte at tail is taken. *)
LoadCount ==
    /\ poll = "idle" /\ count > 0
    /\ loaded' = count
    /\ poll' = "store"
    /\ UNCHANGED <<ring, taken>>

CountKept == loaded
CountWritten == loaded - 1

StoreCount ==
    /\ poll = "store"
    /\ count' = CountWritten
    /\ poll' = "take"
    /\ UNCHANGED <<head, tail, data, accepted, loaded, taken>>

TakeByte ==
    /\ poll = "take"
    /\ taken' = Append(taken, data[tail])
    /\ tail' = After(tail)
    /\ poll' = "idle"
    /\ UNCHANGED <<count, head, data, accepted, loaded>>

RingNext == (\E b \in Byte : Put(b)) \/ LoadCount \/ StoreCount \/ TakeByte

RingSpec == RingInit /\ [][RingNext]_ringVars

-----------------------------------------------------------------------------
(* Every variable of the ring holds a value its storage can hold. *)
RingTypeOK ==
    /\ count \in 0..Capacity /\ loaded \in 0..Capacity
    /\ head \in Positions /\ tail \in Positions
    /\ data \in [Positions -> Byte]
    /\ poll \in {"idle", "store", "take"}
    /\ accepted \in Seq(Byte) /\ taken \in Seq(Byte)

(* Bytes in the ring that the poll has not returned. *)
Held == Len(accepted) - Len(taken)

(* However the handler cuts into the poll, the count never says more than the
   ring holds: the poll never returns a byte that did not arrive. *)
CountNeverOverstates ==
    count + (IF poll = "take" THEN 1 ELSE 0) <= Held

(* A byte the poll returns is the next one accepted, unless more bytes are
   held than the ring has room for. *)
FifoWhileItFits ==
    [][taken' # taken /\ Held <= Capacity =>
         taken' = Append(taken, accepted[Len(taken) + 1])]_ringVars

(* A poll that finds the ring empty has returned every byte accepted. *)
NothingStranded == poll = "idle" /\ count = 0 => Held = 0
=============================================================================
