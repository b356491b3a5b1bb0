---------------------------- MODULE ProcessTable ----------------------------
(***************************************************************************)
(* What the kernel promises about its process table and the keyboard,      *)
(* without memory, scheduling, input or preemption: which program owns     *)
(* which slot, and which slot has input focus.  Kernel implements it.      *)
(***************************************************************************)
EXTENDS Integers

CONSTANTS NSlots, Programs, ShellProgram, NoProgram

Slots == 1..NSlots
Shell == 1
Children == 2..NSlots

VARIABLES owner, focus
tvars == <<owner, focus>>

Init ==
    /\ owner = [s \in Slots |-> IF s = Shell THEN ShellProgram ELSE NoProgram]
    /\ focus = Shell

(* A child starts in the lowest unowned slot and gets the keyboard. *)
Start(s, p) ==
    /\ owner[s] = NoProgram
    /\ \A t \in Children : t < s => owner[t] # NoProgram
    /\ owner' = [owner EXCEPT ![s] = p]
    /\ focus' = s

(* A child ends, by itself or by a kill; if it had the keyboard the prompt
   gets it back, and otherwise the keyboard stays where it is. *)
Finish(s) ==
    /\ owner[s] # NoProgram
    /\ owner' = [owner EXCEPT ![s] = NoProgram]
    /\ focus' = IF focus = s THEN Shell ELSE focus

(* The shell runs a program in its own slot, and gets its name back. *)
Become(p) ==
    /\ owner[Shell] = ShellProgram
    /\ owner' = [owner EXCEPT ![Shell] = p]
    /\ UNCHANGED focus

BecomeShell ==
    /\ owner' = [owner EXCEPT ![Shell] = ShellProgram]
    /\ focus' \in {focus, Shell}

ClaimFocus == focus' = Shell /\ UNCHANGED owner

(* A reboot ends every child at once. *)
FinishAll ==
    /\ owner' = [s \in Slots |-> IF s = Shell THEN owner[s] ELSE NoProgram]
    /\ focus' = Shell

Next ==
    \/ \E s \in Children : \E p \in Programs : Start(s, p)
    \/ \E s \in Children : Finish(s)
    \/ \E p \in Programs : Become(p)
    \/ BecomeShell
    \/ ClaimFocus
    \/ FinishAll

Spec == Init /\ [][Next]_tvars
=============================================================================
