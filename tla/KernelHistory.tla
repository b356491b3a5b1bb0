--------------------------- MODULE KernelHistory ---------------------------
(***************************************************************************)
(* Kernel with a history of the two failures that spoil the allocator's    *)
(* and the certificates' promises: once it has happened, a spawn that      *)
(* fails beside a living child has given that child's memory away (run     *)
(* V_Rollback), and one that fails after its image was allocated has left  *)
(* its certificate in a free slot.                                         *)
(***************************************************************************)
EXTENDS Kernel

VARIABLE spoiled    \* which of the two have happened

SiblingFailure ==
    /\ arena # mark /\ arena' = mark
    /\ LiveChildren # {} /\ LiveChildren' = LiveChildren
LateFailure == \E s \in Children : state'[s] = Free /\ preempt'[s].eligible

HistoryInit == Init /\ spoiled = {}
HistoryNext ==
    /\ Next
    /\ spoiled' = spoiled \union (IF SiblingFailure THEN {"beside"} ELSE {})
                          \union (IF LateFailure THEN {"late"} ELSE {})
SpecWithHistory == HistoryInit /\ [][HistoryNext]_<<vars, spoiled>>

(* As long as no spawn fails beside a living child, the memory of live
   processes is disjoint and below what is allocated next. *)
ArenaSoundUnspoiled == "beside" \notin spoiled => ArenaSound

(* As long as no image is loaded in vain, exactly the leaves are certified. *)
EligibleUnspoiled == "late" \notin spoiled => EligibleIsLeaf
=============================================================================
