------------------------------ MODULE MCKernel ------------------------------
(* Small instances of Kernel: the programs of the catalog reduced to one of
   each kind, and memory regions of a few words. *)
EXTENDS Kernel

CONSTANTS counter, embedded, hog, shell, none

MCPrograms == {counter, embedded, hog}
MCEmbedded == {embedded, hog}
MCLeaf == {hog}
MCCounter == {counter}
MCCounterHog == {counter, hog}
MCTwoImages == {embedded, hog}
MCNone == {}

MCDemand == [p \in Programs |->
    CASE p = counter  -> [state |-> 1, live |-> 0, stack |-> 2]
      [] p = embedded -> [state |-> 0, live |-> 1, stack |-> 1]
      [] p = hog      -> [state |-> 0, live |-> 1, stack |-> 1]]
(* Next to nothing, for the liveness run: an image is two words, a resident
   program needs none. *)
MCSlight == [p \in Programs |-> [state |-> 0, live |-> 0, stack |-> 0]]
MCShellDemand == [state |-> 1, live |-> 0, stack |-> 2]
=============================================================================
