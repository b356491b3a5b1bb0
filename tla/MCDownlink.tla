----------------------------- MODULE MCDownlink -----------------------------
EXTENDS Downlink

(* 165 is the first sync byte: text may look like the start of a frame. *)
MCTyped == {165}
ASSUME TextPlain
MCReads == {9}
(* One byte, or the end of a report with the beginning of the next. *)
MCBursts == {1, 21}
=============================================================================
