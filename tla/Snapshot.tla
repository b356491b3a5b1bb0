------------------------------ MODULE Snapshot ------------------------------
(***************************************************************************)
(* The host's assembly of resource snapshots (te-rs resource.rs) out of    *)
(* the records the target answers a request with.  A record keeps its      *)
(* kind, its generation, its endpoint and one value: <<kind, generation>>  *)
(* followed by the body.                                                   *)
(***************************************************************************)
EXTENDS Integers, SequencesExt

CONSTANT None

VARIABLE assembler      \* SnapshotAssembler: pending and current, None or a snapshot

BEGIN == 1
MEMORY == 2
PROCESS == 3
PROCESS_IO == 4
END == 5
PREEMPTION == 6

Empty == [pending |-> None, current |-> None]

(* The bytes the body of a record has, here one for each field. *)
BodyLength(kind) == IF kind \in {MEMORY, END} THEN 1 ELSE 2

Begun(generation) == [generation |-> generation, memory |-> 0, errors |-> 0,
                      processes |-> [endpoint \in {} |-> 0]]

(* entry(endpoint).or_default(), and the field the record sets. *)
Fresh == [process |-> 0, io |-> 0, preemption |-> 0]
Entry(processes, endpoint) ==
    IF endpoint \in DOMAIN processes THEN processes[endpoint] ELSE Fresh
Stored(snapshot, endpoint, field, value) ==
    [snapshot EXCEPT !.processes =
        [e \in DOMAIN @ \cup {endpoint} |->
            IF e = endpoint THEN [Entry(@, e) EXCEPT ![field] = value] ELSE @[e]]]

Updated(snapshot, kind, body) ==
    CASE kind = MEMORY -> [snapshot EXCEPT !.memory = body[1]]
      [] kind = PROCESS -> Stored(snapshot, body[1], "process", body[2])
      [] kind = PROCESS_IO -> Stored(snapshot, body[1], "io", body[2])
      [] kind = PREEMPTION -> Stored(snapshot, body[1], "preemption", body[2])
      [] kind = END -> [snapshot EXCEPT !.errors = body[1]]

(* A record goes into the pending snapshot of its own generation, or nowhere. *)
FitsAny(pending, generation) == pending # None
Fits(pending, generation) == pending # None /\ pending.generation = generation

(* SnapshotAssembler::push *)
Pushed(a, payload) ==
    LET kind == payload[1]
        generation == payload[2]
        body == SubSeq(payload, 3, Len(payload))
        snapshot == Updated(a.pending, kind, body)
    IN  CASE Len(payload) < 2 -> a
          [] Len(payload) >= 2 /\ kind = BEGIN -> [a EXCEPT !.pending = Begun(generation)]
          [] Len(payload) >= 2 /\ kind \in {MEMORY, PROCESS, PROCESS_IO, PREEMPTION, END}
             /\ Fits(a.pending, generation) /\ Len(body) = BodyLength(kind) ->
                IF kind = END THEN [pending |-> None, current |-> snapshot]
                ELSE [a EXCEPT !.pending = snapshot]
          [] OTHER -> a

Assemble(payloads) == assembler' = FoldLeft(Pushed, assembler, payloads)

(* SnapshotAssembler::default, on a reconnect. *)
Discard == assembler' = Empty
=============================================================================
