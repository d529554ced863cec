---------------------------- MODULE AtomicDecode ----------------------------
(***************************************************************************)
(* What Decoder::decode_into, decode_outputs_into (one serial output) and  *)
(* decode_chunks promise their caller (lib.rs): a call appends the whole   *)
(* content of its frame to the caller's output, or leaves the output as it *)
(* was.  A sound frame is refused only for want of memory or because the   *)
(* caller's own sink failed, and an unsound one is never accepted.         *)
(***************************************************************************)
EXTENDS Integers, Sequences, SequencesExt

CONSTANTS
  Frames,
  Sound(_, _)   \* Sound(frame, verify): the frame decodes

VARIABLES
  out,          \* the caller's output
  job,          \* the call under way, or NoJob
  verdict       \* how the last call ended

vars == <<out, job, verdict>>

NoJob == <<>>

Content(frame) == FlattenSeq([k \in DOMAIN frame.chunks |-> frame.chunks[k].bytes])

Init == out = <<>> /\ job = NoJob /\ verdict = "none"

(* decode_outputs_into empties the entry it reuses.                        *)
Start ==
  /\ job = NoJob
  /\ job' \in Frames \X BOOLEAN \X {"into", "chunks", "outputs"}
  /\ out' = IF job'[3] = "outputs" THEN <<>> ELSE out
  /\ verdict' = "none"

Accept ==
  /\ job # NoJob /\ Sound(job[1], job[2])
  /\ job' = NoJob /\ verdict' = "accepted"
  /\ out' = IF job[3] = "chunks" THEN out ELSE out \o Content(job[1])

Refuse ==
  /\ job # NoJob /\ job' = NoJob
  /\ verdict' \in (IF Sound(job[1], job[2]) THEN {"interrupted"}
                   ELSE {"refused", "interrupted"})
  /\ UNCHANGED out

Next == Start \/ Accept \/ Refuse

Spec == Init /\ [][Next]_vars
=============================================================================
