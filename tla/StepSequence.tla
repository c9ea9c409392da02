---------------------------- MODULE StepSequence ----------------------------
(***************************************************************************)
(* What the episodic memory of one task promises its readers: a sequence   *)
(* of steps that only grows at its end, and announcements, each of a step  *)
(* that is already in the sequence and none of them made twice.  StepLog   *)
(* shows how the event emitter keeps this promise with a database and a    *)
(* pub/sub channel.                                                        *)
(***************************************************************************)
EXTENDS Naturals, Sequences

CONSTANT StepTypes          \* the kinds of step that may be recorded

VARIABLES
  steps,                    \* the recorded step types; position = step number
  announced                 \* the step numbers announced to subscribers

seqVars == <<steps, announced>>

SeqInit ==
  /\ steps = << >>
  /\ announced = {}

(* A step is recorded at the next free number; nothing recorded changes. *)
RecordStep(type) ==
  /\ steps' = Append(steps, type)
  /\ UNCHANGED announced

(* A recorded step is announced, for the first and only time. *)
AnnounceStep(n) ==
  /\ n \in DOMAIN steps \ announced
  /\ announced' = announced \cup {n}
  /\ UNCHANGED steps

SeqNext ==
  \/ \E type \in StepTypes : RecordStep(type)
  \/ \E n \in DOMAIN steps : AnnounceStep(n)

SeqSpec == SeqInit /\ [][SeqNext]_seqVars
=============================================================================
