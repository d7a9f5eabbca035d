------------------------------ MODULE Delivery ------------------------------
(***************************************************************************)
(* What a stream promises to the client that sends appl (ttscp.sgml, the   *)
(* appl command): the utterances of the text come out of the output module *)
(* all of them, each once and in order; the completion reply is sent when  *)
(* the last one is out, and only then is another command read.  Nothing is *)
(* said of agents, queues and wake-ups.                                    *)
(***************************************************************************)
EXTENDS Naturals, Sequences

CONSTANT MaxUtt             \* bound: utterances in a text

VARIABLES
  phase,      \* "reads", "runs" or, once completed, "done"
  rest,       \* utterances not yet delivered
  delivered   \* utterances delivered for the current command

vars == <<phase, rest, delivered>>

Init == phase = "reads" /\ rest = <<>> /\ delivered = <<>>

Start ==
  /\ phase = "reads"
  /\ \E k \in 1..MaxUtt : rest' = [i \in 1..k |-> i]
  /\ phase' = "runs" /\ delivered' = <<>>

\* One or more utterances leave together; the last ones complete the command.
Emit ==
  /\ phase = "runs"
  /\ \E n \in 1..Len(rest) :
       /\ delivered' = delivered \o SubSeq(rest, 1, n)
       /\ rest' = SubSeq(rest, n + 1, Len(rest))
       /\ phase' = IF n = Len(rest) THEN "done" ELSE "runs"

Continue == phase = "done" /\ phase' = "reads" /\ UNCHANGED <<rest, delivered>>

Next == Start \/ Emit \/ Continue

\* The safety part of the promise.
Safe == Init /\ [][Next]_vars

Spec == Safe /\ WF_vars(Emit) /\ WF_vars(Continue)
=============================================================================
