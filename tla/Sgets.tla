------------------------------- MODULE Sgets --------------------------------
(***************************************************************************)
(* The commands of a session as they arrive (sgets, src/src/nonblock.cc,   *)
(* and a_protocol::run, src/src/agent.cc).  The connection is a sequence of*)
(* bytes that is read in pieces of any size; lines are cut out of it, one  *)
(* per timeslice, and what was read beyond the line is held back.  A line  *)
(* that does not fit is given up, and its rest is made a remark.           *)
(*                                                                         *)
(* The bytes of the k-th line the client sends are k, and 0 ends it; the   *)
(* word "remark " is the single byte Remark.                               *)
(***************************************************************************)
EXTENDS Integers, Sequences, SequencesExt

CONSTANTS
  Space,     \* max_net_cmd
  MaxLines,  \* bound: lines the client sends
  MaxLen,    \* bound: bytes of a line, without its end
  Blank      \* does the client send empty lines?

ASSUME SgetsAssumption ==
  /\ Space \in Nat /\ Space > 1 /\ MaxLines \in Nat /\ MaxLen \in Nat
  /\ Blank \in BOOLEAN

VARIABLES
  lengths,   \* the lengths of the lines sent so far
  net,    \* bytes that were sent and not read
  part,   \* sgets_buff
  phase,  \* "asleep" in block_table, "queued", "waits" (PA_WAIT), "gone"
  ran     \* the lines given to run_command

sgetsVars == <<lengths, net, part, phase, ran>>

End    == 0
Remark == -1
LineBytes(k, n) == [i \in 1..n |-> k]

SgetsInit == lengths = <<>> /\ net = <<>> /\ part = <<>> /\ phase = "asleep" /\ ran = <<>>

\* The client sends a line.
SendLine ==
  /\ phase # "gone" /\ Len(lengths) < MaxLines
  /\ \E n \in (IF Blank THEN 0 ELSE 1)..MaxLen :
       /\ lengths' = Append(lengths, n)
       /\ net' = net \o LineBytes(Len(lengths) + 1, n) \o <<End>>
  /\ UNCHANGED <<part, phase, ran>>

HasLine(s) == \E i \in 1..Len(s) : s[i] = End
FirstEnd(s) == CHOOSE i \in 1..Len(s) : s[i] = End /\ \A j \in 1..i - 1 : s[j] # End

\* what is held back after a line was cut out of s
HeldNothing(s) == <<>>
HeldAll(s) == s
Held(s) == SubSeq(s, FirstEnd(s) + 1, Len(s))

TooLong(s) == Len(s) >= Space

\* what a line that is given up leaves
Forgotten == <<>>
GivenUp == <<Remark>>

\* PA_NEXT: is there another line in sgets_buff?
Sleeps(p) == "asleep"
GoesOn(p) == IF HasLine(p) THEN "queued" ELSE "asleep"

\* a_protocol::run with a line: an empty one is not a command.
Handle(line, p) ==
  IF line = <<>>
  THEN phase' = "asleep" /\ ran' = ran
  ELSE /\ ran' = Append(ran, line)
       /\ phase' \in {GoesOn(p), "waits", "gone"}

\* sgets, once s has been read
Cut(s) ==
  IF HasLine(s)
  THEN part' = Held(s) /\ Handle(SubSeq(s, 1, FirstEnd(s) - 1), Held(s))
  ELSE /\ part' = IF TooLong(s) THEN GivenUp ELSE s
       /\ phase' = "asleep" /\ ran' = ran

\* A line is held back: the connection is not read.
Enough == HasLine(part) /\ Cut(part) /\ net' = net

\* A piece is read after what is held back.
Read ==
  /\ ~HasLine(part)
  /\ \E k \in 1..Len(net) :
       /\ k <= Space - Len(part)
       /\ Cut(part \o SubSeq(net, 1, k))
       /\ net' = SubSeq(net, k + 1, Len(net))

\* EAGAIN
Nothing ==
  /\ ~HasLine(part) /\ net = <<>>
  /\ phase' = "asleep" /\ UNCHANGED <<net, part, ran>>

\* wakeup() of the session; select() has found something
Woken == phase = "asleep" /\ net # <<>> /\ (Enough \/ Read) /\ UNCHANGED lengths

\* sched_sel()->timeslice()
Dispatch == phase = "queued" /\ (Enough \/ Read \/ Nothing) /\ UNCHANGED lengths

\* The stream's completion schedules the session.
Completed == phase = "waits" /\ phase' = "queued" /\ UNCHANGED <<lengths, net, part, ran>>

SgetsNext == SendLine \/ Woken \/ Dispatch \/ Completed

SgetsSpec == SgetsInit /\ [][SgetsNext]_sgetsVars /\ WF_sgetsVars(Woken) /\ WF_sgetsVars(Dispatch) /\ WF_sgetsVars(Completed)

-----------------------------------------------------------------------------
Fits(k) == lengths[k] \in 1..Space - 1

\* Commands are run whole, in the order they were sent and none twice, and what
\* is left of a line that was too long is never a command.
Whole ==
  \A i \in 1..Len(ran) :
    \/ Head(ran[i]) = Remark
    \/ LET k == Head(ran[i]) IN Fits(k) /\ ran[i] = LineBytes(k, lengths[k])

InOrder ==
  \A i, j \in 1..Len(ran) : i < j =>
    \A a \in ToSet(ran[i]) \ {Remark}, b \in ToSet(ran[j]) \ {Remark} : a < b

\* No command is left out: one that fits was run before any byte of a later line
\* was cut off.
NoneSkipped ==
  \A k \in 1..Len(lengths) :
    Fits(k) => \/ LineBytes(k, lengths[k]) \in ToSet(ran)
               \/ \E i \in 1..Len(net) : net[i] = k
               \/ \E i \in 1..Len(part) : part[i] = k

\* However the connection cuts them into pieces, commands are run whole, in order, each
\* once and none left out, and what is left of a line that was too long is never a
\* command (sgets, src/src/nonblock.cc; a_protocol::run, src/src/agent.cc).
WholeLines == Whole /\ InOrder /\ NoneSkipped

\* A command that was sent is run, unless the session ends or the client sent an
\* empty line, after which a_protocol::run does not look for another one.
Handled ==
  \A k \in 1..MaxLines :
    (Len(lengths) >= k /\ Fits(k)) ~>
      \/ Len(lengths) >= k /\ LineBytes(k, lengths[k]) \in ToSet(ran)
      \/ phase = "gone" \/ 0 \in ToSet(lengths)
=============================================================================
