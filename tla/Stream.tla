------------------------------- MODULE Stream -------------------------------
(***************************************************************************)
(* One TTSCP stream (class stream, src/src/agent.cc) and the control       *)
(* connection that uses it.  A stream is a chain of agents: an input       *)
(* agent, processing agents, an output agent.  Every agent holds at most   *)
(* one task in inb; tasks handed over while it is busy wait in its list    *)
(* pendin, counted by pendcount, whose last cell the preceding agent       *)
(* remembers in pendout.  Agents run one at a time, from a FIFO queue of   *)
(* runnable agents or because the descriptor they sleep on became ready.   *)
(*                                                                         *)
(* A text is the sequence of its utterances, numbered from 1, and so is    *)
(* everything made from it (units, segments, waveform): agents differ in   *)
(* the control they exert, not in the sound.                               *)
(***************************************************************************)
EXTENDS Integers, Sequences

CONSTANTS
  Kind,      \* Kind[a]: the class of the a-th agent, from input to output
  PendMin,   \* option pend_min: a queue this short is refilled
  PendMax,   \* option pend_max: a queue longer than this is not extended
  Failing,   \* the agents whose run() may throw command_failed
  MaxUtt,    \* bound: utterances in the text of one appl command
  MaxAppl,   \* bound: appl commands of the control connection
  MaxIntr    \* bound: intr commands sent by other connections

Out   == Len(Kind)
Agents == 1..Out
Ctrl   == 0                 \* the a_ttscp agent that issues appl

ReleasesFirst == {"rules", "type"}                  \* inb = NULL, then the work
ReleasesLast  == {"raw", "print", "diphs", "synth"} \* the work, then inb = NULL
Outputs       == {"output", "wavefm"}               \* a_output, oa_wavefm

ASSUME KindAssumption ==
  /\ Kind \in Seq({"input", "chunk", "join", "stml"} \cup ReleasesFirst
                     \cup ReleasesLast \cup Outputs)
  /\ Len(Kind) >= 2
  /\ \A a \in 1..Len(Kind) : /\ Kind[a] = "input" <=> a = 1
                             /\ Kind[a] \in Outputs <=> a = Len(Kind)

ASSUME PendAssumption ==
  /\ PendMin \in Nat \ {0} /\ PendMax \in Nat
  /\ PendMin <= PendMax + 1

\* chunk, join and type specifications throw nothing, stml nothing else
ASSUME FailAssumption ==
  /\ Failing \subseteq {a \in 1..Len(Kind) : Kind[a] \notin {"chunk", "join", "type"}}
  /\ \A a \in 1..Len(Kind) : Kind[a] = "stml" => a \in Failing

ASSUME BoundAssumption == MaxUtt \in Nat \ {0} /\ MaxAppl \in Nat /\ MaxIntr \in Nat

VARIABLES
  inb,        \* the task the agent works on
  pendin,     \* tasks waiting for the agent
  pendcount,  \* how many of them there should be
  pendout,    \* the agents whose pointer to the last cell of the successor's pendin is set
  mark,       \* a_chunk::bm: utterances of inb passed on, or Stale
  held,       \* a_join::heldout
  runq,       \* the run queue: sched_tail first, sched_head last
  asleep,     \* agents in block_table (the input) or push_table (the output)
  callbk,     \* is stream::callbk set, i.e. an appl in the foreground?
  session,    \* the control connection "reads" commands or "waits" (PA_WAIT)
  answers,    \* completion codes sent since the latest appl
  delivered,  \* what the output module wrote since the latest appl
  applied,    \* appl commands so far
  interrupted,\* intr commands so far
  fatal       \* how the server died: an 8xx shriek or a dangling pointer used

pipe  == <<inb, pendin, pendcount, pendout, mark, held>>
sched == <<runq, asleep>>
conn  == <<callbk, session, answers, delivered, applied, interrupted>>
vars  == <<pipe, sched, conn, fatal>>

NoTask   == <<>>
Dangling == <<0>>           \* a pointer to a task that was freed or given away
Stale    == -1              \* a mark into a text that was freed

Text(k) == [i \in 1..k |-> i]

Init ==
  /\ inb       = [a \in Agents |-> NoTask]
  /\ pendin    = [a \in Agents |-> <<>>]
  /\ pendcount = [a \in Agents |-> 0]
  /\ pendout   = {}
  /\ mark      = [a \in Agents |-> 0]
  /\ held      = [a \in Agents |-> NoTask]
  /\ runq = <<>> /\ asleep = {}
  /\ callbk = FALSE /\ session = "reads" /\ answers = <<>> /\ delivered = <<>>
  /\ applied = 0 /\ interrupted = 0
  /\ fatal = "none"

Die(code) == /\ fatal' = code
             /\ UNCHANGED <<pipe, sched, conn>>

-----------------------------------------------------------------------------
(* Timeslices.  a is the agent that runs, q the run queue and z the set of *)
(* sleepers as its timeslice begins.                                       *)

Busy(a) == inb[a] # NoTask \/ pendin[a] # <<>>

IsSatiatedLate(a) == a < Out /\ pendcount[a + 1] > PendMax + 1
IsSatiated(a) == a < Out /\ pendcount[a + 1] > PendMax

\* The agent goes on to run(): it is not satiated and has something to do.
MayRun(a) == ~IsSatiated(a) /\ Busy(a)

\* An idle inb is filled from pendin before run() is called.
Takes(a) == inb[a] = NoTask
Task(a)  == IF Takes(a) THEN Head(pendin[a]) ELSE inb[a]

PendinTaken(a) == IF Takes(a) THEN [pendin EXCEPT ![a] = Tail(@)] ELSE pendin

CountTakenAlways(a) == [pendcount EXCEPT ![a] = @ - 1]
CountTaken(a) == IF Takes(a) THEN [pendcount EXCEPT ![a] = @ - 1] ELSE pendcount

PendoutKept(a) == pendout
PendoutTaken(a) == IF Takes(a) /\ Len(pendin[a]) = 1
                   THEN pendout \ {a - 1} ELSE pendout

\* unquench(): the predecessor may have been turned away, it is queued again
QueueUnquenched(a, q) == q
QueueTaken(a, q) == IF Takes(a) /\ pendcount[a] = PendMin /\ Busy(a - 1)
                    THEN Append(q, a - 1) ELSE q

\* shriek(862, "pending count incorrect")
Verdict(a) == IF Takes(a) /\ Len(pendin[a]) = 1 /\ pendcount[a] # 1
              THEN "862" ELSE fatal

\* The last act of a timeslice; left is what run() left in inb.
RequeueBusy(a, left, q)  == IF CountTaken(a)[a] # 0 THEN Append(q, a) ELSE q
RequeueNever(a, left, q) == q
Requeue(a, left, q) == IF CountTaken(a)[a] # 0 /\ left = NoTask
                       THEN Append(q, a) ELSE q

\* the new cell becomes the last one, or the only one if no last cell is known
ExtendFront(a, list, x) == <<x>> \o list
Extend(a, list, x) == IF a \in pendout THEN Append(list, x) ELSE <<x>>

\* pass(x), with left remaining in inb; again is what the agent queues after it
Pass(a, x, left, again, q) ==
  LET n      == a + 1
      queued == a \in pendout \/ inb[n] # NoTask
  IN /\ inb' = IF queued THEN [inb EXCEPT ![a] = left]
                         ELSE [inb EXCEPT ![a] = left, ![n] = x]
     /\ pendin' = IF queued
                  THEN [PendinTaken(a) EXCEPT ![n] = Extend(a, @, x)]
                  ELSE PendinTaken(a)
     /\ pendcount' = IF queued THEN [CountTaken(a) EXCEPT ![n] = @ + 1]
                               ELSE CountTaken(a)
     /\ pendout' = IF queued THEN PendoutTaken(a) \cup {a} ELSE PendoutTaken(a)
     /\ runq' = Requeue(a, left, QueueTaken(a, q)
                                 \o (IF queued THEN <<>> ELSE <<n>>) \o again)
     /\ fatal' = Verdict(a)

\* run() returns and passes nothing; left remains in inb.
Keep(a, left, q) ==
  /\ inb' = [inb EXCEPT ![a] = left]
  /\ pendin' = PendinTaken(a) /\ pendcount' = CountTaken(a) /\ pendout' = PendoutTaken(a)
  /\ runq' = Requeue(a, left, QueueTaken(a, q))
  /\ fatal' = Verdict(a)

\* satiated, or shrugging off because there is no input
TurnedAway(a, q, z) ==
  /\ ~MayRun(a)
  /\ runq' = q /\ asleep' = z
  /\ UNCHANGED <<pipe, conn, fatal>>

\* a_input::run reads the last byte of the text; after a shorter read it sleeps
\* again.  If it sleeps already, block() says shriek(861, "Resleeping").
Input(a, q, z) ==
  /\ Kind[a] = "input" /\ MayRun(a)
  /\ IF a \in z
     THEN Die("861")
     ELSE /\ Pass(a, inb[a], NoTask, <<>>, q)
          /\ asleep' = z
          /\ UNCHANGED <<mark, held, conn>>

\* a_ascii, a_rules, a_print, a_segs, a_synth, a_type: one task in, one out
Work(a, q, z) ==
  /\ Kind[a] \in ReleasesFirst \cup ReleasesLast /\ MayRun(a)
  /\ Pass(a, Task(a), NoTask, <<>>, q)
  /\ asleep' = z
  /\ UNCHANGED <<mark, held, conn>>

\* a_chunk passes one utterance and queues itself until the text is used up
Chunk(a, q, z) ==
  /\ Kind[a] = "chunk" /\ MayRun(a)
  /\ LET x    == Task(a)
         m    == mark[a] + 1
         more == m < Len(x)
     IN IF mark[a] = Stale
        THEN Die("dangling")
        ELSE /\ Pass(a, <<x[m]>>, IF more THEN x ELSE NoTask, IF more THEN <<a>> ELSE <<>>, q)
             /\ mark' = [mark EXCEPT ![a] = IF more THEN m ELSE 0]
             /\ asleep' = z
             /\ UNCHANGED <<held, conn>>

(***************************************************************************)
(* a_join never clears inb.  A text it passes on stays in inb although the *)
(* successor owns it; a text it holds out is inb and heldout at once.  A   *)
(* second run, or relax(), meets memory that was freed.                    *)
(***************************************************************************)
Spent(a) == inb[a] = Dangling \/ held[a] # NoTask

Join(a, q, z) ==
  /\ Kind[a] = "join" /\ MayRun(a)
  /\ \/ Spent(a) /\ Die("dangling")
     \/ /\ ~Spent(a)
        /\ Pass(a, Task(a), Dangling, <<>>, q)
        /\ asleep' = z
        /\ UNCHANGED <<mark, held, conn>>
     \/ /\ ~Spent(a)
        /\ Keep(a, Task(a), q)
        /\ held' = [held EXCEPT ![a] = Task(a)]
        /\ asleep' = z
        /\ UNCHANGED <<mark, conn>>

\* The output is not done with its task and waits for the descriptor.  It
\* must not be waiting already: shriek(861, "Resleeping").
Push(a, q, z) ==
  /\ Kind[a] \in Outputs /\ MayRun(a)
  /\ IF a \in z
     THEN Die("861")
     ELSE /\ Keep(a, Task(a), q)
          /\ asleep' = z \cup {a}
          /\ UNCHANGED <<mark, held, conn>>

(***************************************************************************)
(* The output has written the whole task.  stream::finis(false) looks for  *)
(* an agent with more to do; when there is none it completes the appl      *)
(* command, and has to know whose command that was.                        *)
(***************************************************************************)
OthersBusy(a) == \E b \in Agents \ {a} : Busy(b)

More(a) == PendinTaken(a)[a] # <<>> \/ OthersBusy(a)
Woken(a) == IF callbk /\ ~More(a) THEN <<Ctrl>> ELSE <<>>

Write(a, q, z) ==
  /\ Kind[a] \in Outputs /\ MayRun(a)
  /\ Kind[a] = "output" => a \notin z
  /\ inb' = [inb EXCEPT ![a] = NoTask]
  /\ pendin' = PendinTaken(a) /\ pendcount' = CountTaken(a) /\ pendout' = PendoutTaken(a)
  /\ delivered' = delivered \o Task(a)
  /\ answers' = IF More(a) THEN answers ELSE Append(answers, "200")
  /\ callbk' = (callbk /\ More(a))
  /\ runq' = Requeue(a, NoTask, QueueTaken(a, q) \o Woken(a))
  /\ fatal' = IF ~callbk /\ ~More(a) THEN "862" ELSE Verdict(a)
  /\ asleep' = z
  /\ UNCHANGED <<mark, held, session, applied, interrupted>>

(***************************************************************************)
(* run() throws command_failed.  The code is sent and stream::finis(true)  *)
(* relaxes one agent, the first that has anything to do: its task and the  *)
(* tasks waiting for its successor are freed.                              *)
(***************************************************************************)
StaleMark(a) == IF mark[a] = 0 THEN 0 ELSE Stale

\* the first agent with a task, given what inb and pendin hold
FirstBusyNone(ib, pi) == {}
FirstBusy(ib, pi) ==
  LET hasTask(b) == ib[b] # NoTask \/ pi[b] # <<>>
  IN {b \in Agents : hasTask(b) /\ \A c \in 1..(b - 1) : ~hasTask(c)}

\* completion codes of a failure, with finis(true)
FailureCodesTwo == <<"4xx", "200">>
FailureCodes    == <<"4xx">>

\* the count after relax() has freed the tasks waiting for agent b
CountRelaxed(count, list)    == count - Len(list)

Fail(a, q, z) ==
  LET left   == IF Kind[a] \in ReleasesFirst THEN NoTask ELSE Task(a)
      ib     == [inb EXCEPT ![a] = left]
      pi     == PendinTaken(a)
      pc     == CountTaken(a)
      freed  == FirstBusy(ib, pi)
      after  == {b \in Agents : b - 1 \in freed}
      dead   == ~callbk \/ \E b \in freed : ib[b] = Dangling
  IN /\ a \in Failing /\ MayRun(a) /\ (Kind[a] # "wavefm" => a \notin z)
     /\ inb' = [b \in Agents |-> IF b \in freed THEN NoTask ELSE ib[b]]
     /\ pendin' = [b \in Agents |-> IF b \in after THEN <<>> ELSE pi[b]]
     /\ pendcount' = [b \in Agents |-> IF b \in after THEN CountRelaxed(pc[b], pi[b]) ELSE pc[b]]
     /\ pendout' = PendoutTaken(a) \ freed
     /\ mark' = [b \in Agents |-> IF b \in freed THEN StaleMark(b) ELSE mark[b]]
     /\ answers' = answers \o FailureCodes
     /\ callbk' = FALSE
     /\ runq' = LET tail == QueueTaken(a, q) \o (IF callbk THEN <<Ctrl>> ELSE <<>>)
                IN IF pendcount'[a] # 0 /\ inb'[a] = NoTask THEN Append(tail, a) ELSE tail
     /\ fatal' = IF dead THEN IF callbk THEN "dangling" ELSE "862" ELSE Verdict(a)
     /\ asleep' = z
     /\ UNCHANGED <<held, session, delivered, applied, interrupted>>

Slice(a, q, z) ==
  \/ TurnedAway(a, q, z)
  \/ Input(a, q, z)
  \/ Work(a, q, z)
  \/ Chunk(a, q, z)
  \/ Join(a, q, z)
  \/ Push(a, q, z)
  \/ Write(a, q, z)
  \/ Fail(a, q, z)

-----------------------------------------------------------------------------
(* The server loop and the control connections.                            *)

\* sched_sel()->timeslice(), for an agent of the stream
Dispatch ==
  /\ fatal = "none" /\ runq # <<>> /\ Head(runq) # Ctrl
  /\ Slice(Head(runq), Tail(runq), asleep)

\* wakeup(): the descriptor of a sleeping agent is ready
Receive == fatal = "none" /\ 1 \in asleep /\ Slice(1, runq, asleep \ {1})
Drain   == fatal = "none" /\ Out \in asleep /\ Slice(Out, runq, asleep \ {Out})

\* The control connection gets its timeslice and may read the next command.
Resume ==
  /\ fatal = "none" /\ runq # <<>> /\ Head(runq) = Ctrl
  /\ runq' = Tail(runq) /\ session' = "reads"
  /\ UNCHANGED <<pipe, asleep, callbk, answers, delivered, applied, interrupted, fatal>>

(***************************************************************************)
(* cmd_apply: stream::apply() and a_input::mktask().  The input agent goes *)
(* to sleep on its descriptor; if it still sleeps there, the server dies.  *)
(* If it still has a text, mktask() refuses the new one, and nobody asks.  *)
(***************************************************************************)
Apply ==
  /\ fatal = "none" /\ session = "reads" /\ applied < MaxAppl
  /\ IF inb[1] = NoTask /\ 1 \in asleep
     THEN Die("861")
     ELSE /\ \E k \in 1..MaxUtt :
               inb' = IF inb[1] = NoTask THEN [inb EXCEPT ![1] = Text(k)] ELSE inb
          /\ asleep' = IF inb[1] = NoTask THEN asleep \cup {1} ELSE asleep
          /\ callbk' = TRUE /\ session' = "waits"
          /\ answers' = <<>> /\ delivered' = <<>>
          /\ applied' = applied + 1
          /\ UNCHANGED <<pendin, pendcount, pendout, mark, held, runq, interrupted, fatal>>

(***************************************************************************)
(* cmd_intr on another connection: stream::brk() relaxes every agent.      *)
(* oa_wavefm::brk() then calls finis(true), and nothing is left to do; the *)
(* other outputs inherit agent::brk(), which does not.                     *)
(***************************************************************************)
FinishesOnBreakNever == FALSE
FinishesOnBreak      == Kind[Out] = "wavefm"

Interrupt ==
  /\ fatal = "none" /\ callbk /\ interrupted < MaxIntr
  /\ interrupted' = interrupted + 1
  /\ inb' = [a \in Agents |-> NoTask]
  /\ pendin' = [a \in Agents |-> <<>>]
  /\ pendcount' = [a \in Agents |-> CountRelaxed(pendcount[a], pendin[a])]
  /\ pendout' = {}
  /\ mark' = [a \in Agents |-> StaleMark(a)]
  /\ answers' = Append(answers, "401")
  /\ callbk' = (callbk /\ ~FinishesOnBreak)
  /\ runq' = IF FinishesOnBreak THEN Append(runq, Ctrl) ELSE runq
  /\ fatal' = IF \E a \in Agents : inb[a] = Dangling THEN "dangling" ELSE "none"
  /\ UNCHANGED <<held, asleep, session, delivered, applied>>

Next == Dispatch \/ Receive \/ Drain \/ Resume \/ Apply \/ Interrupt

Spec == Init /\ [][Next]_vars

(***************************************************************************)
(* The server loop serves its queue whenever no descriptor is ready, and   *)
(* other connections are assumed not to keep one ready for ever; the       *)
(* client sends the text it announced and reads what it is sent.           *)
(***************************************************************************)
Fairness == WF_vars(Dispatch) /\ WF_vars(Resume) /\ WF_vars(Receive) /\ WF_vars(Drain)

FairSpec == Spec /\ Fairness

-----------------------------------------------------------------------------
(* Properties.                                                             *)

\* Every variable has its type.
TypeOK ==
  /\ inb \in [Agents -> Seq(Nat)] /\ held \in [Agents -> Seq(Nat)]
  /\ pendin \in [Agents -> Seq(Seq(Nat))]
  /\ pendcount \in [Agents -> Nat]
  /\ pendout \subseteq Agents
  /\ mark \in [Agents -> Nat \cup {Stale}]
  /\ runq \in Seq(Agents \cup {Ctrl}) /\ asleep \subseteq {1, Out}
  /\ callbk \in BOOLEAN /\ session \in {"reads", "waits"}
  /\ answers \in Seq({"200", "401", "4xx"}) /\ delivered \in Seq(Nat)
  /\ applied \in 0..MaxAppl /\ interrupted \in 0..MaxIntr
  /\ fatal \in {"none", "861", "862", "dangling"}

\* The list between two agents has the length its reader's pendcount says, and
\* its writer has a last cell to append to exactly when it is not empty
\* (agent.h, the comment on class stream): across interrupts and errors too.
PendConsistent ==
  \A a \in Agents : /\ pendcount[a] = Len(pendin[a])
                    /\ a > 1 => (a - 1 \in pendout <=> pendin[a] # <<>>)

\* Flow control: no list outgrows pend_max by more than the task that was
\* under way when it filled up, however slowly the output drains.
Bounded == \A a \in Agents : Len(pendin[a]) <= PendMax + 1

Queued(q, a) == \E i \in 1..Len(q) : q[i] = a

\* A busy agent that is neither queued nor asleep was turned away by a long
\* queue ahead of it, and that queue still has to shrink past pend_min, where
\* unquench() will queue the agent again.
NoLostWakeup ==
  \A a \in Agents : Busy(a) =>
     \/ Queued(runq, a)
     \/ a \in asleep
     \/ a < Out /\ pendcount[a + 1] >= PendMin

\* None of the internal errors 861 and 862, and no dangling pointer.
NoFatal == fatal = "none"

\* When the control connection reads its next command, which may delete the
\* stream, no agent of the stream has work, is queued or is asleep.
QuietWhenReading ==
  session = "reads" => runq = <<>> /\ asleep = {} /\ \A a \in Agents : ~Busy(a)

\* Every appl gets one completion code, before the next command is read.
CompletedOnce ==
  /\ Len(answers) <= 1
  /\ session = "reads" /\ applied > 0 => Len(answers) = 1

\* Whatever is turned away comes back, and no agent dies of the way it does
\* (agent::timeslice, unquench and push, src/src/agent.cc:115-173).
Scheduled == NoLostWakeup /\ NoFatal

\* A command is answered once, when all that it started has come to rest, even if any of
\* its agents failed (stream::finis, src/src/agent.cc:930-954).
Concluded == QuietWhenReading /\ CompletedOnce

(***************************************************************************)
(* What Delivery calls the rest: the utterances after those delivered, up  *)
(* to the last one that the stream has, which is the last one that the     *)
(* first busy agent has.                                                   *)
(***************************************************************************)
Newest(a) == LET task == IF pendin[a] # <<>> THEN pendin[a][Len(pendin[a])] ELSE inb[a]
             IN task[Len(task)]

LastKnown ==
  IF \E a \in Agents : Busy(a)
  THEN Newest(CHOOSE a \in Agents : Busy(a) /\ \A b \in 1..(a - 1) : ~Busy(b))
  ELSE Len(delivered)

Rest == [i \in 1..(LastKnown - Len(delivered)) |-> Len(delivered) + i]

Abstract == INSTANCE Delivery WITH
  phase     <- IF callbk THEN "runs" ELSE IF session = "waits" THEN "done" ELSE "reads",
  rest      <- Rest

\* The stream is a faithful implementation of Delivery: nothing is lost,
\* duplicated or reordered between the agents, and 200 is sent last.
Delivers == Abstract!Spec

\* Every appl command completes and its connection goes on.
Completes == session = "waits" ~> session = "reads"

\* An appl that was given a completion code leaves the foreground, and the
\* server does not let its connection wait for ever: it reads on, or all died.
Resumes == answers # <<>> ~> (session = "reads" \/ fatal # "none")

=============================================================================
