------------------------------- MODULE Output -------------------------------
(***************************************************************************)
(* The output agent of a stream that ends in a file or a data connection   *)
(* (a_output::run, src/src/agent.cc): a task is written in as many pieces  *)
(* as the descriptor takes, 122 announces its size and 123 each piece.     *)
(* Tasks come one after another from the agent before it; when that agent  *)
(* fails, stream::finis(true) may relax the output, and the client goes on *)
(* with another appl.  The bytes of a task are numbered from 1.            *)
(***************************************************************************)
EXTENDS Integers, Sequences

CONSTANTS
  MaxSize,    \* bound: bytes of a task
  MaxTasks,   \* bound: tasks
  MaxRelax    \* bound: recoveries that relax the output

ASSUME OutputAssumption ==
  MaxSize \in Nat \ {0} /\ MaxTasks \in Nat \ {0} /\ MaxRelax \in Nat

VARIABLES
  size,     \* insize() of the task in inb; 0 when inb is NULL
  written,  \* a_output::written
  decoded,  \* a_output::decoded
  coded,    \* how often decode() turned the task into the client's charset
  runnable, \* is the output in the run queue?
  sleeping,   \* is it in push_table?
  wrote,     \* the bytes of the task that were written, by number
  total,    \* the 122 replies for the task
  pieces,   \* the sum of its 123 replies
  tasks,    \* tasks so far
  relaxed,  \* recoveries so far
  refused,  \* was the descriptor ever full at a write that was not polled for?
  state     \* "idle", "writes", "done" with a task, or "dead" of an error 861

outputVars == <<size, written, decoded, coded, runnable, sleeping, wrote, total, pieces, tasks, relaxed, refused, state>>

OutputInit ==
  /\ size = 0 /\ written = 0 /\ decoded = FALSE /\ coded = 0 /\ runnable = FALSE /\ sleeping = FALSE
  /\ wrote = <<>> /\ total = <<>> /\ pieces = 0
  /\ tasks = 0 /\ relaxed = 0 /\ refused = FALSE /\ state = "idle"

\* pass() hands the output its next task.
Give ==
  /\ state \in {"idle", "done"} /\ tasks < MaxTasks
  /\ size' \in 1..MaxSize
  /\ tasks' = tasks + 1 /\ runnable' = TRUE /\ state' = "writes"
  /\ wrote' = <<>> /\ total' = <<>> /\ pieces' = 0 /\ coded' = 0
  /\ UNCHANGED <<written, decoded, sleeping, relaxed, refused>>

\* What write() can return for len bytes.
Results(len, polled) ==
  IF len < 0 THEN {-1}
  ELSE IF len = 0 THEN {0}
  ELSE 1..len \cup (IF polled THEN {} ELSE {-1})

Numbered(from, k) == [i \in 1..k |-> from + i]

FromStart == 0
From == written

\* the number in the 123 reply
PieceSoFar(k) == written + k
Piece(k) == k

WrittenReset == 0

Decoded    == TRUE

\* push(): the agent is called again when the descriptor takes more
PushedNot == FALSE
Pushed    == TRUE

\* write() returned k, which may be -1: it is treated like any other number.
Wrote(k) ==
  /\ wrote' = wrote \o Numbered(From, k)
  /\ total' = IF written = 0 /\ k # 0 THEN Append(total, size) ELSE total
  /\ pieces' = pieces + Piece(k)
  /\ coded' = IF decoded THEN coded ELSE coded + 1
  /\ IF written + k = size
     THEN /\ size' = 0 /\ written' = WrittenReset /\ decoded' = FALSE
          /\ sleeping' = FALSE /\ state' = "done"
     ELSE /\ size' = size /\ written' = written + k /\ decoded' = Decoded
          /\ sleeping' = Pushed /\ state' = state

\* A timeslice; polled if it comes from wakeup(), z if the agent is asleep.
Slice(polled, z) ==
  \/ /\ size = 0                 \* shrugging off
     /\ sleeping' = z
     /\ UNCHANGED <<size, written, decoded, coded, wrote, total, pieces, refused, state>>
  \/ /\ size # 0
     /\ \E k \in Results(size - written, polled) :
          Wrote(k) /\ refused' = (refused \/ (k = -1 /\ written < size))

\* sched_sel()->timeslice()
Timeslice ==
  /\ runnable /\ state # "dead"
  /\ runnable' = FALSE
  /\ \/ /\ size # 0 /\ sleeping      \* shriek(861, "Resleeping")
        /\ state' = "dead"
        /\ UNCHANGED <<size, written, decoded, coded, sleeping, wrote, total, pieces, refused>>
     \/ /\ ~(size # 0 /\ sleeping)
        /\ Slice(FALSE, sleeping)
  /\ UNCHANGED <<tasks, relaxed>>

\* wakeup(): the descriptor can take something
WakeUp ==
  /\ sleeping /\ state # "dead"
  /\ Slice(TRUE, FALSE)
  /\ UNCHANGED <<runnable, tasks, relaxed>>

\* stream::finis(true) relaxes the output; written, decoded and push_table stay.
Relax ==
  /\ size # 0 /\ state = "writes" /\ relaxed < MaxRelax
  /\ size' = 0 /\ relaxed' = relaxed + 1 /\ state' = "idle"
  /\ UNCHANGED <<written, decoded, coded, runnable, sleeping, wrote, total, pieces, tasks, refused>>

OutputNext == Give \/ Timeslice \/ WakeUp \/ Relax

\* The server loop serves its queue; the peer goes on reading.
OutputSpec == OutputInit /\ [][OutputNext]_outputVars /\ WF_outputVars(Timeslice) /\ WF_outputVars(WakeUp)

-----------------------------------------------------------------------------
\* Until a recovery discards a task, or a write takes nothing (its -1 is counted
\* like a number of bytes): the bytes of a task are written from the first on, each
\* once and in order; a task that is done was announced by one 122 reply, the 123
\* replies add up to the same number, and so many bytes were sent (ttscp.sgml,
\* appl), in the client's character set.
Exact ==
  relaxed = 0 /\ ~refused =>
    /\ wrote = Numbered(0, Len(wrote))
    /\ state = "done" => total = <<Len(wrote)>> /\ pieces = Len(wrote) /\ coded = 1

\* Unless a write takes nothing: whatever is discarded and written again, no byte
\* of a task is sent twice or out of turn, and none from beyond its end.
Within ==
  ~refused =>
    /\ \A i, j \in DOMAIN wrote : i < j => wrote[i] < wrote[j]
    /\ state = "writes" => \A i \in DOMAIN wrote : wrote[i] \in 1..size

\* What of a task is written is what was announced, exactly if nothing went wrong
\* before, and never from elsewhere (a_output::run, src/src/agent.cc:662-693).
Written == Exact /\ Within

\* A task that is being written is written to its end, unless it is discarded, or
\* one was before it and push() dies of that (861).
Finishes == state = "writes" ~> state \in {"done", "idle"} \/ (state = "dead" /\ relaxed > 0)
=============================================================================
