------------------------------- MODULE Client -------------------------------
(***************************************************************************)
(* A client of the server applies a stream to its data and reads what      *)
(* comes back: say-epos (get_data of src/src/say.cc), or a server that has *)
(* another one synthesize for it (tcpsyn_appl of src/src/tcpsyn.cc).       *)
(* Replies come by the control connection, data by another one, and either *)
(* may be late.                                                            *)
(***************************************************************************)
EXTENDS Integers, Sequences

CONSTANTS
  Programs,   \* records: client; output; tasks: for each appl, the sizes of its subtasks; replies
  MaxTaken    \* bound: bytes that a descriptor takes at once

ASSUME ClientAssumption ==
  /\ MaxTaken \in Nat \ {0}
  /\ \A p \in Programs :
       /\ p.client \in {"say", "tcpsyn"} /\ p.output \in {"text", "wave"}
       /\ p.client = "tcpsyn" => p.output = "wave"
       /\ Len(p.tasks) > 0 /\ p.tasks \in Seq(Seq(Nat))

\* What the protocol with tcpsyn cannot do without: one task for an appl, since the total of a
\* second one would cut the buffer; and no error but at the end, since the connection is used on
\* after one (a_synth::run) with what has not been read of the data. Wave forms are not interrupted:
\* oa_wavefm::brk reports all of the bytes, sent or not.
Undivided ==
  \A p \in Programs :
    /\ p.output = "wave" => "401" \notin p.replies
    /\ p.client = "tcpsyn" =>
         /\ \A k \in DOMAIN p.tasks : Len(p.tasks[k]) <= 1
         /\ p.replies \subseteq {"200"} \/ Len(p.tasks) = 1

VARIABLES
  program,
  appl,      \* which appl is processed
  task,      \* server: which subtask is sent, 0 before the appl is there and after it
  left,      \* server: bytes of the subtask that are to be sent
  next,      \* server: number of the byte of the appl that it sends next
  ctrl,      \* replies that the client has not read
  network,   \* bytes on their way
  datad,     \* bytes that the client can read
  rec,       \* client: its buffer
  size,      \* client: bytes of it that were received
  due,       \* client: bytes that were announced
  results,   \* client: what it made of each appl
  status     \* client: "reply", "data" or "rest" that it waits for, or "done"

applVars == <<program, appl, task, left, next, ctrl, network, datad, rec, size, due, results, status>>
clientVars == <<rec, size, due, results, status>>
serverVars == <<task, left, next>>

Garbage == <<0, 0>>     \* memory that was never written
Errors == {"401", "415"}
Final == {"200"} \cup Errors
Subtasks == program.tasks[appl]
Message(code, n) == [code |-> code, n |-> n]

\* xrealloc()
Resized(buf, n) == [i \in 1..n |-> IF i <= Len(buf) THEN buf[i] ELSE Garbage]

-----------------------------------------------------------------------------
(* The server: a_output::run and oa_wavefm::run.                           *)

Working == status \in {"reply", "data"} /\ \A i \in DOMAIN ctrl : ctrl[i].code \notin Final

\* report(), about n bytes of total: a_output tells the total together with the first piece, and
\* nothing of what is empty; oa_wavefm tells it after the last one.
Reports(n, total, first, last) ==
  IF program.output = "wave"
  THEN <<Message("123", n)>> \o (IF last THEN <<Message("122", total)>> ELSE <<>>)
  ELSE IF n = 0 THEN <<>>
  ELSE (IF first THEN <<Message("122", total)>> ELSE <<>>) \o <<Message("123", n)>>

\* A descriptor takes n of the bytes that are to be sent.
Written(n, ahead, first) ==
  /\ network' = network \o [i \in 1..n |-> <<appl, next + i - 1>>]
  /\ next' = next + n
  /\ left' = ahead - n
  /\ ctrl' = ctrl \o Reports(n, Subtasks[task'], first, n = ahead)

\* The first write. Of a wave form it is in attach(), which may find that nothing can be sent yet.
FirstWrite ==
  /\ Working /\ task < Len(Subtasks) /\ left = 0
  /\ task' = task + 1
  /\ \E n \in 0..Subtasks[task'] :
       /\ n <= MaxTaken
       /\ n = 0 => program.output = "wave" \/ Subtasks[task'] = 0
       /\ Written(n, Subtasks[task'], TRUE)
  /\ UNCHANGED <<program, appl, datad, clientVars>>

Send ==
  /\ Working /\ left > 0
  /\ \E n \in 1..left : n <= MaxTaken /\ task' = task /\ Written(n, left, FALSE)
  /\ UNCHANGED <<program, appl, datad, clientVars>>

\* The reply that ends the appl; errors may come at any time.
Answer(code) ==
  /\ Working
  /\ code = "200" => left = 0 /\ task = Len(Subtasks)
  /\ ctrl' = Append(ctrl, Message(code, 0))
  /\ left' = 0
  /\ UNCHANGED <<program, appl, task, next, network, datad, clientVars>>

Arrive ==
  /\ network # <<>>
  /\ datad' = Append(datad, Head(network))
  /\ network' = Tail(network)
  /\ UNCHANGED <<program, appl, serverVars, ctrl, clientVars>>

-----------------------------------------------------------------------------
(* The client.                                                             *)

\* The appl has ended for the client, which may send another one.
Conclude(result, again) ==
  /\ results' = Append(results, result)
  /\ IF again /\ appl < Len(program.tasks)
     THEN /\ appl' = appl + 1 /\ task' = 0 /\ next' = 1
          /\ rec' = <<>> /\ size' = 0 /\ due' = 0 /\ status' = "reply"
     ELSE /\ status' = "done"
          /\ UNCHANGED <<appl, task, next, rec, size, due>>

Nothing == [ok |-> FALSE, data |-> <<>>]
Got(n) == [ok |-> TRUE, data |-> SubSeq(rec, 1, n)]

\* Nothing is read when nothing is due.
Awaiting == IF size < due' THEN "data" ELSE "reply"

\* A line of get_data(), which does not look at 122.
SayReply(r) ==
  CASE r.code = "122" -> UNCHANGED <<appl, task, next, clientVars>>
    [] r.code = "123" ->
         /\ rec' = Resized(rec, size + r.n)
         /\ due' = size + r.n
         /\ status' = Awaiting
         /\ UNCHANGED <<appl, task, next, size, results>>
    [] r.code = "200" -> Conclude(IF size = 0 THEN Nothing ELSE Got(size), TRUE)
    [] r.code \in Errors -> Conclude(Nothing, FALSE)      \* shriek() ends the program

\* Of tcpsyn_appl(), for which bs is always zero: it waits for one piece of data only.
TcpsynReply(r) ==
  CASE r.code = "122" ->
         /\ rec' = Resized(rec, r.n)
         /\ UNCHANGED <<appl, task, next, size, due, results, status>>
    [] r.code = "123" ->
         /\ due' = due + r.n
         /\ rec' = Resized(rec, due + r.n)
         /\ status' = Awaiting
         /\ UNCHANGED <<appl, task, next, size, results>>
    [] r.code \in {"200", "401"} -> status' = "rest" /\ UNCHANGED <<appl, task, next, rec, size, due, results>>
    [] r.code \in Errors \ {"401"} -> Conclude(Nothing, TRUE)

ReadReply ==
  /\ status = "reply" /\ ctrl # <<>>
  /\ IF program.client = "say" THEN SayReply(Head(ctrl)) ELSE TcpsynReply(Head(ctrl))
  /\ ctrl' = Tail(ctrl)
  /\ UNCHANGED <<program, left, network, datad>>

\* Mutant: one read of what was announced is all.
OneRead(n) == "reply"

\* say-epos reads until it has what was announced.
AfterData(n) == IF program.client = "tcpsyn" \/ n = due THEN "reply" ELSE "data"

\* yread(): it blocks until there is something.
Yread ==
  /\ status \in {"data", "rest"} /\ size < due /\ datad # <<>>
  /\ LET n == IF Len(datad) < due - size THEN Len(datad) ELSE due - size
     IN /\ rec' = [i \in DOMAIN rec |-> IF i \in size + 1..size + n THEN datad[i - size] ELSE rec[i]]
        /\ datad' = SubSeq(datad, n + 1, Len(datad))
        /\ size' = size + n
        /\ status' = IF status = "rest" THEN "rest" ELSE AfterData(size + n)
  /\ UNCHANGED <<program, appl, serverVars, ctrl, network, due, results>>

TcpsynDone ==
  /\ status = "rest" /\ size = due
  /\ Conclude(Got(size), TRUE)
  /\ UNCHANGED <<program, left, ctrl, network, datad>>

\* The program is done.
Stopped == status = "done" /\ UNCHANGED applVars

-----------------------------------------------------------------------------
ClientInit ==
  /\ program \in Programs
  /\ appl = 1 /\ task = 0 /\ left = 0 /\ next = 1
  /\ ctrl = <<>> /\ network = <<>> /\ datad = <<>>
  /\ rec = <<>> /\ size = 0 /\ due = 0 /\ results = <<>>
  /\ status = "reply"

ClientNext ==
  \/ FirstWrite \/ Send \/ Arrive
  \/ \E code \in Final : code \in program.replies /\ Answer(code)
  \/ ReadReply \/ Yread \/ TcpsynDone \/ Stopped

ClientSpec == ClientInit /\ [][ClientNext]_applVars

-----------------------------------------------------------------------------
\* Bytes of the first i subtasks, and of all.
Sums(s) == LET sum[i \in 0..Len(s)] == IF i = 0 THEN 0 ELSE sum[i - 1] + s[i] IN sum
Total(s) == Sums(s)[Len(s)]

\* What the client takes for the result of an appl is all that the server sent for it,
\* in order, however it was divided, whether the total is told before or after the data, and
\* whichever of the two connections is slower
\* (get_data, src/src/say.cc:109-138; tcpsyn_appl, src/src/tcpsyn.cc:59-107).
Received ==
  \A k \in DOMAIN results :
    results[k].ok => results[k].data = [i \in 1..Total(program.tasks[k]) |-> <<k, i>>]
=============================================================================
