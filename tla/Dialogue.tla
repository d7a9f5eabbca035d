------------------------------ MODULE Dialogue ------------------------------
(***************************************************************************)
(* Client programs talk to a server: say-epos (src/src/say.cc), the gauge  *)
(* of its throughput (gauge.cc), the test of its protocol (vrfy.cc) and a  *)
(* server that lets another one synthesize (tcpsyn.cc).  A program is a    *)
(* sequence of steps; a step sends one thing or waits for one.  It sends   *)
(* ahead of the replies that it reads later, by two connections or more.   *)
(***************************************************************************)
EXTENDS Integers, Sequences, SequencesExt, FiniteSets

CONSTANTS
  Conns,       \* 1..n: the connections that a program may open, in its own numbering
  Servers,     \* where a server may listen: ports and hosts, 1 being the usual one
  MaxWire,     \* bound: what a connection holds before a writer has to wait
  Dialogues    \* programs: for each of their processes, its steps

VARIABLES
  dialogue,    \* one of Dialogues
  pc,          \* the step of each process; 0: not started
  announced,         \* does the process wait for data that was announced?
  got,         \* pieces of data it has for its appl
  taken,       \* process, command whose result it awaited, command that was answered
  up,          \* what goes from the client to the server, by connection
  down,        \* what comes back
  closed,        \* connections that the client has closed
  peer         \* the server's side of every connection

dlgVars == <<dialogue, pc, announced, got, taken, up, down, closed, peer>>

-----------------------------------------------------------------------------
(* Commands, replies and steps.                                            *)

None == 0
Command(is, with, n) == [is |-> is, with |-> with, n |-> n]
Text == Command("text", None, 0)
Sound == Command("sound", None, 0)
Line(code, is) == [code |-> code, is |-> is]

Step(do, on, what) == [do |-> do, on |-> on, what |-> what]
Connect(c, where) == Step("connect", c, where)
Handle(c)      == Step("handle", c, None)
Transmit(c, cmd)   == Step("send", c, cmd)
Texts(d, n)    == [i \in 1..n |-> Transmit(d, Text)]
Lax(c, is)     == Step("lax", c, is)          \* get_result(), whatever it is
Must(c, is)    == Step("must", c, is)         \* or the program ends
Broken(c, is)  == Step("broken", c, is)       \* or the program ends because it was not
Check(c, is)   == Step("check", c, is)        \* or an exception is thrown
Data(c, d, is) == Step("data", c, [from |-> d, is |-> is])
Retry(c, is, n)== Step("retry", c, [is |-> is, back |-> n])
Fork           == Step("fork", None, None)
Sleep          == Step("sleep", None, None)
Leave          == Step("close", None, None)

\* xmit_option() and other commands that servers may turn down
Setl == Command("setl", None, 0)
Show == Command("show", None, 0)
\* The stream reads from d, and writes to it or to the sound card.
Strm(d, back) == Command("strm", d, IF back THEN 1 ELSE 0)
\* The text comes in n pieces, and sound may last until it is interrupted.
Appl(n) == Command("appl", None, n)
LongAppl == Command("appl", 1, 1)

-----------------------------------------------------------------------------
(* The programs.                                                           *)

send_option == <<Transmit(1, Setl), Lax(1, "setl")>>

\* main() of say-epos and of gauge up to the options, those of the command line and of the file
\* of the user; then it looks at what the data connection has said.
CommandLine(options) ==
  <<Connect(1, Servers), Connect(2, Servers), Handle(1), Transmit(2, Command("data", 1, 0))>>
    \o send_option \o FlattenSeq([i \in 1..options |-> send_option])
Opening(options) == CommandLine(options) \o <<Handle(2), Lax(2, "data")>>

\* Results are awaited as do says.
Farewell(c, d, do) ==
  <<Transmit(c, Command("delh", d, 0)), Transmit(c, Command("done", None, 0)),
    Step(do, c, "delh"), Step(do, c, "done"), Leave>>

trans_data ==
  <<Transmit(1, Strm(2, TRUE)), Transmit(1, Appl(1)), Transmit(2, Text),
    Lax(1, "strm"), Data(1, 2, "appl")>>

say_data(wav) ==
  <<Transmit(1, Strm(2, wav)), Transmit(1, Appl(1)), Transmit(2, Text), Must(1, "strm"),
    IF wav THEN Data(1, 2, "appl") ELSE Must(1, "appl")>>

Say(options, wav) == <<Opening(options) \o trans_data \o say_data(wav) \o Farewell(1, 2, "lax")>>

\* -l and -k, which end in send_cmd_line()
Asking ==
  <<CommandLine(0) \o <<Transmit(1, Show), Transmit(1, Show), Lax(1, "show"), Lax(1, "show"), Leave>>>>
Stopping ==
  <<CommandLine(0) \o <<Transmit(1, Command("pass", None, 0)), Transmit(1, Command("down", None, 0)),
                    Lax(1, "pass"), Lax(1, "down"), Leave>>>>

\* The last word of the dictionary has its newline: without one it would be sent only.
send_requests(words) == FlattenSeq([i \in 1..words |-> <<Transmit(1, Appl(1)), Transmit(2, Text)>>])
gather_results(words) == [i \in 1..words |-> Data(1, 2, "appl")]

\* Mutant: one process sends all, and reads then.
GaugeAlone(words) ==
  <<Opening(0) \o <<Transmit(1, Strm(2, TRUE)), Lax(1, "strm")>>
      \o send_requests(words) \o gather_results(words) \o Farewell(1, 2, "lax")>>

\* The child that has sent all sleeps; both leave gauge() and go on in main().
Gauge(words) ==
  <<Opening(0) \o <<Transmit(1, Strm(2, TRUE)), Lax(1, "strm"), Fork>>
      \o gather_results(words) \o Farewell(1, 2, "lax"),
    send_requests(words) \o <<Sleep>> \o Farewell(1, 2, "lax")>>

\* main() of vrfy, with two pairs of connections: 2 and 3, 4 and 5.
Pair(d, c) ==
  <<Connect(d, {1}), Handle(d), Transmit(d, Command("data", 1, 0)), Must(d, "data"),
    Connect(c, {1}), Handle(c)>>
spk_appl(c, d) == <<Transmit(c, Appl(1)), Transmit(d, Text)>>
syn2_test ==
  <<Transmit(3, Strm(2, FALSE))>> \o spk_appl(3, 2) \o spk_appl(3, 2)
    \o <<Must(3, "strm"), Must(3, "appl"), Must(3, "appl")>>
intr_test ==
  <<Transmit(3, Strm(2, FALSE)), Transmit(3, LongAppl), Transmit(2, Text), Must(3, "strm"),
    Transmit(5, Command("intr", 3, 0)), Retry(5, "intr", 1), Broken(3, "appl")>>
long_strm_test ==
  <<Transmit(5, Strm(4, TRUE))>> \o spk_appl(5, 4) \o <<Must(5, "strm"), Must(5, "appl")>>
Vrfy ==
  <<<<Connect(1, {1}), Handle(1)>> \o Pair(2, 3) \o Pair(4, 5)
      \o syn2_test \o intr_test \o long_strm_test
      \o Front(Farewell(3, 2, "must")) \o Front(Farewell(5, 4, "must"))
      \o <<Transmit(1, Command("done", None, 0)), Leave>>>>

\* tcpsyn::tcpsyn(), synsegs() and ~tcpsyn(): the segments go ahead of the appl.
Tcpsyn(segments) ==
  <<<<Connect(1, {1}), Connect(2, {1}), Handle(1), Transmit(2, Command("data", 1, 0)),
      Handle(2), Check(2, "data"), Transmit(1, Strm(2, TRUE)), Check(1, "strm"),
      Transmit(1, Setl), Check(1, "setl"), Transmit(1, Setl), Check(1, "setl")>>
      \o Texts(2, segments) \o <<Transmit(1, Appl(segments)), Data(1, 2, "appl")>>
      \o Farewell(1, 2, "check")>>

-----------------------------------------------------------------------------
(* What programs have in common.                                           *)

Verbs == {"text", "data", "strm", "appl", "setl", "show", "pass", "down", "delh", "done", "intr"}
Commands == [is : Verbs, with : Conns \cup {None}, n : Nat]
Waits == {"lax", "must", "check", "broken", "retry", "data"}
Result(step) == IF step.do \in {"data", "retry"} THEN step.what.is ELSE step.what

ASSUME DlgAssumption ==
  /\ Conns \subseteq Nat \ {None}
  /\ \A d \in Dialogues : \A p \in DOMAIN d :
       /\ Len(d[p]) \in Nat
       /\ \A i \in 1..Len(d[p]) :
            LET step == d[p][i]
            IN /\ step.do \in Waits \cup {"connect", "handle", "send"} => step.on \in Conns
               /\ step.do = "connect" => step.what \subseteq Servers
               /\ step.do = "send" => step.what \in Commands
               /\ step.do = "data" => step.what.from \in Conns

\* The steps that send commands on a connection, those that await results there, and how many
\* of them come before step n.
Sends(steps, c)  == {i \in 1..Len(steps) : steps[i].do = "send" /\ steps[i].on = c /\ steps[i].what.is # "text"}
Awaits(steps, c) == {i \in 1..Len(steps) : steps[i].do \in Waits /\ steps[i].on = c}
Before(is, n) == Cardinality({i \in is : i < n})

Listens(step, c) == step.do \in Waits \cup {"handle"} /\ step.on = c

\* The step makes d the data connection of a stream, or takes data from it.
Uses(step, d) ==
  \/ step.do = "send" /\ step.what.is = "strm" /\ step.what.with = d
  \/ step.do = "data" /\ step.what.from = d

\* On each connection the results are awaited in the order in which the commands are sent, after
\* these, and only what was sent last is repeated.  The handle is waited for before the results,
\* and nothing on a connection that a stream has.
InTurn(steps) ==
  /\ \A c \in Conns : \A i \in Awaits(steps, c) : \E j \in Sends(steps, c) :
       /\ j < i /\ Before(Sends(steps, c), j) = Before(Awaits(steps, c), i)
       /\ steps[j].what.is = Result(steps[i])
       /\ steps[i].do = "retry" => steps[i].what.back = 1 /\ j = i - 1
  /\ \A i \in 1..Len(steps) : \A j \in 1..i :
       /\ steps[i].do = "handle" /\ j < i => ~Listens(steps[j], steps[i].on)
       /\ \A d \in Conns : Uses(steps[j], d) => ~Listens(steps[i], d)

-----------------------------------------------------------------------------
(* The server.                                                             *)

Absent == [role |-> "none", place |-> 0, boss |-> None, from |-> None, back |-> FALSE,
           doing |-> "rest", wants |-> 0, long |-> FALSE]
Serves(c) == peer[c].role \in {"ctrl", "root"} /\ peer[c].doing = "rest" /\ up[c] # <<>>
Order(c) == Head(up[c])
IsData(d, c) == d # None /\ peer[d].role = "data" /\ peer[d].place = peer[c].place
IsCtrl(d, c) == peer[d].role \in {"ctrl", "root"} /\ peer[d].place = peer[c].place /\ d # c

\* a_ttscp::a_ttscp()
Greet(c) ==
  /\ peer[c].role = "new"
  /\ peer' = [peer EXCEPT ![c].role = "ctrl"]
  /\ down' = [down EXCEPT ![c] = <<Line("hi", ""), Line("info", ""), Line("handle", "")>>]
  /\ UNCHANGED <<dialogue, pc, announced, got, taken, up, closed>>

Respond(c, codes, is) ==
  down' = [down EXCEPT ![c] = @ \o [i \in DOMAIN codes |-> Line(codes[i], is)]]
Next1(c) == up' = [up EXCEPT ![c] = Tail(@)]
clientSide == <<dialogue, pc, announced, got, taken, closed>>

\* ~a_ttscp(): data connections go with the one that they depend on.
Without(cs) == [d \in Conns |-> IF d \in cs \/ (peer[d].role = "data" /\ peer[d].boss \in cs)
                                THEN [Absent EXCEPT !.role = "over"] ELSE peer[d]]

\* A command is answered at once, in success or in failure.
Takes(c, cmd) == Serves(c) /\ Order(c).is = cmd /\ Next1(c) /\ UNCHANGED clientSide
Succeed(c) == Respond(c, <<"2">>, Order(c).is)
Fail(c) == Respond(c, <<"4">>, Order(c).is) /\ UNCHANGED peer
With(c) == Order(c).with

cmd_data(c) ==
  /\ Takes(c, "data")
  /\ IF IsCtrl(With(c), c)
     THEN peer' = [peer EXCEPT ![c].role = "data", ![c].boss = With(c)] /\ Succeed(c)
     ELSE Fail(c)

\* Mutant: there is no reply when the stream cannot be made.
SilentStrm(c) ==
  /\ Takes(c, "strm")
  /\ IF IsData(With(c), c)
     THEN peer' = [peer EXCEPT ![c].from = With(c), ![c].back = Order(c).n = 1] /\ Succeed(c)
     ELSE peer' = [peer EXCEPT ![c].from = None] /\ UNCHANGED down

cmd_strm(c) ==
  /\ Takes(c, "strm")
  /\ IF IsData(With(c), c)
     THEN /\ peer' = [peer EXCEPT ![c].from = With(c), ![c].back = Order(c).n = 1]
          /\ Succeed(c)
     ELSE /\ peer' = [peer EXCEPT ![c].from = None]
          /\ Respond(c, <<"4">>, "strm")

cmd_appl(c) ==
  /\ Takes(c, "appl")
  /\ IF peer[c].from = None
     THEN Fail(c)
     ELSE /\ peer' = [peer EXCEPT ![c].doing = "reads", ![c].wants = Order(c).n,
                                ![c].long = With(c) = 1]
          /\ Respond(c, <<"1">>, "appl")

\* What depends on configuration goes either way.
cmd_set(c) == Takes(c, "setl") /\ (Fail(c) \/ (Succeed(c) /\ UNCHANGED peer))
cmd_show(c) == Takes(c, "show") /\ Respond(c, <<"info", "2">>, "show") /\ UNCHANGED peer
cmd_pass(c) ==
  Takes(c, "pass") /\ (Fail(c) \/ (Succeed(c) /\ peer' = [peer EXCEPT ![c].role = "root"]))

cmd_down(c) ==
  /\ Takes(c, "down")
  /\ IF peer[c].role = "ctrl"
     THEN Fail(c)
     ELSE /\ Respond(c, <<"8">>, "down")
          /\ peer' = Without({d \in Conns : peer[d].place = peer[c].place})

cmd_delh(c) ==
  /\ Takes(c, "delh")
  /\ IF IsData(With(c), c) THEN Succeed(c) /\ peer' = Without({With(c)}) ELSE Fail(c)

cmd_done(c) == Takes(c, "done") /\ Respond(c, <<"6">>, "done") /\ peer' = Without({c})

\* Text that came by a control connection is the beginning of a line.
Unfinished(c) == Takes(c, "text") /\ UNCHANGED <<peer, down>>

\* By the time it is sent, the text has been read (the client has slept).
cmd_intr(c) ==
  /\ Takes(c, "intr")
  /\ peer[With(c)].doing # "reads"
  /\ LET h == With(c)
     IN IF peer[h].doing = "writes"
        THEN /\ peer' = [peer EXCEPT ![h].doing = "rest"]
             /\ down' = [down EXCEPT ![h] = Append(@, Line("4", "appl")),
                                     ![c] = Append(@, Line("2", "intr"))]
        ELSE Fail(c)

Obey(c) ==
  \/ cmd_data(c) \/ cmd_strm(c) \/ cmd_appl(c) \/ cmd_set(c) \/ cmd_show(c) \/ cmd_pass(c)
  \/ cmd_down(c) \/ cmd_delh(c) \/ cmd_done(c) \/ cmd_intr(c) \/ Unfinished(c)

\* a_input::run(): the text, or nothing if the client has gone.
Read(c) ==
  /\ peer[c].doing = "reads"
  /\ LET d == peer[c].from
     IN \/ /\ peer[d].role = "data" /\ up[d] # <<>>
           /\ Next1(d)
           /\ \/ /\ peer' = [peer EXCEPT ![c].wants = @ - 1,
                                      ![c].doing = IF peer[c].wants = 1 THEN "writes" ELSE "reads"]
                 /\ UNCHANGED down
              \/ /\ peer[c].wants = 1 /\ ~peer[c].long         \* an agent fails
                 /\ peer' = [peer EXCEPT ![c].doing = "rest"]
                 /\ Respond(c, <<"4">>, "appl")
        \/ /\ peer[d].role # "data" \/ (up[d] = <<>> /\ d \in closed)
           /\ peer' = [Without({d}) EXCEPT ![c].doing = "rest"]
           /\ Respond(c, <<"4">>, "appl")
           /\ UNCHANGED up
  /\ UNCHANGED clientSide

\* a_output::run(): data are written before they are announced.
Write(c) ==
  /\ peer[c].doing = "writes"
  /\ peer' = [peer EXCEPT ![c].doing = "rest"]
  /\ LET d == peer[c].from
     IN \/ ~peer[c].long /\ ~peer[c].back /\ Respond(c, <<"2">>, "appl")
        \/ peer[c].back /\ (peer[d].role # "data" \/ d \in closed) /\ Respond(c, <<"4">>, "appl")
        \/ /\ peer[c].back /\ peer[d].role = "data" /\ d \notin closed /\ Len(down[d]) < MaxWire
           /\ down' = [down EXCEPT ![d] = Append(@, Sound),
                                   ![c] = @ \o <<Line("123", "appl"), Line("2", "appl")>>]
  /\ UNCHANGED up /\ UNCHANGED clientSide

\* a_protocol::run(): the client has gone, or has left nobody to talk to.
Eof(c) ==
  /\ peer[c].role \in {"ctrl", "root"} /\ peer[c].doing = "rest" /\ up[c] = <<>> /\ c \in closed
  /\ peer' = Without({c})
  /\ UNCHANGED <<up, down>> /\ UNCHANGED clientSide

Serve(c) == Greet(c) \/ Obey(c) \/ Read(c) \/ Write(c) \/ Eof(c)

-----------------------------------------------------------------------------
(* The processes of the client.                                            *)

Steps(p) == dialogue[p]
Procs == DOMAIN dialogue
Runs(p) == pc[p] \in 1..Len(Steps(p))
Now(p) == Steps(p)[pc[p]]
Doing(p, do) == Runs(p) /\ Now(p).do = do
At(p) == Now(p).on
Goto(p, n) == pc' = [pc EXCEPT ![p] = n]
Onward(p) == Goto(p, pc[p] + 1)
Ended(p) == Len(Steps(p)) + 1
Open == {c \in Conns : peer[c].role # "none"}

\* The process is over; what nobody else has open is closed, except by an exception.
Exit(p, thrown) ==
  /\ Goto(p, Ended(p))
  /\ closed' = IF thrown \/ \E q \in Procs \ {p} : Runs(q) THEN closed ELSE closed \cup Open

GoOn(p) == Onward(p) /\ UNCHANGED closed

\* just_connect_socket() tries one place after another.
Connecting(p) ==
  /\ Doing(p, "connect") /\ UNCHANGED <<dialogue, announced, got, taken, up, down>>
  /\ \/ \E s \in Now(p).what :
          /\ peer[At(p)].role = "none"
          /\ peer' = [peer EXCEPT ![At(p)] = [Absent EXCEPT !.role = "new", !.place = s]]
          /\ Onward(p) /\ UNCHANGED closed
     \/ peer[At(p)].role = "none" /\ Exit(p, FALSE) /\ UNCHANGED peer

Sending(p) ==
  /\ Doing(p, "send") /\ UNCHANGED <<dialogue, announced, got, taken, down, peer>>
  /\ IF peer[At(p)].role = "over"
     THEN UNCHANGED up /\ (Exit(p, FALSE) \/ GoOn(p))     \* SIGPIPE, or not yet
     ELSE /\ Len(up[At(p)]) < MaxWire
          /\ up' = [up EXCEPT ![At(p)] = Append(@, Now(p).what)]
          /\ Onward(p) /\ UNCHANGED closed

\* sgets(): a line, or the end of the connection.
Hear(c) == IF down[c] = <<>> THEN Line("eof", "") ELSE Head(down[c])
CanHear(c) == down[c] # <<>> \/ peer[c].role = "over"
Took(c) == down' = [down EXCEPT ![c] = IF @ = <<>> THEN @ ELSE Tail(@)]

\* get_handle() reads on until there is one.
AwaitHandle(p) ==
  /\ Doing(p, "handle") /\ CanHear(At(p)) /\ Took(At(p))
  /\ IF Hear(At(p)).code \in {"handle", "eof"} THEN Onward(p) ELSE UNCHANGED pc
  /\ UNCHANGED <<dialogue, announced, got, taken, up, closed, peer>>

Conclusive == {"2", "4", "6", "8", "eof"}

\* What a result does to the program: get_result() of three programs, sync_finish_command().
Ending(p, code) ==
  CASE Now(p).do = "lax" -> code \in {"6", "8"}
    [] Now(p).do \in {"must", "check"} -> code \notin {"2", "6"}
    [] Now(p).do = "broken" -> code \in {"2", "6", "8"}
    [] Now(p).do = "retry" -> code = "8"
    [] Now(p).do = "data" -> code # "2" \/ got[p] = 0

After(p, code) ==
  IF Ending(p, code) THEN Exit(p, Now(p).do = "check")
  ELSE IF Now(p).do = "retry" /\ code # "2"
  THEN Goto(p, pc[p] - Now(p).what.back) /\ UNCHANGED closed
  ELSE GoOn(p)

AwaitResult(p) ==
  /\ \E do \in Waits : Doing(p, do)
  /\ ~announced[p] /\ CanHear(At(p)) /\ Took(At(p))
  /\ LET line == Hear(At(p))
     IN IF line.code \in Conclusive
        THEN /\ taken' = taken \cup (IF line.code = "eof" THEN {} ELSE {<<p, Result(Now(p)), line.is>>})
             /\ got' = [got EXCEPT ![p] = 0]
             /\ After(p, line.code) /\ UNCHANGED announced
        ELSE /\ announced' = [announced EXCEPT ![p] = Now(p).do = "data" /\ line.code = "123"]
             /\ UNCHANGED <<pc, got, taken, closed>>
  /\ UNCHANGED <<dialogue, up, peer>>

\* yread() of what was announced
AwaitData(p) ==
  /\ Doing(p, "data") /\ announced[p]
  /\ LET d == Now(p).what.from
     IN down[d] # <<>> /\ Took(d)
  /\ announced' = [announced EXCEPT ![p] = FALSE]
  /\ got' = [got EXCEPT ![p] = @ + 1]
  /\ UNCHANGED <<dialogue, pc, taken, up, closed, peer>>

\* fork(); sleep(600), which is taken to be long enough; and the end.
Forking(p) == Doing(p, "fork") /\ pc' = [pc EXCEPT ![p] = @ + 1, ![p + 1] = 1] /\ UNCHANGED closed
Waking(p)  == Doing(p, "sleep") /\ pc[1] = Ended(1) /\ Onward(p) /\ UNCHANGED closed
Closing(p) == Doing(p, "close") /\ Exit(p, FALSE)
Other(p) ==
  /\ Forking(p) \/ Waking(p) \/ Closing(p)
  /\ UNCHANGED <<dialogue, announced, got, taken, up, down, peer>>

Proceed(p) ==
  Connecting(p) \/ Sending(p) \/ AwaitHandle(p) \/ AwaitResult(p) \/ AwaitData(p) \/ Other(p)

-----------------------------------------------------------------------------
DlgInit ==
  /\ dialogue \in Dialogues
  /\ pc = [p \in DOMAIN dialogue |-> IF p = 1 THEN 1 ELSE 0]
  /\ announced = [p \in DOMAIN dialogue |-> FALSE] /\ got = [p \in DOMAIN dialogue |-> 0]
  /\ taken = {} /\ closed = {}
  /\ up = [c \in Conns |-> <<>>] /\ down = [c \in Conns |-> <<>>]
  /\ peer = [c \in Conns |-> Absent]

DlgNext == (\E p \in Procs : Proceed(p)) \/ (\E c \in Conns : Serve(c))

\* Processes and sessions go on while they can.
DlgFairness == /\ \A p \in {1, 2} : WF_dlgVars(p \in Procs /\ Proceed(p))
               /\ \A c \in Conns : WF_dlgVars(Serve(c))

-----------------------------------------------------------------------------
\* Though programs send far ahead of what they read, and forget errors, whatever result
\* they take is that of the command that it is meant for (get_result and get_data,
\* src/src/say.cc:82-139, gauge.cc:82-149, vrfy.cc:85-115).  The child of gauge is left
\* out: when its parent has failed, it takes the replies to its texts for others.
Paired == \A h \in taken : h[1] = 1 => h[2] = h[3]

\* Every program comes to an end, in success or failure, and the server lets go of what
\* it has closed.  So does the child of gauge, unless its parent fails: then nobody reads
\* what the server sends, and the child waits for the server.
Ends ==
  <>[](/\ ~Runs(1)
       /\ <<1, "done", "done">> \in taken => \A p \in Procs : ~Runs(p)
       /\ \A c \in closed : peer[c].role = "over")
=============================================================================
