------------------------------- MODULE Ttscp --------------------------------
(***************************************************************************)
(* The connections of the server (a_ttscp, src/src/agent.cc, the commands  *)
(* of src/src/ttscp.cc, the loop of src/src/daemon.cc): control and data   *)
(* connections, the tables of their handles, the attachment of data        *)
(* connections to control connections, the streams whose input is a data   *)
(* connection, and the descriptors under it all.  A connection is deleted  *)
(* by the disconnector, by delh, together with the connection it is        *)
(* attached to, or when its data cannot be read; what others have kept of  *)
(* it, a pointer and a descriptor's number, is not told.                   *)
(*                                                                         *)
(* Of a stream there is only its input agent; "works" stands for the       *)
(* agents after it, which Stream describes, also what an intr leaves of    *)
(* them in the queue.  An input agent that is interrupted stays where it   *)
(* waits.                                                                  *)
(***************************************************************************)
EXTENDS Naturals, Sequences, FiniteSets, SequencesExt

CONSTANTS
  Conn,     \* connections, each with a handle of its own
  MaxFd,    \* bound: descriptors 1..MaxFd
  OwnOnly,  \* do clients name in strm only data connections attached to theirs?
  Empty,    \* do clients issue appl 0?
  MaxDelh,  \* bound: delh commands
  MaxLoss,  \* bound: data connections closed by their clients
  MaxIntr   \* bound: intr commands that find a command to interrupt

ASSUME TtscpAssumption ==
  /\ "none" \notin Conn
  /\ MaxFd \in Nat \ {0} /\ OwnOnly \in BOOLEAN /\ Empty \in BOOLEAN
  /\ MaxDelh \in Nat /\ MaxLoss \in Nat /\ MaxIntr \in Nat

VARIABLES
  ctrlConns,  \* ctrl_conns: the control connections that take commands
  dataConns,  \* data_conns
  freed,      \* connections whose a_ttscp was deleted
  fd,         \* the descriptor of a connection, 0 before and after its life
  ctrl,       \* a_ttscp::ctrl of a data connection
  deps,       \* a_ttscp::deps: the data connections attached to a connection
  doomed,     \* a_disconnector::to_delete
  src,        \* a_io::dc of the input agent of a connection's current_stream
  sock,       \* its a_io::socket; 0 if there is no stream
  job,        \* what the stream does for appl: "idle", "reads", "works", "empty" if it
              \* is to read nothing, or "broken": interrupted, and callbk is still set
  relaxed,    \* connections whose input agent was interrupted where it waits
  table,      \* block_table
  dep,        \* the chain of agents that starts with agent::dep
  runq,       \* the run queue, sched_tail first
  ready,      \* rd_set: the descriptors that select() found and the loop did not reach
  delhs, losses, intrs,
  strayed,    \* has a stream read from a connection it does not name?
  fatal       \* how the server ended; or why the model does, with an agent that waits
              \* twice ("tangled"), or that waits and is deleted ("gone")

tables  == <<ctrlConns, dataConns, freed, fd, ctrl, deps>>
streams == <<src, sock, job, relaxed>>
sched   == <<table, dep, runq, ready>>
counts  == <<delhs, losses, intrs>>
vars    == <<tables, doomed, streams, sched, counts, strayed, fatal>>

NoOne  == "none"
Fd     == 1..MaxFd
Listen == 0              \* the descriptor of a_accept, which is always in block_table
Session(c) == <<"a_ttscp", c>>
Input(c)   == <<"a_input", c>>
Disconnector == <<"a_disconnector", NoOne>>
Nobody       == <<"nobody", NoOne>>
Agents == {Session(c) : c \in Conn} \cup {Input(c) : c \in Conn} \cup {Disconnector}

Init ==
  /\ ctrlConns = {} /\ dataConns = {} /\ freed = {}
  /\ fd = [c \in Conn |-> 0]
  /\ ctrl = [c \in Conn |-> NoOne] /\ deps = [c \in Conn |-> {}] /\ doomed = <<>>
  /\ src = [c \in Conn |-> NoOne] /\ sock = [c \in Conn |-> 0]
  /\ job = [c \in Conn |-> "idle"] /\ relaxed = {}
  /\ table = [f \in Fd |-> Nobody] /\ dep = [a \in Agents |-> <<>>]
  /\ runq = <<>> /\ ready = {}
  /\ delhs = 0 /\ losses = 0 /\ intrs = 0 /\ strayed = FALSE /\ fatal = "no"

Alive(c)  == fd[c] # 0
Owner(f)  == {c \in Conn : Alive(c) /\ fd[c] = f}
Closed(f) == Owner(f) = {}

-----------------------------------------------------------------------------
(* What a timeslice does to the scheduler.                                 *)

\* agent::block(): the table and the chains dp after a went to sleep on f in a timeslice of s;
\* an agent that had others behind it takes them along, unless its timeslice is about to end.
Blocked(a, f, tb) == IF tb[f] = Nobody THEN [tb EXCEPT ![f] = a] ELSE tb
Chained(s, a, f, tb, dp) ==
  IF tb[f] \in {Nobody, a} THEN dp
  ELSE IF a = s THEN [dp EXCEPT ![tb[f]] = Append(@, a)]
  ELSE [dp EXCEPT ![tb[f]] = Append(@, a) \o dp[a], ![a] = <<>>]
Resleeps(a, f, tb) == tb[f] = a        \* shriek(861)

\* The end of agent::timeslice() of s: those that waited for it are scheduled.
Ends(s, tb, dp, q) ==
  /\ table' = tb /\ dep' = [dp EXCEPT ![s] = <<>>] /\ runq' = q \o dp[s]

Sleeps(s, a, f, tb, dp, q) ==
  /\ Ends(s, Blocked(a, f, tb), Chained(s, a, f, tb, dp), q)
  /\ fatal' = IF Resleeps(a, f, tb) THEN "861" ELSE fatal

\* PA_NEXT: there is another line already, or the session waits for one.
Continues(c, tb, dp, q) ==
  \/ Ends(Session(c), tb, dp, Append(q, Session(c))) /\ fatal' = fatal
  \/ Sleeps(Session(c), Session(c), fd[c], tb, dp, q)

\* Whether an agent waits, in table tb, in a chain or in queue q.
Waits(a, tb, q) ==
  \/ \E f \in Fd : tb[f] = a
  \/ \E i \in 1..Len(q) : q[i] = a
  \/ \E b \in Agents : \E i \in 1..Len(dep[b]) : dep[b][i] = a

-----------------------------------------------------------------------------
(* ~a_ttscp: a connection goes with those attached to it, and so on.       *)

Below(c) ==
  {x \in Conn : \A S \in SUBSET Conn :
                  c \in S /\ (\A y \in S : deps[y] \subseteq S) => x \in S}

FdsOf(D) == {fd[x] : x \in D}

\* close_and_invalidate()
Invalidated(tb, D) == [f \in Fd |-> IF f \in FdsOf(D) THEN Nobody ELSE tb[f]]

\* rd_set forgets it too
StillReadyAll(r, D) == r
StillReady(r, D) == r \ FdsOf(D)

\* ctrl->deps->remove(handle), before a data connection is deleted
DetachedNot(c) == deps
Detached(c) == [x \in Conn |-> IF x = ctrl[c] THEN deps[x] \ {c} ELSE deps[x]]

\* ~stream of connections D: who waits behind their input agents waits for ever; and if
\* one of these waits itself, the table, a chain or the queue still names it.
Parted(D) == [a \in Agents |-> IF \E x \in D : a = Input(x) THEN <<>> ELSE dep[a]]
Named(D, tb, q) == \E x \in D : Waits(Input(x), tb, q)

Gone(s, tb, q) ==
  fatal' = "gone" /\ Ends(s, tb, dep, q) /\ UNCHANGED <<tables, doomed, streams, counts, strayed>>

Delete(c, r) ==
  LET D == Below(c)
  IN /\ freed' = freed \cup D
     /\ dataConns' = dataConns \ D
     /\ deps' = [x \in Conn |-> IF x \in D THEN {} ELSE Detached(c)[x]]
     /\ ctrl' = [x \in Conn |-> IF x \in D THEN NoOne ELSE ctrl[x]]
     /\ fd'   = [x \in Conn |-> IF x \in D THEN 0 ELSE fd[x]]
     /\ src'  = [x \in Conn |-> IF x \in D THEN NoOne ELSE src[x]]
     /\ sock' = [x \in Conn |-> IF x \in D THEN 0 ELSE sock[x]]
     /\ relaxed' = relaxed \ D
     /\ ready' = StillReady(r, D)
     /\ UNCHANGED ctrlConns

-----------------------------------------------------------------------------
(* a_accept::run                                                           *)

FreeFds == Fd \ FdsOf(Conn)

Accept(c) ==
  /\ c \notin freed /\ ~Alive(c) /\ FreeFds # {}
  /\ LET f == CHOOSE f \in FreeFds : \A g \in FreeFds : f <= g
     IN /\ fd' = [fd EXCEPT ![c] = f]
        /\ table' = Blocked(Session(c), f, table)
        /\ dep' = Chained(Session(c), Session(c), f, table, dep)
  /\ ctrlConns' = ctrlConns \cup {c}
  /\ ready' = ready \ {Listen}
  /\ UNCHANGED <<dataConns, freed, ctrl, deps, doomed, streams, runq, counts, strayed, fatal>>

-----------------------------------------------------------------------------
(* A timeslice of a control connection: a_protocol::run, the commands.     *)

\* PA_DONE or the end of its input: a_ttscp::disconnect
CtrlKept(c)    == ctrlConns
CtrlRemoved(c) == ctrlConns \ {c}

SummonedOnce(q) == IF doomed = <<>> THEN Append(q, Disconnector) ELSE q
Summoned(q) == Append(q, Disconnector)

Quit(c, tb, q) ==
  /\ ctrlConns' = CtrlRemoved(c) /\ doomed' = Append(doomed, c)
  /\ Ends(Session(c), tb, dep, Summoned(q))
  /\ UNCHANGED <<dataConns, freed, fd, ctrl, deps, streams, counts, strayed, fatal>>

\* help, show, user, an error, half a line, nothing yet...
Harmless(c, tb, q) ==
  Continues(c, tb, dep, q) /\ UNCHANGED <<tables, doomed, streams, counts, strayed>>

SockOfCtrl(c, d) == fd[c]
SockOf(c, d) == fd[d]

\* strm with data connection d as its input: the old stream is deleted
Strm(c, tb, q) ==
  /\ ~Named({c}, tb, q)
  /\ \E d \in dataConns :
       /\ OwnOnly => ctrl[d] = c
       /\ src' = [src EXCEPT ![c] = d] /\ sock' = [sock EXCEPT ![c] = SockOf(c, d)]
  /\ job' = [job EXCEPT ![c] = "idle"] /\ relaxed' = relaxed \ {c}
  /\ Continues(c, tb, Parted({c}), q)
  /\ UNCHANGED <<tables, doomed, counts, strayed>>

NoSock(c) == [sock EXCEPT ![c] = 0]

\* strm that fails: 444
StrmFails(c, tb, q) ==
  /\ ~Named({c}, tb, q)
  /\ src' = [src EXCEPT ![c] = NoOne] /\ sock' = NoSock(c)
  /\ job' = [job EXCEPT ![c] = "idle"] /\ relaxed' = relaxed \ {c}
  /\ Continues(c, tb, Parted({c}), q)
  /\ UNCHANGED <<tables, doomed, counts, strayed>>

\* either of them, when the input of the old stream still waits
StrmOfNamed(c, tb, q) == Named({c}, tb, q) /\ Gone(Session(c), tb, q)

\* the queue after PA_WAIT
AfterWaitNot(c, q) == Append(q, Session(c))
AfterWait(c, q) == q

\* appl: the input agent waits for the text, or does so already, without one
Appl(c, tb, q) ==
  /\ sock[c] # 0
  /\ IF Waits(Input(c), tb, q)
     THEN /\ fatal' = IF Resleeps(Input(c), sock[c], tb) THEN "861" ELSE "tangled"
          /\ Ends(Session(c), tb, dep, q) /\ UNCHANGED <<job, relaxed>>
     ELSE /\ \E j \in {"reads"} \cup (IF Empty THEN {"empty"} ELSE {}) : job' = [job EXCEPT ![c] = j]
          /\ relaxed' = relaxed \ {c}
          /\ Sleeps(Session(c), Input(c), sock[c], tb, dep, AfterWait(c, q))
  /\ UNCHANGED <<tables, doomed, src, sock, counts, strayed>>

\* data: c takes no more commands
Data(c, tb, q) ==
  /\ \E p \in ctrlConns \ {c} :
       /\ ctrl' = [ctrl EXCEPT ![c] = p]
       /\ deps' = [deps EXCEPT ![p] = @ \cup {c}]
  /\ ctrlConns' = ctrlConns \ {c} /\ dataConns' = dataConns \cup {c}
  /\ Ends(Session(c), tb, dep, AfterWait(c, q))
  /\ UNCHANGED <<freed, fd, doomed, streams, counts, strayed, fatal>>

\* delh
Delh(c, tb, q, r) ==
  \E d \in dataConns :
    LET D == Below(d) IN
    /\ delhs < MaxDelh
    /\ IF Named(D, Invalidated(tb, D), q)
       THEN Gone(Session(c), tb, q) /\ ready' = r
       ELSE /\ Delete(d, r)
            /\ Continues(c, Invalidated(tb, D), Parted(D), q)
            /\ delhs' = delhs + 1
            /\ UNCHANGED <<job, doomed, losses, intrs, strayed>>

\* callbk->schedule()
CalledNot(c, q) == q
CalledTwice(c, q) == q \o <<Session(c), Session(c)>>
Called(c, q) == Append(q, Session(c))

\* intr, of a command of t: its stream is relaxed, and finishes if it ends with an oa_wavefm.
\* The input agent forgets its text, and nobody takes it from where it waits for it.
Intr(c, tb, q) ==
  /\ intrs < MaxIntr /\ intrs' = intrs + 1
  /\ \E t \in ctrlConns :
       /\ job[t] \in {"reads", "empty", "works"}
       /\ relaxed' = IF job[t] = "works" THEN relaxed ELSE relaxed \cup {t}
       /\ \/ job' = [job EXCEPT ![t] = "idle"] /\ Continues(c, tb, dep, Called(t, q))
          \/ job' = [job EXCEPT ![t] = "broken"] /\ Continues(c, tb, dep, q)
  /\ UNCHANGED <<tables, doomed, src, sock, delhs, losses, strayed>>

\* down
Down(c, tb, q) ==
  /\ fatal' = "800" /\ Ends(Session(c), tb, dep, q)
  /\ UNCHANGED <<tables, doomed, streams, counts, strayed>>

Command(c, tb, q, r) ==
  \/ /\ \/ Quit(c, tb, q) \/ Harmless(c, tb, q) \/ Strm(c, tb, q) \/ StrmFails(c, tb, q)
        \/ StrmOfNamed(c, tb, q) \/ Appl(c, tb, q) \/ Data(c, tb, q) \/ Intr(c, tb, q) \/ Down(c, tb, q)
     /\ ready' = r
  \/ Delh(c, tb, q, r)

-----------------------------------------------------------------------------
(* A timeslice of an input agent: a_input::run.                            *)

HasText(c) == job[c] \in {"reads", "empty"}

\* It has none since an intr; timeslice() returns before those behind it are scheduled.
Shrugs(c, tb, q) ==
  /\ ~HasText(c)
  /\ table' = tb /\ runq' = q /\ relaxed' = relaxed \ {c}
  /\ UNCHANGED <<tables, doomed, src, sock, job, dep, counts, strayed, fatal>>

\* Another agent sleeps on the descriptor.
Nested(c, tb, q) ==
  /\ HasText(c) /\ tb[sock[c]] # Nobody
  /\ Sleeps(Input(c), Input(c), sock[c], tb, dep, q)
  /\ UNCHANGED <<tables, doomed, streams, counts, strayed>>

\* Bytes are read, some or all.
Reads(c, tb, q) ==
  /\ tb[sock[c]] = Nobody /\ ~Closed(sock[c]) /\ job[c] = "reads"
  /\ strayed' = (strayed \/ Owner(sock[c]) # {src[c]})
  /\ \/ Sleeps(Input(c), Input(c), sock[c], tb, dep, q) /\ job' = job
     \/ /\ job' = [job EXCEPT ![c] = "works"]
        /\ Ends(Input(c), tb, dep, q) /\ fatal' = fatal
  /\ UNCHANGED <<tables, doomed, src, sock, relaxed, counts>>

\* read() returns nothing: the client has closed the connection, there is no
\* such descriptor, (EAGAIN) nothing has come and select() was not asked, or
\* nothing was to be read.
NothingReadEver(c, polled) == TRUE
NothingRead(c, polled) == Closed(sock[c]) \/ ~polled \/ job[c] = "empty"

Loss(c, polled) ==
  \/ NothingRead(c, polled) /\ losses' = losses
  \/ ~Closed(sock[c]) /\ losses < MaxLoss /\ losses' = losses + 1

\* The data connection is deleted; 436 and the recovery end the command.
Loses(c, tb, q, r, polled) ==
  LET d == src[c]
      D == Below(d)
      t == Invalidated(tb, D)
  IN /\ HasText(c) /\ tb[sock[c]] = Nobody
     /\ \/ ~Alive(d) /\ fatal' = "dangling" /\ ready' = r    \* dc points to freed memory
           /\ Loss(c, polled) /\ Ends(Input(c), tb, dep, q)
           /\ UNCHANGED <<tables, streams, doomed, delhs, intrs, strayed>>
        \/ /\ Alive(d) /\ Named(D, t, q)
           /\ Gone(Input(c), tb, q) /\ ready' = r
        \/ /\ Alive(d) /\ ~Named(D, t, q)
           /\ Loss(c, polled) /\ Delete(d, r)
           /\ job' = [job EXCEPT ![c] = "idle"]
           /\ Ends(Input(c), t, Parted(D), Called(c, q)) /\ fatal' = fatal
           /\ UNCHANGED <<doomed, delhs, intrs, strayed>>

Fetch(c, tb, q, r, polled) ==
  \/ (Shrugs(c, tb, q) \/ Nested(c, tb, q) \/ Reads(c, tb, q)) /\ ready' = r
  \/ Loses(c, tb, q, r, polled)

-----------------------------------------------------------------------------
(* a_disconnector::run                                                     *)

Disconnect(q) ==
  LET D == Below(Last(doomed))
      t == Invalidated(table, D)
  IN \/ /\ doomed = <<>> /\ fatal' = "861"
        /\ Ends(Disconnector, table, dep, q)
        /\ UNCHANGED <<tables, doomed, streams, ready, counts, strayed>>
     \/ /\ doomed # <<>> /\ Named(D, t, q)
        /\ Gone(Disconnector, table, q) /\ UNCHANGED ready
     \/ /\ doomed # <<>> /\ ~Named(D, t, q)
        /\ Delete(Last(doomed), ready) /\ doomed' = Front(doomed)
        /\ Ends(Disconnector, t, Parted(D), q)
        /\ UNCHANGED <<job, counts, strayed, fatal>>

-----------------------------------------------------------------------------
(* The loop of server().                                                   *)

Running == fatal = "no"

Dispatch ==
  /\ Running /\ ready = {} /\ runq # <<>>
  /\ LET a == Head(runq)  q == Tail(runq)
     IN \/ \E c \in Conn : a = Session(c) /\ Command(c, table, q, {})
        \/ \E c \in Conn : a = Input(c) /\ Fetch(c, table, q, {}, FALSE)
        \/ a = Disconnector /\ Disconnect(q)

\* select() finds any of the descriptors that agents sleep on.
Slept == {f \in Fd : table[f] # Nobody}

Calling == IF FreeFds # {} /\ \E c \in Conn : c \notin freed /\ ~Alive(c) THEN {Listen} ELSE {}

Select ==
  /\ Running /\ ready = {}
  /\ \A f \in Slept : ~Closed(f)
  /\ ready' \in SUBSET (Slept \cup Calling) \ {{}}
  /\ UNCHANGED <<tables, doomed, streams, table, dep, runq, counts, strayed, fatal>>

\* select() is asked about a closed descriptor: shriek(871)
SelectFails ==
  /\ Running /\ ready = {} /\ runq = <<>>
  /\ \E f \in Slept : Closed(f)
  /\ fatal' = "871"
  /\ UNCHANGED <<tables, doomed, streams, sched, counts, strayed>>

\* wakeup() of the descriptor the loop comes to next
WakeUp ==
  /\ Running /\ ready # {}
  /\ LET f  == CHOOSE f \in ready : \A g \in ready : f <= g
         tb == [table EXCEPT ![f] = Nobody]
         r  == ready \ {f}
     IN IF f = Listen
        THEN \E c \in Conn : Accept(c)
        ELSE \/ \E c \in Conn : table[f] = Session(c) /\ Command(c, tb, runq, r)
             \/ \E c \in Conn : table[f] = Input(c) /\ Fetch(c, tb, runq, r, TRUE)

\* The agents after the input have finished, and with them the command.
Finish(c) ==
  /\ Running /\ job[c] = "works"
  /\ job' = [job EXCEPT ![c] = "idle"] /\ runq' = Called(c, runq)
  /\ UNCHANGED <<tables, doomed, src, sock, relaxed, table, dep, ready, counts, strayed, fatal>>

Next == Dispatch \/ Select \/ SelectFails \/ WakeUp \/ \E c \in Conn : Finish(c)

Spec == Init /\ [][Next]_vars

\* The clients send the texts they announced; the agents after the input finish;
\* now and then select() finds nothing, and the queue has its turn.
FairSpec ==
  /\ Spec /\ WF_vars(WakeUp) /\ SF_vars(Dispatch) /\ WF_vars(SelectFails)
  /\ \A f \in Fd : SF_vars(Select /\ f \in ready')
  /\ \A c \in Conn : WF_vars(Finish(c)) /\ SF_vars(Dispatch /\ job[c] = "reads" /\ job'[c] # "reads")
                                        /\ SF_vars(WakeUp /\ job[c] = "reads" /\ job'[c] # "reads")

-----------------------------------------------------------------------------
Waiting == {table[f] : f \in Fd} \cup {runq[i] : i \in 1..Len(runq)}
             \cup UNION {{dep[a][i] : i \in 1..Len(dep[a])} : a \in Agents}

\* Every variable has its type.
TypeOK ==
  /\ ctrlConns \in SUBSET Conn /\ dataConns \in SUBSET Conn /\ freed \in SUBSET Conn
  /\ fd \in [Conn -> 0..MaxFd]
  /\ ctrl \in [Conn -> Conn \cup {NoOne}] /\ deps \in [Conn -> SUBSET Conn]
  /\ doomed \in Seq(Conn)
  /\ src \in [Conn -> Conn \cup {NoOne}] /\ sock \in [Conn -> 0..MaxFd]
  /\ job \in [Conn -> {"idle", "reads", "empty", "works", "broken"}]
  /\ relaxed \in SUBSET Conn /\ \A c \in Conn : src[c] = NoOne <=> sock[c] = 0
  /\ table \in [Fd -> Agents \cup {Nobody}] /\ dep \in [Agents -> Seq(Agents)]
  /\ runq \in Seq(Agents) /\ ready \in SUBSET (Fd \cup {Listen})
  /\ delhs \in 0..MaxDelh /\ losses \in 0..MaxLoss /\ intrs \in 0..MaxIntr
  /\ strayed \in BOOLEAN /\ fatal \in {"no", "800", "861", "871", "dangling", "gone", "tangled"}

\* A connection that was deleted is in neither table of handles, and none that
\* was not is out of both, unless it waits for the disconnector: "Forgot to
\* forget a_ttscp" is never reached, and no connection leaks.
Registered ==
  /\ ctrlConns \cap dataConns = {}
  /\ ctrlConns \cup dataConns \cup {doomed[i] : i \in 1..Len(doomed)} = {c \in Conn : Alive(c)}

\* The attachment is known on both sides, and only to live connections: ~a_ttscp
\* finds every data connection it has to delete, and deletes none twice.
DepsMutual ==
  /\ \A c, d \in Conn : d \in deps[c] <=> ctrl[d] = c
  /\ \A d \in Conn : ctrl[d] # NoOne <=> d \in dataConns
  /\ \A d \in dataConns : Alive(ctrl[d])

\* The disconnector runs once for every connection to be deleted ("Spurious disconnect").
Disconnects ==
  fatal = "no" => Len(doomed) = Cardinality({i \in 1..Len(runq) : runq[i] = Disconnector})

\* The tables and the queue name no agent that is gone: no timeslice is given to
\* freed memory, whatever was deleted.
NoneBehind ==
  \A c \in Conn : /\ Session(c) \in Waiting => c \in ctrlConns
                  /\ Input(c) \in Waiting => HasText(c) \/ c \in relaxed

\* What select() found for the loop is still there when the loop comes to it.
NoGhost == \A f \in ready \ {Listen} : table[f] # Nobody

\* Until a command is interrupted no agent goes to sleep where it sleeps ("Resleeping on",
\* src/src/agent.cc:1314), none is deleted while it waits, and the disconnector is not run in
\* vain ("Spurious disconnect", 984).
SleepsOnce == intrs = 0 => fatal \notin {"861", "gone", "tangled"}

\* Handles, attachments, descriptors, sleepers and what waits to be deleted agree, whatever
\* is deleted in whichever order (a_ttscp::~a_ttscp, src/src/agent.cc:1081-1106;
\* a_disconnector, 956-998; close_and_invalidate, src/src/daemon.cc:368-382).
Tables == Registered /\ DepsMutual /\ NoGhost /\ Disconnects /\ NoneBehind /\ SleepsOnce

\* The server ends only when it is told to.
NoFatal == fatal \in {"no", "800"}

\* A stream reads only from the connection it names.
NeverStrays == ~strayed

\* Clients that behave keep the server alive and get what they asked for (a_input::run,
\* src/src/agent.cc:581-631; cmd_stream, src/src/ttscp.cc:325-333).
Steady == NoFatal /\ NeverStrays

\* A session whose command has begun is called again: its client can go on.
Completes ==
  \A c \in Conn : job[c] \in {"reads", "works"} ~> Session(c) \in Waiting \/ fatal # "no"

\* A data connection goes with its control connection, by delh, or when its
\* client closes it, and not otherwise.
KeptOpen ==
  [][\A d \in dataConns \ dataConns' :
       delhs' # delhs \/ losses' # losses \/ ctrl[d] \in freed']_vars

\* Clients that behave keep the data connections that they opened, and every command of
\* theirs comes to an end (a_ttscp::~a_ttscp and a_protocol::run, src/src/agent.cc:1014-1106).
Served == KeptOpen /\ Completes

\* For TLC: connections are interchangeable.
Symmetry == Permutations(Conn)
=============================================================================
