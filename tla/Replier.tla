------------------------------ MODULE Replier -------------------------------
(***************************************************************************)
(* Replies under congestion (async_sputs and a_replier, src/src/nonblock.cc*)
(* with close_and_invalidate, src/src/daemon.cc).  What a descriptor does  *)
(* not take at once is kept by a replier, which is called when it takes    *)
(* more; from then on everything goes through the replier, also for the    *)
(* next client that gets the descriptor.                                   *)
(* The bytes sent to a client are numbered from 1; 0 is a byte that was    *)
(* meant for an earlier client of the descriptor.                          *)
(***************************************************************************)
EXTENDS Integers, Sequences

CONSTANTS
  MaxFd,     \* bound: descriptors 1..MaxFd
  MaxSent,   \* bound: bytes sent to a client
  MaxMsg,    \* bound: bytes of a string
  MaxConns,  \* bound: clients
  Worlds     \* sets of things that may happen: "empty", an empty string is sent;
             \* "garbage", memory that is not initialised is other than zero;
             \* "leave", a session whose client left ends while replies are kept;
             \* "done", a session ends while replies to its client are kept

ASSUME ReplierAssumption ==
  /\ MaxFd \in Nat \ {0} /\ MaxSent \in Nat /\ MaxMsg \in Nat /\ MaxConns \in Nat
  /\ Worlds \subseteq SUBSET {"empty", "garbage", "leave", "done"}

VARIABLES
  world,   \* which of these may happen
  entry,   \* replier_table: "none", "replier", or "garbage"
  nrep,    \* n_repliers, by the largest descriptor in the table
  buffer,  \* a_replier::buffer
  asleep,  \* is the replier in push_table?
  client,  \* the client of a descriptor: "none", "there" or "gone"
  sent,    \* bytes sent to it
  wire,    \* bytes the descriptor took
  conns,   \* clients so far
  fatal    \* how the server ended

lines == <<client, sent, conns>>
replierVars  == <<entry, nrep, buffer, asleep, lines, wire, fatal, world>>

Fd == 1..MaxFd

ReplierInit ==
  /\ entry = [f \in Fd |-> "none"] /\ nrep = 0
  /\ buffer = [f \in Fd |-> <<>>] /\ asleep = [f \in Fd |-> FALSE]
  /\ client = [f \in Fd |-> "none"] /\ sent = [f \in Fd |-> 0] /\ conns = 0
  /\ wire = [f \in Fd |-> <<>>] /\ fatal = "no"
  /\ world \in Worlds

Running == fatal = "no"
Bytes(from, n) == [i \in 1..n |-> from + i]
Rest(s, k) == SubSeq(s, k + 1, Len(s))

\* What write() takes of n bytes; -1 stands for EAGAIN.
Takes(n) == IF n = 0 THEN {0} ELSE {-1} \cup 1..n
Taken(k) == IF k = -1 THEN 0 ELSE k

\* a_replier::write pushes if there was nothing in the buffer
PushesAlways(f) == TRUE
Pushes(f) == buffer[f] = <<>>

\* a_replier::write, for a replier with nothing in it or something
Keep(f, s) ==
  /\ buffer' = [buffer EXCEPT ![f] = @ \o s]
  /\ asleep' = [asleep EXCEPT ![f] = @ \/ Pushes(f)]
  /\ fatal' = IF Pushes(f) /\ asleep[f] THEN "861" ELSE fatal

\* The table grows to descriptor f; the entries in between are as they are.
Grown(f) ==
  IF f <= nrep THEN {[entry EXCEPT ![f] = "replier"]}
  ELSE {[g \in Fd |-> IF g = f THEN "replier" ELSE IF g \in N THEN "garbage" ELSE entry[g]]
          : N \in IF "garbage" \in world THEN SUBSET (nrep + 1 .. f - 1) ELSE {{}}}

Counted(f) == IF f <= nrep THEN nrep ELSE f

\* async_sputs
Sputs(f, n) ==
  LET s == Bytes(sent[f], n)
  IN /\ Running /\ client[f] # "none" /\ sent[f] + n <= MaxSent
     /\ sent' = [sent EXCEPT ![f] = @ + n]
     /\ \/ /\ entry[f] = "replier"
           /\ Keep(f, s)
           /\ UNCHANGED <<entry, nrep, wire>>
        \/ /\ entry[f] = "garbage"
           /\ fatal' = "garbage"
           /\ UNCHANGED <<entry, nrep, buffer, asleep, wire>>
        \/ \* EPIPE, ECONNRESET
           /\ entry[f] = "none" /\ client[f] = "gone" /\ n > 0
           /\ UNCHANGED <<entry, nrep, buffer, asleep, wire, fatal>>
        \/ /\ entry[f] = "none" /\ (client[f] = "there" \/ n = 0)
           /\ \E k \in Takes(n) :
                /\ wire' = [wire EXCEPT ![f] = @ \o SubSeq(s, 1, Taken(k))]
                /\ IF k = n
                   THEN UNCHANGED <<entry, nrep, buffer, asleep, fatal>>
                   ELSE /\ entry' \in Grown(f)
                        /\ nrep' = Counted(f)
                        /\ buffer' = [buffer EXCEPT ![f] = Rest(s, Taken(k))]
                        /\ asleep' = [asleep EXCEPT ![f] = TRUE]
                        /\ UNCHANGED fatal
     /\ UNCHANGED <<client, conns, world>>

RestKept(f, k) == buffer[f]
RestLeft(f, k) == Rest(buffer[f], k)

AgainNot(f, k) == FALSE
Again(f, k) == k # Len(buffer[f])

\* a_replier::run, from wakeup()
Run(f) ==
  /\ Running /\ asleep[f]
  /\ \/ /\ client[f] = "there"
        /\ \E k \in Takes(Len(buffer[f])) \ {-1} :
             /\ wire' = [wire EXCEPT ![f] = @ \o SubSeq(buffer[f], 1, k)]
             /\ buffer' = [buffer EXCEPT ![f] = IF k = Len(@) THEN <<>> ELSE RestLeft(f, k)]
             /\ asleep' = [asleep EXCEPT ![f] = Again(f, k)]
     \/ \* EPIPE
        /\ client[f] = "gone"
        /\ buffer' = [buffer EXCEPT ![f] = <<>>] /\ asleep' = [asleep EXCEPT ![f] = FALSE]
        /\ UNCHANGED wire
     \/ \* ECONNRESET, and whatever else there is: it tries again
        /\ client[f] = "gone"
        /\ UNCHANGED <<buffer, asleep, wire>>
  /\ UNCHANGED <<entry, nrep, lines, fatal, world>>

\* The client closes the connection.
Leave(f) ==
  /\ Running /\ client[f] = "there"
  /\ client' = [client EXCEPT ![f] = "gone"]
  /\ UNCHANGED <<entry, nrep, buffer, asleep, sent, conns, wire, fatal, world>>

\* The session ends: close_and_invalidate(); replier_table is not told.
Stale(s) == [i \in 1..Len(s) |-> 0]

Close(f) ==
  /\ Running /\ client[f] # "none"
  /\ buffer[f] = <<>> \/ (client[f] = "gone" /\ "leave" \in world) \/ (client[f] = "there" /\ "done" \in world)
  /\ client' = [client EXCEPT ![f] = "none"] /\ asleep' = [asleep EXCEPT ![f] = FALSE]
  /\ buffer' = [buffer EXCEPT ![f] = Stale(@)]
  /\ sent' = [sent EXCEPT ![f] = 0] /\ wire' = [wire EXCEPT ![f] = <<>>]
  /\ UNCHANGED <<entry, nrep, conns, fatal, world>>

\* accept()
Open(f) ==
  /\ Running /\ client[f] = "none" /\ conns < MaxConns
  /\ conns' = conns + 1 /\ client' = [client EXCEPT ![f] = "there"]
  /\ UNCHANGED <<entry, nrep, buffer, asleep, sent, wire, fatal, world>>

Messages == (IF "empty" \in world THEN {0} ELSE {}) \cup 1..MaxMsg

ReplierNext ==
  \E f \in Fd : \/ \E n \in Messages : Sputs(f, n)
                \/ Run(f) \/ Leave(f) \/ Close(f) \/ Open(f)

\* Clients read what they are sent.
ReplierSpec == ReplierInit /\ [][ReplierNext]_replierVars /\ \A f \in Fd : WF_replierVars(Run(f))

-----------------------------------------------------------------------------
\* Nothing unusual happens.
Calm == world = {}

\* Nothing is lost, doubled or reordered between write() and the replier.
NothingLost ==
  \A f \in Fd : client[f] = "there" => wire[f] \o buffer[f] = Bytes(0, sent[f])

\* Replies that are kept are kept by a replier that will be called, and a replier
\* that is called has something to send.
Called ==
  \A f \in Fd : client[f] # "none" => (asleep[f] <=> buffer[f] # <<>>)

\* A client is sent its own replies, from the first on, whoever had its
\* descriptor before and whatever was kept for that one.
OwnReplies == \A f \in Fd : wire[f] = Bytes(0, Len(wire[f]))

\* A client is sent its own replies whatever happens; unless something unusual does,
\* none of them is lost, those that are kept are sent as soon as the client reads, and
\* congestion does not end the server (async_sputs, a_replier::write and a_replier::run,
\* src/src/nonblock.cc; close_and_invalidate, src/src/daemon.cc).
Replies == OwnReplies /\ (Calm => NothingLost /\ Called /\ fatal = "no")

\* The replies of a client that stays arrive as over a reliable line, unless something
\* unusual happens.
Line == INSTANCE Channel WITH
          Line <- Fd, got <- [f \in Fd |-> IF Calm THEN Len(wire[f]) ELSE 0],
          sent <- [f \in Fd |-> IF ~Calm THEN 0 ELSE IF client[f] = "there" THEN sent[f] ELSE Len(wire[f])]
Reliable == Line!Spec
=============================================================================
