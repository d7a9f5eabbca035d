---------------------------- MODULE TtscpProofs -----------------------------
(***************************************************************************)
(* Theorems about Ttscp, for any connections, descriptors and commands:    *)
(* every agent that has to run waits in one place, and what the tables say *)
(* of connections, descriptors and agents agrees; and, if clients behave,  *)
(* nothing but a command ends the server or closes a data connection.      *)
(***************************************************************************)
EXTENDS Ttscp, SequenceTheorems, FiniteSetTheorems, WellFoundedInduction, NaturalsInduction, TLAPS

Workers == Agents \ {Disconnector}

\* Where a worker waits: in the table tb, in a chain of dp, or in the queue q.
Holds(a, tb, dp, q) ==
  \/ \E f \in Fd : tb[f] = a
  \/ \E i \in 1..Len(q) : q[i] = a
  \/ \E b \in Agents : \E i \in 1..Len(dp[b]) : dp[b][i] = a

\* It waits in one place only.
Single(a, tb, dp, q) ==
  /\ \A f, g \in Fd : tb[f] = a /\ tb[g] = a => f = g
  /\ \A i, j \in 1..Len(q) : q[i] = a /\ q[j] = a => i = j
  /\ \A b, d \in Agents : \A i \in 1..Len(dp[b]), j \in 1..Len(dp[d]) :
       dp[b][i] = a /\ dp[d][j] = a => b = d /\ i = j
  /\ \A f \in Fd, i \in 1..Len(q) : tb[f] = a => q[i] # a
  /\ \A f \in Fd, b \in Agents : \A i \in 1..Len(dp[b]) : tb[f] = a => dp[b][i] # a
  /\ \A j \in 1..Len(q), b \in Agents : \A i \in 1..Len(dp[b]) : q[j] = a => dp[b][i] # a

SchedType(tb, dp, q) ==
  /\ tb \in [Fd -> Workers \cup {Nobody}]
  /\ dp \in [Agents -> Seq(Workers)]
  /\ q \in Seq(Agents)

\* None but W wait, and each of them in one place.
Sched(tb, dp, q, W) ==
  /\ SchedType(tb, dp, q)
  /\ \A a \in Workers : Single(a, tb, dp, q) /\ (Holds(a, tb, dp, q) => a \in W)

\* The workers that may have to run.
Due == {Session(c) : c \in {d \in ctrlConns : job[d] = "idle"}}
         \cup {Input(c) : c \in {d \in Conn : HasText(d) \/ d \in relaxed}}

\* The ends that an input agent comes to that waits after an intr.
Stuck == {"861", "gone", "tangled"}

ConnTypeOK ==
  /\ ctrlConns \in SUBSET Conn /\ dataConns \in SUBSET Conn /\ freed \in SUBSET Conn
  /\ fd \in [Conn -> 0..MaxFd]
  /\ ctrl \in [Conn -> Conn \cup {NoOne}] /\ deps \in [Conn -> SUBSET Conn]
  /\ doomed \in Seq(Conn)
  /\ src \in [Conn -> Conn \cup {NoOne}] /\ sock \in [Conn -> 0..MaxFd]
  /\ job \in [Conn -> {"idle", "reads", "empty", "works", "broken"}] /\ relaxed \in SUBSET Conn
  /\ \A c \in Conn : src[c] = NoOne <=> sock[c] = 0
  /\ ready \in SUBSET (Fd \cup {Listen})
  /\ delhs \in 0..MaxDelh /\ losses \in 0..MaxLoss /\ intrs \in 0..MaxIntr
  /\ strayed \in BOOLEAN /\ fatal \in {"no", "800", "871", "dangling"} \cup Stuck
  /\ relaxed # {} \/ fatal \in Stuck => intrs > 0

\* Every connection is in one table or waits to be deleted, once; descriptors are not shared.
Placed ==
  /\ Registered
  /\ \A i \in 1..Len(doomed) : doomed[i] \notin ctrlConns \cup dataConns
  /\ \A i, j \in 1..Len(doomed) : doomed[i] = doomed[j] => i = j
  /\ \A c \in freed : fd[c] = 0
  /\ \A c, d \in Conn : fd[c] = fd[d] /\ fd[c] # 0 => c = d

\* A stream's connection is a data connection or gone, and only control connections have streams
\* that do something.
Sourced ==
  /\ \A c \in Conn : src[c] # NoOne => src[c] \in dataConns \cup freed
  /\ \A c \in Conn : job[c] # "idle" => c \in ctrlConns
  /\ \A c \in Conn : HasText(c) => src[c] # NoOne

TtscpInv ==
  /\ ConnTypeOK /\ Placed /\ DepsMutual /\ Sourced
  /\ Sched(table, dep, runq, Due)
  /\ NoGhost /\ Disconnects

-----------------------------------------------------------------------------
(* Agents and sequences.                                                   *)

LEMMA AgentFacts ==
  /\ \A c \in Conn : Session(c) \in Workers /\ Input(c) \in Workers
  /\ \A c, d \in Conn : Session(c) # Input(d)
  /\ \A c, d \in Conn : Session(c) = Session(d) => c = d
  /\ \A c, d \in Conn : Input(c) = Input(d) => c = d
  /\ \A a \in Workers : a # Nobody /\ a # Disconnector /\ a \in Agents
  /\ \A a \in Workers : \E c \in Conn : a = Session(c) \/ a = Input(c)
  /\ Disconnector \in Agents /\ Agents = Workers \cup {Disconnector}
  /\ Nobody \notin Agents
<1>1. \A c, d \in Conn : Session(c) # Input(d) /\ Session(c) # Disconnector /\ Input(c) # Disconnector
                          /\ Session(c) # Nobody /\ Input(c) # Nobody
  BY DEF Session, Input, Disconnector, Nobody
<1>2. \A c, d \in Conn : (Session(c) = Session(d) => c = d) /\ (Input(c) = Input(d) => c = d)
  BY DEF Session, Input
<1>3. Nobody # Disconnector
  BY DEF Nobody, Disconnector
<1> QED
  BY <1>1, <1>2, <1>3 DEF Workers, Agents

LEMMA TailFacts ==
  ASSUME NEW S, NEW q \in Seq(S), q # <<>>
  PROVE  /\ Tail(q) \in Seq(S) /\ Len(q) \in Nat \ {0} /\ Len(Tail(q)) = Len(q) - 1
         /\ \A i \in 1..Len(Tail(q)) : i + 1 \in 1..Len(q) /\ Tail(q)[i] = q[i + 1]
         /\ Head(q) = q[1] /\ 1 \in 1..Len(q)
<1>1. Len(q) \in Nat /\ Len(q) # 0
  BY EmptySeq, LenProperties
<1>2. /\ Tail(q) \in Seq(S) /\ Len(Tail(q)) = Len(q) - 1
      /\ \A i \in 1..Len(Tail(q)) : Tail(q)[i] = q[i + 1]
  BY HeadTailProperties
<1>3. Head(q) = q[1]
  OBVIOUS
<1> QED
  BY <1>1, <1>2, <1>3

LEMMA AppendFacts ==
  ASSUME NEW S, NEW q \in Seq(S), NEW x \in S
  PROVE  /\ Append(q, x) \in Seq(S) /\ Len(q) \in Nat /\ Len(Append(q, x)) = Len(q) + 1
         /\ \A i \in 1..Len(q) : Append(q, x)[i] = q[i]
         /\ Append(q, x)[Len(q) + 1] = x
<1>1. Append(q, x) \in Seq(S) /\ Len(Append(q, x)) = Len(q) + 1 /\ Len(q) \in Nat
  BY AppendProperties, LenProperties
<1> QED
  BY <1>1, AppendProperties

LEMMA ConcatFacts ==
  ASSUME NEW S, NEW q \in Seq(S), NEW p \in Seq(S)
  PROVE  /\ q \o p \in Seq(S) /\ Len(q) \in Nat /\ Len(p) \in Nat
         /\ Len(q \o p) = Len(q) + Len(p)
         /\ \A i \in 1..Len(q) : (q \o p)[i] = q[i]
         /\ \A i \in Len(q) + 1 .. Len(q) + Len(p) :
              i - Len(q) \in 1..Len(p) /\ (q \o p)[i] = p[i - Len(q)]
<1>1. Len(q) \in Nat /\ Len(p) \in Nat
  BY LenProperties
<1>2. /\ q \o p \in Seq(S) /\ Len(q \o p) = Len(q) + Len(p)
      /\ \A i \in 1..Len(q) + Len(p) : (q \o p)[i] = IF i <= Len(q) THEN q[i] ELSE p[i - Len(q)]
  BY ConcatProperties
<1> QED
  BY <1>1, <1>2

-----------------------------------------------------------------------------
(* What a timeslice does to the scheduler.                                 *)

LEMMA Widened ==
  ASSUME NEW tb, NEW dp, NEW q, NEW W, NEW V, Sched(tb, dp, q, W), W \subseteq V
  PROVE  Sched(tb, dp, q, V)
  BY DEF Sched

LEMMA Absent ==
  ASSUME NEW tb, NEW dp, NEW q, NEW W, Sched(tb, dp, q, W), NEW a \in Workers, a \notin W
  PROVE  /\ \A f \in Fd : tb[f] # a
         /\ \A i \in 1..Len(q) : q[i] # a
         /\ \A b \in Agents : \A i \in 1..Len(dp[b]) : dp[b][i] # a
<1>1. ~Holds(a, tb, dp, q)
  BY DEF Sched
<1> QED
  BY <1>1 DEF Holds

\* sched_sel() takes the first of the queue.
LEMMA Popped ==
  ASSUME NEW tb, NEW dp, NEW q, NEW W, Sched(tb, dp, q, W), q # <<>>
  PROVE  Sched(tb, dp, Tail(q), W \ {Head(q)})
<1> DEFINE t == Tail(q)
<1>1. SchedType(tb, dp, q)
  BY DEF Sched
<1>2. /\ t \in Seq(Agents) /\ Head(q) = q[1] /\ 1 \in 1..Len(q)
      /\ \A i \in 1..Len(t) : i + 1 \in 1..Len(q) /\ t[i] = q[i + 1] /\ i + 1 # 1
      /\ \A i, j \in 1..Len(t) : i + 1 = j + 1 => i = j
  <2>1. q \in Seq(Agents)
    BY <1>1 DEF SchedType
  <2> QED
    BY <2>1, TailFacts
<1> HIDE DEF t
<1>3. ASSUME NEW a \in Workers
      PROVE  Single(a, tb, dp, t) /\ (Holds(a, tb, dp, t) => a \in W \ {Head(q)})
  <2>1. Single(a, tb, dp, q) /\ (Holds(a, tb, dp, q) => a \in W)
    BY DEF Sched
  <2>2. Single(a, tb, dp, t)
    <3>1. ASSUME NEW i \in 1..Len(t), NEW j \in 1..Len(t), t[i] = a, t[j] = a PROVE i = j
      <4>1. i + 1 = j + 1
        BY <1>2, <2>1, <3>1 DEF Single
      <4> QED
        BY <4>1
    <3>2. ASSUME NEW f \in Fd, NEW i \in 1..Len(t), tb[f] = a PROVE t[i] # a
      BY <1>2, <2>1, <3>2 DEF Single
    <3>3. ASSUME NEW j \in 1..Len(t), NEW b \in Agents, NEW i \in 1..Len(dp[b]), t[j] = a
          PROVE  dp[b][i] # a
      <4>1. j + 1 \in 1..Len(q) /\ q[j + 1] = a
        BY <1>2, <3>3
      <4> QED
        BY <2>1, <4>1 DEF Single
    <3> QED
      BY <2>1, <3>1, <3>2, <3>3 DEF Single
  <2>3. Holds(a, tb, dp, t) => Holds(a, tb, dp, q)
    BY <1>2 DEF Holds
  <2>4. a = Head(q) => ~Holds(a, tb, dp, t)
    BY <1>2, <2>1 DEF Holds, Single
  <2> QED
    BY <2>1, <2>2, <2>3, <2>4
<1>4. SchedType(tb, dp, t)
  BY <1>1, <1>2 DEF SchedType
<1> QED
  BY <1>3, <1>4 DEF Sched, t

\* wakeup() takes a sleeper from the table.
LEMMA Roused ==
  ASSUME NEW tb, NEW dp, NEW q, NEW W, Sched(tb, dp, q, W), NEW f \in Fd, tb[f] # Nobody
  PROVE  Sched([tb EXCEPT ![f] = Nobody], dp, q, W \ {tb[f]})
<1> DEFINE t == [tb EXCEPT ![f] = Nobody]
<1>1. SchedType(tb, dp, q)
  BY DEF Sched
<1>2. t \in [Fd -> Workers \cup {Nobody}] /\ \A g \in Fd : t[g] = IF g = f THEN Nobody ELSE tb[g]
  BY <1>1 DEF SchedType
<1> HIDE DEF t
<1>3. ASSUME NEW a \in Workers
      PROVE  Single(a, t, dp, q) /\ (Holds(a, t, dp, q) => a \in W \ {tb[f]})
  <2>0. a # Nobody
    BY AgentFacts
  <2>1. Single(a, tb, dp, q) /\ (Holds(a, tb, dp, q) => a \in W)
    BY DEF Sched
  <2>2. Single(a, t, dp, q)
    BY <1>2, <2>0, <2>1 DEF Single
  <2>3. Holds(a, t, dp, q) => Holds(a, tb, dp, q)
    BY <1>2, <2>0 DEF Holds
  <2>4. a = tb[f] => ~Holds(a, t, dp, q)
    BY <1>2, <2>0, <2>1 DEF Holds, Single
  <2> QED
    BY <2>1, <2>2, <2>3, <2>4
<1>4. SchedType(t, dp, q)
  BY <1>1, <1>2 DEF SchedType
<1> QED
  BY <1>3, <1>4 DEF Sched, t

\* A worker is scheduled.
LEMMA Enqueued ==
  ASSUME NEW tb, NEW dp, NEW q, NEW W, Sched(tb, dp, q, W), NEW w \in Workers, w \notin W
  PROVE  Sched(tb, dp, Append(q, w), W \cup {w})
<1> DEFINE t == Append(q, w)
           n == Len(q) + 1
<1>1. SchedType(tb, dp, q)
  BY DEF Sched
<1>2. /\ t \in Seq(Agents) /\ t[n] = w
      /\ \A i \in 1..Len(t) : i = n \/ (i \in 1..Len(q) /\ t[i] = q[i] /\ i # n)
  <2>1. q \in Seq(Agents) /\ w \in Agents
    BY <1>1, AgentFacts DEF SchedType
  <2>2. /\ t \in Seq(Agents) /\ Len(q) \in Nat /\ Len(t) = Len(q) + 1
        /\ \A i \in 1..Len(q) : t[i] = q[i]
        /\ t[Len(q) + 1] = w
    BY <2>1, AppendFacts
  <2> HIDE DEF t
  <2> QED
    BY <2>2
<1> HIDE DEF t, n
<1>3. ASSUME NEW a \in Workers
      PROVE  Single(a, tb, dp, t) /\ (Holds(a, tb, dp, t) => a \in W \cup {w})
  <2>1. Single(a, tb, dp, q) /\ (Holds(a, tb, dp, q) => a \in W)
    BY DEF Sched
  <2>2. CASE a = w
    <3>1. ~Holds(a, tb, dp, q)
      BY <2>1, <2>2
    <3> QED
      BY <1>2, <2>1, <2>2, <3>1 DEF Single, Holds
  <2>3. CASE a # w
    <3>1. Single(a, tb, dp, t)
      BY <1>2, <2>1, <2>3 DEF Single
    <3>2. Holds(a, tb, dp, t) => Holds(a, tb, dp, q)
      BY <1>2, <2>3 DEF Holds
    <3> QED
      BY <2>1, <3>1, <3>2
  <2> QED
    BY <2>2, <2>3
<1>4. SchedType(tb, dp, t)
  BY <1>1, <1>2 DEF SchedType
<1> QED
  BY <1>3, <1>4 DEF Sched, t

\* The disconnector is scheduled.
LEMMA Summons ==
  ASSUME NEW tb, NEW dp, NEW q, NEW W, Sched(tb, dp, q, W)
  PROVE  Sched(tb, dp, Append(q, Disconnector), W)
<1> DEFINE t == Append(q, Disconnector)
           n == Len(q) + 1
<1>1. SchedType(tb, dp, q)
  BY DEF Sched
<1>2. /\ t \in Seq(Agents) /\ t[n] = Disconnector
      /\ \A i \in 1..Len(t) : i = n \/ (i \in 1..Len(q) /\ t[i] = q[i] /\ i # n)
  <2>1. q \in Seq(Agents) /\ Disconnector \in Agents
    BY <1>1, AgentFacts DEF SchedType
  <2>2. /\ t \in Seq(Agents) /\ Len(q) \in Nat /\ Len(t) = Len(q) + 1
        /\ \A i \in 1..Len(q) : t[i] = q[i]
        /\ t[Len(q) + 1] = Disconnector
    BY <2>1, AppendFacts
  <2> HIDE DEF t
  <2> QED
    BY <2>2
<1> HIDE DEF t, n
<1>3. ASSUME NEW a \in Workers
      PROVE  Single(a, tb, dp, t) /\ (Holds(a, tb, dp, t) => a \in W)
  <2>0. a # Disconnector
    BY AgentFacts
  <2>1. Single(a, tb, dp, q) /\ (Holds(a, tb, dp, q) => a \in W)
    BY DEF Sched
  <2>2. Single(a, tb, dp, t)
    BY <1>2, <2>1, <2>0 DEF Single
  <2>3. Holds(a, tb, dp, t) => Holds(a, tb, dp, q)
    BY <1>2, <2>0 DEF Holds
  <2> QED
    BY <2>1, <2>2, <2>3
<1>4. SchedType(tb, dp, t)
  BY <1>1, <1>2 DEF SchedType
<1> QED
  BY <1>3, <1>4 DEF Sched, t

\* The end of a timeslice: those who waited for s are queued.
LEMMA Flushed ==
  ASSUME NEW tb, NEW dp, NEW q, NEW W, Sched(tb, dp, q, W), NEW s \in Agents
  PROVE  Sched(tb, [dp EXCEPT ![s] = <<>>], q \o dp[s], W)
<1> DEFINE d == [dp EXCEPT ![s] = <<>>]
           p == dp[s]
           t == q \o p
           n == Len(q)
<1>1. SchedType(tb, dp, q)
  BY DEF Sched
<1>2. /\ t \in Seq(Agents) /\ n = Len(q) /\ n \in Nat
      /\ \A i \in 1..Len(t) : \/ i \in 1..n /\ t[i] = q[i]
                              \/ i \notin 1..n /\ i - n \in 1..Len(p) /\ t[i] = p[i - n]
  <2>1. q \in Seq(Agents) /\ p \in Seq(Agents)
    BY <1>1, SeqMonotonic DEF SchedType, Workers
  <2> HIDE DEF p
  <2> QED
    BY <2>1, ConcatFacts
<1>3. /\ d \in [Agents -> Seq(Workers)] /\ p = dp[s]
      /\ \A b \in Agents : d[b] = IF b = s THEN <<>> ELSE dp[b]
  BY <1>1, EmptySeq DEF SchedType
<1>3a. \A b \in Agents : \A i \in 1..Len(d[b]) : b # s /\ i \in 1..Len(dp[b]) /\ d[b][i] = dp[b][i]
  BY <1>3, EmptySeq
<1> HIDE DEF t, d, p, n
<1>4. ASSUME NEW a \in Workers
      PROVE  Single(a, tb, d, t) /\ (Holds(a, tb, d, t) => a \in W)
  <2>1. Single(a, tb, dp, q) /\ (Holds(a, tb, dp, q) => a \in W)
    BY DEF Sched
  <2>0. ASSUME NEW i \in 1..Len(t), t[i] = a
        PROVE  \/ i \in 1..n /\ i \in 1..Len(q) /\ q[i] = a
               \/ i \notin 1..n /\ i - n \in 1..Len(dp[s]) /\ dp[s][i - n] = a
    BY <1>2, <1>3, <2>0
  <2>2. Holds(a, tb, d, t) => Holds(a, tb, dp, q)
    <3>1. ASSUME NEW i \in 1..Len(t), t[i] = a PROVE Holds(a, tb, dp, q)
      BY <2>0, <3>1 DEF Holds
    <3>2. ASSUME NEW b \in Agents, NEW i \in 1..Len(d[b]), d[b][i] = a PROVE Holds(a, tb, dp, q)
      BY <1>3a, <3>2 DEF Holds
    <3> QED
      BY <3>1, <3>2 DEF Holds
  <2>3. ASSUME NEW i \in 1..Len(t), NEW j \in 1..Len(t), t[i] = a, t[j] = a PROVE i = j
    <3>1. CASE i \in 1..n /\ j \in 1..n
      BY <2>0, <2>1, <2>3, <3>1 DEF Single
    <3>2. CASE i \notin 1..n /\ j \notin 1..n
      <4>1. i - n = j - n
        BY <2>0, <2>1, <2>3, <3>2 DEF Single
      <4> QED
        BY <4>1, <1>2
    <3>3. ~(i \in 1..n /\ j \notin 1..n) /\ ~(i \notin 1..n /\ j \in 1..n)
      BY <2>0, <2>1, <2>3 DEF Single
    <3> QED
      BY <3>1, <3>2, <3>3
  <2>4. ASSUME NEW f \in Fd, NEW i \in 1..Len(t), tb[f] = a PROVE t[i] # a
    BY <2>0, <2>1, <2>4 DEF Single
  <2>5. ASSUME NEW b \in Agents, NEW j \in 1..Len(t), NEW i \in 1..Len(d[b]), t[j] = a PROVE d[b][i] # a
    <3>1. b # s /\ i \in 1..Len(dp[b]) /\ d[b][i] = dp[b][i]
      BY <1>3a
    <3> QED
      BY <2>0, <2>1, <2>5, <3>1 DEF Single
  <2>6. ASSUME NEW b \in Agents, NEW c \in Agents, NEW i \in 1..Len(d[b]), NEW j \in 1..Len(d[c]),
               d[b][i] = a, d[c][j] = a
        PROVE  b = c /\ i = j
    <3>1. i \in 1..Len(dp[b]) /\ dp[b][i] = a /\ j \in 1..Len(dp[c]) /\ dp[c][j] = a
      BY <1>3a, <2>6
    <3> QED
      BY <2>1, <3>1 DEF Single
  <2>7. ASSUME NEW f \in Fd, NEW b \in Agents, NEW i \in 1..Len(d[b]), tb[f] = a PROVE d[b][i] # a
    BY <1>3a, <2>1, <2>7 DEF Single
  <2>8. \A f, g \in Fd : tb[f] = a /\ tb[g] = a => f = g
    BY <2>1 DEF Single
  <2>9. Single(a, tb, d, t)
    BY <2>3, <2>4, <2>5, <2>6, <2>7, <2>8 DEF Single
  <2> QED
    BY <2>1, <2>2, <2>9
<1>5. SchedType(tb, d, t)
  BY <1>1, <1>2, <1>3 DEF SchedType
<1> QED
  BY <1>4, <1>5 DEF Sched, d, t, p

\* close_and_invalidate()
LEMMA TableCut ==
  ASSUME NEW tb, NEW dp, NEW q, NEW W, Sched(tb, dp, q, W), NEW D
  PROVE  Sched(Invalidated(tb, D), dp, q, W)
<1> DEFINE t == Invalidated(tb, D)
<1>1. SchedType(tb, dp, q)
  BY DEF Sched
<1>2. t \in [Fd -> Workers \cup {Nobody}] /\ \A f \in Fd : t[f] \in {Nobody, tb[f]}
  BY <1>1 DEF SchedType, Invalidated
<1> HIDE DEF t
<1>3. ASSUME NEW a \in Workers
      PROVE  Single(a, t, dp, q) /\ (Holds(a, t, dp, q) => a \in W)
  <2>0. a # Nobody
    BY AgentFacts
  <2>1. Single(a, tb, dp, q) /\ (Holds(a, tb, dp, q) => a \in W)
    BY DEF Sched
  <2>2. Single(a, t, dp, q)
    BY <1>2, <2>0, <2>1 DEF Single
  <2>3. Holds(a, t, dp, q) => Holds(a, tb, dp, q)
    BY <1>2, <2>0 DEF Holds
  <2> QED
    BY <2>1, <2>2, <2>3
<1>4. SchedType(t, dp, q)
  BY <1>1, <1>2 DEF SchedType
<1> QED
  BY <1>3, <1>4 DEF Sched, t

\* A sleeper joins the chain of the one that sleeps already.
JoinedBy(w, f, tb, dp) ==
  IF tb[f] = Nobody THEN dp ELSE [dp EXCEPT ![tb[f]] = Append(@, w)]

LEMMA Joined ==
  ASSUME NEW tb, NEW dp, NEW q, NEW W, Sched(tb, dp, q, W), NEW w \in Workers, w \notin W, NEW f \in Fd
  PROVE  Sched(Blocked(w, f, tb), JoinedBy(w, f, tb, dp), q, W \cup {w})
<1>1. SchedType(tb, dp, q)
  BY DEF Sched
<1>2. w # Nobody /\ tb[f] # w
  BY Absent, AgentFacts
<1>3. CASE tb[f] = Nobody
  <2> DEFINE t == [tb EXCEPT ![f] = w]
  <2>1. Blocked(w, f, tb) = t /\ JoinedBy(w, f, tb, dp) = dp
    BY <1>3 DEF Blocked, JoinedBy
  <2>2. t \in [Fd -> Workers \cup {Nobody}] /\ \A g \in Fd : t[g] = IF g = f THEN w ELSE tb[g]
    BY <1>1 DEF SchedType
  <2> HIDE DEF t
  <2>3. ASSUME NEW a \in Workers
        PROVE  Single(a, t, dp, q) /\ (Holds(a, t, dp, q) => a \in W \cup {w})
    <3>1. Single(a, tb, dp, q) /\ (Holds(a, tb, dp, q) => a \in W)
      BY DEF Sched
    <3>2. CASE a = w
      BY <2>2, <3>1, <3>2 DEF Single, Holds
    <3>3. CASE a # w
      <4>1. Single(a, t, dp, q)
        BY <2>2, <3>1, <3>3 DEF Single
      <4>2. Holds(a, t, dp, q) => Holds(a, tb, dp, q)
        BY <2>2, <3>3 DEF Holds
      <4> QED
        BY <3>1, <4>1, <4>2
    <3> QED
      BY <3>2, <3>3
  <2>4. SchedType(t, dp, q)
    BY <1>1, <2>2 DEF SchedType
  <2> QED
    BY <2>1, <2>3, <2>4 DEF Sched
<1>4. CASE tb[f] # Nobody
  <2> DEFINE h == tb[f]
             p == dp[h]
             n == Len(p) + 1
             d == [dp EXCEPT ![h] = Append(p, w)]
  <2>1. h \in Agents /\ h \in Workers
    BY <1>1, <1>4, AgentFacts DEF SchedType
  <2>2. Blocked(w, f, tb) = tb /\ JoinedBy(w, f, tb, dp) = d
    BY <1>2, <1>4 DEF Blocked, JoinedBy
  <2>3. /\ Append(p, w) \in Seq(Workers) /\ Append(p, w)[n] = w
        /\ \A i \in 1..Len(Append(p, w)) : i = n \/ (i \in 1..Len(p) /\ Append(p, w)[i] = p[i] /\ i # n)
    <3>1. p \in Seq(Workers)
      BY <1>1, <2>1 DEF SchedType
    <3> DEFINE x == Append(p, w)
    <3> HIDE DEF p
    <3>2. /\ x \in Seq(Workers) /\ Len(p) \in Nat /\ Len(x) = Len(p) + 1
          /\ \A i \in 1..Len(p) : x[i] = p[i]
          /\ x[Len(p) + 1] = w
      BY <3>1, AppendFacts
    <3> HIDE DEF x
    <3>3. /\ x \in Seq(Workers) /\ x[n] = w
          /\ \A i \in 1..Len(x) : i = n \/ (i \in 1..Len(p) /\ x[i] = p[i] /\ i # n)
      BY <3>2
    <3> QED
      BY <3>3 DEF x
  <2>4. d \in [Agents -> Seq(Workers)] /\ \A b \in Agents : d[b] = IF b = h THEN Append(p, w) ELSE dp[b]
    BY <1>1, <2>1, <2>3 DEF SchedType
  <2>5. \A b \in Agents : \A i \in 1..Len(d[b]) :
          \/ b = h /\ i = n /\ d[b][i] = w
          \/ i \in 1..Len(dp[b]) /\ d[b][i] = dp[b][i]
    BY <2>3, <2>4
  <2> HIDE DEF d, n
  <2>6. ASSUME NEW a \in Workers
        PROVE  Single(a, tb, d, q) /\ (Holds(a, tb, d, q) => a \in W \cup {w})
    <3>1. Single(a, tb, dp, q) /\ (Holds(a, tb, dp, q) => a \in W)
      BY DEF Sched
    <3>2. CASE a = w
      <4>1. ~Holds(a, tb, dp, q)
        BY <3>1, <3>2
      <4>2. \A b \in Agents : \A i \in 1..Len(d[b]) : d[b][i] = a => b = h /\ i = n
        BY <2>5, <4>1 DEF Holds
      <4>3. (\A g \in Fd : tb[g] # a) /\ (\A i \in 1..Len(q) : q[i] # a)
        BY <4>1 DEF Holds
      <4> QED
        BY <3>2, <4>2, <4>3 DEF Single
    <3>3. CASE a # w
      <4>0. \A b \in Agents : \A i \in 1..Len(d[b]) : d[b][i] = a => i \in 1..Len(dp[b]) /\ dp[b][i] = a
        BY <2>5, <3>3
      <4>1. Single(a, tb, d, q)
        BY <4>0, <3>1 DEF Single
      <4>2. Holds(a, tb, d, q) => Holds(a, tb, dp, q)
        BY <2>5, <3>3 DEF Holds
      <4> QED
        BY <3>1, <4>1, <4>2
    <3> QED
      BY <3>2, <3>3
  <2>7. SchedType(tb, d, q)
    BY <1>1, <2>4 DEF SchedType
  <2> QED
    BY <2>2, <2>6, <2>7 DEF Sched
<1> QED
  BY <1>3, <1>4

\* The chain of a goes to the end of that of h.
LEMMA Moved ==
  ASSUME NEW tb, NEW dp, NEW q, NEW W, Sched(tb, dp, q, W), NEW h \in Agents, NEW s \in Agents, h # s
  PROVE  Sched(tb, [dp EXCEPT ![h] = dp[h] \o dp[s], ![s] = <<>>], q, W)
<1> DEFINE t == dp[h] \o dp[s]
           d == [dp EXCEPT ![h] = dp[h] \o dp[s], ![s] = <<>>]
           n == Len(dp[h])
<1>1. SchedType(tb, dp, q)
  BY DEF Sched
<1>2. /\ t \in Seq(Workers) /\ n \in Nat
      /\ \A i \in 1..Len(t) : \/ i \in 1..n /\ t[i] = dp[h][i]
                              \/ i \notin 1..n /\ i - n \in 1..Len(dp[s]) /\ t[i] = dp[s][i - n]
  <2> DEFINE x == dp[h]
             y == dp[s]
  <2>1. x \in Seq(Workers) /\ y \in Seq(Workers)
    BY <1>1 DEF SchedType
  <2> HIDE DEF x, y
  <2>2. /\ x \o y \in Seq(Workers) /\ Len(x) \in Nat
        /\ \A i \in 1..Len(x \o y) : \/ i \in 1..Len(x) /\ (x \o y)[i] = x[i]
                                     \/ i \notin 1..Len(x) /\ i - Len(x) \in 1..Len(y) /\ (x \o y)[i] = y[i - Len(x)]
    BY <2>1, ConcatFacts
  <2> QED
    BY <2>2 DEF x, y
<1>3. /\ d \in [Agents -> Seq(Workers)]
      /\ \A b \in Agents : d[b] = IF b = s THEN <<>> ELSE IF b = h THEN t ELSE dp[b]
  <2>1. dp \in [Agents -> Seq(Workers)] /\ <<>> \in Seq(Workers) /\ t \in Seq(Workers)
    BY <1>1, <1>2, EmptySeq DEF SchedType
  <2> QED
    BY <2>1
<1> HIDE DEF t, d, n
\* where an element of a chain was before
<1>4. ASSUME NEW b \in Agents, NEW i \in 1..Len(d[b])
      PROVE  \/ b = h /\ i \notin 1..n /\ i - n \in 1..Len(dp[s]) /\ d[b][i] = dp[s][i - n]
             \/ b # s /\ i \in 1..Len(dp[b]) /\ d[b][i] = dp[b][i] /\ (b = h => i \in 1..n)
  <2>1. b # s
    BY <1>3, <1>4, EmptySeq
  <2>2. CASE b = h
    BY <1>2, <1>3, <1>4, <2>1, <2>2 DEF n
  <2>3. CASE b # h
    BY <1>3, <1>4, <2>1, <2>3
  <2> QED
    BY <2>2, <2>3
<1>5. ASSUME NEW a \in Workers
      PROVE  Single(a, tb, d, q) /\ (Holds(a, tb, d, q) => a \in W)
  <2>1. Single(a, tb, dp, q) /\ (Holds(a, tb, dp, q) => a \in W)
    BY DEF Sched
  <2>2. ASSUME NEW b \in Agents, NEW i \in 1..Len(d[b]), d[b][i] = a
        PROVE  \E c \in Agents : \E j \in 1..Len(dp[c]) : dp[c][j] = a
    BY <1>4, <2>2
  <2>3. Holds(a, tb, d, q) => Holds(a, tb, dp, q)
    BY <2>2 DEF Holds
  <2>4. ASSUME NEW b \in Agents, NEW c \in Agents, NEW i \in 1..Len(d[b]), NEW j \in 1..Len(d[c]),
               d[b][i] = a, d[c][j] = a
        PROVE  b = c /\ i = j
    <3>1. \A x, y \in Agents : \A k \in 1..Len(dp[x]), l \in 1..Len(dp[y]) :
            dp[x][k] = a /\ dp[y][l] = a => x = y /\ k = l
      BY <2>1 DEF Single
    <3>2. CASE b = h /\ i \notin 1..n /\ i - n \in 1..Len(dp[s]) /\ dp[s][i - n] = a
      <4>1. ~(c # s /\ j \in 1..Len(dp[c]) /\ dp[c][j] = a)
        BY <3>1, <3>2
      <4>2. c = h /\ j - n \in 1..Len(dp[s]) /\ dp[s][j - n] = a
        BY <1>4, <2>4, <4>1
      <4>3. i - n = j - n
        BY <3>1, <3>2, <4>2
      <4>4. i = j
        BY <1>2, <4>3
      <4> QED
        BY <3>2, <4>2, <4>4
    <3>3. CASE b # s /\ i \in 1..Len(dp[b]) /\ dp[b][i] = a /\ (b = h => i \in 1..n)
      <4>1. ~(c = h /\ j - n \in 1..Len(dp[s]) /\ dp[s][j - n] = a)
        BY <3>1, <3>3
      <4>2. j \in 1..Len(dp[c]) /\ dp[c][j] = a
        BY <1>4, <2>4, <4>1
      <4> QED
        BY <3>1, <3>3, <4>2
    <3> QED
      BY <1>4, <2>4, <3>2, <3>3
  <2>5. \A f \in Fd, b \in Agents : \A i \in 1..Len(d[b]) : tb[f] = a => d[b][i] # a
    BY <2>1, <2>2 DEF Single
  <2>6. \A j \in 1..Len(q), b \in Agents : \A i \in 1..Len(d[b]) : q[j] = a => d[b][i] # a
    BY <2>1, <2>2 DEF Single
  <2>7. Single(a, tb, d, q)
    <3>1. /\ \A f, g \in Fd : tb[f] = a /\ tb[g] = a => f = g
          /\ \A i, j \in 1..Len(q) : q[i] = a /\ q[j] = a => i = j
          /\ \A f \in Fd, i \in 1..Len(q) : tb[f] = a => q[i] # a
      BY <2>1 DEF Single
    <3> QED
      BY <2>4, <2>5, <2>6, <3>1 DEF Single
  <2> QED
    BY <2>1, <2>3, <2>7
<1>6. SchedType(tb, d, q)
  BY <1>1, <1>3 DEF SchedType
<1> QED
  BY <1>5, <1>6 DEF Sched, d

\* agent::block()
LEMMA PutToSleep ==
  ASSUME NEW tb, NEW dp, NEW q, NEW W, Sched(tb, dp, q, W), NEW s,
         NEW w \in Workers, w \notin W, NEW f \in Fd
  PROVE  Sched(Blocked(w, f, tb), Chained(s, w, f, tb, dp), q, W \cup {w})
<1>1. tb[f] # w /\ w # Nobody /\ w \in Agents
  BY Absent, AgentFacts
<1>2. Sched(Blocked(w, f, tb), JoinedBy(w, f, tb, dp), q, W \cup {w})
  BY Joined
<1>3. CASE tb[f] = Nobody \/ w = s
  BY <1>1, <1>2, <1>3 DEF Chained, JoinedBy
<1>4. CASE tb[f] # Nobody /\ w # s
  <2> DEFINE h == tb[f]
             d == [dp EXCEPT ![h] = Append(dp[h], w)]
             e == [d EXCEPT ![h] = d[h] \o d[w], ![w] = <<>>]
  <2>1. dp \in [Agents -> Seq(Workers)] /\ h \in Agents /\ h # w
    BY <1>1, <1>4, AgentFacts DEF Sched, SchedType
  <2>2. JoinedBy(w, f, tb, dp) = d
    BY <1>4 DEF JoinedBy
  <2>3. Sched(Blocked(w, f, tb), e, q, W \cup {w})
    <3>1. Sched(Blocked(w, f, tb), d, q, W \cup {w})
      BY <1>2, <2>2
    <3> HIDE DEF d, h
    <3> QED
      BY <1>1, <2>1, <3>1, Moved
  <2>4. d[h] = Append(dp[h], w) /\ d[w] = dp[w]
    BY <1>1, <2>1
  <2>5. e = [dp EXCEPT ![h] = Append(dp[h], w) \o dp[w], ![w] = <<>>]
    BY <1>1, <2>1, <2>4
  <2>6. Chained(s, w, f, tb, dp) = [dp EXCEPT ![h] = Append(dp[h], w) \o dp[w], ![w] = <<>>]
    BY <1>1, <1>4 DEF Chained
  <2> QED
    BY <2>3, <2>5, <2>6
<1> QED
  BY <1>3, <1>4

\* ~stream of connections whose input agents do not wait
LEMMA ChainsCut ==
  ASSUME NEW tb, NEW q, NEW W, Sched(tb, dep, q, W), NEW D, D \subseteq Conn, ~Named(D, tb, q)
  PROVE  Sched(tb, Parted(D), q, W \ {Input(x) : x \in D})
<1> DEFINE d == Parted(D)
<1>1. SchedType(tb, dep, q)
  BY DEF Sched
<1>2. d \in [Agents -> Seq(Workers)] /\ \A b \in Agents : d[b] = <<>> \/ d[b] = dep[b]
  BY <1>1, EmptySeq DEF SchedType, Parted
<1> HIDE DEF d
<1>3. \A b \in Agents : \A i \in 1..Len(d[b]) : i \in 1..Len(dep[b]) /\ d[b][i] = dep[b][i]
  BY <1>2, EmptySeq
<1>4. ASSUME NEW a \in Workers
      PROVE  Single(a, tb, d, q) /\ (Holds(a, tb, d, q) => a \in W \ {Input(x) : x \in D})
  <2>1. Single(a, tb, dep, q) /\ (Holds(a, tb, dep, q) => a \in W)
    BY DEF Sched
  <2>0. \A x \in Agents : \A i \in 1..Len(d[x]) : d[x][i] = a => i \in 1..Len(dep[x]) /\ dep[x][i] = a
    BY <1>3
  <2>2. Single(a, tb, d, q)
    BY <2>0, <2>1 DEF Single
  <2>3. Holds(a, tb, d, q) => Holds(a, tb, dep, q)
    BY <2>0 DEF Holds
  <2>4. a \in {Input(x) : x \in D} => ~Holds(a, tb, dep, q)
    BY DEF Named, Waits, Holds
  <2> QED
    BY <2>1, <2>2, <2>3, <2>4
<1>5. SchedType(tb, d, q)
  BY <1>1, <1>2 DEF SchedType
<1> QED
  BY <1>4, <1>5 DEF Sched, d

\* An agent that waits nowhere is none of those that wait.
LEMMA Left ==
  ASSUME NEW tb, NEW dp, NEW q, NEW W, Sched(tb, dp, q, W), NEW a, ~Holds(a, tb, dp, q)
  PROVE  Sched(tb, dp, q, W \ {a})
  BY DEF Sched

-----------------------------------------------------------------------------
(* How often the disconnector is queued.                                   *)

Summonses(q) == {i \in 1..Len(q) : q[i] = Disconnector}
Count(q) == Cardinality(Summonses(q))

LEMMA SummonsesFinite ==
  ASSUME NEW q \in Seq(Agents)
  PROVE  IsFiniteSet(Summonses(q)) /\ Count(q) \in Nat /\ Summonses(q) \subseteq 1..Len(q) /\ Len(q) \in Nat
<1>1. Len(q) \in Nat
  BY LenProperties
<1>2. IsFiniteSet(1..Len(q)) /\ Summonses(q) \in SUBSET (1..Len(q))
  BY <1>1, FS_Interval DEF Summonses
<1>3. IsFiniteSet(Summonses(q))
  BY <1>2, FS_Subset
<1> QED
  BY <1>1, <1>2, <1>3, FS_CardinalityType DEF Count

LEMMA CountWorker ==
  ASSUME NEW q \in Seq(Agents), NEW w \in Workers
  PROVE  Count(Append(q, w)) = Count(q)
<1> DEFINE t == Append(q, w)
<1>1. w \in Agents /\ w # Disconnector
  BY AgentFacts
<1>2. /\ Len(q) \in Nat /\ Len(t) = Len(q) + 1
      /\ \A i \in 1..Len(q) : t[i] = q[i]
      /\ t[Len(q) + 1] = w
  BY <1>1, AppendFacts
<1> HIDE DEF t
<1>3. Summonses(t) = Summonses(q)
  BY <1>1, <1>2 DEF Summonses
<1> QED
  BY <1>3 DEF Count, t

LEMMA CountSummoned ==
  ASSUME NEW q \in Seq(Agents)
  PROVE  Count(Append(q, Disconnector)) = Count(q) + 1
<1> DEFINE t == Append(q, Disconnector)
           S == Summonses(q)
           n == Len(q) + 1
<1>1. /\ Len(q) \in Nat /\ Len(t) = Len(q) + 1
      /\ \A i \in 1..Len(q) : t[i] = q[i]
      /\ t[Len(q) + 1] = Disconnector
  BY AgentFacts, AppendFacts
<1> HIDE DEF t
<1>2. Summonses(t) = S \cup {n} /\ n \notin S
  BY <1>1 DEF Summonses
<1>3. IsFiniteSet(S)
  BY SummonsesFinite
<1> HIDE DEF S, n
<1>4. Cardinality(S \cup {n}) = Cardinality(S) + 1
  BY <1>2, <1>3, FS_AddElement
<1> QED
  BY <1>2, <1>4 DEF Count, S, t

LEMMA CountConcat ==
  ASSUME NEW q \in Seq(Agents), NEW p \in Seq(Workers)
  PROVE  Count(q \o p) = Count(q)
<1> DEFINE t == q \o p
<1>1. p \in Seq(Agents) /\ \A i \in 1..Len(p) : p[i] \in Workers
  BY ElementOfSeq, SeqMonotonic DEF Workers
<1>2. /\ Len(q) \in Nat /\ Len(p) \in Nat /\ Len(t) = Len(q) + Len(p)
      /\ \A i \in 1..Len(q) : t[i] = q[i]
      /\ \A i \in Len(q) + 1 .. Len(q) + Len(p) : i - Len(q) \in 1..Len(p) /\ t[i] = p[i - Len(q)]
  BY <1>1, ConcatFacts
<1> HIDE DEF t
<1>3. \A i \in Len(q) + 1 .. Len(q) + Len(p) : t[i] # Disconnector
  BY <1>1, <1>2, AgentFacts
<1>4. Summonses(t) = Summonses(q)
  BY <1>2, <1>3 DEF Summonses
<1> QED
  BY <1>4 DEF Count, t

LEMMA CountTail ==
  ASSUME NEW q \in Seq(Agents), q # <<>>
  PROVE  /\ Head(q) # Disconnector => Count(Tail(q)) = Count(q)
         /\ Head(q) = Disconnector => Count(q) = Count(Tail(q)) + 1
<1> DEFINE t == Tail(q)
           S == Summonses(q)
           T == Summonses(t)
           R == S \ {1}
<1>1. /\ t \in Seq(Agents) /\ Len(q) \in Nat \ {0} /\ Len(t) = Len(q) - 1
      /\ \A i \in 1..Len(t) : i + 1 \in 1..Len(q) /\ t[i] = q[i + 1]
      /\ Head(q) = q[1] /\ 1 \in 1..Len(q)
  BY TailFacts
<1> HIDE DEF t
<1>2. IsFiniteSet(S) /\ IsFiniteSet(T) /\ S \subseteq 1..Len(q) /\ T \subseteq 1..Len(t)
  BY <1>1, SummonsesFinite
<1>3. 1 \in S <=> Head(q) = Disconnector
  BY <1>1 DEF Summonses
<1>4. Cardinality(T) = Cardinality(R)
  <2> DEFINE f == [i \in T |-> i + 1]
  <2>1. \A i \in T : i + 1 \in R
    BY <1>1, <1>2 DEF Summonses
  <2>2. \A j \in R : j - 1 \in T /\ (j - 1) + 1 = j
    BY <1>1, <1>2 DEF Summonses
  <2>3. \A i \in T : i \in Int
    BY <1>2
  <2> HIDE DEF T, R
  <2>4. f \in [T -> R] /\ \A i \in T : f[i] = i + 1
    BY <2>1
  <2> HIDE DEF f
  <2>5. \A i, j \in T : f[i] = f[j] => i = j
    BY <2>3, <2>4
  <2>6. \A j \in R : \E i \in T : f[i] = j
    BY <2>2, <2>4
  <2>7. f \in Bijection(T, R)
    BY <2>4, <2>5, <2>6 DEF Bijection, Injection, Surjection, IsInjective
  <2>8. ExistsBijection(T, R)
    BY <2>7 DEF ExistsBijection
  <2> QED
    BY <1>2, <2>8, FS_Bijection
<1>5. Cardinality(S) \in Nat
  BY <1>2, FS_CardinalityType
<1> HIDE DEF S, T
<1>6. Cardinality(S \ {1}) = IF 1 \in S THEN Cardinality(S) - 1 ELSE Cardinality(S)
  BY <1>2, FS_RemoveElement
<1> HIDE DEF R
<1>7. Cardinality(R) = IF 1 \in S THEN Cardinality(S) - 1 ELSE Cardinality(S)
  BY <1>6 DEF R
<1> QED
  BY <1>3, <1>4, <1>5, <1>7 DEF Count, S, T, t

-----------------------------------------------------------------------------
(* The end of a timeslice.                                                 *)

\* What a timeslice leaves of table tb and queue q: none but W wait.
After(tb, q, W) ==
  /\ Sched(table', dep', runq', W)
  /\ Count(runq') = Count(q)
  /\ \A f \in Fd : tb[f] # Nobody => table'[f] # Nobody

LEMMA Ended ==
  ASSUME NEW tb, NEW dp, NEW q, NEW W, Sched(tb, dp, q, W), NEW s \in Agents, Ends(s, tb, dp, q)
  PROVE  After(tb, q, W)
<1>1. q \in Seq(Agents) /\ dp[s] \in Seq(Workers)
  BY DEF Sched, SchedType
<1>2. table' = tb /\ dep' = [dp EXCEPT ![s] = <<>>] /\ runq' = q \o dp[s]
  BY DEF Ends
<1>3. Sched(table', dep', runq', W)
  BY <1>2, Flushed
<1>4. Count(runq') = Count(q)
  BY <1>1, <1>2, CountConcat
<1> QED
  BY <1>2, <1>3, <1>4 DEF After

LEMMA Slept1 ==
  ASSUME NEW tb, NEW dp, NEW q, NEW W, Sched(tb, dp, q, W), NEW s \in Agents,
         NEW a \in Workers, a \notin W, NEW f \in Fd, Sleeps(s, a, f, tb, dp, q)
  PROVE  After(tb, q, W \cup {a}) /\ fatal' = fatal
<1> DEFINE b == Blocked(a, f, tb)
           d == Chained(s, a, f, tb, dp)
<1>1. Sched(b, d, q, W \cup {a})
  BY PutToSleep
<1>2. tb[f] # a
  BY Absent
<1>3. Ends(s, b, d, q) /\ fatal' = fatal
  BY <1>2 DEF Sleeps, Resleeps
<1>4. \A g \in Fd : tb[g] # Nobody => b[g] # Nobody
  <2>1. tb \in [Fd -> Workers \cup {Nobody}]
    BY DEF Sched, SchedType
  <2>2. a # Nobody
    BY AgentFacts
  <2> QED
    BY <2>1, <2>2 DEF Blocked
<1> HIDE DEF b, d
<1>5. After(b, q, W \cup {a})
  BY <1>1, <1>3, Ended
<1> QED
  BY <1>3, <1>4, <1>5 DEF After

LEMMA Continued ==
  ASSUME NEW tb, NEW dp, NEW q, NEW W, Sched(tb, dp, q, W), NEW c \in Conn, Session(c) \notin W,
         fd[c] \in Fd, Continues(c, tb, dp, q)
  PROVE  After(tb, q, W \cup {Session(c)}) /\ fatal' = fatal
<1>1. Session(c) \in Workers /\ Session(c) \in Agents
  BY AgentFacts
<1>2. CASE Ends(Session(c), tb, dp, Append(q, Session(c))) /\ fatal' = fatal
  <2>1. Sched(tb, dp, Append(q, Session(c)), W \cup {Session(c)})
    BY <1>1, Enqueued
  <2>2. After(tb, Append(q, Session(c)), W \cup {Session(c)})
    BY <1>1, <1>2, <2>1, Ended
  <2>3. Count(Append(q, Session(c))) = Count(q)
    BY <1>1, CountWorker DEF Sched, SchedType
  <2> QED
    BY <1>2, <2>2, <2>3 DEF After
<1>3. CASE Sleeps(Session(c), Session(c), fd[c], tb, dp, q)
  BY <1>1, <1>3, Slept1
<1> QED
  BY <1>2, <1>3 DEF Continues

-----------------------------------------------------------------------------
(* ~a_ttscp                                                                *)

LEMMA BelowFacts ==
  ASSUME ConnTypeOK, DepsMutual, NEW c \in Conn
  PROVE  /\ Below(c) \subseteq Conn /\ c \in Below(c)
         /\ \A x \in Below(c) : deps[x] \subseteq Below(c)
         /\ \A x \in Below(c) \ {c} : x \in dataConns /\ ctrl[x] \in Below(c)
<1>1. Below(c) \subseteq Conn /\ c \in Below(c)
  BY DEF Below
<1>2. ASSUME NEW x \in Below(c), NEW y \in deps[x] PROVE y \in Below(c)
  <2>1. y \in Conn
    BY <1>1 DEF ConnTypeOK
  <2>2. ASSUME NEW S \in SUBSET Conn, c \in S, \A z \in S : deps[z] \subseteq S PROVE y \in S
    <3>1. x \in S
      BY <2>2 DEF Below
    <3> QED
      BY <2>2, <3>1
  <2> QED
    BY <2>1, <2>2 DEF Below
<1>3. ASSUME NEW x \in Below(c) \ {c} PROVE x \in dataConns
  <2> DEFINE S == {c} \cup dataConns
  <2>1. S \in SUBSET Conn /\ c \in S
    BY DEF ConnTypeOK
  <2>2. \A z \in S : deps[z] \subseteq S
    BY TtscpAssumption DEF ConnTypeOK, DepsMutual, NoOne
  <2>3. x \in S
    BY <2>1, <2>2 DEF Below
  <2> QED
    BY <2>3
<1>4. ASSUME NEW x \in Below(c) \ {c} PROVE ctrl[x] \in Below(c)
  <2> DEFINE S == Below(c) \ {x}
  <2> SUFFICES ASSUME ctrl[x] \notin Below(c) PROVE FALSE
    OBVIOUS
  <2>1. S \in SUBSET Conn /\ c \in S
    BY <1>1
  <2>2. \A z \in S : x \notin deps[z]
    BY <1>1 DEF DepsMutual
  <2>3. \A z \in S : deps[z] \subseteq S
    BY <1>2, <2>2
  <2>4. x \in S
    BY <2>1, <2>3 DEF Below
  <2> QED
    BY <2>4
<1> QED
  BY <1>1, <1>2, <1>3, <1>4

LEMMA FrontFacts ==
  ASSUME NEW q \in Seq(Conn), q # <<>>
  PROVE  /\ Front(q) \in Seq(Conn) /\ Len(q) \in Nat \ {0} /\ Len(Front(q)) = Len(q) - 1
         /\ \A i \in 1..Len(Front(q)) : i \in 1..Len(q) /\ i # Len(q) /\ Front(q)[i] = q[i]
         /\ Last(q) = q[Len(q)] /\ Last(q) \in Conn /\ Len(q) \in 1..Len(q)
<1>1. Len(q) \in Nat /\ Len(q) # 0
  BY EmptySeq, LenProperties
<1>2. \A i \in 1..Len(q) : q[i] \in Conn
  BY ElementOfSeq
<1>3. /\ SubSeq(q, 1, Len(q) - 1) \in Seq(Conn)
      /\ Len(SubSeq(q, 1, Len(q) - 1)) = IF 1 <= Len(q) - 1 THEN (Len(q) - 1) - 1 + 1 ELSE 0
      /\ \A i \in 1 .. (Len(q) - 1) - 1 + 1 : SubSeq(q, 1, Len(q) - 1)[i] = q[1 + i - 1]
  <2>1. \A i \in 1 .. Len(q) - 1 : q[i] \in Conn
    BY <1>1, <1>2
  <2>2. 1 \in Int /\ Len(q) - 1 \in Int
    BY <1>1
  <2> QED
    BY <2>1, <2>2, SubSeqProperties
<1>4. Front(q) = SubSeq(q, 1, Len(q) - 1) /\ Last(q) = q[Len(q)]
  BY DEF Front, Last
<1> HIDE DEF Front, Last
<1>5. Len(Front(q)) = Len(q) - 1
  <2> DEFINE n == Len(q)
             m == Len(Front(q))
  <2>1. n \in Nat \ {0} /\ m = IF 1 <= n - 1 THEN (n - 1) - 1 + 1 ELSE 0
    BY <1>1, <1>3, <1>4
  <2> HIDE DEF n, m
  <2>2. m = n - 1
    BY <2>1
  <2> QED
    BY <2>2 DEF n, m
<1>6. ASSUME NEW i \in 1..Len(Front(q)) PROVE i \in 1..Len(q) /\ i # Len(q) /\ Front(q)[i] = q[i]
  <2>1. i \in 1..Len(q) /\ i # Len(q) /\ i \in 1 .. (Len(q) - 1) - 1 + 1 /\ 1 + i - 1 = i
    BY <1>1, <1>5
  <2>2. SubSeq(q, 1, Len(q) - 1)[i] = q[1 + i - 1]
    BY <1>3, <2>1
  <2> QED
    BY <1>4, <2>1, <2>2
<1>7. Last(q) = q[Len(q)] /\ Last(q) \in Conn /\ Len(q) \in 1..Len(q)
  BY <1>1, <1>2, <1>4
<1>8. Front(q) \in Seq(Conn) /\ Len(q) \in Nat \ {0}
  BY <1>1, <1>3, <1>4
<1> QED
  BY <1>5, <1>6, <1>7, <1>8

\* What is left in the tables of handles and under the descriptors.
LEMMA DeletePlaced ==
  ASSUME ConnTypeOK, Placed, DepsMutual, NEW c \in Conn, NEW r, Delete(c, r),
         \/ c \in dataConns /\ doomed' = doomed
         \/ doomed # <<>> /\ c = Last(doomed) /\ doomed' = Front(doomed)
  PROVE  Placed' /\ doomed' \in Seq(Conn)
<1> DEFINE D == Below(c)
<1>1. /\ D \subseteq Conn /\ c \in D /\ \A x \in D : x = c \/ x \in dataConns
  BY BelowFacts
<1>2. /\ freed' = freed \cup D /\ dataConns' = dataConns \ D /\ ctrlConns' = ctrlConns
      /\ \A x \in Conn : fd'[x] = IF x \in D THEN 0 ELSE fd[x]
  BY DEF Delete
<1> HIDE DEF D
<1>3. /\ doomed' \in Seq(Conn) /\ c \notin ctrlConns
      /\ \A i \in 1..Len(doomed') : i \in 1..Len(doomed) /\ doomed'[i] = doomed[i] /\ doomed'[i] # c
      /\ \A i \in 1..Len(doomed) : doomed[i] = c \/ (i \in 1..Len(doomed') /\ doomed'[i] = doomed[i])
  <2>1. CASE c \in dataConns /\ doomed' = doomed
    BY <2>1 DEF ConnTypeOK, Placed, Registered
  <2>2. CASE doomed # <<>> /\ c = Last(doomed) /\ doomed' = Front(doomed)
    <3>1. doomed \in Seq(Conn)
      BY DEF ConnTypeOK
    <3>2. /\ doomed' \in Seq(Conn) /\ Len(doomed) \in Nat \ {0} /\ Len(doomed') = Len(doomed) - 1
          /\ \A i \in 1..Len(doomed') : i \in 1..Len(doomed) /\ i # Len(doomed) /\ doomed'[i] = doomed[i]
          /\ c = doomed[Len(doomed)] /\ Len(doomed) \in 1..Len(doomed)
      BY <2>2, <3>1, FrontFacts
    <3>3. c \notin ctrlConns
      BY <3>2 DEF Placed
    <3>4. \A i \in 1..Len(doomed') : doomed'[i] # c
      BY <3>2 DEF Placed
    <3>5. \A i \in 1..Len(doomed) : i = Len(doomed) \/ i \in 1..Len(doomed')
      BY <3>2
    <3> QED
      BY <3>2, <3>3, <3>4, <3>5
  <2> QED
    BY <2>1, <2>2
<1>4. \A i \in 1..Len(doomed') : doomed'[i] \in Conn /\ doomed'[i] \notin D /\ doomed'[i] \notin ctrlConns \cup dataConns
  <2>1. \A i \in 1..Len(doomed') : doomed'[i] \in Conn
    BY <1>3, ElementOfSeq
  <2> QED
    BY <1>1, <1>3, <2>1 DEF Placed
<1>5. \A i, j \in 1..Len(doomed') : doomed'[i] = doomed'[j] => i = j
  BY <1>3 DEF Placed
<1>6. \A x \in freed' : fd'[x] = 0
  BY <1>1, <1>2 DEF Placed, ConnTypeOK
<1>7. \A x, y \in Conn : fd'[x] = fd'[y] /\ fd'[x] # 0 => x = y
  BY <1>2 DEF Placed
<1>8. Registered'
  <2>1. ctrlConns' \cap dataConns' = {}
    BY <1>2 DEF Placed, Registered
  <2>2. ASSUME NEW x \in Conn
        PROVE  x \in ctrlConns' \cup dataConns' \cup {doomed'[i] : i \in 1..Len(doomed')} <=> Alive(x)'
    <3>1. x \in ctrlConns \cup dataConns \cup {doomed[i] : i \in 1..Len(doomed)} <=> Alive(x)
      BY DEF Placed, Registered
    <3>2. x \notin D => (x \in {doomed'[i] : i \in 1..Len(doomed')} <=> x \in {doomed[i] : i \in 1..Len(doomed)})
      BY <1>1, <1>3
    <3>3. x \in D => x \notin ctrlConns /\ x \notin {doomed'[i] : i \in 1..Len(doomed')}
      BY <1>1, <1>3, <1>4 DEF Placed, Registered
    <3>4. Alive(x)' <=> x \notin D /\ Alive(x)
      BY <1>2 DEF Alive
    <3> QED
      BY <1>2, <3>1, <3>2, <3>3, <3>4
  <2>3. ctrlConns' \cup dataConns' \cup {doomed'[i] : i \in 1..Len(doomed')} \subseteq Conn
    BY <1>2, <1>4 DEF ConnTypeOK
  <2> QED
    BY <2>1, <2>2, <2>3 DEF Registered
<1> QED
  BY <1>2, <1>3, <1>4, <1>5, <1>6, <1>7, <1>8 DEF Placed

\* Attachment stays mutual.
LEMMA DeleteMutual ==
  ASSUME ConnTypeOK, Placed, DepsMutual, NEW c \in Conn, NEW r, Delete(c, r)
  PROVE  DepsMutual'
<1> DEFINE D == Below(c)
<1>1. /\ D \subseteq Conn /\ c \in D /\ \A x \in D : deps[x] \subseteq D
      /\ \A x \in D \ {c} : x \in dataConns /\ ctrl[x] \in D
  BY BelowFacts
<1>2. /\ dataConns' = dataConns \ D
      /\ \A x \in Conn : deps'[x] = IF x \in D THEN {} ELSE IF x = ctrl[c] THEN deps[x] \ {c} ELSE deps[x]
      /\ \A x \in Conn : ctrl'[x] = IF x \in D THEN NoOne ELSE ctrl[x]
      /\ \A x \in Conn : fd'[x] = IF x \in D THEN 0 ELSE fd[x]
  BY DEF Delete, Detached
<1> HIDE DEF D
<1>3. \A x \in Conn : x # NoOne
  BY TtscpAssumption DEF NoOne
<1>4. ASSUME NEW x \in Conn, NEW y \in Conn PROVE y \in deps'[x] <=> ctrl'[y] = x
  <2>1. y \in deps[x] <=> ctrl[y] = x
    BY DEF DepsMutual
  <2>2. CASE y \in D
    <3>1. ctrl'[y] # x
      BY <1>2, <1>3, <2>2
    <3>2. x \in D => y \notin deps'[x]
      BY <1>2
    <3>3. x \notin D /\ y # c => y \notin deps[x]
      BY <1>1, <2>1, <2>2
    <3>4. x \notin D /\ y = c => y \notin deps'[x]
      BY <1>2, <2>1
    <3>5. x \notin D /\ y \notin deps[x] => y \notin deps'[x]
      BY <1>2
    <3> QED
      BY <3>1, <3>2, <3>3, <3>4, <3>5
  <2>3. CASE y \notin D
    <3>1. ctrl'[y] = ctrl[y]
      BY <1>2, <2>3
    <3>2. x \in D => y \notin deps[x] /\ y \notin deps'[x]
      BY <1>1, <1>2, <2>3
    <3>3. x \notin D => (y \in deps'[x] <=> y \in deps[x])
      <4>1. y # c
        BY <1>1, <2>3
      <4>2. x \notin D => deps'[x] = IF x = ctrl[c] THEN deps[x] \ {c} ELSE deps[x]
        BY <1>2
      <4> QED
        BY <4>1, <4>2
    <3> QED
      BY <2>1, <3>1, <3>2, <3>3
  <2> QED
    BY <2>2, <2>3
<1>5. \A y \in Conn : ctrl'[y] # NoOne <=> y \in dataConns'
  BY <1>1, <1>2 DEF DepsMutual
<1>6. ASSUME NEW y \in dataConns' PROVE Alive(ctrl[y])' /\ ctrl'[y] = ctrl[y] /\ ctrl[y] \in Conn
  <2>1. y \in Conn /\ y \in dataConns /\ y \notin D
    BY <1>2, <1>6 DEF ConnTypeOK
  <2>2. ctrl[y] \in Conn /\ y \in deps[ctrl[y]] /\ fd[ctrl[y]] # 0
    BY <2>1 DEF ConnTypeOK, DepsMutual, Alive
  <2>3. ctrl[y] \notin D
    BY <1>1, <2>1, <2>2
  <2>4. ctrl'[y] = ctrl[y]
    BY <1>2, <2>1
  <2>5. fd'[ctrl[y]] # 0 /\ fd'[ctrl'[y]] # 0
    BY <1>2, <2>2, <2>3, <2>4
  <2> QED
    BY <2>2, <2>4, <2>5 DEF Alive
<1>7. \A y \in dataConns' : fd'[ctrl'[y]] # 0
  BY <1>6 DEF Alive
<1> QED
  BY <1>4, <1>5, <1>7 DEF DepsMutual, Alive

\* So do streams and their connections.
LEMMA DeleteSourced ==
  ASSUME ConnTypeOK, Placed, DepsMutual, Sourced, NEW c \in Conn, c \notin ctrlConns, NEW r, Delete(c, r),
         \A x \in Conn : job'[x] \in {job[x], "idle"}
  PROVE  Sourced' /\ \A x \in ctrlConns : src'[x] = src[x]
<1> DEFINE D == Below(c)
<1>1. /\ D \subseteq Conn /\ \A x \in D : x = c \/ x \in dataConns
  BY BelowFacts
<1>2. /\ freed' = freed \cup D /\ dataConns' = dataConns \ D /\ ctrlConns' = ctrlConns
      /\ \A x \in Conn : src'[x] = IF x \in D THEN NoOne ELSE src[x]
  BY DEF Delete
<1> HIDE DEF D
<1>3. D \cap ctrlConns = {}
  BY <1>1 DEF Placed, Registered
<1>4. \A x \in Conn : src'[x] # NoOne => src'[x] \in dataConns' \cup freed'
  BY <1>2 DEF Sourced
<1>5. \A x \in Conn : job'[x] # "idle" => x \in ctrlConns'
  BY <1>2 DEF Sourced
<1>6. \A x \in Conn : job'[x] \in {"reads", "empty"} => src'[x] # NoOne
  BY <1>2, <1>3 DEF Sourced, HasText
<1> QED
  BY <1>2, <1>3, <1>4, <1>5, <1>6 DEF Sourced, ConnTypeOK, HasText

LEMMA DeleteTypes ==
  ASSUME ConnTypeOK, DepsMutual, NEW c \in Conn, NEW r \in SUBSET (Fd \cup {Listen}), Delete(c, r)
  PROVE  /\ ctrlConns' \in SUBSET Conn /\ dataConns' \in SUBSET Conn /\ freed' \in SUBSET Conn
         /\ fd' \in [Conn -> 0..MaxFd]
         /\ ctrl' \in [Conn -> Conn \cup {NoOne}] /\ deps' \in [Conn -> SUBSET Conn]
         /\ src' \in [Conn -> Conn \cup {NoOne}] /\ sock' \in [Conn -> 0..MaxFd]
         /\ \A x \in Conn : src'[x] = NoOne <=> sock'[x] = 0
         /\ ready' \in SUBSET (Fd \cup {Listen})
         /\ relaxed' = relaxed \ Below(c) /\ (relaxed' # {} => relaxed # {})
<1>1. Below(c) \subseteq Conn /\ 0 \in 0..MaxFd
  BY BelowFacts, TtscpAssumption
<1>2. ctrlConns' \in SUBSET Conn /\ dataConns' \in SUBSET Conn /\ freed' \in SUBSET Conn
  BY <1>1 DEF Delete, ConnTypeOK
<1>3. fd' \in [Conn -> 0..MaxFd] /\ sock' \in [Conn -> 0..MaxFd]
  BY <1>1 DEF Delete, ConnTypeOK
<1>4. ctrl' \in [Conn -> Conn \cup {NoOne}] /\ src' \in [Conn -> Conn \cup {NoOne}]
  BY <1>1 DEF Delete, ConnTypeOK
<1>5. deps' \in [Conn -> SUBSET Conn]
  BY <1>1 DEF Delete, Detached, ConnTypeOK
<1>6. \A x \in Conn : src'[x] = NoOne <=> sock'[x] = 0
  BY DEF Delete, ConnTypeOK
<1>8. relaxed' = relaxed \ Below(c) /\ (relaxed' # {} => relaxed # {})
  BY DEF Delete
<1>7. ready' \in SUBSET (Fd \cup {Listen})
  BY DEF Delete, StillReady
<1> QED
  BY <1>2, <1>3, <1>4, <1>5, <1>6, <1>7, <1>8

\* What select() found and what sleeps go together.
LEMMA DeleteReady ==
  ASSUME NEW c, NEW tb, NEW r, Delete(c, r), \A f \in r \ {Listen} : f \in Fd /\ tb[f] # Nobody
  PROVE  \A f \in ready' \ {Listen} : f \in Fd /\ Invalidated(tb, Below(c))[f] # Nobody
  BY DEF Delete, StillReady, Invalidated

-----------------------------------------------------------------------------
(* Commands.                                                               *)

\* The state as a timeslice of agent a begins, which waits no more: what is left of the
\* table, the queue and the descriptors that select() found.
Turn(a, tb, q, r) ==
  /\ ConnTypeOK /\ Placed /\ DepsMutual /\ Sourced /\ fatal = "no"
  /\ Sched(tb, dep, q, Due \ {a})
  /\ r \in SUBSET (Fd \cup {Listen}) /\ \A f \in r \ {Listen} : tb[f] # Nobody
  /\ Len(doomed) = Count(q)

SessionTurn(c, tb, q, r) ==
  Turn(Session(c), tb, q, r) /\ c \in ctrlConns /\ job[c] = "idle" /\ fd[c] \in Fd

LEMMA Fds == 0 \notin Fd /\ Fd \subseteq Nat /\ 0..MaxFd = Fd \cup {0}
  BY TtscpAssumption DEF Fd

LEMMA InvAfter ==
  ASSUME ConnTypeOK', Placed', DepsMutual', Sourced',
         Sched(table', dep', runq', Due'),
         \A f \in ready' \ {Listen} : table'[f] # Nobody,
         fatal' = "no" => Len(doomed') = Count(runq')
  PROVE  TtscpInv'
<1>1. Sched(table, dep, runq, Due)'
  BY DEF Sched, SchedType, Single, Holds, Due, HasText
<1>2. NoGhost'
  BY DEF NoGhost
<1>3. Disconnects'
  BY DEF Disconnects, Count, Summonses
<1> QED
  BY <1>1, <1>2, <1>3 DEF TtscpInv

LEMMA AfterReady ==
  ASSUME NEW tb, NEW q, NEW W, After(tb, q, W), NEW r \in SUBSET (Fd \cup {Listen}),
         \A f \in r \ {Listen} : tb[f] # Nobody
  PROVE  \A f \in r \ {Listen} : table'[f] # Nobody
  BY DEF After

LEMMA QuitPreserves ==
  ASSUME NEW c \in Conn, NEW tb, NEW q, NEW r, SessionTurn(c, tb, q, r), Quit(c, tb, q), ready' = r
  PROVE  TtscpInv'
<1>1. /\ ctrlConns' = ctrlConns \ {c} /\ doomed' = Append(doomed, c)
      /\ Ends(Session(c), tb, dep, Append(q, Disconnector))
      /\ dataConns' = dataConns /\ freed' = freed /\ fd' = fd /\ ctrl' = ctrl /\ deps' = deps
      /\ src' = src /\ sock' = sock /\ job' = job /\ relaxed' = relaxed
      /\ delhs' = delhs /\ losses' = losses /\ intrs' = intrs
      /\ strayed' = strayed /\ fatal' = fatal
  BY DEF Quit, CtrlRemoved, Summoned, streams, counts
<1>2. /\ ConnTypeOK /\ Placed /\ DepsMutual /\ Sourced /\ c \in ctrlConns /\ job[c] = "idle"
      /\ Sched(tb, dep, q, Due \ {Session(c)}) /\ Len(doomed) = Count(q)
      /\ r \in SUBSET (Fd \cup {Listen}) /\ \A f \in r \ {Listen} : tb[f] # Nobody
  BY DEF SessionTurn, Turn
<1>3. /\ doomed \in Seq(Conn) /\ doomed' \in Seq(Conn) /\ Len(doomed) \in Nat /\ Len(doomed') = Len(doomed) + 1
      /\ \A i \in 1..Len(doomed) : doomed'[i] = doomed[i]
      /\ doomed'[Len(doomed) + 1] = c
  <2>1. doomed \in Seq(Conn)
    BY <1>2 DEF ConnTypeOK
  <2> QED
    BY <1>1, <2>1, AppendFacts
<1>4. ConnTypeOK'
  BY <1>1, <1>2, <1>3 DEF ConnTypeOK
<1>5. Placed'
  <2>1. Registered'
    <3>1. {doomed'[i] : i \in 1..Len(doomed')} = {doomed[i] : i \in 1..Len(doomed)} \cup {c}
      BY <1>3
    <3>2. {x \in Conn : Alive(x)}' = {x \in Conn : Alive(x)}
      BY <1>1 DEF Alive
    <3> QED
      BY <1>1, <1>2, <3>1, <3>2 DEF Placed, Registered
  <2>2. \A i \in 1..Len(doomed') : doomed'[i] \notin ctrlConns' \cup dataConns'
    BY <1>1, <1>2, <1>3 DEF Placed, Registered
  <2>3. \A i, j \in 1..Len(doomed') : doomed'[i] = doomed'[j] => i = j
    BY <1>2, <1>3 DEF Placed
  <2> QED
    BY <1>1, <1>2, <2>1, <2>2, <2>3 DEF Placed
<1>6. DepsMutual'
  BY <1>1, <1>2 DEF DepsMutual, Alive
<1>7. Sourced'
  BY <1>1, <1>2 DEF Sourced, HasText
<1>8. After(tb, Append(q, Disconnector), Due \ {Session(c)})
  BY <1>1, <1>2, Summons, Ended, AgentFacts
<1>9. Due \ {Session(c)} \subseteq Due'
  BY <1>1 DEF Due, HasText
<1>10. Sched(table', dep', runq', Due')
  BY <1>8, <1>9, Widened DEF After
<1>11. Len(doomed') = Count(runq')
  BY <1>2, <1>3, <1>8, CountSummoned DEF After, Sched, SchedType
<1>12. \A f \in ready' \ {Listen} : table'[f] # Nobody
  BY <1>2, <1>8, AfterReady
<1> QED
  BY <1>4, <1>5, <1>6, <1>7, <1>10, <1>11, <1>12, InvAfter

\* What most commands leave as it is.
LEMMA StreamsOnly ==
  ASSUME ConnTypeOK, Placed, DepsMutual, UNCHANGED <<tables, doomed>>
  PROVE  Placed' /\ DepsMutual'
<1>1. /\ ctrlConns' = ctrlConns /\ dataConns' = dataConns /\ freed' = freed /\ fd' = fd /\ ctrl' = ctrl
      /\ deps' = deps /\ doomed' = doomed
  BY DEF tables
<1>2. Placed'
  BY <1>1 DEF Placed, Registered, Alive
<1>3. DepsMutual'
  BY <1>1 DEF DepsMutual, Alive
<1> QED
  BY <1>2, <1>3

\* The session goes on, after a command that changed nothing or its stream.
LEMMA GoesOn ==
  ASSUME NEW c \in Conn, NEW tb, NEW dp, NEW q, NEW r, NEW W, SessionTurn(c, tb, q, r), ready' = r,
         Sched(tb, dp, q, W), Session(c) \notin W, W \subseteq Due',
         UNCHANGED <<tables, doomed>>, ConnTypeOK', Sourced', Continues(c, tb, dp, q), job'[c] = "idle"
  PROVE  TtscpInv'
<1>1. /\ ConnTypeOK /\ Placed /\ DepsMutual /\ Sourced /\ c \in ctrlConns /\ fd[c] \in Fd
      /\ Len(doomed) = Count(q) /\ fatal = "no"
      /\ r \in SUBSET (Fd \cup {Listen}) /\ \A f \in r \ {Listen} : tb[f] # Nobody
  BY DEF SessionTurn, Turn
<1>2. After(tb, q, W \cup {Session(c)})
  BY <1>1, Continued
<1>3. W \cup {Session(c)} \subseteq Due'
  <2>1. ctrlConns' = ctrlConns
    BY DEF tables
  <2>2. Session(c) \in Due'
    BY <1>1, <2>1 DEF Due
  <2> QED
    BY <2>2
<1>4. Sched(table', dep', runq', Due')
  BY <1>2, <1>3, Widened DEF After
<1>5. Len(doomed') = Count(runq')
  BY <1>1, <1>2 DEF After, tables
<1>6. \A f \in ready' \ {Listen} : table'[f] # Nobody
  BY <1>1, <1>2, AfterReady
<1> QED
  BY <1>1, <1>4, <1>5, <1>6, StreamsOnly, InvAfter

LEMMA NoneDies ==
  ASSUME NEW c \in Conn, NEW tb, NEW dp, NEW q, NEW r, NEW W, SessionTurn(c, tb, q, r),
         Sched(tb, dp, q, W), Session(c) \notin W, Continues(c, tb, dp, q)
  PROVE  fatal' = fatal
<1>1. fd[c] \in Fd
  BY DEF SessionTurn
<1> QED
  BY <1>1, Continued

LEMMA OwnTurn ==
  ASSUME NEW c \in Conn, NEW tb, NEW q, NEW r, SessionTurn(c, tb, q, r)
  PROVE  /\ ConnTypeOK /\ Placed /\ DepsMutual /\ Sourced /\ c \in ctrlConns /\ fd[c] \in Fd
         /\ job[c] = "idle" /\ fatal = "no"
         /\ Sched(tb, dep, q, Due \ {Session(c)}) /\ Len(doomed) = Count(q)
         /\ r \in SUBSET (Fd \cup {Listen}) /\ \A f \in r \ {Listen} : tb[f] # Nobody
  BY DEF SessionTurn, Turn

\* An agent that waits though its session has no text for it waits since an intr.
LEMMA WaitsSinceIntr ==
  ASSUME NEW tb, NEW q, NEW W, Sched(tb, dep, q, W), W \subseteq Due, ConnTypeOK,
         NEW D, D \subseteq Conn, \A x \in D : ~HasText(x), Named(D, tb, q)
  PROVE  relaxed # {} /\ intrs > 0
<1>1. PICK x \in D : Waits(Input(x), tb, q)
  BY DEF Named
<1>2. Input(x) \in Due
  <2>1. Holds(Input(x), tb, dep, q) /\ Input(x) \in Workers
    BY <1>1, AgentFacts DEF Waits, Holds
  <2> QED
    BY <2>1 DEF Sched
<1>3. x \in relaxed
  <2>1. ctrlConns \subseteq Conn /\ relaxed \subseteq Conn
    BY DEF ConnTypeOK
  <2> QED
    BY <1>2, <2>1, AgentFacts DEF Due
<1> QED
  BY <1>3 DEF ConnTypeOK

\* The end of the server, or of the model, at an agent that waits since an intr.
LEMMA StuckPreserves ==
  ASSUME ConnTypeOK, Placed, DepsMutual, Sourced,
         NEW s \in Agents, NEW tb, NEW q, NEW r, NEW W, Sched(tb, dep, q, W), W \subseteq Due,
         r \in SUBSET (Fd \cup {Listen}), \A f \in r \ {Listen} : tb[f] # Nobody,
         Ends(s, tb, dep, q), fatal' \in Stuck, intrs > 0, ready' = r,
         UNCHANGED <<tables, doomed, streams, counts, strayed>>
  PROVE  TtscpInv'
<1>1. ConnTypeOK' /\ Sourced'
  BY DEF ConnTypeOK, Sourced, HasText, tables, streams, counts
<1>2. After(tb, q, W)
  BY Ended
<1>3. Due' = Due
  BY DEF Due, HasText, tables, streams
<1>4. Sched(table', dep', runq', Due')
  BY <1>2, <1>3, Widened DEF After
<1>5. \A f \in ready' \ {Listen} : table'[f] # Nobody
  BY <1>2, AfterReady
<1>6. fatal' # "no"
  BY DEF Stuck
<1> QED
  BY <1>1, <1>4, <1>5, <1>6, StreamsOnly, InvAfter

LEMMA HarmlessPreserves ==
  ASSUME NEW c \in Conn, NEW tb, NEW q, NEW r, SessionTurn(c, tb, q, r), Harmless(c, tb, q), ready' = r
  PROVE  TtscpInv'
<1>1. UNCHANGED <<tables, doomed, streams, counts, strayed>> /\ Continues(c, tb, dep, q)
  BY DEF Harmless
<1>2. fatal' = fatal
  BY <1>1, OwnTurn, NoneDies
<1>3. ConnTypeOK' /\ Sourced' /\ job' = job
  BY <1>1, <1>2, OwnTurn DEF ConnTypeOK, Sourced, HasText, tables, streams, counts
<1>4. Due' = Due
  BY <1>1 DEF Due, HasText, tables, streams
<1>5. Session(c) \notin Due \ {Session(c)} /\ Due \ {Session(c)} \subseteq Due'
  BY <1>4
<1> QED
  BY <1>1, <1>3, <1>5, OwnTurn, GoesOn

\* The stream of a session is deleted; its input agent does not wait.
LEMMA StreamCut ==
  ASSUME NEW c \in Conn, NEW tb, NEW q, NEW r, SessionTurn(c, tb, q, r), ~Named({c}, tb, q),
         Continues(c, tb, Parted({c}), q)
  PROVE  /\ Sched(tb, Parted({c}), q, (Due \ {Session(c)}) \ {Input(x) : x \in {c}})
         /\ fatal' = fatal
<1>1. Sched(tb, Parted({c}), q, (Due \ {Session(c)}) \ {Input(x) : x \in {c}})
  BY OwnTurn, ChainsCut
<1> QED
  BY <1>1, NoneDies

\* What is left is still due after strm.
LEMMA StreamDue ==
  ASSUME NEW c \in Conn, job[c] = "idle", ConnTypeOK, ctrlConns' = ctrlConns,
         job' = [job EXCEPT ![c] = "idle"], relaxed' = relaxed \ {c}
  PROVE  (Due \ {Session(c)}) \ {Input(x) : x \in {c}} \subseteq Due'
<1>1. job' = job
  BY DEF ConnTypeOK
<1> QED
  BY <1>1 DEF Due, HasText

LEMMA StrmPreserves ==
  ASSUME NEW c \in Conn, NEW tb, NEW q, NEW r, SessionTurn(c, tb, q, r), Strm(c, tb, q), ready' = r
  PROVE  TtscpInv'
<1>1. PICK d \in dataConns : src' = [src EXCEPT ![c] = d] /\ sock' = [sock EXCEPT ![c] = SockOf(c, d)]
  BY DEF Strm
<1>2. /\ UNCHANGED <<tables, doomed, counts, strayed>> /\ Continues(c, tb, Parted({c}), q)
      /\ job' = [job EXCEPT ![c] = "idle"] /\ relaxed' = relaxed \ {c} /\ ~Named({c}, tb, q)
  BY DEF Strm
<1>3. fatal' = fatal
  BY <1>2, StreamCut
<1>4. d \in Conn /\ d # NoOne /\ fd[d] \in 0..MaxFd /\ fd[d] # 0
  <2>1. d \in Conn
    BY OwnTurn DEF ConnTypeOK
  <2>2. Alive(d)
    BY OwnTurn, <2>1 DEF Placed, Registered
  <2> QED
    BY OwnTurn, <2>1, <2>2, TtscpAssumption DEF ConnTypeOK, Alive, NoOne
<1>5. ConnTypeOK'
  BY <1>1, <1>2, <1>3, <1>4, OwnTurn DEF ConnTypeOK, tables, counts, SockOf
<1>6. Sourced'
  BY <1>1, <1>2, <1>4, OwnTurn DEF Sourced, HasText, ConnTypeOK, tables
<1>7. job'[c] = "idle" /\ ctrlConns' = ctrlConns
  BY <1>2, OwnTurn DEF ConnTypeOK, tables
<1>8. (Due \ {Session(c)}) \ {Input(x) : x \in {c}} \subseteq Due'
  BY <1>2, <1>7, OwnTurn, StreamDue
<1> QED
  BY <1>2, <1>5, <1>6, <1>7, <1>8, StreamCut, GoesOn

LEMMA StrmFailsPreserves ==
  ASSUME NEW c \in Conn, NEW tb, NEW q, NEW r, SessionTurn(c, tb, q, r), StrmFails(c, tb, q), ready' = r
  PROVE  TtscpInv'
<1>1. /\ UNCHANGED <<tables, doomed, counts, strayed>> /\ Continues(c, tb, Parted({c}), q)
      /\ job' = [job EXCEPT ![c] = "idle"] /\ src' = [src EXCEPT ![c] = NoOne]
      /\ sock' = [sock EXCEPT ![c] = 0] /\ relaxed' = relaxed \ {c} /\ ~Named({c}, tb, q)
  BY DEF StrmFails, NoSock
<1>2. fatal' = fatal
  BY <1>1, StreamCut
<1>3. ConnTypeOK'
  BY <1>1, <1>2, OwnTurn, Fds DEF ConnTypeOK, tables, counts
<1>4. Sourced'
  BY <1>1, OwnTurn DEF Sourced, HasText, ConnTypeOK, tables
<1>5. job'[c] = "idle" /\ ctrlConns' = ctrlConns
  BY <1>1, OwnTurn DEF ConnTypeOK, tables
<1>6. (Due \ {Session(c)}) \ {Input(x) : x \in {c}} \subseteq Due'
  BY <1>1, <1>5, OwnTurn, StreamDue
<1> QED
  BY <1>1, <1>3, <1>4, <1>5, <1>6, StreamCut, GoesOn

\* Of a session without a text the input agent waits only after an intr.
LEMMA StrmOfNamedPreserves ==
  ASSUME NEW c \in Conn, NEW tb, NEW q, NEW r, SessionTurn(c, tb, q, r), StrmOfNamed(c, tb, q), ready' = r
  PROVE  TtscpInv' /\ relaxed # {}
<1>1. Named({c}, tb, q) /\ Gone(Session(c), tb, q)
  BY DEF StrmOfNamed
<1>2. relaxed # {} /\ intrs > 0
  <2>1. {c} \subseteq Conn /\ (\A x \in {c} : ~HasText(x)) /\ Due \ {Session(c)} \subseteq Due
    BY OwnTurn DEF HasText
  <2> QED
    BY <1>1, <2>1, OwnTurn, WaitsSinceIntr
<1>3. fatal' \in Stuck /\ Ends(Session(c), tb, dep, q) /\ UNCHANGED <<tables, doomed, streams, counts, strayed>>
  BY <1>1 DEF Gone, Stuck
<1>4. Session(c) \in Agents
  BY AgentFacts
<1>5. Due \ {Session(c)} \subseteq Due
  OBVIOUS
<1> QED
  BY <1>2, <1>3, <1>4, <1>5, OwnTurn, StuckPreserves

LEMMA ApplPreserves ==
  ASSUME NEW c \in Conn, NEW tb, NEW q, NEW r, SessionTurn(c, tb, q, r), Appl(c, tb, q), ready' = r
  PROVE  TtscpInv' /\ (Waits(Input(c), tb, q) => relaxed # {})
<1>1. UNCHANGED <<tables, doomed, src, sock, counts, strayed>> /\ sock[c] # 0
  BY DEF Appl
<1>2. sock[c] \in Fd /\ src[c] # NoOne
  BY <1>1, OwnTurn, Fds DEF ConnTypeOK
<1>3. CASE Waits(Input(c), tb, q)
  <2>1. relaxed # {} /\ intrs > 0
    <3>1. {c} \subseteq Conn /\ (\A x \in {c} : ~HasText(x)) /\ Due \ {Session(c)} \subseteq Due
      BY OwnTurn DEF HasText
    <3>2. Named({c}, tb, q)
      BY <1>3 DEF Named
    <3> QED
      BY <3>1, <3>2, OwnTurn, WaitsSinceIntr
  <2>2. fatal' \in Stuck /\ Ends(Session(c), tb, dep, q) /\ UNCHANGED <<streams>>
    BY <1>1, <1>3 DEF Appl, Stuck, streams
  <2>3. Session(c) \in Agents /\ Due \ {Session(c)} \subseteq Due
    BY AgentFacts
  <2> QED
    BY <1>1, <2>1, <2>2, <2>3, OwnTurn, StuckPreserves
<1>4. CASE ~Waits(Input(c), tb, q)
  <2>1. PICK j \in {"reads", "empty"} : job' = [job EXCEPT ![c] = j]
    BY <1>4 DEF Appl
  <2>2. Sleeps(Session(c), Input(c), sock[c], tb, dep, q) /\ relaxed' = relaxed \ {c}
    BY <1>4 DEF Appl, AfterWait
  <2> DEFINE W == (Due \ {Session(c)}) \ {Input(c)}
  <2>3. Sched(tb, dep, q, W)
    <3>1. ~Holds(Input(c), tb, dep, q)
      BY <1>4 DEF Waits, Holds
    <3> QED
      BY <3>1, OwnTurn, Left
  <2>4. Input(c) \notin W /\ Session(c) \notin W
    OBVIOUS
  <2>5. W \cup {Input(c)} \subseteq Due'
    <3>1. ctrlConns' = ctrlConns /\ job'[c] \in {"reads", "empty"} /\ \A x \in Conn \ {c} : job'[x] = job[x]
      BY <1>1, <2>1, OwnTurn DEF ConnTypeOK, tables
    <3>2. ctrlConns \subseteq Conn
      BY OwnTurn DEF ConnTypeOK
    <3> QED
      BY <2>2, <3>1, <3>2 DEF Due, HasText
  <2> HIDE DEF W
  <2>6. After(tb, q, W \cup {Input(c)}) /\ fatal' = fatal
    BY <1>2, <2>2, <2>3, <2>4, AgentFacts, Slept1
  <2>7. ConnTypeOK'
    BY <1>1, <2>1, <2>2, <2>6, OwnTurn DEF ConnTypeOK, tables, counts
  <2>8. Sourced'
    BY <1>1, <1>2, <2>1, OwnTurn DEF Sourced, HasText, ConnTypeOK, tables
  <2>9. Sched(table', dep', runq', Due')
    BY <2>5, <2>6, Widened DEF After
  <2>10. Len(doomed') = Count(runq')
    BY <1>1, <2>6, OwnTurn DEF After
  <2>11. \A f \in ready' \ {Listen} : table'[f] # Nobody
    <3>1. r \in SUBSET (Fd \cup {Listen}) /\ \A f \in r \ {Listen} : tb[f] # Nobody
      BY OwnTurn
    <3> QED
      BY <2>6, <3>1, AfterReady
  <2> QED
    BY <1>1, <1>4, <2>7, <2>8, <2>9, <2>10, <2>11, OwnTurn, StreamsOnly, InvAfter
<1> QED
  BY <1>3, <1>4

LEMMA DataPreserves ==
  ASSUME NEW c \in Conn, NEW tb, NEW q, NEW r, SessionTurn(c, tb, q, r), Data(c, tb, q), ready' = r
  PROVE  TtscpInv'
<1>1. PICK p \in ctrlConns \ {c} :
        /\ ctrl' = [ctrl EXCEPT ![c] = p]
        /\ deps' = [deps EXCEPT ![p] = @ \cup {c}]
  BY DEF Data
<1>2. /\ ctrlConns' = ctrlConns \ {c} /\ dataConns' = dataConns \cup {c}
      /\ Ends(Session(c), tb, dep, q) /\ freed' = freed /\ fd' = fd /\ doomed' = doomed
      /\ src' = src /\ sock' = sock /\ job' = job /\ relaxed' = relaxed
      /\ delhs' = delhs /\ losses' = losses /\ intrs' = intrs
      /\ strayed' = strayed /\ fatal' = fatal
  BY DEF Data, AfterWait, streams, counts
<1>3. /\ ConnTypeOK /\ Placed /\ DepsMutual /\ Sourced /\ c \in ctrlConns /\ job[c] = "idle" /\ fatal = "no"
      /\ Sched(tb, dep, q, Due \ {Session(c)}) /\ Len(doomed) = Count(q)
      /\ r \in SUBSET (Fd \cup {Listen}) /\ \A f \in r \ {Listen} : tb[f] # Nobody
  BY DEF SessionTurn, Turn
<1>4. p \in Conn /\ p # NoOne /\ p # c /\ fd[p] # 0 /\ c \notin dataConns /\ c # NoOne /\ ctrl[c] = NoOne
  <2>1. p \in Conn
    BY <1>3 DEF ConnTypeOK
  <2>2. Alive(p) /\ c \notin dataConns
    BY <1>3, <2>1 DEF Placed, Registered
  <2>3. ctrl[c] = NoOne
    BY <1>3, <2>2 DEF DepsMutual
  <2> QED
    BY <2>1, <2>2, <2>3, TtscpAssumption DEF Alive, NoOne
<1>5. ConnTypeOK'
  BY <1>1, <1>2, <1>3, <1>4 DEF ConnTypeOK
<1>6. Placed'
  <2>1. Registered'
    <3>1. {x \in Conn : Alive(x)}' = {x \in Conn : Alive(x)}
      BY <1>2 DEF Alive
    <3>2. ctrlConns' \cap dataConns' = {} /\ ctrlConns' \cup dataConns' = ctrlConns \cup dataConns
      BY <1>2, <1>3 DEF Placed, Registered
    <3> QED
      BY <1>2, <1>3, <3>1, <3>2 DEF Placed, Registered
  <2>2. \A i \in 1..Len(doomed') : doomed'[i] \notin ctrlConns' \cup dataConns'
    BY <1>2, <1>3 DEF Placed
  <2> QED
    BY <1>2, <1>3, <2>1, <2>2 DEF Placed
<1>7. DepsMutual'
  <2>1. ASSUME NEW x \in Conn, NEW y \in Conn PROVE y \in deps'[x] <=> ctrl'[y] = x
    <3>1. y \in deps[x] <=> ctrl[y] = x
      BY <1>3 DEF DepsMutual
    <3>2. ctrl'[y] = IF y = c THEN p ELSE ctrl[y]
      BY <1>1, <1>3 DEF ConnTypeOK
    <3>3. deps'[x] = IF x = p THEN deps[x] \cup {c} ELSE deps[x]
      BY <1>1, <1>3, <1>4 DEF ConnTypeOK
    <3>4. x # NoOne
      BY TtscpAssumption DEF NoOne
    <3> QED
      BY <1>4, <3>1, <3>2, <3>3, <3>4
  <2>2. \A y \in Conn : ctrl'[y] # NoOne <=> y \in dataConns'
    BY <1>1, <1>2, <1>3, <1>4 DEF DepsMutual, ConnTypeOK
  <2>4. ASSUME NEW y \in dataConns' PROVE fd'[ctrl'[y]] # 0
    <3>1. CASE y = c
      BY <1>1, <1>2, <1>3, <1>4, <3>1 DEF ConnTypeOK
    <3>2. CASE y # c
      <4>1. ctrl'[y] = ctrl[y] /\ fd[ctrl[y]] # 0
        BY <1>1, <1>2, <1>3, <2>4, <3>2 DEF ConnTypeOK, DepsMutual, Alive
      <4> QED
        BY <1>2, <4>1
    <3> QED
      BY <3>1, <3>2
  <2> QED
    BY <2>1, <2>2, <2>4 DEF DepsMutual, Alive
<1>8. Sourced'
  BY <1>2, <1>3 DEF Sourced, HasText
<1>9. After(tb, q, Due \ {Session(c)})
  BY <1>2, <1>3, Ended, AgentFacts
<1>10. Due \ {Session(c)} \subseteq Due'
  BY <1>2 DEF Due, HasText
<1>11. Sched(table', dep', runq', Due')
  BY <1>9, <1>10, Widened DEF After
<1>12. Len(doomed') = Count(runq')
  BY <1>2, <1>3, <1>9 DEF After
<1>13. \A f \in ready' \ {Listen} : table'[f] # Nobody
  BY <1>3, <1>9, AfterReady
<1> QED
  BY <1>5, <1>6, <1>7, <1>8, <1>11, <1>12, <1>13, InvAfter

LEMMA DownPreserves ==
  ASSUME NEW c \in Conn, NEW tb, NEW q, NEW r, SessionTurn(c, tb, q, r), Down(c, tb, q), ready' = r
  PROVE  TtscpInv'
<1>1. UNCHANGED <<tables, doomed, streams, counts, strayed>> /\ Ends(Session(c), tb, dep, q) /\ fatal' = "800"
  BY DEF Down
<1>2. /\ ConnTypeOK /\ Placed /\ DepsMutual /\ Sourced
      /\ Sched(tb, dep, q, Due \ {Session(c)})
      /\ r \in SUBSET (Fd \cup {Listen}) /\ \A f \in r \ {Listen} : tb[f] # Nobody
  BY DEF SessionTurn, Turn
<1>3. ConnTypeOK' /\ Sourced'
  BY <1>1, <1>2 DEF ConnTypeOK, Stuck, Sourced, HasText, tables, streams, counts
<1>4. After(tb, q, Due \ {Session(c)})
  BY <1>1, <1>2, Ended, AgentFacts
<1>5. Due \ {Session(c)} \subseteq Due'
  BY <1>1 DEF Due, HasText, tables, streams
<1>6. Sched(table', dep', runq', Due')
  BY <1>4, <1>5, Widened DEF After
<1>7. \A f \in ready' \ {Listen} : table'[f] # Nobody
  BY <1>2, <1>4, AfterReady
<1> QED
  BY <1>1, <1>2, <1>3, <1>6, <1>7, StreamsOnly, InvAfter

\* The session whose command is interrupted may go on with the one that interrupts it; a relaxed
\* input agent waits on.
LEMMA IntrPreserves ==
  ASSUME NEW c \in Conn, NEW tb, NEW q, NEW r, SessionTurn(c, tb, q, r), Intr(c, tb, q), ready' = r
  PROVE  TtscpInv'
<1>1. PICK x \in ctrlConns :
        /\ job[x] \in {"reads", "empty", "works"}
        /\ relaxed' = IF job[x] = "works" THEN relaxed ELSE relaxed \cup {x}
        /\ \/ job' = [job EXCEPT ![x] = "idle"] /\ Continues(c, tb, dep, Called(x, q))
           \/ job' = [job EXCEPT ![x] = "broken"] /\ Continues(c, tb, dep, q)
  BY DEF Intr
<1>2. /\ intrs < MaxIntr /\ intrs' = intrs + 1
      /\ UNCHANGED <<tables, doomed, src, sock, delhs, losses, strayed>>
  BY DEF Intr
<1>3. x \in Conn /\ x # c /\ Session(x) \notin Due /\ Session(x) # Session(c)
      /\ Session(x) \in Workers /\ Session(x) \in Agents
  <2>1. x \in Conn /\ x # c
    BY <1>1, OwnTurn DEF ConnTypeOK
  <2> QED
    BY <1>1, <2>1, OwnTurn, AgentFacts DEF Due, ConnTypeOK
<1>4. PICK j \in {"idle", "broken"} : job' = [job EXCEPT ![x] = j]
  BY <1>1
<1>5. ctrlConns' = ctrlConns /\ \A y \in Conn : job'[y] = IF y = x THEN j ELSE job[y]
  BY <1>2, <1>4, OwnTurn DEF ConnTypeOK, tables
<1>6. Due \subseteq Due' /\ (j = "idle" => Session(x) \in Due')
  <2>1. ctrlConns \subseteq Conn /\ relaxed \subseteq Conn
    BY OwnTurn DEF ConnTypeOK
  <2>2. \A y \in Conn : HasText(y) \/ y \in relaxed => HasText(y)' \/ y \in relaxed'
    BY <1>1, <1>5 DEF HasText
  <2>3. \A y \in ctrlConns : job[y] = "idle" => job'[y] = "idle"
    BY <1>1, <1>5, <2>1
  <2> QED
    BY <1>1, <1>5, <2>1, <2>2, <2>3 DEF Due
<1>7. Sourced'
  BY <1>1, <1>2, <1>5, OwnTurn DEF Sourced, HasText, tables
<1>8. job' \in [Conn -> {"idle", "reads", "empty", "works", "broken"}] /\ relaxed' \in SUBSET Conn /\ intrs' \in 0..MaxIntr /\ intrs' > 0
  <2>1. job' \in [Conn -> {"idle", "reads", "empty", "works", "broken"}] /\ relaxed' \in SUBSET Conn
    BY <1>1, <1>3, <1>4, OwnTurn DEF ConnTypeOK
  <2>2. intrs \in 0..MaxIntr
    BY OwnTurn DEF ConnTypeOK
  <2> QED
    BY <1>2, <2>1, <2>2, TtscpAssumption
<1>9. fatal' = fatal => ConnTypeOK'
  BY <1>2, <1>8, OwnTurn DEF ConnTypeOK, tables
<1>10. job'[c] = "idle"
  BY <1>3, <1>5, OwnTurn
<1>11. Session(c) \notin Due \ {Session(c)} /\ Due \ {Session(c)} \subseteq Due'
  BY <1>6
<1>12. CASE Continues(c, tb, dep, q)
  <2>1. fatal' = fatal
    BY <1>11, <1>12, OwnTurn, NoneDies
  <2> QED
    BY <1>2, <1>7, <1>9, <1>10, <1>11, <1>12, <2>1, OwnTurn, GoesOn
<1>13. CASE job' = [job EXCEPT ![x] = "idle"] /\ Continues(c, tb, dep, Called(x, q))
  <2> DEFINE W == (Due \ {Session(c)}) \cup {Session(x)}
             p == Append(q, Session(x))
  <2>1. Sched(tb, dep, p, W)
    BY <1>3, OwnTurn, Enqueued
  <2>2. Session(c) \notin W
    BY <1>3
  <2>3. W \subseteq Due'
    <3>1. job'[x] = "idle"
      BY <1>3, <1>13, OwnTurn DEF ConnTypeOK
    <3> QED
      BY <1>1, <1>5, <1>6, <3>1 DEF Due
  <2>4. Continues(c, tb, dep, p)
    BY <1>13 DEF Called
  <2>5. Count(p) = Count(q)
    BY <1>3, OwnTurn, CountWorker DEF Sched, SchedType
  <2> HIDE DEF W, p
  <2>6. SessionTurn(c, tb, q, r) /\ fd[c] \in Fd
    BY OwnTurn
  <2>7. After(tb, p, W \cup {Session(c)}) /\ fatal' = fatal
    BY <2>1, <2>2, <2>4, <2>6, Continued
  <2>8. W \cup {Session(c)} \subseteq Due'
    BY <1>5, <1>10, <2>3, OwnTurn DEF Due
  <2>9. Sched(table', dep', runq', Due')
    BY <2>7, <2>8, Widened DEF After
  <2>10. Len(doomed') = Count(runq')
    BY <1>2, <2>5, <2>7, OwnTurn DEF After
  <2>11. \A f \in ready' \ {Listen} : table'[f] # Nobody
    <3>1. r \in SUBSET (Fd \cup {Listen}) /\ \A f \in r \ {Listen} : tb[f] # Nobody
      BY OwnTurn
    <3> QED
      BY <2>7, <3>1, AfterReady
  <2> QED
    BY <1>2, <1>7, <1>9, <2>7, <2>9, <2>10, <2>11, OwnTurn, StreamsOnly, InvAfter
<1> QED
  BY <1>1, <1>12, <1>13

\* The input agent of a data connection does not wait, unless since an intr.
LEMMA DeletedSinceIntr ==
  ASSUME ConnTypeOK, Placed, DepsMutual, Sourced, NEW c \in Conn, c \notin ctrlConns, NEW t, NEW q,
         NEW W, Sched(t, dep, q, W), W \subseteq Due, Named(Below(c), t, q)
  PROVE  relaxed # {} /\ intrs > 0
<1>1. Below(c) \subseteq Conn /\ \A x \in Below(c) : x = c \/ x \in dataConns
  BY BelowFacts
<1>2. \A x \in Below(c) : ~HasText(x)
  <2>1. \A x \in Below(c) : x \notin ctrlConns /\ x \in Conn
    BY <1>1 DEF Placed, Registered
  <2> QED
    BY <2>1 DEF Sourced, HasText
<1> QED
  BY <1>1, <1>2, WaitsSinceIntr

LEMMA DelhPreserves ==
  ASSUME NEW c \in Conn, NEW tb, NEW q, NEW r, SessionTurn(c, tb, q, r), Delh(c, tb, q, r)
  PROVE  TtscpInv'
<1>1. PICK d \in dataConns :
        LET D == Below(d) IN
        /\ delhs < MaxDelh
        /\ IF Named(D, Invalidated(tb, D), q)
           THEN Gone(Session(c), tb, q) /\ ready' = r
           ELSE /\ Delete(d, r)
                /\ Continues(c, Invalidated(tb, D), Parted(D), q)
                /\ delhs' = delhs + 1
                /\ UNCHANGED <<job, doomed, losses, intrs, strayed>>
  BY DEF Delh
<1>2. d \in Conn /\ d \notin ctrlConns
  BY OwnTurn DEF ConnTypeOK, Placed, Registered
<1> DEFINE D == Below(d)
           t == Invalidated(tb, Below(d))
<1>3. Sched(t, dep, q, Due \ {Session(c)})
  BY OwnTurn, TableCut
<1>4. CASE Named(D, t, q)
  <2>1. Gone(Session(c), tb, q) /\ ready' = r
    BY <1>1, <1>4
  <2>2. relaxed # {} /\ intrs > 0
    <3>1. Due \ {Session(c)} \subseteq Due
      OBVIOUS
    <3> HIDE DEF t
    <3>2. Named(Below(d), t, q)
      BY <1>4
    <3> QED
      BY <1>2, <1>3, <3>1, <3>2, OwnTurn, DeletedSinceIntr
  <2>3. /\ fatal' \in Stuck /\ Ends(Session(c), tb, dep, q)
        /\ UNCHANGED <<tables, doomed, streams, counts, strayed>>
    BY <2>1 DEF Gone, Stuck
  <2>4. Session(c) \in Agents /\ Due \ {Session(c)} \subseteq Due
    BY AgentFacts
  <2> QED
    BY <2>1, <2>2, <2>3, <2>4, OwnTurn, StuckPreserves
<1>5. CASE ~Named(D, t, q)
  <2>1. /\ Delete(d, r) /\ Continues(c, t, Parted(D), q) /\ job' = job
        /\ delhs < MaxDelh /\ delhs' = delhs + 1 /\ doomed' = doomed /\ losses' = losses
        /\ intrs' = intrs /\ strayed' = strayed
    BY <1>1, <1>5
  <2>2. Placed' /\ DepsMutual' /\ Sourced'
    BY <1>2, <2>1, OwnTurn, DeletePlaced, DeleteMutual, DeleteSourced
  <2> DEFINE W == (Due \ {Session(c)}) \ {Input(x) : x \in D}
  <2>3. D \subseteq Conn
    BY <1>2, OwnTurn, BelowFacts
  <2>4. \A f \in ready' \ {Listen} : f \in Fd /\ t[f] # Nobody
    <3>1. \A f \in r \ {Listen} : f \in Fd /\ tb[f] # Nobody
      BY OwnTurn
    <3> QED
      BY <2>1, <3>1, DeleteReady
  <2> HIDE DEF t
  <2>5. relaxed' = relaxed \ D /\ (relaxed' # {} => relaxed # {})
    BY <2>1 DEF Delete
  <2> HIDE DEF D
  <2>6. Sched(t, Parted(D), q, W) /\ Session(c) \notin W
    BY <1>3, <1>5, <2>3, ChainsCut
  <2>7. W \cup {Session(c)} \subseteq Due'
    <3>1. ctrlConns' = ctrlConns
      BY <2>1 DEF Delete
    <3>2. Session(c) \in Due'
      BY <2>1, <3>1, OwnTurn DEF Due
    <3>3. W \subseteq Due'
      BY <2>1, <2>5, <3>1 DEF Due, HasText
    <3> QED
      BY <3>2, <3>3
  <2> HIDE DEF W
  <2>8. After(t, q, W \cup {Session(c)}) /\ fatal' = fatal
    <3>1. fd[c] \in Fd
      BY OwnTurn
    <3> QED
      BY <2>1, <2>6, <3>1, Continued
  <2>9. ConnTypeOK'
    <3>1. delhs' \in 0..MaxDelh
      <4>1. delhs \in 0..MaxDelh
        BY OwnTurn DEF ConnTypeOK
      <4> QED
        BY <2>1, <4>1, TtscpAssumption
    <3>2. r \in SUBSET (Fd \cup {Listen})
      BY OwnTurn
    <3>3. relaxed' \in SUBSET Conn /\ (relaxed' # {} \/ fatal' \in Stuck => intrs' > 0)
      BY <2>1, <2>5, <2>8, OwnTurn DEF ConnTypeOK
    <3>4. job' \in [Conn -> {"idle", "reads", "empty", "works", "broken"}] /\ doomed' \in Seq(Conn)
          /\ losses' \in 0..MaxLoss /\ intrs' \in 0..MaxIntr /\ strayed' \in BOOLEAN
          /\ fatal' \in {"no", "800", "871", "dangling"} \cup Stuck
      BY <2>1, <2>8, OwnTurn DEF ConnTypeOK
    <3> QED
      BY <1>2, <2>1, <3>1, <3>2, <3>3, <3>4, OwnTurn, DeleteTypes DEF ConnTypeOK
  <2>10. Sched(table', dep', runq', Due')
    BY <2>7, <2>8, Widened DEF After
  <2>11. Len(doomed') = Count(runq')
    BY <2>1, <2>8, OwnTurn DEF After
  <2>12. \A f \in ready' \ {Listen} : table'[f] # Nobody
    BY <2>4, <2>8 DEF After
  <2> QED
    BY <2>2, <2>9, <2>10, <2>11, <2>12, InvAfter
<1> QED
  BY <1>4, <1>5

LEMMA CommandPreserves ==
  ASSUME NEW c \in Conn, NEW tb, NEW q, NEW r, SessionTurn(c, tb, q, r), Command(c, tb, q, r)
  PROVE  TtscpInv'
BY QuitPreserves, HarmlessPreserves, StrmPreserves, StrmFailsPreserves, StrmOfNamedPreserves, ApplPreserves,
   DataPreserves, IntrPreserves, DownPreserves, DelhPreserves DEF Command

-----------------------------------------------------------------------------
(* The input agent, and the disconnector.                                  *)

InputTurn(c, tb, q, r) == Turn(Input(c), tb, q, r) /\ c \in Conn /\ (HasText(c) \/ c \in relaxed)

LEMMA InputsTurn ==
  ASSUME NEW c, NEW tb, NEW q, NEW r, InputTurn(c, tb, q, r)
  PROVE  /\ ConnTypeOK /\ Placed /\ DepsMutual /\ Sourced /\ fatal = "no" /\ c \in Conn
         /\ Sched(tb, dep, q, Due \ {Input(c)}) /\ Len(doomed) = Count(q)
         /\ r \in SUBSET (Fd \cup {Listen}) /\ \A f \in r \ {Listen} : tb[f] # Nobody
         /\ Input(c) \in Workers /\ Input(c) \in Agents
BY AgentFacts DEF InputTurn, Turn

LEMMA InputFacts ==
  ASSUME NEW c, NEW tb, NEW q, NEW r, InputTurn(c, tb, q, r), HasText(c)
  PROVE  /\ ConnTypeOK /\ Placed /\ DepsMutual /\ Sourced /\ fatal = "no" /\ c \in ctrlConns
         /\ Sched(tb, dep, q, Due \ {Input(c)}) /\ Len(doomed) = Count(q)
         /\ r \in SUBSET (Fd \cup {Listen}) /\ \A f \in r \ {Listen} : tb[f] # Nobody
         /\ src[c] \in Conn /\ sock[c] \in Fd /\ src[c] \in dataConns \cup freed
         /\ Input(c) \notin Due \ {Input(c)} /\ Session(c) \notin Due
<1>1. ConnTypeOK /\ Sourced /\ c \in Conn /\ job[c] \in {"reads", "empty"}
  BY DEF InputTurn, Turn, HasText
<1>2. src[c] # NoOne /\ c \in ctrlConns
  BY <1>1 DEF Sourced, HasText
<1>3. src[c] \in Conn /\ sock[c] \in Fd /\ src[c] \in dataConns \cup freed
  BY <1>1, <1>2, Fds DEF ConnTypeOK, Sourced
<1>4. Session(c) \notin Due
  BY <1>1, AgentFacts DEF Due, ConnTypeOK
<1> QED
  BY <1>2, <1>3, <1>4 DEF InputTurn, Turn

\* The input agent sleeps on.
LEMMA SleepsOn ==
  ASSUME NEW c, NEW tb, NEW q, NEW r, InputTurn(c, tb, q, r), HasText(c), ready' = r,
         Sleeps(Input(c), Input(c), sock[c], tb, dep, q),
         UNCHANGED <<tables, doomed, src, sock, job, relaxed, counts>>, strayed' \in BOOLEAN
  PROVE  TtscpInv'
<1>0. c \in Conn
  BY DEF InputTurn
<1>1. Input(c) \in Workers /\ Input(c) \in Agents
  BY <1>0, AgentFacts
<1>2. After(tb, q, (Due \ {Input(c)}) \cup {Input(c)}) /\ fatal' = fatal
  BY <1>1, InputFacts, Slept1
<1>3. ConnTypeOK'
  BY <1>2, InputFacts DEF ConnTypeOK, tables, counts
<1>4. Sourced'
  BY InputFacts DEF Sourced, HasText, tables
<1>5. (Due \ {Input(c)}) \cup {Input(c)} \subseteq Due'
  <2>1. Due' = Due
    BY DEF Due, HasText, tables
  <2>2. Input(c) \in Due
    BY <1>0 DEF Due
  <2> QED
    BY <2>1, <2>2
<1>6. Sched(table', dep', runq', Due')
  BY <1>2, <1>5, Widened DEF After
<1>7. Len(doomed') = Count(runq')
  BY <1>2, InputFacts DEF After
<1>8. \A f \in ready' \ {Listen} : table'[f] # Nobody
  <2>1. r \in SUBSET (Fd \cup {Listen}) /\ \A f \in r \ {Listen} : tb[f] # Nobody
    BY InputFacts
  <2> QED
    BY <1>2, <2>1, AfterReady
<1> QED
  BY <1>3, <1>4, <1>6, <1>7, <1>8, InputFacts, StreamsOnly, InvAfter

\* A relaxed input agent has had its turn.
LEMMA ShrugsPreserves ==
  ASSUME NEW c, NEW tb, NEW q, NEW r, InputTurn(c, tb, q, r), Shrugs(c, tb, q), ready' = r
  PROVE  TtscpInv'
<1>1. /\ table' = tb /\ runq' = q /\ dep' = dep /\ relaxed' = relaxed \ {c} /\ ~HasText(c)
      /\ UNCHANGED <<tables, doomed, src, sock, job, counts, strayed, fatal>>
  BY DEF Shrugs
<1>2. ConnTypeOK'
  BY <1>1, InputsTurn DEF ConnTypeOK, tables, counts
<1>3. Sourced'
  BY <1>1, InputsTurn DEF Sourced, HasText, tables
<1>4. Due \ {Input(c)} \subseteq Due'
  BY <1>1 DEF Due, HasText, tables
<1>5. Sched(table', dep', runq', Due')
  BY <1>1, <1>4, InputsTurn, Widened
<1>6. Len(doomed') = Count(runq') /\ \A f \in ready' \ {Listen} : table'[f] # Nobody
  BY <1>1, InputsTurn
<1> QED
  BY <1>1, <1>2, <1>3, <1>5, <1>6, InputsTurn, StreamsOnly, InvAfter

LEMMA NestedPreserves ==
  ASSUME NEW c, NEW tb, NEW q, NEW r, InputTurn(c, tb, q, r), Nested(c, tb, q), ready' = r
  PROVE  TtscpInv'
<1>1. strayed' \in BOOLEAN /\ HasText(c)
  BY InputsTurn DEF Nested, ConnTypeOK
<1> QED
  BY <1>1, SleepsOn DEF Nested, streams

LEMMA ReadsPreserves ==
  ASSUME NEW c, NEW tb, NEW q, NEW r, InputTurn(c, tb, q, r), Reads(c, tb, q), ready' = r
  PROVE  TtscpInv'
<1>1. strayed' \in BOOLEAN /\ UNCHANGED <<tables, doomed, src, sock, relaxed, counts>> /\ HasText(c)
  BY DEF Reads, HasText
<1>2. CASE Sleeps(Input(c), Input(c), sock[c], tb, dep, q) /\ job' = job
  BY <1>1, <1>2, SleepsOn
<1>3. CASE job' = [job EXCEPT ![c] = "works"] /\ Ends(Input(c), tb, dep, q) /\ fatal' = fatal
  <2>0. c \in Conn
    BY DEF InputTurn
  <2>1. After(tb, q, Due \ {Input(c)})
    BY <1>1, <1>3, <2>0, InputFacts, Ended, AgentFacts
  <2>2. \A x \in Conn : job'[x] = IF x = c THEN "works" ELSE job[x]
    BY <1>1, <1>3, InputFacts DEF ConnTypeOK
  <2>3. ConnTypeOK'
    BY <1>1, <1>3, InputFacts DEF ConnTypeOK, tables, counts
  <2>4. Sourced'
    BY <1>1, <2>2, InputFacts DEF Sourced, HasText, tables
  <2>5. Due \ {Input(c)} \subseteq Due'
    <3>1. ctrlConns' = ctrlConns /\ ctrlConns \subseteq Conn /\ job[c] # "idle"
      BY <1>1, InputFacts DEF ConnTypeOK, tables, HasText
    <3> QED
      BY <1>1, <2>2, <3>1 DEF Due, HasText
  <2>6. Sched(table', dep', runq', Due')
    BY <2>1, <2>5, Widened DEF After
  <2>7. Len(doomed') = Count(runq')
    BY <1>1, <2>1, InputFacts DEF After
  <2>8. \A f \in ready' \ {Listen} : table'[f] # Nobody
    <3>1. r \in SUBSET (Fd \cup {Listen}) /\ \A f \in r \ {Listen} : tb[f] # Nobody
      BY <1>1, InputFacts
    <3> QED
      BY <2>1, <3>1, AfterReady
  <2> QED
    BY <1>1, <2>3, <2>4, <2>6, <2>7, <2>8, InputFacts, StreamsOnly, InvAfter
<1> QED
  BY <1>2, <1>3 DEF Reads

LEMMA LosesPreserves ==
  ASSUME NEW c, NEW tb, NEW q, NEW r, NEW polled, InputTurn(c, tb, q, r), Loses(c, tb, q, r, polled)
  PROVE  TtscpInv'
<1>0. c \in Conn /\ HasText(c)
  BY DEF InputTurn, Loses
<1> DEFINE d == src[c]
           D == Below(d)
           t == Invalidated(tb, Below(d))
<1>1. \/ /\ fatal' = "dangling" /\ ready' = r /\ Loss(c, polled) /\ Ends(Input(c), tb, dep, q)
         /\ UNCHANGED <<tables, streams, doomed, delhs, intrs, strayed>>
      \/ Alive(d) /\ Named(D, t, q) /\ Gone(Input(c), tb, q) /\ ready' = r
      \/ /\ Alive(d) /\ ~Named(D, t, q)
         /\ Loss(c, polled) /\ Delete(d, r)
         /\ job' = [job EXCEPT ![c] = "idle"]
         /\ Ends(Input(c), t, Parted(D), Called(c, q)) /\ fatal' = fatal
         /\ UNCHANGED <<doomed, delhs, intrs, strayed>>
  BY DEF Loses
<1>2. Loss(c, polled) => losses' \in 0..MaxLoss
  <2>1. Loss(c, polled) => losses' = losses \/ (losses < MaxLoss /\ losses' = losses + 1)
    BY DEF Loss
  <2>2. losses \in 0..MaxLoss
    BY InputsTurn DEF ConnTypeOK
  <2> QED
    BY <2>1, <2>2, TtscpAssumption
<1>3. Sched(t, dep, q, Due \ {Input(c)})
  BY InputsTurn, TableCut
<1>4. Alive(d) => d \in Conn /\ d \in dataConns /\ d \notin ctrlConns
  BY <1>0, InputFacts DEF Placed, Registered, Alive
<1>5. CASE Alive(d) /\ Named(D, t, q) /\ Gone(Input(c), tb, q) /\ ready' = r
  <2>1. relaxed # {} /\ intrs > 0
    <3>1. Due \ {Input(c)} \subseteq Due
      OBVIOUS
    <3> HIDE DEF t, d
    <3>2. Named(Below(d), t, q)
      BY <1>5
    <3> QED
      BY <1>3, <1>4, <1>5, <3>1, <3>2, InputsTurn, DeletedSinceIntr
  <2>2. /\ fatal' \in Stuck /\ Ends(Input(c), tb, dep, q)
        /\ UNCHANGED <<tables, doomed, streams, counts, strayed>>
    BY <1>5 DEF Gone, Stuck
  <2>3. Due \ {Input(c)} \subseteq Due
    OBVIOUS
  <2> QED
    BY <1>5, <2>1, <2>2, <2>3, InputsTurn, StuckPreserves
<1>6. CASE /\ Alive(d) /\ ~Named(D, t, q)
           /\ Loss(c, polled) /\ Delete(d, r)
           /\ job' = [job EXCEPT ![c] = "idle"]
           /\ Ends(Input(c), t, Parted(D), Called(c, q)) /\ fatal' = fatal
           /\ UNCHANGED <<doomed, delhs, intrs, strayed>>
  <2>1. d \in Conn /\ d \in dataConns /\ d \notin ctrlConns
    BY <1>4, <1>6
  <2>2. \A x \in Conn : job'[x] = IF x = c THEN "idle" ELSE job[x]
    BY <1>6, InputsTurn DEF ConnTypeOK
  <2>3. D \subseteq Conn
    BY <2>1, InputsTurn, BelowFacts
  <2> HIDE DEF d
  <2>4. Placed' /\ DepsMutual' /\ Sourced'
    BY <1>6, <2>1, <2>2, InputsTurn, DeletePlaced, DeleteMutual, DeleteSourced
  <2>5. \A f \in ready' \ {Listen} : f \in Fd /\ t[f] # Nobody
    <3>1. \A f \in r \ {Listen} : f \in Fd /\ tb[f] # Nobody
      BY InputsTurn
    <3> QED
      BY <1>6, <3>1, DeleteReady
  <2>6. relaxed' = relaxed \ D /\ (relaxed' # {} => relaxed # {}) /\ ctrlConns' = ctrlConns
    BY <1>6 DEF Delete
  <2> DEFINE W == (Due \ {Input(c)}) \ {Input(x) : x \in D}
             p == Append(q, Session(c))
  <2> HIDE DEF t, D
  <2>7. Sched(t, Parted(D), q, W)
    BY <1>3, <1>6, <2>3, ChainsCut
  <2>8. Session(c) \in Workers /\ Session(c) \notin W
    BY <1>0, InputFacts, AgentFacts
  <2>9. W \cup {Session(c)} \subseteq Due'
    <3>1. W \subseteq Due'
      <4>1. ctrlConns \subseteq Conn /\ relaxed \subseteq Conn
        BY InputsTurn DEF ConnTypeOK
      <4>2. \A y \in Conn : HasText(y) /\ y # c => HasText(y)'
        BY <2>2 DEF HasText
      <4>3. \A y \in ctrlConns : job[y] = "idle" => job'[y] = "idle"
        BY <2>2, <4>1
      <4>4. \A y \in relaxed : y \in relaxed' \/ y \in D
        BY <2>6
      <4> QED
        BY <2>6, <4>1, <4>2, <4>3, <4>4 DEF Due
    <3>2. Session(c) \in Due'
      BY <1>0, <2>2, <2>6, InputFacts DEF Due
    <3> QED
      BY <3>1, <3>2
  <2> HIDE DEF W
  <2>10. Sched(t, Parted(D), p, W \cup {Session(c)})
    BY <2>7, <2>8, Enqueued
  <2>11. Count(p) = Count(q)
    BY <2>7, <2>8, CountWorker DEF Sched, SchedType
  <2>12. Ends(Input(c), t, Parted(D), p)
    BY <1>6 DEF Called
  <2> HIDE DEF p
  <2>13. After(t, p, W \cup {Session(c)})
    BY <2>10, <2>12, InputsTurn, Ended
  <2>14. ConnTypeOK'
    <3>1. job' \in [Conn -> {"idle", "reads", "empty", "works", "broken"}]
      BY <1>6, InputsTurn DEF ConnTypeOK
    <3>2. doomed' \in Seq(Conn) /\ fatal' \in {"no", "800", "871", "dangling"} \cup Stuck
          /\ delhs' \in 0..MaxDelh /\ intrs' \in 0..MaxIntr /\ strayed' \in BOOLEAN
      BY <1>6, InputsTurn DEF ConnTypeOK
    <3>3. r \in SUBSET (Fd \cup {Listen}) /\ losses' \in 0..MaxLoss
      BY <1>2, <1>6, InputsTurn
    <3>4. relaxed' \in SUBSET Conn /\ (relaxed' # {} \/ fatal' \in Stuck => intrs' > 0)
      BY <1>6, <2>6, InputsTurn DEF ConnTypeOK
    <3> QED
      BY <1>6, <2>1, <3>1, <3>2, <3>3, <3>4, InputsTurn, DeleteTypes DEF ConnTypeOK
  <2>15. Sched(table', dep', runq', Due')
    BY <2>9, <2>13, Widened DEF After
  <2>16. Len(doomed') = Count(runq')
    BY <1>6, <2>11, <2>13, InputsTurn DEF After
  <2>17. \A f \in ready' \ {Listen} : table'[f] # Nobody
    BY <2>5, <2>13 DEF After
  <2> QED
    BY <2>4, <2>14, <2>15, <2>16, <2>17, InvAfter
<1>7. CASE /\ fatal' = "dangling" /\ ready' = r /\ Loss(c, polled) /\ Ends(Input(c), tb, dep, q)
           /\ UNCHANGED <<tables, streams, doomed, delhs, intrs, strayed>>
  <2>1. After(tb, q, Due \ {Input(c)})
    BY <1>7, InputsTurn, Ended
  <2>2. ConnTypeOK'
    <3>1. losses' \in 0..MaxLoss /\ fatal' \notin Stuck
      BY <1>2, <1>7 DEF Stuck
    <3> QED
      BY <1>7, <3>1, InputsTurn DEF ConnTypeOK, tables, streams
  <2>3. Sourced'
    BY <1>7, InputsTurn DEF Sourced, HasText, tables, streams
  <2>4. Due \ {Input(c)} \subseteq Due'
    BY <1>7 DEF Due, HasText, tables, streams
  <2>5. Sched(table', dep', runq', Due')
    BY <2>1, <2>4, Widened DEF After
  <2>6. \A f \in ready' \ {Listen} : table'[f] # Nobody
    <3>1. r \in SUBSET (Fd \cup {Listen}) /\ \A f \in r \ {Listen} : tb[f] # Nobody
      BY InputsTurn
    <3> QED
      BY <1>7, <2>1, <3>1, AfterReady
  <2> QED
    BY <1>7, <2>2, <2>3, <2>5, <2>6, InputsTurn, StreamsOnly, InvAfter
<1> QED
  BY <1>1, <1>5, <1>6, <1>7

LEMMA FetchPreserves ==
  ASSUME NEW c, NEW tb, NEW q, NEW r, NEW polled, InputTurn(c, tb, q, r), Fetch(c, tb, q, r, polled)
  PROVE  TtscpInv'
BY ShrugsPreserves, NestedPreserves, ReadsPreserves, LosesPreserves DEF Fetch

\* The disconnector has left the queue, and there is one to be deleted more than queued.
LEMMA DisconnectPreserves ==
  ASSUME ConnTypeOK, Placed, DepsMutual, Sourced, fatal = "no", ready = {},
         NEW q, Sched(table, dep, q, Due), Len(doomed) = Count(q) + 1, Disconnect(q)
  PROVE  TtscpInv'
<1>1. doomed \in Seq(Conn) /\ q \in Seq(Agents)
  BY DEF ConnTypeOK, Sched, SchedType
<1>2. doomed # <<>>
  <2>1. Count(q) \in Nat
    BY <1>1, SummonsesFinite
  <2> QED
    BY <2>1
<1> DEFINE d == Last(doomed)
           D == Below(d)
           t == Invalidated(table, Below(d))
<1>3. \/ Named(D, t, q) /\ Gone(Disconnector, table, q) /\ UNCHANGED ready
      \/ /\ ~Named(D, t, q) /\ Delete(d, ready) /\ doomed' = Front(doomed) /\ job' = job /\ fatal' = fatal
         /\ Ends(Disconnector, t, Parted(D), q) /\ UNCHANGED <<counts, strayed>>
  BY <1>2 DEF Disconnect
<1>4. /\ d \in Conn /\ d = doomed[Len(doomed)] /\ Len(doomed) \in 1..Len(doomed)
      /\ doomed' = Front(doomed) => Len(doomed') = Len(doomed) - 1
  BY <1>1, <1>2, FrontFacts
<1>5. d \notin ctrlConns
  BY <1>4 DEF Placed
<1>6. D \subseteq Conn
  BY <1>4, BelowFacts
<1>7. Sched(t, dep, q, Due)
  BY TableCut
<1>8. CASE Named(D, t, q) /\ Gone(Disconnector, table, q) /\ UNCHANGED ready
  <2> HIDE DEF d, t
  <2>1. relaxed # {} /\ intrs > 0
    <3>1. Named(Below(d), t, q) /\ Due \subseteq Due
      BY <1>8
    <3> QED
      BY <1>4, <1>5, <1>7, <3>1, DeletedSinceIntr
  <2>2. /\ fatal' \in Stuck /\ Ends(Disconnector, table, dep, q)
        /\ UNCHANGED <<tables, doomed, streams, counts, strayed>>
    BY <1>8 DEF Gone, Stuck
  <2>3. Disconnector \in Agents /\ Due \subseteq Due /\ ready' = ready
        /\ ready \in SUBSET (Fd \cup {Listen}) /\ \A f \in ready \ {Listen} : table[f] # Nobody
    BY <1>8, AgentFacts
  <2> QED
    BY <2>1, <2>2, <2>3, StuckPreserves
<1>9. CASE /\ ~Named(D, t, q) /\ Delete(d, ready) /\ doomed' = Front(doomed) /\ job' = job /\ fatal' = fatal
           /\ Ends(Disconnector, t, Parted(D), q) /\ UNCHANGED <<counts, strayed>>
  <2>1. Placed' /\ DepsMutual' /\ Sourced' /\ doomed' \in Seq(Conn)
    <3>1. doomed # <<>> /\ d = Last(doomed) /\ doomed' = Front(doomed) /\ Delete(d, ready) /\ job' = job
      BY <1>2, <1>9
    <3> HIDE DEF d
    <3> QED
      BY <1>4, <1>5, <3>1, DeletePlaced, DeleteMutual, DeleteSourced
  <2> HIDE DEF d
  <2>2. \A f \in ready' \ {Listen} : f \in Fd /\ t[f] # Nobody
    BY <1>9, DeleteReady
  <2>3. relaxed' = relaxed \ D /\ (relaxed' # {} => relaxed # {}) /\ ctrlConns' = ctrlConns
    BY <1>9 DEF Delete
  <2>4. ConnTypeOK'
    <3>1. ready \in SUBSET (Fd \cup {Listen})
      OBVIOUS
    <3>2. relaxed' \in SUBSET Conn /\ (relaxed' # {} \/ fatal' \in Stuck => intrs' > 0)
      BY <1>9, <2>3 DEF ConnTypeOK, counts
    <3>3. Delete(d, ready) /\ job' = job /\ fatal' = fatal /\ UNCHANGED <<delhs, losses, intrs, strayed>>
      BY <1>9 DEF counts
    <3> QED
      BY <1>4, <2>1, <3>1, <3>2, <3>3, DeleteTypes DEF ConnTypeOK
  <2> DEFINE W == Due \ {Input(x) : x \in D}
  <2> HIDE DEF t, D
  <2>5. W \subseteq Due'
    BY <1>9, <2>3 DEF Due, HasText
  <2>6. Sched(t, Parted(D), q, W)
    BY <1>6, <1>7, <1>9, ChainsCut
  <2> HIDE DEF W
  <2>7. After(t, q, W)
    BY <1>9, <2>6, Ended, AgentFacts
  <2>8. Sched(table', dep', runq', Due')
    BY <2>5, <2>7, Widened DEF After
  <2>9. Len(doomed') = Count(runq')
    <3>1. Count(q) \in Nat
      BY <1>1, SummonsesFinite
    <3> QED
      BY <1>4, <1>9, <2>7, <3>1 DEF After
  <2>10. \A f \in ready' \ {Listen} : table'[f] # Nobody
    BY <2>2, <2>7 DEF After
  <2> QED
    BY <2>1, <2>4, <2>8, <2>9, <2>10, InvAfter
<1> QED
  BY <1>3, <1>8, <1>9 DEF Disconnect

-----------------------------------------------------------------------------
(* The server loop.                                                        *)

\* Whose turn it is, and with what in hand, when the queue is served.
LEMMA InputIsDue ==
  ASSUME ConnTypeOK, NEW c \in Conn, Input(c) \in Due
  PROVE  HasText(c) \/ c \in relaxed
<1>1. ctrlConns \subseteq Conn /\ relaxed \subseteq Conn
  BY DEF ConnTypeOK
<1> QED
  BY <1>1, AgentFacts DEF Due

LEMMA DispatchTurns ==
  ASSUME TtscpInv, Dispatch
  PROVE  LET q == Tail(runq) IN
         \/ \E c \in Conn : Head(runq) = Session(c) /\ SessionTurn(c, table, q, {}) /\ Command(c, table, q, {})
         \/ \E c \in Conn : Head(runq) = Input(c) /\ InputTurn(c, table, q, {}) /\ Fetch(c, table, q, {}, FALSE)
         \/ /\ Head(runq) = Disconnector /\ Sched(table, dep, q, Due) /\ Len(doomed) = Count(q) + 1
            /\ Disconnect(q)
<1> DEFINE a == Head(runq)
           q == Tail(runq)
<1>1. /\ ConnTypeOK /\ Placed /\ DepsMutual /\ Sourced /\ fatal = "no" /\ ready = {} /\ runq # <<>>
      /\ Sched(table, dep, runq, Due) /\ Len(doomed) = Count(runq)
  BY DEF TtscpInv, Dispatch, Running, Disconnects, Count, Summonses
<1>2. runq \in Seq(Agents) /\ a \in Agents
  <2>1. runq \in Seq(Agents)
    BY <1>1 DEF Sched, SchedType
  <2> QED
    BY <1>1, <2>1, HeadTailProperties
<1>3. Sched(table, dep, q, Due \ {a})
  BY <1>1, Popped
<1>4. a \in Workers => a \in Due
  <2>1. runq[1] = a /\ 1 \in 1..Len(runq)
    BY <1>1, <1>2, TailFacts
  <2> QED
    BY <1>1, <2>1 DEF Sched, Holds
<1>5. (a # Disconnector => Count(q) = Count(runq)) /\ (a = Disconnector => Count(runq) = Count(q) + 1)
  BY <1>1, <1>2, CountTail
<1>6. \/ \E c \in Conn : a = Session(c) /\ Command(c, table, q, {})
      \/ \E c \in Conn : a = Input(c) /\ Fetch(c, table, q, {}, FALSE)
      \/ a = Disconnector /\ Disconnect(q)
  BY DEF Dispatch
<1> HIDE DEF a, q
<1>7. ASSUME NEW c \in Conn, a = Session(c), Command(c, table, q, {})
      PROVE  SessionTurn(c, table, q, {})
  <2>1. Session(c) \in Due /\ a # Disconnector
    BY <1>4, <1>7, AgentFacts
  <2>2. c \in ctrlConns /\ job[c] = "idle"
    <3>1. ctrlConns \subseteq Conn
      BY <1>1 DEF ConnTypeOK
    <3> QED
      BY <2>1, <3>1, AgentFacts DEF Due
  <2>3. fd[c] \in Fd
    BY <1>1, <2>2, Fds DEF Placed, Registered, Alive, ConnTypeOK
  <2> QED
    BY <1>1, <1>3, <1>5, <1>7, <2>1, <2>2, <2>3 DEF SessionTurn, Turn
<1>8. ASSUME NEW c \in Conn, a = Input(c), Fetch(c, table, q, {}, FALSE)
      PROVE  InputTurn(c, table, q, {})
  <2>1. Input(c) \in Due /\ a # Disconnector /\ Input(c) \in Workers
    BY <1>4, <1>8, AgentFacts
  <2>2. HasText(c) \/ c \in relaxed
    BY <2>1, InputIsDue, <1>1
  <2> QED
    BY <1>1, <1>3, <1>5, <1>8, <2>1, <2>2 DEF InputTurn, Turn
<1>9. ASSUME a = Disconnector PROVE Sched(table, dep, q, Due) /\ Len(doomed) = Count(q) + 1
  BY <1>1, <1>3, <1>5, <1>9, Widened
<1> QED
  BY <1>6, <1>7, <1>8, <1>9 DEF a, q

LEMMA DispatchPreserves == ASSUME TtscpInv, Dispatch PROVE TtscpInv'
<1>1. ConnTypeOK /\ Placed /\ DepsMutual /\ Sourced /\ fatal = "no" /\ ready = {}
  BY DEF TtscpInv, Dispatch, Running
<1> QED
  BY <1>1, DispatchTurns, CommandPreserves, FetchPreserves, DisconnectPreserves


\* Of descriptors there is always a first one.
LEMMA Least ==
  ASSUME NEW S \in SUBSET (Fd \cup {Listen}), S # {}
  PROVE  (CHOOSE f \in S : \A g \in S : f <= g) \in S
<1>1. S \subseteq Nat
  BY Fds DEF Listen
<1>2. \E f \in S : \A g \in S : f <= g
  <2>1. PICK f \in S : \A g \in S : <<g, f>> \notin OpToRel(<, Nat)
    BY <1>1, NatLessThanWellFounded, WFMin
  <2>2. ASSUME NEW g \in S PROVE f <= g
    <3>1. f \in Nat /\ g \in Nat /\ <<g, f>> \in Nat \X Nat
      BY <1>1
    <3>2. ~(<<g, f>>[1] < <<g, f>>[2])
      <4>1. <<g, f>> \notin {ss \in Nat \X Nat : ss[1] < ss[2]}
        BY <2>1 DEF OpToRel
      <4> QED
        BY <3>1, <4>1
    <3> QED
      BY <3>1, <3>2
  <2> QED
    BY <2>2
<1> QED
  BY <1>2

LEMMA AcceptPreserves ==
  ASSUME TtscpInv, Running, NEW c \in Conn, Accept(c)
  PROVE  TtscpInv'
<1>1. /\ ConnTypeOK /\ Placed /\ DepsMutual /\ Sourced /\ fatal = "no"
      /\ Sched(table, dep, runq, Due) /\ Len(doomed) = Count(runq)
      /\ \A f \in ready \ {Listen} : f \in Fd /\ table[f] # Nobody
  BY DEF TtscpInv, Running, Disconnects, Count, Summonses, NoGhost, ConnTypeOK
<1> DEFINE f == CHOOSE f \in FreeFds : \A g \in FreeFds : f <= g
<1>2. f \in Fd /\ \A x \in Conn : fd[x] # f
  <2>1. FreeFds \in SUBSET (Fd \cup {Listen}) /\ FreeFds # {}
    BY DEF FreeFds, Accept
  <2>2. f \in FreeFds
    BY <2>1, Least
  <2> HIDE DEF f
  <2> QED
    BY <2>2 DEF FreeFds, FdsOf
<1>3. /\ fd' = [fd EXCEPT ![c] = f] /\ table' = Blocked(Session(c), f, table)
      /\ dep' = Chained(Session(c), Session(c), f, table, dep)
      /\ ctrlConns' = ctrlConns \cup {c} /\ ready' = ready \ {Listen} /\ c \notin freed /\ fd[c] = 0
      /\ dataConns' = dataConns /\ freed' = freed /\ ctrl' = ctrl /\ deps' = deps /\ doomed' = doomed
      /\ src' = src /\ sock' = sock /\ job' = job /\ relaxed' = relaxed /\ runq' = runq
      /\ delhs' = delhs /\ losses' = losses /\ intrs' = intrs
      /\ strayed' = strayed /\ fatal' = fatal
  BY DEF Accept, streams, counts, Alive
<1> HIDE DEF f
<1>4. c \notin ctrlConns \cup dataConns /\ \A i \in 1..Len(doomed) : doomed[i] # c
  BY <1>1, <1>3 DEF Placed, Registered, Alive
<1>5. f # 0 /\ \A x \in Conn : fd'[x] = IF x = c THEN f ELSE fd[x]
  BY <1>1, <1>2, <1>3, Fds DEF ConnTypeOK
<1>6. Session(c) \in Workers /\ Session(c) \notin Due
  BY <1>1, <1>4, AgentFacts DEF Due, ConnTypeOK
<1>7. Sched(table', dep', runq', Due \cup {Session(c)})
  BY <1>1, <1>2, <1>3, <1>6, PutToSleep
<1>8. Due \cup {Session(c)} \subseteq Due'
  <2>1. job[c] = "idle"
    BY <1>1, <1>4 DEF Sourced
  <2> QED
    BY <1>3, <2>1 DEF Due, HasText
<1>9. Sched(table', dep', runq', Due')
  BY <1>7, <1>8, Widened
<1>10. ConnTypeOK'
  BY <1>1, <1>2, <1>3, Fds DEF ConnTypeOK
<1>11. Placed'
  <2>1. Registered'
    <3>1. {x \in Conn : Alive(x)}' = {x \in Conn : Alive(x)} \cup {c}
      BY <1>5 DEF Alive
    <3> QED
      BY <1>1, <1>3, <1>4, <3>1 DEF Placed, Registered
  <2>2. \A i \in 1..Len(doomed') : doomed'[i] \notin ctrlConns' \cup dataConns'
    BY <1>1, <1>3, <1>4 DEF Placed
  <2>3. \A x \in freed' : fd'[x] = 0
    BY <1>1, <1>3, <1>5 DEF Placed, ConnTypeOK
  <2>4. \A x, y \in Conn : fd'[x] = fd'[y] /\ fd'[x] # 0 => x = y
    BY <1>1, <1>2, <1>5 DEF Placed
  <2> QED
    BY <1>1, <1>3, <2>1, <2>2, <2>3, <2>4 DEF Placed
<1>12. DepsMutual'
  <2>1. \A y \in dataConns' : fd'[ctrl'[y]] # 0
    <3>1. \A y \in dataConns : ctrl[y] \in Conn /\ fd[ctrl[y]] # 0
      BY <1>1 DEF ConnTypeOK, DepsMutual, Alive
    <3> QED
      BY <1>3, <1>5, <3>1
  <2> QED
    BY <1>1, <1>3, <2>1 DEF DepsMutual, Alive
<1>13. Sourced'
  BY <1>1, <1>3 DEF Sourced, HasText
<1>14. \A g \in ready' \ {Listen} : table'[g] # Nobody
  BY <1>1, <1>3, <1>6, AgentFacts DEF Blocked, Sched, SchedType
<1> QED
  BY <1>1, <1>3, <1>9, <1>10, <1>11, <1>12, <1>13, <1>14, InvAfter

\* Whose turn it is when the loop comes to the next descriptor of rd_set.
LEMMA WakeUpTurns ==
  ASSUME TtscpInv, WakeUp
  PROVE  \/ \E c \in Conn : Accept(c)
         \/ \E f \in Fd : LET tb == [table EXCEPT ![f] = Nobody]
                            r == ready \ {f} IN
              \/ \E c \in Conn : /\ table[f] = Session(c) /\ SessionTurn(c, tb, runq, r)
                               /\ Command(c, tb, runq, r)
              \/ \E c \in Conn : /\ table[f] = Input(c) /\ InputTurn(c, tb, runq, r)
                               /\ Fetch(c, tb, runq, r, TRUE)
<1> DEFINE f == CHOOSE f \in ready : \A g \in ready : f <= g
           tb == [table EXCEPT ![f] = Nobody]
           r == ready \ {f}
<1>1. /\ ConnTypeOK /\ Placed /\ DepsMutual /\ Sourced /\ fatal = "no" /\ ready # {} /\ Running
      /\ Sched(table, dep, runq, Due) /\ Len(doomed) = Count(runq)
      /\ ready \in SUBSET (Fd \cup {Listen}) /\ \A g \in ready \ {Listen} : table[g] # Nobody
  BY DEF TtscpInv, WakeUp, Running, Disconnects, Count, Summonses, NoGhost, ConnTypeOK
<1>2. f \in ready
  BY <1>1, Least
<1>3. IF f = Listen THEN \E c \in Conn : Accept(c)
      ELSE \/ \E c \in Conn : table[f] = Session(c) /\ Command(c, tb, runq, r)
           \/ \E c \in Conn : table[f] = Input(c) /\ Fetch(c, tb, runq, r, TRUE)
  BY DEF WakeUp
<1> HIDE DEF f
<1>4. CASE f = Listen
  BY <1>3, <1>4
<1>5. CASE f # Listen
  <2>1. f \in Fd /\ table[f] # Nobody
    BY <1>1, <1>2, <1>5
  <2>2. Sched(tb, dep, runq, Due \ {table[f]})
    BY <1>1, <2>1, Roused
  <2>3. table[f] \in Workers /\ table[f] \in Due
    BY <1>1, <2>1 DEF Sched, SchedType, Holds
  <2>4. r \in SUBSET (Fd \cup {Listen}) /\ \A g \in r \ {Listen} : tb[g] # Nobody
    BY <1>1 DEF Sched, SchedType
  <2>5. ctrlConns \subseteq Conn
    BY <1>1 DEF ConnTypeOK
  <2> HIDE DEF tb, r
  <2>6. ASSUME NEW c \in Conn, table[f] = Session(c), Command(c, tb, runq, r)
        PROVE  SessionTurn(c, tb, runq, r)
    <3>1. c \in ctrlConns /\ job[c] = "idle"
      BY <2>3, <2>5, <2>6, AgentFacts DEF Due
    <3>2. fd[c] \in Fd
      BY <1>1, <3>1, Fds DEF Placed, Registered, Alive, ConnTypeOK
    <3> QED
      BY <1>1, <2>2, <2>4, <2>6, <3>1, <3>2 DEF SessionTurn, Turn
  <2>7. ASSUME NEW c \in Conn, table[f] = Input(c), Fetch(c, tb, runq, r, TRUE)
        PROVE  InputTurn(c, tb, runq, r)
    <3>1. HasText(c) \/ c \in relaxed
      BY <1>1, <2>3, <2>7, InputIsDue
    <3> QED
      BY <1>1, <2>2, <2>4, <2>7, <3>1 DEF InputTurn, Turn
  <2> QED
    BY <1>3, <1>5, <2>1, <2>6, <2>7 DEF tb, r
<1> QED
  BY <1>4, <1>5

LEMMA WakeUpPreserves == ASSUME TtscpInv, WakeUp PROVE TtscpInv'
<1>1. Running
  BY DEF WakeUp
<1> QED
  BY <1>1, WakeUpTurns, AcceptPreserves, CommandPreserves, FetchPreserves

LEMMA SelectPreserves == ASSUME TtscpInv, Select \/ SelectFails PROVE TtscpInv'
<1>1. /\ UNCHANGED <<tables, doomed, streams, counts, strayed, table, dep, runq>>
      /\ fatal' \in {fatal, "871"} /\ ready' \in SUBSET (Fd \cup {Listen})
      /\ \A f \in ready' \ {Listen} : table[f] # Nobody
  BY DEF Select, SelectFails, sched, Slept, Calling, TtscpInv, ConnTypeOK, NoGhost
<1>2. ConnTypeOK' /\ Sourced'
  BY <1>1 DEF TtscpInv, ConnTypeOK, Stuck, Sourced, HasText, tables, streams, counts
<1>3. Placed' /\ DepsMutual'
  BY <1>1, StreamsOnly DEF TtscpInv
<1>4. Due' = Due
  BY <1>1 DEF Due, HasText, tables, streams
<1>5. fatal' = "no" => Len(doomed') = Count(runq')
  BY <1>1 DEF TtscpInv, Disconnects, Count, Summonses
<1> QED
  BY <1>1, <1>2, <1>3, <1>4, <1>5, InvAfter DEF TtscpInv

LEMMA FinishPreserves == ASSUME TtscpInv, NEW c \in Conn, Finish(c) PROVE TtscpInv'
<1>1. /\ UNCHANGED <<tables, doomed, src, sock, relaxed, table, dep, ready, counts, strayed, fatal>>
      /\ job' = [job EXCEPT ![c] = "idle"] /\ runq' = Append(runq, Session(c)) /\ job[c] = "works"
  BY DEF Finish, Called
<1>2. /\ ConnTypeOK /\ Placed /\ DepsMutual /\ Sourced /\ NoGhost
      /\ Sched(table, dep, runq, Due) /\ (fatal = "no" => Len(doomed) = Count(runq))
  BY DEF TtscpInv, Disconnects, Count, Summonses
<1>3. \A x \in Conn : job'[x] = IF x = c THEN "idle" ELSE job[x]
  BY <1>1, <1>2 DEF ConnTypeOK
<1>4. ConnTypeOK'
  BY <1>1, <1>2 DEF ConnTypeOK, tables, counts
<1>5. Sourced'
  BY <1>1, <1>2, <1>3 DEF Sourced, HasText, tables
<1>6. Session(c) \in Workers /\ Session(c) \notin Due
  BY <1>1, <1>2, AgentFacts DEF Due, ConnTypeOK
<1>7. Sched(table', dep', runq', Due \cup {Session(c)})
  BY <1>1, <1>2, <1>6, Enqueued
<1>8. Due \cup {Session(c)} \subseteq Due'
  <2>1. ctrlConns' = ctrlConns /\ ctrlConns \subseteq Conn /\ c \in ctrlConns
    BY <1>1, <1>2 DEF ConnTypeOK, Sourced, tables
  <2> QED
    BY <1>1, <1>3, <2>1 DEF Due, HasText
<1>9. Sched(table', dep', runq', Due')
  BY <1>7, <1>8, Widened
<1>10. Count(runq') = Count(runq)
  BY <1>1, <1>2, <1>6, CountWorker DEF Sched, SchedType
<1>11. \A f \in ready' \ {Listen} : table'[f] # Nobody
  BY <1>1, <1>2 DEF NoGhost
<1> QED
  BY <1>1, <1>2, <1>4, <1>5, <1>9, <1>10, <1>11, StreamsOnly, InvAfter

LEMMA TtscpInvInit == ASSUME Init PROVE TtscpInv
<1>1. ConnTypeOK
  <2>1. /\ ctrlConns \subseteq Conn /\ dataConns \subseteq Conn /\ freed \subseteq Conn
        /\ ready \subseteq Fd \cup {Listen} /\ strayed \in BOOLEAN /\ relaxed \subseteq Conn
        /\ ~(relaxed # {} \/ fatal \in Stuck)
    BY DEF Init, Stuck
  <2>2. \A c \in Conn : src[c] = NoOne /\ sock[c] = 0
    BY DEF Init
  <2> QED
    BY <2>1, <2>2, TtscpAssumption, EmptySeq DEF Init, ConnTypeOK
<1>2. doomed = <<>> /\ runq = <<>> /\ Len(doomed) = 0 /\ Len(runq) = 0
  BY EmptySeq DEF Init
<1>3. Placed
  BY <1>2 DEF Init, Placed, Registered, Alive
<1>4. DepsMutual
  BY TtscpAssumption DEF Init, DepsMutual, NoOne
<1>5. Sourced
  BY DEF Init, Sourced, HasText
<1>6. Sched(table, dep, runq, Due)
  <2>1. SchedType(table, dep, runq)
    BY EmptySeq DEF Init, SchedType
  <2>2. \A a \in Agents : Len(dep[a]) = 0
    BY EmptySeq DEF Init
  <2>3. \A f \in Fd : table[f] = Nobody
    BY DEF Init
  <2>4. ASSUME NEW a \in Workers PROVE Single(a, table, dep, runq) /\ ~Holds(a, table, dep, runq)
    BY <1>2, <2>2, <2>3, AgentFacts DEF Single, Holds
  <2> QED
    BY <2>1, <2>4 DEF Sched
<1>7. NoGhost
  BY DEF Init, NoGhost
<1>8. Disconnects
  <2>1. {i \in 1..Len(runq) : runq[i] = Disconnector} = {}
    BY <1>2
  <2> QED
    BY <1>2, <2>1, FS_EmptySet DEF Disconnects
<1> QED
  BY <1>1, <1>3, <1>4, <1>5, <1>6, <1>7, <1>8 DEF TtscpInv

LEMMA TtscpInvStep == ASSUME TtscpInv, [Next]_vars PROVE TtscpInv'
<1>1. CASE UNCHANGED vars
  <2>1. UNCHANGED <<tables, doomed, streams, counts, strayed, table, dep, runq, ready, fatal>>
    BY <1>1 DEF vars, sched
  <2>2. ConnTypeOK' /\ Sourced'
    BY <2>1 DEF TtscpInv, ConnTypeOK, Sourced, HasText, tables, streams, counts
  <2>3. Placed' /\ DepsMutual'
    BY <2>1, StreamsOnly DEF TtscpInv
  <2>4. Due' = Due
    BY <2>1 DEF Due, HasText, tables, streams
  <2>5. fatal' = "no" => Len(doomed') = Count(runq')
    BY <2>1 DEF TtscpInv, Disconnects, Count, Summonses
  <2>6. \A f \in ready' \ {Listen} : table'[f] # Nobody
    BY <2>1 DEF TtscpInv, NoGhost
  <2> QED
    BY <2>1, <2>2, <2>3, <2>4, <2>5, <2>6, InvAfter DEF TtscpInv
<1> QED
  BY <1>1, DispatchPreserves, SelectPreserves, WakeUpPreserves, FinishPreserves DEF Next

\* Handles, attachments, descriptors, sleepers and the queue fit together, whatever is connected,
\* deleted, broken off and interrupted; an input agent without a text waits only since an intr
\* (agent.cc, ttscp.cc, daemon.cc).
THEOREM TtscpInvariant == Spec => []TtscpInv
<1> QED
  BY TtscpInvInit, TtscpInvStep, PTL DEF Spec

\* No table names what is gone, attachment is mutual, every connection that is to be deleted is
\* deleted once; an agent sleeps or is deleted where it waits only since an intr (a_ttscp::~a_ttscp, src/src/agent.cc:1081-1106; a_disconnector, 956-998;
\* close_and_invalidate, src/src/daemon.cc:368-382).
THEOREM TablesAgree == Spec => []Tables
<1>1. TtscpInv => Tables
  <2> SUFFICES ASSUME TtscpInv PROVE Tables
    OBVIOUS
  <2>1. \A a \in Waiting : a \in Workers => a \in Due
    <3>1. \A a \in Waiting : a \in Workers => Holds(a, table, dep, runq)
      BY DEF Waiting, Holds
    <3> QED
      BY <3>1 DEF TtscpInv, Sched
  <2>2. ctrlConns \subseteq Conn /\ relaxed \subseteq Conn
    BY DEF TtscpInv, ConnTypeOK
  <2>3. NoneBehind
    BY <2>1, <2>2, AgentFacts DEF NoneBehind, Due
  <2>4. SleepsOnce
    BY DEF SleepsOnce, TtscpInv, ConnTypeOK, Stuck
  <2> QED
    BY <2>3, <2>4 DEF TtscpInv, Tables, Placed
<1> QED
  BY <1>1, TtscpInvariant, PTL

-----------------------------------------------------------------------------
(* Clients that behave: they name in strm only data connections attached   *)
(* to theirs, announce no empty texts, close no data connections and       *)
(* interrupt no commands, and they do not use delh.  Then no agent ever    *)
(* waits for another, and what sleeps on a descriptor is the session or    *)
(* the stream that owns it.                                                *)

Behaved == OwnOnly /\ ~Empty /\ MaxDelh = 0 /\ MaxLoss = 0 /\ MaxIntr = 0

LEMMA NoneRelaxed ==
  ASSUME Behaved, ConnTypeOK
  PROVE  relaxed = {} /\ ~(intrs < MaxIntr)
BY DEF Behaved, ConnTypeOK

\* A stream's connection is open, attached to the stream's, and what the stream calls its socket.
OwnStreams ==
  \A c \in Conn : src[c] # NoOne => src[c] \in dataConns /\ ctrl[src[c]] = c /\ sock[c] = fd[src[c]]

AtOwn(tb) ==
  \A f \in Fd, c \in Conn : (tb[f] = Session(c) => fd[c] = f) /\ (tb[f] = Input(c) => sock[c] = f)

Unqueued(q) == \A i \in 1..Len(q), c \in Conn : q[i] # Input(c)
Unchained   == \A a \in Agents : dep[a] = <<>>

\* The same for the table and the queue in the middle of a turn.
CalmWith(tb, q) ==
  /\ OwnStreams /\ AtOwn(tb) /\ Unqueued(q) /\ Unchained
  /\ \A c \in Conn : job[c] # "empty"
  /\ ~strayed

Calm == CalmWith(table, runq) /\ fatal \in {"no", "800"}

LEMMA PartedCalmly ==
  ASSUME dep \in [Agents -> Seq(Workers)], Unchained, NEW D
  PROVE  Parted(D) = dep
<1>1. Parted(D) = [a \in Agents |-> <<>>]
  BY DEF Parted, Unchained
<1>2. dep = [a \in Agents |-> <<>>]
  BY DEF Unchained
<1> QED
  BY <1>1, <1>2

\* A timeslice ends and nobody has waited for its end.
LEMMA EndsCalmly ==
  ASSUME NEW tb, NEW dp \in [Agents -> Seq(Workers)], NEW q \in Seq(Agents), NEW s \in Agents,
         \A a \in Agents : dp[a] = <<>>, Ends(s, tb, dp, q)
  PROVE  table' = tb /\ runq' = q /\ Unchained'
<1>1. dp[s] = <<>> /\ table' = tb /\ dep' = [dp EXCEPT ![s] = <<>>] /\ runq' = q \o dp[s]
  BY DEF Ends
<1>2. q \o <<>> = q
  BY ConcatEmptySeq
<1> QED
  BY <1>1, <1>2 DEF Unchained

\* An agent goes to sleep where nobody sleeps.
LEMMA SleepsCalmly ==
  ASSUME NEW tb \in [Fd -> Workers \cup {Nobody}], dep \in [Agents -> Seq(Workers)], NEW q \in Seq(Agents),
         NEW s \in Agents, NEW a \in Workers, NEW f \in Fd, tb[f] = Nobody, Unchained,
         Sleeps(s, a, f, tb, dep, q)
  PROVE  table' = [tb EXCEPT ![f] = a] /\ runq' = q /\ Unchained' /\ fatal' = fatal
<1>1. a # Nobody
  BY AgentFacts
<1>2. Blocked(a, f, tb) = [tb EXCEPT ![f] = a] /\ Chained(s, a, f, tb, dep) = dep /\ ~Resleeps(a, f, tb)
  BY <1>1 DEF Blocked, Chained, Resleeps
<1>3. Ends(s, [tb EXCEPT ![f] = a], dep, q) /\ fatal' = fatal
  BY <1>2 DEF Sleeps
<1> QED
  BY <1>3, EndsCalmly DEF Unchained

LEMMA UnqueuedAppend ==
  ASSUME NEW q \in Seq(Agents), NEW a \in Agents, Unqueued(q), \A c \in Conn : a # Input(c)
  PROVE  Unqueued(Append(q, a)) /\ Append(q, a) \in Seq(Agents)
<1>1. /\ Append(q, a) \in Seq(Agents) /\ Len(q) \in Nat /\ Len(Append(q, a)) = Len(q) + 1
      /\ \A i \in 1..Len(q) : Append(q, a)[i] = q[i]
      /\ Append(q, a)[Len(q) + 1] = a
  BY AppendFacts
<1>2. \A i \in 1..Len(Append(q, a)) : i \in 1..Len(q) \/ i = Len(q) + 1
  BY <1>1
<1> QED
  BY <1>1, <1>2 DEF Unqueued

\* Nobody sleeps on the descriptor of a session whose turn it is.
LEMMA OwnFree ==
  ASSUME NEW c \in Conn, NEW tb, NEW q, NEW r, SessionTurn(c, tb, q, r), OwnStreams, AtOwn(tb)
  PROVE  tb[fd[c]] = Nobody
<1>1. /\ ConnTypeOK /\ Placed /\ Sched(tb, dep, q, Due \ {Session(c)}) /\ c \in ctrlConns /\ fd[c] \in Fd
  BY DEF SessionTurn, Turn
<1>2. fd[c] # 0
  BY <1>1, Fds
<1>3. tb[fd[c]] \in Workers \cup {Nobody}
  BY <1>1 DEF Sched, SchedType
<1>4. tb[fd[c]] # Session(c)
  BY <1>1, Absent, AgentFacts
<1>5. ASSUME NEW d \in Conn, tb[fd[c]] = Session(d) PROVE FALSE
  <2>1. fd[d] = fd[c]
    BY <1>1, <1>5 DEF AtOwn
  <2>2. d = c
    BY <1>1, <1>2, <2>1 DEF Placed
  <2> QED
    BY <1>4, <1>5, <2>2
<1>6. ASSUME NEW d \in Conn, tb[fd[c]] = Input(d) PROVE FALSE
  <2>1. sock[d] = fd[c]
    BY <1>1, <1>6 DEF AtOwn
  <2>2. src[d] # NoOne
    BY <1>1, <1>2, <2>1 DEF ConnTypeOK
  <2>3. src[d] \in dataConns /\ fd[src[d]] = fd[c]
    BY <2>1, <2>2 DEF OwnStreams
  <2>4. src[d] = c
    BY <1>1, <1>2, <2>3 DEF Placed, ConnTypeOK
  <2> QED
    BY <1>1, <2>3, <2>4 DEF Placed, Registered
<1> QED
  BY <1>3, <1>5, <1>6, AgentFacts

\* A session goes on after a command.
LEMMA ContinuesCalmly ==
  ASSUME NEW c \in Conn, NEW tb, NEW q, NEW r, SessionTurn(c, tb, q, r), CalmWith(tb, q), Continues(c, tb, dep, q)
  PROVE  /\ Unqueued(runq') /\ Unchained' /\ fatal' = fatal
         /\ \A f \in Fd : table'[f] = tb[f] \/ (table'[f] = Session(c) /\ f = fd[c])
<1>1. /\ tb \in [Fd -> Workers \cup {Nobody}] /\ dep \in [Agents -> Seq(Workers)] /\ q \in Seq(Agents)
      /\ fd[c] \in Fd /\ Unchained /\ Unqueued(q)
  BY DEF SessionTurn, Turn, Sched, SchedType, CalmWith
<1>2. tb[fd[c]] = Nobody
  BY OwnFree DEF CalmWith
<1>3. Session(c) \in Workers /\ Session(c) \in Agents /\ \A d \in Conn : Session(c) # Input(d)
  BY AgentFacts
<1>4. CASE Ends(Session(c), tb, dep, Append(q, Session(c))) /\ fatal' = fatal
  <2>1. Unqueued(Append(q, Session(c))) /\ Append(q, Session(c)) \in Seq(Agents)
    BY <1>1, <1>3, UnqueuedAppend
  <2>2. \A a \in Agents : dep[a] = <<>>
    BY <1>1 DEF Unchained
  <2>3. table' = tb /\ runq' = Append(q, Session(c)) /\ Unchained'
    BY <1>1, <1>3, <1>4, <2>1, <2>2, EndsCalmly
  <2> QED
    BY <1>4, <2>1, <2>3 DEF Unqueued
<1>5. CASE Sleeps(Session(c), Session(c), fd[c], tb, dep, q)
  <2>1. table' = [tb EXCEPT ![fd[c]] = Session(c)] /\ runq' = q /\ Unchained' /\ fatal' = fatal
    BY <1>1, <1>2, <1>3, <1>5, SleepsCalmly
  <2> QED
    BY <1>1, <2>1 DEF Unqueued
<1> QED
  BY <1>4, <1>5 DEF Continues

\* What the turn of a session has to leave.
LEMMA CalmAfter ==
  ASSUME NEW tb, NEW q, CalmWith(tb, q), OwnStreams', AtOwn(table'), Unqueued(runq'), Unchained',
         \A c \in Conn : job'[c] # "empty", strayed' = strayed, fatal' \in {"no", "800"},
         fd' = fd, sock' = sock
  PROVE  Calm'
<1>1. AtOwn(table)' /\ Unqueued(runq)'
  BY DEF AtOwn, Unqueued
<1> QED
  BY <1>1 DEF Calm, CalmWith

LEMMA TurnFacts ==
  ASSUME Behaved, NEW c \in Conn, NEW tb, NEW q, NEW r, SessionTurn(c, tb, q, r), CalmWith(tb, q)
  PROVE  /\ ConnTypeOK /\ Placed /\ DepsMutual /\ Sourced /\ fatal = "no"
         /\ c \in ctrlConns /\ job[c] = "idle" /\ fd[c] \in Fd
         /\ tb \in [Fd -> Workers \cup {Nobody}] /\ dep \in [Agents -> Seq(Workers)] /\ q \in Seq(Agents)
         /\ \A f \in Fd : tb[f] # Session(c) /\ tb[f] # Input(c)
         /\ OwnStreams /\ AtOwn(tb) /\ Unqueued(q) /\ Unchained /\ (\A a \in Agents : dep[a] = <<>>)
<1>1. Sched(tb, dep, q, Due \ {Session(c)}) /\ c \in ctrlConns /\ job[c] = "idle" /\ fd[c] \in Fd
  BY DEF SessionTurn, Turn
<1>2. Input(c) \notin Due
  <2>1. relaxed = {} /\ ctrlConns \subseteq Conn
    BY NoneRelaxed DEF SessionTurn, Turn, ConnTypeOK
  <2> QED
    BY <1>1, <2>1, AgentFacts DEF Due, HasText
<1>3. \A f \in Fd : tb[f] # Session(c) /\ tb[f] # Input(c)
  BY <1>1, <1>2, Absent, AgentFacts
<1> QED
  BY <1>1, <1>3 DEF SessionTurn, Turn, Sched, SchedType, CalmWith, Unchained

LEMMA QuitCalmly ==
  ASSUME Behaved, NEW c \in Conn, NEW tb, NEW q, NEW r, SessionTurn(c, tb, q, r), CalmWith(tb, q), Quit(c, tb, q)
  PROVE  Calm'
<1>1. Unqueued(Append(q, Disconnector)) /\ Append(q, Disconnector) \in Seq(Agents)
  BY TurnFacts, UnqueuedAppend, AgentFacts DEF Workers
<1>2. Session(c) \in Agents
  BY AgentFacts
<1>3. table' = tb /\ runq' = Append(q, Disconnector) /\ Unchained'
  BY <1>1, <1>2, TurnFacts, EndsCalmly DEF Quit, Summoned
<1>4. UNCHANGED <<dataConns, fd, ctrl, src, sock, job, strayed, fatal>>
  BY DEF Quit, streams
<1>5. OwnStreams'
  BY <1>4, TurnFacts DEF OwnStreams
<1>6. AtOwn(table') /\ Unqueued(runq')
  BY <1>1, <1>3, TurnFacts DEF AtOwn, Unqueued
<1> QED
  BY <1>3, <1>4, <1>5, <1>6, TurnFacts, CalmAfter DEF CalmWith

LEMMA HarmlessCalmly ==
  ASSUME Behaved, NEW c \in Conn, NEW tb, NEW q, NEW r, SessionTurn(c, tb, q, r), CalmWith(tb, q), Harmless(c, tb, q)
  PROVE  Calm'
<1>1. UNCHANGED <<tables, streams, strayed>> /\ Continues(c, tb, dep, q)
  BY DEF Harmless
<1>2. UNCHANGED <<dataConns, fd, ctrl, src, sock, job, strayed>>
  BY <1>1 DEF streams, tables
<1>3. /\ Unqueued(runq') /\ Unchained' /\ fatal' = fatal
      /\ \A f \in Fd : table'[f] = tb[f] \/ (table'[f] = Session(c) /\ f = fd[c])
  BY <1>1, ContinuesCalmly
<1>4. OwnStreams'
  BY <1>2, TurnFacts DEF OwnStreams
<1>5. AtOwn(table')
  BY <1>3, TurnFacts, AgentFacts DEF AtOwn
<1> QED
  BY <1>2, <1>3, <1>4, <1>5, TurnFacts, CalmAfter DEF CalmWith

\* A command that gives the session another stream, or none.
LEMMA RestreamedCalmly ==
  ASSUME Behaved, NEW c \in Conn, NEW tb, NEW q, NEW r, SessionTurn(c, tb, q, r), CalmWith(tb, q),
         Continues(c, tb, dep, q), UNCHANGED <<tables, strayed>>, job' = [job EXCEPT ![c] = "idle"],
         \A d \in Conn \ {c} : src'[d] = src[d] /\ sock'[d] = sock[d],
         src'[c] # NoOne => src'[c] \in dataConns /\ ctrl[src'[c]] = c /\ sock'[c] = fd[src'[c]]
  PROVE  Calm'
<1>1. UNCHANGED <<dataConns, fd, ctrl, strayed>>
  BY DEF tables
<1>2. /\ Unqueued(runq') /\ Unchained' /\ fatal' = fatal
      /\ \A f \in Fd : table'[f] = tb[f] \/ (table'[f] = Session(c) /\ f = fd[c])
  BY ContinuesCalmly
<1>3. OwnStreams'
  BY <1>1, TurnFacts DEF OwnStreams
<1>4. AtOwn(table)'
  <2> SUFFICES ASSUME NEW f \in Fd, NEW d \in Conn
               PROVE  (table'[f] = Session(d) => fd[d] = f) /\ (table'[f] = Input(d) => sock'[d] = f)
    BY <1>1 DEF AtOwn
  <2>1. (tb[f] = Session(d) => fd[d] = f) /\ (tb[f] = Input(d) => sock[d] = f)
    BY TurnFacts DEF AtOwn
  <2>2. tb[f] # Input(c) /\ Session(c) # Input(d) /\ (Session(c) = Session(d) => c = d)
    BY TurnFacts, AgentFacts
  <2>3. d = c \/ sock'[d] = sock[d]
    OBVIOUS
  <2> QED
    BY <1>2, <2>1, <2>2, <2>3
<1>5. \A d \in Conn : job'[d] # "empty"
  BY TurnFacts DEF CalmWith, ConnTypeOK
<1>6. Unqueued(runq)'
  BY <1>2 DEF Unqueued
<1> QED
  BY <1>1, <1>2, <1>3, <1>4, <1>5, <1>6, TurnFacts DEF Calm, CalmWith

LEMMA StrmCalmly ==
  ASSUME Behaved, OwnOnly, NEW c \in Conn, NEW tb, NEW q, NEW r, SessionTurn(c, tb, q, r), CalmWith(tb, q),
         Strm(c, tb, q) \/ StrmFails(c, tb, q)
  PROVE  Calm'
<1>1. UNCHANGED <<tables, strayed>> /\ job' = [job EXCEPT ![c] = "idle"] /\ Continues(c, tb, dep, q)
  <2>1. Parted({c}) = dep
    BY TurnFacts, PartedCalmly
  <2> QED
    BY <2>1 DEF Strm, StrmFails
<1>2. src \in [Conn -> Conn \cup {NoOne}] /\ sock \in [Conn -> 0..MaxFd]
  BY TurnFacts DEF ConnTypeOK
<1>3. CASE Strm(c, tb, q)
  <2>1. PICK d \in dataConns : /\ ctrl[d] = c
                               /\ src' = [src EXCEPT ![c] = d] /\ sock' = [sock EXCEPT ![c] = fd[d]]
    BY <1>3 DEF Strm, SockOf
  <2> QED
    BY <1>1, <1>2, <2>1, RestreamedCalmly
<1>4. CASE StrmFails(c, tb, q)
  <2>1. src' = [src EXCEPT ![c] = NoOne] /\ sock' = [sock EXCEPT ![c] = 0]
    BY <1>4 DEF StrmFails, NoSock
  <2> QED
    BY <1>1, <1>2, <2>1, RestreamedCalmly
<1> QED
  BY <1>3, <1>4

\* Nobody sleeps on the descriptor of a stream that does not read.
LEMMA StreamFree ==
  ASSUME NEW c \in Conn, NEW tb, tb \in [Fd -> Workers \cup {Nobody}], OwnStreams, AtOwn(tb),
         ConnTypeOK, Placed, DepsMutual, sock[c] # 0,
         \A d \in Conn, f \in Fd : tb[f] = Session(d) => d \in ctrlConns,
         \A f \in Fd : tb[f] # Input(c)
  PROVE  sock[c] \in Fd /\ tb[sock[c]] = Nobody
<1>1. sock[c] \in Fd
  BY Fds DEF ConnTypeOK
<1>2. src[c] \in dataConns /\ ctrl[src[c]] = c /\ sock[c] = fd[src[c]] /\ src[c] \in Conn
  BY DEF OwnStreams, ConnTypeOK
<1>3. ASSUME NEW d \in Conn, tb[sock[c]] = Session(d) PROVE FALSE
  <2>1. fd[d] = fd[src[c]] /\ d \in ctrlConns
    BY <1>1, <1>2, <1>3 DEF AtOwn
  <2>2. d = src[c]
    BY <1>2, <2>1 DEF Placed
  <2> QED
    BY <1>2, <2>1, <2>2 DEF Placed, Registered
<1>4. ASSUME NEW d \in Conn, tb[sock[c]] = Input(d) PROVE FALSE
  <2>1. sock[d] = sock[c]
    BY <1>1, <1>4 DEF AtOwn
  <2>2. src[d] \in dataConns /\ ctrl[src[d]] = d /\ fd[src[d]] = fd[src[c]] /\ src[d] \in Conn
    BY <1>2, <2>1 DEF OwnStreams, ConnTypeOK
  <2>3. src[d] = src[c]
    BY <1>2, <2>2 DEF Placed
  <2>4. d = c
    BY <1>2, <2>2, <2>3
  <2> QED
    BY <1>1, <1>4, <2>4
<1> QED
  BY <1>1, <1>3, <1>4, AgentFacts

LEMMA ApplCalmly ==
  ASSUME Behaved, NEW c \in Conn, NEW tb, NEW q, NEW r, SessionTurn(c, tb, q, r), CalmWith(tb, q), Appl(c, tb, q)
  PROVE  Calm'
<1>0. ~Waits(Input(c), tb, q)
  <2>1. ~Named({c}, tb, q)
    <3>1. {c} \subseteq Conn /\ (\A x \in {c} : ~HasText(x)) /\ Due \ {Session(c)} \subseteq Due
      BY OwnTurn DEF HasText
    <3> QED
      BY <3>1, OwnTurn, NoneRelaxed, WaitsSinceIntr
  <2> QED
    BY <2>1 DEF Named
<1>1. /\ sock[c] # 0 /\ job' = [job EXCEPT ![c] = "reads"]
      /\ Sleeps(Session(c), Input(c), sock[c], tb, dep, q)
      /\ UNCHANGED <<dataConns, fd, ctrl, src, sock, strayed>>
  BY <1>0 DEF Appl, AfterWait, Behaved, tables
<1>2. \A d \in Conn, f \in Fd : tb[f] = Session(d) => d \in ctrlConns
  <2>1. ctrlConns \subseteq Conn
    BY TurnFacts DEF ConnTypeOK
  <2>2. Sched(tb, dep, q, Due \ {Session(c)})
    BY DEF SessionTurn, Turn
  <2>3. \A d \in Conn, f \in Fd : tb[f] = Session(d) => Session(d) \in Due
    BY <2>2, AgentFacts DEF Sched, Holds
  <2> QED
    BY <2>1, <2>3, AgentFacts DEF Due
<1>3. sock[c] \in Fd /\ tb[sock[c]] = Nobody
  BY <1>1, <1>2, TurnFacts, StreamFree
<1>4. Session(c) \in Agents /\ Input(c) \in Workers
  BY AgentFacts
<1>5. table' = [tb EXCEPT ![sock[c]] = Input(c)] /\ runq' = q /\ Unchained' /\ fatal' = fatal
  BY <1>1, <1>3, <1>4, TurnFacts, SleepsCalmly
<1>6. OwnStreams'
  BY <1>1, TurnFacts DEF OwnStreams
<1>7. AtOwn(table')
  BY <1>3, <1>5, TurnFacts, AgentFacts DEF AtOwn
<1>8. \A d \in Conn : job'[d] # "empty"
  BY <1>1, TurnFacts DEF CalmWith, ConnTypeOK
<1>9. Unqueued(runq')
  BY <1>5, TurnFacts DEF Unqueued
<1> QED
  BY <1>1, <1>5, <1>6, <1>7, <1>8, <1>9, TurnFacts, CalmAfter

LEMMA DataCalmly ==
  ASSUME Behaved, NEW c \in Conn, NEW tb, NEW q, NEW r, SessionTurn(c, tb, q, r), CalmWith(tb, q), Data(c, tb, q)
  PROVE  Calm'
<1>1. PICK p \in ctrlConns \ {c} : ctrl' = [ctrl EXCEPT ![c] = p]
  BY DEF Data
<1>2. dataConns' = dataConns \cup {c} /\ UNCHANGED <<fd, src, sock, job, strayed, fatal>> /\ Ends(Session(c), tb, dep, q)
  BY DEF Data, AfterWait, streams
<1>3. Session(c) \in Agents
  BY AgentFacts
<1>4. table' = tb /\ runq' = q /\ Unchained'
  BY <1>2, <1>3, TurnFacts, EndsCalmly
<1>5. OwnStreams'
  <2>1. c \notin dataConns /\ ctrl \in [Conn -> Conn \cup {NoOne}] /\ dataConns \subseteq Conn
    BY TurnFacts DEF Placed, Registered, ConnTypeOK
  <2>2. \A d \in dataConns : ctrl'[d] = ctrl[d]
    BY <1>1, <2>1
  <2> QED
    BY <1>2, <2>2, TurnFacts DEF OwnStreams
<1>6. AtOwn(table') /\ Unqueued(runq')
  BY <1>4, TurnFacts DEF AtOwn, Unqueued
<1>7. (\A d \in Conn : job'[d] # "empty") /\ fatal' \in {"no", "800"}
  BY <1>2, TurnFacts DEF CalmWith
<1> QED
  BY <1>2, <1>4, <1>5, <1>6, <1>7, CalmAfter

LEMMA DownCalmly ==
  ASSUME Behaved, NEW c \in Conn, NEW tb, NEW q, NEW r, SessionTurn(c, tb, q, r), CalmWith(tb, q), Down(c, tb, q)
  PROVE  Calm'
<1>1. /\ fatal' = "800" /\ Ends(Session(c), tb, dep, q)
      /\ UNCHANGED <<dataConns, fd, ctrl, src, sock, job, strayed>>
  BY DEF Down, tables, streams
<1>2. Session(c) \in Agents
  BY AgentFacts
<1>3. table' = tb /\ runq' = q /\ Unchained'
  BY <1>1, <1>2, TurnFacts, EndsCalmly
<1>4. OwnStreams' /\ \A d \in Conn : job'[d] # "empty"
  BY <1>1, TurnFacts DEF OwnStreams, CalmWith
<1>5. AtOwn(table') /\ Unqueued(runq')
  BY <1>3, TurnFacts DEF AtOwn, Unqueued
<1> QED
  BY <1>1, <1>3, <1>4, <1>5, CalmAfter

LEMMA CommandCalmly ==
  ASSUME Behaved, NEW c \in Conn, NEW tb, NEW q, NEW r, SessionTurn(c, tb, q, r), CalmWith(tb, q),
         Command(c, tb, q, r)
  PROVE  Calm' /\ dataConns \subseteq dataConns'
<1>1. ~Delh(c, tb, q, r)
  <2>1. delhs = 0
    BY TurnFacts DEF ConnTypeOK, Behaved
  <2> QED
    BY <2>1 DEF Delh, Behaved
<1>2. \/ Quit(c, tb, q) \/ Harmless(c, tb, q) \/ Strm(c, tb, q) \/ StrmFails(c, tb, q)
      \/ Appl(c, tb, q) \/ Data(c, tb, q) \/ Down(c, tb, q)
  <2>1. ~Intr(c, tb, q)
    BY TurnFacts, NoneRelaxed DEF Intr
  <2>2. ~StrmOfNamed(c, tb, q)
    <3>1. {c} \subseteq Conn /\ (\A x \in {c} : ~HasText(x)) /\ Due \ {Session(c)} \subseteq Due
      BY OwnTurn DEF HasText
    <3> QED
      BY <3>1, OwnTurn, NoneRelaxed, WaitsSinceIntr DEF StrmOfNamed
  <2> QED
    BY <1>1, <2>1, <2>2 DEF Command
<1>3. dataConns \subseteq dataConns'
  BY <1>2 DEF Quit, Harmless, Strm, StrmFails, Appl, Data, Down, tables
<1>4. Calm'
  BY <1>2, QuitCalmly, HarmlessCalmly, StrmCalmly, ApplCalmly, DataCalmly, DownCalmly DEF Behaved
<1> QED
  BY <1>3, <1>4

\* The stream finds its connection open, with something to read.
LEMMA FetchCalmly ==
  ASSUME Behaved, NEW c \in Conn, NEW tb, NEW q, NEW r, InputTurn(c, tb, q, r), CalmWith(tb, q),
         tb[sock[c]] = Nobody, Fetch(c, tb, q, r, TRUE)
  PROVE  Calm' /\ dataConns' = dataConns
<1>0. HasText(c) /\ relaxed = {}
  <2>1. relaxed = {}
    BY InputsTurn, NoneRelaxed
  <2> QED
    BY <2>1 DEF InputTurn
<1>1. /\ ConnTypeOK /\ Placed /\ DepsMutual /\ fatal = "no" /\ sock[c] \in Fd /\ src[c] \in Conn
      /\ job[c] # "empty" /\ OwnStreams /\ AtOwn(tb) /\ Unqueued(q) /\ Unchained
      /\ tb \in [Fd -> Workers \cup {Nobody}] /\ dep \in [Agents -> Seq(Workers)] /\ q \in Seq(Agents)
  BY <1>0, InputFacts DEF CalmWith, Sched, SchedType
<1>2. sock[c] = fd[src[c]] /\ sock[c] # 0
  <2>1. src[c] # NoOne
    BY <1>1, TtscpAssumption DEF NoOne
  <2> QED
    BY <1>1, <2>1, Fds DEF OwnStreams
<1>3. Owner(sock[c]) = {src[c]}
  BY <1>1, <1>2 DEF Owner, Alive, Placed
<1>4. ~Loss(c, TRUE)
  <2>1. ~Closed(sock[c]) /\ ~(losses < MaxLoss)
    BY <1>1, <1>3 DEF Closed, ConnTypeOK, Behaved
  <2> QED
    BY <1>1, <2>1 DEF Loss, NothingRead
<1>5. Reads(c, tb, q)
  <2>1. ~Shrugs(c, tb, q)
    BY <1>0 DEF Shrugs
  <2>2. Alive(src[c])
    BY <1>2 DEF Alive
  <2>3. ~Named(Below(src[c]), Invalidated(tb, Below(src[c])), q)
    <3> DEFINE t == Invalidated(tb, Below(src[c]))
    <3>1. src[c] \in Conn /\ src[c] \notin ctrlConns
      <4>1. src[c] \in dataConns /\ ctrlConns \cap dataConns = {}
        BY <1>1, TtscpAssumption DEF OwnStreams, Placed, Registered, NoOne
      <4> QED
        BY <1>1, <4>1
    <3>2. Sched(t, dep, q, Due \ {Input(c)})
      BY InputsTurn, TableCut
    <3> HIDE DEF t
    <3>3. Due \ {Input(c)} \subseteq Due
      OBVIOUS
    <3>4. ~Named(Below(src[c]), t, q)
      BY <1>0, <3>1, <3>2, <3>3, InputsTurn, DeletedSinceIntr
    <3> QED
      BY <3>4 DEF t
  <2> QED
    BY <1>4, <2>1, <2>2, <2>3 DEF Fetch, Nested, Loses
<1>6. UNCHANGED <<dataConns, fd, ctrl, src, sock>> /\ strayed' = strayed
  <2>1. UNCHANGED <<dataConns, fd, ctrl, src, sock>> /\ strayed' = (strayed \/ Owner(sock[c]) # {src[c]})
    BY <1>5 DEF Reads, tables
  <2>2. strayed \in BOOLEAN
    BY <1>1 DEF ConnTypeOK
  <2> QED
    BY <1>3, <2>1, <2>2
<1>7. Input(c) \in Workers /\ Input(c) \in Agents /\ \A d \in Conn : Input(c) # Session(d)
  BY AgentFacts
<1>8. CASE Sleeps(Input(c), Input(c), sock[c], tb, dep, q) /\ job' = job
  <2>1. table' = [tb EXCEPT ![sock[c]] = Input(c)] /\ runq' = q /\ Unchained' /\ fatal' = fatal
    BY <1>1, <1>7, <1>8, SleepsCalmly
  <2>2. AtOwn(table')
    BY <1>1, <1>7, <2>1, AgentFacts DEF AtOwn
  <2>3. OwnStreams' /\ Unqueued(runq')
    BY <1>1, <1>6, <2>1 DEF OwnStreams, Unqueued
  <2>4. (\A d \in Conn : job'[d] # "empty") /\ fatal' \in {"no", "800"}
    BY <1>1, <1>8, <2>1 DEF CalmWith
  <2> QED
    BY <1>6, <2>1, <2>2, <2>3, <2>4, CalmAfter
<1>9. CASE Ends(Input(c), tb, dep, q) /\ fatal' = fatal /\ job' = [job EXCEPT ![c] = "works"]
  <2>1. \A a \in Agents : dep[a] = <<>>
    BY <1>1 DEF Unchained
  <2>2. table' = tb /\ runq' = q /\ Unchained'
    BY <1>1, <1>7, <1>9, <2>1, EndsCalmly
  <2>3. OwnStreams' /\ Unqueued(runq') /\ AtOwn(table')
    BY <1>1, <1>6, <2>2 DEF OwnStreams, Unqueued, AtOwn
  <2>4. (\A d \in Conn : job'[d] # "empty") /\ fatal' \in {"no", "800"}
    BY <1>1, <1>9 DEF CalmWith, ConnTypeOK
  <2> QED
    BY <1>6, <2>2, <2>3, <2>4, CalmAfter
<1> QED
  BY <1>5, <1>6, <1>8, <1>9 DEF Reads

\* A connection is deleted with all that are attached to it, and no session or stream that
\* stays names one of those.
LEMMA DisconnectCalmly ==
  ASSUME Behaved, TtscpInv, fatal = "no", ready = {}, NEW q, Sched(table, dep, q, Due), CalmWith(table, q),
         Len(doomed) = Count(q) + 1, Disconnect(q)
  PROVE  Calm' /\ \A d \in dataConns \ dataConns' : ctrl[d] \in freed'
<1> DEFINE c == Last(doomed)
           D == Below(c)
           t == Invalidated(table, D)
<1>1. ConnTypeOK /\ Placed /\ DepsMutual /\ Sourced /\ doomed \in Seq(Conn)
  BY DEF TtscpInv, ConnTypeOK
<1>2. /\ table \in [Fd -> Workers \cup {Nobody}] /\ dep \in [Agents -> Seq(Workers)] /\ q \in Seq(Agents)
      /\ OwnStreams /\ AtOwn(table) /\ Unqueued(q) /\ Unchained /\ \A a \in Agents : dep[a] = <<>>
  BY DEF CalmWith, Sched, SchedType, Unchained
<1>3. doomed # <<>>
  BY <1>2, SummonsesFinite, EmptySeq
<1>5. c \in Conn /\ c \notin ctrlConns \cup dataConns
  <2>1. c = doomed[Len(doomed)] /\ c \in Conn /\ Len(doomed) \in 1..Len(doomed)
    BY <1>1, <1>3, FrontFacts
  <2> QED
    BY <1>1, <2>1 DEF Placed
<1>4. /\ Delete(c, ready) /\ Ends(Disconnector, t, dep, q) /\ UNCHANGED <<job, fatal, strayed>>
  <2>1. Sched(t, dep, q, Due)
    BY TableCut
  <2>2. ~Named(D, t, q)
    <3>1. Due \subseteq Due /\ c \notin ctrlConns /\ relaxed = {}
      BY <1>1, <1>5, NoneRelaxed
    <3> HIDE DEF c, t
    <3> QED
      BY <1>1, <1>5, <2>1, <3>1, DeletedSinceIntr
  <2>3. Parted(D) = dep
    BY <1>2, PartedCalmly
  <2> QED
    BY <1>3, <2>2, <2>3 DEF Disconnect
<1>6. /\ D \subseteq Conn /\ c \in D /\ \A x \in D : deps[x] \subseteq D
      /\ \A x \in D \ {c} : x \in dataConns /\ ctrl[x] \in D
  BY <1>1, <1>5, BelowFacts
<1>7. D \cap ctrlConns = {}
  BY <1>1, <1>5, <1>6 DEF Placed, Registered
<1>8. /\ freed' = freed \cup D /\ dataConns' = dataConns \ D
      /\ \A x \in Conn : /\ ctrl'[x] = IF x \in D THEN NoOne ELSE ctrl[x]
                         /\ fd'[x] = IF x \in D THEN 0 ELSE fd[x]
                         /\ src'[x] = IF x \in D THEN NoOne ELSE src[x]
                         /\ sock'[x] = IF x \in D THEN 0 ELSE sock[x]
  BY <1>4 DEF Delete
<1>9. t \in [Fd -> Workers \cup {Nobody}] /\ \A f \in Fd : t[f] \in {Nobody, table[f]}
  BY <1>2 DEF Invalidated
<1> HIDE DEF c, D, t
<1>10. table' = t /\ runq' = q /\ Unchained'
  BY <1>2, <1>4, AgentFacts, EndsCalmly
<1>11. OwnStreams'
  <2> SUFFICES ASSUME NEW x \in Conn, src'[x] # NoOne
               PROVE  src'[x] \in dataConns' /\ ctrl'[src'[x]] = x /\ sock'[x] = fd'[src'[x]]
    BY DEF OwnStreams
  <2>1. x \notin D /\ src'[x] = src[x] /\ sock'[x] = sock[x]
    BY <1>8
  <2>2. src[x] \in dataConns /\ ctrl[src[x]] = x /\ sock[x] = fd[src[x]] /\ src[x] \in Conn
    BY <1>1, <1>2, <2>1 DEF OwnStreams, ConnTypeOK
  <2>3. src[x] \notin D
    BY <1>5, <1>6, <2>1, <2>2
  <2> QED
    BY <1>8, <2>1, <2>2, <2>3
<1>12. AtOwn(table)'
  <2> SUFFICES ASSUME NEW f \in Fd, NEW x \in Conn
               PROVE  (table'[f] = Session(x) => fd'[x] = f) /\ (table'[f] = Input(x) => sock'[x] = f)
    BY DEF AtOwn
  <2>1. table'[f] # Nobody => table'[f] = table[f]
    BY <1>9, <1>10
  <2>2. (table[f] = Session(x) => fd[x] = f) /\ (table[f] = Input(x) => sock[x] = f)
    BY <1>2 DEF AtOwn
  <2>3. table[f] = Session(x) \/ table[f] = Input(x) => x \in ctrlConns
    <3>1. ctrlConns \subseteq Conn /\ relaxed = {} /\ \A y \in Conn : HasText(y) => y \in ctrlConns
      BY <1>1, NoneRelaxed DEF ConnTypeOK, Sourced, HasText
    <3>2. \A a \in Workers : table[f] = a => a \in Due
      BY DEF Sched, Holds
    <3> QED
      BY <3>1, <3>2, AgentFacts DEF Due
  <2>4. table[f] = Session(x) \/ table[f] = Input(x) => fd'[x] = fd[x] /\ sock'[x] = sock[x]
    BY <1>7, <1>8, <2>3
  <2>5. Session(x) # Nobody /\ Input(x) # Nobody
    BY AgentFacts
  <2> QED
    BY <2>1, <2>2, <2>4, <2>5
<1>13. Unqueued(runq)'
  BY <1>2, <1>10 DEF Unqueued
<1>14. Calm'
  BY <1>4, <1>10, <1>11, <1>12, <1>13 DEF Calm, CalmWith
<1>15. \A d \in dataConns \ dataConns' : ctrl[d] \in freed'
  BY <1>5, <1>6, <1>8
<1> QED
  BY <1>14, <1>15

LEMMA AcceptCalmly ==
  ASSUME TtscpInv, Calm, NEW c \in Conn, Accept(c)
  PROVE  Calm' /\ dataConns' = dataConns
<1> DEFINE f == CHOOSE f \in FreeFds : \A g \in FreeFds : f <= g
<1>1. /\ ConnTypeOK /\ OwnStreams /\ AtOwn(table) /\ Unqueued(runq) /\ Unchained
      /\ table \in [Fd -> Workers \cup {Nobody}]
  BY DEF TtscpInv, Calm, CalmWith, Sched, SchedType
<1>2. /\ fd[c] = 0 /\ FreeFds # {} /\ fd' = [fd EXCEPT ![c] = f]
      /\ table' = Blocked(Session(c), f, table) /\ dep' = Chained(Session(c), Session(c), f, table, dep)
      /\ UNCHANGED <<dataConns, ctrl, src, sock, job, runq, strayed, fatal>>
  BY DEF Accept, Alive, streams
<1>3. f \in FreeFds
  <2>1. FreeFds \in SUBSET (Fd \cup {Listen})
    BY DEF FreeFds
  <2> QED
    BY <1>2, <2>1, Least
<1>4. f \in Fd /\ \A d \in Conn : fd[d] # f
  BY <1>3 DEF FreeFds, FdsOf
<1> HIDE DEF f
<1>5. \A d \in Conn : src[d] # NoOne => src[d] # c /\ src[d] \in Conn
  <2>1. \A d \in dataConns : fd[d] # 0 /\ d \in Conn
    BY DEF TtscpInv, Placed, Registered, Alive
  <2> QED
    BY <1>1, <1>2, <2>1 DEF OwnStreams
<1>6. table[f] = Nobody
  <2>1. \A d \in Conn : table[f] # Session(d)
    BY <1>1, <1>4 DEF AtOwn
  <2>2. ASSUME NEW d \in Conn, table[f] = Input(d) PROVE FALSE
    <3>1. sock[d] = f /\ f # 0
      BY <1>1, <1>4, <2>2, Fds DEF AtOwn
    <3>2. src[d] \in Conn /\ fd[src[d]] = f
      BY <1>1, <1>5, <3>1 DEF OwnStreams, ConnTypeOK
    <3> QED
      BY <1>4, <3>2
  <2> QED
    BY <1>1, <1>4, <2>1, <2>2, AgentFacts
<1>7. table' = [table EXCEPT ![f] = Session(c)] /\ dep' = dep
  BY <1>2, <1>6 DEF Blocked, Chained
<1>8. OwnStreams'
  BY <1>1, <1>2, <1>5 DEF OwnStreams, ConnTypeOK
<1>9. AtOwn(table)'
  <2> SUFFICES ASSUME NEW g \in Fd, NEW d \in Conn
               PROVE  (table'[g] = Session(d) => fd'[d] = g) /\ (table'[g] = Input(d) => sock'[d] = g)
    BY DEF AtOwn
  <2>1. (table[g] = Session(d) => fd[d] = g) /\ (table[g] = Input(d) => sock[d] = g)
    BY <1>1 DEF AtOwn
  <2>2. Session(c) # Input(d) /\ (Session(c) = Session(d) => c = d)
    BY AgentFacts
  <2>3. fd'[d] = (IF d = c THEN f ELSE fd[d]) /\ table'[g] = (IF g = f THEN Session(c) ELSE table[g])
    BY <1>1, <1>2, <1>7 DEF ConnTypeOK
  <2>4. table[g] = Session(d) => d # c
    BY <1>2, <2>1, Fds
  <2> QED
    BY <1>2, <2>1, <2>2, <2>3, <2>4
<1>10. Unqueued(runq)' /\ Unchained'
  BY <1>1, <1>2, <1>7 DEF Unqueued, Unchained
<1>11. (\A d \in Conn : job'[d] # "empty") /\ ~strayed' /\ fatal' \in {"no", "800"}
  BY <1>2 DEF Calm, CalmWith
<1> QED
  BY <1>2, <1>8, <1>9, <1>10, <1>11 DEF Calm, CalmWith

LEMMA WakeUpCalmly ==
  ASSUME Behaved, TtscpInv, Calm, WakeUp
  PROVE  Calm' /\ dataConns \subseteq dataConns'
<1>1. ASSUME NEW f \in Fd, NEW c \in Conn, NEW tb, NEW r, tb = [table EXCEPT ![f] = Nobody]
      PROVE  /\ CalmWith(tb, runq)
             /\ table[f] = Input(c) => sock[c] = f /\ tb[sock[c]] = Nobody
  <2>1. table \in [Fd -> Workers \cup {Nobody}] /\ AtOwn(table)
    BY DEF TtscpInv, Sched, SchedType, Calm, CalmWith
  <2>2. \A d \in Conn : Session(d) # Nobody /\ Input(d) # Nobody
    BY AgentFacts
  <2>3. AtOwn(tb)
    BY <1>1, <2>1, <2>2 DEF AtOwn
  <2>4. table[f] = Input(c) => sock[c] = f /\ tb[sock[c]] = Nobody
    BY <1>1, <2>1 DEF AtOwn
  <2> QED
    BY <2>3, <2>4 DEF Calm, CalmWith
<1>2. CASE \E c \in Conn : Accept(c)
  BY <1>2, AcceptCalmly
<1>3. ASSUME NEW f \in Fd, NEW tb, NEW r, tb = [table EXCEPT ![f] = Nobody],
             \/ \E c \in Conn : table[f] = Session(c) /\ SessionTurn(c, tb, runq, r) /\ Command(c, tb, runq, r)
             \/ \E c \in Conn : table[f] = Input(c) /\ InputTurn(c, tb, runq, r) /\ Fetch(c, tb, runq, r, TRUE)
      PROVE  Calm' /\ dataConns \subseteq dataConns'
  BY <1>1, <1>3, CommandCalmly, FetchCalmly
<1> QED
  BY <1>2, <1>3, WakeUpTurns

LEMMA DispatchCalmly ==
  ASSUME Behaved, TtscpInv, Calm, Dispatch
  PROVE  Calm' /\ \A d \in dataConns \ dataConns' : ctrl[d] \in freed'
<1> DEFINE q == Tail(runq)
<1>1. runq # <<>> /\ runq \in Seq(Agents) /\ fatal = "no" /\ ready = {}
  BY DEF Dispatch, Running, TtscpInv, Sched, SchedType
<1>2. /\ \A i \in 1..Len(q) : i + 1 \in 1..Len(runq) /\ q[i] = runq[i + 1]
      /\ Head(runq) = runq[1] /\ 1 \in 1..Len(runq)
  BY <1>1, TailFacts
<1>3. CalmWith(table, q) /\ \A c \in Conn : Head(runq) # Input(c)
  BY <1>2 DEF Calm, CalmWith, Unqueued
<1>4. \/ \E c \in Conn : SessionTurn(c, table, q, {}) /\ Command(c, table, q, {})
      \/ Sched(table, dep, q, Due) /\ Len(doomed) = Count(q) + 1 /\ Disconnect(q)
  BY <1>3, DispatchTurns
<1> HIDE DEF q
<1> QED
  BY <1>1, <1>3, <1>4, CommandCalmly, DisconnectCalmly

LEMMA LoopCalmly ==
  ASSUME TtscpInv, Calm, \/ Select \/ SelectFails \/ \E c \in Conn : Finish(c)
  PROVE  Calm' /\ dataConns' = dataConns
<1>1. CASE Select
  BY <1>1 DEF Select, Calm, CalmWith, OwnStreams, AtOwn, Unqueued, Unchained, tables, streams
<1>2. ~SelectFails
  <2>1. ASSUME NEW f \in Fd, table[f] # Nobody PROVE ~Closed(f)
    <3>1. ConnTypeOK /\ Placed /\ Sched(table, dep, runq, Due) /\ AtOwn(table) /\ OwnStreams
      BY DEF TtscpInv, Calm, CalmWith
    <3>2. table[f] \in Workers /\ table[f] \in Due
      BY <2>1, <3>1 DEF Sched, SchedType, Holds
    <3>3. ASSUME NEW c \in Conn, table[f] = Session(c) PROVE ~Closed(f)
      <4>1. fd[c] = f
        BY <3>1, <3>3 DEF AtOwn
      <4> QED
        BY <4>1, Fds DEF Closed, Owner, Alive
    <3>4. ASSUME NEW c \in Conn, table[f] = Input(c) PROVE ~Closed(f)
      <4>1. sock[c] = f /\ f # 0
        BY <3>1, <3>4, Fds DEF AtOwn
      <4>2. src[c] \in Conn /\ fd[src[c]] = f
        BY <3>1, <4>1 DEF OwnStreams, ConnTypeOK
      <4> QED
        BY <4>1, <4>2 DEF Closed, Owner, Alive
    <3> QED
      BY <3>2, <3>3, <3>4, AgentFacts
  <2> QED
    BY <2>1 DEF SelectFails, Slept
<1>3. ASSUME NEW c \in Conn, Finish(c) PROVE Calm' /\ dataConns' = dataConns
  <2>1. /\ job' = [job EXCEPT ![c] = "idle"] /\ runq' = Append(runq, Session(c))
        /\ UNCHANGED <<dataConns, fd, ctrl, src, sock, table, dep, strayed, fatal>>
    BY <1>3 DEF Finish, Called, tables
  <2>2. runq \in Seq(Agents) /\ job \in [Conn -> {"idle", "reads", "empty", "works", "broken"}]
    BY DEF TtscpInv, Sched, SchedType, ConnTypeOK
  <2>3. Unqueued(runq')
    BY <2>1, <2>2, UnqueuedAppend, AgentFacts DEF Calm, CalmWith
  <2>4. \A d \in Conn : job'[d] # "empty"
    BY <2>1, <2>2 DEF Calm, CalmWith
  <2>5. OwnStreams' /\ AtOwn(table)' /\ Unqueued(runq)' /\ Unchained'
    BY <2>1, <2>3 DEF Calm, CalmWith, OwnStreams, AtOwn, Unqueued, Unchained
  <2> QED
    BY <2>1, <2>4, <2>5 DEF Calm, CalmWith
<1> QED
  BY <1>1, <1>2, <1>3

LEMMA CalmInit == ASSUME Init PROVE Calm
<1>1. \A c \in Conn : src[c] = NoOne /\ job[c] = "idle"
  BY DEF Init
<1>2. (\A f \in Fd : table[f] = Nobody) /\ runq = <<>> /\ (\A a \in Agents : dep[a] = <<>>) /\ ~strayed /\ fatal = "no"
  BY DEF Init
<1>3. AtOwn(table)
  BY <1>2, AgentFacts DEF AtOwn
<1>4. Unqueued(runq)
  BY <1>2, EmptySeq DEF Unqueued
<1> QED
  BY <1>1, <1>2, <1>3, <1>4 DEF Calm, CalmWith, OwnStreams, Unchained

LEMMA CalmStep ==
  ASSUME Behaved, TtscpInv, Calm, [Next]_vars
  PROVE  Calm' /\ \A d \in dataConns \ dataConns' : ctrl[d] \in freed'
<1>1. CASE UNCHANGED vars
  BY <1>1 DEF Calm, CalmWith, OwnStreams, AtOwn, Unqueued, Unchained, vars, tables, streams, sched
<1>2. CASE Dispatch
  BY <1>2, DispatchCalmly
<1>3. CASE WakeUp
  BY <1>3, WakeUpCalmly
<1>4. CASE \/ Select \/ SelectFails \/ \E c \in Conn : Finish(c)
  BY <1>4, LoopCalmly
<1> QED
  BY <1>1, <1>2, <1>3, <1>4 DEF Next

\* With clients that behave, the server ends only when it is told to, and a stream reads only
\* from the connection it names (a_input::run, src/src/agent.cc:581-631; cmd_stream,
\* src/src/ttscp.cc:325-333).
THEOREM SteadyServer == ASSUME Behaved PROVE Spec => []Steady
<1>1. Init => Calm
  BY CalmInit
<1>2. TtscpInv /\ Calm /\ [Next]_vars => Calm'
  BY CalmStep
<1>3. Calm => Steady
  BY DEF Calm, CalmWith, Steady, NoFatal, NeverStrays
<1> QED
  BY <1>1, <1>2, <1>3, TtscpInvariant, PTL DEF Spec

\* With clients that behave, a data connection goes with its control connection and not
\* otherwise (a_ttscp::~a_ttscp, src/src/agent.cc:1081-1106).
THEOREM DataKept == ASSUME Behaved PROVE Spec => KeptOpen
<1>1. Init => Calm
  BY CalmInit
<1>2. TtscpInv /\ Calm /\ [Next]_vars => Calm'
  BY CalmStep
<1>3. TtscpInv /\ Calm /\ [Next]_vars =>
        [\A d \in dataConns \ dataConns' :
           delhs' # delhs \/ losses' # losses \/ ctrl[d] \in freed']_vars
  BY CalmStep
<1> QED
  BY <1>1, <1>2, <1>3, TtscpInvariant, PTL DEF Spec, KeptOpen
=============================================================================
