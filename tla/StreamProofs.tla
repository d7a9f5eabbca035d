---------------------------- MODULE StreamProofs ----------------------------
(***************************************************************************)
(* Theorems about Stream, for every chain of agents, every pend_min and    *)
(* pend_max, every set of failing agents and every bound.                  *)
(***************************************************************************)
EXTENDS Stream, SequenceTheorems, NaturalsInduction, WellFoundedInduction, TLAPS

QueueType == Seq(Agents \cup {Ctrl})

\* a_chunk::bm points into the text that is being chunked, unless it is stale.
MarksOK(ib, mk) ==
  /\ ib \in [Agents -> Seq(Nat)] /\ mk \in [Agents -> Nat \cup {Stale}]
  /\ \A b \in Agents : /\ mk[b] \notin {0, Stale} => mk[b] < Len(ib[b])
                       /\ Kind[b] # "chunk" => mk[b] = 0

\* The lists between agents hold what pendcount and pendout say, none is too
\* long, no task is empty, and the input agent has no list to take from.
ListsOK(pi, pc, po) ==
  /\ pi \in [Agents -> Seq(Seq(Nat))] /\ pc \in [Agents -> Nat] /\ po \subseteq Agents
  /\ \A b \in Agents : /\ pc[b] = Len(pi[b])
                       /\ b > 1 => (b - 1 \in po <=> pi[b] # <<>>)
                       /\ Len(pi[b]) <= PendMax + 1
                       /\ \A i \in 1..Len(pi[b]) : pi[b][i] # NoTask
  /\ pi[1] = <<>>

\* The types of the other variables.
ConnOK ==
  /\ held \in [Agents -> Seq(Nat)]
  /\ runq \in QueueType /\ asleep \subseteq {1, Out}
  /\ callbk \in BOOLEAN /\ session \in {"reads", "waits"}
  /\ answers \in Seq({"200", "401", "4xx"}) /\ delivered \in Seq(Nat)
  /\ applied \in 0..MaxAppl /\ interrupted \in 0..MaxIntr
  /\ fatal \in {"none", "861", "862", "dangling"}

\* The inductive invariant behind type correctness and flow control.
PipeInv == MarksOK(inb, mark) /\ ListsOK(pendin, pendcount, pendout) /\ ConnOK

LEMMA Constants ==
  /\ Out \in Nat /\ Out >= 2 /\ 1 \in Agents /\ Out \in Agents /\ Agents \subseteq Nat
  /\ \A a \in Agents : a > 1 => a - 1 \in Agents
  /\ \A a \in Agents : a # Out => a + 1 \in Agents
  /\ \A a \in Agents : Kind[a] \notin Outputs => a # Out
  /\ PendMin \in Nat /\ PendMin > 0 /\ PendMax \in Nat /\ PendMin <= PendMax + 1
  BY KindAssumption, PendAssumption DEF Out, Agents

\* A list without its first cell.
LEMMA TailFacts ==
  ASSUME NEW S, NEW s \in Seq(S), s # <<>>
  PROVE  /\ Head(s) \in S /\ Head(s) = s[1] /\ Len(s) >= 1
         /\ Tail(s) \in Seq(S) /\ Len(Tail(s)) = Len(s) - 1
         /\ \A i \in 1..Len(Tail(s)) : Tail(s)[i] = s[i + 1]
         /\ Tail(s) = <<>> <=> Len(s) = 1
<1>1. Len(s) \in Nat /\ Len(s) # 0
  BY EmptySeq, LenProperties
<1>2. /\ Head(s) \in S /\ Tail(s) \in Seq(S) /\ Len(Tail(s)) = Len(s) - 1
      /\ \A i \in 1..Len(Tail(s)) : Tail(s)[i] = s[i + 1]
  BY HeadTailProperties
<1>3. Head(s) = s[1]
  OBVIOUS
<1>4. Tail(s) = <<>> <=> Len(Tail(s)) = 0
  BY <1>2, EmptySeq
<1> QED BY <1>1, <1>2, <1>3, <1>4

LEMMA TailAvoids ==
  ASSUME NEW S, NEW s \in Seq(S), s # <<>>, NEW x, \A i \in 1..Len(s) : s[i] # x
  PROVE  \A i \in 1..Len(Tail(s)) : Tail(s)[i] # x
<1>1. Len(s) \in Nat /\ Len(Tail(s)) = Len(s) - 1
  BY TailFacts, LenProperties
<1>2. ASSUME NEW i \in 1..Len(Tail(s)) PROVE Tail(s)[i] # x
  <2>1. i + 1 \in 1..Len(s)
    BY <1>1
  <2> QED BY <2>1, TailFacts
<1> QED BY <1>2

\* A list with one more cell.
LEMMA AppendFacts ==
  ASSUME NEW S, NEW s \in Seq(S), NEW x \in S
  PROVE  /\ Append(s, x) \in Seq(S) /\ Len(Append(s, x)) = Len(s) + 1
         /\ Append(s, x) # <<>>
         /\ \A i \in 1..Len(Append(s, x)) :
              Append(s, x)[i] = IF i = Len(s) + 1 THEN x ELSE s[i]
<1>1. Append(s, x) \in Seq(S) /\ Len(Append(s, x)) = Len(s) + 1 /\ Len(s) \in Nat
  BY AppendProperties, LenProperties
<1>2. Append(s, x) # <<>>
  BY <1>1, EmptySeq
<1> QED BY <1>1, <1>2, AppendProperties

LEMMA PipeTypes ==
  ASSUME PipeInv
  PROVE  /\ inb \in [Agents -> Seq(Nat)] /\ pendin \in [Agents -> Seq(Seq(Nat))]
         /\ pendcount \in [Agents -> Nat] /\ pendout \subseteq Agents
         /\ held \in [Agents -> Seq(Nat)] /\ mark \in [Agents -> Nat \cup {Stale}]
         /\ \A a \in Agents :
              /\ inb[a] \in Seq(Nat) /\ pendin[a] \in Seq(Seq(Nat))
              /\ Len(pendin[a]) \in Nat /\ pendcount[a] = Len(pendin[a])
              /\ Len(pendin[a]) <= PendMax + 1
              /\ a > 1 => (a - 1 \in pendout <=> pendin[a] # <<>>)
              /\ \A i \in 1..Len(pendin[a]) : pendin[a][i] # NoTask
         /\ pendin[1] = <<>>
<1>1. \A a \in Agents : Len(pendin[a]) \in Nat
  BY LenProperties DEF PipeInv, ListsOK
<1> QED BY <1>1 DEF PipeInv, ListsOK, MarksOK, ConnOK

LEMMA PipeInvImplies ==
  ASSUME PipeInv
  PROVE  TypeOK /\ PendConsistent /\ Bounded
BY DEF PipeInv, ListsOK, MarksOK, ConnOK, TypeOK, PendConsistent, Bounded, QueueType

LEMMA AppendAvoids ==
  ASSUME NEW S, NEW s \in Seq(S), NEW x \in S, NEW y, x # y, \A i \in 1..Len(s) : s[i] # y
  PROVE  \A i \in 1..Len(Append(s, x)) : Append(s, x)[i] # y
<1>1. Len(s) \in Nat
  BY LenProperties
<1>2. ASSUME NEW i \in 1..Len(Append(s, x)) PROVE Append(s, x)[i] # y
  <2>1. i = Len(s) + 1 \/ i \in 1..Len(s)
    BY <1>1, AppendFacts
  <2> QED BY <2>1, <1>1, AppendFacts
<1> QED BY <1>2

\* What an agent that may run starts from: its task, and consistent lists.
LEMMA Taken ==
  ASSUME PipeInv, NEW a \in Agents, MayRun(a), NEW q \in QueueType
  PROVE  /\ Task(a) \in Seq(Nat) /\ Task(a) # NoTask
         /\ ListsOK(PendinTaken(a), CountTaken(a), PendoutTaken(a))
         /\ QueueTaken(a, q) \in QueueType
         /\ Verdict(a) = fatal
         /\ Takes(a) => a > 1
         /\ a < Out => CountTaken(a)[a + 1] <= PendMax
         /\ \A b \in Agents \ {a} : PendinTaken(a)[b] = pendin[b]
         /\ a \in PendoutTaken(a) <=> a \in pendout
<1> USE Constants
<1>1. CASE inb[a] # NoTask
  <2>1. /\ ~Takes(a) /\ Task(a) = inb[a] /\ PendinTaken(a) = pendin
        /\ CountTaken(a) = pendcount /\ PendoutTaken(a) = pendout
        /\ QueueTaken(a, q) = q /\ Verdict(a) = fatal
    BY <1>1 DEF Takes, Task, PendinTaken, CountTaken, PendoutTaken, QueueTaken, Verdict
  <2>2. ListsOK(pendin, pendcount, pendout)
    BY PipeTypes DEF ListsOK
  <2>3. inb[a] \in Seq(Nat)
    BY PipeTypes
  <2>4. ASSUME a < Out PROVE pendcount[a + 1] <= PendMax
    <3>1. a + 1 \in Agents
      BY <2>4
    <3>2. pendcount[a + 1] \in Nat
      BY <3>1, PipeTypes
    <3> QED BY <2>4, <3>2 DEF MayRun, IsSatiated
  <2> QED BY <1>1, <2>1, <2>2, <2>3, <2>4
<1>2. CASE inb[a] = NoTask
  <2>1. pendin[a] \in Seq(Seq(Nat)) /\ pendin[a] # <<>> /\ a > 1
    <3>1. pendin[a] \in Seq(Seq(Nat)) /\ pendin[a] # <<>>
      BY <1>2, PipeTypes DEF MayRun, Busy
    <3>2. a # 1
      BY <3>1, PipeTypes
    <3> QED BY <3>1, <3>2 DEF Agents
  <2>2. /\ Head(pendin[a]) \in Seq(Nat) /\ Head(pendin[a]) = pendin[a][1]
        /\ Len(pendin[a]) \in Nat /\ Len(pendin[a]) >= 1
        /\ Tail(pendin[a]) \in Seq(Seq(Nat)) /\ Len(Tail(pendin[a])) = Len(pendin[a]) - 1
        /\ \A i \in 1..Len(Tail(pendin[a])) : Tail(pendin[a])[i] = pendin[a][i + 1]
        /\ Tail(pendin[a]) = <<>> <=> Len(pendin[a]) = 1
    <3>1. Len(pendin[a]) \in Nat
      BY <2>1, LenProperties
    <3> QED BY <2>1, <3>1, TailFacts
  <2>3. Takes(a) /\ Task(a) = Head(pendin[a])
    BY <1>2 DEF Takes, Task
  <2>4. Task(a) \in Seq(Nat) /\ Task(a) # NoTask
    <3>1. 1 \in 1..Len(pendin[a])
      BY <2>2
    <3>2. pendin[a][1] # NoTask
      BY <3>1, PipeTypes
    <3> QED BY <2>2, <2>3, <3>2
  <2>5. PendinTaken(a) = [pendin EXCEPT ![a] = Tail(pendin[a])]
    BY <2>3 DEF PendinTaken
  <2>6. CountTaken(a) = [pendcount EXCEPT ![a] = pendcount[a] - 1] /\ pendcount[a] = Len(pendin[a])
    BY <2>3, PipeTypes DEF CountTaken
  <2>7. PendoutTaken(a) = IF Len(pendin[a]) = 1 THEN pendout \ {a - 1} ELSE pendout
    BY <2>3 DEF PendoutTaken
  <2>8. ListsOK(PendinTaken(a), CountTaken(a), PendoutTaken(a))
    <3>1. PendinTaken(a) \in [Agents -> Seq(Seq(Nat))] /\ CountTaken(a) \in [Agents -> Nat]
          /\ PendoutTaken(a) \subseteq Agents
      <4>1. Len(pendin[a]) - 1 \in Nat
        BY <2>2
      <4>2. CountTaken(a) \in [Agents -> Nat]
        BY <4>1, <2>6, PipeTypes
      <4>3. PendinTaken(a) \in [Agents -> Seq(Seq(Nat))]
        BY <2>2, <2>5, PipeTypes
      <4> QED BY <4>2, <4>3, <2>7, PipeTypes
    <3>2. ASSUME NEW b \in Agents
          PROVE  /\ CountTaken(a)[b] = Len(PendinTaken(a)[b])
                 /\ Len(PendinTaken(a)[b]) <= PendMax + 1
                 /\ \A i \in 1..Len(PendinTaken(a)[b]) : PendinTaken(a)[b][i] # NoTask
      <4>1. CASE b = a
        <5>1. PendinTaken(a)[b] = Tail(pendin[a]) /\ CountTaken(a)[b] = Len(pendin[a]) - 1
          BY <4>1, <2>5, <2>6, PipeTypes
        <5>2. Len(pendin[a]) <= PendMax + 1
          BY PipeTypes
        <5>3. \A i \in 1..Len(pendin[a]) : pendin[a][i] # NoTask
          BY PipeTypes
        <5>4. \A i \in 1..Len(Tail(pendin[a])) : Tail(pendin[a])[i] # NoTask
          BY <5>3, <2>1, TailAvoids
        <5>5. Len(PendinTaken(a)[b]) <= PendMax + 1 /\ CountTaken(a)[b] = Len(PendinTaken(a)[b])
          BY <5>1, <5>2, <2>2
        <5>6. \A i \in 1..Len(PendinTaken(a)[b]) : PendinTaken(a)[b][i] # NoTask
          BY <5>1, <5>4
        <5> QED BY <5>5, <5>6
      <4>2. CASE b # a
        BY <4>2, <2>5, <2>6, PipeTypes
      <4> QED BY <4>1, <4>2
    <3>3. ASSUME NEW b \in Agents, b > 1
          PROVE  b - 1 \in PendoutTaken(a) <=> PendinTaken(a)[b] # <<>>
      <4>1. CASE b = a
        BY <4>1, <2>1, <2>2, <2>5, <2>7, <3>3, PipeTypes
      <4>2. CASE b # a
        <5>1. b - 1 # a - 1
          BY <4>2
        <5> QED BY <5>1, <4>2, <2>5, <2>7, <3>3, PipeTypes
      <4> QED BY <4>1, <4>2
    <3>4. PendinTaken(a)[1] = <<>>
      BY <2>1, <2>5, PipeTypes
    <3> QED BY <3>1, <3>2, <3>3, <3>4 DEF ListsOK
  <2>9. QueueTaken(a, q) \in QueueType
    BY <2>1 DEF QueueTaken, QueueType
  <2>10. Verdict(a) = fatal
    BY <2>6 DEF Verdict
  <2>11. ASSUME a < Out PROVE CountTaken(a)[a + 1] <= PendMax
    <3>1. a + 1 \in Agents /\ a + 1 # a
      BY <2>11
    <3>2. CountTaken(a)[a + 1] = pendcount[a + 1] /\ pendcount[a + 1] \in Nat
      BY <3>1, <2>6, PipeTypes
    <3> QED BY <2>11, <3>2 DEF MayRun, IsSatiated
  <2>12. /\ \A b \in Agents \ {a} : PendinTaken(a)[b] = pendin[b]
         /\ a \in PendoutTaken(a) <=> a \in pendout
    <3>1. a # a - 1
      OBVIOUS
    <3> QED BY <3>1, <2>1, <2>5, <2>7, PipeTypes
  <2> QED BY <2>1, <2>4, <2>8, <2>9, <2>10, <2>11, <2>12
<1> QED BY <1>1, <1>2

-----------------------------------------------------------------------------
(* What each way of ending a timeslice does to the invariant.              *)

LEMMA QueueFacts ==
  /\ <<>> \in QueueType
  /\ \A b \in Agents \cup {Ctrl} : <<b>> \in QueueType
  /\ \A q, r \in QueueType : q \o r \in QueueType
  /\ \A q \in QueueType, b \in Agents \cup {Ctrl} : Append(q, b) \in QueueType
<1>1. \A q, r \in QueueType : q \o r \in QueueType
  BY ConcatProperties DEF QueueType
<1>2. \A q \in QueueType, b \in Agents \cup {Ctrl} : Append(q, b) \in QueueType
  BY AppendProperties DEF QueueType
<1> QED BY <1>1, <1>2 DEF QueueType

LEMMA RequeueType ==
  ASSUME NEW a \in Agents, NEW left, NEW q \in QueueType
  PROVE  Requeue(a, left, q) \in QueueType
BY QueueFacts DEF Requeue

\* pass(): the lists stay consistent, and no other task is disturbed.
LEMMA PassOK ==
  ASSUME PipeInv, NEW a \in Agents, a # Out, MayRun(a),
         NEW q \in QueueType, NEW again \in QueueType,
         NEW x \in Seq(Nat), x # NoTask, NEW left \in Seq(Nat),
         Pass(a, x, left, again, q)
  PROVE  /\ inb' \in [Agents -> Seq(Nat)] /\ inb'[a] = left
         /\ \A b \in Agents \ {a} : inb[b] # NoTask => inb'[b] = inb[b]
         /\ ListsOK(pendin', pendcount', pendout')
         /\ runq' \in QueueType /\ fatal' = fatal
<1> DEFINE n == a + 1
           pi == PendinTaken(a)
           pc == CountTaken(a)
           po == PendoutTaken(a)
           queued == a \in pendout \/ inb[n] # NoTask
<1>1. n \in Agents /\ n # a /\ n > 1 /\ a < Out /\ n - 1 = a
  BY Constants DEF Agents
<1>2. /\ ListsOK(pi, pc, po) /\ QueueTaken(a, q) \in QueueType /\ Verdict(a) = fatal
      /\ pc[n] <= PendMax /\ pi[n] = pendin[n] /\ (a \in po <=> a \in pendout)
  BY <1>1, Taken
<1> HIDE DEF pi, pc, po
<1>3. CASE ~queued
  <2>1. /\ inb' = [inb EXCEPT ![a] = left, ![n] = x]
        /\ pendin' = pi /\ pendcount' = pc /\ pendout' = po
        /\ runq' = Requeue(a, left, QueueTaken(a, q) \o <<n>> \o again) /\ fatal' = Verdict(a)
    BY <1>3 DEF Pass, pi, pc, po
  <2>2. QueueTaken(a, q) \o <<n>> \o again \in QueueType
    BY <1>1, <1>2, QueueFacts
  <2>3. runq' \in QueueType
    BY <2>1, <2>2, RequeueType
  <2>4. /\ inb' \in [Agents -> Seq(Nat)] /\ inb'[a] = left
        /\ \A b \in Agents \ {a} : inb[b] # NoTask => inb'[b] = inb[b]
    BY <1>1, <1>3, <2>1, PipeTypes
  <2> QED BY <1>2, <2>1, <2>3, <2>4
<1>4. CASE queued
  <2>1. /\ inb' = [inb EXCEPT ![a] = left]
        /\ pendin' = [pi EXCEPT ![n] = Extend(a, pi[n], x)]
        /\ pendcount' = [pc EXCEPT ![n] = pc[n] + 1]
        /\ pendout' = po \cup {a}
        /\ runq' = Requeue(a, left, QueueTaken(a, q) \o <<>> \o again) /\ fatal' = Verdict(a)
    BY <1>4 DEF Pass, pi, pc, po
  <2>2. runq' \in QueueType
    <3>1. QueueTaken(a, q) \o <<>> \o again \in QueueType
      BY <1>2, QueueFacts
    <3> QED BY <2>1, <3>1, RequeueType
  <2>3. /\ inb' \in [Agents -> Seq(Nat)] /\ inb'[a] = left
        /\ \A b \in Agents \ {a} : inb[b] # NoTask => inb'[b] = inb[b]
    BY <2>1, PipeTypes
  <2>4. /\ Extend(a, pi[n], x) \in Seq(Seq(Nat)) /\ Extend(a, pi[n], x) # <<>>
        /\ Len(Extend(a, pi[n], x)) = pc[n] + 1
        /\ \A i \in 1..Len(Extend(a, pi[n], x)) : Extend(a, pi[n], x)[i] # NoTask
    <3>1. /\ pi[n] \in Seq(Seq(Nat)) /\ pc[n] = Len(pi[n])
          /\ \A i \in 1..Len(pi[n]) : pi[n][i] # NoTask
      BY <1>1, <1>2 DEF ListsOK
    <3>2. a \in pendout <=> pi[n] # <<>>
      BY <1>1, <1>2 DEF ListsOK
    <3>3. CASE a \in pendout
      <4>1. Extend(a, pi[n], x) = Append(pi[n], x)
        BY <3>3 DEF Extend
      <4>2. Len(pi[n]) \in Nat
        BY <3>1, LenProperties
      <4>3. /\ Append(pi[n], x) \in Seq(Seq(Nat)) /\ Append(pi[n], x) # <<>>
            /\ Len(Append(pi[n], x)) = Len(pi[n]) + 1
        <5>1. Append(pi[n], x) \in Seq(Seq(Nat))
          BY <3>1, AppendProperties
        <5>2. Len(Append(pi[n], x)) = Len(pi[n]) + 1
          BY <3>1, AppendProperties
        <5>3. Append(pi[n], x) # <<>>
          <6>1. Len(Append(pi[n], x)) # 0
            BY <4>2, <5>2
          <6> QED BY <6>1, EmptySeq
        <5> QED BY <5>1, <5>2, <5>3
      <4>4. \A i \in 1..Len(Append(pi[n], x)) : Append(pi[n], x)[i] # NoTask
        BY <3>1, AppendAvoids
      <4> QED BY <4>1, <4>3, <4>4, <3>1
    <3>4. CASE a \notin pendout
      <4>1. Extend(a, pi[n], x) = <<x>> /\ pi[n] = <<>>
        BY <3>2, <3>4 DEF Extend
      <4> QED BY <4>1, <3>1
    <3> QED BY <3>3, <3>4
  <2> HIDE DEF n
  <2>5. ListsOK(pendin', pendcount', pendout')
    <3>1. pc[n] \in Nat
      BY <1>1, <1>2 DEF ListsOK
    <3>2. /\ pendin' \in [Agents -> Seq(Seq(Nat))] /\ pendcount' \in [Agents -> Nat]
          /\ pendout' \subseteq Agents
      <4>1. pc[n] + 1 \in Nat
        BY <3>1
      <4>2. pendcount' \in [Agents -> Nat]
        BY <4>1, <2>1, <1>2 DEF ListsOK
      <4> QED BY <4>2, <1>1, <1>2, <2>1, <2>4 DEF ListsOK
    <3>3. ASSUME NEW b \in Agents
          PROVE  /\ pendcount'[b] = Len(pendin'[b])
                 /\ b > 1 => (b - 1 \in pendout' <=> pendin'[b] # <<>>)
                 /\ Len(pendin'[b]) <= PendMax + 1
                 /\ \A i \in 1..Len(pendin'[b]) : pendin'[b][i] # NoTask
      <4>1. CASE b = n
        <5>1. pendin'[b] = Extend(a, pi[n], x) /\ pendcount'[b] = pc[n] + 1
          BY <4>1, <1>1, <1>2, <2>1 DEF ListsOK
        <5>2. pc[n] + 1 <= PendMax + 1
          BY <1>2, <3>1, Constants
        <5>3. b - 1 \in pendout'
          BY <4>1, <1>1, <2>1
        <5> QED BY <5>1, <5>2, <5>3, <2>4
      <4>2. CASE b # n
        <5>1. pendin'[b] = pi[b] /\ pendcount'[b] = pc[b]
          BY <4>2, <1>2, <2>1 DEF ListsOK
        <5>2. b - 1 \in pendout' <=> b - 1 \in po
          <6>1. b - 1 # a
            BY <4>2, Constants DEF n
          <6> QED BY <6>1, <2>1
        <5> QED BY <5>1, <5>2, <1>2 DEF ListsOK
      <4> QED BY <4>1, <4>2
    <3>4. pendin'[1] = <<>>
      <4>1. pendin'[1] = pi[1]
        BY <1>1, <1>2, <2>1, Constants DEF ListsOK
      <4> QED BY <4>1, <1>2 DEF ListsOK
    <3> QED BY <3>2, <3>3, <3>4 DEF ListsOK
  <2> QED BY <1>2, <2>1, <2>2, <2>3, <2>5
<1> QED BY <1>3, <1>4

\* run() returned without passing anything on.
LEMMA KeepOK ==
  ASSUME PipeInv, NEW a \in Agents, MayRun(a),
         NEW q \in QueueType, NEW left \in Seq(Nat), Keep(a, left, q)
  PROVE  /\ inb' \in [Agents -> Seq(Nat)] /\ inb'[a] = left
         /\ \A b \in Agents \ {a} : inb'[b] = inb[b]
         /\ ListsOK(pendin', pendcount', pendout')
         /\ runq' \in QueueType /\ fatal' = fatal
<1>1. /\ ListsOK(pendin', pendcount', pendout') /\ fatal' = fatal
      /\ QueueTaken(a, q) \in QueueType
  BY Taken DEF Keep
<1>2. runq' \in QueueType
  BY <1>1, RequeueType DEF Keep
<1>3. /\ inb' \in [Agents -> Seq(Nat)] /\ inb'[a] = left
      /\ \A b \in Agents \ {a} : inb'[b] = inb[b]
  BY PipeTypes DEF Keep
<1> QED BY <1>1, <1>2, <1>3

\* Marks that are left alone remain right, if their texts are.
LEMMA MarksKept ==
  ASSUME PipeInv, NEW a \in Agents, mark' = mark, Kind[a] # "chunk",
         inb' \in [Agents -> Seq(Nat)],
         \A b \in Agents \ {a} : inb[b] # NoTask => inb'[b] = inb[b]
  PROVE  MarksOK(inb', mark')
<1>1. ASSUME NEW b \in Agents, mark[b] \notin {0, Stale}
      PROVE  inb'[b] = inb[b]
  <2>1. mark[b] \in Nat /\ mark[b] > 0 /\ mark[b] < Len(inb[b])
    BY <1>1 DEF PipeInv, MarksOK, Stale
  <2>2. inb[b] # NoTask
    BY <2>1 DEF NoTask
  <2>3. b # a
    BY <1>1 DEF PipeInv, MarksOK
  <2> QED BY <2>2, <2>3
<1> QED BY <1>1 DEF PipeInv, MarksOK

\* A death of the server leaves everything else as it was.
LEMMA DieOK ==
  ASSUME PipeInv, NEW c \in {"861", "862", "dangling"}, Die(c)
  PROVE  PipeInv'
<1>1. fatal' \in {"none", "861", "862", "dangling"}
  BY DEF Die
<1> QED BY <1>1 DEF Die, PipeInv, MarksOK, ListsOK, ConnOK, vars, pipe, sched, conn

LEMMA InputOK ==
  ASSUME PipeInv, NEW a \in Agents, NEW q \in QueueType, NEW z \in SUBSET {1, Out},
         Input(a, q, z)
  PROVE  PipeInv'
<1>1. CASE a \in z
  BY <1>1, DieOK DEF Input
<1>2. CASE a \notin z
  <2>1. /\ MayRun(a) /\ Kind[a] = "input" /\ Pass(a, inb[a], NoTask, <<>>, q)
        /\ asleep' = z /\ UNCHANGED <<mark, held, conn>>
    BY <1>2 DEF Input
  <2>2. a # Out /\ Kind[a] # "chunk" /\ a = 1
    BY <2>1, KindAssumption DEF Agents, Out, Outputs
  <2>3. inb[a] \in Seq(Nat) /\ inb[a] # NoTask /\ NoTask \in Seq(Nat)
    BY <2>1, <2>2, PipeTypes DEF MayRun, Busy, NoTask
  <2>4. /\ inb' \in [Agents -> Seq(Nat)] 
        /\ \A b \in Agents \ {a} : inb[b] # NoTask => inb'[b] = inb[b]
        /\ ListsOK(pendin', pendcount', pendout')
        /\ runq' \in QueueType /\ fatal' = fatal
    BY <2>1, <2>2, <2>3, QueueFacts, PassOK
  <2>5. MarksOK(inb', mark')
    BY <2>1, <2>2, <2>4, MarksKept
  <2>6. ConnOK'
    BY <2>1, <2>4 DEF PipeInv, ConnOK, conn
  <2> QED BY <2>4, <2>5, <2>6 DEF PipeInv
<1> QED BY <1>1, <1>2

LEMMA WorkOK ==
  ASSUME PipeInv, NEW a \in Agents, NEW q \in QueueType, NEW z \in SUBSET {1, Out},
         Work(a, q, z)
  PROVE  PipeInv'
<1>1. /\ MayRun(a) /\ Kind[a] \in ReleasesFirst \cup ReleasesLast
      /\ Pass(a, Task(a), NoTask, <<>>, q)
      /\ asleep' = z /\ UNCHANGED <<mark, held, conn>>
  BY DEF Work
<1>2. a # Out /\ Kind[a] # "chunk"
  BY <1>1, KindAssumption DEF Agents, Out, Outputs, ReleasesFirst, ReleasesLast
<1>3. Task(a) \in Seq(Nat) /\ Task(a) # NoTask /\ NoTask \in Seq(Nat)
  <2>1. NoTask \in Seq(Nat)
    BY DEF NoTask
  <2> QED BY <1>1, <2>1, Taken
<1>4. /\ inb' \in [Agents -> Seq(Nat)] 
      /\ \A b \in Agents \ {a} : inb[b] # NoTask => inb'[b] = inb[b]
      /\ ListsOK(pendin', pendcount', pendout')
      /\ runq' \in QueueType /\ fatal' = fatal
  BY <1>1, <1>2, <1>3, QueueFacts, PassOK
<1>5. MarksOK(inb', mark')
  BY <1>1, <1>2, <1>4, MarksKept
<1>6. ConnOK'
  BY <1>1, <1>4 DEF PipeInv, ConnOK, conn
<1> QED BY <1>4, <1>5, <1>6 DEF PipeInv

\* The mark of a_chunk points into the text that is chunked, at an utterance to pass on.
LEMMA ChunkTask ==
  ASSUME PipeInv, NEW a \in Agents, MayRun(a), Kind[a] = "chunk", mark[a] # Stale
  PROVE  /\ Task(a) \in Seq(Nat) /\ Len(Task(a)) \in Nat /\ mark[a] \in Nat
         /\ mark[a] + 1 \in 1..Len(Task(a))
         /\ <<Task(a)[mark[a] + 1]>> \in Seq(Nat) /\ <<Task(a)[mark[a] + 1]>> # NoTask
<1> DEFINE x == Task(a)
           m == mark[a] + 1
<1>1. x \in Seq(Nat) /\ x # NoTask /\ Len(x) \in Nat /\ Len(x) > 0
  <2>1. x \in Seq(Nat) /\ x # NoTask
    BY QueueFacts, Taken
  <2> QED
    BY <2>1, EmptySeq DEF NoTask
<1>2. mark[a] \in Nat /\ m \in 1..Len(x)
  <2>1. mark[a] \in Nat
    BY DEF PipeInv, MarksOK
  <2>2. CASE mark[a] = 0
    BY <1>1, <2>2
  <2>3. CASE mark[a] # 0
    <3>1. mark[a] < Len(inb[a])
      BY <2>3 DEF PipeInv, MarksOK
    <3>2. inb[a] # NoTask
      BY <2>1, <3>1 DEF NoTask
    <3>3. x = inb[a]
      BY <3>2 DEF Task, Takes
    <3> QED
      BY <1>1, <2>1, <3>1, <3>3
  <2> QED
    BY <2>1, <2>2, <2>3
<1> HIDE DEF x, m
<1>3. x[m] \in Nat
  BY <1>1, <1>2, ElementOfSeq
<1>4. <<x[m]>> \in Seq(Nat) /\ <<x[m]>> # NoTask
  BY <1>3 DEF NoTask
<1> QED
  BY <1>1, <1>2, <1>4 DEF x, m

LEMMA ChunkOK ==
  ASSUME PipeInv, NEW a \in Agents, NEW q \in QueueType, NEW z \in SUBSET {1, Out},
         Chunk(a, q, z)
  PROVE  PipeInv'
<1> DEFINE x    == Task(a)
           m    == mark[a] + 1
           more == m < Len(x)
           left == IF more THEN x ELSE NoTask
           again == IF more THEN <<a>> ELSE <<>>
<1>1. CASE mark[a] = Stale
  BY <1>1, DieOK DEF Chunk
<1>2. CASE mark[a] # Stale
  <2>1. /\ MayRun(a) /\ Kind[a] = "chunk" /\ Pass(a, <<x[m]>>, left, again, q)
        /\ mark' = [mark EXCEPT ![a] = IF more THEN m ELSE 0]
        /\ asleep' = z /\ UNCHANGED <<held, conn>>
    BY <1>2 DEF Chunk
  <2>2. a # Out
    BY <2>1, KindAssumption DEF Agents, Out, Outputs
  <2>3. /\ x \in Seq(Nat) /\ NoTask \in Seq(Nat) /\ Len(x) \in Nat /\ mark[a] \in Nat /\ m \in 1..Len(x)
        /\ <<x[m]>> \in Seq(Nat) /\ <<x[m]>> # NoTask
    BY <1>2, <2>1, ChunkTask DEF NoTask
  <2> HIDE DEF x, m
  <2>7. left \in Seq(Nat) /\ again \in QueueType
    BY <2>3, QueueFacts
  <2>8. /\ inb' \in [Agents -> Seq(Nat)] /\ inb'[a] = left
        /\ \A b \in Agents \ {a} : inb[b] # NoTask => inb'[b] = inb[b]
        /\ ListsOK(pendin', pendcount', pendout')
        /\ runq' \in QueueType /\ fatal' = fatal
    <3> HIDE DEF left, again
    <3> QED BY <2>1, <2>2, <2>3, <2>7, PassOK
  <2>9. MarksOK(inb', mark')
    <3>1. m \in Nat /\ mark' \in [Agents -> Nat \cup {Stale}]
      BY <2>1, <2>3 DEF PipeInv, MarksOK
    <3>2. ASSUME NEW b \in Agents
          PROVE  /\ mark'[b] \notin {0, Stale} => mark'[b] < Len(inb'[b])
                 /\ Kind[b] # "chunk" => mark'[b] = 0
      <4>1. CASE b = a
        BY <4>1, <2>1, <2>8, <3>1 DEF PipeInv, MarksOK
      <4>2. CASE b # a
        <5>1. mark'[b] = mark[b]
          BY <4>2, <2>1 DEF PipeInv, MarksOK
        <5>2. ASSUME mark[b] \notin {0, Stale} PROVE mark[b] < Len(inb'[b])
          <6>1. mark[b] \in Nat /\ mark[b] < Len(inb[b])
            BY <5>2 DEF PipeInv, MarksOK
          <6>2. inb[b] # NoTask
            BY <6>1, <5>2 DEF NoTask
          <6> QED BY <6>1, <6>2, <4>2, <2>8
        <5> QED BY <5>1, <5>2 DEF PipeInv, MarksOK
      <4> QED BY <4>1, <4>2
    <3> QED BY <2>8, <3>1, <3>2 DEF MarksOK
  <2>10. ConnOK'
    BY <2>1, <2>8 DEF PipeInv, ConnOK, conn
  <2> QED BY <2>8, <2>9, <2>10 DEF PipeInv
<1> QED BY <1>1, <1>2

LEMMA JoinOK ==
  ASSUME PipeInv, NEW a \in Agents, NEW q \in QueueType, NEW z \in SUBSET {1, Out},
         Join(a, q, z)
  PROVE  PipeInv'
<1>0. MayRun(a) /\ Kind[a] = "join" /\ a # Out /\ Kind[a] # "chunk"
  BY KindAssumption DEF Join, Agents, Out, Outputs
<1>1. Task(a) \in Seq(Nat) /\ Task(a) # NoTask /\ Dangling \in Seq(Nat)
  <2>1. Dangling \in Seq(Nat)
    BY DEF Dangling
  <2> QED BY <1>0, <2>1, Taken
<1>2. CASE Spent(a) /\ Die("dangling")
  BY <1>2, DieOK
<1>3. CASE Pass(a, Task(a), Dangling, <<>>, q) /\ asleep' = z /\ UNCHANGED <<mark, held, conn>>
  <2>1. /\ inb' \in [Agents -> Seq(Nat)] 
        /\ \A b \in Agents \ {a} : inb[b] # NoTask => inb'[b] = inb[b]
        /\ ListsOK(pendin', pendcount', pendout')
        /\ runq' \in QueueType /\ fatal' = fatal
    BY <1>0, <1>1, <1>3, QueueFacts, PassOK
  <2>2. MarksOK(inb', mark')
    BY <1>0, <1>3, <2>1, MarksKept
  <2>3. ConnOK'
    BY <1>3, <2>1 DEF PipeInv, ConnOK, conn
  <2> QED BY <2>1, <2>2, <2>3 DEF PipeInv
<1>4. CASE /\ Keep(a, Task(a), q) /\ held' = [held EXCEPT ![a] = Task(a)]
           /\ asleep' = z /\ UNCHANGED <<mark, conn>>
  <2>1. /\ inb' \in [Agents -> Seq(Nat)]
        /\ \A b \in Agents \ {a} : inb'[b] = inb[b]
        /\ ListsOK(pendin', pendcount', pendout')
        /\ runq' \in QueueType /\ fatal' = fatal
    BY <1>0, <1>1, <1>4, KeepOK
  <2>2. MarksOK(inb', mark')
    BY <1>0, <1>4, <2>1, MarksKept
  <2>3. held' \in [Agents -> Seq(Nat)]
    BY <1>1, <1>4, PipeTypes
  <2>4. ConnOK'
    BY <1>4, <2>1, <2>3 DEF PipeInv, ConnOK, conn
  <2> QED BY <2>1, <2>2, <2>4 DEF PipeInv
<1> QED BY <1>2, <1>3, <1>4 DEF Join

LEMMA PushOK ==
  ASSUME PipeInv, NEW a \in Agents, NEW q \in QueueType, NEW z \in SUBSET {1, Out},
         Push(a, q, z)
  PROVE  PipeInv'
<1>0. MayRun(a) /\ Kind[a] # "chunk" /\ a = Out
  BY KindAssumption DEF Push, Agents, Out, Outputs
<1>1. CASE a \in z
  BY <1>1, DieOK DEF Push
<1>2. CASE a \notin z
  <2>1. Keep(a, Task(a), q) /\ asleep' = z \cup {a} /\ UNCHANGED <<mark, held, conn>>
    BY <1>2 DEF Push
  <2>2. Task(a) \in Seq(Nat)
    BY <1>0, Taken
  <2>3. /\ inb' \in [Agents -> Seq(Nat)]
        /\ \A b \in Agents \ {a} : inb'[b] = inb[b]
        /\ ListsOK(pendin', pendcount', pendout')
        /\ runq' \in QueueType /\ fatal' = fatal
    BY <1>0, <2>1, <2>2, KeepOK
  <2>4. MarksOK(inb', mark')
    BY <1>0, <2>1, <2>3, MarksKept
  <2>5. ConnOK'
    BY <1>0, <2>1, <2>3 DEF PipeInv, ConnOK, conn
  <2> QED BY <2>3, <2>4, <2>5 DEF PipeInv
<1> QED BY <1>1, <1>2

LEMMA WriteOK ==
  ASSUME PipeInv, NEW a \in Agents, NEW q \in QueueType, NEW z \in SUBSET {1, Out},
         Write(a, q, z)
  PROVE  PipeInv'
<1>1. /\ MayRun(a) /\ Kind[a] \in Outputs
      /\ inb' = [inb EXCEPT ![a] = NoTask]
      /\ pendin' = PendinTaken(a) /\ pendcount' = CountTaken(a) /\ pendout' = PendoutTaken(a)
      /\ delivered' = delivered \o Task(a)
      /\ answers' = IF More(a) THEN answers ELSE Append(answers, "200")
      /\ callbk' = (callbk /\ More(a))
      /\ runq' = Requeue(a, NoTask, QueueTaken(a, q) \o Woken(a))
      /\ fatal' = IF ~callbk /\ ~More(a) THEN "862" ELSE Verdict(a)
      /\ asleep' = z
      /\ UNCHANGED <<mark, held, session, applied, interrupted>>
  BY DEF Write
<1>2. Kind[a] # "chunk"
  BY <1>1 DEF Outputs
<1>3. /\ Task(a) \in Seq(Nat) /\ QueueTaken(a, q) \in QueueType
      /\ ListsOK(pendin', pendcount', pendout') /\ Verdict(a) = fatal
  BY <1>1, Taken
<1>4. Woken(a) \in QueueType
  BY QueueFacts DEF Woken
<1>5. runq' \in QueueType
  <2>1. QueueTaken(a, q) \o Woken(a) \in QueueType
    BY <1>3, <1>4, QueueFacts
  <2> QED BY <1>1, <2>1, RequeueType
<1>6. inb' \in [Agents -> Seq(Nat)] /\ \A b \in Agents \ {a} : inb'[b] = inb[b]
  BY <1>1, PipeTypes DEF NoTask
<1>7. MarksOK(inb', mark')
  BY <1>1, <1>2, <1>6, MarksKept
<1>8. delivered' \in Seq(Nat)
  BY <1>1, <1>3, ConcatProperties DEF PipeInv, ConnOK
<1>9. answers' \in Seq({"200", "401", "4xx"})
  <2>1. answers \in Seq({"200", "401", "4xx"})
    BY DEF PipeInv, ConnOK
  <2>2. Append(answers, "200") \in Seq({"200", "401", "4xx"})
    BY <2>1, AppendProperties
  <2> QED BY <1>1, <2>1, <2>2
<1>10. fatal' \in {"none", "861", "862", "dangling"} /\ callbk' \in BOOLEAN
  BY <1>1, <1>3 DEF PipeInv, ConnOK
<1>11. ConnOK'
  BY <1>1, <1>5, <1>8, <1>9, <1>10 DEF PipeInv, ConnOK
<1> QED BY <1>3, <1>7, <1>11 DEF PipeInv

\* relax(): freeing the tasks of some agents, and those waiting for their
\* successors, keeps the rest consistent.
LEMMA RelaxOK ==
  ASSUME NEW pi, NEW pc, NEW po, ListsOK(pi, pc, po), NEW freed \in SUBSET Agents
  PROVE  LET after == {b \in Agents : b - 1 \in freed}
         IN  ListsOK([b \in Agents |-> IF b \in after THEN <<>> ELSE pi[b]],
                     [b \in Agents |-> IF b \in after THEN CountRelaxed(pc[b], pi[b]) ELSE pc[b]],
                     po \ freed)
<1> DEFINE after == {b \in Agents : b - 1 \in freed}
           ppi == [b \in Agents |-> IF b \in after THEN <<>> ELSE pi[b]]
           ppc == [b \in Agents |-> IF b \in after THEN CountRelaxed(pc[b], pi[b]) ELSE pc[b]]
<1> SUFFICES ListsOK(ppi, ppc, po \ freed)
  OBVIOUS
<1>1. ASSUME NEW b \in Agents, b \in after
      PROVE  ppi[b] = <<>> /\ ppc[b] = 0
  <2>1. pc[b] \in Nat /\ pc[b] = Len(pi[b])
    BY DEF ListsOK
  <2>2. ppc[b] = pc[b] - Len(pi[b]) /\ ppi[b] = <<>>
    BY <1>1 DEF CountRelaxed
  <2> QED BY <2>1, <2>2
<1>2. ASSUME NEW b \in Agents, b \notin after
      PROVE  ppi[b] = pi[b] /\ ppc[b] = pc[b]
  BY <1>2
<1>3. ppi \in [Agents -> Seq(Seq(Nat))]
  BY DEF ListsOK
<1>4. ppc \in [Agents -> Nat]
  <2>1. \A b \in Agents : ppc[b] \in Nat
    BY <1>1, <1>2 DEF ListsOK
  <2>2. ppc = [b \in Agents |-> ppc[b]]
    OBVIOUS
  <2> HIDE DEF ppc
  <2> QED BY <2>1, <2>2
<1>5. ppi[1] = <<>>
  BY Constants DEF ListsOK
<1>6. \A b \in Agents : b \in after <=> b - 1 \in freed
  OBVIOUS
<1> HIDE DEF ppi, ppc, after
<1>7. ASSUME NEW b \in Agents
      PROVE  /\ ppc[b] = Len(ppi[b])
             /\ b > 1 => (b - 1 \in po \ freed <=> ppi[b] # <<>>)
             /\ Len(ppi[b]) <= PendMax + 1
             /\ \A i \in 1..Len(ppi[b]) : ppi[b][i] # NoTask
  <2>1. CASE b \in after
    BY <1>1, <1>6, <2>1, Constants
  <2>2. CASE b \notin after
    BY <1>2, <1>6, <2>2 DEF ListsOK
  <2> QED BY <2>1, <2>2
<1>8. po \ freed \subseteq Agents
  BY DEF ListsOK
<1> QED BY <1>3, <1>4, <1>5, <1>7, <1>8 DEF ListsOK

\* Marks after some agents were relaxed and some tasks other than texts dropped.
LEMMA MarksRelaxed ==
  ASSUME PipeInv, NEW freed \in SUBSET Agents, NEW ib \in [Agents -> Seq(Nat)],
         \A b \in Agents : Kind[b] = "chunk" => ib[b] = inb[b]
  PROVE  MarksOK([b \in Agents |-> IF b \in freed THEN NoTask ELSE ib[b]],
                 [b \in Agents |-> IF b \in freed THEN StaleMark(b) ELSE mark[b]])
BY DEF MarksOK, PipeInv, StaleMark, NoTask, Stale

LEMMA FailOK ==
  ASSUME PipeInv, NEW a \in Agents, NEW q \in QueueType, NEW z \in SUBSET {1, Out},
         Fail(a, q, z)
  PROVE  PipeInv'
<1> DEFINE left == IF Kind[a] \in ReleasesFirst THEN NoTask ELSE Task(a)
           ib == [inb EXCEPT ![a] = left]
           pi == PendinTaken(a)
           pc == CountTaken(a)
           freed == FirstBusy(ib, pi)
           after == {b \in Agents : b - 1 \in freed}
           dead == ~callbk \/ \E b \in freed : ib[b] = Dangling
           tail == QueueTaken(a, q) \o (IF callbk THEN <<Ctrl>> ELSE <<>>)
<1>1. /\ a \in Failing /\ MayRun(a)
      /\ inb' = [b \in Agents |-> IF b \in freed THEN NoTask ELSE ib[b]]
      /\ pendin' = [b \in Agents |-> IF b \in after THEN <<>> ELSE pi[b]]
      /\ pendcount' = [b \in Agents |-> IF b \in after THEN CountRelaxed(pc[b], pi[b]) ELSE pc[b]]
      /\ pendout' = PendoutTaken(a) \ freed
      /\ mark' = [b \in Agents |-> IF b \in freed THEN StaleMark(b) ELSE mark[b]]
      /\ answers' = answers \o FailureCodes
      /\ callbk' = FALSE
      /\ asleep' = z
      /\ UNCHANGED <<held, session, delivered, applied, interrupted>>
  BY DEF Fail
<1>2. runq' = IF pendcount'[a] # 0 /\ inb'[a] = NoTask THEN Append(tail, a) ELSE tail
  BY DEF Fail
<1>3. fatal' \in {"dangling", "862", Verdict(a)}
  BY DEF Fail
<1>4. /\ Task(a) \in Seq(Nat) /\ QueueTaken(a, q) \in QueueType
      /\ ListsOK(pi, pc, PendoutTaken(a)) /\ Verdict(a) = fatal
  BY <1>1, Taken
<1>5. Kind[a] # "chunk"
  BY <1>1, FailAssumption
<1>6. ib \in [Agents -> Seq(Nat)] /\ \A b \in Agents : Kind[b] = "chunk" => ib[b] = inb[b]
  <2>1. left \in Seq(Nat)
    BY <1>4 DEF NoTask
  <2> HIDE DEF left
  <2> QED BY <2>1, <1>5, PipeTypes
<1>7. freed \in SUBSET Agents
  BY DEF FirstBusy
<1> HIDE DEF left, ib, pi, pc, freed, dead
<1>8. MarksOK(inb', mark')
  BY <1>1, <1>6, <1>7, MarksRelaxed
<1>9. ListsOK(pendin', pendcount', pendout')
  BY <1>1, <1>4, <1>7, RelaxOK
<1>10. runq' \in QueueType
  <2>1. (IF callbk THEN <<Ctrl>> ELSE <<>>) \in QueueType
    BY QueueFacts
  <2>2. tail \in QueueType
    BY <1>4, <2>1, QueueFacts
  <2> HIDE DEF tail
  <2> QED BY <1>2, <2>2, QueueFacts
<1>11. answers' \in Seq({"200", "401", "4xx"})
  <2>1. answers \in Seq({"200", "401", "4xx"})
    BY DEF PipeInv, ConnOK
  <2>2. FailureCodes \in Seq({"200", "401", "4xx"})
    BY DEF FailureCodes
  <2> QED BY <1>1, <2>1, <2>2, ConcatProperties
<1>12. fatal' \in {"none", "861", "862", "dangling"}
  BY <1>3, <1>4 DEF PipeInv, ConnOK
<1>13. ConnOK'
  BY <1>1, <1>10, <1>11, <1>12 DEF PipeInv, ConnOK
<1> QED BY <1>8, <1>9, <1>13 DEF PipeInv

LEMMA SliceOK ==
  ASSUME PipeInv, NEW a \in Agents, NEW q \in QueueType, NEW z \in SUBSET {1, Out},
         Slice(a, q, z)
  PROVE  PipeInv'
<1>1. CASE TurnedAway(a, q, z)
  BY <1>1 DEF TurnedAway, PipeInv, MarksOK, ListsOK, ConnOK, pipe, conn
<1> QED BY <1>1, InputOK, WorkOK, ChunkOK, JoinOK, PushOK, WriteOK, FailOK DEF Slice

LEMMA ApplyOK == ASSUME PipeInv, Apply PROVE PipeInv'
<1>1. CASE inb[1] = NoTask /\ 1 \in asleep
  BY <1>1, DieOK DEF Apply
<1>2. CASE ~(inb[1] = NoTask /\ 1 \in asleep)
  <2>1. PICK k \in 1..MaxUtt :
          inb' = IF inb[1] = NoTask THEN [inb EXCEPT ![1] = Text(k)] ELSE inb
    BY <1>2 DEF Apply
  <2>2. /\ asleep' = IF inb[1] = NoTask THEN asleep \cup {1} ELSE asleep
        /\ callbk' = TRUE /\ session' = "waits" /\ answers' = <<>> /\ delivered' = <<>>
        /\ applied < MaxAppl /\ applied' = applied + 1
        /\ UNCHANGED <<pendin, pendcount, pendout, mark, held, runq, interrupted, fatal>>
    BY <1>2 DEF Apply
  <2>3. Text(k) \in Seq(Nat)
    <3>1. k \in Nat
      BY <2>1, BoundAssumption
    <3>2. Text(k) \in [1..k -> Nat]
      BY <3>1 DEF Text
    <3> QED BY <3>1, <3>2, SeqDef
  <2>4. inb' \in [Agents -> Seq(Nat)] /\ \A b \in Agents \ {1} : inb'[b] = inb[b]
    BY <2>1, <2>3, PipeTypes
  <2>5. Kind[1] # "chunk" /\ 1 \in Agents
    BY Constants, KindAssumption DEF Outputs
  <2>6. MarksOK(inb', mark')
    BY <2>2, <2>4, <2>5, MarksKept
  <2>7. applied' \in 0..MaxAppl
    BY <2>2, BoundAssumption DEF PipeInv, ConnOK
  <2>8. ConnOK'
    BY <2>2, <2>7 DEF PipeInv, ConnOK
  <2> QED BY <2>2, <2>6, <2>8 DEF PipeInv
<1> QED BY <1>1, <1>2

LEMMA InterruptOK == ASSUME PipeInv, Interrupt PROVE PipeInv'
<1>1. ListsOK(pendin', pendcount', pendout')
  <2>1. /\ pendin' = [b \in Agents |-> <<>>]
        /\ pendcount' = [b \in Agents |-> CountRelaxed(pendcount[b], pendin[b])]
        /\ pendout' = {}
    BY DEF Interrupt
  <2>2. \A b \in Agents : CountRelaxed(pendcount[b], pendin[b]) = 0
    <3>1. \A b \in Agents : Len(pendin[b]) \in Nat /\ pendcount[b] = Len(pendin[b])
      BY PipeTypes
    <3> QED BY <3>1 DEF CountRelaxed
  <2>3. pendcount' = [b \in Agents |-> 0]
    BY <2>1, <2>2
  <2> QED BY <2>1, <2>3, Constants DEF ListsOK
<1>2. MarksOK(inb', mark')
  BY DEF Interrupt, PipeInv, MarksOK, StaleMark, NoTask, Stale
<1>3. runq' \in QueueType
  BY QueueFacts DEF Interrupt, PipeInv, ConnOK
<1>4. answers' \in Seq({"200", "401", "4xx"})
  <2>1. answers \in Seq({"200", "401", "4xx"})
    BY DEF PipeInv, ConnOK
  <2> QED BY <2>1, AppendProperties DEF Interrupt
<1>5. interrupted' \in 0..MaxIntr
  BY BoundAssumption DEF Interrupt, PipeInv, ConnOK
<1>6. callbk' \in BOOLEAN /\ fatal' \in {"none", "861", "862", "dangling"}
  BY DEF Interrupt, PipeInv, ConnOK
<1>7. ConnOK'
  BY <1>3, <1>4, <1>5, <1>6 DEF Interrupt, PipeInv, ConnOK
<1> QED BY <1>1, <1>2, <1>7 DEF PipeInv

LEMMA InitOK == Init => PipeInv
<1> SUFFICES ASSUME Init PROVE PipeInv
  OBVIOUS
<1>1. MarksOK(inb, mark)
  BY DEF Init, MarksOK, NoTask
<1>2. ListsOK(pendin, pendcount, pendout)
  BY Constants DEF Init, ListsOK
<1>3. ConnOK
  <2>1. applied \in 0..MaxAppl /\ interrupted \in 0..MaxIntr
    BY BoundAssumption DEF Init
  <2>2. held \in [Agents -> Seq(Nat)]
    BY DEF Init, NoTask
  <2>3. runq \in QueueType
    BY QueueFacts DEF Init
  <2>4. answers \in Seq({"200", "401", "4xx"}) /\ delivered \in Seq(Nat)
    BY DEF Init
  <2>5. /\ asleep \subseteq {1, Out} /\ callbk \in BOOLEAN /\ session \in {"reads", "waits"}
        /\ fatal \in {"none", "861", "862", "dangling"}
    BY DEF Init
  <2> QED BY <2>1, <2>2, <2>3, <2>4, <2>5 DEF ConnOK
<1> QED BY <1>1, <1>2, <1>3 DEF PipeInv

LEMMA NextOK == PipeInv /\ [Next]_vars => PipeInv'
<1> SUFFICES ASSUME PipeInv, [Next]_vars PROVE PipeInv'
  OBVIOUS
<1>0. runq \in QueueType /\ asleep \in SUBSET {1, Out}
  BY DEF PipeInv, ConnOK
<1>1. CASE Dispatch
  <2>1. /\ runq # <<>> /\ Head(runq) # Ctrl /\ Slice(Head(runq), Tail(runq), asleep)
    BY <1>1 DEF Dispatch
  <2>2. Head(runq) \in Agents /\ Tail(runq) \in QueueType
    BY <1>0, <2>1, TailFacts DEF QueueType
  <2> QED BY <1>0, <2>1, <2>2, SliceOK
<1>2. CASE Receive
  <2>1. 1 \in Agents /\ asleep \ {1} \in SUBSET {1, Out}
    BY <1>0, Constants
  <2> QED BY <1>0, <1>2, <2>1, SliceOK DEF Receive
<1>3. CASE Drain
  <2>1. Out \in Agents /\ asleep \ {Out} \in SUBSET {1, Out}
    BY <1>0, Constants
  <2> QED BY <1>0, <1>3, <2>1, SliceOK DEF Drain
<1>4. CASE Resume
  <2>1. Tail(runq) \in QueueType
    BY <1>0, <1>4, TailFacts DEF QueueType, Resume
  <2> QED BY <1>4, <2>1 DEF Resume, PipeInv, MarksOK, ListsOK, ConnOK, pipe
<1>5. CASE UNCHANGED vars
  BY <1>5 DEF vars, pipe, sched, conn, PipeInv, MarksOK, ListsOK, ConnOK
<1> QED BY <1>1, <1>2, <1>3, <1>4, <1>5, ApplyOK, InterruptOK DEF Next

\* Every variable keeps its type, whatever fails and whoever interrupts.
THEOREM TypeCorrect == Spec => []TypeOK
<1>1. PipeInv => TypeOK
  BY PipeInvImplies
<1> QED BY <1>1, InitOK, NextOK, PTL DEF Spec

\* agent::pendcount, agent::pendin and agent::pendout never disagree, so that
\* "pending count incorrect" cannot be shrieked by timeslice().
THEOREM ListsConsistent == Spec => []PendConsistent
<1>1. PipeInv => PendConsistent
  BY PipeInvImplies
<1> QED BY <1>1, InitOK, NextOK, PTL DEF Spec

\* Flow control: no queue between two agents exceeds pend_max by more than one.
THEOREM QueuesBounded == Spec => []Bounded
<1>1. PipeInv => Bounded
  BY PipeInvImplies
<1> QED BY <1>1, InitOK, NextOK, PTL DEF Spec

-----------------------------------------------------------------------------
(* Streams that nobody disturbs: no intr command, no a_join, and agents    *)
(* that chunk their text only if none fails, so that what fails is all     *)
(* that the stream had to do.  Then no agent that has work is forgotten,   *)
(* the server lives on, and a command is answered when everything is done. *)

Undisturbed ==
  /\ MaxIntr = 0
  /\ \A a \in Agents : Kind[a] # "join"
  /\ Failing = {} \/ \A a \in Agents : Kind[a] # "chunk"

OutOnce(q) == \A i, j \in 1..Len(q) : q[i] = Out /\ q[j] = Out => i = j

\* Where failures may happen there is only one task, and it is no freed one.
Alone ==
  Failing # {} => /\ \A a \in Agents : inb[a] # Dangling /\ pendin[a] = <<>>
                  /\ \A a, b \in Agents : Busy(a) /\ Busy(b) => a = b

\* Who has work is queued in q, sleeps in z or waits for the next one's list to shrink.
Remembered(a, q, z) ==
  Busy(a) => Queued(q, a) \/ a \in z \/ (a < Out /\ pendcount[a + 1] >= PendMin)

\* The output agent is queued once, if it has work and does not sleep.
OutputQueued(q, z) ==
  /\ OutOnce(q) /\ (Queued(q, Out) => Busy(Out))
  /\ Out \in z => inb[Out] # NoTask /\ ~Queued(q, Out)

\* While the stream is in the foreground nothing is answered; afterwards it has nothing to do.
Foreground ==
  /\ ~callbk => \A a \in Agents : ~Busy(a)
  /\ callbk => answers = <<>>
  /\ Len(answers) <= 1 /\ (~callbk /\ applied > 0 => Len(answers) = 1)

Calm ==
  /\ fatal = "none" /\ \A a \in Agents : mark[a] # Stale
  /\ \A a \in Agents : Remembered(a, runq, asleep)
  /\ inb[1] # NoTask <=> 1 \in asleep
  /\ 1 \in asleep => runq = <<>> /\ asleep = {1} /\ \A a \in Agents \ {1} : ~Busy(a)
  /\ ~Queued(runq, 1) /\ OutputQueued(runq, asleep)
  /\ \A i \in 1..Len(runq) : runq[i] = Ctrl => i = Len(runq) /\ ~callbk
  /\ session = "reads" => runq = <<>> /\ ~callbk
  /\ Foreground /\ Alone

StreamInv == PipeInv /\ Calm

\* The same in the middle of a timeslice of agent a, which has left queue q and sleepers z.
CalmAt(a, q, z) ==
  /\ PipeInv /\ a \in Agents \ {1} /\ q \in QueueType /\ z \in SUBSET {Out}
  /\ fatal = "none" /\ (\A b \in Agents : mark[b] # Stale)
  /\ \A b \in Agents \ {a} : Remembered(b, q, z)
  /\ inb[1] = NoTask /\ ~Queued(q, 1) /\ OutputQueued(q, z)
  /\ a = Out => Out \notin z /\ ~Queued(q, Out)
  /\ \A i \in 1..Len(q) : q[i] = Ctrl => i = Len(q) /\ ~callbk
  /\ session = "waits" /\ Foreground /\ Alone

\* The agents before and behind an agent.
LEMMA Neighbours ==
  ASSUME NEW a \in Agents
  PROVE  /\ a \in Nat /\ a >= 1 /\ a <= Out /\ a # Ctrl /\ Out \in Nat /\ 1 # Out
         /\ a # 1 => a > 1 /\ a - 1 \in Agents /\ a - 1 # a /\ a - 1 < Out /\ (a - 1) + 1 = a
         /\ a # Out => a < Out /\ a + 1 \in Agents /\ a + 1 # a /\ a + 1 # 1 /\ (a + 1) - 1 = a
         /\ a = Out => ~(a < Out) /\ a + 1 \notin Agents
         /\ \A b \in Agents : (b = a - 1 <=> b + 1 = a) /\ (b = a + 1 <=> b - 1 = a)
<1>1. Out \in Nat /\ Out >= 2
  BY Constants
<1> QED
  BY <1>1 DEF Agents, Ctrl

LEMMA Queueing ==
  ASSUME NEW q \in QueueType, NEW x \in Agents \cup {Ctrl}
  PROVE  /\ Append(q, x) \in QueueType /\ q \o <<x>> = Append(q, x) /\ q \o <<>> = q
         /\ \A b : Queued(Append(q, x), b) <=> Queued(q, b) \/ b = x
         /\ OutOnce(q) /\ (x = Out => ~Queued(q, Out)) => OutOnce(Append(q, x))
         /\ ~Queued(q, Ctrl) => \A i \in 1..Len(Append(q, x)) : Append(q, x)[i] = Ctrl => i = Len(Append(q, x))
<1>1. /\ Append(q, x) \in QueueType /\ Len(Append(q, x)) = Len(q) + 1 /\ Len(q) \in Nat
      /\ \A i \in 1..Len(Append(q, x)) : Append(q, x)[i] = IF i = Len(q) + 1 THEN x ELSE q[i]
  BY AppendFacts, LenProperties DEF QueueType
<1>2. q \o <<x>> = Append(q, x) /\ q \o <<>> = q
  BY AppendIsConcat, ConcatEmptySeq DEF QueueType
<1>3. \A i \in 1..Len(Append(q, x)) : i \in 1..Len(q) \/ i = Len(q) + 1
  BY <1>1
<1>4. Len(q) + 1 \in 1..Len(Append(q, x)) /\ \A i \in 1..Len(q) : i \in 1..Len(Append(q, x)) /\ i # Len(q) + 1
  BY <1>1
<1>5. ASSUME NEW b PROVE Queued(Append(q, x), b) <=> Queued(q, b) \/ b = x
  BY <1>1, <1>3, <1>4 DEF Queued
<1>6. OutOnce(q) /\ (x = Out => ~Queued(q, Out)) => OutOnce(Append(q, x))
  BY <1>1, <1>3 DEF Queued, OutOnce
<1>7. ~Queued(q, Ctrl) => \A i \in 1..Len(Append(q, x)) : Append(q, x)[i] = Ctrl => i = Len(Append(q, x))
  BY <1>1, <1>3 DEF Queued
<1> QED
  BY <1>1, <1>2, <1>5, <1>6, <1>7

\* What an agent that is in the middle of its timeslice can rely on.
LEMMA CalmFacts ==
  ASSUME NEW a, NEW q, NEW z, CalmAt(a, q, z)
  PROVE  /\ PipeInv /\ a \in Agents /\ a > 1 /\ a - 1 \in Agents /\ 1 # Out /\ Out \in Agents /\ a <= Out
         /\ Kind[a] # "input" /\ q \in QueueType /\ z \subseteq {Out}
         /\ ~Busy(1) /\ 1 \notin z
         /\ Busy(a) => callbk /\ answers = <<>> /\ ~Queued(q, Ctrl)
<1>1. /\ PipeInv /\ a \in Agents \ {1} /\ inb[1] = NoTask /\ pendin[1] = <<>>
      /\ q \in QueueType /\ z \subseteq {Out}
  BY DEF CalmAt, PipeInv, ListsOK
<1>2. a > 1 /\ a - 1 \in Agents /\ 1 # Out /\ Out \in Agents /\ a <= Out
  BY <1>1, Constants DEF Agents
<1>3. Kind[a] # "input"
  BY <1>1, <1>2, KindAssumption DEF Agents, Out
<1>4. ~Busy(1) /\ 1 \notin z
  BY <1>1, <1>2 DEF Busy
<1>5. Busy(a) => callbk /\ answers = <<>> /\ ~Queued(q, Ctrl)
  BY <1>1 DEF CalmAt, Foreground, Queued
<1> QED
  BY <1>1, <1>2, <1>3, <1>4, <1>5

\* Who is turned away is remembered.
LEMMA TurnedAwayCalm ==
  ASSUME NEW a, NEW q, NEW z, CalmAt(a, q, z), TurnedAway(a, q, z)
  PROVE  Calm'
<1>1. /\ UNCHANGED <<pipe, conn, fatal>> /\ runq' = q /\ asleep' = z /\ ~MayRun(a)
  BY DEF TurnedAway
<1>2. UNCHANGED <<inb, pendin, pendcount, pendout, mark, held, callbk, session, answers, applied, fatal>>
  BY <1>1 DEF pipe, conn
<1>3. Remembered(a, q, z)
  <2>1. CASE ~Busy(a)
    BY <2>1 DEF Remembered
  <2>2. CASE IsSatiated(a)
    <3>1. a < Out /\ pendcount[a + 1] > PendMax
      BY <2>2 DEF IsSatiated
    <3>2. a + 1 \in Agents
      BY <3>1, CalmFacts, Neighbours
    <3>3. pendcount[a + 1] \in Nat
      BY <3>2, CalmFacts, PipeTypes
    <3> QED
      BY <3>1, <3>3, Constants DEF Remembered
  <2> QED
    BY <1>1, <2>1, <2>2 DEF MayRun
<1>4. \A b \in Agents : Remembered(b, runq, asleep)'
  BY <1>1, <1>2, <1>3 DEF CalmAt, Remembered, Busy, Queued
<1>5. OutputQueued(runq, asleep)' /\ Foreground' /\ Alone' /\ ~Queued(runq, 1)'
  BY <1>1, <1>2 DEF CalmAt, OutputQueued, OutOnce, Foreground, Alone, Busy, Queued
<1>6. inb'[1] = NoTask /\ 1 \notin asleep'
  BY <1>1, <1>2, CalmFacts DEF CalmAt
<1>7. /\ fatal' = "none" /\ session' # "reads" /\ \A b \in Agents : mark'[b] # Stale
      /\ \A i \in 1..Len(runq') : runq'[i] = Ctrl => i = Len(runq') /\ ~callbk'
  BY <1>1, <1>2 DEF CalmAt
<1> QED
  BY <1>4, <1>5, <1>6, <1>7 DEF Calm

\* unquench(): the queue after an agent took its task.
LEMMA Unquenched ==
  ASSUME NEW a, NEW q, NEW z, CalmAt(a, q, z)
  PROVE  /\ QueueTaken(a, q) \in QueueType /\ OutOnce(QueueTaken(a, q))
         /\ \A b : Queued(QueueTaken(a, q), b) <=>
                     Queued(q, b) \/ (b = a - 1 /\ Takes(a) /\ pendcount[a] = PendMin /\ Busy(a - 1))
<1>1. q \in QueueType /\ a - 1 \in Agents /\ a - 1 # Out /\ OutOnce(q)
  <2>1. a \in Agents /\ a # 1
    BY DEF CalmAt
  <2>2. a - 1 < Out
    BY <2>1, Neighbours
  <2> QED
    BY <2>1, <2>2, Neighbours DEF CalmAt, OutputQueued
<1>2. CASE Takes(a) /\ pendcount[a] = PendMin /\ Busy(a - 1)
  BY <1>1, <1>2, Queueing DEF QueueTaken
<1>3. CASE ~(Takes(a) /\ pendcount[a] = PendMin /\ Busy(a - 1))
  <2>1. QueueTaken(a, q) = q
    BY <1>3 DEF QueueTaken
  <2> QED
    BY <1>1, <1>3, <2>1
<1> QED
  BY <1>2, <1>3

\* Those whose successor takes a task are queued in time, and the rest is as before.
LEMMA NoneForgotten ==
  ASSUME NEW a, NEW q, NEW z, CalmAt(a, q, z), MayRun(a), NEW b \in Agents \ {a, a + 1},
         NEW qq, \A c : Queued(QueueTaken(a, q), c) => Queued(qq, c),
         inb'[b] = inb[b], pendin'[b] = pendin[b], runq' = qq, asleep' \in {z, z \cup {a}},
         a < Out => pendcount'[a + 1] >= CountTaken(a)[a + 1],
         \A c \in Agents \ {a + 1} : pendcount'[c] = CountTaken(a)[c]
  PROVE  Remembered(b, runq, asleep)'
<1>1. Busy(b)' = Busy(b)
  BY DEF Busy
<1>2. Remembered(b, q, z) /\ q \in QueueType /\ a \in Agents /\ PipeInv
  BY DEF CalmAt
<1>3. \A c : Queued(q, c) => Queued(qq, c)
  BY Unquenched
<1>4. ASSUME b < Out, pendcount[b + 1] >= PendMin, b + 1 # a PROVE pendcount'[b + 1] >= PendMin
  <2>1. b + 1 \in Agents /\ b + 1 # a + 1
    <3>1. a \in Agents /\ b # Out
      BY <1>2, <1>4, Neighbours
    <3>2. b \in Nat /\ a \in Nat /\ b # a
      BY <3>1, Neighbours
    <3> QED
      BY <3>1, <3>2, Neighbours
  <2>2. CountTaken(a)[b + 1] = pendcount[b + 1]
    BY <1>2, <1>4, <2>1, PipeTypes DEF CountTaken
  <2> QED
    BY <1>4, <2>1, <2>2
<1>5. ASSUME Busy(b), b + 1 = a, pendcount[a] >= PendMin PROVE Queued(qq, b) \/ pendcount'[a] >= PendMin
  <2>1. pendcount[a] \in Nat /\ pendcount \in [Agents -> Nat]
    BY <1>2, PipeTypes
  <2>2. b = a - 1 /\ a # a + 1
    BY <1>2, <1>5, Neighbours
  <2>3. CASE Takes(a) /\ pendcount[a] = PendMin
    BY <1>5, <2>2, <2>3, Unquenched
  <2>4. CASE ~Takes(a)
    BY <1>2, <1>5, <2>1, <2>2, <2>4 DEF CountTaken
  <2>5. CASE Takes(a) /\ pendcount[a] # PendMin
    <3>1. CountTaken(a)[a] = pendcount[a] - 1
      BY <1>2, <2>1, <2>5 DEF CountTaken
    <3> QED
      BY <1>2, <1>5, <2>1, <2>2, <2>5, <3>1, Constants
  <2> QED
    BY <2>3, <2>4, <2>5
<1>6. Busy(b) => Queued(qq, b) \/ b \in asleep' \/ (b < Out /\ pendcount'[b + 1] >= PendMin)
  BY <1>2, <1>3, <1>4, <1>5 DEF Remembered
<1> QED
  BY <1>1, <1>6 DEF Remembered, Queued

\* pass(): what is queued afterwards.
LEMMA PassQueue ==
  ASSUME NEW a, NEW q, NEW z, CalmAt(a, q, z), MayRun(a), a # Out,
         NEW x, NEW left, NEW again \in {<<>>, <<a>>}, Pass(a, x, left, again, q)
  PROVE  LET queued == a \in pendout \/ inb[a + 1] # NoTask IN
         /\ runq' \in QueueType /\ OutOnce(runq')
         /\ \A b : Queued(QueueTaken(a, q), b) => Queued(runq', b)
         /\ \A b : Queued(runq', b) => Queued(QueueTaken(a, q), b) \/ b = a \/ (b = a + 1 /\ ~queued)
         /\ ~queued => Queued(runq', a + 1)
         /\ again = <<a>> \/ (left = NoTask /\ CountTaken(a)[a] # 0) => Queued(runq', a)
         /\ ~queued => ~Busy(a + 1)
<1> DEFINE n == a + 1
           queued == a \in pendout \/ inb[n] # NoTask
           q1 == QueueTaken(a, q)
           q2 == IF queued THEN q1 ELSE Append(q1, n)
           q3 == IF again = <<a>> THEN Append(q2, a) ELSE q2
           q4 == IF CountTaken(a)[a] # 0 /\ left = NoTask THEN Append(q3, a) ELSE q3
<1>1. /\ n \in Agents /\ n # a /\ n > 1 /\ n - 1 = a /\ a \in Agents /\ a - 1 # Out /\ PipeInv
      /\ <<a>> # <<>>
  <2>1. a \in Agents /\ a # 1 /\ PipeInv
    BY DEF CalmAt
  <2>2. n \in Agents /\ n # a /\ n # 1 /\ n - 1 = a /\ a - 1 < Out
    BY <2>1, Neighbours
  <2>3. n > 1 /\ a - 1 # Out
    BY <2>2, Neighbours
  <2> QED
    BY <2>1, <2>2, <2>3
<1>2. q1 \in QueueType /\ OutOnce(q1) /\ \A b : Queued(q1, b) => Queued(q, b) \/ b = a - 1
  BY Unquenched
<1>3. ~queued => ~Busy(n)
  BY <1>1, PipeTypes DEF Busy
<1>4. ~queued /\ n = Out => ~Queued(q1, Out)
  BY <1>1, <1>2, <1>3 DEF CalmAt, OutputQueued
<1>5. runq' = Requeue(a, left, q1 \o (IF queued THEN <<>> ELSE <<n>>) \o again)
  BY DEF Pass
<1> HIDE DEF q1
<1>6. /\ q2 \in QueueType /\ OutOnce(q2) /\ q2 = q1 \o (IF queued THEN <<>> ELSE <<n>>)
      /\ \A b : Queued(q2, b) <=> Queued(q1, b) \/ (b = n /\ ~queued)
  <2>1. CASE queued
    BY <1>1, <1>2, <2>1, Queueing
  <2>2. CASE ~queued
    BY <1>1, <1>2, <1>4, <2>2, Queueing
  <2> QED
    BY <2>1, <2>2
<1> HIDE DEF q2, n
<1>7. /\ q3 \in QueueType /\ OutOnce(q3) /\ q3 = q2 \o again
      /\ \A b : Queued(q3, b) <=> Queued(q2, b) \/ (b = a /\ again = <<a>>)
  <2>1. CASE again = <<a>>
    BY <1>1, <1>6, <2>1, Queueing
  <2>2. CASE again = <<>>
    BY <1>1, <1>6, <2>2, Queueing
  <2> QED
    BY <2>1, <2>2
<1> HIDE DEF q3
<1>8. /\ q4 \in QueueType /\ OutOnce(q4) /\ q4 = Requeue(a, left, q3)
      /\ \A b : Queued(q4, b) <=> Queued(q3, b) \/ (b = a /\ CountTaken(a)[a] # 0 /\ left = NoTask)
  <2>1. CASE CountTaken(a)[a] # 0 /\ left = NoTask
    BY <1>1, <1>7, <2>1, Queueing DEF Requeue
  <2>2. CASE ~(CountTaken(a)[a] # 0 /\ left = NoTask)
    BY <1>7, <2>2 DEF Requeue
  <2> QED
    BY <2>1, <2>2
<1> HIDE DEF q4
<1>9. runq' = q4
  BY <1>5, <1>6, <1>7, <1>8
<1>10. \A b : Queued(runq', b) <=> \/ Queued(q1, b) \/ (b = n /\ ~queued)
                                   \/ (b = a /\ again = <<a>>)
                                   \/ (b = a /\ CountTaken(a)[a] # 0 /\ left = NoTask)
  BY <1>6, <1>7, <1>8, <1>9
<1>11. runq' \in QueueType /\ OutOnce(runq')
  BY <1>8, <1>9
<1> QED
  BY <1>3, <1>10, <1>11 DEF n, q1

\* pass(): whose tasks and lists change.
LEMMA PassState ==
  ASSUME NEW a \in Agents, NEW q \in QueueType, NEW z, CalmAt(a, q, z), MayRun(a), a # Out, NEW x \in Seq(Nat), x # NoTask,
         NEW left \in Seq(Nat), NEW again \in QueueType, again \in {<<>>, <<a>>}, Pass(a, x, left, again, q)
  PROVE  /\ fatal' = "none" /\ PendinTaken(a)[a] = pendin'[a] /\ inb'[a] = left
         /\ pendin'[a] # <<>> => CountTaken(a)[a] # 0
         /\ \A b \in Agents \ {a, a + 1} : inb'[b] = inb[b] /\ pendin'[b] = pendin[b]
         /\ \A b \in Agents \ {a + 1} : pendcount'[b] = CountTaken(a)[b]
         /\ pendcount'[a + 1] >= CountTaken(a)[a + 1]
         /\ Busy(a + 1)' /\ (inb[a + 1] # NoTask => inb'[a + 1] # NoTask)
         /\ ~(a \in pendout \/ inb[a + 1] # NoTask) => inb'[a + 1] = x /\ pendin' = PendinTaken(a)
<1> DEFINE n == a + 1
           queued == a \in pendout \/ inb[n] # NoTask
<1>1. a \in Agents /\ a # 1 /\ PipeInv /\ q \in QueueType /\ fatal = "none"
  BY DEF CalmAt
<1>2. n \in Agents /\ n # a /\ n # 1 /\ n - 1 = a
  BY <1>1, Neighbours
<1>3. n > 1
  BY <1>2, Neighbours
<1>4. again \in QueueType
  BY <1>1, QueueFacts
<1>5. /\ inb' \in [Agents -> Seq(Nat)] /\ inb'[a] = left
      /\ \A b \in Agents \ {a} : inb[b] # NoTask => inb'[b] = inb[b]
      /\ ListsOK(pendin', pendcount', pendout') /\ fatal' = fatal
  BY <1>1, <1>4, PassOK
<1>6. /\ ListsOK(PendinTaken(a), CountTaken(a), PendoutTaken(a))
      /\ \A b \in Agents \ {a} : PendinTaken(a)[b] = pendin[b]
  BY <1>1, Taken
<1>7. /\ PendinTaken(a) \in [Agents -> Seq(Seq(Nat))] /\ CountTaken(a) \in [Agents -> Nat]
      /\ CountTaken(a)[a] = Len(PendinTaken(a)[a]) /\ inb \in [Agents -> Seq(Nat)]
  BY <1>1, <1>6, PipeTypes DEF ListsOK
<1> HIDE DEF n
<1>8. /\ inb' = IF queued THEN [inb EXCEPT ![a] = left] ELSE [inb EXCEPT ![a] = left, ![n] = x]
      /\ pendin' = IF queued THEN [PendinTaken(a) EXCEPT ![n] = Extend(a, PendinTaken(a)[n], x)]
                   ELSE PendinTaken(a)
      /\ pendcount' = IF queued THEN [CountTaken(a) EXCEPT ![n] = CountTaken(a)[n] + 1] ELSE CountTaken(a)
      /\ pendout' = IF queued THEN PendoutTaken(a) \cup {a} ELSE PendoutTaken(a)
  BY DEF Pass, n
<1>9. \A b \in Agents \ {a, n} : inb'[b] = inb[b] /\ pendin'[b] = pendin[b]
  BY <1>6, <1>7, <1>8
<1>10. pendin'[a] = PendinTaken(a)[a] /\ \A b \in Agents \ {n} : pendcount'[b] = CountTaken(a)[b]
  BY <1>1, <1>2, <1>7, <1>8
<1>11. pendcount'[n] >= CountTaken(a)[n]
  <2>1. CountTaken(a)[n] \in Nat
    BY <1>2, <1>7
  <2>2. pendcount'[n] \in {CountTaken(a)[n], CountTaken(a)[n] + 1}
    BY <1>2, <1>7, <1>8
  <2> QED
    BY <2>1, <2>2
<1>12. pendin'[a] # <<>> => CountTaken(a)[a] # 0
  <2>1. pendin'[a] \in Seq(Seq(Nat))
    BY <1>1, <1>7, <1>10
  <2> QED
    BY <1>7, <1>10, <2>1, EmptySeq
<1>13. ~queued => inb'[n] = x /\ pendin' = PendinTaken(a)
  BY <1>2, <1>7, <1>8
<1>14. queued => pendin'[n] # <<>>
  <2>1. queued => a \in pendout'
    BY <1>8
  <2> QED
    BY <1>2, <1>3, <1>5, <2>1 DEF ListsOK
<1>15. Busy(n)' /\ (inb[n] # NoTask => inb'[n] # NoTask)
  BY <1>2, <1>5, <1>13, <1>14 DEF Busy
<1> QED
  BY <1>1, <1>5, <1>9, <1>10, <1>11, <1>12, <1>13, <1>15 DEF n

\* A task that was passed on leaves everybody remembered.
LEMMA PassCalm ==
  ASSUME NEW a \in Agents, NEW q \in QueueType, NEW z, CalmAt(a, q, z), MayRun(a), a # Out, NEW x \in Seq(Nat), x # NoTask,
         NEW left \in Seq(Nat), NEW again \in QueueType, again \in {<<>>, <<a>>}, Pass(a, x, left, again, q),
         left # NoTask => again = <<a>>, Failing # {} => left = NoTask /\ x # Dangling,
         asleep' = z, UNCHANGED conn, \A b \in Agents : mark'[b] # Stale
  PROVE  Calm'
<1> DEFINE n == a + 1
           queued == a \in pendout \/ inb[n] # NoTask
<1>1. /\ a \in Agents /\ a # 1 /\ PipeInv /\ q \in QueueType /\ n \in Agents /\ n # a /\ n # 1
      /\ 1 # Out /\ Out \in Agents /\ 1 \in Agents /\ a - 1 \in Agents /\ z \subseteq {Out}
  <2>1. a \in Agents /\ a # 1
    BY DEF CalmAt
  <2> QED
    BY <2>1, CalmFacts, Neighbours, Constants
<1>2. Busy(a) /\ callbk /\ answers = <<>> /\ ~Queued(q, Ctrl) /\ ~Busy(1)
  BY CalmFacts DEF MayRun
<1>3. /\ callbk' = callbk /\ session' = session /\ answers' = answers /\ applied' = applied
  BY DEF conn
<1>0. PendinTaken(a)[a] = pendin'[a] /\ left \in Seq(Nat)
  BY PassState
<1>4. /\ fatal' = "none" /\ inb'[a] = left /\ (pendin'[a] # <<>> => CountTaken(a)[a] # 0)
      /\ \A b \in Agents \ {a, n} : inb'[b] = inb[b] /\ pendin'[b] = pendin[b]
      /\ \A b \in Agents \ {n} : pendcount'[b] = CountTaken(a)[b]
      /\ pendcount'[n] >= CountTaken(a)[n]
      /\ Busy(n)' /\ (inb[n] # NoTask => inb'[n] # NoTask)
      /\ ~queued => inb'[n] = x /\ pendin' = PendinTaken(a)
  <2>1. fatal' = "none" /\ inb'[a] = left /\ (pendin'[a] # <<>> => CountTaken(a)[a] # 0)
    BY PassState
  <2>2. /\ \A b \in Agents \ {a, n} : inb'[b] = inb[b] /\ pendin'[b] = pendin[b]
        /\ \A b \in Agents \ {n} : pendcount'[b] = CountTaken(a)[b]
        /\ pendcount'[n] >= CountTaken(a)[n]
    BY PassState
  <2>3. Busy(n)' /\ (inb[n] # NoTask => inb'[n] # NoTask)
    BY PassState
  <2>4. ~queued => inb'[n] = x /\ pendin' = PendinTaken(a)
    BY PassState
  <2> QED
    BY <2>1, <2>2, <2>3, <2>4
<1>5. /\ runq' \in QueueType /\ OutOnce(runq')
      /\ \A b : Queued(QueueTaken(a, q), b) => Queued(runq', b)
      /\ \A b : Queued(runq', b) => Queued(QueueTaken(a, q), b) \/ b = a \/ (b = n /\ ~queued)
      /\ ~queued => Queued(runq', n)
      /\ again = <<a>> \/ (left = NoTask /\ CountTaken(a)[a] # 0) => Queued(runq', a)
      /\ ~queued => ~Busy(n)
  BY PassQueue
<1>6. \A b : Queued(QueueTaken(a, q), b) <=>
               Queued(q, b) \/ (b = a - 1 /\ Takes(a) /\ pendcount[a] = PendMin /\ Busy(a - 1))
  BY Unquenched
<1>7. Remembered(a, runq, asleep)'
  <2>1. Busy(a)' => Queued(runq', a)
    BY <1>4, <1>5 DEF Busy
  <2> QED
    BY <2>1 DEF Remembered, Queued
<1>8. Remembered(n, runq, asleep)'
  <2>1. CASE ~queued
    BY <1>5, <2>1 DEF Remembered, Queued
  <2>2. CASE queued
    <3>1. Busy(n)
      <4>1. n > 1 /\ n - 1 = a
        BY <1>1, Neighbours
      <4>2. a \in pendout => pendin[n] # <<>>
        BY <1>1, <4>1, PipeTypes
      <4> QED
        BY <2>2, <4>2 DEF Busy
    <3>2. Queued(q, n) \/ n \in z \/ (n < Out /\ pendcount[n + 1] >= PendMin)
      BY <1>1, <3>1 DEF CalmAt, Remembered
    <3>3. ASSUME n < Out PROVE pendcount'[n + 1] = pendcount[n + 1]
      <4>1. n + 1 \in Agents /\ n + 1 # a /\ n + 1 # n
        BY <1>1, <3>3, Neighbours
      <4>2. CountTaken(a)[n + 1] = pendcount[n + 1]
        BY <1>1, <4>1, PipeTypes DEF CountTaken
      <4> QED
        BY <1>4, <4>1, <4>2
    <3>4. Queued(q, n) => Queued(runq', n)
      BY <1>5, <1>6
    <3> QED
      BY <3>2, <3>3, <3>4 DEF Remembered, Queued
  <2> QED
    BY <2>1, <2>2
<1>9. ASSUME NEW b \in Agents \ {a, n} PROVE Remembered(b, runq, asleep)'
  BY <1>4, <1>5, <1>9, NoneForgotten
<1>10. inb'[1] = NoTask /\ 1 \notin asleep'
  BY <1>1, <1>4 DEF CalmAt
<1>11. ~Queued(runq', 1)
  <2>1. ~Queued(QueueTaken(a, q), 1)
    BY <1>2, <1>6 DEF CalmAt
  <2> QED
    BY <1>1, <1>5, <2>1
<1>12. OutputQueued(runq, asleep)'
  <2>1. Queued(QueueTaken(a, q), Out) => Queued(q, Out)
    <3>1. a - 1 # Out
      BY <1>1, Neighbours
    <3> QED
      BY <1>6, <3>1
  <2>2. ASSUME Queued(runq', Out) PROVE Busy(Out)'
    <3>1. CASE Out = n
      BY <1>4, <3>1
    <3>2. CASE Out # n
      BY <1>1, <1>4, <1>5, <2>1, <2>2, <3>2 DEF CalmAt, OutputQueued, Busy
    <3> QED
      BY <3>1, <3>2
  <2>3. ASSUME Out \in z PROVE inb'[Out] # NoTask /\ ~Queued(runq', Out)
    <3>1. inb[Out] # NoTask /\ ~Queued(q, Out)
      BY <2>3 DEF CalmAt, OutputQueued
    <3> QED
      BY <1>1, <1>4, <1>5, <2>1, <3>1
  <2> QED
    BY <1>5, <2>2, <2>3 DEF OutputQueued, OutOnce, Queued, Busy
<1>13. ~Queued(runq', Ctrl)
  <2>1. Ctrl # a /\ Ctrl # a - 1 /\ Ctrl # n
    BY <1>1, Neighbours
  <2> QED
    BY <1>2, <1>5, <1>6, <2>1
<1>14. Foreground'
  BY <1>2, <1>3 DEF Foreground
<1>15. Alone'
  <2> SUFFICES ASSUME Failing # {}
               PROVE  /\ \A b \in Agents : inb'[b] # Dangling /\ pendin'[b] = <<>>
                      /\ \A b, c \in Agents : Busy(b)' /\ Busy(c)' => b = c
    BY DEF Alone, Busy
  <2>1. /\ \A b \in Agents : inb[b] # Dangling /\ pendin[b] = <<>>
        /\ \A b, c \in Agents : Busy(b) /\ Busy(c) => b = c
    BY DEF CalmAt, Alone
  <2>2. ~queued
    <3>1. n > 1 /\ n - 1 = a
      BY <1>1, Neighbours
    <3>2. ~Busy(n)
      BY <1>1, <1>2, <2>1
    <3> QED
      BY <1>1, <2>1, <3>1, <3>2, PipeTypes DEF Busy
  <2>3. pendin' = pendin
    BY <1>1, <1>2, <1>4, <2>1, <2>2 DEF Busy, PendinTaken, Takes
  <2>4. \A b \in Agents \ {n} : ~Busy(b)'
    BY <1>1, <1>2, <1>4, <2>1, <2>3 DEF Busy
  <2>5. ASSUME NEW b \in Agents PROVE inb'[b] # Dangling
    <3>1. inb'[a] # Dangling
      <4>2. Dangling # NoTask
        BY DEF Dangling, NoTask
      <4> QED
        BY <1>4, <4>2
    <3>2. inb'[n] # Dangling
      BY <1>4, <2>2
    <3> QED
      BY <1>4, <2>1, <3>1, <3>2
  <2> QED
    BY <2>1, <2>3, <2>4, <2>5
<1>16. /\ session' # "reads" /\ \A i \in 1..Len(runq') : runq'[i] # Ctrl
  BY <1>3, <1>13 DEF CalmAt, Queued
<1>17. \A b \in Agents : Remembered(b, runq, asleep)'
  BY <1>7, <1>8, <1>9
<1>18. ~Queued(runq, 1)'
  BY <1>11 DEF Queued
<1> QED
  BY <1>4, <1>10, <1>12, <1>14, <1>15, <1>16, <1>17, <1>18 DEF Calm

LEMMA WorkCalm ==
  ASSUME NEW a \in Agents, NEW q \in QueueType, NEW z, CalmAt(a, q, z), Work(a, q, z)
  PROVE  Calm'
<1>1. /\ MayRun(a) /\ Kind[a] \in ReleasesFirst \cup ReleasesLast
      /\ Pass(a, Task(a), NoTask, <<>>, q)
      /\ asleep' = z /\ UNCHANGED <<mark, held, conn>>
  BY DEF Work
<1>2. a # Out
  BY <1>1, KindAssumption DEF Agents, Out, Outputs, ReleasesFirst, ReleasesLast
<1>3. PipeInv /\ \A b \in Agents : mark'[b] # Stale
  BY <1>1 DEF CalmAt
<1>4. Task(a) \in Seq(Nat) /\ Task(a) # NoTask
  BY <1>1, <1>3, Taken
<1>5. NoTask \in Seq(Nat) /\ <<>> \in QueueType /\ <<>> \in {<<>>, <<a>>}
  BY QueueFacts DEF NoTask
<1>6. Failing # {} => Task(a) # Dangling
  BY <1>1 DEF CalmAt, Alone, MayRun, Busy, Task, Takes
<1> QED
  BY <1>1, <1>2, <1>3, <1>4, <1>5, <1>6, PassCalm

LEMMA ChunkCalm ==
  ASSUME Undisturbed, NEW a \in Agents, NEW q \in QueueType, NEW z, CalmAt(a, q, z), Chunk(a, q, z)
  PROVE  Calm'
<1> DEFINE x    == Task(a)
           m    == mark[a] + 1
           more == m < Len(x)
           left == IF more THEN x ELSE NoTask
           again == IF more THEN <<a>> ELSE <<>>
<1>1. PipeInv /\ mark[a] # Stale /\ mark \in [Agents -> Nat \cup {Stale}] /\ \A b \in Agents : mark[b] # Stale
  BY PipeTypes DEF CalmAt
<1>2. /\ MayRun(a) /\ Kind[a] = "chunk" /\ Pass(a, <<x[m]>>, left, again, q)
      /\ mark' = [mark EXCEPT ![a] = IF more THEN m ELSE 0]
      /\ asleep' = z /\ UNCHANGED <<held, conn>>
  BY <1>1 DEF Chunk
<1>3. a # Out /\ Failing = {}
  BY <1>2, KindAssumption DEF Agents, Out, Outputs, Undisturbed
<1>4. /\ x \in Seq(Nat) /\ mark[a] \in Nat /\ m \in 1..Len(x) /\ Len(x) \in Nat
      /\ <<x[m]>> \in Seq(Nat) /\ <<x[m]>> # NoTask
  BY <1>1, <1>2, ChunkTask
<1> HIDE DEF x, m
<1>5. /\ left \in Seq(Nat) /\ again \in QueueType /\ again \in {<<>>, <<a>>}
      /\ left # NoTask => again = <<a>>
  BY <1>4, QueueFacts DEF NoTask
<1>6. \A b \in Agents : mark'[b] # Stale
  <2>1. m # Stale /\ 0 # Stale
    BY <1>4 DEF Stale
  <2> QED
    BY <1>1, <1>2, <2>1
<1> HIDE DEF left, again, more
<1> QED
  BY <1>2, <1>3, <1>4, <1>5, <1>6, PassCalm

\* The output waits for its descriptor with the task it has.
LEMMA PushCalm ==
  ASSUME NEW a \in Agents, NEW q \in QueueType, NEW z, CalmAt(a, q, z), Push(a, q, z)
  PROVE  Calm'
<1>1. MayRun(a) /\ a = Out /\ a # Ctrl /\ a # 1 /\ PipeInv /\ a \notin z /\ z = {}
  BY KindAssumption, Neighbours, CalmFacts DEF Push, Agents, Out, Outputs, CalmAt
<1>2. Keep(a, Task(a), q) /\ asleep' = z \cup {a} /\ UNCHANGED <<mark, held, conn>>
  BY <1>1 DEF Push
<1>3. /\ Task(a) \in Seq(Nat) /\ Task(a) # NoTask
      /\ \A b \in Agents \ {a} : PendinTaken(a)[b] = pendin[b] /\ Verdict(a) = fatal
  BY <1>1, Taken
<1>4. /\ inb' \in [Agents -> Seq(Nat)] /\ inb'[a] = Task(a)
      /\ \A b \in Agents \ {a} : inb'[b] = inb[b]
      /\ pendin' = PendinTaken(a) /\ pendcount' = CountTaken(a) /\ fatal' = fatal
  BY <1>1, <1>2, <1>3, KeepOK DEF Keep
<1>5. runq' = QueueTaken(a, q)
  BY <1>2, <1>3 DEF Keep, Requeue
<1>6. /\ \A b : Queued(runq', b) <=>
                  Queued(q, b) \/ (b = a - 1 /\ Takes(a) /\ pendcount[a] = PendMin /\ Busy(a - 1))
      /\ OutOnce(runq')
  BY <1>5, Unquenched
<1>7. /\ Busy(a) /\ callbk /\ answers = <<>> /\ ~Queued(q, Ctrl) /\ ~Busy(1)
      /\ a - 1 \in Agents /\ a - 1 # Out /\ a - 1 # Ctrl
  BY <1>1, CalmFacts, Neighbours DEF MayRun
<1>8. ASSUME NEW b \in Agents PROVE Remembered(b, runq, asleep)'
  <2>1. CASE b = a
    BY <1>2, <2>1 DEF Remembered
  <2>2. CASE b # a
    <3>1. b \in Agents \ {a, a + 1} /\ ~(a < Out)
      BY <1>1, <2>2, Neighbours
    <3>2. inb'[b] = inb[b] /\ pendin'[b] = pendin[b] /\ asleep' \in {z, z \cup {a}}
      BY <1>2, <1>3, <1>4, <2>2
    <3>3. \A c \in Agents \ {a + 1} : pendcount'[c] = CountTaken(a)[c]
      BY <1>4
    <3> QED
      BY <1>1, <1>5, <3>1, <3>2, <3>3, NoneForgotten
  <2> QED
    BY <2>1, <2>2
<1>9. /\ inb'[1] = NoTask /\ 1 \notin asleep' /\ 1 \in Agents
  BY <1>1, <1>2, <1>4, Constants DEF CalmAt
<1>10. ~Queued(runq, 1)' /\ ~Queued(runq', Ctrl)
  BY <1>6, <1>7 DEF CalmAt, Queued
<1>11. OutputQueued(runq, asleep)'
  <2>1. ~Queued(runq', Out)
    BY <1>1, <1>6, <1>7 DEF CalmAt
  <2> QED
    BY <1>1, <1>3, <1>4, <1>6, <2>1 DEF OutputQueued, OutOnce, Queued
<1>12. /\ callbk' = callbk /\ session' = session /\ answers' = answers /\ applied' = applied
       /\ mark' = mark
  BY <1>2 DEF conn
<1>13. Foreground'
  BY <1>7, <1>12 DEF Foreground
<1>14. Alone'
  <2> SUFFICES ASSUME Failing # {} PROVE inb' = inb /\ pendin' = pendin /\ Alone
    BY DEF Alone, Busy
  <2>1. pendin[a] = <<>> /\ Alone
    BY DEF CalmAt, Alone
  <2>2. ~Takes(a) /\ Task(a) = inb[a]
    BY <1>7, <2>1 DEF Busy, Takes, Task
  <2> QED
    BY <1>1, <1>2, <1>4, <2>1, <2>2, PipeTypes DEF PendinTaken, Keep
<1>15. fatal' = "none" /\ session' # "reads" /\ \A b \in Agents : mark'[b] # Stale
  BY <1>4, <1>12 DEF CalmAt
<1>16. \A i \in 1..Len(runq') : runq'[i] # Ctrl
  BY <1>10 DEF Queued
<1> QED
  BY <1>8, <1>9, <1>10, <1>11, <1>13, <1>14, <1>15, <1>16 DEF Calm

\* The output has written its task: the command is answered if that was the last one.
LEMMA WriteCalm ==
  ASSUME NEW a \in Agents, NEW q \in QueueType, NEW z, CalmAt(a, q, z), Write(a, q, z)
  PROVE  Calm'
<1>1. /\ MayRun(a) /\ Kind[a] \in Outputs
      /\ inb' = [inb EXCEPT ![a] = NoTask]
      /\ pendin' = PendinTaken(a) /\ pendcount' = CountTaken(a) /\ pendout' = PendoutTaken(a)
      /\ answers' = IF More(a) THEN answers ELSE Append(answers, "200")
      /\ callbk' = (callbk /\ More(a))
      /\ runq' = Requeue(a, NoTask, QueueTaken(a, q) \o Woken(a))
      /\ fatal' = IF ~callbk /\ ~More(a) THEN "862" ELSE Verdict(a)
      /\ asleep' = z
      /\ UNCHANGED <<mark, session, applied>>
  BY DEF Write
<1>2. a = Out /\ a # Ctrl /\ a # 1 /\ PipeInv /\ z = {} /\ ~(a < Out) /\ a + 1 \notin Agents
  BY <1>1, KindAssumption, Neighbours, CalmFacts DEF Agents, Out, CalmAt
<1>3. /\ Busy(a) /\ callbk /\ answers = <<>> /\ ~Queued(q, Ctrl) /\ ~Busy(1) /\ 1 \in Agents
      /\ a - 1 \in Agents /\ a - 1 # Out /\ a - 1 # Ctrl
  BY <1>1, <1>2, CalmFacts, Constants, Neighbours DEF MayRun
<1>4. /\ ListsOK(pendin', pendcount', pendout') /\ Verdict(a) = fatal
      /\ \A b \in Agents \ {a} : PendinTaken(a)[b] = pendin[b]
  BY <1>1, <1>2, Taken
<1>5. /\ inb \in [Agents -> Seq(Nat)] /\ inb'[a] = NoTask /\ \A b \in Agents \ {a} : inb'[b] = inb[b]
      /\ pendin'[a] = <<>> <=> pendcount'[a] = 0
  <2>1. pendcount'[a] = Len(pendin'[a]) /\ pendin'[a] \in Seq(Seq(Nat))
    BY <1>4 DEF ListsOK
  <2> QED
    BY <1>1, <1>2, <2>1, EmptySeq, PipeTypes
<1>6. /\ QueueTaken(a, q) \in QueueType /\ OutOnce(QueueTaken(a, q))
      /\ \A b : Queued(QueueTaken(a, q), b) <=>
                  Queued(q, b) \/ (b = a - 1 /\ Takes(a) /\ pendcount[a] = PendMin /\ Busy(a - 1))
  BY Unquenched
<1>7. ~Queued(QueueTaken(a, q), 1) /\ ~Queued(QueueTaken(a, q), Ctrl) /\ ~Queued(QueueTaken(a, q), Out)
  BY <1>2, <1>3, <1>6 DEF CalmAt
<1>8. /\ inb'[1] = NoTask /\ 1 \notin asleep' /\ asleep' = {}
      /\ fatal' = "none" /\ session' # "reads" /\ \A b \in Agents : mark'[b] # Stale
  BY <1>1, <1>2, <1>3, <1>4, <1>5 DEF CalmAt
<1>9. Alone'
  <2> SUFFICES ASSUME Failing # {}
               PROVE  /\ \A b \in Agents : inb'[b] \in {inb[b], NoTask} /\ pendin' = pendin /\ Alone
    <3>1. Dangling # NoTask
      BY DEF Dangling, NoTask
    <3> QED
      BY <3>1 DEF Alone, Busy
  <2>1. pendin[a] = <<>> /\ Alone
    BY DEF CalmAt, Alone
  <2>2. ~Takes(a)
    BY <1>3, <2>1 DEF Busy, Takes
  <2> QED
    BY <1>1, <1>5, <2>1, <2>2 DEF PendinTaken
<1>10. \A b \in Agents \ {a} : Busy(b)' <=> Busy(b)
  BY <1>1, <1>4, <1>5 DEF Busy
<1>11. CASE More(a)
  <2>1. runq' = IF pendcount'[a] # 0 THEN Append(QueueTaken(a, q), a) ELSE QueueTaken(a, q)
    <3>1. QueueTaken(a, q) \o Woken(a) = QueueTaken(a, q)
      BY <1>6, <1>11, Queueing, <1>2 DEF Woken
    <3> QED
      BY <1>1, <3>1 DEF Requeue
  <2>2. /\ \A b : Queued(runq', b) <=> Queued(QueueTaken(a, q), b) \/ (b = a /\ pendcount'[a] # 0)
        /\ OutOnce(runq')
    BY <1>2, <1>6, <1>7, <2>1, Queueing
  <2>3. ASSUME NEW b \in Agents PROVE Remembered(b, runq, asleep)'
    <3>1. CASE b = a
      BY <1>5, <2>2, <3>1 DEF Remembered, Busy, Queued
    <3>2. CASE b # a
      <4>1. b \in Agents \ {a, a + 1}
        BY <1>2, <3>2
      <4>2. inb'[b] = inb[b] /\ pendin'[b] = pendin[b] /\ asleep' \in {z, z \cup {a}}
        BY <1>1, <1>4, <1>5, <3>2
      <4>3. \A c : Queued(QueueTaken(a, q), c) => Queued(runq', c)
        BY <2>2
      <4>4. \A c \in Agents \ {a + 1} : pendcount'[c] = CountTaken(a)[c]
        BY <1>1
      <4> QED
        BY <1>1, <1>2, <4>1, <4>2, <4>3, <4>4, NoneForgotten
    <3> QED
      BY <3>1, <3>2
  <2>4. ~Queued(runq, 1)' /\ ~Queued(runq', Ctrl)
    BY <1>2, <1>7, <2>2 DEF Queued
  <2>5. OutputQueued(runq, asleep)'
    <3>1. Queued(runq', Out) => Busy(Out)'
      BY <1>2, <1>5, <1>7, <2>2 DEF Busy
    <3> QED
      BY <1>8, <2>2, <3>1 DEF OutputQueued, OutOnce, Queued, Busy
  <2>6. Foreground'
    <3>1. Len(answers') = 0 /\ answers' = <<>> /\ callbk' = TRUE
      BY <1>1, <1>3, <1>11
    <3> QED
      BY <3>1 DEF Foreground
  <2>7. \A i \in 1..Len(runq') : runq'[i] # Ctrl
    BY <2>4 DEF Queued
  <2> QED
    BY <1>8, <1>9, <2>3, <2>4, <2>5, <2>6, <2>7 DEF Calm
<1>12. CASE ~More(a)
  <2>1. \A b \in Agents : ~Busy(b)'
    BY <1>1, <1>5, <1>10, <1>12 DEF More, OthersBusy, Busy
  <2>2. callbk' = FALSE /\ answers' = <<"200">>
    <3>1. Append(<<>>, "200") = <<"200">>
      OBVIOUS
    <3> QED
      BY <1>1, <1>3, <1>12, <3>1
  <2>3. pendcount'[a] = 0
    BY <1>1, <1>5, <1>12 DEF More
  <2>4. runq' = Append(QueueTaken(a, q), Ctrl)
    <3>1. QueueTaken(a, q) \o Woken(a) = Append(QueueTaken(a, q), Ctrl)
      BY <1>3, <1>6, <1>12, Queueing DEF Woken
    <3> QED
      BY <1>1, <2>3, <3>1 DEF Requeue
  <2>5. /\ \A b : Queued(runq', b) <=> Queued(QueueTaken(a, q), b) \/ b = Ctrl
        /\ OutOnce(runq') /\ \A i \in 1..Len(runq') : runq'[i] = Ctrl => i = Len(runq')
    BY <1>2, <1>6, <1>7, <2>4, Queueing
  <2>6. ~Queued(runq, 1)' /\ OutputQueued(runq, asleep)'
    <3>1. 1 # Ctrl /\ Out # Ctrl
      BY <1>2, <1>3, Neighbours
    <3> QED
      BY <1>7, <1>8, <2>5, <3>1 DEF OutputQueued, OutOnce, Queued
  <2>7. Foreground'
    BY <2>1, <2>2 DEF Foreground, Busy
  <2>8. \A b \in Agents : Remembered(b, runq, asleep)'
    BY <2>1 DEF Remembered, Busy
  <2> QED
    BY <1>8, <1>9, <2>2, <2>5, <2>6, <2>7, <2>8 DEF Calm
<1> QED
  BY <1>11, <1>12

\* What fails is all the stream had to do: it is answered and nothing is left.
LEMMA FailCalm ==
  ASSUME NEW a \in Agents, NEW q \in QueueType, NEW z, Fail(a, q, z), Alone, PipeInv, z = {},
         fatal = "none", callbk, answers = <<>>, session = "waits", \A b \in Agents : mark[b] # Stale,
         \A b \in {1, Out, Ctrl} : ~Queued(q, b)
  PROVE  Calm'
<1> DEFINE left == IF Kind[a] \in ReleasesFirst THEN NoTask ELSE Task(a)
           ib == [inb EXCEPT ![a] = left]
           pi == PendinTaken(a)
           freed == FirstBusy(ib, pi)
           after == {b \in Agents : b - 1 \in freed}
           tail == QueueTaken(a, q) \o (IF callbk THEN <<Ctrl>> ELSE <<>>)
<1>1. /\ a \in Failing /\ MayRun(a)
      /\ inb' = [b \in Agents |-> IF b \in freed THEN NoTask ELSE ib[b]]
      /\ pendin' = [b \in Agents |-> IF b \in after THEN <<>> ELSE pi[b]]
      /\ mark' = [b \in Agents |-> IF b \in freed THEN StaleMark(b) ELSE mark[b]]
      /\ answers' = answers \o FailureCodes
      /\ callbk' = FALSE /\ asleep' = z
      /\ fatal' = IF \E b \in freed : ib[b] = Dangling THEN "dangling" ELSE Verdict(a)
      /\ UNCHANGED <<session, applied>>
  BY DEF Fail
<1>2. runq' = IF pendcount'[a] # 0 /\ inb'[a] = NoTask THEN Append(tail, a) ELSE tail
  BY DEF Fail
<1>3. /\ \A b \in Agents : inb[b] # Dangling /\ pendin[b] = <<>> /\ (b # a => inb[b] = NoTask)
      /\ inb[a] # NoTask
  <2>1. /\ \A b \in Agents : inb[b] # Dangling /\ pendin[b] = <<>>
        /\ \A b, c \in Agents : Busy(b) /\ Busy(c) => b = c
    BY <1>1 DEF Alone
  <2>2. Busy(a)
    BY <1>1 DEF MayRun
  <2> QED
    BY <2>1, <2>2 DEF Busy
<1>4. pi = pendin /\ QueueTaken(a, q) = q /\ Task(a) = inb[a] /\ Verdict(a) = fatal
  BY <1>3 DEF Takes, PendinTaken, QueueTaken, Task, Verdict
<1>5. /\ \A b \in Agents : ib[b] \in {inb[b], NoTask} /\ (b # a => ib[b] = NoTask)
      /\ freed \subseteq Agents /\ freed = {b \in Agents : b = a /\ ib[b] # NoTask}
  <2>1. \A b \in Agents : ib[b] \in {inb[b], NoTask} /\ (b # a => ib[b] = NoTask)
    BY <1>3, <1>4, PipeTypes
  <2>2. ASSUME NEW b \in Agents, NEW c \in 1..(b - 1) PROVE c \in Agents /\ c # b
    <3>1. b \in Nat /\ Out \in Nat /\ b <= Out
      BY Neighbours
    <3> QED
      BY <3>1 DEF Agents
  <2> HIDE DEF ib, pi
  <2>3. \A b \in Agents : b \in freed <=> b = a /\ ib[b] # NoTask
    BY <1>3, <1>4, <2>1, <2>2 DEF FirstBusy
  <2>4. freed \subseteq Agents
    BY DEF FirstBusy
  <2> HIDE DEF freed
  <2> QED
    BY <2>1, <2>3, <2>4
<1> HIDE DEF ib, pi, freed, after, left
<1>6. \A b \in Agents : inb'[b] = NoTask /\ pendin'[b] = <<>>
  BY <1>1, <1>3, <1>4, <1>5
<1>7. fatal' = "none"
  <2>1. Dangling # NoTask
    BY DEF Dangling, NoTask
  <2> QED
    BY <1>1, <1>3, <1>4, <1>5, <2>1
<1>8. pendcount'[a] = 0
  <2>1. PipeInv'
    <3>1. z \in SUBSET {1, Out}
      OBVIOUS
    <3> QED
      BY <3>1, FailOK
  <2>2. pendcount'[a] = Len(pendin'[a])
    BY <2>1 DEF PipeInv, ListsOK
  <2> QED
    BY <1>6, <2>2
<1>9. runq' = Append(q, Ctrl)
  <2>1. q \o <<Ctrl>> = Append(q, Ctrl)
    BY Queueing
  <2> QED
    BY <1>2, <1>4, <1>8, <2>1
<1>10. /\ \A b : Queued(runq', b) <=> Queued(q, b) \/ b = Ctrl
       /\ OutOnce(runq') /\ \A i \in 1..Len(runq') : runq'[i] = Ctrl => i = Len(runq')
  <2>1. OutOnce(q) /\ Ctrl # Out
    BY Constants DEF OutOnce, Queued, Ctrl
  <2> QED
    BY <1>9, <2>1, Queueing
<1>11. ~Queued(runq, 1)' /\ OutputQueued(runq, asleep)'
  <2>1. 1 # Ctrl /\ Out # Ctrl /\ 1 \in Agents /\ Out \in Agents
    BY Constants DEF Ctrl
  <2> QED
    BY <1>1, <1>10, <2>1 DEF OutputQueued, OutOnce, Queued
<1>12. \A b \in Agents : ~Busy(b)'
  BY <1>6 DEF Busy
<1>13. Foreground'
  <2>1. <<>> \o <<"4xx">> = <<"4xx">>
    OBVIOUS
  <2>2. Len(answers') = 1
    BY <1>1, <2>1 DEF FailureCodes
  <2> QED
    <3>1. Len(answers') <= 1
      BY <2>2
    <3>2. ~callbk'
      BY <1>1
    <3> QED
      BY <1>12, <2>2, <3>1, <3>2 DEF Foreground, Busy
<1>14. Alone'
  <2>1. Dangling # NoTask
    BY DEF Dangling, NoTask
  <2> QED
    BY <1>6, <1>12, <2>1 DEF Alone, Busy
<1>15. \A b \in Agents : Remembered(b, runq, asleep)'
  BY <1>12 DEF Remembered, Busy
<1>16. \A b \in Agents : mark'[b] # Stale
  <2>1. mark[a] = 0
    BY <1>1, FailAssumption DEF PipeInv, MarksOK
  <2> QED
    BY <1>1, <1>5, <2>1 DEF StaleMark, Stale
<1>17. inb'[1] = NoTask /\ 1 \notin asleep' /\ session' # "reads"
  BY <1>1, <1>6, Constants
<1> QED
  BY <1>1, <1>7, <1>10, <1>11, <1>13, <1>14, <1>15, <1>16, <1>17 DEF Calm

\* A timeslice of any agent but the input keeps the invariant.
LEMMA SliceCalm ==
  ASSUME Undisturbed, NEW a \in Agents, NEW q \in QueueType, NEW z, CalmAt(a, q, z), Slice(a, q, z)
  PROVE  Calm'
<1>1. CASE Fail(a, q, z)
  <2>1. /\ Failing # {} /\ Busy(a) /\ a # 1 /\ PipeInv
    BY <1>1 DEF Fail, MayRun, CalmAt
  <2>2. callbk /\ answers = <<>> /\ ~Queued(q, Ctrl) /\ ~Busy(1) /\ z \subseteq {Out}
    BY <2>1, CalmFacts
  <2>3. \A b \in Agents \ {a} : ~Busy(b)
    BY <2>1 DEF CalmAt, Alone
  <2>4. ~Queued(q, Out) /\ z = {} /\ Out \in Agents
    BY <2>2, <2>3, Constants DEF CalmAt, OutputQueued, Busy
  <2> QED
    <3>1. Alone /\ fatal = "none" /\ session = "waits" /\ ~Queued(q, 1) /\ \A b \in Agents : mark[b] # Stale
      BY DEF CalmAt
    <3> QED
      BY <1>1, <2>1, <2>2, <2>4, <3>1, FailCalm
<1>2. ~Input(a, q, z) /\ ~Join(a, q, z)
  BY CalmFacts DEF Input, Join, Undisturbed
<1> QED
  BY <1>1, <1>2, TurnedAwayCalm, WorkCalm, ChunkCalm, PushCalm, WriteCalm DEF Slice

\* A queue without its head.
LEMMA Dequeueing ==
  ASSUME NEW q \in QueueType, q # <<>>
  PROVE  /\ Tail(q) \in QueueType /\ Head(q) \in Agents \cup {Ctrl}
         /\ \A b : Queued(q, b) <=> b = Head(q) \/ Queued(Tail(q), b)
         /\ \A b : (\A i \in 1..Len(q) : q[i] = b => i = Len(q)) =>
                     \A i \in 1..Len(Tail(q)) : Tail(q)[i] = b => i = Len(Tail(q))
         /\ OutOnce(q) => OutOnce(Tail(q)) /\ (Head(q) = Out => ~Queued(Tail(q), Out))
<1>1. /\ Head(q) \in Agents \cup {Ctrl} /\ Head(q) = q[1] /\ Len(q) >= 1 /\ Tail(q) \in QueueType
      /\ Len(Tail(q)) = Len(q) - 1 /\ \A i \in 1..Len(Tail(q)) : Tail(q)[i] = q[i + 1]
      /\ Len(q) \in Nat
  BY TailFacts, LenProperties DEF QueueType
<1>2. \A i \in 1..Len(Tail(q)) : i + 1 \in 1..Len(q) /\ i + 1 # 1
  BY <1>1
<1>3. \A i \in 1..Len(q) : i = 1 \/ (i - 1 \in 1..Len(Tail(q)) /\ (i - 1) + 1 = i)
  BY <1>1
<1>4. 1 \in 1..Len(q)
  BY <1>1
<1>5. ASSUME NEW b PROVE Queued(q, b) <=> b = Head(q) \/ Queued(Tail(q), b)
  <2>1. ASSUME Queued(q, b), b # Head(q) PROVE Queued(Tail(q), b)
    <3>1. PICK i \in 1..Len(q) : q[i] = b
      BY <2>1 DEF Queued
    <3>2. i - 1 \in 1..Len(Tail(q)) /\ Tail(q)[i - 1] = b
      BY <1>1, <1>3, <2>1, <3>1
    <3> QED
      BY <3>2 DEF Queued
  <2>2. Queued(Tail(q), b) => Queued(q, b)
    BY <1>1, <1>2 DEF Queued
  <2>3. Queued(q, Head(q))
    BY <1>1, <1>4 DEF Queued
  <2> QED
    BY <2>1, <2>2, <2>3
<1>6. ASSUME NEW b, \A i \in 1..Len(q) : q[i] = b => i = Len(q), NEW i \in 1..Len(Tail(q)), Tail(q)[i] = b
      PROVE  i = Len(Tail(q))
  <2>1. q[i + 1] = b /\ i + 1 \in 1..Len(q)
    BY <1>1, <1>2, <1>6
  <2>2. i + 1 = Len(q)
    BY <1>6, <2>1
  <2>3. i \in Int /\ Len(q) \in Int /\ Len(Tail(q)) = Len(q) - 1
    BY <1>1
  <2> QED
    BY <2>2, <2>3
<1>7. ASSUME OutOnce(q) PROVE OutOnce(Tail(q)) /\ (Head(q) = Out => ~Queued(Tail(q), Out))
  <2>1. ASSUME NEW i \in 1..Len(Tail(q)), NEW j \in 1..Len(Tail(q)), Tail(q)[i] = Out, Tail(q)[j] = Out
        PROVE  i = j
    <3>1. /\ i + 1 \in 1..Len(q) /\ j + 1 \in 1..Len(q) /\ q[i + 1] = Out /\ q[j + 1] = Out
      BY <1>1, <1>2, <2>1
    <3>2. i + 1 = j + 1
      BY <1>7, <3>1 DEF OutOnce
    <3> QED
      BY <1>1, <3>2
  <2>2. ASSUME Head(q) = Out, NEW i \in 1..Len(Tail(q)), Tail(q)[i] = Out PROVE FALSE
    <3>1. i + 1 \in 1..Len(q) /\ q[i + 1] = Out /\ q[1] = Out /\ i + 1 # 1
      BY <1>1, <1>2, <2>2
    <3> QED
      BY <1>4, <1>7, <3>1 DEF OutOnce
  <2> QED
    BY <2>1, <2>2 DEF OutOnce, Queued
<1> QED
  BY <1>1, <1>5, <1>6, <1>7

LEMMA DispatchCalm ==
  ASSUME Undisturbed, StreamInv, Dispatch
  PROVE  Calm'
<1> DEFINE a == Head(runq)
           q == Tail(runq)
<1>1. /\ PipeInv /\ Calm /\ runq \in QueueType /\ runq # <<>> /\ a # Ctrl /\ Slice(a, q, asleep)
      /\ asleep \subseteq {1, Out} /\ session \in {"reads", "waits"}
  BY DEF StreamInv, Dispatch, PipeInv, ConnOK
<1>2. /\ q \in QueueType /\ a \in Agents
      /\ \A b : Queued(runq, b) <=> b = a \/ Queued(q, b)
      /\ \A b : (\A i \in 1..Len(runq) : runq[i] = b => i = Len(runq)) =>
                  \A i \in 1..Len(q) : q[i] = b => i = Len(q)
      /\ OutOnce(runq) => OutOnce(q) /\ (a = Out => ~Queued(q, Out))
  BY <1>1, Dequeueing
<1> HIDE DEF a, q
<1>3. /\ a # 1 /\ 1 \notin asleep /\ inb[1] = NoTask /\ session = "waits" /\ ~Queued(q, 1)
  BY <1>1, <1>2 DEF Calm
<1>4. asleep \in SUBSET {Out}
  BY <1>1, <1>3
<1>5. OutputQueued(q, asleep) /\ (a = Out => Out \notin asleep /\ ~Queued(q, Out))
  BY <1>1, <1>2 DEF Calm, OutputQueued
<1>6. \A b \in Agents \ {a} : Remembered(b, q, asleep)
  BY <1>1, <1>2 DEF Calm, Remembered
<1>7. \A i \in 1..Len(q) : q[i] = Ctrl => i = Len(q) /\ ~callbk
  <2>1. Queued(q, Ctrl) => ~callbk
    BY <1>1, <1>2 DEF Calm, Queued
  <2>2. \A i \in 1..Len(q) : q[i] = Ctrl => i = Len(q)
    BY <1>1, <1>2 DEF Calm
  <2> QED
    BY <2>1, <2>2 DEF Queued
<1>8. CalmAt(a, q, asleep)
  BY <1>1, <1>2, <1>3, <1>4, <1>5, <1>6, <1>7 DEF Calm, CalmAt
<1> QED
  BY <1>1, <1>2, <1>8, SliceCalm

LEMMA DrainCalm ==
  ASSUME Undisturbed, StreamInv, Drain
  PROVE  Calm'
<1>1. /\ PipeInv /\ Calm /\ runq \in QueueType /\ Out \in asleep /\ Slice(Out, runq, asleep \ {Out})
      /\ asleep \subseteq {1, Out} /\ session \in {"reads", "waits"} /\ Out \in Agents /\ 1 # Out
  BY Constants DEF StreamInv, Drain, PipeInv, ConnOK
<1>2. inb[Out] # NoTask /\ ~Queued(runq, Out)
  BY <1>1 DEF Calm, OutputQueued
<1>3. 1 \notin asleep /\ inb[1] = NoTask
  BY <1>1 DEF Calm
<1>4. asleep \ {Out} = {} /\ session = "waits"
  BY <1>1, <1>2, <1>3 DEF Calm, Foreground, Busy
<1>5. OutputQueued(runq, {})
  BY <1>1, <1>2 DEF Calm, OutputQueued
<1>6. \A b \in Agents \ {Out} : Remembered(b, runq, {})
  BY <1>1, <1>3 DEF Calm, Remembered
<1>7. CalmAt(Out, runq, {})
  BY <1>1, <1>2, <1>3, <1>4, <1>5, <1>6 DEF Calm, CalmAt
<1> QED
  BY <1>1, <1>4, <1>7, SliceCalm

\* The text has arrived: the input passes it on, or fails, with everything else at rest.
LEMMA ReceiveCalm ==
  ASSUME Undisturbed, StreamInv, Receive
  PROVE  Calm'
<1>1. /\ PipeInv /\ Calm /\ 1 \in asleep /\ Slice(1, runq, asleep \ {1})
      /\ 1 \in Agents /\ 1 # Out /\ Out \in Agents /\ 1 + 1 \in Agents /\ ~(1 + 1 = 1)
      /\ Kind[1] = "input" /\ session \in {"reads", "waits"}
  <2>1. 1 \in Agents /\ 1 # Out /\ Out \in Agents
    BY Constants
  <2>2. Kind[1] = "input"
    BY <2>1, KindAssumption DEF Agents, Out
  <2> QED
    BY <2>1, <2>2, Neighbours DEF StreamInv, Receive, PipeInv, ConnOK
<1>2. /\ runq = <<>> /\ asleep \ {1} = {} /\ inb[1] # NoTask /\ pendin[1] = <<>>
      /\ \A b \in Agents \ {1} : inb[b] = NoTask /\ pendin[b] = <<>>
  BY <1>1, PipeTypes DEF Calm, Busy
<1>3. callbk /\ answers = <<>> /\ session = "waits"
  BY <1>1, <1>2 DEF Calm, Foreground, Busy
<1>4. <<>> \in QueueType /\ \A b : ~Queued(<<>>, b)
  BY QueueFacts DEF Queued
<1>5. CASE Fail(1, <<>>, {})
  BY <1>1, <1>3, <1>4, <1>5, FailCalm DEF Calm
<1>6. ~TurnedAway(1, <<>>, {})
  <2>1. pendcount[1 + 1] = 0 /\ ~(0 > PendMax)
    BY <1>1, <1>2, PipeTypes, Constants
  <2> QED
    BY <1>2, <2>1 DEF TurnedAway, MayRun, IsSatiated, Busy
<1>7. CASE Input(1, <<>>, {})
  <2>1. /\ MayRun(1) /\ Pass(1, inb[1], NoTask, <<>>, <<>>) /\ asleep' = {}
        /\ UNCHANGED <<mark, held, conn>>
    BY <1>7 DEF Input
  <2>2. 1 \notin pendout
    <3>1. 1 + 1 > 1 /\ (1 + 1) - 1 = 1
      OBVIOUS
    <3>2. \A b \in Agents : b > 1 => (b - 1 \in pendout <=> pendin[b] # <<>>)
      BY <1>1, PipeTypes
    <3>3. pendin[1 + 1] = <<>>
      BY <1>1, <1>2
    <3> QED
      BY <1>1, <3>1, <3>2, <3>3
  <2>3. /\ ~Takes(1) /\ PendinTaken(1) = pendin /\ CountTaken(1) = pendcount
        /\ QueueTaken(1, <<>>) = <<>> /\ Verdict(1) = fatal /\ pendcount[1] = 0
    BY <1>1, <1>2, PipeTypes DEF Takes, PendinTaken, CountTaken, QueueTaken, Verdict
  <2>4. /\ inb' = [inb EXCEPT ![1] = NoTask, ![1 + 1] = inb[1]] /\ pendin' = pendin /\ fatal' = fatal
        /\ runq' = <<1 + 1>>
    <3>1. ~(1 \in pendout \/ inb[1 + 1] # NoTask)
      BY <1>1, <1>2, <2>2
    <3>2. <<>> \o <<1 + 1>> \o <<>> = <<1 + 1>>
      OBVIOUS
    <3> QED
      BY <2>1, <2>3, <3>1, <3>2 DEF Pass, Requeue
  <2>5. /\ inb'[1] = NoTask /\ inb'[1 + 1] = inb[1]
        /\ \A b \in Agents \ {1, 1 + 1} : inb'[b] = NoTask
        /\ \A b \in Agents : pendin'[b] = <<>>
    BY <1>1, <1>2, <2>4, PipeTypes
  <2>6. \A b : Queued(runq', b) <=> b = 1 + 1
    <3>1. Len(runq') = 1 /\ runq'[1] = 1 + 1
      BY <2>4
    <3> QED
      BY <3>1 DEF Queued
  <2>7. \A b \in Agents : Busy(b)' <=> b = 1 + 1
    BY <1>1, <1>2, <2>5 DEF Busy
  <2>8. \A b \in Agents : Remembered(b, runq, asleep)'
    BY <2>6, <2>7 DEF Remembered, Busy, Queued
  <2>9. ~Queued(runq, 1)' /\ OutputQueued(runq, asleep)'
    <3>1. OutOnce(runq')
      <4>1. Len(runq') = 1
        BY <2>4
      <4> QED
        BY <4>1 DEF OutOnce
    <3> QED
      BY <1>1, <2>1, <2>6, <2>7, <3>1 DEF OutputQueued, OutOnce, Queued, Busy
  <2>10. \A i \in 1..Len(runq') : runq'[i] # Ctrl
    BY <2>6 DEF Queued, Ctrl
  <2>11. /\ callbk' = callbk /\ session' = session /\ answers' = answers /\ applied' = applied /\ mark' = mark
    BY <2>1 DEF conn
  <2>12. Foreground'
    BY <1>3, <2>11 DEF Foreground
  <2>13. Alone'
    <3>1. Dangling # NoTask
      BY DEF Dangling, NoTask
    <3>2. Failing # {} => inb[1] # Dangling
      BY <1>1 DEF Calm, Alone
    <3>3. \A b \in Agents : Failing # {} => inb'[b] # Dangling
      BY <2>5, <3>1, <3>2
    <3> QED
      BY <2>5, <2>7, <3>3 DEF Alone, Busy
  <2>14. fatal' = "none" /\ session' # "reads" /\ \A b \in Agents : mark'[b] # Stale
    BY <1>1, <1>3, <2>4, <2>11 DEF Calm
  <2> QED
    BY <2>1, <2>5, <2>8, <2>9, <2>10, <2>12, <2>13, <2>14 DEF Calm
<1>8. Slice(1, <<>>, {})
  BY <1>1, <1>2
<1>9. Input(1, <<>>, {}) \/ Fail(1, <<>>, {})
  BY <1>1, <1>6, <1>8 DEF Slice, Work, Chunk, Join, Push, Write, ReleasesFirst, ReleasesLast, Outputs
<1> QED
  BY <1>5, <1>7, <1>9

LEMMA ResumeCalm ==
  ASSUME StreamInv, Resume
  PROVE  Calm'
<1>1. /\ PipeInv /\ Calm /\ runq \in QueueType /\ runq # <<>> /\ Head(runq) = Ctrl
      /\ runq' = Tail(runq) /\ session' = "reads"
      /\ UNCHANGED <<inb, pendin, pendcount, mark, asleep, callbk, answers, applied, fatal>>
  BY DEF StreamInv, PipeInv, ConnOK, Resume, pipe
<1>2. runq[1] = Ctrl /\ Len(runq) \in Nat /\ 1 \in 1..Len(runq) /\ (Tail(runq) = <<>> <=> Len(runq) = 1)
  <2>1. /\ Head(runq) = runq[1] /\ Len(runq) >= 1 /\ (Tail(runq) = <<>> <=> Len(runq) = 1)
        /\ Len(runq) \in Nat
    BY <1>1, TailFacts, LenProperties DEF QueueType
  <2> QED
    BY <1>1, <2>1
<1>3. runq' = <<>> /\ ~callbk
  BY <1>1, <1>2 DEF Calm
<1>4. \A b \in Agents : ~Busy(b) /\ inb[b] = NoTask
  BY <1>1, <1>3 DEF Calm, Foreground, Busy
<1>5. asleep = {} /\ 1 \in Agents /\ Out \in Agents
  BY <1>1, <1>4, Constants DEF Calm, OutputQueued, PipeInv, ConnOK
<1>6. \A b \in Agents : Remembered(b, runq, asleep)' /\ ~Busy(b)'
  BY <1>1, <1>4 DEF Remembered, Busy
<1>7. ~Queued(runq, 1)' /\ OutputQueued(runq, asleep)'
  <2>1. Len(runq') = 0 /\ asleep' = {}
    BY <1>1, <1>3, <1>5
  <2> QED
    BY <2>1 DEF Queued, OutputQueued, OutOnce
<1>8. Foreground' /\ Alone'
  BY <1>1, <1>4 DEF Calm, Foreground, Alone, Busy
<1> QED
  BY <1>1, <1>3, <1>4, <1>5, <1>6, <1>7, <1>8 DEF Calm

LEMMA ApplyCalm ==
  ASSUME StreamInv, Apply
  PROVE  Calm'
<1>1. PipeInv /\ Calm /\ session = "reads" /\ applied < MaxAppl /\ 1 \in Agents /\ Out \in Agents /\ 1 # Out
  BY Constants DEF StreamInv, Apply
<1>2. runq = <<>> /\ ~callbk
  BY <1>1 DEF Calm
<1>3. \A b \in Agents : ~Busy(b) /\ inb[b] = NoTask /\ pendin[b] = <<>>
  BY <1>1, <1>2 DEF Calm, Foreground, Busy
<1>4. asleep = {}
  BY <1>1, <1>3 DEF Calm, OutputQueued, PipeInv, ConnOK
<1>5. PICK k \in 1..MaxUtt : inb' = [inb EXCEPT ![1] = Text(k)]
  BY <1>1, <1>3, <1>4 DEF Apply
<1>6. /\ asleep' = {1} /\ callbk' = TRUE /\ session' = "waits" /\ answers' = <<>>
      /\ UNCHANGED <<pendin, pendcount, mark, runq, fatal>>
  BY <1>1, <1>3, <1>4 DEF Apply
<1>7. Text(k) # NoTask /\ Text(k) # Dangling
  <2>1. k \in Nat /\ k >= 1
    BY <1>5, BoundAssumption
  <2>2. Text(k) \in [1..k -> Nat] /\ Text(k)[1] = 1
    BY <2>1 DEF Text
  <2>3. Text(k) \in Seq(Nat) /\ Len(Text(k)) = k
    BY <2>1, <2>2, SeqDef, LenProperties
  <2>4. Text(k) # <<>>
    BY <2>1, <2>3, EmptySeq
  <2>5. Dangling[1] = 0
    BY DEF Dangling
  <2> QED
    BY <2>2, <2>4, <2>5 DEF NoTask
<1>8. inb'[1] = Text(k) /\ \A b \in Agents \ {1} : inb'[b] = NoTask
  BY <1>1, <1>3, <1>5, PipeTypes
<1>9. \A b \in Agents : pendin'[b] = <<>> /\ (Busy(b)' <=> b = 1)
  BY <1>1, <1>3, <1>6, <1>7, <1>8 DEF Busy
<1>10. \A b \in Agents : Remembered(b, runq, asleep)'
  BY <1>6, <1>9 DEF Remembered, Busy
<1>11. ~Queued(runq, 1)' /\ OutputQueued(runq, asleep)' /\ runq' = <<>>
  BY <1>1, <1>2, <1>6 DEF Queued, OutputQueued, OutOnce
<1>12. Foreground'
  BY <1>6 DEF Foreground
<1>13. Alone'
  <2>1. Dangling # NoTask
    BY DEF Dangling, NoTask
  <2>2. \A b \in Agents : inb'[b] # Dangling
    BY <1>7, <1>8, <2>1
  <2> QED
    BY <1>9, <2>2 DEF Alone, Busy
<1>14. \A b \in Agents \ {1} : ~Busy(b)'
  BY <1>9
<1> QED
  BY <1>1, <1>6, <1>7, <1>8, <1>10, <1>11, <1>12, <1>13, <1>14 DEF Calm, Busy

LEMMA StreamInvInit == Init => StreamInv
<1> SUFFICES ASSUME Init PROVE Calm
  BY InitOK DEF StreamInv
<1>1. /\ \A b \in Agents : inb[b] = NoTask /\ pendin[b] = <<>> /\ mark[b] = 0
      /\ runq = <<>> /\ asleep = {} /\ callbk = FALSE /\ answers = <<>> /\ applied = 0 /\ fatal = "none"
  BY DEF Init
<1>2. \A b \in Agents : ~Busy(b)
  BY <1>1 DEF Busy
<1>3. Foreground /\ \A b \in Agents : Remembered(b, runq, asleep)
  BY <1>1, <1>2 DEF Foreground, Remembered
<1>4. ~Queued(runq, 1) /\ OutputQueued(runq, asleep)
  BY <1>1 DEF Queued, OutputQueued, OutOnce
<1>5. Alone
  <2>1. Dangling # NoTask
    BY DEF Dangling, NoTask
  <2> QED
    BY <1>1, <1>2, <2>1 DEF Alone
<1>6. 1 \in Agents /\ 0 # Stale
  BY Constants DEF Stale
<1> QED
  BY <1>1, <1>3, <1>4, <1>5, <1>6 DEF Calm

LEMMA StreamInvStep == Undisturbed => (StreamInv /\ [Next]_vars => StreamInv')
<1> SUFFICES ASSUME Undisturbed, StreamInv, [Next]_vars PROVE StreamInv'
  OBVIOUS
<1>1. PipeInv'
  BY NextOK DEF StreamInv
<1>2. ~Interrupt
  BY DEF Interrupt, StreamInv, PipeInv, ConnOK, Undisturbed
<1>3. ASSUME UNCHANGED vars PROVE Calm'
  BY <1>3 DEF vars, pipe, sched, conn, StreamInv, Calm, Remembered, Queued, OutputQueued, OutOnce,
              Foreground, Alone, Busy
<1>4. Calm'
  BY <1>2, <1>3, DispatchCalm, ReceiveCalm, DrainCalm, ResumeCalm, ApplyCalm DEF Next
<1> QED
  BY <1>1, <1>4 DEF StreamInv

\* Nobody who has work is forgotten: in a stream that nobody disturbs every
\* agent that has something to do is queued, sleeps, or waits behind a list
\* that unquench() will see shrink; and the server never dies of 861 or 862.
THEOREM NoneLost == ASSUME Undisturbed PROVE Spec => []Scheduled
<1>1. StreamInv => Scheduled
  BY DEF StreamInv, Calm, Remembered, Scheduled, NoLostWakeup, NoFatal
<1>2. StreamInv /\ [Next]_vars => StreamInv'
  BY StreamInvStep
<1> QED
  BY <1>1, <1>2, StreamInvInit, PTL DEF Spec

\* A command is answered once, and when its connection reads on the stream is at rest.
THEOREM AnsweredAtRest == ASSUME Undisturbed PROVE Spec => []Concluded
<1>1. StreamInv => Concluded
  <2> SUFFICES ASSUME StreamInv PROVE QuietWhenReading /\ CompletedOnce
    BY DEF Concluded
  <2>1. ASSUME session = "reads"
        PROVE  /\ runq = <<>> /\ (\A a \in Agents : ~Busy(a)) /\ asleep = {}
               /\ (applied > 0 => Len(answers) = 1)
    <3>1. runq = <<>> /\ ~callbk
      BY <2>1 DEF StreamInv, Calm
    <3>2. \A a \in Agents : ~Busy(a)
      BY <3>1 DEF StreamInv, Calm, Foreground
    <3>3. asleep = {}
      BY <3>2, Constants DEF StreamInv, Calm, OutputQueued, PipeInv, ConnOK, Busy
    <3> QED
      BY <3>1, <3>2, <3>3 DEF StreamInv, Calm, Foreground
  <2>2. Len(answers) <= 1
    BY DEF StreamInv, Calm, Foreground
  <2> QED
    BY <2>1, <2>2 DEF QuietWhenReading, CompletedOnce
<1>2. StreamInv /\ [Next]_vars => StreamInv'
  BY StreamInvStep
<1> QED
  BY <1>1, <1>2, StreamInvInit, PTL DEF Spec

-----------------------------------------------------------------------------
(* Streams in which nothing fails deliver the text: between what was       *)
(* delivered and what the client announced, the tasks of the agents hold   *)
(* the utterances in their order, none twice and none left out.            *)

\* x holds the utterances that follow lo.
Follows(x, lo) == \A j \in 1..Len(x) : x[j] = lo + j

\* The list pi holds the utterances up to hi; c[i] is the last one of its i-th task.
ListAt(pi, hi, c) ==
  /\ c \in [Nat -> Nat] /\ c[Len(pi)] = hi
  /\ \A i \in 1..Len(pi) : c[i] = c[i - 1] + Len(pi[i]) /\ Follows(pi[i], c[i - 1])
  /\ \A i \in 0..Len(pi) : c[i] <= hi

\* An agent that works on t, of which s utterances are passed on, and whose list is pi,
\* has the utterances after lo up to hi.
LineAt(t, s, pi, lo, hi, c) ==
  /\ s <= Len(t) /\ c[0] = lo + (Len(t) - s)
  /\ \A j \in 1..Len(t) : j > s => t[j] = lo + (j - s)
  /\ ListAt(pi, hi, c)

Line(t, s, pi, lo, hi) == \E c \in [Nat -> Nat] : LineAt(t, s, pi, lo, hi, c)

LEMMA NonEmpty ==
  ASSUME NEW S, NEW s \in Seq(S), s # <<>>
  PROVE  Len(s) \in Nat /\ Len(s) >= 1 /\ Len(s) \in 1..Len(s) /\ 1 \in 1..Len(s) /\ s[1] \in S /\ s[Len(s)] \in S
<1>1. Len(s) \in Nat /\ Len(s) # 0
  BY EmptySeq, LenProperties
<1>2. Len(s) \in 1..Len(s) /\ 1 \in 1..Len(s)
  BY <1>1
<1> QED
  BY <1>1, <1>2, ElementOfSeq

\* The head of the list becomes the task.
LEMMA LineTaken ==
  ASSUME NEW t, t = <<>>, NEW pi \in Seq(Seq(Nat)), pi # <<>>, NEW lo \in Nat, NEW hi \in Nat,
         Line(t, 0, pi, lo, hi)
  PROVE  Line(Head(pi), 0, Tail(pi), lo, hi)
<1>1. PICK c \in [Nat -> Nat] : LineAt(t, 0, pi, lo, hi, c)
  BY DEF Line
<1>2. /\ Head(pi) \in Seq(Nat) /\ Head(pi) = pi[1] /\ Len(pi) >= 1 /\ Len(pi) \in Nat
      /\ Len(Tail(pi)) = Len(pi) - 1 /\ \A i \in 1..Len(Tail(pi)) : Tail(pi)[i] = pi[i + 1]
  BY TailFacts, LenProperties
<1> DEFINE d == [i \in Nat |-> c[i + 1]]
<1>3. d \in [Nat -> Nat] /\ \A i \in Nat : d[i] = c[i + 1]
  <2>1. \A i \in Nat : i + 1 \in Nat
    OBVIOUS
  <2>2. \A i \in Nat : c[i + 1] \in Nat
    BY <2>1
  <2> QED
    BY <2>2
<1> HIDE DEF d
<1>4. 1 \in 1..Len(pi) /\ Len(Head(pi)) \in Nat
  BY <1>2, LenProperties
<1>5. c[0] = lo /\ c[0] \in Nat
  BY <1>1 DEF LineAt, ListAt
<1>6. c[1] = c[1 - 1] + Len(pi[1]) /\ Follows(pi[1], c[1 - 1])
  BY <1>1, <1>4 DEF LineAt, ListAt
<1>7. d[0] = lo + (Len(Head(pi)) - 0) /\ \A j \in 1..Len(Head(pi)) : Head(pi)[j] = lo + (j - 0)
  <2>1. d[0] = c[1] /\ 1 - 1 = 0
    BY <1>3
  <2>2. d[0] = lo + Len(Head(pi)) /\ Follows(Head(pi), lo)
    BY <1>2, <1>5, <1>6, <2>1
  <2> QED
    BY <1>4, <2>2 DEF Follows
<1>8. d[Len(Tail(pi))] = hi
  <2>1. Len(Tail(pi)) \in Nat /\ Len(Tail(pi)) + 1 = Len(pi)
    BY <1>2
  <2> QED
    BY <1>1, <1>3, <2>1 DEF LineAt, ListAt
<1>9. ASSUME NEW i \in 1..Len(Tail(pi))
      PROVE  d[i] = d[i - 1] + Len(Tail(pi)[i]) /\ Follows(Tail(pi)[i], d[i - 1])
  <2>1. i + 1 \in 1..Len(pi) /\ i - 1 \in Nat /\ i \in Nat /\ (i - 1) + 1 = i /\ (i + 1) - 1 = i
    BY <1>2
  <2>2. c[i + 1] = c[(i + 1) - 1] + Len(pi[i + 1]) /\ Follows(pi[i + 1], c[(i + 1) - 1])
    BY <1>1, <2>1 DEF LineAt, ListAt
  <2>3. d[i] = c[i + 1] /\ d[i - 1] = c[i]
    BY <1>3, <2>1
  <2> QED
    BY <1>2, <2>1, <2>2, <2>3
<1>10. ASSUME NEW i \in 0..Len(Tail(pi)) PROVE d[i] <= hi
  <2>1. i + 1 \in 0..Len(pi) /\ i \in Nat
    BY <1>2
  <2> QED
    BY <1>1, <1>3, <2>1 DEF LineAt, ListAt
<1>11. ListAt(Tail(pi), hi, d)
  BY <1>3, <1>8, <1>9, <1>10 DEF ListAt
<1>12. LineAt(Head(pi), 0, Tail(pi), lo, hi, d)
  <2>1. 0 <= Len(Head(pi))
    BY <1>4
  <2> QED
    BY <1>7, <1>11, <2>1 DEF LineAt
<1> QED
  BY <1>3, <1>12 DEF Line

\* The rest of the task is passed on.
LEMMA LinePassed ==
  ASSUME NEW t \in Seq(Nat), NEW s \in Nat, NEW pi \in Seq(Seq(Nat)), NEW lo \in Nat, NEW hi \in Nat,
         Line(t, s, pi, lo, hi)
  PROVE  /\ s <= Len(t) /\ lo + (Len(t) - s) \in Nat /\ lo + (Len(t) - s) <= hi
         /\ Line(<<>>, 0, pi, lo + (Len(t) - s), hi)
<1>1. PICK c \in [Nat -> Nat] : LineAt(t, s, pi, lo, hi, c)
  BY DEF Line
<1>2. Len(t) \in Nat /\ Len(pi) \in Nat /\ 0 \in 0..Len(pi)
  BY LenProperties
<1>3. /\ s <= Len(t) /\ c[0] = lo + (Len(t) - s) /\ c[0] <= hi /\ c[0] \in Nat
  BY <1>1, <1>2 DEF LineAt, ListAt
<1>4. c[0] = lo + (Len(t) - s) + (Len(<<>>) - 0)
  BY <1>2, <1>3
<1>5. LineAt(<<>>, 0, pi, lo + (Len(t) - s), hi, c)
  <2>1. 0 <= Len(<<>>) /\ \A j \in 1..Len(<<>>) : FALSE
    OBVIOUS
  <2> QED
    BY <1>1, <1>4, <2>1 DEF LineAt
<1> QED
  BY <1>3, <1>5 DEF Line

\* One utterance of the task is passed on.
LEMMA LineNext ==
  ASSUME NEW t \in Seq(Nat), NEW s \in Nat, NEW pi \in Seq(Seq(Nat)), NEW lo \in Nat, NEW hi \in Nat,
         Line(t, s, pi, lo, hi), s + 1 <= Len(t)
  PROVE  t[s + 1] = lo + 1 /\ lo + 1 <= hi /\ Line(t, s + 1, pi, lo + 1, hi)
<1>1. PICK c \in [Nat -> Nat] : LineAt(t, s, pi, lo, hi, c)
  BY DEF Line
<1>2. Len(t) \in Nat /\ Len(pi) \in Nat /\ 0 \in 0..Len(pi) /\ s + 1 \in 1..Len(t) /\ s + 1 > s
  BY LenProperties
<1>3. c[0] = lo + (Len(t) - s) /\ c[0] <= hi /\ c[0] \in Nat
  BY <1>1, <1>2 DEF LineAt, ListAt
<1>4. c[0] = (lo + 1) + (Len(t) - (s + 1)) /\ lo + 1 <= hi
  BY <1>2, <1>3
<1>5. ASSUME NEW j \in 1..Len(t), j > s + 1 PROVE t[j] = (lo + 1) + (j - (s + 1))
  <2>1. j > s /\ j \in Nat
    BY <1>5
  <2>2. t[j] = lo + (j - s)
    BY <1>1, <2>1 DEF LineAt, ListAt
  <2> QED
    BY <2>1, <2>2
<1>6. t[s + 1] = lo + 1
  <2>1. t[s + 1] = lo + ((s + 1) - s)
    BY <1>1, <1>2 DEF LineAt, ListAt
  <2> QED
    BY <2>1
<1>7. LineAt(t, s + 1, pi, lo + 1, hi, c)
  BY <1>1, <1>4, <1>5 DEF LineAt, ListAt
<1> QED
  BY <1>4, <1>6, <1>7 DEF Line

\* A task is queued.
LEMMA LineAppended ==
  ASSUME NEW t \in Seq(Nat), NEW s \in Nat, NEW pi \in Seq(Seq(Nat)), NEW lo \in Nat, NEW hi \in Nat,
         Line(t, s, pi, lo, hi), NEW x \in Seq(Nat), Follows(x, hi)
  PROVE  Line(t, s, Append(pi, x), lo, hi + Len(x))
<1>1. PICK c \in [Nat -> Nat] : LineAt(t, s, pi, lo, hi, c)
  BY DEF Line
<1> DEFINE p == Append(pi, x)
           n == Len(pi) + 1
           d == [c EXCEPT ![n] = hi + Len(x)]
<1>2. /\ Len(p) = n /\ Len(pi) \in Nat /\ Len(x) \in Nat /\ n \in Nat /\ n # 0 /\ n - 1 = Len(pi)
      /\ \A i \in 1..n : p[i] = IF i = n THEN x ELSE pi[i]
  <2>1. Len(pi) \in Nat /\ Len(x) \in Nat
    BY LenProperties
  <2>2. Len(p) = Len(pi) + 1 /\ \A i \in 1..Len(p) : p[i] = IF i = Len(pi) + 1 THEN x ELSE pi[i]
    <3>1. Len(Append(pi, x)) = Len(pi) + 1
      BY AppendProperties
    <3>2. Append(pi, x)[Len(pi) + 1] = x
      BY AppendProperties
    <3>3. \A i \in 1..Len(pi) : Append(pi, x)[i] = pi[i]
      BY AppendProperties
    <3>4. \A i \in 1..(Len(pi) + 1) : i = Len(pi) + 1 \/ i \in 1..Len(pi)
      <4>1. PICK k \in Nat : k = Len(pi)
        BY <2>1
      <4>2. \A i \in 1..(k + 1) : i = k + 1 \/ i \in 1..k
        OBVIOUS
      <4> QED
        BY <4>1, <4>2
    <3> QED
      BY <3>1, <3>2, <3>3, <3>4
  <2> HIDE DEF p
  <2> QED
    BY <2>1, <2>2
<1>3. d \in [Nat -> Nat] /\ d[n] = hi + Len(x) /\ \A i \in Nat : i # n => d[i] = c[i]
  <2>1. hi + Len(x) \in Nat /\ n \in Nat
    BY <1>2
  <2> HIDE DEF n
  <2> QED
    BY <2>1
<1> HIDE DEF p, d, n
<1>4. d[0] = lo + (Len(t) - s) /\ s <= Len(t) /\ \A j \in 1..Len(t) : j > s => t[j] = lo + (j - s)
  BY <1>1, <1>2, <1>3 DEF LineAt, ListAt
<1>5. ASSUME NEW i \in 1..n PROVE d[i] = d[i - 1] + Len(p[i]) /\ Follows(p[i], d[i - 1])
  <2>1. i \in Nat /\ i - 1 \in Nat /\ i - 1 # n
    BY <1>2
  <2>2. CASE i = n
    <3>1. d[i - 1] = hi
      BY <1>1, <1>2, <1>3, <2>1, <2>2 DEF LineAt, ListAt
    <3> QED
      BY <1>2, <1>3, <2>2, <3>1
  <2>3. CASE i # n
    <3>1. i \in 1..Len(pi)
      BY <1>2, <2>1, <2>3
    <3>2. c[i] = c[i - 1] + Len(pi[i]) /\ Follows(pi[i], c[i - 1])
      BY <1>1, <3>1 DEF LineAt, ListAt
    <3> QED
      BY <1>2, <1>3, <2>1, <2>3, <3>2
  <2> QED
    BY <2>2, <2>3
<1>6. ASSUME NEW i \in 0..n PROVE d[i] <= hi + Len(x)
  <2>1. CASE i = n
    BY <1>2, <1>3, <2>1
  <2>2. CASE i # n
    <3>1. i \in 0..Len(pi) /\ i \in Nat
      BY <1>2, <2>2
    <3>2. d[i] = c[i] /\ c[i] <= hi /\ c[i] \in Nat
      BY <1>1, <1>3, <2>2, <3>1 DEF LineAt, ListAt
    <3> QED
      BY <1>2, <3>2
  <2> QED
    BY <2>1, <2>2
<1>7. LineAt(t, s, p, lo, hi + Len(x), d)
  <2>1. ListAt(p, hi + Len(x), d)
    BY <1>2, <1>3, <1>5, <1>6 DEF ListAt
  <2> QED
    BY <1>4, <2>1 DEF LineAt
<1> QED
  BY <1>3, <1>7 DEF Line, p

\* Agents that have nothing, and agents that have a task and no list.
LEMMA LineIdle ==
  ASSUME NEW lo \in Nat
  PROVE  Line(<<>>, 0, <<>>, lo, lo) /\ \A hi \in Nat : Line(<<>>, 0, <<>>, lo, hi) => lo = hi
<1> DEFINE c == [i \in Nat |-> lo]
<1>1. c \in [Nat -> Nat] /\ c[0] = lo /\ \A i \in Nat : c[i] = lo
  OBVIOUS
<1> HIDE DEF c
<1>2. LineAt(<<>>, 0, <<>>, lo, lo, c)
  BY <1>1 DEF LineAt, ListAt
<1>3. ASSUME NEW hi \in Nat, Line(<<>>, 0, <<>>, lo, hi) PROVE lo = hi
  <2>1. PICK c1 \in [Nat -> Nat] : LineAt(<<>>, 0, <<>>, lo, hi, c1)
    BY <1>3 DEF Line
  <2>2. Len(<<>>) = 0
    OBVIOUS
  <2>3. c1[0] = lo + (0 - 0) /\ c1[0] = hi
    BY <2>1, <2>2 DEF LineAt, ListAt
  <2> QED
    BY <2>3
<1> QED
  BY <1>1, <1>2, <1>3 DEF Line

LEMMA LineStarted ==
  ASSUME NEW lo \in Nat, NEW x \in Seq(Nat), Follows(x, lo)
  PROVE  Line(x, 0, <<>>, lo, lo + Len(x))
<1> DEFINE c == [i \in Nat |-> lo + Len(x)]
<1>1. Len(x) \in Nat
  BY LenProperties
<1>2. c \in [Nat -> Nat] /\ c[0] = lo + Len(x) /\ \A i \in Nat : c[i] = lo + Len(x)
  BY <1>1
<1> HIDE DEF c
<1>3. LineAt(x, 0, <<>>, lo, lo + Len(x), c)
  BY <1>1, <1>2 DEF LineAt, ListAt, Follows
<1> QED
  BY <1>2, <1>3 DEF Line

\* The last utterance of an agent that has any.
LEMMA LineEnd ==
  ASSUME NEW t \in Seq(Nat), NEW s \in Nat, NEW pi \in Seq(Seq(Nat)), NEW lo \in Nat, NEW hi \in Nat,
         Line(t, s, pi, lo, hi), t # <<>> => s < Len(t), \A i \in 1..Len(pi) : pi[i] # <<>>
  PROVE  /\ lo <= hi
         /\ pi # <<>> => pi[Len(pi)][Len(pi[Len(pi)])] = hi /\ lo < hi
         /\ pi = <<>> /\ t # <<>> => t[Len(t)] = hi /\ lo < hi
<1>1. PICK c \in [Nat -> Nat] : LineAt(t, s, pi, lo, hi, c)
  BY DEF Line
<1>2. Len(t) \in Nat /\ Len(pi) \in Nat /\ s <= Len(t)
  BY <1>1, LenProperties DEF LineAt, ListAt
<1>3. c[0] = lo + (Len(t) - s) /\ c[0] \in Nat /\ c[0] <= hi /\ lo <= hi
  <2>0. 0 \in 0..Len(pi)
    BY <1>2
  <2>1. c[0] = lo + (Len(t) - s) /\ c[0] \in Nat /\ c[0] <= hi
    BY <1>1, <2>0 DEF LineAt, ListAt
  <2> QED
    BY <1>2, <2>1
<1>4. ASSUME pi # <<>> PROVE pi[Len(pi)][Len(pi[Len(pi)])] = hi /\ lo < hi
  <2> DEFINE n == Len(pi)
  <2>1. n \in 1..Len(pi) /\ n - 1 \in Nat /\ n - 1 \in 0..n
    BY <1>4, NonEmpty
  <2>2. pi[n] \in Seq(Nat) /\ pi[n] # <<>>
    BY <2>1, ElementOfSeq
  <2> HIDE DEF n
  <2>3. Len(pi[n]) \in Nat /\ Len(pi[n]) \in 1..Len(pi[n])
    BY <2>2, NonEmpty
  <2>4. c[n] = c[n - 1] + Len(pi[n]) /\ pi[n][Len(pi[n])] = c[n - 1] + Len(pi[n]) /\ c[n] = hi
    BY <1>1, <2>1, <2>3 DEF LineAt, ListAt, Follows, n
  <2>5. PICK m \in Nat : c[n - 1] = m
    BY <2>1
  <2>6. lo < hi
    <3>1. CASE t # <<>>
      BY <1>2, <1>3, <3>1
    <3>2. CASE t = <<>>
      <4>1. c[0] = lo
        BY <1>1, <3>2 DEF LineAt, ListAt
      <4>2. 1 \in 1..Len(pi) /\ pi[1] \in Seq(Nat) /\ pi[1] # <<>>
        BY <1>4, NonEmpty
      <4>3. Len(pi[1]) \in Nat /\ Len(pi[1]) # 0
        BY <4>2, EmptySeq, LenProperties
      <4>4. 1 \in 0..Len(pi) /\ 1 - 1 = 0
        BY <1>2, <4>2
      <4>5. c[1] = c[1 - 1] + Len(pi[1]) /\ c[1] <= hi
        BY <1>1, <4>2, <4>4 DEF LineAt, ListAt
      <4>6. c[1] = lo + Len(pi[1])
        BY <4>1, <4>4, <4>5
      <4>7. PICK k \in Nat : k = Len(pi[1])
        BY <4>3
      <4>8. lo + k <= hi /\ k # 0
        BY <4>3, <4>5, <4>6, <4>7
      <4> QED
        BY <4>8
    <3> QED
      BY <3>1, <3>2
  <2> QED
    BY <2>4, <2>6 DEF n
<1>5. ASSUME pi = <<>>, t # <<>> PROVE t[Len(t)] = hi /\ lo < hi
  <2>1. c[0] = hi
    BY <1>1, <1>5 DEF LineAt, ListAt
  <2>2. Len(t) \in 1..Len(t) /\ Len(t) > s
    BY <1>2, <1>5
  <2>3. t[Len(t)] = lo + (Len(t) - s)
    BY <1>1, <2>2 DEF LineAt
  <2>4. t[Len(t)] = hi
    BY <1>3, <2>1, <2>3
  <2>5. hi = lo + (Len(t) - s)
    BY <1>3, <2>1
  <2>6. lo < hi
    BY <1>2, <2>2, <2>5
  <2> QED
    BY <2>4, <2>6
<1> QED
  BY <1>3, <1>4, <1>5

\* e[b] is the last utterance that agent b has passed on, e[Out] the last one delivered
\* and e[0] the last one of the text.  What no agent has is delivered.
OrderedBy(e) ==
  /\ \A b \in Agents : Line(inb[b], mark[b], pendin[b], e[b], e[b - 1])
  /\ \A b, d \in 0..Out : b <= d => e[d] <= e[b]
  /\ \A b \in Agents : e[b] # e[0] => \E d \in 1..b : Busy(d)
  /\ e[Out] = Len(delivered)

Ordered == \E e \in [0..Out -> Nat] : OrderedBy(e)

\* What every agent has, and who has nothing.
LEMMA OrderFacts ==
  ASSUME PipeInv, \A b \in Agents : mark[b] # Stale, NEW e \in [0..Out -> Nat], OrderedBy(e),
         NEW b \in Agents
  PROVE  /\ b \in 0..Out /\ b - 1 \in 0..Out /\ e[b] \in Nat /\ e[b - 1] \in Nat /\ mark[b] \in Nat
         /\ inb[b] \in Seq(Nat) /\ pendin[b] \in Seq(Seq(Nat))
         /\ Line(inb[b], mark[b], pendin[b], e[b], e[b - 1])
         /\ inb[b] = NoTask => mark[b] = 0
         /\ inb[b] # NoTask => mark[b] < Len(inb[b])
         /\ \A i \in 1..Len(pendin[b]) : pendin[b][i] # <<>>
         /\ e[b] <= e[b - 1] /\ (~Busy(b) => e[b] = e[b - 1])
         /\ Busy(b) => e[b] < e[b - 1] /\ Newest(b) = e[b - 1]
<1>1. b \in 0..Out /\ b - 1 \in 0..Out /\ e[b] \in Nat /\ e[b - 1] \in Nat
  <2>1. b \in Nat /\ Out \in Nat /\ b >= 1 /\ b <= Out
    BY Neighbours
  <2>2. b \in 0..Out /\ b - 1 \in 0..Out
    BY <2>1
  <2> QED
    BY <2>2
<1>2. /\ mark[b] \in Nat /\ inb[b] \in Seq(Nat) /\ pendin[b] \in Seq(Seq(Nat))
      /\ \A i \in 1..Len(pendin[b]) : pendin[b][i] # <<>>
      /\ Line(inb[b], mark[b], pendin[b], e[b], e[b - 1])
  BY PipeTypes DEF OrderedBy, NoTask
<1>3. (inb[b] = NoTask => mark[b] = 0) /\ (inb[b] # NoTask => mark[b] < Len(inb[b]))
  <2>1. mark[b] # 0 => mark[b] < Len(inb[b])
    BY DEF PipeInv, MarksOK
  <2>2. inb[b] # NoTask => Len(inb[b]) \in Nat /\ Len(inb[b]) >= 1
    BY <1>2, NonEmpty DEF NoTask
  <2>3. Len(NoTask) = 0
    BY DEF NoTask
  <2> QED
    BY <1>2, <2>1, <2>2, <2>3
<1>4. /\ e[b] <= e[b - 1]
      /\ pendin[b] # <<>> => pendin[b][Len(pendin[b])][Len(pendin[b][Len(pendin[b])])] = e[b - 1] /\ e[b] < e[b - 1]
      /\ pendin[b] = <<>> /\ inb[b] # <<>> => inb[b][Len(inb[b])] = e[b - 1] /\ e[b] < e[b - 1]
  <2> DEFINE t == inb[b]
             s == mark[b]
             pi == pendin[b]
             lo == e[b]
             hi == e[b - 1]
  <2>1. /\ t \in Seq(Nat) /\ s \in Nat /\ pi \in Seq(Seq(Nat)) /\ lo \in Nat /\ hi \in Nat
        /\ Line(t, s, pi, lo, hi) /\ (t # <<>> => s < Len(t)) /\ \A i \in 1..Len(pi) : pi[i] # <<>>
    BY <1>1, <1>2, <1>3 DEF NoTask
  <2> HIDE DEF t, s, pi, lo, hi
  <2>2. /\ lo <= hi
        /\ pi # <<>> => pi[Len(pi)][Len(pi[Len(pi)])] = hi /\ lo < hi
        /\ pi = <<>> /\ t # <<>> => t[Len(t)] = hi /\ lo < hi
    BY <2>1, LineEnd
  <2> QED
    BY <2>2 DEF t, s, pi, lo, hi
<1>5. Busy(b) => e[b] < e[b - 1] /\ Newest(b) = e[b - 1]
  BY <1>4 DEF Busy, Newest, NoTask
<1>6. ~Busy(b) => e[b] = e[b - 1]
  <2> SUFFICES ASSUME ~Busy(b) PROVE e[b] = e[b - 1]
    OBVIOUS
  <2>1. inb[b] = <<>> /\ pendin[b] = <<>> /\ mark[b] = 0
    BY <1>3 DEF Busy, NoTask
  <2> QED
    BY <1>1, <1>2, <2>1, LineIdle
<1> QED
  BY <1>1, <1>2, <1>3, <1>4, <1>5, <1>6

\* Of busy agents there is a first one.
LEMMA FirstOne ==
  ASSUME NEW S \in SUBSET Agents, S # {}
  PROVE  \E a \in S : \A b \in 1..(a - 1) : b \notin S
<1>1. S \subseteq Nat /\ \A a \in S : \A b \in 1..(a - 1) : b \in Nat /\ b < a /\ a \in Nat
  BY Constants
<1>2. PICK a \in S : \A b \in S : <<b, a>> \notin OpToRel(<, Nat)
  BY <1>1, NatLessThanWellFounded, WFMin
<1>3. ASSUME NEW b \in 1..(a - 1), b \in S PROVE FALSE
  <2>1. <<b, a>> \notin {ss \in Nat \X Nat : ss[1] < ss[2]}
    BY <1>2, <1>3 DEF OpToRel
  <2>2. b \in Nat /\ b < a /\ a \in Nat
    BY <1>1, <1>3
  <2>3. <<b, a>> \in Nat \X Nat /\ <<b, a>>[1] = b /\ <<b, a>>[2] = a
    BY <2>2
  <2> QED
    BY <2>1, <2>2, <2>3
<1> QED
  BY <1>3

\* The rest of the text, in any state.
RestOrdered ==
  StreamInv => \A e \in [0..Out -> Nat] : OrderedBy(e) =>
    /\ Rest = [i \in 1..(e[0] - e[Out]) |-> e[Out] + i]
    /\ (\A b \in Agents : ~Busy(b)) <=> e[0] = e[Out]
    /\ \A b \in Agents : /\ e[b] \in Nat /\ e[b - 1] \in Nat /\ e[b] <= e[b - 1] /\ mark[b] \in Nat
                         /\ (inb[b] = NoTask => mark[b] = 0) /\ (~Busy(b) => e[b] = e[b - 1])
                         /\ Line(inb[b], mark[b], pendin[b], e[b], e[b - 1])

LEMMA RestIs == RestOrdered
<1> SUFFICES ASSUME StreamInv, NEW e \in [0..Out -> Nat], OrderedBy(e)
             PROVE  /\ Rest = [i \in 1..(e[0] - e[Out]) |-> e[Out] + i]
                    /\ (\A b \in Agents : ~Busy(b)) <=> e[0] = e[Out]
                    /\ \A b \in Agents : /\ e[b] \in Nat /\ e[b - 1] \in Nat /\ e[b] <= e[b - 1]
                                         /\ mark[b] \in Nat
                                         /\ (inb[b] = NoTask => mark[b] = 0) /\ (~Busy(b) => e[b] = e[b - 1])
                                         /\ Line(inb[b], mark[b], pendin[b], e[b], e[b - 1])
  BY DEF RestOrdered
<1>1. PipeInv /\ \A b \in Agents : mark[b] # Stale
  BY DEF StreamInv, Calm
<1>2. \A b \in Agents : /\ e[b] \in Nat /\ e[b - 1] \in Nat /\ e[b] <= e[b - 1] /\ mark[b] \in Nat
                        /\ (inb[b] = NoTask => mark[b] = 0) /\ (~Busy(b) => e[b] = e[b - 1])
                        /\ Line(inb[b], mark[b], pendin[b], e[b], e[b - 1])
                        /\ (Busy(b) => e[b] < e[b - 1] /\ Newest(b) = e[b - 1])
                        /\ b \in 0..Out /\ b - 1 \in 0..Out
  BY <1>1, OrderFacts
<1>3. /\ \A b, d \in 0..Out : b <= d => e[d] <= e[b]
      /\ \A b \in Agents : e[b] # e[0] => \E d \in 1..b : Busy(d)
      /\ e[Out] = Len(delivered) /\ Out \in Agents /\ Out \in Nat /\ e[Out] \in Nat
  BY <1>2, Constants DEF OrderedBy
<1>4. \A b \in Agents : 1..b \subseteq Agents
  BY <1>3 DEF Agents
<1>5. CASE \E b \in Agents : Busy(b)
  <2> DEFINE first == CHOOSE a \in Agents : Busy(a) /\ \A b \in 1..(a - 1) : ~Busy(b)
  <2>1. first \in Agents /\ Busy(first) /\ \A b \in 1..(first - 1) : ~Busy(b)
    <3>1. \E a \in {b \in Agents : Busy(b)} : \A b \in 1..(a - 1) : b \notin {d \in Agents : Busy(d)}
      BY <1>5, FirstOne
    <3>2. \A a \in Agents : \A b \in 1..(a - 1) : b \in Agents
      BY <1>3 DEF Agents
    <3>3. \E a \in Agents : Busy(a) /\ \A b \in 1..(a - 1) : ~Busy(b)
      BY <3>1, <3>2
    <3> QED
      BY <3>3
  <2>2. LastKnown = Newest(first)
    BY <1>5 DEF LastKnown
  <2> HIDE DEF first
  <2>3. e[first - 1] = e[0]
    <3>1. CASE first = 1
      BY <3>1
    <3>2. CASE first # 1
      <4>1. first - 1 \in Agents
        BY <2>1, <3>2, Neighbours
      <4> QED
        BY <1>3, <2>1, <4>1
    <3> QED
      BY <3>1, <3>2
  <2>4. LastKnown = e[0]
    BY <1>2, <2>1, <2>2, <2>3
  <2>5. e[Out] # e[0]
    <3>1. first <= Out /\ first \in 0..Out /\ Out \in 0..Out
      BY <1>2, <1>3, <2>1, Neighbours
    <3>2. e[Out] <= e[first] /\ e[first] < e[0] /\ e[first] \in Nat
      BY <1>2, <1>3, <2>1, <2>3, <3>1
    <3> QED
      BY <1>3, <3>2
  <2> QED
    BY <1>2, <1>3, <1>5, <2>4, <2>5 DEF Rest
<1>6. CASE ~\E b \in Agents : Busy(b)
  <2>1. e[Out] = e[0]
    BY <1>3, <1>4, <1>6
  <2>2. LastKnown = Len(delivered)
    BY <1>6 DEF LastKnown
  <2> QED
    BY <1>2, <1>3, <1>6, <2>1, <2>2 DEF Rest
<1> QED
  BY <1>5, <1>6

\* An agent has passed on the utterances up to m.
LEMMA Advanced ==
  ASSUME StreamInv, StreamInv', NEW e \in [0..Out -> Nat], OrderedBy(e),
         NEW a \in Agents, NEW m \in Nat, e[a] <= m, m <= e[a - 1],
         \A b \in Agents \ {a, a + 1} : inb'[b] = inb[b] /\ mark'[b] = mark[b] /\ pendin'[b] = pendin[b],
         Line(inb'[a], mark'[a], pendin'[a], m, e[a - 1]),
         a # Out => /\ Line(inb'[a + 1], mark'[a + 1], pendin'[a + 1], e[a + 1], m)
                    /\ Busy(a + 1)' /\ delivered' = delivered,
         a = Out => Len(delivered') = m
  PROVE  [e EXCEPT ![a] = m] \in [0..Out -> Nat] /\ OrderedBy([e EXCEPT ![a] = m])'
<1> DEFINE f == [e EXCEPT ![a] = m]
<1>1. /\ a \in Nat /\ a >= 1 /\ a <= Out /\ Out \in Nat /\ a \in 0..Out /\ 0 \in 0..Out /\ 0 # a
      /\ a - 1 \in 0..Out /\ a - 1 # a
  <2>1. a \in Nat /\ a >= 1 /\ a <= Out /\ Out \in Nat
    BY Neighbours
  <2> QED
    BY <2>1
<1>2. f \in [0..Out -> Nat] /\ f[a] = m /\ \A b \in 0..Out : b # a => f[b] = e[b]
  BY <1>1
<1> HIDE DEF f
<1>3. /\ \A b, d \in 0..Out : b <= d => e[d] <= e[b]
      /\ \A b \in Agents : e[b] # e[0] => \E d \in 1..b : Busy(d)
      /\ \A b \in Agents : Line(inb[b], mark[b], pendin[b], e[b], e[b - 1])
      /\ e[Out] = Len(delivered)
  BY DEF OrderedBy
<1>4. \A b \in Agents : b \in Nat /\ b >= 1 /\ b <= Out /\ b \in 0..Out /\ b - 1 \in 0..Out
  BY <1>1 DEF Agents
<1>5. ASSUME NEW b \in Agents PROVE Line(inb'[b], mark'[b], pendin'[b], f[b], f[b - 1])
  <2>1. CASE b = a
    BY <1>1, <1>2, <2>1
  <2>2. CASE b = a + 1
    <3>1. b - 1 = a /\ b # a /\ a # Out
      BY <1>1, <1>4, <2>2
    <3> QED
      BY <1>2, <1>4, <2>2, <3>1
  <2>3. CASE b # a /\ b # a + 1
    <3>1. b - 1 # a
      BY <1>1, <1>4, <2>3
    <3> QED
      BY <1>2, <1>3, <1>4, <2>3, <3>1
  <2> QED
    BY <2>1, <2>2, <2>3
<1>6. ASSUME NEW b \in 0..Out, NEW d \in 0..Out, b <= d PROVE f[d] <= f[b]
  <2>1. e[b] \in Nat /\ e[d] \in Nat /\ b \in Nat /\ d \in Nat /\ e[a] \in Nat /\ e[a - 1] \in Nat /\ e[d] <= e[b]
    BY <1>1, <1>3, <1>6
  <2>2. CASE b = a
    <3>1. CASE d = a
      BY <1>2, <2>2, <3>1
    <3>2. CASE d # a
      <4>1. f[d] = e[d] /\ f[b] = m /\ e[d] <= e[a]
        BY <1>2, <2>1, <2>2, <3>2
      <4> QED
        BY <2>1, <4>1
    <3> QED
      BY <3>1, <3>2
  <2>3. CASE b # a /\ d = a
    <3>1. b <= a - 1
      BY <1>1, <1>6, <2>1, <2>3
    <3>2. e[a - 1] <= e[b] /\ f[d] = m /\ f[b] = e[b]
      BY <1>1, <1>2, <1>3, <2>3, <3>1
    <3> QED
      BY <2>1, <3>2
  <2>4. CASE b # a /\ d # a
    BY <1>2, <2>1, <2>4
  <2> QED
    BY <2>2, <2>3, <2>4
<1>7. f[0] = e[0] /\ f[a - 1] = e[a - 1]
  BY <1>1, <1>2
<1>8. ASSUME ~Busy(a)' PROVE m = e[a - 1]
  <2>1. inb'[a] = <<>> /\ pendin'[a] = <<>>
    BY <1>8 DEF Busy, NoTask
  <2>2. mark'[a] = 0
    <3>1. mark'[a] \in Nat \cup {Stale} /\ mark'[a] # Stale /\ (mark'[a] \notin {0, Stale} => mark'[a] < Len(inb'[a]))
      BY DEF StreamInv, Calm, PipeInv, MarksOK
    <3>2. Len(<<>>) = 0
      OBVIOUS
    <3> QED
      BY <2>1, <3>1, <3>2
  <2>3. e[a - 1] \in Nat
    BY <1>1
  <2> QED
    BY <2>1, <2>2, <2>3, LineIdle
<1>9. \A b \in Agents \ {a, a + 1} : Busy(b)' <=> Busy(b)
  BY DEF Busy
<1>10. ASSUME NEW b \in Agents, f[b] # f[0] PROVE \E d \in 1..b : Busy(d)'
  <2>1. ASSUME NEW c \in Agents, c < a, e[c] # e[0] PROVE \E d \in 1..c : Busy(d)'
    <3>1. PICK d \in 1..c : Busy(d)
      BY <1>3, <2>1
    <3>2. d \in Agents \ {a, a + 1}
      BY <1>1, <1>4, <2>1 DEF Agents
    <3> QED
      BY <1>9, <3>1, <3>2
  <2>2. CASE b < a
    <3>1. b # a /\ b \in 0..Out
      BY <1>1, <1>4, <2>2
    <3>2. e[b] # e[0]
      BY <1>2, <1>7, <1>10, <3>1
    <3> QED
      BY <2>1, <2>2, <3>2
  <2>3. CASE b = a
    <3>1. CASE Busy(a)'
      <4>1. a \in 1..b
        BY <1>1, <2>3
      <4> QED
        BY <3>1, <4>1
    <3>2. CASE ~Busy(a)'
      <4>1. e[a - 1] # e[0]
        BY <1>2, <1>7, <1>8, <1>10, <2>3, <3>2
      <4>2. a # 1
        BY <4>1
      <4>3. a - 1 \in Agents /\ a - 1 < a /\ \A d \in 1..(a - 1) : d \in 1..b
        BY <1>1, <2>3, <4>2 DEF Agents
      <4> QED
        BY <2>1, <4>1, <4>3
    <3> QED
      BY <3>1, <3>2
  <2>4. CASE b > a
    <3>1. a # Out /\ a + 1 \in 1..b
      BY <1>1, <1>4, <2>4
    <3> QED
      BY <3>1
  <2> QED
    BY <1>1, <1>4, <2>2, <2>3, <2>4
<1>11. f[Out] = Len(delivered')
  BY <1>1, <1>2, <1>3
<1> QED
  BY <1>2, <1>5, <1>6, <1>10, <1>11 DEF OrderedBy, f

\* Where nothing moves everything stays in its order.
LEMMA OrderKept ==
  ASSUME NEW e \in [0..Out -> Nat], OrderedBy(e), UNCHANGED <<inb, mark, pendin, delivered>>
  PROVE  OrderedBy(e)'
BY DEF OrderedBy, Busy

\* What an agent has when it took a task from its list, or had one.
LEMMA LineOfTask ==
  ASSUME StreamInv, NEW e \in [0..Out -> Nat], OrderedBy(e), NEW a \in Agents, MayRun(a)
  PROVE  /\ e[a] \in Nat /\ e[a - 1] \in Nat /\ mark[a] \in Nat /\ e[a] <= e[a - 1]
         /\ Task(a) \in Seq(Nat) /\ PendinTaken(a)[a] \in Seq(Seq(Nat))
         /\ Line(Task(a), mark[a], PendinTaken(a)[a], e[a], e[a - 1])
<1>1. PipeInv /\ \A b \in Agents : mark[b] # Stale
  BY DEF StreamInv, Calm
<1>2. /\ e[a] \in Nat /\ e[a - 1] \in Nat /\ mark[a] \in Nat /\ e[a] <= e[a - 1]
      /\ inb[a] \in Seq(Nat) /\ pendin[a] \in Seq(Seq(Nat))
      /\ Line(inb[a], mark[a], pendin[a], e[a], e[a - 1]) /\ (inb[a] = NoTask => mark[a] = 0)
  BY <1>1, OrderFacts
<1>3. Task(a) \in Seq(Nat) /\ ListsOK(PendinTaken(a), CountTaken(a), PendoutTaken(a))
  BY <1>1, QueueFacts, Taken
<1>4. PendinTaken(a)[a] \in Seq(Seq(Nat))
  BY <1>3 DEF ListsOK
<1>5. CASE inb[a] # NoTask
  BY <1>2, <1>3, <1>4, <1>5 DEF Task, PendinTaken, Takes
<1>6. CASE inb[a] = NoTask
  <2>1. pendin[a] # <<>> /\ Task(a) = Head(pendin[a]) /\ PendinTaken(a)[a] = Tail(pendin[a]) /\ mark[a] = 0
    BY <1>1, <1>2, <1>6, PipeTypes DEF Task, PendinTaken, Takes, MayRun, Busy
  <2>2. Line(<<>>, 0, pendin[a], e[a], e[a - 1])
    BY <1>2, <1>6, <2>1 DEF NoTask
  <2>3. Line(Head(pendin[a]), 0, Tail(pendin[a]), e[a], e[a - 1])
    BY <1>2, <2>1, <2>2, LineTaken
  <2> QED
    BY <1>2, <1>3, <1>4, <2>1, <2>3
<1> QED
  BY <1>5, <1>6

\* A task that was passed on leaves the utterances in their order.
LEMMA PassOrdered ==
  ASSUME StreamInv, StreamInv', NEW e \in [0..Out -> Nat], OrderedBy(e),
         NEW a \in Agents, a # Out, MayRun(a), NEW q \in QueueType, NEW again \in QueueType,
         NEW x \in Seq(Nat), x # NoTask, NEW left \in Seq(Nat), Pass(a, x, left, again, q),
         NEW m \in Nat, m = e[a] + Len(x), m <= e[a - 1], Follows(x, e[a]),
         Line(left, mark'[a], PendinTaken(a)[a], m, e[a - 1]),
         \A b \in Agents \ {a} : mark'[b] = mark[b], delivered' = delivered
  PROVE  [e EXCEPT ![a] = m] \in [0..Out -> Nat] /\ OrderedBy([e EXCEPT ![a] = m])'
<1> DEFINE n == a + 1
           queued == a \in pendout \/ inb[n] # NoTask
<1>1. n \in Agents /\ n # a /\ n - 1 = a /\ n > 1
  BY Neighbours
<1>2. PipeInv /\ \A b \in Agents : mark[b] # Stale
  BY DEF StreamInv, Calm
<1>3. /\ e[n] \in Nat /\ e[a] \in Nat /\ mark[n] \in Nat /\ inb[n] \in Seq(Nat) /\ pendin[n] \in Seq(Seq(Nat))
      /\ Line(inb[n], mark[n], pendin[n], e[n], e[a]) /\ (inb[n] = NoTask => mark[n] = 0)
  BY <1>1, <1>2, OrderFacts
<1>4. /\ ListsOK(PendinTaken(a), CountTaken(a), PendoutTaken(a))
      /\ \A b \in Agents \ {a} : PendinTaken(a)[b] = pendin[b]
  BY <1>2, QueueFacts, Taken
<1>5. PendinTaken(a) \in [Agents -> Seq(Seq(Nat))] /\ inb \in [Agents -> Seq(Nat)]
  BY <1>2, <1>4, PipeTypes DEF ListsOK
<1>6. a \in pendout <=> pendin[n] # <<>>
  BY <1>1, <1>2 DEF PipeInv, ListsOK
<1>7. Len(x) \in Nat /\ Len(x) >= 1 /\ e[a] <= m
  <2>1. Len(x) \in Nat /\ Len(x) >= 1
    BY NonEmpty DEF NoTask
  <2> QED
    BY <1>3, <2>1
<1>8. Extend(a, pendin[n], x) = Append(pendin[n], x)
  <2>1. CASE a \in pendout
    BY <2>1 DEF Extend
  <2>2. CASE a \notin pendout
    BY <1>6, <2>2 DEF Extend
  <2> QED
    BY <2>1, <2>2
<1> HIDE DEF n
<1>9. /\ inb' = IF queued THEN [inb EXCEPT ![a] = left] ELSE [inb EXCEPT ![a] = left, ![n] = x]
      /\ pendin' = IF queued THEN [PendinTaken(a) EXCEPT ![n] = Extend(a, PendinTaken(a)[n], x)]
                   ELSE PendinTaken(a)
  BY DEF Pass, n
<1>10. inb'[a] = left /\ pendin'[a] = PendinTaken(a)[a]
  BY <1>1, <1>5, <1>9
<1>11. \A b \in Agents \ {a, n} : inb'[b] = inb[b] /\ mark'[b] = mark[b] /\ pendin'[b] = pendin[b]
  BY <1>4, <1>5, <1>9
<1>12. Line(inb'[n], mark'[n], pendin'[n], e[n], m) /\ Busy(n)'
  <2>1. CASE queued
    <3>1. inb'[n] = inb[n] /\ mark'[n] = mark[n] /\ pendin'[n] = Append(pendin[n], x)
      BY <1>1, <1>4, <1>5, <1>8, <1>9, <2>1
    <3>2. Line(inb[n], mark[n], Append(pendin[n], x), e[n], e[a] + Len(x))
      BY <1>3, LineAppended
    <3>3. Append(pendin[n], x) # <<>>
      <4>1. Len(Append(pendin[n], x)) = Len(pendin[n]) + 1 /\ Len(pendin[n]) \in Nat
        BY <1>3, AppendFacts, LenProperties
      <4>2. PICK k \in Nat : k = Len(pendin[n])
        BY <4>1
      <4>3. Len(Append(pendin[n], x)) # 0 /\ Len(<<>>) = 0
        BY <4>1, <4>2
      <4> QED
        BY <4>3
    <3> QED
      BY <3>1, <3>2, <3>3 DEF Busy
  <2>2. CASE ~queued
    <3>1. inb'[n] = x /\ mark'[n] = mark[n] /\ pendin'[n] = pendin[n]
      BY <1>1, <1>4, <1>5, <1>9, <2>2
    <3>2. inb[n] = <<>> /\ pendin[n] = <<>> /\ mark[n] = 0
      BY <1>3, <1>6, <2>2 DEF NoTask
    <3>3. e[n] = e[a]
      BY <1>3, <3>2, LineIdle
    <3>4. Line(x, 0, <<>>, e[a], e[a] + Len(x))
      BY <1>3, LineStarted
    <3> QED
      BY <3>1, <3>2, <3>3, <3>4 DEF Busy
  <2> QED
    BY <2>1, <2>2
<1> QED
  BY <1>3, <1>7, <1>10, <1>11, <1>12, Advanced DEF n

\* What a line says of the task an agent works on.
LEMMA LineTask ==
  ASSUME NEW t \in Seq(Nat), NEW s \in Nat, NEW pi \in Seq(Seq(Nat)), NEW lo \in Nat, NEW hi \in Nat,
         Line(t, s, pi, lo, hi), s = 0
  PROVE  Follows(t, lo)
<1>1. PICK c \in [Nat -> Nat] : LineAt(t, s, pi, lo, hi, c)
  BY DEF Line
<1>2. ASSUME NEW j \in 1..Len(t) PROVE t[j] = lo + j
  <2>1. j \in Nat /\ j > s
    BY LenProperties
  <2>2. t[j] = lo + (j - s)
    BY <1>1, <2>1 DEF LineAt
  <2> QED
    BY <2>1, <2>2
<1> QED
  BY <1>2 DEF Follows

\* The step an agent other than the output makes takes the whole order to another one.
Reordered(e) == \E f \in [0..Out -> Nat] : OrderedBy(f)' /\ f[0] = e[0] /\ f[Out] = e[Out]

LEMMA ReorderedBy ==
  ASSUME NEW e \in [0..Out -> Nat], NEW a \in Agents, a # Out, NEW m \in Nat,
         [e EXCEPT ![a] = m] \in [0..Out -> Nat], OrderedBy([e EXCEPT ![a] = m])'
  PROVE  Reordered(e)
<1>1. a \in Nat /\ a # 0 /\ Out \in 0..Out /\ 0 \in 0..Out
  <2>1. a \in Nat /\ a >= 1 /\ Out \in Nat
    BY Neighbours
  <2> QED
    BY <2>1
<1> DEFINE f == [e EXCEPT ![a] = m]
<1>2. f[0] = e[0] /\ f[Out] = e[Out]
  BY <1>1
<1> HIDE DEF f
<1>3. f \in [0..Out -> Nat] /\ OrderedBy(f)'
  BY DEF f
<1> QED
  BY <1>2, <1>3 DEF Reordered

\* A whole task is passed on, and it was not begun.
LEMMA WholeOrdered ==
  ASSUME StreamInv, StreamInv', NEW e \in [0..Out -> Nat], OrderedBy(e),
         NEW a \in Agents, a # Out, Kind[a] # "chunk", MayRun(a), NEW q \in QueueType,
         Pass(a, Task(a), NoTask, <<>>, q), mark' = mark, delivered' = delivered
  PROVE  Reordered(e)
<1>1. /\ e[a] \in Nat /\ e[a - 1] \in Nat /\ mark[a] \in Nat
      /\ Task(a) \in Seq(Nat) /\ PendinTaken(a)[a] \in Seq(Seq(Nat))
      /\ Line(Task(a), mark[a], PendinTaken(a)[a], e[a], e[a - 1])
  BY LineOfTask
<1>2. mark[a] = 0 /\ Task(a) # NoTask /\ NoTask \in Seq(Nat) /\ <<>> \in QueueType /\ NoTask = <<>>
  <2>1. PipeInv /\ mark[a] = 0
    BY DEF StreamInv, PipeInv, MarksOK
  <2>2. NoTask \in Seq(Nat) /\ <<>> \in QueueType /\ NoTask = <<>>
    BY QueueFacts DEF NoTask
  <2> QED
    BY <2>1, <2>2, Taken
<1> DEFINE x == Task(a)
           pi == PendinTaken(a)[a]
           lo == e[a]
           hi == e[a - 1]
<1>3. x \in Seq(Nat) /\ pi \in Seq(Seq(Nat)) /\ lo \in Nat /\ hi \in Nat /\ Line(x, 0, pi, lo, hi)
  BY <1>1, <1>2
<1>4. Pass(a, x, NoTask, <<>>, q) /\ x # NoTask /\ \A b \in Agents \ {a} : mark'[b] = mark[b]
  BY <1>2
<1> HIDE DEF x, pi, lo, hi
<1>5. Len(x) \in Nat /\ lo + Len(x) \in Nat /\ lo + (Len(x) - 0) = lo + Len(x)
  <2>1. PICK k \in Nat : k = Len(x)
    BY <1>3, LenProperties
  <2> QED
    BY <1>3, <2>1
<1>6. PICK m \in Nat : m = lo + Len(x)
  BY <1>5
<1>7. m <= hi /\ Line(<<>>, 0, pi, m, hi)
  BY <1>3, <1>5, <1>6, LinePassed
<1>8. Follows(x, lo)
  BY <1>3, LineTask
<1>9. m = e[a] + Len(x) /\ m <= e[a - 1] /\ Follows(x, e[a])
  BY <1>6, <1>7, <1>8 DEF lo, hi
<1>10. Line(NoTask, mark'[a], PendinTaken(a)[a], m, e[a - 1])
  BY <1>2, <1>7 DEF hi, pi
<1>11. [e EXCEPT ![a] = m] \in [0..Out -> Nat] /\ OrderedBy([e EXCEPT ![a] = m])'
  BY <1>2, <1>3, <1>4, <1>9, <1>10, PassOrdered
<1> QED
  BY <1>11, ReorderedBy

LEMMA InputOrdered ==
  ASSUME StreamInv, StreamInv', NEW e \in [0..Out -> Nat], OrderedBy(e),
         NEW a \in Agents, NEW q \in QueueType, NEW z, Input(a, q, z)
  PROVE  Reordered(e) /\ UNCHANGED conn
<1>1. a = 1 /\ MayRun(a) /\ a # Out /\ Kind[a] # "chunk"
  BY KindAssumption, Constants DEF Input, Agents, Out
<1>0. a \notin z
  BY DEF Input, Die, StreamInv, Calm
<1>2. Pass(a, inb[a], NoTask, <<>>, q) /\ mark' = mark /\ delivered' = delivered /\ UNCHANGED conn
  BY <1>0 DEF Input, conn
<1>3. inb[a] # NoTask
  BY <1>1, PipeTypes DEF StreamInv, MayRun, Busy
<1>4. Task(a) = inb[a]
  BY <1>3 DEF Task, Takes
<1>5. Reordered(e)
  BY <1>1, <1>2, <1>4, WholeOrdered
<1> QED
  BY <1>2, <1>5

LEMMA WorkOrdered ==
  ASSUME StreamInv, StreamInv', NEW e \in [0..Out -> Nat], OrderedBy(e),
         NEW a \in Agents, NEW q \in QueueType, NEW z, Work(a, q, z)
  PROVE  Reordered(e) /\ UNCHANGED conn
<1>1. a # Out /\ Kind[a] # "chunk" /\ MayRun(a)
  BY KindAssumption DEF Work, Agents, Out, Outputs, ReleasesFirst, ReleasesLast
<1>2. Pass(a, Task(a), NoTask, <<>>, q) /\ mark' = mark /\ delivered' = delivered /\ UNCHANGED conn
  BY DEF Work, conn
<1>3. Reordered(e)
  BY <1>1, <1>2, WholeOrdered
<1> QED
  BY <1>2, <1>3

\* a_chunk passes on the next utterance.
LEMMA ChunkOrdered ==
  ASSUME StreamInv, StreamInv', NEW e \in [0..Out -> Nat], OrderedBy(e),
         NEW a \in Agents, NEW q \in QueueType, NEW z, Chunk(a, q, z)
  PROVE  Reordered(e) /\ UNCHANGED conn
<1> DEFINE x == Task(a)
           s == mark[a]
           pi == PendinTaken(a)[a]
           lo == e[a]
           hi == e[a - 1]
           n == s + 1
           more == n < Len(x)
           left == IF more THEN x ELSE NoTask
           again == IF more THEN <<a>> ELSE <<>>
<1>1. PipeInv /\ mark[a] # Stale /\ mark \in [Agents -> Nat \cup {Stale}]
  BY PipeTypes DEF StreamInv, Calm
<1>2. /\ MayRun(a) /\ Kind[a] = "chunk" /\ Pass(a, <<x[n]>>, left, again, q)
      /\ mark' = [mark EXCEPT ![a] = IF more THEN n ELSE 0] /\ delivered' = delivered
      /\ UNCHANGED conn
  BY <1>1 DEF Chunk, conn
<1>3. a # Out
  BY <1>2, KindAssumption DEF Agents, Out, Outputs
<1>4. /\ Len(x) \in Nat /\ n \in 1..Len(x)
      /\ <<x[n]>> \in Seq(Nat) /\ <<x[n]>> # NoTask
  BY <1>1, <1>2, ChunkTask
<1>5. /\ x \in Seq(Nat) /\ s \in Nat /\ pi \in Seq(Seq(Nat)) /\ lo \in Nat /\ hi \in Nat
      /\ Line(x, s, pi, lo, hi)
  BY <1>2, LineOfTask
<1> HIDE DEF x, s, pi, lo, hi
<1>6. s + 1 <= Len(x) /\ n = s + 1
  BY <1>4
<1>7. x[n] = lo + 1 /\ lo + 1 <= hi /\ Line(x, n, pi, lo + 1, hi)
  BY <1>5, <1>6, LineNext
<1> HIDE DEF n
<1>8. NoTask \in Seq(Nat) /\ left \in Seq(Nat) /\ again \in QueueType /\ NoTask = <<>> /\ n \in Nat /\ lo + 1 \in Nat
  BY <1>4, <1>5, QueueFacts DEF NoTask
<1>9. mark'[a] = (IF more THEN n ELSE 0) /\ \A b \in Agents \ {a} : mark'[b] = mark[b]
  BY <1>1, <1>2
<1>10. Line(left, mark'[a], pi, lo + 1, hi)
  <2>1. CASE more
    BY <1>7, <1>9, <2>1
  <2>2. CASE ~more
    <3>1. n = Len(x)
      BY <1>4, <2>2
    <3>2. (lo + 1) + (Len(x) - n) = lo + 1
      BY <1>4, <1>5, <3>1
    <3>3. Line(<<>>, 0, pi, (lo + 1) + (Len(x) - n), hi)
      BY <1>5, <1>7, <1>8, LinePassed
    <3> QED
      BY <1>8, <1>9, <2>2, <3>2, <3>3
  <2> QED
    BY <2>1, <2>2
<1>11. Len(<<x[n]>>) = 1 /\ Follows(<<x[n]>>, lo)
  <2>1. Len(<<x[n]>>) = 1 /\ <<x[n]>>[1] = x[n]
    OBVIOUS
  <2> QED
    BY <1>7, <2>1 DEF Follows
<1> HIDE DEF left, again, more
<1>12. PICK y \in Seq(Nat) : y = <<x[n]>>
  BY <1>4
<1>13. y # NoTask /\ Pass(a, y, left, again, q) /\ Follows(y, e[a]) /\ Len(y) = 1
  BY <1>2, <1>4, <1>11, <1>12 DEF lo
<1>14. PICK m \in Nat : m = lo + 1
  BY <1>8
<1>15. m = e[a] + Len(y) /\ m <= e[a - 1] /\ Line(left, mark'[a], PendinTaken(a)[a], m, e[a - 1])
  BY <1>7, <1>10, <1>13, <1>14 DEF lo, hi, pi
<1>16. PICK l \in Seq(Nat), r \in QueueType : l = left /\ r = again
  BY <1>8
<1>17. /\ MayRun(a) /\ Pass(a, y, l, r, q) /\ delivered' = delivered
       /\ Line(l, mark'[a], PendinTaken(a)[a], m, e[a - 1])
  BY <1>2, <1>13, <1>15, <1>16
<1>18. \A b \in Agents \ {a} : mark'[b] = mark[b]
  BY <1>9
<1>19. [e EXCEPT ![a] = m] \in [0..Out -> Nat] /\ OrderedBy([e EXCEPT ![a] = m])'
  BY <1>3, <1>13, <1>15, <1>17, <1>18, PassOrdered
<1>20. Reordered(e)
  BY <1>3, <1>19, ReorderedBy
<1> QED
  BY <1>2, <1>20

LEMMA TurnedAwayOrdered ==
  ASSUME NEW e \in [0..Out -> Nat], OrderedBy(e), NEW a, NEW q, NEW z, TurnedAway(a, q, z)
  PROVE  Reordered(e) /\ UNCHANGED conn
<1>1. UNCHANGED <<inb, mark, pendin, delivered>> /\ UNCHANGED conn
  BY DEF TurnedAway, pipe, conn
<1>2. OrderedBy(e)'
  BY <1>1, OrderKept
<1> QED
  BY <1>1, <1>2 DEF Reordered

\* The output keeps its task.
LEMMA PushOrdered ==
  ASSUME StreamInv, StreamInv', NEW e \in [0..Out -> Nat], OrderedBy(e),
         NEW a \in Agents, NEW q \in QueueType, NEW z, Push(a, q, z)
  PROVE  Reordered(e) /\ UNCHANGED conn
<1>1. a = Out /\ MayRun(a) /\ a + 1 \notin Agents
  BY KindAssumption, Neighbours DEF Push, Agents, Out
<1>2. a \notin z
  BY DEF Push, Die, StreamInv, Calm
<1>3. Keep(a, Task(a), q) /\ UNCHANGED <<mark, held, conn>>
  BY <1>2 DEF Push
<1>4. inb' = [inb EXCEPT ![a] = Task(a)] /\ pendin' = PendinTaken(a) /\ mark' = mark /\ delivered' = delivered
  BY <1>3 DEF Keep, conn
<1>5. /\ PendinTaken(a) \in [Agents -> Seq(Seq(Nat))] /\ inb \in [Agents -> Seq(Nat)]
      /\ \A b \in Agents \ {a} : PendinTaken(a)[b] = pendin[b]
  BY <1>1, QueueFacts, Taken, PipeTypes DEF StreamInv, ListsOK
<1>6. /\ inb'[a] = Task(a) /\ pendin'[a] = PendinTaken(a)[a]
      /\ \A b \in Agents \ {a, a + 1} : inb'[b] = inb[b] /\ mark'[b] = mark[b] /\ pendin'[b] = pendin[b]
  BY <1>4, <1>5
<1>7. PICK m \in Nat : m = e[a]
  BY <1>1, LineOfTask
<1>8. m <= e[a - 1] /\ e[a] <= m /\ Line(inb'[a], mark'[a], pendin'[a], m, e[a - 1])
  <2>1. e[a] <= e[a - 1] /\ Line(Task(a), mark[a], PendinTaken(a)[a], e[a], e[a - 1])
    BY <1>1, LineOfTask
  <2>2. mark'[a] = mark[a]
    BY <1>4
  <2> QED
    BY <1>6, <1>7, <2>1, <2>2
<1>9. Len(delivered') = m
  BY <1>1, <1>4, <1>7 DEF OrderedBy
<1>10. [e EXCEPT ![a] = m] \in [0..Out -> Nat] /\ OrderedBy([e EXCEPT ![a] = m])'
  BY <1>1, <1>6, <1>8, <1>9, Advanced
<1>11. [e EXCEPT ![a] = m] = e
  BY <1>7
<1> QED
  BY <1>3, <1>10, <1>11 DEF Reordered

\* The output writes its task.
LEMMA WriteOrdered ==
  ASSUME StreamInv, StreamInv', NEW e \in [0..Out -> Nat], OrderedBy(e),
         NEW a \in Agents, NEW q \in QueueType, NEW z, Write(a, q, z),
         NEW m \in Nat, m = e[Out] + Len(Task(Out))
  PROVE  /\ a = Out /\ m <= e[Out - 1] /\ Follows(Task(Out), e[Out])
         /\ [e EXCEPT ![Out] = m] \in [0..Out -> Nat] /\ OrderedBy([e EXCEPT ![Out] = m])'
<1>1. a = Out /\ MayRun(a) /\ a + 1 \notin Agents /\ Kind[a] # "chunk"
  BY KindAssumption, Neighbours DEF Write, Agents, Out, Outputs
<1>2. /\ inb' = [inb EXCEPT ![a] = NoTask] /\ pendin' = PendinTaken(a) /\ mark' = mark
      /\ delivered' = delivered \o Task(a)
  BY DEF Write
<1>3. /\ PendinTaken(a) \in [Agents -> Seq(Seq(Nat))] /\ inb \in [Agents -> Seq(Nat)]
      /\ \A b \in Agents \ {a} : PendinTaken(a)[b] = pendin[b]
  BY <1>1, QueueFacts, Taken, PipeTypes DEF StreamInv, ListsOK
<1>4. /\ inb'[a] = NoTask /\ pendin'[a] = PendinTaken(a)[a]
      /\ \A b \in Agents \ {a, a + 1} : inb'[b] = inb[b] /\ mark'[b] = mark[b] /\ pendin'[b] = pendin[b]
  BY <1>2, <1>3
<1> DEFINE x == Task(a)
           pi == PendinTaken(a)[a]
           lo == e[a]
           hi == e[a - 1]
<1>5. mark[a] = 0
  BY <1>1 DEF StreamInv, PipeInv, MarksOK
<1>6. x \in Seq(Nat) /\ pi \in Seq(Seq(Nat)) /\ lo \in Nat /\ hi \in Nat /\ Line(x, 0, pi, lo, hi)
  BY <1>1, <1>5, LineOfTask
<1>7. m = lo + Len(x)
  BY <1>1
<1> HIDE DEF x, pi, lo, hi
<1>8. Len(x) \in Nat /\ lo + (Len(x) - 0) = m /\ lo <= m
  <2>1. PICK k \in Nat : k = Len(x)
    BY <1>6, LenProperties
  <2> QED
    BY <1>6, <1>7, <2>1
<1>9. m <= hi /\ Line(<<>>, 0, pi, m, hi)
  BY <1>6, <1>8, LinePassed
<1>10. Follows(x, lo)
  BY <1>6, LineTask
<1>11. Line(inb'[a], mark'[a], pendin'[a], m, e[a - 1]) /\ m <= e[a - 1] /\ e[a] <= m
  BY <1>2, <1>4, <1>5, <1>8, <1>9 DEF pi, hi, lo, NoTask
<1>12. Len(delivered') = m
  <2>1. delivered \in Seq(Nat) /\ Len(delivered) = lo
    BY <1>1 DEF OrderedBy, lo, StreamInv, PipeInv, ConnOK
  <2>2. Len(delivered') = Len(delivered) + Len(x)
    BY <1>2, <1>6, <2>1, ConcatProperties DEF x
  <2> QED
    BY <1>7, <2>1, <2>2
<1>13. [e EXCEPT ![a] = m] \in [0..Out -> Nat] /\ OrderedBy([e EXCEPT ![a] = m])'
  BY <1>1, <1>4, <1>11, <1>12, Advanced
<1> QED
  BY <1>1, <1>10, <1>11, <1>13 DEF x, lo

\* What a timeslice other than the output's writing does.
Quiet(a, q, z) == Slice(a, q, z) /\ ~Write(a, q, z)

LEMMA QuietOrdered ==
  ASSUME Undisturbed, Failing = {}, StreamInv, StreamInv', NEW e \in [0..Out -> Nat], OrderedBy(e),
         NEW a \in Agents, NEW q \in QueueType, NEW z, Quiet(a, q, z)
  PROVE  Reordered(e) /\ UNCHANGED conn
<1>1. ~Join(a, q, z) /\ ~Fail(a, q, z)
  BY DEF Undisturbed, Join, Fail
<1>2. TurnedAway(a, q, z) \/ Input(a, q, z) \/ Work(a, q, z) \/ Chunk(a, q, z) \/ Push(a, q, z)
  BY <1>1 DEF Quiet, Slice
<1> QED
  BY <1>2, TurnedAwayOrdered, InputOrdered, WorkOrdered, ChunkOrdered, PushOrdered

\* What the abstract specification sees of a timeslice in which nothing is written.
LEMMA QuietSimulated ==
  ASSUME Undisturbed, Failing = {}, StreamInv, StreamInv', NEW e \in [0..Out -> Nat], OrderedBy(e),
         Reordered(e), UNCHANGED <<delivered, callbk, session>>
  PROVE  Ordered' /\ UNCHANGED Abstract!vars
<1>1. PICK f \in [0..Out -> Nat] : OrderedBy(f)' /\ f[0] = e[0] /\ f[Out] = e[Out]
  BY DEF Reordered
<1>2. Rest = [i \in 1..(e[0] - e[Out]) |-> e[Out] + i]
  BY RestIs DEF RestOrdered
<1>3. RestOrdered'
  BY RestIs, PTL
<1>4. Rest' = [i \in 1..(f[0] - f[Out]) |-> f[Out] + i]
  BY <1>1, <1>3 DEF RestOrdered
<1>5. Rest' = Rest
  BY <1>1, <1>2, <1>4
<1>6. Ordered'
  BY <1>1 DEF Ordered
<1> QED
  BY <1>5, <1>6 DEF Abstract!vars

\* The utterances after lo up to hi.
After(lo, hi) == [i \in 1..(hi - lo) |-> lo + i]

\* x comes first in r, and s is what remains of it.
Split(r, x, s) == /\ Len(x) \in 0..Len(r) /\ x = SubSeq(r, 1, Len(x))
                  /\ s = SubSeq(r, Len(x) + 1, Len(r))

\* The utterances written are the first ones of the rest.
LEMMA RestSplit ==
  ASSUME NEW lo \in Nat, NEW m \in Nat, NEW hi \in Nat, lo <= m, m <= hi,
         NEW x \in Seq(Nat), Len(x) = m - lo, Follows(x, lo),
         NEW r \in Seq(Nat), r = After(lo, hi)
  PROVE  Len(r) = hi - lo /\ Split(r, x, After(m, hi))
<1>1. PICK n \in Nat : n = m - lo
  OBVIOUS
<1>2. PICK l \in Nat : l = hi - lo
  OBVIOUS
<1>3. Len(x) = n /\ n \in 0..l /\ m = lo + n /\ hi - m = l - n
  BY <1>1, <1>2
<1>4. r = [i \in 1..l |-> lo + i] /\ r \in Seq(Nat) /\ Len(r) = l
  <2>1. r = [i \in 1..l |-> lo + i]
    BY <1>2 DEF After
  <2>2. r \in [1..l -> Nat]
    BY <2>1
  <2> QED
    BY <2>1, <2>2, IsASeq
<1>5. x = SubSeq(r, 1, n)
  <2>1. SubSeq(r, 1, n) \in Seq(Nat) /\ Len(SubSeq(r, 1, n)) = n /\ \A i \in 1..n : SubSeq(r, 1, n)[i] = r[i]
    <3>1. SubSeq(r, 1, n) = [i \in 1..n |-> r[i]]
      OBVIOUS
    <3>2. \A i \in 1..n : r[i] \in Nat
      BY <1>3, <1>4
    <3>3. [i \in 1..n |-> r[i]] \in [1..n -> Nat]
      BY <3>2
    <3> QED
      BY <3>1, <3>3, IsASeq
  <2>2. \A i \in 1..n : x[i] = r[i]
    BY <1>3, <1>4 DEF Follows
  <2> QED
    <3>1. PICK y \in Seq(Nat) : y = SubSeq(r, 1, n)
      BY <2>1
    <3>2. Len(x) = Len(y) /\ \A i \in 1..Len(x) : x[i] = y[i]
      BY <1>3, <2>1, <2>2, <3>1
    <3>3. x = y
      BY <3>2, SeqEqual
    <3> QED
      BY <3>1, <3>3
<1>6. After(m, hi) = SubSeq(r, n + 1, l)
  <2>1. SubSeq(r, n + 1, l) = [i \in 1..(l - n) |-> r[n + i]]
    OBVIOUS
  <2>2. \A i \in 1..(l - n) : r[n + i] = m + i
    BY <1>3, <1>4
  <2> QED
    BY <1>3, <2>1, <2>2 DEF After
<1> QED
  BY <1>2, <1>3, <1>4, <1>5, <1>6 DEF Split

\* The output's writing is an Emit of the abstract specification.
LEMMA WriteSimulated ==
  ASSUME Undisturbed, Failing = {}, StreamInv, StreamInv', NEW e \in [0..Out -> Nat], OrderedBy(e),
         NEW a \in Agents, NEW q \in QueueType, NEW z, Write(a, q, z)
  PROVE  Ordered' /\ Abstract!Emit
<1> DEFINE x == Task(Out)
           lo == e[Out]
           hi == e[0]
<1>1. a = Out /\ MayRun(Out) /\ Busy(Out) /\ Out \in 0..Out /\ 0 \in 0..Out /\ Out # 0 /\ Out \in Agents
  <2>1. a = Out
    BY KindAssumption DEF Write, Agents, Out
  <2>2. MayRun(Out)
    BY <2>1 DEF Write
  <2>3. Out \in Nat /\ Out >= 2 /\ Out \in Agents
    BY Constants
  <2> QED
    BY <2>1, <2>2, <2>3 DEF MayRun
<1>2. x \in Seq(Nat) /\ Len(x) \in Nat /\ Len(x) >= 1 /\ lo \in Nat /\ hi \in Nat
  <2>1. x \in Seq(Nat) /\ x # <<>>
    BY <1>1, QueueFacts, Taken DEF StreamInv, NoTask
  <2> QED
    BY <1>1, <2>1, NonEmpty
<1>3. PICK m \in Nat : m = e[Out] + Len(Task(Out))
  BY <1>2
<1>4. /\ m <= e[Out - 1] /\ Follows(Task(Out), e[Out])
      /\ [e EXCEPT ![Out] = m] \in [0..Out -> Nat] /\ OrderedBy([e EXCEPT ![Out] = m])'
  BY <1>3, WriteOrdered
<1>5. PICK f \in [0..Out -> Nat] : f = [e EXCEPT ![Out] = m]
  BY <1>4
<1>6. OrderedBy(f)' /\ f[0] = hi /\ f[Out] = m
  BY <1>1, <1>4, <1>5
<1>7. e[Out - 1] <= e[0]
  <2>1. Out - 1 \in 0..Out /\ 0 <= Out - 1
    BY <1>1
  <2> QED
    BY <1>1, <2>1 DEF OrderedBy
<1>8. Rest = [i \in 1..(hi - lo) |-> lo + i]
  BY RestIs DEF RestOrdered
<1>9. RestOrdered'
  BY RestIs, PTL
<1>10. Rest' = [i \in 1..(hi - m) |-> m + i] /\ ((\A b \in Agents : ~Busy(b)') <=> hi = m)
  BY <1>6, <1>9 DEF RestOrdered
<1>11. callbk /\ session = "waits" /\ callbk \in BOOLEAN
  BY <1>1 DEF StreamInv, Calm, Foreground, PipeInv, ConnOK
<1>12. /\ inb' = [inb EXCEPT ![Out] = NoTask] /\ pendin' = PendinTaken(Out)
       /\ delivered' = delivered \o x /\ callbk' = (callbk /\ More(Out)) /\ session' = session
  BY <1>1 DEF Write
<1>13. (\A b \in Agents : ~Busy(b)') <=> ~More(Out)
  <2>1. /\ PendinTaken(Out) \in [Agents -> Seq(Seq(Nat))] /\ inb \in [Agents -> Seq(Nat)]
        /\ \A b \in Agents \ {Out} : PendinTaken(Out)[b] = pendin[b]
    BY <1>1, QueueFacts, Taken, PipeTypes DEF StreamInv, ListsOK
  <2>2. \A b \in Agents \ {Out} : Busy(b)' <=> Busy(b)
    BY <1>12, <2>1 DEF Busy
  <2>3. Busy(Out)' <=> PendinTaken(Out)[Out] # <<>>
    BY <1>1, <1>12, <2>1 DEF Busy
  <2> QED
    BY <1>1, <2>2, <2>3 DEF More, OthersBusy
<1>14. (IF callbk' THEN "runs" ELSE IF session' = "waits" THEN "done" ELSE "reads")
         = IF hi = m THEN "done" ELSE "runs"
  BY <1>10, <1>11, <1>12, <1>13
<1> HIDE DEF x, lo, hi
<1>15. m = lo + Len(x) /\ m <= hi /\ lo <= m /\ Follows(x, lo) /\ Len(x) = m - lo
  <2>1. m = lo + Len(x) /\ m <= e[Out - 1] /\ e[Out - 1] <= hi /\ Follows(x, lo) /\ e[Out - 1] \in Nat
    <3>1. Out - 1 \in 0..Out
      BY <1>1
    <3> QED
      BY <1>3, <1>4, <1>7, <3>1 DEF x, lo, hi
  <2>2. PICK k \in Nat : k = Len(x)
    BY <1>2
  <2> QED
    BY <1>2, <2>1, <2>2
<1>16. /\ Len(Rest) = hi - lo /\ Len(x) \in 0..Len(Rest) /\ x = SubSeq(Rest, 1, Len(x))
       /\ Rest' = SubSeq(Rest, Len(x) + 1, Len(Rest))
  <2>0. Rest \in Seq(Nat)
    <3>1. PICK l \in Nat : l = hi - lo
      BY <1>2, <1>15
    <3>2. [i \in 1..l |-> lo + i] \in [1..l -> Nat]
      BY <1>2
    <3> QED
      BY <1>8, <3>1, <3>2, IsASeq
  <2>1. PICK r \in Seq(Nat) : r = Rest
    BY <2>0
  <2>2. r = [i \in 1..(hi - lo) |-> lo + i]
    BY <1>8, <2>1
  <2>3. /\ Len(r) = hi - lo /\ Len(x) \in 0..Len(r) /\ x = SubSeq(r, 1, Len(x))
        /\ [i \in 1..(hi - m) |-> m + i] = SubSeq(r, Len(x) + 1, Len(r))
    <3>1. PICK l \in Nat, h \in Nat, y \in Seq(Nat) : l = lo /\ h = hi /\ y = x
      BY <1>2
    <3>2. l <= m /\ m <= h /\ Len(y) = m - l /\ Follows(y, l) /\ r = After(l, h)
      BY <1>15, <2>2, <3>1 DEF After
    <3>3. Len(r) = h - l /\ Split(r, y, After(m, h))
      BY <3>2, RestSplit
    <3> QED
      BY <3>1, <3>3 DEF After, Split
  <2> QED
    BY <1>10, <2>1, <2>3
<1>17. PICK n \in 1..Len(Rest) : n = Len(x)
  <2>1. PICK k \in Nat : k = Len(x)
    BY <1>2
  <2>2. PICK l \in Nat : l = Len(Rest)
    BY <1>2, <1>15, <1>16
  <2>3. k \in 0..l /\ k >= 1
    BY <1>2, <1>16, <2>1, <2>2
  <2>4. k \in 1..l
    BY <2>3
  <2> QED
    BY <2>1, <2>2, <2>4
<1>18. hi = m <=> n = Len(Rest)
  BY <1>2, <1>15, <1>16, <1>17
<1>19. /\ delivered' = delivered \o SubSeq(Rest, 1, n)
       /\ Rest' = SubSeq(Rest, n + 1, Len(Rest))
  BY <1>12, <1>16, <1>17
<1>20. Abstract!Emit
  BY <1>11, <1>14, <1>17, <1>18, <1>19 DEF Abstract!Emit
<1>21. Ordered'
  BY <1>6 DEF Ordered
<1> QED
  BY <1>20, <1>21

LEMMA SliceSimulated ==
  ASSUME Undisturbed, Failing = {}, StreamInv, StreamInv', NEW e \in [0..Out -> Nat], OrderedBy(e),
         NEW a \in Agents, NEW q \in QueueType, NEW z, Slice(a, q, z)
  PROVE  Ordered' /\ [Abstract!Next]_(Abstract!vars)
<1>1. CASE Write(a, q, z)
  BY <1>1, WriteSimulated DEF Abstract!Next
<1>2. CASE ~Write(a, q, z)
  <2>1. Reordered(e) /\ UNCHANGED conn
    BY <1>2, QuietOrdered DEF Quiet
  <2>2. UNCHANGED <<delivered, callbk, session>>
    BY <2>1 DEF conn
  <2> QED
    BY <2>1, <2>2, QuietSimulated
<1> QED
  BY <1>1, <1>2

\* The control connection reads on, which is the abstract Continue.
LEMMA ResumeSimulated ==
  ASSUME Undisturbed, Failing = {}, StreamInv, StreamInv', NEW e \in [0..Out -> Nat], OrderedBy(e), Resume
  PROVE  Ordered' /\ Abstract!Continue
<1>1. /\ runq # <<>> /\ Head(runq) = Ctrl /\ session' = "reads"
      /\ UNCHANGED <<inb, mark, pendin, delivered, callbk>>
  BY DEF Resume, pipe
<1>2. OrderedBy(e)'
  BY <1>1, OrderKept
<1>3. ~callbk /\ session = "waits"
  <2>1. runq \in QueueType /\ runq # <<>>
    BY <1>1 DEF StreamInv, PipeInv, ConnOK
  <2>2. 1 \in 1..Len(runq) /\ runq[1] = Ctrl
    BY <1>1, <2>1, NonEmpty, TailFacts DEF QueueType
  <2> QED
    BY <2>1, <2>2 DEF StreamInv, Calm, PipeInv, ConnOK
<1>4. Reordered(e)
  BY <1>2 DEF Reordered
<1>5. Rest' = Rest
  BY <1>1 DEF Rest, LastKnown, Newest, Busy
<1> QED
  BY <1>1, <1>2, <1>3, <1>5 DEF Ordered, Abstract!Continue

\* appl, which is the abstract Start.
LEMMA ApplySimulated ==
  ASSUME Undisturbed, Failing = {}, StreamInv, StreamInv', NEW e \in [0..Out -> Nat], OrderedBy(e), Apply
  PROVE  Ordered' /\ Abstract!Start
<1>1. session = "reads" /\ ~callbk /\ inb[1] = NoTask /\ 1 \notin asleep /\ \A b \in Agents : ~Busy(b)
  BY Constants DEF Apply, StreamInv, Calm, Foreground, Busy
<1>2. PICK k \in 1..MaxUtt :
        /\ inb' = [inb EXCEPT ![1] = Text(k)] /\ delivered' = <<>>
        /\ callbk' = TRUE /\ UNCHANGED <<pendin, mark>>
  BY <1>1 DEF Apply
<1>3. k \in Nat /\ 1 \in Agents /\ Out \in Nat /\ Out >= 2 /\ Out \in Agents
  BY Constants, BoundAssumption
<1>4. Text(k) \in Seq(Nat) /\ Len(Text(k)) = k /\ Follows(Text(k), 0) /\ Text(k) # <<>>
  <2>1. Text(k) = [i \in 1..k |-> i] /\ [i \in 1..k |-> i] \in [1..k -> Nat]
    BY DEF Text
  <2>2. Text(k) \in Seq(Nat) /\ Len(Text(k)) = k
    BY <1>3, <2>1, IsASeq
  <2>3. Len(<<>>) = 0 /\ k # 0
    OBVIOUS
  <2> QED
    BY <2>1, <2>2, <2>3 DEF Follows
<1> DEFINE f == [b \in 0..Out |-> IF b = 0 THEN k ELSE 0]
<1>5. f \in [0..Out -> Nat] /\ f[0] = k /\ \A b \in 0..Out : b # 0 => f[b] = 0
  BY <1>3
<1> HIDE DEF f
<1>6. \A b \in Agents : b \in 0..Out /\ b # 0 /\ b - 1 \in 0..Out /\ (b # 1 => b - 1 # 0)
  BY <1>3 DEF Agents
<1>7. \A b \in Agents : inb[b] = <<>> /\ pendin[b] = <<>> /\ mark[b] = 0
  <2> SUFFICES ASSUME NEW b \in Agents PROVE inb[b] = <<>> /\ pendin[b] = <<>> /\ mark[b] = 0
    OBVIOUS
  <2>1. inb[b] = NoTask => mark[b] = 0
    BY RestIs DEF RestOrdered
  <2> QED
    BY <1>1, <2>1 DEF Busy, NoTask
<1>8. inb'[1] = Text(k) /\ \A b \in Agents : b # 1 => inb'[b] = <<>>
  BY <1>2, <1>3, <1>7, PipeTypes DEF StreamInv
<1>9. ASSUME NEW b \in Agents PROVE Line(inb'[b], mark'[b], pendin'[b], f[b], f[b - 1])
  <2>1. CASE b = 1
    <3>1. Line(Text(k), 0, <<>>, 0, 0 + Len(Text(k)))
      BY <1>4, LineStarted
    <3>2. f[b] = 0 /\ f[b - 1] = 0 + Len(Text(k))
      BY <1>3, <1>4, <1>5, <1>6, <2>1
    <3> QED
      BY <1>2, <1>7, <1>8, <2>1, <3>1, <3>2
  <2>2. CASE b # 1
    <3>1. f[b] = 0 /\ f[b - 1] = 0
      BY <1>5, <1>6, <2>2
    <3>2. Line(<<>>, 0, <<>>, 0, 0)
      BY LineIdle
    <3> QED
      BY <1>2, <1>7, <1>8, <2>2, <3>1, <3>2
  <2> QED
    BY <2>1, <2>2
<1>10. \A b, d \in 0..Out : b <= d => f[d] <= f[b]
  BY <1>3, <1>5
<1>11. \A b \in Agents : \E d \in 1..b : Busy(d)'
  <2>1. Busy(1)'
    BY <1>4, <1>8 DEF Busy, NoTask
  <2>2. \A b \in Agents : 1 \in 1..b
    BY <1>3 DEF Agents
  <2> QED
    BY <2>1, <2>2
<1>12. f[Out] = Len(delivered')
  BY <1>2, <1>3, <1>5
<1>13. OrderedBy(f)'
  BY <1>9, <1>10, <1>11, <1>12 DEF OrderedBy
<1>14. RestOrdered'
  BY RestIs, PTL
<1>15. Rest' = [i \in 1..(f[0] - f[Out]) |-> f[Out] + i]
  BY <1>5, <1>13, <1>14 DEF RestOrdered
<1>16. Rest' = [i \in 1..k |-> i]
  <2>1. f[0] - f[Out] = k /\ f[Out] = 0
    BY <1>3, <1>5
  <2>2. \A i \in 1..k : 0 + i = i
    BY <1>3
  <2> QED
    BY <1>15, <2>1, <2>2
<1> QED
  BY <1>1, <1>2, <1>5, <1>13, <1>16 DEF Ordered, Abstract!Start

\* Every step of the stream is one of the abstract specification, or none.
LEMMA StepSimulated ==
  ASSUME Undisturbed, Failing = {}, StreamInv, StreamInv', Ordered, [Next]_vars
  PROVE  Ordered' /\ [Abstract!Next]_(Abstract!vars)
<1>1. PICK e \in [0..Out -> Nat] : OrderedBy(e)
  BY DEF Ordered
<1>2. runq \in QueueType /\ 1 \in Agents /\ Out \in Agents
  BY Constants DEF StreamInv, PipeInv, ConnOK
<1>3. CASE Dispatch
  <2>1. Head(runq) \in Agents /\ Tail(runq) \in QueueType /\ Slice(Head(runq), Tail(runq), asleep)
    BY <1>2, <1>3, TailFacts DEF Dispatch, QueueType
  <2> QED
    BY <1>1, <2>1, SliceSimulated
<1>4. CASE Receive
  BY <1>1, <1>2, <1>4, SliceSimulated DEF Receive
<1>5. CASE Drain
  BY <1>1, <1>2, <1>5, SliceSimulated DEF Drain
<1>6. CASE Resume
  BY <1>1, <1>6, ResumeSimulated DEF Abstract!Next
<1>7. CASE Apply
  BY <1>1, <1>7, ApplySimulated DEF Abstract!Next
<1>8. ~Interrupt
  BY DEF Interrupt, Undisturbed, StreamInv, PipeInv, ConnOK
<1>9. CASE UNCHANGED vars
  <2>1. UNCHANGED <<inb, mark, pendin, delivered, callbk, session>>
    BY <1>9 DEF vars, pipe, conn
  <2>2. OrderedBy(e)'
    BY <1>1, <2>1, OrderKept
  <2>3. Reordered(e)
    BY <2>2 DEF Reordered
  <2> QED
    BY <1>1, <2>1, <2>3, QuietSimulated
<1> QED
  BY <1>3, <1>4, <1>5, <1>6, <1>7, <1>8, <1>9 DEF Next

LEMMA OrderedInit == Init => Ordered /\ Abstract!Init
<1> SUFFICES ASSUME Init PROVE Ordered /\ Abstract!Init
  OBVIOUS
<1> DEFINE f == [b \in 0..Out |-> 0]
<1>1. f \in [0..Out -> Nat] /\ \A b \in 0..Out : f[b] = 0
  OBVIOUS
<1> HIDE DEF f
<1>2. \A b \in Agents : b \in 0..Out /\ b - 1 \in 0..Out
  BY Constants DEF Agents
<1>3. \A b \in Agents : inb[b] = <<>> /\ pendin[b] = <<>> /\ mark[b] = 0 /\ ~Busy(b)
  BY DEF Init, NoTask, Busy
<1>4. \A b \in Agents : Line(inb[b], mark[b], pendin[b], f[b], f[b - 1])
  <2>1. Line(<<>>, 0, <<>>, 0, 0)
    BY LineIdle
  <2> QED
    BY <1>1, <1>2, <1>3, <2>1
<1>5. delivered = <<>> /\ callbk = FALSE /\ session = "reads"
  BY DEF Init
<1>6. OrderedBy(f)
  <2>1. Out \in 0..Out /\ 0 \in 0..Out
    BY Constants
  <2> QED
    BY <1>1, <1>2, <1>4, <1>5, <2>1 DEF OrderedBy
<1>7. Rest = <<>>
  <2>1. LastKnown = Len(delivered)
    BY <1>3 DEF LastKnown
  <2>2. LastKnown - Len(delivered) = 0
    BY <1>5, <2>1
  <2> QED
    BY <2>2 DEF Rest
<1> QED
  BY <1>1, <1>5, <1>6, <1>7 DEF Ordered, Abstract!Init

\* A stream that nothing disturbs and in which nothing fails keeps the promise of Delivery:
\* whatever the agents and their order, every utterance of the text is written once and in
\* order, and 200 is sent when the last one is out (class stream, src/src/agent.h:90-130).
THEOREM DeliveryImplemented ==
  ASSUME Undisturbed, Failing = {}
  PROVE  Spec => Abstract!Safe
<1> DEFINE Inv == StreamInv /\ Ordered
<1>1. Init => Inv /\ Abstract!Init
  BY StreamInvInit, OrderedInit
<1>2. Inv /\ [Next]_vars => Inv' /\ [Abstract!Next]_(Abstract!vars)
  <2>1. StreamInv /\ [Next]_vars => StreamInv'
    BY StreamInvStep
  <2> QED
    BY <2>1, StepSimulated
<1> QED
  BY <1>1, <1>2, PTL DEF Spec, Abstract!Safe
=============================================================================
