-------------------------- MODULE DialogueProofs ---------------------------
(***************************************************************************)
(* Programs that send ahead of the results they read take every result for *)
(* that of its own command (Dialogue.Paired), whatever the program, if it  *)
(* has one process and awaits results in turn (Dialogue.InTurn).  The      *)
(* invariant numbers what is under way on a connection: results that have  *)
(* come back, the text that is spoken, and the commands that nobody has    *)
(* read, in this order, are those of the steps that have been sent and not *)
(* awaited yet.                                                            *)
(***************************************************************************)
EXTENDS Dialogue, FiniteSetTheorems, SequenceTheorems, TLAPS

DlgSpec == DlgInit /\ [][DlgNext]_dlgVars

\* Lines that the server writes.
Codes == {"hi", "info", "handle", "1", "123"} \cup Conclusive
Lines == [code : Codes, is : Verbs \cup {""}]
Results == {x \in Lines : x.code \in Conclusive}
Orders == {x \in Commands : x.is # "text"}
Peers == [role : {"none", "new", "ctrl", "root", "data", "over"}, place : Servers \cup {0},
          boss : Conns \cup {None}, from : Conns \cup {None}, back : BOOLEAN,
          doing : {"rest", "reads", "writes"}, wants : Int, long : BOOLEAN]
Over == [Absent EXCEPT !.role = "over"]

\* The k-th command that is sent on c, from 0, is is.
Named(steps, c, k, is) ==
  \A j \in Sends(steps, c) : Before(Sends(steps, c), j) = k => steps[j].what.is = is

\* The members of J in q are numbers a to e - 1 of what is sent on c.
Numbered(steps, c, q, J, a, e) ==
  \E f \in [0..Len(q) -> Nat] :
    /\ f[0] = a /\ f[Len(q)] = e
    /\ \A k, l \in 0..Len(q) : k <= l => f[k] <= f[l]
    /\ \A k \in 1..Len(q) : IF q[k] \in J
                            THEN f[k] = f[k - 1] + 1 /\ Named(steps, c, f[k - 1], q[k].is)
                            ELSE f[k] = f[k - 1]

\* Of what is sent on c, numbers a to b - 1 are under way: in q, at work, or in u.
Layout(steps, c, a, b, q, u, z) ==
  /\ q \in Seq(Lines)
  /\ \E m \in Nat :
       /\ Numbered(steps, c, q, Results, a, m)
       /\ IF z.role = "over" THEN m <= b
          ELSE \E n \in Nat :
                 /\ IF z.doing = "rest" THEN n = m ELSE n = m + 1 /\ Named(steps, c, m, "appl")
                 /\ Numbered(steps, c, u, Orders, n, b)

\* A stream may use connection d before step i is over.
Past(steps, i, d) == \E j \in 1..i : j <= Len(steps) /\ Uses(steps[j], d)

\* Whoever waits for the handle gets it before any result.
HandleFirst(q) == \E k \in 1..Len(q) : q[k].code = "handle" /\ \A l \in 1..k : q[l].code \notin Conclusive
Greets(z, q) == (z.role \in {"none", "new", "over"} /\ q = <<>>) \/ HandleFirst(q)

\* Connection c, whose server is in state z, when the program is at step i.
Good(steps, i, c, z, q, u) ==
  /\ z.doing # "rest" => z.role \in {"ctrl", "root"} /\ z.from # None
  /\ z.from # None => Past(steps, i, z.from)
  /\ \A k \in 1..Len(u) : u[k].is = "strm" /\ u[k].with # None => Past(steps, i, u[k].with)
  /\ z.role \in {"none", "new"} => q = <<>>
  /\ ~Past(steps, i, c) =>
       Layout(steps, c, Before(Awaits(steps, c), i), Before(Sends(steps, c), i), q, u, z)
  /\ \A j \in i..Len(steps) : steps[j].do = "handle" /\ steps[j].on = c => Greets(z, q)

Typed(z, q, u) == z \in Peers /\ q \in Seq(Lines \cup {Sound}) /\ u \in Seq(Commands)
Fits(steps, i, c, z, q, u) == Typed(z, q, u) /\ Good(steps, i, c, z, q, u)

Program(steps) ==
  /\ Len(steps) \in Nat
  /\ \A i \in 1..Len(steps) :
       /\ steps[i].do \in Waits \cup {"connect", "handle", "send"} => steps[i].on \in Conns
       /\ steps[i].do = "connect" => steps[i].what \subseteq Servers
       /\ steps[i].do = "send" => steps[i].what \in Commands
       /\ steps[i].do = "data" => steps[i].what.from \in Conns
  /\ InTurn(steps)

-----------------------------------------------------------------------------
(* Counting.                                                               *)

LEMMA BeforeNat ==
  ASSUME NEW n \in Nat, NEW S, S \subseteq 1..n, NEW i \in Nat
  PROVE  Before(S, i) \in Nat /\ IsFiniteSet({j \in S : j < i})
<1>1. IsFiniteSet(1..n)
  BY FS_Interval
<1>2. {j \in S : j < i} \subseteq 1..n
  OBVIOUS
<1> QED BY <1>1, <1>2, FS_Subset, FS_CardinalityType DEF Before

LEMMA BeforeOne == ASSUME NEW n \in Nat, NEW S, S \subseteq 1..n PROVE Before(S, 1) = 0
<1> DEFINE T == {j \in S : j < 1}
<1>0. \A j \in S : j \in Nat /\ ~(j < 1)
  OBVIOUS
<1>1. T = {}
  <2>1. \A j \in T : j \in S /\ j < 1
    OBVIOUS
  <2> HIDE DEF T
  <2> QED BY <1>0, <2>1
<1> QED BY <1>1, FS_EmptySet DEF Before

LEMMA BeforeNext ==
  ASSUME NEW n \in Nat, NEW S, S \subseteq 1..n, NEW i \in Nat
  PROVE  Before(S, i + 1) = IF i \in S THEN Before(S, i) + 1 ELSE Before(S, i)
<1> DEFINE T == {j \in S : j < i}
<1>0. \A j \in S : j \in Nat /\ (j < i + 1 <=> j < i \/ j = i)
  OBVIOUS
<1>1. IsFiniteSet(T) /\ i \notin T
  <2>1. IsFiniteSet(T)
    BY BeforeNat
  <2> QED BY <2>1
<1>2. CASE i \in S
  <2>1. {j \in S : j < i + 1} = T \cup {i}
    BY <1>0, <1>2
  <2>2. Cardinality(T \cup {i}) = Cardinality(T) + 1
    BY <1>1, FS_AddElement
  <2> QED BY <1>2, <2>1, <2>2 DEF Before
<1>3. CASE i \notin S
  <2>1. {j \in S : j < i + 1} = T
    BY <1>0, <1>3
  <2> QED BY <1>3, <2>1 DEF Before
<1> QED BY <1>2, <1>3

LEMMA BeforeLess ==
  ASSUME NEW n \in Nat, NEW S, S \subseteq 1..n, NEW j \in S, NEW i \in Nat, j < i
  PROVE  Before(S, j) < Before(S, i)
<1>1. j \in Nat /\ \A k \in S : k \in Nat /\ (k < j + 1 => k < i)
  OBVIOUS
<1>2. Before(S, j + 1) = Before(S, j) + 1
  BY <1>1, BeforeNext
<1>3. {k \in S : k < j + 1} \subseteq {k \in S : k < i}
  BY <1>1
<1>4. IsFiniteSet({k \in S : k < i})
  BY BeforeNat
<1>5. Before(S, j + 1) <= Before(S, i)
  BY <1>3, <1>4, FS_Subset DEF Before
<1>6. Before(S, j) \in Nat /\ Before(S, j + 1) \in Nat /\ Before(S, i) \in Nat
  <2>1. j + 1 \in Nat
    BY <1>1
  <2> QED BY <1>1, <2>1, BeforeNat
<1> QED BY <1>2, <1>5, <1>6

LEMMA SameNumber ==
  ASSUME NEW n \in Nat, NEW S, S \subseteq 1..n, NEW j \in S, NEW i \in S, Before(S, j) = Before(S, i)
  PROVE  i = j
<1>0. i \in Nat /\ j \in Nat
  OBVIOUS
<1>1. i \in Nat /\ j \in Nat /\ Before(S, j) \in Nat /\ Before(S, i) \in Nat
  BY <1>0, BeforeNat
<1>2. j < i => Before(S, j) < Before(S, i)
  BY <1>1, BeforeLess
<1>3. i < j => Before(S, i) < Before(S, j)
  BY <1>1, BeforeLess
<1> QED BY <1>1, <1>2, <1>3

-----------------------------------------------------------------------------
(* Numbering.                                                              *)

LEMMA NumberedFree ==
  ASSUME NEW steps, NEW c, NEW T, NEW q \in Seq(T), NEW J, \A k \in 1..Len(q) : q[k] \notin J,
         NEW a \in Nat
  PROVE  Numbered(steps, c, q, J, a, a)
<1> DEFINE n == Len(q)
           g == [k \in 0..n |-> a]
<1>1. n \in Nat
  OBVIOUS
<1>2. g \in [0..n -> Nat] /\ \A k \in 0..n : g[k] = a
  OBVIOUS
<1>3. g[0] = a /\ g[n] = a /\ \A k \in 1..n : g[k] = a /\ g[k - 1] = a
  BY <1>1, <1>2
<1>4. \A k, l \in 0..n : k <= l => g[k] <= g[l]
  BY <1>2
<1> HIDE DEF g
<1> QED BY <1>2, <1>3, <1>4 DEF Numbered

LEMMA NumberedNone ==
  ASSUME NEW steps, NEW c, NEW J, NEW a \in Nat
  PROVE  Numbered(steps, c, <<>>, J, a, a)
<1>1. <<>> \in Seq(Nat) /\ \A k \in 1..Len(<<>>) : FALSE
  OBVIOUS
<1> QED BY <1>1, NumberedFree

LEMMA NumberedRange ==
  ASSUME NEW steps, NEW c, NEW T, NEW q \in Seq(T), NEW J, NEW a, NEW e, Numbered(steps, c, q, J, a, e)
  PROVE  a \in Nat /\ e \in Nat /\ a <= e /\ (q = <<>> => a = e)
<1>1. Len(q) \in Nat
  OBVIOUS
<1> QED BY <1>1 DEF Numbered

LEMMA NumberedAppend ==
  ASSUME NEW steps, NEW c, NEW T, NEW q \in Seq(T), NEW x \in T, NEW J, NEW a, NEW e,
         Numbered(steps, c, q, J, a, e)
  PROVE  /\ x \notin J => Numbered(steps, c, Append(q, x), J, a, e)
         /\ x \in J /\ Named(steps, c, e, x.is) => Numbered(steps, c, Append(q, x), J, a, e + 1)
<1> DEFINE n == Len(q)
           r == Append(q, x)
<1>1. /\ n \in Nat /\ r \in Seq(T) /\ Len(r) = n + 1 /\ r[n + 1] = x
      /\ \A k \in 1..n : r[k] = q[k]
  OBVIOUS
<1>2. PICK f \in [0..n -> Nat] :
        /\ f[0] = a /\ f[n] = e
        /\ \A k, l \in 0..n : k <= l => f[k] <= f[l]
        /\ \A k \in 1..n : IF q[k] \in J
                           THEN f[k] = f[k - 1] + 1 /\ Named(steps, c, f[k - 1], q[k].is)
                           ELSE f[k] = f[k - 1]
  BY DEF Numbered
<1>3. ASSUME NEW b \in Nat, b >= e,
             IF x \in J THEN b = e + 1 /\ Named(steps, c, e, x.is) ELSE b = e
      PROVE  Numbered(steps, c, r, J, a, b)
  <2> DEFINE g == [k \in 0..n + 1 |-> IF k = n + 1 THEN b ELSE f[k]]
  <2>1. g \in [0..n + 1 -> Nat] /\ g[n + 1] = b /\ \A k \in 0..n : g[k] = f[k]
    BY <1>1, <1>2
  <2>2. g[0] = a
    BY <1>1, <1>2, <2>1
  <2>3. \A k, l \in 0..n + 1 : k <= l => g[k] <= g[l]
    <3> SUFFICES ASSUME NEW k \in 0..n + 1, NEW l \in 0..n + 1, k <= l PROVE g[k] <= g[l]
      OBVIOUS
    <3>1. CASE l = n + 1 /\ k # n + 1
      <4>1. k \in 0..n /\ n \in 0..n /\ k <= n
        BY <3>1, <1>1
      <4>2. f[k] <= e /\ f[k] \in Nat /\ e \in Nat
        BY <4>1, <1>2
      <4> QED BY <3>1, <4>1, <4>2, <2>1, <1>3
    <3>2. CASE l = n + 1 /\ k = n + 1
      BY <3>2, <2>1
    <3>3. CASE l # n + 1
      <4>1. k \in 0..n /\ l \in 0..n
        BY <3>3, <1>1
      <4> QED BY <4>1, <2>1, <1>2
    <3> QED BY <3>1, <3>2, <3>3
  <2>4. ASSUME NEW k \in 1..n + 1
        PROVE  IF r[k] \in J THEN g[k] = g[k - 1] + 1 /\ Named(steps, c, g[k - 1], r[k].is)
                             ELSE g[k] = g[k - 1]
    <3>1. CASE k = n + 1
      <4>1. k - 1 = n /\ n \in 0..n
        BY <3>1, <1>1
      <4>2. g[k] = b /\ g[k - 1] = e /\ r[k] = x
        BY <3>1, <4>1, <2>1, <1>2, <1>1
      <4> QED BY <4>2, <1>3
    <3>2. CASE k # n + 1
      <4>1. k \in 1..n /\ k \in 0..n /\ k - 1 \in 0..n
        BY <3>2, <1>1
      <4>2. g[k] = f[k] /\ g[k - 1] = f[k - 1] /\ r[k] = q[k]
        BY <4>1, <2>1, <1>1
      <4> QED BY <4>1, <4>2, <1>2
    <3> QED BY <3>1, <3>2
  <2> HIDE DEF g
  <2> QED BY <1>1, <2>1, <2>2, <2>3, <2>4 DEF Numbered
<1>4. e \in Nat
  BY <1>1, <1>2
<1> QED BY <1>3, <1>4

LEMMA NumberedTail ==
  ASSUME NEW steps, NEW c, NEW T, NEW q \in Seq(T), q # <<>>, NEW J, NEW a, NEW e,
         Numbered(steps, c, q, J, a, e)
  PROVE  /\ Head(q) \notin J => Numbered(steps, c, Tail(q), J, a, e)
         /\ Head(q) \in J => Named(steps, c, a, Head(q).is) /\ Numbered(steps, c, Tail(q), J, a + 1, e)
<1> DEFINE n == Len(q)
           r == Tail(q)
<1>1. /\ n \in Nat \ {0} /\ r \in Seq(T) /\ Len(r) = n - 1 /\ Head(q) = q[1]
      /\ \A k \in 1..n - 1 : r[k] = q[k + 1]
  BY EmptySeq
<1>2. PICK f \in [0..n -> Nat] :
        /\ f[0] = a /\ f[n] = e
        /\ \A k, l \in 0..n : k <= l => f[k] <= f[l]
        /\ \A k \in 1..n : IF q[k] \in J
                           THEN f[k] = f[k - 1] + 1 /\ Named(steps, c, f[k - 1], q[k].is)
                           ELSE f[k] = f[k - 1]
  BY DEF Numbered
<1> DEFINE g == [k \in 0..n - 1 |-> f[k + 1]]
<1>3. /\ g \in [0..n - 1 -> Nat] /\ g[0] = f[1] /\ g[n - 1] = e
      /\ \A k \in 0..n - 1 : g[k] = f[k + 1] /\ k + 1 \in 0..n
  BY <1>1, <1>2
<1>4. \A k, l \in 0..n - 1 : k <= l => g[k] <= g[l]
  BY <1>1, <1>2, <1>3
<1>5. ASSUME NEW k \in 1..n - 1
      PROVE  IF r[k] \in J THEN g[k] = g[k - 1] + 1 /\ Named(steps, c, g[k - 1], r[k].is)
                           ELSE g[k] = g[k - 1]
  <2>1. k \in 0..n - 1 /\ k - 1 \in 0..n - 1 /\ k + 1 \in 1..n /\ (k + 1) - 1 = k /\ (k - 1) + 1 = k
    BY <1>1
  <2>2. g[k] = f[k + 1] /\ g[k - 1] = f[k] /\ r[k] = q[k + 1]
    BY <2>1, <1>1, <1>3
  <2> QED BY <2>1, <2>2, <1>2
<1> HIDE DEF g
<1>6. Numbered(steps, c, r, J, f[1], e)
  BY <1>1, <1>3, <1>4, <1>5 DEF Numbered
<1>7. 1 \in 1..n /\ 1 - 1 = 0
  BY <1>1
<1>8. IF q[1] \in J THEN f[1] = a + 1 /\ Named(steps, c, a, q[1].is) ELSE f[1] = a
  BY <1>2, <1>7
<1> QED BY <1>1, <1>6, <1>8

\* Where nothing counts, any number will do.
LEMMA NumberedIdle ==
  ASSUME NEW steps, NEW c, NEW T, NEW q \in Seq(T), NEW J, NEW a, Numbered(steps, c, q, J, a, a),
         NEW b \in Nat
  PROVE  Numbered(steps, c, q, J, b, b)
<1> DEFINE n == Len(q)
<1>1. n \in Nat
  OBVIOUS
<1>2. PICK f \in [0..n -> Nat] :
        /\ f[0] = a /\ f[n] = a
        /\ \A k, l \in 0..n : k <= l => f[k] <= f[l]
        /\ \A k \in 1..n : IF q[k] \in J
                           THEN f[k] = f[k - 1] + 1 /\ Named(steps, c, f[k - 1], q[k].is)
                           ELSE f[k] = f[k - 1]
  BY DEF Numbered
<1>3. ASSUME NEW k \in 0..n PROVE f[k] = a
  <2>1. 0 \in 0..n /\ n \in 0..n /\ 0 <= k /\ k <= n
    BY <1>1
  <2>2. f[0] <= f[k] /\ f[k] <= f[n] /\ f[k] \in Nat /\ f[0] \in Nat
    BY <2>1, <1>2
  <2> QED BY <2>2, <1>2
<1>4. ASSUME NEW k \in 1..n PROVE q[k] \notin J
  <2>1. k \in 0..n /\ k - 1 \in 0..n
    BY <1>1
  <2>2. f[k] = a /\ f[k - 1] = a /\ f[k] \in Nat
    BY <2>1, <1>3, <1>2
  <2> QED BY <2>2, <1>2
<1> QED BY <1>4, NumberedFree

-----------------------------------------------------------------------------
(* What is under way on a connection, as lines come and go.                *)

LEMMA Resting ==
  ASSUME NEW steps, NEW c, NEW a \in Nat, NEW z, z.doing = "rest"
  PROVE  Layout(steps, c, a, a, <<>>, <<>>, z)
<1>1. <<>> \in Seq(Lines) /\ a <= a
  OBVIOUS
<1> QED BY <1>1, NumberedNone DEF Layout

\* The program reads a line that is no result, or a result.
LEMMA Heard ==
  ASSUME NEW steps, NEW c, NEW a, NEW b, NEW q, q # <<>>, NEW u, NEW z,
         Layout(steps, c, a, b, q, u, z)
  PROVE  /\ Head(q) \notin Results => Layout(steps, c, a, b, Tail(q), u, z)
         /\ Head(q) \in Results => /\ Named(steps, c, a, Head(q).is)
                                   /\ Layout(steps, c, a + 1, b, Tail(q), u, z)
<1>1. q \in Seq(Lines) /\ Tail(q) \in Seq(Lines)
  BY DEF Layout
<1>2. PICK m \in Nat :
        /\ Numbered(steps, c, q, Results, a, m)
        /\ IF z.role = "over" THEN m <= b
           ELSE \E n \in Nat :
                  /\ IF z.doing = "rest" THEN n = m ELSE n = m + 1 /\ Named(steps, c, m, "appl")
                  /\ Numbered(steps, c, u, Orders, n, b)
  BY DEF Layout
<1>3. /\ Head(q) \notin Results => Numbered(steps, c, Tail(q), Results, a, m)
      /\ Head(q) \in Results => /\ Named(steps, c, a, Head(q).is)
                                /\ Numbered(steps, c, Tail(q), Results, a + 1, m)
  BY <1>1, <1>2, NumberedTail
<1> QED BY <1>1, <1>2, <1>3 DEF Layout

\* The server is gone, and the program goes on without a result.
LEMMA HeardNone ==
  ASSUME NEW steps, NEW c, NEW a \in Nat, NEW b \in Nat, a <= b, NEW u, NEW z, z.role = "over"
  PROVE  Layout(steps, c, a, b, <<>>, u, z)
<1>1. <<>> \in Seq(Lines)
  OBVIOUS
<1> QED BY <1>1, NumberedNone DEF Layout

\* What is repeated was the last command: nothing else is under way.
LEMMA Again ==
  ASSUME NEW steps, NEW c, NEW a \in Nat, NEW q, NEW u \in Seq(Commands), NEW z,
         Layout(steps, c, a + 1, a + 1, q, u, z)
  PROVE  Layout(steps, c, a, a, q, u, z)
<1>1. q \in Seq(Lines)
  BY DEF Layout
<1>2. PICK m \in Nat :
        /\ Numbered(steps, c, q, Results, a + 1, m)
        /\ IF z.role = "over" THEN m <= a + 1
           ELSE \E n \in Nat :
                  /\ IF z.doing = "rest" THEN n = m ELSE n = m + 1 /\ Named(steps, c, m, "appl")
                  /\ Numbered(steps, c, u, Orders, n, a + 1)
  BY DEF Layout
<1>3. a + 1 <= m
  BY <1>1, <1>2, NumberedRange
<1>4. CASE z.role = "over"
  <2>1. m = a + 1
    BY <1>2, <1>3, <1>4
  <2>2. Numbered(steps, c, q, Results, a, a)
    BY <1>1, <1>2, <2>1, NumberedIdle
  <2>3. a <= a
    OBVIOUS
  <2> QED BY <1>1, <1>4, <2>2, <2>3 DEF Layout
<1>5. CASE z.role # "over"
  <2>1. PICK n \in Nat :
          /\ IF z.doing = "rest" THEN n = m ELSE n = m + 1 /\ Named(steps, c, m, "appl")
          /\ Numbered(steps, c, u, Orders, n, a + 1)
    BY <1>2, <1>5
  <2>2. n <= a + 1
    BY <2>1, NumberedRange
  <2>3. m = a + 1 /\ n = a + 1 /\ z.doing = "rest"
    BY <1>3, <2>1, <2>2
  <2>4. Numbered(steps, c, q, Results, a, a) /\ Numbered(steps, c, u, Orders, a, a)
    BY <1>1, <1>2, <2>1, <2>3, NumberedIdle
  <2> QED BY <1>1, <1>5, <2>3, <2>4 DEF Layout
<1> QED BY <1>4, <1>5

\* The program sends a command or text, or nobody takes it.
LEMMA Sent1 ==
  ASSUME NEW steps, NEW c, NEW a, NEW b \in Nat, NEW q, NEW u \in Seq(Commands), NEW z,
         NEW x \in Commands, Layout(steps, c, a, b, q, u, z)
  PROVE  /\ x \notin Orders => Layout(steps, c, a, b, q, Append(u, x), z)
         /\ x \in Orders /\ Named(steps, c, b, x.is) => Layout(steps, c, a, b + 1, q, Append(u, x), z)
         /\ z.role = "over" => Layout(steps, c, a, b + 1, q, u, z)
<1>1. q \in Seq(Lines)
  BY DEF Layout
<1>2. PICK m \in Nat :
        /\ Numbered(steps, c, q, Results, a, m)
        /\ IF z.role = "over" THEN m <= b
           ELSE \E n \in Nat :
                  /\ IF z.doing = "rest" THEN n = m ELSE n = m + 1 /\ Named(steps, c, m, "appl")
                  /\ Numbered(steps, c, u, Orders, n, b)
  BY DEF Layout
<1>3. CASE z.role = "over"
  <2>1. m <= b /\ m <= b + 1
    BY <1>2, <1>3
  <2> QED BY <1>1, <1>2, <1>3, <2>1 DEF Layout
<1>4. CASE z.role # "over"
  <2>1. PICK n \in Nat :
          /\ IF z.doing = "rest" THEN n = m ELSE n = m + 1 /\ Named(steps, c, m, "appl")
          /\ Numbered(steps, c, u, Orders, n, b)
    BY <1>2, <1>4
  <2>2. /\ x \notin Orders => Numbered(steps, c, Append(u, x), Orders, n, b)
        /\ x \in Orders /\ Named(steps, c, b, x.is) => Numbered(steps, c, Append(u, x), Orders, n, b + 1)
    BY <2>1, NumberedAppend
  <2> QED BY <1>1, <1>2, <1>4, <2>1, <2>2 DEF Layout
<1> QED BY <1>3, <1>4

\* The server writes a line that is no result, or reads text.
LEMMA Told ==
  ASSUME NEW steps, NEW c, NEW a, NEW b, NEW q, NEW u \in Seq(Commands), NEW z,
         Layout(steps, c, a, b, q, u, z)
  PROVE  /\ \A x \in Lines \ Results : Layout(steps, c, a, b, Append(q, x), u, z)
         /\ u # <<>> /\ Head(u) \notin Orders => Layout(steps, c, a, b, q, Tail(u), z)
<1>1. q \in Seq(Lines)
  BY DEF Layout
<1>2. PICK m \in Nat :
        /\ Numbered(steps, c, q, Results, a, m)
        /\ IF z.role = "over" THEN m <= b
           ELSE \E n \in Nat :
                  /\ IF z.doing = "rest" THEN n = m ELSE n = m + 1 /\ Named(steps, c, m, "appl")
                  /\ Numbered(steps, c, u, Orders, n, b)
  BY DEF Layout
<1>3. ASSUME NEW x \in Lines \ Results PROVE Layout(steps, c, a, b, Append(q, x), u, z)
  <2>0. x \in Lines /\ x \notin Results
    OBVIOUS
  <2>1. Numbered(steps, c, Append(q, x), Results, a, m)
    BY <1>1, <1>2, <2>0, NumberedAppend
  <2>2. Append(q, x) \in Seq(Lines)
    BY <1>1, <2>0
  <2> QED BY <1>2, <2>1, <2>2 DEF Layout
<1>4. ASSUME u # <<>>, Head(u) \notin Orders PROVE Layout(steps, c, a, b, q, Tail(u), z)
  <2>1. ASSUME NEW n, Numbered(steps, c, u, Orders, n, b) PROVE Numbered(steps, c, Tail(u), Orders, n, b)
    BY <1>4, <2>1, NumberedTail
  <2> QED BY <1>1, <1>2, <2>1 DEF Layout
<1> QED BY <1>3, <1>4

\* The server answers a command, begins to speak, or has spoken.
LEMMA Answered ==
  ASSUME NEW steps, NEW c, NEW a, NEW b, NEW q, NEW u \in Seq(Commands), NEW z, NEW y,
         Layout(steps, c, a, b, q, u, z), z.role # "over", u # <<>>, Head(u) \in Orders,
         z.doing = "rest"
  PROVE  /\ \A x \in Results :
              x.is = Head(u).is /\ y.doing = "rest" => Layout(steps, c, a, b, Append(q, x), Tail(u), y)
         /\ Head(u).is = "appl" /\ y.doing # "rest" /\ y.role # "over" =>
              Layout(steps, c, a, b, q, Tail(u), y)
<1>1. q \in Seq(Lines)
  BY DEF Layout
<1>2. PICK m \in Nat : Numbered(steps, c, q, Results, a, m) /\ Numbered(steps, c, u, Orders, m, b)
  BY DEF Layout
<1>3. Named(steps, c, m, Head(u).is) /\ Numbered(steps, c, Tail(u), Orders, m + 1, b)
  BY <1>2, NumberedTail
<1>4. m + 1 \in Nat /\ m + 1 <= b
  <2>1. Tail(u) \in Seq(Commands)
    OBVIOUS
  <2> QED BY <1>3, <2>1, NumberedRange
<1>5. ASSUME NEW x \in Results, x.is = Head(u).is, y.doing = "rest"
      PROVE  Layout(steps, c, a, b, Append(q, x), Tail(u), y)
  <2>1. x \in Lines
    BY DEF Results
  <2>2. Numbered(steps, c, Append(q, x), Results, a, m + 1)
    BY <1>1, <1>2, <1>3, <1>5, <2>1, NumberedAppend
  <2>3. Append(q, x) \in Seq(Lines)
    BY <1>1, <2>1
  <2> QED BY <1>3, <1>4, <1>5, <2>2, <2>3 DEF Layout
<1>6. ASSUME Head(u).is = "appl", y.doing # "rest", y.role # "over"
      PROVE  Layout(steps, c, a, b, q, Tail(u), y)
  BY <1>1, <1>2, <1>3, <1>4, <1>6 DEF Layout
<1> QED BY <1>5, <1>6

LEMMA Finished ==
  ASSUME NEW steps, NEW c, NEW a, NEW b, NEW q, NEW u \in Seq(Commands), NEW z, NEW y,
         Layout(steps, c, a, b, q, u, z), z.role # "over", z.doing # "rest",
         y.doing = "rest", NEW x \in Results, x.is = "appl"
  PROVE  Layout(steps, c, a, b, Append(q, x), u, y)
<1>1. q \in Seq(Lines) /\ x \in Lines
  BY DEF Layout, Results
<1>2. PICK m \in Nat : /\ Numbered(steps, c, q, Results, a, m)
                       /\ Named(steps, c, m, "appl") /\ Numbered(steps, c, u, Orders, m + 1, b)
  BY DEF Layout
<1>3. m + 1 \in Nat /\ m + 1 <= b
  BY <1>2, NumberedRange
<1>4. Numbered(steps, c, Append(q, x), Results, a, m + 1)
  BY <1>1, <1>2, NumberedAppend
<1>5. Append(q, x) \in Seq(Lines)
  BY <1>1
<1> QED BY <1>2, <1>3, <1>4, <1>5 DEF Layout

\* The connection goes on as it is, or is over.
LEMMA Kept ==
  ASSUME NEW steps, NEW c, NEW a, NEW b, NEW q, NEW u \in Seq(Commands), NEW z, NEW y,
         Layout(steps, c, a, b, q, u, z),
         \/ y.role = "over"
         \/ (y.role = "over" <=> z.role = "over") /\ (y.doing = "rest" <=> z.doing = "rest")
  PROVE  Layout(steps, c, a, b, q, u, y)
<1>1. q \in Seq(Lines)
  BY DEF Layout
<1>2. PICK m \in Nat :
        /\ Numbered(steps, c, q, Results, a, m)
        /\ IF z.role = "over" THEN m <= b
           ELSE \E n \in Nat :
                  /\ IF z.doing = "rest" THEN n = m ELSE n = m + 1 /\ Named(steps, c, m, "appl")
                  /\ Numbered(steps, c, u, Orders, n, b)
  BY DEF Layout
<1>3. CASE y.role = "over"
  <2>1. m <= b
    <3>1. CASE z.role = "over"
      BY <1>2, <3>1
    <3>2. CASE z.role # "over"
      <4>1. PICK n \in Nat : (n = m \/ n = m + 1) /\ Numbered(steps, c, u, Orders, n, b)
        BY <1>2, <3>2
      <4>2. n <= b /\ b \in Nat
        BY <4>1, NumberedRange
      <4> QED BY <4>1, <4>2
    <3> QED BY <3>1, <3>2
  <2> QED BY <1>1, <1>2, <1>3, <2>1 DEF Layout
<1>4. CASE y.role # "over"
  BY <1>1, <1>2, <1>4 DEF Layout
<1> QED BY <1>3, <1>4

-----------------------------------------------------------------------------
(* A connection and the server.                                            *)

LEMMA HandleKept ==
  ASSUME NEW T, NEW q \in Seq(T), NEW x \in T, HandleFirst(q)
  PROVE  HandleFirst(Append(q, x))
<1> DEFINE r == Append(q, x)
<1>1. /\ Len(q) \in Nat /\ Len(r) = Len(q) + 1
      /\ \A k \in 1..Len(q) : r[k] = q[k] /\ k \in 1..Len(r)
  OBVIOUS
<1>2. PICK k \in 1..Len(q) : q[k].code = "handle" /\ \A l \in 1..k : q[l].code \notin Conclusive
  BY DEF HandleFirst
<1>3. \A l \in 1..k : l \in 1..Len(q)
  BY <1>1
<1>4. k \in 1..Len(r) /\ r[k].code = "handle" /\ \A l \in 1..k : r[l].code \notin Conclusive
  BY <1>1, <1>2, <1>3
<1> HIDE DEF r
<1> QED BY <1>4 DEF HandleFirst

\* Lines of the greeting, announcements and sound are no results.
LEMMA FitsLine ==
  ASSUME NEW steps, NEW i, NEW c, NEW z, NEW q, NEW u, Fits(steps, i, c, z, q, u),
         z.role \in {"ctrl", "root", "data"}, NEW x,
         x \in Lines \ Results \/ (x = Sound /\ Past(steps, i, c))
  PROVE  Fits(steps, i, c, z, Append(q, x), u)
<1>1. q \in Seq(Lines \cup {Sound}) /\ x \in Lines \cup {Sound} /\ u \in Seq(Commands)
  BY DEF Fits, Typed
<1>2. Append(q, x) \in Seq(Lines \cup {Sound})
  BY <1>1
<1>3. \A j \in i..Len(steps) : steps[j].do = "handle" /\ steps[j].on = c => HandleFirst(q)
  BY DEF Fits, Good, Greets
<1>4. \A j \in i..Len(steps) : steps[j].do = "handle" /\ steps[j].on = c => HandleFirst(Append(q, x))
  BY <1>1, <1>3, HandleKept
<1>5. ~Past(steps, i, c) =>
        Layout(steps, c, Before(Awaits(steps, c), i), Before(Sends(steps, c), i), Append(q, x), u, z)
  BY <1>1, Told DEF Fits, Good
<1> QED BY <1>2, <1>4, <1>5 DEF Fits, Good, Greets, Typed

LEMMA NoResult ==
  ASSUME NEW code \in {"hi", "info", "handle", "1", "123"}, NEW is \in Verbs \cup {""}
  PROVE  Line(code, is) \in Lines \ Results
<1>1. code \in Codes /\ code \notin Conclusive
  BY DEF Codes, Conclusive
<1> QED BY <1>1 DEF Line, Lines, Results

LEMMA AResult ==
  ASSUME NEW code \in Conclusive, NEW is \in Verbs \cup {""}
  PROVE  Line(code, is) \in Results /\ Line(code, is).is = is
<1>1. code \in Codes
  BY DEF Codes
<1> QED BY <1>1 DEF Line, Lines, Results

LEMMA Triple ==
  ASSUME NEW T, NEW x \in T, NEW y \in T, NEW z \in T
  PROVE  /\ <<x, y, z>> \in Seq(T) /\ Len(<<x, y, z>>) = 3
         /\ <<x, y, z>>[1] = x /\ <<x, y, z>>[2] = y /\ <<x, y, z>>[3] = z
OBVIOUS

LEMMA FitsGreet ==
  ASSUME NEW steps, NEW i, NEW c, NEW z, NEW q, NEW u, Fits(steps, i, c, z, q, u), z.role = "new"
  PROVE  Fits(steps, i, c, [z EXCEPT !.role = "ctrl"],
              <<Line("hi", ""), Line("info", ""), Line("handle", "")>>, u)
<1> DEFINE y == [z EXCEPT !.role = "ctrl"]
           g == <<Line("hi", ""), Line("info", ""), Line("handle", "")>>
           a == Before(Awaits(steps, c), i)
           b == Before(Sends(steps, c), i)
<1>1. q = <<>> /\ z \in Peers /\ u \in Seq(Commands)
  BY DEF Fits, Good, Typed
<1>2. y \in Peers /\ y.role = "ctrl" /\ y.doing = z.doing /\ y.from = z.from
  BY <1>1 DEF Peers
<1>3. /\ Line("hi", "") \in Lines \ Results /\ Line("info", "") \in Lines \ Results
      /\ Line("handle", "") \in Lines \ Results
  BY NoResult
<1>4. g \in Seq(Lines) /\ \A k \in 1..Len(g) : g[k] \notin Results
  <2>1. g \in Seq(Lines \ Results)
    BY <1>3, Triple
  <2> HIDE DEF g
  <2> QED BY <2>1
<1>5. ASSUME ~Past(steps, i, c) PROVE Layout(steps, c, a, b, g, u, y)
  <2>1. Layout(steps, c, a, b, <<>>, u, z)
    BY <1>1, <1>5 DEF Fits, Good
  <2> HIDE DEF g
  <2>2. \A m \in Nat : Numbered(steps, c, g, Results, m, m)
    BY <1>4, NumberedFree
  <2>3. \A m \in Nat : Numbered(steps, c, <<>>, Results, a, m) => a = m
    <3>1. <<>> \in Seq(Lines)
      OBVIOUS
    <3> QED BY <3>1, NumberedRange
  <2>4. Layout(steps, c, a, b, g, u, z)
    BY <1>4, <2>1, <2>2, <2>3 DEF Layout
  <2> QED BY <1>1, <1>2, <2>4, Kept
<1>6. g \in Seq(Lines \cup {Sound})
  <2> HIDE DEF g
  <2> QED BY <1>4
<1>7. HandleFirst(g)
  <2>1. Len(g) = 3 /\ g[1].code = "hi" /\ g[2].code = "info" /\ g[3].code = "handle"
    BY DEF Line
  <2>2. \A l \in 1..3 : l = 1 \/ l = 2 \/ l = 3
    OBVIOUS
  <2> HIDE DEF g
  <2>3. 3 \in 1..Len(g) /\ \A l \in 1..3 : g[l].code \notin Conclusive
    BY <2>1, <2>2 DEF Conclusive
  <2> QED BY <2>1, <2>3 DEF HandleFirst
<1>8. /\ z.doing # "rest" => z.role \in {"ctrl", "root"} /\ z.from # None
      /\ z.from # None => Past(steps, i, z.from)
      /\ \A k \in 1..Len(u) : u[k].is = "strm" /\ u[k].with # None => Past(steps, i, u[k].with)
  BY DEF Fits, Good
<1>9. Typed(y, g, u)
  BY <1>1, <1>2, <1>6 DEF Typed
<1> HIDE DEF g, y
<1>10. Good(steps, i, c, y, g, u)
  BY <1>2, <1>5, <1>7, <1>8 DEF Good, Greets
<1> QED BY <1>9, <1>10 DEF Fits, y, g

\* A command is answered: the server is in state y then, and knows a data connection only
\* if it did before, or if the command named it.
LEMMA FitsAnswer ==
  ASSUME NEW steps, NEW i, NEW c, NEW z, NEW q, NEW u, Fits(steps, i, c, z, q, u),
         z.role \in {"ctrl", "root"}, z.doing = "rest", u # <<>>, Head(u).is # "text",
         NEW x \in Results, x.is = Head(u).is,
         NEW y \in Peers, y.doing = "rest", y.role \notin {"none", "new"},
         y.from # None => Past(steps, i, y.from)
  PROVE  Fits(steps, i, c, y, Append(q, x), Tail(u))
<1> DEFINE r == Append(q, x)
           w == Tail(u)
<1>1. q \in Seq(Lines \cup {Sound}) /\ u \in Seq(Commands) /\ x \in Lines \cup {Sound}
  BY DEF Fits, Typed, Results
<1>2. /\ r \in Seq(Lines \cup {Sound}) /\ w \in Seq(Commands) /\ Head(u) \in Commands
      /\ \A k \in 1..Len(w) : w[k] = u[k + 1] /\ k + 1 \in 1..Len(u)
  BY <1>1, EmptySeq
<1>3. Head(u) \in Orders
  BY <1>2 DEF Orders
<1>4. ~Past(steps, i, c) =>
        Layout(steps, c, Before(Awaits(steps, c), i), Before(Sends(steps, c), i), r, w, y)
  BY <1>1, <1>3, Answered DEF Fits, Good
<1>5. \A j \in i..Len(steps) : steps[j].do = "handle" /\ steps[j].on = c => HandleFirst(r)
  <2>1. \A j \in i..Len(steps) : steps[j].do = "handle" /\ steps[j].on = c => HandleFirst(q)
    BY DEF Fits, Good, Greets
  <2> QED BY <1>1, <2>1, HandleKept
<1>6. \A k \in 1..Len(w) : w[k].is = "strm" /\ w[k].with # None => Past(steps, i, w[k].with)
  BY <1>2 DEF Fits, Good
<1> HIDE DEF r, w
<1>7. Typed(y, r, w)
  BY <1>2 DEF Typed
<1>8. Good(steps, i, c, y, r, w)
  BY <1>4, <1>5, <1>6 DEF Good, Greets
<1> QED BY <1>7, <1>8 DEF Fits, r, w

\* The server begins to read text.
LEMMA FitsBegin ==
  ASSUME NEW steps, NEW i, NEW c, NEW z, NEW q, NEW u, Fits(steps, i, c, z, q, u),
         z.role \in {"ctrl", "root"}, z.doing = "rest", u # <<>>, Head(u).is = "appl",
         NEW y \in Peers, y.doing # "rest", y.role = z.role, y.from = z.from, y.from # None
  PROVE  Fits(steps, i, c, y, q, Tail(u))
<1> DEFINE w == Tail(u)
<1>1. q \in Seq(Lines \cup {Sound}) /\ u \in Seq(Commands)
  BY DEF Fits, Typed
<1>2. /\ w \in Seq(Commands) /\ Head(u) \in Commands
      /\ \A k \in 1..Len(w) : w[k] = u[k + 1] /\ k + 1 \in 1..Len(u)
  BY <1>1, EmptySeq
<1>3. Head(u) \in Orders
  BY <1>2 DEF Orders
<1>4. ~Past(steps, i, c) =>
        Layout(steps, c, Before(Awaits(steps, c), i), Before(Sends(steps, c), i), q, w, y)
  BY <1>1, <1>3, Answered DEF Fits, Good
<1>5. \A k \in 1..Len(w) : w[k].is = "strm" /\ w[k].with # None => Past(steps, i, w[k].with)
  BY <1>2 DEF Fits, Good
<1> HIDE DEF w
<1>6. Typed(y, q, w)
  BY <1>1, <1>2 DEF Typed
<1>7. Good(steps, i, c, y, q, w)
  BY <1>4, <1>5 DEF Fits, Good, Greets
<1> QED BY <1>6, <1>7 DEF Fits, w

\* Text has been spoken, or has been given up.
LEMMA FitsFinish ==
  ASSUME NEW steps, NEW i, NEW c, NEW z, NEW q, NEW u, Fits(steps, i, c, z, q, u), z.doing # "rest",
         NEW x \in Results, x.is = "appl",
         NEW y \in Peers, y.doing = "rest", y.role \notin {"none", "new"},
         y.from # None => Past(steps, i, y.from)
  PROVE  Fits(steps, i, c, y, Append(q, x), u)
<1> DEFINE r == Append(q, x)
<1>1. /\ q \in Seq(Lines \cup {Sound}) /\ u \in Seq(Commands) /\ x \in Lines \cup {Sound}
      /\ z.role \in {"ctrl", "root"}
  BY DEF Fits, Good, Typed, Results
<1>2. r \in Seq(Lines \cup {Sound})
  BY <1>1
<1>3. ~Past(steps, i, c) =>
        Layout(steps, c, Before(Awaits(steps, c), i), Before(Sends(steps, c), i), r, u, y)
  BY <1>1, Finished DEF Fits, Good
<1>4. \A j \in i..Len(steps) : steps[j].do = "handle" /\ steps[j].on = c => HandleFirst(r)
  <2>1. \A j \in i..Len(steps) : steps[j].do = "handle" /\ steps[j].on = c => HandleFirst(q)
    BY <1>1 DEF Fits, Good, Greets
  <2> QED BY <1>1, <2>1, HandleKept
<1> HIDE DEF r
<1>5. Typed(y, r, u)
  BY <1>1, <1>2 DEF Typed
<1>6. Good(steps, i, c, y, r, u)
  BY <1>3, <1>4 DEF Fits, Good, Greets
<1> QED BY <1>5, <1>6 DEF Fits, r

\* Somebody reads text that came by a control connection or, for a stream, what came by a
\* data connection.
LEMMA FitsSkip ==
  ASSUME NEW steps, NEW i, NEW c, NEW z, NEW q, NEW u, Fits(steps, i, c, z, q, u), u # <<>>,
         Head(u).is = "text" \/ Past(steps, i, c)
  PROVE  Fits(steps, i, c, z, q, Tail(u))
<1> DEFINE w == Tail(u)
<1>1. z \in Peers /\ q \in Seq(Lines \cup {Sound}) /\ u \in Seq(Commands)
  BY DEF Fits, Typed
<1>2. /\ w \in Seq(Commands) /\ Head(u) \in Commands
      /\ \A k \in 1..Len(w) : w[k] = u[k + 1] /\ k + 1 \in 1..Len(u)
  BY <1>1, EmptySeq
<1>3. Head(u).is = "text" => Head(u) \notin Orders
  BY DEF Orders
<1>4. ~Past(steps, i, c) =>
        Layout(steps, c, Before(Awaits(steps, c), i), Before(Sends(steps, c), i), q, w, z)
  BY <1>1, <1>3, Told DEF Fits, Good
<1>5. \A k \in 1..Len(w) : w[k].is = "strm" /\ w[k].with # None => Past(steps, i, w[k].with)
  BY <1>2 DEF Fits, Good
<1> HIDE DEF w
<1>6. Typed(z, q, w)
  BY <1>1, <1>2 DEF Typed
<1>7. Good(steps, i, c, z, q, w)
  BY <1>4, <1>5 DEF Fits, Good, Greets
<1> QED BY <1>6, <1>7 DEF Fits, w

\* The server goes on with what it is doing, or the connection is over.
LEMMA FitsKept ==
  ASSUME NEW steps, NEW i, NEW c, NEW z, NEW q, NEW u, Fits(steps, i, c, z, q, u), NEW y \in Peers,
         \/ y = Over
         \/ /\ y.role = z.role /\ y.from = z.from /\ (y.doing = "rest" <=> z.doing = "rest")
  PROVE  Fits(steps, i, c, y, q, u)
<1>1. q \in Seq(Lines \cup {Sound}) /\ u \in Seq(Commands)
  BY DEF Fits, Typed
<1>2. Over.role = "over" /\ Over.doing = "rest" /\ Over.from = None
  BY DEF Over, Absent
<1>3. ~Past(steps, i, c) =>
        Layout(steps, c, Before(Awaits(steps, c), i), Before(Sends(steps, c), i), q, u, y)
  BY <1>1, <1>2, Kept DEF Fits, Good
<1>4. Typed(y, q, u)
  BY <1>1 DEF Typed
<1>5. ASSUME NEW j \in i..Len(steps), steps[j].do = "handle", steps[j].on = c PROVE Greets(y, q)
  <2>1. Greets(z, q)
    BY <1>5 DEF Fits, Good
  <2> QED BY <1>2, <2>1 DEF Greets
<1>6. Good(steps, i, c, y, q, u)
  BY <1>2, <1>3, <1>5 DEF Fits, Good
<1> QED BY <1>4, <1>6 DEF Fits

LEMMA OverPeer == Over \in Peers /\ Absent \in Peers
<1>1. Absent \in Peers
  BY DEF Absent, Peers, None
<1> QED BY <1>1 DEF Over, Peers

-----------------------------------------------------------------------------
(* A connection and the program.                                           *)

LEMMA PastNext ==
  ASSUME NEW steps, NEW i \in Nat, NEW d, Past(steps, i, d)
  PROVE  Past(steps, i + 1, d)
<1>1. \A j \in 1..i : j \in 1..i + 1
  OBVIOUS
<1> QED BY <1>1 DEF Past

LEMMA Counted ==
  ASSUME NEW steps, Len(steps) \in Nat, NEW c, NEW i \in Nat
  PROVE  /\ Before(Sends(steps, c), i) \in Nat /\ Before(Awaits(steps, c), i) \in Nat
         /\ Before(Sends(steps, c), i + 1) =
              IF i \in Sends(steps, c) THEN Before(Sends(steps, c), i) + 1 ELSE Before(Sends(steps, c), i)
         /\ Before(Awaits(steps, c), i + 1) =
              IF i \in Awaits(steps, c) THEN Before(Awaits(steps, c), i) + 1 ELSE Before(Awaits(steps, c), i)
<1>1. Sends(steps, c) \subseteq 1..Len(steps)
  BY DEF Sends
<1>2. Awaits(steps, c) \subseteq 1..Len(steps)
  BY DEF Awaits
<1>3. Before(Sends(steps, c), i) \in Nat /\ Before(Awaits(steps, c), i) \in Nat
  BY <1>1, <1>2, BeforeNat
<1> QED BY <1>1, <1>2, <1>3, BeforeNext

\* The program goes on, and this connection has nothing to do with it.
LEMMA FitsOn ==
  ASSUME NEW steps, Len(steps) \in Nat, NEW i \in Nat, NEW c, NEW z, NEW q, NEW u,
         Fits(steps, i, c, z, q, u), i \notin Sends(steps, c), i \notin Awaits(steps, c)
  PROVE  Fits(steps, i + 1, c, z, q, u)
<1>1. \A d : Past(steps, i, d) => Past(steps, i + 1, d)
  BY PastNext
<1>2. /\ Before(Sends(steps, c), i + 1) = Before(Sends(steps, c), i)
      /\ Before(Awaits(steps, c), i + 1) = Before(Awaits(steps, c), i)
  BY Counted
<1>3. \A j \in i + 1..Len(steps) : j \in i..Len(steps)
  OBVIOUS
<1>4. Good(steps, i + 1, c, z, q, u)
  BY <1>1, <1>2, <1>3 DEF Fits, Good
<1> QED BY <1>4 DEF Fits

LEMMA FitsNew ==
  ASSUME NEW steps, NEW i, NEW c, NEW z, NEW q, NEW u, Fits(steps, i, c, z, q, u), z.role = "none",
         NEW s \in Servers
  PROVE  Fits(steps, i, c, [Absent EXCEPT !.role = "new", !.place = s], q, u)
<1> DEFINE y == [Absent EXCEPT !.role = "new", !.place = s]
<1>1. y \in Peers /\ y.role = "new" /\ y.doing = "rest" /\ y.from = None
  BY OverPeer DEF Absent, Peers
<1>2. q = <<>> /\ z.doing = "rest" /\ u \in Seq(Commands) /\ q \in Seq(Lines \cup {Sound})
  BY DEF Fits, Good, Typed
<1> HIDE DEF y
<1>3. ~Past(steps, i, c) =>
        Layout(steps, c, Before(Awaits(steps, c), i), Before(Sends(steps, c), i), q, u, y)
  BY <1>1, <1>2, Kept DEF Fits, Good
<1>4. Good(steps, i, c, y, q, u)
  BY <1>1, <1>2, <1>3 DEF Fits, Good, Greets
<1> QED BY <1>1, <1>2, <1>4 DEF Fits, Typed, y

LEMMA FitsSend ==
  ASSUME NEW steps, Program(steps), NEW i \in 1..Len(steps), NEW c, NEW z, NEW q, NEW u,
         Fits(steps, i, c, z, q, u), steps[i].do = "send", steps[i].on = c
  PROVE  /\ Fits(steps, i + 1, c, z, q, Append(u, steps[i].what))
         /\ z.role = "over" => Fits(steps, i + 1, c, z, q, u)
<1> DEFINE x == steps[i].what
           w == Append(u, x)
           a == Before(Awaits(steps, c), i)
           b == Before(Sends(steps, c), i)
<1>1. Len(steps) \in Nat /\ i \in Nat /\ x \in Commands
  BY DEF Program
<1>2. z \in Peers /\ q \in Seq(Lines \cup {Sound}) /\ u \in Seq(Commands)
  BY DEF Fits, Typed
<1>3. \A d : Past(steps, i, d) => Past(steps, i + 1, d)
  BY <1>1, PastNext
<1>4. i \notin Awaits(steps, c) /\ (i \in Sends(steps, c) <=> x \in Orders)
  BY <1>1 DEF Awaits, Sends, Orders, Waits
<1>5. /\ Before(Awaits(steps, c), i + 1) = a /\ b \in Nat
      /\ Before(Sends(steps, c), i + 1) = IF x \in Orders THEN b + 1 ELSE b
  BY <1>1, <1>4, Counted
<1>6. x \in Orders => Named(steps, c, b, x.is)
  <2>1. Sends(steps, c) \subseteq 1..Len(steps)
    BY DEF Sends
  <2> QED BY <1>1, <1>4, <2>1, SameNumber DEF Named
<1>7. \A j \in i + 1..Len(steps) : j \in i..Len(steps)
  BY <1>1
<1>8. x.is = "strm" => Past(steps, i + 1, x.with)
  <2>1. i \in 1..i + 1 /\ i <= Len(steps)
    BY <1>1
  <2> QED BY <2>1 DEF Past, Uses
<1>9. /\ w \in Seq(Commands) /\ Len(w) = Len(u) + 1 /\ w[Len(u) + 1] = x
      /\ \A k \in 1..Len(w) : k = Len(u) + 1 \/ (k \in 1..Len(u) /\ w[k] = u[k])
  BY <1>1, <1>2
<1>10. \A k \in 1..Len(w) : w[k].is = "strm" /\ w[k].with # None => Past(steps, i + 1, w[k].with)
  BY <1>3, <1>8, <1>9 DEF Fits, Good
<1> HIDE DEF w
<1>11. ASSUME ~Past(steps, i + 1, c)
       PROVE  /\ Layout(steps, c, a, IF x \in Orders THEN b + 1 ELSE b, q, w, z)
              /\ z.role = "over" => Layout(steps, c, a, IF x \in Orders THEN b + 1 ELSE b, q, u, z)
  <2>1. Layout(steps, c, a, b, q, u, z)
    BY <1>3, <1>11 DEF Fits, Good
  <2> HIDE DEF a, b, x
  <2> QED BY <1>1, <1>2, <1>5, <1>6, <2>1, Sent1 DEF w
<1>12. Good(steps, i + 1, c, z, q, w)
  BY <1>3, <1>5, <1>7, <1>10, <1>11 DEF Fits, Good
<1>13. z.role = "over" => Good(steps, i + 1, c, z, q, u)
  BY <1>3, <1>5, <1>7, <1>11 DEF Fits, Good
<1> QED BY <1>2, <1>9, <1>12, <1>13 DEF Fits, Typed, w

\* Steps that listen come after the handle, and not on the connection of a stream.
LEMMA ListensLast ==
  ASSUME NEW steps, Program(steps), NEW i \in 1..Len(steps), NEW c \in Conns, Listens(steps[i], c)
  PROVE  /\ ~Past(steps, i, c)
         /\ \A j \in i + 1..Len(steps) : ~(steps[j].do = "handle" /\ steps[j].on = c)
<1>1. Len(steps) \in Nat /\ i \in Nat /\ InTurn(steps)
  BY DEF Program
<1>2. \A j \in 1..i : ~Uses(steps[j], c)
  BY <1>1 DEF InTurn
<1>3. \A j \in i + 1..Len(steps) : j \in 1..Len(steps) /\ i \in 1..j /\ i < j
  BY <1>1
<1>4. \A j \in i + 1..Len(steps) : steps[j].do = "handle" => ~Listens(steps[i], steps[j].on)
  BY <1>1, <1>3 DEF InTurn
<1> QED BY <1>2, <1>4 DEF Past

\* A line that is no result is read, or sound.
LEMMA FitsDrop ==
  ASSUME NEW steps, NEW i, NEW c, NEW z, NEW q, NEW u, Fits(steps, i, c, z, q, u), q # <<>>,
         Past(steps, i, c) \/ Head(q) \notin Results,
         \A j \in i..Len(steps) :
           steps[j].do = "handle" /\ steps[j].on = c => HandleFirst(q) /\ Head(q).code # "handle"
  PROVE  Fits(steps, i, c, z, Tail(q), u)
<1> DEFINE r == Tail(q)
<1>1. z \in Peers /\ q \in Seq(Lines \cup {Sound}) /\ u \in Seq(Commands)
  BY DEF Fits, Typed
<1>2. /\ r \in Seq(Lines \cup {Sound}) /\ Len(q) \in Nat /\ Len(r) = Len(q) - 1 /\ Head(q) = q[1]
      /\ \A k \in 1..Len(r) : r[k] = q[k + 1]
  BY <1>1, EmptySeq
<1> HIDE DEF r
<1>3. ASSUME HandleFirst(q), Head(q).code # "handle" PROVE HandleFirst(r)
  <2>1. PICK k \in 1..Len(q) : q[k].code = "handle" /\ \A l \in 1..k : q[l].code \notin Conclusive
    BY <1>3 DEF HandleFirst
  <2>2. k # 1
    BY <1>2, <1>3, <2>1
  <2>3. k - 1 \in 1..Len(r) /\ (k - 1) + 1 = k /\ \A l \in 1..k - 1 : l \in 1..Len(r) /\ l + 1 \in 1..k
    BY <1>2, <2>2
  <2>4. r[k - 1].code = "handle" /\ \A l \in 1..k - 1 : r[l].code \notin Conclusive
    BY <1>2, <2>1, <2>3
  <2> QED BY <2>3, <2>4 DEF HandleFirst
<1>4. ~Past(steps, i, c) =>
        Layout(steps, c, Before(Awaits(steps, c), i), Before(Sends(steps, c), i), r, u, z)
  BY Heard DEF Fits, Good, r
<1>5. Good(steps, i, c, z, r, u)
  BY <1>3, <1>4 DEF Fits, Good, Greets
<1> QED BY <1>1, <1>2, <1>5 DEF Fits, Typed, r

\* A result is taken for that of the command that step i is about.
LEMMA TakesTurn ==
  ASSUME NEW steps, Program(steps), NEW i \in 1..Len(steps), NEW c \in Conns,
         steps[i].do \in Waits, steps[i].on = c
  PROVE  /\ i \in Awaits(steps, c) /\ i \notin Sends(steps, c)
         /\ Before(Awaits(steps, c), i) < Before(Sends(steps, c), i)
         /\ \A is : Named(steps, c, Before(Awaits(steps, c), i), is) => is = Result(steps[i])
         /\ steps[i].do = "retry" =>
              /\ steps[i].what.back = 1 /\ i - 1 \in Sends(steps, c)
              /\ Before(Sends(steps, c), i) = Before(Awaits(steps, c), i) + 1
<1>1. Len(steps) \in Nat /\ i \in Nat /\ InTurn(steps)
  BY DEF Program
<1>2. i \in Awaits(steps, c) /\ i \notin Sends(steps, c)
  BY DEF Awaits, Sends, Waits
<1>3. PICK j \in Sends(steps, c) :
        /\ j < i /\ Before(Sends(steps, c), j) = Before(Awaits(steps, c), i)
        /\ steps[j].what.is = Result(steps[i])
        /\ steps[i].do = "retry" => steps[i].what.back = 1 /\ j = i - 1
  BY <1>1, <1>2 DEF InTurn
<1>4. Sends(steps, c) \subseteq 1..Len(steps)
  BY DEF Sends
<1>5. Before(Sends(steps, c), j) < Before(Sends(steps, c), i)
  BY <1>1, <1>3, <1>4, BeforeLess
<1>6. \A is : Named(steps, c, Before(Awaits(steps, c), i), is) => is = Result(steps[i])
  BY <1>3 DEF Named
<1>7. ASSUME steps[i].do = "retry"
      PROVE  Before(Sends(steps, c), i) = Before(Awaits(steps, c), i) + 1
  <2>1. j = i - 1 /\ j \in Nat /\ i = j + 1
    BY <1>1, <1>3, <1>4, <1>7
  <2>2. Before(Sends(steps, c), j + 1) = Before(Sends(steps, c), j) + 1
    BY <1>1, <2>1, Counted
  <2> QED BY <1>3, <2>1, <2>2
<1> QED BY <1>2, <1>3, <1>5, <1>6, <1>7

LEMMA FitsTake ==
  ASSUME NEW steps, Program(steps), NEW i \in 1..Len(steps), NEW c \in Conns, NEW z, NEW q, NEW u,
         Fits(steps, i, c, z, q, u), steps[i].do \in Waits, steps[i].on = c
  PROVE  /\ q # <<>> /\ Head(q) \in Results =>
              /\ Head(q).is = Result(steps[i])
              /\ Fits(steps, i + 1, c, z, Tail(q), u)
         /\ q = <<>> /\ z.role = "over" => Fits(steps, i + 1, c, z, q, u)
<1> DEFINE a == Before(Awaits(steps, c), i)
           b == Before(Sends(steps, c), i)
<1>1. /\ Len(steps) \in Nat /\ i \in Nat
      /\ z \in Peers /\ q \in Seq(Lines \cup {Sound}) /\ u \in Seq(Commands)
  BY DEF Fits, Typed, Program
<1>2. /\ ~Past(steps, i, c)
      /\ \A j \in i + 1..Len(steps) : ~(steps[j].do = "handle" /\ steps[j].on = c)
  BY ListensLast DEF Listens
<1>3. Layout(steps, c, a, b, q, u, z)
  BY <1>2 DEF Fits, Good
<1>4. a \in Nat /\ b \in Nat /\ a < b /\ \A is : Named(steps, c, a, is) => is = Result(steps[i])
  BY ZenonT(30), <1>1, Counted, TakesTurn
<1>5. Before(Awaits(steps, c), i + 1) = a + 1 /\ Before(Sends(steps, c), i + 1) = b
  <2>1. i \in Awaits(steps, c) /\ i \notin Sends(steps, c)
    BY TakesTurn
  <2> QED BY <1>1, <2>1, Counted
<1>6. \A d : Past(steps, i, d) => Past(steps, i + 1, d)
  BY <1>1, PastNext
<1>7. /\ z.doing # "rest" => z.role \in {"ctrl", "root"} /\ z.from # None
      /\ z.from # None => Past(steps, i + 1, z.from)
      /\ \A k \in 1..Len(u) : u[k].is = "strm" /\ u[k].with # None => Past(steps, i + 1, u[k].with)
      /\ z.role \in {"none", "new"} => q = <<>>
  BY <1>6 DEF Fits, Good
<1> HIDE DEF a, b
<1>8. ASSUME q # <<>>, Head(q) \in Results
      PROVE  Head(q).is = Result(steps[i]) /\ Fits(steps, i + 1, c, z, Tail(q), u)
  <2>1. Named(steps, c, a, Head(q).is) /\ Layout(steps, c, a + 1, b, Tail(q), u, z)
    BY <1>3, <1>8, Heard
  <2>2. Good(steps, i + 1, c, z, Tail(q), u)
    BY <1>2, <1>5, <1>7, <1>8, <2>1 DEF Good
  <2>3. Tail(q) \in Seq(Lines \cup {Sound})
    BY <1>1, <1>8
  <2> QED BY <1>1, <1>4, <2>1, <2>2, <2>3 DEF Fits, Typed
<1>9. ASSUME q = <<>>, z.role = "over" PROVE Fits(steps, i + 1, c, z, q, u)
  <2>1. a + 1 \in Nat /\ a + 1 <= b
    BY <1>4
  <2>2. Layout(steps, c, a + 1, b, q, u, z)
    BY <1>4, <1>9, <2>1, HeardNone
  <2>3. Good(steps, i + 1, c, z, q, u)
    BY <1>2, <1>5, <1>7, <2>2 DEF Good
  <2> QED BY <1>1, <2>3 DEF Fits, Typed
<1> QED BY <1>8, <1>9

\* The program goes back to what it has just sent.
LEMMA FitsBack ==
  ASSUME NEW steps, Program(steps), NEW i \in 1..Len(steps), NEW c \in Conns, NEW z, NEW q, NEW u,
         Fits(steps, i, c, z, q, u), steps[i].do = "retry", NEW d \in Conns, steps[i].on = d
  PROVE  /\ c # d => Fits(steps, i - 1, c, z, q, u)
         /\ c = d /\ q # <<>> /\ Head(q) \in Results => Fits(steps, i - 1, c, z, Tail(q), u)
         /\ c = d /\ q = <<>> /\ z.role = "over" => Fits(steps, i - 1, c, z, q, u)
<1> DEFINE h == i - 1
           a == Before(Awaits(steps, c), h)
           b == Before(Sends(steps, c), h)
<1>1. /\ Len(steps) \in Nat /\ i \in Nat /\ steps[i].do \in Waits
      /\ z \in Peers /\ q \in Seq(Lines \cup {Sound}) /\ u \in Seq(Commands)
  BY DEF Fits, Typed, Program, Waits
<1>2. h \in Sends(steps, d) /\ Before(Sends(steps, d), i) = Before(Awaits(steps, d), i) + 1
  BY <1>1, TakesTurn
<1>3. h \in 1..Len(steps) /\ h \in Nat /\ h + 1 = i /\ steps[h].do = "send" /\ steps[h].on = d
  BY <1>1, <1>2 DEF Sends
<1> HIDE DEF h
<1>4. h \notin Awaits(steps, c) /\ (c # d => h \notin Sends(steps, c))
  BY <1>3 DEF Awaits, Sends, Waits
<1>5. /\ a \in Nat /\ b \in Nat /\ Before(Awaits(steps, c), i) = a
      /\ Before(Sends(steps, c), i) = IF c = d THEN b + 1 ELSE b
  <2>1. c = d => h \in Sends(steps, c)
    BY <1>2
  <2>2. a \in Nat /\ b \in Nat
    BY <1>1, <1>3, Counted
  <2>3. /\ Before(Awaits(steps, c), h + 1) = a
        /\ Before(Sends(steps, c), h + 1) = IF c = d THEN b + 1 ELSE b
    BY <1>1, <1>3, <1>4, <2>1, Counted
  <2> QED BY <1>3, <2>2, <2>3
<1>6. \A e : Past(steps, i, e) <=> Past(steps, h, e)
  <2>1. \A e : ~Uses(steps[i], e)
    BY DEF Uses
  <2>2. \A j \in 1..i : j \in 1..h \/ j = i
    BY <1>3
  <2>3. \A j \in 1..h : j \in 1..i
    BY <1>3
  <2> QED BY <2>1, <2>2, <2>3 DEF Past
<1>7. \A j \in h..Len(steps) : steps[j].do = "handle" => j \in i..Len(steps)
  <2>1. \A j \in h..Len(steps) : j = h \/ j \in i..Len(steps)
    BY <1>1, <1>3
  <2> QED BY <1>3, <2>1
<1> HIDE DEF a, b
<1>8. /\ z.doing # "rest" => z.role \in {"ctrl", "root"} /\ z.from # None
      /\ z.from # None => Past(steps, h, z.from)
      /\ \A k \in 1..Len(u) : u[k].is = "strm" /\ u[k].with # None => Past(steps, h, u[k].with)
      /\ z.role \in {"none", "new"} => q = <<>>
  BY <1>6 DEF Fits, Good
<1>9. ~Past(steps, h, c) => Layout(steps, c, a, IF c = d THEN b + 1 ELSE b, q, u, z)
  BY <1>5, <1>6 DEF Fits, Good
<1>10. ASSUME c # d PROVE Fits(steps, h, c, z, q, u)
  <2>1. Good(steps, h, c, z, q, u)
    BY <1>7, <1>8, <1>9, <1>10 DEF Fits, Good, a, b
  <2> QED BY <1>1, <2>1 DEF Fits, Typed
<1>11. ASSUME c = d
       PROVE  /\ a = b /\ Listens(steps[i], c)
              /\ \A j \in h..Len(steps) : ~(steps[j].do = "handle" /\ steps[j].on = c)
  <2>1. a = b
    BY <1>2, <1>5, <1>11
  <2>2. Listens(steps[i], c)
    BY <1>1, <1>11 DEF Listens
  <2>3. \A j \in i + 1..Len(steps) : ~(steps[j].do = "handle" /\ steps[j].on = c)
    BY <2>2, ListensLast
  <2>4. \A j \in h..Len(steps) : j = h \/ j = i \/ j \in i + 1..Len(steps)
    BY <1>1, <1>3
  <2> QED BY <1>3, <2>1, <2>2, <2>3, <2>4
<1>12. ASSUME c = d, q # <<>>, Head(q) \in Results PROVE Fits(steps, h, c, z, Tail(q), u)
  <2>1. ~Past(steps, h, c) => Layout(steps, c, a, a + 1, q, u, z)
    BY <1>9, <1>11, <1>12
  <2>2. ~Past(steps, h, c) => Layout(steps, c, a + 1, a + 1, Tail(q), u, z)
    BY <1>12, <2>1, Heard
  <2>3. ~Past(steps, h, c) => Layout(steps, c, a, a, Tail(q), u, z)
    BY <1>1, <1>5, <2>2, Again
  <2>4. Good(steps, h, c, z, Tail(q), u)
    BY <1>8, <1>11, <1>12, <2>3 DEF Good, a, b
  <2>5. Tail(q) \in Seq(Lines \cup {Sound})
    BY <1>1, <1>12
  <2> QED BY <1>1, <2>4, <2>5 DEF Fits, Typed
<1>13. ASSUME c = d, q = <<>>, z.role = "over" PROVE Fits(steps, h, c, z, q, u)
  <2>1. Layout(steps, c, a, b, q, u, z)
    BY <1>5, <1>11, <1>13, HeardNone
  <2>2. Good(steps, h, c, z, q, u)
    BY <1>8, <1>11, <1>13, <2>1 DEF Good, a, b
  <2> QED BY <1>1, <2>2 DEF Fits, Typed
<1> QED BY <1>10, <1>12, <1>13 DEF h

-----------------------------------------------------------------------------
(* Steps of the server.                                                    *)

\* The connections are as the program at step i expects them.
Core(steps, i) ==
  /\ peer \in [Conns -> Peers]
  /\ down \in [Conns -> Seq(Lines \cup {Sound})] /\ up \in [Conns -> Seq(Commands)]
  /\ \A c \in Conns : Fits(steps, i, c, peer[c], down[c], up[c])

LEMMA ConcatOne ==
  ASSUME NEW T, NEW q \in Seq(T), NEW s \in Seq(T), Len(s) = 1
  PROVE  q \o s = Append(q, s[1])
<1>1. s[1] \in T /\ Len(q) \in Nat
  BY ElementOfSeq
<1>2. q \o s \in Seq(T) /\ Append(q, s[1]) \in Seq(T)
  BY <1>1, ConcatProperties
<1>3. Len(q \o s) = Len(q) + 1 /\ Len(Append(q, s[1])) = Len(q) + 1
  BY <1>1, ConcatProperties
<1>4. \A j \in 1..Len(q) : (q \o s)[j] = q[j] /\ Append(q, s[1])[j] = q[j]
  BY <1>1
<1>5. (q \o s)[Len(q) + 1] = s[1] /\ Append(q, s[1])[Len(q) + 1] = s[1]
  <2>1. Len(q) + 1 \in 1..Len(q) + Len(s) /\ (Len(q) + 1) - Len(q) = 1 /\ ~(Len(q) + 1 <= Len(q))
    BY <1>1
  <2> QED BY <1>1, <2>1, ConcatProperties
<1>6. \A j \in 1..Len(q) + 1 : j \in 1..Len(q) \/ j = Len(q) + 1
  BY <1>1
<1>7. \A j \in 1..Len(q \o s) : (q \o s)[j] = Append(q, s[1])[j]
  BY <1>3, <1>4, <1>5, <1>6
<1> QED BY <1>2, <1>3, <1>7, SeqEqual

LEMMA OneLine ==
  ASSUME NEW T, NEW q \in Seq(T), NEW k, NEW is, Line(k, is) \in T
  PROVE  q \o [j \in DOMAIN <<k>> |-> Line(<<k>>[j], is)] = Append(q, Line(k, is))
<1> DEFINE s == [j \in DOMAIN <<k>> |-> Line(<<k>>[j], is)]
<1>1. s \in Seq(T) /\ Len(s) = 1 /\ s[1] = Line(k, is)
  OBVIOUS
<1> HIDE DEF s
<1>2. q \o s = Append(q, Line(k, is))
  BY <1>1, ConcatOne
<1> QED BY <1>2 DEF s

LEMMA ConcatTwo ==
  ASSUME NEW T, NEW q \in Seq(T), NEW x \in T, NEW y \in T
  PROVE  q \o <<x, y>> = Append(Append(q, x), y)
<1>1. <<x>> \in Seq(T) /\ <<y>> \in Seq(T) /\ <<x, y>> \in Seq(T) /\ Len(<<x>>) = 1 /\ Len(<<y>>) = 1
      /\ <<x>>[1] = x /\ <<y>>[1] = y
  OBVIOUS
<1>2. <<x, y>> = <<x>> \o <<y>>
  <2> DEFINE s == <<x>> \o <<y>>
  <2>1. s \in Seq(T) /\ Len(s) = 2 /\ s[1] = x /\ s[2] = y
    <3>1. 1 \in 1..1 + 1 /\ 1 <= 1 /\ 2 \in 1..1 + 1 /\ ~(2 <= 1) /\ 2 - 1 = 1 /\ 1 + 1 = 2
      OBVIOUS
    <3> QED BY <1>1, <3>1, ConcatProperties
  <2> HIDE DEF s
  <2>2. Len(<<x, y>>) = 2 /\ <<x, y>>[1] = x /\ <<x, y>>[2] = y
    OBVIOUS
  <2>3. \A j \in 1..2 : j = 1 \/ j = 2
    OBVIOUS
  <2>4. \A j \in 1..Len(s) : s[j] = <<x, y>>[j]
    BY <2>1, <2>2, <2>3
  <2>5. s = <<x, y>>
    BY <1>1, <2>1, <2>2, <2>4, SeqEqual
  <2> QED BY <2>5 DEF s
<1>3. q \o <<x, y>> = (q \o <<x>>) \o <<y>>
  BY <1>1, <1>2, ConcatAssociative
<1>4. q \o <<x>> = Append(q, x) /\ q \o <<x>> \in Seq(T)
  BY <1>1, ConcatOne
<1>5. (q \o <<x>>) \o <<y>> = Append(q \o <<x>>, y)
  BY <1>1, <1>4, ConcatOne
<1> QED BY <1>3, <1>4, <1>5

LEMMA CoreAll ==
  ASSUME NEW steps, NEW i,
         DOMAIN peer' = Conns, DOMAIN down' = Conns, DOMAIN up' = Conns,
         peer' = [x \in DOMAIN peer' |-> peer'[x]], down' = [x \in DOMAIN down' |-> down'[x]],
         up' = [x \in DOMAIN up' |-> up'[x]],
         \A x \in Conns : Fits(steps, i, x, peer'[x], down'[x], up'[x])
  PROVE  Core(steps, i)'
<1>1. \A x \in Conns : peer'[x] \in Peers /\ down'[x] \in Seq(Lines \cup {Sound}) /\ up'[x] \in Seq(Commands)
  BY DEF Fits, Typed
<1>2. /\ peer' \in [Conns -> Peers] /\ up' \in [Conns -> Seq(Commands)]
      /\ down' \in [Conns -> Seq(Lines \cup {Sound})]
  BY <1>1
<1> QED BY <1>2 DEF Core

\* Others stay, or are over.
LEMMA CoreOne ==
  ASSUME NEW steps, NEW i, Core(steps, i), NEW c \in Conns, NEW y, NEW r, NEW w,
         Fits(steps, i, c, y, r, w),
         NEW p, DOMAIN p = Conns, p = [x \in DOMAIN p |-> p[x]],
         \A x \in Conns \ {c} : p[x] = Over \/ p[x] = peer[x],
         peer' = [p EXCEPT ![c] = y],
         down' = [down EXCEPT ![c] = r], up' = [up EXCEPT ![c] = w]
  PROVE  Core(steps, i)'
<1>1. /\ peer \in [Conns -> Peers] /\ up \in [Conns -> Seq(Commands)]
      /\ down \in [Conns -> Seq(Lines \cup {Sound})]
      /\ \A x \in Conns : Fits(steps, i, x, peer[x], down[x], up[x])
  BY DEF Core
<1>2. /\ DOMAIN peer' = Conns /\ DOMAIN down' = Conns /\ DOMAIN up' = Conns
      /\ peer' = [x \in DOMAIN peer' |-> peer'[x]] /\ down' = [x \in DOMAIN down' |-> down'[x]]
      /\ up' = [x \in DOMAIN up' |-> up'[x]]
      /\ peer'[c] = y /\ down'[c] = r /\ up'[c] = w
      /\ \A x \in Conns \ {c} : /\ peer'[x] = p[x] /\ (p[x] = Over \/ p[x] = peer[x])
                                /\ down'[x] = down[x] /\ up'[x] = up[x]
  BY <1>1
<1>3. ASSUME NEW x \in Conns \ {c} PROVE Fits(steps, i, x, peer'[x], down'[x], up'[x])
  <2>1. CASE p[x] = peer[x]
    BY <1>1, <1>2, <2>1
  <2>2. CASE p[x] = Over
    <3>1. Fits(steps, i, x, Over, down[x], up[x])
      BY <1>1, OverPeer, FitsKept
    <3> QED BY <1>2, <2>2, <3>1
  <2> QED BY <1>2, <2>1, <2>2
<1>4. \A x \in Conns : Fits(steps, i, x, peer'[x], down'[x], up'[x])
  BY <1>2, <1>3
<1> QED BY <1>2, <1>4, CoreAll

LEMMA CoreThis ==
  ASSUME NEW steps, NEW i, Core(steps, i), NEW c \in Conns, NEW y, NEW r, NEW w,
         Fits(steps, i, c, y, r, w), peer' = [peer EXCEPT ![c] = y],
         down' = [down EXCEPT ![c] = r], up' = [up EXCEPT ![c] = w]
  PROVE  Core(steps, i)'
<1> DEFINE p == peer
<1>1. /\ DOMAIN p = Conns /\ p = [x \in DOMAIN p |-> p[x]]
      /\ \A x \in Conns \ {c} : p[x] = Over \/ p[x] = peer[x]
      /\ peer' = [p EXCEPT ![c] = y]
  BY DEF Core
<1> HIDE DEF p
<1> QED BY <1>1, CoreOne

LEMMA WithoutIs ==
  ASSUME NEW steps, NEW i, Core(steps, i), NEW cs
  PROVE  /\ DOMAIN Without(cs) = Conns /\ Without(cs) = [x \in DOMAIN Without(cs) |-> Without(cs)[x]]
         /\ \A x \in Conns : Without(cs)[x] = Over \/ Without(cs)[x] = peer[x]
BY DEF Without, Over

\* What every command that is answered at once shares.
LEMMA AnswerCore ==
  ASSUME NEW steps, NEW i, Core(steps, i), NEW c \in Conns, Serves(c), NEW cmd \in Verbs \ {"text"},
         Order(c).is = cmd, NEW code \in Conclusive,
         NEW p, DOMAIN p = Conns, p = [x \in DOMAIN p |-> p[x]],
         \A x \in Conns \ {c} : p[x] = Over \/ p[x] = peer[x],
         NEW y \in Peers, y.doing = "rest", y.role \notin {"none", "new"},
         y.from # None => Past(steps, i, y.from),
         peer' = [p EXCEPT ![c] = y], Respond(c, <<code>>, cmd), Next1(c)
  PROVE  Core(steps, i)'
<1> DEFINE x == Line(code, cmd)
<1>1. Fits(steps, i, c, peer[c], down[c], up[c]) /\ down[c] \in Seq(Lines \cup {Sound})
  BY DEF Core
<1>2. x \in Results /\ x.is = cmd /\ x \in Lines \cup {Sound}
  BY AResult DEF Results
<1>3. Fits(steps, i, c, y, Append(down[c], x), Tail(up[c]))
  BY <1>1, <1>2, FitsAnswer DEF Serves, Order
<1>4. down' = [down EXCEPT ![c] = Append(down[c], x)]
  <2>1. down[c] \o [j \in DOMAIN <<code>> |-> Line(<<code>>[j], cmd)] = Append(down[c], x)
    BY <1>1, <1>2, OneLine
  <2> QED BY <2>1 DEF Respond, Core
<1>5. up' = [up EXCEPT ![c] = Tail(up[c])]
  BY DEF Next1
<1> QED BY <1>3, <1>4, <1>5, CoreOne

LEMMA CoreAt ==
  ASSUME NEW steps, NEW i, Core(steps, i), NEW c \in Conns
  PROVE  /\ Fits(steps, i, c, peer[c], down[c], up[c])
         /\ peer[c] \in Peers /\ down[c] \in Seq(Lines \cup {Sound}) /\ up[c] \in Seq(Commands)
         /\ DOMAIN peer = Conns /\ peer = [x \in DOMAIN peer |-> peer[x]]
         /\ peer[c].from # None => Past(steps, i, peer[c].from)
         /\ peer = [peer EXCEPT ![c] = peer[c]] /\ down = [down EXCEPT ![c] = down[c]]
         /\ up = [up EXCEPT ![c] = up[c]]
         /\ up[c] # <<>> => /\ Order(c) \in Commands
                            /\ Order(c).is = "strm" /\ With(c) # None => Past(steps, i, With(c))
<1>1. /\ Fits(steps, i, c, peer[c], down[c], up[c])
      /\ peer[c] \in Peers /\ down[c] \in Seq(Lines \cup {Sound}) /\ up[c] \in Seq(Commands)
      /\ DOMAIN peer = Conns /\ peer = [x \in DOMAIN peer |-> peer[x]]
  BY DEF Core
<1>2. /\ peer = [peer EXCEPT ![c] = peer[c]] /\ down = [down EXCEPT ![c] = down[c]]
      /\ up = [up EXCEPT ![c] = up[c]]
  BY DEF Core
<1>3. peer[c].from # None => Past(steps, i, peer[c].from)
  BY <1>1 DEF Fits, Good
<1>4. ASSUME up[c] # <<>>
      PROVE  /\ Order(c) \in Commands
             /\ Order(c).is = "strm" /\ With(c) # None => Past(steps, i, With(c))
  <2>1. 1 \in 1..Len(up[c]) /\ Order(c) = up[c][1] /\ Order(c) \in Commands
    BY <1>1, <1>4, EmptySeq DEF Order
  <2> QED BY <1>1, <2>1 DEF Fits, Good, With
<1> QED BY <1>1, <1>2, <1>3, <1>4

LEMMA AnswerOne ==
  ASSUME NEW steps, NEW i, Core(steps, i), NEW c \in Conns, Serves(c), NEW cmd \in Verbs \ {"text"},
         Order(c).is = cmd, NEW code \in Conclusive,
         NEW y \in Peers, y.doing = "rest", y.role \notin {"none", "new"},
         y.from # None => Past(steps, i, y.from),
         peer' = [peer EXCEPT ![c] = y], Respond(c, <<code>>, cmd), Next1(c)
  PROVE  Core(steps, i)'
<1> DEFINE p == peer
<1>1. /\ DOMAIN p = Conns /\ p = [x \in DOMAIN p |-> p[x]]
      /\ \A x \in Conns \ {c} : p[x] = Over \/ p[x] = peer[x]
      /\ peer' = [p EXCEPT ![c] = y]
  BY CoreAt
<1> HIDE DEF p
<1> QED BY ZenonT(30), <1>1, AnswerCore

\* Commands that leave the server's side as it was.
LEMMA KeepCore ==
  ASSUME NEW steps, NEW i, Core(steps, i), NEW c \in Conns, NEW cmd \in Verbs \ {"text"},
         Takes(c, cmd), NEW code \in Conclusive, Respond(c, <<code>>, Order(c).is), UNCHANGED peer
  PROVE  Core(steps, i)'
<1>1. Serves(c) /\ Order(c).is = cmd /\ Next1(c)
  BY DEF Takes
<1>2. peer[c].doing = "rest" /\ peer[c].role \notin {"none", "new"}
  BY <1>1 DEF Serves
<1>3. peer' = [peer EXCEPT ![c] = peer[c]]
  BY CoreAt
<1>4. Respond(c, <<code>>, cmd)
  BY <1>1
<1> QED BY ZenonT(30), <1>1, <1>2, <1>3, <1>4, CoreAt, AnswerOne

LEMMA FailCore ==
  ASSUME NEW steps, NEW i, Core(steps, i), NEW c \in Conns, NEW cmd \in Verbs \ {"text"},
         Takes(c, cmd), Fail(c) \/ (Succeed(c) /\ UNCHANGED peer)
  PROVE  Core(steps, i)'
<1>1. "4" \in Conclusive /\ "2" \in Conclusive
  BY DEF Conclusive
<1> QED BY <1>1, KeepCore DEF Fail, Succeed

LEMMA DataCore ==
  ASSUME NEW steps, NEW i, Core(steps, i), NEW c \in Conns, cmd_data(c)
  PROVE  Core(steps, i)'
<1>1. Takes(c, "data") /\ Serves(c) /\ Order(c).is = "data" /\ Next1(c) /\ "data" \in Verbs \ {"text"}
  BY DEF cmd_data, Takes, Verbs
<1>2. CASE Fail(c)
  BY <1>1, <1>2, FailCore
<1>3. CASE /\ peer' = [peer EXCEPT ![c].role = "data", ![c].boss = With(c)]
           /\ Respond(c, <<"2">>, "data")
  <2> DEFINE y == [peer[c] EXCEPT !.role = "data", !.boss = With(c)]
  <2>1. With(c) \in Conns \cup {None} /\ peer[c] \in Peers /\ peer[c].doing = "rest"
    BY <1>1, CoreAt DEF Serves, With, Commands
  <2>2. y \in Peers /\ y.role = "data" /\ y.doing = "rest" /\ y.from = peer[c].from
    BY <2>1 DEF Peers
  <2>3. peer' = [peer EXCEPT ![c] = y]
    BY <1>3, <2>1, CoreAt DEF Peers
  <2>4. "2" \in Conclusive
    BY DEF Conclusive
  <2>5. y.role \notin {"none", "new"} /\ (y.from # None => Past(steps, i, y.from))
    BY <2>2, CoreAt
  <2> HIDE DEF y
  <2> QED BY <1>1, <1>3, <2>2, <2>3, <2>4, <2>5, AnswerOne
<1> QED BY <1>1, <1>2, <1>3 DEF cmd_data, Succeed

LEMMA StrmCore ==
  ASSUME NEW steps, NEW i, Core(steps, i), NEW c \in Conns, cmd_strm(c)
  PROVE  Core(steps, i)'
<1>1. Takes(c, "strm") /\ Serves(c) /\ Order(c).is = "strm" /\ Next1(c) /\ "strm" \in Verbs \ {"text"}
  BY DEF cmd_strm, Takes, Verbs
<1>2. /\ With(c) \in Conns \cup {None} /\ peer[c] \in Peers /\ peer[c].doing = "rest"
      /\ peer[c].role \notin {"none", "new"}
      /\ (With(c) # None => Past(steps, i, With(c)))
  BY <1>1, CoreAt DEF Serves, With, Commands
<1>3. "2" \in Conclusive /\ "4" \in Conclusive
  BY DEF Conclusive
<1>4. CASE /\ With(c) # None
           /\ peer' = [peer EXCEPT ![c].from = With(c), ![c].back = Order(c).n = 1]
           /\ Respond(c, <<"2">>, "strm")
  <2> DEFINE y == [peer[c] EXCEPT !.from = With(c), !.back = Order(c).n = 1]
  <2>1. (Order(c).n = 1) \in BOOLEAN
    OBVIOUS
  <2>2. y \in Peers /\ y.role = peer[c].role /\ y.doing = "rest" /\ y.from = With(c)
    BY <1>2, <2>1 DEF Peers
  <2>3. peer' = [peer EXCEPT ![c] = y]
    BY <1>2, <1>4, CoreAt DEF Peers
  <2> HIDE DEF y
  <2>4. y.role \notin {"none", "new"} /\ (y.from # None => Past(steps, i, y.from))
    BY <1>2, <1>4, <2>2
  <2> QED BY <1>1, <1>3, <1>4, <2>2, <2>3, <2>4, AnswerOne
<1>5. CASE peer' = [peer EXCEPT ![c].from = None] /\ Respond(c, <<"4">>, "strm")
  <2> DEFINE y == [peer[c] EXCEPT !.from = None]
  <2>1. y \in Peers /\ y.role = peer[c].role /\ y.doing = "rest" /\ y.from = None
    BY <1>2 DEF Peers
  <2>2. peer' = [peer EXCEPT ![c] = y]
    BY <1>2, <1>5, CoreAt DEF Peers
  <2> HIDE DEF y
  <2>3. y.role \notin {"none", "new"} /\ (y.from # None => Past(steps, i, y.from))
    BY <1>2, <2>1
  <2> QED BY <1>1, <1>3, <1>5, <2>1, <2>2, <2>3, AnswerOne
<1> QED BY <1>1, <1>4, <1>5 DEF cmd_strm, Succeed, IsData

LEMMA ApplCore ==
  ASSUME NEW steps, NEW i, Core(steps, i), NEW c \in Conns, cmd_appl(c)
  PROVE  Core(steps, i)'
<1>1. Takes(c, "appl") /\ Serves(c) /\ Order(c).is = "appl" /\ Next1(c) /\ "appl" \in Verbs \ {"text"}
  BY DEF cmd_appl, Takes, Verbs
<1>2. CASE Fail(c)
  BY <1>1, <1>2, FailCore
<1>3. CASE /\ peer[c].from # None
           /\ peer' = [peer EXCEPT ![c].doing = "reads", ![c].wants = Order(c).n, ![c].long = With(c) = 1]
           /\ Respond(c, <<"1">>, "appl")
  <2> DEFINE y == [peer[c] EXCEPT !.doing = "reads", !.wants = Order(c).n, !.long = With(c) = 1]
             x == Line("1", "appl")
  <2>1. /\ Order(c).n \in Int /\ (With(c) = 1) \in BOOLEAN /\ peer[c] \in Peers
        /\ peer[c].doing = "rest" /\ peer[c].role \in {"ctrl", "root"} /\ up[c] # <<>>
    BY <1>1, CoreAt DEF Serves, With, Commands
  <2>2. y \in Peers /\ y.role = peer[c].role /\ y.doing = "reads" /\ y.from = peer[c].from
    BY <2>1 DEF Peers
  <2>3. peer' = [peer EXCEPT ![c] = y]
    BY <1>3, <2>1, CoreAt DEF Peers
  <2>4. x \in Lines \ Results /\ x \in Lines \cup {Sound}
    <3>1. "appl" \in Verbs \cup {""}
      BY DEF Verbs
    <3> QED BY <3>1, NoResult
  <2> HIDE DEF y, x
  <2>5. Fits(steps, i, c, y, down[c], Tail(up[c]))
    BY <1>1, <1>3, <2>1, <2>2, CoreAt, FitsBegin DEF Order
  <2>6. Fits(steps, i, c, y, Append(down[c], x), Tail(up[c]))
    BY <2>1, <2>2, <2>4, <2>5, FitsLine
  <2>7. down' = [down EXCEPT ![c] = Append(down[c], x)]
    <3>1. down[c] \o [j \in DOMAIN <<"1">> |-> Line(<<"1">>[j], "appl")] = Append(down[c], x)
      BY <2>4, CoreAt, OneLine DEF x
    <3> QED BY <1>3, <3>1 DEF Respond, Core
  <2>8. up' = [up EXCEPT ![c] = Tail(up[c])]
    BY <1>1 DEF Next1
  <2> QED BY <2>3, <2>6, <2>7, <2>8, CoreThis
<1> QED BY <1>1, <1>2, <1>3 DEF cmd_appl

LEMMA ShowCore ==
  ASSUME NEW steps, NEW i, Core(steps, i), NEW c \in Conns, cmd_show(c)
  PROVE  Core(steps, i)'
<1> DEFINE x == Line("info", "show")
           l == Line("2", "show")
           s == [j \in DOMAIN <<"info", "2">> |-> Line(<<"info", "2">>[j], "show")]
<1>1. /\ Serves(c) /\ Order(c).is = "show" /\ Next1(c) /\ UNCHANGED peer
      /\ down' = [down EXCEPT ![c] = @ \o s]
  BY DEF cmd_show, Takes, Respond
<1>2. x \in Lines \ Results /\ l \in Results /\ l.is = "show" /\ l \in Lines
  <2>1. "show" \in Verbs \cup {""} /\ "2" \in Conclusive
    BY DEF Verbs, Conclusive
  <2> QED BY <2>1, NoResult, AResult DEF Results
<1>3. s = <<x, l>>
  OBVIOUS
<1> HIDE DEF x, l, s
<1>4. down' = [down EXCEPT ![c] = Append(Append(down[c], x), l)]
  <2>1. down[c] \o <<x, l>> = Append(Append(down[c], x), l)
    BY <1>2, CoreAt, ConcatTwo
  <2> QED BY <1>1, <1>3, <2>1 DEF Core
<1>5. /\ peer[c].role \in {"ctrl", "root"} /\ peer[c].doing = "rest" /\ up[c] # <<>>
      /\ Head(up[c]).is = "show" /\ peer[c] \in Peers
      /\ peer[c].from # None => Past(steps, i, peer[c].from)
  BY <1>1, CoreAt DEF Serves, Order
<1>6. Fits(steps, i, c, peer[c], Append(down[c], x), up[c])
  BY <1>2, <1>5, CoreAt, FitsLine
<1>7. Fits(steps, i, c, peer[c], Append(Append(down[c], x), l), Tail(up[c]))
  BY <1>2, <1>5, <1>6, FitsAnswer
<1>8. peer' = [peer EXCEPT ![c] = peer[c]] /\ up' = [up EXCEPT ![c] = Tail(up[c])]
  BY <1>1, CoreAt DEF Next1
<1> QED BY <1>4, <1>7, <1>8, CoreThis

LEMMA PassCore ==
  ASSUME NEW steps, NEW i, Core(steps, i), NEW c \in Conns, cmd_pass(c) \/ cmd_set(c)
  PROVE  Core(steps, i)'
<1>1. CASE cmd_set(c)
  <2>1. "setl" \in Verbs \ {"text"}
    BY DEF Verbs
  <2> QED BY <1>1, <2>1, FailCore DEF cmd_set
<1>2. CASE cmd_pass(c)
  <2>1. /\ Takes(c, "pass") /\ Serves(c) /\ Order(c).is = "pass" /\ Next1(c)
        /\ "pass" \in Verbs \ {"text"} /\ "2" \in Conclusive
    BY <1>2 DEF cmd_pass, Takes, Verbs, Conclusive
  <2>2. CASE Fail(c)
    BY <2>1, <2>2, FailCore
  <2>3. CASE Respond(c, <<"2">>, "pass") /\ peer' = [peer EXCEPT ![c].role = "root"]
    <3> DEFINE y == [peer[c] EXCEPT !.role = "root"]
    <3>1. peer[c] \in Peers /\ peer[c].doing = "rest"
      BY <2>1, CoreAt DEF Serves
    <3>2. y \in Peers /\ y.role = "root" /\ y.doing = "rest" /\ y.from = peer[c].from
      BY <3>1 DEF Peers
    <3>3. peer' = [peer EXCEPT ![c] = y]
      BY <2>3, <3>1, CoreAt DEF Peers
    <3>4. y.role \notin {"none", "new"} /\ (y.from # None => Past(steps, i, y.from))
      BY <3>2, CoreAt
    <3> HIDE DEF y
    <3> QED BY <2>1, <2>3, <3>2, <3>3, <3>4, AnswerOne
  <2> QED BY <1>2, <2>1, <2>2, <2>3 DEF cmd_pass, Succeed
<1> QED BY <1>1, <1>2

\* Commands that end connections.
LEMMA EndCore ==
  ASSUME NEW steps, NEW i, Core(steps, i), NEW c \in Conns, cmd_down(c) \/ cmd_delh(c) \/ cmd_done(c)
  PROVE  Core(steps, i)'
<1>1. ASSUME NEW cmd \in Verbs \ {"text"}, Takes(c, cmd), NEW code \in Conclusive,
             Respond(c, <<code>>, cmd), NEW cs, peer' = Without(cs)
      PROVE  Core(steps, i)'
  <2> DEFINE p == Without(cs)
             y == p[c]
  <2>1. /\ DOMAIN p = Conns /\ p = [x \in DOMAIN p |-> p[x]]
        /\ \A x \in Conns : p[x] = Over \/ p[x] = peer[x]
    BY WithoutIs
  <2> HIDE DEF p
  <2>2. Serves(c) /\ Order(c).is = cmd /\ Next1(c)
    BY <1>1 DEF Takes
  <2>3. Over.role = "over" /\ Over.doing = "rest" /\ Over.from = None
    BY DEF Over, Absent
  <2>4. y \in Peers /\ y.doing = "rest"
    BY <2>1, <2>2, <2>3, CoreAt, OverPeer DEF Serves
  <2>5. y.role \notin {"none", "new"} /\ (y.from # None => Past(steps, i, y.from))
    BY <2>1, <2>2, <2>3, CoreAt DEF Serves
  <2>6. peer' = [p EXCEPT ![c] = y]
    BY <1>1, <2>1 DEF p
  <2>7. \A x \in Conns \ {c} : p[x] = Over \/ p[x] = peer[x]
    BY <2>1
  <2> HIDE DEF y
  <2> QED BY <1>1, <2>1, <2>2, <2>4, <2>5, <2>6, <2>7, AnswerCore
<1>2. /\ {"down", "delh", "done"} \subseteq Verbs \ {"text"} /\ {"2", "6", "8"} \subseteq Conclusive
  BY DEF Verbs, Conclusive
<1>3. CASE cmd_down(c)
  <2>1. Takes(c, "down")
    BY <1>3 DEF cmd_down
  <2>2. CASE Fail(c)
    BY <1>2, <2>1, <2>2, FailCore
  <2>3. CASE /\ Respond(c, <<"8">>, "down")
             /\ peer' = Without({d \in Conns : peer[d].place = peer[c].place})
    BY <1>1, <1>2, <2>1, <2>3
  <2> QED BY <1>3, <2>2, <2>3 DEF cmd_down
<1>4. CASE cmd_delh(c)
  <2>1. Takes(c, "delh") /\ Order(c).is = "delh"
    BY <1>4 DEF cmd_delh, Takes
  <2>2. CASE Fail(c)
    BY <1>2, <2>1, <2>2, FailCore
  <2>3. CASE Respond(c, <<"2">>, "delh") /\ peer' = Without({With(c)})
    BY <1>1, <1>2, <2>1, <2>3
  <2> QED BY <1>4, <2>1, <2>2, <2>3 DEF cmd_delh, Succeed
<1>5. CASE cmd_done(c)
  <2>1. Takes(c, "done") /\ Respond(c, <<"6">>, "done") /\ peer' = Without({c})
    BY <1>5 DEF cmd_done
  <2> QED BY <1>1, <1>2, <2>1
<1> QED BY <1>3, <1>4, <1>5

LEMMA IntrCore ==
  ASSUME NEW steps, NEW i, Core(steps, i), NEW c \in Conns, cmd_intr(c)
  PROVE  Core(steps, i)'
<1> DEFINE h == With(c)
           x == Line("4", "appl")
           l == Line("2", "intr")
<1>1. Takes(c, "intr") /\ Serves(c) /\ Order(c).is = "intr" /\ Next1(c) /\ "intr" \in Verbs \ {"text"}
  BY DEF cmd_intr, Takes, Verbs
<1>2. x \in Results /\ x.is = "appl" /\ l \in Results /\ l.is = "intr"
  <2>1. {"appl", "intr"} \subseteq Verbs \cup {""} /\ {"4", "2"} \subseteq Conclusive
    BY DEF Verbs, Conclusive
  <2> QED BY <2>1, AResult
<1> HIDE DEF x, l, h
<1>3. CASE Fail(c)
  BY <1>1, <1>3, FailCore
<1>4. CASE /\ peer[h].doing = "writes"
           /\ peer' = [peer EXCEPT ![h].doing = "rest"]
           /\ down' = [down EXCEPT ![h] = Append(@, x), ![c] = Append(@, l)]
  <2>1. /\ peer[c].role \in {"ctrl", "root"} /\ peer[c].doing = "rest" /\ up[c] # <<>>
        /\ Head(up[c]).is = "intr" /\ peer[c] \in Peers /\ peer[c].role \notin {"none", "new"}
        /\ (peer[c].from # None => Past(steps, i, peer[c].from))
    BY <1>1, CoreAt DEF Serves, Order
  <2>2. h # c
    BY <1>4, <2>1
  <2>3. up' = [up EXCEPT ![c] = Tail(up[c])]
    BY <1>1 DEF Next1
  <2>4. /\ DOMAIN peer' = Conns /\ DOMAIN down' = Conns /\ DOMAIN up' = Conns
        /\ peer' = [a \in DOMAIN peer' |-> peer'[a]] /\ down' = [a \in DOMAIN down' |-> down'[a]]
        /\ up' = [a \in DOMAIN up' |-> up'[a]]
    BY <1>4, <2>3 DEF Core
  <2>5. /\ peer'[c] = peer[c] /\ down'[c] = Append(down[c], l) /\ up'[c] = Tail(up[c])
        /\ \A a \in Conns \ {c} :
             /\ up'[a] = up[a]
             /\ a = h => peer'[a] = [peer[a] EXCEPT !.doing = "rest"] /\ down'[a] = Append(down[a], x)
             /\ a # h => peer'[a] = peer[a] /\ down'[a] = down[a]
    BY <1>4, <2>2, <2>3 DEF Core
  <2>6. Fits(steps, i, c, peer'[c], down'[c], up'[c])
    <3>1. Fits(steps, i, c, peer[c], Append(down[c], l), Tail(up[c]))
      BY <1>2, <2>1, CoreAt, FitsAnswer
    <3> QED BY <2>5, <3>1
  <2>7. ASSUME NEW a \in Conns \ {c} PROVE Fits(steps, i, a, peer'[a], down'[a], up'[a])
    <3>1. CASE a # h
      BY <2>5, <3>1, CoreAt
    <3>2. CASE a = h
      <4> DEFINE y == [peer[a] EXCEPT !.doing = "rest"]
      <4>1. peer[a] \in Peers /\ Fits(steps, i, a, peer[a], down[a], up[a]) /\ peer[a].doing # "rest"
        BY <1>4, <3>2, CoreAt
      <4>2. y \in Peers /\ y.doing = "rest" /\ y.role = peer[a].role /\ y.from = peer[a].from
        BY <4>1 DEF Peers
      <4>3. peer[a].role \notin {"none", "new"} /\ (peer[a].from # None => Past(steps, i, peer[a].from))
        BY <4>1 DEF Fits, Good
      <4> HIDE DEF y
      <4>4. Fits(steps, i, a, y, Append(down[a], x), up[a])
        BY <1>2, <4>1, <4>2, <4>3, FitsFinish
      <4> QED BY <2>5, <3>2, <4>4 DEF y
    <3> QED BY <3>1, <3>2
  <2>8. \A a \in Conns : Fits(steps, i, a, peer'[a], down'[a], up'[a])
    BY <2>6, <2>7
  <2> QED BY <2>4, <2>8, CoreAll
<1> QED BY <1>3, <1>4 DEF cmd_intr, h, x, l

LEMMA ObeyCore ==
  ASSUME NEW steps, NEW i, Core(steps, i), NEW c \in Conns, Obey(c)
  PROVE  Core(steps, i)'
<1>1. CASE Unfinished(c)
  <2>1. /\ up[c] # <<>> /\ Head(up[c]).is = "text" /\ UNCHANGED <<peer, down>>
        /\ up' = [up EXCEPT ![c] = Tail(up[c])]
    BY <1>1 DEF Unfinished, Takes, Serves, Order, Next1
  <2>2. Fits(steps, i, c, peer[c], down[c], Tail(up[c]))
    BY <2>1, CoreAt, FitsSkip
  <2>3. peer' = [peer EXCEPT ![c] = peer[c]] /\ down' = [down EXCEPT ![c] = down[c]]
    BY <2>1, CoreAt
  <2>4. up' = [up EXCEPT ![c] = Tail(up[c])]
    BY <2>1
  <2> QED BY <2>2, <2>3, <2>4, CoreThis
<1> QED BY <1>1, DataCore, StrmCore, ApplCore, PassCore, ShowCore, EndCore, IntrCore DEF Obey

LEMMA ReadCore ==
  ASSUME NEW steps, NEW i, Core(steps, i), NEW c \in Conns, Read(c)
  PROVE  Core(steps, i)'
<1> DEFINE d == peer[c].from
           x == Line("4", "appl")
<1>1. /\ Fits(steps, i, c, peer[c], down[c], up[c]) /\ peer[c] \in Peers
      /\ peer[c].role \in {"ctrl", "root"} /\ d \in Conns /\ Past(steps, i, d) /\ peer[c].doing = "reads"
  <2>1. peer[c].doing = "reads"
    BY DEF Read
  <2>2. Fits(steps, i, c, peer[c], down[c], up[c]) /\ peer[c] \in Peers
    BY CoreAt
  <2>3. peer[c].role \in {"ctrl", "root"} /\ d # None /\ Past(steps, i, d)
    BY <2>1, <2>2 DEF Fits, Good
  <2> QED BY <2>1, <2>2, <2>3 DEF Peers
<1>2. x \in Results /\ x.is = "appl" /\ x \in Lines \cup {Sound}
  <2>1. "appl" \in Verbs \cup {""} /\ "4" \in Conclusive
    BY DEF Verbs, Conclusive
  <2> QED BY <2>1, AResult DEF Results
<1> HIDE DEF x
<1>3. ASSUME Respond(c, <<"4">>, "appl") PROVE down' = [down EXCEPT ![c] = Append(down[c], x)]
  <2>1. down[c] \o [j \in DOMAIN <<"4">> |-> Line(<<"4">>[j], "appl")] = Append(down[c], x)
    BY <1>2, CoreAt, OneLine DEF x
  <2> QED BY <1>3, <2>1 DEF Respond, Core
<1>4. ASSUME peer[d].role = "data", up[d] # <<>>, Next1(d), NEW y \in Peers, NEW r,
             peer' = [peer EXCEPT ![c] = y], down' = [down EXCEPT ![c] = r],
             Fits(steps, i, c, y, r, up[c])
      PROVE  Core(steps, i)'
  <2>1. c # d
    BY <1>1, <1>4
  <2>2. up' = [up EXCEPT ![d] = Tail(up[d])]
    BY <1>4 DEF Next1
  <2>3. /\ DOMAIN peer' = Conns /\ DOMAIN down' = Conns /\ DOMAIN up' = Conns
        /\ peer' = [a \in DOMAIN peer' |-> peer'[a]] /\ down' = [a \in DOMAIN down' |-> down'[a]]
        /\ up' = [a \in DOMAIN up' |-> up'[a]]
        /\ peer'[c] = y /\ down'[c] = r /\ up'[c] = up[c]
        /\ \A a \in Conns \ {c} : /\ peer'[a] = peer[a] /\ down'[a] = down[a]
                                  /\ up'[a] = IF a = d THEN Tail(up[d]) ELSE up[a]
    BY <1>1, <1>4, <2>1, <2>2 DEF Core
  <2>4. Fits(steps, i, d, peer[d], down[d], Tail(up[d]))
    BY <1>1, <1>4, CoreAt, FitsSkip
  <2>5. ASSUME NEW a \in Conns PROVE Fits(steps, i, a, peer'[a], down'[a], up'[a])
    <3>1. CASE a = c
      BY <1>4, <2>3, <3>1
    <3>2. CASE a = d
      BY <1>1, <2>1, <2>3, <2>4, <3>2
    <3>3. CASE a # c /\ a # d
      BY <2>3, <3>3, CoreAt
    <3> QED BY <3>1, <3>2, <3>3
  <2> QED BY <2>3, <2>5, CoreAll
<1>5. CASE /\ peer[d].role = "data" /\ up[d] # <<>> /\ Next1(d)
           /\ peer' = [peer EXCEPT ![c].wants = @ - 1,
                                   ![c].doing = IF peer[c].wants = 1 THEN "writes" ELSE "reads"]
           /\ UNCHANGED down
  <2> DEFINE o == IF peer[c].wants = 1 THEN "writes" ELSE "reads"
             y == [peer[c] EXCEPT !.wants = @ - 1, !.doing = o]
  <2>1. o \in {"reads", "writes"}
    OBVIOUS
  <2> HIDE DEF o
  <2>2. peer[c].wants - 1 \in Int
    BY <1>1 DEF Peers
  <2>3. /\ y \in Peers /\ y.role = peer[c].role /\ y.from = peer[c].from
        /\ y.doing # "rest"
    BY <1>1, <2>1, <2>2 DEF Peers
  <2>4. peer' = [peer EXCEPT ![c] = y]
    BY ZenonT(30), <1>1, <1>5, CoreAt DEF Peers, o
  <2>5. down' = [down EXCEPT ![c] = down[c]]
    BY <1>5, CoreAt
  <2> HIDE DEF y
  <2>6. Fits(steps, i, c, y, down[c], up[c])
    BY <1>1, <2>3, FitsKept
  <2> QED BY <1>4, <1>5, <2>3, <2>4, <2>5, <2>6
<1>6. CASE /\ peer[d].role = "data" /\ up[d] # <<>> /\ Next1(d)
           /\ peer' = [peer EXCEPT ![c].doing = "rest"] /\ Respond(c, <<"4">>, "appl")
  <2> DEFINE y == [peer[c] EXCEPT !.doing = "rest"]
  <2>1. y \in Peers /\ y.role = peer[c].role /\ y.from = peer[c].from /\ y.doing = "rest"
    BY <1>1 DEF Peers
  <2>2. peer' = [peer EXCEPT ![c] = y]
    BY <1>1, <1>6, CoreAt DEF Peers
  <2>3. y.role \notin {"none", "new"} /\ (y.from # None => Past(steps, i, y.from)) /\ peer[c].doing # "rest"
    BY <1>1, <2>1
  <2> HIDE DEF y
  <2>4. Fits(steps, i, c, y, Append(down[c], x), up[c])
    BY <1>1, <1>2, <2>1, <2>3, FitsFinish
  <2> QED BY <1>3, <1>4, <1>6, <2>1, <2>2, <2>4
<1>7. CASE /\ peer' = [Without({d}) EXCEPT ![c].doing = "rest"]
           /\ Respond(c, <<"4">>, "appl") /\ UNCHANGED up
  <2> DEFINE p == Without({d})
             y == [p[c] EXCEPT !.doing = "rest"]
  <2>1. /\ DOMAIN p = Conns /\ p = [a \in DOMAIN p |-> p[a]]
        /\ \A a \in Conns : p[a] = Over \/ p[a] = peer[a]
    BY WithoutIs
  <2>2. peer' = [p EXCEPT ![c] = y]
    BY <1>7, <2>1
  <2> HIDE DEF p
  <2>3. /\ p[c] \in Peers /\ p[c].role \notin {"none", "new"}
        /\ (p[c].from # None => Past(steps, i, p[c].from)) /\ peer[c].doing # "rest"
    <3>1. Over.role = "over" /\ Over.from = None
      BY DEF Over, Absent
    <3> QED BY <1>1, <2>1, <3>1, OverPeer
  <2>4. y \in Peers /\ y.role = p[c].role /\ y.from = p[c].from /\ y.doing = "rest"
    BY <2>3 DEF Peers
  <2> HIDE DEF y
  <2>5. Fits(steps, i, c, y, Append(down[c], x), up[c])
    BY <1>1, <1>2, <2>3, <2>4, FitsFinish
  <2>6. up' = [up EXCEPT ![c] = up[c]]
    BY <1>7, CoreAt
  <2>7. \A a \in Conns \ {c} : p[a] = Over \/ p[a] = peer[a]
    BY <2>1
  <2>8. down' = [down EXCEPT ![c] = Append(down[c], x)]
    BY <1>3, <1>7
  <2> QED BY <2>1, <2>2, <2>5, <2>6, <2>7, <2>8, CoreOne
<1> QED BY <1>5, <1>6, <1>7 DEF Read

LEMMA WriteCore ==
  ASSUME NEW steps, NEW i, Core(steps, i), NEW c \in Conns, Write(c)
  PROVE  Core(steps, i)'
<1> DEFINE d == peer[c].from
           y == [peer[c] EXCEPT !.doing = "rest"]
           a == Line("123", "appl")
<1>1. peer[c].doing = "writes" /\ peer' = [peer EXCEPT ![c].doing = "rest"] /\ up' = up
  BY DEF Write
<1>2. /\ Fits(steps, i, c, peer[c], down[c], up[c]) /\ peer[c] \in Peers
      /\ down[c] \in Seq(Lines \cup {Sound})
  BY CoreAt
<1>3. peer[c].role \in {"ctrl", "root"} /\ d \in Conns /\ Past(steps, i, d)
  <2>1. peer[c].role \in {"ctrl", "root"} /\ d # None /\ Past(steps, i, d)
    BY <1>1, <1>2 DEF Fits, Good
  <2> QED BY <1>2, <2>1 DEF Peers
<1>4. y \in Peers /\ y.role = peer[c].role /\ y.from = peer[c].from /\ y.doing = "rest"
  BY <1>2 DEF Peers
<1>5. y.role \notin {"none", "new"} /\ (y.from # None => Past(steps, i, y.from)) /\ peer[c].doing # "rest"
  BY <1>1, <1>3, <1>4
<1>6. peer' = [peer EXCEPT ![c] = y] /\ up' = [up EXCEPT ![c] = up[c]]
  BY <1>1, <1>2, CoreAt DEF Peers
<1>7. "appl" \in Verbs \cup {""} /\ "4" \in Conclusive /\ "2" \in Conclusive
  BY DEF Verbs, Conclusive
<1> HIDE DEF y
<1>8. ASSUME NEW code \in Conclusive, Respond(c, <<code>>, "appl") PROVE Core(steps, i)'
  <2> DEFINE x == Line(code, "appl")
  <2>1. x \in Results /\ x.is = "appl" /\ x \in Lines \cup {Sound}
    BY <1>7, AResult DEF Results
  <2>2. down' = [down EXCEPT ![c] = Append(down[c], x)]
    <3>1. down[c] \o [j \in DOMAIN <<code>> |-> Line(<<code>>[j], "appl")] = Append(down[c], x)
      BY <1>2, <2>1, OneLine
    <3> QED BY <1>8, <3>1 DEF Respond, Core
  <2> HIDE DEF x
  <2>3. Fits(steps, i, c, y, Append(down[c], x), up[c])
    BY <1>2, <1>4, <1>5, <2>1, FitsFinish
  <2> QED BY <1>6, <2>2, <2>3, CoreThis
<1>9. CASE /\ peer[d].role = "data"
           /\ down' = [down EXCEPT ![d] = Append(@, Sound),
                                   ![c] = @ \o <<Line("123", "appl"), Line("2", "appl")>>]
  <2> DEFINE x == Line("2", "appl")
             r == Append(Append(down[c], a), x)
  <2>1. x \in Results /\ x.is = "appl" /\ x \in Lines /\ a \in Lines \ Results
    BY <1>7, NoResult, AResult DEF Results
  <2> HIDE DEF x, a
  <2>2. down[c] \o <<a, x>> = r
    BY <1>2, <2>1, ConcatTwo
  <2>3. d # c
    BY <1>3, <1>9
  <2>4. /\ DOMAIN peer' = Conns /\ DOMAIN down' = Conns /\ DOMAIN up' = Conns
        /\ peer' = [b \in DOMAIN peer' |-> peer'[b]] /\ down' = [b \in DOMAIN down' |-> down'[b]]
        /\ up' = [b \in DOMAIN up' |-> up'[b]]
    BY <1>1, <1>9 DEF Core
  <2>5. down'[c] = down[c] \o <<a, x>>
    BY <1>3, <1>9, <2>3 DEF Core, a, x
  <2>6. /\ peer'[c] = y /\ up'[c] = up[c]
        /\ \A b \in Conns \ {c} : /\ peer'[b] = peer[b] /\ up'[b] = up[b]
                                  /\ down'[b] = IF b = d THEN Append(down[d], Sound) ELSE down[b]
    BY <1>1, <1>6, <1>9, <2>3 DEF Core
  <2>7. Fits(steps, i, c, peer[c], Append(down[c], a), up[c])
    BY <1>2, <1>3, <2>1, FitsLine
  <2>8. Fits(steps, i, c, y, r, up[c])
    BY <1>4, <1>5, <2>1, <2>7, FitsFinish
  <2>9. Fits(steps, i, d, peer[d], Append(down[d], Sound), up[d])
    BY <1>3, <1>9, CoreAt, FitsLine
  <2>10. ASSUME NEW b \in Conns PROVE Fits(steps, i, b, peer'[b], down'[b], up'[b])
    <3>1. CASE b = c
      BY ZenonT(30), <2>2, <2>5, <2>6, <2>8, <3>1
    <3>2. CASE b = d
      BY <1>3, <2>3, <2>6, <2>9, <3>2
    <3>3. CASE b # c /\ b # d
      BY <2>6, <3>3, CoreAt
    <3> QED BY <3>1, <3>2, <3>3
  <2> QED BY <2>4, <2>10, CoreAll
<1> QED BY <1>7, <1>8, <1>9 DEF Write

LEMMA ServeCore ==
  ASSUME NEW steps, NEW i, Core(steps, i), NEW c \in Conns, Serve(c)
  PROVE  Core(steps, i)'
<1>1. CASE Greet(c)
  <2> DEFINE y == [peer[c] EXCEPT !.role = "ctrl"]
             r == <<Line("hi", ""), Line("info", ""), Line("handle", "")>>
  <2>1. peer[c].role = "new" /\ peer' = [peer EXCEPT ![c].role = "ctrl"] /\ down' = [down EXCEPT ![c] = r] /\ up' = up
    BY <1>1 DEF Greet
  <2>2. Fits(steps, i, c, y, r, up[c])
    BY <2>1, CoreAt, FitsGreet
  <2>3. peer' = [peer EXCEPT ![c] = y] /\ down' = [down EXCEPT ![c] = r] /\ up' = [up EXCEPT ![c] = up[c]]
    BY <2>1, CoreAt
  <2> HIDE DEF y, r
  <2> QED BY <2>2, <2>3, CoreThis
<1>2. CASE Eof(c)
  <2> DEFINE p == Without({c})
             y == p[c]
  <2>1. /\ DOMAIN p = Conns /\ p = [a \in DOMAIN p |-> p[a]]
        /\ \A a \in Conns : p[a] = Over \/ p[a] = peer[a]
    BY WithoutIs
  <2>2. peer' = p /\ UNCHANGED <<up, down>>
    BY <1>2 DEF Eof
  <2> HIDE DEF p
  <2>3. Fits(steps, i, c, y, down[c], up[c])
    <3>1. Fits(steps, i, c, Over, down[c], up[c])
      BY CoreAt, OverPeer, FitsKept
    <3> QED BY <2>1, <3>1, CoreAt
  <2>4. peer' = [p EXCEPT ![c] = y] /\ down' = [down EXCEPT ![c] = down[c]] /\ up' = [up EXCEPT ![c] = up[c]]
    BY <2>1, <2>2, CoreAt
  <2>5. \A a \in Conns \ {c} : p[a] = Over \/ p[a] = peer[a]
    BY <2>1
  <2> HIDE DEF y
  <2> QED BY <2>1, <2>3, <2>4, <2>5, CoreOne
<1> QED BY <1>1, <1>2, ObeyCore, ReadCore, WriteCore DEF Serve

-----------------------------------------------------------------------------
(* Steps of the program.                                                   *)

LEMMA CoreOn ==
  ASSUME NEW steps, Len(steps) \in Nat, NEW i \in Nat, Core(steps, i)',
         \A x \in Conns : i \notin Sends(steps, x) /\ i \notin Awaits(steps, x)
  PROVE  Core(steps, i + 1)'
<1>1. \A x \in Conns : Fits(steps, i, x, peer'[x], down'[x], up'[x])
  BY DEF Core
<1>2. \A x \in Conns : Fits(steps, i + 1, x, peer'[x], down'[x], up'[x])
  BY <1>1, FitsOn
<1> QED BY <1>2 DEF Core

LEMMA SameCore ==
  ASSUME NEW steps, NEW i, Core(steps, i), UNCHANGED <<peer, down, up>>
  PROVE  Core(steps, i)'
BY DEF Core

\* The step counts nowhere.
LEMMA Apart ==
  ASSUME NEW steps, NEW i, steps[i].do \notin Waits \cup {"send"}
  PROVE  \A x : i \notin Sends(steps, x) /\ i \notin Awaits(steps, x)
BY DEF Sends, Awaits

\* The program is at step i of steps, and is at step j after this one.
Alone(steps, i) == DOMAIN dialogue = {1} /\ steps = Steps(1) /\ i = pc[1] /\ pc \in [{1} -> Nat] /\ Runs(1)
Arrives(steps, j) == pc' \in [{1} -> Nat] /\ pc'[1] = j

LEMMA Arrival ==
  ASSUME NEW steps, NEW i, Alone(steps, i), Len(steps) \in Nat
  PROVE  /\ i \in 1..Len(steps) /\ Now(1) = steps[i]
         /\ Onward(1) => Arrives(steps, i + 1)
         /\ \A n : Goto(1, n) /\ n \in Nat => Arrives(steps, n)
<1>1. i \in 1..Len(steps) /\ Now(1) = steps[i] /\ i + 1 \in Nat
  BY DEF Alone, Runs, Now
<1>2. \A n : Goto(1, n) /\ n \in Nat => Arrives(steps, n)
  BY DEF Alone, Goto, Arrives
<1> QED BY <1>1, <1>2 DEF Onward, Alone

LEMMA Exits ==
  ASSUME NEW steps, NEW i, Alone(steps, i), Len(steps) \in Nat, NEW thrown, Exit(1, thrown)
  PROVE  \E j \in Nat : Arrives(steps, j) /\ (j <= Len(steps) => Core(steps, j)')
<1>1. Len(steps) + 1 \in Nat /\ ~(Len(steps) + 1 <= Len(steps))
  OBVIOUS
<1>2. Goto(1, Len(steps) + 1)
  BY DEF Alone, Exit, Ended
<1> QED BY <1>1, <1>2, Arrival

LEMMA ConnectingCore ==
  ASSUME NEW steps, NEW i, Program(steps), Alone(steps, i), Core(steps, i), Connecting(1)
  PROVE  \E j \in Nat : Arrives(steps, j) /\ (j <= Len(steps) => Core(steps, j)')
<1> DEFINE c == steps[i].on
<1>1. /\ Len(steps) \in Nat /\ i \in 1..Len(steps) /\ Now(1) = steps[i] /\ steps[i].do = "connect"
      /\ At(1) = c
  BY Arrival DEF Connecting, Doing, Program, At
<1>2. c \in Conns /\ steps[i].what \subseteq Servers
  BY <1>1 DEF Program
<1>3. CASE Exit(1, FALSE)
  BY <1>1, <1>3, Exits
<1>4. CASE \E s \in Now(1).what :
             /\ peer[At(1)].role = "none"
             /\ peer' = [peer EXCEPT ![At(1)] = [Absent EXCEPT !.role = "new", !.place = s]]
             /\ Onward(1)
  <2>1. PICK s \in Servers :
          /\ peer[c].role = "none"
          /\ peer' = [peer EXCEPT ![c] = [Absent EXCEPT !.role = "new", !.place = s]]
          /\ Onward(1)
    BY <1>1, <1>2, <1>4
  <2> DEFINE y == [Absent EXCEPT !.role = "new", !.place = s]
  <2>2. Fits(steps, i, c, y, down[c], up[c])
    BY <1>2, <2>1, CoreAt, FitsNew
  <2>3. /\ peer' = [peer EXCEPT ![c] = y] /\ down' = [down EXCEPT ![c] = down[c]]
        /\ up' = [up EXCEPT ![c] = up[c]]
    BY <1>2, <2>1, CoreAt DEF Connecting
  <2> HIDE DEF y
  <2>4. Core(steps, i)'
    BY <1>2, <2>2, <2>3, CoreThis
  <2>5. \A x \in Conns : i \notin Sends(steps, x) /\ i \notin Awaits(steps, x)
    BY <1>1, Apart DEF Waits
  <2>6. Core(steps, i + 1)' /\ i + 1 \in Nat
    BY <1>1, <2>4, <2>5, CoreOn
  <2> QED BY <1>1, <2>1, <2>6, Arrival
<1> QED BY <1>3, <1>4 DEF Connecting

LEMMA SendingCore ==
  ASSUME NEW steps, NEW i, Program(steps), Alone(steps, i), Core(steps, i), Sending(1)
  PROVE  \E j \in Nat : Arrives(steps, j) /\ (j <= Len(steps) => Core(steps, j)')
<1> DEFINE c == steps[i].on
<1>1. /\ Len(steps) \in Nat /\ i \in 1..Len(steps) /\ Now(1) = steps[i] /\ steps[i].do = "send"
      /\ At(1) = c
  BY Arrival DEF Sending, Doing, Program, At
<1>2. c \in Conns /\ i + 1 \in Nat
  BY <1>1 DEF Program
<1>3. CASE Exit(1, FALSE)
  BY <1>1, <1>3, Exits
<1>4. \A x \in Conns \ {c} : i \notin Sends(steps, x) /\ i \notin Awaits(steps, x)
  BY <1>1 DEF Sends, Awaits
<1>5. ASSUME NEW w, Fits(steps, i + 1, c, peer[c], down[c], w), up' = [up EXCEPT ![c] = w],
             UNCHANGED <<down, peer>>
      PROVE  Core(steps, i + 1)'
  <2>1. /\ DOMAIN peer' = Conns /\ DOMAIN down' = Conns /\ DOMAIN up' = Conns
        /\ peer' = [x \in DOMAIN peer' |-> peer'[x]] /\ down' = [x \in DOMAIN down' |-> down'[x]]
        /\ up' = [x \in DOMAIN up' |-> up'[x]]
        /\ up'[c] = w /\ \A x \in Conns \ {c} : up'[x] = up[x]
        /\ \A x \in Conns : peer'[x] = peer[x] /\ down'[x] = down[x]
    BY <1>2, <1>5 DEF Core
  <2>2. ASSUME NEW x \in Conns \ {c} PROVE Fits(steps, i + 1, x, peer[x], down[x], up[x])
    BY <1>1, <1>4, CoreAt, FitsOn
  <2>3. \A x \in Conns : Fits(steps, i + 1, x, peer'[x], down'[x], up'[x])
    BY <1>5, <2>1, <2>2
  <2> QED BY <2>1, <2>3, CoreAll
<1>6. CASE /\ peer[c].role = "over" /\ UNCHANGED up /\ GoOn(1)
  <2>1. Fits(steps, i + 1, c, peer[c], down[c], up[c])
    BY <1>1, <1>2, <1>6, CoreAt, FitsSend
  <2>2. up' = [up EXCEPT ![c] = up[c]]
    BY <1>2, <1>6, CoreAt
  <2>3. Core(steps, i + 1)'
    BY <1>5, <2>1, <2>2 DEF Sending
  <2> QED BY <1>1, <1>2, <1>6, <2>3, Arrival DEF GoOn
<1>7. CASE up' = [up EXCEPT ![c] = Append(@, Now(1).what)] /\ Onward(1)
  <2>1. Fits(steps, i + 1, c, peer[c], down[c], Append(up[c], steps[i].what))
    BY <1>1, <1>2, CoreAt, FitsSend
  <2>2. up' = [up EXCEPT ![c] = Append(up[c], steps[i].what)]
    BY <1>1, <1>7 DEF Core
  <2>3. Core(steps, i + 1)'
    BY <1>5, <2>1, <2>2 DEF Sending
  <2> QED BY <1>1, <1>2, <1>7, <2>3, Arrival
<1> QED BY <1>1, <1>3, <1>6, <1>7 DEF Sending

\* The program takes something from c, and moves to step j.
LEMMA MovedCore ==
  ASSUME NEW steps, NEW i, Core(steps, i), NEW j, NEW c \in Conns, NEW r,
         Fits(steps, j, c, peer[c], r, up[c]),
         \A x \in Conns \ {c} : Fits(steps, j, x, peer[x], down[x], up[x]),
         down' = [down EXCEPT ![c] = r], UNCHANGED <<up, peer>>
  PROVE  Core(steps, j)'
<1>1. /\ DOMAIN peer' = Conns /\ DOMAIN down' = Conns /\ DOMAIN up' = Conns
      /\ peer' = [x \in DOMAIN peer' |-> peer'[x]] /\ down' = [x \in DOMAIN down' |-> down'[x]]
      /\ up' = [x \in DOMAIN up' |-> up'[x]]
      /\ down'[c] = r /\ \A x \in Conns \ {c} : down'[x] = down[x]
      /\ \A x \in Conns : peer'[x] = peer[x] /\ up'[x] = up[x]
  BY DEF Core
<1>2. \A x \in Conns : Fits(steps, j, x, peer'[x], down'[x], up'[x])
  BY <1>1
<1> QED BY <1>1, <1>2, CoreAll

LEMMA HandleCore ==
  ASSUME NEW steps, NEW i, Program(steps), Alone(steps, i), Core(steps, i), AwaitHandle(1)
  PROVE  \E j \in Nat : Arrives(steps, j) /\ (j <= Len(steps) => Core(steps, j)')
<1> DEFINE c == steps[i].on
           q == down[c]
           r == IF q = <<>> THEN q ELSE Tail(q)
<1>1. /\ Len(steps) \in Nat /\ i \in 1..Len(steps) /\ Now(1) = steps[i] /\ steps[i].do = "handle"
      /\ At(1) = c
  BY Arrival DEF AwaitHandle, Doing, Program, At
<1>2. c \in Conns /\ i \in Nat /\ i + 1 \in Nat
  BY <1>1 DEF Program
<1>3. /\ CanHear(c) /\ UNCHANGED <<up, peer>>
      /\ IF Hear(c).code \in {"handle", "eof"} THEN Onward(1) ELSE UNCHANGED pc
  BY <1>1 DEF AwaitHandle
<1>4. down' = [down EXCEPT ![c] = r]
  BY <1>1, <1>2 DEF AwaitHandle, Took, Core
<1>5. peer' = [peer EXCEPT ![c] = peer[c]] /\ up' = [up EXCEPT ![c] = up[c]]
  BY <1>2, <1>3, CoreAt
<1>6. Fits(steps, i, c, peer[c], q, up[c]) /\ q \in Seq(Lines \cup {Sound})
  BY <1>2, CoreAt
<1>7. \A x \in Conns : i \notin Sends(steps, x) /\ i \notin Awaits(steps, x)
  BY <1>1, Apart DEF Waits
<1>8. \A j \in i + 1..Len(steps) : ~(steps[j].do = "handle" /\ steps[j].on = c)
  BY <1>1, <1>2, ListensLast DEF Listens
<1>9. CASE q = <<>>
  <2>1. Core(steps, i)'
    BY <1>2, <1>4, <1>5, <1>6, <1>9, CoreThis
  <2>2. Core(steps, i + 1)'
    BY <1>1, <1>2, <1>7, <2>1, CoreOn
  <2>3. Hear(c).code = "eof"
    BY <1>9 DEF Hear, Line
  <2>4. Onward(1)
    BY <1>3, <2>3
  <2> QED BY <1>1, <1>2, <2>2, <2>4, Arrival
<1>10. CASE q # <<>>
  <2>1. HandleFirst(q)
    <3>1. i \in i..Len(steps)
      BY <1>1
    <3> QED BY <1>1, <1>6, <1>10, <3>1 DEF Fits, Good, Greets
  <2>2. Head(q) \notin Results
    <3>1. PICK k \in 1..Len(q) : q[k].code = "handle" /\ \A l \in 1..k : q[l].code \notin Conclusive
      BY <2>1 DEF HandleFirst
    <3>2. 1 \in 1..k /\ Head(q) = q[1]
      BY <1>6
    <3>3. Head(q).code \notin Conclusive
      BY <3>1, <3>2
    <3> QED BY <3>3 DEF Results
  <2>3. Hear(c) = Head(q) /\ r = Tail(q)
    BY <1>10 DEF Hear
  <2>4. CASE Head(q).code \in {"handle", "eof"}
    <3>1. Onward(1)
      BY <1>3, <2>3, <2>4
    <3>2. Fits(steps, i + 1, c, peer[c], q, up[c])
      BY <1>1, <1>2, <1>6, <1>7, FitsOn
    <3>3. Fits(steps, i + 1, c, peer[c], r, up[c])
      BY <1>8, <1>10, <2>2, <2>3, <3>2, FitsDrop
    <3>4. ASSUME NEW x \in Conns \ {c} PROVE Fits(steps, i + 1, x, peer[x], down[x], up[x])
      BY <1>1, <1>2, <1>7, CoreAt, FitsOn
    <3>5. Core(steps, i + 1)'
      BY <1>2, <1>3, <1>4, <3>3, <3>4, MovedCore
    <3> QED BY <1>1, <1>2, <3>1, <3>5, Arrival
  <2>5. CASE Head(q).code \notin {"handle", "eof"}
    <3>1. UNCHANGED pc
      BY <1>3, <2>3, <2>5
    <3>2. Fits(steps, i, c, peer[c], r, up[c])
      BY <1>6, <1>10, <2>1, <2>2, <2>3, <2>5, FitsDrop
    <3>3. Core(steps, i)'
      BY <1>2, <1>4, <1>5, <3>2, CoreThis
    <3> QED BY <1>2, <3>1, <3>3 DEF Alone, Arrives
  <2> QED BY <2>4, <2>5
<1> QED BY <1>9, <1>10

\* A result is that of the command it is taken for.
LEMMA ResultCore ==
  ASSUME NEW steps, NEW i, Program(steps), Alone(steps, i), Core(steps, i), AwaitResult(1), Paired
  PROVE  /\ Paired'
         /\ \E j \in Nat : Arrives(steps, j) /\ (j <= Len(steps) => Core(steps, j)')
<1> DEFINE c == steps[i].on
           q == down[c]
           r == IF q = <<>> THEN q ELSE Tail(q)
           line == Hear(c)
<1>1. /\ Len(steps) \in Nat /\ i \in 1..Len(steps) /\ Now(1) = steps[i] /\ steps[i].do \in Waits
      /\ At(1) = c
  BY Arrival DEF AwaitResult, Doing, Program, At
<1>2. c \in Conns /\ i \in Nat /\ i + 1 \in Nat
  BY <1>1 DEF Program
<1>3. /\ CanHear(c) /\ UNCHANGED <<up, peer>>
      /\ IF line.code \in Conclusive
         THEN /\ taken' = taken \cup (IF line.code = "eof" THEN {} ELSE {<<1, Result(Now(1)), line.is>>})
              /\ After(1, line.code)
         ELSE UNCHANGED <<pc, taken>>
  BY <1>1 DEF AwaitResult
<1>4. down' = [down EXCEPT ![c] = r]
  BY <1>1, <1>2 DEF AwaitResult, Took, Core
<1>5. Fits(steps, i, c, peer[c], q, up[c]) /\ q \in Seq(Lines \cup {Sound})
  BY <1>2, CoreAt
<1>6. /\ ~Past(steps, i, c) /\ \A j \in i + 1..Len(steps) : ~(steps[j].do = "handle" /\ steps[j].on = c)
  BY <1>1, <1>2, ListensLast DEF Listens
<1>7. q \in Seq(Lines)
  BY <1>5, <1>6 DEF Fits, Good, Layout
<1>8. q # <<>> => line = Head(q) /\ r = Tail(q) /\ (line.code \in Conclusive <=> Head(q) \in Results)
  BY <1>7 DEF Hear, Results
<1>9. q = <<>> => peer[c].role = "over" /\ line.code = "eof" /\ line.code \in Conclusive
  BY <1>3 DEF CanHear, Hear, Line, Conclusive
<1> HIDE DEF line, r, q
<1>10. CASE line.code \notin Conclusive
  <2>1. q # <<>> /\ Head(q) \notin Results /\ r = Tail(q)
    BY <1>8, <1>9, <1>10
  <2>2. \A j \in i..Len(steps) : ~(steps[j].do = "handle" /\ steps[j].on = c)
    <3>1. \A j \in i..Len(steps) : j = i \/ j \in i + 1..Len(steps)
      BY <1>1
    <3>2. steps[i].do # "handle"
      BY <1>1 DEF Waits
    <3> QED BY <1>6, <3>1, <3>2
  <2>3. Fits(steps, i, c, peer[c], r, up[c])
    BY <1>5, <2>1, <2>2, FitsDrop DEF q
  <2>4. Core(steps, i)'
    BY <1>2, <1>3, <1>4, <2>3, CoreAt, MovedCore
  <2>5. UNCHANGED <<pc, taken>>
    BY <1>3, <1>10
  <2> QED BY <1>2, <2>4, <2>5 DEF Alone, Arrives, Paired
<1>11. CASE line.code \in Conclusive
  <2>1. line.code # "eof" => line.is = Result(steps[i])
    <3>1. ASSUME line.code # "eof" PROVE q # <<>> /\ Head(q) \in Results /\ line = Head(q)
      BY <1>8, <1>9, <1>11, <3>1
    <3> QED BY <1>1, <1>2, <1>5, <3>1, FitsTake DEF q
  <2>2. Paired'
    BY <1>1, <1>3, <1>11, <2>1 DEF Paired
  <2>3. After(1, line.code)
    BY <1>3, <1>11
  <2>4. CASE \E thrown : Exit(1, thrown)
    BY <1>1, <2>2, <2>4, Exits
  <2>5. CASE steps[i].do = "retry" /\ Goto(1, pc[1] - Now(1).what.back)
    <3>1. steps[i].what.back = 1 /\ i - 1 \in Nat
      <4>1. steps[i].what.back = 1
        BY <1>1, <1>2, <2>5, TakesTurn
      <4> QED BY <1>1, <4>1
    <3>2. Goto(1, i - 1)
      BY <1>1, <2>5, <3>1 DEF Alone
    <3>3. Fits(steps, i - 1, c, peer[c], r, up[c])
      <4>1. CASE q # <<>>
        <5>1. Head(q) \in Results /\ r = Tail(q)
          BY <1>8, <1>11, <4>1
        <5> QED BY <1>1, <1>2, <1>5, <2>5, <4>1, <5>1, FitsBack DEF q
      <4>2. CASE q = <<>>
        <5>1. r = <<>> /\ peer[c].role = "over"
          BY <1>9, <4>2 DEF r
        <5> QED BY <1>1, <1>2, <1>5, <2>5, <4>2, <5>1, FitsBack DEF q
      <4> QED BY <4>1, <4>2
    <3>4. ASSUME NEW x \in Conns \ {c} PROVE Fits(steps, i - 1, x, peer[x], down[x], up[x])
      <4>1. Fits(steps, i, x, peer[x], down[x], up[x]) /\ x # c
        BY CoreAt
      <4> QED BY <1>1, <1>2, <2>5, <4>1, FitsBack
    <3>5. Core(steps, i - 1)'
      BY <1>2, <1>3, <1>4, <3>3, <3>4, MovedCore
    <3> QED BY <1>1, <2>2, <3>1, <3>2, <3>5, Arrival
  <2>6. CASE GoOn(1)
    <3>1. Onward(1)
      BY <2>6 DEF GoOn
    <3>2. Fits(steps, i + 1, c, peer[c], r, up[c])
      <4>1. CASE q # <<>>
        <5>1. Head(q) \in Results /\ r = Tail(q)
          BY <1>8, <1>11, <4>1
        <5> QED BY <1>1, <1>2, <1>5, <4>1, <5>1, FitsTake DEF q
      <4>2. CASE q = <<>>
        <5>1. r = <<>> /\ peer[c].role = "over"
          BY <1>9, <4>2 DEF r
        <5> QED BY <1>1, <1>2, <1>5, <4>2, <5>1, FitsTake DEF q
      <4> QED BY <4>1, <4>2
    <3>3. ASSUME NEW x \in Conns \ {c} PROVE Fits(steps, i + 1, x, peer[x], down[x], up[x])
      <4>1. i \notin Sends(steps, x) /\ i \notin Awaits(steps, x)
        BY <1>1 DEF Sends, Awaits, Waits
      <4> QED BY <1>1, <1>2, <4>1, CoreAt, FitsOn
    <3>4. Core(steps, i + 1)'
      BY <1>2, <1>3, <1>4, <3>2, <3>3, MovedCore
    <3> QED BY <1>1, <1>2, <2>2, <3>1, <3>4, Arrival
  <2> QED BY <1>1, <2>3, <2>4, <2>5, <2>6 DEF After
<1> QED BY <1>10, <1>11

LEMMA TakingCore ==
  ASSUME NEW steps, NEW i, Program(steps), Alone(steps, i), Core(steps, i), AwaitData(1)
  PROVE  \E j \in Nat : Arrives(steps, j) /\ (j <= Len(steps) => Core(steps, j)')
<1> DEFINE d == steps[i].what.from
<1>1. /\ Len(steps) \in Nat /\ i \in 1..Len(steps) /\ Now(1) = steps[i] /\ steps[i].do = "data"
  BY Arrival DEF AwaitData, Doing, Program
<1>2. d \in Conns /\ i \in Nat /\ InTurn(steps)
  BY <1>1 DEF Program
<1>3. down[d] # <<>> /\ down' = [down EXCEPT ![d] = Tail(down[d])] /\ UNCHANGED <<pc, up, peer>>
  BY <1>1, <1>2 DEF AwaitData, Took, Core
<1>4. Uses(steps[i], d)
  BY <1>1 DEF Uses
<1>5. Past(steps, i, d)
  <2>1. i \in 1..i /\ i <= Len(steps)
    BY <1>1
  <2> QED BY <1>4, <2>1 DEF Past
<1>6. \A j \in i..Len(steps) : ~(steps[j].do = "handle" /\ steps[j].on = d)
  <2>1. \A j \in i..Len(steps) : j \in 1..Len(steps) /\ i \in 1..j
    BY <1>1
  <2>2. \A j \in i..Len(steps) : ~Listens(steps[j], d)
    BY <1>2, <1>4, <2>1 DEF InTurn
  <2> QED BY <2>2 DEF Listens
<1>7. Fits(steps, i, d, peer[d], Tail(down[d]), up[d])
  BY <1>2, <1>3, <1>5, <1>6, CoreAt, FitsDrop
<1>8. Core(steps, i)'
  BY <1>2, <1>3, <1>7, CoreAt, MovedCore
<1> QED BY <1>2, <1>3, <1>8 DEF Alone, Arrives

LEMMA OtherCore ==
  ASSUME NEW steps, NEW i, Program(steps), Alone(steps, i), Core(steps, i), Other(1)
  PROVE  \E j \in Nat : Arrives(steps, j) /\ (j <= Len(steps) => Core(steps, j)')
<1>1. Len(steps) \in Nat /\ i \in 1..Len(steps) /\ Now(1) = steps[i] /\ i + 1 \in Nat
  BY Arrival DEF Program
<1>2. CASE Closing(1)
  BY <1>1, <1>2, Exits DEF Closing
<1>3. CASE Forking(1) \/ Waking(1)
  <2>1. steps[i].do \in {"fork", "sleep"}
    BY <1>1, <1>3 DEF Forking, Waking, Doing
  <2>2. \A x \in Conns : i \notin Sends(steps, x) /\ i \notin Awaits(steps, x)
    BY <2>1, Apart DEF Waits
  <2>3. Core(steps, i)'
    BY SameCore DEF Other
  <2>4. Core(steps, i + 1)'
    BY <1>1, <2>2, <2>3, CoreOn
  <2>5. Arrives(steps, i + 1)
    <3>1. CASE Waking(1)
      BY <1>1, <3>1, Arrival DEF Waking
    <3>2. CASE Forking(1)
      <4>1. pc' = [pc EXCEPT ![1] = i + 1, ![2] = 1]
        BY <3>2 DEF Forking, Alone
      <4>2. DOMAIN pc = {1} /\ pc \in [{1} -> Nat]
        BY DEF Alone
      <4>3. DOMAIN pc' = {1} /\ pc'[1] = i + 1
        BY <4>1, <4>2
      <4>4. pc' \in [{1} -> Nat]
        <5>1. pc' = [q \in {1} |-> pc'[q]]
          BY <4>1, <4>2, <4>3
        <5> QED BY <1>1, <4>3, <5>1
      <4> QED BY <1>1, <4>3, <4>4 DEF Arrives
    <3> QED BY <1>3, <3>1, <3>2
  <2> QED BY <1>1, <2>4, <2>5
<1> QED BY <1>2, <1>3 DEF Other

-----------------------------------------------------------------------------
(* The invariant and the theorem.                                          *)

\* The program has one process, and awaits in turn.  (The gauge has two processes.)
Orderly == DOMAIN dialogue = {1} /\ InTurn(dialogue[1])

DlgInv ==
  /\ dialogue \in Dialogues /\ pc \in [{1} -> Nat] /\ Paired
  /\ Runs(1) => Core(Steps(1), pc[1])

LEMMA DlgStart == DlgInit /\ Orderly => DlgInv
<1> SUFFICES ASSUME DlgInit, Orderly PROVE DlgInv
  OBVIOUS
<1> DEFINE steps == Steps(1)
<1>1. /\ dialogue \in Dialogues /\ pc = [p \in {1} |-> IF p = 1 THEN 1 ELSE 0] /\ taken = {}
      /\ up = [c \in Conns |-> <<>>] /\ down = [c \in Conns |-> <<>>] /\ peer = [c \in Conns |-> Absent]
  BY DEF DlgInit, Orderly
<1>2. pc \in [{1} -> Nat] /\ pc[1] = 1 /\ Paired
  BY <1>1 DEF Paired
<1>3. Len(steps) \in Nat
  BY <1>1, DlgAssumption DEF Orderly, Steps
<1>4. ASSUME NEW c \in Conns PROVE Fits(steps, 1, c, Absent, <<>>, <<>>)
  <2>1. Absent \in Peers /\ Absent.doing = "rest" /\ Absent.from = None /\ Absent.role = "none"
    BY OverPeer DEF Absent
  <2>2. Before(Awaits(steps, c), 1) = 0 /\ Before(Sends(steps, c), 1) = 0
    BY <1>3, BeforeOne DEF Awaits, Sends
  <2>3. Layout(steps, c, 0, 0, <<>>, <<>>, Absent)
    BY <2>1, Resting
  <2>4. <<>> \in Seq(Lines \cup {Sound}) /\ <<>> \in Seq(Commands) /\ \A k \in 1..Len(<<>>) : FALSE
    OBVIOUS
  <2>5. Good(steps, 1, c, Absent, <<>>, <<>>)
    BY <2>1, <2>2, <2>3, <2>4 DEF Good, Greets
  <2> QED BY <2>1, <2>4, <2>5 DEF Fits, Typed
<1>5. Core(steps, 1)
  <2>1. <<>> \in Seq(Lines \cup {Sound}) /\ <<>> \in Seq(Commands)
    OBVIOUS
  <2> QED BY <1>1, <1>4, <2>1, OverPeer DEF Core
<1> QED BY <1>1, <1>2, <1>5 DEF DlgInv

LEMMA DlgStep == DlgInv /\ Orderly /\ [DlgNext]_dlgVars => DlgInv'
<1> SUFFICES ASSUME DlgInv, Orderly, [DlgNext]_dlgVars PROVE DlgInv'
  OBVIOUS
<1>1. dialogue \in Dialogues /\ pc \in [{1} -> Nat] /\ Paired /\ DOMAIN dialogue = {1} /\ Procs = {1}
  BY DEF DlgInv, Orderly, Procs
<1>2. Program(Steps(1))
  BY <1>1, DlgAssumption DEF Program, Orderly, Steps
<1>3. CASE UNCHANGED dlgVars
  BY <1>1, <1>3 DEF DlgInv, dlgVars, Core, Runs, Steps, Paired
<1>4. ASSUME NEW c \in Conns, Serve(c) PROVE DlgInv'
  <2>1. UNCHANGED <<dialogue, pc, taken>>
    BY <1>4 DEF Serve, Greet, Obey, cmd_data, cmd_strm, cmd_appl, cmd_set, cmd_show, cmd_pass, cmd_down,
         cmd_delh, cmd_done, cmd_intr, Unfinished, Takes, Read, Write, Eof, clientSide
  <2>2. ASSUME Runs(1) PROVE Core(Steps(1), pc[1])'
    <3> DEFINE s == Steps(1)
               i == pc[1]
    <3>1. Core(s, i)
      BY <2>2 DEF DlgInv
    <3>2. PICK t, j : t = s /\ j = i
      OBVIOUS
    <3>3. Core(t, j)'
      BY <1>4, <3>1, <3>2, ServeCore
    <3> QED BY <2>1, <3>2, <3>3 DEF Core, Steps
  <2> QED BY <1>1, <2>1, <2>2 DEF DlgInv, Runs, Steps, Paired
<1>5. ASSUME Proceed(1) PROVE DlgInv'
  <2>1. dialogue' = dialogue /\ Runs(1)
    BY <1>5 DEF Proceed, Connecting, Sending, AwaitHandle, AwaitResult, AwaitData, Other, Forking, Waking,
         Closing, Doing
  <2>2. PICK s, i : s = Steps(1) /\ i = pc[1]
    OBVIOUS
  <2>3. Program(s) /\ Alone(s, i) /\ Core(s, i)
    BY <1>1, <1>2, <2>1, <2>2 DEF Alone, DlgInv
  <2>4. Paired' /\ \E j \in Nat : Arrives(s, j) /\ (j <= Len(s) => Core(s, j)')
    <3>1. CASE AwaitResult(1)
      BY <1>1, <2>3, <3>1, ResultCore
    <3>2. CASE Connecting(1) \/ Sending(1) \/ AwaitHandle(1) \/ AwaitData(1) \/ Other(1)
      <4>1. taken' = taken
        BY <3>2 DEF Connecting, Sending, AwaitHandle, AwaitData, Other
      <4>2. Paired'
        BY <1>1, <4>1 DEF Paired
      <4> QED BY <2>3, <3>2, <4>2, ConnectingCore, SendingCore, HandleCore, TakingCore, OtherCore
    <3> QED BY <1>5, <3>1, <3>2 DEF Proceed
  <2>5. PICK j \in Nat : Arrives(s, j) /\ (j <= Len(s) => Core(s, j)')
    BY <2>4
  <2>6. Runs(1)' => Core(Steps(1), pc[1])'
    BY <2>1, <2>2, <2>5 DEF Runs, Steps, Arrives, Core
  <2> QED BY <1>1, <2>1, <2>4, <2>5, <2>6 DEF DlgInv, Arrives
<1> QED BY <1>1, <1>3, <1>4, <1>5 DEF DlgNext

\* Whatever the server does, and however far a program sends ahead, the result that get_result(),
\* get_data() and sync_finish_command() take is that of the command they are called for
\* (src/src/say.cc:82-139, vrfy.cc:85-115, client.cc:233-260), if the program awaits in turn.
THEOREM ResultsPaired == DlgSpec => [](Orderly => Paired)
<1>1. DlgInit => (Orderly => DlgInv)
  BY DlgStart
<1>2. (Orderly => DlgInv) /\ [DlgNext]_dlgVars => (Orderly => DlgInv)'
  <2> SUFFICES ASSUME Orderly => DlgInv, [DlgNext]_dlgVars, Orderly' PROVE DlgInv'
    OBVIOUS
  <2>1. dialogue' = dialogue
    <3>1. ASSUME NEW p, Proceed(p) PROVE dialogue' = dialogue
      BY <3>1 DEF Proceed, Connecting, Sending, AwaitHandle, AwaitResult, AwaitData, Other
    <3>2. ASSUME NEW c, Serve(c) PROVE dialogue' = dialogue
      BY <3>2 DEF Serve, Greet, Obey, cmd_data, cmd_strm, cmd_appl, cmd_set, cmd_show, cmd_pass, cmd_down,
         cmd_delh, cmd_done, cmd_intr, Unfinished, Takes, Read, Write, Eof, clientSide
    <3> QED BY <3>1, <3>2 DEF DlgNext, dlgVars
  <2>2. Orderly
    BY <2>1 DEF Orderly
  <2> QED BY <2>2, DlgStep
<1>3. (Orderly => DlgInv) => (Orderly => Paired)
  BY DEF DlgInv
<1> QED BY <1>1, <1>2, <1>3, PTL DEF DlgSpec
=============================================================================
