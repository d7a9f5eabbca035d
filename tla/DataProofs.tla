----------------------------- MODULE DataProofs ------------------------------
(***************************************************************************)
(* Theorems about the data structures: Cow, for any sessions that connect, *)
(* set options and go, in any order; CharFunction, for any characters,     *)
(* texts, sizes and numbers of multipliers.                                *)
(***************************************************************************)
EXTENDS Cow, CharFunction, FiniteSetTheorems, SequenceTheorems, WellFoundedInduction, TLAPS

-----------------------------------------------------------------------------
(* The memory that configurations are in.                                  *)

Blk == [cow : Nat, parent : Nat, str : Nat, sub : Nat, live : BOOLEAN]

\* Who claims a block, if contexts have the configurations g.
Claim(m, g, b) == {c \in Context : g[c] # Nowhere /\ b \in Blocks(m, g[c])}
Counts(m, g, b) == Cardinality(Claim(m, g, b)) + Static(b)

Right(m, g, b) ==
  IF m[b].live THEN Counts(m, g, b) > 0 /\ m[b].cow = Counts(m, g, b) - 1 ELSE Counts(m, g, b) = 0

\* A configuration, its language and its voice are three blocks.
Proper(m, c) ==
  \A x \in Level : Chain(m, c)[x] \in 1..Len(m) /\ \A y \in Level : x # y => Chain(m, c)[x] # Chain(m, c)[y]

Heap(m, g) ==
  /\ m \in Seq(Blk) /\ 3 <= Len(m)
  /\ g \in [Context -> Nat] /\ g[Master] # Nowhere
  /\ \A c \in Context : g[c] # Nowhere => Proper(m, g[c])
  /\ \A b \in 1..Len(m) : Right(m, g, b)

-----------------------------------------------------------------------------
(* Claims.                                                                 *)

\* Claims can be counted.
LEMMA ClaimsFinite ==
  ASSUME NEW m, NEW g, NEW b
  PROVE  /\ IsFiniteSet(Claim(m, g, b)) /\ Cardinality(Claim(m, g, b)) \in Nat
         /\ Cardinality(Claim(m, g, b)) = 0 <=> Claim(m, g, b) = {}
         /\ Static(b) \in {0, 1} /\ Counts(m, g, b) = Cardinality(Claim(m, g, b)) + Static(b)
<1>1. IsFiniteSet(Context)
  BY CowAssumption, FS_AddElement DEF Context
<1>2. Claim(m, g, b) \in SUBSET Context
  BY DEF Claim
<1>3. IsFiniteSet(Claim(m, g, b))
  BY <1>1, <1>2, FS_Subset
<1> QED
  BY <1>3, FS_CardinalityType, FS_EmptySet DEF Static, Counts

\* What a context claims is allocated; what is not shared nobody else claims, nor the static cfg.
LEMMA Private ==
  ASSUME NEW m, NEW g, Heap(m, g), NEW c \in Context, g[c] # Nowhere, NEW b \in 1..Len(m), c \in Claim(m, g, b)
  PROVE  /\ m[b] \in Blk /\ m[b].live
         /\ m[b].cow = 0 => Claim(m, g, b) = {c} /\ Static(b) = 0
         /\ Static(b) = 1 => m[b].cow # 0
         /\ \A d \in Context : d # c /\ d \in Claim(m, g, b) => m[b].cow # 0
<1> DEFINE S == Claim(m, g, b)
           n == Cardinality(S)
<1>1. m \in Seq(Blk) /\ Right(m, g, b)
  BY DEF Heap
<1>2. m[b] \in Blk
  BY <1>1
<1>3. IsFiniteSet(S) /\ n \in Nat /\ (n = 0 <=> S = {}) /\ Static(b) \in {0, 1} /\ Counts(m, g, b) = n + Static(b)
  BY ClaimsFinite
<1>4. c \in S
  OBVIOUS
<1> HIDE DEF S
<1>5. n # 0
  BY <1>3, <1>4
<1>6. n = 1 => S = {c}
  BY <1>3, <1>4, FS_Singleton
<1> HIDE DEF n
<1>7. m[b].live /\ m[b].cow = n + Static(b) - 1
  BY <1>1, <1>3, <1>5 DEF Right
<1>8. m[b].cow = 0 => n = 1 /\ Static(b) = 0
  BY <1>3, <1>5, <1>7
<1>9. m[b].cow = 0 => S = {c}
  BY <1>6, <1>8
<1>10. Static(b) = 1 => m[b].cow # 0
  BY <1>8
<1> QED
  BY <1>2, <1>7, <1>8, <1>9, <1>10 DEF S

\* The blocks of a context are in the memory and claimed by it.
LEMMA InChain ==
  ASSUME NEW m, NEW g, Heap(m, g), NEW c \in Context, g[c] # Nowhere, NEW x \in Level
  PROVE  /\ Chain(m, g[c])[x] \in 1..Len(m) /\ c \in Claim(m, g, Chain(m, g[c])[x])
         /\ Chain(m, g[c])[x] \in Blocks(m, g[c])
         /\ \A y \in Level : y # x => Chain(m, g[c])[y] # Chain(m, g[c])[x]
<1>1. Proper(m, g[c])
  BY DEF Heap
<1>2. Chain(m, g[c])[x] \in Blocks(m, g[c])
  BY DEF Blocks
<1> QED
  BY <1>1, <1>2 DEF Proper, Claim

-----------------------------------------------------------------------------
(* Copies.                                                                 *)

\* Context c gets a copy of the block that it shares at level x.
Copied(m, g, m2, g2, c, x, b) ==
  /\ b = Chain(m, g[c])[x] /\ m[b].cow # 0
  /\ m2 \in Seq(Blk) /\ Len(m2) = Len(m) + 1
  /\ \A i \in 1..Len(m) :
       /\ m2[i].live = m[i].live /\ m2[i].str = m[i].str /\ m2[i].parent = m[i].parent
       /\ m2[i].cow = IF i = b THEN m[i].cow - 1 ELSE m[i].cow
  /\ m2[Len(m2)].cow = 0 /\ m2[Len(m2)].live = m[b].live /\ m2[Len(m2)].str = m[b].str /\ m2[Len(m2)].parent = b
  /\ g2 \in [Context -> Nat] /\ g2[c] # Nowhere
  /\ \A d \in Context : d # c => g2[d] = g[d]
  /\ \A d \in Context, y \in Level : d # c /\ g[d] # Nowhere => Chain(m2, g2[d])[y] = Chain(m, g[d])[y]
  /\ \A y \in Level : Chain(m2, g2[c])[y] = IF y = x THEN Len(m2) ELSE Chain(m, g[c])[y]

\* A copy moves one claim from the shared block to the new one.
LEMMA CopiedClaims ==
  ASSUME NEW m, NEW g, Heap(m, g), NEW c \in Context, g[c] # Nowhere, NEW x \in Level,
         NEW m2, NEW g2, NEW b, Copied(m, g, m2, g2, c, x, b)
  PROVE  /\ Claim(m2, g2, b) = Claim(m, g, b) \ {c}
         /\ Claim(m2, g2, Len(m2)) = {c}
         /\ \A i \in 1..Len(m) : i # b => Claim(m2, g2, i) = Claim(m, g, i)
         /\ b \in 1..Len(m) /\ c \in Claim(m, g, b) /\ Len(m) \in Nat
<1>1. b = Chain(m, g[c])[x] /\ b \in 1..Len(m) /\ c \in Claim(m, g, b) /\ \A y \in Level : y # x => Chain(m, g[c])[y] # b
  BY InChain DEF Copied
<1>2. m \in Seq(Blk) /\ Len(m) \in Nat /\ Len(m2) = Len(m) + 1 /\ Len(m2) \notin 1..Len(m)
  BY LenProperties DEF Heap, Copied
<1>3. g2[c] # Nowhere /\ \A d \in Context : d # c => g2[d] = g[d]
  BY DEF Copied
<1>4. \A d \in Context : d # c /\ g[d] # Nowhere => Blocks(m2, g2[d]) = Blocks(m, g[d])
  <2> SUFFICES ASSUME NEW d \in Context, d # c, g[d] # Nowhere PROVE Blocks(m2, g2[d]) = Blocks(m, g[d])
    OBVIOUS
  <2>1. \A y \in Level : Chain(m2, g2[d])[y] = Chain(m, g[d])[y]
    BY DEF Copied
  <2> QED
    BY <2>1 DEF Blocks
<1>5. Blocks(m2, g2[c]) = (Blocks(m, g[c]) \ {b}) \cup {Len(m2)}
  <2>1. \A y \in Level : Chain(m2, g2[c])[y] = IF y = x THEN Len(m2) ELSE Chain(m, g[c])[y]
    BY DEF Copied
  <2> QED
    BY <1>1, <2>1 DEF Blocks
<1>6. \A d \in Context : g[d] # Nowhere => Blocks(m, g[d]) \subseteq 1..Len(m)
  BY DEF Heap, Proper, Blocks
<1>7. Claim(m2, g2, b) = Claim(m, g, b) \ {c}
  BY <1>1, <1>2, <1>3, <1>4, <1>5 DEF Claim
<1>8. Claim(m2, g2, Len(m2)) = {c}
  BY <1>2, <1>3, <1>4, <1>5, <1>6 DEF Claim
<1>9. ASSUME NEW i \in 1..Len(m), i # b PROVE Claim(m2, g2, i) = Claim(m, g, i)
  BY <1>2, <1>3, <1>4, <1>5, <1>9 DEF Claim
<1> QED
  BY <1>1, <1>2, <1>7, <1>8, <1>9

\* The count of a block that is shared goes down, that of the copy is right.
LEMMA CopiedRight ==
  ASSUME NEW m, NEW g, Heap(m, g), NEW c \in Context, g[c] # Nowhere, NEW x \in Level,
         NEW m2, NEW g2, NEW b, Copied(m, g, m2, g2, c, x, b)
  PROVE  Heap(m2, g2)
<1> DEFINE k == Len(m2)
<1>1. /\ Claim(m2, g2, b) = Claim(m, g, b) \ {c}
      /\ Claim(m2, g2, k) = {c}
      /\ \A i \in 1..Len(m) : i # b => Claim(m2, g2, i) = Claim(m, g, i)
      /\ b \in 1..Len(m) /\ c \in Claim(m, g, b) /\ Len(m) \in Nat
  BY CopiedClaims
<1>2. m \in Seq(Blk) /\ 3 <= Len(m) /\ m2 \in Seq(Blk) /\ k = Len(m) + 1
  BY DEF Heap, Copied
<1>3. /\ \A i \in 1..Len(m) : m2[i].live = m[i].live /\ m2[i].cow = IF i = b THEN m[i].cow - 1 ELSE m[i].cow
      /\ m2[k].cow = 0 /\ m2[k].live = m[b].live /\ m[b].cow # 0
  BY DEF Copied
<1>4. m[b].live /\ m[b] \in Blk /\ m[b].cow \in Nat
  BY <1>1, Private DEF Blk
<1>5. ASSUME NEW i \in 1..Len(m), i # b PROVE Right(m2, g2, i)
  <2>1. Right(m, g, i) /\ Counts(m2, g2, i) = Counts(m, g, i) /\ m2[i].live = m[i].live /\ m2[i].cow = m[i].cow
    BY <1>1, <1>3, <1>5 DEF Heap, Counts
  <2> QED
    BY <2>1 DEF Right
<1>6. Right(m2, g2, b)
  <2> DEFINE S == Claim(m, g, b)
  <2>1. IsFiniteSet(S) /\ Cardinality(S) \in Nat /\ Counts(m, g, b) = Cardinality(S) + Static(b) /\ Static(b) \in {0, 1}
    BY ClaimsFinite
  <2>2. Cardinality(S \ {c}) = Cardinality(S) - 1
    BY <1>1, <2>1, FS_RemoveElement
  <2>3. Counts(m2, g2, b) = Cardinality(S) - 1 + Static(b)
    BY <1>1, <2>2 DEF Counts
  <2> HIDE DEF S
  <2>4. m[b].cow = Counts(m, g, b) - 1
    BY <1>1, <1>4 DEF Heap, Right
  <2>5. m2[b].live /\ m2[b].cow = m[b].cow - 1
    BY <1>1, <1>3, <1>4
  <2> QED
    BY <1>3, <1>4, <2>1, <2>3, <2>4, <2>5 DEF Right
<1>7. Right(m2, g2, k)
  <2>1. Static(k) = 0 /\ Counts(m2, g2, k) = 1
    <3>1. Static(k) = 0
      BY <1>1, <1>2 DEF Static
    <3>2. Cardinality({c}) = 1
      BY FS_Singleton
    <3> QED
      BY <1>1, <3>1, <3>2 DEF Counts
  <2> QED
    BY <1>3, <1>4, <2>1 DEF Right
<1>8. \A d \in Context : g2[d] # Nowhere => Proper(m2, g2[d])
  <2> SUFFICES ASSUME NEW d \in Context, g2[d] # Nowhere PROVE Proper(m2, g2[d])
    OBVIOUS
  <2>1. 1..Len(m) \subseteq 1..k /\ k \in 1..k /\ k \notin 1..Len(m)
    BY <1>1, <1>2
  <2>2. CASE d # c
    <3>1. g[d] = g2[d] /\ \A y \in Level : Chain(m2, g2[d])[y] = Chain(m, g[d])[y]
      BY <2>2 DEF Copied
    <3>2. Proper(m, g[d])
      BY <3>1 DEF Heap
    <3> QED
      BY <2>1, <3>1, <3>2 DEF Proper
  <2>3. CASE d = c
    <3>1. \A y \in Level : Chain(m2, g2[c])[y] = IF y = x THEN k ELSE Chain(m, g[c])[y]
      BY DEF Copied
    <3>2. Proper(m, g[c])
      BY DEF Heap
    <3> QED
      BY <2>1, <2>3, <3>1, <3>2 DEF Proper
  <2> QED
    BY <2>2, <2>3
<1>9. g2 \in [Context -> Nat] /\ g2[Master] # Nowhere
  <2>1. Master \in Context /\ g[Master] # Nowhere
    BY DEF Context, Heap
  <2> QED
    BY <2>1 DEF Copied
<1>10. \A i \in 1..k : Right(m2, g2, i)
  <2>1. \A i \in 1..k : i = k \/ i \in 1..Len(m)
    BY <1>1, <1>2
  <2> QED
    BY <1>5, <1>6, <1>7, <2>1
<1>11. 3 <= k
  BY <1>1, <1>2
<1> QED
  BY <1>2, <1>8, <1>9, <1>10, <1>11 DEF Heap

-----------------------------------------------------------------------------
(* cow().                                                                  *)

\* q has a copy of block b.
Copies(m, b, q) ==
  /\ q.block = Len(m) + 1 /\ q.mem \in Seq(Blk) /\ Len(q.mem) = Len(m) + 1
  /\ \A i \in 1..Len(m) :
       /\ q.mem[i].live = m[i].live /\ q.mem[i].str = m[i].str /\ q.mem[i].parent = m[i].parent
       /\ q.mem[i].sub = m[i].sub
       /\ q.mem[i].cow = IF i = b THEN m[i].cow - 1 ELSE m[i].cow
  /\ q.mem[Len(m) + 1].cow = 0 /\ q.mem[Len(m) + 1].live = m[b].live /\ q.mem[Len(m) + 1].str = m[b].str
  /\ q.mem[Len(m) + 1].parent = b /\ q.mem[Len(m) + 1].sub = m[b].sub

\* What cow() makes of the memory if the block is shared.
LEMMA CowCopies ==
  ASSUME NEW m \in Seq(Blk), NEW b \in 1..Len(m), m[b].cow # 0
  PROVE  Copies(m, b, cow(m, b))
<1> DEFINE m1 == [m EXCEPT ![b].cow = @ - 1]
           new == [m[b] EXCEPT !.cow = 0, !.parent = b]
<1>1. m[b] \in Blk /\ Len(m) \in Nat /\ b \in Nat
  BY LenProperties
<1>2. new \in Blk
  BY <1>1 DEF Blk
<1>3. [m[b] EXCEPT !.cow = @ - 1] \in Blk
  <2>1. m[b].cow \in Nat /\ m[b].cow - 1 \in Nat
    BY <1>1, SMTT(30) DEF Blk
  <2> QED
    BY <1>1, <2>1 DEF Blk
<1>4. m1 \in Seq(Blk) /\ Len(m1) = Len(m)
  BY <1>3, ExceptSeq
<1>5. /\ m1[b] = [m[b] EXCEPT !.cow = @ - 1]
      /\ \A i \in 1..Len(m) : i # b => m1[i] = m[i]
  BY <1>1, ExceptSeq
<1>6. cow(m, b).block = Len(m) + 1 /\ cow(m, b).mem = Append(m1, new)
  BY DEF cow
<1> HIDE DEF m1, new
<1>7. Append(m1, new) \in Seq(Blk)
  BY <1>2, <1>4, AppendProperties
<1>8. Len(Append(m1, new)) = Len(m) + 1
  BY <1>2, <1>4, AppendProperties
<1>9. \A i \in 1..Len(m) : Append(m1, new)[i] = m1[i]
  BY <1>2, <1>4, AppendProperties
<1>10. Append(m1, new)[Len(m) + 1] = new
  BY <1>2, <1>4, AppendProperties
<1>11. /\ m1[b].live = m[b].live /\ m1[b].str = m[b].str /\ m1[b].parent = m[b].parent
       /\ m1[b].sub = m[b].sub /\ m1[b].cow = m[b].cow - 1
  BY <1>1, <1>5 DEF Blk
<1>12. /\ new.cow = 0 /\ new.live = m[b].live /\ new.str = m[b].str /\ new.parent = b
       /\ new.sub = m[b].sub
  BY <1>1 DEF Blk, new
<1> DEFINE q == cow(m, b).mem
           n == Len(m) + 1
<1>13. q = Append(m1, new) /\ cow(m, b).block = n
  BY <1>6
<1> HIDE DEF q, n
<1>14. ASSUME NEW i \in 1..Len(m)
       PROVE  /\ q[i].live = m[i].live /\ q[i].str = m[i].str /\ q[i].parent = m[i].parent
              /\ q[i].sub = m[i].sub
              /\ q[i].cow = IF i = b THEN m[i].cow - 1 ELSE m[i].cow
  <2>1. q[i] = m1[i]
    BY <1>9, <1>13
  <2> QED
    BY <1>5, <1>11, <2>1
<1>15. q \in Seq(Blk) /\ Len(q) = n
  BY <1>7, <1>8, <1>13 DEF n
<1>16. /\ q[n].cow = 0 /\ q[n].live = m[b].live /\ q[n].str = m[b].str /\ q[n].parent = b
       /\ q[n].sub = m[b].sub
  BY <1>10, <1>12, <1>13 DEF n
<1> QED
  BY <1>13, <1>14, <1>15, <1>16 DEF Copies, q, n

\* The configuration is copied.
LEMMA TopCopied ==
  ASSUME NEW m, NEW g, Heap(m, g), NEW c \in Context, g[c] # Nowhere, m[g[c]].cow # 0
  PROVE  LET q == cow(m, g[c]) IN
         /\ Copied(m, g, q.mem, [g EXCEPT ![c] = q.block], c, 1, g[c])
         /\ q.block = Len(q.mem)
<1> DEFINE b == g[c]
           q == cow(m, b)
           n == Len(m) + 1
           g2 == [g EXCEPT ![c] = q.block]
<1>1. m \in Seq(Blk) /\ Len(m) \in Nat /\ 1 \in Level /\ g \in [Context -> Nat]
  BY LenProperties DEF Heap, Level
<1>2. b = Chain(m, g[c])[1] /\ b \in 1..Len(m) /\ m[b] \in Blk
  <2>1. b = Chain(m, g[c])[1]
    BY DEF Chain
  <2>2. Chain(m, g[c])[1] \in 1..Len(m)
    BY <1>1, InChain
  <2> QED
    BY <1>1, <2>1, <2>2
<1>3. /\ q.block = n /\ q.mem \in Seq(Blk) /\ Len(q.mem) = n
      /\ \A i \in 1..Len(m) :
           /\ q.mem[i].live = m[i].live /\ q.mem[i].str = m[i].str /\ q.mem[i].parent = m[i].parent
           /\ q.mem[i].sub = m[i].sub
           /\ q.mem[i].cow = IF i = b THEN m[i].cow - 1 ELSE m[i].cow
      /\ q.mem[n].cow = 0 /\ q.mem[n].live = m[b].live /\ q.mem[n].str = m[b].str /\ q.mem[n].parent = b
      /\ q.mem[n].sub = m[b].sub
  <2>1. Copies(m, b, q)
    BY <1>1, <1>2, CowCopies
  <2> QED
    BY <2>1 DEF Copies
<1>4. /\ q.mem[n].cow = 0 /\ q.mem[n].live = m[b].live /\ q.mem[n].str = m[b].str /\ q.mem[n].parent = b
      /\ q.mem[n].sub = m[b].sub
  BY <1>3
<1> HIDE DEF q
<1>5. n \in Nat /\ n # 0
  BY <1>1
<1>6. g2 \in [Context -> Nat] /\ g2[c] = n /\ \A d \in Context : d # c => g2[d] = g[d]
  BY <1>1, <1>3, <1>5
<1>7. \A d \in Context : g[d] # Nowhere =>
        /\ g[d] \in 1..Len(m) /\ m[g[d]].sub \in 1..Len(m) /\ m[m[g[d]].sub].sub \in 1..Len(m)
  <2>1. 1 \in Level /\ 2 \in Level /\ 3 \in Level
    BY DEF Level
  <2>2. \A d \in Context : g[d] # Nowhere => \A x \in Level : Chain(m, g[d])[x] \in 1..Len(m)
    BY InChain
  <2> QED
    BY <2>1, <2>2 DEF Chain
<1>8. ASSUME NEW d \in Context, NEW y \in Level, d # c, g[d] # Nowhere
      PROVE  Chain(q.mem, g2[d])[y] = Chain(m, g[d])[y]
  <2>1. g2[d] = g[d] /\ q.mem[g[d]].sub = m[g[d]].sub /\ q.mem[m[g[d]].sub].sub = m[m[g[d]].sub].sub
    BY <1>3, <1>6, <1>7, <1>8
  <2> QED
    BY <2>1 DEF Chain
<1>9. ASSUME NEW y \in Level
      PROVE  Chain(q.mem, g2[c])[y] = IF y = 1 THEN n ELSE Chain(m, g[c])[y]
  <2>1. q.mem[n].sub = m[b].sub /\ q.mem[m[b].sub].sub = m[m[b].sub].sub
    BY <1>3, <1>4, <1>7
  <2>2. Chain(q.mem, g2[c]) = <<n, m[b].sub, m[m[b].sub].sub>>
    BY <1>6, <2>1 DEF Chain
  <2>3. Chain(m, g[c]) = <<b, m[b].sub, m[m[b].sub].sub>>
    BY DEF Chain
  <2>4. y = 1 \/ y = 2 \/ y = 3
    BY DEF Level
  <2> QED
    BY <2>2, <2>3, <2>4
<1>10. b = Chain(m, g[c])[1] /\ m[b].cow # 0 /\ q.block = n /\ Len(q.mem) = n
  BY <1>2, <1>3
<1> HIDE DEF g2, n, b
<1>11. Copied(m, g, q.mem, g2, c, 1, b)
  BY <1>3, <1>4, <1>5, <1>6, <1>8, <1>9, <1>10 DEF Copied, Nowhere, n
<1> QED
  BY <1>10, <1>11 DEF q, g2, b

\* The copy takes the place of what it is a copy of.
WithSub(q, k) == [q.mem EXCEPT ![k].sub = q.block]

\* A language or a voice is copied, if what it belongs to is not shared.
LEMMA SubCopied ==
  ASSUME NEW m, NEW g, Heap(m, g), NEW c \in Context, g[c] # Nowhere, NEW x \in {1, 2},
         NEW k \in 1..Len(m), k = Chain(m, g[c])[x], m[k].cow = 0, m[m[k].sub].cow # 0
  PROVE  /\ Copied(m, g, WithSub(cow(m, m[k].sub), k), g, c, x + 1, m[k].sub)
         /\ cow(m, m[k].sub).block = Len(WithSub(cow(m, m[k].sub), k))
<1> DEFINE b == m[k].sub
           q == cow(m, b)
           n == Len(m) + 1
           m2 == [q.mem EXCEPT ![k].sub = q.block]
<1>1. /\ m \in Seq(Blk) /\ Len(m) \in Nat /\ g \in [Context -> Nat]
      /\ x \in Level /\ x + 1 \in Level /\ 1 \in Level /\ 2 \in Level /\ 3 \in Level
  BY LenProperties DEF Heap, Level
<1>2. b = Chain(m, g[c])[x + 1]
  <2>1. CASE x = 1
    BY <2>1 DEF Chain
  <2>2. CASE x = 2
    BY <2>2 DEF Chain
  <2> QED
    BY <2>1, <2>2
<1>3. b \in 1..Len(m)
  BY <1>1, <1>2, InChain
<1>4. k \in 1..Len(m) /\ b # k
  <2>1. k \in 1..Len(m) /\ \A y \in Level : y # x => Chain(m, g[c])[y] # k
    BY <1>1, InChain
  <2> QED
    BY <1>1, <1>2, <2>1
<1>5. Claim(m, g, k) = {c}
  <2>1. c \in Claim(m, g, k)
    BY <1>1, InChain
  <2> QED
    BY <1>4, <2>1, Private
<1>6. m[b] \in Blk /\ m[k] \in Blk /\ m[b].cow # 0
  BY <1>1, <1>3, <1>4
<1> HIDE DEF b
<1>7. /\ q.block = n /\ q.mem \in Seq(Blk) /\ Len(q.mem) = n
      /\ \A i \in 1..Len(m) :
           /\ q.mem[i].live = m[i].live /\ q.mem[i].str = m[i].str /\ q.mem[i].parent = m[i].parent
           /\ q.mem[i].sub = m[i].sub
           /\ q.mem[i].cow = IF i = b THEN m[i].cow - 1 ELSE m[i].cow
      /\ q.mem[n].cow = 0 /\ q.mem[n].live = m[b].live /\ q.mem[n].str = m[b].str /\ q.mem[n].parent = b
      /\ q.mem[n].sub = m[b].sub
  <2>1. Copies(m, b, q)
    BY <1>1, <1>3, <1>6, CowCopies
  <2> QED
    BY <2>1 DEF Copies
<1>8. /\ q.mem[n].cow = 0 /\ q.mem[n].live = m[b].live /\ q.mem[n].str = m[b].str /\ q.mem[n].parent = b
      /\ q.mem[n].sub = m[b].sub
  BY <1>7
<1> HIDE DEF q
<1>9. n \in Nat /\ k \in 1..n /\ k # n /\ n \in 1..n /\ \A i \in 1..n : i = n \/ i \in 1..Len(m)
  BY <1>1, <1>4, SMTT(30)
<1> HIDE DEF n
<1>10. q.mem[k] \in Blk
  BY <1>7, <1>9
<1>11. [q.mem[k] EXCEPT !.sub = n] \in Blk
  BY <1>9, <1>10 DEF Blk
<1>12. m2 \in Seq(Blk) /\ Len(m2) = n
  BY <1>7, <1>9, <1>11, ExceptSeq
<1>13. m2[k] = [q.mem[k] EXCEPT !.sub = n] /\ \A i \in 1..n : i # k => m2[i] = q.mem[i]
  BY <1>7, <1>9, ExceptSeq
<1>14. /\ m2[k].sub = n /\ m2[k].cow = q.mem[k].cow /\ m2[k].live = q.mem[k].live
       /\ m2[k].str = q.mem[k].str /\ m2[k].parent = q.mem[k].parent
  BY <1>10, <1>13 DEF Blk
<1> HIDE DEF m2
<1>15. ASSUME NEW i \in 1..Len(m)
       PROVE  /\ m2[i].live = m[i].live /\ m2[i].str = m[i].str /\ m2[i].parent = m[i].parent
              /\ m2[i].cow = IF i = b THEN m[i].cow - 1 ELSE m[i].cow
              /\ m2[i].sub = IF i = k THEN n ELSE m[i].sub
  <2>1. i \in 1..n
    BY <1>1 DEF n
  <2>2. CASE i = k
    BY <1>7, <1>14, <2>2
  <2>3. CASE i # k
    BY <1>7, <1>13, <2>1, <2>3
  <2> QED
    BY <2>2, <2>3
<1>16. m2[n] = q.mem[n]
  BY <1>9, <1>13
<1>17. \A d \in Context : g[d] # Nowhere =>
         /\ g[d] \in 1..Len(m) /\ m[g[d]].sub \in 1..Len(m) /\ m[m[g[d]].sub].sub \in 1..Len(m)
         /\ Chain(m, g[d]) = <<g[d], m[g[d]].sub, m[m[g[d]].sub].sub>>
  <2>1. \A d \in Context : g[d] # Nowhere => \A y \in Level : Chain(m, g[d])[y] \in 1..Len(m)
    BY InChain
  <2> QED
    BY <1>1, <2>1 DEF Chain
<1>18. ASSUME NEW d \in Context, NEW y \in Level, d # c, g[d] # Nowhere
       PROVE  Chain(m2, g[d])[y] = Chain(m, g[d])[y]
  <2>1. \A z \in Level : Chain(m, g[d])[z] # k
    <3>1. \A z \in Level : d \in Claim(m, g, Chain(m, g[d])[z])
      BY <1>18, InChain
    <3> QED
      BY <1>5, <1>18, <3>1
  <2>2. g[d] # k /\ m[g[d]].sub # k
    BY <1>1, <1>17, <1>18, <2>1
  <2>3. m2[g[d]].sub = m[g[d]].sub
    BY <1>15, <1>17, <1>18, <2>2
  <2>4. m2[m[g[d]].sub].sub = m[m[g[d]].sub].sub
    BY <1>15, <1>17, <1>18, <2>2
  <2> QED
    BY <2>3, <2>4 DEF Chain
<1>19. ASSUME NEW y \in Level
       PROVE  Chain(m2, g[c])[y] = IF y = x + 1 THEN n ELSE Chain(m, g[c])[y]
  <2>1. y = 1 \/ y = 2 \/ y = 3
    BY DEF Level
  <2>2. CASE x = 1
    <3>1. k = g[c] /\ b = m[g[c]].sub
      BY <1>17, <2>2 DEF b
    <3>2. m2[g[c]].sub = n /\ m2[n].sub = m[b].sub
      BY <1>8, <1>14, <1>16, <3>1
    <3>3. Chain(m2, g[c]) = <<g[c], n, m[b].sub>>
      BY <3>2 DEF Chain
    <3>4. Chain(m, g[c]) = <<g[c], b, m[b].sub>>
      BY <3>1 DEF Chain
    <3> QED
      BY <2>1, <2>2, <3>3, <3>4
  <2>3. CASE x = 2
    <3>1. k = m[g[c]].sub /\ b = m[m[g[c]].sub].sub
      BY <1>17, <2>3 DEF b
    <3>2. g[c] # k
      <4>1. Chain(m, g[c])[1] # Chain(m, g[c])[2]
        BY <1>1, InChain
      <4> QED
        BY <3>1, <4>1 DEF Chain
    <3>3. m2[g[c]].sub = k /\ m2[k].sub = n
      BY <1>14, <1>15, <1>17, <3>1, <3>2
    <3>4. Chain(m2, g[c]) = <<g[c], k, n>>
      BY <3>3 DEF Chain
    <3>5. Chain(m, g[c]) = <<g[c], k, b>>
      BY <3>1 DEF Chain
    <3> QED
      BY <2>1, <2>3, <3>4, <3>5
  <2> QED
    BY <2>2, <2>3
<1>20. q.block = Len(m2)
  BY <1>7, <1>12
<1>21. Copied(m, g, m2, g, c, x + 1, b)
  <2>1. Len(m2) = Len(m) + 1
    BY <1>12 DEF n
  <2>2. m2[Len(m2)].cow = 0 /\ m2[Len(m2)].live = m[b].live /\ m2[Len(m2)].str = m[b].str /\ m2[Len(m2)].parent = b
    BY <1>8, <1>12, <1>16
  <2>3. m[b].cow # 0
    BY DEF b
  <2> QED
    BY <1>1, <1>2, <1>12, <1>15, <1>18, <1>19, <2>1, <2>2, <2>3 DEF Copied
<1> QED
  BY <1>20, <1>21 DEF m2, q, b, WithSub

-----------------------------------------------------------------------------
(* What set_option() writes to.                                            *)

StringAt(m, g, d, y) == m[Chain(m, g[d])[y]].str

\* Nobody sees another string than before.
Kept(m, g, m2, g2, c) ==
  /\ Heap(m2, g2) /\ g2[c] # Nowhere
  /\ \A d \in Context : d # c => g2[d] = g[d]
  /\ \A d \in Context, y \in Level : d # c /\ g[d] # Nowhere => Chain(m2, g2[d])[y] = Chain(m, g[d])[y]
  /\ \A d \in Context, y \in Level : g[d] # Nowhere => StringAt(m2, g2, d, y) = StringAt(m, g, d, y)

\* A copy changes nothing for the other contexts, nor what this one sees.
LEMMA CopiedKept ==
  ASSUME NEW m, NEW g, Heap(m, g), NEW c \in Context, g[c] # Nowhere, NEW x \in Level,
         NEW m2, NEW g2, NEW b, Copied(m, g, m2, g2, c, x, b)
  PROVE  Kept(m, g, m2, g2, c)
<1>1. Heap(m2, g2)
  BY CopiedRight
<1>2. g2[c] # Nowhere /\ \A d \in Context : d # c => g2[d] = g[d]
  BY DEF Copied
<1>3. ASSUME NEW d \in Context, NEW y \in Level, g[d] # Nowhere
      PROVE  StringAt(m2, g2, d, y) = StringAt(m, g, d, y)
  <2>1. Chain(m, g[d])[y] \in 1..Len(m)
    BY <1>3, InChain
  <2>2. m2[Chain(m, g[d])[y]].str = m[Chain(m, g[d])[y]].str
    BY <2>1 DEF Copied
  <2>3. CASE d # c
    <3>1. Chain(m2, g2[d])[y] = Chain(m, g[d])[y]
      BY <1>3, <2>3 DEF Copied
    <3> QED
      BY <2>2, <3>1 DEF StringAt
  <2>4. CASE d = c /\ y # x
    <3>1. Chain(m2, g2[c])[y] = Chain(m, g[c])[y]
      BY <2>4 DEF Copied
    <3> QED
      BY <2>2, <2>4, <3>1 DEF StringAt
  <2>5. CASE d = c /\ y = x
    <3>1. Chain(m2, g2[c])[x] = Len(m2) /\ m2[Len(m2)].str = m[b].str /\ b = Chain(m, g[c])[x]
      BY DEF Copied
    <3> QED
      BY <2>5, <3>1 DEF StringAt
  <2> QED
    BY <2>3, <2>4, <2>5
<1>4. \A d \in Context, y \in Level : d # c /\ g[d] # Nowhere => Chain(m2, g2[d])[y] = Chain(m, g[d])[y]
  BY DEF Copied
<1> QED
  BY <1>1, <1>2, <1>3, <1>4 DEF Kept

\* The string of a block is its parent's, or nobody else has it.
OwnString(m, f, b) ==
  \/ m[b].str = m[m[b].parent].str
  \/ m[b].str # 0 /\ m[b].str \notin f /\ \A i \in 1..Len(m) : i # b => m[i].str # m[b].str

\* All but the blocks B, which stay, belong to one context each, and are copies of these; f are
\* the strings that were freed, n is the last one that was made.
Strung(m, B, f, n) ==
  /\ B \subseteq 1..Len(m) /\ \A b \in B : m[b].live /\ m[b].str \notin f
  /\ 0 \notin f /\ \A e \in f : e <= n
  /\ \A b \in 1..Len(m) : m[b].parent \in B /\ m[b].str <= n
  /\ \A b \in 1..Len(m) : b \notin B /\ m[b].live => m[b].cow = 0 /\ OwnString(m, f, b)

\* A copy has the string of its parent, which is not freed with it.
LEMMA CopiedStrung ==
  ASSUME NEW m, NEW g, Heap(m, g), NEW c \in Context, g[c] # Nowhere, NEW x \in Level,
         NEW m2, NEW g2, NEW b, Copied(m, g, m2, g2, c, x, b),
         NEW B, NEW f \in SUBSET Nat, NEW n \in Nat, Strung(m, B, f, n)
  PROVE  Strung(m2, B, f, n)
<1> DEFINE k == Len(m2)
<1>1. b \in 1..Len(m) /\ c \in Claim(m, g, b) /\ Len(m) \in Nat
  BY CopiedClaims
<1>2. m[b].live /\ m[b].cow # 0
  BY <1>1, Private DEF Copied
<1>3. b \in B
  BY <1>1, <1>2 DEF Strung
<1>4. k = Len(m) + 1 /\ k \notin 1..Len(m) /\ 1..Len(m) \subseteq 1..k /\ \A i \in 1..k : i = k \/ i \in 1..Len(m)
  BY <1>1 DEF Copied
<1>5. \A i \in 1..Len(m) : m2[i].live = m[i].live /\ m2[i].str = m[i].str /\ m2[i].parent = m[i].parent
  BY DEF Copied
<1>6. \A i \in 1..Len(m) : i # b => m2[i].cow = m[i].cow
  BY DEF Copied
<1>7. m2[k].cow = 0 /\ m2[k].live = m[b].live /\ m2[k].str = m[b].str /\ m2[k].parent = b
  BY DEF Copied
<1> HIDE DEF k
<1>8. B \subseteq 1..k /\ \A i \in B : m2[i].live /\ m2[i].str \notin f
  BY <1>4, <1>5 DEF Strung
<1>9. 0 \notin f /\ \A e \in f : e <= n
  BY DEF Strung
<1>10. \A i \in 1..k : m2[i].parent \in B /\ m2[i].str <= n
  BY <1>1, <1>3, <1>4, <1>5, <1>7 DEF Strung
<1>11. ASSUME NEW i \in 1..k, i \notin B, m2[i].live PROVE m2[i].cow = 0 /\ OwnString(m2, f, i)
  <2>1. CASE i = k
    <3>1. m2[b].str = m[b].str
      BY <1>1, <1>5
    <3> QED
      BY <1>7, <2>1, <3>1 DEF OwnString
  <2>2. CASE i \in 1..Len(m)
    <3>1. m[i].cow = 0 /\ OwnString(m, f, i) /\ m2[i].cow = m[i].cow
      BY <1>3, <1>5, <1>6, <1>11, <2>2 DEF Strung
    <3>2. m[i].parent \in 1..Len(m)
      BY <2>2 DEF Strung
    <3>3. CASE m[i].str = m[m[i].parent].str
      <4>1. m2[i].str = m2[m2[i].parent].str
        BY <1>5, <2>2, <3>2, <3>3
      <4> QED
        BY <3>1, <4>1 DEF OwnString
    <3>4. CASE m[i].str # 0 /\ m[i].str \notin f /\ \A j \in 1..Len(m) : j # i => m[j].str # m[i].str
      <4>1. \A j \in 1..k : j # i => m2[j].str # m2[i].str
        BY <1>1, <1>3, <1>4, <1>5, <1>7, <1>11, <2>2, <3>4
      <4>2. m2[i].str # 0 /\ m2[i].str \notin f
        BY <1>5, <2>2, <3>4
      <4> QED
        BY <3>1, <4>1, <4>2, <1>4 DEF OwnString, k
    <3> QED
      BY <3>1, <3>3, <3>4 DEF OwnString
  <2> QED
    BY <1>4, <2>1, <2>2
<1> QED
  BY <1>8, <1>9, <1>10, <1>11 DEF Strung, k

\* What o has to be written to is nobody else's.
Owning(m, g, o, g2, c, x) ==
  /\ Kept(m, g, o.mem, g2, c)
  /\ o.top = g2[c] /\ o.block = Chain(o.mem, g2[c])[x] /\ o.mem[o.block].cow = 0

\* What is kept by two changes is kept by both together.
LEMMA KeptTwice ==
  ASSUME NEW m1, NEW g1, NEW m2, NEW g2, NEW m3, NEW g3, NEW c \in Context, g1[c] # Nowhere,
         Kept(m1, g1, m2, g2, c), Kept(m2, g2, m3, g3, c)
  PROVE  Kept(m1, g1, m3, g3, c)
<1>1. \A d \in Context : g1[d] # Nowhere => g2[d] # Nowhere
  BY DEF Kept
<1> QED
  BY <1>1 DEF Kept

\* And by none.
LEMMA KeptSame == ASSUME NEW m, NEW g, Heap(m, g), NEW c \in Context, g[c] # Nowhere PROVE Kept(m, g, m, g, c)
  BY DEF Kept

\* cow() of the configuration.
LEMMA OwnTopKept ==
  ASSUME NEW m, NEW g, Heap(m, g), NEW c \in Context, g[c] # Nowhere,
         NEW B, NEW f \in SUBSET Nat, NEW n \in Nat
  PROVE  LET o == OwnTop(m, g[c])
             g2 == [g EXCEPT ![c] = o.top] IN
         /\ Owning(m, g, o, g2, c, 1)
         /\ Strung(m, B, f, n) => Strung(o.mem, B, f, n)
<1> DEFINE q == cow(m, g[c])
           o == OwnTop(m, g[c])
           g2 == [g EXCEPT ![c] = q.block]
<1>1. o.mem = q.mem /\ o.top = q.block /\ o.block = q.block
  BY DEF OwnTop
<1> SUFFICES Owning(m, g, o, g2, c, 1) /\ (Strung(m, B, f, n) => Strung(o.mem, B, f, n))
  BY <1>1
<1>2. 1 \in Level /\ g \in [Context -> Nat] /\ g2[c] = q.block
  BY DEF Level, Heap
<1>3. q.block = Chain(q.mem, g2[c])[1]
  BY <1>2 DEF Chain
<1>4. CASE m[g[c]].cow = 0
  <2>1. q.mem = m /\ q.block = g[c]
    BY <1>4 DEF cow
  <2>2. g2 = g
    BY <1>2, <2>1
  <2>3. Kept(m, g, q.mem, g2, c)
    BY <2>1, <2>2, KeptSame
  <2>4. q.mem[q.block].cow = 0
    BY <1>4, <2>1
  <2> HIDE DEF q, o, g2
  <2> QED
    BY <1>1, <1>2, <1>3, <2>1, <2>3, <2>4 DEF Owning
<1>5. CASE m[g[c]].cow # 0
  <2>1. Copied(m, g, q.mem, g2, c, 1, g[c]) /\ q.block = Len(q.mem)
    BY <1>5, TopCopied
  <2> HIDE DEF q, o
  <2>2. Kept(m, g, q.mem, g2, c)
    BY <1>2, <2>1, CopiedKept
  <2>3. q.mem[q.block].cow = 0
    BY <2>1 DEF Copied
  <2>4. Strung(m, B, f, n) => Strung(q.mem, B, f, n)
    BY <1>2, <2>1, CopiedStrung
  <2> HIDE DEF g2
  <2> QED
    BY <1>1, <1>2, <1>3, <2>2, <2>3, <2>4 DEF Owning
<1> QED
  BY <1>4, <1>5

\* cow() of what is below.
LEMMA OwnSubKept ==
  ASSUME NEW m, NEW g, NEW c \in Context, g[c] # Nowhere, NEW x \in {1, 2},
         NEW o, NEW g2, Owning(m, g, o, g2, c, x),
         NEW B, NEW f \in SUBSET Nat, NEW n \in Nat
  PROVE  /\ Owning(m, g, OwnSub(o), g2, c, x + 1)
         /\ Strung(o.mem, B, f, n) => Strung(OwnSub(o).mem, B, f, n)
<1> DEFINE k == o.block
           b == o.mem[k].sub
           q == cow(o.mem, b)
           m2 == [q.mem EXCEPT ![k].sub = q.block]
           o2 == OwnSub(o)
<1>1. o2.mem = m2 /\ o2.top = o.top /\ o2.block = q.block
  BY DEF OwnSub
<1>2. /\ Kept(m, g, o.mem, g2, c) /\ Heap(o.mem, g2) /\ g2[c] # Nowhere
      /\ o.top = g2[c] /\ k = Chain(o.mem, g2[c])[x] /\ o.mem[k].cow = 0
  BY DEF Owning, Kept
<1>3. x \in Level /\ x + 1 \in Level
  BY DEF Level
<1>4. b = Chain(o.mem, g2[c])[x + 1]
  <2>1. CASE x = 1
    BY <1>2, <2>1 DEF Chain
  <2>2. CASE x = 2
    BY <1>2, <2>2 DEF Chain
  <2> QED
    BY <2>1, <2>2
<1> SUFFICES Owning(m, g, o2, g2, c, x + 1) /\ (Strung(o.mem, B, f, n) => Strung(o2.mem, B, f, n))
  OBVIOUS
<1>5. CASE o.mem[b].cow = 0
  <2>1. q.mem = o.mem /\ q.block = b
    BY <1>5 DEF cow
  <2>2. k \in 1..Len(o.mem) /\ o.mem \in Seq(Blk)
    BY <1>2, <1>3, InChain, SMTT(30) DEF Heap
  <2>3. o.mem[k] \in Blk
    BY <2>2
  <2>4. [o.mem[k] EXCEPT !.sub = b] = o.mem[k]
    <3> PICK p \in Blk : p = o.mem[k]
      BY <2>3
    <3>1. [p EXCEPT !.sub = p.sub] = p
      BY DEF Blk
    <3> QED
      BY <3>1
  <2>5. m2 = o.mem
    BY <2>1, <2>2, <2>4
  <2> HIDE DEF m2, q, b, o2
  <2> QED
    BY <1>1, <1>2, <1>4, <1>5, <2>1, <2>5 DEF Owning
<1>6. CASE o.mem[b].cow # 0
  <2>1. Copied(o.mem, g2, m2, g2, c, x + 1, b) /\ q.block = Len(m2)
    <3>1. PICK h : h = o.mem
      OBVIOUS
    <3>2. PICK p : p = k
      OBVIOUS
    <3>3. Heap(h, g2) /\ g2[c] # Nowhere /\ p = Chain(h, g2[c])[x] /\ h[p].cow = 0 /\ h[h[p].sub].cow # 0
      BY <1>2, <1>6, <3>1, <3>2
    <3>4. /\ Copied(h, g2, WithSub(cow(h, h[p].sub), p), g2, c, x + 1, h[p].sub)
          /\ cow(h, h[p].sub).block = Len(WithSub(cow(h, h[p].sub), p))
      <4>1. p \in 1..Len(h)
        BY <1>3, <3>3, InChain
      <4> QED
        BY <3>3, <4>1, SubCopied
    <3> QED
      BY <3>1, <3>2, <3>4 DEF WithSub
  <2> HIDE DEF m2, q, b, o2, k
  <2>2. Kept(o.mem, g2, m2, g2, c)
    BY <1>2, <1>3, <2>1, CopiedKept
  <2>3. Kept(m, g, m2, g2, c)
    BY <1>2, <2>2, KeptTwice
  <2>4. Strung(o.mem, B, f, n) => Strung(m2, B, f, n)
    BY <1>2, <1>3, <2>1, CopiedStrung
  <2>5. q.block = Chain(m2, g2[c])[x + 1] /\ m2[q.block].cow = 0
    BY <1>3, <2>1 DEF Copied
  <2> QED
    BY <1>1, <1>2, <2>3, <2>4, <2>5 DEF Owning
<1> QED
  BY <1>5, <1>6

\* After set_option() has copied what is shared, nobody sees anything else than before, and
\* what it writes to is seen by one context only.
LEMMA OwnKept ==
  ASSUME NEW m, NEW g, Heap(m, g), NEW c \in Context, g[c] # Nowhere, NEW level \in Level,
         NEW B, NEW f \in SUBSET Nat, NEW n \in Nat
  PROVE  LET o == Own(m, g[c], level)
             g2 == [g EXCEPT ![c] = o.top] IN
         /\ Owning(m, g, o, g2, c, level)
         /\ Strung(m, B, f, n) => Strung(o.mem, B, f, n)
<1> DEFINE o1 == OwnTop(m, g[c])
           o2 == OwnSub(o1)
           o3 == OwnSub(o2)
           g2 == [g EXCEPT ![c] = o1.top]
<1>1. Owning(m, g, o1, g2, c, 1) /\ (Strung(m, B, f, n) => Strung(o1.mem, B, f, n))
  BY OwnTopKept
<1>2. o2.top = o1.top /\ o3.top = o1.top
  BY DEF OwnSub
<1> HIDE DEF o1
<1>3. Owning(m, g, o2, g2, c, 1 + 1) /\ (Strung(o1.mem, B, f, n) => Strung(o2.mem, B, f, n))
  BY <1>1, OwnSubKept
<1> HIDE DEF o2
<1>4. Owning(m, g, o2, g2, c, 2)
  BY <1>3
<1>5. Owning(m, g, o3, g2, c, 2 + 1) /\ (Strung(o2.mem, B, f, n) => Strung(o3.mem, B, f, n))
  BY <1>4, OwnSubKept
<1> HIDE DEF o3
<1>6. Owning(m, g, o3, g2, c, 3)
  BY <1>5
<1>7. CASE level = 1
  <2>1. Own(m, g[c], level) = o1
    BY <1>7 DEF Own, o1
  <2> QED
    BY <1>1, <1>7, <2>1
<1>8. CASE level = 2
  <2>1. Own(m, g[c], level) = o2
    BY <1>8 DEF Own, o2, o1
  <2> QED
    BY <1>1, <1>2, <1>3, <1>4, <1>8, <2>1
<1>9. CASE level = 3
  <2>1. Own(m, g[c], level) = o3
    BY <1>9 DEF Own, o3, o2, o1
  <2> QED
    BY <1>1, <1>2, <1>3, <1>5, <1>6, <1>9, <2>1
<1>10. level = 1 \/ level = 2 \/ level = 3
  BY DEF Level
<1> QED
  BY <1>7, <1>8, <1>9, <1>10

-----------------------------------------------------------------------------
(* set_option().                                                           *)

WithStr(m, b, v) == [m EXCEPT ![b].str = v]

\* Only the string of one block is changed.
LEMMA WithStrIs ==
  ASSUME NEW m \in Seq(Blk), NEW b \in 1..Len(m), NEW v \in Nat
  PROVE  /\ WithStr(m, b, v) \in Seq(Blk) /\ Len(WithStr(m, b, v)) = Len(m)
         /\ WithStr(m, b, v)[b].str = v
         /\ \A i \in 1..Len(m) :
              /\ WithStr(m, b, v)[i].live = m[i].live /\ WithStr(m, b, v)[i].parent = m[i].parent
              /\ WithStr(m, b, v)[i].sub = m[i].sub /\ WithStr(m, b, v)[i].cow = m[i].cow
              /\ i # b => WithStr(m, b, v)[i].str = m[i].str
<1> DEFINE new == [m[b] EXCEPT !.str = v]
           m2 == [m EXCEPT ![b] = new]
<1>1. m[b] \in Blk
  OBVIOUS
<1>2. /\ new \in Blk /\ new.str = v /\ new.live = m[b].live /\ new.parent = m[b].parent /\ new.sub = m[b].sub
      /\ new.cow = m[b].cow
  BY <1>1 DEF Blk
<1>3. WithStr(m, b, v) = m2
  BY DEF WithStr
<1> HIDE DEF new
<1>4. m2 \in Seq(Blk) /\ Len(m2) = Len(m)
  BY <1>2, ExceptSeq
<1>5. m2[b] = new /\ \A i \in 1..Len(m) : i # b => m2[i] = m[i]
  BY ExceptSeq
<1> HIDE DEF m2
<1> QED
  BY <1>2, <1>3, <1>4, <1>5

\* If only strings are changed, claims stay.
LEMMA SameHeap ==
  ASSUME NEW m, NEW g, Heap(m, g), NEW m2 \in Seq(Blk), Len(m2) = Len(m),
         \A i \in 1..Len(m) : m2[i].live = m[i].live /\ m2[i].sub = m[i].sub /\ m2[i].cow = m[i].cow
  PROVE  /\ Heap(m2, g)
         /\ \A d \in Context : g[d] # Nowhere => Chain(m2, g[d]) = Chain(m, g[d])
<1>1. ASSUME NEW d \in Context, g[d] # Nowhere PROVE Chain(m2, g[d]) = Chain(m, g[d])
  <2>1. 1 \in Level /\ 2 \in Level
    BY DEF Level
  <2>2. Chain(m, g[d])[1] \in 1..Len(m) /\ Chain(m, g[d])[2] \in 1..Len(m)
    BY <1>1, <2>1, InChain
  <2>3. g[d] \in 1..Len(m) /\ m[g[d]].sub \in 1..Len(m)
    BY <2>2 DEF Chain
  <2> QED
    BY <2>3 DEF Chain
<1>2. \A d \in Context : g[d] # Nowhere => Blocks(m2, g[d]) = Blocks(m, g[d])
  BY <1>1 DEF Blocks
<1>3. \A i : Claim(m2, g, i) = Claim(m, g, i)
  BY <1>2 DEF Claim
<1>4. \A i \in 1..Len(m) : Right(m2, g, i)
  BY <1>3 DEF Heap, Right, Counts
<1>5. \A d \in Context : g[d] # Nowhere => Proper(m2, g[d])
  BY <1>1 DEF Heap, Proper
<1>6. Heap(m2, g)
  BY <1>4, <1>5 DEF Heap
<1> QED
  BY <1>1, <1>6

\* A string that is set in a block of its own is seen by its owner only.
LEMMA SetSeen ==
  ASSUME NEW m, NEW g, Heap(m, g), NEW c \in Context, g[c] # Nowhere, NEW x \in Level,
         NEW b \in 1..Len(m), b = Chain(m, g[c])[x], m[b].cow = 0, NEW v \in Nat
  PROVE  /\ Heap(WithStr(m, b, v), g)
         /\ \A d \in Context : g[d] # Nowhere => Chain(WithStr(m, b, v), g[d]) = Chain(m, g[d])
         /\ \A d \in Context, y \in Level : g[d] # Nowhere =>
              StringAt(WithStr(m, b, v), g, d, y) = IF d = c /\ y = x THEN v ELSE StringAt(m, g, d, y)
<1> DEFINE m2 == WithStr(m, b, v)
<1>1. m \in Seq(Blk)
  BY DEF Heap
<1>2. /\ m2 \in Seq(Blk) /\ Len(m2) = Len(m) /\ m2[b].str = v
      /\ \A i \in 1..Len(m) :
           /\ m2[i].live = m[i].live /\ m2[i].sub = m[i].sub /\ m2[i].cow = m[i].cow
           /\ i # b => m2[i].str = m[i].str
  <2> HIDE DEF m2
  <2>1. m2 = WithStr(m, b, v)
    BY DEF m2
  <2>2. m2 \in Seq(Blk) /\ Len(m2) = Len(m) /\ m2[b].str = v
    BY <1>1, <2>1, WithStrIs
  <2>3. ASSUME NEW i \in 1..Len(m)
        PROVE  /\ m2[i].live = m[i].live /\ m2[i].sub = m[i].sub /\ m2[i].cow = m[i].cow
               /\ i # b => m2[i].str = m[i].str
    BY <1>1, <2>1, WithStrIs
  <2> QED
    BY <2>2, <2>3
<1> HIDE DEF m2
<1>3. Heap(m2, g) /\ \A d \in Context : g[d] # Nowhere => Chain(m2, g[d]) = Chain(m, g[d])
  BY <1>2, SameHeap
<1>4. ASSUME NEW d \in Context, NEW y \in Level, g[d] # Nowhere
      PROVE  StringAt(m2, g, d, y) = IF d = c /\ y = x THEN v ELSE StringAt(m, g, d, y)
  <2>1. Chain(m, g[d])[y] \in 1..Len(m) /\ d \in Claim(m, g, Chain(m, g[d])[y])
    BY <1>4, InChain
  <2>2. Chain(m2, g[d]) = Chain(m, g[d])
    BY <1>3, <1>4
  <2>3. CASE d = c /\ y = x
    BY <1>2, <2>2, <2>3 DEF StringAt
  <2>4. CASE ~(d = c /\ y = x)
    <3>1. Chain(m, g[d])[y] # b
      <4>1. CASE d = c
        BY <2>4, <4>1, InChain
      <4>2. CASE d # c
        <5>1. c \in Claim(m, g, b)
          BY InChain
        <5>2. d \notin Claim(m, g, b)
          BY <4>2, <5>1, Private
        <5> QED
          BY <2>1, <5>2
      <4> QED
        BY <4>1, <4>2
    <3> QED
      BY <1>2, <2>1, <2>2, <2>4, <3>1 DEF StringAt
  <2> QED
    BY <2>3, <2>4
<1> QED
  BY <1>3, <1>4 DEF m2

\* A new string in a block that is no parent is nobody else's.
LEMMA SetStrung ==
  ASSUME NEW m \in Seq(Blk), NEW b \in 1..Len(m), m[b].cow = 0,
         NEW B, NEW f \in SUBSET Nat, NEW n \in Nat, b \notin B, Strung(m, B, f, n)
  PROVE  Strung(WithStr(m, b, n + 1), B, f, n + 1)
<1> DEFINE m2 == WithStr(m, b, n + 1)
<1>1. n + 1 \in Nat /\ n + 1 # 0 /\ \A e \in f : e <= n /\ e \in Nat
  BY DEF Strung
<1>2. /\ m2 \in Seq(Blk) /\ Len(m2) = Len(m) /\ m2[b].str = n + 1
      /\ \A i \in 1..Len(m) :
           /\ m2[i].live = m[i].live /\ m2[i].parent = m[i].parent /\ m2[i].cow = m[i].cow
           /\ i # b => m2[i].str = m[i].str
  BY <1>1, WithStrIs
<1> HIDE DEF m2
<1>3. \A i \in 1..Len(m) : m[i].str \in Nat /\ m[i].str <= n
  <2>1. \A i \in 1..Len(m) : m[i] \in Blk
    OBVIOUS
  <2> QED
    BY <2>1 DEF Blk, Strung
<1>4. B \subseteq 1..Len(m2) /\ \A i \in B : m2[i].live /\ m2[i].str \notin f
  BY <1>2 DEF Strung
<1>5. 0 \notin f /\ \A e \in f : e <= n + 1
  BY <1>1 DEF Strung
<1>6. \A i \in 1..Len(m2) : m2[i].parent \in B /\ m2[i].str <= n + 1
  BY <1>1, <1>2, <1>3 DEF Strung
<1>7. ASSUME NEW i \in 1..Len(m2), i \notin B, m2[i].live PROVE m2[i].cow = 0 /\ OwnString(m2, f, i)
  <2>1. CASE i = b
    <3>1. n + 1 \notin f
      BY <1>1
    <3>2. \A j \in 1..Len(m2) : j # b => m2[j].str # n + 1
      BY <1>2, <1>3
    <3> QED
      BY <1>1, <1>2, <2>1, <3>1, <3>2 DEF OwnString
  <2>2. CASE i # b
    <3>1. m2[i].cow = 0 /\ OwnString(m, f, i) /\ m2[i].str = m[i].str /\ m2[i].parent = m[i].parent
      BY <1>2, <1>7, <2>2 DEF Strung
    <3>2. m[i].parent \in B /\ m[i].parent \in 1..Len(m) /\ m[i].parent # b /\ i \in 1..Len(m)
      <4>1. i \in 1..Len(m)
        BY <1>2
      <4>2. m[i].parent \in B
        BY <4>1 DEF Strung
      <4> QED
        BY <4>1, <4>2 DEF Strung
    <3>3. m2[m[i].parent].str = m[m[i].parent].str
      BY <1>2, <3>2
    <3>4. m[i].str # n + 1
      BY <1>3, <3>2
    <3>5. \A j \in 1..Len(m) : j # i /\ m[j].str # m[i].str => m2[j].str # m[i].str
      BY <1>2, <3>4
    <3> QED
      BY <1>2, <3>1, <3>2, <3>3, <3>5 DEF OwnString
  <2> QED
    BY <2>1, <2>2
<1> QED
  BY <1>4, <1>5, <1>6, <1>7 DEF Strung, m2

\* A number may be left out.
LEMMA StrungLater ==
  ASSUME NEW m \in Seq(Blk), NEW B, NEW f \in SUBSET Nat, NEW n \in Nat, Strung(m, B, f, n)
  PROVE  Strung(m, B, f, n + 1)
<1>1. \A i \in 1..Len(m) : m[i].str \in Nat
  <2>1. \A i \in 1..Len(m) : m[i] \in Blk
    OBVIOUS
  <2> QED
    BY <2>1 DEF Blk
<1>2. \A i \in 1..Len(m) : m[i].str <= n + 1
  BY <1>1 DEF Strung
<1>3. \A e \in f : e <= n + 1
  BY DEF Strung
<1> QED
  BY <1>2, <1>3 DEF Strung

\* What set_option() makes of the memory.
Setting(m, c, level, ok, v) ==
  LET o == Own(m, c, level) IN IF ok THEN WithStr(o.mem, o.block, v) ELSE o.mem

\* Blocks that a context other than c, or the static cfg, has.
OfOthers(m, g, c, B) == \A b \in B : Static(b) = 1 \/ \E d \in Context : d # c /\ g[d] # Nowhere /\ b \in Blocks(m, g[d])

\* One context has another configuration.
Other(g, c, e) == [g EXCEPT ![c] = e]

\* The contexts but c stay as they are.
Apart(m, g, m2, g2, c) ==
  /\ Heap(m2, g2) /\ \A d \in Context : d # c => g2[d] = g[d]
  /\ \A d \in Context, y \in Level : d # c /\ g[d] # Nowhere =>
       Chain(m2, g2[d])[y] = Chain(m, g[d])[y] /\ StringAt(m2, g2, d, y) = StringAt(m, g, d, y)

\* An option is set for context c only.
Set(m, g, c, level, ok, v, m2, g2) ==
  /\ Heap(m2, g2) /\ g2[c] # Nowhere /\ \A d \in Context : d # c => g2[d] = g[d]
  /\ \A d \in Context, y \in Level : d # c /\ g[d] # Nowhere => Chain(m2, g2[d])[y] = Chain(m, g[d])[y]
  /\ \A d \in Context, y \in Level : g[d] # Nowhere =>
       StringAt(m2, g2, d, y) = IF ok /\ d = c /\ y = level THEN v ELSE StringAt(m, g, d, y)

\* Only the context that sets an option sees it, and no string is lost.
LEMMA SettingKept ==
  ASSUME NEW m, NEW g, Heap(m, g), NEW c \in Context, g[c] # Nowhere, NEW level \in Level,
         NEW ok \in BOOLEAN, NEW v \in Nat,
         NEW B, NEW f \in SUBSET Nat, NEW n \in Nat
  PROVE  /\ Set(m, g, c, level, ok, v, Setting(m, g[c], level, ok, v), Other(g, c, Own(m, g[c], level).top))
         /\ Strung(m, B, f, n) /\ v = n + 1 /\ OfOthers(m, g, c, B) =>
              Strung(Setting(m, g[c], level, ok, v), B, f, n + 1)
<1> DEFINE o == Own(m, g[c], level)
           g2 == [g EXCEPT ![c] = o.top]
           m2 == Setting(m, g[c], level, ok, v)
           b == o.block
<1>1. Owning(m, g, o, g2, c, level) /\ (Strung(m, B, f, n) => Strung(o.mem, B, f, n))
  BY OwnKept
<1>2. m2 = IF ok THEN WithStr(o.mem, b, v) ELSE o.mem
  BY DEF Setting
<1>10. g2 = Other(g, c, o.top)
  BY DEF Other
<1> HIDE DEF o, g2, m2
<1>3. /\ Heap(o.mem, g2) /\ g2[c] # Nowhere /\ o.mem \in Seq(Blk)
      /\ \A d \in Context : d # c => g2[d] = g[d]
      /\ \A d \in Context, y \in Level : d # c /\ g[d] # Nowhere => Chain(o.mem, g2[d])[y] = Chain(m, g[d])[y]
      /\ \A d \in Context, y \in Level : g[d] # Nowhere => StringAt(o.mem, g2, d, y) = StringAt(m, g, d, y)
  BY <1>1 DEF Owning, Kept, Heap
<1>4. b = Chain(o.mem, g2[c])[level] /\ o.mem[b].cow = 0
  BY <1>1 DEF Owning
<1>5. b \in 1..Len(o.mem) /\ c \in Claim(o.mem, g2, b)
  BY <1>3, <1>4, InChain
<1>6. \A d \in Context : g[d] # Nowhere => g2[d] # Nowhere
  BY <1>3
<1>7. ASSUME OfOthers(m, g, c, B) PROVE b \notin B
  <2> SUFFICES ASSUME b \in B PROVE FALSE
    OBVIOUS
  <2>1. Static(b) = 0 /\ Claim(o.mem, g2, b) = {c}
    BY <1>3, <1>4, <1>5, Private
  <2>2. PICK d \in Context : d # c /\ g[d] # Nowhere /\ b \in Blocks(m, g[d])
    BY <1>7, <2>1 DEF OfOthers
  <2>3. Blocks(o.mem, g2[d]) = Blocks(m, g[d])
    BY <1>3, <2>2 DEF Blocks
  <2>4. d \in Claim(o.mem, g2, b)
    BY <1>6, <2>2, <2>3 DEF Claim
  <2> QED
    BY <2>1, <2>2, <2>4
<1> DEFINE Goal ==
             /\ Set(m, g, c, level, ok, v, m2, g2)
             /\ Strung(m, B, f, n) /\ v = n + 1 /\ OfOthers(m, g, c, B) => Strung(m2, B, f, n + 1)
<1>8. ASSUME ~ok PROVE Goal
  <2>1. m2 = o.mem
    BY <1>2, <1>8
  <2>2. Strung(m, B, f, n) => Strung(m2, B, f, n + 1)
    BY <1>1, <1>3, <2>1, StrungLater
  <2> QED
    BY <1>3, <1>8, <2>1, <2>2 DEF Set
<1>9. ASSUME ok PROVE Goal
  <2>1. m2 = WithStr(o.mem, b, v)
    BY <1>2, <1>9
  <2>2. /\ Heap(m2, g2)
        /\ \A d \in Context : g2[d] # Nowhere => Chain(m2, g2[d]) = Chain(o.mem, g2[d])
        /\ \A d \in Context, y \in Level : g2[d] # Nowhere =>
             StringAt(m2, g2, d, y) = IF d = c /\ y = level THEN v ELSE StringAt(o.mem, g2, d, y)
    BY <1>3, <1>4, <1>5, <2>1, SetSeen
  <2>3. \A d \in Context, y \in Level : d # c /\ g[d] # Nowhere => Chain(m2, g2[d])[y] = Chain(m, g[d])[y]
    BY <1>3, <1>6, <2>2
  <2>4. \A d \in Context, y \in Level : g[d] # Nowhere =>
          StringAt(m2, g2, d, y) = IF ok /\ d = c /\ y = level THEN v ELSE StringAt(m, g, d, y)
    BY <1>3, <1>6, <1>9, <2>2
  <2>5. ASSUME Strung(m, B, f, n), v = n + 1, OfOthers(m, g, c, B) PROVE Strung(m2, B, f, n + 1)
    <3>1. Strung(o.mem, B, f, n) /\ b \notin B
      BY <1>1, <1>7, <2>5
    <3> QED
      BY <1>3, <1>4, <1>5, <2>1, <2>5, <3>1, SetStrung
  <2> QED
    BY <1>3, <2>2, <2>3, <2>4, <2>5 DEF Set
<1> HIDE DEF Goal
<1>11. Goal
  BY <1>8, <1>9, Zenon
<1> QED
  BY <1>10, <1>11 DEF Goal, m2, o

\* Once the server's context has blocks of its own, these stay, too.
LEMMA StrungWider ==
  ASSUME NEW m, NEW g, Heap(m, g), NEW f \in SUBSET Nat, NEW n \in Nat, Strung(m, 1..3, f, n)
  PROVE  Strung(m, 1..3 \cup Blocks(m, g[Master]), f, n)
<1> DEFINE B == 1..3 \cup Blocks(m, g[Master])
<1>1. \A b \in Blocks(m, g[Master]) : b \in 1..Len(m) /\ m[b].live
  <2>1. Master \in Context /\ g[Master] # Nowhere
    BY DEF Context, Heap
  <2>2. \A y \in Level : Chain(m, g[Master])[y] \in 1..Len(m) /\ Master \in Claim(m, g, Chain(m, g[Master])[y])
    BY <2>1, InChain
  <2>3. \A y \in Level : m[Chain(m, g[Master])[y]].live
    BY <2>1, <2>2, Private
  <2> QED
    BY <2>2, <2>3 DEF Blocks
<1>2. \A b \in B : b \in 1..Len(m) /\ m[b].live
  BY <1>1 DEF Strung
<1>3. ASSUME NEW b \in B PROVE m[b].str \notin f
  <2>1. CASE b \in 1..3
    BY <2>1 DEF Strung
  <2>2. CASE b \notin 1..3
    <3>1. b \in 1..Len(m) /\ m[b].live
      BY <1>2
    <3>2. OwnString(m, f, b) /\ m[b].parent \in 1..3
      BY <2>2, <3>1 DEF Strung
    <3>3. m[m[b].parent].str \notin f
      BY <3>2 DEF Strung
    <3> QED
      BY <3>2, <3>3 DEF OwnString
  <2> QED
    BY <2>1, <2>2
<1> QED
  BY <1>2, <1>3 DEF Strung

-----------------------------------------------------------------------------
(* cow_claim().                                                            *)

\* One block gets one more claim.
LEMMA ClaimOneIs ==
  ASSUME NEW m \in Seq(Blk), NEW b \in 1..Len(m)
  PROVE  /\ ClaimOne(m, b) \in Seq(Blk) /\ Len(ClaimOne(m, b)) = Len(m)
         /\ \A i \in 1..Len(m) :
              /\ ClaimOne(m, b)[i].live = m[i].live /\ ClaimOne(m, b)[i].parent = m[i].parent
              /\ ClaimOne(m, b)[i].sub = m[i].sub /\ ClaimOne(m, b)[i].str = m[i].str
              /\ ClaimOne(m, b)[i].cow = IF i = b THEN m[i].cow + 1 ELSE m[i].cow
<1> DEFINE new == [m[b] EXCEPT !.cow = @ + 1]
           m2 == [m EXCEPT ![b] = new]
<1>1. m[b] \in Blk
  OBVIOUS
<1>2. /\ new \in Blk /\ new.str = m[b].str /\ new.live = m[b].live /\ new.parent = m[b].parent /\ new.sub = m[b].sub
      /\ new.cow = m[b].cow + 1
  <2>1. m[b].cow + 1 \in Nat
    BY <1>1 DEF Blk
  <2> QED
    BY <1>1, <2>1 DEF Blk
<1>3. ClaimOne(m, b) = m2
  BY DEF ClaimOne
<1> HIDE DEF new
<1>4. m2 \in Seq(Blk) /\ Len(m2) = Len(m)
  BY <1>2, ExceptSeq
<1>5. m2[b] = new /\ \A i \in 1..Len(m) : i # b => m2[i] = m[i]
  BY ExceptSeq
<1> HIDE DEF m2
<1> QED
  BY <1>2, <1>3, <1>4, <1>5

\* Three blocks do.
LEMMA ClaimIs ==
  ASSUME NEW m \in Seq(Blk), NEW c \in Nat, Proper(m, c)
  PROVE  /\ cow_claim(m, c) \in Seq(Blk) /\ Len(cow_claim(m, c)) = Len(m)
         /\ \A i \in 1..Len(m) :
              /\ cow_claim(m, c)[i].live = m[i].live /\ cow_claim(m, c)[i].parent = m[i].parent
              /\ cow_claim(m, c)[i].sub = m[i].sub /\ cow_claim(m, c)[i].str = m[i].str
              /\ cow_claim(m, c)[i].cow = IF i \in Blocks(m, c) THEN m[i].cow + 1 ELSE m[i].cow
<1> DEFINE b1 == Chain(m, c)[3]
           b2 == Chain(m, c)[2]
           b3 == Chain(m, c)[1]
           m1 == ClaimOne(m, b1)
           m2 == ClaimOne(m1, b2)
           m3 == ClaimOne(m2, b3)
<1>1. Level = {1, 2, 3}
  BY DEF Level
<1>2. /\ b1 \in 1..Len(m) /\ b2 \in 1..Len(m) /\ b3 \in 1..Len(m) /\ b1 # b2 /\ b1 # b3 /\ b2 # b3
      /\ Blocks(m, c) = {b1, b2, b3}
  BY <1>1 DEF Proper, Blocks
<1>3. cow_claim(m, c) = m3
  BY DEF cow_claim
<1> HIDE DEF b1, b2, b3
<1>4. /\ m1 \in Seq(Blk) /\ Len(m1) = Len(m)
      /\ \A i \in 1..Len(m) :
           /\ m1[i].live = m[i].live /\ m1[i].parent = m[i].parent /\ m1[i].sub = m[i].sub /\ m1[i].str = m[i].str
           /\ m1[i].cow = IF i = b1 THEN m[i].cow + 1 ELSE m[i].cow
  BY <1>2, ClaimOneIs
<1> HIDE DEF m1
<1>5. /\ m2 \in Seq(Blk) /\ Len(m2) = Len(m)
      /\ \A i \in 1..Len(m) :
           /\ m2[i].live = m1[i].live /\ m2[i].parent = m1[i].parent /\ m2[i].sub = m1[i].sub /\ m2[i].str = m1[i].str
           /\ m2[i].cow = IF i = b2 THEN m1[i].cow + 1 ELSE m1[i].cow
  BY <1>2, <1>4, ClaimOneIs
<1> HIDE DEF m2
<1>6. /\ m3 \in Seq(Blk) /\ Len(m3) = Len(m)
      /\ \A i \in 1..Len(m) :
           /\ m3[i].live = m2[i].live /\ m3[i].parent = m2[i].parent /\ m3[i].sub = m2[i].sub /\ m3[i].str = m2[i].str
           /\ m3[i].cow = IF i = b3 THEN m2[i].cow + 1 ELSE m2[i].cow
  BY <1>2, <1>5, ClaimOneIs
<1> HIDE DEF m3
<1>7. ASSUME NEW i \in 1..Len(m)
      PROVE  m3[i].cow = IF i \in Blocks(m, c) THEN m[i].cow + 1 ELSE m[i].cow
  <2>1. m1[i].cow = IF i = b1 THEN m[i].cow + 1 ELSE m[i].cow
    BY <1>4
  <2>2. m2[i].cow = IF i = b2 THEN m1[i].cow + 1 ELSE m1[i].cow
    BY <1>5
  <2>3. m3[i].cow = IF i = b3 THEN m2[i].cow + 1 ELSE m2[i].cow
    BY <1>6
  <2> QED
    BY <1>2, <2>1, <2>2, <2>3
<1> QED
  BY <1>3, <1>4, <1>5, <1>6, <1>7

\* A session that claims the server's configuration sees what the server sees.
LEMMA ClaimKept ==
  ASSUME NEW m, NEW g, Heap(m, g), NEW w \in Session, g[w] = Nowhere
  PROVE  LET m1 == cow_claim(m, g[Master])
             g1 == [g EXCEPT ![w] = g[Master]] IN
         /\ Heap(m1, g1) /\ m1[g1[w]].cow # 0
         /\ \A d \in Context : g1[d] # Nowhere => Chain(m1, g1[d]) = Chain(m, g1[d])
         /\ \A i \in 1..Len(m) : m1[i].str = m[i].str
<1> DEFINE b == g[Master]
           m1 == cow_claim(m, b)
           g1 == [g EXCEPT ![w] = b]
<1>1. /\ m \in Seq(Blk) /\ 3 <= Len(m) /\ g \in [Context -> Nat] /\ Master \in Context /\ w \in Context
      /\ w # Master /\ b # Nowhere /\ b \in Nat /\ Proper(m, b)
  BY CowAssumption DEF Heap, Context, Master
<1>2. /\ m1 \in Seq(Blk) /\ Len(m1) = Len(m)
      /\ \A i \in 1..Len(m) :
           /\ m1[i].live = m[i].live /\ m1[i].parent = m[i].parent /\ m1[i].sub = m[i].sub /\ m1[i].str = m[i].str
           /\ m1[i].cow = IF i \in Blocks(m, b) THEN m[i].cow + 1 ELSE m[i].cow
  BY <1>1, ClaimIs
<1> HIDE DEF m1
<1>3. g1 \in [Context -> Nat] /\ g1[w] = b /\ g1[Master] = b /\ \A d \in Context : d # w => g1[d] = g[d]
  BY <1>1
<1> HIDE DEF g1, b
<1>4. \A d \in Context : g1[d] # Nowhere => Proper(m, g1[d])
  BY <1>1, <1>3 DEF Heap
<1>5. ASSUME NEW d \in Context, g1[d] # Nowhere PROVE Chain(m1, g1[d]) = Chain(m, g1[d])
  <2>1. 1 \in Level /\ 2 \in Level
    BY DEF Level
  <2>2. Chain(m, g1[d])[1] \in 1..Len(m) /\ Chain(m, g1[d])[2] \in 1..Len(m)
    BY <1>4, <1>5, <2>1 DEF Proper
  <2>3. g1[d] \in 1..Len(m) /\ m[g1[d]].sub \in 1..Len(m)
    BY <2>2 DEF Chain
  <2> QED
    BY <1>2, <2>3 DEF Chain
<1>6. \A d \in Context : g1[d] # Nowhere => Proper(m1, g1[d]) /\ Blocks(m1, g1[d]) = Blocks(m, g1[d])
  BY <1>2, <1>4, <1>5 DEF Proper, Blocks
<1>7. ASSUME NEW i \in 1..Len(m) PROVE Right(m1, g1, i)
  <2> DEFINE S == Claim(m, g, i)
  <2>1. IsFiniteSet(S) /\ Cardinality(S) \in Nat /\ Counts(m, g, i) = Cardinality(S) + Static(i) /\ Static(i) \in {0, 1}
    BY ClaimsFinite
  <2>2. w \notin S
    BY DEF Claim, Nowhere
  <2>3. Right(m, g, i) /\ m[i] \in Blk
    BY <1>1 DEF Heap
  <2>4. CASE i \notin Blocks(m, b)
    <3>1. Claim(m1, g1, i) = S
      BY <1>1, <1>3, <1>6, <2>2, <2>4 DEF Claim
    <3> QED
      BY <1>2, <2>3, <2>4, <3>1 DEF Right, Counts
  <2>5. CASE i \in Blocks(m, b)
    <3>1. Claim(m1, g1, i) = S \cup {w}
      BY <1>1, <1>3, <1>6, <2>5 DEF Claim
    <3>2. Cardinality(S \cup {w}) = Cardinality(S) + 1
      BY <2>1, <2>2, FS_AddElement
    <3>3. Counts(m1, g1, i) = Cardinality(S) + 1 + Static(i)
      BY <3>1, <3>2 DEF Counts
    <3>4. m[i].live
      <4>1. Master \in Claim(m, g, i)
        BY <1>1, <2>5 DEF Claim, b
      <4> QED
        BY <1>1, <4>1, Private DEF b
    <3>5. m1[i].live /\ m1[i].cow = m[i].cow + 1 /\ m[i].cow = Counts(m, g, i) - 1
      BY <1>2, <2>3, <2>5, <3>4 DEF Right
    <3> HIDE DEF S
    <3> QED
      BY <2>1, <3>3, <3>5 DEF Right
  <2> QED
    BY <2>4, <2>5
<1>8. m1[g1[w]].cow # 0
  <2>1. b \in Blocks(m, b) /\ b \in 1..Len(m)
    <3>1. 1 \in Level /\ Chain(m, b)[1] = b
      BY DEF Level, Chain
    <3> QED
      BY <1>1, <3>1 DEF Blocks, Proper
  <2>2. m[b] \in Blk
    BY <1>1, <2>1
  <2>3. m[b].cow \in Nat
    BY <2>2 DEF Blk
  <2> QED
    BY <1>2, <1>3, <2>1, <2>3
<1>9. Heap(m1, g1)
  BY <1>1, <1>2, <1>3, <1>6, <1>7 DEF Heap
<1> QED
  BY <1>2, <1>5, <1>8, <1>9 DEF m1, g1, b

\* Claims do not change strings, and only blocks that stay are claimed.
LEMMA ClaimStrung ==
  ASSUME NEW m \in Seq(Blk), NEW c \in Nat, Proper(m, c), NEW B, Blocks(m, c) \subseteq B,
         NEW f \in SUBSET Nat, NEW n \in Nat, Strung(m, B, f, n)
  PROVE  Strung(cow_claim(m, c), B, f, n)
<1> DEFINE m1 == cow_claim(m, c)
<1>1. /\ m1 \in Seq(Blk) /\ Len(m1) = Len(m)
      /\ \A i \in 1..Len(m) :
           /\ m1[i].live = m[i].live /\ m1[i].parent = m[i].parent /\ m1[i].sub = m[i].sub /\ m1[i].str = m[i].str
           /\ m1[i].cow = IF i \in Blocks(m, c) THEN m[i].cow + 1 ELSE m[i].cow
  BY ClaimIs
<1> HIDE DEF m1
<1>2. ASSUME NEW i \in 1..Len(m), OwnString(m, f, i) PROVE OwnString(m1, f, i)
  <2>1. m[i].parent \in 1..Len(m)
    BY DEF Strung
  <2> QED
    BY <1>1, <1>2, <2>1 DEF OwnString
<1>3. \A i \in 1..Len(m) : i \notin B => m1[i].cow = m[i].cow
  BY <1>1
<1> QED
  BY <1>1, <1>2, <1>3 DEF Strung, m1

\* context::context()
LEMMA ConnectKept ==
  ASSUME NEW m, NEW g, Heap(m, g), NEW w \in Session, g[w] = Nowhere,
         NEW B, NEW f \in SUBSET Nat, NEW n \in Nat
  PROVE  LET q == cow(cow_claim(m, g[Master]), g[Master]) IN
         /\ Apart(m, g, q.mem, Other(g, w, q.block), w) /\ Other(g, w, q.block)[w] # Nowhere
         /\ \A y \in Level : StringAt(q.mem, Other(g, w, q.block), w, y) = StringAt(m, g, Master, y)
         /\ Strung(m, B, f, n) /\ Blocks(m, g[Master]) \subseteq B => Strung(q.mem, B, f, n)
<1> DEFINE b == g[Master]
           m1 == cow_claim(m, b)
           g1 == [g EXCEPT ![w] = b]
           q == cow(m1, b)
           g2 == [g EXCEPT ![w] = q.block]
           h2 == [g1 EXCEPT ![w] = q.block]
<1>1. /\ m \in Seq(Blk) /\ g \in [Context -> Nat] /\ Master \in Context /\ w \in Context /\ w # Master
      /\ b # Nowhere /\ b \in Nat /\ Proper(m, b) /\ 1 \in Level
  BY CowAssumption DEF Heap, Context, Master, Level
<1>2. /\ Heap(m1, g1) /\ m1[g1[w]].cow # 0
      /\ \A d \in Context : g1[d] # Nowhere => Chain(m1, g1[d]) = Chain(m, g1[d])
      /\ \A i \in 1..Len(m) : m1[i].str = m[i].str
  BY ClaimKept
<1>3. Strung(m, B, f, n) /\ Blocks(m, b) \subseteq B => Strung(m1, B, f, n)
  BY <1>1, ClaimStrung
<1>4. g1[w] = b /\ g2 = h2 /\ g1 \in [Context -> Nat]
  BY <1>1
<1>5. \A d \in Context : d # w => g1[d] = g[d] /\ g2[d] = g[d]
  BY <1>1
<1>12. g2 = Other(g, w, q.block)
  BY DEF Other
<1> HIDE DEF m1, g1
<1>6. Copied(m1, g1, q.mem, h2, w, 1, b)
  <2>1. Copied(m1, g1, cow(m1, g1[w]).mem, [g1 EXCEPT ![w] = cow(m1, g1[w]).block], w, 1, g1[w])
    BY <1>1, <1>2, <1>4, TopCopied
  <2> QED
    BY <1>4, <2>1
<1> HIDE DEF q, g2, h2, b
<1>7. Kept(m1, g1, q.mem, h2, w)
  BY <1>1, <1>2, <1>4, <1>6, CopiedKept
<1>8. Strung(m1, B, f, n) => Strung(q.mem, B, f, n)
  BY <1>1, <1>2, <1>4, <1>6, CopiedStrung
<1>9. ASSUME NEW d \in Context, NEW y \in Level, d # w, g[d] # Nowhere
      PROVE  Chain(q.mem, g2[d])[y] = Chain(m, g[d])[y] /\ StringAt(q.mem, g2, d, y) = StringAt(m, g, d, y)
  <2>1. g1[d] = g[d] /\ Chain(m1, g1[d]) = Chain(m, g[d])
    BY <1>2, <1>5, <1>9
  <2>2. Chain(q.mem, g2[d])[y] = Chain(m1, g1[d])[y] /\ StringAt(q.mem, g2, d, y) = StringAt(m1, g1, d, y)
    BY <1>4, <1>7, <1>9, <2>1 DEF Kept
  <2>3. Chain(m, g[d])[y] \in 1..Len(m)
    BY <1>9, InChain
  <2>4. StringAt(m1, g1, d, y) = StringAt(m, g, d, y)
    BY <1>2, <2>1, <2>3 DEF StringAt
  <2> QED
    BY <2>1, <2>2, <2>4
<1>10. ASSUME NEW y \in Level PROVE StringAt(q.mem, g2, w, y) = StringAt(m, g, Master, y)
  <2>1. g1[w] # Nowhere /\ g1[w] = g[Master]
    BY <1>1, <1>4 DEF b
  <2>2. StringAt(q.mem, g2, w, y) = StringAt(m1, g1, w, y)
    BY <1>1, <1>4, <1>7, <2>1 DEF Kept
  <2>3. Chain(m1, g1[w]) = Chain(m, g[Master])
    BY <1>1, <1>2, <2>1
  <2>4. Chain(m, g[Master])[y] \in 1..Len(m)
    BY <1>1, InChain DEF b
  <2> QED
    BY <1>2, <2>2, <2>3, <2>4 DEF StringAt
<1>11. Heap(q.mem, g2) /\ g2[w] # Nowhere
  BY <1>4, <1>7 DEF Kept
<1>13. Apart(m, g, q.mem, g2, w)
  BY <1>5, <1>9, <1>11 DEF Apart
<1> QED
  BY <1>3, <1>8, <1>10, <1>11, <1>12, <1>13 DEF q, m1, b

-----------------------------------------------------------------------------
(* cow_unclaim().                                                          *)

Faults == {"none", "the parent is gone", "a literal is freed", "a string is freed twice"}
Holding == [mem : Seq(Blk), freed : SUBSET Nat, fault : Faults]

\* What a claim less makes of the blocks.
LEMMA UnclaimedMem ==
  ASSUME NEW w \in Holding, NEW b \in 1..Len(w.mem)
  PROVE  /\ UnclaimOne(w, b).mem \in Seq(Blk) /\ Len(UnclaimOne(w, b).mem) = Len(w.mem)
         /\ \A i \in 1..Len(w.mem) :
              /\ UnclaimOne(w, b).mem[i].parent = w.mem[i].parent /\ UnclaimOne(w, b).mem[i].sub = w.mem[i].sub
              /\ UnclaimOne(w, b).mem[i].str = w.mem[i].str
              /\ i # b => UnclaimOne(w, b).mem[i] = w.mem[i]
         /\ w.mem[b].cow = 0 => UnclaimOne(w, b).mem[b].cow = 0 /\ ~UnclaimOne(w, b).mem[b].live
         /\ w.mem[b].cow # 0 =>
              UnclaimOne(w, b).mem[b].cow = w.mem[b].cow - 1 /\ UnclaimOne(w, b).mem[b].live = w.mem[b].live
<1> DEFINE m == w.mem
           e == UnclaimOne(w, b)
           new == IF m[b].cow = 0 THEN [m[b] EXCEPT !.live = FALSE] ELSE [m[b] EXCEPT !.cow = @ - 1]
           m2 == [m EXCEPT ![b] = new]
<1>1. m \in Seq(Blk) /\ m[b] \in Blk
  <2>1. m \in Seq(Blk)
    BY DEF Holding
  <2> QED
    BY <2>1
<1>2. e.mem = m2
  <2>1. CASE m[b].cow # 0
    <3>1. e = [w EXCEPT !.mem[b].cow = @ - 1]
      BY <2>1 DEF UnclaimOne
    <3>2. e.mem = [m EXCEPT ![b] = [m[b] EXCEPT !.cow = @ - 1]]
      BY <3>1 DEF Holding
    <3> QED
      BY <2>1, <3>2
  <2>2. CASE m[b].cow = 0
    <3> DEFINE t0 == [w EXCEPT !.mem[b].live = FALSE]
    <3>1. t0 \in [mem : {m2}, freed : SUBSET Nat, fault : Faults]
      BY <2>2 DEF Holding
    <3>2. e = Free(w, b)
      BY <2>2 DEF UnclaimOne
    <3> HIDE DEF m2
    <3>3. Free(w, b).mem = t0.mem
      <4> HIDE DEF t0
      <4>1. \A v \in Faults : [t0 EXCEPT !.fault = v].mem = t0.mem
        BY <3>1
      <4>2. \A u \in SUBSET Nat : \A v : [t0 EXCEPT !.freed = u, !.fault = v].mem = t0.mem
        BY <3>1
      <4>3. m[b].str \in Nat /\ t0.freed \in SUBSET Nat
        BY <1>1, <3>1 DEF Blk
      <4>4. t0.freed \cup {m[b].str} \in SUBSET Nat
        BY <4>3
      <4> QED
        BY <4>1, <4>2, <4>4 DEF Free, t0, Faults
    <3> QED
      BY <3>1, <3>2, <3>3
  <2> QED
    BY <2>1, <2>2
<1> HIDE DEF e
<1>3. /\ new \in Blk /\ new.parent = m[b].parent /\ new.sub = m[b].sub /\ new.str = m[b].str
      /\ m[b].cow = 0 => new.cow = 0 /\ ~new.live
      /\ m[b].cow # 0 => new.cow = m[b].cow - 1 /\ new.live = m[b].live
  <2>1. m[b].cow \in Nat /\ (m[b].cow # 0 => m[b].cow - 1 \in Nat)
    BY <1>1, SMTT(30) DEF Blk
  <2> QED
    BY <1>1, <2>1 DEF Blk
<1> HIDE DEF new
<1>4. m2 \in Seq(Blk) /\ Len(m2) = Len(m)
  BY <1>1, <1>3, ExceptSeq
<1>5. m2[b] = new /\ \A i \in 1..Len(m) : i # b => m2[i] = m[i]
  BY <1>1, ExceptSeq
<1> HIDE DEF m2
<1>6. \A i \in 1..Len(m) : e.mem[i].parent = m[i].parent /\ e.mem[i].sub = m[i].sub /\ e.mem[i].str = m[i].str
  BY <1>2, <1>3, <1>5
<1> QED
  BY <1>2, <1>3, <1>4, <1>5, <1>6 DEF e

\* Which strings are freed with a block whose parent is there.
LEMMA UnclaimedStr ==
  ASSUME NEW w \in Holding, NEW b \in 1..Len(w.mem), w.mem[b].cow = 0 => w.mem[w.mem[b].parent].live
  PROVE  LET e == UnclaimOne(w, b)
             str == w.mem[b].str
             goes == w.mem[b].cow = 0 /\ w.mem[w.mem[b].parent].str # str IN
         /\ ~goes => e.freed = w.freed /\ e.fault = w.fault
         /\ goes => e.freed = w.freed \cup {str} /\ (str # 0 /\ str \notin w.freed => e.fault = w.fault)
<1> DEFINE t0 == [w EXCEPT !.mem[b].live = FALSE]
           str == w.mem[b].str
<1>1. t0.freed = w.freed /\ t0.fault = w.fault /\ t0 \in [mem : {t0.mem}, freed : SUBSET Nat, fault : Faults]
  BY DEF Holding
<1>2. CASE w.mem[b].cow # 0
  BY <1>2 DEF UnclaimOne, Holding
<1>3. CASE w.mem[b].cow = 0
  <2>1. UnclaimOne(w, b) = Free(w, b)
    BY <1>3 DEF UnclaimOne
  <2>2. CASE w.mem[w.mem[b].parent].str = str
    <3>1. Free(w, b) = t0
      BY <1>3, <2>2 DEF Free
    <3> QED
      BY <1>1, <2>1, <2>2, <3>1
  <2>3. CASE w.mem[w.mem[b].parent].str # str
    <3> DEFINE f == IF str = 0 THEN "a literal is freed" ELSE IF str \in w.freed THEN "a string is freed twice" ELSE t0.fault
    <3>1. Free(w, b) = [t0 EXCEPT !.freed = t0.freed \cup {str}, !.fault = f]
      BY <1>3, <2>3 DEF Free
    <3> HIDE DEF t0, f
    <3>2. Free(w, b).freed = t0.freed \cup {str} /\ Free(w, b).fault = f
      BY <1>1, <3>1
    <3> QED
      BY <1>1, <1>3, <2>1, <2>3, <3>2 DEF f
  <2> QED
    BY <2>2, <2>3
<1> QED
  BY <1>2, <1>3

\* It is memory still.
LEMMA UnclaimedHolding ==
  ASSUME NEW w \in Holding, NEW b \in 1..Len(w.mem)
  PROVE  UnclaimOne(w, b) \in Holding
<1> DEFINE m2 == [w.mem EXCEPT ![b] = [w.mem[b] EXCEPT !.cow = @ - 1]]
           m3 == [w.mem EXCEPT ![b] = [w.mem[b] EXCEPT !.live = FALSE]]
           t0 == [w EXCEPT !.mem = m3]
           str == w.mem[b].str
<1>1. UnclaimOne(w, b).mem \in Seq(Blk)
  BY UnclaimedMem
<1>2. w.mem \in Seq(Blk) /\ w.mem[b] \in Blk /\ str \in Nat
  <2>1. w.mem \in Seq(Blk)
    BY DEF Holding
  <2>2. w.mem[b] \in Blk
    BY <2>1
  <2> QED
    BY <2>1, <2>2 DEF Blk
<1>3. CASE w.mem[b].cow # 0
  <2>1. UnclaimOne(w, b) = [w EXCEPT !.mem = m2]
    BY <1>3 DEF UnclaimOne, Holding
  <2>2. UnclaimOne(w, b).mem = m2
    BY <2>1 DEF Holding
  <2> HIDE DEF m2
  <2> QED
    BY <1>1, <2>1, <2>2 DEF Holding
<1>4. CASE w.mem[b].cow = 0
  <2>1. [w EXCEPT !.mem[b].live = FALSE] = t0
    BY DEF Holding
  <2>2. UnclaimOne(w, b) = Free(w, b)
    BY <1>4 DEF UnclaimOne
  <2>3. t0.mem = m3 /\ t0 \in [mem : {m3}, freed : SUBSET Nat, fault : Faults]
    BY DEF Holding
  <2> HIDE DEF t0, m3
  <2>4. w.freed \cup {str} \in SUBSET Nat /\ t0.freed \cup {str} \in SUBSET Nat
    BY <1>2, <2>3 DEF Holding
  <2>5. Free(w, b) \in [mem : {m3}, freed : SUBSET Nat, fault : Faults]
    <3>1. CASE ~w.mem[w.mem[b].parent].live
      <4>1. Free(w, b) = [t0 EXCEPT !.fault = "the parent is gone"]
        BY <2>1, <3>1 DEF Free
      <4> QED
        BY <2>3, <4>1 DEF Faults
    <3>2. CASE w.mem[w.mem[b].parent].live /\ w.mem[w.mem[b].parent].str = str
      <4>1. Free(w, b) = t0
        BY <2>1, <3>2 DEF Free
      <4> QED
        BY <2>3, <4>1
    <3>3. CASE w.mem[w.mem[b].parent].live /\ w.mem[w.mem[b].parent].str # str
      <4> DEFINE f == IF str = 0 THEN "a literal is freed" ELSE IF str \in w.freed THEN "a string is freed twice" ELSE t0.fault
      <4>1. Free(w, b) = [t0 EXCEPT !.freed = t0.freed \cup {str}, !.fault = f]
        BY <2>1, <3>3 DEF Free
      <4>2. f \in Faults
        BY <2>3 DEF Faults
      <4> HIDE DEF f
      <4> QED
        BY <2>3, <2>4, <4>1, <4>2
    <3> QED
      BY <3>1, <3>2, <3>3
  <2>6. Free(w, b).mem = m3 /\ m3 \in Seq(Blk)
    BY <1>1, <2>2, <2>5
  <2> QED
    BY <2>2, <2>5, <2>6 DEF Holding
<1> QED
  BY <1>3, <1>4

\* A string that only one context had is freed once, with its block.
LEMMA UnclaimedStrung ==
  ASSUME NEW w \in Holding, NEW b \in 1..Len(w.mem), w.mem[b].live, w.fault = "none",
         NEW B, NEW n \in Nat, Strung(w.mem, B, w.freed, n), b \in B => w.mem[b].cow # 0
  PROVE  /\ UnclaimOne(w, b).fault = "none"
         /\ Strung(UnclaimOne(w, b).mem, B, UnclaimOne(w, b).freed, n)
<1> DEFINE m == w.mem
           e == UnclaimOne(w, b)
           f == w.freed
           str == m[b].str
           goes == m[b].cow = 0 /\ m[m[b].parent].str # str
<1>1. m[b].parent \in B /\ m[m[b].parent].live /\ str <= n
  BY DEF Strung
<1>2. /\ e.mem \in Seq(Blk) /\ Len(e.mem) = Len(m)
      /\ \A i \in 1..Len(m) : e.mem[i].parent = m[i].parent /\ e.mem[i].str = m[i].str /\ (i # b => e.mem[i] = m[i])
      /\ m[b].cow = 0 => ~e.mem[b].live
      /\ m[b].cow # 0 => e.mem[b].cow = m[b].cow - 1 /\ e.mem[b].live = m[b].live
  BY UnclaimedMem
<1>3. /\ ~goes => e.freed = f /\ e.fault = w.fault
      /\ goes => e.freed = f \cup {str} /\ (str # 0 /\ str \notin f => e.fault = w.fault)
  BY <1>1, UnclaimedStr
<1> HIDE DEF e, m, f
<1>4. goes => b \notin B /\ OwnString(m, f, b)
  BY DEF Strung, m, f
<1>5. goes => str # 0 /\ str \notin f /\ \A i \in 1..Len(m) : i # b => m[i].str # str
  BY <1>4 DEF OwnString
<1>6. e.fault = "none"
  BY <1>3, <1>5
<1>7. 0 \notin e.freed /\ \A u \in e.freed : u <= n
  BY <1>1, <1>3, <1>5 DEF Strung, m, f
<1>8. B \subseteq 1..Len(e.mem) /\ \A i \in B : e.mem[i].live /\ e.mem[i].str \notin e.freed
  <2>1. B \subseteq 1..Len(m) /\ \A i \in B : m[i].live /\ m[i].str \notin f
    BY DEF Strung, m, f
  <2>2. \A i \in B : e.mem[i].live
    BY <1>2, <2>1 DEF m
  <2>3. \A i \in B : e.mem[i].str \notin e.freed
    BY <1>2, <1>3, <1>4, <1>5, <2>1
  <2> QED
    BY <1>2, <2>1, <2>2, <2>3
<1>9. \A i \in 1..Len(e.mem) : e.mem[i].parent \in B /\ e.mem[i].str <= n
  BY <1>2 DEF Strung, m
<1>10. ASSUME NEW i \in 1..Len(e.mem), i \notin B, e.mem[i].live PROVE e.mem[i].cow = 0 /\ OwnString(e.mem, e.freed, i)
  <2>1. i \in 1..Len(m)
    BY <1>2
  <2>2. i # b
    <3> SUFFICES ASSUME i = b PROVE FALSE
      OBVIOUS
    <3>1. m[b].cow = 0
      BY <1>10 DEF Strung, m
    <3> QED
      BY <1>2, <1>10, <3>1
  <2>3. e.mem[i] = m[i] /\ m[i].cow = 0 /\ OwnString(m, f, i) /\ m[i].parent \in 1..Len(m)
    BY <1>2, <1>10, <2>1, <2>2 DEF Strung, m, f
  <2>4. m[i].str \notin f => m[i].str \notin e.freed \/ m[i].str = str
    BY <1>3
  <2>5. m[i].str = str => e.freed = f
    BY <1>3, <1>5, <2>1, <2>2
  <2> QED
    BY <1>2, <2>1, <2>3, <2>4, <2>5 DEF OwnString
<1> QED
  BY <1>6, <1>7, <1>8, <1>9, <1>10 DEF Strung, e

\* A context gives up its three blocks.
LEMMA UnclaimIs ==
  ASSUME NEW w \in Holding, NEW c \in Nat, Proper(w.mem, c)
  PROVE  /\ cow_unclaim(w, c) \in Holding /\ Len(cow_unclaim(w, c).mem) = Len(w.mem)
         /\ \A i \in 1..Len(w.mem) :
              /\ cow_unclaim(w, c).mem[i].sub = w.mem[i].sub /\ cow_unclaim(w, c).mem[i].str = w.mem[i].str
              /\ i \notin Blocks(w.mem, c) => cow_unclaim(w, c).mem[i] = w.mem[i]
              /\ i \in Blocks(w.mem, c) /\ w.mem[i].cow = 0 => ~cow_unclaim(w, c).mem[i].live
              /\ i \in Blocks(w.mem, c) /\ w.mem[i].cow # 0 =>
                   cow_unclaim(w, c).mem[i].cow = w.mem[i].cow - 1 /\ cow_unclaim(w, c).mem[i].live = w.mem[i].live
<1> DEFINE b1 == Chain(w.mem, c)[3]
           b2 == Chain(w.mem, c)[2]
           b3 == Chain(w.mem, c)[1]
           t1 == UnclaimOne(w, b1)
           t2 == UnclaimOne(t1, b2)
           t3 == UnclaimOne(t2, b3)
           m == w.mem
<1>1. Level = {1, 2, 3}
  BY DEF Level
<1>2. /\ b1 \in 1..Len(m) /\ b2 \in 1..Len(m) /\ b3 \in 1..Len(m) /\ b1 # b2 /\ b1 # b3 /\ b2 # b3
      /\ Blocks(m, c) = {b1, b2, b3}
  BY <1>1 DEF Proper, Blocks
<1>3. cow_unclaim(w, c) = t3
  BY DEF cow_unclaim
<1> HIDE DEF b1, b2, b3
<1>4. /\ t1 \in Holding /\ Len(t1.mem) = Len(m)
      /\ \A i \in 1..Len(m) :
           /\ t1.mem[i].sub = m[i].sub /\ t1.mem[i].str = m[i].str
           /\ i # b1 => t1.mem[i] = m[i]
      /\ m[b1].cow = 0 => ~t1.mem[b1].live
      /\ m[b1].cow # 0 => t1.mem[b1].cow = m[b1].cow - 1 /\ t1.mem[b1].live = m[b1].live
  BY <1>2, UnclaimedMem, UnclaimedHolding
<1> HIDE DEF t1
<1>5. b2 \in 1..Len(t1.mem)
  BY <1>2, <1>4
<1>6. /\ t2 \in Holding /\ Len(t2.mem) = Len(t1.mem)
      /\ \A i \in 1..Len(t1.mem) :
           /\ t2.mem[i].sub = t1.mem[i].sub /\ t2.mem[i].str = t1.mem[i].str
           /\ i # b2 => t2.mem[i] = t1.mem[i]
      /\ t1.mem[b2].cow = 0 => ~t2.mem[b2].live
      /\ t1.mem[b2].cow # 0 => t2.mem[b2].cow = t1.mem[b2].cow - 1 /\ t2.mem[b2].live = t1.mem[b2].live
  BY <1>4, <1>5, UnclaimedMem, UnclaimedHolding
<1> HIDE DEF t2
<1>7. b3 \in 1..Len(t2.mem)
  BY <1>2, <1>4, <1>6
<1>8. /\ t3 \in Holding /\ Len(t3.mem) = Len(t2.mem)
      /\ \A i \in 1..Len(t2.mem) :
           /\ t3.mem[i].sub = t2.mem[i].sub /\ t3.mem[i].str = t2.mem[i].str
           /\ i # b3 => t3.mem[i] = t2.mem[i]
      /\ t2.mem[b3].cow = 0 => ~t3.mem[b3].live
      /\ t2.mem[b3].cow # 0 => t3.mem[b3].cow = t2.mem[b3].cow - 1 /\ t3.mem[b3].live = t2.mem[b3].live
  BY <1>6, <1>7, UnclaimedMem, UnclaimedHolding
<1> HIDE DEF t3, m
<1>9. ASSUME NEW i \in 1..Len(m)
      PROVE  /\ t3.mem[i].sub = m[i].sub /\ t3.mem[i].str = m[i].str
             /\ i \notin {b1, b2, b3} => t3.mem[i] = m[i]
             /\ i = b1 => t3.mem[i] = t1.mem[i]
             /\ i = b2 => t3.mem[i] = t2.mem[i] /\ t1.mem[i] = m[i]
             /\ i = b3 => t2.mem[i] = m[i]
  BY <1>2, <1>4, <1>6, <1>8
<1>10. ASSUME NEW i \in 1..Len(m), i \in {b1, b2, b3}
       PROVE  /\ m[i].cow = 0 => ~t3.mem[i].live
              /\ m[i].cow # 0 => t3.mem[i].cow = m[i].cow - 1 /\ t3.mem[i].live = m[i].live
  <2>1. CASE i = b1
    BY <1>4, <1>9, <2>1
  <2>2. CASE i = b2
    BY <1>6, <1>9, <2>2
  <2>3. CASE i = b3
    BY <1>8, <1>9, <2>3
  <2> QED
    BY <1>10, <2>1, <2>2, <2>3
<1> QED
  BY <1>2, <1>3, <1>4, <1>6, <1>8, <1>9, <1>10 DEF m

\* If the blocks that stay are shared, nothing goes wrong.
LEMMA UnclaimStrung ==
  ASSUME NEW w \in Holding, NEW c \in Nat, Proper(w.mem, c), w.fault = "none",
         NEW B, NEW n \in Nat, Strung(w.mem, B, w.freed, n),
         \A b \in Blocks(w.mem, c) : w.mem[b].live /\ (b \in B => w.mem[b].cow # 0)
  PROVE  cow_unclaim(w, c).fault = "none" /\ Strung(cow_unclaim(w, c).mem, B, cow_unclaim(w, c).freed, n)
<1> DEFINE b1 == Chain(w.mem, c)[3]
           b2 == Chain(w.mem, c)[2]
           b3 == Chain(w.mem, c)[1]
           t1 == UnclaimOne(w, b1)
           t2 == UnclaimOne(t1, b2)
           t3 == UnclaimOne(t2, b3)
           m == w.mem
<1>1. Level = {1, 2, 3}
  BY DEF Level
<1>2. /\ b1 \in 1..Len(m) /\ b2 \in 1..Len(m) /\ b3 \in 1..Len(m) /\ b1 # b2 /\ b1 # b3 /\ b2 # b3
      /\ b1 \in Blocks(m, c) /\ b2 \in Blocks(m, c) /\ b3 \in Blocks(m, c)
  BY <1>1 DEF Proper, Blocks
<1>3. cow_unclaim(w, c) = t3
  BY DEF cow_unclaim
<1>4. /\ m[b1].live /\ (b1 \in B => m[b1].cow # 0)
      /\ m[b2].live /\ (b2 \in B => m[b2].cow # 0)
      /\ m[b3].live /\ (b3 \in B => m[b3].cow # 0)
  BY <1>2
<1> HIDE DEF b1, b2, b3
<1>5. t1.fault = "none" /\ Strung(t1.mem, B, t1.freed, n)
  BY <1>2, <1>4, UnclaimedStrung
<1>6. t1 \in Holding /\ Len(t1.mem) = Len(m) /\ \A i \in 1..Len(m) : i # b1 => t1.mem[i] = m[i]
  BY <1>2, UnclaimedMem, UnclaimedHolding
<1> HIDE DEF t1
<1>7. b2 \in 1..Len(t1.mem) /\ t1.mem[b2] = m[b2]
  BY <1>2, <1>6
<1>8. t2.fault = "none" /\ Strung(t2.mem, B, t2.freed, n)
  BY <1>4, <1>5, <1>6, <1>7, UnclaimedStrung
<1>9. t2 \in Holding /\ Len(t2.mem) = Len(m) /\ \A i \in 1..Len(m) : i # b2 => t2.mem[i] = t1.mem[i]
  BY <1>6, <1>7, UnclaimedMem, UnclaimedHolding
<1> HIDE DEF t2
<1>10. b3 \in 1..Len(t2.mem) /\ t2.mem[b3] = m[b3]
  BY <1>2, <1>6, <1>9
<1>11. t3.fault = "none" /\ Strung(t3.mem, B, t3.freed, n)
  BY <1>4, <1>8, <1>9, <1>10, UnclaimedStrung
<1> QED
  BY <1>3, <1>11

\* context::~context()
LEMMA CloseKept ==
  ASSUME NEW st \in Holding, NEW g, Heap(st.mem, g), NEW w \in Session, g[w] # Nowhere, NEW B, NEW n \in Nat
  PROVE  LET e == cow_unclaim(st, g[w]) IN
         /\ e \in Holding /\ Apart(st.mem, g, e.mem, Other(g, w, Nowhere), w)
         /\ st.fault = "none" /\ Strung(st.mem, B, st.freed, n) /\ OfOthers(st.mem, g, w, B) =>
              e.fault = "none" /\ Strung(e.mem, B, e.freed, n)
<1> DEFINE m == st.mem
           c == g[w]
           e == cow_unclaim(st, c)
           m2 == e.mem
           g2 == [g EXCEPT ![w] = Nowhere]
<1>1. /\ m \in Seq(Blk) /\ 3 <= Len(m) /\ g \in [Context -> Nat] /\ Master \in Context /\ w \in Context
      /\ w # Master /\ c \in Nat /\ Proper(m, c)
  BY CowAssumption DEF Heap, Context, Master
<1>2. /\ e \in Holding /\ Len(m2) = Len(m)
      /\ \A i \in 1..Len(m) :
           /\ m2[i].sub = m[i].sub /\ m2[i].str = m[i].str
           /\ i \notin Blocks(m, c) => m2[i] = m[i]
           /\ i \in Blocks(m, c) /\ m[i].cow = 0 => ~m2[i].live
           /\ i \in Blocks(m, c) /\ m[i].cow # 0 => m2[i].cow = m[i].cow - 1 /\ m2[i].live = m[i].live
  BY <1>1, UnclaimIs
<1>3. g2 \in [Context -> Nat] /\ g2[w] = Nowhere /\ \A d \in Context : d # w => g2[d] = g[d]
  BY <1>1 DEF Nowhere
<1>4. \A b \in Blocks(m, c) : b \in 1..Len(m) /\ w \in Claim(m, g, b)
  BY <1>1 DEF Claim, Proper, Blocks
<1>5. ASSUME st.fault = "none", Strung(m, B, st.freed, n), OfOthers(m, g, w, B)
      PROVE  e.fault = "none" /\ Strung(m2, B, e.freed, n)
  <2>1. ASSUME NEW b \in Blocks(m, c) PROVE m[b].live /\ (b \in B => m[b].cow # 0)
    <3>1. b \in 1..Len(m) /\ w \in Claim(m, g, b) /\ m[b].live
      BY <1>1, <1>4, Private
    <3>2. ASSUME b \in B PROVE m[b].cow # 0
      <4>1. CASE Static(b) = 1
        BY <1>1, <3>1, <4>1, Private
      <4>2. CASE Static(b) # 1
        <5>1. PICK d \in Context : d # w /\ g[d] # Nowhere /\ b \in Blocks(m, g[d])
          BY <1>5, <3>2, <4>2 DEF OfOthers
        <5>2. d \in Claim(m, g, b)
          BY <5>1 DEF Claim
        <5> QED
          BY <1>1, <3>1, <5>1, <5>2, Private
      <4> QED
        BY <4>1, <4>2
    <3> QED
      BY <3>1, <3>2
  <2> QED
    BY <1>1, <1>5, <2>1, UnclaimStrung
<1>14. g2 = Other(g, w, Nowhere)
  BY DEF Other
<1> HIDE DEF e, g2, m, c
<1>6. m2 \in Seq(Blk)
  BY <1>2 DEF Holding
<1> HIDE DEF m2
<1>7. ASSUME NEW d \in Context, d # w, g[d] # Nowhere PROVE Chain(m2, g2[d]) = Chain(m, g[d])
  <2>1. 1 \in Level /\ 2 \in Level
    BY DEF Level
  <2>2. Chain(m, g[d])[1] \in 1..Len(m) /\ Chain(m, g[d])[2] \in 1..Len(m)
    BY <1>7, <2>1, InChain DEF m
  <2>3. g[d] \in 1..Len(m) /\ m[g[d]].sub \in 1..Len(m)
    BY <2>2 DEF Chain
  <2> QED
    BY <1>2, <1>3, <1>7, <2>3 DEF Chain
<1>8. \A d \in Context : g2[d] # Nowhere => d # w /\ g2[d] = g[d]
  BY <1>3
<1>9. \A d \in Context : d # w /\ g[d] # Nowhere => Blocks(m2, g2[d]) = Blocks(m, g[d]) /\ Proper(m2, g2[d])
  BY <1>2, <1>7 DEF Blocks, Heap, Proper, m
<1>10. \A i \in 1..Len(m) : Claim(m2, g2, i) = Claim(m, g, i) \ {w}
  BY <1>3, <1>8, <1>9 DEF Claim
<1>11. ASSUME NEW i \in 1..Len(m) PROVE Right(m2, g2, i)
  <2> DEFINE S == Claim(m, g, i)
  <2>1. IsFiniteSet(S) /\ Cardinality(S) \in Nat /\ Counts(m, g, i) = Cardinality(S) + Static(i) /\ Static(i) \in {0, 1}
    BY ClaimsFinite
  <2>2. Right(m, g, i) /\ m[i] \in Blk
    BY <1>1 DEF Heap, m
  <2>3. CASE i \notin Blocks(m, c)
    <3>1. w \notin S
      BY <2>3 DEF Claim, c
    <3>2. Claim(m2, g2, i) = S
      BY <1>10, <3>1
    <3> QED
      BY <1>2, <2>2, <2>3, <3>2 DEF Right, Counts
  <2>4. CASE i \in Blocks(m, c)
    <3>1. w \in S
      BY <1>4, <2>4
    <3>2. Cardinality(S \ {w}) = Cardinality(S) - 1
      BY <2>1, <3>1, FS_RemoveElement
    <3>3. Counts(m2, g2, i) = Cardinality(S) - 1 + Static(i)
      BY <1>10, <3>2 DEF Counts
    <3>4. m[i].live
      BY <1>1, <1>4, <2>4, Private DEF m, c
    <3> HIDE DEF S
    <3>5. m[i].cow = Cardinality(S) + Static(i) - 1
      BY <2>1, <2>2, <3>4 DEF Right
    <3>6. CASE m[i].cow = 0
      <4>1. ~m2[i].live
        BY <1>2, <2>4, <3>6
      <4> QED
        BY <2>1, <3>3, <3>5, <3>6, <4>1 DEF Right
    <3>7. CASE m[i].cow # 0
      <4>1. m2[i].cow = m[i].cow - 1 /\ m2[i].live /\ m[i].cow \in Nat
        BY <1>2, <2>2, <2>4, <3>4, <3>7 DEF Blk
      <4> QED
        BY <2>1, <3>3, <3>5, <3>7, <4>1 DEF Right
    <3> QED
      BY <3>6, <3>7
  <2> QED
    BY <2>3, <2>4
<1>12. Heap(m2, g2)
  <2>1. g2[Master] # Nowhere
    BY <1>1, <1>3 DEF Heap
  <2>2. \A d \in Context : g2[d] # Nowhere => Proper(m2, g2[d])
    BY <1>8, <1>9
  <2> QED
    BY <1>1, <1>2, <1>3, <1>6, <1>11, <2>1, <2>2 DEF Heap
<1>13. ASSUME NEW d \in Context, NEW y \in Level, d # w, g[d] # Nowhere
       PROVE  StringAt(m2, g2, d, y) = StringAt(m, g, d, y)
  <2>1. Chain(m, g[d])[y] \in 1..Len(m)
    BY <1>13, InChain DEF m
  <2> QED
    BY <1>2, <1>7, <1>13, <2>1 DEF StringAt
<1>15. Apart(m, g, m2, g2, w)
  BY <1>3, <1>7, <1>12, <1>13 DEF Apart
<1> QED
  BY <1>2, <1>5, <1>14, <1>15 DEF e, m2, m, c

-----------------------------------------------------------------------------
(* The states of the contexts.                                             *)

\* The blocks that stay, unless setg changes them.
Base(m, g) == 1..3 \cup Blocks(m, g[Master])

Contexts ==
  /\ ctx \in [cfg : Nat, this : Context, config : [Context -> Nat]]
  /\ ctx.cfg = ctx.config[Master] /\ ctx.this = Master

Safely ==
  /\ setgs <= 1 => fault = "none" /\ Strung(mem, Base(mem, ctx.config), freed, setls + setgs)
  /\ setgs = 0 => Blocks(mem, ctx.config[Master]) \subseteq 1..3

CowInv ==
  /\ Contexts /\ Heap(mem, ctx.config)
  /\ freed \in SUBSET Nat /\ fault \in Faults /\ setls \in 0..MaxSetl /\ setgs \in 0..MaxSetg
  /\ trusted \subseteq {w \in Session : ctx.config[w] # Nowhere}
  /\ Safely

\* What contexts see of the memory.
View(m, g) == [c \in Context |-> IF g[c] # Nowhere THEN [l \in Level |-> StringAt(m, g, c, l)] ELSE <<>>]

\* The master context keeps its blocks if its chain stays the same.
LEMMA BaseSame ==
  ASSUME NEW m, NEW g, NEW m2, NEW g2, \A y \in Level : Chain(m2, g2[Master])[y] = Chain(m, g[Master])[y]
  PROVE  Blocks(m2, g2[Master]) = Blocks(m, g[Master]) /\ Base(m2, g2) = Base(m, g)
  BY DEF Blocks, Base

\* Initially, nothing is shared but with the static cfg.
LEMMA InitCow == CowInit => CowInv
<1> SUFFICES ASSUME CowInit PROVE CowInv
  OBVIOUS
<1> DEFINE g == [c \in Context |-> IF c = Master THEN 1 ELSE Nowhere]
           b1 == Block(1, 2)
           b2 == Block(2, 3)
           b3 == Block(3, Nowhere)
           m == <<b1, b2, b3>>
<1>1. mem = m /\ ctx = [cfg |-> 1, this |-> Master, config |-> g] /\ freed = {} /\ trusted = {}
      /\ setls = 0 /\ setgs = 0 /\ fault = "none"
  BY DEF CowInit
<1>2. b1 \in Blk /\ b2 \in Blk /\ b3 \in Blk
  BY DEF Block, Blk, Nowhere
<1>3. /\ b1.cow = 1 /\ b1.parent = 1 /\ b1.str = 0 /\ b1.sub = 2 /\ b1.live
      /\ b2.cow = 1 /\ b2.parent = 2 /\ b2.str = 0 /\ b2.sub = 3 /\ b2.live
      /\ b3.cow = 1 /\ b3.parent = 3 /\ b3.str = 0 /\ b3.live
  BY DEF Block
<1> HIDE DEF b1, b2, b3
<1>4. m \in Seq(Blk) /\ Len(m) = 3 /\ m[1] = b1 /\ m[2] = b2 /\ m[3] = b3
  BY <1>2
<1> HIDE DEF m
<1>5. Master \in Context /\ g \in [Context -> Nat] /\ g[Master] = 1 /\ \A c \in Context : g[c] # Nowhere => c = Master
  BY DEF Context, Nowhere
<1>6. ctx.cfg = 1 /\ ctx.this = Master /\ ctx.config = g /\ Contexts
  BY <1>1, <1>5 DEF Contexts
<1> HIDE DEF g
<1>7. Chain(m, 1) = <<1, 2, 3>>
  BY <1>3, <1>4 DEF Chain
<1>8. Level = {1, 2, 3} /\ 1..Len(m) = {1, 2, 3}
  BY <1>4 DEF Level
<1>9. Blocks(m, 1) = {1, 2, 3} /\ Proper(m, 1)
  BY <1>7, <1>8 DEF Blocks, Proper
<1>10. \A b \in {1, 2, 3} : Claim(m, g, b) = {Master}
  BY <1>5, <1>9 DEF Claim, Nowhere
<1>11. Cardinality({Master}) = 1
  BY FS_Singleton
<1>12. \A b \in {1, 2, 3} : Counts(m, g, b) = 2
  BY <1>10, <1>11 DEF Counts, Static
<1>13. \A b \in 1..Len(m) : Right(m, g, b)
  BY <1>3, <1>4, <1>8, <1>12 DEF Right
<1>14. Heap(m, g)
  BY <1>4, <1>5, <1>9, <1>13 DEF Heap, Nowhere
<1>15. Base(m, g) = {1, 2, 3} /\ 1..3 = {1, 2, 3}
  BY <1>5, <1>9 DEF Base
<1>16. Strung(m, {1, 2, 3}, {}, 0)
  BY <1>3, <1>4, <1>8 DEF Strung
<1>17. Safely
  BY <1>1, <1>5, <1>6, <1>9, <1>15, <1>16 DEF Safely
<1> QED
  BY <1>1, <1>6, <1>14, <1>17, CowAssumption DEF CowInv, Faults

\* One value of what contexts see.
Changed(w, c, l, v) == [w EXCEPT ![c][l] = v]

\* What the contexts see when an option has been set.
LEMMA SettingView ==
  ASSUME NEW m, NEW g, NEW m2, NEW g2, NEW c \in Context, g[c] # Nowhere, NEW level \in Level,
         NEW ok \in BOOLEAN, NEW v,
         g2[c] # Nowhere, \A d \in Context : d # c => g2[d] = g[d],
         \A d \in Context, y \in Level : g[d] # Nowhere =>
           StringAt(m2, g2, d, y) = IF ok /\ d = c /\ y = level THEN v ELSE StringAt(m, g, d, y)
  PROVE  /\ ok => View(m2, g2) = Changed(View(m, g), c, level, v)
         /\ ~ok => View(m2, g2) = View(m, g)
<1> DEFINE at(k, h, d) == [l \in Level |-> StringAt(k, h, d, l)]
<1>1. \A d \in Context : g2[d] # Nowhere <=> g[d] # Nowhere
  OBVIOUS
<1>2. \A d \in Context : (g[d] # Nowhere /\ d # c) \/ (g[d] # Nowhere /\ ~ok) => at(m2, g2, d) = at(m, g, d)
  OBVIOUS
<1>3. ok => at(m2, g2, c) = [at(m, g, c) EXCEPT ![level] = v]
  OBVIOUS
<1>4. \A d \in Context : View(m, g)[d] = IF g[d] # Nowhere THEN at(m, g, d) ELSE <<>>
  BY DEF View
<1>5. ASSUME ok PROVE View(m2, g2) = [View(m, g) EXCEPT ![c][level] = v]
  <2>1. [View(m, g) EXCEPT ![c][level] = v] = [d \in Context |-> IF d = c THEN [at(m, g, c) EXCEPT ![level] = v] ELSE View(m, g)[d]]
    BY DEF View
  <2> HIDE DEF at
  <2>2. \A d \in Context : (IF d = c THEN [at(m, g, c) EXCEPT ![level] = v] ELSE View(m, g)[d])
                           = IF g2[d] # Nowhere THEN at(m2, g2, d) ELSE <<>>
    BY <1>1, <1>2, <1>3, <1>4, <1>5
  <2>3. View(m2, g2) = [d \in Context |-> IF g2[d] # Nowhere THEN at(m2, g2, d) ELSE <<>>]
    BY DEF View, at
  <2> QED
    BY <2>1, <2>2, <2>3
<1>6. ASSUME ~ok PROVE View(m2, g2) = View(m, g)
  <2> HIDE DEF at
  <2>1. \A d \in Context : (IF g2[d] # Nowhere THEN at(m2, g2, d) ELSE <<>>) = IF g[d] # Nowhere THEN at(m, g, d) ELSE <<>>
    BY <1>1, <1>2, <1>6
  <2>2. /\ View(m2, g2) = [d \in Context |-> IF g2[d] # Nowhere THEN at(m2, g2, d) ELSE <<>>]
        /\ View(m, g) = [d \in Context |-> IF g[d] # Nowhere THEN at(m, g, d) ELSE <<>>]
    BY DEF View, at
  <2> QED
    BY <2>1, <2>2
<1> QED
  BY <1>5, <1>6 DEF Changed

\* set_option() in context k, the session or, after leaving it, the master context.
LEMMA SetOption ==
  ASSUME NEW k, NEW level \in Level, NEW ok \in BOOLEAN
  PROVE  set_option(k, level, ok).mem = Setting(mem, k.cfg, level, ok, setls + setgs + 1)
  BY DEF set_option, Setting, WithStr

LEMMA SetOptionCtx ==
  ASSUME NEW k, NEW level \in Level, NEW ok \in BOOLEAN
  PROVE  set_option(k, level, ok).ctx = [k EXCEPT !.cfg = Own(mem, k.cfg, level).top]
  BY DEF set_option

\* A state of the contexts.
Ctx(cfg, this, g) == [cfg |-> cfg, this |-> this, config |-> g]

\* Entering and leaving, field by field.
LEMMA EnterIs ==
  ASSUME NEW a, NEW b, NEW h \in [Context -> Nat], NEW w \in Context
  PROVE  /\ enter(Ctx(a, b, h), w) = Ctx(h[w], w, Other(h, Master, a))
         /\ leave(Ctx(a, b, h), w) = Ctx(h[Master], Master, Other(h, w, a))
<1> DEFINE k == [cfg |-> a, this |-> b, config |-> h]
           h1 == [h EXCEPT ![Master] = a]
           h2 == [h EXCEPT ![w] = a]
<1>1. [k EXCEPT !.config[Master] = k.cfg] = [cfg |-> a, this |-> b, config |-> h1]
  OBVIOUS
<1>2. [k EXCEPT !.config[w] = k.cfg] = [cfg |-> a, this |-> b, config |-> h2]
  OBVIOUS
<1>3. k.config = h
  OBVIOUS
<1>4. enter(k, w) = [[[k EXCEPT !.config[Master] = k.cfg] EXCEPT !.cfg = k.config[w]] EXCEPT !.this = w]
  BY DEF enter
<1>5. leave(k, w) = [[[k EXCEPT !.config[w] = k.cfg] EXCEPT !.cfg = k.config[Master]] EXCEPT !.this = Master]
  BY DEF leave
<1>6. k = Ctx(a, b, h) /\ h1 = Other(h, Master, a) /\ h2 = Other(h, w, a)
  BY DEF Ctx, Other
<1> HIDE DEF k, h1, h2
<1>7. enter(k, w) = [cfg |-> h[w], this |-> w, config |-> h1]
  BY <1>1, <1>3, <1>4
<1>8. leave(k, w) = [cfg |-> h[Master], this |-> Master, config |-> h2]
  BY <1>2, <1>3, <1>5
<1> QED
  BY <1>6, <1>7, <1>8 DEF Ctx

\* A session that is entered and left again has the options that were set in between.
LEMMA EnterLeave ==
  ASSUME Contexts, NEW w \in Session, NEW e \in Nat
  PROVE  /\ enter(ctx, w).cfg = ctx.config[w]
         /\ leave([enter(ctx, w) EXCEPT !.cfg = e], w) = Ctx(ctx.cfg, Master, Other(ctx.config, w, e))
         /\ leave(enter(ctx, w), w) = ctx
         /\ leave(enter([ctx EXCEPT !.cfg = e], w), w) = Ctx(e, Master, Other(ctx.config, Master, e))
<1> DEFINE g == ctx.config
           z == enter(ctx, w)
<1>1. /\ ctx \in [cfg : Nat, this : Context, config : [Context -> Nat]]
      /\ ctx.cfg = g[Master] /\ ctx.this = Master /\ g \in [Context -> Nat]
      /\ w \in Context /\ Master \in Context /\ w # Master
  BY CowAssumption DEF Contexts, Context, Master
<1>2. ctx = Ctx(g[Master], Master, g)
  BY <1>1 DEF Ctx
<1>3. Other(g, Master, g[Master]) = g /\ Other(g, w, g[w]) = g
  BY <1>1 DEF Other
<1>4. z = Ctx(g[w], w, g)
  <2>1. z = Ctx(g[w], w, Other(g, Master, g[Master]))
    BY <1>1, <1>2, EnterIs
  <2> QED
    BY <1>3, <2>1
<1>5. ASSUME NEW u \in Nat
      PROVE  leave([z EXCEPT !.cfg = u], w) = Ctx(g[Master], Master, Other(g, w, u))
  <2>1. [z EXCEPT !.cfg = u] = Ctx(u, w, g)
    BY <1>4 DEF Ctx
  <2> QED
    BY <1>1, <2>1, EnterIs
<1>6. leave(z, w) = ctx
  <2>1. [z EXCEPT !.cfg = g[w]] = z
    BY <1>4 DEF Ctx
  <2>2. g[w] \in Nat
    BY <1>1
  <2> QED
    BY <1>2, <1>3, <1>5, <2>1, <2>2
<1>7. leave(enter([ctx EXCEPT !.cfg = e], w), w) = Ctx(e, Master, Other(g, Master, e))
  <2> DEFINE h == Other(g, Master, e)
  <2>1. [ctx EXCEPT !.cfg = e] = Ctx(e, Master, g)
    BY <1>2 DEF Ctx
  <2>2. h \in [Context -> Nat] /\ h[w] = g[w] /\ h[Master] = e
    BY <1>1 DEF Other
  <2>3. enter([ctx EXCEPT !.cfg = e], w) = Ctx(h[w], w, h)
    BY <1>1, <2>1, <2>2, EnterIs
  <2>4. Other(h, w, h[w]) = h
    BY <1>1, <2>2 DEF Other
  <2> HIDE DEF h
  <2>5. leave(Ctx(h[w], w, h), w) = Ctx(h[Master], Master, Other(h, w, h[w]))
    BY <1>1, <2>2, EnterIs
  <2> QED
    BY <2>2, <2>3, <2>4, <2>5 DEF h
<1>8. ctx.cfg = g[Master] /\ z.cfg = g[w]
  BY <1>1, <1>4 DEF Ctx
<1> QED
  BY <1>5, <1>6, <1>7, <1>8

\* What a context sees, and that it is set by nobody else.
Shown == View(mem, ctx.config)
SetBy(c) ==
  \/ \E level \in Level : Shown' = Changed(Shown, c, level, setls + setgs + 1)
  \/ Shown' = Shown

\* What the context and the others see then.
LEMMA SetView ==
  ASSUME NEW m, NEW g, NEW c \in Context, g[c] # Nowhere, NEW level \in Level, NEW ok \in BOOLEAN,
         NEW v, NEW m2, NEW g2, Set(m, g, c, level, ok, v, m2, g2)
  PROVE  View(m2, g2) = Changed(View(m, g), c, level, v) \/ View(m2, g2) = View(m, g)
<1>1. /\ g2[c] # Nowhere /\ \A d \in Context : d # c => g2[d] = g[d]
      /\ \A d \in Context, y \in Level : g[d] # Nowhere =>
           StringAt(m2, g2, d, y) = IF ok /\ d = c /\ y = level THEN v ELSE StringAt(m, g, d, y)
  BY DEF Set
<1>2. (ok => View(m2, g2) = Changed(View(m, g), c, level, v)) /\ (~ok => View(m2, g2) = View(m, g))
  BY <1>1, SettingView
<1> QED
  BY <1>2

\* setl: a session has its own setting.
LEMMA SetlStep ==
  ASSUME CowInv, NEW w \in Session, Setl(w)
  PROVE  CowInv' /\ SetBy(w)
<1> DEFINE g == ctx.config
           B == Base(mem, g)
<1>1. PICK level \in Level, ok \in BOOLEAN :
        /\ mem' = set_option(enter(ctx, w), level, ok).mem
        /\ ctx' = leave(set_option(enter(ctx, w), level, ok).ctx, w)
  BY DEF Setl
<1>2. /\ Contexts /\ Heap(mem, g) /\ freed \in SUBSET Nat /\ setls \in Nat /\ setgs \in Nat
      /\ g \in [Context -> Nat] /\ w \in Context /\ Master \in Context /\ w # Master /\ g[Master] # Nowhere
      /\ ctx.cfg = g[Master]
  BY CowAssumption DEF CowInv, Contexts, Heap, Context, Master
<1>3. g[w] # Nowhere
  BY DEF Setl
<1>4. PICK n \in Nat : n = setls + setgs
  BY <1>2
<1>21. PICK v \in Nat : v = n + 1
  OBVIOUS
<1>5. PICK e : e = Own(mem, g[w], level).top
  OBVIOUS
<1>6. PICK g2 : g2 = Other(g, w, e)
  OBVIOUS
<1>7. OfOthers(mem, g, w, B)
  BY <1>2 DEF OfOthers, Base, Static
<1>8. mem' = Setting(mem, g[w], level, ok, v)
  <2>1. enter(ctx, w).cfg = g[w]
    BY <1>2, EnterLeave
  <2>2. set_option(enter(ctx, w), level, ok).mem = Setting(mem, enter(ctx, w).cfg, level, ok, setls + setgs + 1)
    BY SetOption
  <2> QED
    BY <1>1, <1>4, <1>21, <2>1, <2>2
<1>9. set_option(enter(ctx, w), level, ok).ctx = [enter(ctx, w) EXCEPT !.cfg = e]
  <2>1. enter(ctx, w).cfg = g[w]
    BY <1>2, EnterLeave
  <2>2. set_option(enter(ctx, w), level, ok).ctx = [enter(ctx, w) EXCEPT !.cfg = Own(mem, enter(ctx, w).cfg, level).top]
    BY SetOptionCtx
  <2> QED
    BY <1>5, <2>1, <2>2
<1>10. Set(mem, g, w, level, ok, v, mem', g2) /\ (Strung(mem, B, freed, n) => Strung(mem', B, freed, n + 1))
  BY <1>2, <1>3, <1>5, <1>6, <1>7, <1>8, <1>21, SettingKept
<1>11. View(mem', g2) = Changed(View(mem, g), w, level, v) \/ View(mem', g2) = View(mem, g)
  BY <1>2, <1>3, <1>10, SetView
<1>12. /\ Heap(mem', g2) /\ g2[w] # Nowhere /\ g2 \in [Context -> Nat] /\ \A d \in Context : d # w => g2[d] = g[d]
       /\ \A y \in Level : Chain(mem', g2[Master])[y] = Chain(mem, g[Master])[y]
  BY <1>2, <1>10 DEF Set, Heap
<1>13. ctx' = Ctx(g[Master], Master, g2)
  <2>1. e \in Nat
    BY <1>2, <1>6, <1>12 DEF Other
  <2> QED
    <3>1. leave([enter(ctx, w) EXCEPT !.cfg = e], w) = Ctx(ctx.cfg, Master, Other(g, w, e))
      BY <1>2, <2>1, EnterLeave
    <3> QED
      BY <1>1, <1>2, <1>6, <1>9, <3>1
<1>14. ctx'.config = g2 /\ Contexts'
  BY <1>2, <1>12, <1>13 DEF Contexts, Ctx
<1>15. setls' = setls + 1 /\ setls' \in 0..MaxSetl /\ UNCHANGED <<freed, trusted, connects, fault, setgs>>
  BY CowAssumption DEF Setl, CowInv
<1>16. Blocks(mem', g2[Master]) = Blocks(mem, g[Master]) /\ Base(mem', g2) = B
  <2>1. \A y \in Level : Chain(mem', g2[Master])[y] = Chain(mem, g[Master])[y]
    BY <1>12
  <2> QED
    BY <2>1, BaseSame
<1>17. Safely'
  <2>1. setgs <= 1 => fault = "none" /\ Strung(mem, B, freed, n)
    BY <1>4 DEF CowInv, Safely
  <2>2. setgs = 0 => Blocks(mem, g[Master]) \subseteq 1..3
    BY DEF CowInv, Safely
  <2>3. setls' + setgs' = n + 1
    BY <1>2, <1>4, <1>15
  <2> HIDE DEF B, g
  <2> QED
    BY <1>10, <1>14, <1>15, <1>16, <1>21, <2>1, <2>2, <2>3 DEF Safely
<1>18. trusted' \subseteq {u \in Session : ctx'.config[u] # Nowhere}
  <2>1. Session \subseteq Context
    BY DEF Context
  <2> QED
    BY <1>12, <1>14, <1>15, <2>1 DEF CowInv
<1>19. CowInv'
  BY <1>12, <1>14, <1>15, <1>17, <1>18 DEF CowInv
<1>20. SetBy(w)
  BY <1>4, <1>11, <1>14, <1>21 DEF SetBy, Shown
<1> QED
  BY <1>19, <1>20

\* setg: the settings of the server are set, and nobody else's.
LEMMA SetgStep ==
  ASSUME CowInv, NEW w \in Session, Setg(w)
  PROVE  CowInv' /\ SetBy(Master)
<1> DEFINE g == ctx.config
           B == Base(mem, g)
<1>1. PICK level \in Level, ok \in BOOLEAN :
        /\ mem' = set_option(leave(enter(ctx, w), w), level, ok).mem
        /\ ctx' = leave(enter(set_option(leave(enter(ctx, w), w), level, ok).ctx, w), w)
  BY DEF Setg
<1>2. /\ Contexts /\ Heap(mem, g) /\ freed \in SUBSET Nat /\ setls \in Nat /\ setgs \in Nat
      /\ g \in [Context -> Nat] /\ Master \in Context /\ g[Master] # Nowhere
      /\ ctx.cfg = g[Master]
  BY CowAssumption DEF CowInv, Contexts, Heap, Context
<1>3. PICK n \in Nat : n = setls + setgs
  BY <1>2
<1>4. PICK v \in Nat : v = n + 1
  OBVIOUS
<1>5. PICK e : e = Own(mem, g[Master], level).top
  OBVIOUS
<1>6. PICK g2 : g2 = Other(g, Master, e)
  OBVIOUS
<1>7. leave(enter(ctx, w), w) = ctx
  <2>1. 0 \in Nat
    OBVIOUS
  <2> QED
    BY <1>2, <2>1, EnterLeave
<1>8. mem' = Setting(mem, g[Master], level, ok, v) /\ ctx' = leave(enter([ctx EXCEPT !.cfg = e], w), w)
  <2>1. set_option(ctx, level, ok).mem = Setting(mem, ctx.cfg, level, ok, setls + setgs + 1)
    BY SetOption
  <2>2. set_option(ctx, level, ok).ctx = [ctx EXCEPT !.cfg = Own(mem, ctx.cfg, level).top]
    BY SetOptionCtx
  <2>3. mem' = Setting(mem, g[Master], level, ok, v)
    BY <1>1, <1>2, <1>3, <1>4, <1>7, <2>1
  <2>4. ctx' = leave(enter([ctx EXCEPT !.cfg = e], w), w)
    BY <1>1, <1>2, <1>5, <1>7, <2>2
  <2> QED
    BY <2>3, <2>4
<1>9. Set(mem, g, Master, level, ok, v, mem', g2)
  BY <1>2, <1>5, <1>6, <1>8, SettingKept
<1>10. OfOthers(mem, g, Master, 1..3) /\ Strung(mem, 1..3, freed, n) => Strung(mem', 1..3, freed, n + 1)
  BY <1>2, <1>4, <1>8, SettingKept
<1>11. View(mem', g2) = Changed(View(mem, g), Master, level, v) \/ View(mem', g2) = View(mem, g)
  BY <1>2, <1>9, SetView
<1>12. Heap(mem', g2) /\ g2[Master] # Nowhere /\ g2 \in [Context -> Nat] /\ \A d \in Context : d # Master => g2[d] = g[d]
  BY <1>2, <1>9 DEF Set, Heap
<1>13. g2[Master] = e /\ e \in Nat
  BY <1>2, <1>6, <1>12 DEF Other
<1>14. ctx' = Ctx(e, Master, g2)
  BY <1>2, <1>6, <1>8, <1>13, EnterLeave
<1>15. ctx'.config = g2 /\ Contexts'
  BY <1>2, <1>12, <1>13, <1>14 DEF Contexts, Ctx
<1>16. setgs' = setgs + 1 /\ setgs' \in 0..MaxSetg /\ UNCHANGED <<freed, trusted, connects, fault, setls>>
  BY CowAssumption DEF Setg, CowInv
<1>17. Safely'
  <2>1. CASE setgs = 0
    <3>1. fault = "none" /\ Strung(mem, B, freed, n) /\ Blocks(mem, g[Master]) \subseteq 1..3
      BY <1>3, <2>1 DEF CowInv, Safely
    <3>2. B = 1..3
      BY <3>1 DEF Base
    <3>3. OfOthers(mem, g, Master, 1..3)
      BY DEF OfOthers, Static
    <3>4. Strung(mem', 1..3, freed, n + 1)
      BY <1>10, <3>1, <3>2, <3>3
    <3>5. Strung(mem', 1..3, freed, v)
      BY <1>4, <3>4
    <3>6. Strung(mem', Base(mem', g2), freed, v)
      BY <1>2, <1>12, <3>5, StrungWider DEF Base
    <3>7. setls' + setgs' = v /\ setgs' # 0
      BY <1>2, <1>3, <1>4, <1>16
    <3> QED
      BY <1>15, <1>16, <3>1, <3>6, <3>7 DEF Safely
  <2>2. CASE setgs # 0
    <3>1. ~(setgs' <= 1) /\ setgs' # 0
      BY <1>2, <1>16, <2>2
    <3> QED
      BY <3>1 DEF Safely
  <2> QED
    BY <2>1, <2>2
<1>18. trusted' \subseteq {u \in Session : ctx'.config[u] # Nowhere}
  <2>1. Session \subseteq Context /\ Master \notin Session
    BY CowAssumption DEF Context, Master
  <2> QED
    BY <1>12, <1>15, <1>16, <2>1 DEF CowInv
<1>19. CowInv'
  BY <1>12, <1>15, <1>16, <1>17, <1>18 DEF CowInv
<1>20. SetBy(Master)
  BY <1>3, <1>4, <1>11, <1>15 DEF SetBy, Shown
<1> QED
  BY <1>19, <1>20

\* context::context(): the session sees what the server has.
LEMMA ConnectStep ==
  ASSUME CowInv, NEW w \in Session, Connect(w)
  PROVE  CowInv' /\ Shown[w] = <<>> /\ Shown' = [Shown EXCEPT ![w] = Shown[Master]]
<1> DEFINE g == ctx.config
           B == Base(mem, g)
<1>1. PICK q : q = cow(cow_claim(mem, g[Master]), g[Master])
  OBVIOUS
<1>2. /\ Contexts /\ Heap(mem, g) /\ freed \in SUBSET Nat /\ setls \in Nat /\ setgs \in Nat
      /\ g \in [Context -> Nat] /\ w \in Context /\ Master \in Context /\ w # Master /\ g[Master] # Nowhere
      /\ ctx.cfg = g[Master] /\ g[w] = Nowhere
  BY CowAssumption DEF CowInv, Contexts, Heap, Context, Master, Connect
<1>3. PICK n \in Nat : n = setls + setgs
  BY <1>2
<1>4. PICK g2 : g2 = Other(g, w, q.block)
  OBVIOUS
<1>5. mem' = q.mem /\ ctx' = [ctx EXCEPT !.config = g2] /\ UNCHANGED <<freed, trusted, setls, setgs, fault>>
  BY <1>1, <1>2, <1>4 DEF Connect, Other
<1>6. /\ Apart(mem, g, mem', g2, w) /\ g2[w] # Nowhere
      /\ \A y \in Level : StringAt(mem', g2, w, y) = StringAt(mem, g, Master, y)
  BY <1>1, <1>2, <1>4, <1>5, ConnectKept
<1>7. Strung(mem, B, freed, n) /\ Blocks(mem, g[Master]) \subseteq B => Strung(mem', B, freed, n)
  BY <1>1, <1>2, <1>5, ConnectKept
<1>8. /\ Heap(mem', g2) /\ g2 \in [Context -> Nat] /\ \A d \in Context : d # w => g2[d] = g[d]
      /\ \A y \in Level : Chain(mem', g2[Master])[y] = Chain(mem, g[Master])[y]
      /\ \A d \in Context, y \in Level : d # w /\ g[d] # Nowhere => StringAt(mem', g2, d, y) = StringAt(mem, g, d, y)
  BY <1>2, <1>6 DEF Apart, Heap
<1>9. ctx'.config = g2 /\ Contexts'
  BY <1>2, <1>5, <1>8 DEF Contexts
<1>10. Blocks(mem', g2[Master]) = Blocks(mem, g[Master]) /\ Base(mem', g2) = B
  <2>1. \A y \in Level : Chain(mem', g2[Master])[y] = Chain(mem, g[Master])[y]
    BY <1>8
  <2> QED
    BY <2>1, BaseSame
<1>11. Safely'
  <2>1. setgs <= 1 => fault = "none" /\ Strung(mem, B, freed, n)
    BY <1>3 DEF CowInv, Safely
  <2>2. setgs = 0 => Blocks(mem, g[Master]) \subseteq 1..3
    BY DEF CowInv, Safely
  <2>3. Blocks(mem, g[Master]) \subseteq B
    BY DEF Base
  <2> HIDE DEF B, g
  <2> QED
    BY <1>3, <1>5, <1>7, <1>9, <1>10, <2>1, <2>2, <2>3 DEF Safely
<1>12. trusted' \subseteq {u \in Session : ctx'.config[u] # Nowhere}
  <2>1. Session \subseteq Context
    BY DEF Context
  <2> QED
    BY <1>5, <1>6, <1>8, <1>9, <2>1 DEF CowInv
<1>13. CowInv'
  BY <1>5, <1>8, <1>9, <1>11, <1>12 DEF CowInv
<1>14. Shown[w] = <<>>
  BY <1>2 DEF Shown, View
<1>15. View(mem', g2) = [View(mem, g) EXCEPT ![w] = View(mem, g)[Master]]
  <2> DEFINE at(k, h, d) == [l \in Level |-> StringAt(k, h, d, l)]
  <2>1. at(mem', g2, w) = at(mem, g, Master)
    BY <1>6
  <2>2. \A d \in Context : d # w /\ g[d] # Nowhere => at(mem', g2, d) = at(mem, g, d)
    BY <1>8
  <2>3. \A d \in Context : View(mem, g)[d] = IF g[d] # Nowhere THEN at(mem, g, d) ELSE <<>>
    BY DEF View
  <2>4. View(mem', g2) = [d \in Context |-> IF g2[d] # Nowhere THEN at(mem', g2, d) ELSE <<>>]
    BY DEF View
  <2>5. [View(mem, g) EXCEPT ![w] = View(mem, g)[Master]]
        = [d \in Context |-> IF d = w THEN View(mem, g)[Master] ELSE View(mem, g)[d]]
    BY DEF View
  <2> HIDE DEF at
  <2>6. \A d \in Context : (IF g2[d] # Nowhere THEN at(mem', g2, d) ELSE <<>>)
                           = IF d = w THEN View(mem, g)[Master] ELSE View(mem, g)[d]
    BY <1>2, <1>6, <1>8, <2>1, <2>2, <2>3
  <2> QED
    BY <2>4, <2>5, <2>6
<1>16. Shown' = [Shown EXCEPT ![w] = Shown[Master]]
  BY <1>9, <1>15 DEF Shown
<1> QED
  BY <1>13, <1>14, <1>16

\* context::~context(): what a session has goes with it.
LEMMA CloseStep ==
  ASSUME CowInv, NEW w \in Session, Close(w)
  PROVE  CowInv' /\ Shown' = [Shown EXCEPT ![w] = <<>>]
<1> DEFINE g == ctx.config
           B == Base(mem, g)
<1>1. PICK st : st = [mem |-> mem, freed |-> freed, fault |-> fault]
  OBVIOUS
<1>2. /\ Contexts /\ Heap(mem, g) /\ freed \in SUBSET Nat /\ setls \in Nat /\ setgs \in Nat
      /\ g \in [Context -> Nat] /\ w \in Context /\ Master \in Context /\ w # Master /\ g[Master] # Nowhere
      /\ ctx.cfg = g[Master] /\ g[w] # Nowhere /\ fault \in Faults /\ mem \in Seq(Blk)
  BY CowAssumption DEF CowInv, Contexts, Heap, Context, Master, Close
<1>3. st \in Holding /\ st.mem = mem /\ st.freed = freed /\ st.fault = fault
  BY <1>1, <1>2 DEF Holding
<1>4. PICK n \in Nat : n = setls + setgs
  BY <1>2
<1>5. PICK g2 : g2 = Other(g, w, Nowhere)
  OBVIOUS
<1>6. PICK e : e = cow_unclaim(st, g[w])
  OBVIOUS
<1>7. /\ mem' = e.mem /\ freed' = e.freed /\ fault' = e.fault /\ ctx' = [ctx EXCEPT !.config = g2]
      /\ trusted' = trusted \ {w} /\ UNCHANGED <<setls, setgs>>
  BY <1>1, <1>2, <1>5, <1>6 DEF Close, Other
<1>8. OfOthers(mem, g, w, B)
  BY <1>2 DEF OfOthers, Base, Static
<1>9. e \in Holding /\ Apart(mem, g, mem', g2, w)
  BY <1>2, <1>3, <1>4, <1>5, <1>6, <1>7, CloseKept
<1>10. fault = "none" /\ Strung(mem, B, freed, n) => fault' = "none" /\ Strung(mem', B, freed', n)
  BY <1>2, <1>3, <1>6, <1>7, <1>8, CloseKept
<1>11. g2[w] = Nowhere
  BY <1>2, <1>5 DEF Other
<1>12. /\ Heap(mem', g2) /\ g2 \in [Context -> Nat] /\ \A d \in Context : d # w => g2[d] = g[d]
       /\ \A y \in Level : Chain(mem', g2[Master])[y] = Chain(mem, g[Master])[y]
       /\ \A d \in Context, y \in Level : d # w /\ g[d] # Nowhere => StringAt(mem', g2, d, y) = StringAt(mem, g, d, y)
  BY <1>2, <1>9 DEF Apart, Heap
<1>13. ctx'.config = g2 /\ Contexts'
  BY <1>2, <1>7, <1>12 DEF Contexts
<1>14. Blocks(mem', g2[Master]) = Blocks(mem, g[Master]) /\ Base(mem', g2) = B
  <2>1. \A y \in Level : Chain(mem', g2[Master])[y] = Chain(mem, g[Master])[y]
    BY <1>12
  <2> QED
    BY <2>1, BaseSame
<1>15. Safely'
  <2>1. setgs <= 1 => fault = "none" /\ Strung(mem, B, freed, n)
    BY <1>4 DEF CowInv, Safely
  <2>2. setgs = 0 => Blocks(mem, g[Master]) \subseteq 1..3
    BY DEF CowInv, Safely
  <2> HIDE DEF B, g
  <2> QED
    BY <1>4, <1>7, <1>10, <1>13, <1>14, <2>1, <2>2 DEF Safely
<1>16. trusted' \subseteq {u \in Session : ctx'.config[u] # Nowhere}
  <2>1. Session \subseteq Context
    BY DEF Context
  <2> QED
    BY <1>7, <1>12, <1>13, <2>1 DEF CowInv
<1>17. freed' \in SUBSET Nat /\ fault' \in Faults
  BY <1>7, <1>9 DEF Holding
<1>18. CowInv'
  BY <1>7, <1>12, <1>13, <1>15, <1>16, <1>17 DEF CowInv
<1>19. View(mem', g2) = [View(mem, g) EXCEPT ![w] = <<>>]
  <2> DEFINE at(k, h, d) == [l \in Level |-> StringAt(k, h, d, l)]
  <2>1. \A d \in Context : d # w /\ g[d] # Nowhere => at(mem', g2, d) = at(mem, g, d)
    BY <1>12
  <2>2. \A d \in Context : View(mem, g)[d] = IF g[d] # Nowhere THEN at(mem, g, d) ELSE <<>>
    BY DEF View
  <2>3. View(mem', g2) = [d \in Context |-> IF g2[d] # Nowhere THEN at(mem', g2, d) ELSE <<>>]
    BY DEF View
  <2>4. [View(mem, g) EXCEPT ![w] = <<>>] = [d \in Context |-> IF d = w THEN <<>> ELSE View(mem, g)[d]]
    BY DEF View
  <2> HIDE DEF at
  <2>5. \A d \in Context : (IF g2[d] # Nowhere THEN at(mem', g2, d) ELSE <<>>) = IF d = w THEN <<>> ELSE View(mem, g)[d]
    BY <1>11, <1>12, <2>1, <2>2
  <2> QED
    BY <2>3, <2>4, <2>5
<1>20. Shown' = [Shown EXCEPT ![w] = <<>>]
  BY <1>13, <1>19 DEF Shown
<1> QED
  BY <1>18, <1>20

-----------------------------------------------------------------------------
(* What is proved.                                                         *)

\* A step of the contexts keeps the invariant.
LEMMA NextCow == CowInv /\ [CowNext]_cowVars => CowInv'
<1> SUFFICES ASSUME CowInv, [CowNext]_cowVars PROVE CowInv'
  OBVIOUS
<1>1. CASE UNCHANGED cowVars
  BY <1>1 DEF cowVars, CowInv, Contexts, Safely, Base
<1>2. CASE CowNext
  <2>1. PICK w \in Session : Connect(w) \/ Pass(w) \/ Setl(w) \/ Setg(w) \/ Close(w)
    BY <1>2 DEF CowNext
  <2>2. CASE Connect(w)
    BY <2>2, ConnectStep
  <2>3. CASE Pass(w)
    BY <2>3 DEF Pass, CowInv, Contexts, Safely, Base
  <2>4. CASE Setl(w)
    BY <2>4, SetlStep
  <2>5. CASE Setg(w)
    BY <2>5, SetgStep
  <2>6. CASE Close(w)
    BY <2>6, CloseStep
  <2> QED
    BY <2>1, <2>2, <2>3, <2>4, <2>5, <2>6
<1> QED
  BY <1>1, <1>2

\* The blocks are counted right, and what is used is there.
LEMMA InvCow == CowInv => Owned
<1> SUFFICES ASSUME CowInv PROVE Owned
  OBVIOUS
<1> DEFINE g == ctx.config
<1>1. /\ Heap(mem, g) /\ mem \in Seq(Blk) /\ setgs \in Nat
      /\ \A b \in 1..Len(mem) : Right(mem, g, b)
  BY CowAssumption DEF CowInv, Heap
<1>2. DOMAIN mem = 1..Len(mem)
  BY <1>1
<1>3. \A b : Claimants(b) = Claim(mem, g, b)
  BY DEF Claimants, Claim, Connected
<1>4. Counted
  <2> SUFFICES ASSUME NEW b \in 1..Len(mem)
               PROVE  IF mem[b].live THEN Counts(mem, g, b) > 0 /\ mem[b].cow = Counts(mem, g, b) - 1
                      ELSE Counts(mem, g, b) = 0
    BY <1>2, <1>3 DEF Counted, Counts
  <2> QED
    BY <1>1 DEF Right
<1>5. ASSUME setgs <= 1 PROVE NoneDangling
  <2>1. fault = "none" /\ Strung(mem, Base(mem, g), freed, setls + setgs)
    BY <1>5 DEF CowInv, Safely
  <2>2. ASSUME NEW c \in Context, g[c] # Nowhere, NEW l \in Level PROVE StringAt(mem, g, c, l) \notin freed
    <3> DEFINE b == Chain(mem, g[c])[l]
    <3>1. b \in 1..Len(mem) /\ c \in Claim(mem, g, b)
      BY <1>1, <2>2, InChain
    <3>2. mem[b].live
      BY <1>1, <2>2, <3>1, Private
    <3> HIDE DEF b
    <3>3. mem[b].parent \in Base(mem, g) /\ mem[mem[b].parent].str \notin freed
      BY <2>1, <3>1 DEF Strung
    <3>4. mem[b].str \notin freed
      BY <2>1, <3>1, <3>2, <3>3 DEF Strung, OwnString
    <3> QED
      BY <3>4 DEF StringAt, b
  <2>3. \A c \in Connected, l \in Level : Seen(c)[l] = StringAt(mem, g, c, l)
    BY DEF Seen, StringAt
  <2> QED
    BY <2>1, <2>2, <2>3 DEF NoneDangling, Connected
<1> QED
  BY <1>4, <1>5 DEF Owned, OnceSafe

\* In every reachable state, the invariant holds.
THEOREM CowInvariant == CowSpec => []CowInv
  BY InitCow, NextCow, PTL DEF CowSpec

\* Settings live as long as they are used, and no longer: the counts of the blocks are
\* right whatever was copied, and no string is missing as long as setg was used only once.
THEOREM SettingsOwned == CowSpec => []Owned
  BY CowInvariant, InvCow, PTL

-----------------------------------------------------------------------------
(* Contexts have settings of their own.                                    *)

\* What the contract is about.
Given == [c \in Context |-> IF c \in Connected THEN Seen(c) ELSE <<>>]

\* It is what the contexts see.
GivenIs == Given = Shown

\* Always.
LEMMA GivenShown == GivenIs
<1>1. \A c \in Context : (c \in Connected <=> ctx.config[c] # Nowhere) /\ Seen(c) = [l \in Level |-> StringAt(mem, ctx.config, c, l)]
  BY DEF Connected, Seen, StringAt
<1> QED
  BY <1>1 DEF GivenIs, Given, Shown, View

\* At the beginning, the server has its settings and there are no sessions.
LEMMA InitIsolated == CowInit => Contract!Init
<1> SUFFICES ASSUME CowInit PROVE Given = [c \in Context |-> IF c = Master THEN [l \in Level |-> 0] ELSE <<>>]
  BY DEF Contract!Init, Contract!None, Contract!Master, Given, Context, Master
<1>1. mem = <<Block(1, 2), Block(2, 3), Block(3, Nowhere)>>
      /\ ctx.config = [c \in Context |-> IF c = Master THEN 1 ELSE Nowhere]
  BY DEF CowInit
<1>2. \A c \in Context : c \in Connected <=> c = Master
  BY <1>1 DEF Connected, Nowhere
<1>3. /\ mem[1].str = 0 /\ mem[1].sub = 2 /\ mem[2].str = 0 /\ mem[2].sub = 3 /\ mem[3].str = 0
  BY <1>1 DEF Block
<1>4. ctx.config[Master] = 1
  BY <1>1 DEF Context
<1>5. Chain(mem, ctx.config[Master]) = <<1, 2, 3>>
  BY <1>3, <1>4 DEF Chain
<1>6. \A l \in Level : mem[Chain(mem, ctx.config[Master])[l]].str = 0
  BY <1>3, <1>5 DEF Level
<1>7. Seen(Master) = [l \in Level |-> 0]
  BY <1>6 DEF Seen
<1> QED
  BY <1>2, <1>7 DEF Given

\* Every step is one of the contract's, or changes nothing that a context sees.
LEMMA StepIsolated == CowInv /\ [CowNext]_cowVars => [Contract!Next]_Given
<1> SUFFICES ASSUME CowInv, [CowNext]_cowVars PROVE Contract!Next \/ Given' = Given
  OBVIOUS
<1>1. Given = Shown /\ Given' = Shown'
  <2>1. GivenIs /\ GivenIs'
    BY GivenShown, PTL
  <2> QED
    BY <2>1 DEF GivenIs
<1>2. Given = [c \in Context |-> IF c \in Connected THEN Seen(c) ELSE <<>>]
  BY DEF Given
<1>3. setls \in 0..MaxSetl /\ setgs \in 0..MaxSetg
  BY DEF CowInv
<1>4. CASE UNCHANGED cowVars
  BY <1>1, <1>4 DEF cowVars, Shown, View, StringAt, Chain
<1>5. CASE CowNext
  <2>1. PICK w \in Session : Connect(w) \/ Pass(w) \/ Setl(w) \/ Setg(w) \/ Close(w)
    BY <1>5 DEF CowNext
  <2>2. ASSUME NEW c \in Context, SetBy(c), ctx.config[c] # Nowhere, setls + setgs + 1 \in 0..(MaxSetl + MaxSetg)
        PROVE  Contract!Next \/ Given' = Given
    <3>1. CASE Shown' = Shown
      BY <1>1, <3>1
    <3>2. CASE Shown' # Shown
      <4>1. PICK level \in Level : Shown' = Changed(Shown, c, level, setls + setgs + 1)
        BY <2>2, <3>2 DEF SetBy
      <4>2. Shown[c] # <<>>
        <5>1. Shown[c] = [l \in Level |-> StringAt(mem, ctx.config, c, l)]
          BY <2>2 DEF Shown, View
        <5>2. 1 \in DOMAIN Shown[c]
          BY <5>1 DEF Level
        <5> QED
          BY <5>2
      <4>3. Given[c] # <<>> /\ Given' = [Given EXCEPT ![c][level] = setls + setgs + 1]
        BY <1>1, <4>1, <4>2 DEF Changed
      <4>4. PICK v \in 0..(MaxSetl + MaxSetg) : v = setls + setgs + 1
        BY <2>2
      <4>5. Contract!Set(c, level, v)
        BY <4>3, <4>4 DEF Contract!Set, Contract!None, Given
      <4>6. c \in Session \cup {Contract!Master}
        BY <2>2 DEF Contract!Master, Context, Master
      <4> QED
        BY <4>5, <4>6 DEF Contract!Next
    <3> QED
      BY <3>1, <3>2
  <2>3. CASE Connect(w)
    <3>1. Shown[w] = <<>> /\ Shown' = [Shown EXCEPT ![w] = Shown[Master]]
      BY <2>3, ConnectStep
    <3>2. Contract!Connect(w)
      BY <1>1, <3>1 DEF Contract!Connect, Contract!None, Contract!Master, Master, Given
    <3> QED
      BY <3>2 DEF Contract!Next
  <2>4. CASE Pass(w)
    BY <1>1, <2>4 DEF Pass, Shown, View, StringAt, Chain
  <2>5. CASE Setl(w)
    <3>1. SetBy(w)
      BY <2>5, SetlStep
    <3>2. ctx.config[w] # Nowhere /\ setls < MaxSetl /\ w \in Context
      BY <2>5 DEF Setl, Context
    <3>3. setls + setgs + 1 \in 0..(MaxSetl + MaxSetg)
      BY <1>3, <3>2, CowAssumption
    <3> QED
      BY <2>2, <3>1, <3>2, <3>3
  <2>6. CASE Setg(w)
    <3>1. SetBy(Master)
      BY <2>6, SetgStep
    <3>2. ctx.config[Master] # Nowhere /\ setgs < MaxSetg /\ Master \in Context
      BY <2>6 DEF Setg, Context, CowInv, Heap
    <3>3. setls + setgs + 1 \in 0..(MaxSetl + MaxSetg)
      BY <1>3, <3>2, CowAssumption
    <3> QED
      BY <2>2, <3>1, <3>2, <3>3
  <2>7. CASE Close(w)
    <3>1. Shown' = [Shown EXCEPT ![w] = <<>>]
      BY <2>7, CloseStep
    <3>2. Contract!Close(w)
      BY <1>1, <3>1 DEF Contract!Close, Contract!None, Given
    <3> QED
      BY <3>2 DEF Contract!Next
  <2> QED
    BY <2>1, <2>3, <2>4, <2>5, <2>6, <2>7
<1> QED
  BY <1>4, <1>5

\* Contexts that share what they can have settings of their own (refinement of Settings).
THEOREM SettingsIsolated == CowSpec => Isolated
<1>1. CowInv /\ [CowNext]_cowVars => [Contract!Next]_Given
  BY StepIsolated
<1> QED
  BY <1>1, InitIsolated, CowInvariant, PTL DEF CowSpec, Isolated, Contract!Spec, Given

-----------------------------------------------------------------------------
(* Places in a text.                                                       *)

\* A finite set of numbers has a greatest one.
LEMMA Greatest ==
  ASSUME NEW S \in SUBSET Nat, S # {}, NEW n \in Nat, \A x \in S : x <= n
  PROVE  Max(S) \in S /\ \A x \in S : Max(S) >= x
<1> DEFINE R == {n - x : x \in S}
<1>1. R \subseteq Nat /\ R # {}
  <2>1. \A x \in S : n - x \in Nat
    OBVIOUS
  <2>2. PICK y \in S : TRUE
    OBVIOUS
  <2>3. n - y \in R
    OBVIOUS
  <2> QED
    BY <2>1, <2>3
<1>2. PICK a \in R : \A b \in R : <<b, a>> \notin OpToRel(<, Nat)
  BY <1>1, NatLessThanWellFounded, WFMin
<1>3. PICK m \in S : a = n - m
  BY <1>2
<1>4. \A x \in S : m >= x
  <2> SUFFICES ASSUME NEW x \in S, m < x PROVE FALSE
    OBVIOUS
  <2>1. n - x \in R /\ n - x < a /\ n - x \in Nat /\ a \in Nat
    BY <1>1, <1>3
  <2> HIDE DEF R
  <2> QED
    BY <1>2, <2>1 DEF OpToRel
<1> QED
  BY <1>4 DEF Max

\* How many places there are up to one of them.
LEMMA RankGrows ==
  ASSUME NEW n \in Nat, NEW P \in SUBSET (1..n), NEW i \in 0..n, NEW j \in P, i < j
  PROVE  /\ IsFiniteSet(P) /\ Cardinality(P) \in Nat /\ Cardinality(P) <= n
         /\ Rank(P, i) \in Nat /\ Rank(P, j) \in Nat /\ Rank(P, i) < Rank(P, j) /\ Rank(P, j) <= Cardinality(P)
<1> DEFINE A == P \cap 1..i
           B == P \cap 1..j
<1>1. IsFiniteSet(1..n) /\ Cardinality(1..n) = n
  BY FS_Interval
<1>2. IsFiniteSet(P) /\ Cardinality(P) <= n /\ Cardinality(P) \in Nat
  BY <1>1, FS_Subset, FS_CardinalityType
<1>3. IsFiniteSet(B) /\ Cardinality(B) <= Cardinality(P) /\ Cardinality(B) \in Nat
  BY <1>2, FS_Subset, FS_CardinalityType
<1>4. IsFiniteSet(A) /\ Cardinality(A) \in Nat /\ j \notin A /\ j \in B
  <2>1. j \notin A /\ j \in B
    OBVIOUS
  <2>2. A \subseteq P
    OBVIOUS
  <2> QED
    BY <1>2, <2>1, <2>2, FS_Subset, FS_CardinalityType
<1>5. A \cup {j} \subseteq B
  OBVIOUS
<1>6. Cardinality(A \cup {j}) = Cardinality(A) + 1
  <2> HIDE DEF A, B
  <2> QED
    BY <1>4, FS_AddElement
<1>7. Cardinality(A \cup {j}) <= Cardinality(B)
  <2> HIDE DEF A, B
  <2> QED
    BY <1>3, <1>5, FS_Subset
<1>8. Rank(P, i) = Cardinality(A) /\ Rank(P, j) = Cardinality(B)
  BY DEF Rank
<1> HIDE DEF A, B
<1> QED
  BY <1>2, <1>3, <1>4, <1>6, <1>7, <1>8

\* Every place has a rank, and for every rank there is one place.
LEMMA Ranked ==
  ASSUME NEW n \in Nat, NEW P \in SUBSET (1..n)
  PROVE  /\ IsFiniteSet(P) /\ Cardinality(P) \in Nat /\ Cardinality(P) <= n
         /\ \A j \in P : Rank(P, j) \in 1..Cardinality(P)
         /\ \A i, j \in P : Rank(P, i) = Rank(P, j) => i = j
         /\ \A k \in 1..Cardinality(P) : \E i \in P : Rank(P, i) = k
<1>1. IsFiniteSet(P) /\ Cardinality(P) \in Nat /\ Cardinality(P) <= n
  <2>1. IsFiniteSet(1..n) /\ Cardinality(1..n) = n
    BY FS_Interval
  <2> QED
    BY <2>1, FS_Subset, FS_CardinalityType
<1>2. \A j \in P : j \in 1..n /\ 0 < j
  OBVIOUS
<1>3. \A j \in P : Rank(P, j) \in 1..Cardinality(P)
  <2> SUFFICES ASSUME NEW j \in P PROVE Rank(P, j) \in 1..Cardinality(P)
    OBVIOUS
  <2>1. 0 \in 0..n /\ 0 < j
    BY <1>2
  <2>2. Rank(P, 0) \in Nat /\ Rank(P, j) \in Nat /\ Rank(P, 0) < Rank(P, j) /\ Rank(P, j) <= Cardinality(P)
    BY <2>1, RankGrows
  <2> QED
    BY <1>1, <2>2
<1>4. \A i, j \in P : i < j => Rank(P, i) < Rank(P, j)
  <2> SUFFICES ASSUME NEW i \in P, NEW j \in P, i < j PROVE Rank(P, i) < Rank(P, j)
    OBVIOUS
  <2>1. i \in 0..n
    BY <1>2
  <2> QED
    BY <2>1, RankGrows
<1>5. \A i, j \in P : Rank(P, i) = Rank(P, j) => i = j
  BY <1>2, <1>3, <1>4
<1>6. ASSUME NEW k \in 1..Cardinality(P) PROVE \E i \in P : Rank(P, i) = k
  <2> DEFINE T == {i \in P : Rank(P, i) >= k}
  <2>1. T \in SUBSET Nat /\ T # {}
    <3>1. P # {}
      BY <1>6, FS_EmptySet
    <3>2. P \in SUBSET Nat /\ \A x \in P : x <= n
      BY <1>2
    <3>3. PICK m \in P : \A x \in P : m >= x
      BY <3>1, <3>2, Greatest
    <3>4. P \cap 1..m = P
      <4>1. \A x \in P : x \in 1..m
        BY <1>2, <3>3
      <4> QED
        BY <4>1
    <3>5. Rank(P, m) = Cardinality(P)
      BY <3>4 DEF Rank
    <3>6. m \in T
      BY <1>1, <3>5
    <3>7. \A x \in T : x \in Nat
      BY <1>2
    <3> HIDE DEF T
    <3> QED
      BY <3>6, <3>7
  <2>2. PICK i \in T : \A j \in T : <<j, i>> \notin OpToRel(<, Nat)
    BY <2>1, NatLessThanWellFounded, WFMin
  <2>3. \A j \in T : ~(j < i)
    BY <2>1, <2>2 DEF OpToRel
  <2>4. i \in P /\ Rank(P, i) >= k /\ Rank(P, i) \in 1..Cardinality(P)
    BY <1>3
  <2>5. ASSUME Rank(P, i) # k PROVE FALSE
    <3> DEFINE A == P \cap 1..i - 1
    <3>1. P \cap 1..i = A \cup {i} /\ i \notin A
      BY <1>2, <2>4
    <3>2. A \subseteq P
      OBVIOUS
    <3>3. IsFiniteSet(A) /\ Cardinality(A) \in Nat
      BY <1>1, <3>2, FS_Subset, FS_CardinalityType
    <3> HIDE DEF A
    <3>4. Rank(P, i) = Cardinality(A) + 1
      BY <3>1, <3>3, FS_AddElement DEF Rank
    <3>5. Cardinality(A) >= k /\ Cardinality(A) >= 1
      BY <1>1, <2>4, <2>5, <3>3, <3>4
    <3>6. A # {}
      BY <3>5, FS_EmptySet
    <3>7. A \in SUBSET Nat /\ \A x \in A : x <= n
      BY <1>2, <3>2
    <3>8. PICK m \in A : \A x \in A : m >= x
      BY <3>6, <3>7, Greatest
    <3>9. m \in P /\ m < i /\ P \cap 1..m = A
      BY <1>2, <2>4, <3>8 DEF A
    <3>10. Rank(P, m) = Cardinality(A)
      BY <3>9 DEF Rank
    <3>11. m \in T
      BY <3>5, <3>9, <3>10
    <3> QED
      BY <2>3, <3>9, <3>11
  <2> QED
    BY <2>4, <2>5
<1> QED
  BY <1>1, <1>3, <1>5, <1>6

\* What remains of a text.
LEMMA RemainingIs ==
  ASSUME NEW S, NEW text \in Seq(S), NEW P \in SUBSET (1..Len(text))
  PROVE  /\ Remaining(text, P) \in Seq(S) /\ Len(Remaining(text, P)) <= Len(text)
         /\ \A c : (\E k \in DOMAIN Remaining(text, P) : Remaining(text, P)[k] = c) <=> \E i \in P : text[i] = c
<1> DEFINE at(k) == CHOOSE i \in P : Rank(P, i) = k
           q == Remaining(text, P)
           m == Cardinality(P)
<1>1. /\ IsFiniteSet(P) /\ m \in Nat /\ m <= Len(text)
      /\ \A j \in P : Rank(P, j) \in 1..m
      /\ \A i, j \in P : Rank(P, i) = Rank(P, j) => i = j
      /\ \A k \in 1..m : \E i \in P : Rank(P, i) = k
  <2>1. Len(text) \in Nat
    OBVIOUS
  <2> QED
    BY <2>1, Ranked
<1>2. q = [k \in 1..m |-> text[at(k)]]
  BY DEF Remaining
<1> HIDE DEF m
<1>3. \A k \in 1..m : at(k) \in P /\ Rank(P, at(k)) = k
  BY <1>1
<1>4. \A i \in P : at(Rank(P, i)) = i
  BY <1>1, <1>3
<1> HIDE DEF at, q
<1>5. \A i \in P : text[i] \in S
  BY ElementOfSeq
<1>6. q \in Seq(S) /\ Len(q) = m /\ DOMAIN q = 1..m
  <2>1. \A k \in 1..m : text[at(k)] \in S
    BY <1>3, <1>5
  <2>2. q \in [1..m -> S]
    BY <1>2, <2>1
  <2>3. m \in Nat
    BY <1>1
  <2> QED
    BY <2>2, <2>3
<1>7. \A c : (\E k \in 1..m : q[k] = c) <=> \E i \in P : text[i] = c
  BY <1>1, <1>2, <1>3, <1>4
<1> QED
  BY <1>1, <1>6, <1>7 DEF q

\* An initial part of the places is known by its length.
LEMMA Initial ==
  ASSUME NEW n \in Nat, NEW A \in SUBSET (1..n), \A i \in A : 1..i \subseteq A
  PROVE  /\ Cardinality(A) \in 0..n /\ A = 1..Cardinality(A)
<1>1. CASE A = {}
  <2>1. Cardinality(A) = 0
    BY <1>1, FS_EmptySet
  <2> QED
    BY <1>1, <2>1
<1>2. CASE A # {}
  <2>1. A \in SUBSET Nat /\ \A x \in A : x <= n
    OBVIOUS
  <2>2. PICK m \in A : \A x \in A : m >= x
    BY <1>2, <2>1, Greatest
  <2>3. A = 1..m /\ m \in 1..n
    <3>1. m \in 1..n
      OBVIOUS
    <3>2. \A x \in A : x \in 1..m
      BY <2>2
    <3>3. 1..m \subseteq A
      OBVIOUS
    <3> QED
      BY <3>1, <3>2, <3>3
  <2>4. Cardinality(1..m) = m
    BY <2>3, FS_Interval
  <2> QED
    BY <2>3, <2>4
<1> QED
  BY <1>1, <1>2

-----------------------------------------------------------------------------
(* The constructors.                                                       *)

\* The leading exclamation marks are the places up to some length.
LEMMA LeadingIs ==
  ASSUME NEW text \in Seq(0..MAX_SIZE - 1)
  PROVE  /\ Leading(text) \in 0..Len(text)
         /\ \A i \in 1..Leading(text) : text[i] = EXCL
         /\ Leading(text) + 1 \in 1..Len(text) => text[Leading(text) + 1] # EXCL
<1> DEFINE A == {i \in Bangs(text) : \A j \in 1..i : j \in Bangs(text)}
           n == Len(text)
<1>1. n \in Nat /\ Bangs(text) \subseteq 1..n
  BY DEF Bangs
<1>2. A \in SUBSET (1..n)
  BY <1>1
<1>3. \A i \in A : 1..i \subseteq A
  <2> SUFFICES ASSUME NEW i \in A, NEW j \in 1..i PROVE j \in A
    OBVIOUS
  <2>1. i \in 1..n /\ \A k \in 1..i : k \in Bangs(text)
    BY <1>2
  <2>2. j \in Bangs(text) /\ \A k \in 1..j : k \in 1..i
    BY <2>1
  <2> QED
    BY <2>1, <2>2
<1>4. Leading(text) = Cardinality(A)
  BY DEF Leading
<1> HIDE DEF A
<1>5. Cardinality(A) \in 0..n /\ A = 1..Cardinality(A)
  BY <1>1, <1>2, <1>3, Initial
<1>6. \A i \in A : text[i] = EXCL
  BY DEF A, Bangs
<1>7. ASSUME Leading(text) + 1 \in 1..n, text[Leading(text) + 1] = EXCL PROVE FALSE
  <2> DEFINE k == Leading(text) + 1
  <2>1. k \in Bangs(text) /\ k \in 1..n /\ k \notin A
    BY <1>1, <1>4, <1>5, <1>7 DEF Bangs
  <2>2. \A j \in 1..k : j \in Bangs(text)
    <3> SUFFICES ASSUME NEW j \in 1..k PROVE j \in Bangs(text)
      OBVIOUS
    <3>1. CASE j = k
      BY <2>1, <3>1
    <3>2. CASE j # k
      <4>1. j \in A
        BY <1>1, <1>4, <1>5, <3>2
      <4> QED
        BY <4>1 DEF A
    <3> QED
      BY <3>1, <3>2
  <2> HIDE DEF k
  <2> QED
    BY <2>1, <2>2 DEF A
<1> QED
  BY <1>1, <1>4, <1>5, <1>6, <1>7

\* The rest of a text, without them.
LEMMA StrippedIs ==
  ASSUME NEW text \in Seq(0..MAX_SIZE - 1)
  PROVE  /\ Stripped(text) \in Seq(0..MAX_SIZE - 1) /\ Len(Stripped(text)) = Len(text) - Leading(text)
         /\ \A k \in 1..Len(text) - Leading(text) : Stripped(text)[k] = text[k + Leading(text)]
<1> DEFINE v == Stripped(text)
           l == Leading(text)
<1>1. l \in 0..Len(text) /\ Len(text) \in Nat
  BY LeadingIs
<1>2. v = SubSeq(text, l + 1, Len(text))
  BY DEF Stripped
<1> HIDE DEF v, l
<1>3. \A k \in 1..Len(text) : text[k] \in 0..MAX_SIZE - 1
  BY ElementOfSeq
<1>4. Len(v) = Len(text) - l /\ \A k \in 1..Len(text) - l : v[k] = text[k + l]
  <2>1. \A k \in l + 1..Len(text) : text[k] \in 0..MAX_SIZE - 1
    BY <1>1, <1>3
  <2> QED
    BY <1>1, <1>2, <2>1, SubSeqProperties
<1>5. v \in Seq(0..MAX_SIZE - 1)
  BY <1>1, <1>2, <1>3, SubSeqProperties
<1> QED
  BY <1>4, <1>5 DEF v, l

\* Of the rest of a text: at most one exclamation mark, and not at the beginning.
Barred(v) == ~(Cardinality(Bangs(v)) > 1) /\ (v # <<>> => v[1] # EXCL)

\* unexcl() leaves the characters before it that are not after it.
LEMMA ExcludedIs ==
  ASSUME NEW v \in Seq(0..MAX_SIZE - 1), Barred(v)
  PROVE  /\ Excluded(v) \in Seq(1..MAX_SIZE - 1) /\ Len(Excluded(v)) <= Len(v)
         /\ \/ /\ \A k \in 1..Len(v) : v[k] # EXCL
               /\ Excluded(v) = v
            \/ \E b \in 2..Len(v) :
                 /\ \A k \in 1..Len(v) : v[k] = EXCL <=> k = b
                 /\ \A c : (\E k \in DOMAIN Excluded(v) : Excluded(v)[k] = c)
                             <=> \E i \in 1..b - 1 : v[i] = c /\ \A j \in b + 1..Len(v) : v[j] # c
<1>1. /\ Len(v) \in Nat /\ DOMAIN v = 1..Len(v) /\ MAX_SIZE \in Nat
      /\ \A k \in 1..Len(v) : v[k] \in 0..MAX_SIZE - 1
  BY ElementOfSeq, CharAssumption
<1>2. CASE Bangs(v) = {}
  <2>1. \A k \in 1..Len(v) : v[k] # EXCL /\ v[k] \in 1..MAX_SIZE - 1
    BY <1>1, <1>2 DEF Bangs, EXCL
  <2>2. Excluded(v) = v
    BY <1>2 DEF Excluded
  <2>3. v \in Seq(1..MAX_SIZE - 1)
    BY <1>1, <2>1
  <2> QED
    BY <1>1, <2>1, <2>2, <2>3
<1>3. CASE Bangs(v) # {}
  <2>1. PICK b : b \in Bangs(v)
    BY <1>3
  <2>2. b \in 1..Len(v) /\ v[b] = EXCL
    BY <1>1, <2>1 DEF Bangs
  <2>3. Bangs(v) = {b}
    <3>1. IsFiniteSet(1..Len(v))
      BY <1>1, FS_Interval
    <3>2. IsFiniteSet(Bangs(v)) /\ Cardinality(Bangs(v)) \in Nat
      BY <1>1, <3>1, FS_Subset, FS_CardinalityType DEF Bangs
    <3>3. SUFFICES ASSUME NEW a \in Bangs(v), a # b PROVE FALSE
      BY <2>1
    <3>4. {a} \cup {b} \subseteq Bangs(v)
      BY <2>1
    <3>5. Cardinality({a}) = 1 /\ IsFiniteSet({a}) /\ b \notin {a}
      BY <3>3, FS_Singleton
    <3>6. Cardinality({a} \cup {b}) = 2
      <4> DEFINE A == {a}
      <4>1. IsFiniteSet(A) /\ b \notin A /\ Cardinality(A) = 1
        BY <3>5
      <4> HIDE DEF A
      <4>2. Cardinality(A \cup {b}) = Cardinality(A) + 1
        BY <4>1, FS_AddElement
      <4>3. Cardinality(A \cup {b}) = 2
        BY <4>1, <4>2
      <4> QED
        BY <4>3 DEF A
    <3>7. 2 <= Cardinality(Bangs(v))
      BY <3>2, <3>4, <3>6, FS_Subset
    <3> QED
      BY <3>2, <3>7 DEF Barred
  <2>4. Max(Bangs(v)) = b
    <3>1. {b} \in SUBSET Nat /\ {b} # {} /\ b \in Nat /\ \A x \in {b} : x <= b
      BY <2>2
    <3>2. Max({b}) \in {b}
      BY <3>1, Greatest
    <3> QED
      BY <2>3, <3>2
  <2>5. b \in 2..Len(v)
    <3>1. v # <<>>
      BY <2>2
    <3>2. b # 1
      BY <2>2, <3>1 DEF Barred
    <3> QED
      BY <1>1, <2>2, <3>2
  <2>6. \A k \in 1..Len(v) : v[k] = EXCL <=> k = b
    BY <1>1, <2>2, <2>3 DEF Bangs
  <2> DEFINE P == {k \in 1..b - 1 : v[k] \notin {v[j] : j \in b + 1..Len(v)}}
  <2>7. Excluded(v) = Remaining(v, P)
    BY <1>3, <2>4 DEF Excluded
  <2>8. P \in SUBSET (1..Len(v)) /\ \A i \in P : v[i] \in 1..MAX_SIZE - 1
    <3>1. \A k \in 1..b - 1 : k \in 1..Len(v) /\ k # b
      BY <1>1, <2>5
    <3>2. \A k \in 1..b - 1 : v[k] \in 0..MAX_SIZE - 1 /\ v[k] # EXCL
      BY <1>1, <2>6, <3>1
    <3> QED
      BY <1>1, <3>1, <3>2 DEF EXCL
  <2>9. \A c : (\E i \in P : v[i] = c) <=> \E i \in 1..b - 1 : v[i] = c /\ \A j \in b + 1..Len(v) : v[j] # c
    OBVIOUS
  <2> HIDE DEF P
  <2> DEFINE q == Remaining(v, P)
  <2>10. /\ q \in Seq(0..MAX_SIZE - 1) /\ Len(q) <= Len(v)
         /\ \A c : (\E k \in DOMAIN q : q[k] = c) <=> \E i \in P : v[i] = c
    <3>1. v \in Seq(0..MAX_SIZE - 1) /\ P \in SUBSET (1..Len(v))
      BY <2>8
    <3>2. /\ Remaining(v, P) \in Seq(0..MAX_SIZE - 1) /\ Len(Remaining(v, P)) <= Len(v)
          /\ \A c : (\E k \in DOMAIN Remaining(v, P) : Remaining(v, P)[k] = c) <=> \E i \in P : v[i] = c
      BY <3>1, RemainingIs
    <3> QED
      BY <3>2
  <2> HIDE DEF q
  <2>11. q \in Seq(1..MAX_SIZE - 1)
    <3>1. \A k \in DOMAIN q : q[k] \in 1..MAX_SIZE - 1
      BY <2>8, <2>10
    <3>2. DOMAIN q = 1..Len(q) /\ Len(q) \in Nat
      BY <2>10
    <3>3. q = [k \in DOMAIN q |-> q[k]]
      BY <2>10
    <3>4. q \in [1..Len(q) -> 1..MAX_SIZE - 1]
      BY <3>1, <3>2, <3>3
    <3>5. \A S, n : n \in Nat /\ q \in [1..n -> S] => q \in Seq(S)
      BY SeqDef
    <3> QED
      BY <3>2, <3>4, <3>5, Zenon
  <2>12. Excluded(v) = q
    BY <2>7 DEF q
  <2>13. \A c : (\E k \in DOMAIN q : q[k] = c) <=> \E i \in 1..b - 1 : v[i] = c /\ \A j \in b + 1..Len(v) : v[j] # c
    BY <2>9, <2>10
  <2> HIDE DEF q
  <2>14. /\ \A k \in 1..Len(v) : v[k] = EXCL <=> k = b
         /\ \A c : (\E k \in DOMAIN Excluded(v) : Excluded(v)[k] = c)
                     <=> \E i \in 1..b - 1 : v[i] = c /\ \A j \in b + 1..Len(v) : v[j] # c
    BY <2>6, <2>12, <2>13
  <2>15. Excluded(v) \in Seq(1..MAX_SIZE - 1) /\ Len(Excluded(v)) <= Len(v)
    BY <2>10, <2>11, <2>12
  <2> QED
    BY <2>5, <2>14, <2>15
<1> QED
  BY <1>2, <1>3

\* The characters that are kept are those that are meant.
LEMMA MeantIs ==
  ASSUME NEW c \in 1..MAX_SIZE - 1, r \in Seq(0..MAX_SIZE - 1), Barred(Stripped(r))
  PROVE  (\E k \in DOMAIN Excluded(Stripped(r)) : Excluded(Stripped(r))[k] = c) <=> Meant(c)
<1> DEFINE l == Leading(r)
           v == Stripped(r)
           n == Len(r)
           is == {k \in DOMAIN r : r[k] = c}
<1>1. n \in Nat /\ DOMAIN r = 1..n
  OBVIOUS
<1>2. l \in 0..n /\ \A i \in 1..l : r[i] = EXCL
  BY LeadingIs
<1>3. v \in Seq(0..MAX_SIZE - 1) /\ Len(v) = n - l /\ \A k \in 1..n - l : v[k] = r[k + l]
  BY StrippedIs
<1>4. c # EXCL
  BY DEF EXCL
<1>5. Meant(c) <=> (\E i \in is : TRUE) /\ \A i \in is : Before(i)
  BY DEF Meant, Before
<1> DEFINE w == Excluded(v)
<1>6. \/ /\ \A k \in 1..Len(v) : v[k] # EXCL
         /\ w = v
      \/ \E b \in 2..Len(v) :
           /\ \A k \in 1..Len(v) : v[k] = EXCL <=> k = b
           /\ \A d : (\E k \in DOMAIN w : w[k] = d)
                       <=> \E i \in 1..b - 1 : v[i] = d /\ \A j \in b + 1..Len(v) : v[j] # d
  BY <1>3, ExcludedIs
<1> SUFFICES (\E k \in DOMAIN w : w[k] = c) <=> Meant(c)
  OBVIOUS
<1> HIDE DEF l, v, n, is, w
<1>7. \A i \in is : i \in l + 1..n /\ i - l \in 1..n - l /\ v[i - l] = c /\ r[i] = c
  <2> SUFFICES ASSUME NEW i \in is PROVE i \in l + 1..n /\ i - l \in 1..n - l /\ v[i - l] = c /\ r[i] = c
    OBVIOUS
  <2>1. i \in 1..n /\ r[i] = c
    BY <1>1 DEF is
  <2>2. i \in l + 1..n /\ i - l \in 1..n - l /\ (i - l) + l = i
    BY <1>1, <1>2, <1>4, <2>1
  <2>3. v[i - l] = r[(i - l) + l]
    BY <1>3, <2>2
  <2> QED
    BY <2>1, <2>2, <2>3
<1>8. \A k \in 1..n - l : k + l \in 1..n /\ (v[k] = c => k + l \in is)
  BY <1>1, <1>2, <1>3 DEF is
<1>9. CASE (\A k \in 1..Len(v) : v[k] # EXCL) /\ w = v
  <2>1. \A i \in DOMAIN r : Before(i)
    <3> SUFFICES ASSUME NEW i \in 1..n, NEW j \in Bangs(r), NEW m \in 1..j PROVE m \in Bangs(r)
      BY <1>1 DEF Before
    <3>1. j \in 1..n /\ r[j] = EXCL
      BY <1>1 DEF Bangs
    <3>2. j <= l
      <4> SUFFICES ASSUME j > l PROVE FALSE
        BY <1>2, <3>1
      <4>1. j - l \in 1..n - l /\ (j - l) + l = j
        BY <1>1, <1>2, <3>1
      <4>2. v[j - l] = r[(j - l) + l]
        BY <1>3, <4>1
      <4> QED
        BY <1>3, <1>9, <3>1, <4>1, <4>2
    <3>3. m \in 1..l /\ m \in 1..n
      BY <1>1, <1>2, <3>1, <3>2
    <3> QED
      BY <1>1, <1>2, <3>3 DEF Bangs
  <2>2. is \subseteq DOMAIN r
    BY DEF is
  <2>3. DOMAIN w = 1..n - l
    BY <1>1, <1>2, <1>3, <1>9
  <2>4. (\E k \in 1..n - l : v[k] = c) <=> \E i \in is : TRUE
    BY <1>7, <1>8
  <2> QED
    BY <1>5, <1>9, <2>1, <2>2, <2>3, <2>4
<1>10. CASE \E b \in 2..Len(v) :
           /\ \A k \in 1..Len(v) : v[k] = EXCL <=> k = b
           /\ \A d : (\E k \in DOMAIN w : w[k] = d)
                       <=> \E i \in 1..b - 1 : v[i] = d /\ \A j \in b + 1..Len(v) : v[j] # d
  <2>0. PICK b \in 2..Len(v) :
           /\ \A k \in 1..Len(v) : v[k] = EXCL <=> k = b
           /\ \A d : (\E k \in DOMAIN w : w[k] = d)
                       <=> \E i \in 1..b - 1 : v[i] = d /\ \A j \in b + 1..Len(v) : v[j] # d
    BY <1>10
  <2>1. b \in 2..n - l /\ \A k \in 1..n - l : v[k] = EXCL <=> k = b
    BY <1>3, <2>0
  <2>2. (\E k \in DOMAIN w : w[k] = c) <=> \E i \in 1..b - 1 : v[i] = c /\ \A j \in b + 1..n - l : v[j] # c
    <3>1. (\E k \in DOMAIN w : w[k] = c) <=> \E i \in 1..b - 1 : v[i] = c /\ \A j \in b + 1..Len(v) : v[j] # c
      BY <2>0
    <3> QED
      BY <1>3, <3>1
  <2>3. b + l \in 1..n /\ l + 1 \in 1..n /\ 1 \in 1..n - l /\ b \in 1..n - l
    BY <1>1, <1>2, <2>1
  <2>4. r[b + l] = EXCL /\ r[l + 1] # EXCL
    <3>1. v[b] = EXCL /\ v[1] # EXCL
      BY <2>1, <2>3
    <3>2. v[b] = r[b + l] /\ v[1] = r[1 + l]
      BY <1>3, <2>3
    <3>3. 1 + l = l + 1
      BY <1>2
    <3> QED
      BY <3>1, <3>2, <3>3
  <2>5. b + l \in Bangs(r) /\ l + 1 \notin Bangs(r) /\ l + 1 \in 1..b + l
    BY <1>1, <1>2, <2>3, <2>4 DEF Bangs
  <2>6. \A i \in is : Before(i) <=> i <= b + l
    <3> SUFFICES ASSUME NEW i \in is PROVE Before(i) <=> i <= b + l
      OBVIOUS
    <3>1. i \in l + 1..n
      BY <1>7
    <3>2. Before(i) => i <= b + l
      BY <1>1, <1>2, <2>3, <2>5, <3>1 DEF Before
    <3>3. ASSUME i <= b + l, NEW j \in Bangs(r), j < i PROVE 1..j \subseteq Bangs(r)
      <4>1. j \in 1..n /\ r[j] = EXCL
        BY <1>1 DEF Bangs
      <4>2. j <= l
        <5> SUFFICES ASSUME j > l PROVE FALSE
          BY <1>2, <4>1
        <5>1. j - l \in 1..n - l /\ (j - l) + l = j /\ j - l # b
          BY <1>1, <1>2, <2>3, <3>1, <3>3, <4>1
        <5>2. v[j - l] = r[(j - l) + l]
          BY <1>3, <5>1
        <5> QED
          BY <2>1, <4>1, <5>1, <5>2
      <4>3. \A m \in 1..j : m \in 1..l /\ m \in 1..n
        BY <1>1, <1>2, <4>1, <4>2
      <4> QED
        BY <1>1, <1>2, <4>3 DEF Bangs
    <3> QED
      BY <3>2, <3>3 DEF Before
  <2>7. Meant(c) => \E k \in 1..b - 1 : v[k] = c /\ \A j \in b + 1..n - l : v[j] # c
    <3> SUFFICES ASSUME Meant(c) PROVE \E k \in 1..b - 1 : v[k] = c /\ \A j \in b + 1..n - l : v[j] # c
      OBVIOUS
    <3>1. PICK i \in is : TRUE
      BY <1>5
    <3>2. \A m \in is : m <= b + l
      BY <1>5, <2>6
    <3>3. i - l \in 1..n - l /\ v[i - l] = c /\ i - l <= b
      BY <1>2, <1>7, <2>3, <3>2
    <3>4. i - l # b
      BY <1>4, <2>1, <3>3
    <3>5. i - l \in 1..b - 1
      BY <1>1, <1>2, <2>3, <3>3, <3>4
    <3>6. ASSUME NEW j \in b + 1..n - l, v[j] = c PROVE FALSE
      <4>1. j \in 1..n - l
        BY <1>1, <1>2, <2>3
      <4>2. j + l \in is
        BY <1>8, <3>6, <4>1
      <4> QED
        BY <1>1, <1>2, <2>3, <3>2, <4>2
    <3> QED
      BY <3>3, <3>5, <3>6
  <2>8. ASSUME NEW k \in 1..b - 1, v[k] = c, \A j \in b + 1..n - l : v[j] # c PROVE Meant(c)
    <3>1. k \in 1..n - l
      BY <1>1, <1>2, <2>3
    <3>2. k + l \in is
      BY <1>8, <2>8, <3>1
    <3>3. ASSUME NEW i \in is PROVE i <= b + l
      <4>1. i - l \in 1..n - l /\ v[i - l] = c /\ i \in l + 1..n
        BY <1>7
      <4>2. ~(i - l \in b + 1..n - l)
        BY <2>8, <4>1
      <4> QED
        BY <1>1, <1>2, <2>3, <4>1, <4>2
    <3> QED
      BY <1>5, <2>6, <3>2, <3>3
  <2> QED
    BY <2>2, <2>7, <2>8
<1> QED
  BY <1>6, <1>9, <1>10

\* Remainders.
LEMMA Remainders ==
  ASSUME NEW n \in Nat \ {0}
  PROVE  /\ \A a \in Nat : a % n \in 0..n - 1
         /\ \A a \in 1..n : a % n = IF a = n THEN 0 ELSE a
<1>1. \A a \in Nat : a % n \in 0..n - 1
  OBVIOUS
<1>2. ASSUME NEW a \in 1..n, a < n PROVE a % n = a
  BY <1>2
<1>3. n % n = 0
  OBVIOUS
<1> QED
  BY <1>1, <1>2, <1>3

\* In the largest table no two characters share a cell.
LEMMA LargestFits ==
  ASSUME s \in Seq(1..MAX_SIZE - 1)
  PROVE  Fits(MAX_SIZE - 1, 1)
<1> DEFINE n == MAX_SIZE - 1
<1>1. n \in Nat \ {0} /\ DOMAIN s = 1..Len(s) /\ \A i \in DOMAIN s : s[i] \in 1..n
  BY CharAssumption, ElementOfSeq
<1> HIDE DEF n
<1>2. \A a \in 1..n : a * 1 = a
  BY <1>1
<1>3. \A a, b \in 1..n : a % n = b % n => a = b
  <2>1. \A a \in 1..n : a % n = IF a = n THEN 0 ELSE a
    BY <1>1, Remainders
  <2> SUFFICES ASSUME NEW a \in 1..n, NEW b \in 1..n, a % n = b % n PROVE a = b
    OBVIOUS
  <2>2. /\ a % n = IF a = n THEN 0 ELSE a
        /\ b % n = IF b = n THEN 0 ELSE b
    BY <2>1
  <2>3. PICK x : x = a % n
    OBVIOUS
  <2>4. x = (IF a = n THEN 0 ELSE a) /\ x = IF b = n THEN 0 ELSE b
    BY <2>2, <2>3
  <2> QED
    BY <1>1, <2>4
<1>4. \A i \in Stored : s[i] \in 1..n
  BY <1>1 DEF Stored
<1>5. \A i, j \in Stored : (s[i] * 1) % n = (s[j] * 1) % n => s[i] = s[j]
  BY <1>2, <1>3, <1>4
<1> QED
  BY <1>5 DEF Fits, n

\* Where a character is stored.
Places(c) == {i \in Stored : s[i] = c}

\* What is found in the cell of a character: the last of its places, or something else.
LEMMA CellIs ==
  ASSUME s \in Seq(1..MAX_SIZE - 1), size \in Nat \ {0}, mult \in Nat,
         Fits(size, mult), t = Table(size, mult),
         NEW c \in 1..MAX_SIZE - 1
  PROVE  IF Places(c) = {} THEN Cell(c).x # c
         ELSE Cell(c).x = c /\ Cell(c).y = Image(Max(Places(c)))
<1> DEFINE cell == (c * mult) % size
           here == {i \in Stored : (s[i] * mult) % size = cell}
<1>1. c \in Nat /\ c # NOTHING /\ DOMAIN s = 1..Len(s) /\ Len(s) \in Nat /\ \A i \in DOMAIN s : s[i] \in 1..MAX_SIZE - 1
  BY CharAssumption, ElementOfSeq DEF NOTHING
<1>2. c * mult \in Nat
  BY <1>1
<1>3. cell \in 0..size - 1
  BY <1>2, Remainders
<1>4. Cell(c) = IF here = {} THEN [x |-> NOTHING, y |-> NOTHING] ELSE [x |-> s[Max(here)], y |-> Image(Max(here))]
  BY <1>3 DEF Cell, Table
<1>5. Places(c) \subseteq here
  BY DEF Places
<1>6. \A i, j \in here : s[i] = s[j]
  BY DEF Fits
<1>7. here # {} => Max(here) \in here
  <2> SUFFICES ASSUME here # {} PROVE Max(here) \in here
    OBVIOUS
  <2>1. here \in SUBSET Nat /\ \A x \in here : x <= Len(s)
    BY <1>1 DEF Stored
  <2> QED
    BY <1>1, <2>1, Greatest
<1>8. here \subseteq Stored
  OBVIOUS
<1> HIDE DEF cell, here
<1>9. CASE Places(c) = {}
  <2>1. CASE here = {}
    BY <1>1, <1>4, <1>9, <2>1
  <2>2. CASE here # {}
    <3>1. Max(here) \notin Places(c) /\ Max(here) \in Stored
      BY <1>7, <1>8, <1>9, <2>2
    <3>2. s[Max(here)] # c
      BY <3>1 DEF Places
    <3> QED
      BY <1>4, <1>9, <2>2, <3>2
  <2> QED
    BY <2>1, <2>2
<1>10. CASE Places(c) # {}
  <2>1. PICK i \in Places(c) : TRUE
    BY <1>10
  <2>2. i \in here /\ s[i] = c
    BY <1>5, <2>1 DEF Places
  <2>3. \A j \in here : s[j] = c
    BY <1>6, <2>2
  <2>4. here = Places(c)
    BY <1>5, <1>8, <2>3 DEF Places
  <2>5. s[Max(here)] = c
    BY <1>7, <2>2, <2>3
  <2> QED
    BY <1>4, <1>10, <2>4, <2>5
<1> QED
  BY <1>9, <1>10

\* What is kept while a table is looked for, and when it has been found.
CharInv ==
  /\ made \in {"searching", "yes", "462"}
  /\ made # "462" =>
       /\ s \in Seq(1..MAX_SIZE - 1) /\ Len(s) < MAX_SIZE
       /\ kind = "class" => /\ compress = FALSE
                            /\ \A c \in 1..MAX_SIZE - 1 : (\E i \in DOMAIN s : s[i] = c) <=> Meant(c)
  /\ made = "searching" => \/ size = 0 /\ mult = 0
                           \/ size \in 1..MAX_SIZE - 2 /\ mult \in 1..HashSearch
  /\ made = "yes" => size \in Nat \ {0} /\ mult \in Nat /\ Fits(size, mult) /\ t = Table(size, mult)

LEMMA CharStart ==
  ASSUME ShortTexts, CharInit
  PROVE  CharInv
<1>1. size = 0 /\ mult = 0
  BY DEF CharInit
<1>2. ASSUME NEW text \in Texts, kind = "class", compress = FALSE, r = text,
             IF Cardinality(Bangs(Stripped(text))) > 1
             THEN s = Stripped(text) /\ made = "462"
             ELSE s = Excluded(Stripped(text)) /\ made = "searching"
      PROVE  CharInv
  <2>1. r \in Seq(0..MAX_SIZE - 1) /\ Len(r) < MAX_SIZE /\ Len(r) \in Nat
    BY <1>2, CharAssumption DEF ShortTexts
  <2>2. CASE Cardinality(Bangs(Stripped(r))) > 1
    BY <1>2, <2>2 DEF CharInv
  <2>3. CASE ~(Cardinality(Bangs(Stripped(r))) > 1)
    <3> DEFINE v == Stripped(r)
    <3>1. v \in Seq(0..MAX_SIZE - 1) /\ Len(v) = Len(r) - Leading(r) /\ Leading(r) \in 0..Len(r)
          /\ \A k \in 1..Len(r) - Leading(r) : v[k] = r[k + Leading(r)]
      BY <2>1, StrippedIs, LeadingIs
    <3>2. v # <<>> => v[1] # EXCL
      <4> SUFFICES ASSUME v # <<>> PROVE v[1] # EXCL
        OBVIOUS
      <4> HIDE DEF v
      <4>1. Len(v) # 0
        BY <3>1, EmptySeq
      <4>2. 1 \in 1..Len(r) - Leading(r) /\ 1 + Leading(r) = Leading(r) + 1 /\ Leading(r) + 1 \in 1..Len(r)
        BY <2>1, <3>1, <4>1
      <4>3. r[Leading(r) + 1] # EXCL
        BY <2>1, <4>2, LeadingIs
      <4> QED
        BY <3>1, <4>2, <4>3
    <3>3. Barred(v)
      BY <2>3, <3>2 DEF Barred
    <3>4. s = Excluded(v) /\ made = "searching"
      BY <1>2, <2>3
    <3>5. s \in Seq(1..MAX_SIZE - 1) /\ Len(s) <= Len(v)
      BY <3>1, <3>3, <3>4, ExcludedIs
    <3>6. \A c \in 1..MAX_SIZE - 1 : (\E k \in DOMAIN s : s[k] = c) <=> Meant(c)
      BY <2>1, <3>3, <3>4, MeantIs
    <3>7. Len(s) < MAX_SIZE
      <4> HIDE DEF v
      <4>1. Len(s) \in Nat /\ MAX_SIZE \in Nat
        BY <3>5, CharAssumption
      <4> QED
        BY <2>1, <3>1, <3>5, <4>1
    <3> HIDE DEF v
    <3> QED
      BY <1>1, <1>2, <3>4, <3>5, <3>6, <3>7 DEF CharInv
  <2> QED
    BY <2>2, <2>3
<1>3. ASSUME NEW p \in Pairs, kind = "xlat", s = p[1], made = "searching"
      PROVE  CharInv
  <2>1. s \in Seq(1..MAX_SIZE - 1) /\ Len(s) < MAX_SIZE
    BY <1>3, CharAssumption DEF ShortTexts
  <2> QED
    BY <1>1, <1>3, <2>1 DEF CharInv
<1> QED
  BY <1>2, <1>3 DEF CharInit

LEMMA CharStep ==
  ASSUME CharInv, [Try]_charVars
  PROVE  CharInv'
<1>1. CASE UNCHANGED charVars
  <2>1. Stored' = Stored
    BY <1>1 DEF charVars, Stored, Image
  <2>2. Fits(size, mult)' = Fits(size, mult)
    BY <1>1, <2>1 DEF charVars, Fits
  <2>3. Table(size, mult)' = Table(size, mult)
    BY <1>1, <2>1 DEF charVars, Table, Image
  <2>4. \A c \in 1..MAX_SIZE - 1 : Meant(c)' = Meant(c)
    BY <1>1 DEF charVars, Meant, Before, Bangs
  <2> QED
    BY <1>1, <2>2, <2>3, <2>4 DEF CharInv, charVars
<1>2. CASE Try
  <2>1. /\ made = "searching" /\ s \in Seq(1..MAX_SIZE - 1) /\ Len(s) < MAX_SIZE
        /\ UNCHANGED <<kind, s, r, compress, neg>>
    BY <1>2 DEF Try, CharInv
  <2>2. PICK n : n = IF size = 0 THEN Size0(s) ELSE IF mult = HashSearch THEN size + 1 ELSE size
    OBVIOUS
  <2>3. PICK m : m = IF mult = HashSearch THEN 1 ELSE mult + 1
    OBVIOUS
  <2>4. IF n >= MAX_SIZE
        THEN made' = "461" /\ UNCHANGED <<size, mult, t>>
        ELSE /\ size' = n /\ mult' = m
             /\ IF Fits(n, m) THEN t' = Table(n, m) /\ made' = "yes" ELSE UNCHANGED <<t, made>>
    BY <1>2, <2>2, <2>3 DEF Try
  <2>5. \A c \in 1..MAX_SIZE - 1 : Meant(c)' = Meant(c)
    BY <2>1 DEF Meant, Before, Bangs
  <2>6. n \in 1..MAX_SIZE - 1 /\ m \in 1..HashSearch /\ (n = MAX_SIZE - 1 => m = 1)
    <3>1. MAX_SIZE \in Nat /\ MAX_SIZE > 1 /\ HashSearch \in Nat \ {0}
      BY CharAssumption
    <3>2. CASE size = 0 /\ mult = 0
      <4>1. Size0(s) \in 1..MAX_SIZE - 1
        <5>1. s # <<>> => Len(s) # 0
          BY <2>1, EmptySeq
        <5>2. Len(s) \in Nat
          BY <2>1
        <5> QED
          BY <2>1, <3>1, <5>1, <5>2 DEF Size0
      <4> QED
        BY <2>2, <2>3, <3>1, <3>2, <4>1
    <3>3. CASE size \in 1..MAX_SIZE - 2 /\ mult \in 1..HashSearch
      BY <2>2, <2>3, <3>1, <3>3
    <3> QED
      BY <2>1, <3>2, <3>3 DEF CharInv
  <2>7. size' = n /\ mult' = m /\ IF Fits(n, m) THEN t' = Table(n, m) /\ made' = "yes" ELSE UNCHANGED <<t, made>>
    BY <2>4, <2>6, CharAssumption
  <2>8. Stored' = Stored
    BY <2>1 DEF Stored, Image
  <2>9. CASE Fits(n, m)
    <3>1. Fits(size, mult)'
      BY <2>1, <2>7, <2>8, <2>9 DEF Fits
    <3>2. Table(size, mult)' = Table(n, m)
      BY <2>1, <2>7, <2>8 DEF Table, Image
    <3>3. size' \in Nat \ {0} /\ mult' \in Nat
      BY <2>6, <2>7, CharAssumption
    <3> QED
      BY <2>1, <2>5, <2>7, <2>9, <3>1, <3>2, <3>3 DEF CharInv
  <2>10. CASE ~Fits(n, m)
    <3>1. n # MAX_SIZE - 1
      BY <2>1, <2>6, <2>10, LargestFits
    <3>2. size' \in 1..MAX_SIZE - 2 /\ mult' \in 1..HashSearch
      BY <2>6, <2>7, <3>1, CharAssumption
    <3> QED
      BY <2>1, <2>5, <2>7, <2>10, <3>2 DEF CharInv
  <2> QED
    BY <2>9, <2>10
<1> QED
  BY <1>1, <1>2

LEMMA CharRepresents ==
  ASSUME CharInv
  PROVE  Represents
<1>1. made # "461"
  BY DEF CharInv
<1> SUFFICES ASSUME made = "yes", NEW c \in 1..MAX_SIZE - 1
             PROVE  IF kind = "class" THEN ismember(c) <=> Meant(c) # neg
                    ELSE LET is == {i \in DOMAIN s : s[i] = c /\ (compress => Image(i) # c)}
                         IN xlat(c) = IF is = {} THEN c ELSE Image(Max(is))
  BY <1>1 DEF Represents
<1>2. /\ s \in Seq(1..MAX_SIZE - 1)
      /\ kind = "class" => /\ compress = FALSE
                           /\ (\E i \in DOMAIN s : s[i] = c) <=> Meant(c)
      /\ size \in Nat \ {0} /\ mult \in Nat /\ Fits(size, mult) /\ t = Table(size, mult)
  BY DEF CharInv
<1>3. IF Places(c) = {} THEN Cell(c).x # c
      ELSE Cell(c).x = c /\ Cell(c).y = Image(Max(Places(c)))
  BY <1>2, CellIs
<1>4. CASE kind = "class"
  <2>1. Stored = DOMAIN s
    BY <1>2, <1>4 DEF Stored
  <2>2. Places(c) # {} <=> Meant(c)
    BY <1>2, <1>4, <2>1 DEF Places
  <2>3. (Cell(c).x = c) = Meant(c)
    BY <1>3, <2>2 DEF Meant
  <2> QED
    BY <1>4, <2>3 DEF ismember
<1>5. CASE kind # "class"
  <2>1. Places(c) = {i \in DOMAIN s : s[i] = c /\ (compress => Image(i) # c)}
    BY DEF Places, Stored
  <2>2. xlat(c) = IF Places(c) = {} THEN c ELSE Image(Max(Places(c)))
    BY <1>3 DEF xlat
  <2> QED
    BY <1>5, <2>1, <2>2
<1> QED
  BY <1>4, <1>5

\* For any characters, sets and pairs of texts that are shorter than the largest table: a
\* table without collisions is found, whatever else is tried before, and what is looked
\* up in it is what was meant (booltab and function, src/src/function.cc:24-150).
THEOREM TablesRepresent == ShortTexts => (CharSpec => []Represents)
<1> SUFFICES ASSUME ShortTexts PROVE CharSpec => []Represents
  OBVIOUS
<1>1. CharInit => CharInv
  BY CharStart
<1>2. CharInv /\ [Try]_charVars => CharInv'
  BY CharStep
<1>3. CharInv => Represents
  BY CharRepresents
<1> QED
  BY <1>1, <1>2, <1>3, PTL DEF CharSpec
=============================================================================
