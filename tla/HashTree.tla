------------------------------ MODULE HashTree ------------------------------
(***************************************************************************)
(* The hash tables of the server (hash_table, src/src/hashtmpl.cc): an     *)
(* array of AVL trees, rebuilt when it is too full or a tree too deep.  A  *)
(* tree is a value: nodes are not shared.  Every node keeps the height it  *)
(* believes to have; add() corrects heights and rotates on its way back    *)
(* through the stack of visited nodes, remove() only looks for heights     *)
(* that are too small.                                                     *)
(***************************************************************************)
EXTENDS Integers, Sequences, SequencesExt

CONSTANTS
  Key,       \* keys, in the order of keycmp()
  Data(_),   \* the data a key may be given
  Missing,   \* KEY_NOT_FOUND
  Code(_),   \* the hash function, before % capacity
  Size,      \* the capacity a table is made with
  Files,     \* files to make a table from: sequences of lines <<key, data>>, or
             \* <<>> for a comment
  Optimal,   \* perc_optimal
  Dense,     \* cfg_rehash: the percentage at which the table grows
  TooDeep,   \* cfg_rehash: the depth of a tree at which it grows
  MaxItems   \* bound: items in the table

VARIABLE h   \* a table: the trees (ht), their number, how many items there
             \* should be, the deepest add() so far, perc_too_dense, and: has
             \* anything been removed since the trees were built?

treeVars == h

Nil == <<>>
Leaf(k, d) == [key |-> k, data |-> d, height |-> 0, sub |-> <<Nil, Nil>>]

L == 1    \* larger keys
R == 2    \* smaller keys
Other(s) == 3 - s
Side(k, t) == IF k > t.key THEN L ELSE R

heightof(t) == IF t = Nil THEN -1 ELSE t.height

-----------------------------------------------------------------------------
(* balance(): what happens to one node on the stack.  A side of the tree    *)
(* that is as high as the tree itself has just grown.                       *)

Grown(t, s) == t.sub[s] # Nil /\ t.sub[s].height >= t.height
GrownSide(t) == IF Grown(t, L) THEN L ELSE R

\* which rotation: the outer grandchild is as high as the inner one
OuterAlways(a, s) == TRUE
Outer(a, s) ==
  \/ a.sub[Other(s)] = Nil
  \/ a.sub[s] # Nil /\ a.sub[s].height >= a.sub[Other(s)].height

Rotated(t, s) ==
  LET a == t.sub[s]
      m == a.sub[Other(s)]
      single == [t EXCEPT !.sub[s] = m, !.height = heightof(m) + 1]
      double == [t EXCEPT !.sub[s] = m.sub[Other(s)], !.height = heightof(t.sub[Other(s)]) + 1]
      outer  == [a EXCEPT !.sub[Other(s)] = m.sub[s], !.height = heightof(a.sub[s]) + 1]
  IN IF Outer(a, s)
     THEN [a EXCEPT !.sub[Other(s)] = single, !.height = single.height + 1]
     ELSE [m EXCEPT !.sub[s] = outer, !.sub[Other(s)] = double, !.height = outer.height + 1]

\* go: does the loop go on to the nodes above?
Balanced(t) ==
  IF ~Grown(t, L) /\ ~Grown(t, R) THEN [tree |-> t, go |-> FALSE]
  ELSE LET s == GrownSide(t)
           u == [t EXCEPT !.height = @ + 1]
       IN [tree |-> IF heightof(u.sub[Other(s)]) + 1 < u.sub[s].height THEN Rotated(u, s) ELSE u,
           go   |-> TRUE]

RECURSIVE Inserted(_, _, _)
Inserted(t, k, d) ==
  IF t = Nil THEN [tree |-> Leaf(k, d), go |-> TRUE]
  ELSE LET s == Side(k, t)
           below == Inserted(t.sub[s], k, d)
           u == [t EXCEPT !.sub[s] = below.tree]
       IN IF below.go THEN Balanced(u) ELSE [tree |-> u, go |-> FALSE]

\* add() of a key that is there
RECURSIVE Replaced(_, _, _)
Replaced(t, k, d) ==
  IF t.key = k THEN [t EXCEPT !.data = d]
  ELSE [t EXCEPT !.sub[Side(k, t)] = Replaced(@, k, d)]

RECURSIVE Depth(_, _)
Depth(t, k) == IF t = Nil \/ t.key = k THEN 0 ELSE 1 + Depth(t.sub[Side(k, t)], k)

RECURSIVE Found(_, _)
Found(t, k) ==
  IF t = Nil THEN Missing
  ELSE IF t.key = k THEN t.data ELSE Found(t.sub[Side(k, t)], k)

-----------------------------------------------------------------------------
(* remove()                                                                *)

Adjusted(t, go) ==
  IF go /\ (Grown(t, L) \/ Grown(t, R))
  THEN [tree |-> [t EXCEPT !.height = @ + 1], go |-> TRUE]
  ELSE [tree |-> t, go |-> FALSE]

\* the smallest key of t is taken out
RECURSIVE Popped(_)
Popped(t) ==
  IF t.sub[R] = Nil THEN [node |-> t, tree |-> t.sub[L], go |-> TRUE]
  ELSE LET below == Popped(t.sub[R])
           u == Adjusted([t EXCEPT !.sub[R] = below.tree], below.go)
       IN [node |-> below.node, tree |-> u.tree, go |-> u.go]

LostLeft(t) == t.sub[L]
OnlyChild(t) == IF t.sub[L] # Nil THEN t.sub[L] ELSE t.sub[R]

\* the root of t is taken out; with two subtrees, the next larger one replaces it
Unrooted(t) ==
  IF t.sub[L] # Nil /\ t.sub[R] # Nil
  THEN LET p == Popped(t.sub[L])
       IN [tree |-> [t EXCEPT !.key = p.node.key, !.data = p.node.data, !.sub[L] = p.tree],
           go   |-> p.go]
  ELSE [tree |-> OnlyChild(t), go |-> TRUE]

RECURSIVE Removed(_, _)
Removed(t, k) ==
  IF t.key = k THEN Unrooted(t)
  ELSE LET s == Side(k, t)
           below == Removed(t.sub[s], k)
       IN Adjusted([t EXCEPT !.sub[s] = below.tree], below.go)

-----------------------------------------------------------------------------
(* The table.                                                              *)

fn(k, cap) == Code(k) % cap

translate(t, k) == Found(t.ht[fn(k, t.capacity)], k)

\* rehash_tree: the order in which items are put into new trees
RECURSIVE Items(_)
Items(t) ==
  IF t = Nil THEN <<>>
  ELSE Items(t.sub[L]) \o Items(t.sub[R]) \o <<[key |-> t.key, data |-> t.data]>>

RECURSIVE ItemsUpTo(_, _)
ItemsUpTo(ht, i) == IF i = -1 THEN <<>> ELSE ItemsUpTo(ht, i - 1) \o Items(ht[i])

AllItems(t) == ItemsUpTo(t.ht, t.capacity - 1)

Larger(m, n) == IF m > n THEN m ELSE n

Made(cap, percent) ==
  [ht |-> [i \in 0..cap - 1 |-> Nil], capacity |-> cap, items |-> 0, maxdep |-> 0,
   dense |-> percent, plucked |-> FALSE]

\* A new node, and the deepest path to one.
PutForgets(t, k, d) ==
  [t EXCEPT !.ht[fn(k, t.capacity)] = Inserted(@, k, d).tree, !.items = @ + 1]
Put(t, k, d) ==
  LET b == fn(k, t.capacity)
  IN [t EXCEPT !.ht[b] = Inserted(@, k, d).tree, !.items = @ + 1,
               !.maxdep = Larger(@, Depth(t.ht[b], k))]

Odd(n) == IF n % 2 = 0 THEN n + 1 ELSE n
NewCapacity(t) == Odd((t.items * 100) \div Optimal)

\* perc_too_dense: cfg_rehash(0, infinity) overwrites the old one before it is read
\* back, so that only depth makes a table grow once more
Unlimited == 1000000    \* ((unsigned)-1)/2-1

\* Neither density nor depth (_HASH_DEPTH) makes rehash() call itself.
rehash(t) ==
  FoldLeft(LAMBDA u, item : Put(u, item.key, item.data), Made(NewCapacity(t), Unlimited), AllItems(t))

Max_items(t) == (t.capacity * t.dense) \div 100

\* The new item is not counted yet.
RehashDue(t) == t.items - 1 > Max_items(t) \/ t.maxdep >= TooDeep

Added(t, k, d) ==
  IF translate(t, k) # Missing
  THEN [t EXCEPT !.ht[fn(k, t.capacity)] = Replaced(@, k, d)]
  ELSE LET u == Put(t, k, d) IN IF RehashDue(u) THEN rehash(u) ELSE u

add(k, d) == h' = Added(h, k, d)

\* perc_too_sparse is 0 in every table of the server, so remove() never rehashes.
remove(k) ==
  /\ translate(h, k) # Missing
  /\ h' = [h EXCEPT !.ht[fn(k, h.capacity)] = Removed(@, k).tree,
                    !.items = @ - 1, !.plucked = TRUE]

\* The copy constructor: its user goes on with the copy.
Copy ==
  h' = FoldLeft(LAMBDA t, item : Added(t, item.key, item.data), Made(h.capacity, h.dense), AllItems(h))

\* hash::hash(filename): as many trees as there are lines
FromFile(file) ==
  LET lines == SelectSeq(file, LAMBDA line : line # <<>>)
  IN FoldLeft(LAMBDA t, line : Added(t, line[1], line[2]),
              Made(Odd((Len(lines) * 100) \div Optimal), Dense), lines)

TreeInit == h = Made(Size, Dense) \/ \E file \in Files : h = FromFile(file)

TreeNext ==
  \/ \E k \in Key : remove(k)
  \/ \E k \in Key : /\ h.items < MaxItems \/ translate(h, k) # Missing
                   /\ \E d \in Data(k) : add(k, d)
  \/ Copy

TreeSpec == TreeInit /\ [][TreeNext]_treeVars

-----------------------------------------------------------------------------
RECURSIVE Height(_)
Height(t) == IF t = Nil THEN -1 ELSE 1 + Larger(Height(t.sub[L]), Height(t.sub[R]))

RECURSIVE IsAVL(_)
IsAVL(t) ==
  t = Nil \/ /\ t.height = Height(t)
             /\ Height(t.sub[L]) - Height(t.sub[R]) \in {-1, 0, 1}
             /\ IsAVL(t.sub[L]) /\ IsAVL(t.sub[R])

\* Until something is removed every tree is an AVL tree and knows its heights:
\* what balance() relies on to find out which side has grown.
AVL == ~h.plucked => \A i \in 0..h.capacity - 1 : IsAVL(h.ht[i])

\* No tree is deeper than the deepest add() the table remembers, which is what
\* keeps the stack of visited nodes from overflowing: not even where removals
\* left heights that are too large and add() rotates by them.
Shallow == \A i \in 0..h.capacity - 1 : Height(h.ht[i]) <= h.maxdep

\* Whatever is added, removed, rehashed and copied, the trees keep the shape that the
\* stack of visited nodes and balance() rely on (hash_table::add, remove and balance,
\* src/src/hashtmpl.cc).
Shaped == AVL /\ Shallow

Abstract == INSTANCE Dictionary WITH dict <- [k \in Key |-> translate(h, k)]

\* A hash table is a dictionary, whatever was added, removed, rehashed and copied.
IsDictionary == Abstract!Spec
=============================================================================
