-------------------------------- MODULE Units --------------------------------
(***************************************************************************)
(* The text structure representation (src/src/unit.cc): a tree of units    *)
(* with pointers to both neighbours, to the first and the last child and   *)
(* to the father.  The cells of units are recycled (src/src/slab.h).  The  *)
(* operators take the heap s and return another one; s.fault is the error  *)
(* that has been shrieked, or what else has gone wrong.                    *)
(***************************************************************************)
EXTENDS Parser, SequencesExt

CONSTANT MultiSubst   \* cfg->multi_subst

EMPTY == 0
Left == 1
Right == 2
Ends == {Left, Right}
Other(e) == 3 - e

\* link: prev and next; born: firstborn and lastborn; q: f, i or t
Unit(depth, cont) ==
  [link |-> <<EMPTY, EMPTY>>, born |-> <<EMPTY, EMPTY>>, father |-> EMPTY,
   depth |-> depth, cont |-> cont, scope |-> FALSE, q |-> 0]

NoUnits == [unit |-> <<>>, free |-> <<>>, just |-> EMPTY, fault |-> ""]
Shriek(s, what) == IF s.fault = "" THEN [s EXCEPT !.fault = what] ELSE s

-----------------------------------------------------------------------------
(* Cells.                                                                  *)

\* The cell that New will take.
Cell(s) == IF s.free = <<>> THEN Len(s.unit) + 1 ELSE Last(s.free)

New(s, unit) ==
  IF s.free = <<>> THEN [s EXCEPT !.unit = Append(@, unit)]
  ELSE [s EXCEPT !.unit[Last(s.free)] = unit, !.free = Front(@)]

\* What a destructor releases: the units that follow, and all the children.
RECURSIVE Doomed(_, _)
Doomed(s, u) ==
  IF u = EMPTY THEN <<>>
  ELSE Doomed(s, s.unit[u].link[Right]) \o Doomed(s, s.unit[u].born[Left]) \o <<u>>

Delete(s, u) ==
  LET d == Doomed(s, u)
      t == [s EXCEPT !.free = @ \o d]
  IN IF ToSet(d) \cap ToSet(s.free) = {} THEN t ELSE Shriek(t, "a unit is freed twice")

-----------------------------------------------------------------------------
(* Walking.  EMPTY is what lies beyond the scope.                          *)

RECURSIVE Outermost(_, _, _, _), Beside(_, _, _, _)

\* LeftMost() and RightMost()
Outermost(s, u, target, e) ==
  IF u = EMPTY THEN EMPTY
  ELSE IF s.unit[u].depth = target THEN u
  ELSE IF s.unit[u].born[e] # EMPTY THEN Outermost(s, s.unit[u].born[e], target, e)
  ELSE IF s.unit[u].scope THEN EMPTY
  ELSE Outermost(s, Beside(s, u, s.unit[u].depth, Other(e)), target, e)

\* Prev() and Next()
Beside(s, u, target, e) ==
  IF u = EMPTY \/ s.unit[u].scope THEN EMPTY
  ELSE IF s.unit[u].link[e] # EMPTY THEN Outermost(s, s.unit[u].link[e], target, Other(e))
  ELSE Beside(s, s.unit[u].father, target, e)

RECURSIVE From(_, _, _, _)
From(s, u, target, e) ==
  IF u = EMPTY THEN <<>> ELSE <<u>> \o From(s, Beside(s, u, target, e), target, e)

\* The target units within u, counted from its end e.
Targets(s, u, target, e) == From(s, Outermost(s, u, target, e), target, Other(e))

\* A unit and the siblings that follow it.
RECURSIVE Train(_, _)
Train(s, u) == IF u = EMPTY THEN <<>> ELSE <<u>> \o Train(s, s.unit[u].link[Right])

Kids(s, u) == Train(s, s.unit[u].born[Left])

inside(s, u) == IF u = EMPTY THEN Juncture ELSE s.unit[u].cont
Around(s, u, e) == inside(s, Beside(s, u, s.unit[u].depth, e))

count(s, u, target) ==
  Len(Targets([s EXCEPT !.unit[u].scope = TRUE], u, target, Left))

contains(s, u, target, set) ==
  \E v \in ToSet(Targets(s, u, target, Left)) : s.unit[v].cont \in set

\* gather(): the characters of u, those of the levels above phones only if asked for.
RECURSIVE Gathered(_, _, _)
Gathered(s, u, supra) ==
  LET c == s.unit[u].cont
  IN FlattenSeq([i \in 1..Len(Kids(s, u)) |-> Gathered(s, Kids(s, u)[i], supra)])
       \o (IF c # NoCont /\ (s.unit[u].depth = Phone \/ (supra /\ s.unit[u].depth > Phone))
           THEN <<c>> ELSE <<>>)

-----------------------------------------------------------------------------
(* Linking.                                                                *)

set_father(s, u, f) == FoldLeft(LAMBDA t, v : [t EXCEPT !.unit[v].father = f], s, Train(s, u))

\* insert_begin() and insert_end(): the train from first to last joins f at its end e.
Adopt(s, f, first, last, e) ==
  LET near == IF e = Right THEN first ELSE last
      far  == IF e = Right THEN last ELSE first
      old  == s.unit[f].born[e]
      t == IF old # EMPTY
           THEN [s EXCEPT !.unit[old].link[e] = near, !.unit[near].link[Other(e)] = old]
           ELSE [s EXCEPT !.unit[f].born[Other(e)] = near]
  IN IF first = EMPTY THEN Shriek(s, "861")
     ELSE set_father([t EXCEPT !.unit[f].born[e] = far], first, f)

\* Mutant: the father keeps pointing at a first or last child that has gone.
UnhookAmong(s, u, e) ==
  LET v == s.unit[u].link[e]
  IN IF v # EMPTY THEN [s EXCEPT !.unit[v].link[Other(e)] = s.unit[u].link[Other(e)]] ELSE s

Unhook(s, u, e) ==
  LET v == s.unit[u].link[e]
      f == s.unit[u].father
      rest == s.unit[u].link[Other(e)]
  IN IF v # EMPTY THEN [s EXCEPT !.unit[v].link[Other(e)] = rest]
     ELSE IF f # EMPTY THEN [s EXCEPT !.unit[f].born[e] = rest] ELSE s

\* A unit that is unlinked lives until the next one is.
Retire(s, u) ==
  LET t == [s EXCEPT !.unit[u].born = <<EMPTY, EMPTY>>]
  IN [IF s.just = EMPTY THEN t ELSE Delete([t EXCEPT !.unit[s.just].link[Right] = EMPTY], s.just)
        EXCEPT !.just = u]

\* unlink(): the children die with it (0), or join the neighbour at its left or right.
RECURSIVE unlink(_, _, _)
unlink(s, u, way) ==
  LET b == s.unit[u].born
      v == IF way = 0 THEN EMPTY ELSE s.unit[u].link[way]
      cut == Unhook(Unhook(s, u, Left), u, Right)
      t == IF way = 0 THEN Delete(cut, b[Left])
           ELSE IF v = EMPTY THEN Shriek(cut, "861")
           ELSE Adopt(cut, v, b[Left], b[Right], Other(way))
      r == Retire(t, u)
      f == s.unit[u].father
  IN IF t.fault # s.fault THEN t
     ELSE IF f # EMPTY /\ r.unit[f].born[Left] = EMPTY THEN unlink(r, f, 0) ELSE r

\* Mutant: the first part of the children goes on into the second.
SeverBack(s, before) == [s EXCEPT !.unit[before].link[Left] = EMPTY]

Sever(s, before) ==
  [s EXCEPT !.unit[before].link[Left] = EMPTY, !.unit[s.unit[before].link[Left]].link[Right] = EMPTY]

\* The unit before which u is split opens a clone of u.
split(s, u, before) ==
  LET clone == Cell(s)
      last  == s.unit[before].link[Left]
      n     == s.unit[u].link[Right]
      f     == s.unit[u].father
      a == New(s, [s.unit[u] EXCEPT !.scope = FALSE, !.born[Left] = before, !.link[Left] = u])
      b == [a EXCEPT !.unit[u].born[Right] = last, !.unit[u].link[Right] = clone]
      c == set_father(Sever(b, before), before, clone)
      d == IF n # EMPTY THEN [c EXCEPT !.unit[n].link[Left] = clone] ELSE c
  IN IF before = EMPTY THEN Shriek(s, "NULL")
     ELSE IF last = EMPTY THEN Shriek(s, "463")
     ELSE IF f # EMPTY /\ s.unit[f].born[Right] = u
          THEN [d EXCEPT !.unit[f].born[Right] = clone] ELSE d

\* The constructor of a unit from what a parser yields.
RECURSIVE Parsed(_, _, _)
Parsed(s, p, layer) ==
  LET u == Cell(s)
      RECURSIVE Children(_)
      Children(r) ==
        IF r.p.level >= layer THEN r
        ELSE LET k == Parsed(r.s, r.p, layer - 1)
             IN Children([k EXCEPT !.s = Adopt(k.s, u, k.u, k.u, Right)])
      r == Children([s |-> New(s, Unit(layer, NoCont)), p |-> p, u |-> u])
  IN IF r.p.level = layer
     THEN [s |-> [r.s EXCEPT !.unit[u].cont = r.p.token], p |-> gettoken(r.p), u |-> u]
     ELSE [r EXCEPT !.u = u]

Planted(r) == [s |-> IF r.p.fault = "" THEN r.s ELSE Shriek(r.s, r.p.fault), root |-> r.u]

TreeOf(s, text) == Planted(Parsed(s, ParserOf(Canonical(text)), TextLevel))
=============================================================================
