------------------------------ MODULE UnitRules ------------------------------
(***************************************************************************)
(* What rules do to units (the second half of src/src/unit.cc): each       *)
(* operator is the method of its name, called for the scope unit u.        *)
(* Dictionaries are functions from strings to strings; strings are         *)
(* sequences of characters.                                                *)
(***************************************************************************)
EXTENDS Units

CONSTANT Longest   \* hash::longest, a bound on the length of replacees

Lookup(dict, string) == string \in DOMAIN dict

-----------------------------------------------------------------------------
(* Substitution of phones.                                                 *)

\* The innermost subst(): u gets the children that a parser makes of string.
Grafted(r, u) ==
  LET old == r.s.unit[u].born[Left]
      new == r.s.unit[r.u].born
      t == Delete(r.s, old)
      v == set_father([t EXCEPT !.unit[u].born = new, !.unit[r.u].born = <<EMPTY, EMPTY>>], new[Left], u)
  IN IF r.p.fault # "" THEN Shriek(r.s, r.p.fault)
     ELSE IF ~Finished(r.p) THEN Shriek(r.s, "463")
     ELSE IF old # EMPTY /\ new[Left] = EMPTY THEN unlink(r.s, u, 0)
     ELSE IF new[Left] = EMPTY THEN Shriek(r.s, "NULL")
     ELSE Delete(v, r.u)

Replace(s, u, string) == Grafted(Parsed(s, ParserOf(string), s.unit[u].depth), u)

\* The substring that is replaced: the one that ends last, the longest of these.
Occurrences(dict, string) ==
  {o \in (1..Len(string)) \X (1..Len(string)) :
     /\ o[1] <= o[2] /\ o[2] - o[1] < Longest
     /\ Lookup(dict, SubSeq(string, o[1], o[2]))}
Chosen(dict, string) ==
  CHOOSE o \in Occurrences(dict, string) : \A p \in Occurrences(dict, string) :
    p[2] < o[2] \/ (p[2] = o[2] /\ p[1] >= o[1])

\* ^ and $ are not part of what is left around it.
Replaced(dict, string) ==
  LET o == Chosen(dict, string)
  IN SubSeq(string, 2, o[1] - 1) \o dict[SubSeq(string, o[1], o[2])]
       \o SubSeq(string, o[2] + 1, Len(string) - 1)

Delimited(string) == <<"^">> \o string \o <<"$">>

\* One turn of the loop of the outer subst(): the heap it leaves, or hit = FALSE.
Turn(s, u, dict, exact) ==
  LET g == IF exact THEN Gathered(s, u, FALSE) ELSE Delimited(Gathered(s, u, TRUE))
      hit == IF exact THEN Lookup(dict, g) ELSE Occurrences(dict, g) # {}
  IN [hit |-> hit,
      s |-> IF ~hit THEN s ELSE Replace(s, u, IF exact THEN dict[g] ELSE Replaced(dict, g))]

\* The separator is hidden from the first turn only.
Masked(s, u, i) == IF i = MultiSubst THEN [s EXCEPT !.unit[u].cont = NoCont] ELSE s

\* m: the method (exact, once, way, negated).
Taken(t, u, m, separ, i) ==
  LET back == [t.s EXCEPT !.unit[u].cont = separ]
      failed == t.s.fault # ""
      dies == ~failed /\ m.way # 0 /\ (t.hit # m.negated)
  IN [s     |-> IF dies THEN unlink(back, u, m.way) ELSE back,
      done  |-> failed \/ t.hit \/ i # MultiSubst,
      again |-> ~failed /\ t.hit /\ m.way = 0 /\ ~m.once]

RECURSIVE Turns(_, _, _, _, _, _)
Turns(s, u, dict, m, separ, i) ==
  IF i = 0 THEN [s |-> Shriek(s, "463"), done |-> TRUE]
  ELSE LET t == Taken(Turn(Masked(s, u, i), u, dict, m.exact), u, m, separ, i)
       IN IF t.again THEN Turns(t.s, u, dict, m, separ, i - 1) ELSE t

subst(s, u, dict, m) ==
  IF m.way # 0 /\ s.unit[u].link[m.way] = EMPTY THEN [s |-> s, done |-> FALSE]
  ELSE Turns(s, u, dict, m, s.unit[u].cont, MultiSubst)

-----------------------------------------------------------------------------
(* relabel(): substitution of the contents of other units; none is made or  *)
(* deleted.                                                                 *)

\* What replaces the occurrence o has to be as long; ^ and $ stay.
Overlaid(string, o, new) ==
  LET a == IF o[1] = 1 THEN 2 ELSE o[1]
  IN [i \in DOMAIN string |->
        IF i >= a /\ i < a + Len(new) THEN new[i - a + 1] ELSE string[i]]
SameLength(string, o, new) ==
  Len(new) = o[2] - (IF o[1] = 1 THEN 2 ELSE o[1]) + 1 - (IF o[2] = Len(string) THEN 1 ELSE 0)

RECURSIVE Labels(_, _, _, _)
Labels(string, dict, m, i) ==
  IF i = 0 THEN [string |-> string, fault |-> "463", hit |-> TRUE]
  ELSE IF m.exact
  THEN LET own == SubSeq(string, 2, Len(string) - 1)
       IN IF ~Lookup(dict, own) THEN [string |-> string, fault |-> "", hit |-> FALSE]
          ELSE [string |-> Delimited(dict[own]), hit |-> TRUE,
                fault |-> IF Len(dict[own]) = Len(own) THEN "" ELSE "462"]
  ELSE IF Occurrences(dict, string) = {}
  THEN [string |-> string, fault |-> "", hit |-> i # MultiSubst]
  ELSE LET o == Chosen(dict, string)
           new == dict[SubSeq(string, o[1], o[2])]
       IN IF ~SameLength(string, o, new) THEN [string |-> string, fault |-> "462", hit |-> TRUE]
          ELSE IF m.once THEN [string |-> Overlaid(string, o, new), fault |-> "", hit |-> TRUE]
          ELSE Labels(Overlaid(string, o, new), dict, m, i - 1)

relabel(s, u, dict, m, target) ==
  LET t == Targets(s, u, target, Left)
      r == Labels(Delimited([i \in DOMAIN t |-> s.unit[t[i]].cont]), dict, m, MultiSubst)
      labelled == FoldLeft(LAMBDA h, i : [h EXCEPT !.unit[t[i]].cont = r.string[i + 1]],
                           s, [i \in DOMAIN t |-> i])
  IN IF target = Phone THEN subst(s, u, dict, m).s
     ELSE IF m.way # 0 /\ s.unit[u].link[m.way] = EMPTY THEN s
     ELSE IF r.fault # "" THEN Shriek(s, r.fault)
     ELSE IF ~r.hit THEN s
     ELSE IF m.way # 0 THEN unlink(labelled, u, m.way) ELSE labelled

-----------------------------------------------------------------------------
(* regex(): the library finds the first match; here a fixed string.         *)

Matches(string, re) ==
  {i \in 1..Len(string) - Len(re) + 1 : SubSeq(string, i, i + Len(re) - 1) = re}

RECURSIVE regex(_, _, _, _, _)
regex(s, u, re, repl, i) ==
  LET g == Gathered(s, u, TRUE)
      k == CHOOSE a \in Matches(g, re) : \A b \in Matches(g, re) : a <= b
  IN IF s.fault # "" THEN s
     ELSE IF i = 0 THEN Shriek(s, "463")
     ELSE IF Matches(g, re) = {} THEN s
     ELSE regex(Replace(s, u, SubSeq(g, 1, k - 1) \o repl \o SubSeq(g, k + Len(re), Len(g))),
                u, re, repl, i - 1)

-----------------------------------------------------------------------------
(* Assimilation.  a: affected and what they become, left and right context. *)

Xlat(a, c) == IF c \in DOMAIN a.fn THEN a.fn[c] ELSE c
InOrder(back, kids) == IF back THEN Reverse(kids) ELSE kids

RECURSIVE assim(_, _, _, _, _)
assim(s, u, target, back, a) ==
  LET c == s.unit[u].cont
      t == [s EXCEPT !.unit[u].cont = Xlat(a, c)]
  IN IF s.unit[u].depth > target
     THEN FoldLeft(LAMBDA h, v : assim(h, v, target, back, a), s, InOrder(back, Kids(s, u)))
     ELSE IF s.unit[u].depth < target THEN Shriek(s, "861")
     ELSE IF Around(s, u, Right) \notin a.right \/ Around(s, u, Left) \notin a.left \/ c = Juncture
     THEN s
     ELSE IF Xlat(a, c) = Juncture THEN unlink(t, u, 0) ELSE t

\* A new sibling at the end e of u
InsertBeside(s, u, e, what) ==
  LET n == Cell(s)
      v == s.unit[u].link[e]
      t == [New(s, [Unit(s.unit[u].depth, what) EXCEPT !.father = s.unit[u].father, !.q = s.unit[u].q,
                       !.link[e] = v, !.link[Other(e)] = u]) EXCEPT !.unit[u].link[e] = n]
  IN IF v # EMPTY THEN [t EXCEPT !.unit[v].link[Other(e)] = n]
     ELSE [t EXCEPT !.unit[s.unit[u].father].born[e] = n]

RECURSIVE insert(_, _, _, _, _)
insert(s, u, target, back, a) ==
  LET c == s.unit[u].cont
      what == Xlat(a, Juncture)
      t == IF c \in a.left /\ Around(s, u, Right) \in a.right THEN InsertBeside(s, u, Right, what) ELSE s
  IN IF s.unit[u].depth > target
     THEN FoldLeft(LAMBDA h, v : insert(h, v, target, back, a), s, InOrder(back, Kids(s, u)))
     ELSE IF s.unit[u].depth < target THEN Shriek(s, "861")
     ELSE IF t.unit[u].link[Left] = EMPTY /\ c \in a.right /\ Around(t, u, Left) \in a.left
          THEN InsertBeside(t, u, Left, what) ELSE t

-----------------------------------------------------------------------------
(* Syllables: phones are visited from the right.                            *)

Sonority(son, c) == IF c \in DOMAIN son THEN son[c] ELSE 1

\* Mutant: the boundary that was pending is not forgotten.
SyllBreakAgain(p, u, before) ==
  [s |-> split(p.s, p.s.unit[u].father, before), pending |-> p.pending]

SyllBreak(p, u, before) == [s |-> split(p.s, p.s.unit[u].father, before), pending |-> 0]

syllabifyOne(p, u, son) ==
  LET a == Sonority(son, inside(p.s, u))
      prev == Sonority(son, Around(p.s, u, Left))
      next == Sonority(son, Around(p.s, u, Right))
  IN IF p.s.fault # "" THEN p
     ELSE IF a < next
     THEN IF a < prev THEN SyllBreak(p, u, u)
          ELSE [p EXCEPT !.pending = @ + (IF a = prev THEN 1 ELSE 0)]
     ELSE IF p.pending > 0 /\ a < prev THEN SyllBreak(p, u, p.s.unit[u].link[Right]) ELSE p

syllabify(s, u, target, son) ==
  FoldLeft(LAMBDA p, v : syllabifyOne(p, v, son), [s |-> s, pending |-> 0],
           Targets(s, u, target, Right)).s

-----------------------------------------------------------------------------
(* raise() and segs()                                                       *)

raise(s, u, what, when, whither, whence) ==
  LET inner == [s EXCEPT !.unit[u].scope = TRUE]
      found == SelectSeq(Targets(inner, u, whence, Left), LAMBDA v : s.unit[v].cont \in what)
  IN IF whither # s.unit[u].depth THEN Shriek(s, "861")
     ELSE IF whither <= whence THEN Shriek(s, "462")
     ELSE FoldLeft(LAMBDA h, big :
            IF h.unit[big].cont \in when /\ found # <<>>
            THEN [h EXCEPT !.unit[big].cont = h.unit[Last(found)].cont] ELSE h,
            s, Targets(s, u, whither, Left))

\* seg(): the segments that the inventory has for a triplet of phones
seg(s, u, inventory, triplet) ==
  IF triplet \notin DOMAIN inventory THEN s
  ELSE FoldLeft(LAMBDA h, n : Adopt(New(h, Unit(Segm, n)), u, Cell(h), Cell(h), Right),
                s, inventory[triplet])

RECURSIVE segs(_, _, _, _)
segs(s, u, target, inventory) ==
  LET l == Around(s, u, Left)
      r == Around(s, u, Right)
      c == s.unit[u].cont
  IN IF s.unit[u].depth # target
     THEN FoldLeft(LAMBDA h, v : segs(h, v, target, inventory), s, Kids(s, u))
     ELSE IF DOMAIN inventory = {}
     THEN [Delete(s, s.unit[u].born[Left]) EXCEPT !.unit[u].born = <<EMPTY, EMPTY>>]
     ELSE FoldLeft(LAMBDA h, t : seg(h, u, inventory, t), s,
                   <<<<l, c, "?">>, <<"?", c, "?">>, <<"?", c, r>>, <<l, c, r>>>>)
=============================================================================
