------------------------------- MODULE Prosody -------------------------------
(***************************************************************************)
(* Prosody: the rules that set the frequency, the intensity and the        *)
(* duration of units (src/src/unit.cc), and their parameters               *)
(* (src/src/rule.cc).  The three quantities are treated alike; a unit has  *)
(* one, q.                                                                 *)
(***************************************************************************)
EXTENDS UnitRules

Total(seq) == FoldLeft(LAMBDA a, b : a + b, 0, seq)
Numeral == [c \in {"0", "1", "2", "5"} |-> CASE c = "0" -> 0 [] c = "1" -> 1 [] c = "2" -> 2 [] c = "5" -> 5]

-----------------------------------------------------------------------------
(* Parameters.  list[l] is cur, what has been read of a number is tmp.      *)

Reading == [list |-> <<>>, cur |-> 0, tmp |-> 0, sgn |-> 1, mark |-> -1, fault |-> ""]

\* One more number is complete.
Comma(r) == [r EXCEPT !.list = Append(@, r.cur + r.tmp * r.sgn), !.cur = 0, !.tmp = 0, !.sgn = 1]

\* A sign: what has been read is added, but it is not forgotten.
Sign(r, c) == [r EXCEPT !.cur = @ + r.tmp * r.sgn, !.sgn = IF c = "+" THEN 1 ELSE -1]

Figure(r, c) ==
  IF c \in DOMAIN Numeral THEN [r EXCEPT !.tmp = @ * 10 + Numeral[c]] ELSE [r EXCEPT !.fault = "811"]

\* A last number that is zero is dropped, and so is what was added up to it.
LastComma(r) == IF r.tmp # 0 THEN Comma(r) ELSE r

Scanned(param, Step(_, _)) ==
  LastComma(FoldLeft(LAMBDA r, i : IF r.fault = "" THEN Step(r, i) ELSE r, Reading, [i \in DOMAIN param |-> i]))

\* the constructor of r_contour: mark is where the padding starts
ContourParam(param) ==
  LET Step(r, i) ==
        LET c == param[i]
        IN CASE c = ":" -> Comma(r)
             [] c = "*" -> IF At(param, i + 1) \notin {Nul, ":"} \/ r.mark > -1 THEN [r EXCEPT !.fault = "811"]
                           ELSE [r EXCEPT !.mark = Len(r.list)]
             [] c \in {"+", "-"} -> Sign(r, c)
             [] OTHER -> Figure(r, c)
  IN Scanned(param, Step)

\* the constructor of r_smooth: the base weight follows the last slash
SmoothParam(param) ==
  LET Step(r, i) ==
        LET c == param[i]
        IN CASE c = "/" -> [Comma(r) EXCEPT !.mark = @ + 1]
             [] c = "\\" -> Comma(r)
             [] c \in {"+", "-"} -> Sign(r, c)
             [] OTHER -> Figure(r, c)
      r == Scanned(param, Step)
  IN IF r.fault = "" /\ Total(r.list) # 100 THEN [r EXCEPT !.fault = "811"] ELSE r

-----------------------------------------------------------------------------
(* Prosodic rules.                                                          *)

Within(s, u, target) == Targets([s EXCEPT !.unit[u].scope = TRUE], u, target, Left)

Quantified(s, t, value(_)) ==
  FoldLeft(LAMBDA h, k : [h EXCEPT !.unit[t[k]].q = value(k)], s, [k \in DOMAIN t |-> k])

\* Is the k-th unit one of those that get the value that is padded?
Padded(first, extra, k) == k > first /\ k <= first + extra

\* contour(): extra units get the value that is padded; pad = -1 if none is.
contour(s, u, target, recipe, pad) ==
  LET t == Within(s, u, target)
      star  == IF pad > -1 THEN 1 ELSE 0
      fixed == Len(recipe) - star
      extra == IF Len(t) > fixed THEN Len(t) - fixed ELSE 0
      first == IF pad > -1 THEN pad ELSE 0
      value(k) == recipe[IF k <= first THEN k
                         ELSE IF Padded(first, extra, k) THEN first + 1 ELSE k - extra + star]
  IN IF pad = -1 /\ extra > 1 THEN Shriek(s, "463")
     ELSE IF Len(t) < fixed THEN Shriek(s, "463")
     ELSE Quantified(s, t, value)

\* project(): what the units above have moves down to the targets.
RECURSIVE project(_, _, _, _)
project(s, u, target, adj) ==
  LET q == s.unit[u].q
  IN IF s.unit[u].depth > target
     THEN FoldLeft(LAMBDA h, v : project(h, v, target, adj + q),
                   [s EXCEPT !.unit[u].q = 0], Kids(s, u))
     ELSE [s EXCEPT !.unit[u].q = @ + adj]

Quot(a, b) == IF a >= 0 THEN a \div b ELSE -((-a) \div b)

\* smooth(): old values are kept in a circular queue.  n: the number of weights
\* to the left of the base; ahead: the unit whose value is queued next.
Queue(s, t, n, len) ==
  [queue |-> [j \in 1..len |-> s.unit[t[IF j <= n THEN 1 ELSE IF j - n > Len(t) THEN Len(t) ELSE j - n]].q],
   ahead |-> IF len - n + 1 > Len(t) THEN Len(t) ELSE len - n + 1, wrap |-> 0, s |-> s]

\* Mutant: what has just been smoothed is queued.
QueuedNew(h, c, t, k) == h.unit[t[k]].q

Queued(h, c, t, k) == h.unit[t[c.ahead]].q

SmoothOne(c, t, k, recipe) ==
  LET len == Len(recipe)
      avg == Total([j \in 1..len |-> recipe[j] * c.queue[((j - 1 + c.wrap) % len) + 1]])
      h == [c.s EXCEPT !.unit[t[k]].q = Quot(avg, 100)]
  IN [queue |-> [c.queue EXCEPT ![c.wrap + 1] = Queued(h, c, t, k)], wrap |-> (c.wrap + 1) % len,
      ahead |-> IF c.ahead < Len(t) THEN c.ahead + 1 ELSE c.ahead, s |-> h]

smooth(s, u, target, recipe, n) ==
  LET p == project(s, u, target, 0)
      t == Within(p, u, target)
  IN IF t = <<>> THEN p
     ELSE FoldLeft(LAMBDA c, k : SmoothOne(c, t, k, recipe), Queue(p, t, n, Len(recipe)),
                   [k \in DOMAIN t |-> k]).s

\* sseg(): the most specific adjustment that a dictionary has is added.  Of is
\* the length of the scope unit, or AnyOf.
AnyOf == 0
Questions(j, n) == <<<<"from", j, n>>, <<"from", j, AnyOf>>, <<"last", n - j + 1, AnyOf>>,
                     <<"all", AnyOf, n>>, <<"all", AnyOf, AnyOf>>>>
Adjustment(dict, j, n) ==
  LET known == SelectSeq(Questions(j, n), LAMBDA a : a \in DOMAIN dict)
  IN IF known = <<>> THEN 0 ELSE dict[Head(known)]

sseg(s, u, target, dict) ==
  LET t == Within(s, u, target)
      value(k) == s.unit[t[k]].q + Adjustment(dict, k, Len(t))
  IN Quantified(s, t, value)
=============================================================================
