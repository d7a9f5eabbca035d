------------------------------- MODULE MCRules -------------------------------
(* Instances and properties of Rules.                                      *)
EXTENDS RuleKinds

Characters ==
  [c \in {"a", "r", "t", "m", "1", "x", "\\.", "\\d", "\\-", "\\m"} |-> Phone] @@ ("|" :> Syll)
    @@ [c \in {" ", "-", "\\X"} |-> Word] @@ [c \in {".", "\\~"} |-> Colon]
Words(set, n) == UNION {[1..k -> set] : k \in 1..n}
Spaced(words) == words \cup {a \o <<" ">> \o b : a \in words, b \in words}
NoDict == Literal({}, <<>>)
Mark(c) == Regress(Word, Word, <<" ">>, <<c>>, Everything, Everything)
Delete_(c, scope) == Regress(scope, Phone, <<c>>, <<Juncture>>, Everything, Everything)
Sonorous == Syllables(Word, Phone, <<{"t", "x"}, {"r"}, {"a"}>>)

MCPrograms == <<
  \* 1: syllables
  <<Sonorous>>,
  \* 2: words and then syllables are merged
  <<Sonorous,
    Prep(Word, Phone, FALSE, Literal({<<"t">>}, <<>>)),
    Postp(Word, Phone, FALSE, Literal({<<"r">>, <<"r", "t">>}, <<>>)),
    Prep(Syll, Phone, TRUE, NoDict)>>,
  \* 3: phones are deleted and inserted
  <<Sonorous,
    Delete_("t", Word),
    Progress(Word, Phone, <<Juncture>>, <<"x">>, {"a"}, {Juncture}),
    Regress(Colon, Phone, <<Juncture>>, <<"t">>, {Juncture}, {"a"}),
    Progress(Syll, Phone, <<"r", "x", "r">>, <<"x", "x", "t">>, {"a"}, {Juncture, "x"}),
    Regress(Word, Phone, <<"r">>, <<"a">>, Everything, {"a"})>>,
  \* 4: the words that are "r" or "rt" begin a colon
  <<With(Word, FALSE, Literal({<<"r", "t">>, <<"r">>}, <<>>),
         Block(Word, <<Regress(Word, Phone, <<Juncture>>, <<"x">>, {Juncture}, Everything)>>)),
    RaiseAlways(Word, Phone, {"x"}),
    Syllables(Colon, Word, <<{}, {" ", NoCont}>>),
    Delete_("x", Word)>>,
  \* 5: monosyllables are found and merged
  <<Sonorous,
    Switch(Word, Syll, <<Mark("m"), Block(Word, <<Mark("t"), Nothing>>)>>),
    Subst(Colon, Word, (<<"^", "m", "m">> :> <<"m", "x">>) @@ (<<"t", "m", "m">> :> <<"t", "x", "m">>)),
    Inside(Word, {"m"}, Postp(Word, Word, FALSE, Literal({<<"m">>}, <<>>)))>>,
  \* 6: chance and nesting
  <<Near(Colon, FALSE, {"r"},
         Block(Colon, <<Choice(Word, <<Delete_("a", Word), Nothing, Block(Syll, <<Delete_("t", Syll)>>)>>)>>)),
    If(Word, FALSE, TRUE, Near(Word, TRUE, {"t"}, Block(Word, <<Delete_("t", Word), Nothing>>)))>>,
  \* 7: segments are made, and die with their phones
  <<Diphones((<<"0", "a", "?">> :> <<7>>) @@ (<<"?", "a", "?">> :> <<1, 1>>) @@ (<<"?", "a", "t">> :> <<2>>)
              @@ (<<"a", "t", "0">> :> <<3>>)),
    Delete_("t", Word),
    Inside(Word, {" "}, Diphones(NoDict))>>,
  \* 8: substitutions of a varying length
  <<Subst(Word, Phone, (<<"r", "t">> :> <<"t", "a", "t">>) @@ (<<"^", "r">> :> <<"a">>) @@ (<<"t", "$">> :> <<>>)),
    Regex(Word, <<"a", "a">>, <<"a">>)>>,
  \* 9: none of what it looks for is there
  <<Delete_("x", Word)>>,
  \* 10: prosody
  <<Sonorous,
    Contour(Word, Phone, <<"2", "*", ":", "-", "5", "0", ":", "1", "0">>, [pad |-> 0, list |-> <<2, -50, 10>>]),
    Prosodic(Word, Syll, (<<"from", 2, 3>> :> 100) @@ (<<"last", 1, AnyOf>> :> -10) @@ (<<"from", 1, AnyOf>> :> 55)
                           @@ (<<"all", AnyOf, 2>> :> 20) @@ (<<"all", AnyOf, AnyOf>> :> 5)),
    Prosodic(Colon, Word, (<<"from", 1, AnyOf>> :> -50) @@ (<<"last", 1, AnyOf>> :> 25)),
    Smooth(Word, Syll, <<"1", "0", "/", "-", "2", "0", "/", "1", "0", "0", "\\", "1", "0">>, [base |-> 3, list |-> <<10, -20, 100, 10>>]),
    Smooth(Colon, Phone, <<"5", "0", "\\", "2", "0", "\\", "2", "0", "\\", "1", "0">>, [base |-> 1, list |-> <<50, 20, 20, 10>>]),
    Syllables(Word, Phone, <<{"t"}, {"a", "r"}>>)>>,
  \* 11: a contour that stretches, and one that does not, with a 0 at its end
  <<Contour(Word, Phone, <<"1", ":", "2", "*", ":", "5">>, [pad |-> 1, list |-> <<1, 2, 5>>]),
    Contour(Word, Phone, <<"2", ":", "0", ":", "-", "5", ":", "0">>, [pad |-> -1, list |-> <<2, 0, -5, 0>>])>>
>>
MCRulesPrograms == [i \in DOMAIN MCPrograms |-> Block(TextLevel, MCPrograms[i])]

\* Rules that leave nothing of "t", and what they do to texts.
GonePrograms == <<Block(TextLevel, <<Delete_("t", Word)>>)>>
GoneTexts(p) == Spaced({<<"a">>, <<"t">>, <<"a", "t">>})

Odd == {<<"a", ".", "1">>, <<"1", "-", "1", ".", ".", ".", "a">>, <<"-", "a", "-", "-", "a", "tab", "r">>,
        <<".", " ", "a", " ", ".", " ", "t", "?", "a">>, <<"a", ".", " ", "-", "1", "|", " ", "r", "-">>,
        <<" ", ".">>, <<"a", " ", " ", "r">>}
MCTexts(p) ==
  CASE p = 1 -> Words({"a", "r", "t"}, 3) \cup {<<"a">> \o w \o <<"a">> : w \in Words({"r", "t"}, 3)}
    [] p = 2 -> Spaced({<<"t">>, <<"r", "t">>, <<"a", "r">>, <<"a", "t", "a">>})
    [] p \in {3, 8} -> Spaced({<<"r", "t">>, <<"r", "a", "t", "a">>, <<"a", "t">>}) \cup {<<"a", ".", "t", "r">>}
    [] p = 4 -> {<<"a", " ", "r", "t">>, <<"r", " ", "a", " ", "r", " ", "t">>, <<"a", "r", " ", "t", ".", "r">>}
    [] p = 5 -> {<<"a", " ", "a">>, <<"a", "t", "a", " ", "a", " ", "t", " ", "r", " ", "a">>,
                 <<"a", " ", "a", " ", "a", ".", "t", "t", " ", "a", " ", "a">>}
    [] p = 6 -> {<<"a", "r", " ", "t", ".", "t">>, <<"r", " ", "a", " ", "t">>, <<"t", "|", "r", " ", "a", "a">>}
    [] p = 7 -> Spaced({<<"a", "t">>, <<"t", "a">>, <<"a">>}) \cup {<<"t", " ", "a">>, <<"a", " ", "t", ".", "t">>}
    [] p = 9 -> Odd
    [] p = 10 -> Spaced({<<"r", "a", "t", "a">>, <<"a", "t", "a", "t", "a", "r">>, <<"a", "r", "t">>})
                   \cup {<<"a", "t", "a", "t", "a", "t", "a", " ", "a", "t", ".", "r", "t", "a">>}
    [] p = 11 -> Words({"a", "t"}, 2) \cup {<<"a", "t", "a">>, <<"a", "t", "a", "t">>, <<"a", "t", "a", "t", "a">>}

-----------------------------------------------------------------------------
(* Properties.                                                             *)

RECURSIVE Below(_)
Below(u) == {u} \cup UNION {Below(v) : v \in ToSet(Kids(s, u))}
Tree == Below(root)

\* Whatever rules did to it, the tree is one: neighbours know each other, fathers
\* know their first and last children and are known by all of them, depths
\* fall by one, and no cell of it is free to be taken for another unit.  This is
\* what unit::sanity() looks for, and what every pointer walk relies on.
Sane ==
  LET U(u) == s.unit[u]
  IN s.fault = "" =>
       /\ Tree \cap ToSet(s.free) = {}
       /\ U(root).father = EMPTY
       /\ \A u \in Tree :
            LET k == Kids(s, u)
            IN IF k = <<>> THEN U(u).born = <<EMPTY, EMPTY>>
               ELSE /\ U(u).born = <<Head(k), Last(k)>>
                    /\ \A i \in DOMAIN k :
                         /\ U(k[i]).father = u
                         /\ U(k[i]).depth = U(u).depth - 1
                         /\ U(k[i]).link[Left] = IF i = 1 THEN EMPTY ELSE k[i - 1]

\* While rules split, merge and delete units, the loops of the blocks that are
\* being applied keep hold of the tree: the unit a loop goes on with is in the
\* tree and at the scope of the rule, unless it is the unit of the whole block and
\* one of the block's rules has deleted all of it; and the units that hide what is
\* around them (scope) are just those that a loop is at.
OnTrack ==
  s.fault = "" =>
    /\ \A i \in DOMAIN frames :
         LET f == frames[i]
             goal == IF f.busy THEN f.next ELSE f.u
         IN goal # EMPTY => /\ s.unit[goal].depth = Current(f).scope
                            /\ goal \in Tree \/ (goal = f.root /\ Kids(s, goal) = <<>>)
    /\ \A u \in Tree :
         s.unit[u].scope => \E i \in DOMAIN frames : frames[i].busy /\ frames[i].u = u

\* The tree is one and the loops keep hold of it (unit::sanity, src/src/unit.cc; r_block::apply,
\* src/src/block.cc).
Upright == Sane /\ OnTrack

PhonesOf(h, r) == Gathered(h, r, FALSE)

\* Splitting syllables and merging words or syllables never loses, doubles or
\* moves a phone, though each does away with the units above it.
PhonesKept ==
  [][(program \in {1, 2, 5} /\ said' = said /\ s'.fault = "")
       => PhonesOf(s', root) = PhonesOf(s, root)]_vars

\* The syllables of a word are those the documentation of syll promises: there is
\* one boundary in every run of equally sonorous phones between more sonorous
\* ones, after the first of them or, if it is the only one, before it.
Son(p, i) == Sonority(("a" :> 3) @@ ("r" :> 2), p[i])
Promised(p) ==
  {IF i = j THEN i ELSE i + 1 : <<i, j>> \in
     {r \in (2..Len(p) - 1) \X (2..Len(p) - 1) :
        /\ r[1] <= r[2]
        /\ \A k \in r[1]..r[2] : Son(p, k) = Son(p, r[1])
        /\ Son(p, r[1] - 1) > Son(p, r[1]) /\ Son(p, r[2] + 1) > Son(p, r[1])}}
Syllabified ==
  program = 1 /\ frames = <<>> /\ s.fault = "" =>
    \A w \in ToSet(Targets(s, root, Word, Left)) :
      LET t == Targets([s EXCEPT !.unit[w].scope = TRUE], w, Phone, Left)
          p == [i \in DOMAIN t |-> s.unit[t[i]].cont]
      IN Promised(p) = {i \in 2..Len(t) : s.unit[t[i]].father # s.unit[t[i - 1]].father}

\* A rule of this type is applied to the next unit.
Applied(op) == frames # <<>> /\ Top.u # EMPTY /\ ~Top.busy /\ Current(Top).op = op /\ said' = said

\* Smoothing does what the documentation says: what the units up to the scope
\* have moves down to the targets, and each target gets the weighted average of
\* the values before, of itself and of its neighbours, where the outermost unit
\* stands for those that are missing.  The circular queue never lets a new value
\* take part.
RECURSIVE Sums(_, _, _)
Sums(h, v, top) == h.unit[v].q + (IF v = top THEN 0 ELSE Sums(h, h.unit[v].father, top))
Smoothed ==
  Applied("smooth") =>
       LET r == Current(Top)
           u == Top.u
           t == Within(s, u, r.target)
           Old(k) == Sums(s, t[IF k < 1 THEN 1 ELSE IF k > Len(t) THEN Len(t) ELSE k], u)
       IN /\ s'.fault = ""
          /\ \A k \in DOMAIN t :
               /\ s'.unit[t[k]].q =
                    Quot(Total([j \in DOMAIN r.means.list |-> r.means.list[j] * Old(k + j - r.means.base)]), 100)
               /\ u # t[k] => Sums(s', s'.unit[t[k]].father, u) = 0

\* What contours do.  With an asterisk at one of the adjustments, that one is used for as
\* many targets as are left, or for none.  Without one there is an adjustment for every
\* target, or the first is used for two; any other number is an error.  A 0 at the end is not
\* an adjustment.  The documentation would have neither (src/doc/english/rules.sgml:630-634).
ContourFits ==
  Applied("contour") =>
       LET r == Current(Top)
           t == Within(s, Top.u, r.target)
           m == r.means
           given == IF Last(m.list) = 0 THEN Front(m.list) ELSE m.list
           starred == IF m.pad = -1 THEN 1 ELSE m.pad + 1
           times == Len(t) - Len(given) + 1
           Index(k) == IF k < starred THEN k ELSE IF k < starred + times THEN starred ELSE k - times + 1
       IN IF times \notin (IF m.pad = -1 THEN 1..2 ELSE 0..Len(t)) THEN s'.fault = "463"
          ELSE s'.fault = "" /\ \A k \in DOMAIN t : s'.unit[t[k]].q = given[Index(k)]

\* Prosodic rules do to the units what is said of their kind (unit::smooth and unit::contour,
\* src/src/unit.cc:908-1000).
Intoned == [][Smoothed /\ ContourFits]_vars

\* A text is parsed as a whole: no letter or digit is lost, no unit above phones
\* is empty, and the characters gathered from a word are parsed as the same word
\* again, as substitutions take for granted.
Untouched == Len(frames) = 1 /\ Top.i = 1 /\ ~Top.busy /\ Top.u = Outermost(s, root, Current(Top).scope, Left)
Plain == {"a", "r", "t", "1"}
WholeText ==
  Untouched /\ s.fault = "" =>
    /\ SelectSeq(PhonesOf(s, root), LAMBDA c : c \in Plain) = SelectSeq(Last(said), LAMBDA c : c \in Plain)
    /\ \A u \in Tree : s.unit[u].depth > Phone /\ u # root => Kids(s, u) # <<>>
    /\ \A w \in ToSet(Targets(s, root, Word, Left)) :
         LET g == Gathered(s, w, TRUE)
             r == Parsed(NoUnits, ParserOf(g), Word)
         IN Gathered(r.s, r.u, TRUE) = g
=============================================================================
