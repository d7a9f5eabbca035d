------------------------------ MODULE RuleKinds ------------------------------
(***************************************************************************)
(* Rules as the constructors of src/src/rule.cc and src/src/block.cc make  *)
(* them.  A parameter is given by its parts: dictionaries are functions,   *)
(* classes of characters are sets.  An exclamation mark negates.           *)
(***************************************************************************)
EXTENDS Rules

\* The class "!"
Everything == DOMAIN Perm \cup {NoCont, Juncture}

Rule(op, scope, target) == [op |-> op, scope |-> scope, target |-> target]

\* Composite rules: a choice and a switch have something to choose from.
Block(scope, rules) == Rule("block", scope, Phone) @@ [rules |-> rules]
Choice(scope, rules) == Rule("choice", scope, Phone) @@ [rules |-> rules]
Switch(scope, target, rules) == Rule("switch", scope, target) @@ [rules |-> rules]

-----------------------------------------------------------------------------
(* Conditional rules.                                                      *)

Then(rule) == [rules |-> <<rule>>]
Inside(scope, set, then) == Rule("inside", scope, Phone) @@ [set |-> set] @@ Then(then)

\* An asterisk asks for all of them: a unit that has one of the others is refused.
Near(scope, asterisk, set, then) ==
  Rule("near", scope, Phone) @@ [universal |-> asterisk, set |-> IF asterisk THEN Everything \ set ELSE set] @@ Then(then)
With(scope, excl, dict, then) == Rule("with", scope, Phone) @@ [dict |-> dict, negated |-> excl] @@ Then(then)
If(scope, excl, flag, then) == Rule("if", scope, Phone) @@ [flag |-> flag # excl] @@ Then(then)

-----------------------------------------------------------------------------
(* Rules with a dictionary.                                                *)

\* A dictionary that is written in the rule: words without a comma stand for themselves.
Literal(words, pairs) == [w \in words |-> w] @@ pairs

Substring == [exact |-> FALSE, once |-> FALSE, way |-> 0, negated |-> FALSE]
Subst(scope, target, dict) == Rule("subst", scope, target) @@ [dict |-> dict, method |-> Substring]

\* What merges a whole unit with its neighbour.
Merge(way, scope, target, excl, dict) ==
  Rule("subst", scope, target) @@ [dict |-> dict, method |-> [exact |-> TRUE, once |-> FALSE, way |-> way, negated |-> excl]]
Prep(scope, target, excl, dict) == Merge(Right, scope, target, excl, dict)
Postp(scope, target, excl, dict) == Merge(Left, scope, target, excl, dict)
Diphones(inventory) == Rule("segs", Word, Phone) @@ [inventory |-> inventory]
Prosodic(scope, target, dict) == Rule("prosody", scope, target) @@ [dict |-> dict]

-----------------------------------------------------------------------------
(* Other rules.                                                            *)

\* means: what the documentation says of the parameter
Contour(scope, target, param, means) == Rule("contour", scope, target) @@ [param |-> param, means |-> means]
Smooth(scope, target, param, means) == Rule("smooth", scope, target) @@ [param |-> param, means |-> means]

\* from > to (left _ right): as many characters as there were, or one for all of them; the
\* last mapping of a character that changes it counts.
Mapping(from, to) ==
  LET Image(i) == to[IF Len(to) = 1 THEN 1 ELSE i]
      changed == {i \in DOMAIN from : from[i] # Image(i)}
  IN [c \in {from[i] : i \in changed} |-> Image(Max({i \in changed : from[i] = c}))]
Gress(back, scope, target, from, to, left, right) ==
  Rule("assim", scope, target) @@ [fn |-> Mapping(from, to), left |-> left, right |-> right, back |-> back]
Regress(scope, target, from, to, left, right) == Gress(TRUE, scope, target, from, to, left, right)
Progress(scope, target, from, to, left, right) == Gress(FALSE, scope, target, from, to, left, right)

\* first < second < third: the last one that a phone is among counts.
Syllables(scope, target, levels) ==
  Rule("syll", scope, target)
    @@ [son |-> [c \in UNION Range(levels) |-> Max({i \in DOMAIN levels : c \in levels[i]})]]

\* what:when, or always
Raise(scope, target, what, when) == Rule("raise", scope, target) @@ [what |-> what, when |-> when]
RaiseAlways(scope, target, what) == Raise(scope, target, what, Everything)

Regex(scope, re, repl) == Rule("regex", scope, Phone) @@ [re |-> re, repl |-> repl]
Nothing == Rule("nothing", Word, Phone)
=============================================================================
