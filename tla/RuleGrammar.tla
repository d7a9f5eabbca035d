----------------------------- MODULE RuleGrammar -----------------------------
(***************************************************************************)
(* All rule files of a few lines, against a grammar of rule files.         *)
(***************************************************************************)
EXTENDS RuleFile, TLC

Line(op, scope) == [op |-> op, scope |-> scope, target |-> Default, weight |-> 0, var |-> "", value |-> NoValue]
Plain == Line("subst", Default)
TheLines ==
  {Plain, Line("inside", Word), Line("inside", TextLevel), Line("if", Default), Line("bad", Default),
   [Plain EXCEPT !.weight = 2], [Plain EXCEPT !.scope = Phone, !.target = Word],
   [Line("[", Default) EXCEPT !.weight = 2],
   [Plain EXCEPT !.var = "v"], [Line("$", Default) EXCEPT !.var = "v", !.value = "1"]}
  \cup {Line(op, Default) : op \in {"{", "}", "<", "]", ">"}} \cup {Line("{", Word)}

-----------------------------------------------------------------------------
(* The grammar.                                                            *)

Code == SelectSeq([i \in DOMAIN file |-> i], LAMBDA i : file[i].op # "$")
Op(k) == file[Code[k]].op

\* How many blocks are open before line i.
Depth(i) == Cardinality({j \in 1..i - 1 : file[j].op \in DOMAIN Closing})
            - Cardinality({j \in 1..i - 1 : file[j].op \in Ends})

\* The assignment a use of $v at line i refers to: the last of a block that is still open.
Setting(i) ==
  LET seen == {j \in 1..i - 1 : file[j].op = "$" /\ \A k \in j..i : Depth(k) >= Depth(j)}
  IN CHOOSE j \in seen : \A k \in seen : k <= j
Resolves(i) == \E j \in 1..i - 1 : file[j].op = "$" /\ \A k \in j..i : Depth(k) >= Depth(j)
Meant(i) == IF file[i].var = "" THEN NoValue ELSE file[Setting(i)].value

LineFits(i) ==
  /\ file[i].op # "bad"
  /\ file[i].op = "$" \/ file[i].var = "" \/ Resolves(i)
  /\ file[i].op \notin Ends \cup {"$"} => LevelsFit(file[i])

Node(k, scope, rules) ==
  Rule(file[Code[k]], Meant(Code[k]), IF Scope(file[Code[k]]) = Inherit THEN scope ELSE Scope(file[Code[k]]),
       Target(file[Code[k]]), rules)

\* The rules that lines i to j of the code make, within a scope.
RECURSIVE RulesOf(_, _, _), Bodies(_, _, _)
RulesOf(i, j, scope) ==
  LET own == Scope(file[Code[i]])
      within == IF own = Inherit THEN scope ELSE own
  IN IF i > j \/ within > scope \/ Op(i) \in Ends THEN {}
     ELSE IF Op(i) \in Conditional
     THEN {Node(i, scope, <<r>>) : r \in IF i < j /\ file[Code[i + 1]].weight = 0
                                           THEN RulesOf(i + 1, j, within) ELSE {}}
     ELSE IF Op(i) \in DOMAIN Closing
     THEN {Node(i, scope, b) : b \in IF i < j /\ Op(j) = Closing[Op(i)] /\ file[Code[j]].weight = 0
                                       THEN Bodies(i + 1, j - 1, within) \ (IF Op(i) = "{" THEN {} ELSE {<<>>})
                                       ELSE {}}
     ELSE IF i = j THEN {Node(i, scope, <<>>)} ELSE {}
Bodies(i, j, scope) ==
  IF i > j THEN {<<>>}
  ELSE UNION {{Repeated(file[Code[i]], r) \o b : r \in RulesOf(i, k, scope), b \in Bodies(k + 1, j, scope)} : k \in i..j}

Meaning == IF \A i \in DOMAIN file : LineFits(i) THEN Bodies(1, Len(Code), TextLevel) ELSE {}

\* A rule file is accepted when it is well formed, no matter how it is divided into
\* included files, and then the rules are those the grammar gives it: repeated as
\* their counts say, with the scopes of their blocks and the values that variables
\* have there.  Any error, though compilation went on after it, rejects the file
\* (load_rules, parse_rule, next_rule, src/src/block.cc:118-546).
Compiled ==
  status # "reading" =>
    /\ status = "ok" => Meaning = {body.rules}
    /\ status = "ok" <=> (errors = 0 /\ embed = 0 /\ Meaning # {})

=============================================================================
