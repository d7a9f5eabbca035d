------------------------------ MODULE RuleFile ------------------------------
(***************************************************************************)
(* Compiling a rule file (parse_rule, next_rule, load_rules and            *)
(* check_children of src/src/block.cc, constructors of src/src/rule.cc).   *)
(* The constructors of composite and conditional rules read the rules they *)
(* contain: the stack is that of their calls.  An error in a line is       *)
(* reported and the line, or the rule that it is in, is left out; the file *)
(* is rejected in the end.                                                 *)
(***************************************************************************)
EXTENDS Text, Sequences, SequencesExt

CONSTANTS
  Lines,       \* records: op, scope, target, weight, var (that is used or set), value
  MaxLines,    \* bound: lines of a file
  MaxErrors    \* cfg->max_errors

Phone == 1
Word == 3
TextLevel == 5
Inherit == 125
Default == 126
NoValue == ""

Closing == [c \in {"{", "[", "<"} |-> CASE c = "{" -> "}" [] c = "[" -> "]" [] c = "<" -> ">"]
Ends == {"}", "]", ">", "eof"}
Conditional == {"inside", "if"}

VARIABLES
  file,     \* the lines that have been read, those of included files in their place
  stack,    \* constructors that read on, the root block first
  errors,
  body,     \* the compiled rules
  status    \* "reading", "ok", "rejected" or "crash"

ruleFileVars == <<file, stack, errors, body, status, embed, charset>>

-----------------------------------------------------------------------------
(* Rules.                                                                  *)

\* what a line makes: then and rules are filled in later
Rule(line, value, scope, target, rules) ==
  [op |-> line.op, value |-> value, scope |-> scope, target |-> target, rules |-> rules]

\* Stands for a block that ended where a rule was expected: no rule at all.
Ended(op) == [op |-> op]
IsRule(r) == r.op \notin Ends

\* set_level()
Inherits == DOMAIN Closing \cup {"if"}
Scope(line) ==
  IF line.scope # Default THEN line.scope ELSE IF line.op \in Inherits THEN Inherit ELSE Word
Target(line) == IF line.target = Default THEN Phone ELSE line.target
LevelsFit(line) == Scope(line) >= Target(line)

\* check_child() and check_children(): scopes are inherited or must be nested.
RECURSIVE Checked(_)
Checked(r) ==
  LET Child(acc, c) ==
        IF acc.status # "ok" THEN acc
        ELSE IF ~IsRule(c) THEN [acc EXCEPT !.status = "crash"]
        ELSE IF r.scope < c.scope /\ c.scope # Inherit THEN [acc EXCEPT !.status = "rejected"]
        ELSE LET d == Checked([c EXCEPT !.scope = IF r.scope < @ THEN r.scope ELSE @])
             IN [status |-> d.status, rules |-> Append(acc.rules, d.rule)]
      all == FoldLeft(Child, [status |-> "ok", rules |-> <<>>], r.rules)
  IN [status |-> all.status, rule |-> [r EXCEPT !.rules = all.rules]]

-----------------------------------------------------------------------------
(* Reading.                                                                *)

Top == Last(stack)
IsBlock(f) == f.line.op \in DOMAIN Closing
RootLine == [op |-> "{", scope |-> TextLevel, target |-> Phone, weight |-> 0, var |-> "", value |-> NoValue]
Frame(line, value, macros) == [line |-> line, value |-> value, rules |-> <<>>, macros |-> macros]

\* The macros in force: those of the innermost block.
Macros == Last(SelectSeq(stack, IsBlock)).macros
Value(line) == IF line.var = "" THEN NoValue ELSE Macros[line.var]

\* The rules constructor: it is done when the root block is.
Complete(b, errs) ==
  LET c == Checked(b)
  IN /\ body' = c.rule
     /\ status' = IF c.status = "ok" /\ errs > 0 THEN "rejected" ELSE c.status
     /\ stack' = <<>>
     /\ errors' = errs

\* An exception: the rule that belongs to the frames above st is left out.
Error(st) ==
  /\ errors' = errors + 1
  /\ stack' = st
  /\ status' = IF st = <<>> \/ errors + 1 = MaxErrors THEN "rejected" ELSE "reading"
  /\ UNCHANGED body

Repeated(line, r) == [i \in 1..(IF line.weight = 0 THEN 1 ELSE line.weight) |-> r]

\* Mutant: a block that is badly ended is closed all the same.
EndFitsAny(f, op) == op # "eof"

EndFits(f, op) == op = Closing[f.line.op]

\* A rule, or the end of a block, is returned to the constructor on top of st;
\* a conditional rule is then complete itself.
RECURSIVE Return(_, _, _)
Return(st, line, r) ==
  LET f == Last(st)
      rest == Front(st)
      made == Rule(f.line, f.value, Scope(f.line), Target(f.line), f.rules)
  IN IF ~IsBlock(f)
     THEN IF LevelsFit(f.line) THEN Return(rest, f.line, [made EXCEPT !.rules = <<r>>]) ELSE Error(rest)
     ELSE IF IsRule(r)
     THEN /\ stack' = Append(rest, [f EXCEPT !.rules = @ \o Repeated(line, r)])
          /\ UNCHANGED <<errors, body, status>>
     ELSE IF line.weight > 1 THEN Error(rest)
     ELSE IF rest = <<>> /\ r.op = "eof" THEN Complete(made, errors)
     ELSE IF ~EndFits(f, r.op) THEN Error(rest)
     ELSE IF rest = <<>> THEN Complete(made, errors + 1)   \* the file is left prematurely
     ELSE IF f.line.op # "{" /\ f.rules = <<>> THEN Error(rest)
     ELSE IF ~LevelsFit(f.line) THEN Error(rest)
     ELSE Return(rest, f.line, made)

\* parse_rule()
Parse(line) ==
  IF line.op = "bad" THEN Error(stack)
  ELSE IF line.var # "" /\ line.op # "$" /\ line.var \notin DOMAIN Macros THEN Error(stack)
  ELSE IF line.op = "$"
  THEN LET Owner == CHOOSE i \in DOMAIN stack : IsBlock(stack[i]) /\ \A j \in i + 1..Len(stack) : ~IsBlock(stack[j])
       IN /\ stack' = [stack EXCEPT ![Owner].macros =
                         [v \in DOMAIN @ \cup {line.var} |-> IF v = line.var THEN line.value ELSE @[v]]]
          /\ UNCHANGED <<errors, body, status>>
  ELSE IF line.weight > 0 /\ ~IsBlock(Top) THEN Error(stack)
  ELSE IF line.op \in DOMAIN Closing \cup Conditional
  THEN /\ stack' = Append(stack, Frame(line, Value(line), Macros))
       /\ UNCHANGED <<errors, body, status>>
  ELSE IF line.op \in Ends THEN Return(stack, line, Ended(line.op))
  ELSE IF ~LevelsFit(line) THEN Error(stack)
  ELSE Return(stack, line, Rule(line, Value(line), Scope(line), Target(line), <<>>))

EofLine == [RootLine EXCEPT !.op = "eof"]

\* What stops the compilation at once.
Stop(how) == status' = how /\ UNCHANGED <<stack, errors, body>>

Read ==
  /\ status = "reading" /\ Len(file) < MaxLines
  /\ GetLine
  /\ \E line \in Lines : Parse(line) /\ file' = Append(file, line)

ReadDirective ==
  /\ status = "reading"
  /\ \/ (Enter \/ Leave) /\ UNCHANGED <<stack, errors, body, status>>
     \/ Refuse /\ Error(stack)
     \/ Abandon /\ Stop("rejected")
     \/ Garble /\ Stop("crash")
  /\ UNCHANGED file

EndOfFile ==
  /\ status = "reading"
  /\ Exhaust
  /\ Parse(EofLine)
  /\ UNCHANGED file

RuleFileInit ==
  /\ TextInit
  /\ file = <<>>
  /\ stack = <<Frame(RootLine, NoValue, [v \in {} |-> NoValue])>>
  /\ errors = 0
  /\ body = Ended("eof")
  /\ status = "reading"

RuleFileNext == Read \/ ReadDirective \/ EndOfFile

RuleFileSpec == RuleFileInit /\ [][RuleFileNext]_ruleFileVars
=============================================================================
