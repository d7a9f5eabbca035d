-------------------------------- MODULE Rules --------------------------------
(***************************************************************************)
(* Applying the rules of a language to a text (the apply() methods of      *)
(* src/src/rule.cc and src/src/block.cc).  A rule is a record with its     *)
(* opcode, scope, target and parameters; blocks, choices, switches and     *)
(* conditional rules have subordinate rules.  A block that is being        *)
(* applied is a frame on a stack: it goes through its rules, and with each *)
(* through the units of the rule's scope.                                  *)
(***************************************************************************)
EXTENDS Prosody, FiniteSets

CONSTANTS
  Programs,    \* the rules of languages: blocks
  Texts(_),    \* what is said, by program
  MaxTexts     \* bound: texts said one after another

VARIABLES
  s,        \* the heap of units
  root,     \* the text
  program,  \* which of Programs
  frames,   \* blocks being applied: the path to the rule, the unit it is
            \* applied to, the number of its rule (current_rule), the unit this
            \* one is to be applied to (u), what comes next (tmp_next), and its
            \* scope flag from before (tmpscope)
  said      \* the texts so far

vars == <<s, root, program, frames, said>>

-----------------------------------------------------------------------------
(* Rules.                                                                  *)

RECURSIVE RuleAt(_)
RuleAt(path) == IF path = <<>> THEN Programs[program] ELSE RuleAt(Front(path)).rules[Last(path)]

Composite == {"block", "choice", "switch"}
Conditional == {"inside", "near", "with", "if"}

\* apply() of the rules that have no other rules
Apply(h, r, u) ==
  CASE r.op = "subst"   -> relabel(h, u, r.dict, r.method, r.target)
    [] r.op = "regex"   -> regex(h, u, r.re, r.repl, MultiSubst)
    [] r.op = "assim"   ->
         LET t == assim(h, u, r.target, r.back, r)
         IN IF t.fault = "" /\ Xlat(r, Juncture) # Juncture THEN insert(t, u, r.target, r.back, r) ELSE t
    [] r.op = "syll"    -> syllabify(h, u, r.target, r.son)
    [] r.op = "raise"   -> raise(h, u, r.what, r.when, r.scope, r.target)
    [] r.op = "segs"    -> segs(h, u, r.target, r.inventory)
    [] r.op = "contour" -> LET p == ContourParam(r.param) IN contour(h, u, r.target, p.list, p.mark)
    [] r.op = "smooth"  -> LET p == SmoothParam(r.param) IN smooth(h, u, r.target, p.list, p.mark + 1)
    [] r.op = "prosody" -> sseg(h, u, r.target, r.dict)
    [] r.op = "nothing" -> h

\* with: is it in the dictionary?
Found(t, negated) == [s |-> t.s, yes |-> t.done # negated]

\* Does a conditional rule let its subordinate be applied?
Holds(h, r, u) ==
  CASE r.op = "inside" -> [s |-> h, yes |-> h.unit[u].cont \in r.set]
    [] r.op = "near"   -> [s |-> h, yes |-> contains(h, u, r.target, r.set) # r.universal]
    [] r.op = "with"   ->
         Found(subst(h, u, r.dict, [exact |-> TRUE, once |-> TRUE, way |-> 0, negated |-> FALSE]), r.negated)
    [] r.op = "if"     -> [s |-> h, yes |-> r.flag]

\* What is left of a rule when its conditions have been evaluated.
RECURSIVE Resolved(_, _, _)
Resolved(h, path, u) ==
  LET r == RuleAt(path)
      c == Holds(h, r, u)
  IN IF r.op \notin Conditional THEN [s |-> h, path |-> path, apply |-> TRUE]
     ELSE IF c.yes /\ c.s.fault = "" THEN Resolved(c.s, Append(path, 1), u)
     ELSE [s |-> c.s, path |-> path, apply |-> FALSE]

-----------------------------------------------------------------------------
(* The stack.                                                              *)

Top == Last(frames)
Current(f) == RuleAt(f.path).rules[f.i]
Fine == s.fault = "" /\ frames # <<>>

\* apply_current() begins.
Frame(h, path, u, i) ==
  [path |-> path, root |-> u, i |-> i, next |-> EMPTY, was |-> FALSE, busy |-> FALSE,
   u |-> Outermost(h, u, RuleAt(path).rules[i].scope, Left)]

\* The rules that a composite rule may begin with; switch counts its targets.
FirstRules(h, path, u) ==
  LET r == RuleAt(path)
      n == Len(r.rules)
      c == count(h, u, r.target)
  IN CASE r.op = "block"  -> {1}
       [] r.op = "choice" -> 1..n
       [] r.op = "switch" -> {IF c < n THEN c ELSE n}

\* Mutant: the unit stays the end of the world for its neighbours.
MovedOn(h, f) == [s |-> h, f |-> [f EXCEPT !.u = f.next, !.next = EMPTY, !.was = FALSE, !.busy = FALSE]]

\* The rule has been applied to f.u.
Moved(h, f) == [s |-> [h EXCEPT !.unit[f.u].scope = f.was],
                f |-> [f EXCEPT !.u = f.next, !.next = EMPTY, !.was = FALSE, !.busy = FALSE]]

\* A rule of one kind or the other.
Done(m) == s' = m.s /\ frames' = Append(Front(frames), m.f)

Begin(f, r, i) ==
  IF i = 0 THEN s' = Shriek(r.s, "461") /\ UNCHANGED frames
  ELSE IF RuleAt(r.path).rules = <<>> THEN Done(Moved(r.s, f))
  ELSE s' = r.s /\ frames' = Front(frames) \o <<f, Frame(r.s, r.path, f.u, i)>>

ApplyCurrent(f, r) ==
  IF ~r.apply THEN Done(Moved(r.s, f))
  ELSE IF RuleAt(r.path).op \in Composite THEN \E i \in FirstRules(r.s, r.path, f.u) : Begin(f, r, i)
  ELSE Done(Moved(Apply(r.s, RuleAt(r.path), f.u), f))

\* The next unit has the rule applied to it, at once or in a frame of its own.
Visit ==
  /\ Fine /\ Top.u # EMPTY /\ ~Top.busy
  /\ ApplyCurrent([Top EXCEPT !.next = Beside(s, Top.u, Current(Top).scope, Right),
                              !.was = s.unit[Top.u].scope, !.busy = TRUE],
                  Resolved([s EXCEPT !.unit[Top.u].scope = TRUE], Append(Top.path, Top.i), Top.u))
  /\ UNCHANGED <<root, program, said>>

\* All units of the scope have been visited: the block goes on to its next rule.
NextRule ==
  /\ Fine /\ Top.u = EMPTY
  /\ RuleAt(Top.path).op = "block" /\ Top.i < Len(RuleAt(Top.path).rules)
  /\ frames' = Append(Front(frames), Frame(s, Top.path, Top.root, Top.i + 1))
  /\ UNCHANGED <<s, root, program, said>>

\* The composite rule is done; so is a unit of the one above it.
Return ==
  /\ Fine /\ Top.u = EMPTY
  /\ RuleAt(Top.path).op = "block" => Top.i = Len(RuleAt(Top.path).rules)
  /\ LET rest == Front(frames)
         m == Moved(s, Last(rest))
     IN IF rest = <<>> THEN UNCHANGED s /\ frames' = <<>>
        ELSE s' = m.s /\ frames' = Append(Front(rest), m.f)
  /\ UNCHANGED <<root, program, said>>

\* The text has been said (a_segs) and is deleted; the next one is parsed.
Say(t) ==
  /\ s.fault = "" /\ frames = <<>> /\ Len(said) < MaxTexts
  /\ LET r == TreeOf(Delete(s, root), t)
     IN /\ s' = r.s
        /\ root' = r.root
        /\ frames' = <<Frame(r.s, <<>>, r.root, 1)>>
  /\ said' = Append(said, t)
  /\ UNCHANGED program

Init ==
  /\ program \in DOMAIN Programs
  /\ \E t \in Texts(program) :
       LET r == TreeOf(NoUnits, t)
       IN /\ s = r.s
          /\ root = r.root
          /\ frames = <<Frame(r.s, <<>>, r.root, 1)>>
          /\ said = <<t>>

Next == Visit \/ NextRule \/ Return \/ \E t \in Texts(program) : Say(t)

Spec == Init /\ [][Next]_vars
=============================================================================
