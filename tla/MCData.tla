------------------------------- MODULE MCData -------------------------------
(***************************************************************************)
(* The data structures that the rest is built from, one of them at a time: *)
(* hash tables, configurations that are copied on write, and sets and      *)
(* functions of characters.                                                *)
(***************************************************************************)
EXTENDS HashTree, Cow, CharFunction

VARIABLE structure    \* "tree", "configuration" or "characters"

vars == <<treeVars, cowVars, charVars, structure>>

-----------------------------------------------------------------------------
(* Hash tables.                                                            *)

\* Keys that fall into one tree or two, whatever the capacity.
Clash(k) == IF k = 7 THEN 1 ELSE 0

\* Two values for one key, one for the others.
Few(k) == IF k = 4 THEN {0, 1} ELSE {0}

\* A file with comments and a key that comes twice.
WrittenFiles == {<<<<>>, <<4, 0>>, <<6, 0>>, <<>>, <<2, 0>>, <<4, 1>>, <<1, 0>>>>}

-----------------------------------------------------------------------------
(* Characters.                                                             *)

Strings(set, lengths) == UNION {[1..n -> set] : n \in lengths}

MCTexts == Strings({0, 1, 3, 4, 7, 9}, 0..4) \cup {[i \in 1..9 |-> i]}

\* Functions to one character, and from three to three.
MCPairs == (Strings({1, 4, 5, 8}, 0..3) \X Strings({2, 4, 8}, {1}))
           \cup (Strings({1, 4, 5, 8}, {3}) \X Strings({2, 4, 8}, {3}))

ASSUME TextsAssumption == ShortTexts

-----------------------------------------------------------------------------
\* What is not examined begins like this.
NoTree == h = Made(Size, Dense)
NoCharacters == kind = "class" /\ r = <<>>

Init ==
  /\ TreeInit /\ CowInit /\ CharInit
  /\ \/ structure = "tree" /\ NoCharacters
     \/ structure = "configuration" /\ NoTree /\ NoCharacters
     \/ structure = "characters" /\ NoTree

Next ==
  \/ structure = "tree" /\ TreeNext /\ UNCHANGED <<cowVars, charVars, structure>>
  \/ structure = "configuration" /\ CowNext /\ UNCHANGED <<treeVars, charVars, structure>>
  \/ structure = "characters" /\ Try /\ UNCHANGED <<treeVars, cowVars, structure>>

Spec == Init /\ [][Next]_vars
=============================================================================
