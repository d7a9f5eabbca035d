------------------------------- MODULE Parser -------------------------------
(***************************************************************************)
(* The parser of texts (src/src/parser.cc).  It deals out the characters   *)
(* of a text one by one, tells the level of the unit that the next one     *)
(* ends, and skips what would only make empty units.                       *)
(***************************************************************************)
EXTENDS Integers, Sequences

CONSTANTS
  Perm,      \* perm@...: the level of every character that has one
  Relax,     \* cfg->relax_input
  Default    \* cfg->dflt_char

Segm == 0
Phone == 1
Syll == 2
Word == 3
Colon == 4
TextLevel == 5    \* colons are as good as sentences

NoCont == "_"
Juncture == "0"
Nul == "nul"

At(text, i) == IF i \in 1..Len(text) THEN text[i] ELSE Nul
Digit(c) == c \in {"1", "2"}
Lower(c) == c \in {"a", "r", "t"}

\* Aliases of blanks, in texts but not in what a rule has made.
Canonical(text) == [i \in DOMAIN text |-> IF text[i] = "tab" THEN " " ELSE text[i]]

Known(c) == c = Nul \/ c \in DOMAIN Perm
Shown(c) == IF ~Known(c) /\ Relax THEN Default ELSE c
chrlev(c) == IF c = Nul THEN TextLevel ELSE IF Known(c) THEN Perm[c] ELSE TextLevel

\* The token that begins at i, and where it ends.
RECURSIVE LastDash(_, _)
LastDash(text, i) == IF At(text, i + 1) = "-" THEN LastDash(text, i + 1) ELSE i

TokenAt(text, i) ==
  LET c == At(text, i)
      n == At(text, i + 1)
      One(t) == [token |-> Shown(t), last |-> i]
  IN CASE c = "." /\ Digit(n) -> One("\\.")
       [] c = "." /\ Lower(n) -> One("\\d")
       [] c = "." /\ n = "." /\ At(text, i + 2) = "." -> [token |-> Shown("\\~"), last |-> i + 2]
       [] c = "-" /\ Digit(n) -> One(IF Digit(At(text, i - 1)) THEN "\\-" ELSE "\\m")
       [] c = "-" /\ ~Digit(n) -> [token |-> Shown("-"), last |-> LastDash(text, i)]
       [] OTHER -> One(c)

\* Mutant: a second blank in a row makes a word of its own.
EmptyAbove(level, last) == level < last /\ level > Phone /\ level < TextLevel

\* gettoken(): the next token becomes the current one.  A unit that would be
\* empty is skipped, except for phones.
Empty(level, last) == level <= last /\ level > Phone /\ level < TextLevel

\* At the end of the text, the end stays ahead.
Advanced(p, t) ==
  [p EXCEPT !.token = t.token, !.level = chrlev(t.token),
            !.fault = IF Known(t.token) THEN @ ELSE "431",
            !.current = IF chrlev(t.token) = TextLevel THEN @ ELSE t.last + 1]

RECURSIVE Following(_, _)
Following(p, last) ==
  LET q == Advanced(p, TokenAt(p.text, p.current))
  IN IF Empty(q.level, last) THEN Following(q, last) ELSE q

gettoken(p) == Following(p, p.level)

\* init(): garbage before the first phone is skipped.
ParserOf(text) ==
  LET Starts == {i \in 1..Len(text) + 1 : chrlev(Shown(At(text, i))) \in {Phone, TextLevel}}
      first  == CHOOSE i \in Starts : \A j \in Starts : i <= j
      c      == Shown(At(text, first))
  IN gettoken([text |-> text, current |-> first, token |-> Nul, level |-> chrlev(c), fault |-> ""])

\* done(): has everything been read?
Finished(p) == p.current > Len(p.text)
=============================================================================
