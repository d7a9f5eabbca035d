---------------------------- MODULE CharFunction ----------------------------
(***************************************************************************)
(* Sets of characters and functions of characters (src/src/function.cc):   *)
(* the constructors look for a table size and a multiplier for which no    *)
(* two characters share a cell.  A set is kept as a function that maps its *)
(* characters to themselves.                                               *)
(***************************************************************************)
EXTENDS Integers, Sequences, FiniteSetsExt

CONSTANTS
  Texts,        \* sequences of characters, which are 1 .. MAX_SIZE - 1, or EXCL
  Pairs,        \* sequences of characters and what these are to become
  MAX_SIZE,
  HashSearch    \* cfg->hash_search: multipliers that are tried for a size

ASSUME CharAssumption ==
  /\ MAX_SIZE \in Nat /\ MAX_SIZE > 1 /\ HashSearch \in Nat \ {0}
  /\ Texts \subseteq Seq(0..MAX_SIZE - 1)
  /\ \A p \in Pairs : p[1] \in Seq(1..MAX_SIZE - 1)

\* No text is as long as the largest table.
ShortTexts ==
  /\ \A text \in Texts : Len(text) < MAX_SIZE
  /\ \A p \in Pairs : Len(p[1]) < MAX_SIZE

EXCL == 0       \* the exclamation mark
NOTHING == 0

VARIABLES
  kind,         \* "class" or "xlat"
  s, r,         \* the characters and what they become; of a set what was given
  compress,
  neg,
  size, mult,   \* the table and the hash function
  t,            \* cells: [x, y]
  made          \* "searching", "yes", "461" or "462"

charVars == <<kind, s, r, compress, neg, size, mult, t, made>>

-----------------------------------------------------------------------------
(* The constructors.                                                       *)

Bangs(text) == {i \in DOMAIN text : text[i] = EXCL}

\* Leading exclamation marks negate the set.
Leading(text) == Cardinality({i \in Bangs(text) : \A j \in 1..i : j \in Bangs(text)})
Stripped(text) == SubSeq(text, Leading(text) + 1, Len(text))

\* What is left of a text when only some places of it are kept.
Rank(places, i) == Cardinality(places \cap 1..i)
Remaining(text, places) == [k \in 1..Cardinality(places) |-> text[CHOOSE i \in places : Rank(places, i) = k]]

\* unexcl(): characters after an exclamation mark are taken out of those before it.
Excluded(text) ==
  LET i == Max(Bangs(text))
  IN IF Bangs(text) = {} THEN text
     ELSE Remaining(text, {k \in 1..i - 1 : text[k] \notin {text[j] : j \in i + 1..Len(text)}})

Size0(text) == IF text = <<>> THEN 1 ELSE Len(text)

CharInit ==
  /\ size = 0 /\ mult = 0 /\ t = <<>>
  /\ \/ /\ kind = "class" /\ compress = FALSE
        /\ \E text \in Texts :
             /\ r = text /\ neg = (Leading(text) % 2 = 1)
             /\ IF Cardinality(Bangs(Stripped(text))) > 1
                THEN s = Stripped(text) /\ made = "462"
                ELSE s = Excluded(Stripped(text)) /\ made = "searching"
     \/ /\ kind = "xlat" /\ neg = FALSE /\ compress \in BOOLEAN
        /\ \E p \in Pairs : s = p[1] /\ r = p[2]
        /\ made = "searching"

Image(i) == r[IF Len(r) = 1 THEN 1 ELSE i]

\* What has a cell: identities are not stored in a compressed function.
Stored == {i \in DOMAIN s : ~(compress /\ s[i] = Image(i))}

\* Mutant: a cell that is taken is taken again.
FitsAny(n, m) == TRUE
Fits(n, m) == \A i, j \in Stored : (s[i] * m) % n = (s[j] * m) % n => s[i] = s[j]

Table(n, m) ==
  [cell \in 0..n - 1 |->
     LET here == {i \in Stored : (s[i] * m) % n = cell}
     IN IF here = {} THEN [x |-> NOTHING, y |-> NOTHING] ELSE [x |-> s[Max(here)], y |-> Image(Max(here))]]

\* The next multiplier, or the first one for the next size.
Try ==
  /\ made = "searching"
  /\ LET n == IF size = 0 THEN Size0(s) ELSE IF mult = HashSearch THEN size + 1 ELSE size
         m == IF mult = HashSearch THEN 1 ELSE mult + 1
     IN IF n >= MAX_SIZE
        THEN made' = "461" /\ UNCHANGED <<size, mult, t>>
        ELSE /\ size' = n /\ mult' = m
             /\ IF Fits(n, m) THEN t' = Table(n, m) /\ made' = "yes"
                ELSE UNCHANGED <<t, made>>
  /\ UNCHANGED <<kind, s, r, compress, neg>>

CharSpec == CharInit /\ [][Try]_charVars /\ WF_charVars(Try)

-----------------------------------------------------------------------------
(* The methods.                                                            *)

Cell(c) == t[(c * mult) % size]
ismember(c) == (Cell(c).x = c) # neg
xlat(c) == IF Cell(c).x = c THEN Cell(c).y ELSE c

-----------------------------------------------------------------------------
\* What a set is meant to have: the characters before the exclamation mark, unless they
\* are also after it.
Before(i) == \A j \in Bangs(r) : j < i => 1..j \subseteq Bangs(r)
Meant(c) == {Before(i) : i \in {k \in DOMAIN r : r[k] = c}} = {TRUE}

\* Whatever characters they hold, a table is found; then a set has as members just those
\* meant, or all others, and a function maps each character to the last of its
\* images, where identities do not count if they are not stored.
Represents ==
  /\ made # "461"
  /\ made = "yes" =>
       \A c \in 1..MAX_SIZE - 1 :
         IF kind = "class" THEN ismember(c) <=> Meant(c) # neg
         ELSE LET is == {i \in DOMAIN s : s[i] = c /\ (compress => Image(i) # c)}
              IN xlat(c) = IF is = {} THEN c ELSE Image(Max(is))
=============================================================================
