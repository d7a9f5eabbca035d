------------------------------ MODULE Segments ------------------------------
(***************************************************************************)
(* The segments of a text are taken from its structure in portions         *)
(* (unit::write_segs of src/src/unit.cc), by an agent that gives the text  *)
(* up then (a_segs of agent.cc) and by a program that dumps it repeatedly  *)
(* (play_segments and show_segments of synth.cc).  Where a portion ended is*)
(* remembered in one place for all texts, whose memory is used again.      *)
(***************************************************************************)
EXTENDS Integers, Sequences

CONSTANTS
  Addresses,       \* where the root of a text may be
  Sizes,           \* how many segments texts have
  DbSizes,         \* what seg_buff_size may be set to; 0: not set
  InitDiphsBs,     \* INIT_DIPHS_BS
  BuffSize,        \* BUFF_SIZE
  MaxTexts         \* bound: texts that are processed

ASSUME SegAssumption ==
  /\ Sizes \subseteq Nat /\ DbSizes \subseteq Nat
  /\ InitDiphsBs \in Nat \ {0} /\ BuffSize \in Nat \ {0} /\ MaxTexts \in Nat

Empty == <<0, 0>>        \* &EMPTY, or a pointer to nothing
Free == 0

VARIABLES
  root,       \* at each address: the number of the text that is there, or Free
  sizes,      \* how many segments every text has
  ucache,     \* iucache, ifcache and ocache
  dump        \* who takes segments of which text, in portions of n, and what it has got

segVars == <<root, sizes, ucache, dump>>

Nobody == [by |-> "nobody", this |-> Free, text |-> Free, n |-> 0, more |-> FALSE, got |-> <<>>]

-----------------------------------------------------------------------------
(* unit::write_segs().  A segment is <<number of the text, number in it>>. *)

LeftMost(this) == IF sizes[root[this]] = 0 THEN Empty ELSE <<root[this], 1>>

\* So many segments further, or Empty if there are not so many.
Further(s, m) == IF s = Empty \/ s[2] + m > sizes[s[1]] THEN Empty ELSE <<s[1], s[2] + m>>

\* Mutant: the rule that every dump begins with the first segment is relied on no more.
HitAlways(this, first) == first = ucache.first /\ this = ucache.this
Hit(this, first) == first # 0 /\ first = ucache.first /\ this = ucache.this

From(this, first) == IF Hit(this, first) THEN ucache.at ELSE Further(LeftMost(this), first)

\* The segments from s on, n at most.
Remaining(s) == sizes[s[1]] - s[2] + 1
Portion(s, n) ==
  IF s = Empty THEN <<>>
  ELSE [i \in 1..(IF n < Remaining(s) THEN n ELSE Remaining(s)) |-> <<s[1], s[2] + i - 1>>]

write_segs(this, first, n) ==
  LET s == From(this, first)
      p == Portion(s, n)
  IN [p |-> p, cache |-> [this |-> this, first |-> first + Len(p), at |-> Further(s, Len(p))]]

-----------------------------------------------------------------------------
SegInit ==
  /\ root = [a \in Addresses |-> Free] /\ sizes = <<>>
  /\ ucache = [this |-> Free, first |-> 0, at |-> Empty]
  /\ dump = Nobody

\* A text is parsed and rules are applied.
Parse(a) ==
  /\ ~dump.more /\ root[a] = Free /\ Len(sizes) < MaxTexts
  /\ root' = [root EXCEPT ![a] = Len(sizes) + 1]
  /\ \E n \in Sizes : sizes' = Append(sizes, n)
  /\ UNCHANGED <<ucache, dump>>

\* submain() deletes a text that has been dumped or not.
Delete(a) ==
  /\ ~dump.more /\ root[a] # Free
  /\ root' = [root EXCEPT ![a] = Free]
  /\ UNCHANGED <<sizes, ucache, dump>>

\* a_segs::run(); play_segments() and show_segments()
Begin(by, a, n) ==
  /\ ~dump.more /\ root[a] # Free
  /\ dump' = [by |-> by, this |-> a, text |-> root[a], n |-> n, more |-> TRUE, got |-> <<>>]
  /\ UNCHANGED <<root, sizes, ucache>>

Dbs(n) == IF n = 0 THEN InitDiphsBs ELSE n

\* The agent goes on if it has got all that it asked for and a limit is set.
Segs ==
  /\ dump.by = "segs" /\ dump.more
  /\ LET w == write_segs(dump.this, Len(dump.got), Dbs(dump.n))
         more == dump.n # 0 /\ Len(w.p) >= Dbs(dump.n)
     IN /\ dump' = [dump EXCEPT !.got = @ \o w.p, !.more = more]
        /\ root' = IF more THEN root ELSE [root EXCEPT ![dump.this] = Free]
        /\ ucache' = w.cache
  /\ UNCHANGED sizes

\* The program goes on if a whole buffer was filled.
Play ==
  /\ dump.by = "play" /\ dump.more
  /\ LET w == write_segs(dump.this, Len(dump.got), BuffSize)
     IN /\ dump' = [dump EXCEPT !.got = @ \o w.p, !.more = Len(w.p) = BuffSize]
        /\ ucache' = w.cache
  /\ UNCHANGED <<root, sizes>>

SegNext ==
  \/ \E a \in Addresses : Parse(a) \/ Delete(a) \/ Begin("play", a, BuffSize)
  \/ \E a \in Addresses, n \in DbSizes : Begin("segs", a, n)
  \/ Segs \/ Play

SegSpec == SegInit /\ [][SegNext]_segVars

-----------------------------------------------------------------------------
\* Every segment of a text is taken once and in order, in portions of any size, though the
\* place where the last portion ended is kept when its text is deleted and another one has
\* its memory (write_segs, src/src/unit.cc:90-147).  Of a text that is too long an agent
\* without a limit takes the beginning only.
Taken(d) ==
  IF d.by = "segs" /\ d.n = 0 /\ sizes[d.text] > InitDiphsBs THEN InitDiphsBs ELSE sizes[d.text]
AllDumped ==
  dump.by # "nobody" /\ ~dump.more =>
    dump.got = [i \in 1..Taken(dump) |-> <<dump.text, i>>]
=============================================================================
