-------------------------------- MODULE Cow ---------------------------------
(***************************************************************************)
(* Contexts (src/src/daemon.cc) and the copy on write of their settings    *)
(* (cow, cow_claim, cow_unclaim and set_option, src/src/options.cc).  The  *)
(* settings of a context are a configuration, which points to a language,  *)
(* which points to a voice; each of these blocks is shared until somebody  *)
(* sets an option in it.  A block has one string option, whose value stays *)
(* shared between the block and its copies.                                *)
(***************************************************************************)
EXTENDS Integers, Sequences, FiniteSets

CONSTANTS
  Session,
  MaxConnect, MaxSetl, MaxSetg   \* bounds: how often each is done

ASSUME CowAssumption ==
  /\ IsFiniteSet(Session) /\ "master" \notin Session
  /\ MaxConnect \in Nat /\ MaxSetl \in Nat /\ MaxSetg \in Nat

VARIABLES
  mem,       \* the blocks: cow, parent, the string option (0: a literal),
             \* what the block points to, and whether it is allocated
  freed,     \* the strings that were freed
  ctx,       \* cfg, this_context, and context::config of every context
  trusted,   \* the sessions whose uid is UID_SERVER
  connects, setls, setgs,
  fault      \* what went wrong, if anything

cowVars == <<mem, freed, ctx, trusted, connects, setls, setgs, fault>>

Master == "master"
Context == Session \cup {Master}
Level == 1..3      \* OS_CFG, OS_LANG, OS_VOICE
Nowhere == 0

-----------------------------------------------------------------------------
(* Blocks.                                                                 *)

Block(parent, sub) == [cow |-> 1, parent |-> parent, str |-> 0, sub |-> sub, live |-> TRUE]

\* The blocks of a configuration.
Chain(m, c) == <<c, m[c].sub, m[m[c].sub].sub>>
Blocks(m, c) == {Chain(m, c)[l] : l \in Level}

\* cow(): the block to write to instead of b
CowNot(m, b) == [mem |-> m, block |-> b]
CowClaims(m, b) == [mem |-> Append(m, [m[b] EXCEPT !.cow = 0, !.parent = b]), block |-> Len(m) + 1]
cow(m, b) ==
  IF m[b].cow = 0 THEN [mem |-> m, block |-> b]
  ELSE [mem   |-> Append([m EXCEPT ![b].cow = @ - 1], [m[b] EXCEPT !.cow = 0, !.parent = b]),
        block |-> Len(m) + 1]

ClaimOne(m, b) == [m EXCEPT ![b].cow = @ + 1]
cow_claim(m, c) ==
  LET chain == Chain(m, c) IN ClaimOne(ClaimOne(ClaimOne(m, chain[3]), chain[2]), chain[1])

\* What set_option() writes to: the configuration, then its language, then its voice.
OwnTop(m, c) == LET r == cow(m, c) IN [mem |-> r.mem, top |-> r.block, block |-> r.block]
OwnSub(own) ==
  LET r == cow(own.mem, own.mem[own.block].sub)
  IN [mem |-> [r.mem EXCEPT ![own.block].sub = r.block], top |-> own.top, block |-> r.block]
Own(m, c, level) ==
  CASE level = 1 -> OwnTop(m, c)
    [] level = 2 -> OwnSub(OwnTop(m, c))
    [] level = 3 -> OwnSub(OwnSub(OwnTop(m, c)))

\* cow_free(): strings that the parent has not are freed with the block.
FreeAll(s, b) == [s EXCEPT !.mem[b].live = FALSE, !.freed = @ \cup {s.mem[b].str}]
Free(s, b) ==
  LET p == s.mem[s.mem[b].parent]
      str == s.mem[b].str
      t == [s EXCEPT !.mem[b].live = FALSE]
  IN IF ~p.live THEN [t EXCEPT !.fault = "the parent is gone"]
     ELSE IF p.str = str THEN t
     ELSE [t EXCEPT !.freed = @ \cup {str},
                    !.fault = IF str = 0 THEN "a literal is freed"
                              ELSE IF str \in s.freed THEN "a string is freed twice" ELSE @]

UnclaimOne(s, b) == IF s.mem[b].cow = 0 THEN Free(s, b) ELSE [s EXCEPT !.mem[b].cow = @ - 1]
cow_unclaim(s, c) ==
  LET chain == Chain(s.mem, c) IN UnclaimOne(UnclaimOne(UnclaimOne(s, chain[3]), chain[2]), chain[1])

-----------------------------------------------------------------------------
(* Contexts.                                                               *)

enter(k, c) == [k EXCEPT !.config[Master] = k.cfg, !.cfg = k.config[c], !.this = c]
leave(k, c) == [k EXCEPT !.config[c] = k.cfg, !.cfg = k.config[Master], !.this = Master]

\* context::context(): a claim, and a configuration of one's own
Connect(s) ==
  /\ ctx.config[s] = Nowhere /\ connects < MaxConnect /\ connects' = connects + 1
  /\ LET r == cow(cow_claim(mem, ctx.cfg), ctx.cfg)
     IN mem' = r.mem /\ ctx' = [ctx EXCEPT !.config[s] = r.block]
  /\ UNCHANGED <<freed, trusted, setls, setgs, fault>>

\* pass
Pass(s) ==
  /\ ctx.config[s] # Nowhere /\ trusted' = trusted \cup {s}
  /\ UNCHANGED <<mem, freed, ctx, connects, setls, setgs, fault>>

\* set_option() in the current context.  That a value is bad (ok = FALSE) is
\* found out when the blocks have been copied.
set_option(k, level, ok) ==
  LET own == Own(mem, k.cfg, level)
  IN [mem |-> IF ok THEN [own.mem EXCEPT ![own.block].str = setls + setgs + 1] ELSE own.mem,
      ctx |-> [k EXCEPT !.cfg = own.top]]

\* setl, in a timeslice of the session
Setl(s) ==
  /\ ctx.config[s] # Nowhere /\ setls < MaxSetl /\ setls' = setls + 1 /\ setgs' = setgs
  /\ \E level \in Level, ok \in BOOLEAN :
       LET r == set_option(enter(ctx, s), level, ok)
       IN mem' = r.mem /\ ctx' = leave(r.ctx, s)
  /\ UNCHANGED <<freed, trusted, connects, fault>>

\* setg, in a timeslice of the session, which it leaves for the master context
Setg(s) ==
  /\ s \in trusted /\ setgs < MaxSetg /\ setgs' = setgs + 1 /\ setls' = setls
  /\ \E level \in Level, ok \in BOOLEAN :
       LET r == set_option(leave(enter(ctx, s), s), level, ok)
       IN mem' = r.mem /\ ctx' = leave(enter(r.ctx, s), s)
  /\ UNCHANGED <<freed, trusted, connects, fault>>

\* context::~context()
Close(s) ==
  /\ ctx.config[s] # Nowhere
  /\ LET r == cow_unclaim([mem |-> mem, freed |-> freed, fault |-> fault], ctx.config[s])
     IN mem' = r.mem /\ freed' = r.freed /\ fault' = r.fault
  /\ ctx' = [ctx EXCEPT !.config[s] = Nowhere]
  /\ trusted' = trusted \ {s}
  /\ UNCHANGED <<connects, setls, setgs>>

\* The configuration, the language and the voice of the master context, claimed
\* by it and by the static cfg.
CowInit ==
  /\ mem = <<Block(1, 2), Block(2, 3), Block(3, Nowhere)>> /\ freed = {}
  /\ ctx = [cfg |-> 1, this |-> Master,
            config |-> [c \in Context |-> IF c = Master THEN 1 ELSE Nowhere]]
  /\ trusted = {} /\ connects = 0 /\ setls = 0 /\ setgs = 0 /\ fault = "none"

CowNext ==
  /\ fault = "none"
  /\ \E s \in Session : Connect(s) \/ Pass(s) \/ Setl(s) \/ Setg(s) \/ Close(s)

CowSpec == CowInit /\ [][CowNext]_cowVars
-----------------------------------------------------------------------------
Connected == {c \in Context : ctx.config[c] # Nowhere}
Claimants(b) == {c \in Connected : b \in Blocks(mem, ctx.config[c])}
Static(b) == IF b <= 3 THEN 1 ELSE 0

\* "cow == number of claimers minus one": the first blocks are also claimed by the
\* static cfg.  A block is allocated as long as somebody claims it: no context
\* works with freed settings, and none leak, whoever copied what in which order.
Counted ==
  \A b \in DOMAIN mem :
    LET n == Cardinality(Claimants(b)) + Static(b)
    IN IF mem[b].live THEN n > 0 /\ mem[b].cow = n - 1 ELSE n = 0

\* The strings of a context, by level.
Seen(c) == [l \in Level |-> mem[Chain(mem, ctx.config[c])[l]].str]

\* No string is freed that a context still has, or twice, and no block outlives
\* the parent it is compared with when it is freed.
NoneDangling ==
  /\ fault = "none"
  /\ \A c \in Connected, l \in Level : Seen(c)[l] \notin freed

\* So it is as long as setg has been used only once.
OnceSafe == setgs <= 1 => NoneDangling

\* Settings live as long as they are used, and no longer (cow, cow_claim, cow_free and
\* cow_unclaim, src/src/options.cc:52-141).
Owned == Counted /\ OnceSafe

Contract == INSTANCE Settings WITH
  Value <- 0..(MaxSetl + MaxSetg),
  val <- [c \in Context |-> IF c \in Connected THEN Seen(c) ELSE <<>>]

\* Contexts that share what they can still have settings of their own.
Isolated == Contract!Spec
=============================================================================
