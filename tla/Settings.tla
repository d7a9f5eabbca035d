------------------------------ MODULE Settings ------------------------------
(* What contexts promise: every session has settings of its own, which      *)
(* begin as a copy of the server's, and which nobody else can change.       *)
EXTENDS Naturals

CONSTANTS
  Session,
  Value,
  Level      \* the scopes of options: the server, a language, a voice

VARIABLE val \* the value of the option of each level, or None

Master == "master"
None   == <<>>

Init == val = [c \in Session \cup {Master} |-> IF c = Master THEN [l \in Level |-> 0] ELSE None]

Connect(s) == val[s] = None /\ val' = [val EXCEPT ![s] = val[Master]]
Set(c, l, v) == val[c] # None /\ val' = [val EXCEPT ![c][l] = v]
Close(s) == val' = [val EXCEPT ![s] = None]

Next ==
  \/ \E s \in Session : Connect(s) \/ Close(s)
  \/ \E c \in Session \cup {Master}, l \in Level, v \in Value : Set(c, l, v)

Spec == Init /\ [][Next]_val
=============================================================================
