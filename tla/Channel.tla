------------------------------ MODULE Channel -------------------------------
(***************************************************************************)
(* What a client may expect of the replies it is sent: they arrive, each   *)
(* byte once and in order, however slowly it reads.                        *)
(***************************************************************************)
EXTENDS Naturals

CONSTANT Line   \* the lines (descriptors) of the server

VARIABLES
  sent,  \* bytes sent on a line to its present client
  got    \* bytes that arrived there

vars == <<sent, got>>

Init == sent = [f \in Line |-> 0] /\ got = [f \in Line |-> 0]

Send(f) ==
  /\ sent'[f] \in Nat /\ sent'[f] > sent[f] /\ got'[f] \in got[f]..sent'[f]
  /\ sent' = [sent EXCEPT ![f] = sent'[f]] /\ got' = [got EXCEPT ![f] = got'[f]]

Arrive(f) ==
  /\ \E n \in got[f] + 1 .. sent[f] : got' = [got EXCEPT ![f] = n]
  /\ UNCHANGED sent

\* The client leaves and forgoes the rest.
Leave(f) == sent' = [sent EXCEPT ![f] = got[f]] /\ UNCHANGED got

\* The line goes to another client when all has arrived.
Renew(f) ==
  /\ got[f] = sent[f]
  /\ sent' = [sent EXCEPT ![f] = 0] /\ got' = [got EXCEPT ![f] = 0]

Next == \E f \in Line : Send(f) \/ Arrive(f) \/ Leave(f) \/ Renew(f)

Spec == Init /\ [][Next]_vars /\ \A f \in Line : WF_vars(Arrive(f))
=============================================================================
