----------------------------- MODULE MCSession ------------------------------
(***************************************************************************)
(* The three ways in which a session moves bytes, one of them at a time:   *)
(* the lines it reads, the replies it sends, and the data connection.      *)
(***************************************************************************)
EXTENDS Sgets, Output, Replier

VARIABLE way    \* "lines", "replies" or "data"

vars == <<sgetsVars, outputVars, replierVars, way>>

MCWorlds == {{}, {"empty", "garbage", "leave", "done"}}

Init == SgetsInit /\ OutputInit /\ ReplierInit /\ way \in {"lines", "replies", "data"} /\ (way # "replies" => Calm)

Next ==
  \/ way = "lines" /\ SgetsNext /\ UNCHANGED <<outputVars, replierVars, way>>
  \/ way = "replies" /\ ReplierNext /\ UNCHANGED <<sgetsVars, outputVars, way>>
  \/ way = "data" /\ OutputNext /\ UNCHANGED <<sgetsVars, replierVars, way>>

\* The fairness of the three.
Fairness ==
  /\ WF_sgetsVars(Woken) /\ WF_sgetsVars(Dispatch) /\ WF_sgetsVars(Completed)
  /\ WF_outputVars(Timeslice) /\ WF_outputVars(WakeUp)
  /\ \A f \in Fd : WF_replierVars(Run(f))

Spec == Init /\ [][Next]_vars /\ Fairness
=============================================================================
