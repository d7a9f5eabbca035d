------------------------------ MODULE MCStream ------------------------------
(***************************************************************************)
(* The chains of agents that TLC checks Stream with.                       *)
(***************************************************************************)
EXTENDS Stream

\* strm $in:chunk:raw:print:$out
Speak  == <<"input", "chunk", "raw", "print", "output">>
\* strm $in:raw:rules:diphs:synth:#localsound
Single == <<"input", "raw", "rules", "diphs", "synth", "wavefm">>
\* strm $in:chunk:raw:join:synth:#localsound
Play   == <<"input", "chunk", "raw", "join", "synth", "wavefm">>
=============================================================================
