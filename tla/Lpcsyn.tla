------------------------------- MODULE Lpcsyn -------------------------------
(***************************************************************************)
(* The linear prediction synthesizer (src/src/lpcsyn.cc): how the models   *)
(* of a segment are given pitch periods and samples, so that the sound     *)
(* keeps time although only whole periods can be made.  What the filters   *)
(* do to the samples is left out; when the excitation starts is not.       *)
(***************************************************************************)
EXTENDS Integers, Sequences

CONSTANTS
  Inventory,     \* segments: for each model whether it is voiced (znely)
  Durations,     \* d.t: samples asked for, for each model of a segment
  Periods,       \* samp_rate / d.f
  InitF,         \* v->init_f
  MinSynt,       \* minsynt
  MaxSegments    \* bound: segments of a text

ASSUME LpcAssumption ==
  /\ Inventory \subseteq Seq(BOOLEAN)
  /\ Durations \subseteq Nat \ {0} /\ Periods \subseteq Nat \ {0}
  /\ InitF \in Nat \ {0} /\ MinSynt \in Nat \ {0} /\ MaxSegments \in Nat

VARIABLES
  nvyrov,      \* how far the sound is ahead of time, in samples
  lold,        \* the pitch period of the segment before
  ipitch,      \* samples until the next excitation impulse
  lastl,       \* the pitch period of the model before, or 0
  znely,       \* the rest of the segment's models
  imodel, numodel,
  target,      \* [t, period] of the segment
  lsyn,        \* the pitch period of this model, 0 unless voiced
  nsyn,        \* samples of the model that synmod() is still to make
  heard,       \* whether anything of this segment has been made
  segs         \* how many segments there have been

lpcVars == <<nvyrov, lold, ipitch, lastl, znely, imodel, numodel, target, lsyn, nsyn, heard, segs>>

-----------------------------------------------------------------------------
(* The periods and samples of a model.                                     *)

Distance(a) == IF a < 0 THEN -a ELSE a

\* The division of integers in C: towards zero.
Trunc(a, b) == IF a >= 0 THEN a \div b ELSE -((-a) \div b)

\* The period of model k of n between two segments.
Glide(a, b, k, n) == a + Trunc(Trunc((b - a) * 256, n) * (k + 1), 256)

Period(k) == IF k = numodel - 1 THEN target.period ELSE Glide(lold, target.period, k, numodel)

\* Whole periods, as many as bring the sound nearest to the time.
\* Mutant: the sound is as long as it should be.
Exactly(t, l) == t - nvyrov
Whole(t, l) ==
  LET i == t \div l + 1 IN
  IF i = 1 THEN l
  ELSE IF Distance(nvyrov - t + i * l) < Distance(nvyrov - t + (i - 1) * l) THEN i * l ELSE (i - 1) * l

-----------------------------------------------------------------------------
LpcInit ==
  /\ nvyrov = 0 /\ lold = InitF /\ ipitch = 0 /\ lastl = InitF
  /\ znely = <<>> /\ imodel = 0 /\ numodel = 0 /\ target = [t |-> 0, period |-> 0]
  /\ lsyn = 0 /\ nsyn = 0 /\ heard = TRUE /\ segs = 0

\* The next segment is passed to synseg(); one without models is not known and says nothing.
Segment ==
  /\ znely = <<>> /\ nsyn = 0 /\ segs < MaxSegments
  /\ \E seg \in Inventory, t \in Durations, p \in Periods :
       /\ znely' = seg /\ numodel' = Len(seg) /\ target' = [t |-> t, period |-> p]
       /\ heard' = (seg = <<>>)
  /\ imodel' = 0 /\ segs' = segs + 1
  /\ UNCHANGED <<nvyrov, lold, ipitch, lastl, lsyn, nsyn>>

\* What the excitation counter becomes when synmod() starts a model of period l.
Started(l) ==
  IF l = 0 THEN 0
  ELSE IF ipitch # 0 /\ ipitch + l - lastl > 0 THEN ipitch + l - lastl ELSE ipitch

\* A model of n samples and period l; too short a one is not made.
Make(l, n) ==
  /\ lsyn' = l
  /\ IF n >= MinSynt
     THEN nsyn' = n /\ ipitch' = Started(l) /\ lastl' = l /\ heard' = TRUE
     ELSE UNCHANGED <<nsyn, ipitch, lastl, heard>>

Advance ==
  /\ znely' = Tail(znely) /\ imodel' = imodel + 1
  /\ lold' = IF Len(znely) = 1 THEN target.period ELSE lold
  /\ UNCHANGED <<numodel, target, segs>>

\* The sound is not far ahead: the model is made.
Synchronized ==
  /\ nsyn = 0 /\ znely # <<>> /\ nvyrov < target.t \div 2
  /\ LET l == IF Head(znely) THEN Period(imodel) ELSE 0
         n == IF Head(znely) THEN Whole(target.t, l) ELSE target.t - nvyrov IN
     /\ Make(l, n)
     /\ nvyrov' = nvyrov + n - target.t
  /\ Advance

\* What is made of a model when the sound is well ahead: of the last one a little.
\* Mutant: nothing.
Skipped(l) == 0
Least(l) == IF imodel # numodel - 1 THEN 0 ELSE IF l = 0 THEN MinSynt ELSE l

Ahead ==
  /\ nsyn = 0 /\ znely # <<>> /\ nvyrov >= target.t \div 2
  /\ LET l == IF Head(znely) /\ imodel = numodel - 1 THEN target.period ELSE 0 IN Make(l, Least(l))
  /\ nvyrov' = nvyrov - target.t
  /\ Advance

\* One turn of the loop of synmod(): the excitation starts again when its counter is out.
Sample ==
  /\ nsyn > 0
  /\ nsyn' = nsyn - 1
  /\ ipitch' = IF lsyn = 0 THEN ipitch ELSE (IF ipitch = 0 THEN lsyn ELSE ipitch) - 1
  /\ UNCHANGED <<nvyrov, lold, lastl, znely, imodel, numodel, target, lsyn, heard, segs>>

LpcNext == Segment \/ Synchronized \/ Ahead \/ Sample

LpcSpec == LpcInit /\ [][LpcNext]_lpcVars /\ WF_lpcVars(Synchronized \/ Ahead \/ Sample)

-----------------------------------------------------------------------------
\* When a voiced model has been made, a whole period has ended: no model starts in the
\* middle of an impulse, where synmod() would use ihilb before it is set (its FIXME).
InPhase == nsyn = 0 => ipitch = 0

\* However long it goes on, the sound is at most half of the longest segment behind and
\* the longest period ahead of time.
Longest(t, p) == (\A u \in Durations : u <= t) /\ (\A q \in Periods \cup {InitF} : q <= p)
KeepsPace == \A t \in Durations, p \in Periods \cup {InitF} :
  Longest(t, p) => -t <= 2 * nvyrov + 1 /\ nvyrov <= p

\* Something of every known segment is heard, however far ahead the sound is.
AllHeard == znely = <<>> => heard

\* No model is asked for that is too short to be made.
Audible ==
  /\ \A t \in Durations : t >= 2 * MinSynt
  /\ \A p \in Periods \cup {InitF} : p >= MinSynt

\* Segment after segment, the models that are made keep the phase of the excitation and
\* the time of the prosody, and nothing is left out (synmod and synseg,
\* src/src/lpcsyn.cc:119-214).
InTime == InPhase /\ KeepsPace /\ (Audible => AllHeard)
=============================================================================
