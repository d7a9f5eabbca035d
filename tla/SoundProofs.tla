---------------------------- MODULE SoundProofs -----------------------------
(***************************************************************************)
(* Proofs about the way from a session to its sound.  The linear           *)
(* prediction synthesizer: for every inventory and prosody the excitation  *)
(* is in phase with the models and the sound keeps time.  The voices: for  *)
(* any sessions, languages and voices, which are local, out of reach or    *)
(* unknown, and whatever each falls back to, a session speaks as it asked. *)
(* The segments: whoever dumps a text gets all of it.  The synthesizer     *)
(* that adds impulses up: each sounds where it should start.  The client:  *)
(* it gets what was sent for each of its texts, in order and completely.   *)
(***************************************************************************)
EXTENDS Lpcsyn, Fallback, Segments, Ptdsyn, Client, SequenceTheorems, WellFoundedInduction, TLAPS

(* The linear prediction synthesizer.                                      *)

Positive == Nat \ {0}

-----------------------------------------------------------------------------
(* Division.                                                               *)

\* What division by a positive number gives.
LEMMA Division ==
  ASSUME NEW a \in Nat, NEW n \in Positive
  PROVE  /\ a \div n \in Nat
         /\ n * (a \div n) <= a
         /\ a < n * (a \div n) + n
  BY SMT DEF Positive

\* A product grows with its factor.
LEMMA Monotone ==
  ASSUME NEW a \in Nat, NEW b \in Nat, NEW c \in Nat, b <= c
  PROVE  a * b <= a * c
<1>1. c - b \in Nat
  OBVIOUS
<1>2. a * (c - b) \in Nat
  BY <1>1
<1>3. a * c = a * b + a * (c - b)
  BY SMT
<1> QED
  BY <1>2, <1>3

\* A part of a distance, taken by two divisions as the code does, is not longer than it.
LEMMA Part ==
  ASSUME NEW d \in Nat, NEW n \in Positive, NEW k \in Nat, k < n
  PROVE  LET z == (d * 256) \div n IN
         /\ z \in Nat
         /\ z * (k + 1) \in Nat
         /\ (z * (k + 1)) \div 256 \in 0..d
<1> DEFINE z == (d * 256) \div n
           y == z * (k + 1)
<1>1. d * 256 \in Nat
  OBVIOUS
<1>2. z \in Nat /\ n * z <= d * 256
  BY <1>1, Division
<1>3. y \in Nat
  BY <1>2
<1>4. z * (k + 1) <= z * n
  <2>1. k + 1 \in Nat /\ n \in Nat /\ k + 1 <= n
    BY DEF Positive
  <2> HIDE DEF z
  <2> QED
    BY <1>2, <2>1, Monotone
<1>5. z * n = n * z
  <2> HIDE DEF z
  <2> QED
    BY <1>2 DEF Positive
<1>6. y <= d * 256
  <2>1. z * n \in Int /\ n * z \in Int
    BY <1>2 DEF Positive
  <2> HIDE DEF z
  <2> QED
    BY <1>1, <1>2, <1>3, <1>4, <1>5, <2>1
<1>7. y \div 256 \in Nat /\ 256 * (y \div 256) <= y
  <2> HIDE DEF y
  <2>1. 256 \in Positive
    BY DEF Positive
  <2> QED
    BY <1>3, <2>1, Division, ZenonT(30)
<1>8. y \div 256 <= d
  <2> HIDE DEF y
  <2> QED
    BY <1>3, <1>6, <1>7
<1> QED
  BY <1>2, <1>3, <1>7, <1>8

\* Every period of a glide is one between its ends.
LEMMA GlideBetween ==
  ASSUME NEW a \in Positive, NEW b \in Positive, NEW n \in Positive, NEW k \in Nat, k < n
  PROVE  /\ Glide(a, b, k, n) \in Positive
         /\ Glide(a, b, k, n) <= a \/ Glide(a, b, k, n) <= b
         /\ Glide(a, b, k, n) >= a \/ Glide(a, b, k, n) >= b
<1>1. CASE a <= b
  <2> DEFINE d == b - a
             z == (d * 256) \div n
             y == z * (k + 1)
  <2>1. d \in Nat
    BY <1>1 DEF Positive
  <2>2. z \in Nat /\ y \in Nat /\ y \div 256 \in 0..d
    BY <2>1, Part
  <2>3. Trunc((b - a) * 256, n) = z
    BY <2>1 DEF Trunc
  <2>4. Trunc(z * (k + 1), 256) = y \div 256
    <3> HIDE DEF z
    <3> QED
      BY <2>2 DEF Trunc
  <2>5. Glide(a, b, k, n) = a + (y \div 256)
    BY <2>3, <2>4 DEF Glide
  <2> HIDE DEF y
  <2> QED
    BY <2>1, <2>2, <2>5 DEF Positive
<1>2. CASE b < a
  <2> DEFINE d == a - b
             z == (d * 256) \div n
             y == z * (k + 1)
  <2>1. d \in Nat /\ d > 0
    BY <1>2 DEF Positive
  <2>2. z \in Nat /\ y \in Nat /\ y \div 256 \in 0..d
    BY <2>1, Part
  <2>3. (b - a) * 256 < 0 /\ -((b - a) * 256) = d * 256
    BY <2>1 DEF Positive
  <2>4. Trunc((b - a) * 256, n) = -z
    BY <2>3 DEF Trunc, Positive
  <2>5. (-z) * (k + 1) = -y
    <3> HIDE DEF z
    <3> QED
      BY <2>2
  <2>6. Trunc(-y, 256) = -(y \div 256)
    <3> HIDE DEF y
    <3>1. CASE y <= 0
      <4>1. 256 \in Positive
        BY DEF Positive
      <4>2. y \div 256 \in Nat /\ y \div 256 <= 0
        BY <2>2, <3>1, <4>1, Division
      <4>3. -y = y /\ -(y \div 256) = y \div 256 /\ -y >= 0
        BY <2>2, <3>1, <4>2
      <4> QED
        BY <4>3 DEF Trunc
    <3>2. CASE y > 0
      <4>1. ~(-y >= 0) /\ -(-y) = y
        BY <2>2, <3>2
      <4> QED
        BY <4>1 DEF Trunc
    <3> QED
      BY <2>2, <3>1, <3>2
  <2>7. Glide(a, b, k, n) = a - (y \div 256)
    <3>1. Glide(a, b, k, n) = a + -(y \div 256)
      BY <2>4, <2>5, <2>6 DEF Glide
    <3> HIDE DEF y
    <3> QED
      BY <2>2, <3>1 DEF Positive
  <2>8. d < a /\ d \in Nat /\ b = a - d
    BY <2>1 DEF Positive
  <2> HIDE DEF y, d
  <2> QED
    BY <2>2, <2>7, <2>8 DEF Positive
<1> QED
  BY <1>1, <1>2 DEF Positive

-----------------------------------------------------------------------------
(* The phase of the excitation.                                            *)

LpcTypeOK ==
  /\ nvyrov \in Int /\ lold \in Positive /\ ipitch \in Nat /\ lastl \in Nat
  /\ znely \in Seq(BOOLEAN) /\ imodel \in Nat /\ numodel \in Nat
  /\ imodel + Len(znely) = numodel
  /\ target \in [t : Nat, period : Nat]
  /\ znely # <<>> => target.t \in Durations /\ target.period \in Periods
  /\ lsyn \in Nat /\ nsyn \in Nat

\* What is left of a model are whole periods and the end of one that has begun.
Phase ==
  IF lsyn = 0 THEN ipitch = 0 ELSE \E q \in Nat : nsyn = q * lsyn + ipitch

\* Whole periods are what the phase needs, at least one of them.
LEMMA WholePeriods ==
  ASSUME LpcTypeOK, NEW t \in Nat, NEW l \in Positive
  PROVE  \E q \in Positive : Whole(t, l) = q * l
<1> DEFINE i == t \div l + 1
<1>1. t \div l \in Nat
  BY Division
<1>2. i \in Positive
  BY <1>1 DEF Positive
<1> HIDE DEF i
<1>3. Whole(t, l) = IF i = 1 THEN l
        ELSE IF Distance(nvyrov - t + i * l) < Distance(nvyrov - t + (i - 1) * l) THEN i * l ELSE (i - 1) * l
  BY DEF Whole, i
<1>4. CASE i = 1
  <2>1. 1 \in Positive /\ Whole(t, l) = 1 * l
    BY <1>3, <1>4 DEF Positive
  <2> QED
    BY <2>1
<1>5. CASE i # 1
  <2>1. i - 1 \in Positive
    BY <1>2, <1>5 DEF Positive
  <2> QED
    BY <1>2, <1>3, <1>5, <2>1
<1> QED
  BY <1>4, <1>5

\* The period of a voiced model is positive.
LEMMA PeriodPositive ==
  ASSUME LpcAssumption, LpcTypeOK, znely # <<>>
  PROVE  /\ Period(imodel) \in Positive
         /\ target.period \in Positive /\ target.t \in Positive
         /\ numodel \in Positive /\ imodel < numodel
<1>1. target.period \in Positive /\ target.t \in Positive
  BY DEF LpcTypeOK, LpcAssumption, Positive
<1>2. Len(znely) \in Nat /\ Len(znely) > 0
  BY DEF LpcTypeOK
<1>3. numodel \in Positive /\ imodel < numodel
  BY <1>2 DEF LpcTypeOK, Positive
<1>4. Period(imodel) = target.period
      \/ Period(imodel) = Glide(lold, target.period, imodel, numodel)
  BY DEF Period
<1>5. Glide(lold, target.period, imodel, numodel) \in Positive
  BY <1>1, <1>3, GlideBetween DEF LpcTypeOK
<1> QED
  BY <1>1, <1>3, <1>4, <1>5

\* A model that starts in phase and is of whole periods, or not voiced, is in phase.
LEMMA MakeInPhase ==
  ASSUME LpcTypeOK, Phase, nsyn = 0, NEW l \in Nat, NEW n \in Nat,
         l # 0 => \E q \in Nat : n = q * l, Make(l, n)
  PROVE  Phase' /\ lsyn' \in Nat /\ nsyn' \in Nat /\ ipitch' \in Nat /\ lastl' \in Nat
<1>1. ipitch = 0
  <2>1. CASE lsyn = 0
    BY <2>1 DEF Phase
  <2>2. CASE lsyn # 0
    <3>1. PICK q \in Nat : 0 = q * lsyn + ipitch
      BY <2>2 DEF Phase
    <3>2. q * lsyn \in Nat
      BY DEF LpcTypeOK
    <3> QED
      BY <3>1, <3>2 DEF LpcTypeOK
  <2> QED
    BY <2>1, <2>2
<1>2. Started(l) = 0
  BY <1>1 DEF Started
<1>3. lsyn' = l /\ ipitch' = 0 /\ nsyn' \in {0, n} /\ lastl' \in Nat
  BY <1>1, <1>2 DEF Make, LpcTypeOK
<1>4. ASSUME l # 0
      PROVE  \E q \in Nat : nsyn' = q * l + 0
  <2>1. CASE nsyn' = 0
    <3>1. 0 \in Nat /\ nsyn' = 0 * l + 0
      BY <2>1
    <3> QED
      BY <3>1
  <2>2. CASE nsyn' = n
    <3>1. PICK q \in Nat : n = q * l
      BY <1>4
    <3>2. nsyn' = q * l + 0
      BY <2>2, <3>1
    <3> QED
      BY <3>2
  <2> QED
    BY <1>3, <2>1, <2>2
<1> QED
  BY <1>3, <1>4 DEF Phase

LpcInv == LpcTypeOK /\ Phase

LEMMA LpcInvInit == ASSUME LpcAssumption, LpcInit PROVE LpcInv
  BY DEF LpcAssumption, LpcInit, LpcInv, LpcTypeOK, Phase, Positive

LEMMA SegmentPreserves == ASSUME LpcAssumption, LpcInv, Segment PROVE LpcInv'
<1>1. PICK seg \in Inventory, t \in Durations, p \in Periods :
        znely' = seg /\ numodel' = Len(seg) /\ target' = [t |-> t, period |-> p]
  BY DEF Segment
<1>2. seg \in Seq(BOOLEAN) /\ t \in Nat /\ p \in Nat
  BY DEF LpcAssumption
<1>3. LpcTypeOK'
  BY <1>1, <1>2 DEF Segment, LpcInv, LpcTypeOK
<1>4. Phase'
  BY DEF Segment, LpcInv, Phase
<1> QED
  BY <1>3, <1>4 DEF LpcInv

\* Going on to the next model keeps the types of what says which model is next.
LEMMA AdvancePreserves ==
  ASSUME LpcAssumption, LpcTypeOK, znely # <<>>, Advance
  PROVE  /\ znely' \in Seq(BOOLEAN) /\ imodel' \in Nat /\ numodel' \in Nat
         /\ imodel' + Len(znely') = numodel' /\ lold' \in Positive
         /\ target' \in [t : Nat, period : Nat]
         /\ target'.t \in Durations /\ target'.period \in Periods
<1>1. znely' = Tail(znely) /\ Tail(znely) \in Seq(BOOLEAN) /\ Len(Tail(znely)) = Len(znely) - 1
  BY DEF Advance, LpcTypeOK
<1>2. target.period \in Positive
  BY PeriodPositive
<1>3. imodel' = imodel + 1 /\ numodel' = numodel /\ target' = target
  BY DEF Advance
<1>4. lold' \in Positive
  BY <1>2 DEF Advance, LpcTypeOK
<1> QED
  BY <1>1, <1>3, <1>4 DEF LpcTypeOK

LEMMA SynchronizedPreserves == ASSUME LpcAssumption, LpcInv, Synchronized PROVE LpcInv'
<1> DEFINE l == IF Head(znely) THEN Period(imodel) ELSE 0
           n == IF Head(znely) THEN Whole(target.t, l) ELSE target.t - nvyrov
<1>1. /\ nsyn = 0 /\ znely # <<>> /\ nvyrov < target.t \div 2
      /\ Make(l, n) /\ nvyrov' = nvyrov + n - target.t /\ Advance
  BY DEF Synchronized
<1>2. LpcTypeOK /\ Phase /\ target.t \in Nat
  BY DEF LpcInv, LpcTypeOK
<1>3. l \in Nat /\ n \in Nat /\ (l # 0 => \E q \in Nat : n = q * l)
  <2>1. CASE Head(znely)
    <3>1. l \in Positive /\ n = Whole(target.t, l)
      BY <1>1, <1>2, <2>1, PeriodPositive
    <3>2. PICK q \in Positive : Whole(target.t, l) = q * l
      BY <1>2, <3>1, WholePeriods
    <3> HIDE DEF l, n
    <3>3. q \in Nat /\ l \in Nat
      BY <3>1, <3>2 DEF Positive
    <3>4. q * l \in Nat
      BY <3>3
    <3> QED
      BY <3>1, <3>2, <3>3, <3>4
  <2>2. CASE ~Head(znely)
    <3>1. 2 \in Positive
      BY DEF Positive
    <3>2. target.t \div 2 \in Nat /\ 2 * (target.t \div 2) <= target.t
      BY <1>2, <3>1, Division
    <3>3. nvyrov \in Int /\ nvyrov < target.t \div 2
      BY <1>1, <1>2 DEF LpcTypeOK
    <3>4. target.t - nvyrov \in Nat
      BY <1>2, <3>2, <3>3
    <3> QED
      BY <2>2, <3>4
  <2> QED
    BY <2>1, <2>2
<1> HIDE DEF l, n
<1>4. Phase' /\ lsyn' \in Nat /\ nsyn' \in Nat /\ ipitch' \in Nat /\ lastl' \in Nat
  BY <1>1, <1>2, <1>3, MakeInPhase
<1>5. nvyrov' \in Int
  BY <1>1, <1>2, <1>3 DEF LpcTypeOK
<1> QED
  BY <1>1, <1>2, <1>4, <1>5, AdvancePreserves DEF LpcInv, LpcTypeOK

LEMMA AheadPreserves == ASSUME LpcAssumption, LpcInv, Ahead PROVE LpcInv'
<1> DEFINE l == IF Head(znely) /\ imodel = numodel - 1 THEN target.period ELSE 0
<1>1. /\ nsyn = 0 /\ znely # <<>> /\ Make(l, Least(l))
      /\ nvyrov' = nvyrov - target.t /\ Advance
  BY DEF Ahead
<1>2. LpcTypeOK /\ Phase /\ target.t \in Nat /\ target.period \in Nat
  BY DEF LpcInv, LpcTypeOK
<1>3. l \in Nat
  BY <1>2
<1> HIDE DEF l
<1>4. Least(l) \in Nat /\ (l # 0 => \E q \in Nat : Least(l) = q * l)
  <2>1. 0 = 0 * l /\ l = 1 * l
    BY <1>3
  <2>2. l # 0 => Least(l) \in {0, l}
    BY DEF Least
  <2> QED
    BY <1>3, <2>1, <2>2 DEF Least, LpcAssumption
<1>5. Phase' /\ lsyn' \in Nat /\ nsyn' \in Nat /\ ipitch' \in Nat /\ lastl' \in Nat
  BY <1>1, <1>2, <1>3, <1>4, MakeInPhase
<1>6. nvyrov' \in Int
  BY <1>1, <1>2 DEF LpcTypeOK
<1> QED
  BY <1>1, <1>2, <1>5, <1>6, AdvancePreserves DEF LpcInv, LpcTypeOK

LEMMA SamplePreserves == ASSUME LpcInv, Sample PROVE LpcInv'
<1>1. nsyn > 0 /\ nsyn' = nsyn - 1 /\ lsyn' = lsyn
  BY DEF Sample
<1>2. nsyn \in Nat /\ lsyn \in Nat /\ ipitch \in Nat
  BY DEF LpcInv, LpcTypeOK
<1>3. ipitch' \in Nat /\ Phase'
  <2>1. CASE lsyn = 0
    BY <1>1, <1>2, <2>1 DEF Sample, LpcInv, Phase
  <2>2. CASE lsyn # 0 /\ ipitch = 0
    <3>1. ipitch' = lsyn - 1
      BY <2>2 DEF Sample
    <3>2. PICK q \in Nat : nsyn = q * lsyn + ipitch
      BY <2>2 DEF LpcInv, Phase
    <3>3. q # 0
      BY <1>1, <1>2, <2>2, <3>2
    <3>4. q - 1 \in Nat /\ (q - 1) * lsyn = q * lsyn - lsyn
      BY <1>2, <3>3
    <3>5. q * lsyn \in Nat /\ (q - 1) * lsyn \in Nat
      BY <1>2, <3>4
    <3>6. nsyn' = (q - 1) * lsyn + ipitch'
      BY <1>1, <1>2, <2>2, <3>1, <3>2, <3>4, <3>5
    <3>7. \E r \in Nat : nsyn' = r * lsyn' + ipitch'
      BY <1>1, <3>4, <3>6
    <3>8. lsyn' # 0 /\ ipitch' \in Nat
      BY <1>1, <1>2, <2>2, <3>1
    <3> QED
      BY <3>7, <3>8 DEF Phase
  <2>3. CASE lsyn # 0 /\ ipitch # 0
    <3>1. ipitch' = ipitch - 1
      BY <2>3 DEF Sample
    <3>2. PICK q \in Nat : nsyn = q * lsyn + ipitch
      BY <2>3 DEF LpcInv, Phase
    <3>3. q * lsyn \in Nat
      BY <1>2
    <3>4. nsyn' = q * lsyn + ipitch'
      BY <1>1, <1>2, <3>1, <3>2, <3>3
    <3> QED
      BY <1>1, <1>2, <2>3, <3>1, <3>4 DEF Phase
  <2> QED
    BY <2>1, <2>2, <2>3
<1> QED
  BY <1>1, <1>2, <1>3 DEF Sample, LpcInv, LpcTypeOK

LEMMA LpcInvStep == ASSUME LpcAssumption, LpcInv, [LpcNext]_lpcVars PROVE LpcInv'
<1>1. CASE UNCHANGED lpcVars
  BY <1>1 DEF lpcVars, LpcInv, LpcTypeOK, Phase
<1> QED
  BY <1>1, SegmentPreserves, SynchronizedPreserves, AheadPreserves, SamplePreserves DEF LpcNext

\* The invariant says that no impulse is left over between models.
LEMMA PhaseInPhase == ASSUME LpcInv PROVE InPhase
<1> SUFFICES ASSUME nsyn = 0 PROVE ipitch = 0
  BY DEF InPhase
<1>1. CASE lsyn = 0
  BY <1>1 DEF LpcInv, Phase
<1>2. CASE lsyn # 0
  <2>1. PICK q \in Nat : 0 = q * lsyn + ipitch
    BY <1>2 DEF LpcInv, Phase
  <2>2. q * lsyn \in Nat /\ ipitch \in Nat
    BY DEF LpcInv, LpcTypeOK
  <2> QED
    BY <2>1, <2>2
<1> QED
  BY <1>1, <1>2

\* The synthesizer is in the states of its invariant.
THEOREM LpcInvariant == ASSUME LpcAssumption PROVE LpcSpec => []LpcInv
<1>1. LpcInit => LpcInv
  BY LpcInvInit
<1>2. LpcInv /\ [LpcNext]_lpcVars => LpcInv'
  BY LpcInvStep
<1> QED
  BY <1>1, <1>2, PTL DEF LpcSpec

\* No voiced model starts inside an impulse of the model before it: the case that the FIXME
\* before synmod() asks about (and cfg->paranoid reports as 862) cannot happen.
THEOREM ExcitationInPhase == ASSUME LpcAssumption PROVE LpcSpec => []InPhase
<1>1. LpcInv => InPhase
  BY PhaseInPhase
<1> QED
  BY <1>1, LpcInvariant, PTL

-----------------------------------------------------------------------------
(* Time.                                                                   *)

PaceInv == LpcInv /\ lold \in Periods \cup {InitF} /\ KeepsPace

\* What a synchronized model leaves of the time that the sound is ahead or behind.
LEMMA WholeIsNear ==
  ASSUME LpcTypeOK, NEW t \in Positive, NEW l \in Positive, NEW T \in Nat, NEW P \in Nat,
         t <= T, l <= P, -T <= 2 * nvyrov + 1, nvyrov <= P, nvyrov < t \div 2
  PROVE  /\ Whole(t, l) \in Int
         /\ -T <= 2 * (nvyrov + Whole(t, l) - t) + 1
         /\ nvyrov + Whole(t, l) - t <= P
<1> DEFINE i == t \div l + 1
           m == (i - 1) * l
           x == nvyrov - t + m
<1>1. i - 1 \in Nat /\ l * (i - 1) <= t /\ t < l * (i - 1) + l
  BY Division DEF Positive
<1>2. 2 * (t \div 2) <= t /\ t \div 2 \in Nat
  <2>1. 2 \in Positive /\ t \in Nat
    BY DEF Positive
  <2> QED
    BY <2>1, Division
<1> HIDE DEF i
<1>3. m \in Nat /\ m <= t /\ t < m + l /\ i * l = m + l /\ i \in Nat
  <2>1. i \in Nat /\ i - 1 \in Nat /\ l \in Nat
    BY <1>1 DEF i, Positive
  <2>2. m \in Nat /\ m = l * (i - 1) /\ i * l = m + l
    BY <2>1
  <2> HIDE DEF m
  <2> QED
    BY <1>1, <2>1, <2>2
<1>4. Whole(t, l) = IF i = 1 THEN l
        ELSE IF Distance(nvyrov - t + i * l) < Distance(nvyrov - t + m) THEN i * l ELSE m
  BY DEF Whole, i
<1>5. i # 1 => m >= l
  <2>1. SUFFICES ASSUME i # 1 PROVE m >= l
    OBVIOUS
  <2>2. i - 2 \in Nat /\ (i - 2) * l \in Nat /\ m = (i - 2) * l + l
    BY <1>1, <1>3, <2>1 DEF Positive
  <2> QED
    BY <2>2, <1>3 DEF Positive
<1> HIDE DEF m
<1>6. nvyrov \in Int /\ t \in Nat /\ l \in Nat /\ t > 0 /\ l > 0
  BY DEF LpcTypeOK, Positive
<1>7. CASE i = 1
  BY <1>2, <1>3, <1>4, <1>6, <1>7
<1>8. CASE i # 1 /\ Distance(x + l) < Distance(x)
  <2>1. Whole(t, l) = m + l
    BY <1>3, <1>4, <1>6, <1>8
  <2>2. x \in Int /\ x < 0 /\ x + l < -x
    BY <1>3, <1>6, <1>8 DEF Distance
  <2> QED
    BY <1>2, <1>3, <1>6, <2>1, <2>2
<1>9. CASE i # 1 /\ ~(Distance(x + l) < Distance(x))
  <2>1. Whole(t, l) = m
    BY <1>3, <1>4, <1>6, <1>9
  <2>2. x \in Int /\ -l <= 2 * x
    BY <1>3, <1>6, <1>9 DEF Distance
  <2> QED
    BY <1>2, <1>3, <1>5, <1>6, <1>9, <2>1, <2>2
<1> QED
  BY <1>7, <1>8, <1>9

LEMMA PaceInvStep == ASSUME LpcAssumption, PaceInv, [LpcNext]_lpcVars PROVE PaceInv'
<1>1. LpcInv'
  BY LpcInvStep DEF PaceInv
<1>2. lold' \in Periods \cup {InitF}
  <2>1. CASE Advance /\ znely # <<>>
    BY <2>1 DEF Advance, PaceInv, LpcInv, LpcTypeOK
  <2>2. CASE UNCHANGED lold
    BY <2>2 DEF PaceInv
  <2> QED
    BY <2>1, <2>2 DEF LpcNext, lpcVars, Segment, Synchronized, Ahead, Sample
<1>3. KeepsPace'
  <2> SUFFICES ASSUME NEW T \in Durations, NEW P \in Periods \cup {InitF}, Longest(T, P)
               PROVE  -T <= 2 * nvyrov' + 1 /\ nvyrov' <= P
    BY DEF KeepsPace, Longest
  <2>1. T \in Nat /\ P \in Nat /\ nvyrov \in Int /\ LpcTypeOK
    BY DEF PaceInv, LpcInv, LpcTypeOK, LpcAssumption
  <2>2. -T <= 2 * nvyrov + 1 /\ nvyrov <= P
    BY DEF PaceInv, KeepsPace
  <2>3. CASE UNCHANGED nvyrov
    BY <2>2, <2>3
  <2>4. CASE znely # <<>>
    <3>1. /\ target.t \in Positive /\ target.t <= T
          /\ target.period \in Positive /\ target.period <= P
      BY <2>1, <2>4, PeriodPositive DEF LpcTypeOK, Longest
    <3>2. lold \in Positive /\ lold <= P
      BY <2>1 DEF PaceInv, LpcTypeOK, Longest
    <3>3. target.t \div 2 \in Nat /\ target.t < 2 * (target.t \div 2) + 2
      <4>1. 2 \in Positive /\ target.t \in Nat
        BY <3>1 DEF Positive
      <4> QED
        BY <4>1, Division
    <3>4. CASE Ahead
      <4>1. nvyrov >= target.t \div 2 /\ nvyrov' = nvyrov - target.t
        BY <3>4 DEF Ahead
      <4>2. target.t \in Nat
        BY <3>1 DEF Positive
      <4> DEFINE h == target.t \div 2
                 t == target.t
      <4>3. h \in Nat /\ t < 2 * h + 2 /\ nvyrov >= h /\ t \in Nat /\ t <= T /\ nvyrov' = nvyrov - t
        BY <3>1, <3>3, <4>1, <4>2
      <4> HIDE DEF h, t
      <4>4. -T <= 2 * nvyrov' + 1
        BY <2>1, <4>3
      <4>5. nvyrov' <= P
        BY <2>1, <2>2, <4>3
      <4> QED
        BY <4>4, <4>5
    <3>5. CASE Synchronized /\ ~Head(znely)
      <4>1. nvyrov' = nvyrov + (target.t - nvyrov) - target.t
        BY <3>5 DEF Synchronized
      <4> QED
        BY <2>1, <3>1, <4>1 DEF Positive
    <3>6. CASE Synchronized /\ Head(znely)
      <4> DEFINE l == Period(imodel)
      <4>1. nvyrov < target.t \div 2 /\ nvyrov' = nvyrov + Whole(target.t, l) - target.t
        BY <3>6 DEF Synchronized
      <4>2. l \in Positive /\ numodel \in Positive /\ imodel < numodel /\ imodel \in Nat
        BY <2>1, <2>4, PeriodPositive DEF LpcTypeOK
      <4>3. l = target.period \/ l = Glide(lold, target.period, imodel, numodel)
        BY DEF Period
      <4>4. l <= P
        <5>1. CASE l = target.period
          BY <3>1, <5>1
        <5>2. CASE l = Glide(lold, target.period, imodel, numodel)
          <6> DEFINE g == Glide(lold, target.period, imodel, numodel)
          <6>0. g <= lold \/ g <= target.period
            BY <3>1, <3>2, <4>2, GlideBetween
          <6>1. l <= lold \/ l <= target.period
            BY <5>2, <6>0
          <6> HIDE DEF l
          <6> QED
            BY <2>1, <3>1, <3>2, <4>2, <6>1 DEF Positive
        <5> QED
          BY <4>3, <5>1, <5>2
      <4> HIDE DEF l
      <4> QED
        BY <2>1, <2>2, <3>1, <4>1, <4>2, <4>4, WholeIsNear
    <3>7. CASE ~Ahead /\ ~Synchronized
      BY <2>3, <3>7 DEF LpcNext, lpcVars, Segment, Sample
    <3> QED
      BY <3>4, <3>5, <3>6, <3>7
  <2> QED
    BY <2>3, <2>4 DEF LpcNext, lpcVars, Segment, Sample, Synchronized, Ahead
<1> QED
  BY <1>1, <1>2, <1>3 DEF PaceInv

\* Errors of duration do not add up: whatever is said, at any moment the sound is at most half
\* a segment behind and one period ahead of the time that the prosody asks for.
THEOREM PaceKept == ASSUME LpcAssumption PROVE LpcSpec => []KeepsPace
<1>1. LpcInit => PaceInv
  BY LpcInvInit DEF LpcInit, PaceInv, KeepsPace, LpcAssumption
<1>2. PaceInv /\ [LpcNext]_lpcVars => PaceInv'
  BY PaceInvStep
<1>3. PaceInv => KeepsPace
  BY DEF PaceInv
<1> QED
  BY <1>1, <1>2, <1>3, PTL DEF LpcSpec

-----------------------------------------------------------------------------
(* Sound.                                                                  *)

HeardInv == PaceInv /\ AllHeard

LEMMA SynchronizedHeard == ASSUME LpcAssumption, Audible, HeardInv, Synchronized PROVE heard' = TRUE
<1> DEFINE l == IF Head(znely) THEN Period(imodel) ELSE 0
           n == IF Head(znely) THEN Whole(target.t, l) ELSE target.t - nvyrov
<1>1. nvyrov < target.t \div 2 /\ Make(l, n) /\ znely # <<>>
  BY DEF Synchronized
<1>2. LpcTypeOK /\ MinSynt \in Nat /\ target.t \in Durations /\ target.period \in Periods
  BY <1>1 DEF HeardInv, PaceInv, LpcInv, LpcTypeOK, LpcAssumption
<1>3. target.t \in Positive /\ target.period \in Positive
  BY <1>1, <1>2, PeriodPositive
<1>4. n \in Int /\ n >= MinSynt
  <2>1. CASE Head(znely)
    <3>1. l = Period(imodel) /\ n = Whole(target.t, l)
      BY <2>1
    <3> HIDE DEF l, n
    <3>2. l \in Positive /\ numodel \in Positive /\ imodel < numodel /\ imodel \in Nat
      BY <1>1, <1>2, <3>1, PeriodPositive DEF LpcTypeOK
    <3>3. lold \in Positive /\ lold >= MinSynt /\ target.period >= MinSynt
      BY <1>2 DEF HeardInv, PaceInv, LpcTypeOK, Audible
    <3>4. l >= MinSynt
      <4>1. l = target.period \/ l = Glide(lold, target.period, imodel, numodel)
        BY <3>1 DEF Period
      <4>2. CASE l = Glide(lold, target.period, imodel, numodel)
        <5>1. l >= lold \/ l >= target.period
          BY <1>3, <3>2, <3>3, <4>2, GlideBetween
        <5> QED
          BY <1>2, <1>3, <3>2, <3>3, <5>1 DEF Positive
      <4> QED
        BY <3>3, <4>1, <4>2
    <3>5. PICK q \in Positive : n = q * l
      BY <1>2, <3>1, <3>2, WholePeriods DEF LpcTypeOK
    <3>6. q - 1 \in Nat /\ l \in Nat /\ (q - 1) * l \in Nat /\ n = (q - 1) * l + l
      BY <3>2, <3>5 DEF Positive
    <3> QED
      BY <1>2, <3>4, <3>6
  <2>2. CASE ~Head(znely)
    <3>1. 2 \in Positive /\ target.t \in Nat
      BY <1>3 DEF Positive
    <3>2. target.t \div 2 \in Nat /\ 2 * (target.t \div 2) <= target.t
      BY <3>1, Division
    <3>3. target.t >= 2 * MinSynt /\ nvyrov \in Int
      BY <1>2 DEF Audible, LpcTypeOK
    <3>4. n = target.t - nvyrov
      BY <2>2
    <3>5. nvyrov < target.t \div 2
      BY <1>1
    <3> HIDE DEF n
    <3>6. target.t - nvyrov \in Int /\ target.t - nvyrov >= MinSynt
      BY <1>2, <3>1, <3>2, <3>3, <3>5
    <3> QED
      BY <3>4, <3>6
  <2> QED
    BY <2>1, <2>2
<1> QED
  BY <1>1, <1>4 DEF Make

LEMMA AheadHeard == ASSUME LpcAssumption, Audible, HeardInv, Ahead PROVE AllHeard'
<1> SUFFICES ASSUME znely' = <<>> PROVE heard' = TRUE
  BY DEF AllHeard
<1> DEFINE l == IF Head(znely) /\ imodel = numodel - 1 THEN target.period ELSE 0
<1>1. Make(l, Least(l)) /\ znely # <<>> /\ znely' = Tail(znely)
  BY DEF Ahead, Advance
<1>2. LpcTypeOK /\ MinSynt \in Nat /\ target.period \in Periods
  BY <1>1 DEF HeardInv, PaceInv, LpcInv, LpcTypeOK, LpcAssumption
<1>3. Len(znely) = 1 /\ imodel = numodel - 1
  <2>1. znely \in Seq(BOOLEAN) /\ imodel + Len(znely) = numodel /\ imodel \in Nat /\ numodel \in Nat
    BY <1>2 DEF LpcTypeOK
  <2>2. Tail(znely) = <<>> /\ znely # <<>>
    BY <1>1
  <2>3. \A s \in Seq(BOOLEAN) : s # <<>> => Tail(s) \in Seq(BOOLEAN) /\ Len(Tail(s)) = Len(s) - 1 /\ Len(s) \in Nat
    OBVIOUS
  <2>4. \A s \in Seq(BOOLEAN) : s = <<>> => Len(s) = 0
    OBVIOUS
  <2>5. Len(Tail(znely)) = Len(znely) - 1 /\ Tail(znely) \in Seq(BOOLEAN) /\ Len(znely) \in Nat
    BY <2>1, <2>2, <2>3
  <2>6. Len(Tail(znely)) = 0
    BY <2>2, <2>4, <2>5, Zenon
  <2>7. Len(znely) = 1
    <3>1. Len(znely) - 1 = 0
      BY <2>5, <2>6, Zenon
    <3>2. \A c \in Nat : c - 1 = 0 => c = 1
      OBVIOUS
    <3> QED
      BY <2>5, <3>1, <3>2, Zenon
  <2> QED
    BY <2>1, <2>7
<1>4. target.period >= MinSynt /\ target.period \in Nat
  BY <1>2 DEF Audible, LpcTypeOK
<1>5. Least(l) >= MinSynt
  <2>1. l \in {0, target.period}
    OBVIOUS
  <2> HIDE DEF l
  <2> QED
    BY <1>2, <1>3, <1>4, <2>1 DEF Least
<1> QED
  BY <1>1, <1>5 DEF Make

\* Of every segment that the inventory has something is heard, whatever was said before it, if
\* no segment is shorter than twice minsynt and no pitch period is shorter than minsynt.
THEOREM SegmentsHeard == ASSUME LpcAssumption, Audible PROVE LpcSpec => []AllHeard
<1>1. LpcInit => HeardInv
  BY LpcInvInit DEF LpcInit, HeardInv, PaceInv, KeepsPace, LpcAssumption, AllHeard
<1>2. HeardInv /\ [LpcNext]_lpcVars => HeardInv'
  <2> SUFFICES ASSUME HeardInv, [LpcNext]_lpcVars PROVE HeardInv'
    OBVIOUS
  <2>1. PaceInv'
    BY PaceInvStep DEF HeardInv
  <2>2. CASE Segment
    BY <2>1, <2>2 DEF Segment, HeardInv, AllHeard
  <2>3. CASE Sample \/ UNCHANGED lpcVars
    BY <2>1, <2>3 DEF Sample, lpcVars, HeardInv, AllHeard
  <2> QED
    BY <2>1, <2>2, <2>3, SynchronizedHeard, AheadHeard DEF LpcNext, HeardInv, AllHeard
<1>3. HeardInv => AllHeard
  BY DEF HeardInv
<1> QED
  BY <1>1, <1>2, <1>3, PTL DEF LpcSpec

\* The three together: whatever is said, each pitch period is whole, the sound keeps time, and
\* nothing is left out if nothing is too short.
THEOREM SoundInTime == ASSUME LpcAssumption PROVE LpcSpec => []InTime
<1>1. LpcSpec => []InPhase /\ []KeepsPace
  BY ExcitationInPhase, PaceKept
<1>2. CASE Audible
  <2>1. LpcSpec => []AllHeard
    BY <1>2, SegmentsHeard
  <2>2. InPhase /\ KeepsPace /\ AllHeard => InTime
    BY DEF InTime
  <2> QED
    BY <1>1, <2>1, <2>2, PTL
<1>3. CASE ~Audible
  <2>1. InPhase /\ KeepsPace => InTime
    BY <1>3 DEF InTime
  <2> QED
    BY <1>1, <2>1, PTL
<1> QED
  BY <1>2, <1>3

-----------------------------------------------------------------------------
(* The voices of the sessions.                                             *)

VoiceTypeOK ==
  /\ default_lang \in [Contexts -> Langs]
  /\ default_voice \in [Contexts -> [Langs -> Names]]
  /\ asked \in [Sessions -> [Langs -> Names]]
  /\ lost \in [Sessions -> SUBSET Langs]
  /\ speaker \in Contexts /\ spoke[1] \in Contexts

\* A session has the voice that it asked for in a language, or the one to fall back to
\* because the other was out of reach.
Justified ==
  \A s \in Sessions, l \in Langs :
    \/ default_voice[s][l] = asked[s][l]
    \/ default_voice[s][l] = FallbackOf[l] /\ l \in lost[s]

VoiceInv == VoiceTypeOK /\ Justified

LEMMA ContextFacts == Sessions \subseteq Contexts /\ Master \in Contexts /\ Master \notin Sessions
  BY FallbackAssumption DEF Contexts

LEMMA NamesFacts == ASSUME NEW l \in Langs PROVE VoicesOf[l] \subseteq Names
  BY DEF Names

\* What voice_switch() does to the voices of the contexts.
LEMMA Switched ==
  ASSUME VoiceTypeOK, NEW voices \in [Contexts -> [Langs -> Names]], NEW c \in Contexts, NEW name
  PROVE  LET after == voice_switch(voices, c, name)
         IN /\ after \in [Contexts -> [Langs -> Names]]
            /\ \A d \in Contexts \ {c} : after[d] = voices[d]
            /\ \A l \in Langs \ {default_lang[c]} : after[c][l] = voices[c][l]
            /\ after[c][default_lang[c]] \in {name, voices[c][default_lang[c]]}
            /\ name \in VoicesOf[default_lang[c]] => after[c][default_lang[c]] = name
            /\ name \notin VoicesOf[default_lang[c]] => after = voices
<1>1. default_lang[c] \in Langs
  BY DEF VoiceTypeOK
<1>2. CASE name \in VoicesOf[default_lang[c]]
  <2>1. name \in Names
    BY <1>1, <1>2, NamesFacts
  <2>2. voice_switch(voices, c, name) = [voices EXCEPT ![c][default_lang[c]] = name]
    BY <1>2 DEF voice_switch
  <2> QED
    BY <1>1, <1>2, <2>1, <2>2
<1>3. CASE name \notin VoicesOf[default_lang[c]]
  BY <1>1, <1>3 DEF voice_switch
<1> QED
  BY <1>2, <1>3

LEMMA VoiceInvInit == ASSUME VoiceInit PROVE VoiceInv
<1>1. PICK voices \in [Langs -> Names] :
        /\ default_voice = [c \in Contexts |-> voices] /\ asked = [s \in Sessions |-> voices]
  BY DEF VoiceInit
<1>2. /\ default_lang \in [Contexts -> Langs] /\ speaker = Master /\ spoke = <<Master, Unset, Unset>>
      /\ lost = [s \in Sessions |-> {}]
  BY DEF VoiceInit
<1> QED
  BY <1>1, <1>2, ContextFacts DEF VoiceInv, VoiceTypeOK, Justified

LEMMA SessionPreserves == ASSUME VoiceInv, NEW s \in Sessions, Session(s) PROVE VoiceInv'
<1>1. VoiceTypeOK /\ Justified
  BY DEF VoiceInv
<1>2. /\ default_lang' = [default_lang EXCEPT ![s] = default_lang[Master]]
      /\ default_voice' = [default_voice EXCEPT ![s] = default_voice[Master]]
      /\ asked' = [asked EXCEPT ![s] = default_voice[Master]]
      /\ lost' = [lost EXCEPT ![s] = {}] /\ UNCHANGED <<speaker, spoke>>
  BY DEF Session, Chooses
<1>3. VoiceTypeOK'
  BY <1>1, <1>2, ContextFacts DEF VoiceTypeOK
<1>4. Justified'
  BY <1>1, <1>2, ContextFacts DEF VoiceTypeOK, Justified
<1> QED
  BY <1>3, <1>4 DEF VoiceInv

LEMMA SetVoicePreserves == ASSUME VoiceInv, NEW s \in Sessions, NEW name \in Names, SetVoice(s, name) PROVE VoiceInv'
<1>1. VoiceTypeOK /\ Justified /\ s \in Contexts /\ default_lang[s] \in Langs
  BY ContextFacts DEF VoiceInv, VoiceTypeOK
<1>2. /\ default_voice' = voice_switch(default_voice, s, name)
      /\ UNCHANGED <<default_lang, speaker, spoke>>
      /\ IF name \in VoicesOf[default_lang[s]]
         THEN /\ asked' = [asked EXCEPT ![s][default_lang[s]] = name]
              /\ lost' = [lost EXCEPT ![s] = @ \ {default_lang[s]}]
         ELSE UNCHANGED <<asked, lost>>
  BY DEF SetVoice, Chooses
<1>3. CASE name \in VoicesOf[default_lang[s]]
  <2>1. default_voice' = [default_voice EXCEPT ![s][default_lang[s]] = name]
    BY <1>2, <1>3 DEF voice_switch
  <2>2. VoiceTypeOK'
    <3>1. default_voice' \in [Contexts -> [Langs -> Names]]
      BY <1>1, <1>2, Switched DEF VoiceTypeOK
    <3>2. asked' \in [Sessions -> [Langs -> Names]]
      <4>1. asked \in [Sessions -> [Langs -> Names]] /\ name \in Names /\ s \in Sessions
        BY <1>1 DEF VoiceTypeOK
      <4>2. asked' = [asked EXCEPT ![s] = [asked[s] EXCEPT ![default_lang[s]] = name]]
        BY <1>2, <1>3
      <4>3. [asked[s] EXCEPT ![default_lang[s]] = name] \in [Langs -> Names]
        BY <4>1
      <4> QED
        BY <4>1, <4>2, <4>3
    <3>3. lost' \in [Sessions -> SUBSET Langs]
      BY <1>1, <1>2, <1>3 DEF VoiceTypeOK
    <3> QED
      BY <1>1, <1>2, <3>1, <3>2, <3>3 DEF VoiceTypeOK
  <2>3. ASSUME NEW r \in Sessions, NEW l \in Langs
        PROVE  \/ default_voice'[r][l] = asked'[r][l]
               \/ default_voice'[r][l] = FallbackOf[l] /\ l \in lost'[r]
    <3>1. CASE r = s /\ l = default_lang[s]
      BY <1>1, <1>2, <1>3, <2>1, <3>1 DEF VoiceTypeOK
    <3>2. CASE ~(r = s /\ l = default_lang[s])
      <4>1. default_voice'[r][l] = default_voice[r][l] /\ asked'[r][l] = asked[r][l]
        BY <1>1, <1>2, <1>3, <2>1, <3>2, ContextFacts DEF VoiceTypeOK
      <4>2. l \in lost[r] => l \in lost'[r]
        BY <1>1, <1>2, <1>3, <3>2 DEF VoiceTypeOK
      <4> QED
        BY <1>1, <4>1, <4>2 DEF Justified
    <3> QED
      BY <3>1, <3>2
  <2> QED
    BY <2>2, <2>3 DEF VoiceInv, Justified
<1>4. CASE name \notin VoicesOf[default_lang[s]]
  <2>1. UNCHANGED <<default_voice, default_lang, asked, lost, speaker, spoke>>
    BY <1>2, <1>4 DEF voice_switch
  <2> QED
    BY <1>1, <2>1 DEF VoiceInv, VoiceTypeOK, Justified
<1> QED
  BY <1>3, <1>4

LEMMA SetMasterVoicePreserves == ASSUME VoiceInv, NEW name \in Names, SetMasterVoice(name) PROVE VoiceInv'
<1>1. VoiceTypeOK /\ Justified
  BY DEF VoiceInv
<1>2. /\ default_voice' = voice_switch(default_voice, Master, name)
      /\ UNCHANGED <<default_lang, asked, lost, speaker, spoke>>
  BY DEF SetMasterVoice, Chooses
<1>3. /\ default_voice' \in [Contexts -> [Langs -> Names]]
      /\ \A d \in Contexts \ {Master} : default_voice'[d] = default_voice[d]
  BY <1>1, <1>2, ContextFacts, Switched DEF VoiceTypeOK
<1>4. VoiceTypeOK'
  BY <1>1, <1>2, <1>3 DEF VoiceTypeOK
<1>5. Justified'
  BY <1>1, <1>2, <1>3, ContextFacts DEF Justified
<1> QED
  BY <1>4, <1>5 DEF VoiceInv

LEMMA RunPreserves == ASSUME VoiceInv, Run PROVE VoiceInv'
<1> DEFINE s == speaker
           l == default_lang[s]
           v == Voice(s)
<1>1. VoiceTypeOK /\ Justified /\ s \in Contexts /\ s # Master
  BY DEF VoiceInv, VoiceTypeOK, Run, Idle
<1>2. s \in Sessions /\ l \in Langs
  BY <1>1 DEF Contexts, VoiceTypeOK
<1>3. PICK code \in (IF v \in ready THEN {"made"} ELSE Outcomes(v)) :
        /\ spoke' = IF code = "made" THEN <<s, l, v>> ELSE spoke
        /\ lost' = IF code = "47x" THEN [lost EXCEPT ![s] = @ \cup {l}] ELSE lost
        /\ IF FallsBack(code, l)
           THEN default_voice' = Degraded(default_voice, s) /\ UNCHANGED speaker
           ELSE speaker' = Master /\ UNCHANGED default_voice
  BY DEF Run
<1>4. UNCHANGED <<default_lang, asked>>
  BY DEF Run
<1> HIDE DEF s, l, v
<1>5. spoke'[1] \in Contexts /\ speaker' \in Contexts /\ lost' \in [Sessions -> SUBSET Langs]
  <2>1. spoke'[1] \in Contexts
    BY <1>1, <1>3 DEF VoiceTypeOK
  <2>2. speaker' \in Contexts
    BY <1>1, <1>3, ContextFacts DEF VoiceTypeOK
  <2>3. lost' \in [Sessions -> SUBSET Langs]
    BY <1>1, <1>2, <1>3 DEF VoiceTypeOK
  <2> QED
    BY <2>1, <2>2, <2>3
<1>6. \A r \in Sessions : lost[r] \subseteq lost'[r]
  BY <1>1, <1>2, <1>3 DEF VoiceTypeOK
<1>7. CASE ~FallsBack(code, l)
  <2>1. UNCHANGED default_voice
    BY <1>3, <1>7
  <2> QED
    BY <1>1, <1>4, <1>5, <1>6, <2>1 DEF VoiceInv, VoiceTypeOK, Justified
<1>8. CASE FallsBack(code, l)
  <2> DEFINE mine == voice_switch(default_voice, s, FallbackOf[l])
  <2>1. code = "47x" /\ l \in lost'[s]
    BY <1>1, <1>2, <1>3, <1>8 DEF FallsBack, VoiceTypeOK
  <2>2. /\ mine \in [Contexts -> [Langs -> Names]]
        /\ \A d \in Contexts \ {s} : mine[d] = default_voice[d]
        /\ \A m \in Langs \ {l} : mine[s][m] = default_voice[s][m]
        /\ mine[s][l] \in {FallbackOf[l], default_voice[s][l]}
    BY <1>1, Switched DEF VoiceTypeOK, l
  <2>3. \/ default_voice' = mine
        \/ default_voice' = voice_switch(mine, Master, FallbackOf[default_lang[Master]])
    BY <1>3, <1>8 DEF Degraded, l
  <2> HIDE DEF mine
  <2>4. /\ default_voice' \in [Contexts -> [Langs -> Names]]
        /\ \A r \in Sessions : default_voice'[r] = mine[r]
    <3>1. CASE default_voice' = mine
      BY <2>2, <3>1
    <3>2. CASE default_voice' = voice_switch(mine, Master, FallbackOf[default_lang[Master]])
      <4>1. /\ default_voice' \in [Contexts -> [Langs -> Names]]
            /\ \A d \in Contexts \ {Master} : default_voice'[d] = mine[d]
        BY <1>1, <2>2, <3>2, ContextFacts, Switched
      <4> QED
        BY <4>1, ContextFacts
    <3> QED
      BY <2>3, <3>1, <3>2
  <2>5. VoiceTypeOK'
    BY <1>1, <1>4, <1>5, <2>4 DEF VoiceTypeOK
  <2>6. ASSUME NEW r \in Sessions, NEW m \in Langs
        PROVE  \/ default_voice'[r][m] = asked'[r][m]
               \/ default_voice'[r][m] = FallbackOf[m] /\ m \in lost'[r]
    <3>1. \/ default_voice[r][m] = asked[r][m]
          \/ default_voice[r][m] = FallbackOf[m] /\ m \in lost[r]
      BY <1>1 DEF Justified
    <3>2. \/ default_voice'[r][m] = default_voice[r][m]
          \/ r = s /\ m = l /\ default_voice'[r][m] = FallbackOf[l]
      BY <2>2, <2>4, ContextFacts
    <3> QED
      BY <1>4, <1>6, <2>1, <3>1, <3>2
  <2> QED
    BY <2>5, <2>6 DEF VoiceInv, Justified
<1> QED
  BY <1>7, <1>8

LEMMA VoiceInvStep == ASSUME VoiceInv, [VoiceNext]_voiceVars PROVE VoiceInv'
<1>1. CASE UNCHANGED voiceVars
  BY <1>1 DEF voiceVars, VoiceInv, VoiceTypeOK, Justified
<1>2. ASSUME NEW s \in Sessions, Synthesize(s) PROVE VoiceInv'
  BY <1>2, ContextFacts DEF Synthesize, VoiceInv, VoiceTypeOK, Justified
<1>3. ASSUME NEW s \in Sessions, NEW l \in Langs, SetLang(s, l) PROVE VoiceInv'
  BY <1>3, ContextFacts DEF SetLang, Chooses, VoiceInv, VoiceTypeOK, Justified
<1> QED
  BY <1>1, <1>2, <1>3, SessionPreserves, SetVoicePreserves, SetMasterVoicePreserves, RunPreserves
     DEF VoiceNext

\* Every session always has voices that it asked for, or the fallback of a language whose
\* voice it found out of reach.
THEOREM VoiceInvariant == VoiceSpec => []VoiceInv
<1>1. VoiceInit => VoiceInv
  BY VoiceInvInit
<1>2. VoiceInv /\ [VoiceNext]_voiceVars => VoiceInv'
  BY VoiceInvStep
<1> QED
  BY <1>1, <1>2, PTL DEF VoiceSpec

\* A session speaks with the voice that it asked for or, if that was out of reach, with the
\* fallback of the language, whatever other sessions and the master context do
\* (a_synth::run, src/src/agent.cc:431-474; voice_switch, src/src/options.cc:605-615).
THEOREM SpokenAsAsked == VoiceSpec => []AsAsked
<1>1. VoiceInv => AsAsked
  <2> SUFFICES ASSUME VoiceInv, spoke[1] # Master,
                      default_lang[spoke[1]] = spoke[2], Voice(spoke[1]) = spoke[3]
               PROVE  \/ spoke[3] = asked[spoke[1]][spoke[2]]
                      \/ spoke[3] = FallbackOf[spoke[2]] /\ spoke[2] \in lost[spoke[1]]
    BY DEF AsAsked
  <2>1. spoke[1] \in Sessions /\ spoke[2] \in Langs
    BY ContextFacts DEF VoiceInv, VoiceTypeOK, Contexts
  <2> QED
    BY <2>1 DEF VoiceInv, Justified, Voice
<1> QED
  BY <1>1, VoiceInvariant, PTL

-----------------------------------------------------------------------------
(* The segments of texts.                                                  *)

\* The first m segments of a text.
Beginning(text, m) == [i \in 1..m |-> <<text, i>>]

\* Where a dump goes on that has got m segments.
OnFrom(text, m) == IF m + 1 > sizes[text] THEN Empty ELSE <<text, m + 1>>

\* A dump that goes on has the beginning of its text, and the cache is of its last portion.
Dumping ==
  /\ dump.text # Free /\ root[dump.this] = dump.text /\ Len(dump.got) <= sizes[dump.text]
  /\ dump.got = Beginning(dump.text, Len(dump.got))
  /\ dump.by = "segs" /\ dump.n = 0 => dump.got = <<>>
  /\ dump.got # <<>> => ucache = [this |-> dump.this, first |-> Len(dump.got), at |-> OnFrom(dump.text, Len(dump.got))]

Dump == [by : {"nobody", "segs", "play"}, this : Addresses \cup {Free}, text : Nat, n : Nat,
         more : BOOLEAN, got : Seq(Nat \X Nat)]

SegInv ==
  /\ sizes \in Seq(Nat) /\ root \in [Addresses -> 0..Len(sizes)]
  /\ dump \in Dump /\ dump.text <= Len(sizes)
  /\ dump.by # "nobody" => dump.this \in Addresses /\ dump.text # Free
  /\ dump.by = "nobody" => ~dump.more
  /\ dump.more => Dumping
  /\ AllDumped

\* The portion that is taken next.
Size(m, n) == IF n < sizes[dump.text] - m THEN n ELSE sizes[dump.text] - m

\* What write_segs() gives a dump that goes on: the next segments, fewer than asked for only at the end of the text.
LEMMA NextPortion ==
  ASSUME SegInv, dump.more, NEW n \in Nat, n > 0
  PROVE  LET m == Len(dump.got)
             k == Size(m, n)
             w == write_segs(dump.this, m, n) IN
         /\ m \in Nat /\ k \in Nat /\ Len(w.p) = k /\ k <= n /\ m + k <= sizes[dump.text] /\ sizes[dump.text] \in Nat
         /\ dump.got \o w.p = Beginning(dump.text, m + k)
         /\ Beginning(dump.text, m + k) \in Seq(Nat \X Nat) /\ Len(Beginning(dump.text, m + k)) = m + k
         /\ w.cache = [this |-> dump.this, first |-> m + k, at |-> OnFrom(dump.text, m + k)]
         /\ k < n => m + k = sizes[dump.text]
<1> DEFINE text == dump.text
           this == dump.this
           got == dump.got
           m == Len(got)
           len == sizes[text]
           s == From(this, m)
           k == Size(m, n)
           p == Portion(s, n)
           w == write_segs(this, m, n)
<1>1. /\ text \in 1..Len(sizes) /\ root[this] = text /\ m <= len /\ got = Beginning(text, m)
      /\ got # <<>> => ucache = [this |-> this, first |-> m, at |-> OnFrom(text, m)]
      /\ got \in Seq(Nat \X Nat) /\ sizes \in Seq(Nat)
  BY DEF SegInv, Dumping, Dump, Free
<1>2. m \in Nat /\ len \in Nat /\ text \in Nat /\ text # 0
  <2>1. Len(sizes) \in Nat /\ m \in Nat
    BY <1>1, LenProperties
  <2>2. len \in Nat
    BY <1>1, ElementOfSeq
  <2> QED
    BY <1>1, <2>1, <2>2
<1>3. m = 0 <=> got = <<>>
  BY <1>1, EmptySeq
<1>4. s = OnFrom(text, m)
  <2> HIDE DEF text, this, m
  <2>1. LeftMost(this) = IF len = 0 THEN Empty ELSE <<text, 1>>
    BY <1>1 DEF LeftMost
  <2>2. Further(LeftMost(this), m) = OnFrom(text, m)
    <3>1. CASE len = 0
      BY <1>2, <2>1, <3>1 DEF Further, OnFrom
    <3>2. CASE len # 0
      <4>1. LeftMost(this) = <<text, 1>> /\ LeftMost(this) # Empty
        BY <1>2, <2>1, <3>2 DEF Empty
      <4>2. 1 + m > len <=> m + 1 > len
        BY <1>2
      <4> QED
        BY <1>2, <4>1, <4>2 DEF Further, OnFrom
    <3> QED
      BY <3>1, <3>2
  <2>3. CASE Hit(this, m)
    BY <1>1, <1>3, <2>3 DEF From, Hit, m
  <2>4. CASE ~Hit(this, m)
    BY <2>2, <2>4 DEF From
  <2> QED
    BY <2>3, <2>4
<1>5. k \in Nat /\ k <= n /\ m + k <= len /\ (k < n => m + k = len) /\ (k = 0 <=> m + 1 > len)
  <2> HIDE DEF m, text
  <2>1. k = IF n < len - m THEN n ELSE len - m
    BY DEF Size, m, text
  <2> HIDE DEF k, len
  <2> QED
    BY <1>1, <1>2, <2>1
<1> HIDE DEF k
<1>6. p = [i \in 1..k |-> <<text, m + i>>]
  <2>1. CASE m + 1 > len
    <3>1. s = Empty /\ k = 0
      BY <1>4, <1>5, <2>1 DEF OnFrom
    <3>2. p = <<>>
      BY <3>1 DEF Portion
    <3> QED
      BY <3>1, <3>2
  <2>2. CASE ~(m + 1 > len)
    <3>1. s = <<text, m + 1>> /\ s # Empty /\ s[1] = text /\ s[2] = m + 1
      BY <1>2, <1>4, <2>2 DEF OnFrom, Empty
    <3> HIDE DEF s, text, m, len
    <3>2. Remaining(s) = len - m
      BY <1>2, <3>1 DEF Remaining, len
    <3>3. k = IF n < Remaining(s) THEN n ELSE Remaining(s)
      BY <3>2 DEF Size, k, len, text, m
    <3>4. p = [i \in 1..k |-> <<text, m + 1 + i - 1>>]
      BY <3>1, <3>3 DEF Portion
    <3>5. \A i \in 1..k : m + 1 + i - 1 = m + i
      BY <1>2, <1>5
    <3> QED
      BY <3>4, <3>5
  <2> QED
    BY <2>1, <2>2
<1>7. p \in Seq(Nat \X Nat) /\ Len(p) = k
  <2>1. \A i \in 1..k : <<text, m + i>> \in Nat \X Nat
    BY <1>2
  <2> HIDE DEF p, m
  <2>2. p \in [1..k -> Nat \X Nat]
    BY <1>6, <2>1
  <2>3. p \in Seq(Nat \X Nat)
    BY <1>5, <2>2
  <2>4. DOMAIN p = 1..k
    BY <1>6
  <2> QED
    BY <1>5, <2>3, <2>4, LenProperties
<1>8. w.p = p /\ w.cache = [this |-> this, first |-> m + k, at |-> Further(s, k)]
  BY <1>7 DEF write_segs
<1>9. Beginning(text, m + k) \in Seq(Nat \X Nat) /\ Len(Beginning(text, m + k)) = m + k
  <2>1. \A i \in 1..(m + k) : <<text, i>> \in Nat \X Nat
    BY <1>2
  <2>2. Beginning(text, m + k) \in [1..(m + k) -> Nat \X Nat] /\ m + k \in Nat
    BY <1>2, <1>5, <2>1 DEF Beginning
  <2> HIDE DEF m
  <2> QED
    BY <2>2, IsASeq
<1>10. got \o p = Beginning(text, m + k)
  <2> HIDE DEF p, got, m, text
  <2>1. got \o p \in Seq(Nat \X Nat) /\ Len(got \o p) = m + k
    BY <1>1, <1>7, ConcatProperties DEF m
  <2>2. ASSUME NEW i \in 1..(m + k) PROVE (got \o p)[i] = Beginning(text, m + k)[i]
    <3>1. Beginning(text, m + k)[i] = <<text, i>>
      BY DEF Beginning
    <3>2. CASE i <= m
      <4>1. i \in 1..m
        BY <1>2, <1>5, <3>2
      <4>2. (got \o p)[i] = got[i]
        BY <1>1, <1>7, <4>1, ConcatProperties DEF m
      <4>3. got[i] = <<text, i>>
        BY <1>1, <4>1 DEF Beginning
      <4> QED
        BY <3>1, <4>2, <4>3
    <3>3. CASE ~(i <= m)
      <4>1. i - m \in 1..k /\ m + (i - m) = i
        BY <1>2, <1>5, <3>3
      <4>2. (got \o p)[i] = p[i - m]
        BY <1>1, <1>2, <1>5, <1>7, <3>3, ConcatProperties DEF m
      <4>3. p[i - m] = <<text, m + (i - m)>>
        BY <1>6, <4>1
      <4> QED
        BY <3>1, <4>1, <4>2, <4>3
    <3> QED
      BY <3>2, <3>3
  <2> QED
    BY <1>9, <2>1, <2>2, SeqEqual
<1>11. Further(s, k) = OnFrom(text, m + k)
  <2>1. CASE m + 1 > len
    BY <1>4, <1>5, <2>1 DEF OnFrom, Further
  <2>2. CASE ~(m + 1 > len)
    <3>1. s = <<text, m + 1>> /\ s # Empty /\ s[1] = text /\ s[2] = m + 1
      BY <1>2, <1>4, <2>2 DEF OnFrom, Empty
    <3>2. m + 1 + k = m + k + 1
      BY <1>2, <1>5
    <3> QED
      BY <3>1, <3>2 DEF Further, OnFrom
  <2> QED
    BY <2>1, <2>2
<1> HIDE DEF p, s, w
<1> QED
  BY <1>2, <1>5, <1>7, <1>8, <1>9, <1>10, <1>11 DEF k, w

\* The invariant holds before any text is parsed.
LEMMA SegInvInit == SegInit => SegInv
<1> SUFFICES ASSUME SegInit PROVE SegInv
  OBVIOUS
<1>1. sizes = <<>> /\ sizes \in Seq(Nat) /\ Len(sizes) = 0 /\ root \in [Addresses -> {0}] /\ dump = Nobody
  BY DEF SegInit, Free
<1>2. dump \in Dump /\ dump.text = 0 /\ dump.by = "nobody" /\ ~dump.more
  BY <1>1 DEF Nobody, Dump, Free
<1>3. 0..Len(sizes) = {0}
  BY <1>1
<1> QED
  BY <1>1, <1>2, <1>3 DEF SegInv, AllDumped

\* Another text does not change those that were dumped.
LEMMA ParseKeeps == ASSUME SegInv, NEW a \in Addresses, Parse(a) PROVE SegInv'
<1>1. PICK n \in Sizes : sizes' = Append(sizes, n) /\ root' = [root EXCEPT ![a] = Len(sizes) + 1] /\ dump' = dump
  BY DEF Parse
<1>2. n \in Nat /\ sizes \in Seq(Nat) /\ Len(sizes) \in Nat
  BY SegAssumption, LenProperties DEF SegInv
<1>3. sizes' \in Seq(Nat) /\ Len(sizes') = Len(sizes) + 1
  BY <1>1, <1>2, AppendProperties
<1>4. \A i \in 1..Len(sizes) : sizes'[i] = sizes[i]
  BY <1>1, <1>2, AppendProperties
<1>5. root' \in [Addresses -> 0..Len(sizes')]
  <2>1. 0..Len(sizes) \subseteq 0..(Len(sizes) + 1) /\ Len(sizes) + 1 \in 0..(Len(sizes) + 1)
    BY <1>2
  <2> QED
    BY <1>1, <1>3, <2>1 DEF SegInv
<1>6. dump' \in Dump /\ dump'.text <= Len(sizes') /\ ~dump'.more
  BY <1>1, <1>2, <1>3 DEF SegInv, Dump, Parse
<1>7. dump'.by # "nobody" => dump'.this \in Addresses /\ dump'.text # Free
  BY <1>1 DEF SegInv
<1>8. AllDumped'
  <2>1. dump.by # "nobody" => dump.text \in 1..Len(sizes)
    BY <1>2 DEF SegInv, Dump, Free
  <2>2. dump.by # "nobody" => sizes'[dump.text] = sizes[dump.text]
    BY <1>4, <2>1
  <2> QED
    BY <1>1, <2>2 DEF SegInv, AllDumped, Taken
<1> QED
  BY <1>3, <1>5, <1>6, <1>7, <1>8 DEF SegInv

\* A text that is not being dumped may go; the cache keeps its place.
LEMMA DeleteKeeps == ASSUME SegInv, NEW a \in Addresses, Delete(a) PROVE SegInv'
<1>1. /\ root' = [root EXCEPT ![a] = 0] /\ UNCHANGED <<sizes, dump>> /\ ~dump.more
  BY DEF Delete, Free
<1>2. Len(sizes) \in Nat
  BY LenProperties DEF SegInv
<1>3. root' \in [Addresses -> 0..Len(sizes)]
  BY <1>1, <1>2 DEF SegInv
<1> QED
  BY <1>1, <1>3 DEF SegInv, AllDumped, Taken

\* A dump begins with the first segment, for which the cache is not asked.
LEMMA BeginKeeps ==
  ASSUME SegInv, NEW by \in {"segs", "play"}, NEW a \in Addresses, NEW n \in Nat, Begin(by, a, n)
  PROVE  SegInv'
<1>1. /\ dump' = [by |-> by, this |-> a, text |-> root[a], n |-> n, more |-> TRUE, got |-> <<>>]
      /\ root[a] # Free /\ UNCHANGED <<root, sizes, ucache>>
  BY DEF Begin
<1>2. root[a] \in 1..Len(sizes) /\ Len(sizes) \in Nat /\ sizes \in Seq(Nat)
  BY <1>1, LenProperties DEF SegInv, Free
<1>3. sizes[root[a]] \in Nat
  BY <1>2, ElementOfSeq
<1>4. <<>> \in Seq(Nat \X Nat) /\ Len(<<>>) = 0 /\ <<>> = Beginning(root[a], 0)
  BY DEF Beginning
<1>5. dump' \in Dump
  BY <1>1, <1>2, <1>4 DEF Dump
<1>6. Dumping'
  BY <1>1, <1>2, <1>3, <1>4 DEF Dumping, Beginning
<1> QED
  BY <1>1, <1>2, <1>5, <1>6 DEF SegInv, AllDumped

\* A portion for the agent.
LEMMA SegsKeeps == ASSUME SegInv, Segs PROVE SegInv'
<1> DEFINE n == Dbs(dump.n)
           m == Len(dump.got)
           k == Size(m, n)
           w == write_segs(dump.this, m, n)
           more == dump.n # 0 /\ Len(w.p) >= n
           len == sizes[dump.text]
<1>1. /\ dump.by = "segs" /\ dump.more
      /\ dump' = [dump EXCEPT !.got = @ \o w.p, !.more = more]
      /\ root' = IF more THEN root ELSE [root EXCEPT ![dump.this] = Free]
      /\ ucache' = w.cache /\ sizes' = sizes
  BY DEF Segs
<1>2. n \in Nat /\ n > 0 /\ dump \in Dump /\ dump.n \in Nat /\ (dump.n # 0 => n = dump.n) /\ (dump.n = 0 => n = InitDiphsBs)
  BY SegAssumption DEF SegInv, Dbs, Dump
<1>3. /\ m \in Nat /\ k \in Nat /\ Len(w.p) = k /\ k <= n /\ m + k <= len /\ len \in Nat
      /\ dump.got \o w.p = Beginning(dump.text, m + k)
      /\ Beginning(dump.text, m + k) \in Seq(Nat \X Nat) /\ Len(Beginning(dump.text, m + k)) = m + k
      /\ w.cache = [this |-> dump.this, first |-> m + k, at |-> OnFrom(dump.text, m + k)]
      /\ k < n => m + k = len
  BY <1>1, <1>2, NextPortion
<1>4. Dumping /\ dump.text # Free /\ dump.this \in Addresses /\ Len(sizes) \in Nat
  BY <1>1, LenProperties DEF SegInv
<1>5. dump.n = 0 => m = 0
  BY <1>1, <1>4 DEF Dumping
<1> HIDE DEF n, m, k, w, more
<1>6. /\ dump' \in Dump /\ dump'.by = "segs" /\ dump'.this = dump.this /\ dump'.text = dump.text /\ dump'.n = dump.n
      /\ dump'.more = more /\ dump'.got = Beginning(dump.text, m + k) /\ Len(dump'.got) = m + k
  BY <1>1, <1>2, <1>3 DEF Dump, more
<1>7. root' \in [Addresses -> 0..Len(sizes)]
  BY <1>1, <1>4 DEF SegInv, Free
<1>8. more => dump.n # 0 /\ root' = root /\ k = n
  BY <1>1, <1>2, <1>3 DEF more
<1>9. more => Dumping'
  <2>1. m + k \in Nat
    BY <1>3
  <2> QED
    BY <1>1, <1>3, <1>4, <1>6, <1>8, <2>1 DEF Dumping, OnFrom
<1>10. ~more => dump'.got = Beginning(dump.text, Taken(dump))
  <2> SUFFICES ASSUME ~more PROVE m + k = Taken(dump)
    BY <1>6
  <2>1. CASE dump.n # 0
    <3>1. k < n
      BY <1>2, <1>3, <2>1 DEF more
    <3> QED
      BY <1>3, <2>1, <3>1 DEF Taken
  <2>2. CASE dump.n = 0
    <3>1. m = 0 /\ n = InitDiphsBs /\ k = IF n < len - m THEN n ELSE len - m
      BY <1>2, <1>5, <2>2 DEF k, Size
    <3> QED
      BY <1>1, <1>2, <1>3, <2>2, <3>1 DEF Taken
  <2> QED
    BY <2>1, <2>2
<1>11. AllDumped'
  BY <1>1, <1>6, <1>10 DEF AllDumped, Taken, Beginning
<1> QED
  BY <1>1, <1>4, <1>6, <1>7, <1>9, <1>11 DEF SegInv

\* A portion for the program that plays segments.
LEMMA PlayKeeps == ASSUME SegInv, Play PROVE SegInv'
<1> DEFINE n == BuffSize
           m == Len(dump.got)
           k == Size(m, n)
           w == write_segs(dump.this, m, n)
           more == Len(w.p) = n
           len == sizes[dump.text]
<1>1. /\ dump.by = "play" /\ dump.more
      /\ dump' = [dump EXCEPT !.got = @ \o w.p, !.more = more]
      /\ ucache' = w.cache /\ UNCHANGED <<root, sizes>>
  BY DEF Play
<1>2. n \in Nat /\ n > 0 /\ dump \in Dump
  BY SegAssumption DEF SegInv
<1>3. /\ m \in Nat /\ k \in Nat /\ Len(w.p) = k /\ k <= n /\ m + k <= len /\ len \in Nat
      /\ dump.got \o w.p = Beginning(dump.text, m + k)
      /\ Beginning(dump.text, m + k) \in Seq(Nat \X Nat) /\ Len(Beginning(dump.text, m + k)) = m + k
      /\ w.cache = [this |-> dump.this, first |-> m + k, at |-> OnFrom(dump.text, m + k)]
      /\ k < n => m + k = len
  BY <1>1, <1>2, NextPortion
<1>4. Dumping /\ dump.text # Free /\ dump.this \in Addresses
  BY <1>1 DEF SegInv
<1> HIDE DEF n, m, k, w, more
<1>5. /\ dump' \in Dump /\ dump'.by = "play" /\ dump'.this = dump.this /\ dump'.text = dump.text /\ dump'.n = dump.n
      /\ dump'.more = more /\ dump'.got = Beginning(dump.text, m + k) /\ Len(dump'.got) = m + k
  BY <1>1, <1>2, <1>3 DEF Dump, more
<1>6. more => Dumping'
  <2>1. m + k \in Nat
    BY <1>3
  <2> QED
    BY <1>1, <1>3, <1>4, <1>5, <2>1 DEF Dumping, OnFrom
<1>7. ~more => m + k = len
  BY <1>2, <1>3 DEF more
<1>8. AllDumped'
  <2>1. Taken(dump)' = len
    BY <1>1, <1>5 DEF Taken
  <2>2. ~more => dump'.got = Beginning(dump.text, len)
    BY <1>5, <1>7
  <2> HIDE DEF len
  <2> QED
    BY <1>5, <2>1, <2>2 DEF AllDumped, Beginning
<1> QED
  BY <1>1, <1>4, <1>5, <1>6, <1>8 DEF SegInv

\* No step breaks the invariant.
LEMMA SegInvStep == SegInv /\ [SegNext]_segVars => SegInv'
<1> SUFFICES ASSUME SegInv, [SegNext]_segVars PROVE SegInv'
  OBVIOUS
<1>1. ASSUME NEW a \in Addresses, Begin("play", a, BuffSize) PROVE SegInv'
  BY <1>1, BeginKeeps, SegAssumption
<1>2. ASSUME NEW a \in Addresses, NEW n \in DbSizes, Begin("segs", a, n) PROVE SegInv'
  BY <1>2, BeginKeeps, SegAssumption
<1>3. CASE UNCHANGED segVars
  BY <1>3 DEF segVars, SegInv, Dumping, OnFrom, AllDumped, Taken
<1> QED
  BY <1>1, <1>2, <1>3, ParseKeeps, DeleteKeeps, SegsKeeps, PlayKeeps DEF SegNext

\* For texts of any sizes, any portions and any use of memory again: whoever has taken the segments of a text
\* has all of them, once and in order, or the first InitDiphsBs if that was all that it asked for (unit::write_segs,
\* src/src/unit.cc:113-147).
THEOREM SegmentsComplete == SegSpec => []AllDumped
<1>1. SegInv => AllDumped
  BY DEF SegInv
<1> QED
  BY <1>1, SegInvInit, SegInvStep, PTL DEF SegSpec

-----------------------------------------------------------------------------
(* The circular buffer.                                                    *)

Impulse == [at : Nat, length : Nat]
PtdSegment == [pimp : Nat, npimp : Nat, nperiN : Nat, ST : Nat, added : Nat]

\* Where in the sound cell c will be read, and which of the impulses p are there.
Reach(c) == Len(sound) + (IF c >= i1 THEN c - i1 ELSE c - i1 + N)
Covering(p, x) == {n \in DOMAIN p : x \in p[n].at..p[n].at + p[n].length - 1}

\* Where the last impulse was put, or the next one is counted from.
Before == IF segment.added = 0 THEN Len(sound) ELSE Last(starts).at

\* The impulses of the segment that are left will fit in.
Room(s, st, x) ==
  s.added < s.npimp =>
    Ind(s, s.ST, st) \in Nat /\ x + Ind(s, s.ST, st) + (s.npimp - s.added - 1) * s.nperiN + s.ST <= Len(sound) + N

PtdTypeOK ==
  /\ DOMAIN data = 0..N - 1 /\ i1 \in 0..N - 1 /\ i2 \in 0..N - 1 /\ oST \in Nat
  /\ segment \in PtdSegment /\ (segment.pimp = 0 => segment.npimp = 0) /\ segment.added <= segment.npimp
  /\ doing \in {"rest", "add", "read"} /\ starts \in Seq(Impulse) /\ sound \in Seq(SUBSET Nat)

PtdInv ==
  /\ PtdTypeOK
  /\ data = [c \in 0..N - 1 |-> Covering(starts, Reach(c))]
  /\ \A n \in 1..Len(starts) : starts[n].at + starts[n].length <= Len(sound) + N
  /\ doing = "rest" => i1 = i2
  /\ doing = "add" =>
       /\ segment.added = 0 \/ (starts # <<>> /\ oST = segment.ST)
       /\ Before - Len(sound) \in 0..N
       /\ i2 = i1 + (Before - Len(sound)) \/ i2 = i1 + (Before - Len(sound)) - N
       /\ Room(segment, oST, Before)
  /\ Overlapped

-----------------------------------------------------------------------------
\* One more makes it longer by as much.
LEMMA OneMore == ASSUME NEW a \in Nat, NEW t \in Nat PROVE (a + 1) * t - a * t = t
  BY SMT

\* The impulses of a segment are equally long.
LEMMA SameLength ==
  ASSUME NEW s \in PtdSegment, s.pimp # 0, s.added < s.npimp
  PROVE  sST(s) = s.ST
<1> DEFINE a == aimp(s)
           x == s.added * s.pimp
<1>1. s.added \in Nat /\ s.pimp \in Nat /\ s.npimp \in Positive /\ s.ST \in Nat
  BY DEF PtdSegment, Positive
<1>2. x \in Nat
  BY <1>1, SMT
<1>3. a \in Nat /\ s.npimp * a <= x
  BY <1>1, <1>2, Division DEF aimp
<1>4. x < s.npimp * s.pimp
  <2>1. s.npimp - s.added - 1 \in Nat
    BY <1>1 DEF Positive
  <2>2. (s.npimp - s.added - 1) * s.pimp \in Nat
    BY <1>1, <2>1, SMT
  <2>3. s.npimp * s.pimp = x + (s.npimp - s.added - 1) * s.pimp + s.pimp
    BY <1>1, SMT DEF Positive
  <2> HIDE DEF x
  <2>4. s.npimp * s.pimp \in Nat
    BY <1>1, SMT DEF Positive
  <2> QED
    BY <1>1, <1>2, <2>2, <2>3, <2>4
<1> HIDE DEF a, x
<1>5. a < s.pimp
  <2> SUFFICES ASSUME s.pimp <= a PROVE FALSE
    BY <1>1, <1>3
  <2>1. s.npimp * s.pimp <= s.npimp * a
    BY <1>1, <1>3, Monotone DEF Positive
  <2>2. s.npimp * s.pimp \in Nat /\ s.npimp * a \in Nat
    BY <1>1, <1>3, SMT DEF Positive
  <2> QED
    BY <1>2, <1>3, <1>4, <2>1, <2>2
<1>6. a \in 0..s.pimp /\ a + 1 \in 0..s.pimp
  BY <1>1, <1>3, <1>5
<1>7. sST(s) = (a + 1) * s.ST - a * s.ST
  BY <1>6 DEF sST, ta, a
<1> QED
  BY <1>1, <1>3, <1>7, OneMore

\* A cell is as far behind another one as the remainder says.
LEMMA Behind ==
  ASSUME NEW x \in Int, NEW n \in Nat \ {0}, -n < x, x < n
  PROVE  x % n = IF x >= 0 THEN x ELSE x + n
  OBVIOUS

-----------------------------------------------------------------------------
(* Every step.                                                             *)

\* An impulse at at, which was put into cell k, and any cell c, when cell i is read next.
Sited(L, n, i, k, c, at, length) ==
  /\ L \in Nat /\ n \in Nat \ {0} /\ i \in 0..n - 1 /\ k \in 0..n - 1 /\ c \in 0..n - 1
  /\ at \in Nat /\ length \in Nat /\ at - L \in 0..n /\ at + length <= L + n
  /\ k = i + (at - L) \/ k = i + (at - L) - n

\* An impulse is put into the cells that will be read when it sounds.
LEMMA Inside ==
  ASSUME NEW L, NEW n, NEW i, NEW k, NEW c, NEW at, NEW length, Sited(L, n, i, k, c, at, length)
  PROVE  (c - k) % n < length <=> L + (IF c >= i THEN c - i ELSE c - i + n) \in at..at + length - 1
<1>1. c - k \in Int /\ n \in Nat \ {0} /\ -n < c - k /\ c - k < n
  BY DEF Sited
<1>2. (c - k) % n = IF c - k >= 0 THEN c - k ELSE c - k + n
  BY <1>1, Behind
<1> QED
  BY <1>2 DEF Sited

\* Initially the buffer is empty.
LEMMA InitPtd == PtdInit => PtdInv
<1> SUFFICES ASSUME PtdInit PROVE PtdInv
  OBVIOUS
<1>1. starts = <<>> /\ sound = <<>> /\ Len(sound) = 0 /\ Len(starts) = 0 /\ DOMAIN starts = {} /\ DOMAIN sound = {}
  BY DEF PtdInit
<1>2. \A x : Covering(starts, x) = {}
  BY <1>1 DEF Covering
<1>3. PtdTypeOK
  BY PtdAssumption DEF PtdInit, PtdTypeOK, PtdSegment
<1> QED
  BY <1>1, <1>2, <1>3 DEF PtdInit, PtdInv, Overlapped

\* synseg() begins where it has read to.
LEMMA SynsegStep == ASSUME PtdInv, Synseg PROVE PtdInv'
<1>1. PICK labels \in LabelFiles, t \in Times, f \in Freqs, ST \in STs :
        segment' = [pimp |-> Pimp(labels), npimp |-> npimp(Pimp(labels), t, f),
                    nperiN |-> nperiN(f), ST |-> ST, added |-> 0]
  BY DEF Synseg
<1> DEFINE p == Pimp(labels)
<1>2. p \in Nat /\ t \in Nat /\ f \in Nat \ {0} /\ ST \in Nat /\ Rate \in Nat
  BY PtdAssumption DEF Pimp
<1>3. nperiN(f) \in Nat
  BY <1>2, Division DEF nperiN, Positive
<1> HIDE DEF p
<1>4. npimp(p, t, f) \in Nat /\ (p = 0 => npimp(p, t, f) = 0)
  <2>1. p * t \in Nat
    BY <1>2, SMT
  <2>2. p * t * f \in Nat
    BY <1>2, <2>1, SMT
  <2>3. p = 0 => p * t * f = 0
    BY <1>2, SMT
  <2> DEFINE x == p * t * f
  <2>4. npimp(p, t, f) = (x + 5000) \div 10000
    BY DEF npimp
  <2>5. x \in Nat /\ (p = 0 => x = 0)
    BY <2>2, <2>3
  <2> HIDE DEF x
  <2> QED
    BY <2>4, <2>5
<1>5. segment' \in PtdSegment /\ segment'.added = 0 /\ (segment'.pimp = 0 => segment'.npimp = 0)
  BY <1>1, <1>2, <1>3, <1>4 DEF PtdSegment, p
<1>6. doing = "rest" /\ doing' = "add" /\ Fits(segment') /\ UNCHANGED <<data, i1, i2, oST, starts, sound>>
  BY DEF Synseg
<1>7. i1 = i2 /\ PtdTypeOK
  BY <1>6 DEF PtdInv
<1>8. Before' = Len(sound) /\ Len(sound) \in Nat
  BY <1>5, <1>6, <1>7 DEF Before, PtdTypeOK
<1>9. Room(segment', oST, Len(sound))
  <2> PICK s : s = segment'
    OBVIOUS
  <2>1. s \in PtdSegment /\ s.added = 0 /\ Fits(s)
    BY <1>5, <1>6
  <2>2. Ind(s, s.ST, oST) \in Int
    BY <1>7, <2>1, SMTT(30) DEF Ind, PtdSegment, PtdTypeOK
  <2>3. s.npimp - 0 - 1 = s.npimp - 1
    BY <2>1 DEF PtdSegment
  <2>4. s.npimp # 0 => s.npimp \in Positive
    BY <2>1 DEF PtdSegment, Positive
  <2>5. (s.npimp - 1) * s.nperiN \in Int /\ s.ST \in Nat /\ N \in Nat
    BY <2>1, PtdAssumption, SMT DEF PtdSegment
  <2> DEFINE w == (s.npimp - 1) * s.nperiN
             d == Ind(s, s.ST, oST)
  <2>6. s.npimp # 0 => d >= 0 /\ d + w + s.ST <= N
    BY <2>1 DEF Fits
  <2>7. w \in Int /\ d \in Int
    BY <2>2, <2>5
  <2>8. Room(s, oST, Len(sound)) <=> (s.npimp > 0 => d \in Nat /\ Len(sound) + d + w + s.ST <= Len(sound) + N)
    BY <2>1, <2>3 DEF Room
  <2> HIDE DEF w, d
  <2>9. s.npimp > 0 => d \in Nat /\ Len(sound) + d + w + s.ST <= Len(sound) + N
    BY <1>8, <2>4, <2>5, <2>6, <2>7
  <2> QED
    BY <2>8, <2>9
<1>10. Room(segment', oST', Before')
  BY <1>6, <1>8, <1>9
<1>11. PtdTypeOK'
  BY <1>5, <1>6, <1>7 DEF PtdTypeOK, PtdSegment
<1>12. Before' - Len(sound') \in 0..N /\ (i2' = i1' + (Before' - Len(sound')))
  BY <1>6, <1>7, <1>8, PtdAssumption DEF PtdTypeOK
<1>13. /\ data' = [c \in 0..N - 1 |-> Covering(starts', Reach(c)')]
       /\ \A n \in 1..Len(starts') : starts'[n].at + starts'[n].length <= Len(sound') + N
       /\ Overlapped'
  BY <1>6 DEF PtdInv, Reach, Overlapped
<1>14. Room(segment, oST, Before)'
  BY <1>10, <1>6 DEF Room, Ind
<1> QED
  BY <1>5, <1>6, <1>11, <1>12, <1>13, <1>14 DEF PtdInv

\* modifik() puts an impulse where it should start.
LEMMA ModifikStep == ASSUME PtdInv, Modifik PROVE PtdInv'
<1> DEFINE L == Len(sound)
           s == segment
           d == Ind(s, s.ST, oST)
           B == Before + d
           n == Len(starts) + 1
           new == [at |-> B, length |-> s.ST]
           after == (s.npimp - s.added - 1) * s.nperiN
<1>1. /\ PtdTypeOK /\ doing = "add" /\ s.added < s.npimp /\ s \in PtdSegment /\ L \in Nat /\ N \in Nat \ {0}
      /\ starts \in Seq(Impulse) /\ Len(starts) \in Nat
  BY PtdAssumption DEF PtdInv, PtdTypeOK, Modifik
<1>2. s.added \in Nat /\ s.npimp \in Nat /\ s.pimp \in Nat /\ s.pimp # 0 /\ s.nperiN \in Nat /\ s.ST \in Nat
  BY <1>1 DEF PtdTypeOK, PtdSegment
<1>3. /\ s.added = 0 \/ (starts # <<>> /\ oST = s.ST)
      /\ Before - L \in 0..N /\ (i2 = i1 + (Before - L) \/ i2 = i1 + (Before - L) - N)
      /\ d \in Nat /\ B + after + s.ST <= L + N
  BY <1>1 DEF PtdInv, Room
<1>4. Before \in Nat /\ B \in Nat
  <2>1. Before \in Nat
    <3>1. CASE s.added = 0
      BY <1>1, <3>1 DEF Before
    <3>2. CASE s.added # 0
      <4>1. starts # <<>>
        BY <1>3, <3>2
      <4>2. starts[Len(starts)] \in Impulse
        BY <1>1, <4>1
      <4> QED
        BY <3>2, <4>2 DEF Before, Last, Impulse
    <3> QED
      BY <3>1, <3>2
  <2> QED
    BY <1>3, <2>1
<1>5. after \in Nat
  <2>1. s.npimp - s.added - 1 \in Nat
    BY <1>1, <1>2
  <2> QED
    BY <1>2, <2>1, SMT
<1>6. sST(s) = s.ST
  BY <1>1, <1>2, SameLength
<1>7. /\ i2' = Moved(d) /\ data' = Added(i2', s.ST, n) /\ starts' = Append(starts, new) /\ oST' = s.ST
      /\ s' = [s EXCEPT !.added = @ + 1] /\ UNCHANGED <<i1, doing, synsegs, sound>>
  BY <1>6 DEF Modifik, Before
<1> HIDE DEF after, d
<1>8. B - L \in 0..N /\ B + s.ST <= L + N
  <2>1. L \in Nat /\ N \in Nat /\ Before \in Int /\ d \in Nat /\ B = Before + d /\ s.ST \in Nat
    BY <1>1, <1>2, <1>3, <1>4
  <2>2. Before >= L /\ B + after + s.ST <= L + N
    BY <1>1, <1>3, <1>4
  <2> HIDE DEF L, B, s
  <2>3. B >= L /\ B + s.ST <= L + N
    BY <1>5, <2>1, <2>2
  <2> QED
    BY <1>2, <2>1, <2>3
<1>9. i1 \in 0..N - 1 /\ i2 \in 0..N - 1
  BY <1>1 DEF PtdTypeOK
<1>10. i2' \in 0..N - 1 /\ (i2' = i1 + (B - L) \/ i2' = i1 + (B - L) - N)
  <2>1. d <= N
    BY <1>1, <1>3, <1>4, <1>8
  <2> PICK w \in Int : w = i2 + d
    BY <1>3, <1>9
  <2>2. i2' = (IF Wrapped(w) < 0 THEN N - Wrapped(w) ELSE Wrapped(w))
    BY <1>7 DEF Moved
  <2>3. Wrapped(w) = IF w >= N THEN w - N ELSE w
    BY DEF Wrapped
  <2>4. w >= 0 /\ w < 2 * N
    BY <1>1, <1>3, <1>9, <2>1
  <2>5. i2' = IF w >= N THEN w - N ELSE w
    BY <1>1, <2>2, <2>3, <2>4
  <2> HIDE DEF L
  <2>6. B = Before + d
    OBVIOUS
  <2> HIDE DEF B
  <2>7. w = i1 + (B - L) \/ w = i1 + (B - L) - N
    BY <1>1, <1>3, <1>4, <1>9, <2>6
  <2>8. 0 <= i2' /\ i2' <= N - 1 /\ (i2' = w \/ i2' = w - N)
    BY <1>1, <2>4, <2>5
  <2> QED
    BY <1>1, <1>3, <1>4, <1>8, <1>9, <2>4, <2>5, <2>7, <2>8
<1> HIDE DEF B
<1>11. new \in Impulse
  BY <1>2, <1>4 DEF Impulse
<1>12. /\ starts' \in Seq(Impulse) /\ Len(starts') = n /\ starts'[n] = new
       /\ \A k \in 1..Len(starts) : starts'[k] = starts[k]
  BY <1>1, <1>7, <1>11, AppendProperties
<1>13. new.at = B /\ new.length = s.ST /\ n \notin 1..Len(starts) /\ 1..n = 1..Len(starts) \cup {n}
  BY <1>1
<1> HIDE DEF new, n
<1>14. DOMAIN starts = 1..Len(starts) /\ DOMAIN starts' = 1..n
  BY <1>1, <1>12
<1>15. \A x : Covering(starts', x) = IF x \in B..B + s.ST - 1 THEN Covering(starts, x) \cup {n} ELSE Covering(starts, x)
  BY <1>12, <1>13, <1>14 DEF Covering
<1>16. data = [c \in 0..N - 1 |-> Covering(starts, Reach(c))] /\ Overlapped
  BY DEF PtdInv
<1>17. \A c \in 0..N - 1 : (c - i2') % N < s.ST <=> Reach(c) \in B..B + s.ST - 1
  <2> SUFFICES ASSUME NEW c \in 0..N - 1 PROVE (c - i2') % N < s.ST <=> Reach(c) \in B..B + s.ST - 1
    OBVIOUS
  <2>1. Reach(c) = L + (IF c >= i1 THEN c - i1 ELSE c - i1 + N)
    BY DEF Reach
  <2> PICK k \in 0..N - 1 : k = i2'
    BY <1>10
  <2>2. (c - k) % N < s.ST <=> L + (IF c >= i1 THEN c - i1 ELSE c - i1 + N) \in B..B + s.ST - 1
    <3>1. L \in Nat /\ N \in Nat \ {0} /\ i1 \in 0..N - 1 /\ B \in Nat /\ s.ST \in Nat
      BY <1>1, <1>2, <1>4, <1>9
    <3>2. B - L \in 0..N /\ B + s.ST <= L + N /\ (k = i1 + (B - L) \/ k = i1 + (B - L) - N)
      BY <1>8, <1>10
    <3> PICK l \in Nat, a \in Nat, t \in Nat : l = L /\ a = B /\ t = s.ST
      BY <3>1
    <3>3. a - l \in 0..N /\ a + t <= l + N /\ (k = i1 + (a - l) \/ k = i1 + (a - l) - N)
      BY <3>2
    <3>4. (c - k) % N < t <=> l + (IF c >= i1 THEN c - i1 ELSE c - i1 + N) \in a..a + t - 1
      <4>1. c \in 0..N - 1 /\ k \in 0..N - 1 /\ l \in Nat /\ a \in Nat /\ t \in Nat
        OBVIOUS
      <4>2. Sited(l, N, i1, k, c, a, t)
        BY <3>1, <3>3, <4>1 DEF Sited
      <4> QED
        BY <4>2, Inside
    <3> QED
      BY <3>4
  <2> QED
    BY <2>1, <2>2
<1>18. data' = [c \in 0..N - 1 |-> Covering(starts', Reach(c))]
  <2>1. data' = [c \in 0..N - 1 |-> IF (c - i2') % N < s.ST THEN data[c] \cup {n} ELSE data[c]]
    BY <1>7 DEF Added
  <2>2. \A c \in 0..N - 1 : Covering(starts', Reach(c)) = IF (c - i2') % N < s.ST THEN data[c] \cup {n} ELSE data[c]
    BY <1>15, <1>16, <1>17
  <2> QED
    BY <2>1, <2>2
<1>19. data' = [c \in 0..N - 1 |-> Covering(starts', Reach(c)')]
  <2>1. \A c \in 0..N - 1 : Reach(c)' = Reach(c)
    BY <1>7 DEF Reach
  <2> QED
    BY <1>18, <2>1
<1>20. \A k \in 1..Len(starts') : starts'[k].at + starts'[k].length <= Len(sound') + N
  <2>1. \A k \in 1..Len(starts) : starts[k].at + starts[k].length <= L + N
    BY DEF PtdInv
  <2> QED
    BY <1>7, <1>8, <1>12, <1>13, <2>1
<1>21. Overlapped'
  <2> SUFFICES ASSUME NEW i \in DOMAIN sound PROVE sound[i] = Covering(starts', i - 1)
    BY <1>7 DEF Overlapped, Covering
  <2>1. sound[i] = Covering(starts, i - 1)
    BY <1>16 DEF Overlapped, Covering
  <2>2. i \in 1..L
    BY <1>1 DEF PtdTypeOK
  <2>3. i - 1 \notin B..B + s.ST - 1
    BY <1>1, <1>4, <1>8, <2>2
  <2> QED
    BY <1>15, <2>1, <2>3
<1>22. /\ s' \in PtdSegment /\ s'.added = s.added + 1 /\ s'.npimp = s.npimp /\ s'.pimp = s.pimp
       /\ s'.ST = s.ST /\ s'.nperiN = s.nperiN
  <2> PICK q \in PtdSegment : q = s
    BY <1>1
  <2>1. s' = [q EXCEPT !.added = q.added + 1]
    BY <1>7
  <2>2. q.added + 1 \in Nat
    BY <1>2
  <2>3. [q EXCEPT !.added = q.added + 1] \in PtdSegment
    BY <2>2 DEF PtdSegment
  <2> QED
    BY <2>1, <2>3 DEF PtdSegment
<1>23. starts' # <<>> /\ Before' = B
  <2>1. starts' # <<>>
    BY <1>1, <1>12 DEF n
  <2>2. s'.added # 0
    BY <1>2, <1>22
  <2> QED
    BY <1>12, <1>13, <2>1, <2>2 DEF Before, Last
<1>24. PtdTypeOK'
  <2>1. DOMAIN data' = 0..N - 1
    BY <1>18
  <2> QED
    BY <1>1, <1>2, <1>7, <1>10, <1>12, <1>22, <2>1, SMTT(30) DEF PtdTypeOK
<1>25. s'.added < s'.npimp =>
         /\ Ind(s', s'.ST, oST') \in Nat
         /\ B + Ind(s', s'.ST, oST') + (s'.npimp - s'.added - 1) * s'.nperiN + s'.ST <= L + N
  <2> SUFFICES ASSUME s'.added < s'.npimp
               PROVE  /\ Ind(s', s'.ST, oST') \in Nat
                      /\ B + Ind(s', s'.ST, oST') + (s'.npimp - s'.added - 1) * s'.nperiN + s'.ST <= L + N
    OBVIOUS
  <2>1. Ind(s', s'.ST, oST') = (s.ST + 2 * s.nperiN - s.ST) \div 2
    BY <1>7, <1>22 DEF Ind
  <2>2. (s.ST + 2 * s.nperiN - s.ST) \div 2 = s.nperiN
    BY <1>2
  <2>3. PICK a \in Nat, t \in Nat : a = s.npimp - s.added - 2 /\ t = s.nperiN
    <3>1. s.npimp - s.added - 2 \in Nat
      BY <1>2, <1>22
    <3> QED
      BY <1>2, <3>1
  <2>4. after = (a + 1) * t /\ (s'.npimp - s'.added - 1) * s'.nperiN = a * t
    <3>1. s.npimp - s.added - 1 = a + 1 /\ s'.npimp - s'.added - 1 = a
      BY <1>2, <1>22, <2>3
    <3> QED
      BY <1>22, <2>3, <3>1 DEF after
  <2>5. (a + 1) * t - a * t = t
    BY OneMore
  <2>6. a * t \in Nat
    BY SMT
  <2>7. (a + 1) * t \in Nat
    <3>1. a + 1 \in Nat
      OBVIOUS
    <3> QED
      BY <3>1, SMT
  <2> HIDE DEF L
  <2>8. PICK p \in Nat, q \in Nat : p = (a + 1) * t /\ q = a * t /\ p - q = t
    BY <2>5, <2>6, <2>7
  <2>9. B + p + s.ST <= L + N
    BY <1>3, <2>4, <2>8
  <2>10. Ind(s', s'.ST, oST') = t /\ (s'.npimp - s'.added - 1) * s'.nperiN = q /\ s'.ST = s.ST
    BY <1>22, <2>1, <2>2, <2>3, <2>4, <2>8
  <2>11. B + t + q + s.ST = B + p + s.ST
    <3>1. p \in Nat /\ q \in Nat /\ t \in Nat /\ t + q = p
      BY <2>3, <2>8
    <3>2. s.ST \in Nat /\ B \in Nat
      BY <1>2, <1>4
    <3> HIDE DEF s
    <3> QED
      BY <3>1, <3>2
  <2> QED
    BY <2>3, <2>9, <2>10, <2>11
<1>26. Before' - Len(sound') \in 0..N /\ (i2' = i1' + (Before' - Len(sound')) \/ i2' = i1' + (Before' - Len(sound')) - N)
  BY <1>7, <1>8, <1>10, <1>23
<1>27. oST' = s'.ST
  BY <1>7, <1>22
<1>28. Room(segment, oST, Before)'
  <2>1. Len(sound') = L /\ Before' = B
    BY <1>7, <1>23
  <2> HIDE DEF L, s
  <2>2. Room(segment, oST, Before)' <=>
          (segment'.added < segment'.npimp =>
             /\ Ind(segment', segment'.ST, oST') \in Nat
             /\ Before' + Ind(segment', segment'.ST, oST') + (segment'.npimp - segment'.added - 1) * segment'.nperiN + segment'.ST
                <= Len(sound') + N)
    BY DEF Room, Ind
  <2> QED
    BY <1>25, <2>1, <2>2 DEF s
<1> QED
  BY <1>1, <1>7, <1>19, <1>20, <1>21, <1>23, <1>24, <1>26, <1>27, <1>28 DEF PtdInv

\* kbread() reads what sounds now, and makes the cell free.
LEMMA KbreadStep == ASSUME PtdInv, Kbread PROVE PtdInv'
<1> DEFINE L == Len(sound)
<1>1. /\ PtdTypeOK /\ L \in Nat /\ N \in Nat \ {0} /\ i1 \in 0..N - 1 /\ sound \in Seq(SUBSET Nat)
      /\ DOMAIN sound = 1..L /\ starts \in Seq(Impulse)
  BY PtdAssumption DEF PtdInv, PtdTypeOK
<1>2. /\ sound' = Append(sound, data[i1]) /\ data' = [data EXCEPT ![i1] = {}] /\ i1' = NextCell(i1)
      /\ doing' = (IF i1' = i2 THEN "rest" ELSE "read") /\ UNCHANGED <<i2, oST, segment, synsegs, starts>>
  BY DEF Kbread, Emptied
<1>3. data = [c \in 0..N - 1 |-> Covering(starts, Reach(c))] /\ Overlapped
      /\ \A n \in 1..Len(starts) : starts[n].at + starts[n].length <= L + N
  BY DEF PtdInv
<1>4. i1' = (IF i1 < N - 1 THEN i1 + 1 ELSE 0) /\ i1' \in 0..N - 1
  BY <1>1, <1>2 DEF NextCell
<1>5. Reach(i1) = L
  BY <1>1 DEF Reach
<1>6. data[i1] = Covering(starts, L)
  BY <1>1, <1>3, <1>5
<1>7. data[i1] \in SUBSET Nat
  <2>1. DOMAIN starts \subseteq Nat
    BY <1>1
  <2> QED
    BY <1>6, <2>1 DEF Covering
<1>8. /\ sound' \in Seq(SUBSET Nat) /\ Len(sound') = L + 1 /\ sound'[L + 1] = data[i1]
      /\ \A i \in 1..L : sound'[i] = sound[i]
  BY <1>1, <1>2, <1>7, AppendProperties
<1>9. DOMAIN sound' = 1..L + 1
  BY <1>8
<1>10. \A c \in 0..N - 1 : c # i1 => Reach(c)' = Reach(c)
  <2> SUFFICES ASSUME NEW c \in 0..N - 1, c # i1 PROVE Reach(c)' = Reach(c)
    OBVIOUS
  <2>1. Reach(c)' = L + 1 + (IF c >= i1' THEN c - i1' ELSE c - i1' + N)
    BY <1>8 DEF Reach
  <2>2. Reach(c) = L + (IF c >= i1 THEN c - i1 ELSE c - i1 + N)
    BY DEF Reach
  <2> HIDE DEF L
  <2> PICK k \in 0..N - 1 : k = i1' /\ k = IF i1 < N - 1 THEN i1 + 1 ELSE 0
    BY <1>4
  <2>3. 1 + (IF c >= k THEN c - k ELSE c - k + N) = IF c >= i1 THEN c - i1 ELSE c - i1 + N
    BY <1>1
  <2> DEFINE x == IF c >= k THEN c - k ELSE c - k + N
  <2>4. x \in Int
    BY <1>1
  <2>5. Reach(c)' = L + 1 + x /\ Reach(c) = L + (1 + x)
    BY <2>1, <2>2, <2>3
  <2> HIDE DEF x
  <2> QED
    BY <1>1, <2>4, <2>5
<1>11. Len(sound') + (IF i1 >= i1' THEN i1 - i1' ELSE i1 - i1' + N) = L + N
  <2> HIDE DEF L
  <2> PICK k \in 0..N - 1 : k = i1' /\ k = IF i1 < N - 1 THEN i1 + 1 ELSE 0
    BY <1>4
  <2>1. 1 + (IF i1 >= k THEN i1 - k ELSE i1 - k + N) = N
    BY <1>1
  <2> QED
    <3>1. Len(sound') = L + 1
      BY <1>8
    <3> DEFINE x == IF i1 >= k THEN i1 - k ELSE i1 - k + N
    <3> HIDE DEF x
    <3>2. x = N - 1 /\ N \in Nat /\ L \in Nat
      BY <1>1, <2>1 DEF x
    <3>3. Len(sound') + x = L + N
      BY <3>1, <3>2
    <3> QED
      BY <3>3 DEF x
<1>12. Covering(starts, L + N) = {}
  <2> SUFFICES ASSUME NEW n \in DOMAIN starts PROVE L + N \notin starts[n].at..starts[n].at + starts[n].length - 1
    BY DEF Covering
  <2>1. n \in 1..Len(starts) /\ starts[n] \in Impulse
    BY <1>1
  <2>2. starts[n].at + starts[n].length <= L + N /\ starts[n].at \in Nat /\ starts[n].length \in Nat
    BY <1>3, <2>1 DEF Impulse
  <2> QED
    BY <1>1, <2>2
<1>13. data' = [c \in 0..N - 1 |-> Covering(starts, IF c = i1 THEN L + N ELSE Reach(c))]
  BY <1>2, <1>3, <1>12
<1>14. data' = [c \in 0..N - 1 |-> Covering(starts', Len(sound') + (IF c >= i1' THEN c - i1' ELSE c - i1' + N))]
  <2>1. \A c \in 0..N - 1 : Len(sound') + (IF c >= i1' THEN c - i1' ELSE c - i1' + N) = IF c = i1 THEN L + N ELSE Reach(c)
    <3> SUFFICES ASSUME NEW c \in 0..N - 1
                 PROVE  Len(sound') + (IF c >= i1' THEN c - i1' ELSE c - i1' + N) = IF c = i1 THEN L + N ELSE Reach(c)
      OBVIOUS
    <3>1. CASE c = i1
      BY <1>11, <3>1, SMTT(30)
    <3>2. CASE c # i1
      BY <1>1, <1>4, <1>8, <3>2, SMTT(60) DEF Reach
    <3> QED
      BY <3>1, <3>2
  <2> QED
    BY <1>2, <1>13, <2>1
<1>15. Overlapped'
  <2> SUFFICES ASSUME NEW i \in 1..L + 1 PROVE sound'[i] = Covering(starts, i - 1)
    BY <1>2, <1>9 DEF Overlapped, Covering
  <2>1. CASE i = L + 1
    BY <1>1, <1>6, <1>8, <2>1
  <2>2. CASE i # L + 1
    <3>1. i \in 1..L
      BY <1>1, <2>2
    <3> QED
      BY <1>1, <1>3, <1>8, <3>1 DEF Overlapped, Covering
  <2> QED
    BY <2>1, <2>2
<1>16. PtdTypeOK'
  BY <1>1, <1>2, <1>4, <1>8 DEF PtdTypeOK
<1>17. \A n \in 1..Len(starts') : starts'[n].at + starts'[n].length <= Len(sound') + N
  <2>1. \A n \in 1..Len(starts) : starts[n].at \in Nat /\ starts[n].length \in Nat
    <3>1. \A n \in 1..Len(starts) : starts[n] \in Impulse
      BY <1>1
    <3> QED
      BY <3>1 DEF Impulse
  <2> QED
    BY <1>1, <1>2, <1>3, <1>8, <2>1
<1>18. doing' # "add" /\ (doing' = "rest" => i1' = i2')
  BY <1>2
<1>19. data' = [c \in 0..N - 1 |-> Covering(starts', Reach(c)')]
  BY <1>14 DEF Reach
<1> QED
  BY <1>15, <1>16, <1>17, <1>18, <1>19 DEF PtdInv

\* The sound is what one would get without a circular buffer: every impulse is in the samples
\* that it should be in and in no other (synseg(), src/src/ptdsyn.cc:28-71, 232-259).
THEOREM SoundOverlapped == PtdInit /\ [][PtdNext]_ptdVars => []Overlapped
<1>1. ASSUME PtdInv, [PtdNext]_ptdVars PROVE PtdInv'
  <2>1. CASE UNCHANGED ptdVars
    BY <1>1, <2>1 DEF ptdVars, PtdInv, PtdTypeOK, Reach, Room, Before, Overlapped, Ind
  <2>2. CASE PtdNext
    BY <1>1, <2>2, SynsegStep, ModifikStep, KbreadStep DEF PtdNext
  <2> QED
    BY <1>1, <2>1, <2>2
<1>2. PtdInv => Overlapped
  BY DEF PtdInv
<1> QED
  BY <1>1, <1>2, InitPtd, PTL

-----------------------------------------------------------------------------
(* A client of the server.                                                 *)

\* Sums of parts begin with 0 and grow by each of them.
LEMMA SumsAre ==
  ASSUME NEW parts \in Seq(Nat)
  PROVE  /\ Sums(parts) \in [0..Len(parts) -> Nat]
         /\ Sums(parts)[0] = 0
         /\ \A i \in 1..Len(parts) : Sums(parts)[i] = Sums(parts)[i - 1] + parts[i]
<1> DEFINE IsSum(f, n) == f \in [0..n -> Nat] /\ f[0] = 0 /\ \A i \in 1..n : f[i] = f[i - 1] + parts[i]
           Bad == {n \in 0..Len(parts) : \A f \in [0..n -> Nat] : ~IsSum(f, n)}
<1>1. Len(parts) \in Nat /\ \A i \in 1..Len(parts) : parts[i] \in Nat
  BY ElementOfSeq
<1>2. Bad = {}
  <2> SUFFICES ASSUME Bad # {} PROVE FALSE
    OBVIOUS
  <2>1. Bad \subseteq Nat
    BY <1>1
  <2>2. PICK n \in Bad : \A m \in Bad : <<m, n>> \notin OpToRel(<, Nat)
    BY <2>1, NatLessThanWellFounded, WFMin
  <2>3. n \in 0..Len(parts) /\ n \in Nat /\ \A f \in [0..n -> Nat] : ~IsSum(f, n)
    <3>1. n \in 0..Len(parts)
      BY <2>2
    <3>2. n \in Nat
      BY <1>1, <3>1
    <3>3. \A f \in [0..n -> Nat] : ~IsSum(f, n)
      BY <2>2
    <3> HIDE DEF IsSum
    <3> QED
      BY <3>1, <3>2, <3>3
  <2>4. CASE n = 0
    <3> DEFINE f == [i \in 0..0 |-> 0]
    <3>1. f \in [0..n -> Nat] /\ IsSum(f, n)
      BY <2>4
    <3> QED
      BY <2>3, <3>1
  <2>5. CASE n # 0
    <3>1. n - 1 \in Nat /\ n - 1 \in 0..Len(parts) /\ n - 1 < n
      BY <1>1, <2>3, <2>5
    <3>2. n - 1 \notin Bad
      BY <2>2, <2>3, <3>1 DEF OpToRel
    <3>3. PICK g \in [0..n - 1 -> Nat] : IsSum(g, n - 1)
      BY <3>1, <3>2
    <3> DEFINE f == [i \in 0..n |-> IF i = n THEN g[n - 1] + parts[n] ELSE g[i]]
    <3>4. n \in 1..Len(parts) /\ parts[n] \in Nat /\ g[n - 1] \in Nat
      BY <1>1, <2>3, <2>5, <3>1, <3>3
    <3>5. f \in [0..n -> Nat]
      <4>1. \A i \in 0..n : i # n => g[i] \in Nat
        BY <2>3, <3>3
      <4> QED
        BY <3>4, <4>1
    <3>6. f[0] = 0
      BY <2>3, <2>5, <3>3
    <3>7. ASSUME NEW i \in 1..n PROVE f[i] = f[i - 1] + parts[i]
      <4>1. i - 1 \in 0..n /\ i - 1 # n /\ i \in 0..n
        BY <2>3
      <4>2. f[i - 1] = g[i - 1]
        BY <4>1
      <4>3. CASE i = n
        BY <4>1, <4>2, <4>3
      <4>4. CASE i # n
        <5>1. i \in 1..n - 1
          BY <2>3, <4>4
        <5>2. f[i] = g[i] /\ g[i] = g[i - 1] + parts[i]
          BY <3>3, <4>1, <4>4, <5>1
        <5> QED
          BY <4>2, <5>2
      <4> QED
        BY <4>3, <4>4
    <3> HIDE DEF f
    <3> QED
      BY <2>3, <3>5, <3>6, <3>7
  <2> QED
    BY <2>4, <2>5
<1>3. PICK f \in [0..Len(parts) -> Nat] : IsSum(f, Len(parts))
  <2>1. Len(parts) \in 0..Len(parts) /\ Len(parts) \notin Bad
    <3>1. Len(parts) \in 0..Len(parts)
      BY <1>1
    <3> HIDE DEF Bad
    <3> QED
      BY <1>2, <3>1
  <2> HIDE DEF IsSum
  <2> QED
    BY <2>1
<1> DEFINE Rec(g) == g = [i \in 0..Len(parts) |-> IF i = 0 THEN 0 ELSE g[i - 1] + parts[i]]
<1>4. Rec(f)
  <2>1. \A i \in 0..Len(parts) : f[i] = IF i = 0 THEN 0 ELSE f[i - 1] + parts[i]
    BY <1>1, <1>3
  <2> QED
    BY <2>1
<1>5. Sums(parts) = CHOOSE g : Rec(g)
  BY DEF Sums
<1> DEFINE S == Sums(parts)
<1>6. Rec(S)
  <2> HIDE DEF Rec
  <2> QED
    BY <1>4, <1>5
<1>7. S[0] = 0 /\ \A i \in 1..Len(parts) : S[i] = S[i - 1] + parts[i]
  <2>1. S = [i \in 0..Len(parts) |-> IF i = 0 THEN 0 ELSE S[i - 1] + parts[i]]
    BY <1>6
  <2> HIDE DEF S
  <2>2. \A i \in 0..Len(parts) : S[i] = IF i = 0 THEN 0 ELSE S[i - 1] + parts[i]
    BY <2>1
  <2>3. 0 \in 0..Len(parts) /\ \A i \in 1..Len(parts) : i \in 0..Len(parts) /\ i # 0
    BY <1>1
  <2> QED
    BY <2>2, <2>3
<1>8. S \in [0..Len(parts) -> Nat]
  <2> DEFINE Odd == {n \in 0..Len(parts) : S[n] \notin Nat}
  <2>1. Odd = {}
    <3> SUFFICES ASSUME Odd # {} PROVE FALSE
      OBVIOUS
    <3>1. Odd \subseteq Nat
      BY <1>1
    <3>2. PICK n \in Odd : \A m \in Odd : <<m, n>> \notin OpToRel(<, Nat)
      BY <3>1, NatLessThanWellFounded, WFMin
    <3>3. n \in 0..Len(parts) /\ n \in Nat /\ S[n] \notin Nat
      <4>1. n \in 0..Len(parts) /\ S[n] \notin Nat
        BY <3>2
      <4> QED
        BY <1>1, <4>1
    <3>4. n # 0
      BY <1>7, <3>3
    <3>5. n - 1 \in Nat /\ n - 1 \in 0..Len(parts) /\ n - 1 < n
      BY <1>1, <3>3, <3>4
    <3>6. S[n - 1] \in Nat
      BY <3>2, <3>3, <3>5 DEF OpToRel
    <3>7. n \in 1..Len(parts) /\ parts[n] \in Nat
      BY <1>1, <3>3, <3>4
    <3> QED
      BY <1>7, <3>3, <3>6, <3>7
  <2>2. S = [i \in 0..Len(parts) |-> IF i = 0 THEN 0 ELSE S[i - 1] + parts[i]]
    BY <1>6
  <2>3. \A i \in 0..Len(parts) : S[i] \in Nat
    BY <2>1
  <2>4. DOMAIN S = 0..Len(parts) /\ S = [i \in DOMAIN S |-> S[i]]
    BY <2>2
  <2> HIDE DEF S
  <2> QED
    BY <2>3, <2>4
<1> QED
  BY <1>7, <1>8

-----------------------------------------------------------------------------
Byte == Nat \X Nat
Reply == [code : {"122", "123"} \cup Final, n : Nat]

\* What a reply tells to have been sent.
Told(reply) == IF reply.code = "123" THEN reply.n ELSE 0

\* After the replies of q, to a client that knows of d bytes, e have been told.
Counted(m, d, q, e) ==
  /\ m \in [0..Len(q) -> Nat] /\ m[0] = d /\ m[Len(q)] = e
  /\ \A i \in 0..Len(q) : m[i] <= e
  /\ \A i \in 1..Len(q) : m[i] = m[i - 1] + Told(q[i])
Tells(d, q, e) == \E m \in [0..Len(q) -> Nat] : Counted(m, d, q, e)

\* These are bytes of the appl a, from number n + 1 on.
InOrder(a, bytes, n) == \A i \in 1..Len(bytes) : bytes[i] = <<a, n + i>>

ApplTypes ==
  /\ appl \in 1..Len(program.tasks)
  /\ task \in 0..Len(Subtasks) /\ left \in Nat /\ next \in Nat \ {0}
  /\ ctrl \in Seq(Reply) /\ network \in Seq(Byte) /\ datad \in Seq(Byte) /\ rec \in Seq(Byte)
  /\ size \in Nat /\ due \in Nat
  /\ status \in {"reply", "data", "rest"}

\* All that was sent is in the buffer or on its way, in order.
Conveyed ==
  /\ size <= due /\ due <= Len(rec)
  /\ \A i \in 1..size : rec[i] = <<appl, i>>
  /\ size + Len(datad) + Len(network) = next - 1
  /\ InOrder(appl, datad, size) /\ InOrder(appl, network, size + Len(datad))

\* An appl has one final reply, which is the last, and 200 when all has been sent.
Ended ==
  \A i \in 1..Len(ctrl) : ctrl[i].code \in Final =>
    /\ i = Len(ctrl) /\ left = 0 /\ ctrl[i].code \in program.replies
    /\ ctrl[i].code = "200" => task = Len(Subtasks)

\* What has been sent and what is left are the subtasks up to this one.
Accounted ==
  (\A i \in 1..Len(ctrl) : ctrl[i].code \notin Errors) => next - 1 + left = Sums(Subtasks)[task]

\* What is peculiar to the two clients. Tcpsyn is told the total when all has been told.
SayWaits == program.client = "say" => status # "rest" /\ (status = "reply" => size = due)
TcpsynWaits ==
  program.client = "tcpsyn" =>
    /\ \A i \in 1..Len(ctrl) : ctrl[i].code = "122" =>
         ctrl[i].n = next - 1 /\ left = 0 /\ task = Len(Subtasks)
    /\ task = 0 => \A i \in 1..Len(ctrl) : ctrl[i].code \in Final
    /\ status = "rest" => ctrl = <<>> /\ left = 0 /\ task = Len(Subtasks)

InAppl ==
  /\ ApplTypes /\ Len(results) = appl - 1
  /\ Conveyed /\ Tells(due, ctrl, next - 1) /\ Ended /\ Accounted /\ SayWaits /\ TcpsynWaits

ResultOk(p, k, result) == result.ok => result.data = [i \in 1..Total(p.tasks[k]) |-> <<k, i>>]

ClientInv ==
  /\ program \in Programs
  /\ results \in Seq([ok : BOOLEAN, data : Seq(Byte)])
  /\ \A k \in 1..Len(results) : ResultOk(program, k, results[k])
  /\ status # "done" => InAppl

-----------------------------------------------------------------------------
(* What replies tell.                                                      *)

LEMMA ToldNumber == ASSUME NEW reply \in Reply PROVE Told(reply) \in Nat
BY DEF Told, Reply

LEMMA TellsBound ==
  ASSUME NEW d \in Nat, NEW e \in Nat, NEW q \in Seq(Reply), Tells(d, q, e)
  PROVE  d <= e /\ (q = <<>> => d = e)
<1>1. PICK m \in [0..Len(q) -> Nat] : Counted(m, d, q, e)
  BY DEF Tells
<1>2. Len(q) \in Nat /\ (q = <<>> => Len(q) = 0) /\ 0 \in 0..Len(q)
  OBVIOUS
<1> QED
  BY <1>1, <1>2 DEF Counted

LEMMA TellsMore ==
  ASSUME NEW d \in Nat, NEW e \in Nat, NEW q \in Seq(Reply), NEW reply \in Reply, Tells(d, q, e)
  PROVE  Tells(d, Append(q, reply), e + Told(reply))
<1> DEFINE n == Len(q)
           q2 == Append(q, reply)
           e2 == e + Told(reply)
<1>1. PICK m \in [0..n -> Nat] : Counted(m, d, q, e)
  BY DEF Tells
<1> DEFINE m2 == [i \in 0..n + 1 |-> IF i <= n THEN m[i] ELSE e2]
<1>2. n \in Nat /\ Told(reply) \in Nat /\ e2 \in Nat
  BY ToldNumber
<1>3. Len(q2) = n + 1 /\ q2[n + 1] = reply /\ \A i \in 1..n : q2[i] = q[i]
  OBVIOUS
<1>4. \A i \in 0..n : m[i] \in Nat /\ m[i] <= e
  BY <1>1 DEF Counted
<1>5. m[0] = d /\ m[n] = e /\ \A i \in 1..n : m[i] = m[i - 1] + Told(q[i])
  BY <1>1 DEF Counted
<1> HIDE DEF n, q2, e2
<1>6. /\ \A i \in 0..n : i \in 0..n + 1 /\ i <= n
      /\ n + 1 \in 0..n + 1 /\ ~(n + 1 <= n) /\ 0 \in 0..n
  BY <1>2
<1>7. (\A i \in 0..n : m2[i] = m[i]) /\ m2[n + 1] = e2
  BY <1>6
<1>8. \A i \in 0..n + 1 : i \in 0..n \/ i = n + 1
  BY <1>2
<1>9. m2 \in [0..n + 1 -> Nat]
  BY <1>2, <1>4, <1>8
<1> HIDE DEF m2
<1>10. m2[0] = d /\ m2[n + 1] = e2 /\ \A i \in 0..n + 1 : m2[i] <= e2
  <2>1. e <= e2
    BY <1>2 DEF e2
  <2>2. \A i \in 0..n : m2[i] \in Nat /\ m2[i] <= e
    BY <1>4, <1>7
  <2>3. m2[0] = d /\ m2[n + 1] = e2
    BY <1>5, <1>6, <1>7
  <2>4. \A i \in 0..n : m2[i] <= e2
    BY <1>2, <2>1, <2>2
  <2>5. m2[n + 1] <= e2
    BY <1>2, <2>3
  <2> QED
    BY <1>8, <2>3, <2>4, <2>5
<1>11. ASSUME NEW i \in 1..n + 1 PROVE m2[i] = m2[i - 1] + Told(q2[i])
  <2>1. CASE i = n + 1
    <3>1. i - 1 = n /\ n \in 0..n
      BY <1>2, <2>1
    <3> QED
      BY <1>3, <1>5, <1>7, <2>1, <3>1 DEF e2
  <2>2. CASE i # n + 1
    <3>1. i \in 1..n /\ i \in 0..n /\ i - 1 \in 0..n
      BY <1>2, <2>2
    <3> QED
      BY <1>3, <1>5, <1>7, <3>1
  <2> QED
    BY <2>1, <2>2
<1>12. Counted(m2, d, q2, e2)
  BY <1>3, <1>9, <1>10, <1>11 DEF Counted
<1> QED
  BY <1>3, <1>9, <1>12 DEF Tells, q2, e2

LEMMA TellsLess ==
  ASSUME NEW d \in Nat, NEW e \in Nat, NEW q \in Seq(Reply), q # <<>>, Tells(d, q, e)
  PROVE  Tells(d + Told(Head(q)), Tail(q), e)
<1> DEFINE n == Len(q)
           q2 == Tail(q)
           d2 == d + Told(Head(q))
<1>1. PICK m \in [0..n -> Nat] : Counted(m, d, q, e)
  BY DEF Tells
<1> DEFINE m2 == [i \in 0..n - 1 |-> m[i + 1]]
<1>2. n \in Nat /\ n > 0 /\ q2 \in Seq(Reply) /\ Len(q2) = n - 1 /\ Head(q) = q[1] /\ \A i \in 1..n - 1 : q2[i] = q[i + 1]
  <2>1. Len(q) # 0
    BY EmptySeq
  <2> QED
    BY <2>1
<1>3. \A i \in 0..n : m[i] \in Nat /\ m[i] <= e
  BY <1>1 DEF Counted
<1>4. m[0] = d /\ m[n] = e /\ \A i \in 1..n : m[i] = m[i - 1] + Told(q[i])
  BY <1>1 DEF Counted
<1> HIDE DEF n, q2
<1>5. \A i \in 0..n - 1 : i + 1 \in 0..n
  BY <1>2
<1>6. \A i \in 0..n - 1 : m2[i] = m[i + 1]
  OBVIOUS
<1>7. m2 \in [0..n - 1 -> Nat]
  BY <1>3, <1>5
<1> HIDE DEF m2
<1>8. m2[0] = d2
  <2>1. 0 \in 0..n - 1 /\ 0 + 1 = 1 /\ 1 \in 1..n /\ 1 - 1 = 0
    BY <1>2
  <2>2. m2[0] = m[1] /\ m[1] = m[0] + Told(q[1])
    BY <1>4, <1>6, <2>1
  <2> QED
    BY <1>2, <1>4, <2>2
<1>9. m2[n - 1] = e /\ \A i \in 0..n - 1 : m2[i] <= e
  <2>1. n - 1 \in 0..n - 1 /\ (n - 1) + 1 = n
    BY <1>2
  <2> QED
    BY <1>3, <1>4, <1>5, <1>6, <2>1
<1>10. ASSUME NEW i \in 1..n - 1 PROVE m2[i] = m2[i - 1] + Told(q2[i])
  <2>1. i \in 0..n - 1 /\ i - 1 \in 0..n - 1 /\ i + 1 \in 1..n /\ (i + 1) - 1 = i /\ (i - 1) + 1 = i
    BY <1>2
  <2>2. m2[i] = m[i + 1] /\ m2[i - 1] = m[i] /\ q2[i] = q[i + 1]
    BY <1>2, <1>6, <2>1
  <2>3. m[i + 1] = m[i] + Told(q[i + 1])
    BY <1>4, <2>1
  <2> QED
    BY <2>2, <2>3
<1>11. Counted(m2, d2, q2, e)
  BY <1>2, <1>7, <1>8, <1>9, <1>10 DEF Counted
<1> QED
  BY <1>2, <1>7, <1>11 DEF Tells, q2

LEMMA TellsNothing == ASSUME NEW d \in Nat PROVE Tells(d, <<>>, d)
<1> DEFINE m == [i \in 0..0 |-> d]
<1>1. Len(<<>>) = 0 /\ m \in [0..0 -> Nat] /\ m[0] = d
  OBVIOUS
<1> HIDE DEF m
<1>2. Counted(m, d, <<>>, d)
  BY <1>1 DEF Counted
<1> QED
  BY <1>1, <1>2 DEF Tells

-----------------------------------------------------------------------------
(* Bytes on their way.                                                     *)

LEMMA InOrderFirst ==
  ASSUME NEW a \in Nat, NEW n \in Nat, NEW x \in Seq(Byte), NEW y \in Seq(Byte), y # <<>>,
         InOrder(a, x, n), InOrder(a, y, n + Len(x))
  PROVE  /\ Append(x, Head(y)) \in Seq(Byte) /\ Len(Append(x, Head(y))) = Len(x) + 1
         /\ Tail(y) \in Seq(Byte) /\ Len(Tail(y)) = Len(y) - 1
         /\ InOrder(a, Append(x, Head(y)), n) /\ InOrder(a, Tail(y), n + Len(Append(x, Head(y))))
<1> DEFINE x2 == Append(x, Head(y))
           y2 == Tail(y)
<1>1. Len(y) \in Nat /\ Len(y) > 0 /\ Len(x) \in Nat /\ Head(y) = y[1]
  <2>1. Len(y) # 0
    BY EmptySeq
  <2> QED
    BY <2>1
<1>2. Head(y) \in Byte
  BY <1>1, ElementOfSeq
<1>3. x2 \in Seq(Byte) /\ Len(x2) = Len(x) + 1 /\ x2[Len(x) + 1] = Head(y) /\ \A i \in 1..Len(x) : x2[i] = x[i]
  BY <1>2
<1>4. y2 \in Seq(Byte) /\ Len(y2) = Len(y) - 1 /\ \A i \in 1..Len(y) - 1 : y2[i] = y[i + 1]
  BY <1>1
<1> HIDE DEF x2, y2
<1>5. \A i \in 1..Len(x) + 1 : x2[i] = <<a, n + i>>
  <2>1. \A i \in 1..Len(x) : x2[i] = <<a, n + i>>
    BY <1>3 DEF InOrder
  <2>2. x2[Len(x) + 1] = <<a, n + (Len(x) + 1)>>
    <3>1. 1 \in 1..Len(y) /\ n + Len(x) + 1 = n + (Len(x) + 1)
      BY <1>1
    <3>2. y[1] = <<a, n + Len(x) + 1>>
      BY <3>1 DEF InOrder
    <3> QED
      BY <1>1, <1>3, <3>1, <3>2
  <2>3. \A i \in 1..Len(x) + 1 : i \in 1..Len(x) \/ i = Len(x) + 1
    BY <1>1
  <2> QED
    BY <2>1, <2>2, <2>3
<1>6. ASSUME NEW i \in 1..Len(y) - 1 PROVE y2[i] = <<a, n + Len(x2) + i>>
  <2>1. i + 1 \in 1..Len(y) /\ n + Len(x) + (i + 1) = n + Len(x2) + i
    BY <1>1, <1>3
  <2>2. y[i + 1] = <<a, n + Len(x) + (i + 1)>>
    BY <2>1 DEF InOrder
  <2> QED
    BY <1>4, <2>1, <2>2
<1> QED
  BY <1>3, <1>4, <1>5, <1>6 DEF InOrder, x2, y2

\* The bytes of an appl from number f on.
Numbered(a, f, k) == [i \in 1..k |-> <<a, f + i - 1>>]

LEMMA InOrderMore ==
  ASSUME NEW a \in Nat, NEW n \in Nat, NEW x \in Seq(Byte), NEW k \in Nat, NEW f \in Nat,
         InOrder(a, x, n), f = n + Len(x) + 1
  PROVE  /\ x \o Numbered(a, f, k) \in Seq(Byte) /\ Len(x \o Numbered(a, f, k)) = Len(x) + k
         /\ InOrder(a, x \o Numbered(a, f, k), n)
<1> DEFINE y == Numbered(a, f, k)
           x2 == x \o y
<1>1. Len(x) \in Nat
  OBVIOUS
<1>2. y \in Seq(Byte) /\ Len(y) = k /\ \A i \in 1..k : y[i] = <<a, f + i - 1>>
  <2>1. \A i \in 1..k : f + i - 1 \in Nat
    BY <1>1
  <2>2. y \in [1..k -> Byte] /\ \A i \in 1..k : y[i] = <<a, f + i - 1>>
    BY <2>1 DEF Byte, Numbered
  <2> HIDE DEF y
  <2> QED
    BY <2>2
<1> HIDE DEF y
<1>3. x2 \in Seq(Byte) /\ Len(x2) = Len(x) + k
      /\ \A i \in 1..Len(x) + k : x2[i] = IF i <= Len(x) THEN x[i] ELSE y[i - Len(x)]
  BY <1>1, <1>2, ConcatProperties
<1> HIDE DEF x2
<1>4. ASSUME NEW i \in 1..Len(x) + k PROVE x2[i] = <<a, n + i>>
  <2>1. CASE i <= Len(x)
    <3>1. i \in 1..Len(x)
      BY <1>1, <2>1
    <3> QED
      BY <1>3, <2>1, <3>1 DEF InOrder
  <2>2. CASE ~(i <= Len(x))
    <3>1. i - Len(x) \in 1..k /\ f + (i - Len(x)) - 1 = n + i
      BY <1>1, <2>2
    <3>2. y[i - Len(x)] = <<a, f + (i - Len(x)) - 1>>
      BY <1>2, <3>1
    <3> QED
      BY <1>3, <2>2, <3>1, <3>2
  <2> QED
    BY <2>1, <2>2
<1>5. x2 \in Seq(Byte) /\ Len(x2) = Len(x) + k /\ InOrder(a, x2, n)
  BY <1>3, <1>4 DEF InOrder
<1> QED
  BY <1>5 DEF x2, y

LEMMA InOrderLess ==
  ASSUME NEW a \in Nat, NEW n \in Nat, NEW x \in Seq(Byte), NEW k \in 0..Len(x), InOrder(a, x, n)
  PROVE  /\ SubSeq(x, k + 1, Len(x)) \in Seq(Byte) /\ Len(SubSeq(x, k + 1, Len(x))) = Len(x) - k
         /\ InOrder(a, SubSeq(x, k + 1, Len(x)), n + k)
<1> DEFINE y == SubSeq(x, k + 1, Len(x))
<1>1. Len(x) \in Nat /\ \A i \in 1..Len(x) : x[i] \in Byte
  BY ElementOfSeq
<1>2. y \in Seq(Byte) /\ Len(y) = Len(x) - k /\ \A i \in 1..Len(x) - k : y[i] = x[i + k]
  <2>1. \A i \in k + 1..Len(x) : x[i] \in Byte
    BY <1>1
  <2>2. /\ y \in Seq(Byte)
        /\ Len(y) = IF k + 1 <= Len(x) THEN Len(x) - (k + 1) + 1 ELSE 0
        /\ \A i \in 1..Len(x) - (k + 1) + 1 : y[i] = x[(k + 1) + i - 1]
    BY <1>1, <2>1, SubSeqProperties
  <2>3. Len(x) - (k + 1) + 1 = Len(x) - k /\ \A i \in Nat : (k + 1) + i - 1 = i + k
    BY <1>1
  <2> HIDE DEF y
  <2>4. ASSUME NEW i \in 1..Len(x) - k PROVE y[i] = x[i + k]
    <3>1. i \in 1..Len(x) - (k + 1) + 1 /\ i \in Nat
      BY <2>3
    <3> QED
      BY <2>2, <2>3, <3>1
  <2>5. Len(y) = Len(x) - k
    BY <1>1, <2>2
  <2> QED
    BY <2>2, <2>4, <2>5
<1> HIDE DEF y
<1>3. ASSUME NEW i \in 1..Len(x) - k PROVE y[i] = <<a, n + k + i>>
  <2>1. i + k \in 1..Len(x) /\ n + (i + k) = n + k + i
    BY <1>1
  <2>2. x[i + k] = <<a, n + (i + k)>>
    BY <2>1 DEF InOrder
  <2> QED
    BY <1>2, <2>1, <2>2
<1>4. InOrder(a, y, n + k)
  BY <1>2, <1>3 DEF InOrder
<1> QED
  BY <1>2, <1>4 DEF y

-----------------------------------------------------------------------------
(* The server.                                                             *)

LEMMA ApplIs ==
  ASSUME Undivided, ClientInv, status # "done"
  PROVE  /\ InAppl /\ program \in Programs /\ program.client \in {"say", "tcpsyn"}
         /\ appl \in 1..Len(program.tasks) /\ appl \in Nat
         /\ Subtasks \in Seq(Nat) /\ Len(Subtasks) \in Nat
         /\ Sums(Subtasks) \in [0..Len(Subtasks) -> Nat] /\ Sums(Subtasks)[0] = 0
         /\ \A i \in 1..Len(Subtasks) : Subtasks[i] \in Nat /\ Sums(Subtasks)[i] = Sums(Subtasks)[i - 1] + Subtasks[i]
         /\ program.client = "tcpsyn" =>
              /\ program.output = "wave"
              /\ Len(Subtasks) <= 1
              /\ "401" \notin program.replies
              /\ program.replies \subseteq {"200"} \/ Len(program.tasks) = 1
<1>1. InAppl /\ program \in Programs /\ appl \in 1..Len(program.tasks)
  BY DEF ClientInv, InAppl, ApplTypes
<1>2. program.client \in {"say", "tcpsyn"} /\ program.tasks \in Seq(Seq(Nat))
  BY <1>1, ClientAssumption
<1>3. appl \in Nat /\ appl \in DOMAIN program.tasks
  BY <1>1, <1>2
<1>4. Subtasks \in Seq(Nat)
  BY <1>2, <1>3, ElementOfSeq DEF Subtasks
<1>5. Len(Subtasks) \in Nat /\ \A i \in 1..Len(Subtasks) : Subtasks[i] \in Nat
  BY <1>4, ElementOfSeq
<1>6. program.client = "tcpsyn" =>
              /\ program.output = "wave"
              /\ Len(Subtasks) <= 1
              /\ "401" \notin program.replies
              /\ program.replies \subseteq {"200"} \/ Len(program.tasks) = 1
  BY <1>1, <1>3, ClientAssumption DEF Undivided, Subtasks
<1> QED
  BY <1>1, <1>2, <1>3, <1>4, <1>5, <1>6, SumsAre

\* A reply is an old one, or of this kind.
Known(reply, n, total, first, last) ==
  \/ reply = Message("123", n)
  \/ reply = Message("122", total) /\ (program.output = "wave" => last)

LEMMA AppendedIs ==
  ASSUME NEW q \in Seq(Reply), NEW reply \in Reply
  PROVE  /\ Append(q, reply) \in Seq(Reply) /\ Append(q, reply) = q \o <<reply>>
         /\ \A i \in 1..Len(Append(q, reply)) :
              (i \in 1..Len(q) /\ Append(q, reply)[i] = q[i]) \/ Append(q, reply)[i] = reply
<1>1. Append(q, reply) \in Seq(Reply) /\ Len(q) \in Nat /\ Len(Append(q, reply)) = Len(q) + 1
      /\ Append(q, reply)[Len(q) + 1] = reply /\ \A i \in 1..Len(q) : Append(q, reply)[i] = q[i]
  OBVIOUS
<1>2. \A i \in 1..Len(q) + 1 : i \in 1..Len(q) \/ i = Len(q) + 1
  BY <1>1
<1>3. Append(q, reply) = q \o <<reply>>
  BY AppendIsConcat
<1> QED
  BY <1>1, <1>2, <1>3

\* What is reported of n bytes tells of these n.
LEMMA ReportsTell ==
  ASSUME NEW ahead \in Nat, NEW n \in 0..ahead, NEW first \in BOOLEAN, Written(n, ahead, first),
         Subtasks[task'] \in Nat, due \in Nat, next - 1 \in Nat, ctrl \in Seq(Reply), Tells(due, ctrl, next - 1)
  PROVE  /\ ctrl' \in Seq(Reply) /\ Tells(due, ctrl', (next - 1) + n)
         /\ \A i \in 1..Len(ctrl') :
              (i \in 1..Len(ctrl) /\ ctrl'[i] = ctrl[i]) \/ Known(ctrl'[i], n, Subtasks[task'], first, n = ahead)
<1> DEFINE d == due
           e == next - 1
           q == ctrl
           p == ctrl'
           total == Subtasks[task']
           last == n = ahead
           piece == Message("123", n)
           whole == Message("122", total)
           r == Reports(n, total, first, last)
<1>0. /\ d \in Nat /\ e \in Nat /\ q \in Seq(Reply) /\ Tells(d, q, e)
      /\ total \in Nat /\ last \in BOOLEAN /\ n \in Nat /\ p = q \o r
  BY DEF Written
<1> SUFFICES
        /\ p \in Seq(Reply) /\ Tells(d, p, e + n)
        /\ \A i \in 1..Len(p) : (i \in 1..Len(q) /\ p[i] = q[i]) \/ Known(p[i], n, total, first, last)
  OBVIOUS
<1> HIDE DEF d, e, q, p, total, last
<1>1. /\ piece \in Reply /\ Told(piece) = n /\ Known(piece, n, total, first, last)
      /\ whole \in Reply /\ Told(whole) = 0
      /\ program.output # "wave" \/ last => Known(whole, n, total, first, last)
  BY <1>0 DEF Message, Reply, Told, Known
<1>2. e + n \in Nat /\ e + 0 = e /\ (e + n) + 0 = e + n
  BY <1>0
<1>3. r = IF program.output = "wave"
          THEN <<piece>> \o (IF last THEN <<whole>> ELSE <<>>)
          ELSE IF n = 0 THEN <<>> ELSE (IF first THEN <<whole>> ELSE <<>>) \o <<piece>>
  BY DEF Reports
<1> HIDE DEF piece, whole, r
<1>4. CASE r = <<>> /\ n = 0
  <2>1. p = q
    BY <1>0, <1>4, ConcatEmptySeq
  <2>2. e + n = e
    BY <1>2, <1>4
  <2>3. Tells(d, p, e + n)
    BY <1>0, <2>1, <2>2
  <2> QED
    BY <1>0, <1>4, <2>1, <2>2, <2>3
<1>5. CASE r = <<piece>>
  <2>1. Append(q, piece) \in Seq(Reply) /\ Append(q, piece) = p
        /\ \A i \in 1..Len(p) : (i \in 1..Len(q) /\ p[i] = q[i]) \/ p[i] = piece
    BY <1>0, <1>1, <1>5, AppendedIs
  <2>2. Tells(d, p, e + n)
    BY <1>0, <1>1, <2>1, TellsMore
  <2> QED
    BY <1>1, <2>1, <2>2
<1>6. ASSUME NEW x \in Reply, NEW y \in Reply, Known(x, n, total, first, last), Known(y, n, total, first, last),
             Told(x) + Told(y) = n, r = <<x>> \o <<y>>
      PROVE  /\ p \in Seq(Reply) /\ Tells(d, p, e + n)
             /\ \A i \in 1..Len(p) :
                  (i \in 1..Len(q) /\ p[i] = q[i]) \/ Known(p[i], n, total, first, last)
  <2> DEFINE q1 == Append(q, x)
             q2 == Append(q1, y)
  <2>1. q1 \in Seq(Reply) /\ q1 = q \o <<x>>
        /\ \A i \in 1..Len(q1) : (i \in 1..Len(q) /\ q1[i] = q[i]) \/ q1[i] = x
    BY <1>0, AppendedIs
  <2>2. q2 \in Seq(Reply) /\ q2 = q1 \o <<y>>
        /\ \A i \in 1..Len(q2) : (i \in 1..Len(q1) /\ q2[i] = q1[i]) \/ q2[i] = y
    BY <2>1, AppendedIs
  <2>3. q2 = p
    <3>1. <<x>> \in Seq(Reply) /\ <<y>> \in Seq(Reply)
      OBVIOUS
    <3>2. (q \o <<x>>) \o <<y>> = q \o (<<x>> \o <<y>>)
      BY <3>1, ConcatAssociative
    <3> QED
      BY <1>0, <1>6, <2>1, <2>2, <3>2
  <2>4. e + Told(x) \in Nat /\ (e + Told(x)) + Told(y) = e + n
    <3>1. PICK a \in Nat, b \in Nat : Told(x) = a /\ Told(y) = b
      BY ToldNumber
    <3>2. a + b = n
      BY <1>6, <3>1
    <3>3. e + a \in Nat /\ (e + a) + b = e + n
      BY <1>0, <3>2
    <3> QED
      BY <3>1, <3>3
  <2>5. Tells(d, q1, e + Told(x))
    BY <1>0, TellsMore
  <2>6. Tells(d, q2, e + n)
    <3>1. Tells(d, q2, (e + Told(x)) + Told(y))
      BY <1>0, <2>1, <2>4, <2>5, TellsMore
    <3> QED
      BY <2>4, <3>1
  <2> HIDE DEF q1, q2
  <2>7. \A i \in 1..Len(q2) : (i \in 1..Len(q) /\ q2[i] = q[i]) \/ Known(q2[i], n, total, first, last)
    BY <1>6, <2>1, <2>2
  <2> QED
    BY <2>2, <2>3, <2>6, <2>7
<1>7. CASE program.output = "wave" /\ last
  <2>1. r = <<piece>> \o <<whole>> /\ n + 0 = n
    BY <1>3, <1>7
  <2> QED
    BY <1>1, <1>6, <1>7, <2>1
<1>8. CASE program.output # "wave" /\ n # 0 /\ first
  <2>1. r = <<whole>> \o <<piece>> /\ 0 + n = n
    BY <1>3, <1>8
  <2> QED
    BY <1>1, <1>6, <1>8, <2>1
<1>9. CASE program.output = "wave" /\ ~last
  <2>1. <<piece>> \in Seq(Reply)
    BY <1>1
  <2>2. r = <<piece>>
    BY <1>3, <1>9, <2>1, ConcatEmptySeq
  <2> QED
    BY <1>5, <2>2
<1>10. CASE program.output # "wave" /\ n # 0 /\ ~first
  <2>1. <<piece>> \in Seq(Reply)
    BY <1>1
  <2>2. r = <<piece>>
    BY <1>3, <1>10, <2>1, ConcatEmptySeq
  <2> QED
    BY <1>5, <2>2
<1>11. CASE program.output # "wave" /\ n = 0
  BY <1>3, <1>4, <1>11
<1> QED
  BY <1>7, <1>8, <1>9, <1>10, <1>11

\* A write, the first of a subtask or not.
LEMMA WrittenKeeps ==
  ASSUME Undivided, ClientInv, Working, left > 0 \/ task < Len(Subtasks),
         NEW ahead \in Nat, NEW n \in 0..ahead, NEW first \in BOOLEAN, Written(n, ahead, first),
         task' \in 1..Len(Subtasks), next - 1 + ahead = Sums(Subtasks)[task'],
         UNCHANGED <<program, appl, datad, clientVars>>
  PROVE  ClientInv'
<1>1. status # "done" /\ status \in {"reply", "data"}
      /\ \A i \in 1..Len(ctrl) : ctrl[i].code \notin Final
  BY DEF Working
<1> DEFINE total == Subtasks[task']
           last == n = ahead
<1>2. /\ network' = network \o [i \in 1..n |-> <<appl, next + i - 1>>]
      /\ ctrl' = ctrl \o Reports(n, total, first, last)
      /\ next' = next + n
      /\ left' = ahead - n
      /\ UNCHANGED <<program, appl, datad, rec, size, due, results, status>>
  BY DEF Written, clientVars
<1>3. /\ InAppl /\ program.client \in {"say", "tcpsyn"} /\ appl \in Nat
      /\ Len(Subtasks) \in Nat /\ Sums(Subtasks)[0] = 0 /\ total \in Nat /\ last \in BOOLEAN
      /\ \A i \in 1..Len(Subtasks) : Subtasks[i] \in Nat /\ Sums(Subtasks)[i] = Sums(Subtasks)[i - 1] + Subtasks[i]
      /\ program.client = "tcpsyn" => Len(Subtasks) <= 1 /\ program.output = "wave"
  BY <1>1, ApplIs
<1>4. ApplTypes /\ Conveyed /\ Tells(due, ctrl, next - 1) /\ Ended /\ Accounted /\ SayWaits /\ TcpsynWaits
      /\ Len(results) = appl - 1
  BY <1>3 DEF InAppl
<1>5. task \in 0..Len(Subtasks) /\ next \in Nat \ {0} /\ left \in Nat /\ ctrl \in Seq(Reply) /\ due \in Nat
      /\ network \in Seq(Byte) /\ datad \in Seq(Byte) /\ size \in Nat
  BY <1>4 DEF ApplTypes
<1>6. n \in Nat /\ left' \in Nat /\ next' \in Nat \ {0} /\ next' - 1 = (next - 1) + n
      /\ next' - 1 + left' = next - 1 + ahead /\ next - 1 \in Nat
  BY <1>2, <1>5
<1> HIDE DEF total, last
<1>7. /\ ctrl' \in Seq(Reply) /\ Tells(due, ctrl', (next - 1) + n)
      /\ \A i \in 1..Len(ctrl') : (i \in 1..Len(ctrl) /\ ctrl'[i] = ctrl[i]) \/ Known(ctrl'[i], n, total, first, last)
  <2>1. Subtasks[task'] \in Nat /\ due \in Nat /\ next - 1 \in Nat /\ ctrl \in Seq(Reply) /\ Tells(due, ctrl, next - 1)
    BY <1>3, <1>4, <1>5, <1>6 DEF total
  <2> QED
    BY <2>1, ReportsTell DEF total, last
<1>8. \A i \in 1..Len(ctrl') : ctrl'[i].code \notin Final
  BY <1>1, <1>7 DEF Known, Message, Final, Errors
<1>9. Subtasks' = Subtasks
  BY <1>2 DEF Subtasks
<1>10. network' \in Seq(Byte) /\ Len(network') = Len(network) + n /\ InOrder(appl, network', size + Len(datad))
  <2>1. size + Len(datad) \in Nat /\ Len(datad) \in Nat /\ Len(network) \in Nat
    BY <1>5
  <2>2. InOrder(appl, network, size + Len(datad)) /\ size + Len(datad) + Len(network) = next - 1
    BY <1>4 DEF Conveyed
  <2>3. next = size + Len(datad) + Len(network) + 1
    BY <1>5, <2>1, <2>2
  <2>4. network' = network \o Numbered(appl, next, n)
    BY <1>2 DEF Numbered
  <2>5. PICK b \in Nat : b = size + Len(datad)
    BY <2>1
  <2>6. InOrder(appl, network, b) /\ next = b + Len(network) + 1 /\ next \in Nat
    BY <1>5, <2>2, <2>3, <2>5
  <2>7. /\ network \o Numbered(appl, next, n) \in Seq(Byte)
        /\ Len(network \o Numbered(appl, next, n)) = Len(network) + n
        /\ InOrder(appl, network \o Numbered(appl, next, n), b)
    <3>1. appl \in Nat /\ b \in Nat /\ network \in Seq(Byte) /\ n \in Nat /\ next \in Nat
      BY <1>3, <1>5, <1>6, <2>5
    <3> QED
      BY <2>6, <3>1, InOrderMore
  <2> QED
    BY <2>4, <2>5, <2>7
<1>11. ApplTypes'
  <2>1. task' \in 0..Len(Subtasks')
    BY <1>3, <1>9
  <2> QED
    BY <1>2, <1>4, <1>6, <1>7, <1>9, <1>10, <2>1 DEF ApplTypes
<1>12. Conveyed'
  <2>1. size + Len(datad) + Len(network') = next' - 1
    <3>1. size + Len(datad) + Len(network) = next - 1 /\ Len(datad) \in Nat /\ Len(network) \in Nat
      <4>1. size + Len(datad) + Len(network) = next - 1
        BY <1>4 DEF Conveyed
      <4>2. Len(datad) \in Nat /\ Len(network) \in Nat
        BY <1>5
      <4> QED
        BY <4>1, <4>2
    <3>2. Len(network') = Len(network) + n
      BY <1>10
    <3>3. PICK a \in Nat, b \in Nat : a = Len(datad) /\ b = Len(network)
      BY <3>1
    <3>4. size + a + b = next - 1 /\ Len(network') = b + n
      BY <3>1, <3>2, <3>3
    <3>5. size \in Nat /\ next \in Nat /\ n \in Nat
      BY <1>5, <1>6
    <3>6. size + a + (b + n) = (next - 1) + n
      BY <3>4, <3>5
    <3> QED
      BY <1>6, <3>3, <3>4, <3>6
  <2>2. InOrder(appl, datad, size)' = InOrder(appl, datad, size)
    BY <1>2 DEF InOrder
  <2>3. InOrder(appl, network, size + Len(datad))'
    BY <1>2, <1>10 DEF InOrder
  <2> QED
    BY <1>2, <1>4, <2>1, <2>2, <2>3 DEF Conveyed
<1>13. Tells(due, ctrl, next - 1)'
  BY <1>2, <1>6, <1>7
<1>14. Ended'
  BY <1>8 DEF Ended
<1>15. Accounted'
  BY <1>2, <1>6, <1>9 DEF Accounted
<1>16. SayWaits'
  BY <1>2, <1>4 DEF SayWaits
<1>17. TcpsynWaits'
  <2> SUFFICES ASSUME program.client = "tcpsyn" PROVE TcpsynWaits'
    BY <1>2 DEF TcpsynWaits
  <2>1. Len(Subtasks) = 1 /\ task' = 1 /\ program.output = "wave"
    <3>1. Len(Subtasks) \in Nat /\ Len(Subtasks) <= 1 /\ program.output = "wave"
      BY <1>3
    <3>2. PICK m \in Nat : m = Len(Subtasks)
      BY <3>1
    <3>3. m <= 1 /\ task' \in 1..m
      BY <3>1, <3>2
    <3>4. m = 1 /\ task' = 1
      BY <3>3
    <3> QED
      BY <3>1, <3>2, <3>4
  <2>2. Sums(Subtasks)[1] = total
    BY <1>3, <2>1 DEF total
  <2>3. \A i \in 1..Len(ctrl) : ctrl[i].code # "122"
    BY <1>4, <1>5 DEF TcpsynWaits
  <2>4. ASSUME NEW i \in 1..Len(ctrl'), ctrl'[i].code = "122"
        PROVE  ctrl'[i].n = next' - 1 /\ left' = 0 /\ task' = Len(Subtasks')
    <3>1. Known(ctrl'[i], n, total, first, last)
      BY <1>7, <2>3, <2>4
    <3>2. ctrl'[i].n = total /\ last
      BY <2>1, <2>4, <3>1 DEF Known, Message
    <3>3. n = ahead /\ left' = 0
      BY <1>2, <1>6, <3>2 DEF last
    <3>4. next' - 1 = total
      BY <1>5, <1>6, <2>1, <2>2, <3>3
    <3> QED
      BY <1>9, <2>1, <3>2, <3>3, <3>4
  <2> QED
    BY <1>1, <1>2, <2>1, <2>4 DEF TcpsynWaits
<1> QED
  BY <1>2, <1>4, <1>11, <1>12, <1>13, <1>14, <1>15, <1>16, <1>17 DEF ClientInv, InAppl

LEMMA FirstWriteKeeps ==
  ASSUME Undivided, ClientInv, FirstWrite
  PROVE  ClientInv'
<1>1. Working /\ status # "done" /\ left = 0 /\ task < Len(Subtasks) /\ task' = task + 1
      /\ \A i \in 1..Len(ctrl) : ctrl[i].code \notin Final
  BY DEF FirstWrite, Working
<1>2. /\ InAppl /\ Len(Subtasks) \in Nat /\ Sums(Subtasks) \in [0..Len(Subtasks) -> Nat]
      /\ \A i \in 1..Len(Subtasks) : Subtasks[i] \in Nat /\ Sums(Subtasks)[i] = Sums(Subtasks)[i - 1] + Subtasks[i]
  BY <1>1, ApplIs
<1>3. task \in 0..Len(Subtasks) /\ next \in Nat \ {0} /\ Accounted
  BY <1>2 DEF InAppl, ApplTypes
<1>4. task' \in 1..Len(Subtasks) /\ task' - 1 = task /\ Subtasks[task'] \in Nat
  <2>1. task' \in 1..Len(Subtasks) /\ task' - 1 = task
    BY <1>1, <1>2, <1>3
  <2> QED
    BY <1>2, <2>1
<1>5. next - 1 + left = Sums(Subtasks)[task]
  BY <1>1, <1>3 DEF Accounted, Final
<1>6. next - 1 + Subtasks[task'] = Sums(Subtasks)[task']
  <2>1. Sums(Subtasks)[task'] = Sums(Subtasks)[task] + Subtasks[task']
    BY <1>2, <1>4
  <2> QED
    BY <1>1, <1>3, <1>4, <1>5, <2>1
<1>7. PICK n \in 0..Subtasks[task'] : Written(n, Subtasks[task'], TRUE)
  BY DEF FirstWrite
<1>8. UNCHANGED <<program, appl, datad, clientVars>>
  BY DEF FirstWrite
<1> QED
  BY <1>1, <1>4, <1>6, <1>7, <1>8, WrittenKeeps

LEMMA SendKeeps ==
  ASSUME Undivided, ClientInv, Send
  PROVE  ClientInv'
<1>1. Working /\ status # "done" /\ left > 0 /\ task' = task
      /\ \A i \in 1..Len(ctrl) : ctrl[i].code \notin Final
  BY DEF Send, Working
<1>2. InAppl /\ Len(Subtasks) \in Nat /\ Sums(Subtasks)[0] = 0
  BY <1>1, ApplIs
<1>3. task \in 0..Len(Subtasks) /\ next \in Nat \ {0} /\ left \in Nat /\ Accounted
  BY <1>2 DEF InAppl, ApplTypes
<1>4. next - 1 + left = Sums(Subtasks)[task]
  BY <1>1, <1>3 DEF Accounted, Final
<1>5. task' \in 1..Len(Subtasks)
  <2>1. task # 0
    BY <1>1, <1>2, <1>3, <1>4
  <2> QED
    BY <1>1, <1>2, <1>3, <2>1
<1>6. PICK n \in 1..left : Written(n, left, FALSE)
  BY DEF Send
<1>7. n \in 0..left /\ UNCHANGED <<program, appl, datad, clientVars>>
  BY DEF Send
<1> QED
  BY <1>1, <1>3, <1>4, <1>5, <1>6, <1>7, WrittenKeeps

LEMMA AnswerKeeps ==
  ASSUME Undivided, ClientInv, NEW code \in Final, code \in program.replies, Answer(code)
  PROVE  ClientInv'
<1>1. status # "done" /\ status \in {"reply", "data"}
      /\ \A i \in 1..Len(ctrl) : ctrl[i].code \notin Final
  BY DEF Answer, Working
<1> DEFINE told == Message(code, 0)
<1>2. /\ code = "200" => left = 0 /\ task = Len(Subtasks)
      /\ ctrl' = Append(ctrl, told) /\ left' = 0
      /\ UNCHANGED <<program, appl, task, next, network, datad, rec, size, due, results, status>>
  BY DEF Answer, clientVars
<1>3. InAppl
  BY <1>1, ApplIs
<1>4. ApplTypes /\ Conveyed /\ Tells(due, ctrl, next - 1) /\ Ended /\ Accounted /\ SayWaits /\ TcpsynWaits
      /\ Len(results) = appl - 1
  BY <1>3 DEF InAppl
<1>5. next \in Nat \ {0} /\ ctrl \in Seq(Reply) /\ due \in Nat
  BY <1>4 DEF ApplTypes
<1>6. told \in Reply /\ Told(told) = 0 /\ told.code = code /\ code # "122" /\ code # "123"
  BY DEF Message, Reply, Told, Final, Errors
<1> HIDE DEF told
<1>7. /\ ctrl' \in Seq(Reply) /\ Len(ctrl) \in Nat /\ Len(ctrl') = Len(ctrl) + 1
      /\ ctrl'[Len(ctrl) + 1] = told /\ \A i \in 1..Len(ctrl) : ctrl'[i] = ctrl[i]
  BY <1>2, <1>5, <1>6
<1>8. Subtasks' = Subtasks
  BY <1>2 DEF Subtasks
<1>9. ApplTypes'
  BY <1>2, <1>4, <1>7, <1>8 DEF ApplTypes
<1>10. Conveyed'
  BY <1>2, <1>4 DEF Conveyed, InOrder
<1>11. Tells(due, ctrl, next - 1)'
  <2>1. next - 1 \in Nat /\ (next - 1) + 0 = next - 1
    BY <1>5
  <2>2. Tells(due, Append(ctrl, told), (next - 1) + Told(told))
    BY <1>4, <1>5, <1>6, <2>1, TellsMore
  <2>3. Tells(due, ctrl', next - 1)
    BY <1>2, <1>6, <2>1, <2>2
  <2> QED
    BY <1>2, <2>3
<1>12. \A i \in 1..Len(ctrl') : (i \in 1..Len(ctrl) /\ ctrl'[i] = ctrl[i]) \/ (i = Len(ctrl) + 1 /\ ctrl'[i].code = code)
  <2> SUFFICES ASSUME NEW i \in 1..Len(ctrl) + 1
               PROVE  (i \in 1..Len(ctrl) /\ ctrl'[i] = ctrl[i]) \/ (i = Len(ctrl) + 1 /\ ctrl'[i].code = code)
    BY <1>7
  <2>1. CASE i = Len(ctrl) + 1
    BY <1>6, <1>7, <2>1
  <2>2. CASE i # Len(ctrl) + 1
    <3>1. i \in 1..Len(ctrl)
      BY <1>7, <2>2
    <3> QED
      BY <1>7, <3>1
  <2> QED
    BY <2>1, <2>2
<1>13. Ended'
  BY <1>1, <1>2, <1>7, <1>8, <1>12 DEF Ended
<1>14. Accounted'
  <2> SUFFICES ASSUME \A i \in 1..Len(ctrl') : ctrl'[i].code \notin Errors
               PROVE  next - 1 + 0 = Sums(Subtasks)[task]
    BY <1>2, <1>8 DEF Accounted
  <2>1. Len(ctrl) + 1 \in 1..Len(ctrl')
    BY <1>7
  <2>2. code = "200"
    BY <1>6, <1>7, <2>1 DEF Final
  <2>3. next - 1 + left = Sums(Subtasks)[task]
    BY <1>1, <1>4 DEF Accounted, Final
  <2> QED
    BY <1>2, <2>2, <2>3
<1>15. SayWaits'
  BY <1>2, <1>4 DEF SayWaits
<1>16. TcpsynWaits'
  <2> SUFFICES ASSUME program.client = "tcpsyn" PROVE TcpsynWaits'
    BY <1>2 DEF TcpsynWaits
  <2>1. \A i \in 1..Len(ctrl') : ctrl'[i].code = "122" =>
          ctrl'[i].n = next' - 1 /\ left' = 0 /\ task' = Len(Subtasks')
    BY <1>2, <1>4, <1>6, <1>8, <1>12 DEF TcpsynWaits
  <2>2. task' = 0 => \A i \in 1..Len(ctrl') : ctrl'[i].code \in Final
    BY <1>2, <1>4, <1>12 DEF TcpsynWaits
  <2> QED
    BY <1>1, <1>2, <2>1, <2>2 DEF TcpsynWaits
<1> QED
  BY <1>2, <1>4, <1>9, <1>10, <1>11, <1>13, <1>14, <1>15, <1>16 DEF ClientInv, InAppl

LEMMA ArriveKeeps ==
  ASSUME Undivided, ClientInv, Arrive
  PROVE  ClientInv'
<1>1. /\ network # <<>> /\ datad' = Append(datad, Head(network)) /\ network' = Tail(network)
      /\ UNCHANGED <<program, appl, task, left, next, ctrl, rec, size, due, results, status>>
  BY DEF Arrive, clientVars, serverVars
<1>2. CASE status = "done"
  BY <1>1, <1>2 DEF ClientInv, ResultOk
<1>3. CASE status # "done"
  <2>1. InAppl /\ appl \in Nat
    BY <1>3, ApplIs
  <2>2. ApplTypes /\ Conveyed /\ Tells(due, ctrl, next - 1) /\ Ended /\ Accounted /\ SayWaits /\ TcpsynWaits
        /\ Len(results) = appl - 1
    BY <2>1 DEF InAppl
  <2>3. network \in Seq(Byte) /\ datad \in Seq(Byte) /\ size \in Nat /\ Len(datad) \in Nat /\ Len(network) \in Nat
        /\ InOrder(appl, datad, size) /\ InOrder(appl, network, size + Len(datad))
    <3>1. network \in Seq(Byte) /\ datad \in Seq(Byte) /\ size \in Nat
      BY <2>2 DEF ApplTypes
    <3>2. Len(datad) \in Nat /\ Len(network) \in Nat
      BY <3>1
    <3> QED
      BY <2>2, <3>1, <3>2 DEF Conveyed
  <2>4. /\ datad' \in Seq(Byte) /\ Len(datad') = Len(datad) + 1
        /\ network' \in Seq(Byte) /\ Len(network') = Len(network) - 1
        /\ InOrder(appl, datad', size) /\ InOrder(appl, network', size + Len(datad'))
    BY <1>1, <2>1, <2>3, InOrderFirst
  <2>5. Subtasks' = Subtasks
    BY <1>1 DEF Subtasks
  <2>6. ApplTypes'
    BY <1>1, <2>2, <2>4, <2>5 DEF ApplTypes
  <2>7. Conveyed'
    <3>1. size + Len(datad') + Len(network') = size + Len(datad) + Len(network)
      BY <2>3, <2>4
    <3>2. InOrder(appl, datad, size)' /\ InOrder(appl, network, size + Len(datad))'
      BY <1>1, <2>4 DEF InOrder
    <3> QED
      BY <1>1, <2>2, <3>1, <3>2 DEF Conveyed
  <2>8. Tells(due, ctrl, next - 1)' /\ Ended' /\ Accounted' /\ SayWaits' /\ TcpsynWaits'
    BY <1>1, <2>2, <2>5 DEF Tells, Counted, Ended, Accounted, SayWaits, TcpsynWaits
  <2> QED
    BY <1>1, <2>2, <2>6, <2>7, <2>8 DEF ClientInv, InAppl
<1> QED
  BY <1>2, <1>3

-----------------------------------------------------------------------------
(* The client.                                                             *)

\* xrealloc() keeps what is there.
LEMMA ResizedIs ==
  ASSUME NEW buf \in Seq(Byte), NEW n \in Nat, NEW k \in Nat, k <= Len(buf), k <= n
  PROVE  /\ Resized(buf, n) \in Seq(Byte) /\ Len(Resized(buf, n)) = n
         /\ \A i \in 1..k : Resized(buf, n)[i] = buf[i]
<1> DEFINE b == Resized(buf, n)
<1>1. Garbage \in Byte /\ Len(buf) \in Nat /\ \A i \in 1..Len(buf) : buf[i] \in Byte
  BY ElementOfSeq DEF Garbage, Byte
<1>2. \A i \in 1..n : i <= Len(buf) => i \in 1..Len(buf)
  BY <1>1
<1>3. b \in [1..n -> Byte] /\ \A i \in 1..n : b[i] = IF i <= Len(buf) THEN buf[i] ELSE Garbage
  BY <1>1, <1>2 DEF Resized
<1> HIDE DEF b
<1>4. b \in Seq(Byte) /\ Len(b) = n
  BY <1>3
<1>5. \A i \in 1..k : i \in 1..n /\ i <= Len(buf)
  BY <1>1
<1> QED
  BY <1>3, <1>4, <1>5 DEF b

\* A reply that is not the final one has been read.
LEMMA ReplyRead ==
  ASSUME ApplTypes, Tells(due, ctrl, next - 1), Ended, Accounted,
         ctrl # <<>>, Head(ctrl).code \in {"122", "123"},
         ctrl' = Tail(ctrl), UNCHANGED <<program, appl, task, left, next>>
  PROVE  /\ ctrl' \in Seq(Reply) /\ Head(ctrl) \in Reply /\ Head(ctrl) = ctrl[1] /\ 1 \in 1..Len(ctrl)
         /\ \A i \in 1..Len(ctrl') : ctrl'[i] = ctrl[i + 1] /\ i + 1 \in 1..Len(ctrl) /\ i + 1 # 1
         /\ Tells(due + Told(Head(ctrl)), ctrl', next - 1)
         /\ Ended' /\ Accounted'
<1>1. ctrl \in Seq(Reply) /\ due \in Nat /\ next \in Nat \ {0}
  BY DEF ApplTypes
<1>2. Len(ctrl) \in Nat /\ Len(ctrl) > 0
  <2>1. Len(ctrl) # 0
    BY <1>1, EmptySeq
  <2> QED
    BY <1>1, <2>1
<1>3. Head(ctrl) = ctrl[1] /\ 1 \in 1..Len(ctrl) /\ Head(ctrl) \in Reply
  <2>1. Head(ctrl) = ctrl[1] /\ 1 \in 1..Len(ctrl)
    BY <1>1, <1>2
  <2> QED
    BY <1>1, <2>1, ElementOfSeq
<1>4. ctrl' \in Seq(Reply) /\ Len(ctrl') = Len(ctrl) - 1
      /\ \A i \in 1..Len(ctrl) - 1 : ctrl'[i] = ctrl[i + 1]
  BY <1>1, <1>2
<1>5. \A i \in 1..Len(ctrl') : ctrl'[i] = ctrl[i + 1] /\ i + 1 \in 1..Len(ctrl) /\ i + 1 # 1
  BY <1>2, <1>4
<1>6. Tells(due + Told(Head(ctrl)), ctrl', next - 1)
  <2>1. next - 1 \in Nat
    BY <1>1
  <2> QED
    BY <1>1, <2>1, TellsLess
<1>7. Subtasks' = Subtasks
  BY DEF Subtasks
<1>8. Ended'
  <2> SUFFICES ASSUME NEW i \in 1..Len(ctrl'), ctrl'[i].code \in Final
               PROVE  /\ i = Len(ctrl') /\ left = 0 /\ ctrl'[i].code \in program.replies
                      /\ ctrl'[i].code = "200" => task = Len(Subtasks)
    BY <1>7 DEF Ended
  <2>1. ctrl'[i] = ctrl[i + 1] /\ i + 1 \in 1..Len(ctrl)
    BY <1>5
  <2>2. i + 1 = Len(ctrl) /\ left = 0 /\ ctrl[i + 1].code \in program.replies
        /\ (ctrl[i + 1].code = "200" => task = Len(Subtasks))
    BY <2>1 DEF Ended
  <2>3. i = Len(ctrl')
    <3>1. i + 1 = Len(ctrl)
      BY <2>2
    <3>2. Len(ctrl') = Len(ctrl) - 1
      BY <1>4
    <3>3. Len(ctrl) \in Nat
      BY <1>2
    <3>4. i \in Nat
      BY <3>2, <3>3
    <3> QED
      BY <3>1, <3>2, <3>3, <3>4
  <2> QED
    BY <2>1, <2>2, <2>3
<1>9. Accounted'
  <2> SUFFICES ASSUME \A i \in 1..Len(ctrl') : ctrl'[i].code \notin Errors
               PROVE  next - 1 + left = Sums(Subtasks)[task]
    BY <1>7 DEF Accounted
  <2>1. \A i \in 1..Len(ctrl) : ctrl[i].code \notin Errors
    <3> SUFFICES ASSUME NEW i \in 1..Len(ctrl) PROVE ctrl[i].code \notin Errors
      OBVIOUS
    <3>1. CASE i = 1
      BY <1>3, <3>1 DEF Errors
    <3>2. CASE i # 1
      <4>1. i - 1 \in 1..Len(ctrl') /\ (i - 1) + 1 = i
        BY <1>2, <1>4, <3>2
      <4>2. ctrl'[i - 1] = ctrl[(i - 1) + 1]
        BY <1>5, <4>1
      <4> QED
        BY <4>1, <4>2
    <3> QED
      BY <3>1, <3>2
  <2> QED
    BY <2>1 DEF Accounted
<1> QED
  BY <1>3, <1>4, <1>5, <1>6, <1>8, <1>9

\* The final reply has been read.
LEMMA FinalRead ==
  ASSUME Undivided, ClientInv, status # "done",
         ctrl # <<>>, Head(ctrl).code \in Final
  PROVE  /\ Tail(ctrl) = <<>> /\ left = 0 /\ Head(ctrl).code \in program.replies
         /\ Head(ctrl).code = "200" =>
              /\ due = next - 1 /\ next - 1 = Total(Subtasks) /\ task = Len(Subtasks)
              /\ next - 1 + left = Sums(Subtasks)[task]
<1>1. InAppl /\ ctrl \in Seq(Reply) /\ due \in Nat /\ next \in Nat \ {0}
  BY ApplIs DEF InAppl, ApplTypes
<1>2. Tells(due, ctrl, next - 1) /\ Ended /\ Accounted
  BY <1>1 DEF InAppl
<1>3. Len(ctrl) \in Nat /\ Head(ctrl) = ctrl[1] /\ 1 \in 1..Len(ctrl)
  <2>1. Len(ctrl) # 0
    BY <1>1, EmptySeq
  <2> QED
    BY <1>1, <2>1
<1>4. /\ Len(ctrl) = 1 /\ left = 0 /\ ctrl[1].code \in program.replies
      /\ ctrl[1].code = "200" => task = Len(Subtasks)
  BY <1>2, <1>3 DEF Ended
<1>5. Tail(ctrl) = <<>>
  <2>1. Tail(ctrl) \in Seq(Reply) /\ Len(Tail(ctrl)) = 0
    BY <1>1, <1>4
  <2> QED
    BY <2>1, EmptySeq
<1>6. ASSUME ctrl[1].code = "200"
      PROVE  due = next - 1 /\ next - 1 = Total(Subtasks) /\ task = Len(Subtasks) /\ next - 1 + left = Sums(Subtasks)[task]
  <2>1. next - 1 \in Nat
    BY <1>1
  <2>2. Tells(due + Told(Head(ctrl)), Tail(ctrl), next - 1)
    BY <1>1, <1>2, <2>1, TellsLess
  <2>3. due + Told(Head(ctrl)) = due
    <3>1. Told(Head(ctrl)) = 0
      BY <1>3, <1>6 DEF Told
    <3> QED
      BY <1>1, <3>1
  <2>4. Tells(due, <<>>, next - 1)
    BY <1>5, <2>2, <2>3
  <2>5. due = next - 1
    <3>1. <<>> \in Seq(Reply)
      OBVIOUS
    <3> QED
      BY <1>1, <2>1, <2>4, <3>1, TellsBound
  <2>6. \A i \in 1..Len(ctrl) : ctrl[i].code \notin Errors
    BY <1>4, <1>6 DEF Errors
  <2>7. next - 1 + left = Sums(Subtasks)[task]
    BY <1>2, <2>6 DEF Accounted
  <2> QED
    BY <1>1, <1>4, <1>6, <2>5, <2>7 DEF Total
<1> QED
  BY <1>3, <1>4, <1>5, <1>6

\* All that was sent has been read.
LEMMA GotIs ==
  ASSUME Undivided, ClientInv, status # "done", size = Total(Subtasks)
  PROVE  Got(size) \in [ok : BOOLEAN, data : Seq(Byte)] /\ ResultOk(program, appl, Got(size))
<1>1. InAppl /\ rec \in Seq(Byte) /\ size \in Nat /\ due \in Nat
  BY ApplIs DEF InAppl, ApplTypes
<1>2. size <= due /\ due <= Len(rec) /\ \A i \in 1..size : rec[i] = <<appl, i>>
  BY <1>1 DEF InAppl, Conveyed
<1>3. Len(rec) \in Nat /\ \A i \in 1..size : i \in 1..Len(rec) /\ rec[i] \in Byte
  BY <1>1, <1>2, ElementOfSeq
<1> DEFINE q == SubSeq(rec, 1, size)
<1>4. q \in Seq(Byte) /\ Len(q) = (IF 1 <= size THEN size - 1 + 1 ELSE 0)
      /\ \A i \in 1..size - 1 + 1 : q[i] = rec[1 + i - 1]
  BY <1>1, <1>3, SubSeqProperties
<1> HIDE DEF q
<1>5. Len(q) = size /\ \A i \in 1..size : q[i] = <<appl, i>>
  <2>1. size - 1 + 1 = size /\ Len(q) = size
    BY <1>1, <1>4
  <2>2. ASSUME NEW i \in 1..size PROVE q[i] = <<appl, i>>
    <3>1. i \in 1..size - 1 + 1 /\ 1 + i - 1 = i
      BY <2>1
    <3> QED
      BY <1>2, <1>4, <3>1
  <2> QED
    BY <2>1, <2>2
<1>6. q = [i \in 1..size |-> <<appl, i>>]
  <2>1. DOMAIN q = 1..size /\ q = [i \in DOMAIN q |-> q[i]]
    BY <1>4, <1>5
  <2> QED
    BY <1>5, <2>1
<1>7. Got(size) = [ok |-> TRUE, data |-> q]
  BY DEF Got, q
<1> QED
  BY <1>4, <1>6, <1>7 DEF ResultOk, Subtasks

LEMMA ConcludeKeeps ==
  ASSUME Undivided, ClientInv, status # "done",
         NEW result \in [ok : BOOLEAN, data : Seq(Byte)], ResultOk(program, appl, result),
         NEW again \in BOOLEAN, Conclude(result, again),
         UNCHANGED <<program, left, network, datad>>,
         again /\ appl < Len(program.tasks) => ctrl' = <<>> /\ network = <<>> /\ datad = <<>> /\ left = 0
  PROVE  ClientInv'
<1>1. /\ InAppl /\ program \in Programs /\ appl \in Nat /\ appl \in 1..Len(program.tasks)
  BY ApplIs
<1>2. results \in Seq([ok : BOOLEAN, data : Seq(Byte)]) /\ Len(results) = appl - 1
      /\ \A k \in 1..Len(results) : ResultOk(program, k, results[k])
  BY <1>1 DEF ClientInv, InAppl
<1>3. /\ results' \in Seq([ok : BOOLEAN, data : Seq(Byte)]) /\ Len(results') = appl
      /\ results'[appl] = result /\ \A k \in 1..appl - 1 : results'[k] = results[k]
  <2>1. results' = Append(results, result)
    BY DEF Conclude
  <2> QED
    BY <1>1, <1>2, <2>1
<1>4. ASSUME NEW k \in 1..Len(results') PROVE ResultOk(program, k, results[k])'
  <2>1. CASE k = appl
    BY <1>3, <2>1 DEF ResultOk
  <2>2. CASE k # appl
    <3>1. k \in 1..appl - 1
      BY <1>1, <1>3, <2>2
    <3>2. ResultOk(program, k, results[k]) /\ results'[k] = results[k]
      BY <1>2, <1>3, <3>1
    <3> QED
      BY <3>2 DEF ResultOk
  <2> QED
    BY <2>1, <2>2
<1>5. CASE again /\ appl < Len(program.tasks)
  <2>1. /\ appl' = appl + 1 /\ task' = 0 /\ next' = 1 /\ rec' = <<>> /\ size' = 0 /\ due' = 0 /\ status' = "reply"
        /\ ctrl' = <<>> /\ network' = <<>> /\ datad' = <<>> /\ left' = 0 /\ program' = program
    BY <1>5 DEF Conclude
  <2>2. program.tasks \in Seq(Seq(Nat)) /\ Len(program.tasks) \in Nat
    BY <1>1, ClientAssumption
  <2>3. appl + 1 \in 1..Len(program.tasks) /\ appl + 1 \in DOMAIN program.tasks
    BY <1>1, <1>5, <2>2
  <2>4. Subtasks' \in Seq(Nat)
    <3>1. program.tasks[appl + 1] \in Seq(Nat)
      BY <2>2, <2>3, ElementOfSeq
    <3> QED
      BY <2>1, <3>1 DEF Subtasks
  <2>5. Len(Subtasks') \in Nat /\ Sums(Subtasks')[0] = 0
    <3>1. Len(Subtasks') \in Nat
      BY <2>4
    <3> QED
      BY <2>4, <3>1, SumsAre
  <2>6. Len(<<>>) = 0 /\ <<>> \in Seq(Reply) /\ <<>> \in Seq(Byte)
    OBVIOUS
  <2>7. ApplTypes'
    BY <2>1, <2>3, <2>5, <2>6 DEF ApplTypes
  <2>8. Conveyed'
    BY <2>1, <2>6 DEF Conveyed, InOrder
  <2>9. Tells(due, ctrl, next - 1)'
    <3>1. Tells(0, <<>>, 0) /\ 1 - 1 = 0
      BY TellsNothing
    <3>2. Tells(due', ctrl', next' - 1)
      BY <2>1, <3>1
    <3> QED
      BY <3>2
  <2>10. \A i \in 1..Len(ctrl') : FALSE
    BY <2>1, <2>6
  <2>11. Accounted'
    BY <2>1, <2>5 DEF Accounted
  <2>12. Ended' /\ SayWaits' /\ TcpsynWaits'
    BY <2>1, <2>10 DEF Ended, SayWaits, TcpsynWaits
  <2>13. Len(results') = appl' - 1
    BY <1>1, <1>3, <2>1
  <2> QED
    BY <1>1, <1>3, <1>4, <2>1, <2>7, <2>8, <2>9, <2>11, <2>12, <2>13 DEF ClientInv, InAppl
<1>6. CASE ~(again /\ appl < Len(program.tasks))
  <2>1. status' = "done"
    BY <1>6 DEF Conclude
  <2> QED
    BY <1>1, <1>3, <1>4, <2>1 DEF ClientInv
<1> QED
  BY <1>5, <1>6

LEMMA NothingOk ==
  /\ Nothing \in [ok : BOOLEAN, data : Seq(Byte)]
  /\ ResultOk(program, appl, Nothing)
<1>1. <<>> \in Seq(Byte)
  OBVIOUS
<1> QED
  BY <1>1 DEF Nothing, ResultOk

\* When what is due has come and nothing more was sent, nothing is on its way.
LEMMA AllCame ==
  ASSUME ApplTypes, Conveyed, size = due, due = next - 1
  PROVE  network = <<>> /\ datad = <<>>
<1>1. size \in Nat /\ network \in Seq(Byte) /\ datad \in Seq(Byte) /\ size + Len(datad) + Len(network) = size
  BY DEF ApplTypes, Conveyed
<1>2. Len(datad) \in Nat /\ Len(network) \in Nat
  BY <1>1
<1>3. Len(datad) = 0 /\ Len(network) = 0
  BY <1>1, <1>2
<1> QED
  BY <1>1, <1>3, EmptySeq

LEMMA SayReplyKeeps ==
  ASSUME Undivided, ClientInv, status = "reply", ctrl # <<>>, program.client = "say",
         SayReply(Head(ctrl)), ctrl' = Tail(ctrl), UNCHANGED <<program, left, network, datad>>
  PROVE  ClientInv'
<1> DEFINE reply == Head(ctrl)
<1>1. InAppl /\ ApplTypes /\ Conveyed /\ Tells(due, ctrl, next - 1) /\ Ended /\ Accounted
      /\ Len(results) = appl - 1 /\ size = due
  BY ApplIs DEF InAppl, SayWaits
<1>2. size \in Nat /\ due \in Nat /\ rec \in Seq(Byte) /\ next \in Nat \ {0} /\ reply \in Reply /\ due <= Len(rec)
  <2>1. ctrl \in Seq(Reply) /\ 1 \in 1..Len(ctrl) /\ Head(ctrl) = ctrl[1]
    <3>1. ctrl \in Seq(Reply)
      BY <1>1 DEF ApplTypes
    <3>2. Len(ctrl) # 0
      BY <3>1, EmptySeq
    <3> QED
      BY <3>1, <3>2
  <2>2. reply \in Reply
    BY <2>1, ElementOfSeq
  <2> QED
    BY <1>1, <2>2 DEF ApplTypes, Conveyed
<1>3. CASE reply.code = "122"
  <2>1. UNCHANGED <<appl, task, next, rec, size, due, results, status>>
    BY <1>3 DEF SayReply, clientVars, Errors
  <2>2. /\ ctrl' \in Seq(Reply) /\ Tells(due + Told(reply), ctrl', next - 1) /\ Ended' /\ Accounted'
    BY <1>1, <1>3, <2>1, ReplyRead
  <2>3. due + Told(reply) = due
    BY <1>2, <1>3 DEF Told
  <2>4. Tells(due, ctrl, next - 1)'
    BY <2>1, <2>2, <2>3
  <2>5. Subtasks' = Subtasks
    BY <2>1 DEF Subtasks
  <2>6. ApplTypes' /\ Conveyed'
    BY <1>1, <2>1, <2>2, <2>5 DEF ApplTypes, Conveyed, InOrder
  <2>7. SayWaits' /\ TcpsynWaits'
    BY <1>1, <2>1 DEF SayWaits, TcpsynWaits
  <2> QED
    BY <1>1, <2>1, <2>2, <2>4, <2>6, <2>7 DEF ClientInv, InAppl, ResultOk
<1>4. CASE reply.code = "123"
  <2>1. /\ rec' = Resized(rec, size + reply.n) /\ due' = size + reply.n /\ status' = Awaiting
        /\ UNCHANGED <<appl, task, next, size, results>>
    BY <1>4 DEF SayReply, Errors
  <2>2. /\ ctrl' \in Seq(Reply) /\ Tells(due + Told(reply), ctrl', next - 1) /\ Ended' /\ Accounted'
    BY <1>1, <1>4, <2>1, ReplyRead
  <2>3. reply.n \in Nat /\ Told(reply) = reply.n /\ due' \in Nat /\ due' = due + Told(reply) /\ size <= due'
    BY <1>1, <1>2, <1>4, <2>1 DEF Told, Reply
  <2>4. Tells(due, ctrl, next - 1)'
    BY <2>1, <2>2, <2>3
  <2>5. rec' \in Seq(Byte) /\ Len(rec') = due' /\ \A i \in 1..size : rec'[i] = rec[i]
    <3>1. rec \in Seq(Byte) /\ due' \in Nat /\ size \in Nat /\ size <= Len(rec) /\ size <= due' /\ rec' = Resized(rec, due')
      BY <1>1, <1>2, <2>1, <2>3
    <3> QED
      BY <3>1, ResizedIs
  <2>6. Subtasks' = Subtasks
    BY <2>1 DEF Subtasks
  <2>7. ApplTypes'
    BY <1>1, <2>1, <2>2, <2>3, <2>5, <2>6 DEF ApplTypes, Awaiting
  <2>8. Conveyed'
    BY <1>1, <2>1, <2>3, <2>5 DEF Conveyed, InOrder
  <2>9. SayWaits' /\ TcpsynWaits'
    <3>1. status' \in {"data", "reply"} /\ (status' = "reply" => size = due')
      BY <1>2, <2>1, <2>3 DEF Awaiting
    <3> QED
      BY <2>1, <3>1 DEF SayWaits, TcpsynWaits
  <2> QED
    BY <1>1, <2>1, <2>2, <2>4, <2>7, <2>8, <2>9 DEF ClientInv, InAppl, ResultOk
<1>5. CASE reply.code = "200"
  <2>1. Conclude(IF size = 0 THEN Nothing ELSE Got(size), TRUE)
    BY <1>5 DEF SayReply, Errors
  <2>2. Tail(ctrl) = <<>> /\ left = 0 /\ due = next - 1 /\ next - 1 = Total(Subtasks)
    BY <1>5, FinalRead DEF Final
  <2>3. PICK result : result = IF size = 0 THEN Nothing ELSE Got(size)
    OBVIOUS
  <2>4. result \in [ok : BOOLEAN, data : Seq(Byte)] /\ ResultOk(program, appl, result)
    BY <1>1, <2>2, <2>3, GotIs, NothingOk
  <2>5. network = <<>> /\ datad = <<>>
    BY <1>1, <2>2, AllCame
  <2> QED
    BY <2>1, <2>2, <2>3, <2>4, <2>5, ConcludeKeeps
<1>6. CASE reply.code \in Errors
  <2>1. Conclude(Nothing, FALSE)
    BY <1>6 DEF SayReply, Errors
  <2> QED
    BY <2>1, NothingOk, ConcludeKeeps
<1> QED
  BY <1>2, <1>3, <1>4, <1>5, <1>6 DEF Reply, Final

LEMMA TcpsynReplyKeeps ==
  ASSUME Undivided, ClientInv, status = "reply", ctrl # <<>>, program.client = "tcpsyn",
         TcpsynReply(Head(ctrl)), ctrl' = Tail(ctrl), UNCHANGED <<program, left, network, datad>>
  PROVE  ClientInv'
<1> DEFINE reply == Head(ctrl)
<1>1. InAppl /\ ApplTypes /\ Conveyed /\ Tells(due, ctrl, next - 1) /\ Ended /\ Accounted /\ TcpsynWaits
      /\ Len(results) = appl - 1
  BY ApplIs DEF InAppl
<1>2. /\ size \in Nat /\ due \in Nat /\ rec \in Seq(Byte) /\ next \in Nat \ {0} /\ reply \in Reply
      /\ size <= due /\ due <= Len(rec) /\ Len(rec) \in Nat /\ reply = ctrl[1] /\ 1 \in 1..Len(ctrl)
  <2>1. ctrl \in Seq(Reply) /\ 1 \in 1..Len(ctrl) /\ Head(ctrl) = ctrl[1]
    <3>1. ctrl \in Seq(Reply)
      BY <1>1 DEF ApplTypes
    <3>2. Len(ctrl) # 0
      BY <3>1, EmptySeq
    <3> QED
      BY <3>1, <3>2
  <2>2. reply \in Reply
    BY <2>1, ElementOfSeq
  <2> QED
    BY <1>1, <2>1, <2>2 DEF ApplTypes, Conveyed
<1>3. ASSUME reply.code \in {"122", "123"}, UNCHANGED <<appl, task, next, size, results>>,
             due' = due + Told(reply), status' \in {"reply", "data"},
             rec' \in Seq(Byte), Len(rec') \in Nat, due' <= Len(rec'), \A i \in 1..size : rec'[i] = rec[i]
      PROVE  ClientInv'
  <2>1. /\ ctrl' \in Seq(Reply) /\ Tells(due + Told(reply), ctrl', next - 1) /\ Ended' /\ Accounted'
        /\ \A i \in 1..Len(ctrl') : ctrl'[i] = ctrl[i + 1] /\ i + 1 \in 1..Len(ctrl) /\ i + 1 # 1
    BY <1>1, <1>3, ReplyRead
  <2>2. Told(reply) \in Nat
    BY <1>2, ToldNumber
  <2>3. due' \in Nat /\ size <= due'
    BY <1>2, <1>3, <2>2
  <2>4. Tells(due, ctrl, next - 1)'
    BY <1>3, <2>1
  <2>5. Subtasks' = Subtasks
    BY <1>3 DEF Subtasks
  <2>6. ApplTypes'
    BY <1>1, <1>3, <2>1, <2>3, <2>5 DEF ApplTypes
  <2>7. Conveyed'
    BY <1>1, <1>3, <2>3 DEF Conveyed, InOrder
  <2>8. SayWaits'
    BY DEF SayWaits
  <2>9. TcpsynWaits'
    <3>1. \A i \in 1..Len(ctrl') : ctrl'[i].code = "122" =>
            ctrl'[i].n = next' - 1 /\ left' = 0 /\ task' = Len(Subtasks')
      BY <1>1, <1>3, <2>1, <2>5 DEF TcpsynWaits
    <3>2. task = 0 => \A i \in 1..Len(ctrl') : ctrl'[i].code \in Final
      BY <1>1, <2>1 DEF TcpsynWaits
    <3> QED
      BY <1>3, <3>1, <3>2 DEF TcpsynWaits
  <2> QED
    BY <1>1, <1>3, <2>1, <2>4, <2>6, <2>7, <2>8, <2>9 DEF ClientInv, InAppl, ResultOk
<1>4. CASE reply.code = "122"
  <2>1. rec' = Resized(rec, reply.n) /\ UNCHANGED <<appl, task, next, size, due, results, status>>
    BY <1>4 DEF TcpsynReply, Errors
  <2>2. reply.n = next - 1 /\ next - 1 \in Nat /\ due <= next - 1
    <3>1. next - 1 \in Nat /\ ctrl \in Seq(Reply)
      BY <1>1, <1>2 DEF ApplTypes
    <3>2. reply.n = next - 1
      BY <1>1, <1>2, <1>4 DEF TcpsynWaits
    <3> QED
      BY <1>1, <1>2, <3>1, <3>2, TellsBound
  <2>3. reply.n \in Nat /\ due' = due + Told(reply) /\ due' = due /\ size <= reply.n /\ size <= Len(rec)
    BY <1>2, <1>4, <2>1, <2>2 DEF Told
  <2>4. rec' \in Seq(Byte) /\ Len(rec') = reply.n /\ \A i \in 1..size : rec'[i] = rec[i]
    BY <1>2, <2>1, <2>3, ResizedIs
  <2>5. Len(rec') \in Nat /\ due' <= Len(rec')
    BY <2>2, <2>3, <2>4
  <2> QED
    BY <1>1, <1>3, <1>4, <2>1, <2>3, <2>4, <2>5
<1>5. CASE reply.code = "123"
  <2>1. due' = due + reply.n /\ rec' = Resized(rec, due + reply.n) /\ status' \in {"reply", "data"}
        /\ UNCHANGED <<appl, task, next, size, results>>
    BY <1>5 DEF TcpsynReply, Errors, Awaiting
  <2>2. reply.n \in Nat /\ Told(reply) = reply.n /\ due + reply.n \in Nat /\ size <= due + reply.n /\ size <= Len(rec)
    BY <1>2, <1>5 DEF Told, Reply
  <2>3. rec' \in Seq(Byte) /\ Len(rec') = due + reply.n /\ \A i \in 1..size : rec'[i] = rec[i]
    <3>1. rec \in Seq(Byte) /\ due' \in Nat /\ size \in Nat /\ size <= Len(rec) /\ size <= due'
          /\ due' = due + reply.n /\ rec' = Resized(rec, due')
      BY <1>2, <2>1, <2>2
    <3>2. rec' \in Seq(Byte) /\ Len(rec') = due' /\ \A i \in 1..size : rec'[i] = rec[i]
      BY <3>1, ResizedIs
    <3> QED
      BY <3>1, <3>2
  <2>4. Len(rec') \in Nat /\ due' <= Len(rec')
    BY <2>1, <2>2, <2>3
  <2> QED
    BY <1>3, <1>5, <2>1, <2>2, <2>3, <2>4
<1>6. CASE reply.code \in {"200", "401"}
  <2>1. Tail(ctrl) = <<>> /\ left = 0 /\ reply.code \in program.replies
    BY <1>6, FinalRead DEF Final, Errors
  <2>2. reply.code = "200"
    BY <1>6, <2>1, ApplIs
  <2>3. due = next - 1 /\ task = Len(Subtasks) /\ next - 1 + left = Sums(Subtasks)[task]
    BY <2>2, FinalRead DEF Final
  <2>4. status' = "rest" /\ UNCHANGED <<appl, task, next, rec, size, due, results>> /\ ctrl' = <<>>
    BY <1>6, <2>1 DEF TcpsynReply, Errors
  <2>5. Subtasks' = Subtasks
    BY <2>4 DEF Subtasks
  <2>6. ctrl' \in Seq(Reply) /\ \A i \in 1..Len(ctrl') : FALSE
    <3>1. <<>> \in Seq(Reply) /\ Len(<<>>) = 0
      OBVIOUS
    <3>2. ctrl' \in Seq(Reply) /\ Len(ctrl') = 0
      BY <2>4, <3>1, Zenon
    <3> QED
      BY <3>2
  <2>7. ApplTypes'
    BY <1>1, <2>4, <2>5, <2>6 DEF ApplTypes
  <2>8. Conveyed'
    BY <1>1, <2>4 DEF Conveyed, InOrder
  <2>9. Tells(due, ctrl, next - 1)'
    <3>1. Tells(due, <<>>, due)
      BY <1>2, TellsNothing
    <3>2. Tells(due', ctrl', next' - 1)
      BY <2>3, <2>4, <3>1
    <3> QED
      BY <3>2
  <2>10. Accounted'
    BY <2>3, <2>4, <2>5 DEF Accounted
  <2>11. Ended' /\ SayWaits' /\ TcpsynWaits'
    BY <2>1, <2>3, <2>4, <2>5, <2>6 DEF Ended, SayWaits, TcpsynWaits
  <2> QED
    BY <1>1, <2>4, <2>7, <2>8, <2>9, <2>10, <2>11 DEF ClientInv, InAppl, ResultOk
<1>7. CASE reply.code = "415"
  <2>1. Conclude(Nothing, TRUE)
    BY <1>7 DEF TcpsynReply, Errors
  <2>2. "415" \in program.replies
    BY <1>7, FinalRead DEF Final, Errors
  <2>3. Len(program.tasks) = 1
    BY <2>2, ApplIs
  <2>4. ~(appl < Len(program.tasks))
    BY <2>3, ApplIs
  <2> QED
    BY <2>1, <2>4, NothingOk, ConcludeKeeps
<1> QED
  BY <1>2, <1>4, <1>5, <1>6, <1>7 DEF Reply, Final, Errors

LEMMA YreadKeeps ==
  ASSUME Undivided, ClientInv, Yread
  PROVE  ClientInv'
<1>1. status \in {"data", "rest"} /\ status # "done" /\ size < due /\ datad # <<>>
      /\ UNCHANGED <<program, appl, task, left, next, ctrl, network, due, results>>
  BY DEF Yread, serverVars
<1>2. PICK n : n = IF Len(datad) < due - size THEN Len(datad) ELSE due - size
  OBVIOUS
<1>3. /\ rec' = [i \in DOMAIN rec |-> IF i \in size + 1..size + n THEN datad[i - size] ELSE rec[i]]
      /\ datad' = SubSeq(datad, n + 1, Len(datad))
      /\ size' = size + n
      /\ status' = IF status = "rest" THEN "rest" ELSE AfterData(size + n)
  BY <1>2 DEF Yread
<1>4. InAppl /\ ApplTypes /\ Conveyed /\ Tells(due, ctrl, next - 1) /\ Ended /\ Accounted /\ SayWaits /\ TcpsynWaits
      /\ Len(results) = appl - 1 /\ program.client \in {"say", "tcpsyn"} /\ appl \in Nat
  BY <1>1, ApplIs DEF InAppl
<1>5. /\ size \in Nat /\ due \in Nat /\ rec \in Seq(Byte) /\ Len(rec) \in Nat /\ due <= Len(rec)
      /\ datad \in Seq(Byte) /\ Len(datad) \in Nat /\ network \in Seq(Byte) /\ Len(network) \in Nat
      /\ \A i \in 1..size : rec[i] = <<appl, i>>
      /\ size + Len(datad) + Len(network) = next - 1
      /\ InOrder(appl, datad, size) /\ InOrder(appl, network, size + Len(datad))
  <2>1. size \in Nat /\ due \in Nat /\ rec \in Seq(Byte) /\ datad \in Seq(Byte) /\ network \in Seq(Byte)
    BY <1>4 DEF ApplTypes
  <2>2. Len(rec) \in Nat /\ Len(datad) \in Nat /\ Len(network) \in Nat
    BY <2>1
  <2> QED
    BY <1>4, <2>1, <2>2 DEF Conveyed
<1>6. n \in 0..Len(datad) /\ size + n <= due /\ n \in Nat
  BY <1>1, <1>2, <1>5
<1>7. /\ datad' \in Seq(Byte) /\ Len(datad') = Len(datad) - n /\ InOrder(appl, datad', size + n)
  BY <1>3, <1>4, <1>5, <1>6, InOrderLess
<1>8. rec' \in Seq(Byte) /\ Len(rec') = Len(rec) /\ \A i \in 1..size + n : rec'[i] = <<appl, i>>
  <2>1. DOMAIN rec = 1..Len(rec) /\ \A i \in 1..Len(rec) : rec[i] \in Byte
    BY <1>5, ElementOfSeq
  <2>2. \A i \in size + 1..size + n : i - size \in 1..Len(datad) /\ datad[i - size] \in Byte /\ datad[i - size] = <<appl, i>>
    <3> SUFFICES ASSUME NEW i \in size + 1..size + n
                 PROVE  i - size \in 1..Len(datad) /\ datad[i - size] \in Byte /\ datad[i - size] = <<appl, i>>
      OBVIOUS
    <3>1. i - size \in 1..Len(datad) /\ size + (i - size) = i
      BY <1>5, <1>6
    <3>2. datad[i - size] = <<appl, size + (i - size)>>
      BY <1>5, <3>1 DEF InOrder
    <3> QED
      BY <1>5, <3>1, <3>2, ElementOfSeq
  <2>3. rec' \in [1..Len(rec) -> Byte]
    BY <1>3, <2>1, <2>2
  <2>4. rec' \in Seq(Byte) /\ Len(rec') = Len(rec)
    <3>1. PICK l \in Nat : l = Len(rec)
      BY <1>5
    <3>2. rec' \in [1..l -> Byte]
      BY <2>3, <3>1
    <3>3. rec' \in Seq(Byte) /\ Len(rec') = l
      BY <3>2
    <3> QED
      BY <3>1, <3>3
  <2>5. ASSUME NEW i \in 1..size + n PROVE rec'[i] = <<appl, i>>
    <3>1. i \in 1..Len(rec)
      BY <1>5, <1>6
    <3>2. CASE i \in size + 1..size + n
      BY <1>3, <2>1, <2>2, <3>1, <3>2
    <3>3. CASE i \notin size + 1..size + n
      <4>1. i \in 1..size
        BY <1>5, <1>6, <3>3
      <4> QED
        BY <1>3, <1>5, <2>1, <3>1, <3>3, <4>1
    <3> QED
      BY <3>2, <3>3
  <2> QED
    BY <2>4, <2>5
<1>9. status' \in {"reply", "data", "rest"}
  BY <1>3 DEF AfterData
<1>10. Subtasks' = Subtasks
  BY <1>1 DEF Subtasks
<1>11. ApplTypes'
  <2>1. size' \in Nat
    BY <1>3, <1>5, <1>6
  <2> QED
    BY <1>1, <1>4, <1>7, <1>8, <1>9, <1>10, <2>1 DEF ApplTypes
<1>12. Conveyed'
  <2>1. size' + Len(datad') = size + Len(datad)
    <3>1. Len(datad) \in Nat /\ Len(datad') = Len(datad) - n /\ size' = size + n
      BY <1>3, <1>5, <1>7
    <3> QED
      BY <1>5, <1>6, <3>1
  <2>2. size' <= due' /\ due' <= Len(rec')
    BY <1>1, <1>3, <1>5, <1>6, <1>8
  <2>3. \A i \in 1..size' : rec'[i] = <<appl', i>>
    BY <1>1, <1>3, <1>8
  <2>4. InOrder(appl', datad', size') /\ InOrder(appl', network', size' + Len(datad'))
    BY <1>1, <1>3, <1>5, <1>7, <2>1
  <2>5. size' + Len(datad') + Len(network') = next' - 1
    BY <1>1, <1>5, <2>1
  <2> QED
    BY <2>2, <2>3, <2>4, <2>5 DEF Conveyed
<1>13. Tells(due, ctrl, next - 1)' /\ Ended' /\ Accounted'
  BY <1>1, <1>4, <1>10 DEF Tells, Counted, Ended, Accounted
<1>14. SayWaits'
  BY <1>1, <1>3, <1>4 DEF SayWaits, AfterData
<1>15. TcpsynWaits'
  <2>1. status' = "rest" => status = "rest"
    BY <1>3 DEF AfterData
  <2> QED
    BY <1>1, <1>4, <1>10, <2>1 DEF TcpsynWaits
<1> QED
  BY <1>1, <1>4, <1>11, <1>12, <1>13, <1>14, <1>15 DEF ClientInv, InAppl, ResultOk

LEMMA TcpsynDoneKeeps ==
  ASSUME Undivided, ClientInv, TcpsynDone
  PROVE  ClientInv'
<1>1. status = "rest" /\ status # "done" /\ size = due /\ Conclude(Got(size), TRUE)
      /\ UNCHANGED <<program, left, ctrl, network, datad>>
  BY DEF TcpsynDone
<1>2. InAppl /\ ApplTypes /\ Conveyed /\ Tells(due, ctrl, next - 1) /\ Accounted /\ SayWaits /\ TcpsynWaits
      /\ program.client \in {"say", "tcpsyn"}
  BY <1>1, ApplIs DEF InAppl
<1>3. ctrl = <<>> /\ left = 0 /\ task = Len(Subtasks)
  BY <1>1, <1>2 DEF SayWaits, TcpsynWaits
<1>4. due \in Nat /\ next \in Nat \ {0} /\ ctrl \in Seq(Reply)
  BY <1>2 DEF ApplTypes
<1>5. due = next - 1
  <2>1. next - 1 \in Nat
    BY <1>4
  <2> QED
    BY <1>2, <1>3, <1>4, <2>1, TellsBound
<1>6. size = Total(Subtasks)
  <2>1. \A i \in 1..Len(ctrl) : ctrl[i].code \notin Errors
    BY <1>3
  <2>2. next - 1 + left = Sums(Subtasks)[task]
    BY <1>2, <2>1 DEF Accounted
  <2> QED
    BY <1>1, <1>3, <1>4, <1>5, <2>2 DEF Total
<1>7. network = <<>> /\ datad = <<>>
  BY <1>1, <1>2, <1>5, AllCame
<1>8. Got(size) \in [ok : BOOLEAN, data : Seq(Byte)] /\ ResultOk(program, appl, Got(size))
  BY <1>1, <1>6, GotIs
<1> QED
  BY <1>1, <1>3, <1>7, <1>8, ConcludeKeeps

-----------------------------------------------------------------------------
LEMMA ClientStart ==
  ASSUME ClientInit
  PROVE  ClientInv
<1>1. /\ program \in Programs
      /\ appl = 1 /\ task = 0 /\ left = 0 /\ next = 1
      /\ ctrl = <<>> /\ network = <<>> /\ datad = <<>>
      /\ rec = <<>> /\ size = 0 /\ due = 0 /\ results = <<>>
      /\ status = "reply"
  BY DEF ClientInit
<1>2. program.tasks \in Seq(Seq(Nat)) /\ Len(program.tasks) \in Nat /\ Len(program.tasks) > 0
  BY <1>1, ClientAssumption
<1>3. 1 \in 1..Len(program.tasks) /\ 1 \in DOMAIN program.tasks
  BY <1>2
<1>4. Subtasks \in Seq(Nat)
  BY <1>1, <1>2, <1>3, ElementOfSeq DEF Subtasks
<1>5. Len(Subtasks) \in Nat /\ Sums(Subtasks)[0] = 0
  <2>1. Len(Subtasks) \in Nat
    BY <1>4
  <2> QED
    BY <1>4, <2>1, SumsAre
<1>6. /\ Len(<<>>) = 0 /\ <<>> \in Seq(Reply) /\ <<>> \in Seq(Byte)
      /\ <<>> \in Seq([ok : BOOLEAN, data : Seq(Byte)])
  OBVIOUS
<1>7. ApplTypes
  BY <1>1, <1>3, <1>5, <1>6 DEF ApplTypes
<1>8. Conveyed
  BY <1>1, <1>6 DEF Conveyed, InOrder
<1>9. Tells(due, ctrl, next - 1)
  <2>1. Tells(0, <<>>, 0) /\ 1 - 1 = 0
    BY TellsNothing
  <2> QED
    BY <1>1, <2>1
<1>10. \A i \in 1..Len(ctrl) : FALSE
  BY <1>1, <1>6
<1>11. Accounted
  BY <1>1, <1>5 DEF Accounted
<1>12. Ended /\ SayWaits /\ TcpsynWaits
  BY <1>1, <1>10 DEF Ended, SayWaits, TcpsynWaits
<1>13. Len(results) = appl - 1 /\ \A k \in 1..Len(results) : ResultOk(program, k, results[k])
  BY <1>1, <1>6
<1> QED
  BY <1>1, <1>6, <1>7, <1>8, <1>9, <1>11, <1>12, <1>13 DEF ClientInv, InAppl

LEMMA ClientStep ==
  ASSUME Undivided, ClientInv, [ClientNext]_applVars
  PROVE  ClientInv'
<1>1. CASE UNCHANGED applVars
  <2>1. Subtasks' = Subtasks
    BY <1>1 DEF applVars, Subtasks
  <2>2. InAppl' = InAppl
    BY <1>1, <2>1 DEF applVars, InAppl, ApplTypes, Conveyed, InOrder, Tells, Counted, Ended, Accounted, SayWaits, TcpsynWaits
  <2> QED
    BY <1>1, <2>2 DEF applVars, ClientInv, ResultOk
<1>2. CASE FirstWrite
  BY <1>2, FirstWriteKeeps
<1>3. CASE Send
  BY <1>3, SendKeeps
<1>4. CASE Arrive
  BY <1>4, ArriveKeeps
<1>5. CASE \E code \in Final : code \in program.replies /\ Answer(code)
  BY <1>5, AnswerKeeps
<1>6. CASE ReadReply
  <2>1. /\ status = "reply" /\ status # "done" /\ ctrl # <<>> /\ ctrl' = Tail(ctrl)
        /\ UNCHANGED <<program, left, network, datad>>
        /\ IF program.client = "say" THEN SayReply(Head(ctrl)) ELSE TcpsynReply(Head(ctrl))
    BY <1>6 DEF ReadReply
  <2>2. program.client \in {"say", "tcpsyn"}
    BY <2>1, ApplIs
  <2> QED
    BY <2>1, <2>2, SayReplyKeeps, TcpsynReplyKeeps
<1>7. CASE Yread
  BY <1>7, YreadKeeps
<1>8. CASE TcpsynDone
  BY <1>8, TcpsynDoneKeeps
<1>9. CASE Stopped
  BY <1>1, <1>9 DEF Stopped
<1> QED
  BY <1>1, <1>2, <1>3, <1>4, <1>5, <1>6, <1>7, <1>8, <1>9 DEF ClientNext

\* For any clients, appls, parts of tasks and divisions into pieces: what a client takes for
\* the result is what the server sent, complete and in order, whichever connection is slower
\* (get_data, src/src/say.cc:109-138; tcpsyn_appl, src/src/tcpsyn.cc:59-107).
THEOREM ResultsReceived == Undivided => (ClientSpec => []Received)
<1> SUFFICES ASSUME Undivided PROVE ClientSpec => []Received
  OBVIOUS
<1>1. ClientInit => ClientInv
  BY ClientStart
<1>2. ClientInv /\ [ClientNext]_applVars => ClientInv'
  BY ClientStep
<1>3. ClientInv => Received
  <2> SUFFICES ASSUME ClientInv PROVE Received
    OBVIOUS
  <2>1. results \in Seq([ok : BOOLEAN, data : Seq(Byte)])
    BY DEF ClientInv
  <2>2. DOMAIN results = 1..Len(results)
    BY <2>1
  <2> QED
    BY <2>2 DEF ClientInv, Received, ResultOk
<1> QED
  BY <1>1, <1>2, <1>3, PTL DEF ClientSpec
=============================================================================
