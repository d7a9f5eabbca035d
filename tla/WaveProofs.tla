----------------------------- MODULE WaveProofs -----------------------------
(***************************************************************************)
(* Theorems about the sound itself.  The time domain synthesizer: for any  *)
(* inventory and prosody its frames stay in the unit and keep time.  The   *)
(* wave form: however little of it the descriptor takes, all of it is sent *)
(* and is what was announced, and the buffer is kept to as far as Spill    *)
(* says, by frames that are no wider than what they are made of.           *)
(***************************************************************************)
EXTENDS Tdpsyn, Wavefm, WellFoundedInduction, TLAPS

Positive == Nat \ {0}

-----------------------------------------------------------------------------
(* Division.                                                               *)

\* What division by a positive number gives.
LEMMA Quotient ==
  ASSUME NEW a \in Nat, NEW n \in Positive
  PROVE  /\ a \div n \in Nat
         /\ n * (a \div n) <= a
         /\ a < n * (a \div n) + n
  BY SMT DEF Positive

\* A product grows with its factor.
LEMMA Grows ==
  ASSUME NEW a \in Nat, NEW b \in Int, NEW c \in Int, b <= c
  PROVE  a * b <= a * c
<1>1. c - b \in Nat
  OBVIOUS
<1>2. a * (c - b) \in Nat
  BY <1>1
<1>3. a * c = a * b + a * (c - b)
  BY SMT
<1> QED
  BY <1>2, <1>3

\* A factor that makes a product less is less.
LEMMA Cancels ==
  ASSUME NEW n \in Positive, NEW a \in Int, NEW b \in Int, n * a < n * b + n
  PROVE  a <= b
<1>1. SUFFICES ASSUME b + 1 <= a PROVE FALSE
  OBVIOUS
<1>2. n \in Nat /\ b + 1 \in Int
  BY DEF Positive
<1>3. n * (b + 1) <= n * a
  BY <1>1, <1>2, Grows
<1>4. n * (b + 1) = n * b + n
  BY <1>2, SMT
<1> QED
  BY <1>3, <1>4, SMT DEF Positive

\* The division of C of a number that is at most n times p, in either direction.
TowardZero(more, n) == IF more >= 0 THEN more \div n ELSE -((-more) \div n)
LEMMA Shared ==
  ASSUME NEW more \in Int, NEW n \in Positive, NEW p \in Nat, more <= n * p, -more <= n * p
  PROVE  /\ TowardZero(more, n) \in Int
         /\ -p <= TowardZero(more, n) /\ TowardZero(more, n) <= p
         /\ more <= 0 => TowardZero(more, n) <= 0
<1>1. ASSUME NEW a \in Nat, a <= n * p PROVE a \div n \in 0..p
  <2>1. /\ a \div n \in Nat /\ n * (a \div n) <= a
    BY Quotient
  <2>2. PICK d \in Nat : d = a \div n
    BY <2>1
  <2>3. n \in Nat /\ n > 0 /\ n * d \in Int /\ n * p \in Int
    BY <2>2 DEF Positive
  <2>4. n * d < n * p + n
    BY <1>1, <2>1, <2>2, <2>3
  <2>5. d <= p
    BY <2>4, Cancels
  <2> QED
    BY <2>2, <2>5
<1>2. CASE more >= 0
  <2>1. more \in Nat /\ TowardZero(more, n) = more \div n
    BY <1>2 DEF TowardZero
  <2>2. TowardZero(more, n) \in 0..p
    BY <1>1, <2>1
  <2>3. more <= 0 => TowardZero(more, n) <= 0
    <3>1. SUFFICES ASSUME more = 0 PROVE more \div n = 0
      BY <1>2, <2>1
    <3>2. n * (more \div n) <= 0 /\ more \div n \in Nat
      BY <2>1, <3>1, Quotient
    <3>3. PICK d \in Nat : d = more \div n
      BY <3>2
    <3>4. n * d <= 0 /\ n \in Nat /\ n > 0 /\ n * 0 = 0
      BY <3>2, <3>3 DEF Positive
    <3>5. n * d < n * 0 + n
      BY <3>4
    <3>6. d <= 0
      BY <3>5, Cancels
    <3> QED
      BY <3>3, <3>6
  <2> QED
    BY <2>2, <2>3
<1>3. CASE ~(more >= 0)
  <2>1. -more \in Nat /\ TowardZero(more, n) = -((-more) \div n)
    BY <1>3 DEF TowardZero
  <2>2. (-more) \div n \in 0..p
    BY <1>1, <2>1
  <2> QED
    BY <2>1, <2>2
<1> QED
  BY <1>2, <1>3

-----------------------------------------------------------------------------
(* The time domain synthesizer: what frames put the marks off by.          *)

\* Marks are used once and none is left out.
LEMMA DifLenOnce ==
  ASSUME NEW slen \in Positive, NEW pitch \in Positive, NEW origlen \in Int,
         origlen <= pitch * slen + pitch * slen, 0 <= origlen
  PROVE  LET dif == DifLen(slen, pitch, origlen, 1, 1) IN dif \in Int /\ -pitch <= dif /\ dif <= pitch
<1> DEFINE more == pitch * slen - origlen
<1>1. slen \in Nat /\ pitch \in Nat /\ pitch * slen \in Nat /\ pitch * slen = slen * pitch
  BY DEF Positive
<1>2. /\ ((1 - 1) * slen) \div 1 = 0 /\ (1 - 1) * slen = 0
      /\ ((1 - 1) * slen * pitch) \div 1 = 0 /\ (1 - 1) * slen * pitch = 0
  BY <1>1
<1>3. more \in Int /\ more <= slen * pitch /\ -more <= slen * pitch
  BY <1>1
<1>4. DifLen(slen, pitch, origlen, 1, 1) = TowardZero(more, slen)
  <2>1. /\ slen - ((1 - 1) * slen) \div 1 + (1 - 1) * slen = slen
        /\ pitch * slen - origlen - ((1 - 1) * slen * pitch) \div 1 + (1 - 1) * slen * pitch = more
    BY <1>1, <1>2
  <2> QED
    BY <2>1, Zenon DEF DifLen, TowardZero
<1> HIDE DEF more
<1> QED
  BY <1>1, <1>3, <1>4, Shared

\* Some marks are left out.
LEMMA DifLenSkipping ==
  ASSUME NEW slen \in Positive, NEW pitch \in Positive, NEW origlen \in Nat, NEW skip \in Positive,
         skip * origlen <= pitch * slen
  PROVE  LET dif == DifLen(slen, pitch, origlen, skip, 1) IN dif \in Int /\ -pitch <= dif /\ dif <= pitch
<1>1. slen \in Nat /\ slen > 0 /\ pitch \in Nat /\ pitch > 0 /\ skip \in Nat /\ skip > 0
  BY DEF Positive
<1>2. skip - 1 \in Nat /\ (skip - 1) * slen \in Nat /\ (skip - 1) * slen * pitch \in Nat
  BY <1>1
<1>3. PICK a \in Nat : a = ((skip - 1) * slen) \div skip
  BY <1>2, Quotient
<1>4. PICK b \in Nat : b = ((skip - 1) * slen * pitch) \div skip
  BY <1>2, Quotient
<1>5. skip * a <= (skip - 1) * slen
  BY <1>2, <1>3, Quotient
<1>6. skip * b <= (skip - 1) * slen * pitch /\ (skip - 1) * slen * pitch < skip * b + skip
  BY <1>2, <1>4, Quotient
<1> DEFINE new == pitch * slen
           n == slen - a
           more == new - origlen - b
<1>7. new \in Nat /\ skip * new \in Nat /\ (skip - 1) * slen * pitch = skip * new - new
  <2>1. (skip - 1) * slen * pitch = skip * slen * pitch - slen * pitch
    BY <1>1, SMT
  <2>2. slen * pitch = pitch * slen /\ skip * slen * pitch = skip * (pitch * slen)
    BY <1>1, SMT
  <2> QED
    BY <1>1, <2>1, <2>2
<1>8. (skip - 1) * slen = skip * slen - slen /\ skip * slen \in Nat
  BY <1>1, SMT
<1>9. n \in Positive
  <2>1. skip * a < skip * (slen - 1) + skip
    <3>1. skip * (slen - 1) = skip * slen - skip
      BY <1>1, SMT
    <3> QED
      BY <1>1, <1>5, <1>8, <3>1, SMT
  <2>2. a <= slen - 1
    BY <1>1, <2>1, Cancels
  <2> QED
    BY <1>1, <2>2 DEF Positive
<1>10. a * pitch <= b
  <2>1. skip * a * pitch <= (skip - 1) * slen * pitch
    <3>1. pitch * (skip * a) <= pitch * ((skip - 1) * slen)
      BY <1>1, <1>2, <1>5, Grows
    <3>2. pitch * (skip * a) = skip * a * pitch /\ pitch * ((skip - 1) * slen) = (skip - 1) * slen * pitch
      BY <1>1, <1>2, SMT
    <3> QED
      BY <3>1, <3>2
  <2>2. skip * (a * pitch) = skip * a * pitch /\ a * pitch \in Nat
    BY <1>1, SMT
  <2>3. skip * (a * pitch) < skip * b + skip
    BY <1>1, <1>2, <1>6, <2>1, <2>2
  <2> QED
    BY <2>2, <2>3, Cancels
<1>11. origlen <= new - b
  <2>1. skip * (new - b) = skip * new - skip * b /\ skip * origlen \in Nat /\ skip * b \in Nat
    BY <1>1, <1>7, SMT
  <2> HIDE DEF new
  <2>2. skip * origlen <= skip * (new - b)
    BY <1>6, <1>7, <2>1 DEF new
  <2>3. skip * origlen < skip * (new - b) + skip /\ new - b \in Int
    BY <1>1, <1>7, <2>1, <2>2
  <2> QED
    BY <2>3, Cancels
<1>12. more \in Nat /\ more <= n * pitch
  <2>1. n * pitch = new - a * pitch /\ a * pitch \in Nat
    BY <1>1, SMT
  <2> QED
    BY <1>7, <1>10, <1>11, <2>1
<1>13. DifLen(slen, pitch, origlen, skip, 1) = TowardZero(more, n)
  <2>1. (1 - 1) * slen = 0 /\ (1 - 1) * slen * pitch = 0
    BY <1>1
  <2>2. /\ slen - ((skip - 1) * slen) \div skip + (1 - 1) * slen = n
        /\ pitch * slen - origlen - ((skip - 1) * slen * pitch) \div skip + (1 - 1) * slen * pitch = more
    BY <1>1, <1>3, <1>4, <1>7, <2>1
  <2> QED
    BY <2>2, Zenon DEF DifLen, TowardZero
<1>14. n * pitch \in Nat
  BY <1>1, <1>9 DEF Positive
<1> HIDE DEF n, more, new
<1>15. more \in Int /\ -more <= n * pitch
  BY <1>12, <1>14
<1> QED
  BY <1>1, <1>9, <1>12, <1>13, <1>15, Shared

\* Marks are used again.
LEMMA DifLenReplying ==
  ASSUME NEW slen \in Positive, NEW pitch \in Positive, NEW origlen \in Nat, NEW reply \in Positive,
         reply * (pitch * slen) <= origlen, origlen < reply * (pitch * slen) + pitch * slen
  PROVE  LET dif == DifLen(slen, pitch, origlen, 1, reply) IN dif \in Int /\ -pitch <= dif /\ dif <= 0
<1> DEFINE new == pitch * slen
           n == reply * slen
           more == reply * new - origlen
<1>1. slen \in Nat /\ slen > 0 /\ pitch \in Nat /\ pitch > 0 /\ reply \in Nat /\ reply >= 1
  BY DEF Positive
<1>2. new \in Nat /\ reply * new \in Nat /\ n \in Nat
  BY <1>1
<1>3. n \in Positive /\ n * pitch = reply * new /\ new <= reply * new
  <2>1. slen * 1 <= slen * reply /\ new * 1 <= new * reply
    BY <1>1, <1>2, Grows
  <2>2. slen * 1 = slen /\ slen * reply = n /\ new * 1 = new /\ new * reply = reply * new
    BY <1>1, <1>2
  <2>3. n * pitch = reply * new
    BY <1>1, SMT
  <2> QED
    BY <1>1, <1>2, <2>1, <2>2, <2>3 DEF Positive
<1>4. more \in Int /\ more <= 0 /\ -more <= n * pitch /\ more <= n * pitch
  <2> HIDE DEF new, n
  <2> QED
    BY <1>2, <1>3 DEF new
<1>5. DifLen(slen, pitch, origlen, 1, reply) = TowardZero(more, n)
  <2>1. ((1 - 1) * slen) \div 1 = 0 /\ ((1 - 1) * slen * pitch) \div 1 = 0
    BY <1>1
  <2>2. (reply - 1) * slen = n - slen
    BY <1>1, SMT
  <2>3. (reply - 1) * slen * pitch = reply * new - new
    BY <1>1, SMT
  <2>4. /\ slen - ((1 - 1) * slen) \div 1 + (reply - 1) * slen = n
        /\ pitch * slen - origlen - ((1 - 1) * slen * pitch) \div 1 + (reply - 1) * slen * pitch = more
    BY <1>1, <1>2, <2>1, <2>2, <2>3
  <2> QED
    BY <2>4, Zenon DEF DifLen, TowardZero
<1> HIDE DEF n, more, new
<1> QED
  BY <1>1, <1>3, <1>4, <1>5, Shared

\* A unit as it is changed.
Unit == [slen : Positive, pitch : Positive, skip : Positive, reply : Positive, diflen : Int]
Steady(c) ==
  /\ -c.pitch <= c.diflen /\ c.diflen <= c.pitch
  /\ c.reply # 1 => c.skip = 1 /\ c.diflen <= 0

LEMMA ChangedIs ==
  ASSUME NEW u \in Units, NEW t \in Percents, NEW p \in Pitches
  PROVE  Changed(u, t, p) \in Unit /\ Changed(u, t, p).pitch = p /\ Steady(Changed(u, t, p))
<1>1. /\ u.slen \in Positive /\ u.avpitch \in Positive /\ p \in Positive /\ t \in Int
      /\ t > 0 => u.avpitch * u.slen * t >= 100
  BY TdpAssumption DEF Positive
<1>2. PICK s \in Positive : s = u.slen
  BY <1>1
<1>3. PICK a \in Positive : a = u.avpitch
  BY <1>1
<1> DEFINE given == IF t > 0 THEN (a * s * t) \div 100 ELSE a * s
<1>4. given \in Positive
  <2>1. CASE t > 0
    <3>1. a * s * t >= 100
      BY <1>1, <1>2, <1>3, <2>1
    <3>2. PICK x \in Nat : x = a * s * t
      BY <1>1, <2>1, SMT DEF Positive
    <3>3. x \div 100 \in Nat /\ x < 100 * (x \div 100) + 100
      BY Quotient DEF Positive
    <3>4. x \div 100 > 0
      BY <3>1, <3>2, <3>3
    <3> QED
      BY <2>1, <3>2, <3>3, <3>4 DEF Positive
  <2>2. CASE ~(t > 0)
    <3>1. a * s \in Nat /\ a * 1 <= a * s /\ a * 1 = a
      BY Grows DEF Positive
    <3> QED
      BY <2>2, <3>1 DEF Positive
  <2> QED
    BY <2>1, <2>2
<1>5. PICK origlen \in Positive : origlen = given
  BY <1>4
<1>6. PICK newlen \in Positive : newlen = p * s
  <2>1. p * s \in Nat /\ p * 1 <= p * s /\ p * 1 = p
    BY <1>1, Grows DEF Positive
  <2> QED
    BY <1>1, <2>1 DEF Positive
<1> DEFINE skip == Skip(origlen, newlen)
           reply == Reply(origlen, newlen)
           dif == DifLen(s, p, origlen, skip, reply)
<1>7. Changed(u, t, p) = [slen |-> s, pitch |-> p, skip |-> skip, reply |-> reply, diflen |-> dif]
  <2>1. (IF t > 0 THEN (u.avpitch * u.slen * t) \div 100 ELSE u.avpitch * u.slen) = origlen
    BY <1>2, <1>3, <1>5
  <2>2. p * u.slen = newlen
    BY <1>2, <1>6
  <2> HIDE DEF given
  <2>3. Changed(u, t, p) =
          [slen |-> u.slen, pitch |-> p, skip |-> Skip(origlen, newlen), reply |-> Reply(origlen, newlen),
           diflen |-> DifLen(u.slen, p, origlen, Skip(origlen, newlen), Reply(origlen, newlen))]
    BY <2>1, <2>2, Zenon DEF Changed
  <2> QED
    BY <1>2, <2>3
<1>8. origlen \in Nat /\ newlen \in Nat /\ origlen > 0 /\ newlen > 0 /\ 1 \in Positive
  BY DEF Positive
<1> HIDE DEF given
<1>9. /\ skip \in Positive /\ reply \in Positive /\ dif \in Int /\ -p <= dif /\ dif <= p
      /\ reply # 1 => skip = 1 /\ dif <= 0
  <2>1. CASE newlen > origlen
    <3>1. reply = 1 /\ skip = newlen \div origlen
      BY <1>8, <2>1 DEF Skip, Reply
    <3>2. PICK n \in Nat : n = newlen \div origlen
      BY <1>8, Quotient
    <3>3. origlen * n <= newlen /\ newlen < origlen * n + origlen
      BY <1>8, <3>2, Quotient
    <3>4. n # 0
      BY <1>8, <2>1, <3>3
    <3>5. n \in Positive
      BY <3>4 DEF Positive
    <3>6. n * origlen = origlen * n
      BY <1>8
    <3>7. n * origlen <= p * s
      BY <1>6, <3>3, <3>6
    <3>8. DifLen(s, p, origlen, n, 1) \in Int /\ -p <= DifLen(s, p, origlen, n, 1) /\ DifLen(s, p, origlen, n, 1) <= p
      BY <1>1, <1>8, <3>5, <3>7, DifLenSkipping
    <3> QED
      BY <1>8, <3>1, <3>2, <3>5, <3>8
  <2>2. CASE origlen > newlen
    <3>1. skip = 1 /\ reply = origlen \div newlen
      BY <1>8, <2>2 DEF Skip, Reply
    <3>2. PICK n \in Nat : n = origlen \div newlen
      BY <1>8, Quotient
    <3>3. newlen * n <= origlen /\ origlen < newlen * n + newlen
      BY <1>8, <3>2, Quotient
    <3>4. n # 0
      BY <1>8, <2>2, <3>3
    <3>5. n \in Positive
      BY <3>4 DEF Positive
    <3>6. newlen * n = n * newlen
      BY <1>8
    <3>7. n * (p * s) <= origlen /\ origlen < n * (p * s) + p * s
      BY <1>6, <3>3, <3>6
    <3>8. DifLen(s, p, origlen, 1, n) \in Int /\ -p <= DifLen(s, p, origlen, 1, n) /\ DifLen(s, p, origlen, 1, n) <= 0
      BY <1>1, <1>8, <3>5, <3>7, DifLenReplying
    <3>9. 0 <= p
      BY <1>1 DEF Positive
    <3> QED
      BY <1>1, <1>8, <3>1, <3>2, <3>5, <3>8, <3>9 DEF Positive
  <2>3. CASE origlen = newlen
    <3>1. skip = 1 /\ reply = 1
      BY <1>8, <2>3 DEF Skip, Reply
    <3>2. origlen <= p * s + p * s /\ 0 <= origlen /\ origlen \in Int
      BY <1>6, <1>8, <2>3
    <3>3. DifLen(s, p, origlen, 1, 1) \in Int /\ -p <= DifLen(s, p, origlen, 1, 1) /\ DifLen(s, p, origlen, 1, 1) <= p
      BY <1>1, <3>2, DifLenOnce
    <3> QED
      BY <1>8, <3>1, <3>3
  <2> QED
    BY <1>8, <2>1, <2>2, <2>3
<1> HIDE DEF skip, reply, dif
<1>10. Changed(u, t, p) \in Unit
  BY <1>1, <1>7, <1>9 DEF Unit
<1> QED
  BY <1>7, <1>9, <1>10 DEF Steady

-----------------------------------------------------------------------------
(* The inductive invariant.                                                *)

\* The frames are off by at most a period that some voice has.
Drift(d) == d \in Int /\ (d = 0 \/ \E q \in Pitches : -q <= d /\ d <= q)

TdpInv ==
  /\ Drift(difpos)
  /\ speaking \in BOOLEAN
  /\ speaking =>
       /\ unit \in Unit /\ unit.pitch \in Pitches /\ Steady(unit)
       /\ j \in Positive /\ k \in Int
       /\ unit.reply = 1 => k = 0
       /\ Octave => \/ j <= unit.slen
                    \/ unit.reply # 1 /\ j = unit.slen + 1 /\ difpos <= unit.pitch

LEMMA TdpStart == ASSUME TdpInv, StartUnit PROVE TdpInv'
<1>1. PICK u \in Units, t \in Percents, p \in Pitches : unit' = Changed(u, t, p)
  BY DEF StartUnit
<1>2. unit' \in Unit /\ unit'.pitch = p /\ Steady(unit')
  BY <1>1, ChangedIs
<1>3. j' = 1 /\ k' = 0 /\ speaking' = TRUE /\ difpos' = difpos
  BY DEF StartUnit
<1>4. unit'.slen \in Nat /\ unit'.slen > 0 /\ 1 \in Positive
  BY <1>2 DEF Unit, Positive
<1> QED
  BY <1>2, <1>3, <1>4 DEF TdpInv, Drift

\* A frame that is caught up is off by at most a period.
LEMMA CaughtUp ==
  ASSUME NEW d \in Int, unit \in Unit, unit.pitch \in Pitches,
         \/ -unit.pitch <= d /\ d <= unit.pitch
         \/ \E q \in Pitches : -q - unit.pitch <= d /\ d <= q + unit.pitch
  PROVE  Drift(Caught(d))
<1>1. PICK p \in Nat : p = unit.pitch /\ p > 0
  BY DEF Unit, Positive
<1>2. CASE Late(d)
  <2>1. Caught(d) = d + p /\ d < -p
    BY <1>1, <1>2 DEF Caught, Late
  <2>2. PICK q \in Pitches : -q - p <= d
    BY <1>1, <2>1
  <2>3. q \in Nat /\ -q <= d + p /\ d + p <= q
    BY <1>1, <2>1, <2>2, TdpAssumption
  <2> QED
    BY <1>1, <2>1, <2>3 DEF Drift
<1>3. CASE ~Late(d) /\ Early(d)
  <2>1. Caught(d) = d - p /\ d > p
    BY <1>1, <1>3 DEF Caught, Early
  <2>2. PICK q \in Pitches : d <= q + p
    BY <1>1, <2>1
  <2>3. q \in Nat /\ -q <= d - p /\ d - p <= q
    BY <1>1, <2>1, <2>2, TdpAssumption
  <2> QED
    BY <1>1, <2>1, <2>3 DEF Drift
<1>4. CASE ~Late(d) /\ ~Early(d)
  <2>1. Caught(d) = d /\ -p <= d /\ d <= p
    BY <1>1, <1>4 DEF Caught, Late, Early
  <2> QED
    BY <1>1, <2>1 DEF Drift
<1> QED
  BY <1>2, <1>3, <1>4

LEMMA TdpFrame == ASSUME TdpInv, Frame PROVE TdpInv'
<1>1. /\ Drift(difpos) /\ difpos \in Int /\ unit \in Unit /\ unit.pitch \in Pitches /\ Steady(unit)
      /\ j \in Positive /\ k \in Int /\ (unit.reply = 1 => k = 0)
      /\ Octave => \/ j <= unit.slen
                   \/ unit.reply # 1 /\ j = unit.slen + 1 /\ difpos <= unit.pitch
  BY DEF TdpInv, Frame, Drift
<1>2. PICK p \in Nat : p = unit.pitch /\ p > 0
  BY <1>1 DEF Unit, Positive
<1>3. PICK dif \in Int : dif = unit.diflen
  BY <1>1 DEF Unit
<1>4. PICK d \in Int : d = difpos + unit.diflen
  BY <1>1, <1>3
<1> DEFINE at == IF unit.reply = 1 THEN Once(d) ELSE Several(d)
<1>5. /\ difpos' = Caught(d) /\ unit' = unit
      /\ IF at.k + 1 < unit.reply
         THEN j' = at.j /\ k' = at.k + 1 /\ speaking' = speaking
         ELSE j' = at.j + unit.skip /\ k' = 0 /\ speaking' = (j' <= unit.slen)
  BY <1>4 DEF Frame
<1>6. -p <= dif /\ dif <= p /\ (unit.reply # 1 => unit.skip = 1 /\ dif <= 0)
  BY <1>1, <1>2, <1>3 DEF Steady
<1>7. Drift(difpos')
  <2>1. CASE difpos = 0
    <3>1. -unit.pitch <= d /\ d <= unit.pitch
      BY <1>2, <1>3, <1>4, <1>6, <2>1
    <3> QED
      BY <1>1, <1>5, <3>1, CaughtUp
  <2>2. CASE difpos # 0
    <3>1. PICK q \in Pitches : -q <= difpos /\ difpos <= q
      BY <1>1, <2>2 DEF Drift
    <3>2. -q - unit.pitch <= d /\ d <= q + unit.pitch
      BY <1>1, <1>2, <1>3, <1>4, <1>6, <3>1, TdpAssumption
    <3> QED
      BY <1>1, <1>5, <3>2, CaughtUp
  <2> QED
    BY <2>1, <2>2
<1>8. PICK s \in Nat : s = unit.slen /\ s > 0
  BY <1>1 DEF Unit, Positive
<1>9. PICK skip \in Nat : skip = unit.skip /\ skip > 0
  BY <1>1 DEF Unit, Positive
<1>10. PICK reply \in Nat : reply = unit.reply /\ reply > 0
  BY <1>1 DEF Unit, Positive
<1>11. j \in Nat /\ j > 0
  BY <1>1 DEF Positive
<1>12. CASE unit.reply = 1
  <2>1. at = Once(d) /\ k = 0
    BY <1>1, <1>12
  <2>2. at.k = 0 /\ at.j \in {j - 1, j, j + 1}
    BY <2>1 DEF Once
  <2>3. ~(at.k + 1 < unit.reply)
    BY <1>12, <2>2
  <2>4. j' = at.j + skip /\ k' = 0 /\ speaking' = (j' <= s)
    BY <1>5, <1>8, <1>9, <2>3
  <2>5. j' \in Nat /\ j' > 0
    BY <1>9, <1>11, <2>2, <2>4
  <2>6. j' \in Positive /\ k' \in Int /\ speaking' \in BOOLEAN
    BY <2>4, <2>5 DEF Positive
  <2> QED
    BY <1>1, <1>5, <1>7, <1>8, <2>4, <2>6 DEF TdpInv
<1>13. CASE unit.reply # 1
  <2>1. at = Several(d) /\ skip = 1 /\ dif <= 0
    BY <1>6, <1>9, <1>13
  <2>2. at.k \in Int /\ at.j \in {j, j + 1}
    BY <1>1, <2>1 DEF Several
  <2>3. at.j = j + 1 => Early(d)
    BY <1>11, <2>1 DEF Several
  <2>4. ASSUME Octave PROVE at.j <= s \/ (at.j = s + 1 /\ difpos' <= p)
    <3>1. j <= s \/ (j = s + 1 /\ difpos <= p)
      BY <1>1, <1>2, <1>8, <2>4
    <3>2. ASSUME Late(d) PROVE Caught(d) <= p /\ ~Early(d)
      BY <1>2, <3>2 DEF Caught, Late, Early
    <3>3. ASSUME difpos <= p PROVE difpos' <= p /\ at.j = j
      <4>1. d <= p
        BY <1>1, <1>3, <1>4, <2>1, <3>3
      <4>2. ~Early(d) /\ Caught(d) <= p
        BY <1>2, <3>2, <4>1 DEF Caught, Early
      <4> QED
        BY <1>5, <2>2, <2>3, <4>2
    <3>4. CASE j <= s
      <4>1. CASE at.j = j
        BY <3>4, <4>1
      <4>2. CASE at.j = j + 1
        <5>1. Early(d) /\ ~Late(d)
          BY <2>3, <3>2, <4>2
        <5>2. Caught(d) = d - p /\ d > p
          BY <1>2, <5>1 DEF Caught, Early
        <5>3. difpos # 0
          BY <1>2, <1>3, <1>4, <2>1, <5>2
        <5>4. PICK q \in Pitches : difpos <= q
          BY <1>1, <5>3 DEF Drift
        <5>5. q <= 2 * p /\ q \in Nat
          BY <1>1, <1>2, <2>4, TdpAssumption DEF Octave
        <5>6. d - p <= p
          BY <1>1, <1>2, <1>3, <1>4, <2>1, <5>4, <5>5
        <5> QED
          BY <1>5, <1>8, <1>11, <3>4, <4>2, <5>2, <5>6
      <4> QED
        BY <2>2, <4>1, <4>2
    <3>5. CASE j = s + 1 /\ difpos <= p
      BY <3>3, <3>5
    <3> QED
      BY <3>1, <3>4, <3>5
  <2>5. at.j \in Nat /\ at.j > 0
    BY <1>11, <2>2
  <2> HIDE DEF at
  <2>6. CASE at.k + 1 < unit.reply
    <3>1. j' = at.j /\ k' = at.k + 1 /\ speaking' = speaking
      BY <1>5, <2>6
    <3>2. j' \in Positive /\ k' \in Int /\ speaking' = TRUE
      BY <2>2, <2>5, <3>1 DEF Positive, Frame
    <3>3. Octave => j' <= unit.slen \/ (j' = unit.slen + 1 /\ difpos' <= unit.pitch)
      BY <1>2, <1>8, <2>4, <3>1
    <3> QED
      BY <1>1, <1>5, <1>7, <1>13, <3>2, <3>3 DEF TdpInv
  <2>7. CASE ~(at.k + 1 < unit.reply)
    <3>1. j' = at.j + 1 /\ k' = 0 /\ speaking' = (j' <= unit.slen)
      BY <1>5, <1>9, <2>1, <2>7
    <3>2. j' \in Positive /\ k' \in Int /\ speaking' \in BOOLEAN
      BY <2>5, <3>1 DEF Positive
    <3> QED
      BY <1>1, <1>5, <1>7, <1>13, <3>1, <3>2 DEF TdpInv
  <2> QED
    BY <2>6, <2>7
<1> QED
  BY <1>12, <1>13

LEMMA TdpInductive == ASSUME TdpInv, [TdpNext]_tdpVars PROVE TdpInv'
<1>1. CASE StartUnit
  BY <1>1, TdpStart
<1>2. CASE Frame
  BY <1>2, TdpFrame
<1>3. CASE UNCHANGED tdpVars
  BY <1>3 DEF TdpInv, Drift, Steady, tdpVars
<1> QED
  BY <1>1, <1>2, <1>3 DEF TdpNext

LEMMA TdpInvInStep == ASSUME TdpInv, Octave PROVE InStep
<1>1. Marked
  <2>1. SUFFICES ASSUME speaking PROVE j \in 1..unit.slen + 1
    BY DEF Marked
  <2>2. j \in Nat /\ j > 0 /\ unit.slen \in Nat /\ j <= unit.slen + 1
    BY <2>1 DEF TdpInv, Unit, Positive
  <2> QED
    BY <2>2
<1>2. Close
  <2>1. SUFFICES ASSUME NEW p \in Pitches, \A q \in Pitches : q <= p PROVE -p <= difpos /\ difpos <= p
    BY DEF Close
  <2>2. p \in Nat /\ difpos \in Int
    BY TdpAssumption DEF TdpInv, Drift
  <2>3. CASE difpos = 0
    BY <2>2, <2>3
  <2>4. CASE difpos # 0
    <3>1. PICK q \in Pitches : -q <= difpos /\ difpos <= q
      BY <2>4 DEF TdpInv, Drift
    <3>2. q \in Nat /\ q <= p
      BY <2>1, TdpAssumption
    <3> QED
      BY <2>2, <3>1, <3>2
  <2> QED
    BY <2>3, <2>4
<1> QED
  BY <1>1, <1>2 DEF InStep

\* However units are changed, and whatever is said after what, the marks that frames are
\* taken from belong to the unit and the frames are off by a period at most, if no voice has
\* a period of more than twice another (synseg, tdpsyn.cc): InStep.
THEOREM FramesInStep == Octave => (TdpSpec => []InStep)
<1>1. SUFFICES ASSUME Octave PROVE TdpSpec => []InStep
  OBVIOUS
<1>2. TdpInit => TdpInv
  <2>1. SUFFICES ASSUME TdpInit PROVE TdpInv
    OBVIOUS
  <2>2. Drift(difpos)
    BY <2>1 DEF TdpInit, Drift
  <2>3. speaking \in BOOLEAN /\ ~speaking
    BY <2>1, Zenon DEF TdpInit
  <2> QED
    BY <2>2, <2>3, Zenon DEF TdpInv
<1>3. TdpInv /\ [TdpNext]_tdpVars => TdpInv'
  BY TdpInductive
<1>4. TdpInv => InStep
  BY <1>1, TdpInvInStep
<1> QED
  BY <1>2, <1>3, <1>4, PTL DEF TdpSpec

-----------------------------------------------------------------------------
(* The wave form: its parts.                                               *)

\* A set of numbers has a least one.
LEMMA Least ==
  ASSUME NEW S \in SUBSET Nat, S # {}
  PROVE  Min(S) \in S /\ \A x \in S : Min(S) <= x
<1>1. \E m \in S : \A x \in S : m <= x
  <2>1. PICK m \in S : \A x \in S : <<x, m>> \notin OpToRel(<, Nat)
    BY NatLessThanWellFounded, WFMin
  <2>2. ASSUME NEW x \in S PROVE m <= x
    <3>1. m \in Nat /\ x \in Nat
      OBVIOUS
    <3>2. ~(x < m)
      BY <2>1, <3>1 DEF OpToRel
    <3> QED
      BY <3>1, <3>2
  <2> QED
    BY <2>2
<1> QED
  BY <1>1, Zenon DEF Min

LEMMA Greatest ==
  ASSUME NEW a \in Int, NEW b \in Int
  PROVE  Max({a, b}) = IF a >= b THEN a ELSE b
<1> DEFINE m == IF a >= b THEN a ELSE b
<1>1. m \in {a, b} /\ \A x \in {a, b} : m >= x
  OBVIOUS
<1>2. Max({a, b}) \in {a, b} /\ \A x \in {a, b} : Max({a, b}) >= x
  BY <1>1, Zenon DEF Max
<1> QED
  BY <1>1, <1>2

\* What lies behind the buffer never gets less.
LEMMA BeyondIs ==
  ASSUME outside \in Nat, NEW last \in Int, NEW room \in Int
  PROVE  Beyond(last, room) \in Nat /\ Beyond(last, room) = IF last - room > outside THEN last - room ELSE outside
  BY Greatest DEF Beyond

LEMMA WaveConstants ==
  /\ BufferSize \in Nat /\ BufferSize > 0
  /\ HeaderSize[1] \in Nat /\ HeaderSize[1] > 0 /\ HeaderSize[3] \in Nat /\ HeaderSize[3] > 0
  /\ HeaderSize[5] \in Nat /\ HeaderSize[5] > 0 /\ CueSize \in Nat /\ LabelSize \in Nat
  BY WaveAssumption DEF Headers

\* What the variables are that no action of the output changes.
Form == samples \in Nat /\ buffer_idx \in Nat /\ cues \in Nat /\ labels \in Nat /\ downsamp \in Rates /\ format \in Formats

LEMMA PartLens ==
  /\ PartLen(1) = HeaderSize[1] /\ PartLen(2) = buffer_idx /\ PartLen(3) = HeaderSize[3]
  /\ PartLen(4) = CueSize * (cues + labels) /\ PartLen(5) = HeaderSize[5] /\ PartLen(6) = LabelSize * labels
  /\ PartLen(7) = 0
  BY DEF PartLen, Headers, AllFlushed

LEMMA PartLenNat == ASSUME Form, NEW p \in 1..7 PROVE PartLen(p) \in Nat /\ (p \in Headers => PartLen(p) > 0)
<1>1. CueSize * (cues + labels) \in Nat /\ LabelSize * labels \in Nat
  BY WaveConstants DEF Form
<1> QED
  BY <1>1, PartLens, WaveConstants DEF Form, Headers

\* A part that is due is not empty.
LEMMA WantedIsNot0 == ASSUME Form, NEW p \in Parts PROVE Wanted(p) <=> PartLen(p) > 0 /\ Due[p] = PartLen(p)
<1>1. PartLen(p) \in Nat /\ (p \in Headers => PartLen(p) > 0)
  BY PartLenNat DEF Parts
<1>2. Due[p] = IF Wanted(p) THEN PartLen(p) ELSE 0
  BY DEF Due
<1> QED
  BY <1>1, <1>2 DEF Wanted

LEMMA DueNat == ASSUME Form PROVE Due \in [Parts -> Nat] /\ get_total_len \in Nat
<1>1. Due \in [Parts -> Nat]
  <2>1. ASSUME NEW p \in Parts PROVE (IF Wanted(p) THEN PartLen(p) ELSE 0) \in Nat
    <3>1. PartLen(p) \in Nat
      BY PartLenNat DEF Parts
    <3> QED
      BY <3>1
  <2> QED
    BY <2>1 DEF Due
<1> QED
  BY <1>1 DEF get_total_len, Together, Parts

\* A sum grows by what one of its parts grows by.
More(f, p, n) == [f EXCEPT ![p] = @ + n]
LEMMA TogetherGrows ==
  ASSUME NEW f \in [Parts -> Nat], NEW p \in Parts, NEW n \in Nat
  PROVE  More(f, p, n) \in [Parts -> Nat] /\ Together(More(f, p, n)) = Together(f) + n
<1>1. PICK g \in [Parts -> Nat] : g = More(f, p, n)
  <2>1. f[p] + n \in Nat /\ [f EXCEPT ![p] = @ + n] = [f EXCEPT ![p] = f[p] + n]
    OBVIOUS
  <2> QED
    BY <2>1 DEF More
<1>2. \A q \in Parts : g[q] = IF q = p THEN f[q] + n ELSE f[q]
  BY <1>1 DEF More
<1>3. Together(g) = Together(f) + n
  BY <1>2 DEF Together, Parts
<1> QED
  BY <1>1, <1>3

-----------------------------------------------------------------------------
(* The wave form: the inductive invariant.                                 *)

\* The parts before ophase have been sent as far as they are due, of ophase ooffset bytes
\* have, and of the parts after it none.
Progress ==
  /\ ophase \in 1..7 /\ ooffset \in Nat /\ sent \in [Parts -> Nat]
  /\ ophase \in Parts => Wanted(ophase) /\ sent[ophase] = ooffset
  /\ ooffset <= PartLen(ophase)
  /\ \A p \in Parts : (p < ophase => sent[p] = Due[p]) /\ (p > ophase => sent[p] = 0)
  /\ reported.written = Together(sent)

Unsent ==
  /\ ophase = 1 /\ ooffset = 0 /\ sent = [p \in Parts |-> 0]
  /\ ~translated /\ total_length = -1

Reports == [written : Int, total : Int]
Tight == InPlace /\ BufferSize >= 3
WaveInv ==
  /\ Form /\ buff_size \in Nat /\ outside \in Nat
  /\ state \in {"filling", "running", "pushed", "done", "cut", "failed"}
  /\ state = "filling" => total_length = -1
  /\ total_length = -1 /\ state \in {"filling", "running", "pushed"} =>
       /\ Unsent /\ buffer_idx = samples /\ outside = 0
       /\ buffer_idx <= buff_size /\ (buff_size # 0 => BufferSize <= buff_size)
       /\ reported \in Reports /\ reported.written = 0
       /\ buffer_idx = 0 <=> buff_size = 0
  /\ total_length # -1 /\ state \in {"running", "pushed"} =>
       /\ translated \in BOOLEAN
       /\ ~translated => buff_size = 0 /\ state = "running"
       /\ translated => buff_size # 0 /\ total_length = get_total_len /\ (Kept => reported \in Reports /\ Progress)
       /\ Tight => buffer_idx <= 2 * buff_size + Spill
  /\ Delivered /\ (Tight => outside <= Spill)

\* What depends on the format only.
LEMMA SameFormat ==
  ASSUME UNCHANGED <<downsamp, format>>
  PROVE  Spill' = Spill /\ Tight' = Tight /\ InPlace' = InPlace /\ Plain' = Plain /\ target_size' = target_size
  BY Zenon DEF Spill, Tight, InPlace, Plain, target_size

\* Nothing negative is spilled.
LEMMA FormatIs ==
  ASSUME Form
  PROVE  /\ downsamp \in Positive /\ target_size \in Positive /\ format.bytes \in Positive
         /\ format.bytes <= target_size /\ Spill \in Int /\ (InPlace => Spill >= 0)
<1>1. PICK b \in Positive : b = format.bytes
  BY WaveAssumption DEF Form, Positive
<1>2. format.channels \in {1, 2} /\ downsamp \in Positive
  BY WaveAssumption DEF Form, Positive
<1>3. target_size \in {b, 2 * b}
  BY <1>1, <1>2 DEF target_size, Positive
<1>4. PICK r \in Positive, w \in Positive : r = downsamp /\ w = target_size /\ w \in {b, 2 * b}
  BY <1>2, <1>3 DEF Positive
<1>5. b <= w /\ 2 * r + 2 - b \in Int /\ (w <= 2 * r => 2 * r + 2 - b >= 0)
  BY <1>4 DEF Positive
<1>6. Spill = IF Plain THEN 2 ELSE IF w = 1 THEN 0 ELSE 2 * r + 2 - b
  BY <1>1, <1>4, Zenon DEF Spill
<1>7. Spill \in Int /\ (w <= 2 * r => Spill >= 0)
  BY <1>5, <1>6
<1> QED
  BY <1>1, <1>4, <1>5, <1>7 DEF InPlace

\* While samples are produced nothing is sent, and they fit.
LEMMA FillingKept ==
  ASSUME WaveInv, state = "filling", state' = "filling", Form', buff_size' \in Nat,
         buffer_idx' <= buff_size', buffer_idx' = 0 <=> buff_size' = 0,
         buff_size' # 0 => BufferSize <= buff_size', outside' = 0,
         buffer_idx' = samples',
         UNCHANGED <<downsamp, format, translated, total_length, ophase, ooffset, sent, reported>>
  PROVE  WaveInv'
<1>1. Tight' => outside' <= Spill'
  BY FormatIs, SameFormat DEF WaveInv, Tight
<1> QED
  BY <1>1 DEF WaveInv, Unsent, Delivered

\* Samples that fit are not behind the buffer.
LEMMA Fitting ==
  ASSUME outside = 0, NEW idx \in Nat, NEW size \in Nat, idx <= size
  PROVE  Beyond(2 * idx, 2 * size) = 0
<1>1. 2 * idx \in Int /\ 2 * size \in Int /\ 2 * idx - 2 * size <= 0 /\ outside \in Nat
  OBVIOUS
<1> QED
  BY <1>1, BeyondIs

LEMMA PutSampleKept == ASSUME WaveInv, PutSample PROVE WaveInv'
<1>1. /\ state = "filling" /\ state' = "filling" /\ Form /\ buff_size \in Nat /\ buffer_idx <= buff_size
      /\ buffer_idx' = buffer_idx + 1 /\ outside = 0 /\ (buff_size # 0 => BufferSize <= buff_size)
      /\ UNCHANGED <<cues, labels, downsamp, format, translated, total_length, ophase, ooffset, sent, reported>>
  BY DEF WaveInv, PutSample, filledVars
<1>2. Form'
  BY <1>1 DEF PutSample, Form
<1>3. PICK idx \in Nat, size \in Nat : idx = buffer_idx /\ size = buff_size
  BY <1>1 DEF Form
<1>4. buff_size' = IF size = 0 THEN BufferSize ELSE IF size <= idx + 1 THEN Grown(idx) ELSE size
  BY <1>3 DEF PutSample
<1>5. Grown(idx) = IF idx + 4 <= size THEN size ELSE 2 * size
  BY <1>3 DEF Grown
<1>6. buff_size' \in Nat /\ idx + 1 <= buff_size' /\ BufferSize <= buff_size'
  BY <1>1, <1>3, <1>4, <1>5, WaveConstants
<1>7. buffer_idx' <= buff_size' /\ buffer_idx' # 0 /\ buff_size' # 0
  BY <1>1, <1>3, <1>6
<1>8. buffer_idx' = samples'
  BY <1>1 DEF WaveInv, PutSample
<1>9. outside' = 0
  BY <1>1, <1>2, <1>6, <1>7, Fitting DEF PutSample, Form
<1> QED
  BY <1>1, <1>2, <1>6, <1>7, <1>8, <1>9, FillingKept

LEMMA SampleBlockKept == ASSUME WaveInv, NEW count \in {2, 5}, SampleBlock(count) PROVE WaveInv'
<1>1. /\ state = "filling" /\ state' = "filling" /\ Form /\ buff_size \in Nat /\ buffer_idx <= buff_size
      /\ buffer_idx' = buffer_idx + count /\ outside = 0 /\ (buff_size # 0 => BufferSize <= buff_size)
      /\ UNCHANGED <<cues, labels, downsamp, format, translated, total_length, ophase, ooffset, sent, reported>>
  BY DEF WaveInv, SampleBlock, filledVars
<1>2. Form'
  BY <1>1 DEF SampleBlock, Form
<1>3. PICK idx \in Nat : idx = buffer_idx
  BY <1>1 DEF Form
<1>4. PICK size \in Nat : size = IF buff_size < count + buffer_idx /\ buff_size = 0 THEN BufferSize ELSE buff_size
  BY <1>1, WaveConstants
<1> DEFINE S == {m \in 0..count : size * 2 ^ m >= buffer_idx + count}
<1>5. size > 0 /\ idx <= size /\ BufferSize <= size
  BY <1>1, <1>3, <1>4, WaveConstants
<1>6. size * 2 ^ count >= idx + count
  <2>1. size * 4 >= idx + 2 /\ size * 32 >= idx + 5
    BY <1>5
  <2>2. 2 ^ 2 = 4 /\ 2 ^ 5 = 32
    BY SMT
  <2> QED
    BY <2>1, <2>2
<1>7. S \in SUBSET Nat /\ S # {}
  <2>1. count \in 0..count
    OBVIOUS
  <2>2. size * 2 ^ count >= buffer_idx + count
    BY <1>3, <1>6
  <2>3. count \in S
    BY <2>1, <2>2
  <2>4. S \subseteq 0..count /\ 0..count \subseteq Nat
    OBVIOUS
  <2> QED
    BY <2>3, <2>4
<1>8. Min(S) \in S
  BY <1>7, Least
<1>9. buff_size' = size * 2 ^ Min(S)
  BY <1>4, Zenon DEF SampleBlock
<1>10. buff_size' >= buffer_idx + count
  BY <1>8, <1>9
<1>11. buff_size' \in Nat
  <2>1. PICK m \in 0..count : m = Min(S)
    BY <1>8
  <2>2. m \in {0, 1, 2, 3, 4, 5}
    BY <2>1
  <2>3. 2 ^ 0 = 1 /\ 2 ^ 1 = 2 /\ 2 ^ 2 = 4 /\ 2 ^ 3 = 8 /\ 2 ^ 4 = 16 /\ 2 ^ 5 = 32
    BY SMT
  <2>4. 2 ^ m \in {1, 2, 4, 8, 16, 32}
    BY <2>2, <2>3, Zenon
  <2> HIDE DEF S
  <2> QED
    BY <1>9, <2>1, <2>4
<1>14. BufferSize <= buff_size'
  <2>1. PICK m \in 0..count : m = Min(S)
    BY <1>8
  <2>2. m \in {0, 1, 2, 3, 4, 5}
    BY <2>1
  <2>3. 2 ^ 0 = 1 /\ 2 ^ 1 = 2 /\ 2 ^ 2 = 4 /\ 2 ^ 3 = 8 /\ 2 ^ 4 = 16 /\ 2 ^ 5 = 32
    BY SMT
  <2>4. 2 ^ m \in {1, 2, 4, 8, 16, 32}
    BY <2>2, <2>3, Zenon
  <2> HIDE DEF S
  <2> QED
    BY <1>5, <1>9, <2>1, <2>4, WaveConstants
<1>12. buffer_idx' <= buff_size' /\ buffer_idx' # 0 /\ buff_size' # 0
  BY <1>1, <1>3, <1>10, <1>11
<1>13. buffer_idx' = samples'
  BY <1>1 DEF WaveInv, SampleBlock
<1>15. outside' = 0
  <2>1. outside' = Beyond(2 * buffer_idx', 2 * buff_size')
    BY Zenon DEF SampleBlock
  <2> QED
    BY <1>1, <1>2, <1>11, <1>12, <2>1, Fitting DEF Form
<1> QED
  BY <1>1, <1>2, <1>11, <1>12, <1>13, <1>14, <1>15, FillingKept

LEMMA LabelKept == ASSUME WaveInv, Label PROVE WaveInv'
<1>1. /\ state = "filling" /\ state' = "filling" /\ Form /\ buff_size \in Nat /\ buffer_idx <= buff_size
      /\ buffer_idx = 0 <=> buff_size = 0
      /\ outside' = 0 /\ (buff_size # 0 => BufferSize <= buff_size)
  BY DEF WaveInv, Label
<1>2. Form'
  BY <1>1 DEF Label, Form
<1>3. buffer_idx' = samples'
  BY <1>1 DEF WaveInv, Label
<1> QED
  BY <1>1, <1>2, <1>3, FillingKept DEF Label

\* What is left of the samples.
LEMMA TranslateIs ==
  ASSUME Form, NEW idx \in Nat, idx > 0
  PROVE  Translate(idx) \in Nat /\ (idx + 1 >= downsamp => Translate(idx) > 0)
<1>1. PICK r \in Positive : r = downsamp
  BY FormatIs
<1>2. PICK width \in Positive : width = target_size
  BY FormatIs
<1>3. PICK n \in Nat : n = (idx + 1) \div r
  BY Quotient
<1>4. Translate(idx) = n * width
  BY <1>1, <1>2, <1>3 DEF Translate
<1>5. n * width \in Nat
  BY DEF Positive
<1>6. ASSUME idx + 1 >= downsamp PROVE n * width > 0
  <2>1. r <= idx + 1
    BY <1>1, <1>6
  <2>2. idx + 1 < r * n + r
    BY <1>3, Quotient
  <2>3. n # 0
    BY <2>1, <2>2 DEF Positive
  <2>4. width * 1 <= width * n
    BY <2>3, Grows DEF Positive
  <2> QED
    BY <2>4 DEF Positive
<1> QED
  BY <1>4, <1>5, <1>6

\* A translation in place is not far behind the buffer.
LEMMA InsideIs ==
  ASSUME Form, Tight, NEW idx \in Nat, NEW size \in Nat, idx <= size, size >= 3
  PROVE  /\ Translate(idx) <= 2 * size + Spill
         /\ LastStored(idx) \in Int /\ LastStored(idx) <= 2 * size + Spill
<1>1. PICK r \in Positive, w \in Positive, b \in Positive : r = downsamp /\ w = target_size /\ b = format.bytes /\ b <= w
  BY FormatIs
<1>2. w <= 2 * r /\ r \in Nat /\ w \in Nat /\ b \in Nat /\ r >= 1 /\ w >= 1 /\ b >= 1
  BY <1>1 DEF Tight, InPlace, Positive
<1>3. PICK n \in Nat : n = (idx + 1) \div r /\ r * n <= idx + 1
  BY Quotient
<1>4. PICK f \in Nat : f = (idx + r - 1) \div r /\ r * f <= idx + r - 1
  BY <1>2, Quotient
<1>5. Translate(idx) = n * w /\ n * w \in Nat
  BY <1>1, <1>2, <1>3, Zenon, SMT DEF Translate
<1>6. LastStored(idx) = IF Plain THEN 0 ELSE f * w - b + 4
  BY <1>1, <1>4, Zenon DEF LastStored
<1>7. Spill = IF Plain THEN 2 ELSE IF w = 1 THEN 0 ELSE 2 * r + 2 - b
  BY <1>1, Zenon DEF Spill
<1>8. n * w <= 2 * idx + 2
  <2>1. n * w <= n * (2 * r)
    BY <1>2, Grows
  <2>2. n * (2 * r) = 2 * (r * n)
    BY <1>2
  <2> QED
    BY <1>2, <1>3, <2>1, <2>2
<1>9. f * w <= 2 * idx + 2 * r - 2
  <2>1. f * w <= f * (2 * r)
    BY <1>2, Grows
  <2>2. f * (2 * r) = 2 * (r * f)
    BY <1>2
  <2> QED
    BY <1>2, <1>4, <2>1, <2>2
<1>10. f * w \in Nat
  BY <1>2
<1>11. LastStored(idx) \in Int
  BY <1>2, <1>6, <1>10
<1>12. CASE Plain
  BY <1>2, <1>5, <1>6, <1>7, <1>8, <1>12
<1>13. CASE ~Plain /\ w = 1
  <2>1. n <= idx + 1
    <3>1. n * w = n
      BY <1>13
    <3>2. n * 1 <= n * r /\ n * r = r * n
      BY <1>2, Grows
    <3> QED
      BY <1>2, <1>3, <3>2
  <2>2. f <= idx
    <3>1. idx * 1 <= idx * r /\ idx * r = r * idx /\ r * idx \in Nat /\ r * f \in Nat
      BY <1>2, Grows
    <3>2. r * f < r * idx + r
      BY <1>2, <1>4, <3>1
    <3> QED
      BY <3>2, Cancels
  <2>3. n * w = n /\ f * w = f /\ b = 1
    BY <1>1, <1>2, <1>13
  <2> QED
    BY <1>5, <1>6, <1>7, <1>11, <1>13, <2>1, <2>2, <2>3
<1>14. CASE ~Plain /\ w # 1
  BY <1>1, <1>2, <1>5, <1>6, <1>7, <1>8, <1>9, <1>10, <1>11, <1>14
<1> QED
  BY <1>12, <1>13, <1>14

\* flush() sends on where it was.
LEMMA HandOverKept ==
  ASSUME NEW n \in Parts, NEW off \in Nat, NEW len \in Nat, off < len, NEW idx \in Nat, buff_size \in Nat,
         sent \in [Parts -> Nat], sent[n] = off, reported \in Reports, reported.written = Together(sent),
         HandOver(n, off, len, idx),
         PartLen(n)' = len, Wanted(n)',
         \A p \in Parts : (p < n => sent[p] = Due'[p]) /\ (p > n => sent[p] = 0)
  PROVE  Progress' /\ reported' \in Reports
<1>1. PICK taken \in {0, 1, len - off} :
           /\ ophase' = n
           /\ ooffset' = off + taken
           /\ sent' = [sent EXCEPT ![n] = @ + taken]
           /\ reported' = [reported EXCEPT !.written = @ + taken]
  BY DEF HandOver
<1>2. taken \in Nat /\ off + taken <= len
  BY <1>1
<1>3. sent' \in [Parts -> Nat] /\ Together(sent') = Together(sent) + taken
  <2>1. PICK g \in [Parts -> Nat] : g = sent
    OBVIOUS
  <2>2. PICK more \in Nat : more = taken
    BY <1>2
  <2>3. More(g, n, more) \in [Parts -> Nat] /\ Together(More(g, n, more)) = Together(g) + more
    BY TogetherGrows
  <2>4. sent' = More(g, n, more)
    BY <1>1, <2>1, <2>2 DEF More
  <2> QED
    BY <2>1, <2>2, <2>3, <2>4
<1>4. \A p \in Parts : sent'[p] = IF p = n THEN sent[p] + taken ELSE sent[p]
  BY <1>1
<1>5. reported' \in Reports /\ reported'.written = Together(sent')
  <2>1. Together(sent) \in Nat
    BY DEF Together, Parts
  <2> QED
    BY <1>1, <1>2, <1>3, <2>1 DEF Reports
<1>6. ophase' \in 1..7 /\ ooffset' \in Nat
  BY <1>1, <1>2 DEF Parts
<1>7. Wanted(ophase)' /\ sent'[ophase'] = ooffset'
  BY <1>1, <1>4
<1>8. (ooffset <= PartLen(ophase))'
  BY <1>1, <1>2
<1>9. \A p \in Parts : (p < ophase' => sent'[p] = Due'[p]) /\ (p > ophase' => sent'[p] = 0)
  BY <1>1, <1>4 DEF Parts
<1>10. (reported.written = Together(sent))'
  BY <1>5 DEF Together
<1> QED
  BY <1>3, <1>5, <1>6, <1>7, <1>8, <1>9, <1>10 DEF Progress

\* The buffer does not get smaller.
LEMMA GrownIs == ASSUME buff_size \in Nat, NEW idx \in Nat PROVE Grown(idx) \in Nat /\ buff_size <= Grown(idx)
  BY DEF Grown

LEMMA TotalIs == Form => get_total_len \in Nat
  BY DueNat
LEMMA TotalNext == (Form => get_total_len \in Nat)'
  BY TotalIs, PTL

LEMMA AttachKept == ASSUME WavHdr, WaveInv, Attach PROVE WaveInv'
<1>1. /\ state = "running" /\ state' = "running" /\ total_length = -1 /\ Form /\ buff_size \in Nat
      /\ Unsent /\ reported.written = 0 /\ reported \in Reports
      /\ buffer_idx = 0 <=> buff_size = 0
      /\ buffer_idx = samples /\ outside = 0 /\ buffer_idx <= buff_size /\ (buff_size # 0 => BufferSize <= buff_size)
  BY DEF WaveInv, Attach
<1>2. /\ translated' \in BOOLEAN /\ (translated' <=> buffer_idx > 0)
      /\ buffer_idx' = IF buffer_idx = 0 THEN 0 ELSE Translate(buffer_idx)
      /\ total_length' = get_total_len'
      /\ UNCHANGED <<constVars, state>>
  <2>1. translated' = (translated \/ buffer_idx > 0) /\ ~translated
    BY <1>1 DEF Attach, Unsent
  <2>2. translated' \in BOOLEAN /\ (translated' <=> buffer_idx > 0)
    BY <2>1, Zenon
  <2>3. /\ buffer_idx' = IF buffer_idx = 0 THEN 0 ELSE Translate(buffer_idx)
        /\ UNCHANGED <<constVars, state>>
    BY <1>1, <2>1 DEF Attach
  <2>4. total_length' = get_total_len'
    BY Zenon DEF Attach
  <2> QED
    BY <2>2, <2>3, <2>4, Zenon
<1>3. buffer_idx' \in Nat /\ (buffer_idx # 0 /\ Kept => buffer_idx' > 0)
  <2>1. CASE buffer_idx = 0
    BY <1>2, <2>1
  <2>2. CASE buffer_idx # 0
    <3>1. buffer_idx \in Nat /\ buffer_idx > 0
      BY <1>1, <2>2 DEF Form
    <3>2. Translate(buffer_idx) \in Nat /\ (Kept => Translate(buffer_idx) > 0)
      BY <1>1, <3>1, TranslateIs DEF Kept
    <3> QED
      BY <1>2, <2>2, <3>2
  <2> QED
    BY <2>1, <2>2
<1>4. Form'
  BY <1>1, <1>2, <1>3 DEF Form, constVars
<1>5. total_length' \in Nat
  BY <1>2, <1>4, TotalNext
<1>6. IF buffer_idx' = 0 THEN UNCHANGED <<ophase, ooffset, sent, reported, buff_size>>
      ELSE HandOver(1, 0, HeaderSize[1], buffer_idx')
  BY Zenon DEF Attach
<1>7. buff_size' \in Nat /\ buff_size <= buff_size' /\ (buffer_idx' = 0 => buff_size' = buff_size)
  <2>1. CASE buffer_idx' = 0
    BY <1>1, <1>6, <2>1
  <2>2. CASE buffer_idx' # 0
    <3>1. buff_size' = buff_size \/ buff_size' = Grown(buffer_idx')
      BY <1>6, <2>2 DEF HandOver
    <3> QED
      BY <1>1, <1>3, <2>2, <3>1, GrownIs
  <2> QED
    BY <2>1, <2>2
<1>8. ASSUME translated', Kept' PROVE Progress' /\ reported' \in Reports
  <2>1. buffer_idx # 0 /\ buffer_idx' > 0
    <3>1. Kept
      BY <1>2, <1>8 DEF Kept, constVars
    <3> QED
      BY <1>1, <1>2, <1>3, <1>8, <3>1 DEF Form
  <2>2. sent = [p \in Parts |-> 0]
    BY <1>1 DEF Unsent
  <2>3. Wanted(1)'
    <3>1. PartLen(2)' = buffer_idx' /\ 1 \in Headers /\ 1 + 1 = 2
      BY DEF Headers, PartLen, AllFlushed
    <3> QED
      BY <2>1, <3>1 DEF Wanted
  <2>4. PartLen(1)' = HeaderSize[1]
    BY DEF PartLen, Headers, AllFlushed
  <2>5. sent \in [Parts -> Nat] /\ \A p \in Parts : sent[p] = 0
    BY <2>2
  <2>6. Together(sent) = 0
    BY <2>5 DEF Together, Parts
  <2>7. 1 \in Parts /\ \A p \in Parts : ~(p < 1)
    BY DEF Parts
  <2>8. HandOver(1, 0, HeaderSize[1], buffer_idx')
    BY <1>6, <2>1
  <2> QED
    BY <1>1, <1>3, <2>3, <2>4, <2>5, <2>6, <2>7, <2>8, HandOverKept, WaveConstants
<1>9. total_length' # -1 /\ state' = "running" /\ translated' \in BOOLEAN
  BY <1>1, <1>2, <1>5
<1>10. (translated' => buff_size' # 0) /\ (~translated' => buff_size' = 0)
  BY <1>1, <1>2, <1>7 DEF Form
<1>11. Spill' = Spill /\ Tight' = Tight
  BY <1>2, SameFormat DEF constVars
<1>12. outside' \in Nat /\ (Tight => outside' <= Spill /\ buffer_idx' <= 2 * buff_size' + Spill)
  <2>1. Spill \in Int /\ (Tight => Spill >= 0)
    BY <1>1, FormatIs DEF Tight
  <2>2. CASE buffer_idx = 0
    <3>1. outside' = 0
      BY <1>1, <2>2 DEF Attach
    <3> QED
      BY <1>2, <1>7, <2>1, <2>2, <3>1
  <2>3. CASE buffer_idx # 0
    <3>1. PICK idx \in Nat, size \in Nat : idx = buffer_idx /\ size = buff_size
      BY <1>1 DEF Form
    <3>2. outside' = Beyond(LastStored(idx), Translated(idx))
      <4>1. outside' = IF buffer_idx = 0 THEN outside ELSE Beyond(LastStored(buffer_idx), Translated(buffer_idx))
        BY Zenon DEF Attach
      <4> QED
        BY <2>3, <3>1, <4>1
    <3>3. Translated(idx) \in Int /\ LastStored(idx) \in Int
      <4>1. PICK r \in Positive, w \in Positive, b \in Positive : r = downsamp /\ w = target_size /\ b = format.bytes
        BY <1>1, FormatIs
      <4>2. idx * w \in Nat /\ (idx + r - 1) \in Nat
        BY DEF Positive
      <4>3. PICK c \in Nat, f \in Nat : c = (idx * w) \div r /\ f = (idx + r - 1) \div r
        BY <4>2, Quotient
      <4>4. f * w - b + 4 \in Int /\ 2 * size \in Int
        BY DEF Positive
      <4>5. Translated(idx) = IF InPlace THEN 2 * size ELSE c
        BY <3>1, <4>1, <4>3, Zenon DEF Translated
      <4>6. LastStored(idx) = IF Plain THEN 0 ELSE f * w - b + 4
        BY <4>1, <4>3, Zenon DEF LastStored
      <4> QED
        BY <4>4, <4>5, <4>6
    <3>4. PICK last \in Int, room \in Int : last = LastStored(idx) /\ room = Translated(idx)
      BY <3>3
    <3>5. outside' \in Nat /\ outside' = IF last - room > 0 THEN last - room ELSE 0
      BY <1>1, <3>2, <3>4, BeyondIs
    <3>6. ASSUME Tight PROVE outside' <= Spill /\ buffer_idx' <= 2 * buff_size' + Spill
      <4>1. size >= 3 /\ idx <= size
        BY <1>1, <2>3, <3>1, <3>6, WaveConstants DEF Tight
      <4>2. Translate(idx) <= 2 * size + Spill /\ last <= 2 * size + Spill
        BY <1>1, <3>4, <3>6, <4>1, InsideIs
      <4>3. room = 2 * size
        BY <3>1, <3>4, <3>6 DEF Translated, Tight
      <4>4. buffer_idx' = Translate(idx)
        BY <1>2, <2>3, <3>1
      <4> QED
        BY <1>3, <1>7, <2>1, <3>1, <3>5, <3>6, <4>2, <4>3, <4>4
    <3> QED
      BY <3>5, <3>6
  <2> QED
    BY <2>2, <2>3
<1>13. Delivered'
  BY <1>9 DEF Delivered
<1>14. translated' => total_length' = get_total_len' /\ (Kept' => reported' \in Reports /\ Progress')
  BY <1>2, <1>8
<1> QED
  BY <1>4, <1>7, <1>9, <1>10, <1>11, <1>12, <1>13, <1>14 DEF WaveInv

\* The state of a wave form that is not to be sent any more.
LEMMA EndedKept ==
  ASSUME WaveInv, UNCHANGED <<downsamp, format, outside>>,
         Form', buff_size' \in Nat, state' \in {"done", "cut", "failed"},
         state' = "done" => Delivered'
  PROVE  WaveInv'
  BY SameFormat DEF WaveInv, Delivered

LEMMA SameParts ==
  ASSUME UNCHANGED <<constVars, buffer_idx>>
  PROVE  (\A p \in 1..7 : PartLen(p)' = PartLen(p) /\ Wanted(p)' = Wanted(p)) /\ Due' = Due /\ get_total_len' = get_total_len
<1>1. cues' = cues /\ labels' = labels /\ buffer_idx' = buffer_idx
  BY DEF constVars
<1>2. \A p \in 1..8 : PartLen(p)' = PartLen(p)
  BY <1>1, Zenon DEF PartLen
<1>3. \A p \in 1..7 : Wanted(p)' = Wanted(p)
  <2>1. TAKE p \in 1..7
  <2>2. p + 1 \in 1..8 /\ p \in 1..8
    OBVIOUS
  <2>3. PartLen(p + 1)' = PartLen(p + 1) /\ PartLen(p)' = PartLen(p)
    BY <1>2, <2>2
  <2> QED
    BY <2>3, Zenon DEF Wanted
<1>4. Due' = Due
  <2>1. \A p \in Parts : (IF Wanted(p) THEN PartLen(p) ELSE 0)' = (IF Wanted(p) THEN PartLen(p) ELSE 0)
    <3>1. TAKE p \in Parts
    <3>2. p \in 1..7 /\ p \in 1..8
      BY DEF Parts
    <3>3. Wanted(p)' = Wanted(p) /\ PartLen(p)' = PartLen(p)
      BY <1>2, <1>3, <3>2
    <3> QED
      BY <3>3, Zenon
  <2> QED
    BY <2>1, Zenon DEF Due
<1>5. get_total_len' = get_total_len
  BY <1>4, Zenon DEF get_total_len, Together
<1>6. \A p \in 1..7 : PartLen(p)' = PartLen(p)
  BY <1>2
<1> QED
  BY <1>3, <1>4, <1>5, <1>6

\* A step that changes nothing but the state keeps what has been sent.
StillThere ==
  UNCHANGED <<constVars, buff_size, buffer_idx, translated, total_length, ophase, ooffset, sent, outside, reported>>

LEMMA StillKept ==
  ASSUME StillThere
  PROVE  /\ Form' = Form /\ Kept' = Kept /\ Unsent' = Unsent /\ get_total_len' = get_total_len
         /\ Progress => Progress'
<1>1. UNCHANGED <<samples, cues, labels, downsamp, format, buff_size, buffer_idx, translated, total_length,
                  ophase, ooffset, sent, outside, reported>>
  BY DEF StillThere, constVars
<1>2. UNCHANGED <<constVars, buffer_idx>>
  BY DEF StillThere
<1>3. get_total_len' = get_total_len /\ Due' = Due
  BY <1>2, SameParts
<1>4. Form' = Form /\ Kept' = Kept /\ Unsent' = Unsent
  BY <1>1 DEF Form, Kept, Unsent
<1>5. ASSUME Progress PROVE Progress'
  <2>1. PICK at \in 1..7 : at = ophase
    BY <1>5 DEF Progress
  <2>2. PartLen(at)' = PartLen(at) /\ Wanted(at)' = Wanted(at)
    BY <1>2, SameParts
  <2>3. PartLen(ophase)' = PartLen(ophase) /\ Wanted(ophase)' = Wanted(ophase)
    BY <1>1, <2>1, <2>2
  <2> QED
    BY <1>1, <1>3, <1>5, <2>3 DEF Progress, Together
<1> QED
  BY <1>3, <1>4, <1>5

LEMMA StateKept ==
  ASSUME WaveInv, StillThere, state \in {"filling", "running", "pushed"}, state' \in {"running", "pushed"},
         total_length = -1 \/ state # "running"
  PROVE  WaveInv'
<1>1. /\ Form' = Form /\ Kept' = Kept /\ Unsent' = Unsent /\ get_total_len' = get_total_len
      /\ Progress => Progress'
  BY StillKept
<1>2. UNCHANGED <<samples, buff_size, buffer_idx, translated, total_length, outside, reported>>
  BY DEF StillThere, constVars
<1>3. Delivered'
  BY DEF Delivered
<1>4. Spill' = Spill /\ Tight' = Tight
  BY SameFormat DEF StillThere, constVars
<1> QED
  BY <1>1, <1>2, <1>3, <1>4 DEF WaveInv

LEMMA DeliverKept == ASSUME WaveInv, Deliver PROVE WaveInv'
<1>1. StillThere /\ state = "filling" /\ state' = "running"
  BY DEF Deliver, StillThere, constVars
<1>2. total_length = -1
  BY <1>1 DEF WaveInv
<1> QED
  BY <1>1, <1>2, StateKept

LEMMA WakeKept == ASSUME WaveInv, Wake PROVE WaveInv'
<1>1. StillThere /\ state = "pushed" /\ state' = "running"
  BY DEF Wake, StillThere
<1> QED
  BY <1>1, StateKept

LEMMA WaitKept == ASSUME WaveInv, Wait PROVE WaveInv'
<1>1. /\ state = "running" /\ total_length = -1 /\ Form /\ buff_size \in Nat /\ Unsent
      /\ UNCHANGED <<constVars, buffer_idx, translated, total_length, outside>>
  BY DEF WaveInv, Wait
<1>2. Form' /\ UNCHANGED <<downsamp, format, samples>>
  BY <1>1 DEF Form, constVars
<1>3. CASE buff_size = 0
  <2>1. Finish /\ buff_size' = buff_size
    BY <1>3 DEF Wait
  <2>2. state' = "failed"
    BY <1>1, <2>1 DEF Finish, Unsent
  <2> QED
    BY <1>1, <1>2, <2>1, <2>2, EndedKept
<1>4. CASE buff_size # 0
  <2>1. state' = "pushed" /\ UNCHANGED <<ophase, ooffset, sent, reported>> /\ buff_size' = Grown(buffer_idx)
    BY <1>4 DEF Wait
  <2>2. buff_size' \in Nat /\ buff_size <= buff_size'
    BY <1>1, <2>1, GrownIs DEF Form
  <2>3. /\ buffer_idx = samples /\ outside = 0 /\ buffer_idx <= buff_size /\ BufferSize <= buff_size
        /\ reported \in Reports /\ reported.written = 0 /\ buffer_idx # 0 /\ buffer_idx \in Nat
    BY <1>1, <1>4 DEF WaveInv, Form
  <2>4. buffer_idx' <= buff_size' /\ BufferSize <= buff_size' /\ buff_size' # 0
    BY <1>1, <1>4, <2>2, <2>3, WaveConstants
  <2>5. Spill' = Spill /\ Tight' = Tight /\ (Tight => outside <= Spill)
    BY <1>2, SameFormat DEF WaveInv
  <2>6. Unsent'
    BY <1>1, <2>1 DEF Unsent
  <2>7. Delivered'
    BY <2>1 DEF Delivered
  <2> QED
    BY <1>1, <1>2, <2>1, <2>2, <2>3, <2>4, <2>5, <2>6, <2>7 DEF WaveInv
<1> QED
  BY <1>3, <1>4

\* The part that update_ophase() finds is due, and those before it have been sent.
Found(n, off) ==
  /\ n \in 1..7 /\ off \in Nat
  /\ n \in Parts => Wanted(n) /\ sent[n] = off /\ off < PartLen(n)
  /\ \A p \in Parts : (p < n => sent[p] = Due[p]) /\ (p > n => sent[p] = 0)

LEMMA UpdateFinds ==
  ASSUME WavHdr, Form, Progress
  PROVE  \E n \in 1..7, off \in Nat : update_ophase = <<n, off>> /\ Found(n, off)
<1>1. PICK at \in 1..7 : at = ophase
  BY DEF Progress
<1>2. PICK off \in Nat : off = ooffset
  BY DEF Progress
<1>3. PICK len \in Nat : len = PartLen(at)
  BY PartLenNat
<1>4. /\ at \in Parts => Wanted(at) /\ sent[at] = off
      /\ off <= len /\ sent \in [Parts -> Nat]
      /\ \A p \in Parts : (p < at => sent[p] = Due[p]) /\ (p > at => sent[p] = 0)
  BY <1>1, <1>2, <1>3 DEF Progress
<1> DEFINE S == {AllFlushed} \cup {p \in at + 1..6 : Wanted(p)}
<1>5. update_ophase = IF len > off \/ at = 7 THEN <<at, off>> ELSE <<Min(S), 0>>
  BY <1>1, <1>2, <1>3 DEF update_ophase, AllFlushed
<1>6. at = 7 => len = 0
  BY <1>3, PartLens
<1>7. CASE len > off \/ at = 7
  <2>1. Found(at, off)
    <3>1. at \in Parts => Wanted(at) /\ sent[at] = off /\ off < PartLen(at)
      BY <1>3, <1>4, <1>6, <1>7 DEF Parts
    <3> QED
      BY <1>4, <3>1 DEF Found
  <2> QED
    BY <1>5, <1>7, <2>1
<1>8. CASE ~(len > off \/ at = 7)
  <2>1. at \in Parts /\ len = off
    BY <1>4, <1>8 DEF Parts
  <2>2. sent[at] = Due[at]
    BY <1>3, <1>4, <2>1, WantedIsNot0
  <2>3. S \in SUBSET Nat /\ S # {} /\ S \subseteq 1..7
    BY DEF AllFlushed
  <2> HIDE DEF S
  <2>4. Min(S) \in S /\ \A x \in S : Min(S) <= x
    BY <2>3, Least
  <2>5. PICK n \in S : n = Min(S) /\ \A x \in S : n <= x
    BY <2>4
  <2> USE DEF S
  <2>6. n \in 1..7 /\ at < n /\ (n \in Parts => Wanted(n))
    <3>1. n = 7 \/ (n \in at + 1..6 /\ Wanted(n))
      BY <2>5 DEF AllFlushed
    <3> QED
      BY <1>8, <3>1 DEF Parts
  <2>7. ASSUME NEW p \in Parts PROVE (p < n => sent[p] = Due[p]) /\ (p > n => sent[p] = 0)
    <3>1. p \in Nat /\ p \in 1..6
      BY DEF Parts
    <3>2. CASE p < at
      BY <1>4, <2>6, <3>1, <3>2
    <3>3. CASE p = at
      BY <2>2, <2>6, <3>1, <3>3
    <3>4. CASE p > at
      <4>1. sent[p] = 0
        BY <1>4, <3>4
      <4>2. ASSUME p < n PROVE Due[p] = 0
        <5>1. p \in at + 1..6
          BY <3>1, <3>4
        <5>2. p \notin S
          BY <2>5, <2>6, <3>1, <4>2
        <5>3. ~Wanted(p)
          BY <5>1, <5>2
        <5> QED
          BY <5>3 DEF Due
      <4> QED
        BY <4>1, <4>2
    <3> QED
      BY <3>1, <3>2, <3>3, <3>4
  <2>8. ASSUME n \in Parts PROVE Wanted(n) /\ sent[n] = 0 /\ 0 < PartLen(n)
    BY <1>4, <2>6, <2>8, WantedIsNot0
  <2>9. Found(n, 0)
    BY <2>6, <2>7, <2>8 DEF Found
  <2>10. update_ophase = <<n, 0>>
    BY <1>5, <1>8, <2>5
  <2> QED
    BY <2>6, <2>9, <2>10
<1> QED
  BY <1>7, <1>8

LEMMA FlushKept == ASSUME WavHdr, WaveInv, Flush PROVE WaveInv'
<1>1. /\ state = "running" /\ total_length # -1 /\ Form /\ buff_size \in Nat /\ translated \in BOOLEAN
      /\ ~translated => buff_size = 0
      /\ translated => buff_size # 0 /\ total_length = get_total_len /\ (Kept => reported \in Reports /\ Progress)
      /\ outside \in Nat /\ (Tight => outside <= Spill /\ buffer_idx <= 2 * buff_size + Spill)
  BY DEF WaveInv, Flush
<1>2. UNCHANGED <<constVars, buffer_idx, translated, total_length>>
  BY DEF Flush
<1>3. Form' /\ Kept' = Kept /\ Spill' = Spill /\ Tight' = Tight /\ UNCHANGED <<downsamp, format>>
  BY <1>1, <1>2, SameFormat DEF Form, Kept, constVars
<1>4. get_total_len' = get_total_len /\ Due' = Due
  BY <1>2, SameParts
<1> DEFINE part == update_ophase[1]
           off == update_ophase[2]
           Last == buff_size = 0 \/ part = AllFlushed \/ PartLen(part) <= off
<1>5. IF Last THEN Finish /\ UNCHANGED <<buff_size, outside>>
      ELSE /\ HandOver(part, off, PartLen(part), buffer_idx)
           /\ state' = IF written' = 0 THEN "pushed" ELSE "running"
           /\ outside' = IF part = 2 THEN Beyond(PartLen(part), 2 * buff_size) ELSE outside
  BY Zenon DEF Flush
<1> HIDE DEF part, off, Last
<1>6. buff_size' \in Nat /\ buff_size <= buff_size'
  <2>1. buff_size' = buff_size \/ buff_size' = Grown(buffer_idx)
    BY <1>5 DEF HandOver
  <2> QED
    BY <1>1, <2>1, GrownIs DEF Form
<1>7. ~Last => outside' \in Nat /\ (Tight => outside' <= Spill)
  <2>1. CASE Last \/ part # 2
    BY <1>1, <1>5, <2>1
  <2>2. CASE ~Last /\ part = 2
    <3>1. outside' = Beyond(buffer_idx, 2 * buff_size)
      BY <1>5, <2>2, PartLens
    <3>2. buffer_idx \in Int /\ 2 * buff_size \in Int
      BY <1>1 DEF Form
    <3>3. outside' \in Nat /\ outside' = IF buffer_idx - 2 * buff_size > outside THEN buffer_idx - 2 * buff_size ELSE outside
      BY <1>1, <3>1, <3>2, BeyondIs
    <3>4. Spill \in Int
      BY <1>1, FormatIs
    <3> QED
      BY <1>1, <3>2, <3>3, <3>4
  <2> QED
    BY <2>1, <2>2
<1>8. Tight => buffer_idx' <= 2 * buff_size' + Spill
  <2>1. SUFFICES ASSUME Tight PROVE buffer_idx' <= 2 * buff_size' + Spill
    OBVIOUS
  <2>2. PICK most \in Int, idx \in Nat, old \in Nat, new \in Nat :
          most = Spill /\ idx = buffer_idx /\ old = buff_size /\ new = buff_size'
    BY <1>1, <1>6, FormatIs DEF Form
  <2>3. idx <= 2 * old + most /\ old <= new /\ buffer_idx' = idx
    BY <1>1, <1>2, <1>6, <2>1, <2>2
  <2>4. idx <= 2 * new + most
    BY <2>3
  <2> QED
    BY <2>2, <2>3, <2>4
<1>9. CASE Last /\ state' = "failed"
  BY <1>3, <1>5, <1>6, <1>9, EndedKept
<1>10. CASE Last /\ ~translated
  BY <1>5, <1>9, <1>10 DEF Finish
<1>11. ~translated => Last
  BY <1>1 DEF Last
<1>12. ASSUME translated, ~Last, Kept => reported' \in Reports /\ Progress' PROVE WaveInv'
  <2>1. state' \in {"running", "pushed"}
    BY <1>5, <1>12
  <2>2. translated' /\ translated' \in BOOLEAN /\ total_length' = get_total_len' /\ total_length' # -1
    BY <1>1, <1>2, <1>4, <1>12
  <2>3. Delivered'
    BY <2>1 DEF Delivered
  <2>4. buff_size' # 0
    BY <1>1, <1>6, <1>12
  <2> QED
    BY <1>3, <1>6, <1>7, <1>8, <1>12, <2>1, <2>2, <2>3, <2>4 DEF WaveInv
<1>13. CASE translated /\ ~Kept
  <2>1. CASE Last
    <3>1. state' = "done"
      BY <1>5, <1>13, <2>1 DEF Finish
    <3>2. Delivered'
      BY <1>3, <1>13 DEF Delivered
    <3> QED
      BY <1>3, <1>5, <1>6, <2>1, <3>1, <3>2, EndedKept
  <2> QED
    BY <1>12, <1>13, <2>1
<1>14. CASE translated /\ Kept
  <2>1. buff_size # 0 /\ total_length = get_total_len /\ reported \in Reports /\ Progress
    BY <1>1, <1>14
  <2>2. PICK n \in 1..7, at \in Nat : update_ophase = <<n, at>> /\ Found(n, at)
    BY <1>1, <2>1, UpdateFinds
  <2>3. part = n /\ off = at
    BY <2>2 DEF part, off
  <2>4. PICK len \in Nat : len = PartLen(n)
    BY <1>1, PartLenNat
  <2>5. sent \in [Parts -> Nat] /\ reported.written = Together(sent)
    BY <2>1 DEF Progress
  <2>6. /\ n \in Parts => Wanted(n) /\ sent[n] = at /\ at < len
        /\ \A p \in Parts : (p < n => sent[p] = Due[p]) /\ (p > n => sent[p] = 0)
    BY <2>2, <2>4 DEF Found
  <2>7. CASE n = 7
    <3>1. Last
      BY <2>3, <2>7 DEF AllFlushed, Last
    <3>2. reported' = [reported EXCEPT !.total = total_length] /\ state' = "done" /\ sent' = sent
      BY <1>5, <1>14, <3>1 DEF Finish
    <3>3. \A p \in Parts : sent[p] = Due[p]
      BY <2>6, <2>7 DEF Parts
    <3>4. sent = Due
      BY <1>1, <2>5, <3>3, DueNat
    <3>5. get_total_len \in Nat /\ total_length = get_total_len /\ reported.written = total_length
      BY <1>1, <2>1, <2>5, <3>4, DueNat DEF get_total_len
    <3>6. reported' \in Reports /\ reported'.written = reported'.total
      BY <2>1, <3>2, <3>5 DEF Reports
    <3>7. Delivered'
      BY <1>4, <3>2, <3>4, <3>6 DEF Delivered
    <3> QED
      BY <1>3, <1>5, <1>6, <3>1, <3>2, <3>7, EndedKept
  <2>8. CASE n # 7
    <3>1. n \in Parts /\ at < len
      BY <2>6, <2>8 DEF Parts
    <3>2. ~Last
      BY <2>1, <2>3, <2>4, <2>8, <3>1 DEF Last, AllFlushed
    <3>3. HandOver(n, at, len, buffer_idx)
      BY <1>5, <2>3, <2>4, <3>2
    <3>4. PartLen(n)' = len /\ Wanted(n)'
      BY <1>2, <2>4, <2>6, <3>1, SameParts
    <3>5. \A p \in Parts : (p < n => sent[p] = Due'[p]) /\ (p > n => sent[p] = 0)
      BY <1>4, <2>6
    <3>6. buffer_idx \in Nat
      BY <1>1 DEF Form
    <3>7. sent[n] = at
      BY <2>6, <3>1
    <3>8. reported' \in Reports /\ Progress'
      BY <1>1, <2>1, <2>5, <3>1, <3>3, <3>4, <3>5, <3>6, <3>7, HandOverKept
    <3> QED
      BY <1>12, <1>14, <3>2, <3>8
  <2> QED
    BY <2>7, <2>8
<1> QED
  BY <1>1, <1>10, <1>11, <1>13, <1>14

LEMMA BrkKept == ASSUME WaveInv, Brk PROVE WaveInv'
<1>1. /\ Form /\ buff_size \in Nat /\ state' \in {"failed", "cut"}
      /\ UNCHANGED <<constVars, buff_size, outside>> /\ buffer_idx' \in {buffer_idx, 0}
  BY DEF WaveInv, Brk
<1>2. Form' /\ buff_size' \in Nat /\ UNCHANGED <<downsamp, format>>
  BY <1>1 DEF Form, constVars
<1> QED
  BY <1>1, <1>2, EndedKept

LEMMA WaveInductive == ASSUME WavHdr, WaveInv, [WaveNext]_waveVars PROVE WaveInv'
<1>1. ASSUME UNCHANGED waveVars PROVE WaveInv'
  <2>1. StillThere
    BY <1>1 DEF waveVars, StillThere, constVars
  <2>2. /\ Form' = Form /\ Kept' = Kept /\ Unsent' = Unsent /\ get_total_len' = get_total_len
        /\ Progress => Progress'
    BY <2>1, StillKept
  <2>3. UNCHANGED <<samples, buff_size, buffer_idx, translated, total_length, sent, outside, reported, state>>
    BY <1>1 DEF waveVars
  <2>4. Due' = Due
    BY <2>1, SameParts DEF StillThere
  <2>5. Delivered' = Delivered
    BY <2>2, <2>3, <2>4 DEF Delivered
  <2>6. Spill' = Spill /\ Tight' = Tight
    BY <1>1, SameFormat DEF waveVars
  <2> QED
    BY <2>2, <2>3, <2>5, <2>6 DEF WaveInv
<1>2. ASSUME WaveNext PROVE WaveInv'
  BY <1>2, PutSampleKept, SampleBlockKept, LabelKept, DeliverKept, AttachKept, FlushKept, WaitKept, WakeKept, BrkKept
     DEF WaveNext
<1> QED
  BY <1>1, <1>2

LEMMA WaveStarts == ASSUME WaveInit PROVE WaveInv
<1>1. Form /\ buff_size \in Nat /\ reported \in Reports
  BY DEF WaveInit, Form, Reports
<1>2. Unsent /\ reported.written = 0 /\ Delivered
  BY DEF WaveInit, Unsent, Delivered
<1>3. outside = 0 /\ (Tight => outside <= Spill)
  BY <1>1, FormatIs DEF WaveInit, Tight
<1> QED
  BY <1>1, <1>2, <1>3 DEF WaveInit, WaveInv

\* However samples and labels come, and however little of them a descriptor takes at a time:
\* samples are only ever stored inside the buffer; a translation in place of whatever rate and
\* width, and what is sent of it, exceed it by no more than Spill bytes, none for single bytes;
\* and when a wave form is done all of its parts have been sent to their ends and what was
\* announced is what was sent (sample, waveform.h; oa_wavefm::run, agent.cc; attach, translate,
\* flush, update_ophase, get_total_len, waveform.cc): Sent.
THEOREM WaveFormSent == WavHdr => (WaveSpec => []Sent)
<1>1. SUFFICES ASSUME WavHdr PROVE WaveSpec => []Sent
  OBVIOUS
<1>2. WaveInit => WaveInv
  BY WaveStarts
<1>3. WaveInv /\ [WaveNext]_waveVars => WaveInv'
  BY <1>1, WaveInductive
<1>4. WaveInv => Sent
  BY DEF WaveInv, Sent, Room, Tight
<1> QED
  BY <1>2, <1>3, <1>4, PTL DEF WaveSpec
=============================================================================
