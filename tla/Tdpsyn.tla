------------------------------- MODULE Tdpsyn -------------------------------
(***************************************************************************)
(* The time domain synthesizer (synseg() of src/src/tdpsyn.cc): which      *)
(* pitch marks of a recorded unit the frames of the sound are taken from,  *)
(* when it is to have another pitch and another duration.  The windows,    *)
(* the samples and the lpc prosody are left out.                           *)
(***************************************************************************)
EXTENDS Integers

CONSTANTS
  Units,        \* units of the inventory: [slen, avpitch]
  Percents,     \* d.t
  Pitches,      \* samp_rate / d.f
  MaxUnits      \* bound: units of a text

\* A unit has a pitch mark at least, and when its duration is changed a sample is left of it:
\* the code divides by what is left.
ASSUME TdpAssumption ==
  /\ Units \subseteq [slen : Nat \ {0}, avpitch : Nat \ {0}]
  /\ Percents \subseteq Int /\ Pitches \subseteq Nat \ {0}
  /\ \A u \in Units, t \in Percents : t > 0 => u.avpitch * u.slen * t >= 100

\* The voice keeps within an octave.
Octave == \A p, q \in Pitches : p <= 2 * q

VARIABLES
  unit,     \* the unit and how it is changed: [slen, pitch, skip, reply, diflen]
  j, k,     \* the pitch mark, and how many times it has been used
  speaking, \* whether the loops over j and k have not ended
  difpos,   \* samples that the frames are off, kept from unit to unit
  units     \* how many units have been started

tdpVars == <<unit, j, k, speaking, difpos, units>>

-----------------------------------------------------------------------------
\* How marks are left out or used again to go from origlen to newlen.
Skip(origlen, newlen) == IF newlen > origlen THEN newlen \div origlen ELSE 1
Reply(origlen, newlen) == IF origlen > newlen THEN origlen \div newlen ELSE 1

\* What each frame puts the marks off by; the division of C is towards zero.
DifLen(slen, pitch, origlen, skip, reply) ==
  LET nlen == slen - ((skip - 1) * slen) \div skip + (reply - 1) * slen
      more == pitch * slen - origlen - ((skip - 1) * slen * pitch) \div skip + (reply - 1) * slen * pitch
  IN IF more >= 0 THEN more \div nlen ELSE -((-more) \div nlen)

Changed(u, t, pitch) ==
  LET origlen == IF t > 0 THEN (u.avpitch * u.slen * t) \div 100 ELSE u.avpitch * u.slen
      skip == Skip(origlen, pitch * u.slen)
      reply == Reply(origlen, pitch * u.slen) IN
  [slen |-> u.slen, pitch |-> pitch, skip |-> skip, reply |-> reply,
   diflen |-> DifLen(u.slen, pitch, origlen, skip, reply)]

Silence == [slen |-> 0, pitch |-> 1, skip |-> 1, reply |-> 1, diflen |-> 0]

TdpInit == unit = Silence /\ j = 1 /\ k = 0 /\ speaking = FALSE /\ difpos = 0 /\ units = 0

StartUnit ==
  /\ ~speaking /\ units < MaxUnits
  /\ \E u \in Units, t \in Percents, pitch \in Pitches : unit' = Changed(u, t, pitch)
  /\ j' = 1 /\ k' = 0 /\ speaking' = TRUE /\ units' = units + 1
  /\ UNCHANGED difpos

\* The frames are late by more than a period: the mark is used again.
Late(d) == d < -unit.pitch
Early(d) == d > unit.pitch

\* Mutants: a frame that is used again, or left out, is not accounted for.
LateForever(d) == IF Early(d) THEN d - unit.pitch ELSE d
EarlyForever(d) == IF Late(d) THEN d + unit.pitch ELSE d
Caught(d) == IF Late(d) THEN d + unit.pitch ELSE IF Early(d) THEN d - unit.pitch ELSE d

\* The loop variables after a frame of a unit whose marks are used once.
Once(d) == [j |-> IF Late(d) THEN j - 1 ELSE IF Early(d) THEN j + 1 ELSE j, k |-> k]

\* And of one whose marks are used several times.
Several(d) ==
  IF Late(d) THEN [j |-> j, k |-> k - 1]
  ELSE IF ~Early(d) THEN [j |-> j, k |-> k]
  ELSE IF k = unit.reply - 1 THEN [j |-> j + 1, k |-> 1]
  ELSE [j |-> j, k |-> k + 1]

Frame ==
  /\ speaking
  /\ LET d == difpos + unit.diflen
         at == IF unit.reply = 1 THEN Once(d) ELSE Several(d) IN
     /\ difpos' = Caught(d)
     /\ IF at.k + 1 < unit.reply
        THEN j' = at.j /\ k' = at.k + 1 /\ UNCHANGED speaking
        ELSE j' = at.j + unit.skip /\ k' = 0 /\ speaking' = (j' <= unit.slen)
  /\ UNCHANGED <<unit, units>>

TdpNext == StartUnit \/ Frame

TdpSpec == TdpInit /\ [][TdpNext]_tdpVars /\ WF_tdpVars(Frame)

-----------------------------------------------------------------------------
\* Every mark that a frame is taken from is one of the unit, or the one after it that an
\* inventory has for average_pitch(), if voices keep within an octave.
Marked == speaking => j \in 1..unit.slen + 1

\* The frames are never off by more than the longest period.
Close == \A p \in Pitches : (\A q \in Pitches : q <= p) => -p <= difpos /\ difpos <= p

\* Marks and frames go together, whatever is said after what (synseg, src/src/tdpsyn.cc:175-277).
InStep == Marked /\ Close

\* However it is stretched, a unit ends.
UnitEnds == []<>~speaking
=============================================================================
