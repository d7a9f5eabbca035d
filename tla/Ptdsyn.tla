------------------------------- MODULE Ptdsyn -------------------------------
(***************************************************************************)
(* The synthesizer that adds windowed impulses up (src/src/ptdsyn.cc): its *)
(* circular buffer, where impulses are put, and what is read from it.  An  *)
(* impulse is known by its number; its samples and the volume are left out.*)
(***************************************************************************)
EXTENDS Integers, Sequences, SequencesExt

CONSTANTS
  N,           \* cells of the buffer
  InitialST,   \* oST of a new buffer
  LabelFiles,  \* of each recorded segment: how many labels its file has, or Missing
  Missing,
  STs,         \* lengths of impulses that the voice may be set to
  Freqs,       \* pitches of segments
  Times,       \* per cent of their time
  Rate,        \* Fvz1
  MaxSynsegs   \* bound: segments that are synthesized

ASSUME PtdAssumption ==
  /\ N \in Nat \ {0} /\ InitialST \in Nat /\ STs \subseteq Nat /\ Rate \in Nat /\ MaxSynsegs \in Nat
  /\ Freqs \subseteq Nat \ {0} /\ Times \subseteq Nat
  /\ \A labels \in LabelFiles : labels = Missing \/ labels \in Nat \ {0}

VARIABLES
  data,      \* cells 0..N-1: the numbers of the impulses that were added to each
  i1, i2,    \* where it is read next, and where the last impulse was put
  oST,       \* the length of that impulse
  segment,   \* what is synthesized, and how many of its impulses were put
  doing,     \* "rest", "add" or "read"
  synsegs,   \* how many segments have been begun
  starts,    \* of every impulse: where in the sound it should start, and its length
  sound      \* the samples made: the impulses that each consists of

ptdVars == <<data, i1, i2, oST, segment, doing, synsegs, starts, sound>>

-----------------------------------------------------------------------------
\* ptdsyn::ptdsyn(): one label too many was counted when the file ended, and the last
\* two are not used.
Pimp(labels) == IF labels = Missing THEN 0 ELSE labels - 1

\* How many impulses a segment takes, which has 10 ms for each that was recorded; and
\* the samples from one to the next.
npimp(pimp, t, f) == (pimp * t * f + 5000) \div 10000
nperiN(f) == Rate \div f

\* analyza(): where each recorded impulse begins.
ta(s) == [i \in 0..s.pimp |-> i * s.ST]

\* modifik(): the recorded impulse that is used next, its length, and how far it is put
\* from the one before, so that their middles are a period apart.
aimp(s) == (s.added * s.pimp) \div s.npimp
sST(s) == ta(s)[aimp(s) + 1] - ta(s)[aimp(s)]
Ind(s, length, before) == (before + 2 * s.nperiN - length) \div 2

\* kbaddST(): i2 goes on; what is less than nothing is taken from N and not added to it.
Wrapped(i) == IF i >= N THEN i - N ELSE i
Moved(ind) == IF Wrapped(i2 + ind) < 0 THEN N - Wrapped(i2 + ind) ELSE Wrapped(i2 + ind)

\* kbadd() of each sample: the impulse lies in the cells from i on, around the end.
Added(i, length, impulse) ==
  [c \in 0..N - 1 |-> IF (c - i) % N < length THEN data[c] \cup {impulse} ELSE data[c]]

\* Mutant: cells that were read are not emptied.
NotEmptied == data

\* kbread()
Emptied == [data EXCEPT ![i1] = {}]
NextCell(i) == IF i < N - 1 THEN i + 1 ELSE 0

-----------------------------------------------------------------------------
PtdInit ==
  /\ data = [c \in 0..N - 1 |-> {}] /\ i1 = 0 /\ i2 = 0 /\ oST = InitialST
  /\ segment = [pimp |-> 0, npimp |-> 0, nperiN |-> 1, ST |-> InitialST, added |-> 0]
  /\ doing = "rest" /\ synsegs = 0 /\ starts = <<>> /\ sound = <<>>

\* The last impulse of the segment ends before the buffer is full, and the first one
\* does not begin before the one that was put last.
Fits(s) ==
  \/ s.npimp = 0
  \/ /\ Ind(s, s.ST, oST) >= 0
     /\ Ind(s, s.ST, oST) + (s.npimp - 1) * s.nperiN + s.ST <= N

Synseg ==
  /\ doing = "rest" /\ synsegs < MaxSynsegs
  /\ \E labels \in LabelFiles, t \in Times, f \in Freqs, ST \in STs :
       segment' = [pimp |-> Pimp(labels), npimp |-> npimp(Pimp(labels), t, f),
                   nperiN |-> nperiN(f), ST |-> ST, added |-> 0]
  /\ Fits(segment')
  /\ doing' = "add" /\ synsegs' = synsegs + 1
  /\ UNCHANGED <<data, i1, i2, oST, starts, sound>>

\* modifik() puts one impulse into the buffer.
Modifik ==
  /\ doing = "add" /\ segment.added < segment.npimp
  /\ LET length == sST(segment)
         ind == Ind(segment, length, oST)
         before == IF segment.added = 0 THEN Len(sound) ELSE Last(starts).at
     IN /\ i2' = Moved(ind)
        /\ data' = Added(i2', length, Len(starts) + 1)
        /\ starts' = Append(starts, [at |-> before + ind, length |-> length])
        /\ oST' = length
  /\ segment' = [segment EXCEPT !.added = @ + 1]
  /\ UNCHANGED <<i1, doing, synsegs, sound>>

\* The loop reads once at least, and up to the beginning of the last impulse.
Kbread ==
  /\ doing = "add" => segment.added = segment.npimp
  /\ doing # "rest"
  /\ sound' = Append(sound, data[i1])
  /\ data' = Emptied
  /\ i1' = NextCell(i1)
  /\ doing' = IF i1' = i2 THEN "rest" ELSE "read"
  /\ UNCHANGED <<i2, oST, segment, synsegs, starts>>

PtdNext == Synseg \/ Modifik \/ Kbread

-----------------------------------------------------------------------------
\* The sound is what one would get without a circular buffer: every impulse is in the
\* samples that it should be in and in no other, though its end may be made with the
\* next segment, and cells are used again for other impulses (kbuffer and synseg(),
\* src/src/ptdsyn.cc:28-71, 232-259).
Overlapped ==
  \A i \in DOMAIN sound :
    sound[i] = {n \in DOMAIN starts : i - 1 \in starts[n].at..starts[n].at + starts[n].length - 1}
=============================================================================
