--------------------------- MODULE SessionProofs ----------------------------
(***************************************************************************)
(* Theorems about the three ways in which a session moves bytes: Output,   *)
(* for tasks of any size and number, any divisions into pieces and any     *)
(* number of recoveries; Sgets, for any lines, any space for them and any  *)
(* pieces in which they arrive; and Replier, for any descriptors, clients  *)
(* and strings.                                                            *)
(***************************************************************************)
EXTENDS Sgets, Output, Replier, SequenceTheorems, TLAPS

-----------------------------------------------------------------------------
(* The data connection: a_output.                                          *)

OutTypeOK ==
  /\ size \in Nat /\ written \in Int /\ coded \in Int /\ pieces \in Int
  /\ decoded \in BOOLEAN /\ refused \in BOOLEAN
  /\ wrote \in Seq(Int) /\ total \in Seq(Nat) /\ relaxed \in Nat
  /\ state \in {"idle", "writes", "done", "dead"}
  /\ state \in {"idle", "done"} <=> size = 0

\* What was written of a task is before the place where it goes on, wherever that is.
BeforeWritten ==
  ~refused =>
    /\ written >= 0
    /\ \A i, j \in 1..Len(wrote) : i < j => wrote[i] < wrote[j]
    /\ state = "writes" => \A i \in 1..Len(wrote) : wrote[i] \in 1..size /\ wrote[i] <= written

\* Without recoveries, all that a_output keeps is about the task at hand.
UpToWritten ==
  relaxed = 0 /\ ~refused =>
    /\ wrote = Numbered(0, Len(wrote))
    /\ state \in {"idle", "done"} => written = 0 /\ ~decoded
    /\ state = "done" => total = <<Len(wrote)>> /\ pieces = Len(wrote) /\ coded = 1
    /\ state = "writes" =>
         /\ written < size /\ written = Len(wrote) /\ pieces = written
         /\ total = IF written = 0 THEN <<>> ELSE <<size>>
         /\ decoded <=> written > 0
         /\ coded = IF decoded THEN 1 ELSE 0

OutInv == OutTypeOK /\ BeforeWritten /\ UpToWritten

-----------------------------------------------------------------------------
\* A piece of k bytes; -1 makes none.
LEMMA Piecewise ==
  ASSUME NEW from \in Int, NEW k \in Int, k >= -1
  PROVE  /\ Numbered(from, k) \in Seq(Int)
         /\ Len(Numbered(from, k)) = IF k > 0 THEN k ELSE 0
         /\ \A i \in 1..k : Numbered(from, k)[i] = from + i
<1> DEFINE n == IF k > 0 THEN k ELSE 0
<1>1. n \in Nat /\ 1..k = 1..n
  OBVIOUS
<1>2. Numbered(from, k) = [i \in 1..n |-> from + i]
  BY <1>1 DEF Numbered
<1>3. [i \in 1..n |-> from + i] \in Seq(Int)
  BY <1>1
<1> QED
  BY <1>1, <1>2, <1>3

\* What comes after n bytes from the first on.
LEMMA Counting ==
  ASSUME NEW n \in Nat
  PROVE  /\ Numbered(0, n) \in Seq(Int) /\ Len(Numbered(0, n)) = n
         /\ \A i \in 1..n : Numbered(0, n)[i] = i
<1>1. /\ Numbered(0, n) \in Seq(Int)
      /\ Len(Numbered(0, n)) = IF n > 0 THEN n ELSE 0
      /\ \A i \in 1..n : Numbered(0, n)[i] = 0 + i
  <2>1. n \in Int /\ n >= -1 /\ 0 \in Int
    OBVIOUS
  <2> QED
    BY <2>1, Piecewise
<1> QED
  BY <1>1

LEMMA Continued ==
  ASSUME NEW n \in Nat, NEW k \in Nat
  PROVE  Numbered(0, n) \o Numbered(n, k) = Numbered(0, n + k)
<1>1. /\ Numbered(0, n) \in Seq(Int) /\ Len(Numbered(0, n)) = n
      /\ \A i \in 1..n : Numbered(0, n)[i] = i
  BY Counting
<1>2. /\ Numbered(n, k) \in Seq(Int) /\ Len(Numbered(n, k)) = k
      /\ \A i \in 1..k : Numbered(n, k)[i] = n + i
  <2>1. n \in Int /\ k \in Int /\ k >= -1
    OBVIOUS
  <2>2. /\ Numbered(n, k) \in Seq(Int)
        /\ Len(Numbered(n, k)) = IF k > 0 THEN k ELSE 0
        /\ \A i \in 1..k : Numbered(n, k)[i] = n + i
    BY <2>1, Piecewise
  <2> QED
    BY <2>2
<1>3. /\ Numbered(0, n + k) \in Seq(Int) /\ Len(Numbered(0, n + k)) = n + k
      /\ \A i \in 1..n + k : Numbered(0, n + k)[i] = i
  <2>1. n + k \in Nat
    OBVIOUS
  <2> QED
    BY <2>1, Counting
<1>4. /\ Numbered(0, n) \o Numbered(n, k) \in Seq(Int)
      /\ Len(Numbered(0, n) \o Numbered(n, k)) = n + k
      /\ \A i \in 1..n + k : (Numbered(0, n) \o Numbered(n, k))[i] =
                               IF i <= n THEN Numbered(0, n)[i] ELSE Numbered(n, k)[i - n]
  <2> DEFINE s == Numbered(0, n)
             t == Numbered(n, k)
  <2>1. s \in Seq(Int) /\ t \in Seq(Int) /\ Len(s) = n /\ Len(t) = k
    BY <1>1, <1>2
  <2> HIDE DEF s, t
  <2>2. /\ s \o t \in Seq(Int) /\ Len(s \o t) = n + k
        /\ \A i \in 1..n + k : (s \o t)[i] = IF i <= n THEN s[i] ELSE t[i - n]
    BY <2>1, ConcatProperties
  <2> QED
    BY <2>2 DEF s, t
<1>5. ASSUME NEW i \in 1..n + k PROVE (Numbered(0, n) \o Numbered(n, k))[i] = i
  <2>1. CASE i <= n
    BY <1>1, <1>4, <2>1
  <2>2. CASE i > n
    <3>1. i - n \in 1..k
      BY <2>2
    <3>2. Numbered(n, k)[i - n] = n + (i - n)
      BY <1>2, <3>1
    <3>3. n + (i - n) = i /\ ~(i <= n)
      BY <2>2
    <3>4. (Numbered(0, n) \o Numbered(n, k))[i] = Numbered(n, k)[i - n]
      BY <1>4, <3>3
    <3> QED
      BY <3>2, <3>3, <3>4
  <2>3. i <= n \/ i > n
    OBVIOUS
  <2> QED
    BY <2>1, <2>2, <2>3
<1> QED
  BY <1>3, <1>4, <1>5, SeqEqual

-----------------------------------------------------------------------------
LEMMA OutInvInit == ASSUME OutputInit PROVE OutInv
<1>1. Numbered(0, 0) = <<>>
  BY Piecewise, EmptySeq
<1>2. OutTypeOK
  <2>1. wrote \in Seq(Int) /\ total \in Seq(Nat)
    BY EmptySeq, Zenon DEF OutputInit
  <2>2. /\ size = 0 /\ written = 0 /\ coded = 0 /\ pieces = 0 /\ relaxed = 0 /\ state = "idle"
    BY DEF OutputInit
  <2>3. decoded \in BOOLEAN /\ refused \in BOOLEAN
    BY Zenon DEF OutputInit
  <2>4. /\ size \in Nat /\ written \in Int /\ coded \in Int /\ pieces \in Int /\ relaxed \in Nat
        /\ state \in {"idle", "writes", "done", "dead"}
        /\ state \in {"idle", "done"} <=> size = 0
    BY <2>2
  <2> QED
    BY <2>1, <2>3, <2>4, Zenon DEF OutTypeOK
<1>3. BeforeWritten
  BY DEF OutputInit, BeforeWritten
<1>4. UpToWritten
  BY <1>1 DEF OutputInit, UpToWritten
<1> QED
  BY <1>2, <1>3, <1>4 DEF OutInv

LEMMA GivePreserves == ASSUME OutInv, Give PROVE OutInv'
<1>1. Numbered(0, 0) = <<>>
  BY Piecewise, EmptySeq
<1>2. size' \in Nat /\ size' > 0
  BY OutputAssumption DEF Give
<1>3. OutTypeOK'
  BY <1>2 DEF OutInv, OutTypeOK, Give
<1>4. BeforeWritten'
  BY <1>2 DEF OutInv, OutTypeOK, BeforeWritten, Give
<1>5. UpToWritten'
  BY <1>1, <1>2 DEF OutInv, OutTypeOK, UpToWritten, Give
<1> QED
  BY <1>3, <1>4, <1>5 DEF OutInv

\* A piece, whatever of it was taken.
LEMMA WrotePreserves ==
  ASSUME OutInv, NEW polled \in BOOLEAN, state = "writes",
         NEW k \in Results(size - written, polled), Wrote(k),
         refused' = (refused \/ (k = -1 /\ written < size)), relaxed' = relaxed
  PROVE  OutInv'
<1> USE DEF OutInv
<1>1. /\ k \in Int /\ k >= -1 /\ size \in Nat /\ size > 0 /\ written \in Int
      /\ written < size => k = -1 \/ (k > 0 /\ k <= size - written)
      /\ written = size => k = 0
      /\ written > size => k = -1
  BY DEF Results, OutTypeOK
<1>2. /\ Numbered(written, k) \in Seq(Int)
      /\ Len(Numbered(written, k)) = IF k > 0 THEN k ELSE 0
      /\ \A i \in 1..k : Numbered(written, k)[i] = written + i
  BY <1>1, Piecewise
<1>3. /\ wrote' = wrote \o Numbered(written, k) /\ wrote' \in Seq(Int)
      /\ Len(wrote') = Len(wrote) + Len(Numbered(written, k))
      /\ \A i \in 1..Len(wrote') : wrote'[i] =
           IF i <= Len(wrote) THEN wrote[i] ELSE Numbered(written, k)[i - Len(wrote)]
  <2> DEFINE more == Numbered(written, k)
  <2>1. wrote' = wrote \o more
    BY DEF Wrote, From
  <2>2. wrote \in Seq(Int) /\ more \in Seq(Int)
    BY <1>2 DEF OutTypeOK
  <2> HIDE DEF more
  <2>3. /\ wrote \o more \in Seq(Int) /\ Len(wrote \o more) = Len(wrote) + Len(more)
        /\ \A i \in 1..Len(wrote) + Len(more) :
             (wrote \o more)[i] = IF i <= Len(wrote) THEN wrote[i] ELSE more[i - Len(wrote)]
    BY <2>2, ConcatProperties
  <2> QED
    BY <2>1, <2>3 DEF more
<1>4. Len(wrote) \in Nat
  BY LenProperties DEF OutTypeOK
<1>5. OutTypeOK'
  <2>1. total' \in Seq(Nat)
    BY AppendProperties DEF Wrote, OutTypeOK
  <2>2. coded' \in Int /\ pieces' \in Int
    BY <1>1 DEF Wrote, OutTypeOK, Piece
  <2>4. decoded' \in BOOLEAN
    BY DEF Wrote, Decoded
  <2>5. refused' \in BOOLEAN
    OBVIOUS
  <2>3. /\ size' \in Nat /\ written' \in Int /\ state' \in {"writes", "done"}
        /\ state' = "done" <=> size' = 0
    BY <1>1 DEF Wrote, WrittenReset
  <2> QED
    BY <1>3, <2>1, <2>2, <2>3, <2>4, <2>5 DEF OutTypeOK
<1>6. BeforeWritten'
  <2> SUFFICES ASSUME ~refused' PROVE
        /\ written' >= 0
        /\ \A i, j \in 1..Len(wrote') : i < j => wrote'[i] < wrote'[j]
        /\ state' = "writes" => \A i \in 1..Len(wrote') : wrote'[i] \in 1..size' /\ wrote'[i] <= written'
    BY DEF BeforeWritten
  <2>1. /\ ~refused /\ written >= 0
        /\ \A i, j \in 1..Len(wrote) : i < j => wrote[i] < wrote[j]
        /\ \A i \in 1..Len(wrote) : wrote[i] \in 1..size /\ wrote[i] <= written
    BY DEF BeforeWritten
  <2>2. written < size => k > 0 /\ k <= size - written
    BY <1>1
  <2>3. \/ /\ written + k = size /\ written' = 0 /\ state' = "done"
        \/ /\ written + k # size /\ written' = written + k /\ size' = size
    BY DEF Wrote, WrittenReset
  <2>4. written' >= 0
    BY <1>1, <2>1, <2>2, <2>3
  <2>5. CASE k <= 0
    <3>1. Len(wrote') = Len(wrote) /\ \A i \in 1..Len(wrote) : wrote'[i] = wrote[i]
      BY <1>2, <1>3, <1>4, <2>5
    <3>2. ASSUME state' = "writes" PROVE \A i \in 1..Len(wrote') : wrote'[i] \in 1..size' /\ wrote'[i] <= written'
      <4>1. written' = written + k /\ size' = size /\ written' >= size
        BY <1>1, <2>2, <2>3, <2>5, <3>2
      <4> QED
        BY <1>1, <2>1, <3>1, <4>1
    <3> QED
      BY <2>1, <2>4, <3>1, <3>2
  <2>6. CASE k > 0
    <3>1. Len(wrote') = Len(wrote) + k
      BY <1>2, <1>3, <2>6
    <3>2. \A i \in 1..Len(wrote) : wrote'[i] = wrote[i]
      BY <1>1, <1>3, <1>4, <3>1
    <3>3. ASSUME NEW i \in 1..Len(wrote'), i > Len(wrote)
          PROVE  wrote'[i] = written + i - Len(wrote)
      <4>1. i - Len(wrote) \in 1..k
        BY <1>1, <1>4, <3>1, <3>3
      <4>2. wrote'[i] = Numbered(written, k)[i - Len(wrote)]
        BY <1>3, <1>4, <3>3
      <4>3. Numbered(written, k)[i - Len(wrote)] = written + (i - Len(wrote))
        BY <1>2, <4>1
      <4> QED
        BY <1>1, <1>4, <4>1, <4>2, <4>3
    <3>4. ASSUME NEW i \in 1..Len(wrote'), NEW j \in 1..Len(wrote'), i < j
          PROVE  wrote'[i] < wrote'[j]
      <4>1. CASE j <= Len(wrote)
        BY <1>4, <2>1, <3>1, <3>2, <3>4, <4>1
      <4>2. CASE j > Len(wrote) /\ i <= Len(wrote)
        <5>1. wrote'[i] = wrote[i] /\ wrote[i] <= written /\ wrote[i] \in Int
          BY <1>4, <2>1, <3>2, <4>2
        <5> QED
          BY <1>1, <1>4, <3>3, <4>2, <5>1
      <4>3. CASE i > Len(wrote)
        BY <1>1, <1>4, <3>1, <3>3, <3>4, <4>3
      <4> QED
        BY <1>4, <3>1, <4>1, <4>2, <4>3
    <3>5. ASSUME state' = "writes", NEW i \in 1..Len(wrote')
          PROVE  wrote'[i] \in 1..size' /\ wrote'[i] <= written'
      <4>1. written' = written + k /\ size' = size /\ written' <= size
        BY <1>1, <2>2, <2>3, <2>6, <3>5
      <4>2. CASE i <= Len(wrote)
        BY <1>1, <1>4, <2>1, <2>6, <3>2, <4>1, <4>2
      <4>3. CASE i > Len(wrote)
        BY <1>1, <1>4, <2>1, <3>1, <3>3, <4>1, <4>3
      <4> QED
        BY <1>4, <3>1, <4>2, <4>3
    <3> QED
      BY <2>4, <3>4, <3>5
  <2> QED
    BY <1>1, <2>5, <2>6
<1>7. UpToWritten'
  <2> SUFFICES ASSUME relaxed' = 0, ~refused' PROVE
        /\ wrote' = Numbered(0, Len(wrote'))
        /\ state' \in {"idle", "done"} => written' = 0 /\ ~decoded'
        /\ state' = "done" => total' = <<Len(wrote')>> /\ pieces' = Len(wrote') /\ coded' = 1
        /\ state' = "writes" =>
             /\ written' < size' /\ written' = Len(wrote') /\ pieces' = written'
             /\ total' = IF written' = 0 THEN <<>> ELSE <<size'>>
             /\ decoded' <=> written' > 0
             /\ coded' = IF decoded' THEN 1 ELSE 0
    BY DEF UpToWritten
  <2>1. /\ ~refused /\ wrote = Numbered(0, Len(wrote))
        /\ written < size /\ written = Len(wrote) /\ pieces = written
        /\ total = IF written = 0 THEN <<>> ELSE <<size>>
        /\ decoded <=> written > 0
        /\ coded = IF decoded THEN 1 ELSE 0
    BY DEF UpToWritten
  <2>2. k \in Nat /\ k > 0 /\ k <= size - written
    <3>1. ~(k = -1 /\ written < size)
      OBVIOUS
    <3> QED
      BY <1>1, <2>1, <3>1
  <2>3. Len(wrote') = written + k /\ wrote' = Numbered(0, Len(wrote'))
    BY <1>2, <1>3, <1>4, <2>1, <2>2, Continued
  <2>4. pieces' = Len(wrote')
    BY <2>1, <2>3 DEF Wrote, Piece
  <2>5. total' = <<size>>
    BY <2>1, <2>2 DEF Wrote
  <2>6. coded' = 1
    BY <2>1 DEF Wrote
  <2>7. \/ /\ written + k = size /\ written' = 0 /\ ~decoded' /\ state' = "done"
        \/ /\ written + k < size /\ written' = written + k /\ decoded' /\ size' = size
           /\ state' = "writes"
    BY <1>1, <2>2 DEF Wrote, WrittenReset, Decoded
  <2> QED
    BY <1>1, <1>4, <2>1, <2>2, <2>3, <2>4, <2>5, <2>6, <2>7
<1> QED
  BY <1>5, <1>6, <1>7

LEMMA SlicePreserves ==
  ASSUME OutInv, NEW polled \in BOOLEAN, NEW z, Slice(polled, z), relaxed' = relaxed, state # "dead"
  PROVE  OutInv'
<1>1. CASE size = 0
  BY <1>1 DEF Slice, OutInv, OutTypeOK, BeforeWritten, UpToWritten
<1>2. CASE size # 0
  <2>1. state = "writes"
    BY <1>2 DEF OutInv, OutTypeOK
  <2>2. PICK k \in Results(size - written, polled) :
          Wrote(k) /\ refused' = (refused \/ (k = -1 /\ written < size))
    BY <1>2 DEF Slice
  <2> QED
    BY <2>1, <2>2, WrotePreserves
<1> QED
  BY <1>1, <1>2

LEMMA RelaxPreserves == ASSUME OutInv, Relax PROVE OutInv'
  BY DEF Relax, OutInv, OutTypeOK, BeforeWritten, UpToWritten

LEMMA OutInvStep == ASSUME OutInv, [OutputNext]_outputVars PROVE OutInv'
<1>1. CASE UNCHANGED outputVars
  BY <1>1 DEF outputVars, OutInv, OutTypeOK, BeforeWritten, UpToWritten
<1>2. CASE Timeslice
  <2>1. CASE size # 0 /\ sleeping
    <3>1. /\ state' = "dead"
          /\ UNCHANGED <<size, written, decoded, coded, wrote, total, pieces, refused, relaxed>>
      BY <1>2, <2>1 DEF Timeslice
    <3> QED
      BY <2>1, <3>1 DEF OutInv, OutTypeOK, BeforeWritten, UpToWritten
  <2>2. CASE ~(size # 0 /\ sleeping)
    <3>1. Slice(FALSE, sleeping) /\ relaxed' = relaxed /\ state # "dead"
      BY <1>2, <2>2 DEF Timeslice
    <3> QED
      BY <3>1, SlicePreserves
  <2> QED
    BY <2>1, <2>2
<1>3. CASE WakeUp
  <2>1. Slice(TRUE, FALSE) /\ relaxed' = relaxed /\ state # "dead"
    BY <1>3 DEF WakeUp
  <2> QED
    BY <2>1, SlicePreserves, Zenon
<1> QED
  BY <1>1, <1>2, <1>3, GivePreserves, RelaxPreserves DEF OutputNext

\* What a_output counts is what it wrote, as long as it was not relaxed, and is never
\* less than what it wrote if it was.
THEOREM OutputInvariant == OutputSpec => []OutInv
<1>1. OutputInit => OutInv
  BY OutInvInit
<1>2. OutInv /\ [OutputNext]_outputVars => OutInv'
  BY OutInvStep
<1> QED
  BY <1>1, <1>2, PTL DEF OutputSpec

\* The client gets what was announced to it, and nothing from beyond a task, for tasks of
\* every size (a_output::run, src/src/agent.cc:662-693).
THEOREM TasksWritten == OutputSpec => []Written
<1>1. OutInv => Written
  <2> SUFFICES ASSUME OutInv PROVE Exact /\ Within
    BY DEF Written
  <2>1. DOMAIN wrote = 1..Len(wrote)
    BY LenProperties DEF OutInv, OutTypeOK
  <2>2. Within
    BY <2>1 DEF OutInv, BeforeWritten, Within
  <2>3. Exact
    BY DEF OutInv, UpToWritten, Exact
  <2> QED
    BY <2>2, <2>3
<1> QED
  BY <1>1, OutputInvariant, PTL

-----------------------------------------------------------------------------
(* What has not been given to run_command yet.                             *)

\* Where line k begins in u, the m bytes that are held back or were not read yet, is
\* p[k]; c is the first of the n lines that has not been cut out, and r bytes of u are
\* not the client's: the remark that a line that was given up has become.
Frame(n, r, c, p) == n \in Nat /\ c \in 1..n + 1 /\ p \in [Int -> Int] /\ r \in {0, 1}
Follow(ls, n, c, p) == \A k \in c..n : p[k + 1] = p[k] + ls[k] + 1
Apart(ls, n, c, p) == \A j, k \in c..n + 1 : j < k => p[j] + ls[j] + 1 <= p[k]
Ended(u, ls, n, c, p) == \A k \in c..n : u[p[k] + ls[k]] = End
Filled(u, m, ls, n, r, c, p) ==
  \A k \in c..n, i \in 1..m : r < i /\ p[k] <= i /\ i < p[k] + ls[k] => u[i] = k
Begun(u, ls, n, r, c, p) ==
  /\ r = 0 => p[c] = 1
  /\ r = 1 => u[1] = Remark /\ p[c] <= 2 /\ c <= n /\ p[c] + ls[c] >= 2 /\ ls[c] >= Space

Sizes(ls, n) == \A k \in 1..n : ls[k] \in Nat

Layout(u, m, ls, n, r, c, p) ==
  /\ Frame(n, r, c, p) /\ p[n + 1] = m + 1
  /\ Follow(ls, n, c, p) /\ Apart(ls, n, c, p)
  /\ Ended(u, ls, n, c, p) /\ Filled(u, m, ls, n, r, c, p) /\ Begun(u, ls, n, r, c, p)

Laid(u, m, ls, n, r, c) == \E p \in [Int -> Int] : Layout(u, m, ls, n, r, c, p)

\* The first line ends at e; what of it is in u comes before.
LineAt(u, m, ls, n, r, c, e) ==
  /\ c \in 1..n /\ ls[c] \in Nat /\ e \in 1..m /\ u[e] = End
  /\ \A j \in 1..e - 1 : u[j] # End /\ (r < j => u[j] = c)

\* The first end of a line in u is that of the first line.
LEMMA LineEnd ==
  ASSUME NEW m \in Nat, NEW n \in Nat, NEW u, NEW ls, Sizes(ls, n), NEW r \in {0, 1}, NEW c \in 1..n + 1, NEW p \in [Int -> Int],
         Layout(u, m, ls, n, r, c, p), c # n + 1
  PROVE  LineAt(u, m, ls, n, r, c, p[c] + ls[c])
<1>1. c \in 1..n /\ r \in {0, 1} /\ p \in [Int -> Int]
  BY DEF Layout, Frame
<1>2. ls[c] \in Nat /\ p[c] \in Int
  BY <1>1 DEF Sizes
<1>3. p[c] + ls[c] >= 1
  BY <1>1, <1>2 DEF Layout, Begun
<1>4. p[c] + ls[c] <= m
  <2>1. c \in c..n + 1 /\ n + 1 \in c..n + 1 /\ c < n + 1
    BY <1>1
  <2>2. p[c] + ls[c] + 1 <= p[n + 1]
    BY <2>1 DEF Layout, Apart
  <2>3. p[n + 1] = m + 1
    BY DEF Layout
  <2> QED
    BY <1>2, <2>2, <2>3
<1>5. c \in c..n
  BY <1>1
<1>6. u[p[c] + ls[c]] = End
  BY <1>5 DEF Layout, Ended
<1>7. ASSUME NEW j \in 1..p[c] + ls[c] - 1 PROVE u[j] # End /\ (r < j => u[j] = c)
  <2>1. CASE r < j
    <3>1. p[c] <= j
      BY <1>1, <1>2, <2>1 DEF Layout, Begun
    <3>2. j < p[c] + ls[c] /\ j \in 1..m
      BY <1>2, <1>4
    <3>3. u[j] = c
      BY <1>5, <2>1, <3>1, <3>2 DEF Layout, Filled
    <3> QED
      BY <1>1, <3>3 DEF End
  <2>2. CASE ~(r < j)
    <3>1. r = 1 /\ j = 1
      BY <1>1, <1>2, <2>2
    <3>2. u[1] = Remark
      BY <3>1 DEF Layout, Begun
    <3> QED
      BY <2>2, <3>1, <3>2 DEF Remark, End
  <2> QED
    BY <2>1, <2>2
<1> QED
  BY <1>1, <1>2, <1>3, <1>4, <1>6, <1>7 DEF LineAt

LEMMA NoLine ==
  ASSUME NEW m \in Nat, NEW n \in Nat, NEW u, NEW ls, NEW r \in {0, 1}, NEW p \in [Int -> Int], Layout(u, m, ls, n, r, n + 1, p)
  PROVE  m = 0 /\ r = 0
<1>1. r = 0
  BY DEF Layout, Frame, Begun
<1>2. p[n + 1] = 1 /\ p[n + 1] = m + 1
  BY <1>1 DEF Layout, Begun
<1> QED
  BY <1>1, <1>2

\* The lines behind the first d bytes of u.
Moved(m, ls, n, b, p, q, d) ==
  /\ \A k \in Int : q[k] = p[k] - d
  /\ q[n + 1] = (m - d) + 1 /\ Follow(ls, n, b, q) /\ Apart(ls, n, b, q)

LEMMA Shifted ==
  ASSUME NEW m \in Nat, NEW n \in Nat, NEW u, NEW ls, Sizes(ls, n), NEW r \in {0, 1}, NEW c \in 1..n + 1, NEW p \in [Int -> Int],
         Layout(u, m, ls, n, r, c, p), NEW d \in Int, NEW b \in c..n + 1,
         NEW q \in [Int -> Int], q = [k \in Int |-> p[k] - d]
  PROVE  Moved(m, ls, n, b, p, q, d)
<1>1. c \in 1..n + 1 /\ p \in [Int -> Int]
  BY DEF Layout, Frame
<1>2. q \in [Int -> Int] /\ \A k \in Int : q[k] = p[k] - d /\ p[k] \in Int
  BY <1>1
<1>3. q[n + 1] = (m - d) + 1
  BY <1>2 DEF Layout
<1>4. \A k \in b..n : k \in c..n /\ k \in Int /\ k + 1 \in Int /\ ls[k] \in Nat
  BY <1>1 DEF Sizes
<1>5. Follow(ls, n, b, q)
  BY <1>2, <1>4 DEF Layout, Follow
<1>6. ASSUME NEW j \in b..n + 1, NEW k \in b..n + 1, j < k PROVE q[j] + ls[j] + 1 <= q[k]
  <2>1. j \in c..n + 1 /\ k \in c..n + 1 /\ j \in Int /\ k \in Int /\ ls[j] \in Nat
    BY <1>1, <1>6 DEF Sizes
  <2>2. p[j] + ls[j] + 1 <= p[k]
    BY <1>6, <2>1 DEF Layout, Apart
  <2> QED
    BY <1>2, <2>1, <2>2
<1>7. Apart(ls, n, b, q)
  BY <1>6 DEF Apart
<1> QED
  BY <1>2, <1>3, <1>5, <1>7 DEF Moved

\* The first line is cut out.
LEMMA LayoutCut ==
  ASSUME NEW m \in Nat, NEW n \in Nat, NEW u, NEW ls, Sizes(ls, n), NEW r \in {0, 1}, NEW c \in 1..n + 1, NEW p \in [Int -> Int],
         Layout(u, m, ls, n, r, c, p), c # n + 1, NEW v, NEW e \in Int, e = p[c] + ls[c],
         \A i \in 1..m - e : v[i] = u[i + e]
  PROVE  Laid(v, m - e, ls, n, 0, c + 1)
<1> DEFINE q == [k \in Int |-> p[k] - e]
<1>1. /\ c \in 1..n /\ e \in 1..m /\ p \in [Int -> Int] /\ r \in {0, 1}
      /\ p[n + 1] = m + 1 /\ p[c] \in Int /\ ls[c] \in Nat
  <2>1. c \in 1..n /\ ls[c] \in Nat /\ p[c] \in Int /\ p[c] + ls[c] \in 1..m
    <3>1. LineAt(u, m, ls, n, r, c, e)
      BY LineEnd, SMTT(30)
    <3> QED
      BY <3>1 DEF LineAt
  <2>2. p[n + 1] = m + 1
    BY DEF Layout
  <2> QED
    BY <2>1, <2>2
<1>2. /\ q \in [Int -> Int] /\ \A k \in Int : q[k] = p[k] - e
      /\ q[n + 1] = (m - e) + 1
      /\ Follow(ls, n, c + 1, q) /\ Apart(ls, n, c + 1, q)
  <2>1. q \in [Int -> Int]
    BY <1>1
  <2>2. c + 1 \in c..n + 1
    BY <1>1
  <2> HIDE DEF q
  <2>3. q = [k \in Int |-> p[k] - e]
    BY DEF q
  <2>4. Moved(m, ls, n, c + 1, p, q, e)
    BY <2>1, <2>2, <2>3, Shifted
  <2> QED
    BY <2>1, <2>4 DEF Moved
<1> HIDE DEF q
<1>3. q[c + 1] = 1
  <2>1. p[c + 1] = p[c] + ls[c] + 1
    BY <1>1 DEF Layout, Follow
  <2> QED
    BY <1>1, <1>2, <2>1
<1>4. ASSUME NEW k \in c + 1 .. n
      PROVE  /\ v[q[k] + ls[k]] = End
             /\ \A i \in 1..m - e : q[k] <= i /\ i < q[k] + ls[k] => v[i] = k
  <2>1. k \in c..n /\ k \in Int /\ ls[k] \in Nat /\ p[k] \in Int /\ q[k] = p[k] - e
    BY <1>1, <1>2 DEF Sizes
  <2>2. e + 1 <= p[k]
    <3>1. c \in c..n + 1 /\ k \in c..n + 1 /\ c < k
      BY <1>1
    <3>2. p[c] + ls[c] + 1 <= p[k]
      BY <3>1 DEF Layout, Apart
    <3> QED
      BY <3>2
  <2>3. p[k] + ls[k] <= m
    <3>1. k \in c..n + 1 /\ n + 1 \in c..n + 1 /\ k < n + 1
      BY <1>1
    <3>2. p[k] + ls[k] + 1 <= p[n + 1]
      BY <3>1 DEF Layout, Apart
    <3> QED
      BY <1>1, <2>1, <3>2
  <2>4. u[p[k] + ls[k]] = End
    BY <2>1 DEF Layout, Ended
  <2>5. q[k] + ls[k] \in 1..m - e /\ (q[k] + ls[k]) + e = p[k] + ls[k]
    BY <1>1, <2>1, <2>2, <2>3
  <2>6. v[q[k] + ls[k]] = End
    BY <2>4, <2>5
  <2>7. ASSUME NEW i \in 1..m - e, q[k] <= i, i < q[k] + ls[k] PROVE v[i] = k
    <3>1. i + e \in 1..m /\ p[k] <= i + e /\ i + e < p[k] + ls[k] /\ r < i + e
      BY <1>1, <2>1, <2>2, <2>7
    <3>2. u[i + e] = k
      BY <2>1, <3>1 DEF Layout, Filled
    <3> QED
      BY <3>2
  <2> QED
    BY <2>6, <2>7
<1>5. Ended(v, ls, n, c + 1, q) /\ Filled(v, m - e, ls, n, 0, c + 1, q)
  BY <1>4 DEF Ended, Filled
<1>6. Frame(n, 0, c + 1, q) /\ Begun(v, ls, n, 0, c + 1, q)
  BY <1>1, <1>2, <1>3 DEF Frame, Begun
<1>7. Layout(v, m - e, ls, n, 0, c + 1, q)
  BY <1>2, <1>5, <1>6 DEF Layout
<1> QED
  BY <1>2, <1>7 DEF Laid

\* The end of every line is in u, and behind that of the first.
LEMMA EndInside ==
  ASSUME NEW m \in Nat, NEW n \in Nat, NEW u, NEW ls, Sizes(ls, n), NEW r \in {0, 1},
         NEW c \in 1..n + 1, NEW p \in [Int -> Int],
         Layout(u, m, ls, n, r, c, p), NEW k \in c..n
  PROVE  p[k] + ls[k] \in p[c] + ls[c] .. m /\ (k # c => p[k] > p[c] + ls[c])
<1>1. LineAt(u, m, ls, n, r, c, p[c] + ls[c])
  BY LineEnd
<1>2. /\ c \in 1..n /\ ls[c] \in Nat /\ ls[k] \in Nat /\ p[k] \in Int /\ p[c] \in Int
      /\ k \in 1..n /\ p[n + 1] = m + 1
  BY <1>1 DEF LineAt, Sizes, Layout
<1>3. p[k] + ls[k] <= m
  <2>1. k \in c..n + 1 /\ n + 1 \in c..n + 1 /\ k < n + 1
    BY <1>2
  <2>2. p[k] + ls[k] + 1 <= p[n + 1]
    BY <2>1 DEF Layout, Apart
  <2> QED
    BY <1>2, <2>2
<1>4. CASE k = c
  BY <1>2, <1>3, <1>4
<1>5. CASE k # c
  <2>1. c \in c..n + 1 /\ k \in c..n + 1 /\ c < k
    BY <1>2, <1>5
  <2>2. p[c] + ls[c] + 1 <= p[k]
    BY <2>1 DEF Layout, Apart
  <2> QED
    BY <1>2, <1>3, <2>2
<1> QED
  BY <1>4, <1>5

EndsIn(m, ls, n, c, p) == \A k \in c..n : p[k] + ls[k] \in 1..m

LEMMA EndsInside ==
  ASSUME NEW m \in Nat, NEW n \in Nat, NEW u, NEW ls, Sizes(ls, n), NEW r \in {0, 1},
         NEW c \in 1..n + 1, NEW p \in [Int -> Int], Layout(u, m, ls, n, r, c, p)
  PROVE  EndsIn(m, ls, n, c, p)
<1>1. ASSUME NEW k \in c..n PROVE p[k] + ls[k] \in 1..m
  <2>1. p[k] + ls[k] \in p[c] + ls[c] .. m
    BY EndInside
  <2>2. LineAt(u, m, ls, n, r, c, p[c] + ls[c])
    BY LineEnd
  <2>3. p[c] + ls[c] \in 1..m
    BY <2>2 DEF LineAt
  <2> QED
    BY <2>1, <2>3
<1> QED
  BY <1>1 DEF EndsIn

\* The first t bytes of u have no end and make room for a remark.
LEMMA LayoutGivenUp ==
  ASSUME NEW m \in Nat, NEW n \in Nat, NEW u, NEW ls, Sizes(ls, n), NEW r \in {0, 1},
         NEW c \in 1..n + 1, NEW p \in [Int -> Int],
         Layout(u, m, ls, n, r, c, p), c # n + 1, NEW v, NEW t \in Nat, t < p[c] + ls[c],
         t >= Space, v[1] = Remark, \A i \in 2..m - (t - 1) : v[i] = u[i + (t - 1)]
  PROVE  Laid(v, m - (t - 1), ls, n, 1, c)
<1> DEFINE d == t - 1
           q == [k \in Int |-> p[k] - d]
<1>1. LineAt(u, m, ls, n, r, c, p[c] + ls[c])
  BY LineEnd
<1>2. /\ c \in 1..n /\ ls[c] \in Nat /\ p[c] \in Int /\ p[n + 1] = m + 1
      /\ d \in Nat /\ p[c] + ls[c] >= d + 2 /\ Space \in Nat
  BY <1>1, SgetsAssumption DEF LineAt, Layout
<1>3. q \in [Int -> Int]
  BY <1>2
<1>4. c \in c..n + 1 /\ d \in Int
  BY <1>2
<1>5. q = [k \in Int |-> p[k] - d]
  OBVIOUS
<1>6. d = t - 1
  OBVIOUS
<1> HIDE DEF d, q
<1>7. Moved(m, ls, n, c, p, q, d)
  BY <1>3, <1>4, <1>5, Shifted
<1>8. ASSUME NEW k \in c..n
      PROVE  /\ v[q[k] + ls[k]] = End
             /\ \A i \in 1..m - d : 1 < i /\ q[k] <= i /\ i < q[k] + ls[k] => v[i] = k
  <2>1. p[k] + ls[k] \in p[c] + ls[c] .. m
    BY EndInside, ZenonT(30)
  <2>2. k \in Int /\ ls[k] \in Nat /\ p[k] \in Int /\ q[k] = p[k] - d
    BY <1>2, <1>7 DEF Sizes, Moved
  <2>3. q[k] + ls[k] \in 2..m - d /\ (q[k] + ls[k]) + d = p[k] + ls[k]
    BY <1>2, <2>1, <2>2
  <2>4. u[p[k] + ls[k]] = End
    BY DEF Layout, Ended
  <2>5. v[q[k] + ls[k]] = End
    BY <1>6, <2>3, <2>4
  <2>6. ASSUME NEW i \in 1..m - d, 1 < i, q[k] <= i, i < q[k] + ls[k] PROVE v[i] = k
    <3>1. i \in 2..m - d /\ i + d \in 1..m /\ p[k] <= i + d /\ i + d < p[k] + ls[k] /\ r < i + d
      BY <1>2, <2>1, <2>2, <2>6
    <3>2. u[i + d] = k
      BY <3>1 DEF Layout, Filled
    <3> QED
      BY <1>6, <3>1, <3>2
  <2> QED
    BY <2>5, <2>6
<1>9. Ended(v, ls, n, c, q) /\ Filled(v, m - d, ls, n, 1, c, q)
  BY <1>8 DEF Ended, Filled
<1>10. Begun(v, ls, n, 1, c, q)
  <2>1. q[c] = p[c] - d
    BY <1>2, <1>7 DEF Moved
  <2>2. p[c] <= 2 /\ ls[c] >= Space
    <3>1. CASE r = 0
      <4>1. p[c] = 1
        BY <3>1 DEF Layout, Begun
      <4> QED
        BY <1>2, <4>1
    <3>2. CASE r = 1
      BY <3>2 DEF Layout, Begun
    <3> QED
      BY <3>1, <3>2
  <2>3. q[c] <= 2 /\ c <= n /\ q[c] + ls[c] >= 2
    BY <1>2, <2>1, <2>2
  <2> QED
    BY <2>2, <2>3 DEF Begun
<1>11. Frame(n, 1, c, q) /\ q[n + 1] = (m - d) + 1
  BY <1>2, <1>3, <1>7 DEF Frame, Moved
<1>12. Layout(v, m - d, ls, n, 1, c, q)
  BY <1>7, <1>9, <1>10, <1>11 DEF Layout, Moved
<1> QED
  BY <1>3, <1>6, <1>12 DEF Laid

\* The client sends a line of z bytes.
OneMore(ls, lt, n, z) == lt[n + 1] = z /\ \A k \in 1..n : lt[k] = ls[k]
Grew(u, m, v, n, z) ==
  /\ \A i \in 1..m : v[i] = u[i]
  /\ \A i \in m + 1 .. m + z : v[i] = n + 1
  /\ v[m + z + 1] = End

LEMMA LayoutSent ==
  ASSUME NEW m \in Nat, NEW n \in Nat, NEW u, NEW ls, Sizes(ls, n), NEW r \in {0, 1},
         NEW c \in 1..n + 1, NEW p \in [Int -> Int],
         Layout(u, m, ls, n, r, c, p), NEW v, NEW z \in Nat, NEW lt,
         OneMore(ls, lt, n, z), Grew(u, m, v, n, z)
  PROVE  Laid(v, m + z + 1, lt, n + 1, r, c)
<1> DEFINE q == [k \in Int |-> IF k = n + 2 THEN m + z + 2 ELSE p[k]]
<1>0. /\ lt[n + 1] = z /\ v[m + z + 1] = End
      /\ \A i \in 1..m : v[i] = u[i]
      /\ \A i \in m + 1 .. m + z : v[i] = n + 1
  BY DEF OneMore, Grew
<1>1. q \in [Int -> Int]
  OBVIOUS
<1>2. q[n + 2] = m + z + 2 /\ \A k \in c..n + 1 : q[k] = p[k] /\ p[k] \in Int
  OBVIOUS
<1> HIDE DEF q
<1>3. p[n + 1] = m + 1
  BY DEF Layout
<1>4. \A k \in c..n : lt[k] = ls[k] /\ ls[k] \in Nat
  BY DEF Sizes, OneMore
<1>5. \A k \in c..n : p[k] + ls[k] \in 1..m
  <2>1. EndsIn(m, ls, n, c, p)
    BY EndsInside
  <2> QED
    BY <2>1 DEF EndsIn
<1>6. Follow(lt, n + 1, c, q)
  <2>1. ASSUME NEW k \in c..n + 1 PROVE q[k + 1] = q[k] + lt[k] + 1
    <3>1. CASE k = n + 1
      BY <1>0, <1>2, <1>3, <3>1
    <3>2. CASE k # n + 1
      <4>1. k \in c..n /\ k + 1 \in c..n + 1
        BY <3>2
      <4>2. p[k + 1] = p[k] + ls[k] + 1
        BY <4>1 DEF Layout, Follow
      <4> QED
        BY <1>2, <1>4, <4>1, <4>2
    <3> QED
      BY <3>1, <3>2
  <2> QED
    BY <2>1 DEF Follow
<1>7. Apart(lt, n + 1, c, q)
  <2>1. ASSUME NEW j \in c..(n + 1) + 1, NEW k \in c..(n + 1) + 1, j < k
        PROVE  q[j] + lt[j] + 1 <= q[k]
    <3>1. CASE k = n + 2 /\ j = n + 1
      BY <1>0, <1>2, <1>3, <3>1
    <3>2. CASE k = n + 2 /\ j # n + 1
      <4>1. j \in c..n /\ j \in c..n + 1
        BY <2>1, <3>2
      <4>2. p[j] + ls[j] \in 1..m
        BY <1>5, <4>1
      <4> QED
        BY <1>2, <1>4, <3>2, <4>1, <4>2
    <3>3. CASE k # n + 2
      <4>1. j \in c..n /\ j \in c..n + 1 /\ k \in c..n + 1
        BY <2>1, <3>3
      <4>2. p[j] + ls[j] + 1 <= p[k]
        BY <2>1, <4>1 DEF Layout, Apart
      <4> QED
        BY <1>2, <1>4, <4>1, <4>2
    <3> QED
      BY <3>1, <3>2, <3>3
  <2> QED
    BY <2>1 DEF Apart
<1>8. ASSUME NEW k \in c..n + 1
      PROVE  /\ v[q[k] + lt[k]] = End
             /\ \A i \in 1..m + z + 1 : r < i /\ q[k] <= i /\ i < q[k] + lt[k] => v[i] = k
  <2>1. CASE k = n + 1
    <3>1. q[k] = m + 1 /\ lt[k] = z
      BY <1>0, <1>2, <1>3, <2>1
    <3>2. q[k] + lt[k] = m + z + 1
      BY <3>1
    <3>3. \A i \in 1..m + z + 1 : q[k] <= i /\ i < q[k] + lt[k] => i \in m + 1 .. m + z
      BY <3>1
    <3> QED
      BY <1>0, <2>1, <3>2, <3>3
  <2>2. CASE k # n + 1
    <3>1. k \in c..n
      BY <2>2
    <3>2. q[k] = p[k] /\ lt[k] = ls[k] /\ p[k] + ls[k] \in 1..m /\ p[k] \in Int /\ ls[k] \in Nat
      BY <1>2, <1>4, <1>5, <3>1
    <3>3. u[p[k] + ls[k]] = End
      BY <3>1 DEF Layout, Ended
    <3>4. ASSUME NEW i \in 1..m + z + 1, r < i, q[k] <= i, i < q[k] + lt[k] PROVE v[i] = k
      <4>1. i \in 1..m /\ p[k] <= i /\ i < p[k] + ls[k]
        BY <3>2, <3>4
      <4>2. u[i] = k
        BY <3>1, <3>4, <4>1 DEF Layout, Filled
      <4> QED
        BY <1>0, <4>1, <4>2
    <3> QED
      BY <1>0, <3>2, <3>3, <3>4
  <2> QED
    BY <2>1, <2>2
<1>9. Ended(v, lt, n + 1, c, q) /\ Filled(v, m + z + 1, lt, n + 1, r, c, q)
  BY <1>8 DEF Ended, Filled
<1>10. Begun(v, lt, n + 1, r, c, q)
  <2>1. q[c] = p[c]
    BY <1>2
  <2>2. CASE r = 0
    BY <2>1, <2>2 DEF Layout, Begun
  <2>3. CASE r = 1
    <3>1. u[1] = Remark /\ p[c] <= 2 /\ c <= n /\ p[c] + ls[c] >= 2 /\ ls[c] >= Space
      BY <2>3 DEF Layout, Begun
    <3>2. c \in c..n
      BY <3>1
    <3>3. lt[c] = ls[c] /\ p[c] + ls[c] \in 1..m
      BY <1>4, <1>5, <3>2
    <3>4. v[1] = u[1] /\ c <= n + 1
      BY <1>0, <3>3
    <3> QED
      BY <2>1, <2>3, <3>1, <3>3, <3>4 DEF Begun
  <2> QED
    BY <2>2, <2>3
<1>11. Frame(n + 1, r, c, q) /\ q[(n + 1) + 1] = (m + z + 1) + 1
  BY <1>1, <1>2 DEF Frame
<1>12. Layout(v, m + z + 1, lt, n + 1, r, c, q)
  BY <1>6, <1>7, <1>9, <1>10, <1>11 DEF Layout
<1> QED
  BY <1>1, <1>12 DEF Laid

-----------------------------------------------------------------------------
(* The invariant of sgets().                                               *)

SgTypeOK ==
  /\ lengths \in Seq(Nat) /\ net \in Seq(Int) /\ part \in Seq(Int) /\ ran \in Seq(Seq(Int))
  /\ Len(part) < Space

\* Line c is the first one that has not been cut out of what is held back and not read.
Unread(c) ==
  \E r \in {0, 1} : Laid(part \o net, Len(part \o net), lengths, Len(lengths), r, c)

\* What was run is of the lines before; what fits of them was run.
Below(c) ==
  \A i \in 1..Len(ran) : /\ Len(ran[i]) >= 1
                         /\ \A j \in 1..Len(ran[i]) : ran[i][j] = Remark \/ ran[i][j] \in 1..c - 1
Done(c) == \A k \in 1..c - 1 : Fits(k) => \E i \in 1..Len(ran) : ran[i] = LineBytes(k, lengths[k])

\* Whole and InOrder, said of positions.
Intact ==
  \A i \in 1..Len(ran) :
    ran[i][1] = Remark \/ (Fits(ran[i][1]) /\ ran[i] = LineBytes(ran[i][1], lengths[ran[i][1]]))
Ordered ==
  \A i, j \in 1..Len(ran) : i < j =>
    \A a \in 1..Len(ran[i]), b \in 1..Len(ran[j]) :
      ran[i][a] # Remark /\ ran[j][b] # Remark => ran[i][a] < ran[j][b]

CutTo(c) == Unread(c) /\ Below(c) /\ Done(c) /\ Intact /\ Ordered
LinesInv == SgTypeOK /\ \E c \in 1..Len(lengths) + 1 : CutTo(c)

LEMMA LineBytesSeq ==
  ASSUME NEW k \in Int, NEW n \in Nat
  PROVE  /\ LineBytes(k, n) \in Seq(Int) /\ Len(LineBytes(k, n)) = n
         /\ \A i \in 1..n : LineBytes(k, n)[i] = k
  BY DEF LineBytes

LEMMA SizesOfSeq ==
  ASSUME NEW ls \in Seq(Nat) PROVE Sizes(ls, Len(ls)) /\ Len(ls) \in Nat
  BY LenProperties, ElementOfSeq DEF Sizes

LEMMA LinesInit == ASSUME SgetsInit PROVE LinesInv
<1> DEFINE p == [k \in Int |-> k]
<1>1. lengths = <<>> /\ net = <<>> /\ part = <<>> /\ ran = <<>>
  BY DEF SgetsInit
<1>2. Len(<<>>) = 0 /\ <<>> \o <<>> = <<>>
  BY EmptySeq, ConcatEmptySeq
<1>3. SgTypeOK
  BY <1>1, <1>2, EmptySeq, SgetsAssumption DEF SgTypeOK
<1>4. p \in [Int -> Int] /\ \A k \in Int : p[k] = k
  OBVIOUS
<1> HIDE DEF p
<1>5. Layout(<<>>, 0, <<>>, 0, 0, 1, p)
  <2>1. Frame(0, 0, 1, p) /\ p[0 + 1] = 0 + 1
    BY <1>4 DEF Frame
  <2>2. Follow(<<>>, 0, 1, p) /\ Ended(<<>>, <<>>, 0, 1, p) /\ Filled(<<>>, 0, <<>>, 0, 0, 1, p)
    BY DEF Follow, Ended, Filled
  <2>3. Apart(<<>>, 0, 1, p)
    BY DEF Apart
  <2>4. Begun(<<>>, <<>>, 0, 0, 1, p)
    BY <1>4 DEF Begun
  <2> QED
    BY <2>1, <2>2, <2>3, <2>4 DEF Layout
<1>6. Unread(1)
  BY <1>1, <1>2, <1>4, <1>5 DEF Unread, Laid
<1>7. Below(1) /\ Done(1) /\ Intact /\ Ordered
  BY <1>1, <1>2 DEF Below, Done, Intact, Ordered
<1>8. 1 \in 1..Len(lengths) + 1
  BY <1>1, <1>2
<1> QED
  BY <1>3, <1>6, <1>7, <1>8 DEF LinesInv, CutTo

LEMMA Appended ==
  ASSUME NEW x \in Seq(Int), NEW b \in Int
  PROVE  /\ x \o <<b>> \in Seq(Int) /\ Len(x) \in Nat /\ Len(x \o <<b>>) = Len(x) + 1
         /\ \A i \in 1..Len(x) : (x \o <<b>>)[i] = x[i]
         /\ (x \o <<b>>)[Len(x) + 1] = b
<1> DEFINE y == <<b>>
<1>1. y \in Seq(Int) /\ Len(y) = 1 /\ y[1] = b /\ Len(x) \in Nat
  BY LenProperties
<1> HIDE DEF y
<1>2. /\ x \o y \in Seq(Int) /\ Len(x \o y) = Len(x) + Len(y)
      /\ \A i \in 1..Len(x) + Len(y) : (x \o y)[i] = IF i <= Len(x) THEN x[i] ELSE y[i - Len(x)]
  BY <1>1, ConcatProperties
<1>3. /\ x \o y \in Seq(Int) /\ Len(x \o y) = Len(x) + 1
      /\ \A i \in 1..Len(x) : (x \o y)[i] = x[i]
      /\ (x \o y)[Len(x) + 1] = b
  BY <1>1, <1>2
<1> QED
  BY <1>1, <1>3 DEF y

LEMMA GluedAnyhow ==
  ASSUME NEW s \in Seq(Int), NEW t \in Seq(Int), NEW u \in Seq(Int)
  PROVE  (s \o t) \o u = s \o (t \o u)
  BY ConcatAssociative, SMTT(30)

\* A line of z bytes is put behind the bytes u.
LEMMA LineSent ==
  ASSUME NEW u \in Seq(Int), NEW n \in Nat, NEW z \in Nat, NEW v,
         v = u \o (LineBytes(n + 1, z) \o <<End>>)
  PROVE  v \in Seq(Int) /\ Len(v) = Len(u) + z + 1 /\ Len(u) \in Nat /\ Grew(u, Len(u), v, n, z)
<1> DEFINE x == LineBytes(n + 1, z)
           w == x \o <<End>>
<1>1. x \in Seq(Int) /\ Len(x) = z /\ \A i \in 1..z : x[i] = n + 1
  <2>1. n + 1 \in Int
    OBVIOUS
  <2> QED
    BY <2>1, LineBytesSeq
<1>2. End \in Int
  BY DEF End
<1> HIDE DEF x
<1>3. /\ w \in Seq(Int) /\ Len(w) = z + 1 /\ w[z + 1] = End
      /\ \A i \in 1..z : w[i] = n + 1
  BY <1>1, <1>2, Appended
<1>4. v = u \o w /\ Len(u) \in Nat
  BY LenProperties DEF x
<1> HIDE DEF w
<1>5. /\ v \in Seq(Int) /\ Len(v) = Len(u) + Len(w)
      /\ \A i \in 1..Len(u) + Len(w) : v[i] = IF i <= Len(u) THEN u[i] ELSE w[i - Len(u)]
  <2>1. w \in Seq(Int)
    BY <1>3
  <2>2. /\ u \o w \in Seq(Int) /\ Len(u \o w) = Len(u) + Len(w)
        /\ \A i \in 1..Len(u) + Len(w) : (u \o w)[i] = IF i <= Len(u) THEN u[i] ELSE w[i - Len(u)]
    BY <2>1, ConcatProperties
  <2> QED
    BY <1>4, <2>2
<1>6. \A i \in 1..Len(u) : v[i] = u[i]
  BY <1>3, <1>4, <1>5
<1>7. ASSUME NEW i \in Len(u) + 1 .. Len(u) + z PROVE v[i] = n + 1
  <2>1. i \in 1..Len(u) + Len(w) /\ ~(i <= Len(u)) /\ i - Len(u) \in 1..z
    BY <1>3, <1>4
  <2>2. v[i] = w[i - Len(u)]
    BY <1>5, <2>1
  <2> QED
    BY <1>3, <2>1, <2>2
<1>8. v[Len(u) + z + 1] = End
  <2>1. Len(u) + z + 1 \in 1..Len(u) + Len(w) /\ ~(Len(u) + z + 1 <= Len(u))
        /\ (Len(u) + z + 1) - Len(u) = z + 1
    BY <1>3, <1>4
  <2> QED
    BY <1>3, <1>5, <2>1
<1>9. Grew(u, Len(u), v, n, z)
  BY <1>6, <1>7, <1>8 DEF Grew
<1>10. v \in Seq(Int) /\ Len(v) = Len(u) + z + 1
  BY <1>3, <1>4, <1>5
<1> QED
  BY <1>4, <1>9, <1>10, Zenon

\* The client sends a line.
LEMMA SendPreserves == ASSUME LinesInv, SendLine PROVE LinesInv'
<1> DEFINE n == Len(lengths)
           u == part \o net
           v == part' \o net'
<1>1. PICK z \in Nat :
        /\ lengths' = Append(lengths, z)
        /\ net' = net \o LineBytes(n + 1, z) \o <<End>>
  BY SgetsAssumption DEF SendLine
<1>2. UNCHANGED <<part, ran>>
  BY DEF SendLine
<1>3. SgTypeOK /\ n \in Nat /\ Sizes(lengths, n)
  BY SizesOfSeq DEF LinesInv, SgTypeOK
<1>4. PICK c \in 1..n + 1 : CutTo(c)
  BY DEF LinesInv
<1>5. lengths' \in Seq(Nat) /\ Len(lengths') = n + 1 /\ OneMore(lengths, lengths', n, z)
  BY <1>1, <1>3 DEF SgTypeOK, OneMore
<1>6. /\ u \in Seq(Int) /\ Len(u) \in Nat /\ v \in Seq(Int) /\ net' \in Seq(Int)
      /\ Len(v) = Len(u) + z + 1 /\ Grew(u, Len(u), v, n, z)
  <2> DEFINE x == LineBytes(n + 1, z)
             w == x \o <<End>>
  <2>1. part \in Seq(Int) /\ net \in Seq(Int) /\ u \in Seq(Int)
    BY <1>3, ConcatProperties DEF SgTypeOK
  <2>2. x \in Seq(Int) /\ <<End>> \in Seq(Int) /\ w \in Seq(Int)
    <3>1. x \in Seq(Int) /\ End \in Int
      BY <1>3, LineBytesSeq DEF End
    <3> HIDE DEF x
    <3> QED
      BY <3>1, Appended
  <2>3. net' = (net \o x) \o <<End>>
    BY <1>1
  <2>4. net' = net \o w
    BY <2>1, <2>2, <2>3, GluedAnyhow, ZenonT(30)
  <2>5. net' \in Seq(Int)
    BY <2>1, <2>2, <2>4, ConcatProperties
  <2>6. v = u \o w
    <3> HIDE DEF w
    <3> QED
      BY <1>2, <2>1, <2>2, <2>4, GluedAnyhow, ZenonT(30)
  <2> HIDE DEF u, v, n
  <2>7. v \in Seq(Int) /\ Len(v) = Len(u) + z + 1 /\ Len(u) \in Nat /\ Grew(u, Len(u), v, n, z)
    <3>1. v = u \o (LineBytes(n + 1, z) \o <<End>>)
      BY <2>6
    <3>2. u \in Seq(Int) /\ n \in Nat
      BY <1>3, <2>1
    <3> QED
      BY <3>1, <3>2, LineSent, ZenonT(30)
  <2> QED
    BY <2>1, <2>5, <2>7
<1>7. SgTypeOK'
  BY <1>2, <1>3, <1>5, <1>6 DEF SgTypeOK
<1>8. PICK r \in {0, 1} : Laid(u, Len(u), lengths, n, r, c)
  BY <1>4 DEF CutTo, Unread
<1> HIDE DEF n, u, v
<1>9. Laid(v, Len(u) + z + 1, lengths', n + 1, r, c)
  <2>1. Len(u) \in Nat /\ n \in Nat /\ Sizes(lengths, n) /\ c \in 1..n + 1
    BY <1>3, <1>6 DEF n
  <2>2. OneMore(lengths, lengths', n, z) /\ Grew(u, Len(u), v, n, z)
    BY <1>5, <1>6
  <2>3. PICK p \in [Int -> Int] : Layout(u, Len(u), lengths, n, r, c, p)
    BY <1>8 DEF Laid
  <2> QED
    BY <2>1, <2>2, <2>3, LayoutSent
<1>10. Unread(c)'
  BY <1>5, <1>6, <1>9 DEF Unread, v
<1>11. \A k \in 1..n : lengths'[k] = lengths[k] /\ (Fits(k)' <=> Fits(k))
  BY <1>5 DEF Fits, OneMore
<1>12. Below(c)' /\ Ordered'
  BY <1>2, <1>4 DEF CutTo, Below, Ordered
<1>13. Done(c)'
  <2>1. ASSUME NEW k \in 1..c - 1, Fits(k)'
        PROVE  \E i \in 1..Len(ran) : ran[i] = LineBytes(k, lengths'[k])
    <3>1. k \in 1..n
      BY <1>3
    <3>2. Fits(k) /\ lengths'[k] = lengths[k]
      BY <1>11, <2>1, <3>1
    <3> QED
      BY <1>4, <3>2 DEF CutTo, Done
  <2> QED
    BY <1>2, <2>1 DEF Done
<1>14. Intact'
  <2>1. ASSUME NEW i \in 1..Len(ran), ran[i][1] # Remark PROVE ran[i][1] \in 1..n
    <3>1. Len(ran[i]) >= 1 /\ \A j \in 1..Len(ran[i]) : ran[i][j] = Remark \/ ran[i][j] \in 1..c - 1
      BY <1>4 DEF CutTo, Below
    <3>2. ran[i] \in Seq(Int)
      BY <1>3, ElementOfSeq DEF SgTypeOK
    <3>3. 1 \in 1..Len(ran[i])
      BY <3>1, <3>2, LenProperties
    <3>4. ran[i][1] \in 1..c - 1
      BY <2>1, <3>1, <3>3
    <3>5. \A x \in 1..c - 1 : x \in 1..n
      BY <1>3
    <3> QED
      BY <3>4, <3>5
  <2> QED
    BY <1>2, <1>4, <1>11, <2>1 DEF CutTo, Intact
<1>15. c \in 1..Len(lengths') + 1
  BY <1>3, <1>5 DEF n
<1> QED
  BY <1>7, <1>10, <1>12, <1>13, <1>14, <1>15 DEF LinesInv, CutTo

-----------------------------------------------------------------------------
(* Cutting.                                                                *)

LEMMA FirstEndIs ==
  ASSUME NEW s \in Seq(Int), NEW e \in 1..Len(s), s[e] = End, \A j \in 1..e - 1 : s[j] # End
  PROVE  HasLine(s) /\ FirstEnd(s) = e
<1>1. HasLine(s)
  BY DEF HasLine
<1>2. Len(s) \in Nat
  BY LenProperties
<1>3. ASSUME NEW i \in 1..Len(s), s[i] = End, \A j \in 1..i - 1 : s[j] # End PROVE i = e
  <2>1. ~(e < i) /\ ~(i < e)
    BY <1>2, <1>3
  <2> QED
    BY <1>2, <2>1
<1>4. \E i \in 1..Len(s) : s[i] = End /\ \A j \in 1..i - 1 : s[j] # End
  OBVIOUS
<1> QED
  BY <1>1, <1>3, <1>4 DEF FirstEnd

\* w \o rest is what s \o rest becomes when e bytes are taken away, and line is what they
\* are without the last.
Removed(s, rest, e, w, line) ==
  /\ w \in Seq(Int) /\ line \in Seq(Int) /\ Len(w) = Len(s) - e /\ Len(line) = e - 1
  /\ Len(w \o rest) = Len(s \o rest) - e /\ Len(s \o rest) = Len(s) + Len(rest)
  /\ \A j \in 1..Len(s) : (s \o rest)[j] = s[j]
  /\ \A j \in 1..e - 1 : line[j] = s[j]
  /\ \A i \in 1..Len(s \o rest) - e : (w \o rest)[i] = (s \o rest)[i + e]

LEMMA TakenAway ==
  ASSUME NEW s \in Seq(Int), NEW rest \in Seq(Int), NEW e \in 1..Len(s)
  PROVE  Removed(s, rest, e, SubSeq(s, e + 1, Len(s)), SubSeq(s, 1, e - 1))
<1> DEFINE w == SubSeq(s, e + 1, Len(s))
           line == SubSeq(s, 1, e - 1)
<1>1. Len(s) \in Nat /\ Len(rest) \in Nat /\ \A i \in 1..Len(s) : s[i] \in Int
  BY LenProperties, ElementOfSeq
<1>2. w \in Seq(Int) /\ Len(w) = Len(s) - e /\ \A i \in 1..Len(s) - e : w[i] = s[i + e]
  <2>1. e + 1 \in Int /\ Len(s) \in Int /\ \A i \in e + 1 .. Len(s) : s[i] \in Int
    BY <1>1
  <2>2. /\ w \in Seq(Int) /\ Len(w) = IF e + 1 <= Len(s) THEN Len(s) - (e + 1) + 1 ELSE 0
        /\ \A i \in 1..Len(s) - (e + 1) + 1 : w[i] = s[(e + 1) + i - 1]
    <3> DEFINE a == e + 1
    <3>1. a \in Int /\ Len(s) \in Int /\ \A i \in a..Len(s) : s[i] \in Int
      BY <2>1
    <3> HIDE DEF a
    <3>2. /\ SubSeq(s, a, Len(s)) \in Seq(Int)
          /\ Len(SubSeq(s, a, Len(s))) = IF a <= Len(s) THEN Len(s) - a + 1 ELSE 0
          /\ \A i \in 1..Len(s) - a + 1 : SubSeq(s, a, Len(s))[i] = s[a + i - 1]
      BY <3>1, SubSeqProperties
    <3> QED
      BY <3>2 DEF a
  <2> HIDE DEF w
  <2>3. \A i \in 1..Len(s) - e : (e + 1) + i - 1 = i + e /\ i \in 1..Len(s) - (e + 1) + 1
    BY <1>1
  <2>4. Len(w) = Len(s) - e
    BY <1>1, <2>2
  <2> QED
    BY <2>2, <2>3, <2>4
<1>3. line \in Seq(Int) /\ Len(line) = e - 1 /\ \A j \in 1..e - 1 : line[j] = s[j]
  <2>1. 1 \in Int /\ e - 1 \in Int /\ \A i \in 1..e - 1 : s[i] \in Int
    BY <1>1
  <2>2. /\ line \in Seq(Int) /\ Len(line) = IF 1 <= e - 1 THEN (e - 1) - 1 + 1 ELSE 0
        /\ \A i \in 1..(e - 1) - 1 + 1 : line[i] = s[1 + i - 1]
    BY <2>1, SubSeqProperties
  <2> HIDE DEF line
  <2>3. \A i \in 1..e - 1 : 1 + i - 1 = i /\ i \in 1..(e - 1) - 1 + 1
    BY <1>1
  <2>4. Len(line) = e - 1
    BY <1>1, <2>2
  <2> QED
    BY <2>2, <2>3, <2>4
<1> HIDE DEF w, line
<1>4. /\ Len(s \o rest) = Len(s) + Len(rest)
      /\ \A i \in 1..Len(s) + Len(rest) :
           (s \o rest)[i] = IF i <= Len(s) THEN s[i] ELSE rest[i - Len(s)]
  BY ConcatProperties
<1>5. /\ Len(w \o rest) = Len(w) + Len(rest)
      /\ \A i \in 1..Len(w) + Len(rest) :
           (w \o rest)[i] = IF i <= Len(w) THEN w[i] ELSE rest[i - Len(w)]
  BY <1>2, ConcatProperties
<1>6. Len(w \o rest) = Len(s \o rest) - e
  BY <1>1, <1>2, <1>4, <1>5
<1>7. \A j \in 1..Len(s) : (s \o rest)[j] = s[j]
  BY <1>1, <1>4
<1>8. ASSUME NEW i \in 1..Len(s \o rest) - e PROVE (w \o rest)[i] = (s \o rest)[i + e]
  <2>1. i \in 1..Len(w) + Len(rest) /\ i + e \in 1..Len(s) + Len(rest)
    BY <1>1, <1>2, <1>4
  <2>2. CASE i <= Len(w)
    <3>1. (w \o rest)[i] = w[i] /\ i \in 1..Len(s) - e /\ i + e <= Len(s)
      BY <1>1, <1>2, <1>5, <2>1, <2>2
    <3>2. w[i] = s[i + e] /\ (s \o rest)[i + e] = s[i + e]
      BY <1>2, <1>4, <2>1, <3>1
    <3> QED
      BY <3>1, <3>2
  <2>3. CASE ~(i <= Len(w))
    <3>1. (w \o rest)[i] = rest[i - Len(w)] /\ ~(i + e <= Len(s)) /\ (i + e) - Len(s) = i - Len(w)
      BY <1>1, <1>2, <1>5, <2>1, <2>3, SMTT(30)
    <3>2. (s \o rest)[i + e] = rest[(i + e) - Len(s)]
      BY <1>4, <2>1, <3>1
    <3> QED
      BY <3>1, <3>2
  <2> QED
    BY <2>2, <2>3
<1> QED
  BY <1>2, <1>3, <1>4, <1>6, <1>7, <1>8 DEF Removed, w, line

\* What is cut out is line c or what is left of it, behind the remark.
Cutting(line, c) ==
  /\ line \in Seq(Int)
  /\ \/ lengths[c] < Space /\ line = LineBytes(c, lengths[c])
     \/ /\ lengths[c] >= Space /\ Len(line) >= 1 /\ line[1] = Remark
        /\ \A j \in 1..Len(line) : line[j] = Remark \/ line[j] = c

LEMMA LineRun ==
  ASSUME SgTypeOK, NEW c \in 1..Len(lengths), CutTo(c), NEW line, Cutting(line, c),
         ran' = (IF line = <<>> THEN ran ELSE Append(ran, line)), UNCHANGED lengths
  PROVE  ran' \in Seq(Seq(Int)) /\ Below(c + 1)' /\ Done(c + 1)' /\ Intact' /\ Ordered'
<1>1. /\ lengths \in Seq(Nat) /\ ran \in Seq(Seq(Int)) /\ lengths[c] \in Nat /\ c \in Nat \ {0}
      /\ Len(ran) \in Nat /\ Space \in Nat
  BY ElementOfSeq, LenProperties, SgetsAssumption DEF SgTypeOK
<1>2. Below(c) /\ Done(c) /\ Intact /\ Ordered
  BY DEF CutTo
<1>3. line \in Seq(Int) /\ Len(line) \in Nat /\ (line = <<>> <=> Len(line) = 0)
  BY LenProperties, EmptySeq DEF Cutting
<1>4. /\ \A j \in 1..Len(line) : line[j] = Remark \/ line[j] = c
      /\ lengths[c] \in 1..Space - 1 => line = LineBytes(c, lengths[c])
      /\ Len(line) >= 1 => line[1] = Remark
                           \/ (line[1] = c /\ lengths[c] \in 1..Space - 1 /\ line = LineBytes(c, lengths[c]))
  <2>1. CASE lengths[c] < Space /\ line = LineBytes(c, lengths[c])
    <3>1. Len(line) = lengths[c] /\ \A j \in 1..lengths[c] : line[j] = c
      <4>1. c \in Int /\ lengths[c] \in Nat
        BY <1>1
      <4>2. /\ Len(LineBytes(c, lengths[c])) = lengths[c]
            /\ \A j \in 1..lengths[c] : LineBytes(c, lengths[c])[j] = c
        BY <4>1, LineBytesSeq
      <4> QED
        BY <2>1, <4>2
    <3>2. Len(line) >= 1 => line[1] = c /\ lengths[c] \in 1..Space - 1
      BY <1>1, <2>1, <3>1
    <3> QED
      BY <2>1, <3>1, <3>2
  <2>2. CASE /\ lengths[c] >= Space /\ Len(line) >= 1 /\ line[1] = Remark
             /\ \A j \in 1..Len(line) : line[j] = Remark \/ line[j] = c
    <3>1. lengths[c] \notin 1..Space - 1
      BY <1>1, <2>2
    <3> QED
      BY <2>2, <3>1
  <2> QED
    BY <2>1, <2>2 DEF Cutting
<1>5. \A k \in 1..Len(lengths) : lengths'[k] = lengths[k]
  OBVIOUS
<1>6. \A k : Fits(k)' <=> Fits(k)
  BY DEF Fits
<1>7. CASE line = <<>>
  <2>1. ran' = ran
    BY <1>7
  <2>2. ~Fits(c)
    <3>1. ASSUME lengths[c] \in 1..Space - 1 PROVE FALSE
      <4>1. Len(line) = lengths[c]
        <5>1. c \in Int /\ line = LineBytes(c, lengths[c])
          BY <1>1, <1>4, <3>1
        <5>2. Len(LineBytes(c, lengths[c])) = lengths[c]
          BY <1>1, <5>1, LineBytesSeq
        <5> QED
          BY <5>1, <5>2
      <4> QED
        BY <1>3, <1>7, <3>1, <4>1
    <3> QED
      BY <3>1 DEF Fits
  <2>3. Below(c + 1)'
    <3>1. \A x \in 1..c - 1 : x \in 1..(c + 1) - 1
      BY <1>1
    <3> QED
      BY <1>2, <2>1, <3>1 DEF Below
  <2>4. Done(c + 1)'
    <3>1. \A k \in 1..(c + 1) - 1 : k = c \/ k \in 1..c - 1
      BY <1>1
    <3> QED
      BY <1>2, <1>6, <2>1, <2>2, <3>1 DEF Done
  <2> QED
    BY <1>1, <1>2, <1>6, <2>1, <2>3, <2>4 DEF Intact, Ordered
<1>8. CASE line # <<>>
  <2>1. ran' = Append(ran, line)
    BY <1>8
  <2>2. /\ ran' \in Seq(Seq(Int)) /\ Len(ran') = Len(ran) + 1 /\ ran'[Len(ran) + 1] = line
        /\ \A i \in 1..Len(ran) : ran'[i] = ran[i]
    BY <1>1, <1>3, <2>1
  <2>3. Len(line) >= 1
    BY <1>3, <1>8
  <2>4. \A i \in 1..Len(ran') : i \in 1..Len(ran) \/ i = Len(ran) + 1
    BY <1>1, <2>2
  <2>5. Below(c + 1)'
    <3>1. ASSUME NEW i \in 1..Len(ran')
          PROVE  /\ Len(ran'[i]) >= 1
                 /\ \A j \in 1..Len(ran'[i]) : ran'[i][j] = Remark \/ ran'[i][j] \in 1..(c + 1) - 1
      <4>1. (\A x \in 1..c - 1 : x \in 1..(c + 1) - 1) /\ c \in 1..(c + 1) - 1
        BY <1>1
      <4>2. CASE i \in 1..Len(ran)
        BY <1>2, <2>2, <4>1, <4>2 DEF Below
      <4>3. CASE i = Len(ran) + 1
        BY <1>4, <2>2, <2>3, <4>1, <4>3
      <4> QED
        BY <2>4, <4>2, <4>3
    <3> QED
      BY <3>1 DEF Below
  <2>6. Done(c + 1)'
    <3>1. ASSUME NEW k \in 1..(c + 1) - 1, Fits(k)
          PROVE  \E i \in 1..Len(ran') : ran'[i] = LineBytes(k, lengths[k])
      <4>1. k = c \/ k \in 1..c - 1
        BY <1>1
      <4>2. CASE k = c
        <5>1. line = LineBytes(c, lengths[c])
          BY <1>4, <3>1, <4>2 DEF Fits
        <5>2. Len(ran) + 1 \in 1..Len(ran')
          BY <1>1, <2>2
        <5> QED
          BY <2>2, <4>2, <5>1, <5>2
      <4>3. CASE k \in 1..c - 1
        <5>1. PICK i \in 1..Len(ran) : ran[i] = LineBytes(k, lengths[k])
          BY <1>2, <3>1, <4>3 DEF Done
        <5>2. i \in 1..Len(ran') /\ ran'[i] = ran[i]
          BY <1>1, <2>2
        <5> QED
          BY <5>1, <5>2
      <4> QED
        BY <4>1, <4>2, <4>3
    <3> QED
      BY <1>6, <3>1 DEF Done
  <2>7. Intact'
    <3>1. ASSUME NEW i \in 1..Len(ran')
          PROVE  \/ ran'[i][1] = Remark
                 \/ Fits(ran'[i][1]) /\ ran'[i] = LineBytes(ran'[i][1], lengths[ran'[i][1]])
      <4>1. CASE i \in 1..Len(ran)
        BY <1>2, <2>2, <4>1 DEF Intact
      <4>2. CASE i = Len(ran) + 1
        BY <1>4, <2>2, <2>3, <4>2 DEF Fits
      <4> QED
        BY <2>4, <4>1, <4>2
    <3> QED
      BY <3>1 DEF Intact, Fits
  <2>8. Ordered'
    <3>1. ASSUME NEW i \in 1..Len(ran'), NEW j \in 1..Len(ran'), i < j,
                 NEW a \in 1..Len(ran'[i]), NEW b \in 1..Len(ran'[j]),
                 ran'[i][a] # Remark, ran'[j][b] # Remark
          PROVE  ran'[i][a] < ran'[j][b]
      <4>1. i \in 1..Len(ran) /\ ran'[i] = ran[i]
        BY <1>1, <2>2, <3>1
      <4>2. CASE j \in 1..Len(ran)
        BY <1>2, <2>2, <3>1, <4>1, <4>2 DEF Ordered
      <4>3. CASE j = Len(ran) + 1
        <5>1. ran'[j][b] = c
          BY <1>4, <2>2, <3>1, <4>3
        <5>2. ran[i][a] \in 1..c - 1
          BY <1>2, <3>1, <4>1 DEF Below
        <5>3. \A x \in 1..c - 1 : x < c
          BY <1>1
        <5> QED
          BY <4>1, <5>1, <5>2, <5>3
      <4> QED
        BY <2>4, <4>2, <4>3
    <3> QED
      BY <3>1 DEF Ordered
  <2> QED
    BY <2>2, <2>5, <2>6, <2>7, <2>8
<1> QED
  BY <1>7, <1>8

\* What sgets works on: the bytes s are read, the bytes rest are not.
CutFrom(s, rest) ==
  /\ s \in Seq(Int) /\ rest \in Seq(Int) /\ s \o rest = part \o net /\ net' = rest
  /\ Len(s) <= Space /\ Cut(s) /\ lengths' = lengths

LEMMA CutFacts ==
  ASSUME LinesInv, NEW s, NEW rest, CutFrom(s, rest)
  PROVE  /\ SgTypeOK /\ Len(lengths) \in Nat /\ Sizes(lengths, Len(lengths))
         /\ Len(s) \in Nat /\ Len(rest) \in Nat /\ Len(s \o rest) = Len(s) + Len(rest)
         /\ \A j \in 1..Len(s) : (s \o rest)[j] = s[j]
<1>1. s \in Seq(Int) /\ rest \in Seq(Int) /\ Len(s) \in Nat /\ Len(rest) \in Nat
  BY LenProperties DEF CutFrom
<1>2. /\ Len(s \o rest) = Len(s) + Len(rest)
      /\ \A i \in 1..Len(s) + Len(rest) :
           (s \o rest)[i] = IF i <= Len(s) THEN s[i] ELSE rest[i - Len(s)]
  BY <1>1, ConcatProperties
<1>3. \A j \in 1..Len(s) : (s \o rest)[j] = s[j]
  BY <1>1, <1>2
<1> QED
  BY <1>1, <1>2, <1>3, SizesOfSeq DEF LinesInv, SgTypeOK

LEMMA SumIsZero ==
  ASSUME NEW a \in Nat, NEW b \in Nat, a + b = 0
  PROVE  a = 0
  OBVIOUS

LEMMA OneLess ==
  ASSUME NEW l \in Nat, NEW e \in 1..l
  PROVE  e - 1 \in Nat /\ e - 1 < l /\ (e - 1) + 1 = e
  OBVIOUS

LEMMA OneLine ==
  ASSUME NEW l \in Nat, NEW x \in Nat, x <= l, NEW z \in Nat, NEW e \in 1..x, e = 1 + z
  PROVE  z = e - 1 /\ z < l
  OBVIOUS

LEMMA Remains ==
  ASSUME NEW q \in Int, NEW z \in Nat, NEW e \in Int, e = q + z, q + z >= 2
  PROVE  e - 1 >= 1
  OBVIOUS

\* There is a line in s, and it is line c.
LEMMA CutLine ==
  ASSUME LinesInv, NEW s, NEW rest, CutFrom(s, rest), HasLine(s)
  PROVE  LinesInv'
<1> DEFINE n == Len(lengths)
           u == s \o rest
           line == SubSeq(s, 1, FirstEnd(s) - 1)
<1>1. /\ SgTypeOK /\ n \in Nat /\ Sizes(lengths, n) /\ Len(s) \in Nat /\ Len(rest) \in Nat
      /\ Len(u) = Len(s) + Len(rest) /\ \A j \in 1..Len(s) : u[j] = s[j]
  BY CutFacts
<1>0. n \in Nat /\ Len(s) \in Nat /\ Len(rest) \in Nat /\ Len(u) = Len(s) + Len(rest)
  BY <1>1
<1>2. /\ s \in Seq(Int) /\ rest \in Seq(Int) /\ u = part \o net /\ net' = rest
      /\ Len(s) <= Space /\ lengths' = lengths /\ Len(u) \in Nat
  BY <1>1 DEF CutFrom
<1>3. PICK c \in 1..n + 1 : CutTo(c)
  BY DEF LinesInv
<1>4. PICK r \in {0, 1} : Laid(u, Len(u), lengths, n, r, c)
  BY <1>2, <1>3 DEF CutTo, Unread
<1>5. part' = Held(s) /\ Handle(line, Held(s))
  BY DEF CutFrom, Cut
<1>6. PICK i \in 1..Len(s) : s[i] = End
  BY DEF HasLine
<1> HIDE DEF n, u, line
<1>7. PICK p \in [Int -> Int] : Layout(u, Len(u), lengths, n, r, c, p)
  BY <1>4 DEF Laid
<1>8. c # n + 1
  <2>1. ASSUME c = n + 1 PROVE FALSE
    <3>1. Layout(u, Len(u), lengths, n, r, n + 1, p)
      BY <1>7, <2>1
    <3>2. Len(u) = 0
      BY <1>1, <1>2, <3>1, NoLine
    <3>3. Len(s) = 0
      BY <1>0, <3>2, SumIsZero
    <3> QED
      BY <3>3
  <2> QED
    BY <2>1
<1>9. c \in 1..n
  BY <1>1, <1>8
<1> DEFINE e == p[c] + lengths[c]
<1>10. LineAt(u, Len(u), lengths, n, r, c, e)
  BY <1>1, <1>2, <1>7, <1>8, LineEnd
<1>27. e = p[c] + lengths[c] /\ p[c] \in Int
  OBVIOUS
<1> HIDE DEF e
<1>28. lengths[c] \in Nat /\ e \in 1..Len(u) /\ u[e] = End
  BY <1>10 DEF LineAt
<1>29. \A j \in 1..e - 1 : u[j] # End /\ (r < j => u[j] = c)
  BY <1>10 DEF LineAt
<1>11. /\ lengths[c] \in Nat /\ p[c] \in Int /\ e \in 1..Len(u) /\ u[e] = End
       /\ \A j \in 1..e - 1 : u[j] # End /\ (r < j => u[j] = c)
  BY <1>27, <1>28, <1>29
<1>12. e = p[c] + lengths[c] /\ e \in Int
  BY <1>27, <1>28
<1>13. e \in 1..Len(s)
  <2>1. u[i] = End
    BY <1>1, <1>6
  <2>2. ~(i < e)
    BY <1>1, <1>11, <2>1
  <2> QED
    BY <1>1, <1>11, <2>2
<1> DEFINE d == e - 1
<1>26. d = e - 1
  OBVIOUS
<1>25. d \in Nat /\ d < Len(s) /\ e = d + 1
  BY <1>0, <1>13, OneLess
<1> HIDE DEF d
<1>14. FirstEnd(s) = e
  <2>1. s[e] = End /\ \A j \in 1..e - 1 : s[j] # End
    <3>1. \A j \in 1..e - 1 : j \in 1..Len(s)
      BY <1>1, <1>13
    <3> QED
      BY <1>1, <1>11, <1>13, <3>1
  <2> QED
    BY <1>2, <1>13, <2>1, FirstEndIs
<1>15. Removed(s, rest, e, part', line)
  <2>1. Removed(s, rest, e, SubSeq(s, e + 1, Len(s)), SubSeq(s, 1, e - 1))
    BY <1>2, <1>13, TakenAway
  <2> QED
    BY <1>5, <1>14, <2>1 DEF Held, line
<1>16. /\ part' \in Seq(Int) /\ line \in Seq(Int) /\ Len(part') = Len(s) - e /\ Len(line) = e - 1
       /\ Len(part' \o rest) = Len(u) - e
       /\ \A j \in 1..e - 1 : line[j] = s[j]
       /\ \A k \in 1..Len(u) - e : (part' \o rest)[k] = u[k + e]
  BY <1>15 DEF Removed, u
<1>17. Unread(c + 1)'
  <2>1. Laid(part' \o rest, Len(u) - e, lengths, n, 0, c + 1)
    <3>1. n \in Nat /\ Len(u) \in Nat /\ Sizes(lengths, n)
      BY <1>1, <1>2
    <3>2. \A k \in 1..Len(u) - e : (part' \o rest)[k] = u[k + e]
      BY <1>16
    <3> QED
      BY <1>7, <1>8, <1>12, <3>1, <3>2, LayoutCut
  <2> QED
    BY <1>2, <1>16, <2>1 DEF Unread, n
<1>18. Cutting(line, c)
  <2>1. \A j \in 1..e - 1 : line[j] = u[j] /\ j \in 1..Len(s)
    <3>1. \A j \in 1..d : j \in 1..Len(s) /\ j \in 1..e - 1
      BY <1>0, <1>25, <1>26
    <3> QED
      BY <1>1, <1>16, <1>26, <3>1
  <2>2. CASE r = 0
    <3>1. p[c] = 1
      BY <1>7, <2>2 DEF Layout, Begun
    <3>2. lengths[c] = e - 1 /\ lengths[c] < Space
      <4>1. Space \in Nat
        BY SgetsAssumption
      <4> QED
        <5>1. e = 1 + lengths[c] /\ lengths[c] \in Nat /\ Len(s) \in Nat /\ Len(s) <= Space
          BY <1>0, <1>2, <1>11, <1>12, <3>1
        <5> QED
          BY <1>13, <4>1, <5>1, OneLine, ZenonT(30)
    <3>3. \A j \in 1..e - 1 : line[j] = c
      <4>1. \A j \in 1..e - 1 : r < j
        BY <2>2
      <4> QED
        BY <1>11, <2>1, <4>1
    <3>4. LineBytes(c, e - 1) \in Seq(Int) /\ Len(LineBytes(c, e - 1)) = e - 1
          /\ \A j \in 1..e - 1 : LineBytes(c, e - 1)[j] = c
      <4>1. c \in Int /\ e - 1 \in Nat
        BY <1>0, <1>9, <1>25
      <4> QED
        BY <4>1, LineBytesSeq
    <3>5. line = LineBytes(c, e - 1)
      BY <1>16, <3>3, <3>4, SeqEqual
    <3> QED
      BY <1>16, <3>2, <3>5 DEF Cutting
  <2>3. CASE r = 1
    <3>1. u[1] = Remark /\ p[c] + lengths[c] >= 2 /\ lengths[c] >= Space
      BY <1>7, <2>3 DEF Layout, Begun
    <3>2. Len(line) >= 1 /\ 1 \in 1..e - 1
      <4>1. d >= 1
        BY <1>11, <1>12, <1>26, <3>1, Remains
      <4> QED
        BY <1>16, <1>25, <1>26, <4>1
    <3>3. line[1] = Remark
      BY <2>1, <3>1, <3>2
    <3>4. ASSUME NEW j \in 1..Len(line) PROVE line[j] = Remark \/ line[j] = c
      <4>1. j \in 1..e - 1 /\ (j = 1 \/ 1 < j)
        BY <1>16
      <4> QED
        BY <1>11, <2>1, <2>3, <3>3, <4>1
    <3> QED
      BY <1>16, <3>1, <3>2, <3>3, <3>4 DEF Cutting
  <2> QED
    BY <2>2, <2>3
<1>19. ran' \in Seq(Seq(Int)) /\ Below(c + 1)' /\ Done(c + 1)' /\ Intact' /\ Ordered'
  <2>1. ran' = IF line = <<>> THEN ran ELSE Append(ran, line)
    BY <1>5 DEF Handle
  <2> QED
    BY <1>1, <1>2, <1>3, <1>9, <1>18, <2>1, LineRun DEF n
<1>20. SgTypeOK'
  <2>1. Len(part') < Space
    <3>1. Space \in Nat
      BY SgetsAssumption
    <3> QED
      BY <1>1, <1>2, <1>13, <1>16, <3>1
  <2> QED
    BY <1>1, <1>2, <1>16, <1>19, <2>1 DEF SgTypeOK
<1>21. c + 1 \in 1..Len(lengths') + 1
  BY <1>1, <1>2, <1>9 DEF n
<1> QED
  BY <1>17, <1>19, <1>20, <1>21 DEF LinesInv, CutTo

LEMMA RemarkFacts == Len(<<Remark>>) = 1 /\ <<Remark>> \in Seq(Int) /\ <<Remark>>[1] = Remark
  BY DEF Remark

\* rest behind the remark
LEMMA RemarkAhead ==
  ASSUME NEW s \in Seq(Int), NEW rest \in Seq(Int), NEW v, v = <<Remark>> \o rest, Len(s) >= 1
  PROVE  /\ v[1] = Remark /\ Len(v) = Len(s \o rest) - (Len(s) - 1)
         /\ \A i \in 2..Len(s \o rest) - (Len(s) - 1) : v[i] = (s \o rest)[i + (Len(s) - 1)]
<1> DEFINE x == <<Remark>>
           d == Len(s) - 1
<1>1. Len(x) = 1 /\ x \in Seq(Int) /\ x[1] = Remark
  BY RemarkFacts
<1>2. Len(s) \in Nat /\ Len(rest) \in Nat /\ d \in Nat /\ Len(s) = d + 1
  BY LenProperties
<1> HIDE DEF x, d
<1>3. /\ Len(s \o rest) = Len(s) + Len(rest)
      /\ \A i \in 1..Len(s) + Len(rest) : (s \o rest)[i] = IF i <= Len(s) THEN s[i] ELSE rest[i - Len(s)]
  BY ConcatProperties
<1>4. /\ Len(x \o rest) = Len(x) + Len(rest)
      /\ \A i \in 1..Len(x) + Len(rest) : (x \o rest)[i] = IF i <= Len(x) THEN x[i] ELSE rest[i - Len(x)]
  BY <1>1, ConcatProperties
<1>5. v = x \o rest
  BY DEF x
<1>6. Len(v) = Len(s \o rest) - d
  BY <1>1, <1>2, <1>3, <1>4, <1>5
<1>7. v[1] = Remark
  BY <1>1, <1>2, <1>4, <1>5
<1>8. ASSUME NEW i \in 2..Len(s \o rest) - d PROVE v[i] = (s \o rest)[i + d]
  <2>1. /\ i \in 1..Len(x) + Len(rest) /\ ~(i <= Len(x)) /\ i - Len(x) = i - 1
        /\ i + d \in 1..Len(s) + Len(rest) /\ ~(i + d <= Len(s)) /\ (i + d) - Len(s) = i - 1
    BY <1>1, <1>2, <1>3
  <2>2. v[i] = rest[i - Len(x)] /\ (s \o rest)[i + d] = rest[(i + d) - Len(s)]
    BY <1>3, <1>4, <1>5, <2>1
  <2> QED
    BY <2>1, <2>2
<1> QED
  BY <1>6, <1>7, <1>8 DEF d

\* There is none, and what there is is held back or given up.
LEMMA CutNoLine ==
  ASSUME LinesInv, NEW s, NEW rest, CutFrom(s, rest), ~HasLine(s)
  PROVE  LinesInv'
<1> DEFINE n == Len(lengths)
           u == s \o rest
<1>1. /\ SgTypeOK /\ n \in Nat /\ Sizes(lengths, n) /\ Len(s) \in Nat /\ Len(rest) \in Nat
      /\ Len(u) = Len(s) + Len(rest) /\ \A j \in 1..Len(s) : u[j] = s[j]
  BY CutFacts
<1>2. /\ s \in Seq(Int) /\ rest \in Seq(Int) /\ u = part \o net /\ net' = rest
      /\ Len(s) <= Space /\ lengths' = lengths /\ Len(u) \in Nat
  BY <1>1 DEF CutFrom
<1>3. PICK c \in 1..n + 1 : CutTo(c)
  BY DEF LinesInv
<1>4. PICK r \in {0, 1} : Laid(u, Len(u), lengths, n, r, c)
  BY <1>2, <1>3 DEF CutTo, Unread
<1>5. part' = (IF TooLong(s) THEN GivenUp ELSE s) /\ ran' = ran
  BY DEF CutFrom, Cut
<1>6. \A i \in 1..Len(s) : s[i] # End
  BY DEF HasLine
<1>7. Space \in Nat /\ Space > 1
  BY SgetsAssumption
<1>8. Below(c)' /\ Done(c)' /\ Intact' /\ Ordered' /\ c \in 1..Len(lengths') + 1
  BY <1>2, <1>3, <1>5 DEF CutTo, Below, Done, Intact, Ordered, Fits
<1>9. CASE ~TooLong(s)
  <2>1. part' = s /\ Len(s) < Space
    BY <1>1, <1>5, <1>7, <1>9 DEF TooLong
  <2>2. Unread(c)'
    BY <1>2, <1>4, <2>1 DEF Unread
  <2>3. SgTypeOK'
    BY <1>1, <1>2, <1>5, <2>1 DEF SgTypeOK
  <2> QED
    BY <1>8, <2>2, <2>3 DEF LinesInv, CutTo
<1>10. CASE TooLong(s)
  <2> DEFINE v == <<Remark>> \o rest
  <2>1. part' = <<Remark>> /\ Len(s) >= Space /\ Len(s) >= 1
    BY <1>1, <1>5, <1>7, <1>10 DEF TooLong, GivenUp
  <2>2. /\ v[1] = Remark /\ Len(v) = Len(u) - (Len(s) - 1)
        /\ \A i \in 2..Len(u) - (Len(s) - 1) : v[i] = u[i + (Len(s) - 1)]
    BY <1>2, <2>1, RemarkAhead
  <2> HIDE DEF n, u, v
  <2>3. PICK p \in [Int -> Int] : Layout(u, Len(u), lengths, n, r, c, p)
    BY <1>4 DEF Laid
  <2>4. c # n + 1
    <3>1. ASSUME c = n + 1 PROVE FALSE
      <4>1. Layout(u, Len(u), lengths, n, r, n + 1, p)
        BY <2>3, <3>1
      <4>2. Len(u) = 0
        BY <1>1, <1>2, <4>1, NoLine
      <4>3. Len(s) = 0
        BY <1>1, <4>2, SumIsZero
      <4> QED
        BY <2>1, <4>3
    <3> QED
      BY <3>1
  <2>5. LineAt(u, Len(u), lengths, n, r, c, p[c] + lengths[c])
    BY <1>1, <1>2, <2>3, <2>4, LineEnd
  <2>6. Len(s) < p[c] + lengths[c]
    <3> DEFINE e == p[c] + lengths[c]
    <3>1. e \in 1..Len(u) /\ u[e] = End
      BY <2>5 DEF LineAt
    <3> HIDE DEF e
    <3>2. e \notin 1..Len(s)
      BY <1>1, <1>6, <3>1
    <3>3. Len(s) < e
      BY <1>1, <3>1, <3>2
    <3> QED
      BY <3>3 DEF e
  <2>7. Laid(v, Len(u) - (Len(s) - 1), lengths, n, 1, c)
    <3>1. n \in Nat /\ Len(u) \in Nat /\ Sizes(lengths, n) /\ Len(s) \in Nat
      BY <1>1, <1>2
    <3>2. v[1] = Remark /\ \A i \in 2..Len(u) - (Len(s) - 1) : v[i] = u[i + (Len(s) - 1)]
      BY <2>2
    <3> QED
      BY <2>1, <2>3, <2>4, <2>6, <3>1, <3>2, LayoutGivenUp
  <2>8. Unread(c)'
    BY <1>2, <2>1, <2>2, <2>7 DEF Unread, n, v
  <2>9. SgTypeOK'
    BY <1>1, <1>2, <1>5, <1>7, <2>1, RemarkFacts DEF SgTypeOK
  <2> QED
    BY <1>8, <2>8, <2>9 DEF LinesInv, CutTo
<1> QED
  BY <1>9, <1>10

-----------------------------------------------------------------------------
(* Every step of sgets() preserves the invariant.                          *)

LEMMA CutPreserves ==
  ASSUME LinesInv, NEW s, NEW rest, CutFrom(s, rest) PROVE LinesInv'
  BY CutLine, CutNoLine

LEMMA EnoughPreserves == ASSUME LinesInv, Enough, UNCHANGED lengths PROVE LinesInv'
<1>1. part \in Seq(Int) /\ net \in Seq(Int) /\ Len(part) < Space /\ Len(part) \in Nat
  BY LenProperties DEF LinesInv, SgTypeOK
<1>2. Space \in Nat
  BY SgetsAssumption
<1>3. CutFrom(part, net)
  BY <1>1, <1>2 DEF Enough, CutFrom
<1> QED
  BY <1>3, CutPreserves

LEMMA Split ==
  ASSUME NEW t \in Seq(Int), NEW k \in 1..Len(t)
  PROVE  /\ SubSeq(t, 1, k) \in Seq(Int) /\ Len(SubSeq(t, 1, k)) = k
         /\ SubSeq(t, k + 1, Len(t)) \in Seq(Int)
         /\ SubSeq(t, 1, k) \o SubSeq(t, k + 1, Len(t)) = t
<1>1. Len(t) \in Nat /\ \A i \in 1..Len(t) : t[i] \in Int
  BY LenProperties, ElementOfSeq
<1>2. SubSeq(t, 1, k) \in Seq(Int) /\ Len(SubSeq(t, 1, k)) = k
  BY <1>1, SubSeqProperties
<1>3. SubSeq(t, k + 1, Len(t)) \in Seq(Int)
  BY TakenAway DEF Removed
<1>4. SubSeq(t, 1, k) \o SubSeq(t, k + 1, Len(t)) = SubSeq(t, 1, Len(t))
  <2>1. 1 \in 1..Len(t) + 1 /\ k \in 1 - 1..Len(t) /\ Len(t) \in k..Len(t)
    BY <1>1
  <2> QED
    BY <2>1, ConcatAdjacentSubSeq
<1>5. SubSeq(t, 1, Len(t)) = t
  BY SubSeqFull
<1> QED
  BY <1>2, <1>3, <1>4, <1>5

LEMMA ReadPreserves == ASSUME LinesInv, Read, UNCHANGED lengths PROVE LinesInv'
<1>1. PICK k \in 1..Len(net) :
        /\ k <= Space - Len(part)
        /\ Cut(part \o SubSeq(net, 1, k))
        /\ net' = SubSeq(net, k + 1, Len(net))
  BY DEF Read
<1>2. part \in Seq(Int) /\ net \in Seq(Int) /\ Len(part) \in Nat /\ Len(net) \in Nat /\ Space \in Nat
  BY LenProperties, SgetsAssumption DEF LinesInv, SgTypeOK
<1> DEFINE a == SubSeq(net, 1, k)
           b == SubSeq(net, k + 1, Len(net))
<1>3. a \in Seq(Int) /\ Len(a) = k /\ b \in Seq(Int) /\ a \o b = net
  BY <1>2, Split
<1>4. Cut(part \o a) /\ net' = b
  BY <1>1
<1> HIDE DEF a, b
<1>5. part \o a \in Seq(Int) /\ Len(part \o a) = Len(part) + Len(a)
  BY <1>2, <1>3, ConcatProperties
<1>6. (part \o a) \o b = part \o net
  <2>1. (part \o a) \o b = part \o (a \o b)
    BY <1>2, <1>3, GluedAnyhow, ZenonT(30)
  <2> QED
    BY <1>3, <2>1
<1>7. Len(part \o a) <= Space
  BY <1>1, <1>2, <1>3, <1>5
<1>8. CutFrom(part \o a, b)
  BY <1>3, <1>4, <1>5, <1>6, <1>7 DEF CutFrom
<1> QED
  BY <1>8, CutPreserves

LEMMA Still == ASSUME LinesInv, UNCHANGED <<lengths, net, part, ran>> PROVE LinesInv'
  BY ZenonT(30) DEF LinesInv, SgTypeOK, CutTo, Unread, Below, Done, Intact, Ordered, Fits

LEMMA LinesStep == ASSUME LinesInv, [SgetsNext]_sgetsVars PROVE LinesInv'
<1>1. CASE UNCHANGED sgetsVars
  BY <1>1, Still DEF sgetsVars
<1>2. CASE SendLine
  BY <1>2, SendPreserves
<1>3. CASE Woken
  BY <1>3, EnoughPreserves, ReadPreserves DEF Woken
<1>4. CASE Dispatch
  <2>1. CASE Nothing
    BY <1>4, <2>1, Still DEF Dispatch, Nothing
  <2> QED
    BY <1>4, <2>1, EnoughPreserves, ReadPreserves DEF Dispatch
<1>5. CASE Completed
  BY <1>5, Still DEF Completed
<1> QED
  BY <1>1, <1>2, <1>3, <1>4, <1>5 DEF SgetsNext

\* What is held back and what was not read are the lines that have not been cut out, the
\* first of them perhaps without its beginning, which was given up.
THEOREM LinesInvariant == SgetsSpec => []LinesInv
<1>1. SgetsInit => LinesInv
  BY LinesInit
<1>2. LinesInv /\ [SgetsNext]_sgetsVars => LinesInv'
  BY LinesStep
<1> QED
  BY <1>1, <1>2, PTL DEF SgetsSpec

LEMMA LinesWhole ==
  ASSUME SgTypeOK, NEW c \in 1..Len(lengths) + 1, CutTo(c)
  PROVE  Whole /\ InOrder
<1>1. ran \in Seq(Seq(Int)) /\ \A i \in 1..Len(ran) : ran[i] \in Seq(Int)
  BY ElementOfSeq DEF SgTypeOK
<1>2. ASSUME NEW i \in 1..Len(ran) PROVE Head(ran[i]) = ran[i][1] /\ ToSet(ran[i]) = {ran[i][j] : j \in 1..Len(ran[i])}
  <2>1. ran[i] \in Seq(Int)
    BY <1>1
  <2> QED
    BY <2>1, LenProperties DEF ToSet
<1>3. Whole
  BY <1>2 DEF CutTo, Intact, Whole
<1>4. InOrder
  <2>1. ASSUME NEW i \in 1..Len(ran), NEW j \in 1..Len(ran), i < j,
               NEW a \in ToSet(ran[i]) \ {Remark}, NEW b \in ToSet(ran[j]) \ {Remark}
        PROVE  a < b
    <3>1. PICK x \in 1..Len(ran[i]) : a = ran[i][x]
      BY <1>2
    <3>2. PICK y \in 1..Len(ran[j]) : b = ran[j][y]
      BY <1>2
    <3> QED
      BY <2>1, <3>1, <3>2 DEF CutTo, Ordered
  <2> QED
    BY <2>1 DEF InOrder
<1> QED
  BY <1>3, <1>4

\* Line k is to be found in what has not been cut out if it fits and was not cut out.
LEMMA LineLeft ==
  ASSUME NEW m \in Nat, NEW n \in Nat, NEW u, NEW ls, Sizes(ls, n), NEW r \in {0, 1},
         NEW c \in 1..n + 1, Laid(u, m, ls, n, r, c), NEW k \in c..n, ls[k] \in 1..Space - 1
  PROVE  \E i \in 1..m : u[i] = k
<1>1. PICK p \in [Int -> Int] : Layout(u, m, ls, n, r, c, p)
  BY DEF Laid
<1>2. p[k] \in Int /\ ls[k] \in Nat /\ ls[k] >= 1 /\ Space \in Nat /\ ls[k] < Space
  BY SgetsAssumption
<1>3. EndsIn(m, ls, n, c, p)
  BY <1>1, EndsInside
<1>4. p[k] + ls[k] \in 1..m
  BY <1>3 DEF EndsIn
<1>5. r < p[k]
  <2>1. CASE k = c
    <3>1. r = 0
      BY <1>1, <1>2, <2>1 DEF Layout, Begun
    <3>2. p[c] = 1
      BY <1>1, <3>1 DEF Layout, Begun
    <3> QED
      BY <2>1, <3>1, <3>2
  <2>2. CASE k # c
    <3>0. Layout(u, m, ls, n, r, c, p) /\ c # n + 1
      BY <1>1
    <3>1. p[k] > p[c] + ls[c]
      <4>1. Apart(ls, n, c, p) /\ c \in c..n + 1 /\ k \in c..n + 1 /\ c < k
        BY <2>2, <3>0 DEF Layout
      <4>2. p[c] + ls[c] + 1 <= p[k]
        BY <4>1 DEF Apart
      <4>3. p[c] \in Int /\ ls[c] \in Nat
        BY <3>0 DEF Sizes
      <4> QED
        BY <1>2, <4>2, <4>3
    <3>2. LineAt(u, m, ls, n, r, c, p[c] + ls[c])
      BY <3>0, LineEnd
    <3>3. p[c] + ls[c] \in 1..m
      BY <3>2 DEF LineAt
    <3> QED
      BY <1>2, <3>1, <3>3
  <2> QED
    BY <2>1, <2>2
<1>6. p[k] \in 1..m /\ p[k] < p[k] + ls[k]
  BY <1>2, <1>4, <1>5
<1>7. u[p[k]] = k
  BY <1>1, <1>2, <1>5, <1>6 DEF Layout, Filled
<1> QED
  BY <1>6, <1>7

LEMMA NoneLeftOut ==
  ASSUME SgTypeOK, NEW c \in 1..Len(lengths) + 1, CutTo(c)
  PROVE  NoneSkipped
<1> DEFINE u == part \o net
<1>1. /\ Len(lengths) \in Nat /\ Sizes(lengths, Len(lengths))
      /\ part \in Seq(Int) /\ net \in Seq(Int) /\ ran \in Seq(Seq(Int))
      /\ Len(part) \in Nat /\ Len(net) \in Nat
  BY SizesOfSeq, LenProperties DEF SgTypeOK
<1>2. /\ Len(u) = Len(part) + Len(net)
      /\ \A i \in 1..Len(part) + Len(net) : u[i] = IF i <= Len(part) THEN part[i] ELSE net[i - Len(part)]
  BY <1>1, ConcatProperties
<1>3. PICK r \in {0, 1} : Laid(u, Len(u), lengths, Len(lengths), r, c)
  BY DEF CutTo, Unread
<1> HIDE DEF u
<1>4. ASSUME NEW k \in 1..Len(lengths), Fits(k)
      PROVE  \/ LineBytes(k, lengths[k]) \in ToSet(ran)
             \/ \E i \in 1..Len(net) : net[i] = k
             \/ \E i \in 1..Len(part) : part[i] = k
  <2>1. CASE k < c
    <3>1. k \in 1..c - 1
      BY <1>1, <2>1
    <3>2. PICK i \in 1..Len(ran) : ran[i] = LineBytes(k, lengths[k])
      BY <1>4, <3>1 DEF CutTo, Done
    <3>3. i \in DOMAIN ran
      BY <1>1, LenProperties
    <3> QED
      BY <3>2, <3>3 DEF ToSet
  <2>2. CASE ~(k < c)
    <3>1. k \in c..Len(lengths) /\ Len(u) \in Nat
      BY <1>1, <1>2, <2>2
    <3>2. lengths[k] \in 1..Space - 1
      BY <1>4 DEF Fits
    <3>3. PICK i \in 1..Len(u) : u[i] = k
      <4>1. \E i \in 1..Len(u) : u[i] = k
        <5>1. /\ Len(u) \in Nat /\ Len(lengths) \in Nat /\ Sizes(lengths, Len(lengths))
              /\ k \in c..Len(lengths) /\ lengths[k] \in 1..Space - 1
              /\ Laid(u, Len(u), lengths, Len(lengths), r, c)
          BY <1>1, <1>3, <3>1, <3>2
        <5> QED
          BY <5>1, LineLeft
      <4> QED
        BY <4>1
    <3>4. CASE i <= Len(part)
      <4>1. i \in 1..Len(part) /\ i \in 1..Len(part) + Len(net)
        BY <1>1, <1>2, <3>4
      <4> QED
        BY <1>2, <3>3, <3>4, <4>1
    <3>5. CASE ~(i <= Len(part))
      <4>1. i - Len(part) \in 1..Len(net) /\ i \in 1..Len(part) + Len(net)
        BY <1>1, <1>2, <3>5
      <4> QED
        BY <1>2, <3>3, <3>5, <4>1
    <3> QED
      BY <3>4, <3>5
  <2> QED
    BY <2>1, <2>2
<1> QED
  BY <1>4 DEF NoneSkipped

\* However the connection cuts them into pieces, commands are run whole, in order, each
\* once and none left out, and what is left of a line that was too long is never a
\* command (sgets, src/src/nonblock.cc:56-95; a_protocol::run, src/src/agent.cc): for any
\* size of the buffer, any lines and any pieces.
THEOREM CommandsWhole == SgetsSpec => []WholeLines
<1>1. LinesInv => WholeLines
  BY LinesWhole, NoneLeftOut DEF LinesInv, WholeLines
<1> QED
  BY <1>1, LinesInvariant, PTL

-----------------------------------------------------------------------------
(* Bytes.                                                                  *)

LEMMA BytesSeq ==
  ASSUME NEW a \in Nat, NEW n \in Nat
  PROVE  /\ Bytes(a, n) \in Seq(Nat) /\ Len(Bytes(a, n)) = n
         /\ \A i \in 1..n : Bytes(a, n)[i] = a + i
  BY DEF Bytes

LEMMA BytesConcat ==
  ASSUME NEW a \in Nat, NEW m \in Nat, NEW n \in Nat
  PROVE  Bytes(a, m) \o Bytes(a + m, n) = Bytes(a, m + n)
<1> DEFINE s == Bytes(a, m)
           t == Bytes(a + m, n)
           u == Bytes(a, m + n)
<1>0. a + m \in Nat /\ m + n \in Nat
  OBVIOUS
<1>1. s \in Seq(Nat) /\ Len(s) = m /\ \A i \in 1..m : s[i] = a + i
  BY BytesSeq
<1>2. t \in Seq(Nat) /\ Len(t) = n /\ \A i \in 1..n : t[i] = a + m + i
  BY <1>0, BytesSeq
<1>3. u \in Seq(Nat) /\ Len(u) = m + n /\ \A i \in 1..m + n : u[i] = a + i
  BY <1>0, BytesSeq
<1> HIDE DEF s, t, u
<1>4. /\ s \o t \in Seq(Nat) /\ Len(s \o t) = m + n
      /\ \A i \in 1..m + n : (s \o t)[i] = IF i <= m THEN s[i] ELSE t[i - m]
  <2>1. s \in Seq(Nat) /\ t \in Seq(Nat)
    BY <1>1, <1>2
  <2>2. /\ s \o t \in Seq(Nat) /\ Len(s \o t) = Len(s) + Len(t)
        /\ \A i \in 1..Len(s) + Len(t) :
             (s \o t)[i] = IF i <= Len(s) THEN s[i] ELSE t[i - Len(s)]
    BY <2>1, ConcatProperties
  <2>3. Len(s) = m /\ Len(t) = n
    BY <1>1, <1>2
  <2> QED
    BY <2>2, <2>3
<1>5. ASSUME NEW i \in 1..m + n PROVE (s \o t)[i] = u[i]
  <2>1. CASE i <= m
    BY <1>1, <1>3, <1>4, <2>1
  <2>2. CASE i > m
    <3>1. i - m \in 1..n
      BY <2>2
    <3>2. t[i - m] = a + m + (i - m)
      BY <1>2, <3>1
    <3>3. a + m + (i - m) = a + i
      OBVIOUS
    <3>4. (s \o t)[i] = t[i - m]
      BY <1>4, <2>2
    <3> QED
      BY <1>3, <3>2, <3>3, <3>4
  <2>3. i <= m \/ i > m
    OBVIOUS
  <2> QED
    BY <2>1, <2>2, <2>3
<1>6. s \o t = u
  BY <1>3, <1>4, <1>5, SeqEqual
<1> QED
  BY <1>6 DEF s, t, u

LEMMA BytesGoOn ==
  ASSUME NEW m \in Nat, NEW n \in Nat
  PROVE  Bytes(0, m) \o Bytes(m, n) = Bytes(0, m + n)
<1>1. 0 \in Nat /\ 0 + m = m
  OBVIOUS
<1>2. Bytes(0, m) \o Bytes(0 + m, n) = Bytes(0, m + n)
  BY <1>1, BytesConcat, Zenon
<1> QED
  BY <1>1, <1>2, Zenon

LEMMA Associative ==
  ASSUME NEW s \in Seq(Nat), NEW t \in Seq(Nat), NEW u \in Seq(Nat)
  PROVE  (s \o t) \o u = s \o (t \o u)
  BY ConcatAssociative, SMTT(60)

\* What comes first of the bytes from the first on.
LEMMA BytesPrefix ==
  ASSUME NEW s \in Seq(Nat), NEW t \in Seq(Nat), NEW n \in Nat, s \o t = Bytes(0, n)
  PROVE  s = Bytes(0, Len(s)) /\ Len(s) <= n /\ Len(s) + Len(t) = n
<1>1. Len(s) \in Nat /\ Len(t) \in Nat
  BY LenProperties
<1>2. /\ Len(s \o t) = Len(s) + Len(t)
      /\ \A i \in 1..Len(s) + Len(t) : (s \o t)[i] = IF i <= Len(s) THEN s[i] ELSE t[i - Len(s)]
  BY ConcatProperties
<1>3. Len(Bytes(0, n)) = n /\ \A i \in 1..n : Bytes(0, n)[i] = 0 + i
  BY BytesSeq
<1>4. Len(s) + Len(t) = n
  BY <1>2, <1>3
<1>5. ASSUME NEW i \in 1..Len(s) PROVE s[i] = i
  <2>1. i \in 1..Len(s) + Len(t) /\ i \in 1..n /\ i <= Len(s)
    BY <1>1, <1>4
  <2>2. (s \o t)[i] = s[i]
    BY <1>2, <2>1
  <2>3. Bytes(0, n)[i] = i
    BY <1>3, <2>1
  <2> QED
    BY <2>2, <2>3
<1>6. /\ Bytes(0, Len(s)) \in Seq(Nat) /\ Len(Bytes(0, Len(s))) = Len(s)
      /\ \A i \in 1..Len(s) : Bytes(0, Len(s))[i] = 0 + i
  BY <1>1, BytesSeq
<1>7. s = Bytes(0, Len(s))
  <2> DEFINE u == Bytes(0, Len(s))
  <2>1. u \in Seq(Nat) /\ Len(u) = Len(s) /\ \A i \in 1..Len(s) : s[i] = u[i]
    BY <1>5, <1>6
  <2> HIDE DEF u
  <2>2. s = u
    BY <2>1, SeqEqual
  <2> QED
    BY <2>2 DEF u
<1> QED
  BY <1>1, <1>4, <1>7

\* A string that is divided.
LEMMA Divided ==
  ASSUME NEW s \in Seq(Nat), NEW k \in 0..Len(s)
  PROVE  /\ SubSeq(s, 1, k) \in Seq(Nat) /\ Len(SubSeq(s, 1, k)) = k
         /\ Rest(s, k) \in Seq(Nat) /\ Len(Rest(s, k)) = Len(s) - k
         /\ SubSeq(s, 1, k) \o Rest(s, k) = s
<1>1. Len(s) \in Nat /\ \A i \in 1..Len(s) : s[i] \in Nat
  BY LenProperties, ElementOfSeq
<1>2. SubSeq(s, 1, k) \in Seq(Nat) /\ Len(SubSeq(s, 1, k)) = k
  BY <1>1, SubSeqProperties
<1>3. Rest(s, k) \in Seq(Nat) /\ Len(Rest(s, k)) = Len(s) - k
  BY <1>1, SubSeqProperties DEF Rest
<1>4. SubSeq(s, 1, k) \o SubSeq(s, k + 1, Len(s)) = SubSeq(s, 1, Len(s))
  <2>1. 1 \in 1..Len(s) + 1 /\ k \in 1 - 1..Len(s) /\ Len(s) \in k..Len(s)
    BY <1>1
  <2> QED
    BY <2>1, ConcatAdjacentSubSeq
<1>5. SubSeq(s, 1, Len(s)) = s
  BY SubSeqFull
<1> QED
  BY <1>2, <1>3, <1>4, <1>5 DEF Rest

-----------------------------------------------------------------------------
(* The invariant of repliers.                                              *)

RepTypeOK ==
  /\ entry \in [Fd -> {"none", "replier", "garbage"}] /\ nrep \in Nat
  /\ buffer \in [Fd -> Seq(Nat)] /\ asleep \in [Fd -> BOOLEAN]
  /\ client \in [Fd -> {"none", "there", "gone"}] /\ sent \in [Fd -> Nat]
  /\ wire \in [Fd -> Seq(Nat)]

\* What is kept for a client continues what it got, if the replier will be called; a
\* replier that was left with something in its buffer never will be.
FdInv(f) ==
  /\ wire[f] = Bytes(0, Len(wire[f]))
  /\ client[f] = "there" /\ (asleep[f] \/ buffer[f] = <<>>) /\ fatal # "garbage" =>
       wire[f] \o buffer[f] = Bytes(0, sent[f])
  /\ client[f] = "none" => ~asleep[f] /\ sent[f] = 0 /\ wire[f] = <<>>
  /\ entry[f] # "replier" => buffer[f] = <<>> /\ ~asleep[f]
  /\ entry[f] = "replier" => f <= nrep

CalmInv ==
  Calm => /\ fatal = "no"
          /\ \A f \in Fd : entry[f] # "garbage" /\ (asleep[f] <=> buffer[f] # <<>>)

RepInv == RepTypeOK /\ (\A f \in Fd : FdInv(f)) /\ CalmInv

\* What a step on descriptor f does to the others: its table grows over them.
Others(f) ==
  /\ nrep' \in Nat /\ nrep' >= nrep /\ world' = world
  /\ \A g \in Fd \ {f} :
       /\ buffer'[g] = buffer[g] /\ asleep'[g] = asleep[g] /\ client'[g] = client[g]
       /\ sent'[g] = sent[g] /\ wire'[g] = wire[g]
       /\ entry'[g] = entry[g] \/ (entry'[g] = "garbage" /\ entry[g] # "replier" /\ ~Calm)

LEMMA Elsewhere ==
  ASSUME RepInv, Running, NEW f \in Fd, Others(f), RepTypeOK', FdInv(f)',
         Calm => fatal' = "no" /\ entry'[f] # "garbage" /\ (asleep'[f] <=> buffer'[f] # <<>>)
  PROVE  RepInv'
<1>1. ASSUME NEW g \in Fd \ {f} PROVE FdInv(g)'
  <2>1. /\ buffer'[g] = buffer[g] /\ asleep'[g] = asleep[g] /\ client'[g] = client[g]
        /\ sent'[g] = sent[g] /\ wire'[g] = wire[g] /\ nrep' >= nrep /\ nrep' \in Nat
        /\ entry'[g] = entry[g] \/ (entry'[g] = "garbage" /\ entry[g] # "replier")
    BY DEF Others
  <2>2. nrep \in Nat /\ g \in Nat /\ FdInv(g)
    BY DEF RepInv, RepTypeOK, Fd
  <2>3. /\ wire'[g] = Bytes(0, Len(wire'[g]))
        /\ client'[g] = "there" /\ (asleep'[g] \/ buffer'[g] = <<>>) /\ fatal' # "garbage" =>
             wire'[g] \o buffer'[g] = Bytes(0, sent'[g])
        /\ client'[g] = "none" => ~asleep'[g] /\ sent'[g] = 0 /\ wire'[g] = <<>>
    BY <2>1, <2>2 DEF FdInv, Running
  <2>4. entry'[g] # "replier" => buffer'[g] = <<>> /\ ~asleep'[g]
    BY <2>1, <2>2 DEF FdInv
  <2>5. entry'[g] = "replier" => g <= nrep'
    BY <2>1, <2>2 DEF FdInv
  <2> QED
    BY <2>3, <2>4, <2>5 DEF FdInv
<1>2. CalmInv'
  BY DEF CalmInv, Calm, RepInv, Others
<1> QED
  BY <1>1, <1>2 DEF RepInv

-----------------------------------------------------------------------------
(* Every step of a replier preserves it.                                   *)

LEMMA RepInvInit == ASSUME ReplierInit PROVE RepInv
<1>1. Bytes(0, 0) = <<>>
  BY BytesSeq, EmptySeq
<1>2. \A f \in Fd : /\ wire[f] = <<>> /\ buffer[f] = <<>> /\ ~asleep[f] /\ client[f] = "none"
                    /\ sent[f] = 0 /\ entry[f] = "none"
  BY DEF ReplierInit
<1>3. Len(<<>>) = 0 /\ <<>> \in Seq(Nat)
  BY EmptySeq
<1>4. RepTypeOK
  BY <1>3 DEF ReplierInit, RepTypeOK
<1>5. \A f \in Fd : FdInv(f)
  BY <1>1, <1>2, <1>3 DEF FdInv
<1>6. CalmInv
  BY <1>2 DEF CalmInv, ReplierInit
<1> QED
  BY <1>4, <1>5, <1>6 DEF RepInv

LEMMA MessageFacts ==
  ASSUME NEW n \in Messages
  PROVE  n \in Nat /\ (Calm => n > 0)
<1>1. MaxMsg \in Nat
  BY ReplierAssumption
<1> QED
  BY <1>1 DEF Messages, Calm

\* A string of n bytes for the replier that has descriptor f.
LEMMA KeepPreserves ==
  ASSUME RepInv, Running, NEW f \in Fd, NEW n \in Nat, Calm => n > 0, client[f] # "none",
         entry[f] = "replier", Keep(f, Bytes(sent[f], n)), sent' = [sent EXCEPT ![f] = @ + n],
         UNCHANGED <<entry, nrep, wire, client, world>>
  PROVE  RepInv'
<1> DEFINE s == Bytes(sent[f], n)
<1>0. RepTypeOK /\ FdInv(f) /\ CalmInv
  BY DEF RepInv
<1>1. s \in Seq(Nat) /\ Len(s) = n /\ sent[f] \in Nat
  BY <1>0, BytesSeq DEF RepTypeOK
<1>2. /\ buffer' = [buffer EXCEPT ![f] = @ \o s]
      /\ asleep' = [asleep EXCEPT ![f] = @ \/ Pushes(f)]
      /\ fatal' = IF Pushes(f) /\ asleep[f] THEN "861" ELSE fatal
  BY DEF Keep
<1> HIDE DEF s
<1>3. /\ buffer[f] \in Seq(Nat) /\ wire[f] \in Seq(Nat) /\ Len(buffer[f]) \in Nat
      /\ buffer[f] \o s \in Seq(Nat) /\ Len(buffer[f] \o s) = Len(buffer[f]) + n
  <2>1. buffer[f] \in Seq(Nat) /\ wire[f] \in Seq(Nat)
    BY <1>0 DEF RepTypeOK
  <2>2. Len(buffer[f]) \in Nat
    BY <2>1, LenProperties
  <2>3. buffer[f] \o s \in Seq(Nat) /\ Len(buffer[f] \o s) = Len(buffer[f]) + Len(s)
    BY <1>1, <2>1, ConcatProperties
  <2> QED
    BY <1>1, <2>1, <2>2, <2>3
<1>4. buffer[f] \o s = <<>> => buffer[f] = <<>> /\ n = 0
  BY <1>1, <1>3, EmptySeq
<1>5. buffer'[f] = buffer[f] \o s /\ sent'[f] = sent[f] + n
  BY <1>0, <1>2 DEF RepTypeOK
<1>6. asleep'[f] <=> asleep[f] \/ buffer[f] = <<>>
  BY <1>0, <1>2 DEF RepTypeOK, Pushes
<1>7. RepTypeOK'
  <2>1. buffer' \in [Fd -> Seq(Nat)] /\ sent' \in [Fd -> Nat]
    BY <1>0, <1>1, <1>2, <1>3 DEF RepTypeOK
  <2>2. asleep' \in [Fd -> BOOLEAN]
    BY <1>0, <1>2 DEF RepTypeOK, Pushes
  <2> QED
    BY <1>0, <2>1, <2>2 DEF RepTypeOK
<1>8. Others(f)
  <2>1. \A g \in Fd \ {f} : buffer'[g] = buffer[g] /\ asleep'[g] = asleep[g] /\ sent'[g] = sent[g]
    BY <1>0, <1>2 DEF RepTypeOK
  <2> QED
    BY <1>0, <2>1 DEF Others, RepTypeOK
<1>9. FdInv(f)'
  <2>1. ASSUME client[f] = "there", asleep'[f] \/ buffer'[f] = <<>>
        PROVE  wire[f] \o buffer'[f] = Bytes(0, sent'[f])
    <3>1. asleep[f] \/ buffer[f] = <<>>
      BY <1>4, <1>5, <1>6, <2>1
    <3>2. wire[f] \o buffer[f] = Bytes(0, sent[f])
      BY <1>0, <2>1, <3>1 DEF FdInv, Running
    <3>3. wire[f] \o (buffer[f] \o s) = (wire[f] \o buffer[f]) \o s
      BY <1>1, <1>3, Associative
    <3>4. Bytes(0, sent[f]) \o Bytes(sent[f], n) = Bytes(0, sent[f] + n)
      BY <1>1, BytesGoOn
    <3> QED
      BY <1>5, <3>2, <3>3, <3>4 DEF s
  <2> QED
    BY <1>0, <2>1 DEF FdInv
<1>10. ASSUME Calm
       PROVE  fatal' = "no" /\ entry'[f] # "garbage" /\ (asleep'[f] <=> buffer'[f] # <<>>)
  <2>1. n > 0 /\ fatal = "no" /\ (asleep[f] <=> buffer[f] # <<>>)
    BY <1>0, <1>10 DEF CalmInv
  <2>2. fatal' = "no"
    BY <1>2, <2>1 DEF Pushes
  <2>3. buffer'[f] # <<>>
    BY <1>4, <1>5, <2>1
  <2> QED
    BY <1>6, <2>1, <2>2, <2>3
<1> QED
  BY <1>7, <1>8, <1>9, <1>10, Elsewhere

\* Nothing about descriptor f changes but what is sent to a client who will not have it.
LEMMA VainPreserves ==
  ASSUME RepInv, Running, NEW f \in Fd, NEW n \in Nat, client[f] = "gone", entry[f] = "none",
         sent' = [sent EXCEPT ![f] = @ + n],
         UNCHANGED <<entry, nrep, buffer, asleep, wire, client, fatal, world>>
  PROVE  RepInv'
<1>0. RepTypeOK /\ FdInv(f) /\ CalmInv
  BY DEF RepInv
<1>1. sent' \in [Fd -> Nat] /\ \A g \in Fd \ {f} : sent'[g] = sent[g]
  BY <1>0 DEF RepTypeOK
<1>2. RepTypeOK'
  BY <1>0, <1>1 DEF RepTypeOK
<1>3. Others(f)
  BY <1>0, <1>1 DEF Others, RepTypeOK
<1>4. FdInv(f)'
  BY <1>0 DEF FdInv
<1>5. Calm => fatal' = "no" /\ entry'[f] # "garbage" /\ (asleep'[f] <=> buffer'[f] # <<>>)
  BY <1>0 DEF CalmInv
<1> QED
  BY <1>2, <1>3, <1>4, <1>5, Elsewhere

\* What is said to a client directly, when nothing is kept for it: k of the n bytes are
\* taken, and a replier is made for the others.
LEMMA DirectPreserves ==
  ASSUME RepInv, Running, NEW f \in Fd, NEW n \in Nat, entry[f] = "none", client[f] = "there",
         NEW k \in Takes(n),
         sent' = [sent EXCEPT ![f] = @ + n],
         wire' = [wire EXCEPT ![f] = @ \o SubSeq(Bytes(sent[f], n), 1, Taken(k))],
         IF k = n
         THEN UNCHANGED <<entry, nrep, buffer, asleep>>
         ELSE /\ entry' \in Grown(f) /\ nrep' = Counted(f)
              /\ buffer' = [buffer EXCEPT ![f] = Rest(Bytes(sent[f], n), Taken(k))]
              /\ asleep' = [asleep EXCEPT ![f] = TRUE],
         UNCHANGED <<client, fatal, world>>
  PROVE  RepInv'
<1> DEFINE s == Bytes(sent[f], n)
           t == Taken(k)
           head == SubSeq(s, 1, t)
           rest == Rest(s, t)
<1>0. RepTypeOK /\ FdInv(f) /\ CalmInv
  BY DEF RepInv
<1>1. s \in Seq(Nat) /\ Len(s) = n /\ sent[f] \in Nat
  BY <1>0, BytesSeq DEF RepTypeOK
<1>2. t \in 0..Len(s) /\ (k = n => t = n)
  BY <1>1 DEF Takes, Taken
<1>3. /\ head \in Seq(Nat) /\ rest \in Seq(Nat) /\ Len(rest) = n - t
      /\ head \o rest = s
  BY <1>1, <1>2, Divided
<1>4. buffer[f] = <<>> /\ ~asleep[f] /\ wire[f] \in Seq(Nat) /\ wire[f] \o buffer[f] = Bytes(0, sent[f])
  BY <1>0 DEF FdInv, RepTypeOK, Running
<1>5. wire[f] = Bytes(0, sent[f])
  BY <1>4, ConcatEmptySeq
<1>6. /\ wire' = [wire EXCEPT ![f] = @ \o head] /\ wire'[f] = wire[f] \o head
      /\ sent'[f] = sent[f] + n
  BY <1>0 DEF RepTypeOK
<1>7. k # n => /\ buffer' = [buffer EXCEPT ![f] = rest] /\ buffer'[f] = rest
               /\ asleep' = [asleep EXCEPT ![f] = TRUE] /\ asleep'[f]
  BY <1>0 DEF RepTypeOK
<1>8. k # n => t < n
  BY <1>1 DEF Takes, Taken
<1> HIDE DEF s, t, head, rest
<1>9. wire[f] \o head \in Seq(Nat)
  BY <1>3, <1>4, ConcatProperties
<1>10. (wire[f] \o head) \o rest = Bytes(0, sent[f] + n)
  <2>1. (wire[f] \o head) \o rest = wire[f] \o (head \o rest)
    BY <1>3, <1>4, Associative
  <2>2. Bytes(0, sent[f]) \o Bytes(sent[f], n) = Bytes(0, sent[f] + n)
    BY <1>1, BytesGoOn
  <2> QED
    BY <1>3, <1>5, <2>1, <2>2 DEF s
<1>11. wire'[f] = Bytes(0, Len(wire'[f]))
  <2>1. sent[f] + n \in Nat
    BY <1>1
  <2> QED
    BY <1>3, <1>6, <1>9, <1>10, <2>1, BytesPrefix, ZenonT(30)
<1>12. \A g \in Fd \ {f} : wire'[g] = wire[g] /\ sent'[g] = sent[g]
  BY <1>0, <1>6 DEF RepTypeOK
<1>13. wire' \in [Fd -> Seq(Nat)] /\ sent' \in [Fd -> Nat]
  <2>1. wire' \in [Fd -> Seq(Nat)]
    BY <1>0, <1>6, <1>9 DEF RepTypeOK
  <2>2. sent' \in [Fd -> Nat]
    BY <1>0, <1>1 DEF RepTypeOK
  <2> QED
    BY <2>1, <2>2
<1>14. CASE k = n
  <2>1. UNCHANGED <<entry, nrep, buffer, asleep>>
    BY <1>14
  <2>2. RepTypeOK' /\ Others(f)
    BY <1>0, <1>12, <1>13, <2>1 DEF RepTypeOK, Others
  <2>3. rest = <<>>
    BY <1>2, <1>3, <1>14, EmptySeq
  <2>4. wire'[f] \o buffer'[f] = Bytes(0, sent'[f])
    BY <1>4, <1>6, <1>10, <2>1, <2>3
  <2>5. FdInv(f)'
    BY <1>0, <1>11, <2>1, <2>4 DEF FdInv
  <2>6. Calm => fatal' = "no" /\ entry'[f] # "garbage" /\ (asleep'[f] <=> buffer'[f] # <<>>)
    BY <1>0, <2>1 DEF CalmInv
  <2> QED
    BY <2>2, <2>5, <2>6, Elsewhere
<1>15. CASE k # n
  <2>1. entry' \in Grown(f) /\ nrep' = Counted(f)
    BY <1>15
  <2>2. nrep \in Nat /\ f \in Nat
    BY <1>0 DEF RepTypeOK, Fd
  <2>3. nrep' \in Nat /\ nrep' >= nrep /\ nrep' >= f
    BY <2>1, <2>2 DEF Counted
  <2>4. /\ entry' \in [Fd -> {"none", "replier", "garbage"}] /\ entry'[f] = "replier"
        /\ \A g \in Fd \ {f} :
             entry'[g] = entry[g] \/ (entry'[g] = "garbage" /\ entry[g] # "replier" /\ ~Calm)
    <3>1. CASE f <= nrep
      BY <1>0, <2>1, <3>1 DEF Grown, RepTypeOK
    <3>2. CASE ~(f <= nrep)
      <4>1. PICK N \in (IF "garbage" \in world THEN SUBSET (nrep + 1 .. f - 1) ELSE {{}}) :
              entry' = [g \in Fd |-> IF g = f THEN "replier" ELSE IF g \in N THEN "garbage" ELSE entry[g]]
        BY <2>1, <3>2 DEF Grown
      <4>2. ASSUME NEW g \in Fd \ {f}, entry'[g] # entry[g]
            PROVE  entry'[g] = "garbage" /\ entry[g] # "replier" /\ ~Calm
        <5>1. g \in N /\ entry'[g] = "garbage"
          BY <4>1, <4>2
        <5>2. "garbage" \in world /\ g > nrep
          BY <2>2, <4>1, <5>1
        <5>3. FdInv(g) /\ g \in Nat
          BY DEF RepInv, Fd
        <5>4. entry[g] # "replier"
          BY <2>2, <5>2, <5>3 DEF FdInv
        <5> QED
          BY <5>1, <5>2, <5>4 DEF Calm
      <4> QED
        BY <1>0, <4>1, <4>2 DEF RepTypeOK
    <3> QED
      BY <3>1, <3>2
  <2>5. \A g \in Fd \ {f} : buffer'[g] = buffer[g] /\ asleep'[g] = asleep[g]
    BY <1>0, <1>7, <1>15 DEF RepTypeOK
  <2>6. buffer' \in [Fd -> Seq(Nat)] /\ asleep' \in [Fd -> BOOLEAN]
    BY <1>0, <1>3, <1>7, <1>15, ZenonT(30) DEF RepTypeOK
  <2>7. RepTypeOK'
    BY <1>0, <1>13, <2>3, <2>4, <2>6 DEF RepTypeOK
  <2>8. Others(f)
    BY <1>12, <2>3, <2>4, <2>5 DEF Others
  <2>9. rest # <<>>
    <3>1. Len(rest) # 0
      BY <1>1, <1>2, <1>3, <1>8, <1>15
    <3> QED
      BY <3>1, EmptySeq
  <2>10. FdInv(f)'
    BY <1>6, <1>7, <1>10, <1>11, <1>15, <2>3, <2>4 DEF FdInv
  <2>11. Calm => fatal' = "no" /\ entry'[f] # "garbage" /\ (asleep'[f] <=> buffer'[f] # <<>>)
    BY <1>0, <1>7, <1>15, <2>4, <2>9 DEF CalmInv
  <2> QED
    BY <2>7, <2>8, <2>10, <2>11, Elsewhere
<1> QED
  BY <1>14, <1>15

LEMMA SputsPreserves ==
  ASSUME RepInv, NEW f \in Fd, NEW n \in Messages, Sputs(f, n)
  PROVE  RepInv'
<1>1. n \in Nat /\ (Calm => n > 0)
  BY MessageFacts
<1>2. /\ client[f] # "none" /\ sent' = [sent EXCEPT ![f] = @ + n] /\ Running
      /\ UNCHANGED <<client, world>>
  BY DEF Sputs
<1>3. RepTypeOK /\ FdInv(f) /\ CalmInv
  BY DEF RepInv
<1>4. CASE entry[f] = "replier"
  <2>1. Keep(f, Bytes(sent[f], n)) /\ UNCHANGED <<entry, nrep, wire>>
    BY <1>4 DEF Sputs
  <2> QED
    BY <1>1, <1>2, <1>4, <2>1, KeepPreserves
<1>5. CASE entry[f] = "garbage"
  <2>1. fatal' = "garbage" /\ UNCHANGED <<entry, nrep, buffer, asleep, wire>>
    BY <1>5 DEF Sputs
  <2>2. ~Calm
    BY <1>3, <1>5 DEF CalmInv
  <2>3. sent' \in [Fd -> Nat] /\ \A g \in Fd \ {f} : sent'[g] = sent[g]
    BY <1>1, <1>2, <1>3 DEF RepTypeOK
  <2>4. RepTypeOK' /\ Others(f)
    BY <1>2, <1>3, <2>1, <2>3 DEF RepTypeOK, Others
  <2>5. FdInv(f)'
    BY <1>2, <1>3, <2>1 DEF FdInv
  <2> QED
    BY <1>2, <2>2, <2>4, <2>5, Elsewhere
<1> DEFINE InVain == client[f] = "gone" /\ UNCHANGED <<entry, nrep, buffer, asleep, wire, fatal>>
<1>6. CASE entry[f] = "none" /\ InVain
  BY <1>1, <1>2, <1>6, VainPreserves
<1>7. CASE entry[f] = "none" /\ ~InVain
  <2>1. PICK k \in Takes(n) :
          /\ wire' = [wire EXCEPT ![f] = @ \o SubSeq(Bytes(sent[f], n), 1, Taken(k))]
          /\ IF k = n
             THEN UNCHANGED <<entry, nrep, buffer, asleep, fatal>>
             ELSE /\ entry' \in Grown(f) /\ nrep' = Counted(f)
                  /\ buffer' = [buffer EXCEPT ![f] = Rest(Bytes(sent[f], n), Taken(k))]
                  /\ asleep' = [asleep EXCEPT ![f] = TRUE]
                  /\ UNCHANGED fatal
    BY <1>7 DEF Sputs
  <2>0. client[f] = "there" \/ n = 0
    BY <1>7 DEF Sputs
  <2>2. CASE client[f] = "there"
    <3>1. UNCHANGED fatal
      BY <2>1
    <3>2. IF k = n
          THEN UNCHANGED <<entry, nrep, buffer, asleep>>
          ELSE /\ entry' \in Grown(f) /\ nrep' = Counted(f)
               /\ buffer' = [buffer EXCEPT ![f] = Rest(Bytes(sent[f], n), Taken(k))]
               /\ asleep' = [asleep EXCEPT ![f] = TRUE]
      BY <2>1
    <3> QED
      BY <1>1, <1>2, <1>7, <2>1, <2>2, <3>1, <3>2, DirectPreserves
  <2>3. CASE client[f] # "there"
    <3>1. n = 0 /\ k = 0 /\ client[f] = "gone"
      BY <1>2, <1>3, <2>0, <2>1, <2>3 DEF Takes, RepTypeOK
    <3>2. Bytes(sent[f], 0) \in Seq(Nat) /\ Len(Bytes(sent[f], 0)) = 0
      BY <1>3, BytesSeq DEF RepTypeOK
    <3>3. SubSeq(Bytes(sent[f], 0), 1, 0) = <<>>
      BY SubSeqEmpty
    <3>4. wire[f] \o <<>> = wire[f]
      BY <1>3, ConcatEmptySeq DEF RepTypeOK
    <3>5. wire' = wire
      BY <1>3, <2>1, <3>1, <3>3, <3>4 DEF RepTypeOK, Taken
    <3> QED
      BY <1>2, <1>7, <2>1, <3>1, <3>5, VainPreserves
  <2> QED
    BY <2>2, <2>3
<1>8. entry[f] \in {"none", "replier", "garbage"}
  BY <1>3 DEF RepTypeOK
<1> HIDE DEF InVain
<1> QED
  BY <1>4, <1>5, <1>6, <1>7, <1>8

LEMMA RunPreserves ==
  ASSUME RepInv, NEW f \in Fd, Run(f)
  PROVE  RepInv'
<1>1. RepTypeOK /\ FdInv(f) /\ CalmInv /\ nrep \in Nat
  BY DEF RepInv, RepTypeOK
<1>2. Running /\ asleep[f] /\ UNCHANGED <<entry, nrep, client, sent, fatal, world>>
  BY DEF Run, lines
<1>3. buffer[f] \in Seq(Nat) /\ wire[f] \in Seq(Nat) /\ sent[f] \in Nat /\ Len(buffer[f]) \in Nat
  BY <1>1, LenProperties DEF RepTypeOK
<1>4. CASE client[f] = "there"
  <2>1. PICK k \in Takes(Len(buffer[f])) \ {-1} :
          /\ wire' = [wire EXCEPT ![f] = @ \o SubSeq(buffer[f], 1, k)]
          /\ buffer' = [buffer EXCEPT ![f] = IF k = Len(@) THEN <<>> ELSE RestLeft(f, k)]
          /\ asleep' = [asleep EXCEPT ![f] = Again(f, k)]
    BY <1>4 DEF Run
  <2>2. k \in 0..Len(buffer[f])
    BY <1>3 DEF Takes
  <2> DEFINE head == SubSeq(buffer[f], 1, k)
             rest == Rest(buffer[f], k)
  <2>3. /\ head \in Seq(Nat) /\ rest \in Seq(Nat) /\ head \o rest = buffer[f]
        /\ Len(rest) = Len(buffer[f]) - k
    BY <1>3, <2>2, Divided
  <2>4. wire[f] \o buffer[f] = Bytes(0, sent[f])
    BY <1>1, <1>2, <1>4 DEF FdInv, Running
  <2>5. k = Len(buffer[f]) => rest = <<>>
    BY <2>2, <2>3, EmptySeq
  <2>6. k # Len(buffer[f]) => rest # <<>>
    BY <2>2, <2>3, EmptySeq
  <2>7. wire'[f] = wire[f] \o head /\ \A g \in Fd \ {f} : wire'[g] = wire[g]
    BY <1>1, <2>1 DEF RepTypeOK
  <2>8. /\ buffer'[f] = rest /\ buffer' = [buffer EXCEPT ![f] = rest]
        /\ \A g \in Fd \ {f} : buffer'[g] = buffer[g]
    BY <1>1, <2>1, <2>5 DEF RepTypeOK, RestLeft
  <2>9. /\ asleep'[f] <=> k # Len(buffer[f])
        /\ asleep' \in [Fd -> BOOLEAN] /\ \A g \in Fd \ {f} : asleep'[g] = asleep[g]
    BY <1>1, <2>1 DEF RepTypeOK, Again
  <2> HIDE DEF head, rest
  <2>10. wire[f] \o head \in Seq(Nat) /\ (wire[f] \o head) \o rest = Bytes(0, sent[f])
    <3>1. (wire[f] \o head) \o rest = wire[f] \o (head \o rest)
      BY <1>3, <2>3, Associative
    <3>2. wire[f] \o head \in Seq(Nat)
      BY <1>3, <2>3, ConcatProperties
    <3> QED
      BY <2>3, <2>4, <3>1, <3>2
  <2>11. wire'[f] = Bytes(0, Len(wire'[f]))
    BY <1>3, <2>3, <2>7, <2>10, BytesPrefix
  <2>12. RepTypeOK'
    <3>1. wire' \in [Fd -> Seq(Nat)]
      BY <1>1, <2>1, <2>10 DEF RepTypeOK, head
    <3>2. buffer' \in [Fd -> Seq(Nat)]
      BY <1>1, <2>3, <2>8 DEF RepTypeOK
    <3> QED
      BY <1>1, <1>2, <2>9, <3>1, <3>2 DEF RepTypeOK
  <2>13. Others(f)
    BY <1>1, <1>2, <2>7, <2>8, <2>9 DEF Others
  <2>14. FdInv(f)'
    <3>1. wire'[f] \o buffer'[f] = Bytes(0, sent'[f])
      BY <1>2, <2>7, <2>8, <2>10
    <3>2. entry[f] = "replier" /\ entry'[f] = "replier"
      BY <1>1, <1>2 DEF FdInv
    <3> QED
      BY <1>1, <1>2, <1>4, <2>11, <3>1, <3>2 DEF FdInv
  <2>15. Calm => fatal' = "no" /\ entry'[f] # "garbage" /\ (asleep'[f] <=> buffer'[f] # <<>>)
    BY <1>1, <1>2, <2>5, <2>6, <2>8, <2>9 DEF CalmInv
  <2> QED
    BY <1>2, <2>12, <2>13, <2>14, <2>15, Elsewhere
<1>5. CASE client[f] = "gone" /\ UNCHANGED <<buffer, asleep, wire>>
  BY <1>1, <1>2, <1>5 DEF RepInv, RepTypeOK, FdInv, CalmInv, Calm
<1>6. CASE /\ client[f] = "gone" /\ UNCHANGED wire
           /\ buffer' = [buffer EXCEPT ![f] = <<>>] /\ asleep' = [asleep EXCEPT ![f] = FALSE]
  <2>1. /\ buffer'[f] = <<>> /\ ~asleep'[f]
        /\ \A g \in Fd \ {f} : buffer'[g] = buffer[g] /\ asleep'[g] = asleep[g]
    BY <1>1, <1>6 DEF RepTypeOK
  <2>2. buffer' \in [Fd -> Seq(Nat)] /\ asleep' \in [Fd -> BOOLEAN]
    <3>1. <<>> \in Seq(Nat)
      BY EmptySeq
    <3> QED
      BY <1>1, <1>6, <3>1 DEF RepTypeOK
  <2>3. RepTypeOK' /\ Others(f)
    BY <1>1, <1>2, <1>6, <2>1, <2>2 DEF RepTypeOK, Others
  <2>4. FdInv(f)'
    BY <1>1, <1>2, <1>6, <2>1 DEF FdInv
  <2>5. Calm => fatal' = "no" /\ entry'[f] # "garbage" /\ (asleep'[f] <=> buffer'[f] # <<>>)
    BY <1>1, <1>2, <2>1 DEF CalmInv
  <2> QED
    BY <1>2, <2>3, <2>4, <2>5, Elsewhere
<1> QED
  BY <1>4, <1>5, <1>6 DEF Run

LEMMA LeavePreserves ==
  ASSUME RepInv, NEW f \in Fd, Leave(f)
  PROVE  RepInv'
<1>1. RepTypeOK /\ FdInv(f) /\ CalmInv /\ nrep \in Nat
  BY DEF RepInv, RepTypeOK
<1>2. /\ Running /\ client' = [client EXCEPT ![f] = "gone"]
      /\ UNCHANGED <<entry, nrep, buffer, asleep, sent, wire, fatal, world>>
  BY DEF Leave
<1>3. client'[f] = "gone" /\ \A g \in Fd \ {f} : client'[g] = client[g]
  BY <1>1, <1>2 DEF RepTypeOK
<1>4. RepTypeOK' /\ Others(f)
  BY <1>1, <1>2, <1>3 DEF RepTypeOK, Others
<1>5. FdInv(f)'
  BY <1>1, <1>2, <1>3 DEF FdInv
<1>6. Calm => fatal' = "no" /\ entry'[f] # "garbage" /\ (asleep'[f] <=> buffer'[f] # <<>>)
  BY <1>1, <1>2 DEF CalmInv
<1> QED
  BY <1>2, <1>4, <1>5, <1>6, Elsewhere

LEMMA ClosePreserves ==
  ASSUME RepInv, NEW f \in Fd, Close(f)
  PROVE  RepInv'
<1>1. RepTypeOK /\ FdInv(f) /\ CalmInv /\ nrep \in Nat
  BY DEF RepInv, RepTypeOK
<1>2. /\ Running /\ client' = [client EXCEPT ![f] = "none"]
      /\ asleep' = [asleep EXCEPT ![f] = FALSE] /\ buffer' = [buffer EXCEPT ![f] = Stale(@)]
      /\ sent' = [sent EXCEPT ![f] = 0] /\ wire' = [wire EXCEPT ![f] = <<>>]
      /\ UNCHANGED <<entry, nrep, fatal, world>>
      /\ Calm => buffer[f] = <<>>
  BY DEF Close, Calm
<1>3. buffer[f] \in Seq(Nat) /\ Len(buffer[f]) \in Nat
  BY <1>1, LenProperties DEF RepTypeOK
<1>4. Stale(buffer[f]) \in Seq(Nat) /\ Len(Stale(buffer[f])) = Len(buffer[f])
  BY <1>3 DEF Stale
<1>5. buffer[f] = <<>> => Stale(buffer[f]) = <<>>
  BY <1>3, <1>4, EmptySeq
<1>6. /\ client'[f] = "none" /\ ~asleep'[f] /\ buffer'[f] = Stale(buffer[f])
      /\ sent'[f] = 0 /\ wire'[f] = <<>>
      /\ \A g \in Fd \ {f} : /\ client'[g] = client[g] /\ asleep'[g] = asleep[g]
                             /\ buffer'[g] = buffer[g] /\ sent'[g] = sent[g] /\ wire'[g] = wire[g]
  BY <1>1, <1>2 DEF RepTypeOK
<1>7. RepTypeOK'
  <2>1. client' \in [Fd -> {"none", "there", "gone"}] /\ asleep' \in [Fd -> BOOLEAN]
    BY <1>1, <1>2 DEF RepTypeOK
  <2>2. buffer' \in [Fd -> Seq(Nat)] /\ sent' \in [Fd -> Nat]
    BY <1>1, <1>2, <1>4 DEF RepTypeOK
  <2>3. <<>> \in Seq(Nat)
    BY EmptySeq
  <2>4. wire' \in [Fd -> Seq(Nat)]
    BY <1>1, <1>2, <2>3 DEF RepTypeOK
  <2> QED
    BY <1>1, <1>2, <2>1, <2>2, <2>4 DEF RepTypeOK
<1>8. Others(f)
  BY <1>1, <1>2, <1>6 DEF Others
<1>9. FdInv(f)'
  <2>1. <<>> = Bytes(0, Len(<<>>))
    BY BytesSeq, EmptySeq
  <2>2. wire'[f] = Bytes(0, Len(wire'[f]))
    BY <1>6, <2>1
  <2> QED
    BY <1>1, <1>2, <1>5, <1>6, <2>2 DEF FdInv
<1>10. Calm => fatal' = "no" /\ entry'[f] # "garbage" /\ (asleep'[f] <=> buffer'[f] # <<>>)
  BY <1>1, <1>2, <1>5, <1>6 DEF CalmInv
<1> QED
  BY <1>2, <1>7, <1>8, <1>9, <1>10, Elsewhere

LEMMA OpenPreserves ==
  ASSUME RepInv, NEW f \in Fd, Open(f)
  PROVE  RepInv'
<1>1. RepTypeOK /\ FdInv(f) /\ CalmInv /\ nrep \in Nat
  BY DEF RepInv, RepTypeOK
<1>2. /\ Running /\ client[f] = "none" /\ client' = [client EXCEPT ![f] = "there"]
      /\ UNCHANGED <<entry, nrep, buffer, asleep, sent, wire, fatal, world>>
  BY DEF Open
<1>3. client'[f] = "there" /\ \A g \in Fd \ {f} : client'[g] = client[g]
  BY <1>1, <1>2 DEF RepTypeOK
<1>4. RepTypeOK' /\ Others(f)
  BY <1>1, <1>2, <1>3 DEF RepTypeOK, Others
<1>5. ~asleep[f] /\ sent[f] = 0 /\ wire[f] = <<>>
  BY <1>1, <1>2 DEF FdInv
<1>6. <<>> \o <<>> = Bytes(0, 0)
  <2>1. Bytes(0, 0) = <<>>
    BY BytesSeq, EmptySeq
  <2>2. <<>> \o <<>> = <<>>
    BY EmptySeq, ConcatEmptySeq
  <2> QED
    BY <2>1, <2>2
<1>7. FdInv(f)'
  BY <1>1, <1>2, <1>3, <1>5, <1>6 DEF FdInv
<1>8. Calm => fatal' = "no" /\ entry'[f] # "garbage" /\ (asleep'[f] <=> buffer'[f] # <<>>)
  BY <1>1, <1>2 DEF CalmInv
<1> QED
  BY <1>2, <1>4, <1>7, <1>8, Elsewhere

LEMMA RepInvStep == ASSUME RepInv, [ReplierNext]_replierVars PROVE RepInv'
<1>1. CASE UNCHANGED replierVars
  BY <1>1 DEF replierVars, lines, RepInv, RepTypeOK, FdInv, CalmInv, Calm
<1> QED
  BY <1>1, SputsPreserves, RunPreserves, LeavePreserves, ClosePreserves, OpenPreserves
     DEF ReplierNext

\* What repliers keep fits to what was sent before, unless they are never called.
THEOREM ReplierInvariant == ReplierSpec => []RepInv
<1>1. ReplierInit => RepInv
  BY RepInvInit
<1>2. RepInv /\ [ReplierNext]_replierVars => RepInv'
  BY RepInvStep
<1> QED
  BY <1>1, <1>2, PTL DEF ReplierSpec

\* A client gets its own replies and, unless something unusual happens, all of them, and
\* the server survives the congestion (async_sputs, a_replier::write, a_replier::run,
\* src/src/nonblock.cc:98-201): for any descriptors, clients and strings.
THEOREM RepliesKept == ReplierSpec => []Replies
<1>1. RepInv => Replies
  <2> SUFFICES ASSUME RepInv PROVE OwnReplies /\ (Calm => NothingLost /\ Called /\ fatal = "no")
    BY DEF Replies
  <2>1. OwnReplies
    BY DEF RepInv, FdInv, OwnReplies
  <2>2. Calm => Called /\ fatal = "no"
    BY DEF RepInv, CalmInv, Called
  <2>3. Calm => NothingLost
    BY DEF RepInv, CalmInv, FdInv, NothingLost
  <2> QED
    BY <2>1, <2>2, <2>3
<1> QED
  BY <1>1, ReplierInvariant, PTL

-----------------------------------------------------------------------------
(* The replies of Replier are those of a reliable line.                    *)

Got == [f \in Fd |-> IF Calm THEN Len(wire[f]) ELSE 0]
Due == [f \in Fd |-> IF ~Calm THEN 0 ELSE IF client[f] = "there" THEN sent[f] ELSE Len(wire[f])]

\* A step that leaves the lines of the others alone is a step of the line.
Alone(f) == \A g \in Fd \ {f} : wire'[g] = wire[g] /\ client'[g] = client[g] /\ sent'[g] = sent[g]

LEMMA AloneMapped ==
  ASSUME NEW f \in Fd, Alone(f), UNCHANGED world
  PROVE  Got' = [Got EXCEPT ![f] = Got'[f]] /\ Due' = [Due EXCEPT ![f] = Due'[f]]
<1>1. Calm' = Calm
  BY DEF Calm
<1>2. \A g \in Fd \ {f} : Got'[g] = Got[g] /\ Due'[g] = Due[g]
  BY <1>1 DEF Alone, Got, Due
<1>3. /\ Got = [g \in Fd |-> Got[g]] /\ Got' = [g \in Fd |-> Got'[g]]
      /\ Due = [g \in Fd |-> Due[g]] /\ Due' = [g \in Fd |-> Due'[g]]
  BY DEF Got, Due
<1> HIDE DEF Got, Due
<1>4. Got' = [Got EXCEPT ![f] = Got'[f]]
  BY <1>2, <1>3
<1>5. Due' = [Due EXCEPT ![f] = Due'[f]]
  BY <1>2, <1>3
<1> QED
  BY <1>4, <1>5

LEMMA Same ==
  ASSUME NEW f \in Fd, Alone(f), UNCHANGED world, Got'[f] = Got[f], Due'[f] = Due[f]
  PROVE  Got' = Got /\ Due' = Due
<1>1. Got' = [Got EXCEPT ![f] = Got[f]] /\ Due' = [Due EXCEPT ![f] = Due[f]]
  BY AloneMapped
<1> QED
  BY <1>1 DEF Got, Due

\* The line in numbers: what arrived, and what is kept.
LineInv ==
  \A f \in Fd :
    /\ Got[f] = Len(wire[f]) /\ Len(wire[f]) \in Nat /\ sent[f] \in Nat
    /\ Due[f] = IF client[f] = "there" THEN sent[f] ELSE Len(wire[f])
    /\ client[f] = "there" => Len(wire[f]) + Len(buffer[f]) = sent[f]
    /\ Len(buffer[f]) \in Nat /\ (buffer[f] = <<>> <=> Len(buffer[f]) = 0)

LEMMA Lengths == RepInv /\ Calm => LineInv
<1> SUFFICES ASSUME RepInv, Calm, NEW f \in Fd
             PROVE  /\ Got[f] = Len(wire[f]) /\ Len(wire[f]) \in Nat /\ sent[f] \in Nat
                    /\ Due[f] = IF client[f] = "there" THEN sent[f] ELSE Len(wire[f])
                    /\ client[f] = "there" => Len(wire[f]) + Len(buffer[f]) = sent[f]
                    /\ Len(buffer[f]) \in Nat /\ (buffer[f] = <<>> <=> Len(buffer[f]) = 0)
  BY DEF LineInv
<1>1. RepTypeOK /\ FdInv(f) /\ CalmInv
  BY DEF RepInv
<1>2. wire[f] \in Seq(Nat) /\ buffer[f] \in Seq(Nat) /\ sent[f] \in Nat
  BY <1>1 DEF RepTypeOK
<1>3. Len(wire[f]) \in Nat /\ Len(buffer[f]) \in Nat /\ (buffer[f] = <<>> <=> Len(buffer[f]) = 0)
  BY <1>2, LenProperties, EmptySeq
<1>4. ASSUME client[f] = "there" PROVE Len(wire[f]) + Len(buffer[f]) = sent[f]
  <2>1. wire[f] \o buffer[f] = Bytes(0, sent[f])
    BY <1>1, <1>4 DEF FdInv, CalmInv
  <2> QED
    BY <1>2, <2>1, BytesPrefix
<1> QED
  BY <1>2, <1>3, <1>4 DEF Got, Due

LEMMA LengthsAfter == ASSUME RepInv', Calm' PROVE LineInv'
  BY Lengths, PTL

LEMMA Parts ==
  ASSUME NEW a \in Nat, NEW b \in Nat, NEW c, a + b = c
  PROVE  a <= c
  OBVIOUS

LEMMA Advance ==
  ASSUME NEW w \in Nat, NEW b \in Nat, NEW c, w + b = c, NEW k \in 1..b
  PROVE  w + k \in w + 1 .. c
  OBVIOUS

LEMMA SputsOnLine ==
  ASSUME RepInv, RepInv', Calm, NEW f \in Fd, NEW n \in Messages, Sputs(f, n)
  PROVE  Line!Next \/ (Got' = Got /\ Due' = Due)
<1>1. n \in Nat /\ n > 0
  BY MessageFacts
<1>2. /\ client[f] # "none" /\ sent' = [sent EXCEPT ![f] = @ + n]
      /\ UNCHANGED <<client, world>>
  BY DEF Sputs
<1>3. RepTypeOK /\ RepTypeOK' /\ FdInv(f) /\ CalmInv /\ Calm' /\ entry[f] # "garbage"
  BY <1>2 DEF RepInv, Calm, CalmInv
<1>4. \/ wire' = wire
      \/ /\ client[f] = "there"
         /\ \E s \in Seq(Nat) : wire' = [wire EXCEPT ![f] = @ \o s]
  <2>1. CASE entry[f] = "replier" \/ wire' = wire
    BY <2>1 DEF Sputs
  <2>2. CASE entry[f] # "replier" /\ wire' # wire
    <3>1. PICK k \in Takes(n) : wire' = [wire EXCEPT ![f] = @ \o SubSeq(Bytes(sent[f], n), 1, Taken(k))]
      BY <1>3, <2>2 DEF Sputs
    <3>2. client[f] = "there"
      BY <1>1, <1>3, <2>2 DEF Sputs
    <3>3. sent[f] \in Nat
      BY <1>3 DEF RepTypeOK
    <3>4. Bytes(sent[f], n) \in Seq(Nat) /\ Len(Bytes(sent[f], n)) = n
      BY <1>1, <3>3, BytesSeq
    <3>5. Taken(k) \in 0..n
      BY <1>1 DEF Takes, Taken
    <3>6. SubSeq(Bytes(sent[f], n), 1, Taken(k)) \in Seq(Nat)
      BY <3>4, <3>5, Divided
    <3> QED
      BY <3>1, <3>2, <3>6
  <2> QED
    BY <2>1, <2>2
<1>5. Len(wire'[f]) >= Len(wire[f])
  <2>1. wire[f] \in Seq(Nat) /\ Len(wire[f]) \in Nat
    BY <1>3, LenProperties DEF RepTypeOK
  <2>2. CASE wire' = wire
    BY <2>1, <2>2
  <2>3. ASSUME NEW s \in Seq(Nat), wire' = [wire EXCEPT ![f] = @ \o s]
        PROVE  Len(wire'[f]) >= Len(wire[f])
    <3>1. wire'[f] = wire[f] \o s
      BY <1>3, <2>3 DEF RepTypeOK
    <3>2. Len(wire[f] \o s) = Len(wire[f]) + Len(s) /\ Len(s) \in Nat
      BY <2>1, ConcatProperties, LenProperties
    <3> QED
      BY <2>1, <3>1, <3>2
  <2> QED
    BY <1>4, <2>2, <2>3
<1>6. Alone(f)
  BY <1>2, <1>3, <1>4 DEF Alone, RepTypeOK
<1>7. sent'[f] = sent[f] + n /\ client'[f] = client[f]
  BY <1>2, <1>3 DEF RepTypeOK
<1>8. /\ Got[f] = Len(wire[f]) /\ Len(wire[f]) \in Nat /\ sent[f] \in Nat
      /\ Due[f] = IF client[f] = "there" THEN sent[f] ELSE Len(wire[f])
  BY Lengths DEF LineInv
<1>9. /\ Got'[f] = Len(wire'[f]) /\ Len(wire'[f]) \in Nat /\ sent'[f] \in Nat
      /\ Due'[f] = IF client'[f] = "there" THEN sent'[f] ELSE Len(wire'[f])
      /\ client'[f] = "there" => Len(wire'[f]) <= sent'[f]
  <2>1. /\ Got'[f] = Len(wire'[f]) /\ Len(wire'[f]) \in Nat /\ sent'[f] \in Nat
        /\ Due'[f] = IF client'[f] = "there" THEN sent'[f] ELSE Len(wire'[f])
        /\ client'[f] = "there" => Len(wire'[f]) + Len(buffer'[f]) = sent'[f]
        /\ Len(buffer'[f]) \in Nat
    BY <1>3, LengthsAfter DEF LineInv
  <2>2. client'[f] = "there" => Len(wire'[f]) <= sent'[f]
    BY <2>1, Parts
  <2> QED
    BY <2>1, <2>2
<1>10. CASE client[f] = "there"
  <2>1. Due'[f] \in Nat /\ Due'[f] > Due[f] /\ Got'[f] \in Got[f]..Due'[f]
    BY <1>1, <1>5, <1>7, <1>8, <1>9, <1>10
  <2>2. Due' = [Due EXCEPT ![f] = Due'[f]] /\ Got' = [Got EXCEPT ![f] = Got'[f]]
    BY <1>2, <1>6, AloneMapped
  <2> QED
    BY <2>1, <2>2 DEF Line!Next, Line!Send, Got, Due
<1>11. CASE client[f] # "there"
  <2>1. wire' = wire /\ Got'[f] = Got[f] /\ Due'[f] = Due[f]
    BY <1>4, <1>7, <1>8, <1>9, <1>11
  <2> QED
    BY <1>2, <1>6, <2>1, Same
<1> QED
  BY <1>10, <1>11

LEMMA RunOnLine ==
  ASSUME RepInv, RepInv', Calm, NEW f \in Fd, Run(f)
  PROVE  Line!Next \/ (Got' = Got /\ Due' = Due)
<1>1. RepTypeOK /\ RepTypeOK' /\ FdInv(f) /\ CalmInv
  BY DEF RepInv
<1>2. asleep[f] /\ UNCHANGED <<client, sent, world>> /\ buffer[f] # <<>>
  BY <1>1 DEF Run, lines, CalmInv
<1>3. Calm'
  BY <1>2 DEF Calm
<1>4. /\ Got[f] = Len(wire[f]) /\ Len(wire[f]) \in Nat /\ sent[f] \in Nat
      /\ Due[f] = IF client[f] = "there" THEN sent[f] ELSE Len(wire[f])
      /\ client[f] = "there" => Len(wire[f]) + Len(buffer[f]) = sent[f]
      /\ Len(buffer[f]) \in Nat /\ Len(buffer[f]) # 0
  BY <1>2, Lengths DEF LineInv
<1>5. /\ Got'[f] = Len(wire'[f])
      /\ Due'[f] = IF client'[f] = "there" THEN sent'[f] ELSE Len(wire'[f])
  BY <1>3, LengthsAfter DEF LineInv
<1>6. CASE client[f] = "there"
  <2>1. PICK k \in Takes(Len(buffer[f])) \ {-1} :
          wire' = [wire EXCEPT ![f] = @ \o SubSeq(buffer[f], 1, k)]
    BY <1>6 DEF Run
  <2>2. k \in 1..Len(buffer[f])
    BY <1>4 DEF Takes
  <2>3. wire'[f] = wire[f] \o SubSeq(buffer[f], 1, k) /\ Alone(f)
    BY <1>1, <1>2, <2>1 DEF RepTypeOK, Alone
  <2>4. wire[f] \in Seq(Nat) /\ buffer[f] \in Seq(Nat) /\ k \in 0..Len(buffer[f])
    BY <1>1, <2>2 DEF RepTypeOK
  <2>5. SubSeq(buffer[f], 1, k) \in Seq(Nat) /\ Len(SubSeq(buffer[f], 1, k)) = k
    BY <2>4, Divided
  <2>6. Len(wire'[f]) = Len(wire[f]) + k
    <3> DEFINE head == SubSeq(buffer[f], 1, k)
    <3>1. head \in Seq(Nat) /\ Len(head) = k /\ wire'[f] = wire[f] \o head
      BY <2>3, <2>5
    <3> HIDE DEF head
    <3>2. Len(wire[f] \o head) = Len(wire[f]) + Len(head)
      BY <2>4, <3>1, ConcatProperties
    <3> QED
      BY <3>1, <3>2
  <2>7. Got'[f] \in Got[f] + 1 .. Due[f] /\ Due'[f] = Due[f]
    <3>1. Due[f] = sent[f] /\ Due'[f] = sent[f]
      BY <1>2, <1>4, <1>5, <1>6
    <3>2. Len(wire[f]) + k \in Len(wire[f]) + 1 .. sent[f]
      BY <1>4, <1>6, <2>2, Advance
    <3>3. Got[f] = Len(wire[f]) /\ Got'[f] = Len(wire[f]) + k
      BY <1>4, <1>5, <2>6
    <3> QED
      BY <3>1, <3>2, <3>3
  <2>8. Due' = [Due EXCEPT ![f] = Due'[f]] /\ Got' = [Got EXCEPT ![f] = Got'[f]]
    BY <1>2, <2>3, AloneMapped
  <2>9. Due' = Due
    BY <2>7, <2>8 DEF Due
  <2>10. \E m \in Got[f] + 1 .. Due[f] : Got' = [Got EXCEPT ![f] = m]
    BY <2>7, <2>8
  <2> QED
    BY <2>9, <2>10 DEF Line!Next, Line!Arrive, Got, Due
<1>7. CASE client[f] # "there"
  <2>1. wire' = wire
    BY <1>7 DEF Run
  <2>2. Got'[f] = Got[f] /\ Due'[f] = Due[f] /\ Alone(f)
    BY <1>2, <1>4, <1>5, <1>7, <2>1 DEF Alone
  <2> QED
    BY <1>2, <2>2, Same
<1> QED
  BY <1>6, <1>7

LEMMA LeaveOnLine ==
  ASSUME RepInv, RepInv', Calm, NEW f \in Fd, Leave(f)
  PROVE  Line!Next
<1>1. RepTypeOK
  BY DEF RepInv
<1>2. client' = [client EXCEPT ![f] = "gone"] /\ UNCHANGED <<sent, wire, world>>
  BY DEF Leave
<1>3. client'[f] = "gone" /\ Alone(f) /\ Calm'
  BY <1>1, <1>2 DEF RepTypeOK, Alone, Calm
<1>4. Got[f] = Len(wire[f])
  BY Lengths DEF LineInv
<1>5. Got'[f] = Len(wire'[f]) /\ Due'[f] = Len(wire'[f])
  BY <1>3, LengthsAfter DEF LineInv
<1>6. Due' = [Due EXCEPT ![f] = Got[f]] /\ Got' = [Got EXCEPT ![f] = Got[f]]
  BY <1>2, <1>3, <1>4, <1>5, AloneMapped
<1>7. Got' = Got
  BY <1>6 DEF Got
<1> QED
  BY <1>6, <1>7 DEF Line!Next, Line!Leave, Got, Due

LEMMA CloseOnLine ==
  ASSUME RepInv, RepInv', Calm, NEW f \in Fd, Close(f)
  PROVE  Line!Next
<1>1. RepTypeOK
  BY DEF RepInv
<1>2. /\ client' = [client EXCEPT ![f] = "none"] /\ sent' = [sent EXCEPT ![f] = 0]
      /\ wire' = [wire EXCEPT ![f] = <<>>] /\ UNCHANGED world /\ buffer[f] = <<>>
  BY DEF Close, Calm
<1>3. client'[f] = "none" /\ wire'[f] = <<>> /\ Alone(f) /\ Calm'
  BY <1>1, <1>2 DEF RepTypeOK, Alone, Calm
<1>4. Got[f] = Due[f]
  <2>1. /\ Got[f] = Len(wire[f]) /\ Len(wire[f]) \in Nat
        /\ Due[f] = IF client[f] = "there" THEN sent[f] ELSE Len(wire[f])
        /\ client[f] = "there" => Len(wire[f]) + Len(buffer[f]) = sent[f]
        /\ Len(buffer[f]) = 0
    BY <1>2, Lengths DEF LineInv
  <2> QED
    BY <2>1
<1>5. Got'[f] = 0 /\ Due'[f] = 0
  <2>1. Got'[f] = Len(wire'[f]) /\ Due'[f] = Len(wire'[f])
    BY <1>3, LengthsAfter DEF LineInv
  <2> QED
    BY <1>3, <2>1, EmptySeq
<1>6. Due' = [Due EXCEPT ![f] = 0] /\ Got' = [Got EXCEPT ![f] = 0]
  BY <1>2, <1>3, <1>5, AloneMapped
<1> QED
  BY <1>4, <1>6 DEF Line!Next, Line!Renew, Got, Due

LEMMA OpenOnLine ==
  ASSUME RepInv, RepInv', Calm, NEW f \in Fd, Open(f)
  PROVE  Got' = Got /\ Due' = Due
<1>1. RepTypeOK /\ FdInv(f)
  BY DEF RepInv
<1>2. /\ client[f] = "none" /\ client' = [client EXCEPT ![f] = "there"]
      /\ UNCHANGED <<sent, wire, world>>
  BY DEF Open
<1>3. client'[f] = "there" /\ Alone(f) /\ Calm' /\ sent[f] = 0 /\ wire[f] = <<>>
  BY <1>1, <1>2 DEF RepTypeOK, Alone, Calm, FdInv
<1>4. Got[f] = Len(wire[f]) /\ Due[f] = Len(wire[f])
  BY <1>2, Lengths DEF LineInv
<1>5. Got'[f] = Len(wire'[f]) /\ Due'[f] = sent'[f]
  BY <1>3, LengthsAfter DEF LineInv
<1>6. Len(wire[f]) = 0
  BY <1>3, EmptySeq
<1> QED
  BY <1>2, <1>3, <1>4, <1>5, <1>6, Same

LEMMA StepOnLine ==
  ASSUME RepInv, RepInv', [ReplierNext]_replierVars
  PROVE  Line!Next \/ (Got' = Got /\ Due' = Due)
<1>1. CASE UNCHANGED replierVars
  BY <1>1 DEF replierVars, lines, Got, Due, Calm
<1>2. CASE ~Calm /\ ReplierNext
  <2>1. ~Calm'
    BY <1>2 DEF ReplierNext, Sputs, Run, Leave, Close, Open, Calm
  <2> QED
    BY <1>2, <2>1 DEF Got, Due
<1>3. CASE Calm /\ ReplierNext
  BY <1>3, SputsOnLine, RunOnLine, LeaveOnLine, CloseOnLine, OpenOnLine DEF ReplierNext
<1> QED
  BY <1>1, <1>2, <1>3

\* The replies of a client arrive as over a reliable line, each byte once and in order,
\* and only a client that has all of them or has left makes room for another, unless
\* something unusual happens (async_sputs, a_replier, src/src/nonblock.cc:98-201;
\* close_and_invalidate, src/src/daemon.cc): the safety part of Reliable.
THEOREM LineImplemented == ReplierSpec => Line!Init /\ [][Line!Next]_(Line!vars)
<1>1. ReplierInit => Line!Init
  <2> SUFFICES ASSUME ReplierInit PROVE Line!Init
    OBVIOUS
  <2>1. \A f \in Fd : wire[f] = <<>> /\ client[f] = "none"
    BY DEF ReplierInit
  <2>2. Len(<<>>) = 0
    BY EmptySeq
  <2>3. \A f \in Fd : Got[f] = 0 /\ Due[f] = 0
    BY <2>1, <2>2 DEF Got, Due
  <2> QED
    BY <2>3 DEF Line!Init, Got, Due
<1>2. RepInv /\ RepInv' /\ [ReplierNext]_replierVars => [Line!Next]_(Line!vars)
  BY StepOnLine DEF Line!vars, Got, Due
<1> QED
  BY <1>1, <1>2, ReplierInvariant, PTL DEF ReplierSpec
=============================================================================
