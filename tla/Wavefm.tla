------------------------------- MODULE Wavefm -------------------------------
(***************************************************************************)
(* A wave form (src/src/waveform.cc, waveform.h) and the agent that sends  *)
(* it (oa_wavefm of src/src/agent.cc).  Samples of two bytes are buffered, *)
(* translated when a descriptor is attached, and written as the six parts  *)
(* of a RIFF form by a descriptor that takes any part of what it is given. *)
(* The number of bytes of each part is kept, not what they are, and how    *)
(* far the bytes that are stored or sent go beyond the end of the buffer.  *)
(***************************************************************************)
EXTENDS Integers, FiniteSetsExt

CONSTANTS
  WavHdr,        \* cfg->wav_hdr
  BufferSize,    \* cfg->buffer_size, in samples
  Rates,         \* factors that samples are dropped by
  Formats,       \* of the samples that are sent: bytes, channels, mu law or not
  HeaderSize, CueSize, LabelSize,   \* bytes of each header, of a cue, of a label
  MaxSamples, MaxCues   \* bounds: samples and labels of a wave form

\* The parts of the form that are headers.
Headers == {1, 3, 5}

ASSUME WaveAssumption ==
  /\ BufferSize \in Nat \ {0} /\ Rates \subseteq Nat \ {0} /\ Formats \subseteq [bytes : Nat \ {0}, channels : {1, 2}, ulaw : BOOLEAN]
  /\ HeaderSize \in [Headers -> Nat \ {0}] /\ CueSize \in Nat /\ LabelSize \in Nat

VARIABLES
  samples,      \* how many samples the synthesizer has produced
  buff_size,    \* in samples; 2 * buff_size bytes are allocated between the steps
  buffer_idx,   \* hdr.buffer_idx: samples, bytes once translated
  cues,         \* labels without and with text
  labels,
  downsamp, format,
  translated,
  total_length, \* as written_bytes() gives it
  ophase, ooffset,
  sent,         \* bytes of each part that the descriptor has taken
  written,      \* by the last flush()
  outside,      \* how many bytes behind the buffer have been stored to or sent
  reported,     \* sums of the 123 and of the 122 replies
  state        \* "filling", "running", "pushed", "done", "cut" or "failed"

waveVars == <<samples, buff_size, buffer_idx, cues, labels, downsamp, format, translated, total_length,
              ophase, ooffset, sent, written, outside, reported, state>>
constVars == <<samples, cues, labels, downsamp, format>>

Parts == 1..6
AllFlushed == 7

-----------------------------------------------------------------------------
(* Parts: header, samples, cue header, cues, adtl header, labels.          *)

PartLen(p) ==
  CASE p \in Headers -> HeaderSize[p]
    [] p = 2 -> buffer_idx
    [] p = 4 -> CueSize * (cues + labels)
    [] p = 6 -> LabelSize * labels
    [] p = AllFlushed -> 0

\* The header of an empty part is superfluous.
Wanted(p) == IF p \in Headers THEN PartLen(p + 1) > 0 ELSE PartLen(p) > 0

Together(f) == f[1] + f[2] + f[3] + f[4] + f[5] + f[6]

\* Mutant: headers of empty parts are counted.
TotalOfAll == Together([p \in Parts |-> PartLen(p)])

Due == [p \in Parts |-> IF Wanted(p) THEN PartLen(p) ELSE 0]
get_total_len == Together(Due)

\* The part and the offset to go on with.  The header is written even if it is superfluous.
update_ophase ==
  IF ~WavHdr THEN IF ophase = 1 THEN <<2, 0>> ELSE <<ophase, ooffset>>
  ELSE IF PartLen(ophase) > ooffset \/ ophase = AllFlushed THEN <<ophase, ooffset>>
  ELSE <<Min({AllFlushed} \cup {p \in ophase + 1..6 : Wanted(p)}), 0>>

\* flush_deferred(), which takes the index for samples even when it is in bytes.
Grown(idx) == IF idx + 4 <= buff_size THEN buff_size ELSE 2 * buff_size

\* The most that any byte has been behind the buffer, with a byte of a buffer of this room.
Beyond(last, room) == Max({outside, last - room})

-----------------------------------------------------------------------------
(* Synthesis.                                                              *)

\* What is left alone while samples come.
filledVars == <<cues, labels, downsamp, format, translated, total_length, ophase, ooffset, sent, written, reported, state>>

\* sample(): flush() makes room.
PutSample ==
  /\ state = "filling" /\ samples < MaxSamples
  /\ samples' = samples + 1
  /\ buffer_idx' = buffer_idx + 1
  /\ buff_size' = IF buff_size = 0 THEN BufferSize ELSE IF buff_size <= buffer_idx + 1 THEN Grown(buffer_idx) ELSE buff_size
  /\ outside' = Beyond(2 * buffer_idx', 2 * buff_size')
  /\ UNCHANGED filledVars

\* sample() of a block: it fills the buffer before it makes room.
SampleBlock(count) ==
  /\ state = "filling" /\ samples + count <= MaxSamples
  /\ samples' = samples + count
  /\ buffer_idx' = buffer_idx + count
  /\ LET size == IF buff_size < count + buffer_idx /\ buff_size = 0 THEN BufferSize ELSE buff_size
     IN buff_size' = size * 2 ^ Min({k \in 0..count : size * 2 ^ k >= buffer_idx + count})
  /\ outside' = Beyond(2 * buffer_idx', 2 * buff_size')
  /\ UNCHANGED filledVars

Label ==
  /\ state = "filling" /\ cues + labels < MaxCues
  /\ \/ cues' = cues + 1 /\ UNCHANGED labels
     \/ labels' = labels + 1 /\ UNCHANGED cues
  /\ UNCHANGED <<samples, buff_size, buffer_idx, downsamp, format, translated, total_length, ophase, ooffset,
                 sent, written, outside, reported, state>>

\* The agent gets the wave form.
Deliver ==
  /\ state = "filling"
  /\ state' = "running"
  /\ UNCHANGED <<samples, buff_size, buffer_idx, cues, labels, downsamp, format, translated, total_length,
                 ophase, ooffset, sent, written, outside, reported>>

-----------------------------------------------------------------------------
(* Output.                                                                 *)

target_size == format.bytes * format.channels

\* The samples are as they should be.
Plain == downsamp = 1 /\ target_size = 2 /\ format.channels = 1 /\ ~format.ulaw

\* The samples that are sent take no more than those they are made of.
InPlace == target_size <= 2 * downsamp

\* Where the last byte is that translate_data() stores of a number of samples: it stores
\* integers of four bytes at each place.
LastStored(idx) ==
  IF Plain THEN 0 ELSE ((idx + downsamp - 1) \div downsamp) * target_size - format.bytes + 4

\* What it stores them to.
Translated(idx) == IF InPlace THEN 2 * buff_size ELSE (idx * target_size) \div downsamp

\* translate(): how many bytes it makes of a number of samples.
Translate(idx) == ((idx + 1) \div downsamp) * target_size

\* flush(): what is left of a part is handed over; when nothing of it is taken, the buffer is enlarged.
HandOver(part, off, len, idx) ==
  \E taken \in {0, 1, len - off} :
    /\ ophase' = part
    /\ ooffset' = off + taken
    /\ sent' = [sent EXCEPT ![part] = @ + taken]
    /\ written' = taken
    /\ reported' = [reported EXCEPT !.written = @ + taken]
    /\ buff_size' = IF taken = 0 THEN Grown(idx) ELSE buff_size

\* The beginning of oa_wavefm::run(): attach(), with its translate() and flush(), and with its
\* xrealloc() of whatever the buffer is to 2 * buff_size bytes.
Attach ==
  /\ state = "running" /\ total_length = -1
  /\ translated' = (translated \/ buffer_idx > 0)
  /\ buffer_idx' = IF translated \/ buffer_idx = 0 THEN buffer_idx ELSE Translate(buffer_idx)
  /\ LET last == IF WavHdr THEN LastStored(buffer_idx) ELSE Max({LastStored(buffer_idx), buffer_idx'})
     IN outside' = IF buffer_idx = 0 THEN outside ELSE Beyond(last, Translated(buffer_idx))
  /\ IF buffer_idx' = 0 THEN UNCHANGED <<ophase, ooffset, sent, written, reported, buff_size>>
     ELSE IF WavHdr THEN HandOver(1, 0, HeaderSize[1], buffer_idx') ELSE HandOver(2, 0, buffer_idx', buffer_idx')
  /\ UNCHANGED <<constVars, state>>
  /\ total_length' = get_total_len'

\* oa_wavefm::run(): the end of its loop.  written_bytes() fails for an untranslated wave form.
Finish ==
  /\ IF translated
     THEN /\ reported' = [reported EXCEPT !.total = total_length]
          /\ state' = "done"
     ELSE state' = "failed" /\ UNCHANGED reported
  /\ written' = 0
  /\ UNCHANGED <<ophase, ooffset, sent>>

\* One turn of the loop of oa_wavefm::run(), with flush().
Flush ==
  /\ state = "running" /\ total_length # -1
  /\ LET next == update_ophase
         len == PartLen(next[1])
     IN IF buff_size = 0 \/ next[1] = AllFlushed \/ len <= next[2]
        THEN Finish /\ UNCHANGED <<buff_size, outside>>
        ELSE /\ HandOver(next[1], next[2], len, buffer_idx)
             /\ state' = IF written' = 0 THEN "pushed" ELSE "running"
             /\ outside' = IF next[1] = 2 THEN Beyond(len, 2 * buff_size) ELSE outside
  /\ UNCHANGED <<constVars, buffer_idx, translated, total_length>>

\* The descriptor is that of another agent: the wave form waits unattached.
Wait ==
  /\ state = "running" /\ total_length = -1
  /\ IF buff_size = 0 THEN Finish /\ UNCHANGED buff_size
     ELSE /\ state' = "pushed" /\ written' = 0 /\ buff_size' = Grown(buffer_idx)
          /\ UNCHANGED <<ophase, ooffset, sent, reported>>
  /\ UNCHANGED <<constVars, buffer_idx, translated, total_length, outside>>

\* select() says that the descriptor is ready.
Wake ==
  /\ state = "pushed"
  /\ state' = "running"
  /\ UNCHANGED <<constVars, buff_size, buffer_idx, translated, total_length, ophase, ooffset, sent, written, outside, reported>>

\* oa_wavefm::brk(), with what detach() writes of the parts that are left.
Brk ==
  /\ state = "pushed"
  /\ IF ~translated THEN state' = "failed" /\ UNCHANGED <<reported, buffer_idx, ophase, ooffset, sent, written>>
     ELSE /\ state' = "cut"
          /\ reported' = [reported EXCEPT !.written = @ + total_length]
          /\ buffer_idx' = 0
          /\ written' = 0
          /\ ophase' = AllFlushed /\ ooffset' = 0
          /\ sent' = [p \in Parts |-> IF p = 2 \/ p < ophase \/ ~WavHdr \/ ~Wanted(p) THEN sent[p] ELSE PartLen(p)]
  /\ UNCHANGED <<constVars, buff_size, translated, total_length, outside>>

-----------------------------------------------------------------------------
WaveInit ==
  /\ samples = 0 /\ buff_size = 0 /\ buffer_idx = 0 /\ cues = 0 /\ labels = 0
  /\ downsamp \in Rates /\ format \in Formats
  /\ translated = FALSE /\ total_length = -1
  /\ ophase = 1 /\ ooffset = 0 /\ sent = [p \in Parts |-> 0]
  /\ written = 0 /\ outside = 0 /\ reported = [written |-> 0, total |-> 0]
  /\ state = "filling"

WaveNext == PutSample \/ (\E count \in {2, 5} : SampleBlock(count)) \/ Label \/ Deliver \/ Attach \/ Flush \/ Wait \/ Wake \/ Brk

WaveSpec == WaveInit /\ [][WaveNext]_waveVars

-----------------------------------------------------------------------------
\* How far a translation in place and what is sent of it may be behind the buffer: no byte if
\* the samples become single bytes, one sample if they stay as they are, for (n + 1) / 1 are
\* sent of n, and otherwise what integers are too long by and what n / downsamp is rounded by.
Spill == IF Plain THEN 2 ELSE IF target_size = 1 THEN 0 ELSE 2 * downsamp + 2 - format.bytes

\* Samples are only ever stored inside the buffer, however the synthesizer hands them
\* over and whenever the buffer is enlarged, and what becomes of them in place is stored
\* there and sent from there but for a few bytes at its end (sample, src/src/waveform.h;
\* flush_deferred, translate, translate_data and attach, src/src/waveform.cc:443-625, 753-763).
Room ==
  /\ state = "filling" => outside = 0
  /\ InPlace /\ BufferSize >= 3 => outside <= Spill

\* Something is left of the samples when some are dropped: (n + 1) \div r may be 0.
Kept == samples + 1 >= downsamp

\* The byte counts of the 123 replies add up to that of the 122 reply, and all the
\* parts of the form that are not superfluous have been written to their ends, however
\* often the descriptor takes only a part (oa_wavefm::run, src/src/agent.cc:750-786;
\* get_total_len, update_ophase and flush, src/src/waveform.cc:660-751).
Delivered ==
  state = "done" /\ Kept =>
    /\ reported.written = reported.total
    /\ WavHdr => sent = Due

\* The buffer is kept to, as far as the code keeps to it, and all that was stored is sent.
Sent == Room /\ Delivered
=============================================================================
