------------------------------ MODULE Encoding ------------------------------
(***************************************************************************)
(* The internal character encoding (src/src/encoding.cc): one byte for     *)
(* every character that was met in any charset, allocated as text that is  *)
(* read at the start needs it.                                             *)
(***************************************************************************)
EXTENDS Integers, Sequences, FiniteSetsExt

CONSTANTS
  Codes,     \* bytes; 256 of them in the code
  Ascii,     \* bytes that the default charset knows
  ControlBytes,   \* those below the space
  Maps       \* a charset name -> byte -> character; 0 for none

ASSUME EncAssumption ==
  /\ Max(Codes) \in Nat /\ Codes = 0..Max(Codes)
  /\ Ascii \subseteq Codes \ {0} /\ ControlBytes \subseteq Ascii \cup {0}
  /\ \A name \in DOMAIN Maps : Maps[name] \in [Codes -> Nat]

UNDEFINED == 0
UNUSED == 0
Names == DOMAIN Maps

VARIABLES
  epos_charset,  \* internal code -> character
  charset_list,  \* names of the charsets that were loaded
  charsets,      \* per charset: byte -> character
  encoders,      \* per charset: byte -> internal code
  decoders       \* per charset: internal code -> byte

encVars == <<epos_charset, charset_list, charsets, encoders, decoders>>

Blank == [b \in Codes |-> UNDEFINED]
Identity == [b \in Codes |-> IF b \in Ascii THEN b ELSE UNDEFINED]

\* The code of character c, the highest if there are several.
internal_code(c, hint) ==
  IF epos_charset[hint] = c THEN hint
  ELSE Max({UNDEFINED} \cup {i \in Codes : epos_charset[i] = c})

Free == {i \in Codes \ {0} : epos_charset[i] = UNUSED}

\* Mutant: the byte's own code is taken if it is free, though the character has one.
AllocHinted(c, hint) ==
  IF epos_charset[hint] = UNUSED THEN hint
  ELSE IF internal_code(c, hint) # UNDEFINED THEN internal_code(c, hint)
  ELSE Max({UNDEFINED} \cup Free)

\* UNDEFINED when the table overflows.
do_alloc_code(c, hint) ==
  IF internal_code(c, hint) # UNDEFINED THEN internal_code(c, hint)
  ELSE IF epos_charset[hint] = UNUSED THEN hint
  ELSE Max({UNDEFINED} \cup Free)

non_unicode_alloc_code(b) ==
  IF (b \in ControlBytes /\ epos_charset[b] = UNUSED) \/ epos_charset[b] = b THEN b ELSE UNDEFINED

\* The character that byte b of charset cs is taken for.
Character(cs, b) == IF charsets[cs][b] = UNDEFINED THEN non_unicode_alloc_code(b) ELSE charsets[cs][b]

\* One byte of encode_string() with alloc.  What has no code (418) or finds none free
\* (447) is an error.
Allocate(cs, b) ==
  LET c == Character(cs, b)
      code == do_alloc_code(c, b)
  IN /\ b # 0 /\ encoders[cs][b] = UNDEFINED /\ c # UNDEFINED /\ code # UNDEFINED
     /\ epos_charset' = [epos_charset EXCEPT ![code] = c]
     /\ encoders' = [encoders EXCEPT ![cs][b] = code]
     /\ decoders' = [decoders EXCEPT ![cs][code] = b]
     /\ UNCHANGED <<charset_list, charsets>>

\* load_charset(): characters that have a code keep it.  A line of the map that is in
\* error ends it; what was read of it stays.
LoadCharset(name, last) ==
  LET map == [b \in Codes |-> IF b <= last THEN Maps[name][b] ELSE UNDEFINED]
      known == [b \in Codes |-> IF map[b] = UNDEFINED THEN UNDEFINED ELSE internal_code(map[b], b)]
  IN /\ name \notin {charset_list[i] : i \in DOMAIN charset_list}
     /\ charset_list' = Append(charset_list, name)
     /\ charsets' = Append(charsets, map)
     /\ encoders' = Append(encoders, known)
     /\ decoders' = Append(decoders, [i \in Codes |-> Max({UNDEFINED} \cup {b \in Codes \ {0} : i # 0 /\ known[b] = i})])
     /\ UNCHANGED epos_charset

\* init_enc() and load_default_charset(): the codes of the default charset are not
\* entered in epos_charset.
EncInit ==
  /\ epos_charset = Blank
  /\ charset_list = <<"default">>
  /\ charsets = <<Identity>>
  /\ encoders = <<Identity>>
  /\ decoders = <<Identity>>

EncNext ==
  \/ \E cs \in DOMAIN charset_list, b \in Codes : Allocate(cs, b)
  \/ \E name \in Names, last \in {Max(Ascii), Max(Codes)} : LoadCharset(name, last)

EncSpec == EncInit /\ [][EncNext]_encVars

-----------------------------------------------------------------------------
\* The maps have ASCII where it belongs, or leave it out, and nothing else is ASCII.
Chart(m) ==
  /\ m[0] = UNDEFINED
  /\ \A b \in Ascii : m[b] \in {UNDEFINED, b}
  /\ \A b \in Codes \ Ascii : m[b] \notin Ascii

OrdinaryMaps == \A name \in Names : Chart(Maps[name])

\* There are no more other characters than codes for them.
Foreign == {Maps[name][b] : name \in Names, b \in Codes} \ (Ascii \cup {UNDEFINED})
Beyond == Codes \ (Ascii \cup {0})
EnoughCodes ==
  /\ IsFiniteSet(Foreign) /\ Cardinality(Foreign) <= Cardinality(Beyond)
  /\ \A i \in Ascii, j \in Beyond : i < j

Known == {p \in (DOMAIN charset_list) \X Codes : encoders[p[1]][p[2]] # UNDEFINED}

\* Text of any two charsets is compared in the internal encoding: bytes have the same
\* code if and only if they are the same character, whichever charset was loaded or
\* used first, and what was encoded is decoded into the same character
\* (alloc_code, load_charset, src/src/encoding.cc:68-218).
Unified ==
  /\ \A p, q \in Known :
       encoders[p[1]][p[2]] = encoders[q[1]][q[2]] <=> Character(p[1], p[2]) = Character(q[1], q[2])
  /\ \A p \in Known :
       Character(p[1], decoders[p[1]][encoders[p[1]][p[2]]]) = Character(p[1], p[2])
=============================================================================
