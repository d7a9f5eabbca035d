-------------------------------- MODULE Text --------------------------------
(***************************************************************************)
(* The text preprocessor (src/src/text.cc): lines of a file and of those   *)
(* it includes, directives taken out.  What a line holds is chosen when it *)
(* is read; a file is as long as it turns out to be.                       *)
(***************************************************************************)
EXTENDS Integers

CONSTANT MaxNest    \* cfg->max_nest

NotAvailable == -1  \* CHARSET_NOT_AVAILABLE

VARIABLES
  embed,    \* how deep files are included in each other: 0 when all has been read
  charset   \* 0, or NotAvailable

\* text::text()
TextInit == embed = 1 /\ charset = 0

\* Every line is encoded before it is looked at.
Readable == embed > 0 /\ charset # NotAvailable

GetLine == Readable /\ UNCHANGED <<embed, charset>>

\* An @include that succeeds.
Enter == Readable /\ embed < MaxNest /\ embed' = embed + 1 /\ UNCHANGED charset

\* The end of an included file.
Leave == embed > 1 /\ embed' = embed - 1 /\ UNCHANGED charset

\* A line that is rejected with code 812, like a misspelled directive.  The number
\* of an unknown @charset is kept.
Refuse ==
  /\ Readable
  /\ charset' \in {charset, NotAvailable}
  /\ UNCHANGED embed

\* A file that cannot be opened, a file that includes itself, a backslash at the end.
Abandon == Readable /\ UNCHANGED <<embed, charset>>

\* encode_string() with a table that does not exist.
Garble == embed > 0 /\ charset = NotAvailable /\ UNCHANGED <<embed, charset>>

Exhaust == embed <= 1 /\ embed' = 0 /\ UNCHANGED charset
=============================================================================
