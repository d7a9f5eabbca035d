------------------------------ MODULE MCFiles -------------------------------
(***************************************************************************)
(* What is read from files, one of it at a time: rules, the characters of  *)
(* charsets, the configuration, and the cache of files that are read whole.*)
(***************************************************************************)
EXTENDS RuleGrammar, Encoding, FileCache, Startup

VARIABLE purpose    \* "rules", "charsets", "configuration" or "cache"

vars == <<ruleFileVars, encVars, cacheVars, startVars, purpose>>

-----------------------------------------------------------------------------
(* Charsets.                                                               *)

\* Bytes 1 to 3 are ASCII, of which 1 is a control character; 4 to 6 are not.
Known6 == [iso |-> <<0, 2, 3, 11, 12, 13>>, cp |-> <<0, 2, 3, 12, 11, 14>>]
MCMaps == [n \in DOMAIN Known6 |-> [b \in 0..7 |-> IF b \in 1..6 THEN Known6[n][b] ELSE 0]]

ASSUME MapsAssumption == OrdinaryMaps

-----------------------------------------------------------------------------
(* Configurations.                                                         *)

Option(scope, name, v) == [scope |-> scope, name |-> name, val |-> v]
Within(n, layers) == [is |-> n, layers |-> layers, ascii |-> TRUE]
Both == {"quotes", "escapes"}
Deep == Within(3, <<{"quotes"}, Both, {"escapes"}, {"escapes"}, {"quotes"}>>)
Opt(name, n) == Option("", name, Bare(n))

Arguments == {
  Option("", "g", Within(1, <<{"quotes"}>>)), Option("", "l", Within(4, <<Both>>)), Opt("l", 2), Option("C", "l", Bare(1)), Opt("v", 3),
  Option("L", "v", Bare(2)), Option("C", "v", Within(1, <<{"escapes"}>>)),
  Opt("language", "cz"), Opt("voice", "b"), Opt("p[1]", 5), Opt("s", 1)}

CommandLines == UNION {[1..n -> Arguments] : n \in 0..2}
  \cup {<<Opt("g", 3), Opt("unit_levels", 2)>>,
        <<Opt("language", "cz"), Opt("language", "sk"), Option("V", "v", Bare(5))>>,
        <<Option("", "language", Within("cz", <<{"quotes"}>>))>>,
        <<Option("", "g", [Bare(4) EXCEPT !.ascii = FALSE])>>,
        <<Option("C", "l", Deep), Opt("language", "cz"), Option("L", "v", Deep)>>}

\* The files of two languages and of two voices.
OwnFiles == [sk : {<<>>, <<Opt("l", 7), Opt("v", 8)>>}, cz : {<<>>, <<Opt("p[1]", 9)>>},
             a : {<<>>, <<Opt("s", 4), Option("", "v", Within(6, <<Both, {"escapes"}>>))>>}, b : {<<Opt("v", 6)>>}]

Configuration(cmd, ini, langs, cz, files) ==
  [cmd |-> cmd, fixed |-> <<Opt("unit_levels", 1), Opt("g", 2)>>, ini |-> ini, langs |-> langs,
   voices |-> [sk |-> <<"a", "b">>, cz |-> cz], soft |-> [sk |-> TRUE, cz |-> FALSE], file |-> files]

\* Also without languages, and with one that has no voice.
MCConfigurations ==
  {Configuration(c, i, <<"sk", "cz">>, <<"b">>, f) :
     c \in CommandLines, f \in OwnFiles, i \in {<<>>, <<Opt("v", 9), Opt("p", 3)>>}}
  \cup {Configuration(c, <<>>, langs, <<>>, f) :
     c \in {<<>>, <<Opt("language", "cz")>>}, f \in OwnFiles, langs \in {<<>>, <<"cz">>, <<"sk", "cz">>}}

\* What the theorem about configurations assumes.
ASSUME OrdinaryAssumption ==
  \A p \in MCConfigurations :
    (\A it \in Range(p.cmd) : it.name # "unit_levels" /\ it.val # Deep) => Ordinary(p)

-----------------------------------------------------------------------------
Plainest == Configuration(<<>>, <<>>, <<"sk", "cz">>, <<"b">>, [sk |-> <<>>, cz |-> <<>>, a |-> <<>>, b |-> <<Opt("v", 6)>>])

Init ==
  /\ RuleFileInit /\ EncInit /\ CacheInit /\ StartInit
  /\ written = <<1>>    \* which second comes first does not matter
  /\ \/ purpose \in {"rules", "charsets", "cache"} /\ prog = Plainest
     \/ purpose = "configuration"

Next ==
  \/ purpose = "rules" /\ RuleFileNext /\ UNCHANGED <<encVars, cacheVars, startVars, purpose>>
  \/ purpose = "charsets" /\ EncNext /\ UNCHANGED <<ruleFileVars, cacheVars, startVars, purpose>>
  \/ purpose = "cache" /\ CacheNext /\ UNCHANGED <<ruleFileVars, encVars, startVars, purpose>>
  \/ purpose = "configuration" /\ StartNext /\ UNCHANGED <<ruleFileVars, encVars, cacheVars, purpose>>

Spec == Init /\ [][Next]_vars
=============================================================================
