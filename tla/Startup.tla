------------------------------ MODULE Startup -------------------------------
(***************************************************************************)
(* How the configuration comes to be (config_init() of src/src/options.cc, *)
(* the constructors of src/src/voice.cc): the command line is parsed four  *)
(* times, around two files of global options and around the languages and  *)
(* their voices, each of which begins as a copy of what it belongs to.     *)
(***************************************************************************)
EXTENDS Sequences, SequencesExt, FiniteSetsExt

CONSTANTS
  Programs,   \* [cmd, fixed, ini : items, langs : names, voices, soft : by language, file : items by name]
  MaxSlots    \* how many times the extra options suffice for the levels

IsSequence(s) == s \in Seq(Range(s))

\* A value is what it says in the end, and the layers around that: parse_cfg_str() takes one
\* away, quotes around the value, escape sequences in it, or both at once.  "\"cz\"" has two.
\* ascii: has it no other characters?
Layer == SUBSET {"quotes", "escapes"} \ {{}}
Saying(what) == [is : what, layers : Seq(Layer), ascii : BOOLEAN]

\* An item is [scope, name, val]; of the command line, it is an argument --name=val.
IsItems(items) ==
  /\ IsSequence(items)
  /\ \A it \in Range(items) : it \in [scope : {it.scope}, name : {it.name}, val : Saying({it.val.is})]

ASSUME StartAssumption ==
  /\ MaxSlots \in Nat \ {0}
  /\ \A p \in Programs :
       /\ IsItems(p.cmd) /\ IsItems(p.fixed) /\ IsItems(p.ini) /\ \A f \in DOMAIN p.file : IsItems(p.file[f])
       /\ IsSequence(p.langs)
       /\ \A l \in Range(p.langs) :
            /\ l \in DOMAIN p.voices \cap DOMAIN p.soft \cap DOMAIN p.file
            /\ IsSequence(p.voices[l]) /\ Range(p.voices[l]) \subseteq DOMAIN p.file

Bare(n) == [is |-> n, layers |-> <<>>, ascii |-> TRUE]
Initial == Bare(0)

VARIABLES
  prog,      \* the configuration that is loaded
  jobs,      \* what is still to be loaded: [scope, at, items]
  pos,       \* the item of the first job, 0 before it is begun
  argv,      \* the command line, which set_option() changes
  val,       \* the option values of the server, of languages and of voices
  chosen,    \* cfg->default_lang and each language's default_voice
  slots,     \* extra options in use, 0 before unit_levels was set
  outcome    \* "loading", "loaded", "died" or "crashed"

startVars == <<prog, jobs, pos, argv, val, chosen, slots, outcome>>

-----------------------------------------------------------------------------
(* Names.                                                                  *)

\* Options of voices are also options of languages, and these of the server.
\* "p" is one of each level, "p[1]" the one of the second level.
NamesOf(scope) ==
  CASE scope = "C" -> {"g", "l", "v", "p", "p[1]", "unit_levels"}
    [] scope = "L" -> {"l", "v", "p", "p[1]"}
    [] scope = "V" -> {"v"}

\* Without a prefix the innermost meaning is taken.
\* Mutant: the outermost.
OutermostScope(item) == IF item.scope # "" THEN item.scope ELSE IF item.name = "voice" THEN "L" ELSE "C"
ScopeOf(item) ==
  IF item.scope # "" THEN item.scope
  ELSE IF item.name \in NamesOf("V") THEN "V"
  ELSE IF item.name \in NamesOf("L") \cup {"voice"} THEN "L"
  ELSE "C"

Understood(item) ==
  /\ item.name \in NamesOf(ScopeOf(item)) \cup (IF ScopeOf(item) = "C" THEN {"language"} ELSE {})
                    \cup (IF ScopeOf(item) = "L" THEN {"voice"} ELSE {})
  /\ item.name = "p[1]" => slots > 0

\* Mutant: escape sequences are left alone.
ParsedQuotes(v) == IF v.layers # <<>> /\ Head(v.layers) = {"quotes"} THEN [v EXCEPT !.layers = Tail(@)] ELSE v

\* parse_cfg_str(), when a value is set
Parsed(v) == IF v.layers = <<>> THEN v ELSE [v EXCEPT !.layers = Tail(@)]

\* encode_string() runs over an argument every time it comes to it.  While the charset is the
\* default one, it leaves ASCII alone and shrieks at all else (418).
Encoded(item) == item.val.ascii

-----------------------------------------------------------------------------
(* What is loaded, in order.                                               *)

Cmd == [scope |-> "", at |-> <<>>, items |-> <<>>]
File(scope, at, items) == [scope |-> scope, at |-> at, items |-> items]

Language(p, l) == File("L", <<l>>, p.file[l])
Voice(p, l, v) == File("V", <<l, v>>, p.file[v])

Jobs(p) ==
  <<Cmd, File("C", <<>>, p.fixed), Cmd, File("C", <<>>, p.ini), Cmd>>
  \o [i \in 1..Len(p.langs) |-> Language(p, p.langs[i])] \o <<Cmd>>

StartInit ==
  /\ prog \in Programs /\ jobs = Jobs(prog) /\ pos = 0 /\ argv = prog.cmd
  /\ val = [loc \in {<<>>} |-> [n \in NamesOf("C") |-> Initial]]
  /\ chosen = [lang |-> 1, voice |-> [l \in DOMAIN prog.voices |-> 1]]
  /\ slots = 0 /\ outcome = "loading"

Job == Head(jobs)
Items == IF Job.scope = "" THEN argv ELSE Job.items
Loaded == {loc \in DOMAIN val : Len(loc) = 1} # {}
ThisLang == prog.langs[chosen.lang]
ThisVoice == prog.voices[ThisLang][chosen.voice[ThisLang]]

-----------------------------------------------------------------------------
(* Jobs.                                                                   *)

\* The options that a language adds to those of its voices.
SoftNames(p, l) == IF p.soft[l] THEN {"s"} ELSE {}

\* A language begins with the server's values, a voice with its language's and with the
\* defaults of the soft options.
LanguageStart == [n \in NamesOf("L") |-> val[<<>>][n]]
VoiceStart(l) ==
  [n \in NamesOf("V") \cup SoftNames(prog, l) |-> IF n \in SoftNames(prog, l) THEN Initial ELSE val[<<l>>][n]]

Begun(at, values) == [loc \in DOMAIN val \cup {at} |-> IF loc \in DOMAIN val THEN val[loc] ELSE values]

\* Whether this_voice can be looked up, as is done before the last job: there is no langs[0]
\* when there is no language.
NoVoice == Len(jobs) = 1 /\ (prog.langs = <<>> \/ prog.voices[ThisLang] = <<>>)

Open ==
  /\ outcome = "loading" /\ jobs # <<>> /\ pos = 0
  /\ IF NoVoice THEN outcome' = "crashed" /\ UNCHANGED <<pos, val>>
     ELSE /\ pos' = 1
          /\ val' = CASE Job.scope = "L" -> Begun(Job.at, LanguageStart)
                      [] Job.scope = "V" -> Begun(Job.at, VoiceStart(Job.at[1]))
                      [] OTHER -> val
          /\ UNCHANGED outcome
  /\ UNCHANGED <<prog, jobs, argv, chosen, slots>>

\* A language adds its voices when its file has been read.
Voices(l) == [i \in 1..Len(prog.voices[l]) |-> Voice(prog, l, prog.voices[l][i])]

Close ==
  /\ outcome = "loading" /\ pos > Len(Items)
  /\ jobs' = (IF Job.scope = "L" THEN Voices(Job.at[1]) ELSE <<>>) \o Tail(jobs) /\ pos' = 0
  /\ outcome' = IF Len(jobs) = 1 THEN "loaded" ELSE outcome
  /\ UNCHANGED <<prog, argv, val, chosen, slots>>

-----------------------------------------------------------------------------
(* Items.                                                                  *)

Reading(scopes) == outcome = "loading" /\ pos \in 1..Len(Items) /\ Job.scope \in scopes
Item == Items[pos]

Die == outcome' = "died" /\ UNCHANGED <<prog, jobs, pos, argv, val, chosen, slots>>

\* set_option() changes the value where it was read, too.
Spent == IF Job.scope = "" THEN [argv EXCEPT ![pos].val = Parsed(@)] ELSE argv

\* The levels take an extra option each and get the values that the first level has now.
WithLevels(values) == [values EXCEPT !["p[1]"] = values["p"]]
SetLevels(at) ==
  /\ slots' = slots + 1
  /\ val' = [val EXCEPT ![at] = WithLevels([@ EXCEPT !["unit_levels"] = Parsed(Item.val)])]

SetAt(at) ==
  IF Item.name = "unit_levels" /\ slots = MaxSlots THEN Die
  ELSE /\ IF Item.name = "unit_levels" THEN SetLevels(at)
          ELSE val' = [val EXCEPT ![at][Item.name] = Parsed(Item.val)] /\ UNCHANGED slots
       /\ argv' = Spent /\ pos' = pos + 1
       /\ UNCHANGED <<prog, jobs, chosen, outcome>>

\* lang_switch() and voice_switch() look names up; they do not parse them.
Switch(names, Chosen(_)) ==
  IF Item.val.layers = <<>> /\ \E i \in 1..Len(names) : names[i] = Item.val.is
  THEN /\ chosen' = Chosen(CHOOSE i \in 1..Len(names) : names[i] = Item.val.is)
       /\ pos' = pos + 1 /\ UNCHANGED <<prog, jobs, argv, val, slots, outcome>>
  ELSE Die

\* Before there are languages, the command line sets global options only.
\* Mutant: also the one that is a global option itself.
SkippedUnlessGlobal == ~Loaded /\ ScopeOf(Item) # "C"
Skipped == ~Loaded /\ (ScopeOf(Item) # "C" \/ Item.name = "language")

ReadArgument ==
  /\ Reading({""})
  /\ IF ~(Encoded(Item) /\ Understood(Item)) THEN Die
     ELSE IF Skipped THEN pos' = pos + 1 /\ UNCHANGED <<prog, jobs, argv, val, chosen, slots, outcome>>
     ELSE IF Item.name = "language" THEN
       Switch([i \in 1..Len(prog.langs) |-> IF Loaded /\ prog.voices[prog.langs[i]] # <<>> THEN prog.langs[i] ELSE ""],
              LAMBDA i : [chosen EXCEPT !.lang = i])
     ELSE IF Item.name = "voice" THEN
       Switch(prog.voices[ThisLang], LAMBDA i : [chosen EXCEPT !.voice[ThisLang] = i])
     ELSE SetAt(CASE ScopeOf(Item) = "C" -> <<>>
                  [] ScopeOf(Item) = "L" -> <<ThisLang>>
                  [] ScopeOf(Item) = "V" -> <<ThisLang, ThisVoice>>)

\* A file has options of its own kind only.
ReadLine ==
  /\ Reading({"C", "L", "V"})
  /\ IF Item.name \in DOMAIN val[Job.at] /\ (Item.name = "p[1]" => slots > 0) THEN SetAt(Job.at) ELSE Die

StartNext == Open \/ Close \/ ReadArgument \/ ReadLine

StartSpec == StartInit /\ [][StartNext]_startVars /\ WF_startVars(StartNext)

-----------------------------------------------------------------------------
(* What the documentation promises of the order.                           *)

\* The last value that a sequence of items gives to a name at a place.
Given(items, Fits(_)) == {i \in 1..Len(items) : Fits(i)}
LastValue(items, is, else) == IF is = {} THEN else ELSE Parsed(items[Max(is)].val)

LineOf(items, name, else) == LastValue(items, Given(items, LAMBDA i : items[i].name = name), else)

\* The language and voice that are current at an argument, read from left to right.
LangAt(i) ==
  LET is == {k \in 1..(i - 1) : prog.cmd[k].name = "language"} IN
  IF is = {} THEN prog.langs[1] ELSE prog.cmd[Max(is)].val.is
VoiceAt(i) ==
  LET is == {k \in 1..(i - 1) : prog.cmd[k].name = "voice" /\ LangAt(k) = LangAt(i)} IN
  IF is = {} THEN prog.voices[LangAt(i)][1] ELSE prog.cmd[Max(is)].val.is

Means(item, scope) ==
  \/ item.scope = scope
  \/ item.scope = "" /\ CASE scope = "C" -> item.name \notin {"l", "v", "p", "p[1]"}
                          [] scope = "L" -> item.name \in {"l", "p", "p[1]"}
                          [] scope = "V" -> item.name = "v"

\* A value that has been parsed so many times in its place.
Often(v, times) == [v EXCEPT !.layers = SubSeq(@, times + 1, Len(@))]

Argument(loc, name, times, else) ==
  LET is == Given(prog.cmd, LAMBDA i :
              /\ prog.cmd[i].name = name
              /\ Means(prog.cmd[i], CASE Len(loc) = 0 -> "C" [] Len(loc) = 1 -> "L" [] Len(loc) = 2 -> "V")
              /\ Len(loc) >= 1 => LangAt(i) = loc[1]
              /\ Len(loc) = 2 => VoiceAt(i) = loc[2])
  IN IF is = {} THEN else ELSE Often(prog.cmd[Max(is)].val, times)

\* Languages inherit what an argument has become by the third time, the server has it the fourth
\* time; arguments for languages and voices are passed over until these are there.
ServerValue(name, times) == Argument(<<>>, name, times, LineOf(prog.ini, name, LineOf(prog.fixed, name, Initial)))
LanguageValue(l, name) == LineOf(prog.file[l], name, ServerValue(name, 3))
Wanted(loc, name) ==
  CASE Len(loc) = 0 -> ServerValue(name, 4)
    [] Len(loc) = 1 -> Argument(loc, name, 1, LanguageValue(loc[1], name))
    [] Len(loc) = 2 -> Argument(loc, name, 1, LineOf(prog.file[loc[2]], name,
                         IF name = "s" THEN Initial ELSE LanguageValue(loc[1], name)))

\* When all is loaded every option has the value of the argument that means it, or else of the
\* most special file, or else the default, although the command line was parsed four times; and
\* the value has lost no more than one layer, but an argument for the server four.
Precedence ==
  outcome = "loaded" =>
    \A loc \in DOMAIN val : \A name \in DOMAIN val[loc] : val[loc][name] = Wanted(loc, name)

\* A configuration is refused only if there is no voice, or if an argument is not of ASCII
\* characters, or names a language or a voice that is not there, or in quotes, or an option that
\* is known later only (one of a level, or a soft one), or unit_levels, which takes new extra
\* options whenever it is parsed.
Sensible ==
  /\ prog.langs # <<>> /\ \A i \in 1..Len(prog.langs) : prog.voices[prog.langs[i]] # <<>>
  /\ \A i \in 1..Len(prog.cmd) :
       LET it == prog.cmd[i] IN
       /\ it.val.ascii /\ (it.name \in {"language", "voice"} => it.val.layers = <<>>)
       /\ CASE it.name = "language" -> \E k \in 1..Len(prog.langs) : prog.langs[k] = it.val.is
            [] it.name = "voice" -> \E k \in 1..Len(prog.voices[LangAt(i)]) : prog.voices[LangAt(i)][k] = it.val.is
            [] OTHER -> it.name \notin {"s", "p[1]", "unit_levels"}

\* What the promise is about: languages and voices are told apart by their names; what an argument
\* says has one layer around it at most, since for the server it would lose one each of the four
\* times: an escape sequence that yields another, or quotes in quotes, are not what is meant; the
\* levels are made by a line of the fixed file (src/cfg/cfg/fixed.ini:28), before anything is said
\* of one of them, by an argument for the server either, whose value they would inherit; and files
\* and arguments have options that there are.
Different(s) == \A i, k \in 1..Len(s) : s[i] = s[k] => i = k
AnOption(it) ==
  /\ it.scope \in {"", "C", "L", "V"}
  /\ \/ it.scope \in {"", "C"} /\ it.name \in NamesOf("C") \cup {"language"}
     \/ it.scope \in {"", "L"} /\ it.name \in NamesOf("L") \cup {"voice"}
     \/ it.scope \in {"", "V"} /\ it.name \in NamesOf("V") \cup {"s"}
Has(items, names) == \A it \in Range(items) : it.name \in names
Ordinary(p) ==
  /\ Different(p.langs) /\ \A l \in Range(p.langs) : Different(p.voices[l])
  /\ \A it \in Range(p.cmd) :
       /\ AnOption(it) /\ Len(it.val.layers) <= 1 /\ (it.name = "language" => it.val.is # "")
       /\ it.name # "unit_levels" /\ ~(it.scope = "C" /\ it.name = "p")
  /\ \E u \in 1..Len(p.fixed) : \A i \in 1..Len(p.fixed) :
       /\ p.fixed[i].name = "unit_levels" <=> i = u
       /\ p.fixed[i].name \in {"p", "p[1]"} => u < i
  /\ Has(p.fixed, NamesOf("C")) /\ Has(p.ini, NamesOf("C") \ {"unit_levels"})
  /\ \A l \in Range(p.langs) :
       /\ Has(p.file[l], NamesOf("L"))
       /\ \A v \in Range(p.voices[l]) : Has(p.file[v], NamesOf("V") \cup SoftNames(p, l))

Starts == Sensible => outcome \notin {"died", "crashed"}

\* A sensible configuration is loaded, and what is loaded is what was asked for, although
\* the command line is parsed four times (config_init, parse_cmd_line, load_config and
\* set_option, src/src/options.cc; lang::lang and voice::voice, src/src/voice.cc).
Configured == Precedence /\ Starts
=============================================================================
