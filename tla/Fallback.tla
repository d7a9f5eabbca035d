------------------------------ MODULE Fallback ------------------------------
(***************************************************************************)
(* Which voice speaks (a_synth::run of src/src/agent.cc): a voice that is  *)
(* made elsewhere may be out of reach when it is used first, and then      *)
(* another one of its language takes its place, in the session or for good.*)
(* No session sets options of its voices: they share the synthesizers.     *)
(* No voice is mute: the server ends when one is spoken with (synth.cc).   *)
(***************************************************************************)
EXTENDS Integers, FiniteSets

CONSTANTS
  Sessions, Master,  \* contexts
  Langs,
  VoicesOf,          \* the voices of each language, whose names are told apart
  FallbackOf,        \* the option fallback_voice of each language, which may be unset
  Unset,
  PermanentOf,       \* languages whose permanent_fallbacks is set
  Kinds,             \* of every voice: "local" or "tcp"
  MaxSet             \* bound: commands that choose languages and voices

ASSUME FallbackAssumption == Master \notin Sessions /\ MaxSet \in Nat

Names == UNION {VoicesOf[l] : l \in Langs}
Contexts == Sessions \cup {Master}

VARIABLES
  default_lang,   \* of each context
  default_voice,  \* of each context and language
  ready,          \* voices whose synthesizer has been made
  speaker,        \* the session whose utterance is synthesized; the master context if none
  spoke,          \* the session that spoke last, in which language and with which voice
  asked,          \* of each session and language: the voice that it was to have
  lost,           \* of each session: languages whose voice was out of reach since then
  set             \* how many commands there have been

voiceVars == <<default_lang, default_voice, ready, speaker, spoke, asked, lost, set>>

-----------------------------------------------------------------------------
Voice(c) == default_voice[c][default_lang[c]]

\* voice_switch(): nothing changes if no voice of the current language has that name.
voice_switch(voices, c, name) ==
  IF name \in VoicesOf[default_lang[c]] THEN [voices EXCEPT ![c][default_lang[c]] = name] ELSE voices

\* The session gets the voice that its language falls back to; the master context, for
\* good, the one that its own language does.
Degraded(voices, s) ==
  LET mine == voice_switch(voices, s, FallbackOf[default_lang[s]])
  IN IF default_lang[s] \in PermanentOf
     THEN voice_switch(mine, Master, FallbackOf[default_lang[Master]])
     ELSE mine

\* setup_synth(): an inventory may be missing, or another server out of reach.
Outcomes(v) ==
  CASE Kinds[v] = "local" -> {"made", "4xx"}
    [] Kinds[v] = "tcp"   -> {"made", "47x", "4xx"}

\* Mutant: any error makes the voice fall back.
FallsBackAlways(code, l) == code # "made" /\ FallbackOf[l] # Unset

FallsBack(code, l) == code = "47x" /\ FallbackOf[l] # Unset

-----------------------------------------------------------------------------
VoiceInit ==
  /\ default_lang \in [Contexts -> Langs] /\ \A s \in Sessions : default_lang[s] = default_lang[Master]
  /\ \E voices \in [Langs -> Names] :
       /\ \A l \in Langs : voices[l] \in VoicesOf[l]
       /\ default_voice = [c \in Contexts |-> voices]
       /\ asked = [s \in Sessions |-> voices]
  /\ ready = {} /\ speaker = Master /\ spoke = <<Master, Unset, Unset>>
  /\ lost = [s \in Sessions |-> {}] /\ set = 0

Idle == speaker = Master
Chooses == Idle /\ set < MaxSet /\ set' = set + 1 /\ UNCHANGED <<ready, speaker, spoke>>

\* A session that ends is followed by one that has what the master context has.
Session(s) ==
  /\ Chooses
  /\ default_lang' = [default_lang EXCEPT ![s] = default_lang[Master]]
  /\ default_voice' = [default_voice EXCEPT ![s] = default_voice[Master]]
  /\ asked' = [asked EXCEPT ![s] = default_voice[Master]]
  /\ lost' = [lost EXCEPT ![s] = {}]

\* lang_switch()
SetLang(s, l) ==
  /\ Chooses
  /\ default_lang' = [default_lang EXCEPT ![s] = l]
  /\ UNCHANGED <<default_voice, asked, lost>>

SetVoice(s, name) ==
  /\ Chooses
  /\ default_voice' = voice_switch(default_voice, s, name)
  /\ IF name \in VoicesOf[default_lang[s]]
     THEN /\ asked' = [asked EXCEPT ![s][default_lang[s]] = name]
          /\ lost' = [lost EXCEPT ![s] = @ \ {default_lang[s]}]
     ELSE UNCHANGED <<asked, lost>>
  /\ UNCHANGED default_lang

\* The same command for the master context, which sessions begin with.
SetMasterVoice(name) ==
  /\ Chooses
  /\ default_voice' = voice_switch(default_voice, Master, name)
  /\ UNCHANGED <<default_lang, asked, lost>>

\* The agent gets segments to synthesize.
Synthesize(s) ==
  /\ Idle /\ speaker' = s
  /\ UNCHANGED <<default_lang, default_voice, ready, spoke, asked, lost, set>>

\* a_synth::run(), which calls itself when the voice has been switched.
Run ==
  /\ ~Idle
  /\ LET v == Voice(speaker)
         l == default_lang[speaker]
     IN \E code \in (IF v \in ready THEN {"made"} ELSE Outcomes(v)) :
          /\ ready' = IF code = "made" THEN ready \cup {v} ELSE ready
          /\ spoke' = IF code = "made" THEN <<speaker, l, v>> ELSE spoke
          /\ lost' = IF code = "47x" THEN [lost EXCEPT ![speaker] = @ \cup {l}] ELSE lost
          /\ IF FallsBack(code, l)
             THEN default_voice' = Degraded(default_voice, speaker) /\ UNCHANGED speaker
             ELSE speaker' = Master /\ UNCHANGED default_voice
  /\ UNCHANGED <<default_lang, asked, set>>

VoiceNext ==
  \/ \E s \in Sessions :
       \/ Session(s) \/ Synthesize(s)
       \/ \E l \in Langs : SetLang(s, l)
       \/ \E name \in Names : SetVoice(s, name)
  \/ \E name \in Names : SetMasterVoice(name)
  \/ Run

VoiceSpec == VoiceInit /\ [][VoiceNext]_voiceVars

-----------------------------------------------------------------------------
\* A session speaks with the voice that it asked for or began with in that language, or
\* with the fallback of the language if that voice was out of reach when this session used
\* it; what becomes of other sessions and of the master context does not matter
\* (a_synth::run, src/src/agent.cc:431-474; voice_switch, src/src/options.cc:605-615).
AsAsked ==
  Idle /\ spoke[1] # Master =>
    LET s == spoke[1]
        l == spoke[2]
    IN \/ default_lang[s] # l \/ Voice(s) # spoke[3]            \* another choice since
       \/ spoke[3] = asked[s][l]
       \/ spoke[3] = FallbackOf[l] /\ l \in lost[s]

\* No utterance is retried for ever if no fallback is made elsewhere or unknown.
UtteranceEnds == []<>Idle
=============================================================================
