------------------------------ MODULE MCSound -------------------------------
(***************************************************************************)
(* How sound is made and brought to a client, one part at a time: how      *)
(* segments are taken from a text, which voice speaks them, three          *)
(* synthesizers, the wave form that is sent, the clients that get it, and  *)
(* the programs that talk to a server for it.                              *)
(***************************************************************************)
EXTENDS Segments, Fallback, Lpcsyn, Tdpsyn, Ptdsyn, Wavefm, Client, Dialogue, TLC

VARIABLE making    \* the part: see Init

soundVars == <<lpcVars, tdpVars, ptdVars, waveVars>>
aroundVars == <<segVars, voiceVars, applVars, dlgVars>>
vars == <<soundVars, aroundVars, making>>

\* Clients, the tasks that they give to the server, and the ways these end.
AllEndings == {"200", "401", "415"}
Task(client, output, tasks, replies) ==
  [client |-> client, output |-> output, tasks |-> tasks, replies |-> replies]
SoundPrograms == {
  Task("say", "text", <<<<2, 1>>, <<3>>>>, AllEndings),
  Task("say", "text", <<<<1>>, <<0, 2>>>>, AllEndings),
  Task("say", "wave", <<<<2, 1>>, <<2>>>>, {"200", "415"}),
  Task("tcpsyn", "wave", <<<<4>>>>, {"200", "415"}),
  Task("tcpsyn", "wave", <<<<2>>, <<3>>>>, {"200"})}

ASSUME SoundAssumption == Undivided /\ Octave /\ WavHdr

\* Programs of one process await what they send in turn, which DialogueProofs assumes of them.
ASSUME InTurnAssumption == \A d \in Dialogues : Len(d) = 1 => InTurn(d[1])

MCInventory == {<<>>, <<TRUE>>, <<FALSE, TRUE>>, <<TRUE, TRUE, FALSE>>}
MCUnits == [slen : {1, 2, 3, 6}, avpitch : {8, 10}]
MCFormats == [bytes : {1, 2}, channels : {1, 2}, ulaw : {FALSE}]
MCHeaderSize == 1 :> 2 @@ 3 :> 1 @@ 5 :> 1
MCVoices == "slovak" :> {"local", "tcp", "local3"} @@ "czech" :> {"local2", "tcp2"}
MCFallbacks == "slovak" :> "local" @@ "czech" :> "unset"
MCKinds ==
  "local" :> "local" @@ "tcp" :> "tcp" @@ "local3" :> "local" @@ "local2" :> "local" @@ "tcp2" :> "tcp"
MCDialogues == {Say(1, TRUE), Say(0, FALSE), Asking, Stopping, Gauge(6), Vrfy, Tcpsyn(2)}

\* What is not examined begins like this.
FirstWave == downsamp = 1 /\ Plain
FirstProgram == program = CHOOSE p \in Programs : TRUE
FirstDialogue == dialogue = Asking
FirstVoice ==
  /\ \A c \in Contexts : default_lang[c] = "slovak"
  /\ default_voice[Master]["slovak"] = "local" /\ default_voice[Master]["czech"] = "local2"

Init ==
  /\ making \in {"lpc", "tdp", "ptd", "wave", "dump", "voice", "client", "talk"}
  /\ LpcInit /\ TdpInit /\ PtdInit /\ SegInit
  /\ WaveInit /\ (making = "wave" \/ FirstWave)
  /\ ClientInit /\ (making = "client" \/ FirstProgram)
  /\ DlgInit /\ (making = "talk" \/ FirstDialogue)
  /\ VoiceInit /\ (making = "voice" \/ FirstVoice)

Next ==
  /\ UNCHANGED making
  /\ \/ making = "lpc" /\ LpcNext /\ UNCHANGED <<tdpVars, ptdVars, waveVars, aroundVars>>
     \/ making = "tdp" /\ TdpNext /\ UNCHANGED <<lpcVars, ptdVars, waveVars, aroundVars>>
     \/ making = "ptd" /\ PtdNext /\ UNCHANGED <<lpcVars, tdpVars, waveVars, aroundVars>>
     \/ making = "wave" /\ WaveNext /\ UNCHANGED <<lpcVars, tdpVars, ptdVars, aroundVars>>
     \/ making = "dump" /\ SegNext /\ UNCHANGED <<soundVars, voiceVars, applVars, dlgVars>>
     \/ making = "voice" /\ VoiceNext /\ UNCHANGED <<soundVars, segVars, applVars, dlgVars>>
     \/ making = "client" /\ ClientNext /\ UNCHANGED <<soundVars, segVars, voiceVars, dlgVars>>
     \/ making = "talk" /\ DlgNext /\ UNCHANGED <<soundVars, segVars, voiceVars, applVars>>

\* Loops go on, a_synth::run() does, and processes and sessions do.
Spec ==
  /\ Init /\ [][Next]_vars
  /\ WF_lpcVars(Synchronized \/ Ahead \/ Sample) /\ WF_tdpVars(Frame) /\ WF_voiceVars(Run)
  /\ DlgFairness

\* What is begun comes to an end: the loops over the marks of a unit, though frames that are
\* late or early move them (Tdpsyn.UnitEnds); utterances whose voice is out of reach
\* (Fallback.UtteranceEnds); and programs that send ahead of what they read, on connections
\* that hold no more than a few lines (Dialogue.Ends).
AllEnd ==
  /\ UnitEnds
  /\ UtteranceEnds
  /\ making = "talk" => Ends
=============================================================================
