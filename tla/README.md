# Epos in TLA+

Epos is a text-to-speech server.  Clients talk to it over TCP in TTSCP
(`doc/english/ttscp.sgml`): a control connection sets up a *stream* of
processing modules (`strm`), applies it to texts (`appl`), and the speech comes
out of a data connection, a file or the sound card.  The server is one process
with one thread: cooperative *agents* share it, scheduled by a FIFO run queue
and by `select()`.  A text becomes a tree of units, rules of its language change
the tree, and what they make of it becomes segments, which a synthesizer turns
into sound.

What can go wrong is in the protocols between agents, in what happens to them
when one fails or is interrupted, in the lifetime of connections, streams and
descriptors that refer to each other by raw pointers, in trees and tables that
are changed while somebody walks through them, in what is carried over from one
segment, file or text to the next, and in dialogues that run over two
connections at once.

This directory models those parts.  `tlc -config X.cfg M.tla` checks a run,
`tlapm M.tla` a module of proofs.  File names without a directory are those of
`src/src`.

## Inventory

| component | source | state | operations | what must hold | modules |
|---|---|---|---|---|---|
| stream of agents | `agent.cc`, `agent.h` | `inb`, `pendin`, `pendcount`, `pendout` of each agent; `callbk` | `timeslice`, `pass`, `run` of every class, `relax`, `brk`, `finis`, `apply` | nothing lost, repeated or reordered; queues bounded; no agent forgotten; one completion per `appl`; recovery | `Stream`, `Delivery` |
| output accounting | `agent.cc` (`a_output`) | `written`, `decoded`, `push_table` | first write, continued write | what is written is the task; 122 and 123 replies match it | `Output` |
| control connections | `ttscp.cc`, `agent.cc` (`a_protocol`, `a_ttscp`, `a_accept`, `a_disconnector`) | `ctrl_conns`, `data_conns`, `ctrl`, `deps`, `current_stream` | every TTSCP command, accept, disconnect | no use of a deleted connection, stream or descriptor | `Ttscp` (partly) |
| scheduler | `agent.cc`, `daemon.cc` | run queue, `block_table`, `push_table`, `dep` chains, fd sets | `schedule`, `sched_sel`, `block`, `push`, `wakeup`, `notify_invalidate`, `server` | a sleeper is woken; the tables and sets agree | `Ttscp`, `Stream` (partly) |
| replies under congestion | `nonblock.cc` (`a_replier`) | `replier_table`, `buffer`, `len` | `async_sputs`, `run` | replies are not lost, reordered or sent to others | `Replier`, `Channel` |
| line input | `nonblock.cc` (`sgets`), `agent.cc` | `sgets_buff` | read, split, resume | every complete line is run once and in order | `Sgets` |
| contexts | `daemon.cc`, `agent.cc` | `this_context`, `master_context`, `cfg` | `enter`, `leave` | a session's settings are in force exactly while it runs | `Cow`, `Settings` |
| configuration, copy on write | `options.cc` | `cowtable`, claimant counts | `cow_claim`, `cow_unclaim`, `cow`, `set_option` | a session's `setl` is invisible to the others, memory is freed once | `Cow`, `Settings` |
| configuration at start | `options.cc`, `voice.cc` | options, levels, soft options | `config_init`, `parse_cmd_line`, `load_config` | the command line is stronger than the files, a sensible one is accepted | `Startup` |
| hash tables | `hashtmpl.cc`, `hash.h` | AVL trees, bounds | `add`, `remove`, `translate`, `rehash`, files | the map it stands for; balance | `HashTree`, `Dictionary` (partly) |
| slab allocator | `slab.h` | free cells | `alloc`, `release` | no cell is given out twice | `Units` |
| character functions | `function.cc` | hashed cells | constructors, `ismember`, `xlat` | the set or function that was written | `CharFunction` |
| text structure | `unit.cc`, `parser.cc` | tree of units | parsing, splitting, merging, substitution, prosody, ... | links stay mutual, phones are kept | `Parser`, `Units`, `UnitRules`, `Prosody` |
| rules | `rule.cc`, `block.cc` | `current_rule`, scopes | `apply` of every rule kind | each rule is applied to every unit of its scope, and finds the tree sound | `Rules`, `RuleKinds` |
| rule files | `block.cc`, `rule.cc`, `text.cc` | open blocks, macros, included files | `parse_rule`, `next_rule`, `load_rules` | accepted if and only if well formed | `Text`, `RuleFile`, `RuleGrammar` |
| file cache | `interf.cc` | `file_cache` counts | `claim`, `reclaim`, `unclaim` | counted right; what is claimed is what is there, to the second | `FileCache` |
| encoding tables | `encoding.cc` | codes, charsets | `load_charset`, `alloc_code`, encode, decode | two bytes have one code if and only if they are one character | `Encoding` |
| segments | `unit.cc`, `agent.cc`, `synth.cc` | `iucache`, `ifcache`, `ocache` | `write_segs` and who calls it | each segment once, in order | `Segments` |
| synthesizers | `lpcsyn.cc`, `tdpsyn.cc`, `ptdsyn.cc`, `synth.cc`, `ktdsyn.cc` | rest of a period, drift, ring of samples | `synseg`, `synmod`, `kbadd`, `kbread` | time is kept, impulses are where they should be | `Lpcsyn`, `Tdpsyn`, `Ptdsyn` (partly) |
| wave form files | `waveform.cc`, `agent.cc` (`oa_wavefm`) | buffer, phases, totals | `sample`, `label`, `attach`, `flush`, `detach`, `brk` | all that is stored is sent, and announced | `Wavefm` (partly) |
| voices, languages | `voice.cc`, `agent.cc` (`a_synth`), `options.cc` | current language, its current voice | `lang_switch`, `voice_switch`, fallback | a session speaks with the voice it asked for | `Fallback`, `Startup` |
| remote synthesizer | `tcpsyn.cc`, `client.cc` | buffer of sound | `tcpsyn_appl`, the dialogue around it | the sound is all that was sent | `Client`, `Dialogue` |
| clients and tools | `say.cc`, `gauge.cc`, `vrfy.cc`, `monolith.cc` | steps of a dialogue | commands sent ahead of replies | a result is that of its command; an end | `Client`, `Dialogue` (partly) |
| neural network, regular expressions, platform code | `nnet.cc`, `rx.c`, `qnxipc.cc`, `exc.h`, `common.h` | - | - | - | - |

How they interact: the server loop runs agents; an agent runs in its
connection's context; a control connection owns at most one stream and the data
connections attached to it; the stream's input and output agents use the
descriptor of a data connection (which another session may close) or of a file;
everything that is printed to a client goes through `async_sputs`.  An agent of
class `rules` has the rules of the context's language applied to the tree that
`raw` parsed, `diphs` takes segments from it, `synth` has the context's voice
make a wave form of them.  Rule files, inventories and dictionaries are read
when they are used first, through the file cache and the encoding tables.

The hazards, each with its line and the properties that would notice it, are in
`PROJECT.json`.

## Plan

1. `Stream`, `Delivery`: the agents of one stream and its control connection,
   and what they promise.  Done, proved.
2. The rest of the server core: `Output`, `Ttscp`, `Replier` and `Channel`,
   `Sgets`.  Done, proved.
3. The data under it: `Cow` and `Settings`, `HashTree` and `Dictionary`,
   `CharFunction`, `Encoding`, `FileCache`, `Startup`.  Done; all but the hash
   tables proved.
4. The language side: `Units`, `UnitRules`, `Parser`, `Prosody`, `Rules`,
   `RuleKinds`, `Text`, `RuleFile`, `RuleGrammar`.  Done; model-checked only.
5. Sound: `Segments`, `Fallback`, `Lpcsyn`, `Tdpsyn`, `Ptdsyn`, `Wavefm`,
   `Client`, `Dialogue`.  Done, proved.
6. Left: the scheduler's idle work and its bound of 64 entries; writing of hash
   tables; the sound card.

## Modules, runs, proofs

A module models a component.  Where components have nothing to do with each
other but fit one kind of instance, one MC module unites them and a variable
says which is examined (`way` in `MCSession`, `structure` in `MCData`, `purpose`
in `MCFiles`, `making` in `MCSound`); the others stay in one initial state, so
the states of such a run are the sum of the parts' and not their product, and
fairness of a part that is not chosen holds trivially.

| run | module | instance | shows |
|---|---|---|---|
| `stream_speak` | `MCStream` | input, chunk, raw, print, output; texts of 1 to 9 utterances, two commands, `pend_max` 1 | lists consistent and bounded, nobody forgotten, completion, refinement of `Delivery` |
| `stream_single` | `MCStream` | no `chunk`, eight commands, failures of every agent but the output | one answer for each command, after all has come to rest |
| `stream_play` | `MCStream` | `chunk` and `join`, failures of the input, two inner agents and the output, two interrupts | a client is not left waiting by a live server |
| `session` | `MCSession` | `Sgets`, `Replier`, `Output`: see there | bytes of a session: lines are run whole and handled, tasks are written as announced, replies arrive; refinement of `Channel` |
| `ttscp_tables` | `Ttscp` | four connections, three descriptors, everything a client may do | no handle names what is gone, nor does a table of sleepers, but for an input agent that was interrupted where it sleeps; attachment is mutual, every connection to be deleted is deleted once |
| `ttscp_calm` | `Ttscp` | three connections whose clients use what is theirs, delete nothing and interrupt nothing | no internal error, data connections stay, every command ends |
| `data` | `MCData` | `HashTree`, `Cow`, `CharFunction` | balance; refinement of `Dictionary` and of `Settings`; counts |
| `cow_twice` (violated) | `Cow` | two sessions, `setg` used twice | a string is freed that a session still has |
| `rules` | `MCRules` | eleven programs of rules, each with its texts, two texts one after the other | the tree stays a tree, phones are kept, syllables and prosody are what the documentation says |
| `rules_gone` (violated) | `MCRules` | a rule that deletes all of a text | a cell is in two trees |
| `files` | `MCFiles` | `RuleFile`, `Encoding`, `FileCache`, `Startup` | what is read from files is what they say |
| `sound` | `MCSound` | `Segments`, `Fallback`, `Lpcsyn`, `Tdpsyn`, `Ptdsyn`, `Wavefm`, `Client`, `Dialogue` | from segments to the client: each once, in time, from the right voice, completely, to its end |

Deadlock is not checked (`CHECK_DEADLOCK FALSE`): an idle server waits in
`select()`, and programs, texts and configurations end.

| theorem | module | states |
|---|---|---|
| `TypeCorrect`, `ListsConsistent`, `QueuesBounded` | `StreamProofs` | `TypeOK`, `PendConsistent`, `Bounded` |
| `NoneLost`, `AnsweredAtRest` | `StreamProofs` | `Scheduled`, `Concluded` of a stream that is `Undisturbed` |
| `DeliveryImplemented` | `StreamProofs` | that `Stream` implements the steps of `Delivery` |
| `TtscpInvariant`, `TablesAgree` | `TtscpProofs` | `Tables` |
| `SteadyServer`, `DataKept` | `TtscpProofs` | `Steady`, and the safety part of `Served`, of clients that are `Behaved` |
| `TasksWritten` | `SessionProofs` | `Written` |
| `RepliesKept`, `LineImplemented` | `SessionProofs` | `Replies`; that `Replier` implements the steps of `Channel` |
| `CommandsWhole` | `SessionProofs` | `WholeLines` |
| `SettingsOwned`, `SettingsIsolated` | `DataProofs` | `Owned`; that `Cow` implements `Settings` |
| `TablesRepresent` | `DataProofs` | `Represents` of `ShortTexts` |
| `ClaimsCounted`, `AlwaysFresh` | `FilesProofs` | `Claims`, `Fresh` |
| `CharactersUnified`, `UnifiedUnlessOverrun` | `FilesProofs` | `Unified` |
| `OptionsConfigured` | `FilesProofs` | `Configured` of configurations that are `Ordinary` |
| `LpcInvariant`, `SoundInTime` | `SoundProofs` | `InTime` |
| `SpokenAsAsked` | `SoundProofs` | `AsAsked` |
| `SegmentsComplete` | `SoundProofs` | `AllDumped` |
| `SoundOverlapped` | `SoundProofs` | `Overlapped` |
| `ResultsReceived` | `SoundProofs` | `Received` of clients that are `Undivided` |
| `FramesInStep` | `WaveProofs` | `InStep` of voices within an `Octave` |
| `WaveFormSent` | `WaveProofs` | `Sent`, with a header |
| `ResultsPaired` | `DialogueProofs` | `Paired` of programs that are `Orderly` |

All of them hold for every value of the constants that satisfies the `ASSUME`s
of the component's module, and the hypothesis that is named, if any; TLC
evaluates both in the run of that component.  Where a hypothesis excludes
something that the code does, the sections say so.

The other properties are model-checked only.  Liveness (`Completes`, `Resumes`,
`Handled`, `Finishes`, `Served`, `AllEnd`) and what `Delivers` and `Reliable`
have of it are out of the prover's reach, and so is whatever `ENABLED` is needed
for.  `HashTree` (`Shaped`, `IsDictionary`), the rules (`Upright`,
`Syllabified`, `WholeText`, `PhonesKept`, `Intoned`) and the rule files
(`Compiled`) use recursive operators on trees and texts, which it cannot expand,
and what they compute would need induction over data.  `Paired` is proved of programs of one process; the gauge,
which forks, stays with TLC.

## Stream and Delivery

`Stream.tla` models a stream of agents together with the control connection
that uses it.

| specification | code |
|---|---|
| `Kind` | the classes of the agents `stream::stream` builds from the `strm` parameter |
| `inb`, `pendin`, `pendcount` | the members of `agent`; a task is the sequence of utterances it contains |
| `pendout` | the set of agents whose `pendout` is not NULL; it is only ever the last cell of the successor's list |
| `mark`, `held` | `a_chunk::bm`, `a_join::heldout` |
| `runq` | the run queue, `sched_tail` first; `Ctrl` stands for the connection's `a_ttscp` |
| `asleep` | agents in `block_table` or `push_table` |
| `callbk`, `session` | `stream::callbk`; whether the connection waits after `PA_WAIT` |
| `answers`, `delivered` | completion codes and output of the current `appl` |
| `Dispatch`, `Receive`, `Drain` | `sched_sel()->timeslice()`, `wakeup()` of the input and of the output |
| `TurnedAway`, `Input`, `Work`, `Chunk`, `Join`, `Push`, `Write`, `Fail` | what one `timeslice()` does, from the satiety test to the final `schedule()`: `run()` of each class, its `pass()` or `finis()`, its exception |
| `Apply`, `Interrupt`, `Resume` | `cmd_apply`, `cmd_intr` of another connection, the control connection's timeslice |

A text is `<<1, .., k>>` for any k up to `MaxUtt`, and agents pass on what they
got: the control they exert differs, the sound does not.  `chunk` cuts it into
single utterances.  Memory that was freed but is still pointed to is `Dangling`
or `Stale`; using it, and the internal errors 861 and 862, end the server
(`fatal`), since `fatal_error` is caught only in `start_unix_daemon`.  `segs`
is modelled without `db_size` (its default), so it produces one task per task.

`Delivery.tla` is what the client is promised: the utterances come out, each
once and in order, the completion follows the last one.  `Stream!Abstract` maps
the stream to it (`Delivers`): `rest` is what is left in `inb` and in the lists,
output side first (`Stream!Rest`).

### Runs

`stream_speak` has no failures and checks everything that must hold without
them; `stream_single` has one task at a time, where recovery works as the
documentation says; `stream_play` has failures and interrupts in the middle of a
text.  An interrupt of a stream that ends in a file or in a connection sends 401
and the connection never reads again, since only wave form agents finish when
they are broken off (`agent.cc:229`; `ttscp.sgml:308` promises otherwise):
`Play` with `output` for `wavefm` shows it.

Bounds.  `pend_max` 1 with nine utterances fills every list of the chain, makes
every agent but the last be turned away and brought back, and lets `chunk` be
turned away with a text half used; the code compares with `pend_min` and
`pend_max` and uses them for nothing else.  Two commands let the second one find
what the first left behind, and two interrupts an interrupted stream.

Fairness.  `server()` runs the queue whenever no descriptor is ready, and
descriptors whenever one is: weak fairness of `Dispatch` and `Resume` assumes
that other connections do not keep a descriptor ready for ever, weak fairness of
`Receive` and `Drain` that the client sends the text it announced and reads what
it is sent.  `Apply`, `Interrupt` and failures are never obliged to happen.
Deadlock is not checked: an idle server waits in `select()`.

### Proofs

`StreamProofs.tla` proves for every chain of agents, every `pend_min` and
`pend_max`, and any number of failures and interrupts:

* `TypeCorrect`: `Spec => []TypeOK`;
* `ListsConsistent`: `Spec => []PendConsistent`.  `timeslice()` decides whether
  a list is empty by its pointer, `pass()` whether to append by another agent's
  pointer, `relax()` counts down a third field; they never disagree;
* `QueuesBounded`: `Spec => []Bounded`.

The inductive invariant is `PipeInv`: the lists (`ListsOK`), the marks of
`chunk` (`MarksOK`) and the types of the rest (`ConnOK`).  Two facts are needed
that the properties do not state: no task is empty (otherwise a task handed over
would look like an idle agent), and the input agent has no list.  `Taken` says
what an agent that passed the satiety test starts from, in particular that its
successor's list is at most `pend_max` long; one lemma per way of ending a
timeslice carries the invariant on.  The assumptions are those of `Stream.tla`
on its constants.

Of a stream that is `Undisturbed` it proves more: there is no `intr`, no `a_join`,
and a chain with `chunk` in which nothing fails, or any chain without.  (Otherwise
the properties are false: see the last section but one.)

* `NoneLost`: `Spec => []Scheduled`, `AnsweredAtRest`: `Spec => []Concluded`.  The
  invariant is `PipeInv` and `Calm`: whoever has work is queued, asleep, or
  waits behind a list that is `pend_min` long, whose owner has work in turn
  (`Remembered`), so that a chain of waiting agents ends with one that will run;
  the control connection is last in the queue, if it is there; where failures may
  happen only one agent has work (`Alone`), so that relaxing the first one relaxes
  all.
* `DeliveryImplemented`: every step is one of `Delivery` or none, if nothing
  fails.  The invariant `Ordered` says where each utterance is: there are bounds
  `e`, falling from the input to the output, and agent b has those between
  `e[b]` and `e[b - 1]`, in `inb`, beyond the mark of `chunk`, and in its list, in
  order.  So what is left is always a single interval, which ends where the text
  ends, and only the output shortens it.

## Output

`Output.tla` models `a_output::run()` and its continuation by `push()`: a task
of `size` bytes is written in pieces, `Results` being what `write()` may return.

| specification | code |
|---|---|
| `size`, `written`, `decoded` | `insize()` of `inb`, `a_output::written`, `decoded` |
| `wrote`, `total`, `pieces`, `coded` | the bytes written, the 122 replies, the sum of the 123 replies, how often `decode()` ran: what the client sees of a task |
| `Give` | `pass()` of the agent before |
| `Timeslice`, `WakeUp` | the run queue, `push_table` |
| `Relax` | `stream::finis(true)`, which relaxes the first agent with work |

Run `session`: four tasks of 1 to 7 bytes, every division into pieces, two
recoveries.  `Exact` holds until a recovery discards a half-written task or a
first `write()` returns -1; then `written` describes another task, and what is
left is `Within` (no byte from outside a task) and `Finishes`.  Seven bytes give
every relation of the old `written` to the new size that the code can tell apart.
Fairness: the loop serves its queue, and the peer goes on reading.

`SessionProofs.tla` proves `Written` for tasks of any size and any number of
recoveries.  `written` is not always about the task at hand; the invariant
`OutInv` says what is true of it all the same: without a recovery it is the
number of bytes written, and all that was announced fits it (`UpToWritten`), and
after any number of them no byte that was written lies behind it
(`BeforeWritten`).

## Ttscp

`Ttscp.tla` models connections: who refers to whom, and who is told when one is
deleted.  A stream is reduced to its input agent, `a_input`; the agents after it
are in `Stream`.

| specification | code |
|---|---|
| `ctrlConns`, `dataConns` | the hash tables `ctrl_conns`, `data_conns` |
| `freed`, `fd` | which `a_ttscp` were deleted, `c->config->sd_in` |
| `ctrl`, `deps` | the members of `a_ttscp` |
| `doomed` | `a_disconnector::to_delete`, a stack |
| `src`, `sock`, `job` | `a_io::dc` and `socket` of the input of `current_stream`, and how far its command is |
| `relaxed` | inputs that an `intr` has left where they wait, with nothing to do |
| `table`, `dep`, `runq`, `ready` | `block_table` with the chain of agents behind each, the run queue, `rd_set` while the loop goes through it |
| `Intr`, `Shrugs` | `cmd_intr` with `stream::relax()`; the timeslice of an agent that has no input any more |
| `Accept`, `Command`, `Fetch`, `Disconnect`, `Calling`, `Finish` | the `run()` of `a_accept`, of `a_ttscp` with one action per kind of command, of `a_input`, of the disconnector; a client that connects; the completion of a stream |
| `Select`, `WakeUp`, `SelectFails`, `Dispatch` | `select_socket()`, `wakeup()`, the failure of `select()` on a closed descriptor (871), `sched_sel()->timeslice()` |

`ttscp_tables` lets clients share data connections, lose connections, use `delh`,
`appl 0` and `intr`.  An interrupted command ends at once if the last agent of its
stream is one that plays wave forms, and never if it is not; `Intr` chooses, since
the model does not have that agent.  What an `intr` makes of the agents behind the
input is in `Stream`.  The input itself is left in the table of sleepers, or in the
queue.  When it is called there it finds that it has nothing to do (`Shrugs`).  When
it is freed there, by `strm`, `delh` or the end of its session, the next use of the
table is one of freed memory: the model ends, with "gone"; and with "tangled"
when the agent is to wait at two places.  So `Tables` says that neither happens, nor
861, before the first `intr` (`SleepsOnce`), and its other parts without condition.

In `ttscp_calm` clients use their own, delete nothing and interrupt nothing; a client
that closes a data connection and goes on with `appl` makes `select()` fail for
everybody (`agent.cc:599`, where `ttscp.sgml:47` says that the connection is
simply deleted).

Bounds.  Three descriptors for four connections force a descriptor to be used
again while a stream still has its number; four connections give a session, its
data connection, another session and the one that gets the descriptor next.
Connections are interchangeable in `ttscp_tables` (symmetry; it has no liveness).
Fairness (`FairSpec`): a descriptor that stays readable is found again and again
(strong, since `rd_set` is refilled only when it is used up), the queue has its
turn infinitely often, the client sends its text and the rest of a stream ends.

`TtscpProofs.tla` proves for any number of connections, descriptors, commands,
losses and interrupts:

* `TablesAgree`: `Spec => []Tables`.  The inductive invariant `TtscpInv` adds to
  its parts where everything is: every connection in one table or on the stack to
  be deleted, once (`Placed`); a stream's data connection in its table or freed
  (`Sourced`); every agent in at most one of the table, the chains behind sleepers
  and the queue, and, but for those that an `intr` left there, nowhere unless it has something to
  do (`Sched`).  `Sched` is
  stated of tables and a queue that are given to it, since a turn of an agent
  begins when it has been taken out of them and ends when it has been put back.
* `SteadyServer` and `DataKept`: `Steady`, and that data connections go with their
  control connections only, if clients are `Behaved`: they name their own
  connections, say `appl` with texts only, close nothing, and use neither `delh` nor `intr`.
  Each of the five is needed, see below.  The invariant `Calm` is that streams read
  from what is theirs (`OwnStreams`), that who sleeps at a descriptor owns it
  (`AtOwn`), and that consequently nobody ever waits behind a sleeper (`Unchained`).

## Replier and Channel

`Replier.tla` models `async_sputs()`, `a_replier` and `close_and_invalidate()`;
`Channel.tla` is a line on which bytes arrive in order, none lost.

| specification | code |
|---|---|
| `entry`, `nrep` | `replier_table`, `n_repliers`; an entry that was never written is `garbage` |
| `buffer`, `asleep` | `a_replier::buffer` up to `len`, whether `push_table` has it |
| `client`, `sent`, `wire` | the peer of a descriptor, what was sent to it and what the descriptor took |
| `Sputs`, `Keep`, `Run` | `async_sputs`, `a_replier::write`, `a_replier::run` |
| `Close`, `Open`, `Leave` | the end of a session, `accept()`, a client that closes its end |

The run `session` has two worlds.  In the calm one every session ends with
nothing kept, and the replier implements the channel (`Reliable`), under weak
fairness of `Run`.  In the other, sessions leave replies behind, send empty
strings and find uninitialised entries; `OwnReplies` is what still holds.  Two
descriptors and three clients make one descriptor change hands and the table
grow over an entry that is not written; strings of up to two bytes and four
bytes for each client give a buffer that is empty, partly and wholly sent.

The proofs are in `SessionProofs.tla`.  A byte is known by its number, and 0 stands for one that
was meant for an earlier client.  The invariant `RepInv` says of each descriptor
(`FdInv`) that what was sent to its client and what is kept for it are together
what it was to get, in order, whenever the replier will be called; and that a
replier that was left with something in its buffer never is, which is why nobody
gets the replies of another (`RepliesKept`) and why the property must not promise
more.  `LineImplemented` maps every step to one of `Channel` or to none; that
what is kept is sent in the end needs fairness and stays with `Reliable` in TLC.

## Sgets

`Sgets.tla` models `sgets()` and what `a_protocol::run()` does with a line.  The
k-th line consists of bytes k, so that a byte tells which line it is from.
`part` is `sgets_buff`, `net` what the client sent and nobody read, `Enough`,
`Read` and `Nothing` are the three ways through `sgets()`, `Cut` its end,
`GoesOn` the test for another line after `PA_NEXT`.  Run `session`: four lines of
0 to 5 bytes with room for four, so that lines fit exactly, just not, or by far
not, alone or together.  `Handled` is under weak fairness of the scheduler and of
the stream that is waited for; it excepts clients that send empty lines (below).

`SessionProofs.tla` proves `WholeLines` for lines of any lengths and any buffer.
`Whole`, `InOrder` and `NoneSkipped` speak of lines that were run; the invariant
`LinesInv` has to speak of those that were not.  There is a first line c that has
not been cut out, and what is held back and what is still to be read, one after
the other, are laid out (`Laid`) as the lines from c on, each with its end; of
the first one a beginning may have been given up, and then one byte, the remark,
stands for it.  The lemmas say what happens to a layout when a line is cut out,
when a piece is read, when another line is sent and when a line is given up.

## Data structures: HashTree, Dictionary, Cow, Settings, CharFunction

| specification | code |
|---|---|
| `HashTree!h` | a `hash_table`: its trees (a tree is a value, with the height each node believes to have), how many there are and should be, the bounds for rehashing |
| `add`, `remove`, `translate`, `Balanced`, `rehash`, `Copy`, `FromFile` | the methods of these names and `balance()`, the copying constructor, the constructor of `hash` |
| `Cow!mem`, `freed` | blocks of configurations, languages and voices with `cow` (claimants), `parent` and one string option each; strings that were freed |
| `Cow!ctx` | `context::config`, `cfg`, `this_context` |
| `Connect`, `Close`, `Setl`, `Setg`, `Pass` | the constructor and destructor of `context`, the commands |
| `CharFunction!t`, `size`, `mult` | the table of a `booltab` or `function` and the hash function that is looked for |

`HashTree` implements `Dictionary`, a map (`IsDictionary`).  `Shaped` is what the
algorithm relies on: until something is removed every tree is an AVL tree and
its nodes know their heights (`remove()` corrects none that is too large), and no
tree is ever deeper than the table believes, which bounds the stack of visited
nodes.  Seven keys in one tree or
two give all rotations, removal of inner nodes with one child and with two, and
a rehash for density and for depth.

`Cow` implements `Settings`, in which every session simply has settings of its
own (`Isolated`): a `setl` is never seen by another session, whoever shares the
block, and `setg` is seen by those who connect later.  `Owned` says that a count
is the number of claimants, and that strings are freed once as long as `setg`
was used at most once.  Used twice, a string is freed that a session still
has: the run `cow_twice`.  Two sessions and three connections let a block be
shared by two sessions, copied by one of them, and its parent be replaced.

`Represents`: the set or function that was found is that of the text it was made
of, complements and duplicates included, for all texts of up to four of six
characters, and one of nine that fills the table.

`DataProofs.tla` proves the three for any sessions and any characters.  The
invariant of `Cow` has two parts.  `Heap`: a block is allocated exactly while it
is claimed, and `cow` is one less than the claims (`Counts`); `SettingsIsolated`
follows from it, by what each operation leaves of what contexts see (`View`,
`Given`).  `Strung` holds until `setg` is used a second time: all blocks but those
of the master context and the first three are copies that one context has, and
their strings are their parent's or nobody else's.  The second `setg` replaces a
parent: `cow_twice`.

`TablesRepresent` needs that a table without collisions exists before the search
ends.  At size `MAX_SIZE - 1` the multiplier 1 gives every character a cell of its
own, so the search, which goes through sizes and multipliers in order
(`CharInv`), ends there at the latest.  A text of `MAX_SIZE` characters or more is
excluded (`ShortTexts`): it is refused.

## The language: Parser, Units, UnitRules, Prosody, Rules, RuleKinds

| specification | code |
|---|---|
| `Parser`: `gettoken`, `chrlev`, `TokenAt` | the methods of `parser`; what a dot or a dash is depends on its neighbours |
| `Units!unit` | cells of class `unit`: `link` is `prev` and `next`, `born` `firstborn` and `lastborn`, with `father`, `depth`, `cont`, `scope` |
| `Units!free`, `just` | the free list of the slab; the unit unlinked last (`just_unlinked`), which is freed when the next one is |
| `Units!fault` | the error shrieked, or a pointer that is followed and is NULL |
| `set_father`, `unlink`, `split`, `Delete`, `Parsed`, `inside`, `count`, `Targets` | the methods of `unit`; `Targets` is the walk `LeftMost`, `Next` |
| `UnitRules`: `subst`, `relabel`, `regex`, `assim`, `insert`, `syllabify`, `raise`, `segs` | the methods of these names |
| `Prosody`: `contour`, `smooth`, `project`, `sseg`, `ContourParam` | the methods, and how `r_contour` reads its parameter |
| `Rules!frames` | the calls of `block_rule::apply_current()` that are under way, each with `current_rule`, `tmp_next` and `tmpscope` |
| `Begin`, `Visit`, `NextRule`, `Return` | `apply()` of a block, a choice or a switch; one unit of its scope; the next rule; the end |
| `RuleKinds` | the constructors of the rules, by the parameter they are given |

A state is a heap of units with the calls that walk through it; a step of `Next`
applies one rule to one unit.  `Upright` is the tree property that
`unit::sanity()` looks for, at every step and for every rule, and that the loops
are not led out of their scope by a unit that was deleted, merged or split while
they were at it.  `Syllabified` compares syllables with what `rules.sgml`
promises of them; `Intoned` does so for smoothing, and states what a contour
does with adjustments that are too few or too many, which is not what
`rules.sgml` says (see the list below); `PhonesKept` splits and merges without loss, `WholeText` parses
and gathers without loss.  Eleven programs of rules, chosen so that every kind comes
in a position where it changes the units another rule walks through, and texts of
one and two words over a few phones, of which two are said one after the other:
the second finds the free list, and `just`, that the first one left.

When all of a text is deleted, its root is unlinked too, and deleted once more by
who made it: `rules_gone`.

## Files: Text, RuleFile, RuleGrammar, Encoding, FileCache, Startup

| specification | code |
|---|---|
| `Text`: `embed`, `charset`; `GetLine`, `Enter`, `Leave`, `Refuse`, `Abandon` | `text::getline`, `subfile`, `superfile`, errors in directives |
| `RuleFile!stack` | constructors of composite rules that are reading: their opening bracket, `l_scope`, the rules so far, macros |
| `Read`, `ReadDirective`, `Stop`, `Return`, `Error`, `Complete` | `parse_rule` of a line, an assignment, a closing bracket, `load_rules` at its end, an exception that is caught per line, `rules::rules` |
| `Encoding!epos_charset`, `encoders`, `decoders`; `Allocate`, `LoadCharset` | the tables; `alloc_code` from `encode_string`, `load_charset` |
| `FileCache!file_cache`, `claimed`, `reading`; `Hit`, `Miss`, `CacheRead`, `unclaim` | the table of `file`, who has claimed which, `claim` in three cases (`reclaim` in a hit), `unclaim` |
| `FileCache!disk`, `written`, `get_timestamp`; `Write`, `Unlink` | files and when they were written, in seconds as `stat()` has it; somebody who changes and removes them |
| `Startup!jobs`, `pos`, `argv`, `val` | `config_init`: the passes over the command line and the files between them, how far one is, the command line as `set_option` leaves it, option values by place |

`Compiled`: `RuleFile` chooses every file of up to four lines out of 16 kinds as
it reads, with every division into included files.  `RuleGrammar` has a grammar of
rule files, not an algorithm: a file is accepted if and only if the grammar
derives it, and then the compiled rules are the meaning the grammar gives it.

`Unified`: with three charsets that share characters, load order and use in any
order, two bytes have one internal code exactly if they are one character.

`CharactersUnified` proves it for any `OrdinaryMaps`, which have ASCII where it
belongs, as long as there are `EnoughCodes`.  The invariant `EncInv`: no two codes
have one character, and ASCII no other code than its own (`Distinct`); a byte has
the code of its character (`Coded`), where a code of ASCII has its character before
it is entered in `epos_charset` (`Meaning`); and a code is decoded into a byte
that has it (`Returned`).  `alloc_code` takes the byte itself if that is free, or a
free code from the top; that it finds one above ASCII is the pigeonhole
principle (`OneLeft`).  The charsets in `cfg/mappings` have 170 characters besides
ASCII and there are 128 codes, so who uses all of them does not have
`EnoughCodes`; `UnifiedUnlessOverrun` says that even then nothing is wrong until
one of them takes the code of an ASCII character.

`Fresh`: a time stamp is a whole second (`get_timestamp`), so of two writes in one
second the second one is not noticed if the first one is in the cache.  What is
claimed is what the file holds, or what it held at some time in the second of its
last write.  Who never writes a file twice in a second is given what it holds.
The run has two files, two readers, four writes in two seconds, in any order (also
a clock set back) and removals between them; `lowmemory`, an option that sessions
set for themselves, is chosen anew at every `unclaim`.

`Claims` and `Fresh` are proved (`FilesProofs.tla`) for any files, readers, writes
and seconds.  The invariant `CacheInv` adds to the counts that a file being read is
not in the cache; `AlwaysFresh` needs `StampInv` as well, by which the data of a cached
file are of the second of its time stamp, unless that was taken while it was gone.
It assumes `~Concurrent`: when a file is written after it was read and before its
time stamp is taken, the old data get the new stamp.

`Configured`: some 1800 configurations, with options of the server, of languages
and of voices in every place they may come from, against a definition of which
one is the strongest (`Wanted`) and how much of its value remains: a value is what
it says and the layers around that, of which `parse_cfg_str` takes one off, quotes
around it or escape sequences in it or both.  In a file that happens once, in an
argument in place every time it is parsed.  An argument for a language or a voice is
set once and loses one layer; one for the server loses four, and three by the time
that languages inherit it (`Often`).  Nothing can be taken off what a value
says in the end, so that no value says a backslash.  Exceptions that the code makes are in
`Sensible`: options that exist only after the levels are known, or only of one
language, cannot be given on the command line; languages and voices are looked up
without being parsed; and `encode_string` runs over an argument before anything else,
when the charset is the default one, and dies of characters that are not ASCII (418).

Arguments are of the form `--name=value`.  Left out are flags (`-d`, `---name`), values
that are an argument of their own (which `parse_cmd_line` takes for an option as soon
as unescaping makes them begin with a dash), bare words, the charset as an
argument, and whether a value is a number or one of a list.

`OptionsConfigured` proves it for any number of languages, voices, lines and
arguments, if the configuration is `Ordinary`: names tell languages and the voices
of a language apart; the value of an argument has one layer at most, which it can lose
but once; the levels are
made by one line of the fixed file, as in `cfg/cfg/fixed.ini:28`, before any option
of a level is set, and neither made again by an argument nor given a value to
inherit by one (`C:p`); lines and arguments name options that exist.  The
configurations of the run are `Ordinary` but for the ones with `unit_levels` on
the command line and the one with five layers around its values
(`OrdinaryAssumption` in `MCFiles`).  `Configured` is not
inductive: it says nothing before the last pass is over.  The invariant `StartInv`
is a phase by phase account of `jobs`: what remains to be done is known in each
(`ServerInv` for the five passes and files of the server, `LangInv` and `VoiceInv`
for the file of a language or voice, `Reached` between them, `EndInv` for the last
pass), places that are done have the values they should have before that pass
(`Settled`, `Earlier`), and in the place that is being read an option has the
value of the last line so far that sets it (`LastRead`).  Arguments are parsed
again without effect: each option is set last by the same argument (`Again`), and
a value that had one layer stays what it is when it has lost that (`OftenOnce`).  In
the last pass the current language and voice are those of the definition (`LangAt`,
`VoiceThen`).

## Sound: Segments, Fallback, Lpcsyn, Tdpsyn, Ptdsyn, Wavefm

| specification | code |
|---|---|
| `Segments!ucache`, `dump` | `iucache`, `ifcache`, `ocache` in `write_segs`; who takes segments of which text |
| `Fallback!default_lang`, `default_voice`, `ready` | of each context; voices whose synthesizer exists |
| `Fallback!Run` | `a_synth::run()`, calling itself after `voice_switch` |
| `Lpcsyn!nvyrov`, `ipitch`, `lold`, `lastl` | `nvyrov`, the samples to the next impulse, pitch periods before |
| `Make`, `Synchronized`, `Ahead`, `Sample` | a segment's models, `synmod` |
| `Tdpsyn!difpos`, `j`, `k`; `Frame` | `difpos` and the loops of `synseg` |
| `Ptdsyn!data`, `i1`, `i2`, `oST`; `Modifik`, `Kbread` | the `kbuffer`; `modifik` with `kbaddST`, `kbread` |
| `Wavefm!buff_size`, `buffer_idx`, `ophase`, `ooffset`, `total_length`; `PutSample`, `Attach`, `Flush`, `Wake`, `Brk` | members and methods of `wavefm`, and the loop of `oa_wavefm::run()` |

The theorems about `Wavefm` and `Tdpsyn` are in `WaveProofs.tla`, the others in
`SoundProofs.tla`.

`AllDumped`: texts at two addresses that are used again, dumps in portions of
any size after each other: the cache of `write_segs` never mistakes a text for
another, because a dump always starts at the first segment.  The proof is of any
sizes and portions; `SegInv` says what the cache is while a dump is under way: the
place behind the last segment of this dump, whatever other dumps left there before.

`AsAsked` is proved.  The invariant `Justified` says of
every session and language, not only of the one that speaks, that the voice there
was asked for or is the fallback of that language, and that in the latter case
the voice that was asked for has been out of reach.

`Lpcsyn`: whole pitch periods only can be made.  `InPhase`: no model begins in
the middle of an impulse.  `KeepsPace`: the sound is at most half a model's
duration behind or a period ahead.  `AllHeard`: if every duration is at least
twice `minsynt` and no period shorter than it, no segment is left out.  The theorems are
`ExcitationInPhase`, `PaceKept`, `SegmentsHeard`, and `SoundInTime` for the
three.  `LpcInv` relates the impulse counter to what is left of a model;
`PaceInv` adds `KeepsPace` and the range of the old period, from which
`GlideBetween` gives the range of the periods in between, and `WholeIsNear` that
the number of whole periods chosen is the nearest; `HeardInv` adds `AllHeard`.
The lemmas `Division`, `Monotone`, `Part` are about the division of C.

`InStep`: the marks that frames are taken from stay in the unit while voices keep
within an octave, and the drift never exceeds a period.  The proof is of any
units, durations and voices within an `Octave`.  `ChangedIs` says what becomes of a
unit whose marks are skipped, used again or neither, above all that a frame is off
by a period at most; then no frame leaves a drift greater than a period that
some voice has (`Drift`).  When marks are used again the loop may reach the mark
behind the last one, which an inventory has for `average_pitch()`, but only because
the frames were early by more than a period when the unit began.  The period is
then that of a voice that was lower, but within an octave, so what is left
of the drift after one step is at most this voice's period, and there is no second
step: the last conjunct of `TdpInv`.

`Overlapped`: impulses added in a ring of nine cells are in the samples they should
be in, provided a segment fits the ring (`Fits`, a guard of `Synseg`; beyond, see
below).  The proof is of a ring of any size.  `PtdInv` gives every cell the sample
that will be read from it (`Reach`), and the cell has the impulses that cover that
sample; `Room` is what of `Fits` is left when some impulses have been added.

`Sent`: a wave form of up to seven samples and two labels, in a buffer of three
samples that grows, of which every, every second or every fourth sample is kept, as
one or two bytes and in one or two channels, sent through a descriptor that takes
nothing, one byte or all.  `Delivered`: everything is sent, and the 123 replies add up
to the 122 reply.  `Room` says what keeps to the buffer and what does not.  While
samples come nothing is stored outside.  `translate_data` then stores integers of
four bytes for samples of one or two, and `translate` sends one sample more than
there is (below), so both go beyond the end: `outside` is by how much, `Spill` how
much that can be, at most `2 * downsamp + 1` bytes.  That is said of frames that are
no wider than the samples they are made of (`InPlace`).  Others are translated into a
buffer of their own, which `attach` then cuts to the size of the first one; of these
`Room` only has what precedes translation.  It also needs a buffer that starts
with three samples or more: `flush_deferred` doubles it once where four might be missing.

The proof is of any such buffer, and of any sizes of samples, headers, cues and
labels, `InPlace` or not.  The invariant: nothing is sent while
samples are stored (`Unsent`); afterwards the parts before `ophase` have been
sent if they are not superfluous, of `ophase` `ooffset` bytes have, and of the
others none (`Progress`).  It assumes `WavHdr`, and `Delivered` does not speak of
forms that lose all their samples (`Kept`); both are below.

## Clients: Client, Dialogue

`Client` follows the bytes of one `appl`: the server announces pieces on the
control connection and sends them on the data connection, and either may be
late; the client, say-epos (`get_data`) or the remote synthesizer
(`tcpsyn_appl`), takes what it should (`Received`).  `Reports` has the order in
which the agents report: text with its total at the first piece, a wave form with its
total (122) after the last 123.  Of the five programs of the run, two are say-epos
with texts, one is say-epos with sound, two are a server.  `ResultsReceived` proves it for
any texts, cut into any tasks and pieces.  `InAppl` relates the two connections:
what is in the buffer, read but not copied, and in the network is what was
sent, in order (`Conveyed`); the replies that are on their way announce what the
client does not know yet of it (`Tells`); a final reply is the last one (`Ended`),
and unless it is an error all tasks were sent (`Accounted`).  It assumes that programs
are `Undivided`.  No wave form is interrupted: `brk()` reports all its bytes, sent or
not (`agent.cc:795`).  A server as a client has one task for an `appl`, as the
total of a second one would cut its buffer to that (`tcpsyn.cc:80`); and it meets
an error at its only `appl`, if at all: the code does not give the connection up
after one (`agent.cc:444`, `synth.cc:67`), and what is left on it would be taken for the
next result.

`Dialogue` follows the commands.  A program is the sequence of steps that its
code performs: to connect, to send a line, to await a handle, a result or data, to
fork, to leave.  `Say`, `Gauge`, `Vrfy`, `Tcpsyn`, `Asking` and `Stopping` are
put together like the functions of the same names (`CommandLine` has what comes
before and in `send_cmd_line`; with `-l` and `-k` a program ends there).  The last
word of the gauge's dictionary has its newline, since one without is sent and not
awaited (`gauge.cc:159`, `183`).  The server answers in order
(`Obey`), and is reduced to connections and their attachment.  `Paired`: although
programs send a whole sequence before they read the first result, what they take
for the result of a command is that command's.  `AllEnd` has `Ends`: connections that hold
two lines stop nobody for ever.  They do stop `Tcpsyn(3)`: the remote
synthesizer writes all segments before it lets the other server read them
(`tcpsyn.cc:225`).  Nobody reads for a child of the gauge whose parent failed.

`DialogueProofs.tla` proves `Paired` of any program that is `Orderly`, not only of
those above, and of any connections and room on them: it has one process, and
`InTurn` says of its steps that the n-th result awaited on a connection is that of
the n-th command sent there, after it was sent; that only the command sent last is
repeated; that the handle is awaited before the results; and that nothing is awaited
on a connection once a stream may write to it.  None of this speaks of the server
or of what is under way: it can be read off the program, and the `ASSUME` of
`MCSound` does so for every program of one process.  (The gauge has two processes, which
take turns on a connection.)  The invariant `DlgInv` numbers the commands sent on
each connection (`Numbered`).  The results that have come back, the text that is
being spoken, and the commands that the server has not read are, one after the
other, those from the first one that is not awaited yet to the last one sent
(`Layout`), as long as the connection lives.  When the server ends it, a beginning
of them is left, which is why a program may miss results but never takes a wrong one.
Data connections are excepted, from the step that hands them to a stream
(`Past`); that the server writes sound to no other is part of the invariant, and
that a handle comes before all results (`Greets`), too, since whoever waits for it
throws away what comes first.

Fairness of `sound`: loops go on, `a_synth::run()` returns or calls itself,
processes and the sessions of the server get their turns.

## Where the code does not do what it should

Two runs are violated and listed as findings in `PROJECT.json`: `cow_twice` and
`rules_gone`.  What follows was met while modelling.  Where a model shows it, it
is a condition in a property or a constant of a passing run, and removing the
condition makes TLC print the behaviour.

Streams and connections:

* A failure among several utterances relaxes only the first busy agent
  (`agent.cc:936`): the client is told 4xx while others still work
  and `a_chunk::bm` dangles (add `Concluded` or `Scheduled` to `stream_play`).
* `intr` while the input sleeps relaxes it and leaves it in `block_table`
  (`agent.cc:919`), where `ttscp.sgml:296` has the command interrupted and the
  connection ready for another one.  The next `appl` is an 861; `strm`, or whatever
  else deletes the stream, frees an agent that the table names (`Tables` without
  `intrs = 0`).
* `join` never clears `inb` (`agent.cc:427`): its `appl` never completes.
* `written` and `decoded` survive `relax()` (`agent.cc:687`), and a first
  `write()` that returns -1 is counted (`agent.cc:680`): remove the hypothesis
  of `Exact`.
* `delh` of a data connection that another session reads from forgets the input
  agent (`ttscp.cc:379`, `Served` with `MaxDelh` 1); a second reader of one
  data connection takes EAGAIN for its end (`agent.cc:592`, `Served` with
  `OwnOnly` FALSE); a stream reads from whoever gets the descriptor next
  (`Steady`); `appl 0` deletes the data connection (`Served` with `Empty`).
* An empty string sent to an idle replier makes it push twice (`nonblock.cc:168`),
  `replier_table` grows uninitialised (`nonblock.cc:187`): `Replies` without
  `Calm`.  A replier that was left with something in its buffer serves the next
  client of its descriptor never (`nonblock.cc:176`); ECONNRESET makes it be woken
  again at once; its buffer has no limit.
* After an empty line the session sleeps although another command is in its
  buffer (`agent.cc:1043`): `Handled` without its last disjunct.

Data, rules, files:

* `subst` hides separators of dictionary entries in the first turn only
  (`unit.cc:522`, `562`); the rule that is documented as "longer matches first"
  takes the rightmost end first.
* A contour that is one adjustment too short for its units is accepted
  (`unit.cc:929`), and a last adjustment of 0 is dropped (`rule.cc:495`), against
  `rules.sgml:632`: `Intoned` states what the code does, and the run has such
  contours; a sign in the middle of a number adds what was read
  but does not forget it (`rule.cc:489`).
* Rules of a block go on being applied to a unit that one of them deleted; a
  conditional rule whose subordinate is missing follows NULL (`rule.cc:941`).
* `effective()` takes its own unit's weight for all the units above it, too
  (`unit.cc:1188`).
* ASCII is "automatically allocated" (`encoding.cc:227`), but not in `epos_charset`:
  when no code beyond ASCII is free, `do_alloc_code` gives out one of an ASCII
  character that was not entered yet (`encoding.cc:85`): `Unified` without
  `EnoughCodes`.
* An unknown `@charset` leaves its number at -1, which indexes `encoders`
  (`Text!Garble`, status "crash").
* A cached file that has been removed fails once and is then claimed with its old
  data (`interf.cc:515`), and one that is written in the second of the cached data
  is not read again; a file that is read again moves data that others hold.
* An argument for the server is unescaped four times, so that no escape sequence in
  one gives a backslash (`options.cc:893`).  Languages inherit what it was after the
  third time.
* `unit_levels` on the command line is obeyed every time it is parsed, resets the
  options of the levels, and dies when the extra options are used up; options of
  levels and of languages given there die as unknown in the first pass
  (`Startup!Sensible`), where `options.sgml` says that they are ignored.
* A server option of a level's name on the command line (`C:p`) is set before the
  levels are made and becomes their value, too, as one in the ini file read later does not
  (excluded by `Startup!Ordinary`).
* Comments on `function.cc:93` are false where a character comes twice.

Sound and clients:

* A voice without a synthesizer ends the server (813, `synth.cc:32`); `Fallback` has
  none.  A fallback voice that is unknown or out of reach itself is tried without end,
  by recursion; a permanent fallback switches the voice of the master context's
  own language, which may be another (`agent.cc:456`).
* `ptdsyn` without impulses reads a whole round of the ring; a segment that is
  longer than the ring wraps into itself; `kbaddST` takes from N what is less
  than nothing, with the wrong sign (`ptdsyn.cc:65`).  `Fits` excludes all three.
* `tdpsyn` that raises the pitch by more than an octave reads marks beyond the
  unit; 150 per cent of a duration are made as 200.
* `a_segs` without `seg_buff_size` drops what is beyond 2048 segments without a
  word (`agent.cc:337`): `Segments!Taken`.
* A wave form that is broken off before it has been attached is an error 462, and
  so is one without samples; without a header, the announced total is that of a
  form with one.
* Translation stores an `int` for each sample, whatever its width
  (`waveform.cc:552`), and so writes up to three bytes behind the last one.  Where no
  sample is dropped, `(n + 1) / downsamp` is one more than there are
  (`waveform.cc:623`): what is behind the last sample is sent, too (`Room` with
  `Spill` 0).
* `attach` ends with a buffer of two bytes for each sample (`waveform.cc:459`), also
  when the translated frames are wider and take more: what is beyond is sent from
  freed memory (`Room` without `InPlace`).  `flush_deferred` compares an index that
  is in bytes by then with a number of samples (`waveform.cc:749`).  A `samp_size` that
  is no multiple of 8 is not modelled.
* A wave form shorter than the number of samples of which one is kept, less one,
  becomes one without samples; its header is sent all the same and not announced
  (`waveform.cc:623`, `668`): `Delivered` without `Kept`, with rates of three.
* The remote synthesizer takes `appl` for a success when either of two
  conditions fails (`tcpsyn.cc:97`), cuts its buffer when the total of a second piece of
  sound comes, leaves what is not read after an error to the next `appl` (`Received`
  without `Undivided`), and writes all segments before it sends `appl` (`tcpsyn.cc:225`): `Ends` with
  `Tcpsyn(3)`.
* A child of the gauge takes the replies to its texts for those to `delh` when
  its parent has failed; `vrfy` repeats `intr` without end once its `appl` is over.

## Not modelled

What the model leaves out of modelled components is in the notes of
`PROJECT.json`.  Whole components that are left out: `nnet.cc` prints units as
numbers for a network that is trained elsewhere and changes no state; `rx.c` is a
vendored copy of the GNU regular expression library, so that rules with regular
expressions have literals in the model; `qnxipc.cc` and the installation code
are about systems, not about state.  Of the synthesizers, what a filter does to a
sample, and `ktdsyn.cc`, which plays stretches of a file; of the wave forms, the
sound card and PulseAudio, whose timing only hardware can tell; of the tools,
their command lines and what they print; of the hash tables, writing and
updating, which the server never does.  Idle work of the scheduler is assumed
away by fairness.
