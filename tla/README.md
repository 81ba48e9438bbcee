# SessionFlow in TLA+

SessionFlow runs code agents (claude, codex, gemini, opencode, plain shells) in
tmux on several hosts and drives them from a PWA. This directory models its
coordination logic in TLA+, model-checks it with TLC and proves part of it with
TLAPS. Paths are relative to the repository; file:line names the code.

1. [The system](#1-the-system) - inventory
2. [The modules](#2-the-modules) - what is modelled, and how it corresponds to the code
3. [The runs](#3-the-runs) - what TLC checks, bounds, fairness
4. [The proofs](#4-the-proofs)
5. [Findings and observations](#5-findings-and-observations)
6. [Not modelled](#6-not-modelled)
7. [Plan](#7-plan)

## 1. The system

* **API** (`api/app`, FastAPI, one process): routers over MongoDB, one background
  loop (`scheduler.py`), an events broker that fans worker events out to
  browsers and voice calls. State: Mongo, and in memory the subscribers and
  the voice turns.
* **Worker** (`worker/sessionflow_worker`, one asyncio daemon per host): consumes
  `sessionflow.commands.<host_id>` one command at a time (prefetch 1), operates
  tmux, and runs periodic loops beside the consumer: discovery (5 s), handoff
  notification (15 s), idle watchdog (60 s), milestones, GPU idle, metrics. State:
  tmux and files of the host, a few in-memory maps, Mongo shared with the API.
* **MongoDB**: sessions, transfers, schedules, demands, events. Only a unique
  index on (host, tmux name) of *active* sessions protects it; there are no
  transactions and no locks.
* **RabbitMQ**: a durable queue per host, a queue of events for the API.
* **Frontend, `sf`, MCP server, speech services**: clients.

The parts meet only through documents (read, then written some awaits later),
queues (at least once: a command is redelivered when its worker dies, and its
dedupe set is in memory) and tmux, which survives everything.

| component | state | operations | interacts through | hard behaviour | what makes it correct | model |
|---|---|---|---|---|---|---|
| session move | `doc.moving`, `move_history`, `session_transfers`, tmux and jsonl on two hosts | `POST /move`, `move_out`, `move_in`, rollback by `resume` | documents, two queues | three processes write one document; crash and redelivery; a publish that fails after delivery; discovery and messages race | one owner at a time, which has the conversation; every move ends | `SessionMove`, `SessionOwnership` |
| session lifecycle | sessions, tmux, queue | `create`, `kill`, `delete`, `rename`, `resume`, purge | documents, queue, tmux | the API, the consumer and discovery upsert the same documents with different filters; a tmux listing is applied many awaits later | one document per session, documents follow tmux, kills arrive, workers keep running | `SessionLifecycle` |
| delegation watchers | marks on child documents, handoff files, captured output | `notify_once`, `watchdog_once` | documents, files, queue of the parent's host | publish then mark; a pass over documents read long before; crash between | the parent is told of every round, once; nudges are bounded; a stuck child is escalated | `Delegation` |
| scheduled commands | `scheduled_commands` | create, edit, pause, delete, `_tick` | documents, queues | publish then mark; edits during a pass; a session gone | one command per due time, none long after a pause, one failure does not stop the others | `Schedules` |
| voice calls | turns and cancellations in memory, broker queue, the browser's microphone | frames, `voice.cancel`, hang up | WebSocket, queue, events | cancel, answer and time-out race; the next utterance overtakes the turn; a bounded queue drops the end of the reply | one live turn, a cancelled one is silent, every turn ends, the microphone opens again | `VoiceCall` |
| one pane: text, resume, agent switch | `switching`, `agent`, `conversation`, tmux, background tasks | `input`, `file`, `resume`, `switch_agent`, kill | document, tmux, discovery | a flow of minutes and tasks that wake the session run beside the consumer | one conversation; the flag ends; the document names the agent that runs | `Terminal` |
| worktrees, clones | worktree of a name, its branch, the field of the document | `clone`, delegated `create`, `delete`, rollback | queue, git, discovery | redelivery, a crash between create and record, an undo | a session runs in a tree that is there | `Worktrees` |
| auto-continue, attention, spoken answers | `_autocont`, `_attn`, `pending_choice` | discovery cycles, `audio` | screen, document | a copied screen, cooldowns, a field two loops write | nothing goes unheard, nothing is answered twice, no old answer | `Attention` |
| spoken summaries and questions | tasks of the worker; clips, questions, recorder and reasons for silence of the page; modes | `maybe_speak`, `maybe_ask_*`, `PUT /jarvis-mode`, `PUT /settings`, play, listen, record | SSE frames, API, microphone | one recorder and one player for questions, recordings and calls; lists, timers, focus and the microphone come in any order | nothing is played into an open microphone; a question ends and the next is asked | `SpokenQuestions` |
| output capture | offset, hash, `seq`, ring | `pipe-pane`, `poll_new_lines`, insert | file, Mongo | an offset in memory, kills, resumes, rebuilds | in order, no holes | `OutputCapture` |
| milestones | file of the agent, `tasks` | `sync_session`, `delete_task` | file, document | both sides change during a pass | the mirror converges, one notice per change | `Milestones` |
| supervision | tasks, connections, stop event | `run`, `_build_and_run`, watchdogs | Mongo, RabbitMQ | a consumer that hangs without raising | the worker receives again, a stop is heard | `Supervision` |
| GPU services | units, last use | start, stop, idle watchdog | systemd, files | threads of a loop and a watchdog | what nobody uses is turned off | `GpuServices` |
| power of sandbox hosts | sentinel, heartbeat, card | shutdown, relaunch loop | queue, file, document | a loop that relaunches what was told to end | a shutdown stops | `HostPower` |
| command bridges | `role`, `owner`, heartbeats | `sf command`, `_command_bridges_tick` | documents, queue, discovery | check of "one per host" apart from the insert; purges from what was read | one bridge is left, none of a dead owner | `Bridges` |
| commands to hosts | `host_commands` results, `_processed` | `POST`, poll, handler | queue, document | redelivery, a poll that gives up | every command is answered | `HostCommands` |
| demands | `demands.status`, text | create, patch, delete | documents | a compare-and-set apart from the read | one taker, which keeps its text | `Demands` |
| events | `seq`, broker queue, SSE, browser | `emit_event`, subscribe, reconnect | Mongo, RabbitMQ, HTTP | drop-oldest queue; stream, timers and pages | the newest frame is seen, the stream comes back, the bell rings | `Events` |
| skills | versions, `latest`, pins, storage | publish, resolve | documents, Drive | publish in three stores without a transaction | a pinned package is there, `latest` does not go back | `Skills` |
| the rest | | | | | | see section 6 |

## 2. The modules

Every module has one action per step between two awaits of the code. A document
is a record of the fields that decide something; screens, texts, payloads, dates
and paths are abstracted. Durations are flags that time sets. Operators whose
name ends in `_Word` after the name of another operator (`Known_Active`) are
faulty variants of it: the properties were tested against them.

Conventions common to all: the consumer takes one command at a time and the head
of `queue[h]` is the command in progress; a crash drops every task of the worker
and leaves the head to be redelivered, since `_processed` is in memory, or, in the moves and
the lifecycle, takes it: `process(ignore_processed=True)` rejects without requeue the command
whose task is cancelled (`command_consumer.py:3674`, `runner.py:820-825`); requests of
users are bounded (`Max...`) and otherwise unconstrained. Failures of Mongo are
modelled where the code handles them (OutputCapture, Milestones, Supervision,
HostCommands).

### SessionMove, refines SessionOwnership

Moving a claude session from one host to another (`api/app/routers/sessions.py`
1317-1420, `command_consumer.py` 1508-1800, `session_move.py`).

| state | code |
|---|---|
| `doc` | the session's document: host, status, `moving.{phase,target,transfer_id}`, and whether `started_at` is older than MOVE_STALE |
| `history` | `move_history` |
| `pane`, `file` | tmux and the jsonl of each host; a copy is "full", or "behind" when it lacks turns taken elsewhere |
| `parcel` | the documents of `session_transfers` |
| `queue`, `work` | the command queues, and where each consumer is in its command |
| `waking`, `sending` | background `_resume_and_send` tasks |
| `listed`, `foreign` | what a discovery cycle saw; twins it inserted |
| `requests` | moves the API validated and has not written yet |
| `mishaps` | history, for the properties: "haste", "lost", "doubled", "stranded", what of these has happened (below) |

`MoveRequest`/`MoveAccept` are the two halves of the route, apart at its await;
`TakeMoveOut` to `MoveOutRollback` and `TakeMoveIn` to `MoveInGiveBack` follow the
handlers step by step, each failure an action of its own; `Crash` kills a worker.
Merged: the status update with the reading of the jsonl (`MoveOutExport`), setting
`moving` with the publish (`MoveAccept`), and the two writes of the rollback.
Rewriting paths in the jsonl, git and the clone are success or failure.

Four things are recorded when they happen, so that the properties can say what they do
not survive: a client acts while a move is under way ("haste"); a publish raises and the
command is lost ("lost"); it raises, and the broker delivers the `move_in` all the same ("doubled"); a worker that has
launched the agent of a `move_in` dies, or meets the unique index, before it writes that the
session is its own ("stranded").

`SessionOwnership` is what a move promises: the owner changes only from the
owner to another host that keeps a copy, the log tells the chain, and copies
never vanish. The mapping is owner = `doc.host`, log = `history`, kept = hosts
with a jsonl.

### SessionLifecycle

`create`, `kill`, `delete`, `rename`, `resume` (`command_consumer.py`), the routes
that send them, and the discovery cycle (`discovery.py`) split into the listing
(`ScanList`), one step per session seen (`ScanSee`) and the stopping of what was
missing (`ScanStop`). Queries that name a session without its host take the first
document in order of insertion (`First`), as Mongo does on this collection.
The partial unique index is `Collides`; a collision ends the worker's tasks
(`Fall`), and `Restart` is `_build_and_run` with its startup reconciliation.
`DeleteRead` is the read of a delete for its worktree, before tmux is killed: a worker
cancelled there loses the command with the session alive (`Crash`). tmux may refuse a kill,
which both handlers swallow (`Kills`, counted by `MaxRefusals`): the document is then marked
or removed all the same.
Merged: the three `update_one` of one session in discovery, and the two of kill.
Shells and worktree clones are not distinguished from agents; `display_name` is the name.

### Delegation

`handoff_notify.py` and `idle_watchdog.py` over a parent and its children. `notify[h]`
and `watch[h]` hold the snapshot of documents a pass works through, so that every
decision is taken on documents as listed, while files and tmux are read live.
`Age`, `Ripen` and `Cool` are the thresholds (MIN_AGE 2 and 3 minutes are one;
GRACE; NUDGE_INTERVALS). A pass lists only children it could act on. `sent`, `pokes` and
`round` are history for the properties. create, kill and input are atomic here:
their steps are in SessionLifecycle. Names are unique across hosts, the parent's
agent does not leave its pane and the parent is not purged, and a nudge has left its
queue when its interval is over (NUDGE_INTERVALS is at least COMMAND_STALE_TTL_S).

### Schedules

`scheduler.py` `_tick` and `schedules_repo.py`. `tick` holds the list the pass read;
each command goes through look, publish and mark. A PATCH reads in `PatchRead` and
writes in `PatchWrite`. Time passes in units of the shortest interval; creation
(check of the session and insert) and purge are one step each.

### VoiceCall

`voice/turn_manager.py`, `voice/agent_output_bridge.py`, `routers/voice.py`, the
subscription of `events_broker.py`, and the microphone of the frontend
(`voice.service.ts`, `microphone.service.ts`). `loop` is the coroutine that reads the
socket: while it awaits the transcription, frames wait in `up`, and frames that
wait may be handled before the task of the new turn takes its first step. `task[t]`
is the step of a turn, `inbox[t]` its queue of the broker, `buffer[t]` the text in its
chunker, tagged with the reply it comes from. `muted` outlives the call, as the
field of the root service does. A frame stands for a run of frames; a line completes
at most one sentence; a status event is "done". A call is bound to its session, or
not, when it starts, and a new one begins when the connection of the last is closed.

### Terminal

The pane of one session and its document: `_type_and_submit`, `_handle_input`,
`_handle_resume`, `_relaunch_agent`, `_resume_and_send`, `_switch_agent_flow` and what
discovery writes of them. `pane` is tmux (its program, who, and the line that is
typed), `doc` the fields agent, switching and status, `conversations` the ids
Claude was launched with. `Consumer` is the command at the head of the queue,
`Flow` the change of provider (hand-over asked, agent stopped, launch, record, first
prompt), `Waker(w)` a background resume with its message, `DiscoveryReads` and
`DiscoveryWrites` the two ends of `_upsert_session`. Waits of seconds to minutes are
steps that may come at any time; pasted text is one unit.

### Attention

`_publish_screen` (`SnapshotScreen`), `_screen_idle` and `_maybe_auto_continue`
(`CycleLooks`), `_maybe_notify_attention` (`CycleUnsets`, `CycleTells`, `CycleAsks`) and
`_handle_audio` with `_maybe_resolve_pending_choice`. A screen is its kind and a
number. `classify_choice` is modelled on phrases of one or two words, digit before
ordinal before yes and no, as its rules go; the model behind it is an oracle of which
only a number counts. A crash is between whole steps of the handler of a recording.

### SpokenQuestions

The worker's `maybe_speak`, `maybe_ask_choice`, `maybe_ask_open`, `reask_open` and
`maybe_confirm_choice` are tasks (`notices`) that look at the mode, then have a sound or none
(`SynthPublishes`). In the page `audio` is `JarvisAudioService` (queue, clip, its repetition),
`muters` its `suppressionReasons`, `choice` and `lists` are `JarvisChoiceService` (the active
question, those that wait, whether it listens, the `listSessions` under way), `mic` and
`ending` the `AudioRecorderService`, which the button of `AudioRecorderComponent` uses as well.
A microphone that the browser grants after nobody waits for it is marked `stray`, a question
whose clip was stopped `cut`: both happen in the code, and the two properties except them (see
section 5). `mode` has the fields `jarvis` and `jarvis_mode`, `everywhere` those of the
settings. Where a recording is sent is left out.

### OutputCapture

`capture` is what a life of the worker holds (path, offset, hash, `seq`), `file[f]` what
was piped, `pane.shown` the screen, `stored` the ring of `session_output`. `Loop` reads,
numbers, inserts and prunes; `Rebuild` is a new life, with the numbers continued
from the collection. Filtering of noise is left out: a line is a number.

### Milestones, Worktrees, GpuServices, HostPower, Supervision

* `Milestones`: `sync` is the pass (what it read, what is left, what became done).
* `Worktrees`: names are slugs, each with its tree, branch, document and tmux session;
  `MakeTree` to `RecordTree` are the handler, `RollBack` its undo.
* `GpuServices`: two units with a mark of last use, the thread of a command that starts or
  stops them (`job`), the watchdog of idleness (`watch`); the limit may pass at any time.
* `HostPower`: the button, the command, the sentinel, the loop of the notebook that
  relaunches the worker, the heartbeat that ages.
* `Supervision`: phases of the process, the consumer's state, zero counts in a row.

### Bridges, HostCommands, Demands, Events, Skills

* `Bridges`: callers of `sf command` (list, create, wait, claim, beat, end), the tick
  (`TickReads`, `TickPurges`), worker and discovery; a document has a life, so that a
  purge can hit a newer one.
* `HostCommands`: folders, files and settings of a host; `work` is the command in
  progress, `lost` those an uncaught error took.
* `Demands`: a request holds the status it read, and writes under it.
* `Events`: emitters take a number and publish, `api` fans out into `stream.queue`
  (dropping the oldest), `browser` is the `SseService` of a page.
* `Skills`: `publishes[p]` and `resolves[r]` stand at an await of the two routes; the
  storage fails and retries.

### The MC modules

`MCSessionMove`, `MCSessionLifecycle`, `MCDelegation`, `MCSchedules` and `MCVoiceCall`
give one module its sets. `MCWorker`, `MCApi`, `MCVoice` and `MCFaults` check several
modules in one run: each EXTENDS one and takes an INSTANCE of each of the others, with
variables of its own (`t_pane`, `s_phase`, ...). The parts share no state, so that
nothing is gained from their interleaving: a constant variable `part`, chosen
initially, names the one that moves. Every behaviour is one of the original module with
the rest idle, and each property is the module's own. The fairness formulas are those of
the modules as well: `Loop1` is a fair action of one part or of another, and since
`part` never changes, weak fairness of the disjunction is weak fairness of the one
that can move.

## 3. The runs

| run | parts: instance | checks | states |
|---|---|---|---|
| `faults` | SessionMove: 2 hosts, 2 impatient moves, 1 crash, failing git and launches, lossy publishes, discovery | `NoTwinOfOwner`, `OwnerHasConversation`, `CancelledStaysCancelled`, `ImplementsOwnership`, and `IndInv` and `Orderly` beside the types | 1 182 418 |
| | SessionLifecycle: 2 hosts of one name each, lossy publishes, 1 crash | `OwnDocsOnly` | 420 261 |
| | Skills: 2 publications, 2 calls of resolve by a session and its parent, 2 versions, 1 fault | `SkillsStand` | 1 194 672 |
| `worker_live` | SessionLifecycle: 1 host, 1 name, 3 requests, 1 crash, 1 refused kill, 1 change by hand | `OneDocument`, `DocsFollowTmux`, `KillReaches` | 48 642 |
| | SessionMove: 3 hosts, 3 moves, 1 resume, 1 message, 1 expired command, failing targets | `OneAgent`, `SettledIsWhole`, `MoveResolves`, and `IndInv` and `Orderly` beside the types | 130 794 |
| | Terminal: 2 providers, 2 commands, 2 wakers, 1 loss, 1 crash | `OneConversation`, `SwitchSettles` | |
| | Worktrees: 2 callers, 3 requests, 2 faults | `RunsInItsTree` | |
| | Supervision: 2 outages, 2 hangs, 2 errors | `WorkerComesBack` | |
| | GpuServices: 2 jobs, 2 faults; HostPower: 3 presses, 2 faults | `IdleIsStopped`, `StopStops` | 58 451 for the last five |
| `api_tick` | Schedules: 2 commands of 2 sessions, 4 edits, 1 fault | `OncePerDue`, `LateAtMostOnce`, `KeepsFiring` | 284 442 |
| | Events: 2 emitters, 2 frames, queue of 1, 2 faults | `StreamServes` | 20 392 |
| | Bridges: 2 callers, 2 names, 1 exit or death | `OneBridgeIsLeft` | 17 515 |
| | HostCommands: 1 caller, 2 commands, 1 fault | `Answered` | 34 524 |
| | Demands: 2 clients, 2 texts | `ClaimStands` | 601 |
| `delegation_tell` | Delegation: child on another host, 3 requests, 1 fault | `ToldOnce`, `EachRoundIsTold` | 320 921 |
| `delegation_watch` | Delegation: 1 host, 2 stalls, 1 nudge, 1 fault | `NudgesBounded`, `StuckIsEscalated` | 522 313 |
| `voice_turns` | VoiceCall: 2 calls, 2 utterances, 1 cancel, 1 fault, queue of 1 | `OneAtATime`, `SilentOnceCancelled`, `TurnsEnd` | 207 696 |
| | OutputCapture: 3 lines, ring of 2, 1 kill, 2 lives, 1 failed insert | `OutputIsWhole` | 30 649 |
| | Milestones: 2 milestones, 3 writes, 1 delete, 1 fault; Attention: 2 frames, 2 recordings, 1 crash | `MilestonesShow`, `NothingGoesUnheard` | 63 723 for both |
| | SpokenQuestions: 1 session, 2 tasks, 2 acts of the user, 1 fault | `NothingGoesUnheard` (`QuestionsAreHeard`) | 41 498 |
| `lifecycle_rename_onto` | SessionLifecycle: 1 host, 2 names, renames | violates `WorkersSettle` (finding) | |
| `delegation_again` | Delegation: names reused | violates `EachRoundIsTold` (finding) | |
| `schedules_stale` | Schedules: 1 command | violates `WaitsItsInterval` (finding) | |
| `voice_muted` | VoiceCall: 2 calls, 1 utterance | violates `MicReopens` (finding) | |
| `events_bell` | Events: 2 emitters, 3 frames | violates `BellRings` (finding) | |
| `attention_old_answer` | Attention: 3 frames, 2 recordings, no crash | violates `NoOldAnswer` (finding) | |

Passing runs also check the `TypeOK` of every part, which ties its state
together (a busy handler has a command, a snapshot is of the worker's own host, ...).
Several properties are conjunctions, each conjunct with its comment in the module:
`OneAgent` (one writer, no orphan), `SettledIsWhole` (every turn kept, nothing left
over), `MoveResolves` (moves end, a failed one runs again), `DocsFollowTmux`,
`SwitchSettles`, `NothingGoesUnheard`, `TurnsEnd`, `OutputIsWhole`, `MilestonesShow`,
`StreamServes`, `SkillsStand`; where they differ each half has a mutant of its own.
Liveness of the shape P ~> (not P or Q) is written `[]<>(P => Q)`, its equal, which TLC
checks without a tableau.

**Why the bounds are enough.** Two hosts let two owners meet and three let a move go on
while an earlier one is cleaned up; two moves let a transfer be cancelled and
replaced, three let a session come back to a host that kept an old jsonl. One crash at
any step covers every "done but not marked" window; a second only repeats it, and
the properties that count are stated per fault. Three requests reach
create-purge-create and create-kill-resume on one name, with a crash and a refused kill at any step. One nudge and two stalls reach nudge, reset,
nudge, escalation. Two schedules let one fail or lose its session beside another; two
edits reach pause and resume inside one pass. With one line per reply and a
queue of one the broker drops the line, or the line is dropped for the end of the reply
behind it. In the smaller modules two actors meet at every await (two wakers and the
consumer, two callers, two publications) and one fault of each kind comes at any step;
two frames and a queue of one overflow, a ring of two drops, two zero counts are the
grace of the watchdog. Two acts of the user are a recording in a question, a call in a
recording, leaving and coming back; SpokenQuestions was also checked alone with two
sessions (286 688 states). Runs with clients that stop at their bounds do not check for deadlock, as
the system may then be idle for good; the two lifecycle runs without
`CHECK_DEADLOCK FALSE` have discovery cycles for ever.

**Fairness.** Weak fairness of the steps of a worker's consumer and of its loops
(asyncio tasks that are always rescheduled), of the restart of a dead worker
(start-worker.sh) and of the API (compose `restart`), of timers that were started,
and of the browser's event loop. Nothing is assumed of users, of agents (they may
never write a handoff, never finish a reply), nor of publishes, which may fail. Outages
of Mongo and Rabbit end (Supervision), time passes (a heartbeat ages, HostPower).
Callers of `sf command` go on until they end or die (Bridges); a caller of a host command
may give up. Fault actions are never fair. `Demands`, `Skills` and `Worktrees` are
checked for safety only.

**The moves in `worker_live`.** That run asks whether every move ends (`MoveResolves`), and so its
clients wait for one to settle before they act again, no worker dies and discovery does not run:
a command taken by a crash leaves the document "importing" until a client acts again. Its safety
properties do not need that: `OneAgent` and `SettledIsWhole` hold whatever clients, crashes,
lost publishes and discovery do, until one of three mishaps. `faults` checks the invariant they
follow from (`Orderly`) with all of these, and section 4 proves them for every value of the constants.

## 4. The proofs

Each theorem holds for every value of the constants that satisfies the assumption its
module names: any set of hosts, any number of commands, turns, requests and faults.

### SessionMove_proofs

| theorem | property |
|---|---|
| `TypeCorrect` | `TypeOK` |
| `Inductive` | `IndInv` |
| `OwnerKeepsConversation` | `OwnerHasConversation` |
| `OnlyOwnerExports` | `ExporterIsOwner` |
| `CancelledNeverReturns` | `CancelledStaysCancelled` |
| `HistoryChains` | `HistoryIsChain` |
| `OwnerHasNoTwin` | `NoTwinOfOwner` |
| `MovingKeepsOwnership` | `ImplementsOwnership` |
| `MovesAreOrderly` | `Orderly` |
| `OneAgentAtATime` | `OneAgent` |
| `SettledSessionIsWhole` | `SettledIsWhole` |

They assume only `MoveAssumption`: the start host is a host, `NoHost` is not, flags are
Boolean and bounds natural. They hold with crashes, redelivery, lossy publishes,
impatient clients and discovery.

Why `IndInv`: that a target only takes a session which its source gave up for it
does not follow from the target's check (`doc.moving.transfer_id` equals the
command's) alone. One needs that a transfer id has a single source (`OneSource`), that
the document names an id only while that source owns it, that a fresh id is in
nobody's queue (`FreshTransfer`), that commands are in the queue of the host they
are for (`Addressed`), and that a step of a handler belongs to the head of its queue
(`HeadInProgress`). Together these are inductive: each action is one step of the
proof, and the conjuncts it does not touch follow from lemmas on queues. The
action properties and the refinement use IndInv in the two steps that write
`doc.host` or `doc.tid`. `IndInv` is also checked by TLC, beside the types, in `faults`.

The last three are about everything up to a mishap (`Undisturbed`): clients in haste, a `move_in`
reported lost and delivered all the same, a worker that dies or meets the unique index between
launching the agent and writing that the session is its own. Crashes everywhere else, with
redelivery or without, commands that expire or are lost, publishes that fail, and discovery are in
the theorems. Nothing weaker will do: with the others excluded, TLC finds for each of the three a
behaviour that ends with two agents or one on the wrong host, and for the first two also one
that loses turns (for the third that search was not finished). They are told among the
observations of section 5. What a lost command leaves behind ("importing", a parcel) is not a
whole end, and `SettledIsOver` says so: it holds if nothing was lost (`NothingLost`), while the
conversation stays whole in any case (`KeepsEveryTurn`).

That there is one agent is not kept by a lock: no line of the code looks for an agent on
another host. It follows from where a move is, which is what `Orderly` says: there is one
request or one move, and its target's half begins when its source's is over (`OneMove`);
whatever else is sent waits for it or was sent before (`TalkAside`); from the step that
stops the agent to the commit nobody runs one, and the parcel of the transfer is whole
(`OutUnderWay`, `InUnderWay`); the agent and the whole jsonl are with the owner, or with the host
that is one write from being it (`WithOwner`); and a phase or a parcel that is left is of a
command still in a queue, unless something was lost (`NothingLeft`). Each depends on the others: that a
parcel is not replaced needs one move, that a resume does not start a second agent needs to
know where it was sent, and that the parcel is removed needs the step at which it is.
A command that a crash brought back after its move went on is in a queue too, and does not move
the session any more: `Leaving` and `Arriving` tell those that do from those that do not.
`Orderly` is inductive with the types and `IndInv`, a lemma per group of actions.

### SessionLifecycle_proofs

| theorem | property |
|---|---|
| `LifecycleTypes` | `TypeOK` |
| `OneHostOneDocument` | `OneDocument`, for one host without renames |
| `WorkersKeepToTheirOwn` | `OwnDocsOnly`, for hosts with disjoint names |
| `OnlyClaimsMix` | `InOrder`, while restarts claim only documents of their own names |
| `IndexHolds` | `UniqueActive` |
| `KillsAreDone` | `KillIsDone`, the safety half of `KillReaches` |

They assume `LifecycleAssumption` and what the table says. `OneDocument` is inductive
with the fact that nobody is in the middle of a rename (`NothingRenamed`): every
upsert of the code looks for the name, under other keys, in the step in which it
inserts, and on one host all of them find the document that is there.
`OwnDocsOnly` looks like a consequence of the queries, and is not: they name no host, so
that it takes documents and commands that bear the names of their host (`InOrder`). That
is not an invariant of the code. A resume that recreates a purged session upserts a
document without host, and any worker that restarts meanwhile claims it
(`_backfill_legacy_host_id`), whereupon its delete by name removes the other host's
document. `OnlyClaimsMix` shows that this is the only way: with it excluded, the names in tmux, in
the queues, in the listings of discovery and in the documents stay apart (`Ordered`).
`UniqueActive` is the unique index `uq_host_tmux_name_active` as the code sees it: only
rewrites are refused when they collide (`Collides`); that an insertion never does is what is proved, for
each of the three searches that come before one (`WriteKeepsIndex`, `InsertKeepsIndex`, `UpsertKeepsIndex`).
`KillIsDone` says that a kill or a delete leaves the queue only with its session gone, and
names the two ways in which the code does otherwise: tmux refused the kill (`Refused`), and the
worker went down, its task cancelled, while it read the document of the session to delete
(`Cancelled`). Redelivery after a crash at any other step, commands that wait for hours,
collisions and namesakes are in it. It follows from the shape of the queue: a command
leaves it at its head, and only from its handler's last step or from the read of a delete.

### Delegation_proofs

| theorem | property |
|---|---|
| `DelegationTypes` | `TypeOK` |
| `DelegationInvariant` | `IndInv` |
| `ParentToldOnce` | `ToldOnce` |
| `NudgesAreBounded` | `NudgesBounded` |
| `NoRoundIsMarkedUntold` | `MarkedIsTold`, the safety half of `EachRoundIsTold` |

They assume only that every child has a host and that bounds are natural. Both loops decide on
documents as they were listed and write by `_id`. `ToldOnce` holds because whatever is
still to be marked is unmarked (`ListedUnmarked`) and a notice is paid for by the mark, by
the mark on its way, or by a fault (`NoticesCounted`): a crash between publish and mark
turns the second into the third, and a child purged there is a new round.
`NudgesBounded` needs both sides: the nudges published since the last progress are
those the document counts, one being counted, and faults (`DocCounts`), and
the same of the count that the pass read (`PassCounts`), since `WatchWrite` overwrites the
document's with it. The proof attempt showed that the bound is one more for a child
delegated again under the name of a purged session: the pass that listed the earlier one
nudges the new, and has no document to count it in (`Inherited`).

`MarkedIsTold` is the other side of `ToldOnce`: at most one notice, and none lost. A pass that
is about to mark has told in this round (`ToldBeforeMark`), because a publish that raised ends
the pass and a crash forgets it; what it took for told was an output of this round, since no
output is of a round to come (`OutputsOf`). The theorem is about documents made for the round
they are in: a name delegated again while its document stands keeps the old mark, which is
the finding of `delegation_again`.

### Worker_proofs

| theorem | property |
|---|---|
| `ClonesRunInTheirTree` | `RunsInItsTree` |
| `ClaudeKeepsItsConversation` | `OneConversation` |
| `HostsShareOneAgent` | `OneAgent` |
| `MovesLeaveItWhole` | `SettledIsWhole` |
| `PartsKeepTheirTypes` | `PartsTypeOK` |
| `SwitchHoldsItsFlag` | `FlagIsHeld`, the safety half of `SwitchSettles` |
| `ShutdownsAreKept` | `ShutdownIsKept`, the safety half of `StopStops` |

About the behaviours of `MCWorker`, for any numbers of cloners, wakers, providers, commands
and faults (`WorkerAssumption`). `TreesHeld` says at each step of the handler what of tree,
session and document exists: a command delivered again after a crash starts over with a
tree of the same name, and only `RecordTree`, which has just seen tree and session, writes
the field. `OneId` says that while no worker died whoever may launch Claude (consumer,
background resumes, change of provider) holds the id of the document or none, and
that an id is minted only by the change of provider, which keeps the only copy until it records
it; `switching` refuses another one meanwhile. A crash between launch and record loses
the id: that is why the property excepts it.

The two theorems on moves are those of SessionMove_proofs for the instance in `MCWorker`, for
patient clients or not, with discovery or without, and any number of crashes. `PartsKeepTheirTypes` takes the types of the lifecycle from
SessionLifecycle_proofs and adds those of the other parts. Two of these are more than
ranges: the queue of HostPower is bounded because every shutdown in it, and the one
`StopMarks` promised, was a press (`ShutdownsAsked`), and a worker that ends because of one still has it unacknowledged.

*The flag of a change of provider.* `switching` refuses a second change. It is on as long as the
change runs, and left on only where a worker died; and where the change waits for a text
to be typed, the task that types it is the change's own, and it is typing or has ended: nothing
else of the worker puts that typist elsewhere. That needs that no background resume is
called like the consumer's or the change's typist, which `WorkerAssumption` says.

*Shutdowns.* The command is acknowledged when the worker ends, and before that the worker has
written the sentinel that its loop reads (`ShutdownHeld`), so that at no moment both are
gone while the loop could start the worker anew.

### Api_proofs

| theorem | property |
|---|---|
| `TypeCorrect` | `TypeOK` of Schedules |
| `SentOncePerDue` | `OncePerDue` |
| `LateOnlyOnce` | `LateAtMostOnce` |
| `ClaimedForGood` | `ClaimStands` |
| `DemandsOnlyAdvance` | `DemandsAdvance` (of every step) |
| `ApiKeepsItsTypes` | `PartsTypeOK` |
| `CommandsAreAccounted` | `CommandsAccounted`, the safety half of `Answered` |
| `StreamsKeepTheNewest` | `NewestWaits`, `PageIsConnecting`: the safety half of `StreamServes` |
| `BridgesAreKnown` | `BridgesStayApart`, `ShellsAreKnown`: a safety half of `OneBridgeIsLeft` |

The first three are about the scheduler alone, the others about the behaviours of `MCApi`. They
assume `SchedulesAssumption` and `ApiAssumption` (bounds are natural, queues of streams are
not empty, there is a name).

`OncePerDue` counts what was sent since a command fell due against the faults. It is not
inductive: a pass may still send what it listed. What is added is that what the pass
has yet to send was not sent since it fell due (`UnsentOnce`), nor was what is due and
not about to be marked (`DueOnce`), and that a pass lists each command once
(`OneEntry`). A fault, the only step that sends and does not mark, is on the other side
of the count. `LateOnlyOnce` has the same shape: a paused command that the pass has yet
to send was not sent late before (`UnsentLate`).

A request about a demand that waits between its read and its write may hold
a status that is long past; what it may write is bound to what it read
(`RequestsAllowed`: a new text only of what was pending), and the filter of the write
to what is still so. Hence the step out of `pending` happens once (`ClaimedOnce`), no text
changes after it, and a claimer that waits for its answer reads the text it claimed
(`ClaimsAnswered`, `GivenClaimed`): `DemandsInv`. From it also follows that every step of a demand is
one that `_ALLOWED_TRANSITIONS` has of its *present* status, though it was looked up for the
one that was read (`DemandsAdvance`).

The types are not inductive either. That the next `seq` is one (`NextSeqType`: the maximum is
chosen among what was stored) needs that no event was stored under a number yet to be given,
and an acknowledgement of the broker that the message it holds is still there
(`EventsHeld`). The tick of bridges lists owners that are gone, with the ids of their
documents: that these are ids needs that a document without session has no owner
(`BridgesHeld`). A worker that answers a command does it for the first of its queue
(`CommandAtHand`).

*Commands.* What leaves the queue of a host has its answer, be it handled in this life before
(and skipped as a duplicate) or just now (`AnsweredFirst`), or an uncaught error took it,
which `lost` records; a crash leaves it where it was.

*Streams.* `Put` drops the oldest frame of a full queue, so that the one just put is the last of
it; when the queue is empty the page handled it (`NewestWaits`). Each handler of the page that
gives up its source sets a timer, and each that clears the timer opens a source
(`PageIsConnecting`).

*Bridges.* Names of bridges are given again, ids are not: ids only move together with their
name or begin above all that were given (`IdsMove`, `IdsGiven`), so that whoever knows a bridge by
its id knows it by its name (`BridgesStayApart`). The tick needs it: it removes the
document by the id and deletes the shell by the name, and were they of two bridges, a shell would
be left without a document (`ShellsAreKnown`).

### Faults_proofs

| theorem | property |
|---|---|
| `SkillsStandFirm` | `SkillsStand` |
| `HostsKeepToTheirOwn` | `OwnDocsOnly` |
| `FaultsKeepTypes` | `PartsTypeOK` |

About the behaviours of `MCFaults`, for any hosts whose names are disjoint, any finite set of
publishers, and any versions, resolvers and bounds (`FaultsAssumption`). A move there is one of
SessionMove (`MovesAreTheirs`), and the sessions one of SessionLifecycle, whose theorems are
taken over; the skills are proved here.

No lock holds between the calls of publish and resolve. `SkillsInv` says what each has
done by where it is. A package is removed only by the call that stored it, once it lost,
and until then no entry of the catalogue names that call (`CallHolds`), so
that the packages of the catalogue stay (`CatalogueStored`); an entry that was made
is not replaced, so that a call between its steps still finds its own stamp in it. The
skill's latest version has in the catalogue the stamp the skill has (`LatestStands`), and a
call that has answered finds it at least as new, because a later call with an older stamp
leaves it. Stamps of calls that stored are not zero, and the clock is their number
(`ClockCounts`), which bounds it. A pin is a published version (`PinsPublished`), an
answer is the pin's, or the session was deleted (`AnswersHold`): `PinHolds` is kept by
the one step that writes a pin because nobody was answered while there was none, and after a
deletion because nobody is answered any more. That a new session finds a latest version at all
(`LatestIsPublished`) needs that there is a greatest stamp among those published.

### VoiceCall_proofs

| theorem | property |
|---|---|
| `TypeCorrect` | `TypeOK` |
| `OneTurnRuns` | `OneAtATime` |
| `CancelledIsSilent` | `SilentOnceCancelled` |

`MarksStand` is the invariant: every running turn but the last is marked (`OthersCancelled`),
no task outlives the call (`ClosedIsOver`, without which the new, empty set of marks of
the next call would let an old turn speak), a turn that was ever cancelled keeps its mark
while its task runs or while it is being spoken (`StoppedMarked`), the turn being
transcribed was never cancelled (`NotHeard`), and `voice.cancel` names turns that were
begun (`CancelsPast`). The mark is taken back in two places, when the task ends
and when the utterance of a cancelled turn ends, and these are why it must be so.
That a marked turn sends nothing is then shown action by action (`TurnSays`).

### Voice_proofs

| theorem | property |
|---|---|
| `VoiceKeepsItsTypes` | `PartsTypeOK` |
| `OutputInOrder` | `StoredInOrder`, the safety half of `OutputIsWhole` |
| `MilestonesToldOnce` | `ToldOncePerDone`, the safety half of `MilestonesShow` |
| `LastNewsIsTrue` | `UserKnows`, a safety half of `NothingGoesUnheard` |
| `PlayerKnowsWhoListens` | `QuietInv`: `SilentWhenMuted`, `AwaitedMutes`, `CallMutes` |
| `QuietWhileListening` | the safety half of `QuestionsAreHeard` |

About the behaviours of `MCVoice`, whose call is one of VoiceCall (`CallsAreTheirs`, so that
its theorems hold here as well), for any bounds (`PartsAssumption`) and any sessions and
milestones. TLC checked the invariants of output, milestones and attention beside the types
before they were proved.

*Output.* That the numbers of what is stored rise looks like a matter of one counter, but
the counter starts anew with every life of the worker, goes on from the greatest stored
number that the ring did not forget, and is advanced before the insert. `OutputOrder`
says that what is stored of the present pipe comes before the batch that was read, the
batch before the rest of the file, and the snapshot before all of it; `OutputPipes`,
that the file of this life is empty until its loop has started the pipe, that those of
lives to come are empty, and that a batch that was read took the snapshot with it; `OutputRises`, that lines are in the
order of their printing wherever they are kept.

*Milestones.* `ToldMilestones` counts what was told against what came to be done, with one
in hand for a milestone that this pass is to announce (`ToTell`) or that is done in the file and
that a pass will find so (`ToFind`); `NewlyDone`, that what is to be announced was already
written to the tasks (or deleted by a user since), so that no pass finds it again for the same change.

*Attention.* `LastHeard`: what was last told of what is asked for is what the user last
heard, or an error was told since; `NowTold`: between cycles the state that discovery sees was told.

*What is said.* No line of the code says that an open microphone hears nothing:
the player keeps reasons to be silent, and questions and the button set and take back the
same one for the one recorder. `QuietInv` ties them: with a reason the player is idle, which
the five seconds before a summary is repeated need too (`SilentWhenMuted`); a
recorder that somebody waits for, or that records for somebody, is among the reasons
(`AwaitedMutes`), because whoever takes the reason back has stopped or abandoned it in the
same step (`Ends`); and a call has a reason of its own that recordings leave alone
(`CallMutes`). The recorder that was abandoned before the browser gave the microphone is
the exception, and the theorem says so (`~mic.stray`).
The types (`QuestionTypes`) need `QuietInv` in one place, that nothing plays while there is a
reason to be silent; that a queue without the clips of a session is a queue (`OthersType`) is
shown by a least counterexample, as `Others` goes along the queue.

Model-checked only: liveness (`TurnsEnd`, the other halves of `OutputIsWhole`,
`MilestonesShow` and `NothingGoesUnheard`, and the other properties with `[]<>`, `<>[]` or
`~>`), which the proof system does not reach.

## 5. Findings and observations

Findings, each reproduced by a run:

* **A rename onto an old name never settles** (`lifecycle_rename_onto`). After a rename to
  the name of an older stopped document the host has two; discovery
  (`discovery.py:494`) updates the older one to active, breaks the unique index, and the
  worker is rebuilt every few seconds.
* **A second delegation under one name is not announced** (`delegation_again`).
  `create` keeps `parent_notified_at` of the earlier life (`command_consumer.py:966`).
* **A shortened interval waits the old one** (`schedules_stale`). `mark_ran`
  (`scheduler.py:112`) uses the interval read at the start of the pass; it also
  overwrites the `next_run_at = now` of a resume.
* **Hanging up while the assistant speaks mutes the next call** (`voice_muted`).
  `MicrophoneService.muted` is never reset.
* **A live event never rings the bell** (`events_bell`). Every event carries a numeric
  `seq` (`events.py:110-121`) and `isOutputLine` (`sse.service.ts:26`) takes that for a
  line of output; notifications only come from the history read on opening.
* **An answer reaches the question after the one it was given to** (`attention_old_answer`).
  The pending choice is read before the recording is classified
  (`command_consumer.py:2643`) and the key typed after it, without another look.

Observations: behaviour met while modelling and confirmed with TLC on instances not
kept as runs. The modules still show them with other constants.

* move: a worker killed inside `move_in` after launching is given the command
  again, finds the session "já existe", hands it back: agents on both hosts
  ("stranded"). A message wakes a session stopped
  by a move on its old host and its turns are lost ("haste"). A `move_in`
  that was reported lost and arrives all the same takes the session from under the agent that
  was relaunched ("doubled"). "Retomar" before MOVE_STALE leaves an agent behind. Discovery
  may insert a document on the target before the commit, which the unique index then
  refuses: `moving` stays "importing" until MOVE_STALE.
* lifecycle: the name-only queries reach the document of another host with a
  session of the same name (`OwnDocsOnly` with shared names). A purged session whose delete is
  cancelled, or whose kill tmux refuses, lives on: the next cycle of discovery inserts it again. With disjoint names the same comes of a
  resume that leaves a document without host, which the other host's worker claims when it
  restarts (`runner.py`, `_backfill_legacy_host_id`): see `OnlyClaimsMix`. A listing read before a
  purge inserts the purged document again; so does one while the delete waits. A resume
  after a purge upserts a document without host, which no cycle stops: `DocsFollowTmux`
  excludes it explicitly.
* delegation: the parent's status is read before the notice is handled, so a parent
  killed in between is woken by it. A child resumed after a "sem-handoff" notice is not
  announced again. A handoff under `display_name` hides a fresh one under `tmux_name`.
  After an escalation a child that works again is not nudged again. A child purged and delegated
  again within one pass may be nudged once for its predecessor.
* schedules: the schedules of a purged session keep failing for ever.
* voice: the utterance that overtakes a turn may be cut by that turn's own
  `speech.start`, sent before the cancelled task saw its mark: the microphone is
  muted in mid-speech and the endpointer never sees silence (`MicReopens` with
  `MaxCalls = 1, MaxTurns = 2`). A synthesis that raises sends no `speech.end` either.
  The bridge filters by session only: a new turn speaks the rest of the reply to the
  cancelled one. The check "cancelled while transcribing" cannot be true, since
  the reader waits for the transcription. A cooldown timer is not cleared by the next
  speech. `stop()` followed at once by `start()` lets the late `onclose` of the old
  socket end the new call's capture.
* terminal: the launch of a change of provider may be typed into the agent that a
  background resume has just brought up (`command_consumer.py:2138`, against
  2091-2093 "nunca digitamos o launch dentro do agente vivo"); a message that arrives while
  the agent is down goes to the shell; two pasted texts may be submitted as one; a crash, or
  a rename during the change, leaves `switching`, which refuses every later one.
* attention: "não, uma outra" is taken for yes where an option begins so; a key found by the
  model is never confirmed twice; idle sessions are announced again after a restart
  (against `discovery.py:603-606`); "continue" may be typed into a picker that has
  replaced the error; a recording delivered again after its answer was consumed is
  typed as it was said.
* spoken questions: `PUT /settings` with `jarvis_full_all` off, which is what saving any other
  setting sends, takes the full mode away from every session (`settings.py:196`). A question that
  `jarvis_full_all` asks of a session whose own mode is not full is dropped by the page
  (`jarvis-choice.service.ts:135`), though the setting is "para TODAS as sessões"
  (`models.ts:321`). A question whose clip is cut by a recording, a call, opening its session by
  the link of a notification or turning the sound off stays active, and all later ones
  wait until the window gets the focus or it is dismissed. The window that gets the focus while
  the user records with the button takes that recording for the answer: after six seconds
  it is stopped and sent to the session that asked. The list asked for an earlier question
  sets the session of the active one. A microphone granted after the six seconds, or
  after the question was dismissed, stays open, with clips playing. One refused to the button
  leaves the page silent until the next recording: `AudioRecorderService.start` resolves without
  throwing, and `audio-recorder.component.ts:256` waits for a throw. `setViewingSessions` is given
  ids of Mongo where frames carry tmux names, so that only links of notifications match. A
  summary whose synthesis failed counts as spoken for 150 s (`jarvis.py:219`).
* milestones: `delete_task` is published without a host (`history.py:203`) under a key bound to
  no queue, so that a deleted task comes back with the next pass.
* power: a Colab host whose name lacks "colab" is never sent its shutdown
  (`worker.py:208-213` of the routers); a stale shutdown ends the worker of the next
  start, as it is not among the commands that expire; a heartbeat in flight shows the host
  online again for a while.
* worktrees: purging a clone leaves the branch `clone/<slug>` (`command_consumer.py:1157`),
  and the next clone of that name fails for ever; a crash between creating and recording
  leaves a tree nobody removes; a rollback may take place under a live tmux session.
* GPU: the watchdog may stop a unit that `ensure_started` is still starting.
* output: a session killed and resumed within one life of the worker is not piped again
  (`runner.py:363`, `started` is never pruned; 345 says it ensures it); the hash of a
  snapshot and the offset are advanced before the insert that may fail.
* supervision: an error of tmux in a task rebuilds everything, though
  `runner.py:833-835` reserves that for infrastructure.
* host commands: a command delivered again is executed again, and a copy or delete that had
  answered ok then answers with an error; errors other than `CommandError` leave
  no result; a request that timed out may run later.
* bridges: a claim or heartbeat between the tick's read and its purge loses its bridge in
  the middle of a command; a delete by name kills a bridge that was created again under it.
* demands: the rescue of orphans may end a demand whose orchestrator is alive.
* events: two emitters may store two events under one `seq` (`events.py:57`); frames missed
  while reconnecting are not replayed; a boot without Rabbit never retries.
* skills: a crash between the version and the skill leaves a version no skill lists, and
  publishing it again answers 200 without repairing it (`skills.py:226`); a parent
  pinned between its child's read and pin is not inherited.

## 6. Not modelled

* Metrics, usage, model discovery, directory scans, host identity: parsing, and
  periodic overwrites of documents with a single writer.
* Speech synthesis, transcription, the wording of questions and summaries: calls to
  models. Oracles of VoiceCall, Attention and SpokenQuestions.
* Authentication, shares, tickets; uploads, shared files: checks and storage within one
  request.
* The frontend, except the microphone of a call, the player, the questions and the recorder, the
  stream of events and the card of a host; the MCP server: clients, whose requests are the environment of the modules.
  The interface mock is static.
* Within the modelled parts: keys, restart and the change of model (text typed into a
  pane, no state of their own); quick replies, uploads of recordings and their retries; the sweep of ephemeral sessions; failed publishes of
  `sf command`; the rescue of orphaned demands; filters of output; downloads of skills.
* Scripts under `tools/` (notebooks, videos, installation).

## 7. Plan

Done: all the modules of section 2, the proofs of section 4: every invariant, action property
and refinement that a run checks has its theorem, and so have the safety halves of the
temporal properties; what is only model-checked is liveness. To come, in this order:

1. An abstract registry (a set of live sessions) that SessionLifecycle implements, and a
   specification of a queue that drops its oldest for Events and VoiceCall.
2. Composition of Terminal with SessionLifecycle, which today takes the agent of a
   pane as one step.
