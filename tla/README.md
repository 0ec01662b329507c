# cc-openclaw in TLA+

This directory models the parts of cc-openclaw whose correctness depends on the
order in which things happen: the actor runtime of the channel server, a Feishu
chat and what becomes of its events, the session commands, the websocket between a
Claude Code session and the server, a voice call, and the sidecar that decides who
has an agent. TLC checks small instances; TLAPS proves, for every value of the
constants, every safety property the passing runs check, and that the runtime
implements its abstract specification.

`PROJECT.json` lists the components, the runs, the source lines behind every
definition (`map`), a mutant for every checked property, the findings, the
hazards and the theorems.

## 1. The system

| component | state | operations | interacts with |
|---|---|---|---|
| actor runtime (`channel_server/core/runtime.py`) | `actors`, `mailboxes`, `_tasks`, `_dedup` | spawn, attach, detach, wire, send, stop, shutdown, one loop task per active actor | called by both adapters and the commands; calls handlers, executes their actions, awaits transports |
| handlers (`core/handlers/`) | metadata of the actor | `handle`, `on_spawn`, `on_stop` | return actions to the runtime |
| persistence (`core/persistence.py`, `app.py`) | `actors.json` | save every 30 s and at a clean stop, load as suspended | the runtime |
| session commands (`commands/builtin/`) | none of their own | `/spawn`, `/kill`, `/sessions`, `/help` | runtime, Feishu (anchor, pin), tmux |
| dispatcher (`commands/`) | registry | parse, scope check, run, reply | Feishu adapter starts a task per command |
| CC adapter (`adapters/cc/adapter.py`) | `_ws_to_address`, `_address_to_ws` | register, disconnect, push, route, start and kill tmux windows | runtime, websocket clients |
| CC channel client (`adapters/cc/channel.py`) | connection, heartbeat task | connect, register, beat, retry, MCP tools | CC adapter |
| Feishu adapter (`adapters/feishu/`) | none that decides anything: it reads the runtime's table | message and reaction events in, to a command, a thread's actor or the chat's; reactions, pushes, anchors and pins out | runtime, dispatcher, Feishu |
| voice call (`voice_gateway/session.py`, `session_split.py`, `actor_bridge.py`) | flags of the call, the query task, one pending future, the speech service's queue of audio | set-up, events of the dialogue service or of the recognition, query, answer, interruption, clean-up | speech services, channel server |
| sidecar (`sidecar/`, `openclaw-sidecar-plugin/`) | SQLite tables; bindings in the gateway's configuration | events of members, of the bot and of chats, message hook for people and groups, batch, reset, reconciler | Feishu groups, OpenClaw gateway |
| voice page, launchers, deployment | – | – | outside the models |

What is hard, and what makes each part correct:

* **Runtime.** One event loop, so code is atomic between awaits; but `stop`
  awaits in the middle, a cancelled task ends later than the cancel, and an
  address outlives its actors. An active actor must have one loop, on its own
  mailbox, and a transport; messages must be handled in order, at most once, and
  not be lost with a reconnection; an ended actor must stay ended.
* **Feishu chat.** Feishu delivers an event late, in any order and again; each
  call to it may be carried out without an answer. One slot of the metadata holds
  the reaction to take away, and the set of seen ids is bounded and not saved. A
  message must reach one session once, and no reaction must be left behind.
* **Commands.** Each is a task that awaits Feishu between its checks and its
  effects. Session, thread actor and pin must live and end together; the limit
  must hold.
* **Connection.** Each end sees a close at its own time; the server crashes and
  loads an old file. The two tables must agree with the handlers; clients must
  come back.
* **Voice.** The user interrupts at any await; replies carry no question id. Only
  the last utterance may be answered, in turn; nothing may outlive the call, the
  set-up must not wait for ever, and no answer may be spoken in another's place.
* **Sidecar.** Rows are read and written in different awaits, events are
  duplicated, late or lost, and all bindings are replaced at once. Permissions
  must become those of the groups, and one person's change must not undo another's.

The hazards, each with its line and the properties that would catch it, are in
`PROJECT.json`.

## 2. Modules

| module | models | used by |
|---|---|---|
| `ActorRuntime` | runtime with the `cc_session` and `feishu_inbound` handlers | `MCActorRuntime` |
| `ActorTable` | abstract: per address a state, an inbox and the message in work | |
| `ActorRuntimeTable` | the refinement mapping from the first to the second | `MCActorRuntime` |
| `ActorRuntimeProofs` | theorems about `ActorRuntime` | `RuntimeTableProofs` |
| `RuntimeTableProofs` | that the runtime implements the table | `RuntimeOrderProofs` |
| `RuntimeOrderProofs` | that messages leave in order, over the table | |
| `FeishuChat` | events of one chat, its actors' reactions and pushes, deduplication, restart | `MCFeishuChat` |
| `FeishuProofs` | theorems about `FeishuChat` | |
| `SessionCommands` | `/spawn`, `/kill`, registrations of the clients | `MCSessionCommands` |
| `SessionProofs` | theorems about `SessionCommands` | |
| `CCConnection` | client and server ends, saves, crashes, restarts | `MCCCConnection` |
| `ConnectionProofs` | theorems about `CCConnection` | |
| `VoiceCall` | one call, in either mode, and its bridge | `MCVoiceCall` |
| `VoiceProofs` | theorems about `VoiceCall` | |
| `SidecarAccess` | events, permissions, agents of people and groups, bindings, reconciler | `MCSidecarAccess` |
| `SidecarProofs` | theorems about `SidecarAccess` | |

The convention of all of them: an action is what a coroutine runs from one await
to the next, and what is local to a coroutine across an await is in a record with
a `pc`. Definitions whose comment begins with "Mutant of" are planted bugs, used
only to show that a property can fail.

### ActorRuntime

`actors`, `reg` and `obj[o].mailbox` are `runtime.actors`, `_tasks` and
`mailboxes`. Actor objects and loop tasks have identities, because code holds on
to them across awaits (`stop` its actor, a loop its mailbox) while the address
moves on; identities that nothing refers to are used again, so the state space
is finite. `call` holds the calls of `stop` that await an `on_stop` action, with
the thread actor that action is about. A loop is `new` until its task first runs
(that is when it looks its mailbox up), then `wait` (in `mailbox.get`) or `busy`
(in an awaited transport). `pushed`, `streak` and `robbed` are history: what each
address handed on, the errors in a row, and whose loop was cancelled on behalf of
another actor.

Abstractions: a cancelled task is over at once (asyncio of Python 3.12 and later;
in 3.11 `wait_for` may swallow a cancellation). That `attach` and `detach` do not
meet an ended actor comes from their callers (`adapters/cc/adapter.py:263`,
`:369`), which are the actions here. `Relays` and `Relay` are the handlers
reduced to whom they send to. The deduplication of `message_id` and a restart are
in `FeishuChat`, which has one loop per actor and so can afford them.

`ActorTable` is what the runtime promises its users: per address one actor that
handles its inbox in order, one message at a time, only while active, and loses
at most the message in work. `ActorRuntimeTable` reads such a table off the runtime:
the state of the object registered at an address, the queue of its mailbox, and the
message a running loop of that object has taken.

### FeishuChat

`table` is the order of `runtime.actors`, `actor` the state and the metadata of the
chat's own actor (`Main`) and of its threads' (`ack_msg_id`, `ack_reaction_id`,
`sent_msg_ids`), `session` the state of each one's downstream, `loop` what the
actor's loop awaits: the reaction it adds (`acking`), removes (`clearing`), or the
message it sends (`pushing`). A call to Feishu is `done`, `unheard` (carried out,
and the answer lost) or `failed`. `dedup` is the runtime's set of ids; when it is too
large an arbitrary half goes, since a Python set has no order. `typing` and `posted`
are what people see. `ran`, `handed`, `forgotten`, `dropped` and `excused` are
history: what was executed or handed to a session, which ids the set lost to pruning
or to a restart, which messages a restart took from a mailbox or a loop and no
delivery has brought back, and which reactions may stay because their slot was
overwritten, a call failed, or an actor was stopped. `MessageKept` speaks of every
message ever taken, its id remembered or not, except the `dropped`.

What the translation brought out, besides the findings:

* The last line that is not blank decides whether a text is a command. Of a quoted
  message only the first line is marked with "> "; its other lines count as lines
  of the reply, and only the reply's own text after them keeps them from deciding.
* `parse_command` raises on quotes that do not close, outside the `try` of
  `dispatch_from_adapter`: such a command is answered by nobody.
* `on_feishu_reaction` says it is broadcast "to all active feishu chat actors" and
  stops at the first; reaction events carry no id and are not deduplicated.
* A chat actor spawned for a chat the server did not know has no downstream: its
  messages get a reaction and go to nobody (the last disjunct of `MessageKept`).
* A second message overwrites the slot, so the reaction on the first stays for good
  (`excused` in `Take`).

Abstractions: `Restart` stops and starts the server with all actors saved
(`CCConnection` has the 30 seconds that may be missing); mailboxes and ids are lost,
as in the code. Ended actors stay in `table`, where nothing finds
them; a text is a sequence of kinds of lines. A message and a command of one chat
interact only through the table, so the commands' own steps are in
`SessionCommands`, and here `OpenThread` and `EndThread`.

### SessionCommands

`cc`, `thread`: the actors of a session with the number of the spawn that made
them; `tmux`: sessions with a client; `pinned`; `boot`: `on_spawn` tasks still to
run; `cmd`: the commands in flight, each at `create_thread_anchor`, `pin_message` or
one of the two stops. Any two commands may work on one session, and the client of any
session may register when it likes (`Launch`, `Register`). The anchor, the pin, tmux
and the unpin fail at will. The limit is checked before the awaits, so concurrent
spawns pass it, by at most as many as run beside one (`LimitOvershoot`, which counts the
spawns under way with the sessions alive).

Three things go astray in this code, and three history variables record them, read
by no guard: `late` are the threads that the second stop of a kill or of a rollback
ended, which looks its address up again after the first has awaited Feishu; `raised`
the spawns that found a live actor at an address after their awaits (`ValueError`) and
leave what they had made; `stuck` the anchors whose unpin Feishu refused. The
properties name them, each where it bites, and say that nothing else separates a
session from its thread or leaves a pin behind.

### CCConnection

A connection has an end at the client (`client[c].sock`) and one at the server
(`handling`), which see its end at different times; `unread` and `acked` are the
register frame and its answer. `_register` of the heartbeat calls `recv` while
`_message_loop` is already in it, which raises, so a heartbeat beats once per
connection: `heartbeat` goes from `asleep` to `over`. (The code passes
`proxy=None`, so it runs on websockets 15 or later, where this is an error.)
`Save` is the periodic save, `StopServer` a stop with a save or a crash,
`StartServer` loads what was saved as suspended. A healthy connection breaks, for
instance, when a blocking call of the event loop outlasts the keepalive.

### VoiceCall

`mode` is `e2e` (`session.py`, one dialogue service that hears and speaks) or
`split` (`session_split.py`, recognition and synthesis apart). A call is set up
(`registering`, `connecting`, `starting`, `greeting`), where a waiter is registered
only after its request was sent: an answer read in between is lost, and the set-up
of the first mode then times out. There is one query task per utterance: in the
first mode `new` and `opening` (the comfort sentence and its end), in both `asking`
(the question is about to go to the bridge), `sending` (the future is in `_pending`,
the send awaits), `sent` (the question is out, the send has not returned), `waiting` (in
`wait_for`), `answered`, then `injected` in the first mode and `saying`, `said` or `cut` in the
other, or `dropped`. A query stopped in its send leaves its future behind (`left`), and the next
reply completes it for nobody. `pending` is the question whose undone future is
`_pending`; `asked`
and `replies` are the session's side, which answers in order, late, more than once,
or never. In split mode the answers' audio goes through one queue that carries no
question: an answer cut short leaves its unread audio there, and the next reader
gets it (`OnlyCutsDisplace` says that nothing else displaces an answer). Of the
dialogue service only this is assumed: it announces an utterance (ASR_INFO) before
it ends it, and stops speaking then.

The set-up of the split mode, its `synthesize` and the bridge's first `recv` have no
timeout. `SetupEnds` is therefore about the first mode, and `QuestionSettles` about
questions that do not wait for the speech service.

### SidecarAccess

A peer is a person or a group chat. `member` is Feishu's truth and `changes` its
history, whose positions are event ids: `Deliver` hands any of them to the API at
any time, any number of times, or never. For a chat a change is the bot added,
removed (which no handler hears), or the chat disbanded; `handle_bot_added` skips the
managed groups, but a message in one reaches the plugin and gets an agent
provisioned. A worker is a request or the reconciler, on one peer at a time; each of
its database calls and gateway calls is one action. `bindings` counts what the
gateway holds for each peer, since provisioning, restoring and re-adding the bot
append without looking: adding the bot again duplicates the binding, and a batch after
a crash appends a second one. `torn` is history: the peers whose row and bindings
were written apart, by a crash between the two, by a patch while another operation was
between its own two, or by one whose row had changed since it was decided on; a
suspension or reset that nobody overtakes takes a peer out again. `work[w].conf` is
the copy `GetConfig` read, and a patch is refused when the two differ (`baseHash`). `round` is the reconciler's round
with the lists and rows it has read. `Faults` are a crash (tables survive, workers
do not), a member list cut short by an error (`reconciler.py:67`), and a refused
gateway call.

Two things the documents promise and this code does not do:

* A disbanded chat's agent is archived in the registry, and the gateway is asked for
  nothing (`feishu_events.py:173-182`): its binding stays, and nothing removes it later.
  `docs/prd/prd-feishu-openclaw-bridge.md:326` and
  `docs/prd/user-stories-feishu-openclaw.md:554` have agent and binding removed.
  `BindingMatchesAgent` therefore says nothing of an archived agent.
* A round of the reconciler never asks the gateway for its bindings, so an agent that
  was torn active and unbound stays so, although
  `docs/plans/2026-04-13-sidecar-config-manager-design.md:286` has the round repair
  missing bindings. What the same sentence says of superfluous bindings is
  `RevokedIsUnbound`, which fails.

Abstractions: bindings are counted and not ordered (a restore appends behind the
catch-all while provisioning inserts before it); definitions of agents, which only
grow, are left out; one request per member of a batch; no audit log, deny rate
limit, workspaces, or pruning of old event ids. No code of the repository forwards
Feishu's member events to the sidecar (`sidecar/main.py:100` expects them over HTTP;
`FeishuEventListener` is never started), which the models cover: delivery is never
owed, and convergence rests on the reconciler alone.

## 3. Runs

Deadlock is checked everywhere but in the runs of `VoiceCall`, where a call ends, and
of `FeishuChat`, where people stop writing.

| run | instance | shows |
|---|---|---|
| `actor_runtime` | one session (cc and thread actor), 1 stop at a time, 2 messages, error budget 2, 3 objects, 2 tasks | one loop per active actor, on its own mailbox, with a transport; order, no duplicates, a budget of consecutive failures, queued messages are handled; refinement of `ActorTable` |
| `runtime_late_stop` | 2 stops, 5 objects, 3 tasks, no messages | **fails**: a late `stop` cancels another actor's loop |
| `feishu_chat` | 1 thread, 3 messages with a command, 1 of the bot's, at most 1 id remembered, 4 events, 1 restart | a message reaches one session once and only a restart loses one, reactions are accounted for, actors get through their mail |
| `feishu_command` | same, no message of the bot's, no restart | **fails**: a redelivered command is executed again |
| `session_commands` | 2 sessions, 2 commands, limit 1, 3 spawns, clients at will | session, thread and pin live and end together, but for `late`, `raised` and `stuck`; rollback; kill; how far the limit is passed |
| `connection` | 2 processes of one session, 2 connections, 3 breaks | tables agree with handlers; active actors have a connection; clients return; the first heartbeat heals |
| `connection_ghost` | same, 1 break | **fails**: a detach after the first beat is not healed |
| `voice_call` | both modes, 2 questions, 2 replies in flight | pending future, mute, turns, displaced audio, clean-up; every query settles, the set-up ends |
| `voice_late_answer` | 2 questions, 1 reply | **fails**: a late reply answers the next question |
| `sidecar_access` | a person and a group, messages only, 2 requests and the reconciler, 2 changes, a crash | an event is applied once; nobody's binding is lost to another's patch; registry and bindings agree, but for the torn |
| `sidecar_converges` | 1 person with batches and resets, 1 request and the reconciler, 3 changes, 1 fault of any kind | permissions converge; registry and bindings agree, but for the torn |
| `sidecar_revoked` | 1 person, 1 request, 4 changes | **fails**: a revoked administrator stays bound |

The failing runs are findings, with the sentence of the repository they
contradict in `PROJECT.json`. The passing ones have up to 1.9 million distinct states
and take at most about two minutes each with two workers.

**Bounds.** Two actors are every role the runtime has: parent and child, relay and
receiver, cc and thread. Three objects are the two registered and one that a stop
holds or a spawn makes; three tasks instead of two add under 0.1 % of the states,
those in which no task is free to start; a second stop adds only what
`runtime_late_stop` is about. Two messages are the least that can be swapped, and a
budget of two the least that tells failures in a row from failures in all. In a chat,
three messages are one in the thread, one outside and a command; four events deliver
one of them twice between two others; remembering one id makes the set prune
at the second, and the restart forgets the rest. Two commands and two sessions are
every pair of commands, and three spawns let a name be killed and taken again while
the other session is in use; a limit of one is passed by the second of two, and one
session alive with two spawns under way would pass it too far. Two
processes of one address are what can take a connection from each other, and three
breaks a break of each and one of the server. Two questions are one interrupted or
cut and one next, which its reply or its audio can reach. In the sidecar a person joins and leaves, with a stale
event of each; two requests are the race, with the reconciler the third.

**Exceptions.** No run restricts how requests, commands or clients overlap. What the
code does not keep is in the models and is named in the properties: the threads of
`late` stops, the spawns that `raised`, the `stuck` pins, the mail `dropped` by a
restart, the reactions `excused`, the loops `robbed`, the peers `torn`. Each property so
excepted says that nothing else goes wrong. `runtime_late_stop` states one of them
without its exception, and fails: the loops a late stop takes. The docstring of `on_stop`
(`handlers/cc.py:89`), that threads are stopped when their session ends, has the
exception `late` in the same way. A group, and a second request, are in one of the
sidecar's runs; resets, batches and the other faults in the other, which is checked
for convergence too. The theorem about the bindings has no such split.

**Fairness.** All weak. Runtime: every loop task that can run does (asyncio). Chat:
each actor's loop runs and each call to Feishu returns (assumed: the client sets no
timeout of its own); no event is owed. Connection:
clients retry, heartbeats, handlers and clients run, the service manager restarts
the server (`deploy/`); nothing else is fair, so nothing has to break or to be asked.
Voice: the query tasks, whose wait has a timeout of 60 s and whose send to the bridge
is assumed to return, and in the set-up its start and its timeouts; the services owe
nothing. Sidecar: coroutines run and the reconciler
wakes up; Feishu delivers nothing.

## 4. Proofs

For any constants that satisfy the named assumptions (`RuntimeAssumption`,
`ChatAssumption`, `CommandsAssumption`, `ConnectionAssumption`, `CallAssumption`,
`SidecarAssumption`), without bounds on actors, clients, messages, commands,
questions, breaks or people. Two more are about the runtime: `PairAssumption`, that a
session and a thread are each other's only downstream (`spawn.py:71`, `:84`), which
only the order of messages rests on, and `IdleAssumption`, that the mark of an actor
without work is not a message.

* `ActorRuntimeProofs`: `TypeCorrect`, `OneLoopPerActor`, `OwnMailbox`, `NoZombie`
  and `ActiveHasTransport`, from `RuntimeInvariant`. The properties are not
  inductive by themselves. That a loop has its own mailbox needs that an object
  bears the address it is registered at (`AddrOK`), for `spawn` replaces the
  mailbox of an address, and cancels nothing; that a cancel leaves the other
  loops alone needs that a task is registered once (`RegOK`); that an ending loop
  or call changes an object with an address needs `OwnerOK` and `CallOK`. One
  lemma per operation; `StartLoopFacts`, `CancelFacts`, `PutKeeps` and their like
  state once what the shared operators do. `NoZombie` says exactly how a zombie
  can come about: a late stop (`robbed`), or shutdown. `BudgetOfFailures`, an action
  property, rests on `ErrorsOK`: what a loop has counted is never more than the
  failures its actor really had in a row, so the last of a full budget has the
  others before it.
* `RuntimeTableProofs`: `RuntimeImplementsTable`. The runtime's own operations are
  split over actions (a stop that awaits, a task that has not yet looked its mailbox
  up), so the proof first says of each shared operator what it does to the states,
  inboxes and works of the table (`SpawnTable`, `EndActorsTable`, `TakeTable`, ...), then of
  each action which operation of which address this is, or that it is a stutter
  (`SendInRefines`, `TakeRefines`, ...). The runtime's invariant is used throughout: that a
  loop takes from its own mailbox is what makes its `get` the head of the address's
  inbox, and that only one loop runs an object is what makes "the message in work"
  a function of the address.
* `RuntimeOrderProofs`: `LeaveInOrder`, over that table. `InOrderAtMostOnce` speaks of
  what addresses have pushed and is far from inductive: `OrderInv` adds what is on
  its way. What an address pushed has smaller numbers than what will leave from its
  inbox, and that smaller ones than what waits, or is in work, at the address that
  relays to it. This is why a message relayed by the first of two actors cannot pass
  another at the second, although both may be stopped, resumed and spawned again in
  between. Two addresses that relay to a third would break it, hence `PairAssumption`.
* `FeishuProofs`: `ChatTypes`, `HandOverOnce`, `ReactionsAccounted` and
  `NoMessageLost`, from `ChatInvariant`. That a message is handed over once needs
  that a message whose id was not dropped has one copy (`OneCopy`): in one loop, or at
  one place of one mailbox, until it is handed over, and none afterwards. That it is
  not lost with a stopped actor needs that it is with the actor of its thread or the
  chat's, the two whose session may be gone (`Placed`). `NoMessageLost` counts the
  ids that were forgotten too, and excepts only what a restart took from an actor. That a reaction is accounted
  for needs what the slot of an actor holds at each await of its loop (`SlotOK`).
* `SessionProofs`: `SessionTypes`, `BoundedOvershoot`, and from one invariant
  (`SessionInv`) `SessionsKeepThreads`, `ThreadsHaveSessions`, `NoPinLeft`, `KillsEnd`
  and `FailedSpawnRollsBack`, of every behaviour: commands overlap on one session and
  clients register as they may. The limit rests on a count (`LimitOvershoot`): sessions of
  the main chat and spawns under way are never more than the limit and the other
  commands. The others rest on numbers: that of a spawn under way is nobody else's
  (`NumbersOK`, `FreshOK`), so what bears it is its own; per session, the pair lives
  under one number unless a late stop or a raised spawn says why not (`PairOK`); per
  command, a stop holds the very actors it is to end, and a second stop begins only
  when both are gone (`StopOK`).
* `ConnectionProofs`: `ConnectionTypes`, `PushTarget` and `ActiveReachesClient`, from
  `ConnectionInvariant`. A disconnect removes an address's entry without looking
  whose it is; that an entry never points to a dead handler nevertheless needs
  that a connection is of one client and carries one address, ever (`SockOK`),
  in its unread frame too (`FrameOK`).
* `VoiceProofs`: `VoiceTypes`, `ReplyHasQuestion`, `Muted`, `Quiet`, `Displaced` and
  `InTurn`, from `VoiceInvariant`. Only the query of the last utterance runs, only
  while the user is silent and the browser has the call (`OneRuns`), and each mode
  keeps to its own states (`ModeOK`). Whose future the bridge holds needs that a
  query answered in its send has no undone future left (`AnsweredIsTaken`). As long as no answer was cut short, the unread
  audio is that of the text being played (`AudioOK`).
* `SidecarProofs`: `SidecarTypes` and `AppliedOnce`, from `SidecarInvariant`, which
  adds that whoever works, works on somebody, on a real event (`WorkOK`);
  `OwnBinding`, an action property that needs no invariant: only a patch changes
  bindings, and `baseHash` makes it a change of one; and `RegistryMatchesGateway`, of
  every behaviour, with its crashes and overlapping requests. Its invariant `AgentInv`
  says of everyone not torn (`Whole`) that registry and gateway agree, or that exactly
  one worker is between its two writes and what it has written will match the row it
  is to write (`Written`).

Only model-checked: liveness, which is out of the prover's reach (`QueuedIsHandled`,
`ActorsGetThrough`, `FirstBeatHeals`, `Reconnects`, `QuestionSettles`, `SetupEnds`,
`PermissionsConverge`).

## 5. Not modelled

* Message parsers, help and session lists, cards and their text: they format, and
  keep no state.
* The binary speech protocol, the audio itself, the web server and its page.
* The broadcast, configuration files, launcher scripts, tools and roles.
* Code nothing runs: `ConfigPatchQueue` is never constructed, `FeishuEventListener`
  never started, `ToolCardHandler` in no registry, and no registered handler returns
  a `SpawnActor`, nor a `StopActor` from `handle`. (The `StopActor` that the `on_stop` of
  `cc_session` returns is modelled, in `BeginStop` and in `StopSession`.)
* The `forward` handler: it reads `target`, the client sends `target_instance`, and the
  message goes to the empty address. It relays without state, so there is nothing to
  interleave; it is a hazard without a property.
* Of modelled parts: the legacy admin actions of the CC adapter, the cache of names of
  the Feishu adapter, workspaces, the audit log and the deny rate limit of the
  sidecar.

## 6. Plan

Done, in this order: the runtime, since everything passes through it; the commands
and the connection around it; the voice call and the sidecar, which are separate
programs; then the Feishu chat, the second voice mode, group agents, and the proofs
of all of these.

Next:

1. `SessionRestart`: `ActorRuntime` composed with the saves, crashes and reload of
   `app.py`: killed sessions that come back, threads without sessions.
2. `ConfigArrays`: bindings and agent definitions as ordered arrays, the catch-all
   among them, refining the counts of `SidecarAccess`.
3. Parsing and scope of commands as operators, checked against their documented
   grammar on bounded inputs.

Proofs: of the new modules, what their runs check. What is modelled now has no
safety property without a theorem.
