# VoxChain in TLA+

A verification project for the VoxChain system: citizens propose laws, the NCT
(the coordination node) opens one voting window at a time, the miners of the
network search a nonce for it, and a law whose window is mined becomes a block
of the chain. The modules are translated from the Python sources under
`src/pilar2-distribuido`; paths below are relative to it.

## 1. The system

| Part | Source | State it keeps | Operations |
|---|---|---|---|
| NCT coordinator | `nct-coordinator/nct/coordinator.py`, `queue_logic.py` | role, `_active` (window), `_deliberation` | proposals, nonces, tick, takeover, step-down |
| NCT failover | `nct/monitor.py`, `main.py` | last heartbeat, role | election after a heartbeat timeout, boot |
| Storage | `common/storage/redis_store.py` | everything durable, in Redis | one method per key; SETNX seal, Lua compare-and-append, Lua renewal |
| Messaging | `common/messaging/rabbitmq.py` | consumers | one callback at a time, ack in `finally`, tick between callbacks |
| Queue and turns | `common/queue.py` | none (pure) | `select_next_law`, quota, round robin |
| Deliberation rules | `common/blockchain/deliberation.py` | none (pure) | `resolve`, `all_answered`, defaults |
| Difficulty | `common/blockchain/difficulty.py` | ratchet: level and streak | `update`, `restore`, measures |
| Availability, proposers | `common/blockchain/availability.py`, `proposers.py`, `categories.py` | none (pure) | quorum of a law, who may propose |
| Blocks | `common/blockchain/block.py`, `chain.py`, `compression.py` | none (pure) | hash, seal, validation |
| Pool coordinator | `worker/worker_pkg/pool_coordinator/coordinator.py` | miners, fragments, challenges | `register_miner`, `get_next_task`, `submit_result`, purge, `tick` |
| Pool lease, election | `worker/worker_pkg/pool_coordinator/election.py` | lease and score in Redis | acquire, outrank, renew, release |
| Bully | `worker/worker_pkg/bully.py` | role, claim, election flag | claim by mini proof of work, coordinator announcement |
| Workers | `worker/worker_pkg/pool_worker.py`, `standalone_worker.py`, `miner.py` | task in progress | poll, mine, report |
| HTTP API | `voxchain_api/` | teams and decisions in Redis | teams, decisions, identity, queries |
| Identity | `common/identity/` | keys | signing, backup, WebAuthn |
| Front end, Pilar 1 miner, deployment | `voxchain-frontend`, `src/pilar1-minero`, `src/pilar3-despliegue` | | not part of the protocol |

How they interact. The API publishes proposals on RabbitMQ; the NCT leader
consumes them, and publishes challenges and closings; pool coordinators and
standalone workers consume challenges and answer with nonces. All the state that
outlives a process is in Redis, written with single commands: no method of the
NCT that needs several of them uses a transaction. Replicas of the NCT learn of
a dead leader by the absence of heartbeats and arbitrate with a lease in Redis.
Workers write decisions and status that the NCT reads.

What is hard. A process may die between two Redis commands of one method; two
processes may believe they lead; a message handler that raises is acknowledged
and forgotten; the Redis client sends again a command whose answer was lost; a
proposal is delivered again if its handler died; deadlines race nonces. Every
such place is listed, at its line, under `hazards` in `PROJECT.json`.

What makes each part correct, in a sentence:

- *NCT*: no law is lost on its way to a verdict; a window gets one block and one
  final verdict, the one the chain tells; the chain does not fork; only one
  window or deliberation at a time; everything opened ends.
- *Failover*: at most one process renews; a dead leader is replaced.
- *Queue*: no law that can be mined is passed over for ever; no author exceeds
  its share of turns while another one waits.
- *Deliberation*: the outcome is that of the decisions and defaults; a law
  nobody answers is announced a bounded number of times.
- *Difficulty*: never drops by more than one step per `decay_windows` measures,
  also across a failover, and not because somebody leaves or says no.
- *Pool*: every fragment of the nonce space is mined, or given out again.
- *Pool lease, Bully*: one coordinator per pool in the end; a designated one
  takes over from an elected one, and not the other way round.
- *Teams*: the indices of Redis agree; every miner ends up working as its place in
  a team says.
- *Enrolment*: every pod of a miner gets a token that binds it to its owner.

## 2. The modules

| Module | Models | Composed with |
|---|---|---|
| `LawLedger` | what the network promises to a reader of its record (abstract) | |
| `NctCoordinator` | the life of laws and windows under crashes, errors and two leaders | implements `LawLedger` |
| `VotingRules` | pure rules: turns, quorum, convocation, difficulty, outcome | |
| `Parliament` | the decisions `NctCoordinator` leaves open, made by those rules | extends `VotingRules` |
| `PoolCoordinator` | the fragments of a pool's window, in three threads | |
| `PoolLeadership` | who coordinates a pool: the lease, its election, the bully | |
| `WorkerTeams` | teams in the API and the processes of the miners that follow them | |
| `NodeEnrollment` | how the pods of a miner come to be known as its owner's | |
| `NctCoordinator_proofs`, `Parliament_proofs`, `PoolCoordinator_proofs`, `PoolLeadership_proofs`, `WorkerTeams_proofs`, `NodeEnrollment_proofs` | theorems about the module of that name | each extends its module |
| `NctLeader_proofs` | theorems about `NctCoordinator` while one process leads at a time | extends `NctCoordinator_proofs` |
| `NctQueue_proofs` | the theorem that no law is left behind | extends `NctLeader_proofs` |
| `MCNct`, `MCParliament`, `MCPool`, `MCLeadership`, `MCTeams`, `MCEnrollment` | values of the constants for TLC | |

Where two modules meet. `NctCoordinator` has every command of a handler and
leaves open which law is chosen and how a pause ends; `Parliament` has those
choices and takes a handler as one step. `PoolCoordinator` takes the command of a
pool as given and taken at any time; `PoolLeadership` says by whom. `WorkerTeams`
takes processes as started by the orchestrator; `NodeEnrollment` has the pods.

What the plan has left: a clock for the NCT lease (`NctCoordinator` says that it
expires, not when); the standalone miner, which abandons a window that closes;
several replicas of a pool coordinator serving the same miners.

## 3. NctCoordinator

### State

Redis: `lease` (`nct:leader`), `status` and `action` (`law:<id>`), `queue`
(`law_queue`), `cooldown`, `counter` (`window_counter`), `window`
(`window:<id>`), `pointer` (`active_window`), `sealed` (`window_sealed:<id>`),
`chain` with its blocks, `delib` (`nct:deliberation`). A window id is its number;
the result `"open"` is the absence of the field. RabbitMQ: `inbox` (proposals not
acknowledged), `challenged` (challenges published). A process: `up`, `leader`,
`active`, `held`. What runs in it: `todo`, `ctx`, `hand`, `tip`. `overdue` and
`ripe` stand for the clock.

### Steps

A process has one thread: RabbitMQ callbacks and then the tick. A handler is the
sequence of commands it still has to send, `todo[n]`, in the order of the code;
each command is one step, so a crash or another process may come between any two.
Commands named like methods (`maybe_open_window`, `check_deadline`,
`retomar_ventana`...) read the state when they are reached and are replaced by
what that method sends. Operators such as `CloseSealed`, `OpenWindow` or
`StartDeliberation` are those scripts, one per branch of the code.

| Code | Model |
|---|---|
| `main` | `Boot` |
| `monitor.tick`, `become_leader` | `BecomeLeader` starts `Takeover` |
| `tick`, `_maybe_publish_heartbeat`, `step_down` | `TickStarts`, `RenewLeadership` |
| `handle_proposal`, `_enqueue_*` | `HandleProposal`, `EnqueuePromulgacion`, `EnqueueDerogacion` |
| `handle_nonce_response`, `_seal` | `HandleNonceResponse`, `TrySealWindow`, `Seal`, `LastBlockHash`, `AppendBlock`, `CloseSealed`, `CloseInterrupted` |
| `maybe_open_window`, `start_deliberation`, `open_window` | `MaybeOpenWindow`, `StartDeliberation`, `OpenWindowNumbered`, `SaveWindow`, `OpenWindow` |
| `check_deliberation`, `_resolver_deliberacion` | `CheckDeliberation`, `Resolve*` |
| `check_deadline`, `_expirar_sin_quorum` | `CheckDeadline`, `CloseExpired`, `CloseWithoutQuorum` |
| `_retomar_ventana_en_curso`, `_devolver_ley_de_ventana` | `RetomarVentana`, `RetomarVentanaFails`, `GiveBack` |
| `_recuperar_deliberacion_huerfana` | `RecuperarDeliberacion`, `RecuperarDeliberacionFails` |
| `_wrap_resolving` (ack in `finally`) | `Acknowledge`, `HandlerError` |
| `connect_redis` (retries) | `TrySealWindowTwice`, `AppendBlockTwice` |

Choices left open, because they do not depend on the modelled state: which queued
law `select_next_law` picks and whether it has a quorum; the outcome of a
deliberation; whether an expired window had a quorum; which nonces arrive. The
nonces enumerated are the valid ones: the others change nothing. A law's
action is read in the step that takes the window number. The TTL of the seal
(3600 s) is longer than any window, so a seal never expires. The cooldown is the
one of new proposals: discarded text hashes are not kept.

### Bounds and environment

`MaxWindows` bounds the windows, `MaxCrashes` the crashes, `MaxOverlaps` the leases
that expire under a live leader, `MaxErrors` the Redis errors and lost answers.
`TornCrashes = FALSE` lets a process die only between handlers, which separates
what the recovery code promises from what a crash inside a handler breaks.
`CooldownNew` is 1 or 2, so that within two windows a citizen is sometimes
rejected and sometimes not. Two windows are enough for a window to be interrupted
and the next one to be confused with it; two processes for a failover and a
split brain; three proposals for a promulgation and two competing repeals. Two
crashes let the process that recovers from the first one die too.

### Runs

| Run | Environment | What it shows |
|---|---|---|
| `failover` | crash between handlers, deliberation on | `NoLawStranded`, `OneActivity`; `WindowCloses` and `DeliberationEnds` under fairness; `TypeOK` |
| `torn` | two crashes anywhere | `OneBlockPerWindow`, `VerdictFinal`, `SealedNeverExpires`; `SealedWindowCompletes` under fairness |
| `splitbrain` | two leaders | `ChainLinked`, `VerdictIsInChain`, `BlockMatchesWindow`; `KeepsLedger` |
| `errors` | a crash anywhere, an error in a handler or takeover, a primary | `OneBlockPerWindow`, `StatusIsLastVerdict` |

Run `double_block` (two leaders) states what two comments say and the code does not
do: the takeover releases the seal, so a leader that stalled between the SETNX and
the read of the tip appends a second block for a window that has one already. The
compare-and-append does not help: the stale leader reads the new tip.

The passing runs separate environments because some properties hold only in some.
With two processes, `CooldownNew = 2`, `MaxWindows = 2` and `MaxOverlaps = 0`, TLC
violates:

- `NoLawStranded` with `Primary = {}`, two laws, no deliberation and one crash
  inside a handler: `open_window` loses a law between its second and third write
  (`coordinator.py:731`; `AGENT.md:269` says it is not lost);
- `ExpiredWasChallenged` in the same environment: a crash before
  `publish_challenge`, the window is taken over, nobody mines it, the law is
  discarded (`coordinator.py:773`);
- `NoLawStranded` with `Primary = {n1}`, two laws, deliberation and one crash
  between handlers: a primary that finds the lease free at boot leads without
  `become_leader`, and the deliberation it left is not recovered (`main.py:70`;
  `AGENT.md:254`);
- `SealedNeverExpires` with `Primary = {}`, one law, no crash and one lost answer:
  the client repeats the SETNX, the first valid nonce counts as late, and the
  sealed window expires (`redis_store.py:88`);
- `NoLawStranded` with `Primary = {}`, one law, no crash and one Redis error: the law is
  saved, not queued, and its message acknowledged (`coordinator.py:378`);
- `VerdictFinal` with `Primary = {}`, one law, no crash and one Redis error after the block is
  appended: the leader still believes the window open, and `check_deadline`, which does
  not look for a block, expires it and discards the law that is in the chain
  (`coordinator.py:1075`); a crash there is recovered by the takeover.

With two leaders none of `OneActivity`, `OneBlockPerWindow`, `StatusIsLastVerdict`,
`VerdictFinal`, `SealedNeverExpires` and `NoLawStranded` holds.

`AGENT.md:188` says that any promulgated law can be repealed: once a repeal expires
without being mined the code marks its law `discarded`, as `CloseExpired` does here, and
`_enqueue_derogacion` accepts no other.

### The ledger

`LawLedger` is the record without the processes: `window`, `chain` and the
`verdict` on each law, and four steps: a window is opened (once, and what it votes
on does not change), a block is appended (it follows the last one and says what
its window says), a window is closed (success needs its block), a law is judged (in
force, or repealed, needs its block). `NctCoordinator` maps to it with `window` and
`chain` as they are and `LawVerdict`, what the status of a law says of it, as
`verdict`: a law waiting, in deliberation, in a window or discarded has none.
`KeepsLedger` is the refinement: TLC checks it with two leaders, and it is proved
for every instance. It is what survives of the properties above when leaders
overlap, handlers tear and answers are lost: a second block for a window is a step
of the ledger, an invented verdict or a window opened twice is not.

### Fairness

`FairSpec` assumes that a handler in progress goes on (`WF` on its commands; one
thread, Redis answers), that an idle leader's tick runs again and again (`SF`:
`start_consuming` calls it after every batch of messages, whatever they are), that
dead processes are restarted (the orchestrator), that a dead leader's lease
expires (its TTL), that an idle follower that finds it free becomes leader, and
that clocks reach deadlines. It assumes nothing of citizens and miners: proposals
and nonces may never come.

## 4. PoolCoordinator

One process of a pool and the miners it serves
(`worker/worker_pkg/pool_coordinator/coordinator.py`, `server.py`, `pool_worker.py`).

### State and steps

Three threads share the object: the one that consumes RabbitMQ and runs the tick
(`handling` says what it is in the middle of), the HTTP server, which answers one
request at a time, and the auto-miner (`submit[t]` says where each of these two
is inside `submit_result`). A section under `_lock` is one step; so is each
access to `_solved` and `_cerradas` outside it. The other variables have the
names of the code: `pending`, `assigned`, `registered` (the keys of `_miners`),
`counter`, `solved`, `closed`, `standby`. `mid` and `task` are the miners'.
`opened`, `open` (`active_window` in Redis), `overdue` and `feed` (the exclusive
queue of challenges and closing notices) are the NCT as the pool sees it.
`published`, `divided` and `swept` are history, for the properties.

| Code | Model |
|---|---|
| `handle_challenge` | `HandleChallenge` (checks, other windows discarded), `DivideWindow` (second section) |
| `handle_window_closed` | `HandleWindowClosed`, `DiscardClosed` |
| `tick`, `_purge_stale_miners`, `_drop_inactive_windows` | `PurgeStaleMiners`, `Lead` |
| `register_miner`, `handle_heartbeat`, `get_next_task` | `Register`, `Heartbeat`, `RequestWork` |
| `_tomar_fragmento` | `Take`, `TakeNothing` |
| `submit_result` | `SubmitResult` (the check), `MarkSolved`, `DiscardSolved`, `PublishNonce` |
| `_auto_mine_loop` | `AutoTake`, `AutoFinish` |
| `pool_worker.run` | `Register`, `Heartbeat`, `RequestWork`, `FinishFragment`, `MinerRestarts` |

Left open: the order in which pending fragments are given; whether the policy of
the team takes a window; which miners are late with their heartbeats (a purge
may take any of them, alive or dead); who holds the lease (`Lead` follows it, and
drops the inactive windows when the process takes command). Only the deadline of
the open window is followed. A closing notice may be lost: the NCT ignores its
failure. `standby` is read in the step of the section that follows it.
A restart loses everything, and the queue is a new one; the miners keep their
identity and what they have in hand.

### Runs and bounds

| Run | Environment | What it shows |
|---|---|---|
| `pool` | two miners, two windows of two ranges, two identities | `RangeCovered`, `NoWorkForClosedWindow`, `OneWindowAtATime`, `OneNoncePerThread`, `TypeOK` |
| `pool_nonce` | one miner, one window, a restart, a lost answer | `NonceIsSent` under fairness |

Two windows are needed for the work of one to be confused with the other, two
ranges for one to be with each miner or with the auto-miner. In `pool` both
ranges of the first window hold a nonce, so that two threads cross in
`submit_result`; in `pool_nonce` it is in the last range, so that it must be
handed over after the first. The two miners of `pool` are symmetric.

`RangeCovered` says that no range of the open window is forgotten whoever falls,
as long as the coordinator does not restart and no answer is lost. With either it
fails, and the model shows how:

- the answer of `GET /work/next` is lost: the coordinator believes the miner has
  the fragment, the miner asks again, `_assigned` is overwritten and nobody sweeps
  the first one (the comment in `get_next_task` takes for granted that a miner
  asks only after it has swept);
- the coordinator restarts and `_miner_counter` starts again: a miner that kept its
  identity and one that has just registered share `<pool>-miner-1`, both
  heartbeats are accepted, and the fragment of one overwrites that of the other.

The nonce is still found if another pool sweeps the range; otherwise the window
expires.

### Fairness

The threads go on (`WF` on the sections of the message thread, on `submit_result`,
on the auto-miner, whose loop never ends). The server attends a miner that waits
for it, however often others come first (`SF` on `FinishFragment`: the accept
queue is in order). The tick runs every second and in the end purges the
identities nobody reports for (`SF`). Nothing is assumed of the miners
themselves: they may never register, or restart for ever; the auto-miner sweeps
what they leave.

## 5. Parliament and VotingRules

`VotingRules` has the pure code: `SelectNextLaw` (`common/queue.py`: quota, then
round robin, then the oldest), `EligibleWorkers`, `HasQuorum` and `Convoked`
(`availability.py`, `deliberation.py`), `Biggest`, `DifficultyFor` and `Update` (the
ratchet of `difficulty.py`), `Resolve` and `AllAnswered`. A population is what the NCT
reads of Redis: who reported lately, and the policy and default answer of each
team and standalone. Powers are attempts in the target time, and the number of
zeros the greatest `n` with `Base^n` at most the power: the logarithm of the code.

`Parliament` is the leader that applies them. `nct` holds what is in Redis (status,
queue, last author, recent turns, ratchet per area, deliberation, answers, silences,
discarded texts) and what its leader remembers (`remembered`, `known`); `network` is
the miners as they are and `cached` what the leader last read of them. A handler is
one step and ends, as in the code, in `maybe_open_window` (`EndsIn`).

Within that step the population is read several times, as the code does: `_hay_quorum`
reads it for each law of the queue (`coordinator.py:463-507`) and `start_deliberation`
once more for the law it announces (793). Each read finds the cache, until this is some
seconds old, and then Redis, which may fail (`Views`, `Looks`); one that works fills the
cache (`Refreshed`), and a new leader has none. So the view with which a law had its quorum
and the one with which its units are convoked may differ. Measuring the difficulty may
fail too (`measured`; `_n_para_convocados`, 664-667): the last known one stays.

| Code | Model |
|---|---|
| `handle_proposal` | `HandleProposal` |
| `maybe_open_window`, `start_deliberation`, `open_window`, `_consumir_turno` | `MaybeOpenWindow`, `Announce`, `OpenFrozen`, `OpenMeasured`, `ConsumeTurn` |
| `_n_con_trinquete`, `_n_zeros_para_esta_ventana`, `_n_para_convocados` | `Measure`, `MeasureNetwork`, `MeasureConvoked` |
| `check_deliberation`, `_resolver_deliberacion` | `CheckDeliberation`, `ResolveDeliberation` |
| `_cerrar_ventana_sellada`, `check_deadline` | `WindowSealed`, `WindowExpires` |
| `become_leader`, `_recuperar_deliberacion_huerfana` | `Failover`, `RecoverDeliberation` |
| `decide` (API) | `ValidateDecision`, `WriteDecision` |
| `_poblacion`, its cache and its failures | `Views`, `Looks`, `Reads`, `Refreshed` |

Run `parliament`: three laws of three authors in two areas (one of them a repeal), a
team of two that accepts by default and vetoes one law, a standalone that mines
one area and has no default; the other population has lost the team. Both modes
(deliberation or direct windows). Two events among changes of the network, failovers,
handlers in which a read or a measure fails, and decisions: one to make a value stale and
one to use it late. There are 198,079 states. The
history starts with an author over its quota, so that quota, round robin and age
disagree. `Sample = 3`, `QuotaLimit = 1`, `DecayWindows = 2` and `MaxSilent = 2` are
small so that each is passed and fallen short of. `NobodyStarves` bounds the turns that younger
laws take; `DifficultyFallsSlowly` ties the ratchet to the measures that justify it;
`AnnouncedToSomebody` compares two computations of the code, who is counted for the quorum
and who is convoked: they agree on one view, so a law is announced to nobody only if the
view changed, or Redis failed, between the two reads of the handler (`blind`). It speaks of
networks with a quorum by category (`ByArea`, `MinWorkers > 0`): with the quorum switched
off or counted over all areas the code announces to nobody whenever nobody mines the area.
`PullingOutDoesNotCheapen` compares the window with the measure at the announcement, when
there was one; `EveryLawDecided` is liveness. History variables (`measures`, `passed`, `measured`,
`blind`) are for the properties only.

Four behaviours the model shows and no document rules out: the miners may go away between
the quorum and the announcement, so that a law pauses with nobody to answer; when the population
cannot be read the hashrate of an announcement counts as 0, a low measure for the
ratchet; an answer validated in time and written after the resolution gets a 200 and
counts for nothing, or for the next pause of the same law; the ratchet counts
announcements and not windows, so a law announced again in silence lowers it too.

Fairness: the tick runs, pauses and deadlines pass, and the cache expires and Redis answers
before the tick has gone on without them for ever (`Tick` has the handlers whose reads are all
of the network as it is). Miners need not find anything, nor anybody answer.

## 6. PoolLeadership

`worker_pkg/pool_coordinator/election.py` and `worker_pkg/bully.py` with the parts of
`PoolCoordinator.tick` that call them. `lease` and `claim` are the keys of Redis, `inbox`
what a node has to read from the exchange, `node[n]` its process. A designated
coordinator contends: `Contend`, `SeeClaim`, the proof of work (any time until `Win`),
`SetLease`, `Collect`. A node of a pool-auto goes `Elect`, `Solve`, `Publish`, `Receive`,
and is candidate, miner or coordinator. Whoever leads renews with a GET and then a
SETEX: at once (`Renew`), or with a pause in between (`PauseInRenewal`, `RenewLate`).
An election within an epoch, a renewal within the TTL and a heartbeat within its
timeout are the normal case: that one of them takes longer is one of `MaxEvents`, as are
crashes and stops. The exchange delivers to all queues in one order; a node boots
when nothing is left to read (a boot takes seconds, a message milliseconds).

Run `leadership`: two replicas of a designated coordinator, a pool-auto of two, and one
of each; three events, enough for a leader to be paused, to be replaced meanwhile and
for the one that replaced it to fall. `GivesWayToDesignated`: no late renewal and no
release takes the command from a designated coordinator but another one.
Two readings of the lease count, the one at hand and the one a paused renewal made before.
`PoolIsLed` and `MinersJoin`: after the last event one leads for good and the others
follow. With three nodes and no event TLC confirms the first two (89,188 states)
and violates `MinersJoin`: a node that boots elects itself before it hears the leader, a
third follows it, it retires, and the third hears the heartbeats of the leader without
ever changing whom it mines for (`bully.py:134`; `docs/workers.md:425` says that miners learn
the address of the coordinator again in each election). With `HasRedis = FALSE`,
`PoolIsLed` is violated: two coordinators without a lease for ever, which
`docs/workers.md:472` admits.

Run `bully_stuck` (a violation): `_election_in_progress` is cleared only by publishing a
claim, so a node that lost an election and then its coordinator, never elects itself.

Fairness: each process goes on with what it can do, messages are read, timeouts and
leases pass, what is down is restarted (unless `Restarts = FALSE`).

## 7. WorkerTeams

The requests of `routers/teams.py` with the writes of `teams_store.py` and the orders of
`worker_control.py`, and `WorkerManager` of `worker/main.py` in each miner. A request is:
its checks (`Ask...`), its write (`Write...`, a pipeline), an order for each miner
(`Dispatch`: the recorded mode and a command on an exclusive queue, lost if nobody
listens), the voting policy (`PushPolicy`, a GET and a SET in one step) and its end
(`FinishShown`, with `_hydrate`, which corrects the addresses; `FinishLeave`,
`FinishDissolve`). `AskPolicy` is `set_pool_policy`: without categories it keeps the agenda that
is stored, with them it stores those of the owner (`workers.py:1150`). A process takes its lock
(`SwitchCommanded`, `SwitchReconciled`), stops what it runs and starts another mode (`Start`,
`StartFails`); commands are threads of their own (`waiting`), the order it compares with is
`seen`. `Boot`, `Crash`, `Report`, `SyncPolicy` and `StatusExpires` are the rest of its life. A
citizen has one miner, which stands for it.

`Api` is a place for each request that may be in progress at once, in one replica of the API or
in several: a handler awaits the orders it publishes and the policy it pushes
(`worker_control.py:191-199`, `234-240`), and meanwhile its replica takes up another request.
Nothing in the code keeps requests from crossing.

Run `teams`: two miners and two teams, one request at a time, two requests, one event;
teams are founded with an agenda (those without one are there from the start), decisions set
by hand are refusals, and the first state is an empty system, or one where a team has just
been founded, so that three requests in a row are reached. There are 696,760 states.
`RosterAgrees` and `PolicyIsAgenda` relate the keys a request writes in several steps.
`PolicyIsAgenda` holds until the owner sets an agenda by hand (`byHand`): from then on the policy is
what the owner said, and the next agenda of a team replaces it. The comment at `models.py:194`
says that the flow of teams writes the agenda and not the user by hand, but
`set_pool_policy` takes both. `MinersFollow` is liveness: in the end each miner runs the mode of
its place in a team, with the address last recorded for it, and a coordinator votes with the
policy recorded. That this address is the one its coordinator has by now is another
question (`MembersShareUrl`, below).

What the constants show besides: with `Api = {a1, a2}` both safety properties are
violated (`TeamsStore` checks and then writes: a join crosses a dissolution, one owner
founds twice); with `BrokerFails = TRUE`, `MinersFollow` (a mode is set before the
connection is made, and nothing tries again); `MembersShareUrl` is violated with two
workers, one team and two events, because `join_team` stores the address it resolves and corrects
nobody (`docs/workers.md:744`), and holds when it does not store it.

Fairness: requests are finished, processes are started and go on.

## 8. NodeEnrollment

`voxchain_api/routers/workers.py` on Kubernetes and `worker_pkg/identity.py`. Redis: `registered`,
`nodes` (the keys bound to the miner), `slot` (the two single-use tokens). Kubernetes:
`secret` (the tokens, mounted as files in the pods), `deployment` (its replicas). A pod
reads its files, tries each token (`Enroll`), and waits before the next round. A request
is split where it calls Kubernetes, and where it reads and deletes a single-use token:
`_consume_enrollment_token` is a GET and then a DELETE (`workers.py:126-137`; `Enroll`, `Spend`), and
another request may come in between. A token is a value nobody has; one that nobody has
any more may be taken again, which keeps the instance finite: `EnrollmentAssumption` asks
for more tokens than the Redis keys, the Secret, the requests and the pods' files can hold,
so that there is always a new one (11 for two pods and two requests).

Registering again a miner that is deployed is allowed, as in the code (`disturbed` has
`"again"`): Kubernetes answers 409, and the clean-up deletes the Secret and the token of the
deployment that runs, although the comment at `workers.py:1283` calls it the way to recreate the
deployment. Registering once more creates a Secret, is answered 409 for the Deployment, and
deletes it again.

Run `enrollment`: two pods, two requests in progress at once, three requests of the owner in any
order, one failed call, death, restart or early expiry; 213,625 states.

- `DeploymentHasSecret`: whatever fails and whoever is served meanwhile, a deployed miner has its
  Secret; only registering it again takes it away, and that always does.
- `ValidIsInSecret`: between requests a token that Redis accepts is where the pods will read it.
  It excludes what happens after a removal or a second registration, and tokens deleted
  in place of another (`"crossed"`): two pods present the same token and both are accepted; once
  the first has deleted it a refusal issues a new one, which the DELETE of the second takes
  away; another refusal issues a third, and of the last two the older one may be written to the
  Secret last. TLC found this in 25 steps with four requests at once, five pods and three deaths;
  with the bounds of the run it is out of reach.
- `NoNeedlessReissue`; `PodsGetBound`: every pod that goes on is bound in the end, unless its miner
  is removed or registered again.

The safety properties were also checked with two events (1,215,165 states).

A call to Kubernetes that raises had no effect, and the clean-up after it works. An expiry that
nobody waits for is free; one that comes too early is an event (the TTL is 900 s).

Fairness: requests are finished, a pod keeps trying and is served (`SF`: the API has
other clients), files are refreshed, tokens expire.

## 9. Proofs

`NctCoordinator_proofs` proves, for every value of the constants allowed by
`ConstantsAssumption` (any number of processes, laws and windows, any bound on
crashes, overlaps and errors, primaries or not):

- `TypeCorrect`: `Spec => []TypeOK`;
- `ChainNeverForks`: `Spec => []ChainLinked`;
- `VerdictsAreInTheChain`: `Spec => []VerdictIsInChain`;
- `BlocksMatchWindows`: `Spec => []BlockMatchesWindow`;
- `Refinement`: `Spec => KeepsLedger`, that is, `NctCoordinator` implements `LawLedger`.

None of the invariants is inductive alone: between the append and the status there are
commands that only exist in `todo`. The inductive invariant `IInv` says that each
command left is *justified*: one that names a window names a saved one, a status
"in force" or "repealed" and a result "success" have their block already
(`TodoOK`). Windows are never unsaved and blocks never removed, so commands stay
justified whatever other processes do (`CommandsGrow`). `Numbering` says that a
process about to save a window is the only one with that number, so saving never
overwrites a window that has blocks, pointers or commands. One lemma per group of
actions proves that `IInv` is kept; `QuietStep` and `CalmStep` carry what most
steps leave alone. The refinement needs no more: `LedgerNext` shows that a step from a
state of `IInv` is a step of the ledger or none. `save_window` opens a window because
`Numbering` says its number was nobody's; `append_block` follows the tip because the
script compares it; `set_window_result` and `set_law_status` are justified commands;
every other action leaves the record alone (`QuietRecord`). TLC checked `IInv` on the runs' instances before it was proved.

The other properties of `NctCoordinator` hold only in some environments (section 3). Each
theorem names its own; TLC has a counterexample there without any one of the hypotheses, and
nothing else is assumed: any number of processes, laws, windows and crashes. `OneLeader`
(`overlaps = 0`) is that no lease expires under a live leader, `NoErrors` (`errors = 0`) that
no Redis command fails. They are hypotheses about a behaviour, not about the constants, so a
property holds up to the first overlap or error of any behaviour.

| Theorem | Property | Under |
|---|---|---|
| `OneActivityAtATime` | `OneActivity` | `OneLeader` |
| `OneBlockEach` | `OneBlockPerWindow` | `OneLeader` |
| `StatusIsTheLastVerdict` | `StatusIsLastVerdict` | `OneLeader` |
| `SealedWindowsNeverExpire` | `SealedNeverExpires` | `OneLeader`, `NoErrors` |
| `VerdictIsFinal` | `VerdictFinal` | `OneLeader`, `NoErrors` |
| `NoLawIsStranded` | `NoLawStranded` | `OneLeader`, `NoErrors`, `Primary = {}`, `~TornCrashes` |

The first five are in `NctLeader_proofs`. With one leader nobody else writes while a handler
runs (`Alone`), so an invariant may speak of the order of its commands. `InOrder` says
which command may be left after which (`MayFollow`); one lemma per script of the
coordinator proves that it is in order, also where one is spliced into another. On top of
that order, `LInv` says what each command left finds true (`Timely`: a block is appended to the
active window, which has a seal and no block; a status "in force" is that of the last
block), that the window a process believes open is the active one (`Memory`), and that the active
window has no block or the last one (`Record`), which is why looking at the last block is
enough for `_retomar_ventana_en_curso`. Crashes cost nothing here: they drop what is left, and
`LInv` asks for nothing to be left. `EInv` adds what an error would break: a
window that a process believes open has neither seal nor result unless its closing is still
to come (`StillOpen`, `Undone`). An exception in a handler leaves the belief and
drops the closing, and that is how the counterexamples of section 3 come about.

`NctQueue_proofs` proves `NoLawIsStranded`. `QInv` reads the scripts the other way round: whoever
is to take a law from the queue, the deliberation or the window is also to put it somewhere
else later in the same handler (`Complete`), so at every step a law on its way is in
one of those places or about to be (`AllPlaced`). `Knows` is the recovery: a leader knows
the window and the deliberation Redis speaks of, or has still the command of the takeover that
will find them, so it never opens anything over them. Both extra hypotheses are needed:
a crash inside a handler drops the second half of a pair, and a primary that finds the lease free
leads without the takeover. The instance of run `failover` satisfies all four. The
theorem does not use that a proposal may still be in the inbox, which `NoLawStranded` allows.

TLC checked each of the three invariants before it was proved: `LInv` and `EInv` on 1,538,094 states (two
processes, a primary, deliberation, a crash anywhere and an error, each invariant under its
hypotheses), `QInv` on the instance of `failover` (83,268 states) and on one law proposed
twice with two crashes (198,724 states).

Of `NctCoordinator` only the liveness properties are only model-checked.
`ExpiredWasChallenged`, which a crash inside a handler breaks, is in no run and not proved.

`PoolCoordinator_proofs` proves every safety property of `PoolCoordinator`, for
any number of miners, windows, ranges, identities, restarts and lost answers:

- `TypeCorrect`, `RangesAreCovered` (`RangeCovered`), `ClosedWindowsAreForgotten`
  (`NoWorkForClosedWindow`), `WindowsAreNotMixed` (`OneWindowAtATime`) and
  `NoncesAreSentOnce` (`OneNoncePerThread`).

Its inductive invariant has three ideas. *Order* (`InOrder`): challenges are
queued in the order of their windows and every window somebody has a fragment or
a nonce of is older than all of them, so a challenge is always of a new window
(`ChallengeIsNew`). *The gap* (`Dividing`): between the two sections of
`handle_challenge` the coordinator has no fragment at all, so nothing of another
window can slip in, and the new window cannot be won or closed meanwhile.
*Custody* (`Kept`, `HandOut`, `Identities`): a fragment a miner has stays in
`_assigned` until the same miner asks again, which it does only after sweeping it;
this needs distinct identities and answers that arrive, which is why
`RangeCovered` excludes restarts and lost answers. `KnownStep`, `StartedStep` and
`FeedStep` say once what each step leaves alone. `NonceIsSent` is liveness and is
only model-checked.

`Parliament_proofs` proves every safety property of `Parliament`, for any number of
laws, authors, areas and workers and any populations, histories and bounds that
`RulesAssumption` and `ParliamentAssumption` allow:

- `TypeCorrect` (`TypeOK`), `QueueIsFair` (`NobodyStarves`), `SomebodyIsCalled`
  (`AnnouncedToSomebody`), `PriceIsFrozen` (`PullingOutDoesNotCheapen`) and
  `RatchetHolds` (`DifficultyFallsSlowly`).

All of them allow each read of a handler to find something else. `SomebodyIsCalled` is that
`HasQuorum` on a view implies that somebody is convoked on that view (`QuorumConvoked`), and that
an announcement is not `blind` only if it saw the view of its quorum (`AnnounceOK`).

A handler is a function of `nct`, so the invariant is a predicate `StateOK(s)` of that
record and there is one lemma for each function. `NobodyStarves` needs to know *why* a law
was passed over: `PassedOK` says that none of the last `passed[l]` turns was its
author's, so that after `Patience` of them the author is over no quota and did not take
the last turn; `SelectedLaw` says the same of the law that is chosen and those ahead of
it. `RatchetOK` ties the counter of low measures to the measures themselves, and
`PriceOK` what was frozen to the measure taken then. That `Min`, `Max`, `First` and
`Biggest` return what they should would be inductions over data, which the provers cannot
instantiate; `Least` gets a least element from the well-foundedness of strict
inclusion on the finite sets `0..x` instead.

`WorkerTeams_proofs` proves `TypeCorrect` for any number of requests in progress at once, and, in
the behaviours where no two of them are (`OneAtATime`),

- `RosterHolds` (`RosterAgrees`) and `PolicyFollows` (`PolicyIsAgenda`: until the owner sets another
  agenda by hand).

Both properties speak of a system at rest. `RInv` says what is true in between: the indices
agree at every step (`Roster`, each write is one pipeline), what a request checked
still holds when it writes (`Pending`), and a policy that differs from the agenda is one set
by hand, or that of a miner whose request is still to write it (`AgendaOK`, `Pushes`). `Pending`
is where `OneAtATime` matters: a request is alone in the steps that check or write (`Alone`);
what is done in one step (a decision or an agenda set by hand, a refusal, somebody looking at a
team) may come at any time (`AsideStep`). `OneAtATime` is a hypothesis about behaviours, and nothing in
the code makes it true: handlers await their orders, and `voxchain-api-deployment.yaml:7` asks for two
replicas. When requests cross both properties fail (section 7); the theorems say that nothing else
breaks them, for any number of miners and teams.

`NodeEnrollment_proofs` proves, for every value of the constants and with no further hypothesis (any
number of pods, of requests at once and of events, miners registered again included), `TypeCorrect` and

- `SecretStays` (`DeploymentHasSecret`), `ValidStays` (`ValidIsInSecret`) and
  `TwoAreEnough` (`NoNeedlessReissue`).

The invariant grows with the property. `EInv`: requests in progress are about pods that
wait for them, two are never of the same pod or both of the owner, and a token
on its way is in nobody's files (`Requests`, `Fresh`), for which a new token has
to be new (`NewTokenOK`, by counting). `Placed`, for `SecretStays`: whether there is a Secret and a
Deployment follows from what the owner's request has still to do and from whether the miner
was registered again; who deletes the Secret has deleted the Deployment, or is the clean-up of
another registration. `Kept`, until the miner is removed or registered again or a token is deleted in
place of another: a valid token is in the Secret or a request carries it there. `Calm`, until
anything unusual happens: the pods running are at most the replicas asked for, and these at most the
valid tokens and the pods bound or being bound, so whoever asks finds one. TLC checked the whole of
it, `KInv`, with three requests and two events (1,215,165 states).

`PoolLeadership_proofs` proves both safety properties of `PoolLeadership`, for any number
of nodes, ranks, pauses and crashes, with Redis or without:

- `TypeCorrect` (`TypeOK`, which has the roles) and `DesignatedStays`
  (`GivesWayToDesignated`).

`RoleOK` makes the roles inductive: who leads is the coordinator and the only one it
follows, contends no more and hears nobody; only who leads has an access to the lease under
way. `MailOK` is needed because a coordinator that read its own heartbeat would follow
itself. `TypeOK` does not say that two nodes never lead at once: they may, and that it ends is
liveness.

Left to TLC in any case: liveness under fairness and `ENABLED`, which the prover
does not reach. So `EveryLawDecided`, `PoolIsLed`, `MinersJoin`, `MinersFollow`, `PodsGetBound`,
`NonceIsSent` and those of `NctCoordinator` are only model-checked, and so is
`MembersShareUrl`, which fails.

## 10. Not modelled

- The clock. Leases, timeouts and deadlines are steps that may come; where the code
  relies on one being longer than another, a guard says so and the case where it is
  not is a bounded event. So the 20 s by which a renewal extends a lease of 15 s
  (`redis_store.py:660`) is not visible: it delays a failover, it does not change it.
- Cryptography (signatures, hashes, compression, WebAuthn): a valid signature or
  nonce is an input, an invalid one changes nothing.
- Queries, metrics, logs, accounts of citizens and the front end: they change nothing
  the modelled parts read. The submission of a proposal is a publication, an input of
  `NctCoordinator`.
- The standalone miner and the CUDA and CPU search of Pilar 1: a nonce may be found
  for any open window, at any time.
- The local deployment with docker compose and its reconciliation thread; a removal
  that Kubernetes refuses; two citizens that compete for an id (with two requests at once
  one owner may register two ids).
- The HTTP shortcuts of the local deployment (`LOCAL_ADMIN_URLS` in `dispatch_switch_mode`, the POSTs
  of `push_voting_policy` and `set_pool_policy`): they bring a miner an order or a policy that Redis
  already has. That a handler awaits them is modelled.
- Of a failed publication inside a request of teams: an exception while dissolving a team
  leaves the later members without orders.
- `_avisar_cierre`, whose failure is ignored by the code and whose message only
  saves work to the miners; the loss of Redis itself; reconnection to RabbitMQ.
- Several replicas of a pool coordinator serving the same miners at once:
  `PoolCoordinator` models one and `PoolLeadership` says which.
