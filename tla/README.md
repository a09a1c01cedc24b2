# A verification project for Ditch

Ditch is a workspace for Codex sessions. A daemon, `ditchd`, owns projects, agent
conversations, the processes behind them and a task board; a macOS application and
remote daemons over SSH talk to it. This directory models the parts of the daemon whose
mistakes are hardest to find by testing. At its centre is the task board, which decides
when an agent may run, who owns its process, and when its work counts as done. Around it
are services that each run a protocol of their own: the mirror of a remote daemon, the
turns of an agent, the upgrade of a host, terminals, the handoff of drafts, clones, plans,
session names and GitHub.

## Inventory

| Component | Source | State | Hard behaviour |
|---|---|---|---|
| Task workflow | `ditch_core/src/tasks.rs` | one card: column, condition, queue entry, agents, submission | which action is legal where |
| Agent ownership | `ditchd/src/task_runtime.rs`, `runtime_shared.rs`, `remote_app_server_runtime.rs` | agents, children, writer reservations, orphaned groups | launch against stop and delete; turn end before process exit; restart with surviving processes |
| Execution queue | `ditchd/src/task_queue_runtime.rs` | queue entries, pause flags | one task per directory; single-use launch authorization |
| Acceptance loop | `ditchd/src/acceptance_runtime.rs` | loop controls, attempts, evidence | cancel, deadline and retry races; check and commit of a review in two critical sections |
| Store | `ditch_store/src/{lib,tasks}.rs` | durable copies of the above | what a restart makes of them |
| Event stream | `ditchd/src/runtime_shared.rs` | sequence, replay buffer, subscribers | gaps, slow subscribers |
| Remote projection | `runtime_shared.rs`, `ssh_remote.rs` | epochs, cursors, generations | old snapshots against events and answers |
| Handoff of drafts | `remote_task_handoff.rs` | journal, forwarded revisions, receipts of the host | lost and late answers, crash, edits during the transfer |
| App server turns | `codex_app_server.rs`, `app_server_client.rs`, `remote_app_server_runtime.rs` | pending requests, controls, readers and watchers of each run | answers and events of an older run; a process that leaves early |
| Host upgrade | `remote_lifecycle.rs`, `remote_maintenance.rs`, `remote_process.rs` | journal, link, lock, maintenance lease, paused daemon | a helper or daemon that dies between any two steps |
| Terminals | `runtime_shared.rs`, `remote_maintenance.rs` | two registries, shells, setup commands | shells started outside the lock; maintenance against requests in flight |
| Project clone | `project_clone.rs` | running clones, their directory and git | cancel at any moment; two clones and the user on one path |
| Task planning | `task_planning_runtime.rs`, `task_planner.rs` | plan and planning job of a card | late result of a superseded job; failing saves |
| Session names | `session_names.rs`, `session_namer.rs` | durable attempts, titles | restarts in the middle of an attempt |
| GitHub connection | `github_auth.rs`, part of `github.rs` | saved connection, session, sign-in job, bound read | results that end after the user withdrew them; a shared account that changes |
| GitHub issues | `github_app.rs`, `github_publish.rs`, part of `github.rs` | publications, sources, generation | lost answer of a POST; import of a half-published issue |
| Skills, release server, identity, protocol, CLI, UI | see `PROJECT.json` | files, tokens, views | mostly I/O |

The daemon keeps its state in one structure behind one mutex (`RuntimeState`). Request
handlers, the timer of the queue, one thread per acceptance loop, one per launch and one
watcher per child all work on it, and many of them unlock in the middle: to spawn a
process, to wait for one, to fingerprint the workspace, to ask a host or a server. Those
unlocks are where the hazards of `PROJECT.json` live.

## Modules

| Module | What it models |
|---|---|
| `TaskWorkflow` | the card and `Task::transition` as pure functions |
| `RuntimeState` | the variables of the daemon; reservations (`WriterGuard`, `release_writer`), children, orphans, `sync_agent_task`, `broadcast`, direct prompts, stop, delete |
| `BoardQueue` | `board_queue_request`, `board_execution_request`, `claim_board_task` |
| `AcceptanceLoop` | `begin_acceptance`, `acceptance_cycle`, `acceptance_request`, `release_request` |
| `Board` | composition, card requests, restart, fairness, types |
| `SerialSlot` | abstract specification of the queue: one slot per directory, single-use authorizations |
| `BoardProperties` | the properties and the refinement mapping to `SerialSlot` |
| `MCBoard` | instances for TLC |
| `Board_proofs`, `Evidence_proofs`, `Execution_proofs` | theorems about the board |
| `EventStream` | `broadcast`, `subscribe_since`: sequence numbers, replay buffer, bounded subscriber |
| `RemoteMirror` | `start_remote_reconciler`, `stream_events`, `forward_remote_event`, `reconcile_remote_snapshot`, answers of forwarded task requests; its properties and specification |
| `AgentTurn` | consecutive runs of one agent: `spawn_turn` (reader), `attach_remote_app_server_turn` (watcher), `respond_permission_for_target`, `stop_agent`, `force_kill_agent` |
| `HostUpgrade` | `upgrade`, `handoff`, `recover`, `Frozen` and `watchdog`, the maintenance requests of the daemon, its service manager |
| `Terminals` | `open_project_terminal`, `close_project_terminal`, `delete_project`, setup terminals, `close_project_terminals_for_upgrade` |
| `Handoff` | `prepare_remote_board_task`, `materialize_board_task`, the forwarded request |
| `ProjectClone` | `handle`, `clone_worker_with_command`, `run_git`, `finish_registration` |
| `TaskPlanning` | `task_planning_request`, `launch_task_plan`, `finish_task_plan` |
| `SessionNames` | `refresh_session_names`, `claim_session_name_job`, `generate_session_name`, `rename_agent` |
| `GitHubConnection` | `control`, `start`, `run_job`, `Binding` |
| `GitHubIssues` | control and operations of the GitHub App, `create`, `attach_source`, `import_issues_with_kind` |
| `MCServices` | the services together, for TLC |
| `Jobs_proofs` | theorems about `SessionNames` and `TaskPlanning` |
| `GitHub_proofs` | theorems about `GitHubIssues` and `GitHubConnection` |
| `Turn_proofs` | theorems about `AgentTurn` |
| `Machine_proofs` | theorems about `Terminals` and `ProjectClone` |
| `Remote_proofs` | theorems about `HostUpgrade`, `Handoff`, `EventStream` and `RemoteMirror` |

Each module of the board extends the one before it; every service is a module of its own.
**One action is one critical section of the mutex.** A handler that unlocks becomes several actions, and its progress between them is
a record: `control[t]` for the thread of an acceptance loop (its `pc` names the place in
`acceptance_cycle`), `launch` for threads that launch a task or a direct prompt, `review`
for review requests between their checks and their commit, `stops` for cancellations between
the unlock of `CancelLoop` and its `stop_agent` (`acceptance_runtime.rs:287`–`288`): the loop
may end and its agent be used for something else before `StopCancelled` comes. `poisoned` is the mutex after
a panic; `Locked` is part of every action of the daemon.

Correspondence of the state: `task` is `tasks` (and its rows), `agent` is `agents`,
`child` is `children` (`closing` once the turn completed and the server is being closed),
`lease` is `writer_leases` with the persisted group (`worker`, `validator`), `orphan` is
`orphan_writer_groups`, `control` is `acceptance_controls` plus the local state of its
thread, `group` is the set of process groups the operating system has, `ws` is the
fingerprint of the working files.

The mirror is a second, separate system: the remote daemon (`EventStream`) and the
threads of the local one that follow it. The poller (`poll`) reads the task generation, asks for the
status, asks for a snapshot, checks the epoch and reconciles, each step a critical section
or an exchange of its own. The stream (`stream`, with its resume cursor `last`) reads the
lines `initial` and then `channel`. A forwarded request (`rpc`: a task request, or the start
or resumption of a session) applies its own answer, `cache_remote_agent` without asking any
cursor. All write `mirror`; `cur` is `remote_event_cursors`, `known` `remote_epochs`, `gen`
`remote_task_generation`. `tracked` is a history variable: the agent as the poller or the
stream wrote it last.

The other services, state first, then what an action is:

* `AgentTurn`. `child` and `control` are the entries of the agent in `children` and
  `app_server_turns`, by the run they belong to; `run[r]` holds the process, the reader,
  the watcher and the channel between them; `entry` is `ActiveTurn.pending`, `shown`
  `pending_permissions`. `responder` and `stopper` are client threads between two of their
  critical sections: a response is reserved, written and recorded in three steps.
* `HostUpgrade`. `journal` is `runtime-upgrade.json`, `link` is `bin/current`, `helper`
  the process that runs `upgrade`, with a `pc` per exchange with the daemon or change on
  disk and with what it last saw. `HelperDies` may happen at any `pc`, `DaemonCrashes` at
  any time; `ManagerRestarts` is the service manager, `WatchdogResumes` the process that
  continues a daemon whose helper was killed.
* `Terminals`. `terminals` and `byProject` are the two registries, `setup` is
  `setup_terminals`, `thread[h]` a request between its critical sections, `maint` the
  lease of `remote_maintenance`. `owner` is a history variable: the helper whose begin was
  accepted and that still holds the lock.
* `Handoff`. `handoff` is the journal `board_handoff_v2:<task>`, `forwarded` the setting
  `board_handoff_action:<request>`, `receipts` the host's `task_requests`, `late` the
  requests that were given up and may still arrive.
* `ProjectClone`. `clone[o]` is the operation with its worker, `dir` what the file system
  has at the destination, `git` the process group and the inode it writes. A worker that
  failed looks at the destination (`LookAtPartial`) and then removes the path, whatever is
  there by now (`RemovePartial`); it holds the lock of its operation in between, so its
  requests wait, but other clones, git, a restart and the user do not. `swapped` is a history
  variable: the user removed the destination between such a look and its removal.
* `TaskPlanning`. `plan` is what the daemon holds, `saved` what the store holds; they part
  when a save fails. `planner[j]` is the thread of job `j`.
* `SessionNames`. `receipt` is the setting `session-naming:<agent>`, `namer` the background
  thread, `codex` the names Codex itself has saved.
* `GitHubConnection`. `conn` is the saved connection, `ghSession` the session with its flag,
  `signIn` the thread of `run_job`, `reading` the holder of `OPERATION`, `ghAccount` the
  account of the shared tool, which others change.
* `GitHubIssues`. `pub` is `github_publications`, `row` `github_sources`, `source` the
  source of a card; `op` and `controlOp` hold the two locks `OPERATION` and `CONTROL`.

The services share no variable in the models, and none of their properties speaks about
two of them. `MCServices` therefore explores their sum and not their product: its initial
state chooses one service, which then moves alone. This is the same as one run per
service, with one set of constants.

### Abstractions

* Revisions: a request is refused when its card changed since it was read. A request in
  flight whose card is touched can only be refused, so `Touch` removes it from `review`.
* `reap_orphan_writers` at the head of a handler is the action `ReapOrphanWriters`; a
  handler that reaps is enabled only when nothing is left to reap.
* Condition `Running` stands for `Running` and `AwaitingApproval`; the serialized states
  `Draft`, `Blocked`, `Rejected`, `Cancelled` share the column of a modelled one.
* A loop's deadline may pass at any moment. Storage errors, retention limits, a moved
  HEAD and policy failures are `LoopError`. At most one command validator runs per
  attempt. Passing the checks and submitting are one step, as are registering a worker
  and marking its attempt `Working`.
* Identities are taken from a finite pool: `Fresh` is an identity that nothing refers to.
* Two cancellations that are about to stop the same agent stop it once.
* `Ops` names the user operations and faults an instance exercises, so that each run
  stays small; no action is removed from the specification. Queue positions are bounded
  by `MaxPos` in the guards.
* Text, audit entries, attention items and `last_reason` are left out.
* Tasks are local and user-managed (`coordinator_group` is `None`). Creating, editing,
  linking and deleting cards, configuring acceptance and assigning releases are left out.
* The mirror follows one host, one task (its revision, 0 when there is none), one agent
  and `other`, which stands for what only snapshots carry (attention, removed agents).
  Versions stand for contents. The replay buffer is also limited in bytes, so it may keep
  fewer lines than its limit. Reading the resume cursor and subscribing are one step: only
  the stream itself writes that cursor. A cancelled stream still applies the line it has
  in hand. Projects stay registered and tasks are not `remote_pending`. The session that a
  forwarded start or resumption makes is the agent of the mirror, which did not exist before:
  its answer carries its first version, and everything later comes with events and polls.
* Turns and session names follow one agent; what a Codex process sends is arbitrary. A
  failing write may or may not have reached the process.
* A host has had a release installed; the old build may or may not know maintenance, and
  may or may not have a service manager. The transfer of the release is not part of it.
* Clones compete for one destination. Inodes are never used twice. A removal succeeds or
  leaves everything.
* A transfer carries one content, which stands for all that the user approved; the
  forwarded request is a Start.
* A GitHub read verifies the account, fetches once, verifies again and commits. Cancelling
  the sign-in and disconnecting are one action. The Relay and GitHub are external and modelled from what the client
  relies on: another generation is refused, one request id posts at most one issue. One
  project with its repository linked.

## Runs

The runs of the board use two tasks and two or three agents; they are the smallest
instance in which two tasks compete for one directory and a conversation can be replaced. Deadlock is not
an error: a board at rest waits for its user.

| Run | Instance | Shows |
|---|---|---|
| `board_queue` | crashes, prompts, stops, cards moved by hand, unresumable conversations | `TypeOK`, `SerialExecution`, `ReservationCoversGroup`, `ActiveTaskHasActor`, refinement `SlotSpec` |
| `board_review` | two fingerprints, two attempts; edits, cancel, prompt, delete, pause, release review, revalidation | `AcceptedHasEvidence`, `AcceptsIdle`, `ReviewOnlyAfterExit` |
| `board_cards` | every card request but the hand-made start (in `board_queue`), selection, reordering, changing plans, three positions | `LockExclusive`, `QueuedColumns`, `DistinctPositions`, `TodoLeavesByRequest` |
| `board_progress` | two projects on one directory; crashes, stop, cancel; fair, no symmetry | `SerialExecution` across projects, `LoopsEnd`, `WaitingAdvances`, `OrphansReaped` |
| `services` | every service, see below | per service, see below |
| `services_live` | six services, smaller and fair | `MirrorConverges`, `AnswerSettles`, `ExitFinalizes`, `PausedResumes`, `RequestSettles`, `CloneSettles`, `PlanSettles` |

| Service | Bounds in `services` | Safety in `services` |
|---|---|---|
| mirror | two epochs, two events, three of both together; buffer and channel of one line | `StreamContiguous`, `NeverRolledBack` |
| turn | two runs, one request, two answers, one stop | `AnsweredOnce`, `RequestsAnswerable` |
| host | two failing steps or deaths of the helper, one crash | `UpgradeSparesWork` |
| terminals | one project, two threads, two shells, one setup, two helpers | `MaintenanceIsQuiet`, `OneTerminalPerProject` |
| handoff | two requests, two transfers, one loss, three revisions | `WorkSurvives`, `StartsApprovedOnce` |
| clone | two clones, three directories, one restart | `OnlyPartialRemoved`, `OutcomeIsTrue` |
| plan | two cards, two jobs, at most one at once, one restart | `PlanEntersWanted` |
| names | two sessions, three faults, two renames | `ModelCallsBounded` |
| connection | two accounts, four generations and flags | `WithdrawnStaysWithdrawn` |
| issues | one draft, two cards, two ids per card, two generations, one loss | `PublishedOnce`, `IssueHasOneTask`, `LateAnswerDiscarded` |

The bounds are the smallest in which the races happen: two runs, so that a thread of an
old one meets the new one; two clones for one path; two threads that both start a shell
for one project; a second request id, a second transfer, a second helper after one that
was lost. A buffer and a channel of one line with two events are enough for a resume past
the end of the buffer and for a subscriber that is dropped while lines of it are unread.
The handoff of `services_live` allows two losses and five transfers, so that a journal that
cannot succeed is replaced; its user edits the draft but nobody else changes the copy in
the cases `RequestSettles` speaks about. `TypeOK` is checked for the board, which the
proofs are about.

Six runs show where the code disagrees with its documents, texts or assertions. The four
of the board need one more operation than its passing runs enable.

* `stop_during_launch`: a stop of an agent without a child marks it `Interrupted` and the
  broadcast releases its reservation, even if a launch of that agent has been admitted and
  is about to spawn. The process then runs without a durable reservation
  (`docs/TASK_BOARD.md:66`, `:74`). It need not be a *Stop*: *Cancel loop* stops the owner of
  the loop after an unlock, by which time that agent may have been admitted for something
  else. An instance with `cancel`, `prompt` and `stop_launch` violates `ReservationCoversGroup`
  in 15 states and `ReviewOnlyAfterExit` in 17; one with `cancel`, `ReturnToTodo` and
  `stop_launch` violates `SerialExecution` in 23: the late stop marks the task that is being
  launched as failed and releases its reservation, so the queue claims the next task of the
  directory beside it. The stale launch also breaks `LockExclusive` and `TodoLeavesByRequest`.
  The passing runs therefore leave out one thing, the operation `stop_launch`: a stop, early
  or late, that meets an agent between its admission and its spawn. Every other late stop is
  in them, also one that cancels the loop of another task or interrupts another run of the
  agent.
* `accept_while_live`: *Accept* checks liveness, unlocks, and commits after checking the
  revision alone; `release_request` checks liveness again (`docs/TASK_BOARD.md:21`).
* `cancel_then_submit`: a loop without command validators ignores a cancellation that
  arrives after its worker exited (`docs/ACCEPTANCE_ENGINE.md:40`).
* `delete_during_prompt`: deleting a conversation between admission and spawn of a prompt
  makes the prompting thread panic under the mutex.
* `older_poll`: the answer to a task request installs the task without advancing the
  generation, so a poll under way removes a task that was just created
  (`docs/TASK_BOARD.md:48`). `MirrorConverges` in `services_live` shows that it comes back.
* `journal_settles`: recovery from the upgrade journal is not repeatable. When it has
  started the previous release and fails before it clears the journal
  (`remote_lifecycle.rs:738`–`753`), the next recovery meets an instance the journal does
  not name and refuses (`:719`–`721`), while the texts for this state say *Use Install /
  Repair to recover it* (`:102`–`104`) and *Retry Install / Repair* (`:939`).

Three more observations have no run. The answer to a started or resumed session overwrites
the agent without asking the cursor (`cache_remote_agent`, `runtime_shared.rs:3224`–`3253`): an
answer that arrives after the events of that session shows it in its first state again, and
an older poll may remove it for a while, as `older_poll` shows for tasks. Deleting the agent of a surviving process group leaves
its task executing for ever, because `sync_agent_task` finds no agent when the group is
reaped; it is recorded as a hazard. And validating a queued task again can leave a
validator behind whose agent has no record: `acceptance_block` then clears the assigned
agent (`acceptance_runtime.rs:91`–`94`), `board_execution_busy` no longer counts the group
that survives for this task, and the next queued task starts while it ends, although
`docs/TASK_BOARD.md:57` has tasks serialized *including while their workers and validators
finish cleanup*. `SerialExecution` is about groups of a task's assigned agent and does not
cover it; a conversation that its user resumed may run beside the queue by the same
document (`:55`).

### Fairness

`DaemonFairness` is weak fairness of each thread: the queue's timer, each loop, launch,
review and watcher. It is justified because none of their waits is unbounded: loops and
validators have a deadline, launches a timeout, the timer runs every second, and a
completed turn closes its server. `GroupFairness` is an assumption about the operating
system: a process group that is being stopped (SIGTERM, then SIGKILL) or has lost its
supervisor ends. Nothing is assumed of users, nor of a worker that nobody stops; its loop
still ends at the deadline.
The pool of identities is finite, so an instance whose user keeps starting new agents
could run out of them; `board_progress` leaves those operations out.

`PollFairness` is weak fairness of the poller's thread and strong fairness of its two
requests: the thread loops for ever with a delay of at most 30 seconds, and the host is
assumed to answer again and again, not always. Nothing is assumed of the stream, which may
never open.

The services have weak fairness of the threads that own a clock, and of nothing that a
user or a process decides:

* `TurnFairness`: the reader looks at its clocks ten times a second and the watcher forty
  times. Nothing is assumed of the process or of clients.
* `HostFairness`: every step of a helper has a deadline, the watchdog and the manager run,
  leases elapse, work ends again and again, and the user repeats Install / Repair as the
  text asks. Only `JournalSettles` needs the last; `PausedResumes` needs the watchdog.
* `HandoffFairness`: every exchange has a deadline, and a client repeats a request that
  was not answered.
* `CloneFairness`, `PlanFairness`: a worker is a thread, and git and the planner have a
  deadline.

`MCServices` restates each of them for the service in focus.

## Proofs

TLAPS checks every leaf. The theorems hold for every set of tasks, agents, projects,
requests or shells, every layout of workspaces, every bound and every `Ops`, except where a
hypothesis on `Ops` is stated. They assume only the named `ASSUME`s, which say that bounds
are natural numbers, that `ProjectOf` and `RootOf` are functions and that the values for
"nothing" (`None`, `NoTask`, `NoAccount`, `Free`, `Null`) are not identities. Two are about
the names of data: a text the user writes is not named like the text of a planner's job
(`EditsAssumption`), and what is written on the Mac not like what is written on the host
(`HandoffAssumption`); the properties tell the authors apart by these names.

### The board

* `TypeCorrect`: `Spec => []TypeOK`. One lemma per module, one step per action, resting
  on lemmas about the pure functions (`TransitionType`, `SyncedType`, `ReleasedType`...).
  It is not only typing: a loop always has an owner, which the loop's own steps need.
* `EvidenceInvariant`, and from it `AcceptedTasksHaveEvidence` and
  `QueueHoldsStartedTasks`. `AcceptedHasEvidence` is not inductive: a request to accept
  is checked in one critical section and committed in another. The strengthening
  `ReviewBacked` says that while such a request is in flight its card is in review and
  has evidence. It is preserved because each step that changes a card touches it
  (`OneCard`, `FollowedSound`), and because every step that drops evidence leaves the
  card in progress. `QueuedColumns` is part of the same invariant since both are facts
  about one card (`Sound`).
* `QueueIsTotallyOrdered` (`DistinctPositions`), without hypotheses. Almost every step
  keeps the positions (`PlacesKept`); a task that enters goes behind every queued one of
  its project, waiting or not (`TailIsFree`), and `ReorderQueue` gives the waiting ones the
  places behind the others (`ReorderedOrder`). The order of the natural numbers is used as
  a well-founded relation, so that `Max` and the counting of a finite set are facts and not
  assumptions.
* `ExecutionInvariant`, the invariant behind the five theorems that follow. None of their
  properties is inductive: whether a reservation covers a group depends on which thread
  holds the reservation, and that on no other thread having the same agent. `KinInv`: no
  two tasks have a claim on one agent (as assigned, selected, continued, as the worker of
  the evidence or as the owner of a loop), and a conversation that is claimed is linked to
  the task that claims it. `ThreadInv`: a launch and a loop hold, at each of their stages,
  the reservation that this stage needs, and nobody else has a process of that agent; a
  request in flight that will accept or relaunch a task is for an idle one; only a started
  task executes. The lemmas follow one agent (`AgentKept`), one loop (`ControlKept`) and one
  card (`CardKept`), so that an action is only examined for the one it changes.
  - `GroupsAreReserved` (`ReservationCoversGroup`), `SelectionIsExclusive`
    (`LockExclusive`);
  - `TodoIsLeftByRequest`, `ReviewFollowsExit` and `ReleasesAcceptIdleTasks` are action
    properties. One relation, `Moved`, says how a step may change the state of a card; each
    action is shown to obey it once, and the three follow.
* `ExecutingTasksHaveActors` (`ActiveTaskHasActor`), with `ActorInv` on top of `ExecInv`:
  a conversation that is working has a child, and an executing task has an actor that only
  its own steps take away.
* `QueueIsSerial` (`SerialExecution`) and `BoardImplementsSlot` (`SlotSpec`), from `SlotInv`
  on top of `ExecInv`. `SerialExecution` counts tasks that have a loop or a process group;
  a launch has neither between its reservation and its first process, so the property
  survives no step by itself. `Engaged` closes that gap: a queued task has the slot from
  the reservation of its launch until its loop has ended and the reservation is gone, and
  `SlotInv` says that two engaged tasks never share a directory. A task becomes engaged in
  one place only, the admission of the queue, where `board_execution_busy` has found the
  directory free (`NotBusyVacant`, `AdmittedVacant`); a follow-up turn outside the queue is
  for a task that is not queued. For the refinement each step is shown to be `Still`, so
  that no phase moves, or to move the phase of one task as `SerialSlot` allows
  (`SlotSimulates`); a crash is the slot's `Restart`.

The hypotheses are operations that break the property in the code, and each has a
counterexample. `QuietOps` excludes a stop, of the user or of a cancelled loop, that meets an
agent between its admission and its spawn (`stop_launch`, run `stop_during_launch`): all that
the invariant says of a launch is that its reservation is its own, and this stop takes it
away. It does not exclude cancellations: their late stop (`StopCancelled`) is shown to keep
the invariant whenever it finds a child, a loop or nothing. It also excludes agent selection together with another validation on one board:
selecting can give the former worker of a task to a second task, and validating the first
task again makes that worker its agent once more, so both can come to select it. TLC finds
this in 24 states when an instance enables both; every passing run enables at most one of
them. `ReleasesAcceptIdleTasks` excludes the *Accept* of a single task, which is the run
`accept_while_live`. `ExecutingTasksHaveActors` excludes `delete`, which is the hazard of a
deleted agent with a surviving group. All passing runs that check these properties satisfy
`QuietOps`.

### The services

* `ModelIsAskedTwice` (`ModelCallsBounded`). The count of questions is not bounded by
  itself: `AttemptsCoverAsking` relates it to the attempts in the store, which are written
  before the model is asked, and `AttemptIsStored` ties the attempt under way to the store.
* `OnlyWantedPlansEnter` (`PlanEntersWanted`), from the types alone: the guards of
  `finish_task_plan` suffice, for any number of jobs, edits and reloads.
* `TaskPublishedOnce` and `OneTaskPerIssue`, from one invariant: the saved publication of a
  task has an id of that task (`PubOfTask`), an issue exists only under the saved id
  (`PostedIsSaved`), and the operation under way posts under the id that was saved
  (`OpBound`). `LateAnswersAreDiscarded` needs that generations only grow and that a dropped
  operation has its flag set or a generation that does not come back. `NothingComesBack`
  (`WithdrawnStaysWithdrawn`) is the same argument for the connection.
* `RequestsStayAnswerable` and `AnswersAreWrittenOnce`. The events in the channel of a run
  name requests of that run (`EventsOfRun`), and a request is answered as it leaves the state
  in which it waits (`EntriesSettle`); `FailureIsMarked` covers the gap between the two
  sections in which the watcher handles a failure.
* `ProjectsHaveOneTerminal` and `AcceptedHelpersFindRest` (`MaintenanceIsQuiet`):
  `RegistersOwn` says that a shell in the hands of a request is its own and registered
  nowhere, `OwnerHolds` that an accepted helper still holds the lock and keeps admission
  closed.
* `OutcomesAreTrue` and `NothingElseRemoved`: inodes are used once and owned by one clone
  (`InodesOwned`), and git outlives its worker only after a restart (`GitHasWorker`). A worker
  that found its own checkout removes the path later without looking again. That this is
  still its checkout is not a guard: another clone only makes its directory where there is
  none, and nothing but a user can take this one away (`swapped`). The race with a user
  exists in the code (`project_clone.rs:258`–`259`) and is left out of both properties.
* `UpgradesSpareWork`: a daemon about to be stopped has no work and can get none, because
  its admission is closed under the token of the journal or, for a legacy daemon, because
  it is behind the fence (`HaltsIdle`). It holds for the instance the helper has seen
  (`SameDaemon`); a daemon that was replaced meanwhile is not stopped.
* `StartsAreApprovedOnce` and `HandoffKeepsWork`: `CopyLeads` and `Agrees` order what the
  Mac, the receipts, the clients and late messages know of the copy on the host by its
  revision, and `TransfersSound` says that a transfer id stands for one task.
* `StreamHasNoGap` (`StreamContiguous`), from `StreamInv`: the buffer holds the latest lines
  of the instance without a gap (`ReplayRuns`), and the wire begins after the stream's cursor
  and, while it is attached, ends where the daemon is (`WireRuns`). `MissingLines` shows that
  a cursor that can be served gets exactly the lines it lacks; for it the filter of
  `subscribe_since` is written without recursion (`LinesAfter`).
* `MirrorMovesForward` (`NeverRolledBack`). The mirror keeps a cursor and no history, so the
  invariant says that a history exists: a function from positions to versions of the agent
  that never decreases and explains every line in the buffer and on the wire, the snapshot in
  the poller's hands and every cursor (`Ordered`, `Witnessed`). `Leads` says that the mirror
  is not ahead of its cursor. It has one exception (`Behind`), which TLC finds in 19
  states: after the poller has forgotten the cursor of an old instance, the cancelled
  stream may still apply one line of it, and the cursor it leaves is older than the mirror.
  This does no harm, because no further line of the old instance is accepted before the
  snapshot replaces both. Answers of forwarded requests move neither the cursor nor the
  agent this theorem is about (`tracked`): `cache_remote_agent` writes what it was sent, so
  the agent on show may be an older version until the next event or poll. `MirrorConverges`
  covers that it does not stay so.

### Model-checked only

Liveness (`LoopsEnd`, `WaitingAdvances`, `OrphansReaped` and all of `services_live`) needs
fairness and `ENABLED`, which the prover does not treat. Every safety property
that a passing run checks is stated by a theorem.

## Plan

1. (done) task workflow, agent ownership, queue, acceptance loop, restart; type
   correctness and the evidence invariant proved.
2. (done) event stream and remote mirror; handoff of drafts with lost answers and crashes.
3. (done) maintenance against terminals and requests; replacement of a host's daemon.
4. (done) planning jobs, session names, app server turns and approvals, clones, GitHub.
5. Open: `OperationReceipts` for repeated requests in general; order keys of the columns,
   with the rebalancing checked against a reference.
6. (done) proofs: order of the queue, claims and reservations, moves of cards, actors of
   executing tasks; the safety properties of every service but the mirror.
7. (done) proofs: the serial slot of a workspace and its refinement.
8. (done) proofs: gap freedom of the stream and the mirror that never goes back.

## Not modelled

* `ditch_upgrade`: it asks a server for releases, verifies signatures and digests and
  stages a download. It is HTTP and cryptography of a single caller; the installation on a
  host, where several processes meet, is `HostUpgrade`.
* Skills and evidence capture: copies and digests of files under one lock.
* SSH, JSON-RPC and socket transports, identity and key files, SQL and its migrations: the
  models have their failures (an answer that is lost, a save that fails) and not their
  contents.
* Links, refreshes, comments and discovery of GitHub: each is one read followed by one
  guarded save, like the read in `GitHubConnection`.
* Creating, editing, linking and deleting cards, coordinator groups, policies and the
  release catalogue.
* The command line and the macOS application, which show what the daemon sends.

Besides the deleted agent above, two hazards of `PROJECT.json` have no property: a full
history in `acceptance_block` needs sizes that the model does not have, and cancelling a
GitHub read before its session exists is in the model, where the generation still guards
the result.
