# Roger Reviewer: TLA+ models and proofs

Roger Reviewer (`rr`) runs AI code reviews of GitHub pull requests. It keeps
sessions, runs, findings and outbound drafts in one SQLite store, lets a human
approve exactly what goes out, and posts it with `gh`. Every `rr` command, the
cockpit (TUI), the browser's native host and the worker inside a provider are
*processes of their own on the same store and the same files*. Most store calls
are a read followed by an autocommitted write; only a few are transactions, and
none of them spans a provider, a browser or a `gh` call. That is where this code
is hard to test, and what these models are about.

Paths below are relative to `packages/` unless they start elsewhere; `cli:N`,
`storage:N` and `review-ops:N` are lines of `<package>/src/lib.rs`.

## Inventory

| component | state | operations | what is hard | what makes it correct | module |
|---|---|---|---|---|---|
| outbound batch (`review-ops`, `storage`, `app-core`) | batches, items, approval tokens, posted actions, revisions | `rr draft`, `rr send edit`, `rr approve`, `rr post`, and the same from the cockpit | check-then-write without a transaction, several processes, `gh` in the middle, death between two statements | only approved texts are posted; an edit revokes; a complete audit trail | `OutboundBatch`, `PostingContract` |
| outbound recovery (`review-ops`, `storage`, `cli`) | the same rows, over several runs and batches | selection for drafting, `rr status`, `rr findings`, `rr prs`, advice after a refusal | killed drafts, newer runs, views derived from other rows than the commands read | views and advice agree with what the commands do; what GitHub confirmed is not sent again | `OutboundRecovery` |
| GitHub adapter (`github-adapter`) | none | one `gh` call per draft | lost answers, `gh` missing half way | an outcome that claims delivery had it | in `OutboundBatch` |
| launch and resume (`cli`, `storage`) | launch attempts, sessions, runs, `worker-task.json` | `rr review`, `rr resume`, `rr return` | hosted workers, retries after a crash, row versions read long before they are compared | nothing unverified in the store; attempts end; announcements not lost | `SessionLifecycle` |
| re-entry (`storage`, `cli`, `app-core`) | sessions, launch bindings | look-up by id, pull request, repository, strength | bindings that change during the launch, ambiguous look-ups | worktrees do not mix; never a guess | `SessionReentry` |
| session providers (`cli`, `session-*`, Copilot's hook script) | hook artifacts, audit files, Copilot's session directory | start, reopen, reseed | subprocesses; which session a process opened is learnt afterwards from a file | the session recorded is the one opened | `ProviderLaunch` |
| stage execution (`prompt-engine`, `storage`) | prompts, invocations, results, artifacts, findings, events | `execute_review_stage` | files before rows, crashes, repair and repetition | references are true; the event is last; repair ends | `StageExecution` |
| worker transport (`app-core`, `cli`) | stage results, proposals | `rr agent …` | a snapshot that is stale when it is answered from, combinations of flaws | authorised writes only, replies match the store | `WorkerGateway` |
| findings and triage (`storage`, `review-ops`, `cli`) | findings, decision events | materialise by fingerprint, triage | look-up then insert, batches that fail half way, ids made of seconds | decisions survive sightings and are logged | `FindingLedger` |
| memory review, clarification (`storage`, `cli`, `tui`) | request rows, memory items | propose, resolve, ask | two resolvers of one request | decisions are final; memory is what was decided | `ReviewQueues` |
| prior review search (`storage`, `app-core`, `cli`) | memory items, FTS, semantic assets | plan, search lanes, install and verify assets | reads one after another while items change | tentative memory stays in audit; nothing listed twice or lost | `PriorReviewSearch` |
| schema and migrations (`storage`) | schema version, ledger, journal, checkpoints | open, upgrade, recover | several commands at once, a kill anywhere in an upgrade without a transaction | the version is honest and never falls | `StoreUpgrade` |
| installation and host files (`cli`) | binary, backup, unpacked extension, manifests, launchers | `rr update`, `rr extension setup/doctor/uninstall`, `rr bridge …` | renames that fail, kills, commands side by side | a binary is always left; manifests name scripts | `HostInstall` |
| bridge and extension (`bridge`, `apps/extension`) | ports, watchdogs, the child of a host | launches, reads, writes from a page | hosts that hang or are killed, late frames | every click answered, and truthfully | `BridgeHost` |
| cockpit (`tui`, `app-core/src/tui_shell.rs`) | one record of view state | keys: triage, draft, approve, edit, post, clarify, search, launch | long-lived copies of rows, selections made screens ago | writes are about the open session; panes agree | `Cockpit` |
| worktree manager | – | instance and port planning | no caller in the program | – | – |
| configuration, CLI surface, validation, scripts | – | – | – | – | – |

How they interact: `rr review` looks a session up (`SessionReentry`), stages a
launch attempt (`SessionLifecycle`), runs a provider (`ProviderLaunch`) and
commits. The provider's worker reads `worker-task.json` and calls `rr agent`
(`WorkerGateway`), which stores stage results, materialises findings
(`FindingLedger`), files memory proposals (`ReviewQueues`) and sets the session
to `findings_ready` (`SessionLifecycle`). The operator triages in the cockpit or
on the command line; `rr draft` makes batches (`OutboundRecovery`), `rr approve`
mints a token over a batch's digest and `rr post` delivers it (`OutboundBatch`).
The browser (`BridgeHost`) starts `rr` commands as children of a native host that
`HostInstall` registered. Every command first opens the store (`StoreUpgrade`).
Shared state is the store and a few files; there are no locks beyond SQLite's.

## Modules

Each component has a module: variables, `…Init`, one action per statement,
handler or key, `…Next`, `…Spec`, and its properties at the end. Where a store
function reads and then writes, the read and the write are two actions unless a
transaction holds them together. A definition whose comment begins with
"Mutant:" is a plausible bug: with it in place of the definition it varies, TLC
finds the property it is about violated.

Properties are invariants made of named parts (`LedgerInv`, `RecoveryInv`, … list
theirs; the first part is the type invariant), action properties and two kinds
of temporal properties. A part is stated, with a comment, where its module ends.

Composition. Modules that share rows are modelled over the same rows:
`OutboundRecovery` repeats what `OutboundBatch` does to a batch as one step, and
`OutboundBatch` is shown to implement `PostingContract`; submissions of workers
and the launch that they race with are in one module, `SessionLifecycle`; the
extension, its hosts and their children are in one module, `BridgeHost`.
Components that share nothing but the store *file* are checked in common runs:
the MC modules `MCReviewWork`, `MCReviewData` and `MCLocalTools` have a variable
`component` that no step changes and that says which component a behaviour is
about. Their state space is the disjoint sum of the components', so nothing is
shown, or lost, about interactions that the components do not have.

| module | what it is |
|---|---|
| `OutboundBatch`, `PostingContract` | one batch; what the outbound path promises about offered, approved and delivered texts |
| `OutboundRecovery` | the outbound work of a session over its runs |
| `SessionLifecycle`, `SessionReentry`, `ProviderLaunch` | the launch: rows, choice of session, provider |
| `StageExecution`, `WorkerGateway`, `FindingLedger`, `ReviewQueues` | the worker: stages, calls, findings, proposals |
| `PriorReviewSearch` | search |
| `BridgeHost`, `Cockpit` | the surfaces |
| `StoreUpgrade`, `HostInstall` | the machine |
| `MC…` | instances for TLC, symmetry, the fairness of the operator, `ReapprovalSucceeds` |
| `OutboundBatchProofs`, `OutboundRecoveryProofs`, `SessionLifecycleProofs`, `FindingLedgerProofs`, `BridgeHostProofs` | the proofs about the component of that name |
| `ReviewWorkProofs` | the proofs about `StageExecution` and `SessionReentry` |
| `ReviewDataProofs` | the proofs about `ReviewQueues`, `WorkerGateway`, `ProviderLaunch`, `PriorReviewSearch` |
| `LocalToolsProofs` | the proofs about `StoreUpgrade`, `Cockpit`, `HostInstall` |

### OutboundBatch

A process holds in `local` what it has read.

* `MaterializeCheck`/`MaterializeInsert`: `materialize_draft_batch` inserts the
  batch row and then item by item (`store_outbound_draft_item`).
* `ApproveLoad` … `ApproveBatch`: `approve_batch` and, with surface `"tui"`,
  `approve_outbound_batch_for_session`: load, read items, read token and pass the
  gate, write every item, write or keep the token, write the batch.
* `EditRead`, `EditCommit`: `revise_outbound_draft_body`; the posted actions, the
  text and the lineage are read before its transaction opens.
* `PostLoad` … `PostRecord`: `post_batch`: reads, gate, one `gh` call per draft
  with the answers posted, failed, lost (delivered, but reported as failed),
  `PostAdapterError` when `gh` cannot be started, and the posted action.
* `Supersede`: a newer run. `Crash`: death between two statements, or a statement
  that stays busy.

A body is a model value; the digest of the n-th committed revision is n, because
the code hashes the unique revision id into it. `payload` and `accepted` are
history variables: the texts under every digest, and what an approval accepted.

### OutboundRecovery

A command on an existing batch is one step; drafting is three (`SelectFindings`,
`StoreBatch`, `StoreItem`) and can be killed, as can an approval, and a post
before its action is stored. `StatusView`, `FindingsView`, `PrsQueueState`,
`ApproveReason`, `PostReason` and `BatchIdsInState` are the views and gates as the
code derives them, each from its own rows; the properties relate one with another.
`recent` is the order of `updated_at`, which the views sort by.

### SessionLifecycle

* `Review`, `Fresh`, `Resume`: `handle_review` takes a session that has not
  failed or starts one; `--fresh` always starts; `rr resume` and `rr return` name
  one. `Reenter` reads the row whose version is compared at the end.
* `Abandon`, `Insert`: the two statements of `create_launch_attempt`. The
  updates `pending` → `dispatching` and `awaiting_provider_verification` →
  `committing` are merged with their neighbours: `committing` is written inside
  the final transaction and is never seen.
* `StageTask`, `Provision`, `ProvisionRun`: the task file, and the rows of a
  hosted (Copilot) start, before the launch. `Launched`, `LaunchFailed`: what the
  provider returned (`ProviderLaunch` has how).
* `FinalizeStart`, `FinalizeReentry`, `ReentryConflict`, `FinalizeFails`: the
  final transactions. `Demote`, `DemotePut`, `Fail`: what a failure leaves.
  `Rebind`: the new task file of `rr resume`.
* `AgentRead` … `AgentReload`: `worker.submit_stage_result` as far as it touches
  runs and sessions, with one retry of the attention update.

### SessionReentry

`ById`, `ByPull`, the repository look-up and `AutoSelected` are the resolution
functions, `Score`, `Weaker` and `BindingResolution` what they compare. `Enter…`
reads; `EnterStrongest` reads the bindings of the candidates only, and
`LoadInferred` the row of the one it chose, later. The launch happens, `Commit`
writes row and binding in one transaction, `Conflict` finds the row version
changed. `StartReview` and `Touched` are other commands.

### ProviderLaunch

`Spawn`, `WritesState`, `HookFires`, `HookDies`, `ChildEnds`, `CaptureFails` and
`Settle` follow one Copilot process, the artifact and audit files of its hook and
what Roger makes of them; `Discard` and `Elsewhere` are Copilots of others.
OpenCode is reopened or linked, the remaining providers only linked.

### StageExecution

Each execution walks through the artifacts and rows in the order of the source;
`Look`, `WriteFile` and `InsertArtifact` are the three parts of
`store_artifact`. `StageStops` is a kill or a failed statement, `Again` a
repetition, `Repair` the next attempt within the budget.

### WorkerGateway, FindingLedger, ReviewQueues

A worker's request is a set of flaws: everything not named agrees with the task.
`LoadFindings` and `Respond` are the snapshot and the answer from it; with
`--context-file` the answer to `worker.get_review_context` is whatever the packet
lists. The ledger
keeps events under ids made of finding, second and, for triage, row version, as
their collisions decide which calls fail. In the queues, `LookUpRequest`,
`ReadStatus` and `CommitResolution` are the steps of a resolution; the cockpit's
`ResolveFocused` comes with what its screen showed.

### PriorReviewSearch

`BeginSearch` makes the plan; `Embed`, `ReadEvidence`, `ReadPromoted`,
`ReadTentative`, `Hydrate` are the reads of one search in their order, `Restate`
a change of a memory item between them. Scores are numbers whose order is all
that matters.

### StoreUpgrade, HostInstall

`Apply`, `Log`, `Bump` are the batch, the ledger row and the version of one
schema step, none in a common transaction; only the batches in `Rerunnable` can be
run again. `HostInstall` has a step for every file that a command writes, renames
or removes; a package goes file by file (`LeftOf`), which may stop half way.

### BridgeHost, Cockpit

A click has a panel, a wire, a host and a child, each with its own steps; the
watchdogs are `FirstFrameTimeout` and `Timeout`; `Readback` is the `rr status`
that follows a launch, and `AfterStatus` what its answer makes of the success. The
cockpit's fields are the record `ui`; an action is a key with everything its
handler does, and `OtherProcesses` changes the store under it.

## Runs

Deadlock is not checked: commands end, and with their bounds used up a system
rests.

| run | question | result |
|---|---|---|
| `outbound_roles` | approver, two editors and poster while `rr draft` inserts, with crashes: is every posted or postable text approved, the generated text kept, `PostingContract` implemented? | holds |
| `outbound_operator` | one operator, both surfaces, all `gh` outcomes: at most one post, a complete and frozen audit, no wedged approval, Succeeded means delivered, and does one who keeps asking get a revised batch approved? | holds |
| `outbound_recovery` | drafts, edits, approvals and posts of a session over two runs and two batches, with kills: do views, gates and advice agree, and is what GitHub confirmed never offered or sent again? | holds |
| `sessions_concurrent` | two commands and a worker, both kinds of providers, with deaths: does nothing unverified look like a review, and does no re-entry hide findings it did not know of? | holds |
| `sessions_retry` | retries after deaths and failures: one attempt in flight, one live session | holds |
| `sessions_settle` | two commands of any kind, launches that fail: does every attempt end, and can what a review would reuse be resumed? | holds |
| `review_work` | two processes re-enter two sessions from two worktrees over both surfaces; two stages execute in one store with crashes, repairs and repetitions | holds |
| `review_data` | the ledger, the queues, the worker's calls, searches, launch attempts | holds |
| `local_tools` | the cockpit among other processes, the opening of the store, the files of setup and update | holds |
| `bridge` | two clicks, hosts and children that hang, refuse or are killed: is every click answered, truly, and a launch with the status read after it? | holds |
| `double_post` | is a batch posted at most once when two `rr post` overlap? | violated |
| `bound_not_reentered` | can a bound session be re-entered by its id from its worktree? | violated |

Bounds, and why they are enough.

* Outbound: two drafts are needed for partial deliveries and half-approved
  batches, more only repeat the loops over items. Two editors of different texts
  race for the first revision; `MaxRevisions = 1` stops an edit from *starting*
  once one is stored, and both may be under way by then, so that an approval of
  the first revision also meets the second. The operator, who does one thing after
  another, has two texts and two revisions; two posts are what a double post takes.
  For recovery, two findings, two runs and two batches make a batch of an older
  run, a finding that is in one batch and not in the other, and a race of two
  drafts; one edit of either batch revokes an approval.
* Sessions: three attempts are a start and two re-entries, enough for one to be
  abandoned by another and to conflict with it; four (in the serial run) add a
  retry of a retry. There are as many session identifiers as starts that can
  happen. One submission by a worker is what a re-entry must not hide.
* Re-entry: two sessions, worktrees and processes, two bindings and two entries
  are a re-entry that another one overtakes; the clock moves once, which tells a
  session that was looked at later. Stages: two executions, a prompt that is
  inline and one that is a file, a pack of which repair keeps a part, one repair,
  one repetition; the one raw output is shared by the executions, so its artifact
  is found or raced for.
* Findings: two fingerprints, one of them twice in a pack and one entry without
  a title; two rows, two seconds (events collide within one). Three kinds of
  history (`Scenarios`): everything one at a time, two submissions at once, a
  submission and two triages at once. Queues: one command line and one cockpit
  resolve up to three proposals for two statements.
* Worker: one call with up to two flaws among two findings and two runs. Search:
  two memory items, two pieces of evidence, one change and six kinds of query;
  the worker's limit is larger than the operator's. Launch: one attempt with each
  kind of provider and other Copilots beside it.
* Cockpit: two sessions with two findings and one, two changes to the store.
  Store: four schemas, every version to start from, two openers, one kill, two
  seconds. Host: three releases whose envelopes differ, two browsers, two
  processes with one updater, two commands, one kill.
* Bridge: one click with every action, or two clicks that launch; one killed host.

Symmetry is used where only safety is checked and no definition looks into the
values: drafts and editors, identifiers of sessions and commands, findings and
clerks, and in `review_work` worktrees, processes, pull requests, and the reviews
and stages, which are the same two values there because neither module knows of
the other.

Fairness. `ReapprovalSucceeds` assumes that a command that has started takes its
next step (its steps wait for nobody; SQLite's busy time-out makes them fail at
worst, and that run has no deaths) and that the operator keeps asking (strong
fairness of `ApproveLoad` on the CLI, because an edit may come in between).
`EventuallySettled` assumes the former only, which includes that a provider's
process ends: Roger waits for it without a time-out of its own.
`EveryClickAnswered` assumes only that the extension's `Timeout` runs, a
`setTimeout` of its background worker: hosts and children may hang for ever.

## What the violation runs show

1. `double_post`: two `rr post` of one batch pass the check for posted actions
   before either stores one; both deliver.
2. `bound_not_reentered`: a re-entry that names neither session nor pull request
   resolves the only session of the repository without its binding
   (`storage:7000`), so the resume mints a second binding that equals the first in
   all that is compared. From then on a re-entry by the session's id is ambiguous
   for ever.

## What else the models say of the code

These are consequences of the code, visible in the models' behaviours or in the
lines they were written from, that a reader of the properties should know of.
The properties are worded around them.

Outbound, when commands overlap:

* an edit that looked for posted actions before a post was recorded commits after
  it, on a posted batch; an edit during the `gh` calls changes the digest, so the
  audit row of what was delivered is refused (`storage:4711`);
* a token written after an edit binds the old digest and blocks approval and
  posting until the next edit; after an edit `rr approve` reissues a revoked
  approval while the cockpit refuses it (`storage:4637`, against the comment at
  `storage:4607`);
* two `rr draft` at once put one finding into two postable batches; an item that is
  inserted after its half-drafted batch was posted is shown as posted.

Outbound, one at a time:

* partially posted comments are shown as failed (`storage:127`;
  `posted_action_items` has no caller that stores it), while
  `docs/REVIEW_FLOW_MATRIX.md:383` tells posted and failed ones apart; failed and
  partial posts have no way to be tried again, although `retry_draft_ids` is
  returned;
* the advice to draft again cannot be followed for a finding that was seen again
  in a newer run: it stays with its old batch. Nothing writes
  `refresh_recommended`, nor the approval states Invalidated, Posted and Failed;
* the gate that `rr status` shows counts approved batches of older runs as ready;
  `rr prs` says "posted" after any recorded attempt; taking triage back after
  drafting does not stop approval or posting.

Launch and re-entry:

* an abandoned attempt goes on to be verified, as `update_launch_attempt` does not
  look at the state; hosted rows are stored before the launch, as the comment at
  `cli:9022` says and the launch plan (C1) forbids; a hosted start that died is
  reused by every later `rr review` and can never be resumed (`cli:8798`,
  `cli:8398`);
* a hosted start's last transaction sets `findings_ready` back (`storage:2470`);
  a Copilot resume during which the worker submits findings always ends in
  `failed_session_binding`; a submission that lands after the demotion of a failed
  start makes that session live again; two `rr review` at once start two sessions;
* two resumes may leave the task file on the older run (`cli:10300`), and
  `rr return` adds a run and leaves the task file as it is;
* an inferred re-entry reads the bindings of the candidates (`cli:9530`) and then
  the row whose version it compares (`cli:9626`): a binding of another worktree
  that is committed in between is not noticed, and the re-entry commits beside it;
* a re-entry by repository ignores a stale binding, while `rr status --session`
  is blocked by it; the repair that `cli:18060` proposes is blocked by the same
  binding (only `--fresh` helps); a failed provisional session may be picked over
  a good one that is bound elsewhere; `rr open` asks for a surface nothing binds;
* a verified Copilot *start* may record another process's session: the hook takes
  the newest session directory when its input names none, and no id is expected
  (`src/scripts/copilot-hooks/session-start.sh`); `ReopenedIsOwn` is about reopens
  for that reason. The words "expired" or "not found" of an unrelated crash cause
  a reseed; an interactive resume of a discarded session never does, as its stderr
  is not captured. Codex, Claude and Gemini sessions are names made of the second;
  `attempt_nonce` and `policy_digest` are never compared.

Worker, stages, findings, queues:

* a stale or repeated stage result is accepted; overlapping submissions insert a
  finding twice (`storage:3592` has no unique index behind it), so
  `OneRowPerFingerprint` is about submissions one at a time;
* `worker.request_clarification` is answered and never stored; `worker.search_memory`
  fails where semantic assets are verified; the snapshot is built before the
  request is authorised; what a packet given with `--context-file` lists as findings
  is shown as it is (`cli:3334`; `app-core:2130` compares its header only); storage
  errors on a worker's memory proposals are skipped;
* a rejected proposal may still reach memory through a resolver that overlaps
  (`storage:5598`, status read at `storage:5613`, outside the transaction);
  `rr memory review --session` filters after LIMIT;
* a rejected stage result leaves no raw output and a harness failure leaves no
  `worker_invocation`; a file torn by a crash is kept for ever; a repaired anchor
  changes the fingerprint and makes another finding. `execute_review_stage` is
  called by tests only.

Search:

* nothing writes the `lexical:<scope>` index, so the mode is always
  `recovery_scan` and hybrid is never reported (`cli:11595`); a reply says that
  semantic retrieval is inactive even when it was fused; a torn
  `active_manifest.json` fails every search; anti-patterns never surface; exact
  hits need not rank first; an item whose state changes during the look-up may be
  listed in two lanes.

Store and machine:

* an interrupted `rr init` of a new store may later be refused as too old; a class_b
  upgrade that was interrupted and is finished as class_a leaves the sidecars; a
  crash between ledger row and version wedges the store; a checkpoint of the same
  second overwrites the one before with a half-migrated copy; another command that
  opens the store marks a running attempt `needs_operator_recovery`;
* a fetch that dies or fails while it deletes the old package leaves a part of it
  that setup takes for usable as long as the manifest is there (`cli:5494`), or
  none at all when the move into place fails;
* doctor may report a host complete that cannot run; two updaters with a kill and
  a failed rename can leave no binary (`BinaryKept` is checked with one); a rename
  from a temporary directory on another file system always fails and is rolled
  back; a backup that was left blocks a later update to that version; setup during
  the rename writes a launcher to the backup's path; uninstall leaves the scripts.

Bridge and cockpit:

* a launch told as blocked may go on in the child that outlives its host; "no local
  session" may be told while there are sessions (`cli:3490`); triage, revision and
  clarification go through the bridge although `bridge/src/lib.rs:12-14` says there
  are none; SQLite's busy time-out (5 s) exceeds the probe's watchdog (4 s);
* after a triage whose reload fails the queue shows the old states
  (`tui/src/model.rs:1916`) until it is loaded again, as the notice is all that tells;
* the inspector's history is not loaded again after a triage of the focused
  finding (`tui/src/model.rs:1984`); an unchanged draft that ends in a newline is
  written as a revision and revokes the approval (`tui/src/app.rs:63`); an edit
  of a stale body overwrites a newer one; a draft approved by its id may never have
  been displayed; triage and drafting act on selected rows that a filter hides.

## Proofs

TLAPS proves, for every value of the constants that satisfies the modules' named
assumptions:

| theorem | statement | rests on |
|---|---|---|
| `TypeCorrect` | `Spec => []TypeOK` (outbound) | – |
| `PostingSafe` | `Spec => []PostedWasApproved` | `IInv` |
| `PostableSafe` | `Spec => []PostableWasApproved` | `IInv` |
| `LineageSafe` | `Spec => []OriginalPreserved` | `IInv` |
| `Implements` | `Spec => ContractSpec`, the refinement of `PostingContract` | `IInv` |
| `SuccessIsDelivery` | `MaterializedSpec => []SucceededMeansDelivered` | `DeliveryInv` |
| `NothingWedged` | one operator: `Spec` and `MaterializedSpec => []NoWedgedApproval` | `FreshInv` |
| `NeverTwice`, `AuditHolds` | one operator, nothing dies: `Spec` and `MaterializedSpec => []AtMostOnce`, `[]AuditTrue` | `AuditInv`, `FreshInv` |
| `NothingUnverified` | `Spec => []SessionInv` (sessions) | `LifecycleIInv` |
| `AnnouncementsSeen` | `Spec => []ReentriesSeeAnnouncements` | `LifecycleIInv` |
| `RetriesDoNotPileUp` | one command at a time, no `--fresh`, no worker: `Spec => []RetriesLeaveOne` | `RetryIInv` |
| `WhatIsReusedResumes` | no worker, nothing dies: `Spec => []ReusableIsResumable` | `ResumableIInv` |
| `HonestVersion` | `StoreSpec => []VersionIsHonest` | `UpgradeInv` |
| `MonotonicVersion` | `StoreSpec => VersionNeverFalls` | `UpgradeInv` |
| `TrueJournal` | `StoreSpec => []StoreInv` | `JournalInv` |
| `FinalDecisions` | `QueueSpec => DecisionIsFinal` | `QueueInv` |
| `OneItem` | `QueueSpec => []OneItemPerKey` | `QueueInv` |
| `MemoryIsDecided` | `QueueSpec => []QueuesInv` | `ExplainInv` |
| `GatewaySafe` | `GatewaySpec => []GatewayInv` | `GatewayIInv` |
| `DecisionsSurvive` | `LedgerSpec => DecisionsSurviveSightings` | `LedgerIInv` |
| `AcceptedMaterialised` | `LedgerSpec => []AcceptedIsMaterialised` | `LedgerIInv` |
| `LedgerSound` | `LedgerSpec => []LedgerInv` | `HistoryInv`, `SerialInv` |
| `StagesAreTrue` | `StageSpec => []StageInv` | `StageIInv` |
| `AnswersTrue` | `BridgeSpec => []AnswersAreTrue` | `BridgeIInv` |
| `SuccessIsReadBack` | `BridgeSpec => []OkIsReadBack` | `BridgeIInv` |
| `ViewsAgreeWithCommands` | `RecoverySpec => []RecoveryInv` | `RecoveryIInv` |
| `SentIsNotOffered` | `RecoverySpec => []SentStaysSent` | `RecoveryIInv`, `SentIsDrafted` |
| `QueueOnlyMovesForward` | `RecoverySpec => QueueMovesForward` | `RecoveryIInv` |
| `PickedIsStrongest` | `ReentrySpec => []ReentryInv` | `ReentryIInv` |
| `WorktreesStayApart` | `ReentrySpec => WorktreesDoNotMix` | `ReentryIInv` |
| `LaunchIsSound` | `LaunchSpec => []LaunchInv` | `LaunchIInv` |
| `ReopenedIsItsOwn` | `LaunchSpec => []ReopenedIsOwn` | `LaunchIInv` |
| `ListsWhatItShould` | `SearchSpec => []SearchInv` | `SearchIInv` |
| `TentativeOnlyInAudit` | `SearchSpec => []TentativeStaysInAudit` | `SearchIInv` |
| `CockpitPanesAgree` | `CockpitSpec => []CockpitInv` | `CockpitIInv` |
| `KeysWriteForTheOpenSession` | `CockpitSpec => []WritesAreForActive` | `CockpitIInv` |
| `HostKeepsItsPromises` | one updater: `HostSpec => []HostInv` | `HostIInv` |
| `UpdateKeepsABinary` | one updater: `HostSpec => []BinaryKept` | `HostIInv` |

**OutboundBatch.** None of the properties is inductive: a post relies on reads
that are several steps old. The invariant is `IInv == TypeOK /\ Rows /\
ProcsKnow`. `Rows`: a row carries the text its digest stands for (`RowsBound`,
`LineageBound`); texts of an edited payload are accepted together and a token
exists only for accepted texts (`AcceptedBound`, `TokenAccepted`); an unedited
row is Approved only if its text was accepted (`UneditedAccepted`), which is
needed because an edit leaves rows Approved when no live token exists: only their
digest then tells that nobody accepted them. `ProcsKnow`: what a process that
stands at a phase may rely on, however old its reads: its snapshot belongs to one
digest, is whole if that digest is an edit's, and between the gate and the last
write it was accepted. There is one lemma for each group of actions that touches
a part of `IInv`. `Implements` maps versions to the number of committed edits,
offers to the generated and revised texts, and shows that `ApproveToken`,
`EditCommit`, `PostSend` and `MaterializeInsert` are the steps of the contract and
all others stutter.

The four other properties rest on smaller invariants beside `IInv`. `DeliveryInv`
follows what a poster counts as done to the comments of its own call, for any
number of processes; it needs every draft to have its row, because an item that
`rr draft` inserts after the post has read the rows is of the batch and was not
posted. `FreshInv` (a digest that was read is still the batch's, a live approval is
of it) and `AuditInv` (a command under way saw no posted action and there is none;
each comment has its row or its poster is about to write it) take
`OneOperator == \A p, q \in Procs : p = q`: the runs `double_post` and
`outbound_roles` show what two do to each other. `AuditInv` takes `~CanCrash` as
well: a post that dies after its calls has left no row, and the next one sends
again. `NothingWedged` holds wherever the commands die.

**SessionLifecycle.** `LifecycleIInv` says of every process what it may rely on at
its phase (`Stands`): its attempt is its own and not verified (`OwnAttempts`), the
identifier of a start is minted once (`MintOnce`) and has no row until the start
writes it, a hosted start under way has a row that nothing else can have located,
and what was read of a row still holds unless its version has moved (`ReadRow`).
The last is what makes the comparison of versions in
`finalize_existing_session_launch_attempt` and in the demotion enough. `Evolves`
says what a step may do to rows and attempts; what the other processes know
survives it, so that each action has only its own process and row to answer for.
`NoSessionAssumption` says that the value for "no row" is no row.

`RetriesDoNotPileUp` and `WhatIsReusedResumes` have hypotheses, which the runs'
configurations meet and the code needs. Two commands give up old attempts and
insert theirs in two statements each, so that two may be in flight. A dead hosted
start leaves its row, without a provider session and not failed; and a worker may
announce its findings on a session that has failed, which makes it reusable.
`RetryIInv` says that the one command has the one attempt in flight and that its
session, when it makes one, is the only reusable one; `ResumableIInv`, that a
reusable session has its provider session or a start on its way which will locate
it or demote it.

**StoreUpgrade.** `VersionIsHonest` is not inductive: a slow command writes a
version it worked out long ago. `UpgradeInv` says that the ledger is a prefix and
leads the version (`LedgerLeads`), that whatever is in it was built, and for a
command at each of its phases what it may rely on (`Stands`) — a command can write
row k of the ledger only once, by its primary key, so at most one stands between
row and version (`OneBumps`), and that one finds every earlier step done.
`JournalInv` is what a command carries from the version it saw (`Carries`): its
checkpoint is taken before it begins and its attempt is in the journal before it
applies anything, both under the version it saw, which may be newer than the one
found; it gets past its last batch only when the version is current.

**ReviewQueues.** `QueueInv` ties the request a resolver stands at to the rows:
`Close` compares the status in the same statement that changes it, and memory
items are keyed by statement inside the transaction, which is all that
`FinalDecisions` and `OneItem` need; that two resolvers may both have *read* an
open request does not matter to them. It does to `MemoryIsDecided`, whose part
about the last acceptance is one about resolutions that do not overlap
(`OneAtATime`, inside the invariant): then the request of the one under way is open
from the read to the commit, and the order of the commits is the order in which
memory was written (`ExplainInv`).

**WorkerGateway.** `GatewayInv` speaks of what is stored; a call decides long
before it stores. `GatewayIInv` says of every call at each of its phases (`Sound`)
that one which is about to store, or has stored, was let through by the transport
with a request that has none of the flaws that matter (`Granted`), and so was one
that was shown a finding: the answer waits for the transport although the snapshot
does not. A request never changes, so that stays true while runs and findings move
on. `TransportIsStrict` is the lemma about the checks themselves, for every
combination of flaws.

**FindingLedger.** `LedgerIInv` follows a submission (`Progress`): it has its
audit row, the entries before the one it stands at have rows (`MaterialisedTo`),
and it stands at a row of that entry's fingerprint, or at none. All of it is
stable because rows are only added and keep their fingerprints (`Grows`), so no
other command needs to be looked at. A triage that writes was admitted with
findings left (`Admitted`), which gives it a least one (`LeastNatural`) and its
row. `HistoryInv` says that a triage has logged its decision for all findings it
is through with (`Logs`). `SerialInv` is about commands one at a time, of which any
may still fail or be killed at each statement: a submission about to insert still
finds no row (`FreshWrites`), the row a triage has written has the state it asked
for (`StateSet`), and a row whose state its history does not explain is one that a
triage under way, or a failed one, wrote and did not log (`Explained`).

**StageExecution.** `StageIInv` places what is stored by what wrote it: an artifact
belongs to the try that stored it first (`Owned`), however many share its digest; a
row is by a try that got past its step (`Placed`), and a try past a step has the
row (`InPlace`); a torn file is being written or something was stopped (`Whole`);
an event has all rows and findings of its try behind it (`Reported`).

**BridgeHost.** `AnswersAreTrue` looks at the panel alone, which is answered long
after the deed and sometimes without the host. `BridgeIInv` says of every click
where its host stands (`HostStands`), what the exit of its child means while the
host can still collect it (`ExitIsTrue`), and that an answer and every frame on
the wire are true already (`Truthful`): a success has its effect behind it
(`Did`), a refusal has none and can get none, because the host has ended or the
click was a status probe (`Closed`) and no child runs (`Untouched`). `MostWritten`
bounds the wire. A success of a launch or of `show_findings` names the session
that `rr status` read back (`Mirrors`), from the reply that is being written to
the panel: the set of sessions only grows, so what was read stays true. A step is
about one click: `OthersStay` shows that what is true of the others stays true,
though the sessions and effects are shared, so each action answers only for its
own (`Only`).

**OutboundRecovery.** `RecoveryInv` compares views that are derived from different
rows, and holds in parts only while commands do not overlap. `RecoveryIInv` adds
what a drafting process may rely on (`DraftsFollowRuns`: its findings were
reported in its run or again later, its batch exists and is of that run), that no
item is of a run newer than its finding (`RunsInOrder`), that room was kept for
the batches still to be stored (`RoomIsKept`) and, for commands one at a time
(`OneAtATime`), that a finding is in one batch, an approved batch approved as a
whole, and what counts as posted confirmed draft by draft. `SentStaysSent` needs
one thing more, `SentIsDrafted`: what GitHub has was sent from a draft of that
batch, and drafts stay in their batch through edits, approvals, kills and new
runs. With one batch per finding the batch written last is that batch
(`OneBatchDecides`), whatever the order of the writes.

**SessionReentry.** `WorktreesDoNotMix` relates a commit to a look-up that is many
steps old. `FoundIsThere` keeps the bridge between them: what a process found by
id or pull request is still the only binding of the surface, or still
none, *unless* the session's row changed since, which is what the comparison of
row versions detects. An inferred re-entry promises less: from the choice to the
second read nothing is compared, so `StillBound` says only that the binding it chose
is still there (bindings are never removed), and `WorktreesDoNotMix` is about the
others. `PickedIsStrongest` is about the loop of
`select_unique_strongest_score_index`: `Best` says what it knows after each round
(the best so far, and whether another was as good), and that it does so for every
length of the list is shown by the least round at which it would fail (`WFMin`):
the argument by a least counterexample replaces the induction theorems.

**ProviderLaunch.** `LaunchIInv` says of every attempt that its child and its
evidence fit the order it was given (`ChildFits`, `EvidenceFits`), where its stage
puts it (`StageFits`), and that its outcome fits what is on disk (`OutcomeFits`).
Attempts share the provider's sessions and its session directory; `GrowingSessions`
shows that what other processes open does not disturb what is known of one.

**PriorReviewSearch.** A reply is made of lanes that were read one after another.
`SearchIInv` keeps for each lane which documents its hits may be of and in which
state they were read (`LanesAgree`), and what every lane that was read must hold
(`FoundSoFar`), both for documents whose standing did not change during the search
(`Settled`). That an exact match is never cut off by the lane's limit unless the
lane is full is an argument about finite sets ordered by score, again by a least
counterexample.

**Cockpit.** A key writes about what a screen showed when it was loaded. `CockpitIInv`
says of every pane that it is of the active session while its screen is open
(`ShowsActive`), of the inspector that it is empty or on the focused finding
(`DetailFits`), and that text input and overlays exclude each other (`OneInput`).
The places of the sorted queue are counted (`PlaceOf`), so that "the finding under
the cursor" is unique for every list, filter and sort key.

**HostInstall.** `HostIInv` places the binary of an update: at each step it is at
its path, at the backup's, or both (`UpdateFits`), and every binary on the disk
opens the store that was there (`OpensStore`). Nothing it says depends on packages
being whole, as nothing in the code does. Its two theorems assume one updater,
`\A u, v \in Updaters : u = v`: with two, the `RemoveBackup` of one can delete the
backup that the other needs for its rollback. The run has one updater too. The
assumption `HostConstants` says that the release installed at first can open the
store it finds; without it the first command would be refused and there would be
nothing to keep.

Inductive invariants were checked by TLC on the runs' instances before they were
proved. The proofs need of the constants only what the modules' named assumptions
say: finite sets of clerks, documents and findings, null values that are not
members, bounds that are naturals, limits and scores in the ranges the code clamps
them to.

Only model-checked: the three liveness properties, `ReapprovalSucceeds`,
`EventuallySettled` and `EveryClickAnswered`. Liveness under fairness and ENABLED are
out of the prover's reach. Everything else the passing runs check is proved.

## Not modelled

* The worktree manager: planning functions that nothing in the program calls.
* Configuration: a merge of layers without state of its own.
* The CLI surface: argument parsing, robot output, help. What its commands change
  is in the components.
* Validation, test harness, release and installation scripts: tooling.
* The legacy single-draft tables (`create_outbound_draft`,
  `approve_outbound_draft`) and `posted_action_items`, which no command uses;
  `resolve_clarification_request` is modelled although only tests call it.
* Framing bytes of native messages, rendering of the cockpit's panes (`view.rs`),
  help, notices, finder and picker cursors, texts of prompts and of comments,
  scores of FTS and embeddings, download and digests of archives (a success or a
  failure): input and output, wording or numbers, without a state of their own
  that a property here is about.
* `rr open`'s choice of session, usage-derivation jobs and merged resolution links.

## Plan

1. Outbound, sessions, re-entry, providers, stages, worker, findings, queues,
   search, store, host, bridge and cockpit: done, with the bounds above.
2. Proofs of every invariant and action property of the passing runs: done.
3. Open: an update beside another (`HostInv` for more than one updater, with the
   weaker promise that holds there).
4. Open: an abstract specification of a session as the operator sees it (started,
   findings ready, approved, posted), implemented by `SessionLifecycle`.

To check: `tlc -config X.cfg M` for a run's module `M` and configuration `X.cfg`,
and `tlapm M.tla` for each module of proofs.
