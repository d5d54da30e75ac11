# AI Trading Companion: specifications

TLA+ specifications of the local AI trading companion: the Python runtime in
`src/runtime`, the parts of the WPF desktop in `src/desktop` that talk to it.
Paths below without a directory are in `src/runtime/ai_trading_companion/`.

## 1. The system

One user runs two processes on one Windows machine.  The *desktop* shows
analysis cycles and lets the user write messages; the *runtime* owns every
database, runs the research, and calls models and data sources.  They talk
over a directory exchange (JSON files) and a local HTTP gateway.

A *decision cycle* is one analysis task for one scheduled time:

1. **M0** - the runtime researches and publishes a factual report (a schedule
   starts it early, so that it is ready at the scheduled time);
2. **H0** - during a grace period the user stages messages and commits them
   once; the commit freezes what the user thought before any machine judgment;
3. **M1** - a judgment made *without* H0 (it reads a private snapshot frozen
   before H0), published through gates and kept as a formal result;
4. **M2** - if there was an H0, a synthesis of M1 and H0;
5. conversation, outcome, reflection and memory follow.

Inside the runtime several threads work on one SQLite store: the gateway's
ticker (every five seconds), HTTP commands (serialised by one lock that the
ticker does not take), a conversation dispatcher and a background dispatcher
(one slot each), and a two-worker pool that runs M1 and cognition of H0 side by
side.  Command-line entry points (`consume`, `run-m0`, ...) may run in another
process on the same store.  Every one of them may be killed between two
transactions.

## 2. Inventory

| component | source | state | operations | what is hard | what makes it correct |
|---|---|---|---|---|---|
| command exchange | `exchange.py`, `consume` in `__main__.py`, desktop `CompanionExchangeService.cs` | four directories, retry counts, causal counters, command receipts | reserve, publish, claim, defer, execute, acknowledge, reject, recover | a stop between two renames; a conversation that receives again while the outer loop holds claims; a directory listing that misses a concurrent file | no command lost, causal order, honest receipts, every command answered |
| decision cycle | `engine.py`, `store.py` (`transition`, messages, artifacts), drivers in `__main__.py` | cycle row, messages, artifacts, stage ledger | research ready, stage, commit, lock H0, run due, M1, M2, chat | ticker and HTTP commands interleave; a transition tests no state; several transactions per step | H0 is one batch and final, M1 is blind and single, M2 is grounded |
| scheduled work | `scheduler.py`, `store.py` (`claim_scheduled_workers` ...), `run_scheduled_cycle`, `run_research`, `research_waiting` | templates, cycles before M0, claims, the ticker's batch | prepare, miss, request, pause, move, dismiss, claim, research, retry, finish, recover | a batch runs for minutes on what was read before; an exception ends the batch; late starts | never early, honest misses, a slot is left, every due cycle is served |
| conversation and cognition jobs | `store.py` (`commit_staged_messages`, `claim_cognition_job` ... `recover_stale_cognition_jobs`), `run_chat`, `run_unified_cognition`, `cognition.py` | message batches, the job of the latest words and its lease, streams, replies, action receipts | commit, claim, complete, fail, expire, recover, reply, mark responded | two threads and an expiry after ten minutes; what is read before and what after; a stop between any two of a dozen transactions | a lease excludes, responded means answered, every batch is taken up |
| background work | `_BackgroundDispatcher`, `run_background`, `_foreground_busy`, `run_chat_research` | one slot, research jobs, shadows, outcomes | submit, defer, run by priority, retry | check, then minutes of work; a job finished before its reply | gives way to the foreground, a finished research is delivered |
| outbox | `flush`, `queue_event`, `gateway.py` change log | outbox rows, to-client directory, cursors | queue, send, mark, read after a cursor | concurrent flushes, a stop between send and mark | every event at least once, in order |
| schedule registry | `schedule_registry.py`, `store.py` (schedules, snapshot, repair) | templates, revisions, snapshot file | create, update, pause, archive, repair | two writers; database and snapshot file disagree | no lost update, a repair loses no change |
| portfolio | `portfolio.py` | positions, transactions, proposals | commit, replace a snapshot, revert, cancel | reads before the transaction | position = folded transactions, a source once |
| stage ledger | `store.py` (`start_stage` ... `rollback_stage`), `cycle_contract.py` | stage runs | start, complete, skip, fail, roll back | idempotence by key | one open run per stage |
| tools | `tooling.py`, `tool_lifecycle.py`, `tool_manager.py` | current version, health, circuit per cycle | resolve with fallback, publish, roll back | publication with readers, health files | a failed canary changes nothing |
| memory service | `memoryhub/`, `memory_port.py`, `memory_write.py` | append-only episodes | append, query, derive | second process, retries | idempotent appends |
| learning and governance | `lesson_promotion.py`, `governance.py`, `runtime_strategy_policy.py`, `router.py`, `outcomes.py` | candidates, trials, shadow jobs | propose, observe, promote, roll back | order of trials and promotion | no promotion without its gate |
| research, gates, packets, broker, observatory, backup, desktop views | the rest of `runtime/`, `src/desktop` | files, JSON, network | - | data, not control | represented by their outcomes |

The modelled rows are the first five, the schedule registry and the portfolio; the others are listed in `PROJECT.json`
with the reason, and the hazards found in each with their line.

## 3. Modules

| module | models |
|---|---|
| `CommandExchange` | the file exchange and the `consume` loop, both ends |
| `CommandDelivery` | what the exchange promises the desktop: the abstract specification `CommandExchange` implements |
| `CommandExchange_proofs` | its theorems |
| `DecisionCycle` | one cycle from M0 to M2 at the grain of store transactions |
| `JudgmentPipeline` | what a cycle promises its user: the abstract specification `DecisionCycle` implements |
| `Preparation` | how a cycle's row gets to its report: the abstract specification both `DecisionCycle` and `ScheduledWork` implement |
| `DecisionCycle_proofs` | its theorems |
| `DecisionCycle_refinement` | the proof that it implements the pipeline, and what it needs |
| `DecisionCycle_ledger` | the proof that the stage ledger agrees with the row |
| `ScheduledWork` | how cycles get to their M0: registry, requests, claims, retries, misses |
| `ScheduledWork_proofs` | its theorems |
| `Portfolio` | the ledger of trades and snapshots: commits, receipts, undo |
| `FactualLedger` | what the portfolio promises without threads and transactions: the abstract specification `Portfolio` implements |
| `Portfolio_proofs` | its theorems, and the proof that it implements the ledger |
| `Conversation` | committing, answering and recovering the batches of a conversation, and its public research |
| `Conversation_proofs` | its theorems |
| `ScheduleRegistry` | templates, revisions, the snapshot file and the repair from it |
| `ScheduleRegistry_proofs` | its theorems |
| `MC...` | constants for TLC |

The three detailed modules meet at the cycle row.  `ScheduledWork` follows many
cycles up to M0 and treats what comes after as over; `DecisionCycle` follows one
cycle, takes for granted that it was started, and treats M0 research as one
thread's step; `CommandExchange` follows commands whatever they do.  That the two
views of the row agree is `Preparation`: created once, researched, put off and
researched again, published once, or missed or failed for good.  Both modules
implement it, each by its own `ImplementsPreparation`: the scheduler for all cycles
with its claims and retries, the cycle with every later handler that writes the
same row.
What one module simplifies another one has in detail: the claim that precedes
the research is in `ScheduledWork`, the delivery of a command that
`DecisionCycle` handles is in `CommandExchange`; the actions `Conversation`
executes in one step (`Complete`) are in `Portfolio` transaction by transaction, and
the templates `ScheduledWork` reads are edited and repaired in `ScheduleRegistry`.

### CommandExchange

State: the directories as sets of commands (`pending`, `processing`,
`processed`, `dead`, `quarantined`), `causal-retries.json` (`retries`), the
desktop's counters (`nextSequence`, `writing`), the loop's memory (`batch`,
`current`, `controls`, `control`, `pc`, `recovered`) and the store (`applied`,
`receipted`, `told`).  Each action is one rename, one write or one transaction,
so that `Crash` may fall between any two of them; only the recovery that begins a
scan is one step (`StartScan`), since a stop inside it leaves files the next one
moves.  Any call of the loop may also raise (`Raises`): before a command is
acknowledged the loop's handler puts it in dead-letter and tells the desktop
(`HandlerRaises`, `LoopRaises`, then `Reject`, `RemoveBuried`, `ReportFailure`), whatever
receipt is stored or told by then; in that handler itself (`RejectRaises`), after the
rename (`ClearRaises`), in a conversation (`ControlRaises`) and in a scan
(`ScanRaises`) the error is swallowed or ends the pass.  `raised` remembers the commands
at which it happened.  `seen` stands for a directory
listing made while the desktop writes: it may show a later file without an
earlier one.  Inside a conversation (`Chat`) the runtime polls for stop
commands, which claims and recovers files the outer loop still holds.

`CommandDelivery` is the same without files, scans, claims, retries and stops: a
command is sent, takes effect in its turn (or interrupts a conversation of its
cycle), its receipt is stored, it is completed or buried, and the desktop is told.
`ImplementsDelivery` maps onto it (`Delivery`): effects are `applied`, and a number
counts once its command is written.

### DecisionCycle

State: the columns of the row that guards read, messages and their phase, the
formal artifacts as counts, the stage ledger, the portfolio as before or after
H0, deadlines passed (`clock`), and for every thread what it holds in memory:
`pc`, `row` (the row as it read it), `taken` (the messages it selected),
`tries`.  Every store transaction is an action; what is read once and used later
is in `row` and `taken`.  The three threads are the ticker (which also executes
the commands of the file exchange), one HTTP command at a time, and the
background worker.  A run of M1 that raises either records its failure
(`PrepareFails`) or does not (`RunRaises`, `__main__.py`:2441-2457), and then
the cycle stays as it is until the next tick; `unrecorded` remembers that the latest
run ended so.

### ScheduledWork

State: `clock`, the current revision of each template (`plan`), the state of each
cycle before its M0 is published, its due time, dismissals (`hidden`), the
claim table (`claims`), and the ticker: whether it is idle, works on its claimed
batch or reads the registry, with the rows and the time it read.  A tick is
`ClaimScheduledWorkers`, then for each cycle of the batch `Prefetch`,
`RefuseProfile`, `StartRaises`, or `StartResearch` followed by one of the ends of
`run_research`, then `ReadSchedules` and one action per row.  `Stop` and
`StartGateway` may come between any two steps.  The order of the claim query
compares text in the code: requests and retries are stamped in UTC and
occurrences in Shanghai time, so the former read eight hours earlier (`Zone`);
`SortKey` says so.  The tie-break on creation time is left open.

### Portfolio

State: the committed `hold` (each code and the cash account: never known, absent
or an amount) and `ledger` (the rows of `portfolio_transaction`, with the mark an
undo leaves on them), the write lock (`owner`) with the uncommitted `draft` of the
thread that holds it, what each thread has in memory (`work`: the resolved plan
and the positions it was resolved against, the group it picked) and the action
receipts.  A thread of `Teller` goes through `Tell`, `Begin`, `WriteRow` for every
row, `Commit` or `RowRaises`, `SaveReceipt`; one of `Undoer` through `PickGroup`,
`BeginUndo`, `RevertRow`, `CommitUndo` or `UndoRaises`.  A row carries the millisecond of the row before it or
a later one (`Stamps`), whichever transactions they are of: rows of one transaction are
written microseconds apart and mostly share theirs, and the order of their random ids is then a
choice (`UndoOrders`).  Prices and costs are left out; what raises for them is not: an
average over zero shares, and the correction of a new position that comes without
either (`RowRaises`).

`FactualLedger` has the three tables alone, each mapped to itself: a step records a
whole message, undoes a whole one or answers an action.  The threads, their drafts
and the lock are what `Portfolio` hides behind it.  A message is whole there by the keys
of its rows, as in the code, so that what `AppliedIsTrue` asks of two actions of one
message is not part of it.

### Conversation

State: `batch` (draft, pending, responded), the commit each committer is in the
middle of (`committing`: submitted, then appended to `artifacts`, then `linked`),
the cognition `job` and the `research` job of each batch's words, open streams
(`streaming`), complete replies (`answers`), and what each worker has in memory
(`work`).  The workers are the conversation dispatcher, the thread the ticker starts
for a batch it committed itself, and the background dispatcher.  `run_chat` is cut
where the code commits or reads: `ReadBatches`, `ReadSource`, `StartJob`, `Claim`,
`OpenStream`, `Complete` or `Fail`, `QueueResearch`, `FinishStream`, `Reply`, `Mark`.
`ExpireLease` ends a lease after ten minutes, of a live worker too, and
`finish_cognition_job` goes by the job and not by its lease (`Finish`); `lapsed`
remembers the jobs to which that happened.  `Recoverable` is the query of the
dispatcher.  `Stop` drops what is in memory, between any two steps.

### ScheduleRegistry

State: `template` (status, version, current revision), `revisions` (their
configurations), the files `current.json` and `current.tmp`, the command each of
two threads executes (`work`), and the `repair` under way.  A command is
`Command` (the user has seen the template), `Check` (the SELECT, outside any
transaction), `Update` or `SetStatus` (the transaction; the primary key of the
revision may refuse it), then `ReadRows`, `OpenTemp`, `FillTemp`, `Replace` for the
snapshot.  `current.tmp` has one name for all threads: a snapshot may be written
over another, and on Windows the move fails while another thread holds the file.
`Start` and `Discover` validate; `Load`, `Apply`, `Revalidate` repair, `GiveUp` ends a
start that cannot be repaired.  `original`, `outdated` and `missed` are history:
what was accepted, which commands a repair has overtaken, whether a snapshot was
lost.

## 4. Runs

All passing runs check deadlock where the system cannot stop; where it may
(all commands done, all cycles ended, all batches settled, no more edits) the
configuration says so.

| run | configuration | question | bounds and why they are enough |
|---|---|---|---|
| `exchange` | `Exchange.cfg` | is any command lost, buried by a race or executed out of turn or after its receipt; does it deliver what `CommandDelivery` says; is every command settled and answered | three commands of one stream (a conversation, one that fails, its stop command) and an unreadable file without stream, one stop of the runtime or one raising call of its loop (`MaxTroubles`), one stop of the desktop: three in a stream are needed for a gap with a successor waiting behind a waiting one; the proofs cover any number of stops and raises together |
| `exchange_applied_once` | `ExchangeAppliedOnce.cfg` | *violation*: a command may take effect twice | two commands, one stop |
| `cycle` | `Cycle.cfg` | over one stop anywhere: H0 final, M1 stays, M2 grounded; without it: lock is one batch, ledger agrees | two messages (one in a batch, one beside it), one M0 wait, two judgments, two syntheses; symmetry over messages, safety only |
| `cycle_http` | `CycleHttp.cfg` | with HTTP commands beside the ticker: M1 blind, single, submitted words final, and does the row go through its preparation once | one message, one judgment: two threads that lock the same cycle are what matters |
| `cycle_live` | `CycleLive.cfg` | does the window close, is H0 judged, is the pipeline implemented | commands on the ticker, no stop; an edit, a wait, retries |
| `cycle_h0_final` | `CycleH0Final.cfg` | *violation*: an HTTP handler reopens a locked window | smallest |
| `work` | `Work.cfg` | are claims bounded, research never early, misses honest, retries in their window, every due cycle served | a 14:30 template that may be moved, two requests (one malformed), two slots, one edit, one stop or exception: three cycles compete for two slots, the fourth occurrence exists when the template moves; five instants: preparation, slot, end of the window, deadline, midnight |
| `portfolio` | `Portfolio.cfg` | does the ledger tally, does it only grow, are receipts true, does an untouched snapshot zero what it omits, does an undo take back exactly its group, does all of it implement `FactualLedger` | three messages (sold and bought back; all that is held; a new code bought twice), of which any two are recorded (`MaxMessages`), two threads that execute them, two that undo, any shared milliseconds, stops at any time: two threads are what an overtaken read needs, two messages what an undo may mix up, and two rows of one code in a message what equal times may reverse |
| `portfolio_receipts` | `PortfolioReceipts.cfg` | *violation*: the second portfolio action of a batch is skipped and its receipt says applied | one batch of two actions |
| `conversation` | `Conversation.cfg` | does a lease exclude, does anything but a fault cost one, is responded answered, is a finished research delivered, is every linked batch taken up | two batches, the second committed by the ticker, two attempts of a job and of a research, one failure, early expiry or stop anywhere (`MaxFaults`): two batches are needed for words younger than the batches read, one fault already separates every two transactions |
| `conversation_answered` | `ConversationAnswered.cfg` | *violation*: a batch committed while another is read is never answered | two batches, no fault |
| `registry` | `Registry.cfg` | does an accepted update replace what its user saw, does a revision keep its content, is the snapshot current, does a repair take anything back | a default and a template the user creates, two configurations (symmetric), two commands on two threads, two damages or stops: two commands are what overlaps, a damage and a stop are what a repair at a start needs |

The counters in the models (`MaxRetries`, `MaxJudgments`, `Limit`, ...) are the
code's own limits with smaller values; `MaxCrashes`, `MaxTroubles`, `MaxGaps`, `MaxEdits`,
`MaxM0`, `MaxM2`, `MaxFaults`, `MaxMessages` and `LastTime` are bounds of the exploration and are
named as such.  Every property is broken by at least one plausible change of the
code; `PROJECT.json` lists the change under `mutants`, and the changed operators
stand beside the ones they replace (`AbortUnreleased`, `LateAtTarget`, ...).

### Fairness

* `CommandExchange`: `consume` runs in every tick and a conversation has a
  deadline, so the loop always takes its next step.  Nothing is assumed of the
  desktop: `EverySettles` and `EveryAnswered` speak of the commands it has published.
* `DecisionCycle`: each tick first runs the due locks, then the pending research
  and M1, and only then commands.  A user who writes all the time must not
  disable them, which the order of the tick guarantees, hence strong fairness
  for these three and weak for the rest.  The background worker has none: M2
  may be put off for ever by foreground work, and nothing is claimed of it.
* `ScheduledWork`: the ticker's coroutine catches every exception and ticks again
  after five seconds, every model call in a tick has a timeout, and time
  passes.  `StartGateway` has no fairness: `run_companion_service.ps1` runs the
  gateway once, and the desktop starts it only when its window is opened.
  `DueServed` therefore speaks of a gateway that is up.
* `Conversation`: commits go on to their end, the dispatcher is offered work in every
  tick, the thread started with a commit runs on, every model call has a deadline,
  the background dispatcher takes its slot when the foreground leaves it, and a lease
  that nobody holds expires.  Here a stopped gateway is started again (`Restart`):
  `TakenUp` is about what a recovery finds.  A lease of a live worker need not expire.
* `Portfolio` and `ScheduleRegistry` state safety only.

## 5. Proofs

TLAPS proves, for all values of the constants:

* **CommandExchange**: `TypeCorrect`; `CommandsConserved` (no command is lost),
  by `Located`, which also says where the loop's own commands are between two
  renames; `CausalOrderHolds`, whose invariant adds that the command
  the loop is about to execute has a settled predecessor and that a settled
  command stays settled; `ReceiptsTruthful`, by `Truthful`; and the action
  property `ReceiptedNeverReapplied`.  With `MaxRetries > 1` (the code has 3),
  `ValidCommandsSurvive`, by `Claims` (until a conversation polls, the whole batch is
  claimed; afterwards none of it is) and `Raced` (a command deferred once is claimed
  next together with all its unsettled past), and `EffectsFollowTheUser`, by `InLine`.
  Both speak of streams of any length, which the run's three commands do not.
  `ExchangeDelivers` (`Spec => ImplementsDelivery`) maps every step to one of the
  delivery's or to a stutter (`DeliveryStep`), by `Delivering`: what the loop holds
  between an effect and its receipt, or between a receipt and the acknowledgement, can
  be read and has come as far as the loop's point says.  The price of a stop is
  exact: `StopsBoundEffects` (a command takes effect at most once more than the
  runtime stopped or a call of its loop raised), by `Paid`; hence
  `AppliedOnceUnlessStopped`, which says that stops and raising calls are the only causes
  of the finding in `exchange_applied_once`; and `EachStopRepeatsOne`: over any number of
  them the repeated commands are no more than they are, although a stop drops a whole
  batch, by `FewDisturbed`.  Calls that raise are no exception to these theorems; where
  one breaks what is promised, the property says what it may do:
  contradict a receipt of the command it raised at (`ToldTheTruth`), dead-letter that
  command and cost those behind it their attempts (`Afflicted` in `ValidNeverBuried`), or
  let those behind it pass those before it (`EffectsInOrder`).
* **DecisionCycle**: `TypeCorrect`, with `AttemptLeft` (a thread about to note
  a failed attempt has one left); `SubmittedWordsFinal`; `M1IsBlind`, by
  `BlindInv`: cognition starts after the lock and the lock freezes first;
  `FormalJudgmentsSingle`, by `SingleInv`: a thread about to publish
  finds nothing published yet.  Some of what the pipeline promises holds for any
  channels and stops: `NamedH0IsSealed`, by `SealInv` (a thread that commits
  keeps a batch of one phase, and seals what it submitted before it names it);
  `SynthesisRestsOnBoth` (a formal M2 has one qualified M1 and a sealed H0), by
  `RestInv`; and `ReportPublishedOnce` (`Spec => ImplementsPreparation`), by `PrepInv`:
  until the report no thread remembers a window, a lock or a judgment, so that a
  stale row, which can reopen a window, cannot undo the report.  Further, for a cycle whose commands are executed by the
  ticker (`ASSUME Channels = {"tick"}`), `LockedH0Final` and `PublishedM1Stays`, by
  `SerialInv`: what a thread remembers of the row still holds when it acts.  The
  assumption is needed: `cycle_h0_final` is the counterexample without it.
  Under it, `DecisionCycle_refinement` proves `SynthesisIsGrounded`, by `GroundInv`
  and `FreshInv`, over any stop; and, until a first stop, `LockIsOneBatch` and
  `NoMessageStranded`, by `BatchInv`: the words of H0 are in the draft until they are
  all submitted, then in the hands of the ticker that locks, then in the artifact.
  `CycleIsPipeline` (`Spec => ImplementsPipeline`, with `MaxCrashes = 0`) follows: a
  step is one of the pipeline's six (`Seen`: writing a note, the lock at its
  transition, the two publications, opening and aborting) or leaves what the user
  sees alone.  `DecisionCycle_ledger` proves `LedgerTellsTheStory`: `LedgerInv` says of
  each status whether its entry is written, or which thread is between the
  transition and the entry.
* **ScheduledWork**: `TypeCorrect`, and
  the bound on claims in `SlotLeft`, which needs that a batch is disjoint from the
  claims and fits the free slots (`BatchFits`); `OneSlotLeft`, because the raising cycle gives its own slot back
  (`ReleaseFrees`); `ResearchNeverEarly`, `RetriesInWindow` and `MissesHonest`, by
  `TickerInv` (the batch is due, the clock reading is of the past, rows are held
  only while no cycle is worked on) and `DueInv`.  `CyclesPreparedOnce` (`Spec =>
  ImplementsPreparation`): a cycle the ticker works on is one of its batch, and a batch
  is taken from what waits.

* **Portfolio**: `TypeCorrect`, with `UndoReady` (the rows an undo is about to
  reverse are in force and follow their group); `LedgerAccounts` (each holding is
  what the last row about it says), which needs the same of the draft, since rows
  are appended to a draft that was opened on the committed state; and the action
  property `AuditTrail`: the ledger only grows but for marks, no change is recorded
  or reversed twice.  `FreshCommitsDoAsTold` follows a plan row by row: by `Progress`,
  what the draft holds of an account depends on which of its changes are written.
  `UndoneCleanly` shows `UndoKeepsOthers`, by `ChainInv`: times never go back (`Timed`), so
  that an undo has a whole group in hand and an older row first only for one time;
  what it takes back next is the newest row in force of its account (`GroupInHand`,
  `UndoneSoFar`), unless two changes of an account share their time.  It assumes nothing
  of the times but that the clock is not set back.
  `ReceiptsApply` proves `AppliedIsTrue` when no two actions come from one message
  (`OneStatementEach`; `portfolio_receipts` is the counterexample without it): the rows of a
  message do what its changes say, from whichever attempt they are (`Faithful`).
  `LedgerOfFacts` (`Spec => ImplementsLedger`) does not need that assumption.  By `DraftInv`
  what an open transaction has written is always a part of one abstract step: all of
  a recording but its completeness (`Writing`), or the reversal of the rows before
  the next one (`Reversing`); a commit finds the part whole, and every other step of a
  thread leaves the tables alone.  That a receipt is true of the rows follows from
  the invariant `ReceiptsApply` rests on, which is split so that this half asks nothing
  of the messages.

* **Conversation**: `TypeCorrect`, with where each worker may be given the job,
  research and batches it works on; `LeaseExcludes`: a worker that leases holds the
  attempt the job counts, unless the job lapsed; `LapsesAreFaults`, by `FaultFree`:
  without a failed call or an early expiry a thread that goes on without a lease
  works on a job that is complete, so that it ends nobody's; `LeasesHold` joins the
  two: until a fault no two threads ask about the same words under leases, over
  any stops; `RespondedTruly`: who is about to
  mark has replied; `ResearchReaches`: a finished research whose batches wait has its
  worker before the reply.
* **ScheduleRegistry**: `TypeCorrect`; `HistoryStands`, by `HistInv`: every copy of
  the registry, in a file or in memory, names revisions that exist and holds what
  was accepted; `UpdatesReplaceWhatWasSeen`, by `OnSeen`: revisions only grow while a
  command waits, so that the number after the one it saw is free only when it is
  still the current one; `SnapshotKeepsUp`, by `SnapInv`: threads that will still write
  have the rows in memory, and the last of them moves what it wrote itself;
  `RepairsRestore`, by `HealInv`: while no snapshot was lost, a revision that the
  snapshot holds damaged is damaged in the registry too, so that what a repair
  writes over a sound revision is what stands there.

Assumed are the named `ASSUME`s of the modules: types of the constants, positive
limits, finite sets of templates and requests.  Only model-checked: liveness
(`EverySettles`, `EveryAnswered`, `WindowCloses`, `H0Judged`, `DueServed`, `TakenUp`),
which TLAPS cannot do.  Every safety property of a passing run has its theorem;
`CausalOrder` and the `ImplementsPreparation` of `ScheduledWork` have a theorem and
no run: the first follows from `ImplementsDelivery` in substance, the second TLC
found to hold under `Work.cfg`.  Type correctness is proved for every component and is
in no run.

## 6. Where code and documents disagree

1. A stop between a command's effect and its receipt lets it take effect twice,
   although the gateway document calls commands idempotent
   (`exchange_applied_once`).  It takes a stop, and each stop repeats at most one command
   (`AppliedOnceUnlessStopped`, `EachStopRepeatsOne`).
2. An HTTP handler that read the row before the automatic lock reopens the H0
   window of a locked cycle (`cycle_h0_final`).
3. The keys of a portfolio row are the source artifact of the whole batch and
   the index of the change in its action: of two portfolio actions of one batch
   the second is skipped, and its receipt says applied (`portfolio_receipts`).
4. `run_chat` reads the pending batches and then the latest words.  A batch
   committed in between gives its words to an answer that does not cover it: its
   job is completed, the batch stays pending, and the recovery query looks for
   failed jobs and for batches without a job only (`conversation_answered`).

Found with runs that are not kept: a conversation executes a stop command without
the test of its predecessor that `__main__.py`:3991 promises, and the settled stop
lets its successors pass: with a chat, a message, a stop and another message the
second message may take effect before the first, hence the condition of
`EffectsInOrder` (`Follows`); the handler of the loop (`__main__.py`:4105-4110) takes every
exception before the acknowledgement for a bad command, so that a flush, a queued
event or the rename of `acknowledge` (4055-4063) that raises dead-letters a command
whose effect and receipt are stored, and tells `permanent_failure` of what was told
`submitted` (hence `raised` in `ToldTheTruth`, `ValidNeverBuried` and `ImplementsDelivery`),
and one that raises at a command waiting for its turn dead-letters it and lets its
successors pass its predecessors (`Afflicted`); a raise in the saving of a receipt
inside a conversation, or in the last removal of `reject`, leaves the command claimed, and it
takes effect again without any stop; a raise that leaves a command in processing may
cost its successors their attempts; when one of two stop commands raises in
three conversations of one stream, the other, which is valid, is dead-lettered
(`Abandoned`); a stop between submitting the H0 batch and the
transition leaves submitted words that belong to no H0, although the design calls
the lock atomic; when M1 raises after an automatic lock, the cognition of H0 is
skipped; `_foreground_busy` takes a claim for evidence of a live worker, and an
exception leaves the rest of its batch claimed until the gateway starts again;
README.md:39 limits the recovery of a formal time to 15 minutes, the claim query
has no such limit and runs before the registry; portfolio rows of one millisecond,
which is the rule within a transaction (`store.py`:107), are undone in the order of random
ids (`portfolio.py`:571), so that half of the undos of two changes of one code leave a
position that never was, although a test of `revert_latest` has it restored
(`OlderFirst` in `UndoKeepsOthers`; without it TLC shows sold-and-bought-back undone to
nothing held); a batch may get two complete replies
(`docs/architecture/APP_DEVELOPMENT_PRINCIPLES.md`:40) when the dispatcher and the
ticker's thread both hold its job after an expiry; the recovery runs a failed job
past its attempt ceiling when an older linked batch has none (`__main__.py`:719-721);
two changes of status may both be accepted on one version, since the comparison is
outside the transaction (ADR 0012 asks for optimistic concurrency).

Also met, without a document that says otherwise: `run_m1` records no failure when it
raises before the research or for an error of it other than `MemoryResearchError`
(`__main__.py`:2441-2457), the cycle is then taken up again only until the publish
deadline (`store.py`:1091-1096) and stays in `researching_m1`, neither judged nor waiting
for repair (`unrecorded` in `H0Judged`); a lock over HTTP after the
publish deadline is not picked up for M1; a stop during `judging_m1` or
`researching_m0` leaves the cycle there; a command whose
effect was committed before its handler raised is reported as failed; an
occurrence prepared before its template was moved is neither missed nor
withdrawn, it is researched at its old time; a day on which the gateway was
down leaves no record of a miss; retries and requests sort before occurrences.
In the portfolio: two sales of one code in one message may sell more than is
held; a code that a message buys twice for the first time can never be undone,
and as the newest group it blocks every later undo (`UndoRaises`); a trade that
commits between the choice of a group and its undo is overwritten by the older
value; a change whose receipt was lost to a stop is found applied and its repeated
sale is reported as needing input.
In the conversation: learning the next schedule builds a second runtime, which
fails the streams of answers being written (`__main__.py`:3136), and those answers
are lost although their job is completed; an answer that cannot be presented leaves
its stream open, and `_foreground_busy` holds the background work off until a
restart; a thread that meets a completed job goes on without a lease; a research
job is finished before its reply is published, so that a stop in between loses the
reply; a stop between the creation of a job and its lease leaves it queued for
ever, and one between the transactions of a commit leaves a batch no query finds.
In the registry: after a repair to an older revision every update raises on the
taken number, for good; a repair takes
versions back, so that an old version may be valid again; a snapshot that fails
makes a committed command be reported as failed; a snapshot taken after the damage
contains it, and the next start fails.

## 7. Not modelled, and why

* In `CommandExchange`: a second `consume` process run by hand; the health file of the
  tools, written in the same loop.
* In `DecisionCycle`: the composite commands `submit_h0` and `submit_voice_h0` kept for
  older desktops, daily conversations without a cycle, the message that
  completes a manual analysis, dismissal, the `synthesize` command line run
  beside the gateway, the second attempt inside one M0 research, and an error of
  the store in recording a failure.
* In `ScheduledWork`: the next day; calendars and the arithmetic of target times;
  `run_daily_schedule` and `run_periodic_schedule`, which only tests call; the text
  of a template; several exceptions before a research on top of a stop
  (`MaxFaults` counts both).  An exception that recurs in every tick before the
  research begins would keep its cycle first in the query for ever.
* In `Portfolio`: prices and costs, proposals that wait for input and their
  cancelling, portfolio events, interpretation jobs (used by tests only), rows
  written before groups existed, imported positions without a price, and a clock that
  is set back.
* In `Conversation`: what a reply says, the memory research inside a call, premarket
  batches and those a manual analysis owns, and the other background work, which
  runs in order of priority and writes only its own tables.
* In `ScheduleRegistry`: the first seeding (later ones find every default), task
  keys, the reason of a status, and the queries.  The move of a file held open is
  that of Windows, where the program runs.
* Outbox, tools, stage ledger, memory service, learning: next in the plan below.
  Two hazards of them have no property yet (`PROJECT.json`).
* Data and I/O: research, gates, packets, prompts, broker, desktop views, backup.
  Their outcomes are nondeterministic choices where the modelled code branches.

## 8. Plan

Done, in this order: `CommandExchange` (every command passes it) with `CommandDelivery`, `DecisionCycle`
with `JudgmentPipeline` (the product's promise), `ScheduledWork` (what starts a
cycle) and `Preparation` (where the two meet), `Portfolio` with `FactualLedger` (what the user's words change), `Conversation` (how they are
answered), `ScheduleRegistry` (what the ticker reads).  Next:

1. `Outbox`: `queue_event`, `flush` by several threads, marks, the desktop's
   acknowledgement and the gateway's cursors.  Abstract specification: a log
   that a reader sees without gaps.
2. `ToolFallback` and the attempts of the stage ledger, as pure state machines.
3. The memory service: idempotent appends from a second process.

