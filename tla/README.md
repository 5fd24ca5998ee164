# Formal model of the credit-scoring MLOps platform

The repository is a credit-scoring service with its training pipeline and an
"AI Engineering" control plane that lets an agent propose engineering actions
which a human approves and Kubernetes executes. This directory holds TLA+
models of the parts where several actors share state, TLC configurations that
check them on small instances, and TLAPS proofs for every value of the
constants. Source paths below are relative to the repository's root.

## Inventory

| Component | State | Operations | Interacts with | Hard behaviour | What makes it correct |
|---|---|---|---|---|---|
| Approval store (`ai_engineering/storage/approval_store.py`) | one row per approval: status, `execution_started_at`, result | create, decide, claim, mark, claim retry, recover stale | every handler; row locks | concurrent claims, stale leases | legal life cycle, one owner, settled is final |
| Audit trail (`services/audit_service.py`, `storage/audit_store.py`) | append-only events per trace | record | every handler; a transaction of its own | crash between a change and its event | no event contradicts the row; outcomes are recorded |
| Kubernetes executor (`tools/kubernetes_executor.py`) | none; the Job is in the cluster | apply, get status | `kubectl` | timeouts, late effects, wrong answers, TTL deletion | one Job per approval |
| Approval API (`api/agent_service.py`) | none of its own | request, decide, execute, reconcile, retry | store, audit, executor | several requests at once, callers that die | training only after approval, once |
| Reconciliation service (`services/reconciliation_service.py`) | none of its own | reconcile, retry_if_absent | store, audit, executor | decisions from stale reads | abandoned work only is taken over; every row settles |
| Reconciliation worker (`workers/reconciliation_worker.py`) | a PostgreSQL advisory lock | run_once, run_forever | reconciliation service | lost sessions, batch limit, failing items | who reconciles holds the lock; settled is final; rows within reach are reconciled |
| Kafka consumer (`services/kafka_consumer/scoring_consumer.py`) | position, committed offset, producer queue, scoring rows | poll, score, produce, commit | Kafka, database | crashes, failed commits, failed scoring | accounted-for offsets, bounded duplicates |
| Tool-calling agent (`llm/tool_calling.py`, `tools/registry.py`) | conversation, tools used, the events of its trace | run | model, tools, audit | failures inside the loop, events in transactions of their own | every call is answered; no tool acts unannounced; trail, answer and metric agree |
| Execution trace (`services/execution_trace.py`) | open or closed | one method per event | audit | a record that raises | nothing is recorded behind the end |
| Promotion workflow (`workflows/model_promotion_workflow.py`, `tools/mlflow_tools.py`) | the champion alias in the registry | evaluate, promote | MLflow, retraining DAG | read-then-set of the alias | the champion has finished; going back needs a race |
| Data pipelines and DAGs (`dags/`, `src/data`, `src/features`, `src/explainability`) | raw data, `train.csv`, `test.csv` of one directory | restore, validate, build, read back | Airflow, training scripts, reports | runs that overlap on unlocked files, killed tasks | a run works on what it validated; overlap leaves one version |
| Drift report and retrain signal (`src/monitoring/drift_report.py`, `agents/monitoring_agent.py`, `services/api/main.py`) | an HTML and a JSON file | write; read by `/metrics` and the monitoring agent | DAGs, agents | absent, half-written, old and mixed-up signals | report and signal agree; the agent takes no silence for an answer |
| Training and promotion (`src/training`) | MLflow runs, aliases | train, select, promote | MLflow, Airflow | failing tasks, two runs of the DAG at once | a pipeline promotes its own model or a later one |
| Scoring API (`services/api`) | one log row per request, counters and gauges of the process | score, metrics | model, database | concurrent requests, commits that fail or may have succeeded, restarts | answers are logged, counters add up |

The rest is under "Not modelled".

## Modules

| Module | Models |
|---|---|
| `ApprovalIds` | the identifiers that the three tables share |
| `ApprovalLifecycle` | abstract specification: what the approval gate promises, to its handlers and to the workers |
| `ApprovalStore` | the approval table, one action per store method |
| `AuditTrail` | the audit table, as the set of events in a trace: the type of each, and the status that the end of a reconciliation carries |
| `TrainingCluster` | the training Job and the executor's view of it |
| `ApprovalExecution` | composes the three: API handlers and reconciliation, step by step |
| `MCApprovalExecution` | symmetry of the clients, for TLC |
| `ApprovalExecutionProofs` | theorems about `ApprovalExecution` |
| `ApprovalSettlingProofs` | theorems about `ApprovalExecution`: what its liveness rests on |
| `ReconciliationWorker` | the worker replicas: advisory lock, batch, items, faults |
| `ReconciliationWorkerProofs` | theorems about `ReconciliationWorker` |
| `ModelPromotion` | the champion alias: training runs, retraining DAG, reviews |
| `MCModelPromotion` | symmetry of the pipelines, for TLC |
| `ModelPromotionProofs` | theorems about `ModelPromotion` |
| `ScoringLedger` | abstract specification: what readers of the rows, the results and the offset are promised |
| `ScoringConsumer` | the Kafka consumer |
| `ScoringConsumerProofs` | theorems about `ScoringConsumer` |
| `ExecutionTrace` | abstract specification: one trace of agent events |
| `ToolCallingAgent` | one run of the tool-calling agent |
| `ToolCallingAgentProofs` | theorems about `ToolCallingAgent` |
| `FeaturePipelines` | the runs of both DAGs over the files they share |
| `Monitoring` | `FeaturePipelines` with the readers of the retrain signal, and the properties of both |
| `MCMonitoring` | symmetry of the pipeline runs, for TLC |
| `MonitoringProofs` | theorems about `FeaturePipelines` and `Monitoring` |
| `ScoringService` | scoring requests of one API process |
| `ScoringServiceProofs` | theorems about `ScoringService` |

### Approval-gated execution

`status[a]` and `age[a]` stand for a row of the approval table: `age` counts
clock ticks since `execution_started_at` and saturates at the lease, because
the code only asks whether the lease has run out. Every store method reads its
row with `SELECT ... FOR UPDATE` and commits before it returns, so each is one
action. A method that raises changes nothing.

`call[p]` is the handler a caller is in: where it is (`at`), the approval it
works on, the row status it read first (`seen`), the last answer of `kubectl`
(`result`) and for how many ticks it has owned the execution (`held`). Each
database transaction and each `kubectl` call of a handler is a step of its own,
in the order of the code; between two of them every other caller, the cluster
and the clock may move, and `Crash` may end the caller. A database call that
fails inside a handler has the same effect as a crash of that caller. A claim
that finds the row taken, and a request that is answered with 404 or 409,
changes nothing and is no action.

`job[a]`, `runs[a]` and `inflight[a]` stand for the Job object, the number of
times it was created, and an apply that timed out and may still arrive. The
Job's name is derived from the approval, so an apply of an existing Job does
nothing.

What the model adds to the code are the bounds (`MaxCrashes`, the saturation
of `age` and `runs`) and three statements about time:

* `MaxHold` is the longest a live owner takes from its claim to its last mark.
  `Tick` waits for owners accordingly. The code has `kubectl` timeouts of 120 s
  and 30 s and a default lease of 900 s, but nothing compares them; the safety
  run and the theorem on ownership take `MaxHold < Lease`; without it TLC finds
  an owner whose row is recovered while it still works.
* `Expired`: a finished Job is deleted a day after its end, by when no apply of
  it is in flight and no owner holds it.
* `ReconciledWithinTTL`: whether rows have been settled by then. Without it TLC
  finds an UNKNOWN row whose finished Job is gone, and a retry that trains again.

An event is its type, except for EXECUTION_RECONCILIATION_COMPLETED: it is recorded
with the status of the row that the reconciler got back
(`reconciliation_service.py:86, 152`), UNKNOWN and EXECUTING included, so it is kept
as `RECONCILED_COMPLETED`, `RECONCILED_FAILED` or `RECONCILED_OPEN`. `Conclude` reads
that status again from the row that the store method returns, or takes the one read
first where no method was called.

`mark_executing` and `mark_retry_executing` of the store are not modelled: nothing but
tests calls them.

Events are kept by approval. The code groups them by trace id, which the context
of a decision may give to two approvals (`agent_service.py:168`): what is said
here of the trail of an approval is said of its own events in that trace.

### The reconciliation worker

`ReconciliationWorker` reuses `ApprovalStore` and `TrainingCluster` and adds
`holder`, the session that holds the advisory lock, and `worker[w]`, the place
of a replica in `run_once` with its batch, the row it read first and the answer
it got. The handlers of the API appear as `OtherCallers`, which change a row as
the store methods do; their own steps are the subject of `ApprovalExecution`. An apply
of theirs arrives while its row is open and no Job has been created; one that arrives
late, for a row that is settled by then, is left out here. No property of the worker
depends on it: the worker only reads Jobs, and a row that is settled no longer moves.
`requested_at` orders the approvals, so they are numbers.

Faults, at most `MaxFaults` in a behaviour: the session of the lock ends while
its worker goes on (`LoseSession`), the process dies (`Die`), the batch cannot
be read (`ListFails`), an item raises and is skipped (`ItemFails`), `kubectl`
gives a wrong answer (`ReconcileMisled`). A session that has ended may keep the
lock, as `Ghost`, until PostgreSQL notices (`Reap`). A worker that finds the
lock taken changes nothing and tries again in its next cycle.

### The champion alias

`runs` are the MLflow runs of the training scripts in the order of their start,
`champion` is the run behind the alias, `pipeline[p]` a run of the retraining
DAG and `review[r]` an operator with an evaluation in hand. Each call to MLflow
that reads or writes shared state is a step. `raced` is a history variable: who
has read before the alias was set by somebody else.

Assumptions about what lies outside the code:

* The operator hands the workflow the `quality_review` of the evaluation (the
  evaluation itself has no key `approved`, which the workflow requires) and the
  version that the evaluated run registered.
* The thresholds on recall and precision are not distinguished from the one on
  `roc_auc`, and LightGBM and XGBoost are one family; both register models of
  other names.
* Fewer than a hundred runs lie between the latest runs of the families, the
  limit of `get_latest_model_runs`.

A champion that was set and then overtaken is the normal result of a race here:
the alias has no compare-and-set. The properties say that nothing else takes it
back to an older run or exchanges it for a worse one.

### The Kafka consumer

One partition and one consumer of the group (the deployment runs one). Scoring
with its committed row, handing the result to the producer, and committing the
offset are separate steps. `dropped` and `misjudged` are history variables: the
messages that the generic `except` branch passed over, and the valid messages
that a `ValueError` made look invalid, when they had no row yet. Deliveries
happen at any time. A rebalance between several consumers is not modelled.

### The tool-calling agent

`at` is the place in `run()`, `calls` the tool calls of the last answer that are
still to be handled, `messages` the conversation by roles and call numbers,
`events` the trail. An event is committed before anything else happens, or its
`record()` raises, with or without the commit, and ends the run
(`RecordFails`). `used` and `ran` tell a tool that the answer names from a tool
whose handler was entered, both by the place of its call in the trail. What a
tool does, arguments and results are left out; a handler may return or raise.
The registry of the repository has no gated tool at present; `Gated` models the
branch of `ToolRegistry.execute` for them. Runs share no state, so one is
enough.

`ExecutionTrace` is the class of that name: events while the trace is open, an
end that closes it. The agent writes its events without that class, and is
shown to write such a trace (`closed` is: it has an end, and `record()` did not
raise on it).

### The data pipelines and the retrain signal

`file[f]` is what a file holds, `writers[f]` who has it open: scripts open,
write and close without a lock, in one directory that all DAG runs share
(`docker-compose.yml`, LocalExecutor). Content is a version of the raw data, or
`Torn`, which is no version; a read of a file that is being written is torn, and
so is what two writers of different versions leave. `at[p]` is the task of a run;
a task that fails ends the run, as there are no retries. A run is of the batch or
of the retraining DAG, which shows after `build_features`. `got`, `checked` and
`built` keep what the scripts of a run read. `disturbed` is a history variable:
the runs for which somebody else wrote a file between their start and their end.
`run_training_pipeline.py` runs the chain of the retraining DAG in sequence,
which is one of its interleavings.

`ReadsResult` says whether `save_retrain_signal` finds its keys in the snapshot
that Evidently returns. Readers of the signal keep no state: `RetrainRequired` is
what `/metrics` shows and `Decision` what the orchestrator answers, in every
state. `reports/` is taken to be one directory for writers and readers. The signal is
`"empty"` from its opening to its write. Two reports that overlap leave a torn signal
only if their verdicts differ; with the same verdict the JSON may be torn too, by
different lists of columns, which no property tells from the torn case it has. The
HTML report is one step with the read of `train.csv`: nothing in the code reads it.

### The scoring API

Requests are threads of one process. Counters are the sets of requests they
counted and gauges the request they show, so that what is lost or counted twice
can be seen. `Save` may raise with the row committed. `Restart` is a new process:
requests in flight are lost and the metrics start from zero.

## Runs

| Run | Shows |
|---|---|
| `execution_safety` | types, `SingleOwner`, `RunsAtMostOnce`, `NoPhantomCompletion`, `AuditAgrees`, `SettledIsAudited`, `OnlyAbandonedIsRecovered`, and that the handlers implement `ApprovalLifecycle` |
| `execution_liveness` | a row whose Job has finished is settled (`FinishedJobSettles`); no row stays EXECUTING (`ExecutionEnds`) |
| `execution_kubectl_error` | violated: a `kubectl get` error is read as absence (`RetryOnlyWhenAbsent`) |
| `consumer` | `CommittedIsAccountedFor`, `PublishedIsPersisted`, `DuplicatesNeedRestart`, `ValidMessagesAreScored`, and that the consumer implements `ScoringLedger` (`ImplementsLedger`) |
| `consumer_failed_message` | violated: a message that failed temporarily is passed over for good (`FailedCanBeReprocessed`) |
| `worker` | types, `ActiveHoldsLock`, and that every row moves as `ApprovalLifecycle` allows (`FollowsLifecycle`), with two replicas, two rows and a batch of one |
| `worker_liveness` | the lock comes free again and again (`LockIsFreed`); a row within reach of the batch that reconciling would change does not stay so (`RowsInReachAreReconciled`) |
| `tool_agent` | `EveryCallIsAnswered`, `TrailIsPaired`, `ToolsAreAccountedFor`, `OutcomeIsConsistent`, that every run ends (`EveryRunEnds`), and that its trail is an `ExecutionTrace` |
| `pipelines` | `UndisturbedRunsReadTheirOwn`, `OverlapLeavesOneVersion`, `AdviceIsFounded` |
| `drift_signal` | violated: with the Evidently that is imported, report and signal disagree (`ReportAndSignalAgree`) |
| `scoring` | `RequestsAreAccountedFor`, `GaugesAgree` |
| `promotion` | types, `ChampionIsFinished`, `PipelinePromotesOwnOrNewer`, `AliasGoesBackOnlyInRace`, `ReviewPromotesImprovement` |

The properties that fail are what a comment, a docstring or a document of
the repository says; `findings` in PROJECT.json quotes each with its line.
`drift_signal` takes `ReadsResult` to be FALSE; with TRUE the same property holds,
and the difference is the finding.

`SettledIsAudited` asks for an event with the very status of the row, from the
executor or as the end of a reconciliation; a reconciliation that left the row open
does not count. It leaves out what the code leaves out: a retry that applied the
Job settles the row without an outcome event (`reconciliation_service.py:178`), so the
trail of that approval ends with EXECUTION_RETRY. That is at odds with
`docs/ai-engineering-agent-workflow.md:54` ("so an operator can inspect the complete
lifecycle"); with the exception taken out, TLC finds such an approval with no crash and
no wrong answer. `AdviceIsFounded` holds of the agent as its words say, but not of
`/metrics`: the gauge is 0 when the signal is absent, empty or torn
(`services/api/main.py:43-45, 54-55`), although 0 is documented as "not required"
(`services/api/metrics.py:43`) and shown as "No" on the dashboard. The property states
when that happens: there is no report with a signal yet, a signal is just being
written, its writer was killed, or two were written into each other. A metric that
meant what its text says would need none of these cases. `ActiveHoldsLock` likewise leaves out
workers that have lost the session of their lock: a second replica then becomes
active beside the first (`reconciliation_worker.py:95`), which `FollowsLifecycle`
and the properties of `execution_safety` survive.

Bounds. Approvals never share a row or a Job and no handler touches
two of them, so one approval is enough for the execution runs; the proofs cover
any number. Two clients give every race between two handlers (execute against
reconcile, retry against retry, mark against mark); a third one could only
repeat the part of a caller that has crashed or returned, which the crashes and
the restarts of idle clients already produce. A lease of two ticks and a hold of
one is the smallest pair in which owners can be slow and still be in time. Two
crashes let both the first owner and its successor die. The consumer's four
messages let an invalid, a failed and a scored message stand before and after
each other, and two failures let a redelivered message fail once more.

For the worker, two rows and a batch of one are the smallest case in which one
row keeps another out of the batch, and one fault suffices for a session lost
while its owner works on. The row out of reach is the limit of what holds:
`list_reconcilable` returns the oldest open rows, and an UNKNOWN row without a
Job stays open until a human retries it, so `batch_size` such rows keep the
worker from every younger row, for as long as nobody retries.
For the alias, four training runs let both pipelines finish with two families
each, or one with Jobs around it; three values of the metric around the
threshold let a candidate pass the threshold and still be worse than the
champion. The run may stop when every pipeline has ended and no run is left to
start, so deadlock is not checked there.

For the agent, three rounds of up to two calls give a first, a middle and a last
round, each with a call before and after another; the three names are a free, a
gated and an unknown tool. For the pipelines, two runs give every race of one
writer with one reader and of two writers; two training scripts stand for three,
which only read the same files; of two versions one is valid, so that a
replacement of the raw file can bring in what was not validated; one killed task
leaves one torn file. Three scoring requests give two that cross and one that does
not; one restart separates two processes. These runs, and the processes they
model, may stop when everything has been done, so deadlock is not checked.

Fairness. `WF(Proceed)`: a handler that has begun is scheduled (an API thread,
the worker's loop). `WF(ReconcileStart)` for workers: `run_forever` returns to
every open row. `WF(Tick)`: time passes. `WF(JobProgress)`: Kubernetes finishes
a Job (`backoffLimit` bounds its pods). `SF(Answered)`: a worker that keeps
asking is answered correctly again and again; without it `kubectl` could fail
for ever and nothing could be settled. In the consumer, `WF(Proceed)` includes
`Start`, for docker-compose restarts the container (`restart: unless-stopped`).
In the worker, some replica takes the lock when it stays free and a replica
that has begun a cycle goes on with it (`run_forever`, and the Deployment that
restarts it), and PostgreSQL notices dead sessions; nothing is assumed of the
Jobs, the API's callers or the clock. Wrong answers are faults there, so there
are finitely many.
The thread that serves an agent's run is scheduled, and its calls to the model,
the tools and the database return or raise (`WF(Step)`).
No client is assumed to act, no crash is assumed to happen.

## Proofs

`ApprovalExecutionProofs`, for any sets of approvals, clients and workers, any
lease and any number of crashes, from the assumptions the modules name:

* `TypeCorrect`: the type invariant. One lemma per kind of step.
* `ExecutionHasOneOwner`, for `MaxHold < Lease`. `SingleOwner` is not inductive:
  a second claim needs an UNKNOWN row, and nothing in `SingleOwner` says that
  an owner's row is not UNKNOWN. The strengthening is `OwnersHoldTheLease`: an
  owner's row is EXECUTING and no older than the owner's hold, or settled. So
  the lease of a live owner has not run out, `recover_stale_execution` does not
  touch its row, and no claim can succeed beside it.
* `JobsAreClaimed`: Jobs, and applies in flight, only for rows whose claim was
  committed. The strengthening also says that owners and reconcilers are at
  rows that have begun, and that a row never returns from there
  (`StatusMoves`, from the transition table).
* `CompletionHasItsRun`, `TrailMatchesRow` and `SettlingIsRecorded`: what a
  caller does with an answer of `kubectl` it got in a step of its own, and nobody
  else writes its place, its approval, the answer or the status it goes by
  (`KnowledgeIsLearned`). So who
  is about to mark a row COMPLETED has seen a Job or applied one (`WitnessInv`), who
  is about to report an outcome has set it or read it from the row, and a settled row
  stays (`ReportInv`, `SettledStays`), and who settles goes on to report that status,
  unless it crashes or is a retry, which has announced itself (`ReportedInv`).
* `OneRunPerApproval`, for `ReconciledWithinTTL` and any lease and hold: while the
  Job exists no other is created, and once it has expired its row is settled, no
  apply is in flight and nobody owns it, all for good (`GoneForGood`).
* `RecoveryIsSafe`, for `MaxHold < Lease`: a row is given back by its owner, who
  leaves with that step, or after the lease, when it has no owner (`GivenBack`,
  `StaleIsAbandoned`).
* `LifecycleIsImplemented`: initial states map to initial states, and every
  step to a step of `ApprovalLifecycle` or a stutter, under
  `launched <- {a : runs[a] > 0}`.
* `RetriesFindNoJob`, for `~GetErrors`: a retry goes ahead only from a check made
  while there was no Job. `RetryOnlyWhenAbsent` is what `execution_kubectl_error`
  shows violated, with `GetErrors`; so errors of `kubectl get` are the whole cause.

`ApprovalSettlingProofs`: the part of `FinishedJobSettles` and `ExecutionEnds` that
needs no fairness.

* `HandlersEnd`: every change of a caller's place lowers `ToGo`, the number of
  steps its handler still has, which is at most six. No handler waits in a loop.
* `OutcomesSettle`: a caller that goes on with the outcome of a Job leaves a settled
  row behind, however old its answer is: its mark goes through, or raises because
  somebody else settled the row first. For that, whoever holds an outcome holds it
  for a row that has begun (`AnswersInv`), or the mark could raise on a row that
  cannot take it.
* `OneAnswerIsEnough`: if that ever happens for an approval, its row is settled from
  then on. What is left to fairness, and so to TLC, is that some caller is
  answered and lives to act on the answer.

`ScoringConsumerProofs`, for any log, any invalid messages, any number of
failures: types, `NothingElseIsLost`, `PublishedHasRow` and `RowsAreBounded`, all
from one invariant, `ConsumerInv`. It adds where the message in hand stands to the
positions, that what the process has left behind is accounted for (not only what
is committed), and that a message still ahead has at most one row per failure.
`LedgerIsImplemented`: the consumer implements `ScoringLedger`, with the messages
that have a row as `recorded`, those whose scoring failed before one as `excused`,
the results on the topic as `announced` and the committed offset as `resume`. A
step of the consumer is one of the ledger or invisible to it; that a commit is an
`Advance` needs `LeftBehindOK` for the messages that it passes over without
committing them. `OffsetsAdvance` is its corollary. The safety half of
`ValidMessagesAreScored`: each step of the process is one of its failures or brings
its present life closer to the end of the log (`LivesAreFinite`), and there every
valid message has its row or was passed over (`EndOfLogIsScored`).

`ReconciliationWorkerProofs`, for any replicas, rows, batch size and faults:
types, and `ActiveWorkersHoldTheLock` with the corollary that at most one worker
with an intact session is active. The lock invariant says of every place of a
worker whether it may hold the lock, since a sleeping worker that held it would be
let in twice. `WorkersFollowLifecycle`: every step of the workers, and of the
callers beside them, is a step of `ApprovalLifecycle` or a stutter. It needs no
invariant but the types: that a worker acts on a status and an answer that may both
be old is made harmless by the transition table of the store alone, which is what
makes it safe that two workers may be active. `SettledRowsStay` says the same of
settled rows. `CyclesAreBounded` is the safety half of `LockIsFreed`: a batch has at
most `BatchSize` rows, the oldest open ones, and every step of an active worker,
faults included, brings it closer to the release (`CycleLeft`). That the oldest rows
of a finite set are no more than asked for rests on a rank that is injective on
them (`RankGrows`).

`ModelPromotionProofs`, for any number of runs, pipelines and reviews: types,
`ChampionsHaveFinished`, `GoingBackNeedsARace`, `ReviewsImprove` and
`PipelinesPromoteTheirOwn`. `ChampionIsFinished` alone is not inductive: what a
pipeline or a review is about to set has to have finished (`PipelineInv`,
`ReviewInv`), and one that nobody has overtaken still knows the champion it
compared with. Finished runs never change (`StepKeepsRuns`), so what was judged
once stays judged. That the latest finished run exists rests on the
well-foundedness of the naturals (`LatestExists`).

`ToolCallingAgentProofs`, for any tools, rounds and calls per answer: types,
`CallsAreAnswered`, `TrailsArePaired`, `EveryToolIsAccountedFor`,
`OutcomesAreConsistent` and `AgentWritesATrace`. The invariant says of each place
what the trail ends with and whether the run is counted (`PlaceAgrees`), and how
many of the last answer's calls the conversation has answered, which together
with the calls still in hand is their number (`AnswersAgree`). `RunsAreFinite` is the
safety half of `EveryRunEnds`: every step of a run lowers `StepsLeft`, a bound made of
the rounds and the calls that are left; its invariant is that an answer brings at most
`MaxCalls` of them (`BoundInv`).

`MonitoringProofs`, for any number of runs, versions, training scripts,
replacements of the raw file and kills: types, `UndisturbedRunsAreIsolated`,
`OverlapsAgree` and `AdviceHasItsReport`. `UndisturbedRunsReadTheirOwn` speaks of
what has been read; its strengthening, `OwnInv`, says of every place of a run which
files already hold what it validated and that nobody else has them open, and a step
of another run keeps that or makes the run a disturbed one (`StepOfAnother`). That
whoever has a feature file open is at the place for it (`PlaceInv`) is what rules
out a reader beside a writer. The advice rests on a run reporting only once, so a
verdict, once found, stays (`AdviceInv`); its side on the gauge, on what a
signal that cannot be read says of the runs that reported, unless a run was killed: absent,
that none has reached its signal, empty, that one is writing it, and torn, that there are
two of them (`QuietInv`). `ReadsResult` is left open: these hold
whether or not drift can be read out of the snapshot. `SignalFollowsReport` takes it
to be TRUE and proves `ReportAndSignalAgree`, which `drift_signal` shows violated when it
is FALSE: as long as one run has reported and none was killed, the report is that run's
verdict, and so is the signal once the run is past writing it (`SignalInv`).

`ScoringServiceProofs`, for any number of requests and restarts: types,
`NoRequestIsMiscounted` and `GaugesShowOneApplication`. The first needs that a request
behind its commit has its row, the second that the gauges differ only between two
steps of the one request in flight.

Only model-checked: the liveness properties (`FinishedJobSettles`,
`ExecutionEnds`, `ValidMessagesAreScored`, `LockIsFreed`, `RowsInReachAreReconciled`,
`EveryRunEnds`), for which the prover has no rule under fairness; the safety halves
named above are proved. Every other property of the passing runs is a theorem for all
values of the constants, under the assumptions named above. Of the three properties
that a run shows violated, `RetryOnlyWhenAbsent` and `ReportAndSignalAgree` are theorems
without the cause of the violation; `FailedCanBeReprocessed` has no such case, since it
is the design of the consumer that violates it.

## Not modelled

* The command-center API of `ai_engineering/api/main.py` and its
  `ApprovalService`: nothing starts it, and its only way to create an approval
  is `build_plan`, which raises. Its `execute` takes the steps of
  `execute_approval` without the events.
* `workflows/retraining_workflow.py`: `build_plan` calls methods that `MLAgent`
  does not define.
* Read endpoints, the dashboard and `OrchestratorAgent.reason`: no state.
* The Kafka producer and the scripts for test traffic: random messages; what they
  leave is the log of `ScoringConsumer`.
* Statistics: metrics of models, SHAP values, the drift test, score, risk level
  and decision as functions of the probability.
* API security, readiness, migrations and manifests, except for the settings that
  the models name (restart policy, `backoffLimit`, TTL, replicas).

## Plan

1. The command-center API as a further kind of client, should it be deployed.
2. Several partitions and consumers with rebalances, should the deployment run
   more than one consumer.
