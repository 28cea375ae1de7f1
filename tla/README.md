# VDaAgent: specifications and proofs

This directory holds TLA+ models of the data-agent platform in this repository:
the durable run ledger and the workers that use it, the in-memory job ledger,
the ledger of tool executions and effects, task intake; behind the local API, its
conversation, the turns of its bots and its datasets with the processes that
profile them; the directory, sessions, mailbox and report workflow; and the
arithmetic of profiles, quality rules, drift and analysis plans. TLC checks them
on small instances; TLAPS proves for all of them the safety of both run ledgers,
of the control worker, of the effect ledger, task intake, conversation, bot turns,
datasets, directory, sessions, reports and mailbox; that the conversation, until two
writes overlap, is a log written one message at a time; that the profile of a table
is exact; and that quality rules, analysis plans and drift agree with it.

The code is the reference. Every definition that models code is listed in
`PROJECT.json` under `map`, with the file and the lines it stands for. A
definition whose name has an underscore (`Owns_AnyFence`) is a deliberately
faulty variant of the one without: it shows that some property can tell the two
apart. It is never part of a specification.

## The system

Paths are relative to `packages/platform/src/vda_platform` unless they begin
with another top-level directory.

| Component | State it keeps | Operations | What is hard about it | What makes it correct |
|---|---|---|---|---|
| Durable run repository, `jobs/repository.py`, migrations `0004`, `0006` | tables runs, attempts, run_events, tasks | create_task, create_run, claim_run, start_run, heartbeat, checkpoint, wait, resume_run, complete, fail, append_run_event | many processes, each with leases that expire on its own clock; claims that read first and write later; late callers with old fences | one holder, growing fences, one outcome, a journal that tells it, no lost checkpoint, one main run per conversation and bot |
| Effect ledger, same file | tables tool_executions, effects | record_tool_execution, reserve_effect, mark_effect_unknown, reconcile_effect | the worker may die between the effect and the record; operators reconcile while it may be alive | no blind retry; unknown before reconciled; resuming reuses what completed |
| Control worker, `jobs/postgres_worker.py`, `services/control_worker` | a thread that polls, a heartbeat thread per run | run_once, run_forever | crashes, lost calls, a heartbeat call that outlives its run, an outcome after a takeover | every run ends; abandoned leases run out; the commit hook runs at most once |
| Job ledger and worker, `jobs/ledger.py`, `jobs/worker.py` | jobs, idempotency keys, creation order | enqueue, claim, start, heartbeat, checkpoint, wait, resume, complete, fail, cancel | expired leases while the handler runs; cancellation under it; retried enqueues | as the repository, and one job per key |
| Run aggregate, `runtime/runs.py` | runs | create, lease, transition, wait, checkpoint | old leases used for any transition | at most one lease passes the guard. Only its unit tests use it: not modelled |
| Conversation and outbox, `conversation/state.py`, `outbox.py` | members' intervals, log, keys, events, quota, outcomes | add_member, remove_member, append_message, append_human_message, append_bot_message, visible_messages | no lock, and a server that runs handlers in a pool of threads | same key, same answer; message and event together; nobody reads or writes outside their membership; pollers miss nothing |
| Local API, `services/api` | conversations, datasets, profile cache | routes for conversations, messages, events, bot turns, datasets, uploads, profiles | membership checked before a model call and used after it; profiles computed for minutes | answers only of current members; a cached profile was computed in whole from its artifact's bytes |
| Task intake, `jobs/repository.py` create_task | tasks | create_task | two first tries at once | one task per key; every answer is of it, and who lost the race finds it |
| Mailbox, `runtime/mailbox.py` | messages, hand-offs | send, create_handoff, handoff | competing hand-offs, bounces, chains | compare-and-set has one winner; hops are bounded |
| Bot runtime and tool registry, `runtime/loop.py`, `tools/registry.py` | remembered effects | execute, invoke | a handler that fails after its effect; two threads with one key; turns repeated after lost answers | a write takes effect once per turn and call, unless its handler broke or two overlapped; a turn that is ok tells of effects there were |
| Context builder, `memory/context.py` | none | build_context | budget boundaries, private memories | never over budget, never another conversation's private memory |
| Directory and sessions, `identity/` | principals, memberships, grants, sessions | add, remove, grant, revoke; issue, authenticate, revoke | grants that survive their membership; expiry against revocation | never without an owner; what was decided at a generation holds at it; a revoked token stays dead, an expired one at every later time |
| Source registry and object store, `packages/data_profiling/.../ingestion/sources.py`, `packages/adapters/.../s3/store.py` | datasets, grants, uploads, versions, objects | create, grant, begin, complete, get, tombstone | two stores written one after the other; repeated uploads; uploads of tombstoned bytes; profiles that take minutes | registry and store agree; an upload id is one upload; deleted bytes stay deleted |
| Profile supervisor, `packages/data_profiling/.../profiling/supervisor.py` | a child process and a queue | profile | the parent joins before it reads; the deadline; a child that dies silently or half way through its message | no process outlives its call; a result is whole; every call ends |
| Profile engine and statistics, quality, drift, `packages/data_profiling/.../profiling`, `quality`, `drift`; analysis plans, `analysis/ast.py` | the table that is read | parse, profile, evaluate rules, compare, preview, execute | boundaries of quantiles, bins, ranks and thresholds; several programs that compute the same number | equal to a reference definition, and to one another |
| Report workflow, `packages/data_profiling/.../reports/workflow.py` | reports | create, patch, snapshot, submit, publish | order of steps by several people | what is published is what was reviewed, by somebody else |
| Observatory journal, `observatory/journal.py` | events | append, read | repeated appends, audiences | one event per key, readers see their own |
| Everything else: adapters, settings, migrations, Airflow DAG, web client, contracts, empty worker packages | | | I/O, declarations, generated code | not modelled |

How they interact: the API admits messages and, in production, tasks and runs;
control workers claim runs from the repository, heartbeat them from a second
thread, and commit an outcome under the fence they were given; handlers record
tool executions and reserve effects under their attempt; operators resume
waiting runs and settle uncertain effects. The in-memory ledgers play the
repository's part offline. The conversation, the source registry and the profile
cache are shared memory between the threads of the API server; a profile is
computed in a child process of its own.

## The modules

| Module | Models | Extends |
|---|---|---|
| `LeaseFence` | the abstract promise: work is granted to one holder at a time, each grant under a larger token, and is settled at most once, by the newest token, or cancelled | |
| `RuntimeRepository` | runs, attempts, run_events and every method that changes them | |
| `EffectLedger` | the effect ledger on top of the repository | `RuntimeRepository` |
| `ControlWorker` | worker processes and heartbeat threads over the repository's methods taken as atomic | |
| `JobLedger` | the in-memory ledger driven by its worker | |
| `TaskIntake` | create_task as several processes call it | |
| `MessageLog` | the abstract promise: as long as no two writes overlap, a message is entered in one step, with its number, event, outcome and answer, by somebody who is present, once for each key | |
| `Conversation` | members, log, outbox, and the threads and clients that use them | |
| `BotTurns` | context, model and tool calls of a bot's turn, and the tool registry | |
| `Mailbox` | letters between bots and the hand-offs of stages | |
| `Directory` | workspaces, members, roles and grants | |
| `Sessions` | server sessions over time | |
| `ReportWorkflow` | the life of a report | |
| `ProfileSupervisor` | a thread and the child process that profiles for it: queue, pipe, deadline | |
| `Datasets` | the source registry over its object store, and the threads that profile and tombstone | `ProfileSupervisor` |
| `Profile` | the rows of a CSV file, and the exact profile of its columns | |
| `Quality` | the quality rules over such a table | `Profile` |
| `Analysis` | analysis plans and numeric drift over such a table | `Profile` |
| `Services` | the parts that share nothing with one another, side by side | `Directory`, `Sessions`, `ReportWorkflow`, `TaskIntake`, `Mailbox`, `BotTurns`, `Quality`, `Analysis` |
| `RuntimeRepositoryProofs`, `EffectLedgerProofs`, `ControlWorkerProofs`, `JobLedgerProofs`, `ConversationProofs`, `DatasetsProofs` | theorems about the module of that name | that module, `TLAPS`; `EffectLedgerProofs` also `RuntimeRepositoryProofs` |
| `TableProofs` | theorems about `Profile`, `Quality` and `Analysis` | `Analysis`, `Quality`, `TLAPS` |
| `ServicesProofs` | theorems about directory, sessions, reports, task intake, mailbox and bot turns, and about all the parts of `Services` together | `Services`, `TableProofs` |
| `MC...` | instances and symmetry sets for TLC | the module of that name |

### RuntimeRepository

`runs` is the table, one record per run id; a run that does not exist has the
state `absent`. A method is one action, with one exception: `claim_run` selects
a row `FOR UPDATE SKIP LOCKED`, computes fence and attempt number in Python and
writes by id alone, so it is two actions, `ClaimSelect` and `ClaimCommit` (or
`ClaimAbort`, when the process dies or the database rolls back), and `claim[w]`
is the open transaction between them. Every other method is a single
transaction that locks its row before it reads. `Unlocked(r)` says that no
other transaction holds the row.

The `RunLease` a worker holds is the attempt row it was issued with. The model
keeps all attempts and lets any of them be used at any time (`LeaseCall`), which
covers a worker paused past its deadline, a heartbeat thread that outlived its
run, and a call repeated after its answer was lost.

Time: `lease_expires_at` is kept as the time left, `ttl`. The methods read the
caller's clock, so every call takes a drift from `Drifts == -Behind .. Ahead`.
A timestamp read before a long wait for the row lock is a slow clock.

`checkpoint` is what `checkpoint_json` holds, named by the fence of the attempt that
wrote it. `ProgressKept` therefore says who wrote: each checkpoint is the current
fence's, follows its predecessor's revision, and is never an older attempt's.

Not in the model: payload bytes, correlation ids, tenants (all keys carry the
workspace id; the model is one workspace), event keys shared between runs (a key is
unique per workspace in the table, and made of run, fence and type here, as the
repository makes its own; a caller of `append_run_event` who reuses one run's key in
another is answered that run's event), `attempts.state` and `finished_at`,
which nothing updates after the insert and nothing reads, and the state
`cancelled`, which the schema allows and no method writes.

### EffectLedger

Adds `tool_executions` and `effects`, and what the last call was answered
(`answer`). Calls may carry any attempt ever issued, since none of these methods
looks at the fence of the run. Reading the code against the schema shows two
limits worth knowing: `record_tool_execution` inserts and never updates, so an
execution recorded as `started` can never be recorded as `succeeded` under its
key; and `reserve_effect` accepts an attempt that lost its lease, so that only
the operation key, not the fence, keeps two attempts apart.

### ControlWorker

`pc[w]` is where `run_once` stands, `beat[w]` the heartbeat thread, `stray[w]` a
heartbeat call that was under way when the thread was joined with a timeout.
Every database call may fail (`CallBreaks`, `BeatBreaks`), the process may die
anywhere (`Crash`), and a commit whose answer is lost is `Commit` followed by
`Crash`. Fences are abstracted: a process holds its lease exactly while `owner`
is that process, because it claims nothing else meanwhile; only the stray
heartbeat must be told apart, and `Claim` drops it when the same worker claims
the same run again. This keeps the model finite without a bound on the number of
attempts, which the liveness check needs.

### JobLedger

One action per method of `JobLedger`, called by `jobs/worker.py` with the lease
that worker was given (`task`), and by clients for `enqueue`, `resume` and
`cancel`. A handler whose job was taken over or cancelled gets a `FenceError` at
its next call (`Abandon`). `claim` is called with a limit of one, as the worker
calls it. Keys admit one job for ever; `order` is the order of insertion, which
the code sorts by, as long as callers of `enqueue` do not pass times of their own. The
ledger has no lock; its methods are one step each, so two threads inside one ledger
at once are not covered.

### Conversation

A request is a thread, `call[t]`, that moves from step to step; a step is what
CPython executes between two calls, the only places where the threads of one
interpreter are switched. So the lookup in the outbox, the checks of
`append_message`, the new number, the append, the bookkeeping up to the event
number, the search for a duplicate event, its append, and the dispatch outcome
are separate steps. Reading is five: is the caller a member (`state.py:77`), since when
(79), the messages from there on (82), then the events, then the watermark. A change
of membership is two: `AddMember` or `RemoveMember` checks it and computes the number
it takes effect with, `change[t]`, and `StoreInterval` stores it (61 and 62, 70 to
72). The routes change no membership at this commit; the class offers it, so the model
lets any thread do it at any time. A bot turn first asks the model (a step of its own, during which
anything may happen), then appends. `TurnStatus` is what `BotRuntime.execute`
comes to here: the local API's provider answers one fixed text and calls no tool,
or the history does not fit and nothing is said.

`idempotency[p][k]` is the message kept under principal and client message id,
which the code keeps under the pair. `raced` becomes true when two writes
overlap, changes of membership among them. `QuotaHolds` and the types hold regardless;
`CommitIsWhole`, `MembersSeeAndSpeak` (of its two halves, `SeenWhileMember` and
`SpeakersAreMembers`) and `ImplementsMessageLog` hold until then. `torn` collects the
clients who were joining or leaving while their own read was between its check and
the log; `SeenWhileMember` is not about them: a member who is removed and added again
between line 79 and line 82 is shown the messages of the gap, because the log that is
gone through is longer than the one the intervals were read with.

`ImplementsMessageLog` maps the conversation to `MessageLog`: its entries are the messages without the one that a request has in
hand (`InHand`), its `told` is every answer given, its `lost` is `raced`. So a write
of eight steps is one step, `Enter`, taken at `Dispatch`; a retry that is answered
from the outbox is `Repeat`; all else but membership is invisible. That retries are
answered alike (`RetryAnswersAlike`) is what the abstract log says by `Unused` and
`AnswerOf`.

These do not hold after two writes overlapped: a message stored between the number and
the storing of a removal has the number at which its sender, or a reader who has got it,
is said to have left; two threads that take the same number give two messages
one id; a retry that runs while its first try is between lookup and bookkeeping
appends the message again; and a retry that finds the message only inside
`append_message` publishes it under the event number of the moment, after which
the message that number belongs to loses its event.

### ProfileSupervisor

`ComputeSupervisor.profile` spawns a child, joins it with the deadline, and reads
the queue only then. The queue is a pipe with a feeder thread in the child, so a
child is `exiting` until its message is in the pipe as a whole, and a message
larger than the pipe's buffer is there in part (`pipe = "part"`) until somebody
reads. `Killed` stands for the kernel: memory or CPU limit, at any point. What
`Read` does was checked against CPython: a whole message is returned; nothing at
all ends in a `ValueError`, for `process.exitcode` is asked of a closed process
(line 74); and half a message, of a child killed while it was writing, is waited
for without a timeout, since the parent holds the pipe's other end open itself,
so that the thread is `stuck`.

Assumptions: SIGTERM ends the child within the two seconds the parent joins it
again; a message put in the instant of the deadline comes too late; the last
steps of a dead child and its parent take no time. `max_file_bytes` is not in
the model: an upload is bounded by the same policy, so `profile` never sees more.

### Datasets

An artifact is a pair of dataset and payload, which is what artifact id, object
key and the key of `_by_dataset_hash` are made of. `status` stands for
`_versions` and `_by_dataset_hash`, which are written together; `object` is the
store. A dataset is created by a thread in three steps, which others interleave with:
the checks of application and registry, the registry's entry, the application's
(`BeginCreate`, `Register`, `Show`; `owner` and `shown` are the two maps). Two threads
that both pass the check both store, and the later one is the owner; an instance
with two principals would show it, none of the properties is about it. Uploads run
in the server's event loop (`async def` without an `await` after the body is read), so
two uploads never overlap; but the pool's threads run beside them, and
`CompleteUpload` stores the object (`sources.py:179`) one step before `ListVersion`
lists the version (193), with `storing` between them. `BeginUpload` is separate because
it may succeed and the completion fail, and be tried again with other bytes.
`RegistryAgrees` says what registry and store owe one another under these two
writes and the two of a tombstone: no version without an object, no object unlisted
but by an upload about to list it, no ready version of a deleted object but by a
tombstone about to mark it. `BeginTombstone` and `TombstoneVersion` have the
object's deletion between them. A profile request is `BeginProfile` (the checks
of `profile_dataset` and `get_version`), `LookUp` (cache, then the object, then
the process), the supervisor's steps, and `KeepProfile`. The digest that `profile_dataset` compares at the end
(`application.py:164`) cannot differ: the key names it, and an object is never
replaced. Grants take write access
away as well as give it, and every step asks for the access it asks for in the
code. `Parses` says which bytes a parser accepts under which file name; in the
instance CSV is accepted for every payload and Parquet for none.

Not claimed, because the code does not do it: that an uploader of tombstoned
bytes gets a live version (`complete_upload` answers the tombstoned one,
`sources.py:171`), or that a profile belongs to a live artifact (a tombstone may
come while it is computed, and a cached profile outlives its artifact only until
the next request, whose `get_version` refuses it).

### TaskIntake

A call of `create_task` is a transaction of two steps, `CreateTask`, which looks
for the idempotency key, and `InsertTask`, and other callers' transactions may
commit in between; `Conflicts` is the primary key and the unique constraint of
the table. An answer may be lost (`InsertTask` with `granted` unchanged), and a
caller that was told "task insert failed" asks again, for the same task. What
`create_run` does with the task is in `RuntimeRepository`, where a run names its
task; the two tables are written in transactions of their own.

### BotTurns

`StartTurn` is `BotRuntime.execute` up to the first tool call: the context,
which overflows or not (`Overflows`, over the memories that are `Visible`), and
the model's answer, any of `Answers`. Then each call is refused, read, or
invoked; an invocation that is not remembered is three steps, because a thread
may be switched in the handler (`RunHandler`) and before the result is kept
(`StoreResult`). `performed[o]` counts how often operation `o` took effect, and
`effects[o]` holds the payloads it took effect with (`HasEffect` changes both). A handler may raise before its effect or after it. `excuse`
counts what the code does not prevent: a handler that raised after its effect,
and two threads in the same operation, since the registry has no lock and keeps
a result only when the handler has returned. `TurnTellsEffects` is about what a turn
that is `ok` was told: of each write, an effect this operation had, and the only one it
ever had unless there was an excuse. It does not say that the turn's own payload was
written, because an answer from memory is another turn's (see "Read from the code").

### Mailbox, Directory, Sessions, ReportWorkflow

One action per method; what the code refuses is no step. A hand-off is decided
on owner and hop as read at any earlier time (`expected` is any number).
`history` records the hand-offs, so that a property can speak of the chain. The
mailbox has no lock, and two threads inside `handoff` at once would both pass its
check; that is not covered.
Directory grants stay when their member is removed, as in the code, and count
again on return. A session's times count from one, zero is "never";
`verify_csrf` is `VerifiesCsrf`. Every method may be given the time by its caller, so
every call has any time in the model, earlier or later than the last one's: an expired
session authenticates again for a caller whose clock is earlier, a revoked one
never. A report's body is the number of the patch that
wrote it, its evidence the set of verdicts of `require_approved`, and each step
may be tried by anybody.

### Profile, Quality, Analysis

`ReadRow` is the loop of `parse_csv_bytes`: the table grows row by row, and at
every length the operators of the profile, of the rules and of the plans are
evaluated and compared with reference definitions (`HistogramIsExact`,
`QuartilesBracket`, `TopValuesAreTop`) and with each other. A sort is modelled by
what it puts in each place: `Ordered` gives the number that fewer than k are below
and k or more not above, `Place` counts the values before a value; `Selected` is the
set of rows a plan is run on. What `Decimal` and
`fromisoformat` make of a text is given by `Kind`, `Amount` and `Stamp`; a text
may be a number and a timestamp (`20260101`), or two texts the same number (`1`,
`1.0`). The cells and numbers of a column are functions of row numbers, since
what the rules and the profile say of them depends on which rows they are in, and
for the top values on which came first. Headers differ from one another, for
`parse_csv_bytes` refuses a file where they do not (`csv_parser.py:58`). Of the constants it is assumed that a
histogram has bins and limits are naturals (the code has 20, 20 and 10 000), that
`Rank`, the place of a text in the order of strings, is an integer, and that `NULL`,
Python's None, names no column (`ProfileAssumption`, `AnalysisAssumption`). Fractions are avoided by scaling, so that the arithmetic is exact;
the 28 digits to which `Decimal` rounds, also in the histogram's edges, are not in
the model. A text that is not finite is a NaN: infinities, which have an order,
are left out.

### Services

The parts above keep their state in memory (or, for task intake, in a table of
its own) and neither call nor read one another. Their product would multiply
states without adding a behaviour any property could see; so `part` says which
of them moves in a behaviour, and the others rest. That is the sum of their
behaviours, and one run asks one question of each.

## The runs

| Run | Question | Instance | Distinct states |
|---|---|---|---|
| `repository` | Do rows, attempts, locks and journal agree, are leases respected, is there one main run, does only the current attempt move the checkpoint, and is the repository a `LeaseFence`? | 2 runs of one conversation and bot, 2 workers, lease 2, clocks up to 1 slow, 2 fences, 1 checkpoint | 874 000 |
| `repository_clock` | Is a lease respected if clocks may be fast? No. | 1 run, 2 workers, clocks up to 1 fast | |
| `effects` | Are reservations and reconciliations ordered, and blind retries refused? | 1 run, 2 attempts, 1 operation, 2 references, caller-written events | 143 000 |
| `effects_resume` | Is a completed execution reused by the next attempt? No. | as above | |
| `worker` | Do crashes, lost calls and late heartbeats leave the ledger sound? | 2 runs, 2 processes, lease 2 | 90 000 |
| `worker_live` | Does every run end? | 1 run, 2 processes, lease 2 | 2 200 |
| `job_ledger` | Is the in-memory ledger sound, and a `LeaseFence`? | 2 jobs, 2 keys, 2 workers, lease 2, 3 fences | 232 000 |
| `conversation` | What holds under threads, and what until two writes overlap? | 1 human, 1 bot, 2 threads, 2 messages, 2 intervals per member | 2 709 000 |
| `conversation_poll` | Does a polling client get every event up to its cursor? No. | 1 thread, 1 client | |
| `datasets` | Do registry and store agree but between two writes, are uploads and tombstones final, is what is cached whole, does every request end? | 1 dataset, 1 principal, 2 payloads, 2 upload ids, 2 threads, deadline 1 | 138 000 |
| `datasets_limit` | Does a limit error mean a limit? No. | 1 thread | |
| `services` | One question of each part: see below | see below | 259 000 |

The parts of `services`, each with its instance:

| Part | Question | Instance |
|---|---|---|
| directory | Is there always an owner, and does the generation tell every change of a decision? | 2 humans and a machine, 1 workspace, 1 resource, 4 changes |
| sessions | Does a dead session stay dead, whatever clocks callers have? | 2 tokens, times to live 0 to 2, calls at times 1 to 5 |
| reports | Is what is published what was reviewed, by somebody else? | 1 report, 2 people and a bot, 2 patches, every mixture of evidence |
| intake | Do all retries of a request get its task? | 2 callers, 2 ids, 2 keys, 2 inputs |
| mailbox | Do hand-offs form one chain? | 3 members and a stranger, 1 stage, 4 hops, 1 correlation |
| turns | Do effects happen once, and is a turn that is ok honest? | 2 threads, 2 turns, 3 starts, 2 calls per turn, 2 payloads, 6 model answers |
| table | Are profile, rules, drift and plans exact and do they agree? | all tables of up to 4 rows of 11 kinds, 2 columns, 4 bins, 2 top values |

Why the bounds are enough. Two claims of a run (`MaxFence = 2`) are what a
takeover needs: one lease that is current and one that is not; the in-memory
ledger has three so that a lease may be two generations old. Two workers are one
holder and one challenger; a third would only repeat the challenger's steps, since
no method counts workers. A lease of two ticks lets a heartbeat renew a lease
that is neither fresh nor expired. Two runs show that one run's rows are not
counted with another's (attempt numbers, keys), that they compete for the main-run slot,
and that claims choose among candidates. In `Conversation` two messages and two intervals
give a message before, inside and after an absence; two threads are a write and
its retry. After two writes overlapped, requests under way finish and nothing
new begins (`Open`), which bounds the states that only `QuotaHolds` and the types
are about. In `Datasets` two threads are a
profile and a tombstone, or two profiles, of one artifact; two upload ids bring
the same bytes twice, two payloads other bytes under one id; one principal is
enough, because the model and its theorems have any number and none of the run's
properties compares two. A deadline of one
tick has a before and an after, and nothing in between is told apart. In
`services`, three people are two owners who remove one another and a machine that
may not be one; two callers and two ids are all that a race for one key or one id
needs, since every transaction sees the table of those before it; three members
let a chain pass on without a bounce, and four hops are longer than any property
looks back; three turns are a first try, its retry, and a third that comes while
they overlap. Four rows are the least at which a quartile is interpolated, a bin
holds several values, a top value is left out and a correlation (from three pairs)
has a spare row; the kinds of rows hold nulls, equal numbers in two spellings,
words, a NaN, timestamps with and without zone, and a row too short. Worker ids
and thread ids are symmetric in `worker`, `job_ledger` and `conversation`;
nothing there orders them and no liveness property is checked with symmetry. Run ids are
not symmetric: claims take the oldest.

Deadlock is checked except in `conversation`, `conversation_poll` and `services`:
there is no clock in these models, and the system rests when no request arrives.

### What the violated properties show

* `repository_clock`: claims compare deadlines written by one machine with the
  clock of another (`jobs/repository.py:190`), so a claimer whose clock is fast
  takes a lease that has not run out. ARCHITECTURE.md:780 asks for database time.
  Fences still keep the outcome single: `repository` and the proofs say so for
  any drift.
* `effects_resume`: the attempt that continues a run is refused the execution
  its predecessor completed (`jobs/repository.py:494`), against
  ARCHITECTURE.md:318.
* `conversation_poll`: `read_events` takes the watermark last
  (`services/api/src/vda_api/application.py:230`). An event published between
  the read of messages and that line is below the watermark and not delivered; a
  client that continues from the watermark never sees it. ARCHITECTURE.md:256
  takes the watermark first, and with that order the same instance has no such
  behaviour.
* `datasets_limit`: a result within `max_result_bytes` but larger than the pipe's
  buffer keeps the child alive until it is read, and it is read after the join
  (`profiling/supervisor.py:63`), so the call runs into the deadline and ends in
  `ComputeLimitError`, which line 20 reserves for limits that were exceeded. With
  small messages only, the property holds in the same instance.

### Read from the code

What the models do because the code does it, and a reader of the code may not
expect. No run counts these as violations; the properties are stated so that they
say what holds nevertheless.

* `resume_run` (`jobs/repository.py:335`) writes no run event, against
  ARCHITECTURE.md:681; so `JournalTellsTheRun` speaks of outcomes and releases only.
* The registry's key is actor, tool, turn key and place of the call
  (`tools/registry.py:63`), not payload or conversation: a repeated turn whose
  model answers other calls gets the results of the first one's calls in their
  place, and is `ok` although its own payload was not done. What is remembered is
  lost with the process.
* Removing a member leaves its grants (`identity/directory.py:98`); adding it
  again, under any role, revives them.
* `review_and_publish` asks that the reviewer is human and not the submitter
  (`reports/workflow.py:85`), and leaves to its caller what ARCHITECTURE.md:453
  asks for too: that the reviewer is an Owner. Nor does it look at the evidence again,
  as ARCHITECTURE.md:511 has it ("Publish kiểm current permissions/quality/evidence");
  `snapshot` was the last to (`reports/workflow.py:65`).
* A session that has expired authenticates for a caller who passes an earlier `now`
  (`identity/sessions.py:80`).
* A profile is answered and cached although its artifact was tombstoned while it was
  computed, and two requests for one artifact both compute (`application.py:151`).
* Top values call the rest `OTHER` (`profiling/engine.py:485`), a text that may
  also be a value of the column.
* A range rule stops at a column's first offender (`quality/rules.py:135`):
  whether a column with a word and an outlier is an error or a failure depends on
  the order of rows, and the verdict of the first rows stands.
* `count` of a column that is not numeric is refused, for the cells are made
  numbers first (`analysis/ast.py:64`); an official sum or mean of a column with
  a NaN is `NaN`, and min or max end in an exception nobody handles.
* A profile whose child ends without a result is a `ValueError`, not a
  `ComputeError` (`profiling/supervisor.py:74`).
* An upload of tombstoned bytes is answered with the tombstoned version
  (`ingestion/sources.py:171`).
* A repeated append to the observatory journal compares the metadata it is given
  with what is stored after `_safe_metadata` (`observatory/journal.py:57`), so a
  key that is no text makes a faithful retry a violation; actor, type and audience
  of a retry are not compared.
* `RunLedger.transition` to `QUEUED` keeps owner and fence (`runtime/runs.py:84`),
  so that the old holder may still move a run that was given back.

## Fairness

Two runs are about liveness, `worker_live` and `datasets`. For the first,
`Scheduling` is weak fairness of time, of
`run_once` in each process (polling is a loop without exit, and a handler is
assumed to return or raise some time), of restarts (the service is supervised),
and of waking waiting runs (an operator's or a peer's work). Nothing is assumed
of `Enqueue`, of heartbeats or of any fault. That alone does not make a run end:
a process could die in every attempt, a handler could ask for a retry every
time, every lease could run out under a slow handler. `LuckyWSpec` therefore adds
strong fairness, per run, of the four steps towards completion by a worker that
holds the lease: claim, start, a handler that is done while its heartbeat is
sound, and commit. It says that such misfortune does not hit *every* attempt for
ever, and it is needed: without it TLC finds each of these behaviours.
`claim_run` takes the oldest run first and a retried run keeps its age, without
a limit of attempts, so a run that is retried for ever starves younger ones;
the assumption excludes that too.

In `datasets`, `DSpec` has weak fairness of each thread's next step and of the
end of each child and its parent (the operating system runs them), and strong
fairness of time, which stands still while such a step is due. Nothing is
assumed of requests, of the kernel's killing a child, or of a child's coming to a
result: that every request ends rests on the deadline.

## What is proved

`RuntimeRepositoryProofs` proves, for every set of runs and workers, lease time,
clock drift, fast or slow, and bound:

* `RepositoryInvariant`: `Spec => []IInv`, where `IInv` is inductive;
* from it the parts of what the runs check, `RepositoryTypes`,
  `LeaseColumnsAlwaysAgree`, `AttemptsAlwaysMatchFences`, `ClaimReadsAlwaysHold`,
  `OneOutcome`, `AttemptsReleaseOnce`, and the two invariants made of them,
  `RowsAlwaysAgree` and `JournalAlwaysTellsTheRun`;
* `OneMainRunAlways`: one conversation and bot never have two unfinished runs;
* `FinishedIsFinal`: no step changes a finished run;
* `ProgressIsKept`: a checkpoint is moved only by the attempt whose fence the run has,
  and only forward; that attempts come after what is saved is `SavedByAttempts`, a
  strengthening of its own;
* `RepositoryImplementsLeaseFence`: the repository refines `LeaseFence`;
* `LeasesLastUpToTheClocks`: for every drift, a lease is taken from its holder
  only when no more than `Ahead` is left of it; so, if no clock is fast, only after
  it ran out (`LeasesAreRespected`, which has `Ahead = 0` for its only hypothesis).
  `repository` checks this with clocks that are right or slow, and
  `repository_clock` shows that the hypothesis is needed.

The assumptions are those on the constants: run ids are numbers
(`RunsAssumption`; only their order matters), lease time and drifts are naturals
(`ClockAssumption`), bounds are naturals (`BoundAssumption`), `NONE` is no
value of a column (`NoneAssumption`), and callers of `append_run_event` do not
use the repository's own event types as keys (`NotesAssumption`).

Why the invariant looks as it does. `_transition` asks for owner and fence and
for no state. That it cannot move a queued, waiting or finished run is
`LeaseColumnsAgree`: only leased and running runs have an owner. That the fence
identifies the owner is `AttemptsMatchFences`, and that in turn rests on the
attempt number counted in the database being the next fence
(`NextNumberIsNextFence`), and on what a claim has read being true when it writes
(`ClaimReadsHold`), since the claim's UPDATE has no condition but the id.
`OutcomeIsJournaledOnce` and `AttemptReleasesOnce` are about keys
`(run, fence, type)` in the journal; for them to survive a new claim no release
may be on record for a fence not yet issued, which is the one conjunct no run
names, `ReleasesAreOfIssuedFences`. Each action has a lemma that it keeps `IInv`;
those that touch neither states nor fences share `QuietStepKeepsIInv`.
For the refinement, every step moves one run along the edges of `_transition`,
`claim_run`, `create_run` or `resume_run` (`EveryStepMovesOneRun`), and each such
move is a step of `LeaseFence` or a stutter (`MoveIsAbstractStep`). The same lemma
shows that a run which is unfinished and was not can only have been created, under
the unique index, so that `OneMainRun` is inductive beside `IInv`, and that only a
checkpoint changes a revision. For the deadlines a claim is followed over its two
steps: what it read stays due until it commits (`ClaimsAreDue`), because the clock
only runs on and nobody renews the lease of a row that the claim has locked.

`EffectLedgerProofs` extends that argument to the effect rows, for every set of
operations, call names and references:

* `EffectLedgerInvariant`: `ESpec => []EInv`, and from it `EffectTypes` and
  `BlindRetriesAreRefused`;
* `EffectsAlwaysSettleInOrder`: the action property of the run.

It assumes that `NONE` is no reference and no row (`EffectAssumption`). `EInv` adds to
`IInv` that a result stands only on a reconciled row (`ResultsAreReconciled`),
which keeps a result from being replaced, and that an answer about a reservation is
about a row on record (`ReservationsOnRecord`), without which `BlindRetryRefused`
would say nothing of rows. A row names an attempt by run and fence; that the attempt
stays on record rests on no method ever deleting one (`AttemptsStay`).

`DatasetsProofs` proves, for every set of threads, principals, uploads, files and
payloads, every relation of parsers to bytes, and every deadline:

* `DatasetsInvariant`: `DSpec => []DInv`, where `DInv` is inductive, and from it
  `DatasetsTypes`, `StoresAlwaysAgree`, the two together as
  `RegistryAlwaysAgrees`, and `ChildrenEndWithCalls`;
* `UploadsStaySettled`, `TombstonesAreForGood` and `CachedIsAlwaysComputed`, the
  three action properties of the run.

It assumes that the deadline is at least one tick (`DeadlineAssumption`), that
`Parses` relates files to payloads (`ParsesAssumption`), and that `NONE` is no
session, artifact, request, creation or completion (`NoneAssumption`).

`StoresAgree` is not inductive: `TombstoneVersion` marks a version without a look
at the object, so a thread on its way there must have deleted it
(`TombstonesInOrder`), and what an upload is about to list must be stored and never
have been listed (`UploadsInOrder`: uploads do not overlap, and nothing can be
tombstoned before it is listed). A request that goes on must not be mistaken for one
between its writes (`OtherRequestsKeepStores`). `ChildEndsWithCall` needs that a thread has a call
exactly while its request computes (`CallsMatchRequests`), and `CachedIsComputed`
that an answer "ok" was read from a whole message (`AnswersAreWhole`), the only
place where the code tells a result from a fragment.

`ControlWorkerProofs` proves, for every set of runs and workers and every lease
time:

* `WorkerInvariant`: `WSpec => []WInv`, and from it `WorkerTypes` and `HooksRunOnce`;
* `AbandonedLeasesRunOut`: the action property of the run.

It assumes that run ids are numbers, the lease lasts at least one tick, and `NONE`
is no worker or number (`WorkerAssumption`). `HookedOnceCompleted` is not inductive:
between a commit and its hook the worker holds no lease any more, and what keeps
another one from calling the hook too is that it is alone with a run that is
completed and whose hook was not called (`HooksAreDue`). A commit needs a holder,
a held run is active (`HeldRunsAreActive`), and no step makes a completed run
anything else; all steps but the commit and the hook share `QuietStepsKeepHooks`.

`JobLedgerProofs` proves, for every set of jobs, keys, workers and reasons, every
lease time and bound:

* `LedgerInvariant`: `JSpec => []JInv`, and from it `JobsAlwaysAgree`;
* `OnlyTheNewestLeaseWrites`: the action property of the run;
* `LedgerImplementsLeaseFence`: the in-memory ledger refines `LeaseFence`,
  cancellation included.

It assumes that the lease lasts at least one tick and that `NONE` is no job,
worker, reason or number (`JobAssumption`). `JobsAgree` is not inductive alone: that a
key's job exists, that a job not yet admitted has no fence, and that no checkpoint
is newer than the newest lease is `JobsAreAdmitted`. Every action is shown to
change at most one job, along an edge of `StateMove` (`StepsOfTheLedger`); the
invariant, the action property and the refinement are each argued from these edges
and not from the actions again.

`ConversationProofs` proves, for every set of people, bots, threads, keys and
bodies, every quota and bound:

* `ConversationInvariant`: `CSpec => []CInv`, and from it `ConversationAlwaysTyped`
  and `QuotaAlwaysHolds`, whatever overlaps;
* `RetriesAlwaysAnswerAlike` and `CommitsAreAlwaysWhole`, until two writes overlap;
* `MembersAlwaysSeeAndSpeak`: until two writes overlap, changes of membership among
  them, senders were members when they wrote, and what clients have got was written
  while they were members, but for those who joined or left while they read.

It assumes that nobody is both human and bot, that the model's answer is told from
what people write, that there are finitely many threads, and that `NONE` is no
message, outcome or change of membership (`ConversationAssumption`). `CInv` has two halves. The first is
true under any interleaving. Messages stay within the bound because every request
that may still append one had room when it began, and an event is counted once for
every message that was indexed (`Counted`: two counts over threads, which is why
they are finite). Nobody has joined in the future (`NoneAhead`). `Shapes` says what a request is
known to hold by how far it got. The second half, `InStep`, `Alone` and `OnlyWitnessed`, is lost at the step where
`raced` becomes true and therefore stands beside it as a disjunction. `Alone` says that
a change of membership under way is the only one, that nobody writes meanwhile, and
that what it found is still so when it is stored. `OnlyWitnessed` says that nobody
reads the visible messages while their own membership changes (else they are `torn`),
and carries membership from there over the later steps of `read_events` to the
client. `InStep` says that
one request writes (`OneWriter`), that the log is whole when none does, and how much
of the last message is in place at each step of the writer (`Reached`, in terms of
`Written`: the number of last messages not yet indexed, not yet published, not yet
told); and that every answer is the message kept under its key with its event and
outcome (`Told`), from which it follows that two answers under one key are equal.

* `ConversationImplementsMessageLog`: `CSpec => ImplementsMessageLog`, the refinement.

It needs more than `CInv`, for the abstract log asks more of one step: `LogInv` says
that whoever passed the check of membership is a member still when the message is
dispatched (`SpeakersStay`; a change of membership that overlaps a write is a race), that each
dispatch that was queued has been paid for (`QuotaIsSpent`, where `QuotaHolds` has
"at most": what is left of the quota decides the next outcome exactly as the number
of queued entries does), and that a message is kept under the sender and key it has
(`KeptAsSent`). The writer is alone, so that `InHand` is one exactly while its message
is in the log and not told (`HandOfWriter`): appending is unseen (`AppendIsUnseen`),
the dispatch enters (`DispatchEnters`), and a retry is told what was told
(`RecallRepeats`).

`TableProofs` proves, for every file, whatever its width, length and texts, and every
policy and limit, of each table that can be read (`TableInv`: rows are of the file,
cut to the columns):

* `ProfileIsAlwaysExact`: `ReadSpec => []ProfileIsExact`;
* `RulesAlwaysAgreeWithProfile`: `ReadSpec => []QualityAgreesWithProfile`;
* `AnalysesAlwaysAgree`: `ReadSpec => []AnalysesAgree`;
* `VerdictsAlwaysStand`: reading on, no rule's verdict becomes milder.

They assume what `ProfileAssumption`, `AnalysisAssumption` and `QualityAssumption`
(bounds are integers) say of the constants, no more. No induction over steps
is needed beyond `TableInv`; the arguments are about finite sets of rows.

Rules. A column without repetition has as many values as rows, and the other way
round, by the pigeonhole principle; a range without offenders is one between the least
and the greatest of the column's numbers, which exist because a column's numbers are
finitely many. The first offender of a range rule stays the first because a row is
only added at the end.

Sums. `Total` adds up a function by choosing one index after another, and every claim
about counts is one about such sums. The library's induction theorems take an operator
as their parameter, which the provers cannot instantiate; so induction is stated with
a set, F, of the sets of which something holds (`BySubsets`, `ByElements`, from the
well-foundedness of the proper subsets of a finite set). With it: the recursion has a
solution (`SumsExist`), two solutions agree (`SumsAgree`), any index may be taken
first (`SumTakesAny`), sums are linear (`SumIsLinear`), and the sizes of the fibers of
a function add up to the size of its domain (`SumOfFibers`), which is what the bins of
a histogram and the top values with OTHER have in common.

Order. The bins are told from their edges by the definition of division
(`BinsHaveEdges`). Every place of an order is taken, by the least
number that k or more are not above (`EveryPlaceIsTaken`); a quartile lies between
two neighbouring places and so divides the numbers as it should (`QuartileDivides`),
and a later quartile lies in no earlier place (`QuartilesInOrder`). `Before` is a strict total order of the values
(`BeforeIsOrder`; two values that agree in count and key came first in different
rows), so that places are a bijection (`PlacesAreTaken`).

Correlation. That it lies between -1 and 1 is the Cauchy-Schwarz inequality
(`CommonIsBounded`). The spread of a function, size times the sum of squares less the
square of the sum, is a sum of squared distances and so not negative
(`SpreadIsPositive`); the inequality is this of b*f - a*g, with a and b the spread of
f and the covariance. That the root is of a positive number needs two different
values, which are a distance apart (`TwoAreDifferent`).

Agreement. An official plan without a filter is over the column's rows that are not
null, which are those of its numbers if nothing else is there (`OfficialIsProfile`);
drift's mean is over the same rows; and within the limit the preview's rows are all
rows (`PreviewsAreOfAllRows`).

`ServicesProofs` proves what `services` checks of its other parts, for every value
of their constants:

* `RetriesAlwaysGetTheTask`. The invariant is inductive with the types; rows are
  only added (`RowsOnlyComeToBe`), so an answer or a refusal, once right, stays so.
* `HandoffsAlwaysFormOneChain`, with the strengthening `StageIsChainsEnd`: the
  source a stage remembers is where its last hand-off came from, which is all
  `handoff` looks at to refuse a bounce. It assumes that members are no strangers
  and the hop limit is a natural (`MailboxAssumption`).
* `DirectoryInvariant` and `OwnersAlwaysRemain`, with the strengthening
  `GrantsAreInWorkspaces`, without which creating a workspace could change a
  decision; and `GenerationAlwaysTells`. They assume that there are finitely many
  principals, none both human and machine (`DirectoryAssumption`): `LastOwner`
  counts, and `AnotherOwnerIsLeft` turns the count into another owner.
* `AlwaysPublishedAsReviewed`, assuming that callers say truly whether they are
  human (`ReportAssumption`); `SessionsStayDead`, assuming that times to live
  and the bound on callers' times are naturals (`SessionsAssumption`), with the
  strengthening that only a session that was issued is revoked.
* `TurnInvariant`: `TurnSpec => []TurnInv`, and from it `EffectsAlwaysHappenOnce`
  and `TurnsAlwaysTellEffects`, for every set of threads, turns, tools and model
  answers. They assume finitely many threads, and that tools with effects and granted
  tools are tools (`BotTurnsAssumption`). `EffectsHappenOnce` is not inductive: while
  handlers of an operation run, each of them is about to add an effect.
  `EffectsAreAccountedFor` counts them with the effects, and says that an operation
  that is neither remembered nor under way has used up no more than its excuses, so
  that the next handler has one effect to spend. That a result is of an effect needs
  that what is remembered is (`MemoryIsOfEffects`), and of a whole turn that each
  result so far was (`TurnsTell`), which stays true because effects are never undone
  and memory is never cleared (`OnlyGrow`). That it is the only effect when there was no
  excuse follows from a count: no more payloads than times the operation took effect
  (`EffectsAreCounted`), and those are one (`EffectsHappenOnce`).

Each of these, and of the theorems about tables, is a theorem of the part's own
specification. `PartsAreTheirSpecs` shows that `Services` implies each of them, and so `ServicesAlwaysTyped` and
`ServicesKeepPromises`, the properties of the run, of all parts together.

Only model-checked:

* `RunsFinish` and `RequestsEnd`: liveness under fairness, for which the prover has
  no rules.
* `ResumeReusesCompletedOperations`, `PollingMissesNothing` and
  `LimitErrorMeansLimit`, which the code violates, and `LeaseRespected` for fast clocks.

## Not modelled, and what comes next

Not modelled for good: adapters to model providers, S3 and telemetry, settings,
migrations beyond the constraints the repository relies on, the Airflow DAG, the
web client, contracts and templates; the decoding of files and Parquet, whose
state is their input bytes; the run aggregate of `runtime/runs.py`, which no
other code uses and whose promises `RuntimeRepository` and `JobLedger` make; and
the observatory journal, an insert-if-absent of one map in which no step waits,
fails half way or meets another.

Of the profile engine: standard deviations, text lengths, the search for personal
data and the older projection of a profile. Of the charts: their specifications,
which are declarations.

What would come next: the profile's text statistics and its standard deviations; the
rounding of `Decimal` beyond 28 digits; and the API's routes around the conversation
and the datasets, which the models enter at the handlers.
