# decode, verified: TLA+ models, TLC runs and TLAPS proofs

decode (`src/src/decode`) is a terminal coding agent: a REPL in which a human
types while a model works in turns of several legs, tools that are gated by
permissions, an optional sandbox the tools run in, a session log, and a git
hand-back of what was done. Nearly all of it runs on one asyncio event loop. Beside it
stands an eval suite (`evals/`) that runs decode in trials and in cases and keeps what was traced.
What goes wrong in such a program goes wrong between two awaits: an Esc that
lands in the wrong turn, a line that is dropped or delivered twice, a sandbox
created twice, an answer that belongs to an earlier question. This directory
models those parts, checks them with TLC and proves the core with TLAPS.

An action of every model is one stretch of code between two real awaits (or,
where the code is synchronous, one step that may fail on its own). The model,
the tools, the remote services and the human are the environment and may do
whatever their interface allows.

## 1. The system

| Component | State | Operations | Modules |
|---|---|---|---|
| Runner and queues (`harness/runner.py`, `queue.py`) | phase, abort flag, turn task, steering and follow-up queue | submit, abort, wait_idle, drive a turn over its boundaries | Harness, Mailbox |
| Decision channel (`harness/decisions.py`) | one future | request, resolve, cancel | Harness, Permissions |
| Turn handler (`agent/loop.py`) | message history, persisted cursor, token gauge | legs, steering, follow-ups, healing, persist, compact, clear, gated calls | Harness, Conversation, Permissions |
| REPL (`tui/app.py`) | the prompt, the exit sequence | route a line, commands, keys, exit | Harness, Permissions, Handback |
| Session log (`context/session_log.py`) | an append-only file | append turn, checkpoint, clear marker; replay | Conversation |
| Compaction (`context/compaction.py`) | none | split the tail, blank old bodies | Conversation |
| Gate and rules (`permissions/`) | mode, two rule sets, settings.json | check, set mode, persist a rule, load | Permissions |
| Gated and plan-mode tools (`tools/approval.py`, `orchestration.py`, `askuser.py`) | none | defer, enter and exit plan mode, ask | Permissions, Harness |
| Sandbox (`sandbox/executor.py`, `modal_backend.py`, `tools/bash.py`) | memo, handle, restore flag, remote sandboxes | create, exec, file operations, revive, export, close | Sandbox |
| Fan-out (`tools/agent.py`) | a semaphore per loop | guard, spawn, attempt, retry, fold | Fanout |
| Truncation (`tools/truncate.py`) | none | cut a text to two caps | Truncate, Files |
| LSP (`services/lsp/`) | client cache, per-client ids and versions, stream | get client, sync, request, shut down | Lsp |
| Workspace and hand-back (`sandbox/workspace.py`, `handback.py`) | a git repository in one or two copies, origin | prepare, export, verdict, capture, point, push | Handback |
| Headless runtime (`runtime/`, `cli.py` run) | run state, the summary file | resolve the task, prepare, wrap for recording, run, reap, ship, summarise | Headless |
| Remote headless (`remote/`) | the files of a warm container, the log of the child, the laptop's wait | launch, fan out, run, kill, read back, collect | Remote |
| Docker backend, local executor (`sandbox/docker_backend.py`, `tools/exec.py`) | a keeper container, a process group and its pipe | create, install git, exec, terminate, destroy | Exec |
| File tools (`tools/files.py`) | the file and its sibling temporary | read, match, write, replace | Files |
| Memory, skills, agents catalogue, web, tasks, sleep | files read once, one list | load, write back | not modelled |
| CLI, settings, factory, observability, rendering | fixed at start-up, or written only | | not modelled |
| Benchmark job (`evals/harness/benchmark.py`, `trial.py`, `seed.py`, `verifier.py`, `aggregates.py`) | a dataset of task items, the Seed Repos and Workspaces of a job's trials | sync, select, run trials in a pool, kill, clone, grade, summarise | Benchmark, Aggregates |
| Regression gate and suite (`evals/harness/regression.py`, `test_suite.py`, `driver.py`, `datasets.py`, `metrics.py`, `evals/regression/`) | a dataset, one shared Test Suite, and of the process settings, mode, executor | register, reconcile, run a case, score, gate | Regression, Aggregates |
| Traces (`importers/opik_importer.py`, `evals/harness/mine.py`) | none | build sessions of threads; mine errors, denials and long traces | Traces |
| Kitaru commands (`evals/harness/kitaru_*.py`, `scripts/bootstrap_kitaru.py`) | the registry, Sessions, jobs and cohorts of a server | bootstrap, import, cohort | Kitaru |
| Evals command line (`evals/run.py`, `keys.py`) | none | choose a tool, refuse | Evals |
| Oracle sanity, judges, evaluators, table and session scripts | none | one predicate, prompt or print each | not modelled |

How they interact. The REPL's input loop and the turn task share the runner,
the decision channel and the gate, without a lock: both run on one loop and
yield at awaits. The turn handler is an async generator that yields a boundary
and is sent what the runner drained from a queue. Gated tools end a leg with
deferred calls, which the handler decides one by one through the gate and, for
an ask, through the human; the resume leg then runs them. Tool calls of one
response are tasks of their own, so they interleave in the sandbox executor,
the LSP client, the fan-out's semaphore and the decision channel. At exit the
REPL cancels a pending decision, waits for the turn, shuts the LSP servers
down, closes the sandbox (export, then destroy) and hands the Workspace back. `decode run` is
that session without a human; `decode remote` runs it as the child of a function whose container
may stay warm for the next call. A benchmark job runs `decode run` as a child per trial, in a
thread pool, and grades the branch each hands back; a regression case runs the turn handler in
the process of the gate, one case after the other. Both leave traces in Opik, which the importer,
executed by a Worker of a Kitaru server, turns into Sessions, and the commands of that server and
the miner read. Opik and Kitaru are external and keep what several commands, and several
checkouts, left there.

What is hard: the interleaving of a typing human with a running turn; state
read before an await and used after it (the memo of the sandbox, the cache of
the LSP client, the mode of the gate); remote sandboxes that end at any moment;
writes to the log that fail; cancellation in the middle of a frame; two copies
of one repository; datasets that are never pruned and servers whose calls fail between two steps.
`PROJECT.json` lists each hazard at its line.

What makes each part correct. Runner: one turn at a time, an Esc stops its own
turn and no other, each line reaches the model once and in order or is dropped
by an abort. Channel: whoever asks can be answered, by somebody who meant to.
Handler and log: the log replays to the history, each call keeps its return.
Gate: nothing that mutates runs without consent or against a deny rule. Sandbox:
one per session, none leaked, every lost write told. Fan-out: slots exact, every
prompt gets one honest section, in order. LSP: an answer is to this question and
about this text; no process is left. Hand-back: the work is on the session branch
before the push, and nothing the model or origin has is lost. Headless: the summary
is true however the run ended and the finally clause pays what it owes. Executor: the output of
a command is whole, and a command ends by its deadlines. Files: an edit changes the stretch it names and no other byte, a save is all or
nothing, what is shown is as much as fits. Remote: nothing of one call reaches the next, what
reads as shipped is on an origin, and a fan-out ends in a whole table. Evals: a win is the agent's
own work, a figure means what it is called, nothing is counted that was not selected, a case does
not reach the next, a rerun registers nothing twice, and a line about a thread is true.

## 2. The modules

**Harness** is the interactive core. `phase`, `abort` and `turn` are the fields
of `Runner`; `turn` says at which await the turn task is suspended (`scheduled`,
`leg`, `question`, `permission`, `compacting`). `opening`, `steering` and
`followUp` are the prompt and the two queues; `future` is the future of the
decision channel; `ui` is where the input loop is (`prompt`, a command, `draining`,
`closed`). `Submit` is `Runner.submit`; `AtModelRequest`-like boundaries are the
operators `AtResume` and `AtWouldStop`, which are part of the action that reaches
them because nothing suspends between a boundary and the next leg; `Finish` is the
finally clause of `_run_turn`; `PressEsc`, `Answer`, `StartCommand`, `Leave` and
`Close` are branches of the loop of `run_app`. History variables (`typed`,
`entered`, `handed`, `dropped`, `escaped`, `approvals`) remember what properties
speak of and guard nothing.

**Mailbox** is what the harness promises about one typed line, without turns,
boundaries or keys: it is accepted on a lane, whole lanes are handed over while a
turn is in flight, and a turn ends resting (what waits is kept) or abandoned (it is
discarded). `Harness` implements it under `waiting <- Waiting, busy <- turn #
"none"`: `KeepsMailbox` is checked as a property of a run and proved.

**Conversation** is the history and its copy on disk: `message_history`,
`_persisted_count`, the lines of the log and the history a session was resumed
with. A leg is one action (`PromptLeg`, `ResumeLeg`) that ends in text, in a pause
on gated calls or in an exception; then come persist, the compaction cascade,
steering, healing, `/compact`, `/clear`, failing writes and `Resume`. A message is
its role and numbered parts, each blanked or not. `torn` says that a write that failed left half
a line: the next line is glued to it and lost, while the cursor moves on. pydantic-ai's merging of adjacent
messages of one role, which moves indices under the cursor, is the operator
`Coalesce`, external and modelled from the comment and the clamp in `_run_turn`.

**Permissions** is one response of up to two tool calls at a time: each call runs
inline or defers (`needs_approval`), deferred calls are decided in order by
`Check` (deny, allow, mode, ask), the human answers, and the resume leg runs what
was approved, while keys, `/mode`, `/agent` and a hand on `settings.json` change the
gate at every point between. A subject is plain or holds brackets; the second kind,
read as a glob, matches the first and not itself.

**Sandbox** is `SandboxExecutor` over `ModalBackend` for several concurrent callers:
`created` (the memo), `handle`, `recreated` (the one-shot note), the remote sandboxes
with their contents, and the host copy. `Terminate` is best effort: a sandbox may stay up when its end
was asked for, and the history variable `asked` keeps which ones were. Each method is cut at its awaits: creation,
bootstrap, probe, run, revival; a remote sandbox may end (`Expire`) between any two.
The history variable `overlapped` is set once two calls were under way together: without
a lock some promises hold only while that has not happened, and the properties say so.

**Fanout** (with **Truncate**) is the `agent` tool: guards, one child per prompt, the
semaphore with its queue of waiters, two attempts at most, the share of the budget, the
fold, and the retry budget that pydantic-ai counts per response. **Truncate** is pure:
texts are sequences of lines with sizes, and it says how many lines are kept.

**Lsp** is the cache of clients and one client's conversation with its process: ids,
frames in the stream with header and body read separately, the file's versions, time-outs
at both reads, servers that answer late, out of order or never, that stop reading and that crash. A
write waits while the pipe is `full`, and no time-out covers that wait. Two readers
of one `StreamReader` raise, as asyncio does. `overlapped` is as in Sandbox.

**Handback** is git: commits with parents and files, branches and the worktree of the
sandbox's and the host's copy, origin's session branches. `Begin`, `Export`, `Check`,
`Capture`, `Point` and `PushBranch` are the steps of `/ship` and of the exit; the model's own
edits, commits and branch switches are external; `NextSession` is a later launch on the
same Workspace. `backend` is the backend of the session, docker (one copy, bind-mounted) or
modal (two copies, exported by tar), and each session has its own. An export may write a part of the files
and stop (`Part`). What `git status` and `git remote` answer is a value the steps read: a question that fails
reads as "clean" or "no repository", and the history variable `unanswered` keeps that one did. The `.decode/` exclusion and the choice of push credentials decide nothing
here and are left out; a session without a repository to hand back returns at once.

**Headless** is `decode run`: `Resolve` (the task's source and the guards), `Prepare`, `Wrap`
(the recording seam) and the agent's requests, each of which may fail, then the finally
clause in its order: `Reap` (sweep, then destroy), `Ship`, `Write` and `Replace` (the summary
file), and what the command reports. `Interrupt` is SIGINT in the run, `InterruptFinally` SIGINT
in the finally clause, `Kill` SIGKILL anywhere. The sandbox and git are seen as far as the run
sees them: changes made, changes swept, changes on the branch. How many changes lie where is
what the properties compare; Sandbox and Handback model how they get there. Of its sandboxes `left` keeps
those that stay up: one that was asked to end and did not (`Destroy`), and one whose making was cut
off before its name was stored (`CutOff`).

**Exec** is one command at a time: on the host a process group, in docker the client of a
`docker exec` beside what runs in the keeper container. A process is a record: is it the shell,
does it hold the output pipe, does it ignore SIGTERM, has it left the group. `Spawn`, `Deadline`,
`GraceOver` and `Return` are the stretches of `LocalExecutor.run`, `_terminate` and their docker
twins between awaits; `Ends`, `Dies`, `Fork` and `Writes` are the processes, which may do so at any
moment; `Reap` is the event loop collecting the exit of the shell. `KeeperUp` and `Installed` are
the container with its git install, `Close` the destroy at exit, `Crash` the end of decode itself.

**Files** is one call of a file tool, or the output of one command, over the host, the bind mount
or the remote file system. The matching of an edit is pure (`ToLf`, `Normalize`, `FuzzySpans`,
`Span`, `ApplyEdit`): texts are sequences of four kinds of character, and what the code does by
position maps and `str` methods is said of sets of positions and of the pieces characters become. The save is at its steps: on the
host a sibling, its bytes, `os.replace`; under docker a truncation and the bytes; under modal one
call; and `SaveFails`, `PutFails` or `ProcessEnds` between any two.

**Remote** is `decode remote run` and `attempts` on the laptop (`RunCommand`, `AttemptsCommand`,
`FinishRun`, `Collect`, `PrintTable`; a spawn that raises leaves those before it running with nobody to wait for them), the triggers (`Trigger`) and what a call of `run_task` does in its container: the
guard, the log and the clone of the call before, the child with its own steps (`ChildStart`,
`PrepareWorkspace`, `Work`, `Push`, `LogPush`), the timer that kills it, the ceiling of the function and
the read-back of its log. A container stays warm, so its files outlive the call. The nightly
function has containers of its own and is the instance with that one trigger. Headless and
Handback model the child and its hand-back in detail.

**Benchmark** is one benchmark job: `Sync` and `Evaluate` are `run_benchmark` before the pool,
then each trial has a harness thread (`Start` to `Verify`, the body of `run_trial` at the points
where it may raise, wait or be overtaken) and a child (`AgentEnds` to `Dies`), the decode run as
Headless and Handback tell it. `trial[p]` is what the harness has of it in memory and on disk;
`pushed` is what really reached the Seed Repo, `reported` what the summary says. A tree is the set
of whose work is in it: of a trial, of a cheating agent's own tests and reward, or of nobody
(`Base`). `work` is the Workspace directories, one per trial unless the environment sends them
all to the operator's (`Place`). **Aggregates** is the arithmetic of the report, in fractions,
checked against a count of samples.

**Regression** is one process that runs commands of the gate, the suite and `sync` one after
another: registration in two places, the reconciliation in its three calls with another checkout
between them, and the run of a case from `Begin` to `End` with the capped model, the denying gate
and the compaction at would-stop. `process` is what cases share, `turn` the case at hand,
`Payload` what is scored, and the metrics are operators on it.

**Traces** says what a set of spans becomes (the least set with the roots and every child, the
turns of a thread in order, its readiness) and what the miner finds. **Kitaru** is one command at a
time on a server (`client` is where it is), each call of which may fail where `Failing` says so,
with the Worker, growing threads and an author who edits scripts between. **Evals** is the
command line: it runs one tool, and its state is the state of the tools.

Each module's `MC...` module gives values to constants that a configuration file cannot
write. No configuration replaces a definition.

## 3. The runs

Runs that pass:

| Run | Question | Bounds |
|---|---|---|
| `harness` | can typing, aborting, answering and leaving at any await break the turn machine, or lose, repeat or reorder a line? does Harness implement Mailbox? does every turn end? | 3 lines, 2 legs, 2 calls per leg |
| `conversation` | do cursor, log and history agree through compaction, aborts, exceptions, failing writes and a resume? | 6 parts, 2 resumes, each kind of write failing once, half a line left by the first failure |
| `sandbox` | leaks, lost writes and termination, with two calls in turn or interleaved | 2 callers, 2 remote sandboxes, 2 writes |
| `permissions` | consent, deny rules and plan mode, with the settings file edited at any moment | 2 responses of up to 2 calls |
| `files` | does an edit stay where it was meant, is a save all or nothing, is what is shown the longest head within both caps? | texts of up to 4 characters, old strings of up to 3, 1 or 3 lines, 2 to 6 bytes |
| `fanout` | slots, order, honesty, termination | 2 calls of 2 prompts, 2 slots, 3 responses |
| `lsp` | answers, processes and termination, with ops in turn or interleaved | 2 callers, 2 ops, 1 edit, 2 processes |
| `handback` | is the work secured, and nothing lost, over several hand-backs and sessions on either backend, with git and exports failing? | 2 files, 2 sessions, 3 commits, 2 hand-backs |
| `headless` | is the summary true, are the debts of the finally clause paid, with sandboxes cut off in their making and destroys that fail? | every launch, a ceiling of 2 or none, 3 requests |
| `exec` | is the output whole, does a command end? | 2 commands, 3 processes each, 2 pieces of output |
| `evals` | are verdicts, figures, selections, registrations and lines true, and does a command end? | 2 tasks, 2 trials, 2 threads; 3 cases, 2 commands, caps of 1; 6 traces in 4 threads, 2 commands |
| `remote` | does anything of one call reach the next, is what reads as shipped shipped, is the table whole? | 2 calls, 2 repositories, 2 attempts, 1 container |

Why these bounds are enough: each is the smallest that lets every hazard listed for its
module happen with something left over. Three lines put an opening, a steering and a
follow-up line in one turn, or one of them into the next; two legs give a resume leg with late
steering; two resumes read back a log that itself began with a resume; six parts give a call, its return, steering between them, a compaction and a
leg after it; two files tell a tracked from an added one; two sessions let one session's
leftovers meet the next; three requests let a ceiling of two fire and a run without one go
past it. Two remote sandboxes let a call revive once and lose the second as well.
Texts of four characters hold a CRLF between two letters and a white-space run between two matches; three
processes are a shell, one that stays in its group and one that left it; two calls in one
container are a predecessor and a successor, and in a fan-out two attempts of which one is lost.
Two trials of one task let one win and one be lost, or both meet in one Workspace; two tasks let one
be refused or left out; a case that denies, one that compacts a prefilled history and one that cannot
be built are each before or after another; two commands on a server are a failure and its retry, or an
import and a second while the Worker still has the first. In a history variable's stead, MCEvals starts from
datasets, suites and registries that earlier jobs left. For each property the project holds a mutant, a plausible bug in
the mapped code, that the same run with the same bounds rejects.

Deadlock is not checked (`CHECK_DEADLOCK FALSE`) where a session may end or a bound may
be exhausted; termination is stated as liveness instead.

Where a run checks a property with several parts (`JobIsHonest`, `LogIsFaithful`, `WritesAreAccounted`
and the like) each part is an operator of its own with its own comment.

Every module of decode itself but Truncate and Headless has a `TypeOK`. Harness's is checked in its run and
proved; the others hold in theirs, and adding them to the configuration shows it.

## 4. Fairness

asyncio runs every ready callback, so each step of a task that is ready is weakly fair.
`Harness` adds that a leg ends (requests carry time-outs, tools are bounded by
`bash_timeout_s`, but for the orphan on a pipe that Exec finds) and that a human at the prompt answers a pending decision: nothing in
the code does, and without it a turn that asks may wait for ever by design. Nothing obliges
anyone to type, abort or leave, and nobody answers once the prompt is left: that is what
`ExitCompletes` is about (section 5). In `Sandbox`, `Fanout` and `Lsp` each caller's next step is weakly fair:
remote calls return or raise, a child ends within `subagent_max_requests`, and a read ends by
`lsp_request_timeout_s`. A write of `Lsp` whose pipe is drained again and again goes on (`Drained`, and
`ShutdownAll` for the writes of the exit, are strongly fair: a drain that is woken runs before it can be
blocked by its own next write); that a server reads is not assumed, and `EveryOpEnds` has the
exception this leaves. No fairness is assumed of a server, of an expiry or of a fault.
In `Exec` the timers of asyncio fire (`Deadline`, `GraceOver`), the loop collects an exit and a
returned command's reply, the docker daemon answers (`Answered`; its calls carry time-outs), and a
process that a SIGTERM reached and that does not ignore it dies; nothing obliges any other
process to end, to print or to fork. In `Remote` Modal gives a queued call to an idle container,
the straight-line steps of a call are taken, the timer thread kills a child that is over its
time, Modal enforces the ceiling, and the laptop takes what is there; a clone, a push and the
model's work may take for ever, and a container may die or not. `Files` has no liveness.
In `Benchmark` the harness moves on by itself: its waits have time-outs and its pool threads are
threads; a child owes nothing, so `CommandEnds` holds with agents that hang, because `Kill` does not ask
them. In `Regression` a command goes on by itself and the model always answers something, by its
own time-outs. `Kitaru` claims no liveness: the server and the Worker owe nothing.

## 5. Where the code departs from what is said of it

Each of these properties quotes a comment, a docstring, an ADR or a test and is defined at the
end of its module. TLC finds a
counterexample to each within seconds on the instance of the run that passes, with
the property in place of those of its configuration; where a constant has to change its comment
says which, and `FoldWithinBudget` has a configuration of its
own (`MCFanoutBudget.cfg`), because it needs lines longer than the budget's share.

| Module | Property | What happens |
|---|---|---|
| Remote | `OwnWorkspace` | in mode modal a call in a warm container works in, and ships, the Workspace of the call before (`remote/cli.py:120-121` and `remote/headless.py:769-771` say each call has its own) |
| Conversation | `PairsNeverSplit` | steering before a resume leg is a compaction boundary between a call and its return |
| Sandbox | `OneSandbox` | two calls find no sandbox, both create one, and one is left with nobody to terminate it |
| Permissions | `DenyBeatsBypass` | in bypass mode a gated tool runs inline and no deny rule is consulted |
| Harness | `ExitCompletes` | a question asked after the exit began is never answered, and the exit waits for it |
| Harness | `EscNeverApproves` | Esc with text in the buffer submits it as the answer of a pending decision |
| Conversation | `CrashedLegIsLogged` | a leg that coalesced the history and raised loses a message of the log |
| Conversation | `EveryCallHealed` | a dangling call in front of steering is not healed |
| Conversation | `LogKeepsFullFidelity` | what a failed append held is microcompacted before it is written again, and reaches the log blanked |
| Conversation | `ResumeRestores` | a resumed session does not write what it was resumed with |
| Sandbox | `NoneLeftUp` | a failed terminate is suppressed, and the sandbox the session has forgotten stays up (`modal_backend.py:170-171`) |
| Sandbox | `LossIsTold` | a search pops the restore note and drops it |
| Sandbox | `NeverCrashes` | a sandbox that ends in its bootstrap raises out of the executor |
| Sandbox | `FileOpsRevive` | after a failed revival a file operation fails without trying again |
| Permissions | `PlanIsReadOnly` | a call approved by edit mode runs after the human switched to plan mode |
| Permissions | `NextIdenticalAllowed` | a subject with brackets, read as a glob, does not match itself |
| Permissions | `OneDecision` | two calls of one response both ask, and the second ends the leg |
| Files | `LongestHeadAlways` | separators other than line feeds count for one cap only |
| Files | `EditIsUnique` | occurrences that overlap count as one, and the edit is made at the first |
| Files | `EditKeepsRest` | a file with mixed line ends comes back with one style |
| Exec | `CallEnds` | a process that left the group and holds the pipe keeps the command waiting past its deadlines |
| Exec | `NoLeakedProcess` | such a process, or one that closed the pipe, outlives a command that timed out |
| Exec | `TimeoutKillsCommand` | the client of `docker exec` is killed and the command runs on in the container |
| Exec | `CrashReapsKeeper` | `--rm` does not stop a keeper that runs when decode is killed |
| Remote | `CeilingIsAbove` | a time-out over an hour is asked for, and the ceiling of the function comes first |
| Fanout | `FoldWithinBudget` | two over-long first lines outgrow the shared budget |
| Lsp | `FramesStayWhole` | a time-out between header and body leaves the stream inside a frame |
| Lsp | `OneServerPerRoot` | two ops that overlap find no client and both start a server |
| Lsp | `NeverHeld` | a server that never reads again holds an op at a write that no time-out covers (`client.py:157-162`) |
| Handback | `AlwaysSecured` | a `git status` that fails reads as clean, and what is not committed stays off the branch or is passed over (`handback.py:246-249`) |
| Handback | `FinalStateIsShipped` | under modal a deleted file is back on the branch |
| Handback | `ReshipFastForwards` | under modal a second `/ship` does not build on the first |
| Handback | `SkipMeansNothing` | commits on a branch not checked out are passed over |
| Handback | `ShipNeverCrashes` | a git failure in `/ship` leaves the REPL's loop |
| Headless | `NoSandboxLeft` | a destroy that fails is swallowed, or an interrupt comes before the container's id is stored, and the sandbox is left up (`docker_backend.py:107-113`, `350-359`) |
| Headless | `RecordingObserves` | a session refused inside the run ends a run no Worker launched |
| Benchmark | `EveryTimeoutIsGraded` | a stopped run whose clone or Verifier fails, or whose summary is half written, is an infra error and leaves the figures (`trial.py:25-27` grades it) |
| Benchmark | `OnlySelectedRun` | an item without a checksum of a task that was not selected matches the checksum that is not there, and is run (`benchmark.py:346-351`) |
| Benchmark | `GradeIsOfItsItem` | a task edited while its trial runs is graded by the new tests under the old version |
| Benchmark | `PushedWorkIsGraded` | work that reached the Seed Repo of a run stopped before its summary is graded as nothing |
| Benchmark | `InfraIsExcluded` | a task all of whose trials were lost counts nought in the job's pass rates, which `aggregates.py:18` keeps lost trials out of |
| Regression | `InfraIsNotScored` | a case the harness could not run gets scores from metrics about what did not happen |
| Regression | `ScoresAreTrueOfAll` | compaction drops the calls that a "did not succeed" score looks for |
| Regression | `ScoresAreTrueOfCrashes` | a run that crashed and whose record is lost scores "did not succeed", as no call is seen (`regression.py:186-214`; a case with a cap of 2) |
| Regression | `RecallIsThroughCompaction` | compaction comes at would-stop, after the answer that was to survive it (`loop.py:196-198`) |
| Regression | `ChangedLinesAreAll` | an added line that starts like the header of a diff is not counted |
| Regression | `GradedOnce` | another checkout that syncs between reconciling and running changes what is judged (with `OtherPhases = {"reconciled"}`) |
| Kitaru | `RerunAddsNothing` | a version list that fails is read as empty, and a rerun registers a version again (`bootstrap_kitaru.py:376`) |
| Kitaru | `LatestIsCurrent` | an edit undone leaves the older version matched and the newer one in use |
| Kitaru | `SkippedIsWhole` | a thread that grew after its import is skipped, and its later turns are never there |
| Kitaru | `FailedIsAbsent` | an import that timed out is executed later |
| Kitaru | `AskedIsCollected` | of a thread that only metadata names, one trace alone is imported (`run.py` expands it "to its whole THREAD") |
| Kitaru | `NoSpanLost` | spans in a cycle beside a root are in no tree |
| Kitaru | `NoHalfCohort` | a failing trial without a Session is left out and the cohort made of the others (`run.py:546-548`) |
| Kitaru | `DenialsAreMined` | a denied call whose twin ran later in the turn is not mined as denied |

Two more, seen in the code and no property of the model: a session list that fails after an import
that settled aborts the whole batch (`kitaru_import.py:393`), and a batch of which every thread failed
exits 0 (`run.py:507-521`).

Where such a promise is broken only in named circumstances, a passing run checks it outside of
them: `LogIsFaithful` and `CallsStayAnswered` in Conversation, `WritesAreAccounted` and `NoLeak` in
Sandbox, `OneServer` and `EveryOpEnds` in Lsp, `WorkIsSecured` in Handback, `DebtsArePaid` in Headless, `RegisteredOnce` in Kitaru, `CutsAreExact` in Files, `CallEndsUnlessOrphaned` in Exec, `VerdictIsFair` and
`SuiteIsHonest` in Evals.

## 6. The proofs

Eight modules, checked by tlapm. Each theorem is about the specification for every value of its
constants; where it states a property of a run, the run shows it on a small instance. Constants
only meet the named ASSUME of their module, and TLC evaluates each of those on the runs.

`HarnessProofs`, for every set of lines and every bound (`BoundsAssumption`:
the bounds are positive numbers):

- `HarnessTypes`: the domains. Types of the turn (`TurnTypeOK`) and of the lines
  (`LineTypeOK`) are preserved separately, because the second needs facts about sequences.
- `HarnessControl`: the inductive invariant `Control`. `SingleFlight`, `DecisionHasAsker`,
  `AbortIsOfThisTurn` and `RestingQueues` are not inductive one by one: that the queues rest
  after a turn needs that the prompt was taken (`OpeningTaken`), and that needs where the turn
  is suspended. The properties the runs check follow (`HarnessSingleFlight`, `HarnessAbort`,
  `HarnessDecisions`, `HarnessQueues`), and with them the action property `HarnessNoLeg`.
- `HarnessKeepsMailbox`: the refinement. `InitMaps` and `StepMaps` show that the initial state
  maps to an initial state and each action to `Accept`, `HandOver`, `Rest`, `Abandon` or a
  stutter.
- `MailboxInv`, `MailboxFifo`, `MailboxOnce`: the abstract promise. `Inv` adds to the types
  that lanes are first in, first out and that each entered line has one position in one lane
  and was not dropped (`EnteredOnce`).
- `HarnessFifo`, `HarnessLineOnce`: the promise carried over to Harness by the refinement.

`ConversationProofs`, for every number of parts and of resumes (`BoundsAssumption`), has four
invariants that lean on one another in this order:

- `TypeInv` and `OrderInv`. `ReplaysOnceInOrder` says that a replay is in the order things were
  said. What keeps it so is where the cursor stands: what the history holds behind the cursor comes
  after all that is read back, and no call it leaves open was answered there (`Fits`), so that the
  next append can neither repeat nor overtake. `LogReplaysOnceInOrder` follows, whatever fails, drifts or is forgotten.
- `FaithInv`: while nothing drifted, each marker was written and no line was lost behind half of another, what is read back is the history
  up to the cursor, and unless an append failed each body behind the cursor is still whole, so that
  the blanking of old bodies never reaches a line that is yet to be written. `LogStaysFaithful`.
- `SoundInv`: calls and returns are paired (`Paired`) in memory and in the log. The second part is
  needed for the first, because a resume makes the log the history. `EveryCallStaysAnswered`.
- `StoredInv` bounds what is on disk, for `ConversationTypes`.

The operators on histories are recursive functions and folds (`Load`, `Coalesce`, `Behind`). The
induction theorems of the library take an operator and cannot be instantiated here; `NatInSet` and
`SeqInSet`, proved at the top of the module, say the same of sets, and carry these proofs.

`ToolsProofs` is about three components.

- Exec (`ExecAssumption`: the bounds are numbers). `ExecSafety`: `ExecInv` adds to the types that a
  command has processes, signalled ones too, only once it was spawned, and that a reply that ran
  has no process left that could write. Without the first, what was left of one command could be
  taken for the next one's; without the second a reply could be outgrown. `ReplyIsWhole` follows.
- Files, for any texts and caps. `SaveInv` says what each step of a save has done: the sibling
  stands between the old file and the new one, is complete before `os.replace` and is gone in every
  way out but the end of the process. `FilesNeverTorn`. `CutsInv` adds that what an edit saves is
  the file with a span replaced that was found in it, and that what is shown is a text of lines, cut
  where its caps cut it; `FilesCutsAreExact` follows from two facts about the operators. `EditCuts`:
  line ends are converted character by character (`WithEolAppend`, `ToLfAppend`), so a file of one
  style falls into the same three parts in both readings (`WithEolConcat`) and the middle one reads
  as what was matched (`ToLfBack`). `TruncateKeepsTheLongest`: where lines end in line feeds the cut
  is the greatest number of lines both caps allow. Its hypothesis is that the settings leave room
  for a line: `max_output_lines` is an unchecked number, and at 0 nothing is shown. Both need
  induction over texts, which `TextInduction` gives from `NatInSet`; `Ascending` is written so that
  a prover can reason about it (the library's sort is opaque to it), and `Several` tells one
  occurrence from more, which is all the code asks of `str.count`.
- Fanout (`FanoutAssumption`), for any prompts, slots and responses. `FanoutInv` is `CallsOk` (the
  children of a call match its prompts, what a child reported fits its state, and a fold is made of
  the sections of children that are done) and `SlotsOk` (who waits waits once and holds no slot,
  waiters and holders are the children under way, and nobody waits while a slot is free).
  `FanoutSlotsExact` counts what waits through injective sequences. It follows the release of a
  slot to the waiter that gets it, and the removal of one that is cancelled (`WaitersAfter`).
  `FanoutFoldIsTrue`.

`PermissionsProofs` (`CatalogAssumption`). `PermissionsLaw`: the property speaks of calls that ran,
the invariant of calls at every point of their life - a deferred or approved call is a gated one,
an approved one has its consent and was not denied, a pending request belongs to a call that asks -
so that a mode or a rule that changes between the decision and the run cannot matter.
`PermissionsOnlyAllowed` follows.

`HeadlessProofs` (`HeadlessAssumption`). `HeadlessInv` says at each step of the finally clause what
has been paid by then (`Reaped`, `BranchPaid`, `Told`), what the run state says (`StateIsTrue`) and
that the branch is the one the hand-back names (`BranchIsTrue`). `HeadlessSummaryIsTrue` needs the
last two at the moment of the write, `HeadlessDebtsArePaid` the first after it. Of
sandboxes it says what the code can promise: the run asked each one it knew to end (`Boxed`: what is left
is one whose destroy failed or one cut off before it had a name, by an interrupt or with the agent).

In the same module Remote (`RemoteAssumption`), for any containers, requests and triggers.
`RemotePayloadIsTrue`: `RemoteInv` says that a call that runs is in one container (`OneEach`);
that from its reset on the log of a container speaks of the call that runs there, unless the reset
failed (`LogsAreOwn`); a line that says pushed is of a branch on the origin
(`PushedLines`); a clone is of the repository asked for before anything is pushed from it
(`ClonesAreOwn`); and a result was read from the log of its own call (`ResultsTrue`). What a
predecessor left in a warm container is why the second and fourth are needed.

And Handback (`HandbackAssumption`: the bounds are numbers, a session has a name of its own), for any
files, branches, sessions and backends. `HandInv` says that the branch checked out has a commit,
that commits build on earlier ones, that a hand-back gets past the check only in a repository of its
own, and that the worktree is clean from the capture on, unless a question to git failed, and the session branch stands at its tip from
the pointing on. `HandbackSecured` and `HandbackKeepsCommits` are properties of steps, proved from it before and
after the step. The second needs what `Behind`, a recursive function, returns: `Ancestry` shows that
the equation has a solution (the commits in every set that holds n and the parents of all it
holds), so that what the definition chooses satisfies it.

`LspProofs` (`LspAssumption`: no server is called as the empty or the broken entry), for any callers,
servers and edits. `LspInv`: ids of requests and of frames are below
the server's counter, so a new request meets no old frame of its id; a query that waits was sent
after the server heard of contents as new as the op, and each frame with its id is as new
(`CallerOk`); a reader inside a frame is the only one and finds it (`Heads`), until the stream is
misread. `LspAnswerIsRight` follows.

`LspOneServer`: `Solo` says who keeps each process that is up, the cache or the one op that started
it while the cache was empty.

`SandboxProofs` (`BoundsAssumption`: the bounds are numbers). `SandboxKeepers`: `SandboxInv` has the
types, which hold for any overlap of calls, and, while calls come one after the other, `Alone`: a
call that builds does so while the session has no sandbox, one that probes or runs does so in the
session's, a sandbox is terminated only by the call that builds it or at the end, and the writes
are where `WritesOk` says. `SandboxNoLeak` and `SandboxWrites` follow, the first with a
terminate that may fail (an end asked for is remembered, whether it came or not); neither is inductive, because
what a revival drops depends on where the call that revives stands.

`EvalsProofs`, for any tasks, environments, cases and servers.

- `EvalsVerdicts`: a verdict is given to what was cloned, so `BenchInv` adds that nothing is
  collected before the child is gone, that no status is there before the record and that a trial is
  not late before it ran; a child works in its own Workspace because the launcher pins the variable
  (`OwnPlace`).
- `EvalsCasesApart`: `CaseInv` adds that a case that runs holds one Workspace, whatever it did to
  the rest of the process, so that its end, whichever way it ends, comes back to none.
- `EvalsSuiteIsHonest`: `SuiteInv` follows the messages of a case as they are made (`RunInv`:
  a tree that changed has its write in the history, for a case that neither compacts nor starts from a
  history), the select that is under way (`SelectInv`: what was graded and what is left are the
  items selected, each once) and what is scored (`Deserved`). Its hypothesis `SuiteIsOurs` is that no
  other checkout reconciles the one shared suite between this checkout's insert and its run;
  without it TLC refutes `GradedOnce` (section 5). The bound of the run hid
  `ScoresAreTrueOfCrashes` of section 5: the proof did not go through, and a larger instance
  showed why.
- `EvalsRegisteredOnce`: `RegistryInv` adds that what is about to be registered is not registered
  yet, or stands where the list could not be read (`OnceBut`, over the places `unread` keeps), and
  that the kinds a bootstrap is done with have their version. It needs no hypothesis on what fails.
- `EvalsTracesAreTold`: `ImportInv` (`TracesInv`: every key collected, filed and told of is that of
  a thread; `LineInv`: each thread collected has its line or is still to come, and the one that is
  waited for is the job filed last) and `ToldInv` (a turn is in one Session, and what a line says
  is so on the server). What the miner finds is counted, call by call, against the legs a trace has.
- `EvalsCohortIsFailures`: `CohortInv` says of whatever is about to be added that it is of a trial
  that failed and is not a member yet.
- `EvalsJobIsHonest`: `JobInv` says that the items a job selected are one for each selected task, of
  the version on disk (`ItemsAreFresh`), and that its trials are those items, each as often as
  asked. Two hypotheses, both met by the run: `TasksRest`, no task is edited between the selection and the
  report (edits before it are let in, and make the job refuse), and `ItemsAreStamped`, no item Opik
  held before has an id and no checksum. Without the second the departure `OnlySelectedRun` of section 5 is
  reached. The figures are `RowsAreHonest`: pass@k is the share of the samples of k graded trials that
  hold a win, for any number of trials, where a run checks two. It rests on `ChooseIs`, that the
  quotient of factorials counts samples, by Pascal's rule (`PascalRow`) and induction over both
  numbers; `Tables` shows that the equation of the recursive function `factorial` has a solution.
  `GradedPasses` and `Upsert` take their elements in an order nothing reads, because what they would select with is
  opaque to the prover.

`EvalsRegisteredOnce`, `EvalsTracesAreTold` and `EvalsCohortIsFailures` use `KitaruData`, which says of what others write, and earlier commands left, what a
proof cannot know: an id names one trace; a call that ran left a second leg; a trial that was won
has the reward of one (`trial.py:22`); Sessions and registry are at first as these commands leave
them. TLC evaluates it on the data of the run.

Each invariant and each action property that a run checks is stated by a theorem. Model-checked and
not proved: liveness under fairness and anything about ENABLED, which is out of the prover's reach. No
module declares a RECURSIVE operator, so each of them can be proved about.

## 7. Plan

Built first, in this order, because each later part leans on the earlier one's promises:
Harness and Mailbox, Conversation, Permissions, Sandbox, Fanout with Truncate, Lsp, Handback,
Headless, Exec, Files, Remote, Aggregates and Benchmark, Regression, Traces and Kitaru, Evals.

Next modules and extensions:

1. **Executor**: the promise both backends make (a call is answered once, from a live sandbox, or
   rendered as a failure), which Sandbox and Exec implement.
2. **Log**: what is replayed is a prefix of what was said, which Conversation implements.
3. Files: glob and grep, containment of paths, `extract_tar`; Truncate with the caps of memory.
4. Compaction arithmetic and the context window as a pure module against a reference definition.
5. Remote with the nightly function beside `run_task`, each with its containers.
6. Kitaru with two clients at once.

Theorems next: the refinements of Executor and of Log, step by step; the actions of Harness and Lsp
as properties of steps.

## 8. Not modelled, and why

Streaming and rendering of events (nothing reads them back); parsing and validation before the
first turn; discovery of skills and agents (files read once); observability (written only); the
web, task and sleep tools (single steps); the search for the budget cut in the history (any
position is allowed instead); the translation of LSP results; image and secret assembly of the
Modal backend and of the remote deployment; the listing of sessions; containment of paths and the
matching of patterns by glob and grep; of the eval suite the oracle gate, the prompts of judges, the evaluators, the
tables and the scripts that seed sessions (single predicates or prints), the preflight of keys and the
comparison of two experiments. An op of the LSP is not cancelled: nothing in decode does that, but pydantic-ai
may when another tool of the same response raises.
