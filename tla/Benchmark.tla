------------------------------ MODULE Benchmark ------------------------------
(* A benchmark job (evals/harness/benchmark.py, trial.py, seed.py,          *)
(* verifier.py, datasets.py): tasks on disk are registered as dataset items *)
(* and the fresh ones are run, each some times, by a pool of threads.  A    *)
(* trial is a harness thread and the decode run it spawns: seed a           *)
(* repository, wait, interrupt, kill, read the summary, grade a clone of    *)
(* the branch that was handed back.  The report is of what was graded.      *)
(*                                                                          *)
(* Files are what a grade can tell apart: <<i, n>> for the solution by the  *)
(* agent of trial n of item i, TestEdits for an agent's edits of the tests, *)
(* OldReward for a reward file an earlier run of the tests left behind.     *)
EXTENDS Aggregates

CONSTANTS
    Tasks,          \* the task folders on disk
    Tier,           \* the difficulty of each
    Broken,         \* sets of the folders that may break the contract
    Filters,        \* the --task / --difficulty filters, records [ids, tier]
    Datasets,       \* what Opik may hold before: sequences of items
    Operators,      \* the environments of the operator
    Recipes,        \* what seeding may build, records as in Seed
    Trials,         \* --trials
    Threads,        \* --threads
    EditPhases      \* the phases of a job in which a task may be edited

\* setup: "absent", "ok", "failed" or "late"; the rest is of a .git it built, if any.
Seed == [setup : {"absent", "ok", "failed", "late"}, git : BOOLEAN, committed : BOOLEAN,
         main : BOOLEAN, clean : BOOLEAN, remote : BOOLEAN]
EnvVars == {"SANDBOX_WORKSPACE_DIR", "SANDBOX_REPO", "SANDBOX_MODE", "SANDBOX_GIT_TOKEN", "KITARU_TASK_ID"}

ASSUME BenchmarkAssumption ==
    /\ Recipes \subseteq Seed /\ Operators \subseteq [EnvVars -> {"unset", "operator"}]
    /\ IsFiniteSet(Tasks) /\ Broken \subseteq SUBSET Tasks
    /\ \A items \in Datasets : items \in Seq(ToSet(items))
    /\ Trials \in Nat /\ Threads \in Nat \ {0}

VARIABLES
    disk,       \* the version of each task folder: 0, or 1 after an edit
    broken,     \* the folders that break the contract
    dataset,    \* Opik's items: task, version (its checksum, NoChecksum for none), id (whether it has one)
    operator,   \* the environment the command was started in
    job,        \* phase, the tasks selected, the items to run
    trial,      \* the trials of the job, by item and number
    work        \* the files in each Workspace

benchVars == <<disk, broken, dataset, operator, job, trial, work>>

NoChecksum == -1
TestEdits == <<0, 1>>
OldReward == <<0, 2>>
Shared == <<0, 0>>      \* the operator's own Workspace directory
NoBranch == {<<0, 0>>}
Base == {}              \* the seed as it was

BenchInit ==
    /\ disk = [t \in Tasks |-> 0] /\ broken \in Broken
    /\ dataset \in Datasets /\ operator \in Operators
    /\ job = [phase |-> "idle", selected |-> {}, items |-> {}]
    /\ trial = <<>> /\ work = <<>>

-----------------------------------------------------------------------------
\* The author edits a task: its checksum changes.
Edit(t) ==
    /\ job.phase \in EditPhases /\ disk[t] = 0
    /\ disk' = [disk EXCEPT ![t] = 1]
    /\ UNCHANGED <<broken, dataset, operator, job, trial, work>>

\* load_benchmark_tasks: one folder that breaks the contract fails the whole scan.
Loads == broken = {}

SelectTasks(filter) ==
    {t \in Tasks : (filter.ids = {} \/ t \in filter.ids) /\ filter.tier \in {"any", Tier[t]}}

Refuse == job' = [job EXCEPT !.phase = "refused"]

\* insert: deduplicated by content, nothing is ever deleted.
Upsert(items, new) == items \o SetToSeq({item \in new : \A i \in DOMAIN items :
                                             items[i].task # item.task \/ items[i].version # item.version})

BenchmarkItem(t) == [task |-> t, version |-> disk[t], id |-> TRUE]

\* run_benchmark up to sync_benchmark_dataset.
Sync(filter) ==
    /\ job.phase = "idle"
    /\ LET selected == SelectTasks(filter)
       IN  IF Trials < 1 \/ ~Loads \/ selected = {}
           THEN Refuse /\ UNCHANGED dataset
           ELSE /\ dataset' = Upsert(dataset, {BenchmarkItem(t) : t \in selected})
                /\ job' = [job EXCEPT !.phase = "synced", !.selected = selected]
    /\ UNCHANGED <<disk, broken, operator, trial, work>>

Checksum(t) == IF t \in job.selected THEN disk[t] ELSE NoChecksum
Matches(i) == dataset[i].id /\ dataset[i].version = Checksum(dataset[i].task)

\* _selected_item_ids: the first item of each task whose checksum matches.
SelectedItems ==
    {i \in DOMAIN dataset : Matches(i) /\ \A j \in 1 .. i - 1 : Matches(j) => dataset[j].task # dataset[i].task}

NewTrial == [step |-> "waiting", child |-> "none", pushed |-> NoBranch, reported |-> NoBranch,
             summary |-> "absent", late |-> FALSE, reason |-> "none", graded |-> NoBranch,
             tests |-> NoChecksum, status |-> "none", ran |-> FALSE, started |-> Unknown, finished |-> Unknown]

\* The rest of run_benchmark, up to evaluate.
Evaluate ==
    /\ job.phase = "synced"
    /\ LET items == SelectedItems
           plan == items \X (1 .. Trials)
       IN  IF ~(job.selected \subseteq {dataset[i].task : i \in items})
           THEN Refuse /\ UNCHANGED <<trial, work>>
           ELSE /\ job' = [job EXCEPT !.phase = "running", !.items = items]
                /\ trial' = [p \in plan |-> NewTrial]
                /\ work' = [place \in plan \union {Shared} |-> Base]
    /\ UNCHANGED <<disk, broken, dataset, operator>>

-----------------------------------------------------------------------------
\* The harness thread of a trial, with its changes to the trial's record.
TaskOf(p) == dataset[p[1]].task
Becomes(p, t) == trial' = [trial EXCEPT ![p] = t]
Harness(p) == UNCHANGED <<disk, broken, dataset, operator, job, work>>

\* The finally clause of run_trial: result.json and the verdict, for whatever ended the trial.
Recorded(t, status) == [t EXCEPT !.step = "recorded", !.status = status, !.finished = 2]
Infra(t, reason) == Recorded([t EXCEPT !.reason = reason], "infra_error")

Start(p) ==
    /\ trial[p].step = "waiting"
    /\ Cardinality({q \in DOMAIN trial : trial[q].step \notin {"waiting", "recorded"}}) < Threads
    /\ Becomes(p, [trial[p] EXCEPT !.step = "seeding", !.started = 1])
    /\ Harness(p)

\* seed_task_repo, _adopt_history: a history setup.sh built is kept if it obeys four rules.
Adoptable(seed) == seed.committed /\ seed.main /\ seed.clean /\ ~seed.remote
Seeds(seed) == seed.setup \notin {"failed", "late"} /\ (seed.git => Adoptable(seed))

SeedRepo(p, seed) ==
    /\ trial[p].step = "seeding"
    /\ IF Seeds(seed)
       THEN Becomes(p, [trial[p] EXCEPT !.step = "launching"])
       ELSE Becomes(p, Infra(trial[p], "seed"))
    /\ Harness(p)

\* child_env: the operator's variables and settings, the trial's own over them, some removed.
Stripped == {"KITARU_TASK_ID", "SANDBOX_REPO", "SANDBOX_GIT_TOKEN"}
Pinned == {"SANDBOX_WORKSPACE_DIR", "SANDBOX_MODE"}
ChildEnv == [v \in EnvVars |-> IF v \in Stripped THEN "unset" ELSE IF v \in Pinned THEN "trial" ELSE operator[v]]
Place(p) == IF ChildEnv["SANDBOX_WORKSPACE_DIR"] = "operator" THEN Shared ELSE p
IsTrial == \A v \in Stripped : ChildEnv[v] = "unset"

\* _run_agent: a child that is taken for a replay, or clones another repository, ends at once.
Launch(p) ==
    /\ trial[p].step = "launching"
    /\ \/ Becomes(p, [trial[p] EXCEPT !.step = "running", !.ran = TRUE,
                                      !.child = IF IsTrial THEN "working" ELSE "gone"])
       \/ Becomes(p, Infra(trial[p], "run"))
    /\ Harness(p)

Alive(p) == trial[p].child \in {"working", "handing", "reporting"}

\* _wait_with_timeout: the child is gone, or its wall clock has passed, or the grace has.
Returned(p) ==
    /\ trial[p].step \in {"running", "interrupted"} /\ trial[p].child = "gone"
    /\ Becomes(p, [trial[p] EXCEPT !.step = "collecting"])
    /\ Harness(p)

Interrupt(p) ==
    /\ trial[p].step = "running"
    /\ Becomes(p, [trial[p] EXCEPT !.step = "interrupted", !.late = TRUE])
    /\ Harness(p)

\* Mutant: after the grace the interrupt is only sent again.
KillAgain(p) ==
    /\ trial[p].step = "interrupted" /\ Alive(p)
    /\ UNCHANGED trial /\ Harness(p)
Kill(p) ==
    /\ trial[p].step = "interrupted" /\ Alive(p)
    /\ Becomes(p, [trial[p] EXCEPT !.step = "collecting", !.child = "gone"])
    /\ Harness(p)

\* _read_summary, _handback_branch: no summary is an infra error unless the run was late.
Unattributable(t) == t.summary = "unreadable" \/ (t.summary = "absent" /\ ~t.late)
Collect(p) ==
    /\ trial[p].step = "collecting"
    /\ LET t == trial[p]
       IN  IF Unattributable(t)
           THEN Becomes(p, Infra(t, "summary"))
           ELSE Becomes(p, [t EXCEPT !.step = "verifying"])
    /\ Harness(p)

\* _clone_pristine: the branch the summary names, which the repository may lack, or the base.
CloneOf(t) == IF t.summary = "written" /\ t.reported # NoBranch THEN t.pushed ELSE Base

\* grade_checkout: the hidden tests over the tree, and no reward before the Verifier runs.
\* Mutant: the directory of the reward is not emptied first.
OverlaidOnly(tree) == tree \ {TestEdits}
Overlaid(tree) == tree \ {TestEdits, OldReward}

\* What the Verifier may write when it runs on a tree: no reward, one out of range, or a grade.
Rewards(tree) ==
    IF tree \intersect {TestEdits, OldReward} # {} THEN {"one"}
    ELSE {"nothing", "outside", "late"} \union
         IF tree = {} THEN {"zero", "part"} ELSE {"one"}

Classify(reward) == CASE reward = "one" -> "agent_ok" [] reward \in {"zero", "part"} -> "agent_fail"
                      [] OTHER -> "infra_error"

Verify(p) ==
    /\ trial[p].step = "verifying"
    /\ LET t == trial[p]
           tree == CloneOf(t)
       IN  \/ Becomes(p, Infra(t, "clone"))     \* git clone fails, or anything else raises
           \/ /\ tree # NoBranch
              /\ \E status \in {Classify(reward) : reward \in Rewards(Overlaid(tree))} :
                    Becomes(p, Recorded([t EXCEPT !.graded = tree, !.tests = disk[TaskOf(p)],
                                                  !.reason = IF status = "infra_error" THEN "verifier" ELSE "none"],
                                        status))
    /\ Harness(p)

-----------------------------------------------------------------------------
\* The decode run of a trial, and the agent in it.
Child(p) == UNCHANGED <<disk, broken, dataset, operator, job>>

AgentEnds(p, files) ==
    /\ trial[p].child = "working" /\ Becomes(p, [trial[p] EXCEPT !.child = "handing"])
    /\ work' = [work EXCEPT ![Place(p)] = @ \union files]
    /\ Child(p)

\* The hand-back: nothing to ship, or a branch that reaches the Seed Repo or does not.
HandsBack(p) ==
    /\ trial[p].child = "handing"
    /\ LET files == work[Place(p)]
           t == [trial[p] EXCEPT !.child = "reporting"]
       IN  IF files = {} THEN Becomes(p, t)
           ELSE \E reached \in BOOLEAN :
                   Becomes(p, [t EXCEPT !.reported = files, !.pushed = IF reached THEN files ELSE NoBranch])
    /\ UNCHANGED work /\ Child(p)

\* The summary is the last thing the run does; without it the hand-back stays unknown.
Summarizes(p) ==
    /\ trial[p].child = "reporting"
    /\ \E summary \in {"written", "unreadable"} :
          Becomes(p, [trial[p] EXCEPT !.child = "gone", !.summary = summary])
    /\ UNCHANGED work /\ Child(p)

\* The run crashes, or the interrupt reaches its finally clause.
Dies(p) ==
    /\ Alive(p) /\ Becomes(p, [trial[p] EXCEPT !.child = "gone"])
    /\ UNCHANGED work /\ Child(p)

-----------------------------------------------------------------------------
\* trial_payload, _outcome: a trial as the aggregates read it off Opik's rows.
Outcome(t) ==
    LET known == t.summary = "written"
    IN  [status |-> t.status, cost |-> IF known THEN 1 ELSE Unknown, tokens |-> IF known THEN 1 ELSE 0,
         seconds |-> IF t.ran THEN 1 ELSE Unknown, started |-> t.started, finished |-> t.finished]

\* task_trials: the rows of the experiment, grouped by task.
TaskTrials ==
    LET rows(t) == SetToSeq({p \in DOMAIN trial : TaskOf(p) = t})
        grouped(t) == [task |-> t, tier |-> Tier[t],
                       outcomes |-> [i \in DOMAIN rows(t) |-> Outcome(trial[rows(t)[i]])]]
        tasks == SetToSeq({TaskOf(p) : p \in DOMAIN trial})
    IN  [i \in DOMAIN tasks |-> grouped(tasks[i])]

\* evaluate returns when every trial has: the aggregates are computed of its rows.
Report == SummarizeTasks(TaskTrials)

Summarize ==
    /\ job.phase = "running" /\ \A p \in DOMAIN trial : trial[p].step = "recorded"
    /\ job' = [job EXCEPT !.phase = "done"]
    /\ UNCHANGED <<disk, broken, dataset, operator, trial, work>>

HarnessNext(p) ==
    \/ Start(p) \/ (\E seed \in Recipes : SeedRepo(p, seed)) \/ Launch(p)
    \/ Returned(p) \/ Interrupt(p) \/ Kill(p) \/ Collect(p) \/ Verify(p)
ChildNext(p) ==
    \/ \E files \in {{}, {p}, {TestEdits, OldReward}} : AgentEnds(p, files)
    \/ HandsBack(p) \/ Summarizes(p) \/ Dies(p)

BenchNext ==
    \/ \E t \in Tasks : Edit(t)
    \/ \E filter \in Filters : Sync(filter)
    \/ Evaluate \/ Summarize
    \/ \E p \in DOMAIN trial : HarnessNext(p) \/ ChildNext(p)

\* The harness moves on by itself, with its own time-outs; a child need not.
BenchFairness == WF_benchVars(Evaluate \/ Summarize \/ \E p \in DOMAIN trial : HarnessNext(p))

BenchSpec == BenchInit /\ [][BenchNext]_benchVars /\ BenchFairness
-----------------------------------------------------------------------------
\* A trial is won only by its own agent's work: the branch that is graded is the one
\* its run handed back, and the tests and the reward are the Verifier's (trial.py:16-19).
GradeIsEarned == \A p \in DOMAIN trial :
    trial[p].status = "agent_ok" =>
        trial[p].graded = trial[p].pushed /\ trial[p].graded \ {TestEdits, OldReward} = {p}

\* A hung or killed agent is graded: a trial that was stopped leaves the figures only when
\* its summary, the clone or the Verifier fails, and not for a summary it never wrote
\* (trial.py:22-27).
TimeoutIsGraded == \A p \in DOMAIN trial :
    trial[p].late /\ trial[p].status = "infra_error" =>
        trial[p].reason \in {"clone", "verifier"} \/ trial[p].summary = "unreadable"

\* However often a task was edited and synced, a job runs each task it selected as often
\* as asked, on the version that is on disk (benchmark.py:252-256).
FreshAndOnce == job.phase = "done" =>
    \A t \in Tasks :
        LET rows == {p \in DOMAIN trial : TaskOf(p) = t}
        IN  /\ Cardinality(rows) = IF t \in job.selected THEN Trials ELSE 0
            /\ \A p \in rows : dataset[p[1]].version = disk[t]

\* The figures of the report against what they are said to mean: pass@k is the share of
\* the samples of k graded trials that hold a win, and no lost trial is in any of them.
ReportIsHonest == job.phase = "done" =>
    \A i \in DOMAIN TaskTrials :
        LET row == Report.perTask[i]
            outcomes == TaskTrials[i].outcomes
            graded == {j \in DOMAIN outcomes : Graded(outcomes[j])}
            samples(k) == {s \in SUBSET graded : Cardinality(s) = k}
            won(s) == \E j \in s : outcomes[j].status = "agent_ok"
        IN  /\ row.trials = row.graded + row.infra
            /\ \A k \in 1 .. Cardinality(graded) :
                  Equal(PassAtK(GradedPasses(outcomes), k),
                        Frac(Cardinality({s \in samples(k) : won(s)}), Cardinality(samples(k))))
            /\ row.flaky <=> Equal(row.passk, Whole) /\ ~Equal(row.hatk, Whole)

\* Whatever the agents do, a job that runs comes to its report.
JobEnds == job.phase = "running" ~> job.phase = "done"
\* Departures, refuted on the instance of the run or the one named:
\* a run that was stopped by its wall clock is always graded;
EveryTimeoutIsGraded == \A p \in DOMAIN trial : trial[p].late => trial[p].status # "infra_error"
\* only selected tasks are run (with an item of an unselected task that has no checksum);
OnlySelectedRun == \A p \in DOMAIN trial : TaskOf(p) \in job.selected
\* the tests that grade a trial are of the version of its item (with "running" in EditPhases);
GradeIsOfItsItem == \A p \in DOMAIN trial :
    trial[p].tests # NoChecksum => trial[p].tests = dataset[p[1]].version
\* what reached the Seed Repo is what is graded;
PushedWorkIsGraded == \A p \in DOMAIN trial :
    trial[p].graded # NoBranch /\ trial[p].pushed # NoBranch => trial[p].graded = trial[p].pushed
\* the job's pass@1 is a mean over the tasks that have a graded trial (two tasks, one trial).
InfraIsExcluded == job.phase = "done" =>
    LET rows == SelectSeq(Report.perTask, LAMBDA row : row.graded > 0)
    IN  Equal(Report.total.pass1, Mean(Column(rows, "pass1")))
=============================================================================
